--------------------------- MODULE RebalanceRead ----------------------------
(***************************************************************************)
(* A GET of the version while it is moved between nodes: ObjectRead reads  *)
(* the replicas rows, the nodes and the bytes that Rebalance changes.      *)
(***************************************************************************)
EXTENDS Rebalance, Sequences

CONSTANTS Chunks, MaxReadErrors

ASSUME ReadConstants == Chunks \in Nat /\ MaxReadErrors \in Nat

VARIABLE read

INSTANCE ObjectRead

allVars == <<vars, read>>

ReadInit == Init /\ read = NoRead

\* The read's faults count, too.
WithinFaults == errors' + lost' + rots' + read'.errors <= MaxFaults

Both ==
  \/ Next /\ Observe /\ WithinFaults
  \/ ReadNext /\ UNCHANGED vars /\ WithinFaults

ReadSpec == ReadInit /\ [][Both]_allVars
=============================================================================
