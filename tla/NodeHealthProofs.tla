-------------------------- MODULE NodeHealthProofs --------------------------
(***************************************************************************)
(* Safety of the node life cycle, for any number of nodes, thresholds,     *)
(* outages and reconciliations.  StatusMatchesSilence is inductive with    *)
(* the types: a suspicion is raised on an age that only grows, and every   *)
(* accepted heartbeat, the only thing that lowers the age, also ends the   *)
(* suspicion.  UnreachableNotCorrupted needs, in addition, that no copy is *)
(* bad before the first damage.                                            *)
(***************************************************************************)
EXTENDS NodeHealth, TLAPS

\* Default provers, in the order they are tried, with time limits in seconds.
USE SMTT(60), ZenonT(60), SMTT(90), SMTT(120)

Inv == TypeOK /\ StatusMatchesSilence

\* Ages stay ages when time passes, and never go down.
LEMMA OlderAge ==
  ASSUME NEW age \in Never .. Old
  PROVE  Older(age) \in Never .. Old /\ Older(age) >= age
  BY HealthConstants DEF Older, Never, Old

LEMMA InitInv == Init => Inv
  <1> SUFFICES ASSUME Init PROVE Inv
    OBVIOUS
  <1>1. Never \in Never .. Old
    BY HealthConstants DEF Never, Old
  <1>2. PICK placed \in SUBSET alive, moving, moved \in SUBSET Watched :
          /\ replica = [n \in Nodes |-> IF n \in placed THEN "HEALTHY"
                                        ELSE IF n \in moving THEN "COPYING" ELSE "none"]
          /\ data = [n \in Nodes |-> IF n \in placed \cup moved THEN "good" ELSE "none"]
    BY DEF Init
  <1>3. TypeOK
    BY <1>1, <1>2 DEF Init, TypeOK, NodeStates, ReplicaStates, JobSteps
  <1>4. StatusMatchesSilence
    BY DEF Init, StatusMatchesSilence
  <1> QED BY <1>3, <1>4 DEF Inv

\* What the end of a reconciliation leaves alone, and the types it keeps.
LEMMA EndsTypes ==
  ASSUME TypeOK, NEW n \in Nodes, rec[n] > 0, Ends(n)
  PROVE  /\ rec' \in [Nodes -> Nat]
         /\ UNCHANGED <<beat, data, alive, sent, outages, damage>>
  BY DEF Ends, world, TypeOK

\* What a complete reconciliation does to the status of its node.
LEMMA ReinstateStatus ==
  ASSUME TypeOK, NEW n \in Nodes, Reinstate(n)
  PROVE  /\ node' \in [Nodes -> NodeStates]
         /\ \A m \in Nodes : node'[m] # node[m] =>
                             node[m] = "RECOVERING" /\ node'[m] = "HEALTHY"
  BY DEF Reinstate, TypeOK, NodeStates

\* A scheduled repair is a job row of a node, with a source.
LEMMA ScheduledTypes ==
  ASSUME TypeOK, NEW reps, NEW targets \in SUBSET Nodes,
         NEW step \in {"created", "PENDING"}, Scheduled(reps, targets, step)
  PROVE  job' \in [Nodes -> JobSteps] /\ source' \in [Nodes -> Nodes]
  BY DEF Scheduled, Healthy, TypeOK, JobSteps

LEMMA SpareNodes ==
  ASSUME NEW n \in Nodes, NEW reps
  PROVE  Spare(reps) \subseteq Nodes /\ InPlace(n, reps) \subseteq Nodes
  BY DEF Spare, InPlace

LEMMA HeartbeatInv ==
  ASSUME Inv, NEW n \in Nodes, Heartbeat(n)
  PROVE  Inv'
  <1> USE DEF Inv
  <1>1. PICK age \in sent[n] :
          /\ sent' = [sent EXCEPT ![n] = @ \ {age}]
          /\ \/ UNCHANGED <<node, beat, rec>>
             \/ /\ Ingest(n, age)
                /\ rec' = [rec EXCEPT ![n] = IF Reconciles(n) THEN @ + 1 ELSE @]
    BY DEF Heartbeat
  <1>2. age \in Never .. Old
    BY HealthConstants DEF TypeOK, Never, Old
  <1>3. sent' \in [Nodes -> SUBSET (0 .. Old)] /\ rec' \in [Nodes -> Nat]
    BY <1>1 DEF TypeOK
  <1>4. UNCHANGED <<replica, job, source, data, alive, outages, damage>>
    BY DEF Heartbeat
  <1>5. CASE UNCHANGED <<node, beat>>
    BY <1>3, <1>4, <1>5 DEF TypeOK, StatusMatchesSilence
  <1>6. CASE Ingest(n, age)
    <2>1. /\ beat' \in [Nodes -> Never .. Old] /\ node' \in [Nodes -> NodeStates]
          /\ node'[n] \notin {"SUSPECT", "UNAVAILABLE"}
          /\ \A m \in Nodes \ {n} : node'[m] = node[m] /\ beat'[m] = beat[m]
      BY <1>2, <1>6 DEF Ingest, Revived, TypeOK, NodeStates
    <2>2. TypeOK'
      BY <1>3, <1>4, <2>1 DEF TypeOK
    <2>3. StatusMatchesSilence'
      BY <2>1 DEF StatusMatchesSilence
    <2> QED BY <2>2, <2>3
  <1> QED BY <1>1, <1>5, <1>6

LEMMA EvaluateInv ==
  ASSUME Inv, NEW n \in Nodes, Evaluate(n)
  PROVE  Inv'
  <1> USE DEF Inv
  <1>1. CASE Suspect(n)
    BY <1>1 DEF Suspect, Overdue, TypeOK, NodeStates, StatusMatchesSilence, world
  <1>2. CASE MarkUnavailable(n)
    <2>1. /\ UNCHANGED <<beat, rec, data, alive, sent, outages, damage>>
          /\ node' = [node EXCEPT ![n] = "UNAVAILABLE"]
          /\ beat[n] >= UnavailableAfter
          /\ replica' = LostReplicas(n)
      BY <1>2 DEF MarkUnavailable, Overdue, world
    <2>2. \/ UNCHANGED <<job, source>>
          \/ \E reps : Scheduled(reps, Spare(reps), "PENDING")
      BY Zenon, <1>2 DEF MarkUnavailable
    <2>3. job' \in [Nodes -> JobSteps] /\ source' \in [Nodes -> Nodes]
      BY <2>2, SpareNodes, ScheduledTypes DEF TypeOK
    <2>4. replica' \in [Nodes -> ReplicaStates]
      BY <2>1 DEF LostReplicas, TypeOK, ReplicaStates
    <2>5. TypeOK'
      BY Zenon, <2>1, <2>3, <2>4 DEF TypeOK, NodeStates
    <2>6. StatusMatchesSilence'
      BY <2>1 DEF TypeOK, StatusMatchesSilence
    <2> QED BY <2>5, <2>6
  <1> QED BY <1>1, <1>2 DEF Evaluate

\* What a reconciliation of node n may do to the rows.
LEMMA ReconcileRows ==
  ASSUME NEW n \in Nodes, Reconcile(n)
  PROVE  /\ rec[n] > 0 /\ Ends(n)
         /\ node' = node \/ Reinstate(n)
         /\ \/ UNCHANGED <<job, source>>
            \/ \E reps : Scheduled(reps, InPlace(n, reps), "created")
         /\ replica' = replica \/ \E to \in ReplicaStates \cup {replica[n]} :
                                   replica' = [replica EXCEPT ![n] = to]
  <1>1. CASE ReconcileNothing(n)
    BY <1>1 DEF ReconcileNothing
  <1>2. CASE ReconcileVerified(n)
    BY <1>2 DEF ReconcileVerified, ReplicaStates
  <1>3. CASE ReconcileRaises(n)
    BY <1>3 DEF ReconcileRaises
  <1>4. CASE ReconcileLost(n)
    BY Zenon, <1>4 DEF ReconcileLost, ReplicaStates
  <1>5. CASE ReconcileUnreachable(n)
    BY <1>5 DEF ReconcileUnreachable
  <1> QED BY <1>1, <1>2, <1>3, <1>4, <1>5 DEF Reconcile

LEMMA ReconcileInv ==
  ASSUME Inv, NEW n \in Nodes, Reconcile(n)
  PROVE  Inv'
  <1> USE DEF Inv
  <1>1. /\ rec' \in [Nodes -> Nat]
        /\ UNCHANGED <<beat, data, alive, sent, outages, damage>>
    BY ReconcileRows, EndsTypes
  <1>2. /\ node' \in [Nodes -> NodeStates]
        /\ \A m \in Nodes : node'[m] \in {node[m], "HEALTHY"}
    BY ReconcileRows, ReinstateStatus DEF TypeOK
  <1>3. job' \in [Nodes -> JobSteps] /\ source' \in [Nodes -> Nodes]
    BY ReconcileRows, SpareNodes, ScheduledTypes DEF TypeOK
  <1>4. replica' \in [Nodes -> ReplicaStates]
    BY ReconcileRows DEF TypeOK
  <1>5. TypeOK'
    BY <1>1, <1>2, <1>3, <1>4 DEF TypeOK
  <1>6. StatusMatchesSilence'
    BY <1>1, <1>2 DEF StatusMatchesSilence
  <1> QED BY <1>5, <1>6

LEMMA RepairInv ==
  ASSUME Inv, NEW n \in Nodes, Repair(n)
  PROVE  Inv'
  <1> USE DEF Inv
  <1>1. UNCHANGED <<node, beat, rec, alive, sent, outages, damage>>
    BY DEF Repair, RepairRefused, RepairStarts, RepairDeletes, RepairCopies,
           RepairMarks, RepairFails, world
  <1>2. job' \in [Nodes -> JobSteps] /\ source' \in [Nodes -> Nodes]
    BY DEF Repair, RepairRefused, RepairStarts, RepairDeletes, RepairCopies,
           RepairMarks, RepairFails, Tried, Finished, TypeOK, JobSteps
  <1>3. data' \in [Nodes -> {"none", "good", "bad"}] /\ replica' \in [Nodes -> ReplicaStates]
    BY DEF Repair, RepairRefused, RepairStarts, RepairDeletes, RepairCopies,
           RepairMarks, RepairFails, world, TypeOK, ReplicaStates
  <1>4. TypeOK'
    BY <1>1, <1>2, <1>3 DEF TypeOK
  <1>5. StatusMatchesSilence'
    BY <1>1 DEF StatusMatchesSilence
  <1> QED BY <1>4, <1>5

LEMMA ScanInv ==
  ASSUME Inv, Scan
  PROVE  Inv'
  <1> USE DEF Inv
  <1>1. UNCHANGED <<node, beat, replica, rec, data, alive, sent, outages, damage>>
    BY DEF Scan, world
  <1>2. job' \in [Nodes -> JobSteps] /\ source' \in [Nodes -> Nodes]
    BY ScheduledTypes DEF Scan, Spare
  <1> QED BY <1>1, <1>2 DEF TypeOK, StatusMatchesSilence

LEMMA TickInv ==
  ASSUME Inv, Tick
  PROVE  Inv'
  <1> USE DEF Inv
  <1>1. beat' \in [Nodes -> Never .. Old] /\ \A n \in Nodes : beat'[n] >= beat[n]
    BY OlderAge DEF Tick, TypeOK
  <1>2. sent' \in [Nodes -> SUBSET (0 .. Old)]
    BY HealthConstants DEF Tick, TypeOK, Old
  <1>3. TypeOK'
    BY <1>1, <1>2 DEF Tick, TypeOK
  <1>4. StatusMatchesSilence'
    BY <1>1, HealthConstants DEF Tick, TypeOK, StatusMatchesSilence, Never, Old
  <1> QED BY <1>3, <1>4

\* The other steps leave the rows alone.
LEMMA OtherInv ==
  ASSUME Inv, NEW n \in Nodes, PollNode(n) \/ GoesDown(n) \/ ComesBack(n)
  PROVE  Inv'
  <1> USE DEF Inv
  <1>1. UNCHANGED <<node, beat, replica, job, source, rec>>
    BY DEF PollNode, GoesDown, ComesBack, rows
  <1>2. sent' \in [Nodes -> SUBSET (0 .. Old)] /\ alive' \subseteq Nodes
    BY HealthConstants DEF PollNode, GoesDown, ComesBack, TypeOK, Old
  <1>3. data' \in [Nodes -> {"none", "good", "bad"}] /\ damage' \in Nat /\ outages' \in Nat
    BY DEF PollNode, GoesDown, ComesBack, TypeOK
  <1>4. TypeOK'
    BY <1>1, <1>2, <1>3 DEF TypeOK
  <1>5. StatusMatchesSilence'
    BY <1>1 DEF StatusMatchesSilence
  <1> QED BY <1>4, <1>5

\* The inductive invariant of the node life cycle.
THEOREM HealthInductive == Spec => []Inv
  <1>1. Inv /\ [Next]_vars => Inv'
    <2> SUFFICES ASSUME Inv, [Next]_vars PROVE Inv'
      OBVIOUS
    <2>1. CASE Tick \/ Scan
      BY <2>1, TickInv, ScanInv
    <2>2. CASE \E n \in Watched : PollNode(n) \/ GoesDown(n) \/ ComesBack(n)
      BY <2>2, OtherInv, HealthConstants
    <2>3. CASE \E n \in Nodes : Heartbeat(n) \/ Evaluate(n) \/ Reconcile(n) \/ Repair(n)
      BY <2>3, HeartbeatInv, EvaluateInv, ReconcileInv, RepairInv
    <2>4. CASE UNCHANGED vars
      BY <2>4 DEF vars, rows, world, Inv, TypeOK, StatusMatchesSilence
    <2> QED BY <2>1, <2>2, <2>3, <2>4 DEF Next, World
  <1> QED BY InitInv, <1>1, PTL DEF Spec

\* The rows, answers and nodes keep their types.
THEOREM HealthTypes == Spec => []TypeOK
  BY HealthInductive, PTL DEF Inv

\* A node is SUSPECT or UNAVAILABLE only while its silence is that long, however
\* late and in whatever order answers come (FailureDetector, HeartbeatService).
THEOREM HealthStatusMatchesSilence == Spec => []StatusMatchesSilence
  BY HealthInductive, PTL DEF Inv

-----------------------------------------------------------------------------
(* The end of a suspicion *)

\* Only an accepted answer ends the suspicion of a node, and it is newer than
\* the one the suspicion rests on (ingest, reconcile_and_mark_healthy).
THEOREM HealthSuspicionEnds == Spec => SuspicionEndsByHeartbeat
  <1>1. Inv /\ [Next]_vars =>
          [\A n \in Nodes :
             /\ node[n] \in {"SUSPECT", "UNAVAILABLE"}
             /\ node'[n] \notin {"SUSPECT", "UNAVAILABLE"}
             => beat'[n] # Never /\ beat'[n] < beat[n]]_vars
    <2> SUFFICES ASSUME Inv, Next, NEW m \in Nodes,
                        node[m] \in {"SUSPECT", "UNAVAILABLE"},
                        node'[m] \notin {"SUSPECT", "UNAVAILABLE"}
                 PROVE  beat'[m] # Never /\ beat'[m] < beat[m]
      OBVIOUS
    <2>1. CASE World \/ Scan
      BY <2>1 DEF World, Scan, Tick, PollNode, GoesDown, ComesBack, rows
    <2>2. CASE \E n \in Nodes : Evaluate(n) \/ Repair(n)
      BY <2>2 DEF Evaluate, Suspect, MarkUnavailable, Repair, RepairRefused, RepairStarts,
                  RepairDeletes, RepairCopies, RepairMarks, RepairFails, Inv, TypeOK
    <2>3. CASE \E n \in Nodes : Reconcile(n)
      BY <2>3, ReconcileRows, ReinstateStatus DEF Inv
    <2>4. CASE \E n \in Nodes : Heartbeat(n)
      <3>1. PICK n \in Nodes : \E age \in sent[n] : Accepts(n, age) /\ Ingest(n, age)
        BY <2>4 DEF Heartbeat
      <3> PICK age \in sent[n] : Accepts(n, age) /\ Ingest(n, age)
        BY <3>1
      <3>2. m = n /\ beat'[n] = age
        BY DEF Ingest, Inv, TypeOK
      <3>3. beat[m] >= SuspectAfter
        BY HealthConstants DEF Inv, StatusMatchesSilence, TypeOK, Never, Old
      <3> QED BY <3>2, <3>3, HealthConstants DEF Accepts, Inv, TypeOK, Never, Old
    <2> QED BY <2>1, <2>2, <2>3, <2>4 DEF Next
  <1> QED BY <1>1, HealthInductive, PTL DEF Spec, SuspicionEndsByHeartbeat

-----------------------------------------------------------------------------
(* Unreachable is not corrupted *)

Undamaged ==
  damage = 0 => \A n \in Nodes : data[n] # "bad" /\ replica[n] # "CORRUPTED"

LEMMA UndamagedRepair ==
  ASSUME TypeOK, Undamaged, NEW n \in Nodes, Repair(n)
  PROVE  Undamaged'
  BY DEF Repair, RepairRefused, RepairStarts, RepairDeletes, RepairCopies,
         RepairMarks, RepairFails, world, TypeOK, Undamaged

LEMMA UndamagedReconcile ==
  ASSUME TypeOK, Undamaged, NEW n \in Nodes, Reconcile(n)
  PROVE  Undamaged'
  <1>1. UNCHANGED <<data, damage>>
    BY ReconcileRows, EndsTypes
  <1>2. CASE ReconcileNothing(n) \/ ReconcileRaises(n) \/ ReconcileUnreachable(n)
    BY <1>1, <1>2 DEF ReconcileNothing, ReconcileRaises, ReconcileUnreachable, Undamaged
  <1>3. CASE ReconcileVerified(n)
    BY <1>1, <1>3 DEF ReconcileVerified, Undamaged, TypeOK
  <1>4. CASE ReconcileLost(n)
    <2>1. replica' = [replica EXCEPT ![n] =
                        IF @ # "HEALTHY" THEN @
                        ELSE IF data[n] = "none" THEN "UNAVAILABLE" ELSE "CORRUPTED"]
          /\ data[n] # "good"
      BY <1>4 DEF ReconcileLost
    <2> QED BY <1>1, <2>1 DEF Undamaged, TypeOK
  <1> QED BY <1>2, <1>3, <1>4 DEF Reconcile

\* No outage, reconciliation or repair makes a replica CORRUPTED as long as no
\* copy is lost or damaged (reconcile_node's except clauses).
THEOREM HealthNotCorrupted == Spec => []UnreachableNotCorrupted
  <1>1. Init => Undamaged
    BY DEF Init, Undamaged
  <1>2. TypeOK /\ Undamaged /\ [Next]_vars => Undamaged'
    <2> SUFFICES ASSUME TypeOK, Undamaged, [Next]_vars PROVE Undamaged'
      OBVIOUS
    <2>1. CASE World \/ Scan
      BY <2>1 DEF World, Scan, Tick, PollNode, GoesDown, ComesBack, rows, world, TypeOK, Undamaged
    <2>2. CASE \E n \in Nodes : Heartbeat(n)
      BY <2>2 DEF Heartbeat, Undamaged
    <2>3. CASE \E n \in Nodes : Evaluate(n)
      BY <2>3 DEF Evaluate, Suspect, MarkUnavailable, LostReplicas, world, TypeOK, Undamaged
    <2>4. CASE \E n \in Nodes : Reconcile(n) \/ Repair(n)
      BY <2>4, UndamagedReconcile, UndamagedRepair
    <2>5. CASE UNCHANGED vars
      BY <2>5 DEF vars, rows, world, Undamaged
    <2> QED BY <2>1, <2>2, <2>3, <2>4, <2>5 DEF Next
  <1>3. Undamaged => UnreachableNotCorrupted
    BY DEF Undamaged, UnreachableNotCorrupted
  <1> QED BY <1>1, <1>2, <1>3, HealthTypes, PTL DEF Spec
=============================================================================
