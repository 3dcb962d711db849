----------------------------- MODULE ObjectStore -----------------------------
(***************************************************************************)
(* What a storage node promises its clients: a map from keys to immutable  *)
(* object versions.  A version appears whole in one step and only under a  *)
(* key that holds nothing; it is damaged or disappears only while a delete *)
(* of its own key is under way; a damaged version never becomes whole      *)
(* again and one version never replaces another.                           *)
(***************************************************************************)
CONSTANTS Keys, Versions, NoKey, Absent, Damaged

VARIABLES store, removing

TypeOK ==
  /\ store \in [Keys -> Versions \cup {Absent, Damaged}]
  /\ removing \in Keys \cup {NoKey}

Init ==
  /\ store = [k \in Keys |-> Absent]
  /\ removing = NoKey

Put(k, v) ==
  /\ store[k] = Absent
  /\ \A j \in Keys : store[j] # v
  /\ store' = [store EXCEPT ![k] = v]
  /\ UNCHANGED removing

StartDelete(k) ==
  /\ removing = NoKey
  /\ store[k] # Absent
  /\ removing' = k
  /\ UNCHANGED store

Take(k) ==
  /\ removing = k
  /\ \/ store[k] # Absent /\ store' = [store EXCEPT ![k] = Damaged]
     \/ store' = [store EXCEPT ![k] = Absent]
  /\ UNCHANGED removing

EndDelete ==
  /\ removing' = NoKey
  /\ UNCHANGED store

Next ==
  \/ \E k \in Keys, v \in Versions : Put(k, v)
  \/ \E k \in Keys : StartDelete(k) \/ Take(k)
  \/ EndDelete

Spec == Init /\ [][Next]_<<store, removing>>
=============================================================================
