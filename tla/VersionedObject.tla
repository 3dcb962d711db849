--------------------------- MODULE VersionedObject ---------------------------
(***************************************************************************)
(* What the gateway promises of one object name: a register written by     *)
(* conditional PUTs, each in one step, until a DELETE.                      *)
(***************************************************************************)
EXTENDS Integers

CONSTANTS Puts, Expected, AnyVersion, NoVersion

VARIABLES state, current, numbers

CurrentNumber == IF current = NoVersion THEN 0 ELSE numbers[current]

Init ==
  /\ state = "none"
  /\ current = NoVersion
  /\ numbers = [p \in Puts |-> 0]

\* A PUT takes effect if it expects the current version, and becomes current.
Put(p) ==
  /\ state \in {"none", "ACTIVE"}
  /\ numbers[p] = 0
  /\ Expected[p] \in {AnyVersion, CurrentNumber}
  /\ state' = "ACTIVE"
  /\ current' = p
  /\ numbers' = [numbers EXCEPT ![p] = CurrentNumber + 1]

\* A DELETE hides the object, then completes; there is no way back.
BeginDelete ==
  /\ state = "ACTIVE"
  /\ state' = "DELETING"
  /\ UNCHANGED <<current, numbers>>

EndDelete ==
  /\ state = "DELETING"
  /\ state' = "DELETED"
  /\ UNCHANGED <<current, numbers>>

Next == BeginDelete \/ EndDelete \/ \E p \in Puts : Put(p)

Spec == Init /\ [][Next]_<<state, current, numbers>>
=============================================================================
