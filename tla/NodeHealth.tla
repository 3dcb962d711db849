----------------------------- MODULE NodeHealth -----------------------------
(***************************************************************************)
(* The life cycle of storage nodes: registration, heartbeats, the failure  *)
(* detector and the reconciliation of nodes that come back (health/,       *)
(* recovery/manager.py, the node operations of metadata/manager.py), with  *)
(* one committed version whose replicas they mark and have repaired.       *)
(*                                                                         *)
(* The services are called as process_node_health calls them, here on a    *)
(* session that lasts, as in HealthScheduler and in the tests: every       *)
(* change is visible to every later step, and tasks may overlap.           *)
(* HealthTask has the task with its own session, which is rolled back.     *)
(*                                                                         *)
(* Times are ages in ticks, counted up to Old.                             *)
(***************************************************************************)
EXTENDS Integers, FiniteSets

CONSTANTS
  Nodes,
  Watched,            \* bound: nodes that are polled and may go down
  Factor,             \* replication_factor
  SuspectAfter,       \* suspect_after_seconds, in ticks
  UnavailableAfter,   \* unavailable_after_seconds, in ticks
  MaxAnswers,         \* bound: answers of a node not ingested yet
  MaxReconciling,     \* bound: reconciliations of a node at a time
  MaxOutages,         \* bound: nodes going down
  MaxDamage           \* bound: copies lost or damaged while their node is down

ASSUME HealthConstants ==
  /\ IsFiniteSet(Nodes) /\ Watched \subseteq Nodes
  /\ Factor \in Nat \ {0}
  /\ SuspectAfter \in Nat \ {0} /\ UnavailableAfter \in Nat
  /\ SuspectAfter < UnavailableAfter
  /\ MaxAnswers \in Nat /\ MaxReconciling \in Nat
  /\ MaxOutages \in Nat /\ MaxDamage \in Nat

\* The oldest age told apart: an answer is ingested before it is that old.
Old == UnavailableAfter + 1
Never == -1

VARIABLES
  node,      \* storage_nodes.status
  beat,      \* the age of last_heartbeat_at, Never if it is null
  replica,   \* replicas.status of the version at each node, "none" without a row
  job,       \* the version's active repair job at each target, and its next step
  source,    \* the source of that job; the node itself without a job
  rec,       \* how many reconciliations of each node are under way
  data,      \* what each node stores of the version
  alive,     \* nodes that are up and reachable
  sent,      \* the ages of each node's answers that are still to be ingested
  outages, damage

rows == <<node, beat, replica, job, source>>
world == <<data, alive, sent, outages, damage>>
vars == <<rows, rec, world>>

NodeStates == {"JOINING", "HEALTHY", "SUSPECT", "UNAVAILABLE", "RECOVERING"}
ReplicaStates ==
  {"none", "HEALTHY", "UNAVAILABLE", "CORRUPTED", "REPAIRING", "COPYING"}
JobSteps == {"none", "created", "PENDING", "delete", "put", "check"}

TypeOK ==
  /\ node \in [Nodes -> NodeStates]
  /\ beat \in [Nodes -> Never .. Old]
  /\ replica \in [Nodes -> ReplicaStates]
  /\ job \in [Nodes -> JobSteps]
  /\ source \in [Nodes -> Nodes]
  /\ rec \in [Nodes -> Nat]
  /\ data \in [Nodes -> {"none", "good", "bad"}]
  /\ alive \subseteq Nodes
  /\ sent \in [Nodes -> SUBSET (0 .. Old)]
  /\ outages \in Nat /\ damage \in Nat

\* _bootstrap_nodes has registered the nodes: HEALTHY those that answered, the
\* rest JOINING.  A PUT has stored the version at Factor HEALTHY nodes, and a
\* migration that failed may have left a COPYING replica at another one.
Init ==
  /\ alive \in {up \in SUBSET Nodes : Nodes \ Watched \subseteq up}
  /\ node = [n \in Nodes |-> IF n \in alive THEN "HEALTHY" ELSE "JOINING"]
  /\ beat = [n \in Nodes |-> Never]
  /\ \E placed \in SUBSET alive, moving, moved \in SUBSET Watched :
       /\ Cardinality(placed) = Factor
       /\ moving \subseteq alive \ placed /\ moved \subseteq moving
       /\ replica = [n \in Nodes |-> IF n \in placed THEN "HEALTHY"
                                     ELSE IF n \in moving THEN "COPYING" ELSE "none"]
       /\ data = [n \in Nodes |-> IF n \in placed \cup moved THEN "good" ELSE "none"]
  /\ job = [n \in Nodes |-> "none"] /\ source = [n \in Nodes |-> n]
  /\ rec = [n \in Nodes |-> 0]
  /\ sent = [n \in Nodes |-> {}]
  /\ outages = 0 /\ damage = 0

-----------------------------------------------------------------------------
(* Repairs *)

Healthy(reps) == {n \in Nodes : reps[n] = "HEALTHY"}

\* _target_for_version, without a preferred replica.
Spare(reps) == {n \in Nodes : node[n] = "HEALTHY" /\ reps[n] = "none"}

\* ... and for the replica of node n: in place, if the node is HEALTHY.
InPlace(n, reps) == IF node[n] = "HEALTHY" THEN {n} ELSE Spare(reps)

\* schedule_for_version raises: no HEALTHY replica, or no target.
Blocked(reps, targets) == Healthy(reps) = {} \/ targets = {}

\* It returns the active job of a target, or creates one with any HEALTHY source.
\* With step "PENDING" the caller dispatches the job; with "created" it does not.
Scheduled(reps, targets, step) ==
  \E target \in targets, from \in Healthy(reps) :
    /\ job' = [job EXCEPT ![target] = IF @ \in {"none", "created"} THEN step ELSE @]
    /\ source' = [source EXCEPT ![target] = IF job[target] = "none" THEN from ELSE @]

\* check_under_replicated_objects.
Scan ==
  /\ Cardinality(Healthy(replica)) < Factor
  /\ ~Blocked(replica, Spare(replica))
  /\ Scheduled(replica, Spare(replica), "PENDING")
  /\ UNCHANGED <<node, beat, replica, rec, world>>

\* run_job, step by step as far as its target is concerned; module Repair has
\* its messages, attempts and workers.  A job that fails is run again, or its
\* attempts are used up.
Finished(n) ==
  job' = [job EXCEPT ![n] = "none"] /\ source' = [source EXCEPT ![n] = n]
Tried(n) ==
  \/ Finished(n)
  \/ job' = [job EXCEPT ![n] = "PENDING"] /\ UNCHANGED source

\* An administrator may run a job that nobody has dispatched.
Begun(n) == job[n] \in {"created", "PENDING"}
Sourced(n) == replica[source[n]] = "HEALTHY"

\* A HEALTHY or COPYING target is refused: the job is left, without a message.
RepairRefused(n) ==
  /\ Begun(n)
  /\ Sourced(n) /\ replica[n] \in {"HEALTHY", "COPYING"}
  /\ job' = [job EXCEPT ![n] = "created"]
  /\ UNCHANGED <<node, beat, replica, source, rec, world>>

\* Without its source, or on a node that is not HEALTHY, the run fails at once.
RepairStarts(n) ==
  /\ Begun(n)
  /\ Sourced(n) => replica[n] \notin {"HEALTHY", "COPYING"}
  /\ replica' = [replica EXCEPT ![n] = IF Sourced(n) THEN "REPAIRING" ELSE @]
  /\ IF Sourced(n) /\ node[n] = "HEALTHY"
     THEN job' = [job EXCEPT ![n] = "delete"] /\ UNCHANGED source ELSE Tried(n)
  /\ UNCHANGED <<node, beat, rec, world>>

\* The source verified, the target's old copy deleted.
RepairDeletes(n) ==
  /\ job[n] = "delete" /\ {n, source[n]} \subseteq alive
  /\ data[source[n]] = "good"
  /\ data' = [data EXCEPT ![n] = "none"]
  /\ job' = [job EXCEPT ![n] = "put"]
  /\ UNCHANGED <<node, beat, replica, source, rec, alive, sent, outages, damage>>

RepairCopies(n) ==
  /\ job[n] = "put" /\ {n, source[n]} \subseteq alive
  /\ data[source[n]] # "none"
  /\ data' = [data EXCEPT ![n] = data[source[n]]]
  /\ job' = [job EXCEPT ![n] = "check"]
  /\ UNCHANGED <<node, beat, replica, source, rec, alive, sent, outages, damage>>

\* The target verified: HEALTHY, whatever its row has become.
RepairMarks(n) ==
  /\ job[n] = "check" /\ n \in alive /\ data[n] = "good"
  /\ replica' = [replica EXCEPT ![n] = "HEALTHY"]
  /\ Finished(n)
  /\ UNCHANGED <<node, beat, rec, world>>

RepairFails(n) ==
  /\ job[n] \in {"delete", "put", "check"}
  /\ LET asked == IF job[n] = "check" THEN n ELSE source[n]
     IN ~({n, asked} \subseteq alive /\ data[asked] = "good")
  /\ Tried(n)
  /\ UNCHANGED <<node, beat, replica, rec, world>>

Repair(n) ==
  \/ RepairRefused(n) \/ RepairStarts(n) \/ RepairDeletes(n)
  \/ RepairCopies(n) \/ RepairMarks(n) \/ RepairFails(n)

-----------------------------------------------------------------------------
(* Heartbeats *)

\* process_node_heartbeat: strictly newer than the stored one.
Accepts(n, age) == beat[n] = Never \/ age < beat[n]

\* Mutant: a heartbeat leaves the suspicion.
KeepsSuspicion(state) ==
  IF state = "JOINING" THEN "HEALTHY"
  ELSE IF state = "UNAVAILABLE" THEN "RECOVERING" ELSE state

\* ingest: what an accepted heartbeat makes of a node.
Revived(state) ==
  IF state \in {"JOINING", "SUSPECT"} THEN "HEALTHY"
  ELSE IF state = "UNAVAILABLE" THEN "RECOVERING" ELSE state

Ingest(n, age) ==
  /\ beat' = [beat EXCEPT ![n] = age]
  /\ node' = [node EXCEPT ![n] = Revived(node[n])]

\* process_node_health calls ingest_and_recover for a node that is UNAVAILABLE,
\* which is RECOVERING after ingest, and plain ingest for any other one.
Reconciles(n) == node[n] = "UNAVAILABLE"

\* One answer, of any task: an accepted heartbeat, and the reconciliation it
\* starts.
Heartbeat(n) ==
  /\ \E age \in sent[n] :
       /\ sent' = [sent EXCEPT ![n] = @ \ {age}]
       /\ IF ~Accepts(n, age) THEN UNCHANGED <<node, beat, rec>>
          ELSE /\ Ingest(n, age)
               /\ Reconciles(n) => rec[n] < MaxReconciling
               /\ rec' = [rec EXCEPT ![n] = IF Reconciles(n) THEN @ + 1 ELSE @]
  /\ UNCHANGED <<replica, job, source, data, alive, outages, damage>>

-----------------------------------------------------------------------------
(* The failure detector *)

Overdue(n, limit) == beat[n] # Never /\ beat[n] >= limit

\* Mutant: RECOVERING nodes are left to their heartbeats.
SuspectHealthyOnly(n) ==
  /\ node[n] = "HEALTHY"
  /\ Overdue(n, SuspectAfter)
  /\ node' = [node EXCEPT ![n] = "SUSPECT"]
  /\ UNCHANGED <<beat, replica, job, source, rec, world>>

\* _evaluate, for HEALTHY and for RECOVERING nodes.
Suspect(n) ==
  /\ node[n] \in {"HEALTHY", "RECOVERING"}
  /\ Overdue(n, SuspectAfter)
  /\ node' = [node EXCEPT ![n] = "SUSPECT"]
  /\ UNCHANGED <<beat, replica, job, source, rec, world>>

\* Mutant: the node's replica is FAILED, as after a write that failed.
LostFailed(n) == [replica EXCEPT ![n] = IF @ = "HEALTHY" THEN "FAILED" ELSE @]

\* Mutant: the replica of a lost node goes on counting.
NothingLost(n) == replica

\* _schedule_repairs_for_node: the node's HEALTHY replica is UNAVAILABLE.
LostReplicas(n) ==
  [replica EXCEPT ![n] = IF @ = "HEALTHY" THEN "UNAVAILABLE" ELSE @]

\* ... for SUSPECT nodes; a blocked repair is logged and left, another one is
\* dispatched by the task.
MarkUnavailable(n) ==
  LET reps == LostReplicas(n)
  IN /\ node[n] = "SUSPECT"
     /\ Overdue(n, UnavailableAfter)
     /\ node' = [node EXCEPT ![n] = "UNAVAILABLE"]
     /\ replica' = reps
     /\ IF \/ reps = replica
           \/ Cardinality(Healthy(reps)) >= Factor
           \/ Blocked(reps, Spare(reps))
        THEN UNCHANGED <<job, source>> ELSE Scheduled(reps, Spare(reps), "PENDING")
     /\ UNCHANGED <<beat, rec, world>>

Evaluate(n) == Suspect(n) \/ MarkUnavailable(n)

-----------------------------------------------------------------------------
(* Reconciliation: reconcile_and_mark_healthy *)

Ends(n) == rec' = [rec EXCEPT ![n] = @ - 1] /\ UNCHANGED <<beat, world>>

\* Mutant: HEALTHY whatever the detector has made of the node meanwhile.
ReinstateAlways(n) == node' = [node EXCEPT ![n] = "HEALTHY"]

\* Complete: HEALTHY, unless the node is not RECOVERING any more.
Reinstate(n) ==
  node' = [node EXCEPT ![n] = IF @ = "RECOVERING" THEN "HEALTHY" ELSE @]

ReconcileNothing(n) ==
  /\ rec[n] > 0
  /\ replica[n] = "none"
  /\ Reinstate(n) /\ Ends(n)
  /\ UNCHANGED <<replica, job, source>>

\* The node verifies its copy: the replica is HEALTHY.
ReconcileVerified(n) ==
  /\ rec[n] > 0 /\ n \in alive
  /\ replica[n] \notin {"none", "COPYING"} /\ data[n] = "good"
  /\ replica' = [replica EXCEPT ![n] = "HEALTHY"]
  /\ Reinstate(n) /\ Ends(n)
  /\ UNCHANGED <<job, source>>

\* A COPYING replica cannot become HEALTHY here: InvalidState ends the task.
ReconcileRaises(n) ==
  /\ rec[n] > 0 /\ n \in alive
  /\ replica[n] = "COPYING" /\ data[n] = "good"
  /\ Ends(n)
  /\ UNCHANGED <<node, replica, job, source>>

\* The copy is gone, or damaged: a HEALTHY replica is marked and a repair is
\* scheduled, which nobody dispatches.  The node is complete with it, if that is
\* possible.
ReconcileLost(n) ==
  LET reps == [replica EXCEPT ![n] =
                 IF @ # "HEALTHY" THEN @
                 ELSE IF data[n] = "none" THEN "UNAVAILABLE" ELSE "CORRUPTED"]
  IN /\ rec[n] > 0 /\ n \in alive
     /\ replica[n] # "none" /\ data[n] # "good"
     /\ replica' = reps
     /\ IF Blocked(reps, InPlace(n, reps)) THEN UNCHANGED <<node, job, source>>
        ELSE Reinstate(n) /\ Scheduled(reps, InPlace(n, reps), "created")
     /\ Ends(n)

\* Mutant: unreachable is taken for corrupted.
UnreachableIsCorrupted(n) ==
  /\ rec[n] > 0
  /\ n \notin alive \/ data[n] = "bad"
  /\ replica[n] # "none"
  /\ replica' = [replica EXCEPT ![n] = IF @ = "HEALTHY" THEN "CORRUPTED" ELSE @]
  /\ Ends(n)
  /\ UNCHANGED <<node, job, source>>

\* The node cannot be reached, or its copy is damaged so that the answer has no
\* checksum: incomplete, the node stays RECOVERING.
ReconcileUnreachable(n) ==
  /\ rec[n] > 0
  /\ n \notin alive \/ data[n] = "bad"
  /\ replica[n] # "none"
  /\ Ends(n)
  /\ UNCHANGED <<node, replica, job, source>>

Reconcile(n) ==
  \/ ReconcileNothing(n) \/ ReconcileVerified(n) \/ ReconcileRaises(n)
  \/ ReconcileLost(n) \/ ReconcileUnreachable(n)

-----------------------------------------------------------------------------
(* The nodes and the network *)

Older(age) == IF age = Never \/ age = Old THEN age ELSE age + 1

\* Time passes; an answer that gets too old is lost, with its task.
Tick ==
  /\ beat' = [n \in Nodes |-> Older(beat[n])]
  /\ sent' = [n \in Nodes |-> {age + 1 : age \in {a \in sent[n] : a + 1 < Old}}]
  /\ UNCHANGED <<node, replica, job, source, rec, data, alive, outages, damage>>

\* poll_node: a node that is up answers, and the payload has the time of the
\* answer; an error is no heartbeat.
PollNode(n) ==
  /\ n \in alive
  /\ Cardinality(sent[n]) < MaxAnswers
  /\ sent' = [sent EXCEPT ![n] = @ \cup {0}]
  /\ UNCHANGED <<rows, rec, data, alive, outages, damage>>

GoesDown(n) ==
  /\ n \in alive /\ outages < MaxOutages
  /\ alive' = alive \ {n}
  /\ outages' = outages + 1
  /\ UNCHANGED <<rows, rec, data, sent, damage>>

\* A node comes back, maybe without its copy or with a damaged one.
ComesBack(n) ==
  /\ n \notin alive
  /\ alive' = alive \cup {n}
  /\ \/ UNCHANGED <<data, damage>>
     \/ /\ data[n] = "good" /\ damage < MaxDamage
        /\ data' \in {[data EXCEPT ![n] = c] : c \in {"none", "bad"}}
        /\ damage' = damage + 1
  /\ UNCHANGED <<rows, rec, sent, outages>>

World == Tick \/ \E n \in Watched : PollNode(n) \/ GoesDown(n) \/ ComesBack(n)

Next ==
  \/ World \/ Scan
  \/ \E n \in Nodes :
       Heartbeat(n) \/ Evaluate(n) \/ Reconcile(n) \/ Repair(n)

\* Celery beat starts its tasks for ever: the detector looks at every node, the
\* scan at the version.  Workers run what is dispatched to an end, as calls to
\* nodes time out.
Fairness ==
  /\ WF_vars(Tick) /\ WF_vars(Scan)
  /\ \A n \in Nodes : WF_vars(Evaluate(n)) /\ WF_vars(job[n] # "created" /\ Repair(n))

Spec == Init /\ [][Next]_vars
FairSpec == Spec /\ Fairness

-----------------------------------------------------------------------------
(* Properties *)

\* What the detector says of a node fits its silence: it is SUSPECT or
\* UNAVAILABLE only while its last heartbeat is that old, however late and in
\* whatever order answers are ingested.
StatusMatchesSilence ==
  \A n \in Nodes :
    /\ node[n] = "SUSPECT" => beat[n] >= SuspectAfter
    /\ node[n] = "UNAVAILABLE" => beat[n] >= UnavailableAfter

\* A suspicion ends only with a heartbeat newer than the silence it stands for:
\* a reconciliation that outlives the detector's verdict on its node does not
\* overrule it (reconcile_and_mark_healthy looks at the node again).
SuspicionEndsByHeartbeat ==
  [][\A n \in Nodes :
       /\ node[n] \in {"SUSPECT", "UNAVAILABLE"}
       /\ node'[n] \notin {"SUSPECT", "UNAVAILABLE"}
       => beat'[n] # Never /\ beat'[n] < beat[n]]_vars

\* "Temporary node unreachability is not classified as corruption"
\* (README.md:1752): as long as no copy is lost or damaged, no replica is
\* CORRUPTED, whatever outages, reconciliations and repairs there are.
UnreachableNotCorrupted ==
  damage = 0 => \A n \in Nodes : replica[n] # "CORRUPTED"

\* A node that stays away after a heartbeat is UNAVAILABLE in the end, also if
\* late heartbeats revive it for a while ("Convert missed heartbeats into
\* SUSPECT/UNAVAILABLE states", health/failure_detector.py:35).
SilenceNoticed ==
  \A n \in Watched :
    <>[](n \notin alive /\ beat[n] # Never) => <>[](node[n] = "UNAVAILABLE")

\* ... and its copy is replaced: if no other node ever fails, Factor of them hold
\* a HEALTHY replica and its data in the end, however often the node was away
\* before and whatever became of its copy, its reconciliations and its repairs.
LossRepaired ==
  \A n \in {m \in Nodes : Watched = {m}} :
    <>[](alive = Nodes \ {n} /\ beat[n] # Never) =>
      <>[](Cardinality({m \in alive : replica[m] = "HEALTHY" /\ data[m] = "good"})
             >= Factor)
=============================================================================
