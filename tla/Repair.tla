------------------------------- MODULE Repair -------------------------------
(***************************************************************************)
(* Repair of one committed version: scheduling, the repair_version task    *)
(* and its job rows (repair/manager.py, worker/tasks.py), with the         *)
(* integrity check that finds corrupted replicas (integrity/manager.py).   *)
(*                                                                         *)
(* A task is a Celery message and its execution: it is acknowledged late,  *)
(* so a worker that dies puts it back on the queue.  Nothing ties a job to *)
(* one task: a scan dispatches an active job again, and run_job takes a    *)
(* RUNNING job, so tasks of one job run side by side.  The first           *)
(* transaction of run_job holds the job row from its first statement to    *)
(* its commit and is one action; after it every node call is one action,   *)
(* and the session goes on using the job and replica it read then.         *)
(***************************************************************************)
EXTENDS Integers, FiniteSets

CONSTANTS
  Nodes,
  Jobs,          \* bound: repair_jobs rows
  Tasks,         \* bound: messages queued or running at a time
  Workers,       \* worker_concurrency: tasks running at a time
  Checks,        \* bound: integrity checks of a replica at a time
  Factor,        \* replication_factor
  Quorum,        \* write_quorum: HEALTHY copies a PUT leaves at least
  MaxAttempts,   \* max_attempts; a message is retried MaxAttempts - 1 times
  MaxErrors,     \* bound: failing calls, lost workers and lost messages
  MaxRot,        \* bound: copies damaged on disk
  NoNode, NoJob

ASSUME RepairConstants ==
  /\ NoNode \notin Nodes
  /\ NoJob \notin Jobs
  /\ IsFiniteSet(Nodes) /\ IsFiniteSet(Tasks)
  /\ Factor \in Nat /\ Quorum \in 1 .. Factor
  /\ MaxAttempts \in Nat \ {0} /\ Workers \in Nat \ {0}
  /\ MaxErrors \in Nat /\ MaxRot \in Nat

VARIABLES
  status,   \* replicas.status at each node, "none" without a row
  data,     \* what each node stores of the version
  healthy,  \* nodes whose storage_nodes.status is HEALTHY; the rest are JOINING
  job,      \* the repair_jobs rows
  task,     \* the messages and where their execution is
  plan,     \* a scheduler between looking for an active job and inserting
  check,    \* the integrity checks: the replica's node and what was measured
  intact,   \* history: nodes the PUT stored a copy at, undamaged since
  errors, rots

vars == <<status, data, healthy, job, task, plan, check, intact, errors, rots>>

ReplicaStates == {"none", "HEALTHY", "FAILED", "REPAIRING", "CORRUPTED"}
Contents == {"none", "good", "bad"}
Statuses == {"none", "PENDING", "RUNNING", "SUCCEEDED", "FAILED"}
Points == {"free", "queued", "verify", "delete", "put", "check", "mark", "close"}

NoEntry == [status |-> "none", source |-> NoNode, target |-> NoNode,
            attempts |-> 0]
NoTask == [pc |-> "free", job |-> NoJob, retries |-> 0, attempts |-> 0]
Message(j, n) == [pc |-> "queued", job |-> j, retries |-> n, attempts |-> 0]
NoPlan == [source |-> NoNode, target |-> NoNode]
NoCheck == [node |-> NoNode, point |-> "idle"]

TypeOK ==
  /\ status \in [Nodes -> ReplicaStates]
  /\ data \in [Nodes -> Contents]
  /\ healthy \in SUBSET Nodes
  /\ job \in [Jobs -> [status : Statuses, source : Nodes \cup {NoNode},
                       target : Nodes \cup {NoNode}, attempts : Nat]]
  /\ task \in [Tasks -> [pc : Points, job : Jobs \cup {NoJob},
                         retries : Nat, attempts : Nat]]
  /\ plan \in [source : Nodes \cup {NoNode}, target : Nodes \cup {NoNode}]
  /\ check \in [Checks -> [node : Nodes \cup {NoNode},
                           point : {"idle", "read", "mismatch"}]]
  /\ intact \in SUBSET Nodes
  /\ errors \in Nat /\ rots \in Nat

\* A PUT has committed the version: Quorum or more verified copies, FAILED
\* replicas at the rest of its Factor nodes, all HEALTHY nodes.  A node that did
\* not answer when the gateway started is JOINING, and stays so: the heartbeats
\* and suspicions of process_node_health are never committed.
Init ==
  /\ healthy \in SUBSET Nodes
  /\ \E placed \in SUBSET healthy, stored \in SUBSET Nodes :
       /\ Cardinality(placed) = Factor
       /\ stored \subseteq placed
       /\ Cardinality(stored) >= Quorum
       /\ status = [n \in Nodes |-> IF n \in stored THEN "HEALTHY"
                                    ELSE IF n \in placed THEN "FAILED" ELSE "none"]
       /\ data = [n \in Nodes |-> IF n \in stored THEN "good" ELSE "none"]
       /\ intact = stored
  /\ job = [j \in Jobs |-> NoEntry]
  /\ task = [t \in Tasks |-> NoTask]
  /\ plan = NoPlan
  /\ check = [c \in Checks |-> NoCheck]
  /\ errors = 0 /\ rots = 0

-----------------------------------------------------------------------------
(* Scheduling *)

HealthyReplicas == {n \in Nodes : status[n] = "HEALTHY"}
Active(j) == job[j].status \in {"PENDING", "RUNNING"}

\* apply_async(repair_version, job): one more message.
Dispatch(j) ==
  \E t \in Tasks :
    /\ task[t].pc = "free"
    /\ task' = [task EXCEPT ![t] = Message(j, 0)]

\* create_job, from its insert to its commit.
Insert(j, source, target) ==
  /\ job[j] = NoEntry
  /\ job' = [job EXCEPT ![j] = [status |-> "PENDING", source |-> source,
                                target |-> target, attempts |-> 0]]

\* The last HEALTHY source is any: last_verified_at is not modelled.  A spare
\* target is a HEALTHY node with room and without a replicas row.
UnderReplicated == Cardinality(HealthyReplicas) < Factor
Spare(n) == n \in healthy /\ status[n] = "none"

\* check_under_replicated_objects finds the version and schedule_for_version
\* an active job for the target: it is dispatched again.
ScanRedispatches(j) ==
  /\ UnderReplicated
  /\ HealthyReplicas # {}
  /\ Active(j) /\ Spare(job[j].target)
  /\ Dispatch(j)
  /\ UNCHANGED <<status, data, healthy, job, plan, check, intact, errors, rots>>

\* No active job for the target: the insert comes later, so that of another
\* scheduler may come in between (repair_jobs has no unique active target).
ScanPlans(source, target) ==
  /\ plan = NoPlan
  /\ UnderReplicated
  /\ source \in HealthyReplicas /\ Spare(target)
  /\ \A j \in Jobs : ~(Active(j) /\ job[j].target = target)
  /\ plan' = [source |-> source, target |-> target]
  /\ UNCHANGED <<status, data, healthy, job, task, check, intact, errors, rots>>

ScanInserts(j) ==
  /\ plan # NoPlan
  /\ Insert(j, plan.source, plan.target)
  /\ Dispatch(j)
  /\ plan' = NoPlan
  /\ UNCHANGED <<status, data, healthy, check, intact, errors, rots>>

\* POST /admin/repair with source and target: create_job returns an active
\* job of the target, and checks the nodes only; run_job checks the replicas.
\* Either way the job is dispatched.
AdminRepairs(j, source, target) ==
  /\ source # target \/ status[target] = "CORRUPTED"
  /\ \/ Active(j) /\ job[j].target = target /\ job' = job
     \/ /\ \A i \in Jobs : ~(Active(i) /\ job[i].target = target)
        /\ Insert(j, source, target)
  /\ Dispatch(j)
  /\ UNCHANGED <<status, data, healthy, plan, check, intact, errors, rots>>

\* verify_replica of the integrity check: the session reads a HEALTHY replica
\* on a HEALTHY node ...
IntegrityReads(c, n) ==
  /\ check[c] = NoCheck
  /\ n \in healthy /\ status[n] = "HEALTHY"
  /\ check' = [check EXCEPT ![c] = [node |-> n, point |-> "read"]]
  /\ UNCHANGED <<status, data, healthy, job, task, plan, intact, errors, rots>>

\* ... the node measures: a match, or an error, leaves the replica as it is ...
IntegrityMeasures(c) ==
  /\ check[c].point = "read"
  /\ check' = [check EXCEPT ![c] =
                 IF data[check[c].node] = "bad"
                 THEN [node |-> check[c].node, point |-> "mismatch"] ELSE NoCheck]
  /\ UNCHANGED <<status, data, healthy, job, task, plan, intact, errors, rots>>

\* _target_for_version, with a preferred replica: in place if its node is
\* HEALTHY and has room, which is not modelled, else a spare node, if any.
TargetSets(n) ==
  {{m \in Nodes : Spare(m)}} \cup {{m} : m \in healthy \cap {n}}

\* ... a mismatch makes the replica, HEALTHY in this session, CORRUPTED and has
\* it repaired from another HEALTHY replica.  Without one, or without a target,
\* schedule_for_version raises and run_job commits the state.  The repair is
\* dispatched at the end of the check, unless a later replica fails it.
IntegrityMarks(c) ==
  LET n == check[c].node
  IN /\ check[c].point = "mismatch"
     /\ check' = [check EXCEPT ![c] = NoCheck]
     /\ status' = [status EXCEPT ![n] = "CORRUPTED"]
     /\ \/ /\ HealthyReplicas \subseteq {n} \/ {} \in TargetSets(n)
           /\ UNCHANGED <<job, task, errors>>
        \/ \E source \in HealthyReplicas \ {n}, target \in UNION TargetSets(n), j \in Jobs :
             /\ \/ Active(j) /\ job[j].target = target /\ job' = job
                \/ /\ \A i \in Jobs : ~(Active(i) /\ job[i].target = target)
                   /\ Insert(j, source, target)
             /\ \/ Dispatch(j) /\ errors' = errors
                \/ errors < MaxErrors /\ errors' = errors + 1 /\ task' = task
     /\ UNCHANGED <<data, healthy, plan, intact, rots>>

-----------------------------------------------------------------------------
(* run_job *)

JobOf(t) == job[task[t].job]
Source(t) == JobOf(t).source
Target(t) == JobOf(t).target
At(t, point) == task[t].pc = point
Running == {t \in Tasks : task[t].pc \notin {"free", "queued"}}
Taken(t) == At(t, "queued") /\ Cardinality(Running) < Workers
Move(t, point) == task' = [task EXCEPT ![t].pc = point]
End(t) == task' = [task EXCEPT ![t] = NoTask]

\* Mutant: a failed run is not retried.
RetryNever(t) == task' = [task EXCEPT ![t] = NoTask]

\* _retry_task for a retryable error: requeued until its retries are used up.
Retry(t) ==
  task' = [task EXCEPT ![t] =
             IF task[t].retries < MaxAttempts - 1
             THEN Message(task[t].job, task[t].retries + 1)
             ELSE NoTask]

\* SUCCEEDED, or FAILED with its attempts used up: nothing to do.
Finished(j) ==
  \/ job[j].status = "SUCCEEDED"
  \/ job[j].status = "FAILED" /\ job[j].attempts >= MaxAttempts

RunFinished(t) ==
  /\ Taken(t)
  /\ Finished(task[t].job)
  /\ End(t)
  /\ UNCHANGED <<status, data, healthy, job, plan, check, intact, errors, rots>>

\* No HEALTHY source: FAILED is committed and NODE_UNAVAILABLE is retried.
RunWithoutSource(t) ==
  /\ Taken(t)
  /\ ~Finished(task[t].job)
  /\ status[Source(t)] # "HEALTHY"
  /\ job' = [job EXCEPT ![task[t].job].status = "FAILED"]
  /\ Retry(t)
  /\ UNCHANGED <<status, data, healthy, plan, check, intact, errors, rots>>

\* Mutant: any replica may be rebuilt.
AnyRebuildable(n) == TRUE

\* What _replica_for_target accepts; it makes the replica REPAIRING.
Rebuildable(n) == status[n] \notin {"HEALTHY", "FAILED"}

\* Mutant: the target replica goes through COPYING.
SetCopying(n) == status' = [status EXCEPT ![n] = "COPYING"]

\* Mutant: the target is HEALTHY before it is copied.
SetHealthyEarly(n) == status' = [status EXCEPT ![n] = "HEALTHY"]

SetRepairing(n) == status' = [status EXCEPT ![n] = "REPAIRING"]

\* _replica_for_target refuses a HEALTHY (REPAIR_IN_PROGRESS) or a FAILED
\* replica (INVALID_REQUEST): rolled back, not retried.
RunRefused(t) ==
  /\ Taken(t)
  /\ ~Finished(task[t].job)
  /\ status[Source(t)] = "HEALTHY"
  /\ ~Rebuildable(Target(t))
  /\ End(t)
  /\ UNCHANGED <<status, data, healthy, job, plan, check, intact, errors, rots>>

\* The target node is not HEALTHY: the REPAIRING replica is committed with it.
RunTargetDown(t) ==
  /\ Taken(t)
  /\ ~Finished(task[t].job)
  /\ status[Source(t)] = "HEALTHY"
  /\ Rebuildable(Target(t))
  /\ Target(t) \notin healthy
  /\ SetRepairing(Target(t))
  /\ job' = [job EXCEPT ![task[t].job].status = "FAILED"]
  /\ Retry(t)
  /\ UNCHANGED <<data, healthy, plan, check, intact, errors, rots>>

\* The replica is REPAIRING, the job RUNNING, one more attempt: committed.
RunStarts(t) ==
  /\ Taken(t)
  /\ ~Finished(task[t].job)
  /\ status[Source(t)] = "HEALTHY"
  /\ Rebuildable(Target(t))
  /\ Target(t) \in healthy
  /\ SetRepairing(Target(t))
  /\ job' = [job EXCEPT ![task[t].job].status = "RUNNING",
                        ![task[t].job].attempts = @ + 1]
  /\ task' = [task EXCEPT ![t].pc = "verify",
                          ![t].attempts = JobOf(t).attempts + 1]
  /\ UNCHANGED <<data, healthy, plan, check, intact, errors, rots>>

VerifySource(t) ==
  /\ At(t, "verify")
  /\ data[Source(t)] = "good"
  /\ Move(t, "delete")
  /\ UNCHANGED <<status, data, healthy, job, plan, check, intact, errors, rots>>

\* DELETE at the target; absent is success.
DeleteTarget(t) ==
  /\ At(t, "delete")
  /\ data' = [data EXCEPT ![Target(t)] = "none"]
  /\ Move(t, "put")
  /\ UNCHANGED <<status, healthy, job, plan, check, intact, errors, rots>>

\* The source's content, as it is now, streams into a new copy at the target.
PutTarget(t) ==
  /\ At(t, "put")
  /\ data[Source(t)] # "none"
  /\ data[Target(t)] = "none"
  /\ data' = [data EXCEPT ![Target(t)] = data[Source(t)]]
  /\ Move(t, "check")
  /\ UNCHANGED <<status, healthy, job, plan, check, intact, errors, rots>>

VerifyTarget(t) ==
  /\ At(t, "check")
  /\ data[Target(t)] = "good"
  /\ Move(t, "mark")
  /\ UNCHANGED <<status, data, healthy, job, plan, check, intact, errors, rots>>

\* mark_replica_healthy on the replica as this session has it (REPAIRING): no
\* transaction is open, so it commits, overwriting whatever the row is by now.
MarkHealthy(t) ==
  /\ At(t, "mark")
  /\ status' = [status EXCEPT ![Target(t)] = "HEALTHY"]
  /\ Move(t, "close")
  /\ UNCHANGED <<data, healthy, job, plan, check, intact, errors, rots>>

\* _mark_job(SUCCEEDED), in a commit of its own.
MarkSucceeded(t) ==
  /\ At(t, "close")
  /\ job' = [job EXCEPT ![task[t].job].status = "SUCCEEDED"]
  /\ End(t)
  /\ UNCHANGED <<status, data, healthy, plan, check, intact, errors, rots>>

\* A node call raises StorageNodeClientError: PENDING, or FAILED when the
\* attempts counted at the start are used up; the message is retried.
Fails(t) ==
  /\ job' = [job EXCEPT ![task[t].job].status =
               IF task[t].attempts >= MaxAttempts THEN "FAILED" ELSE "PENDING"]
  /\ Retry(t)

\* ... because of what the nodes hold: a source that does not verify or is
\* gone, a copy already there (409), a target that does not verify.
CallRefused(t) ==
  /\ \/ At(t, "verify") /\ data[Source(t)] # "good"
     \/ At(t, "put") /\ (data[Source(t)] = "none" \/ data[Target(t)] # "none")
     \/ At(t, "check") /\ data[Target(t)] # "good"
  /\ Fails(t)
  /\ UNCHANGED <<status, data, healthy, plan, check, intact, errors, rots>>

\* A call without an answer: a DELETE or a PUT may have acted.  Assumed: what a
\* node has not done when its caller gives up, it does not do later.
MayHaveActed(t) ==
  \/ data' = data
  \/ At(t, "delete") /\ data' = [data EXCEPT ![Target(t)] = "none"]
  \/ /\ At(t, "put") /\ data[Target(t)] = "none" /\ data[Source(t)] # "none"
     /\ data' = [data EXCEPT ![Target(t)] = data[Source(t)]]

\* ... or because a node cannot be reached.
CallLost(t) ==
  /\ errors < MaxErrors
  /\ task[t].pc \in {"verify", "delete", "put", "check"}
  /\ Fails(t)
  /\ MayHaveActed(t)
  /\ errors' = errors + 1
  /\ UNCHANGED <<status, healthy, plan, check, intact, rots>>

-----------------------------------------------------------------------------
(* Faults and the surroundings *)

Redeliver(t) == task' = [task EXCEPT ![t] = Message(task[t].job, task[t].retries)]

\* The worker process dies: the unacknowledged message is delivered again.
WorkerLost(t) ==
  /\ errors < MaxErrors
  /\ task[t].pc \notin {"free", "queued"}
  /\ Redeliver(t)
  /\ MayHaveActed(t)
  /\ errors' = errors + 1
  /\ UNCHANGED <<status, healthy, job, plan, check, intact, rots>>

\* SQLAlchemyError: the session rolls back and the task is not retried.
DatabaseError(t) ==
  /\ errors < MaxErrors
  /\ ~At(t, "free")
  /\ End(t)
  /\ errors' = errors + 1
  /\ UNCHANGED <<status, data, healthy, job, plan, check, intact, rots>>

\* A copy is damaged on disk.
Rot(n) ==
  /\ rots < MaxRot
  /\ data[n] = "good"
  /\ data' = [data EXCEPT ![n] = "bad"]
  /\ intact' = intact \ {n}
  /\ rots' = rots + 1
  /\ UNCHANGED <<status, healthy, job, task, plan, check, errors>>

Run(t) ==
  \/ RunFinished(t) \/ RunWithoutSource(t) \/ RunRefused(t)
  \/ RunTargetDown(t) \/ RunStarts(t)
  \/ VerifySource(t) \/ DeleteTarget(t) \/ PutTarget(t) \/ VerifyTarget(t)
  \/ MarkHealthy(t) \/ MarkSucceeded(t) \/ CallRefused(t)

Scan ==
  \/ \E source, target \in Nodes : ScanPlans(source, target)
  \/ \E j \in Jobs : ScanRedispatches(j)

Insertion == \E j \in Jobs : ScanInserts(j)

\* Faults that leave the message on the queue, and those that may not.
Transient == \E t \in Tasks : CallLost(t) \/ WorkerLost(t)

Fault ==
  \/ Transient
  \/ \E t \in Tasks : DatabaseError(t)
  \/ \E n \in Nodes : Rot(n)

Automatic ==
  \/ Scan
  \/ Insertion
  \/ \E c \in Checks, n \in Nodes : IntegrityReads(c, n)
  \/ \E c \in Checks : IntegrityMeasures(c) \/ IntegrityMarks(c)
  \/ \E t \in Tasks : Run(t)

Administrative ==
  \E j \in Jobs, source, target \in Nodes : AdminRepairs(j, source, target)

Next == Automatic \/ Administrative \/ Fault

Spec == Init /\ [][Next]_vars

(***************************************************************************)
(* Celery beat runs the scan for ever, workers take queued messages and    *)
(* run them to an end (node calls time out).  Every node had answered when *)
(* the gateway started, so one without a replica is a target.              *)
(***************************************************************************)
Fairness ==
  /\ WF_vars(Scan)
  /\ WF_vars(Insertion)
  /\ \A t \in Tasks : WF_vars(Run(t))

AllHealthyInit == healthy = Nodes /\ Init
TransientSpec == AllHealthyInit /\ [][Automatic \/ Transient]_vars /\ Fairness

-----------------------------------------------------------------------------
(* Properties *)

\* The copies the PUT verified survive every repair: as long as a copy is not
\* damaged on disk it stays on its node and HEALTHY, whatever jobs are created
\* and however often they are run, side by side (run_job's checks of the
\* source and the target before its DELETE).
PutCopiesSurvive ==
  \A n \in intact : data[n] = "good" /\ status[n] = "HEALTHY"

\* A HEALTHY replica is stored: "A replica is not marked `HEALTHY` before
\* successful storage and verification" (README.md:1752).
HealthyStored == \A n \in Nodes : status[n] = "HEALTHY" => data[n] # "none"

\* Under-replication ends: failed calls and lost workers within the attempts
\* of a job do not keep the scan and the retries from restoring Factor HEALTHY
\* replicas, while a spare node is there (check_under_replicated_objects).
ReplicationRestored == []<>(Cardinality(HealthyReplicas) >= Factor)
=============================================================================
