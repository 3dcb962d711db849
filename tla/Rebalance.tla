----------------------------- MODULE Rebalance ------------------------------
(***************************************************************************)
(* Moving one committed version between nodes: migration jobs requested by *)
(* an administrator, draining of a node, the migrate_replica and           *)
(* rebalance_node tasks (rebalance/manager.py, worker/tasks.py).           *)
(*                                                                         *)
(* run_job commits twice: when it starts and in _mark_job.  In between its *)
(* changes of replicas rows are savepoints that only its session sees      *)
(* (task.mine), and a lost session loses them, whatever the nodes have     *)
(* stored or deleted by then.                                              *)
(***************************************************************************)
EXTENDS Integers, FiniteSets

CONSTANTS
  Nodes,
  Jobs,          \* bound: rebalance_jobs rows
  Tasks,         \* bound: messages queued or running at a time
  Workers,       \* worker_concurrency: tasks running at a time
  Factor,        \* replication_factor
  Quorum,        \* write_quorum: HEALTHY copies a PUT leaves at least
  MaxAttempts,   \* max_attempts; a message is retried MaxAttempts - 1 times
  MaxFaults,     \* bound: calls without an answer, lost sessions, damaged copies
  NoNode, NoJob

ASSUME RebalanceConstants ==
  /\ NoNode \notin Nodes
  /\ NoJob \notin Jobs
  /\ IsFiniteSet(Nodes) /\ IsFiniteSet(Tasks)
  /\ Factor \in Nat /\ Quorum \in 1 .. Factor
  /\ MaxAttempts \in Nat \ {0} /\ Workers \in Nat \ {0}
  /\ MaxFaults \in Nat

VARIABLES
  status,   \* replicas.status at each node, "none" without a row
  data,     \* what each node stores of the version
  node,     \* storage_nodes.status
  job,      \* the rebalance_jobs rows
  task,     \* the messages and where their execution is
  copies,   \* history: how many copies the PUT stored
  errors, lost, rots

vars == <<status, data, node, job, task, copies, errors, lost, rots>>

ReplicaStates == {"none", "HEALTHY", "FAILED", "COPYING", "CORRUPTED"}
NodeStates == {"JOINING", "HEALTHY", "DRAINING"}
\* "rotten": the node's own checksums do not match; "wrong": they do, but the
\* content is not the version's (a rotten source was streamed).
Contents == {"none", "good", "rotten", "wrong"}
Statuses == {"none", "PENDING", "RUNNING", "SUCCEEDED", "FAILED"}
Points == {"free", "queued", "start", "recheck", "source", "claim", "delete",
           "put", "check", "count", "drop", "close"}

NoEntry == [status |-> "none", source |-> NoNode, target |-> NoNode,
            attempts |-> 0]
NoTask == [pc |-> "free", kind |-> "migrate", node |-> NoNode, job |-> NoJob,
           retries |-> 0, attempts |-> 0, seen |-> "none", mine |-> "none"]

\* A migrate_replica message names the replica at a node, and the job; a
\* rebalance_node message the node to drain.
Message(kind, n, j, retries) ==
  [NoTask EXCEPT !.pc = "queued", !.kind = kind, !.node = n, !.job = j,
                 !.retries = retries]

TypeOK ==
  /\ status \in [Nodes -> ReplicaStates]
  /\ data \in [Nodes -> Contents]
  /\ node \in [Nodes -> NodeStates]
  /\ job \in [Jobs -> [status : Statuses, source : Nodes \cup {NoNode},
                       target : Nodes \cup {NoNode}, attempts : Nat]]
  /\ task \in [Tasks -> [pc : Points, kind : {"migrate", "drain"},
                         node : Nodes \cup {NoNode}, job : Jobs \cup {NoJob},
                         retries : 0 .. MaxAttempts - 1, attempts : Nat,
                         seen : ReplicaStates,
                         mine : {"none", "COPYING", "HEALTHY"}]]
  /\ copies \in Nat /\ errors \in Nat /\ lost \in Nat /\ rots \in Nat

\* A PUT has committed the version: Quorum or more verified copies, FAILED
\* replicas at the rest of its Factor nodes, all HEALTHY nodes.
Init ==
  /\ node \in [Nodes -> {"JOINING", "HEALTHY"}]
  /\ \E placed, stored \in SUBSET {n \in Nodes : node[n] = "HEALTHY"} :
       /\ Cardinality(placed) = Factor
       /\ stored \subseteq placed
       /\ Cardinality(stored) >= Quorum
       /\ status = [n \in Nodes |-> IF n \in stored THEN "HEALTHY"
                                    ELSE IF n \in placed THEN "FAILED" ELSE "none"]
       /\ data = [n \in Nodes |-> IF n \in stored THEN "good" ELSE "none"]
       /\ copies = Cardinality(stored)
  /\ job = [j \in Jobs |-> NoEntry]
  /\ task = [t \in Tasks |-> NoTask]
  /\ errors = 0 /\ lost = 0 /\ rots = 0

-----------------------------------------------------------------------------
(* Requests *)

Active(j) == job[j].status \in {"PENDING", "RUNNING"}

\* apply_async: one more message.
Dispatch(message) ==
  \E t \in Tasks :
    /\ task[t].pc = "free"
    /\ task' = [task EXCEPT ![t] = message]

\* What create_job asks of the source replica, the target node and the target
\* replica; room is not modelled.
Movable(source, target) ==
  /\ source # target
  /\ status[source] = "HEALTHY"
  /\ node[target] = "HEALTHY"
  /\ status[target] = "none"

\* create_job: an active job of the target is returned, with whatever source
\* it has; else a row is inserted and committed.
CreateJob(j, source, target) ==
  \/ Active(j) /\ job[j].target = target /\ job' = job
  \/ /\ \A i \in Jobs : ~(Active(i) /\ job[i].target = target)
     /\ job[j] = NoEntry
     /\ job' = [job EXCEPT ![j] = [status |-> "PENDING", source |-> source,
                                   target |-> target, attempts |-> 0]]

\* POST /admin/rebalance: the job, and a message for the source's replica.
AdminRebalances(j, source, target) ==
  /\ Movable(source, target)
  /\ CreateJob(j, source, target)
  /\ Dispatch(Message("migrate", source, j, 0))
  /\ UNCHANGED <<status, data, node, copies, errors, lost, rots>>

\* A rebalance_node message is sent.
DrainRequested(n) ==
  /\ Dispatch(Message("drain", n, NoJob, 0))
  /\ UNCHANGED <<status, data, node, job, copies, errors, lost, rots>>

-----------------------------------------------------------------------------
(* The tasks *)

JobOf(t) == job[task[t].job]
Source(t) == JobOf(t).source
Target(t) == JobOf(t).target
At(t, point) == task[t].pc = point
Running == {t \in Tasks : task[t].pc \notin {"free", "queued"}}
Taken(t, kind) ==
  /\ At(t, "queued") /\ task[t].kind = kind
  /\ Cardinality(Running) < Workers
Move(t, point) == task' = [task EXCEPT ![t].pc = point]
End(t) == task' = [task EXCEPT ![t] = NoTask]

\* The message as it was sent: a drain looks for its job again.
Resent(t, retries) ==
  Message(task[t].kind, task[t].node,
          IF task[t].kind = "drain" THEN NoJob ELSE task[t].job, retries)

\* Mutant: one retry too many.
RetriedOnceMore(t) ==
  IF task[t].retries < MaxAttempts THEN Resent(t, task[t].retries + 1)
                                   ELSE NoTask

\* _retry_task for a retryable error.
Retried(t) ==
  IF task[t].retries < MaxAttempts - 1 THEN Resent(t, task[t].retries + 1)
                                       ELSE NoTask

Retry(t) == task' = [task EXCEPT ![t] = Retried(t)]

\* drain_node without anything to do: the node is neither HEALTHY nor DRAINING
\* or its replica not HEALTHY (InvalidState, not retried), or it has no replica:
\* then its transition to REMOVED is a savepoint of a session that ends without
\* a commit, as DRAINING is before create_job commits.
DrainEnds(t) ==
  LET n == task[t].node
  IN /\ Taken(t, "drain")
     /\ node[n] = "JOINING" \/ status[n] # "HEALTHY"
     /\ End(t)
     /\ UNCHANGED <<status, data, node, job, copies, errors, lost, rots>>

\* No eligible target: INSUFFICIENT_REPLICAS, rolled back and retried.
DrainBlocked(t) ==
  LET n == task[t].node
  IN /\ Taken(t, "drain")
     /\ node[n] # "JOINING" /\ status[n] = "HEALTHY"
     /\ \A target \in Nodes : ~Movable(n, target)
     /\ Retry(t)
     /\ UNCHANGED <<status, data, node, job, copies, errors, lost, rots>>

\* The drained node's replica goes to an eligible target.  The insert of a job
\* commits DRAINING; a job that was there leaves that to run_job.
DrainPlans(t, j, target) ==
  LET n == task[t].node
  IN /\ Taken(t, "drain")
     /\ node[n] # "JOINING"
     /\ Movable(n, target)
     /\ CreateJob(j, n, target)
     /\ node' = [node EXCEPT ![n] = IF job' = job THEN @ ELSE "DRAINING"]
     /\ task' = [task EXCEPT ![t].pc = "start", ![t].job = j]
     /\ UNCHANGED <<status, data, copies, errors, lost, rots>>

\* migrate_replica: the replica it names is gone, OBJECT_NOT_FOUND.
ReplicaGone(t) ==
  /\ Taken(t, "migrate")
  /\ task[t].node = NoNode
  /\ End(t)
  /\ UNCHANGED <<status, data, node, job, copies, errors, lost, rots>>

\* run_job begins: for the task's job, or for the one drain_node has created.
Begins(t) ==
  \/ Taken(t, "migrate") /\ task[t].node # NoNode
  \/ At(t, "start")

\* SUCCEEDED, or FAILED with its attempts used up: nothing to do.
Finished(j) ==
  \/ job[j].status = "SUCCEEDED"
  \/ job[j].status = "FAILED" /\ job[j].attempts >= MaxAttempts

RunFinished(t) ==
  /\ Begins(t)
  /\ Finished(task[t].job)
  /\ End(t)
  /\ UNCHANGED <<status, data, node, job, copies, errors, lost, rots>>

\* The target replica is read, and RUNNING with one more attempt committed.
RunStarts(t) ==
  /\ Begins(t)
  /\ ~Finished(task[t].job)
  /\ job' = [job EXCEPT ![task[t].job].status = "RUNNING",
                        ![task[t].job].attempts = @ + 1]
  /\ node' = [n \in Nodes |-> IF task[t].kind = "drain" /\ task[t].node = n
                              THEN "DRAINING" ELSE node[n]]
  /\ task' = [task EXCEPT ![t].pc = IF status[Target(t)] = "HEALTHY"
                                    THEN "recheck" ELSE "source",
                          ![t].attempts = JobOf(t).attempts + 1,
                          ![t].seen = status[Target(t)]]
  /\ UNCHANGED <<status, data, copies, errors, lost, rots>>

-----------------------------------------------------------------------------
(* run_job *)

\* A target that an earlier attempt made HEALTHY is verified.  A content that is
\* not the version's makes it CORRUPTED (no transaction is open: committed) and
\* it is copied again.
RecheckTarget(t) ==
  /\ At(t, "recheck")
  /\ data[Target(t)] \in {"good", "wrong"}
  /\ IF data[Target(t)] = "good"
     THEN Move(t, "count") /\ status' = status
     ELSE /\ task' = [task EXCEPT ![t].pc = "source", ![t].seen = "none"]
          /\ status' = [status EXCEPT ![Target(t)] = "CORRUPTED"]
  /\ UNCHANGED <<data, node, job, copies, errors, lost, rots>>

\* The source replica is HEALTHY and its node verifies the version's content.
VerifySource(t) ==
  /\ At(t, "source")
  /\ status[Source(t)] = "HEALTHY"
  /\ data[Source(t)] = "good"
  /\ Move(t, "claim")
  /\ UNCHANGED <<status, data, node, job, copies, errors, lost, rots>>

\* Other sessions with an uncommitted target row of the same node.
Contenders(t) ==
  {u \in Tasks \ {t} : task[u].mine # "none" /\ Target(u) = Target(t)}

\* _target_replica: the row, locked and COPYING in this session.  A row this
\* session had read before is as it was then; one that is HEALTHY is left so.
\* FOR UPDATE waits for another session's row, unless that is not committed
\* yet: then the insert fails (SQLAlchemyError) and the task ends.
ClaimTarget(t) ==
  LET row == IF task[t].seen = "none" THEN status[Target(t)] ELSE task[t].seen
  IN /\ At(t, "claim")
     /\ Contenders(t) = {} \/ status[Target(t)] = "none"
     /\ task' = [task EXCEPT ![t] =
                   IF Contenders(t) # {} THEN NoTask
                   ELSE [@ EXCEPT !.pc = "delete",
                                  !.mine = IF row = "HEALTHY" THEN "none"
                                                              ELSE "COPYING"]]
     /\ UNCHANGED <<status, data, node, job, copies, errors, lost, rots>>

\* DELETE at the target; absent is success.
DeleteTarget(t) ==
  /\ At(t, "delete")
  /\ data' = [data EXCEPT ![Target(t)] = "none"]
  /\ Move(t, "put")
  /\ UNCHANGED <<status, node, job, copies, errors, lost, rots>>

\* What a node stores of the bytes it is sent: its checksums are of those.
Streamed(content) == IF content = "good" THEN "good" ELSE "wrong"

\* The source's content, as it is now, streams into a new copy at the target.
PutTarget(t) ==
  /\ At(t, "put")
  /\ data[Source(t)] # "none"
  /\ data[Target(t)] = "none"
  /\ data' = [data EXCEPT ![Target(t)] = Streamed(data[Source(t)])]
  /\ Move(t, "check")
  /\ UNCHANGED <<status, node, job, copies, errors, lost, rots>>

\* The target verifies; mark_replica_healthy, in this session.
CheckTarget(t) ==
  /\ At(t, "check")
  /\ data[Target(t)] = "good"
  /\ task[t].mine = "COPYING"
  /\ task' = [task EXCEPT ![t].pc = "count", ![t].mine = "HEALTHY"]
  /\ UNCHANGED <<status, data, node, job, copies, errors, lost, rots>>

\* The replicas rows as the session of a task sees them.
View(t) ==
  [n \in Nodes |-> IF task[t].mine # "none" /\ n = Target(t) THEN task[t].mine
                   ELSE status[n]]

\* _healthy_replica_count leaves Factor without the source.
Spared(t) == Cardinality({n \in Nodes : View(t)[n] = "HEALTHY"}) > Factor

CountHealthy(t) ==
  /\ At(t, "count")
  /\ Spared(t)
  /\ Move(t, "drop")
  /\ UNCHANGED <<status, data, node, job, copies, errors, lost, rots>>

\* DELETE at the source.
DeleteSource(t) ==
  /\ At(t, "drop")
  /\ data' = [data EXCEPT ![Source(t)] = "none"]
  /\ Move(t, "close")
  /\ UNCHANGED <<status, node, job, copies, errors, lost, rots>>

\* Messages that name the replica of a node no longer find it.
Forget(tasks, n) ==
  [u \in Tasks |-> IF tasks[u].kind = "migrate" /\ tasks[u].node = n
                   THEN [tasks[u] EXCEPT !.node = NoNode] ELSE tasks[u]]

\* remove_replica and _mark_job(SUCCEEDED): one commit, of the target row too.
RemoveSource(t) ==
  /\ At(t, "close")
  /\ View(t)[Source(t)] # "COPYING"
  /\ status' = [View(t) EXCEPT ![Source(t)] = "none"]
  /\ job' = [job EXCEPT ![task[t].job].status = "SUCCEEDED"]
  /\ task' = Forget([task EXCEPT ![t] = NoTask], Source(t))
  /\ UNCHANGED <<data, node, copies, errors, lost, rots>>

\* Mutant: the session is rolled back before the job is marked.
FailsRolledBack(t) ==
  /\ job' = [job EXCEPT ![task[t].job].status =
               IF task[t].attempts >= MaxAttempts THEN "FAILED" ELSE "PENDING"]
  /\ status' = status

\* run_job raises: PENDING, or FAILED when the attempts counted at the start
\* are used up, is committed with the rows of this session.
Fails(t) ==
  /\ job' = [job EXCEPT ![task[t].job].status =
               IF task[t].attempts >= MaxAttempts THEN "FAILED" ELSE "PENDING"]
  /\ status' = View(t)

\* InvalidState, not retried: the source is no longer HEALTHY, the target row
\* cannot be marked, too few replicas are, or the source row cannot be removed.
RunInvalid(t) ==
  /\ \/ At(t, "source") /\ status[Source(t)] # "HEALTHY"
     \/ At(t, "check") /\ data[Target(t)] = "good" /\ task[t].mine = "none"
     \/ At(t, "count") /\ ~Spared(t)
     \/ At(t, "close") /\ View(t)[Source(t)] = "COPYING"
  /\ Fails(t)
  /\ End(t)
  /\ UNCHANGED <<data, node, copies, errors, lost, rots>>

\* StorageNodeClientError, retried, because of what the nodes hold: a copy that
\* is absent, damaged or not the version's, a copy already there (409).
CallRefused(t) ==
  /\ \/ At(t, "recheck") /\ data[Target(t)] \in {"none", "rotten"}
     \/ At(t, "source") /\ status[Source(t)] = "HEALTHY" /\ data[Source(t)] # "good"
     \/ At(t, "put") /\ (data[Source(t)] = "none" \/ data[Target(t)] # "none")
     \/ At(t, "check") /\ data[Target(t)] # "good"
  /\ Fails(t)
  /\ Retry(t)
  /\ UNCHANGED <<data, node, copies, errors, lost, rots>>

-----------------------------------------------------------------------------
(* Faults *)

MoreFaults == errors + lost + rots < MaxFaults

\* A call without an answer: a DELETE or a PUT may have acted.  Assumed: what a
\* node has not done when its caller gives up, it does not do later.
MayHaveActed(t) ==
  \/ data' = data
  \/ At(t, "delete") /\ data' = [data EXCEPT ![Target(t)] = "none"]
  \/ /\ At(t, "put") /\ data[Target(t)] = "none" /\ data[Source(t)] # "none"
     /\ data' = [data EXCEPT ![Target(t)] = Streamed(data[Source(t)])]
  \/ At(t, "drop") /\ data' = [data EXCEPT ![Source(t)] = "none"]

\* A node cannot be reached: retried.
CallLost(t) ==
  /\ MoreFaults
  /\ task[t].pc \in {"recheck", "source", "delete", "put", "check", "drop"}
  /\ MayHaveActed(t)
  /\ Fails(t)
  /\ Retry(t)
  /\ errors' = errors + 1
  /\ UNCHANGED <<node, copies, lost, rots>>

\* The worker process dies: the unacknowledged message is delivered again.
\* Or the database fails (SQLAlchemyError): the task ends.  What the session
\* has not committed is gone.
SessionLost(t) ==
  /\ MoreFaults
  /\ task[t].pc \notin {"free", "queued"}
  /\ task' = [task EXCEPT ![t] = Resent(t, task[t].retries)] \/ End(t)
  /\ MayHaveActed(t)
  /\ lost' = lost + 1
  /\ UNCHANGED <<status, node, job, copies, errors, rots>>

\* A copy is damaged on disk.
Rot(n) ==
  /\ MoreFaults
  /\ data[n] = "good"
  /\ data' = [data EXCEPT ![n] = "rotten"]
  /\ rots' = rots + 1
  /\ UNCHANGED <<status, node, job, task, copies, errors, lost>>

Request ==
  \/ \E j \in Jobs, source, target \in Nodes : AdminRebalances(j, source, target)
  \/ \E n \in Nodes : DrainRequested(n)

Run(t) ==
  \/ DrainEnds(t) \/ DrainBlocked(t)
  \/ \E j \in Jobs, target \in Nodes : DrainPlans(t, j, target)
  \/ ReplicaGone(t) \/ RunFinished(t) \/ RunStarts(t)
  \/ RecheckTarget(t) \/ VerifySource(t) \/ ClaimTarget(t)
  \/ DeleteTarget(t) \/ PutTarget(t) \/ CheckTarget(t)
  \/ CountHealthy(t) \/ DeleteSource(t) \/ RemoveSource(t)
  \/ RunInvalid(t) \/ CallRefused(t)

Fault ==
  \/ \E t \in Tasks : CallLost(t) \/ SessionLost(t)
  \/ \E n \in Nodes : Rot(n)

Next ==
  \/ Request
  \/ \E t \in Tasks : Run(t)
  \/ Fault

Spec == Init /\ [][Next]_vars

-----------------------------------------------------------------------------
(* Properties *)

Recorded == {n \in Nodes : status[n] = "HEALTHY" /\ data[n] = "good"}
Closing == {t \in Tasks : At(t, "close")}

\* Migrations keep the copies of a PUT: every copy that is missing of those
\* recorded as HEALTHY was damaged on disk, is being replaced by a migration
\* that is about to commit, or belonged to a session that was lost ("Verified
\* replica migration with copy-before-delete ordering", README.md:105).
CopiesSurvive ==
  Cardinality(Recorded) + Cardinality(Closing) + lost + rots >= copies
=============================================================================
