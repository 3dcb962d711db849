# Vault: TLA+ models, model checking and proofs

Vault is a replicated object store: a gateway (FastAPI) with its metadata in
PostgreSQL, storage nodes that keep versions on disk, and Celery workers that
repair, check and move replicas. This directory models the parts of it where
steps of several actors, crashes and lost answers meet. Paths below are relative
to `src/`.

## The system

| Part | State | Operations | What makes it hard |
|---|---|---|---|
| Storage engine (`storage/storage_engine.py`) | version directories, staging directories, `_used_bytes`, `_reserved_bytes`, `_inflight_objects` | `write_stream`, `delete`, `__init__`, `verify`, `iter_chunks` | PUTs on the event loop, DELETEs on threads, work outside the lock, crashes, failing `rmtree` |
| Gateway PUT/DELETE (`gateway/service.py`, `gateway/api.py`) | request progress, one transaction per request | `put_object`, `delete_object`, reads | row lock held across awaits, synchronous database calls on an event loop, several processes |
| Metadata (`metadata/`) | objects, versions, replicas, storage_nodes, job tables | lifecycle transitions, `create_version`, `commit_version`, replica states | READ COMMITTED, ORM identity map, nested or own transactions |
| Replication and placement (`replication/`, `placement/`) | outcome of concurrent writes | `select_nodes`, `replicate_version`, `_write_one` | timeouts with late effects, quorum |
| Repair (`repair/manager.py`) | repair_jobs, target replica and bytes | `schedule_for_version`, `create_job`, `run_job` | duplicate dispatch, redelivery, retries, two counters |
| Workers (`worker/`) | Celery messages | tasks, `_retry_task`, late acknowledgement | lost workers, concurrent tasks of one job |
| Integrity (`integrity/manager.py`) | integrity_jobs | `verify_replica`, `run_job` | measurement used after it is stale |
| Health, recovery (`health/`, `recovery/`) | node states, heartbeats | failure detector, `ingest`, `reconcile_node` | stale heartbeats, missing commit |
| Rebalance (`rebalance/manager.py`) | rebalance_jobs, source and target replica and bytes | `migrate_replica`, `drain_node` | bytes deleted before the commit |
| Rate limiter (`common/rate_limit.py`) | windows per client | `allow` | eviction at the limit |
| Node server and client | none of their own | HTTP calls | lost answers, retries |
| Frontend, migrations, validation, configuration | none that matters here | | |

The gateway writes copies to nodes during a PUT and removes them during a DELETE.
Repair, integrity and rebalance work on the versions a PUT has committed, through
the same node operations; a GET reads while they do. Health decides which nodes
take part, and has the replicas of a lost node repaired. `PROJECT.json` lists each part with its status, and the hazards
of the code at the lines where they bite.

## Modules

**StorageEngine** (spec), **ObjectStore** (what clients are promised),
**MCStorageEngine**, **StorageEngineProofs.** One node's engine. Every action is
one critical section of `_lock` or one step outside it: `Begin`, `Reserve`,
`WritePiece`, `Seal`, `Publish`, `Account` follow `write_stream`; `Fail`,
`Discard`, `DiscardFails`, `Release` are its `finally` block; `StartRemove`,
`RemoveFile`, `RemoveMeta`, `FinishRemove`, `RemoveFails` are `delete`, which keeps
the lock; `CrashRestart` is a crash followed by `__init__`. Bytes are counted in
pieces, one per item of the request stream. Physical disk space running out is
one of the exceptions of `Fail`. A delete between publication and accounting of
the same version subtracts bytes not yet added, so `used` may stay above the truth.

**ObjectGateway** (spec), **VersionedObject** (abstract), **MCObjectGateway.** PUT
and DELETE of one name. `row` is the committed objects row, `seen` the row as a
request's session has it: SQLAlchemy does not refresh a loaded row on
`SELECT ... FOR UPDATE`, so checks under the lock read `seen`. `MayRun` is the event
loop: a request inside synchronous database calls, or blocked in one, keeps its
loop. A version is known by the PUT that made it; a late write (`LateStore`) may
land after its request has ended; `Crash` kills a gateway process.

**ObjectGatewayProofs** holds the gateway's theorems.

**Repair** (spec), **MCRepair**, **RepairProofs.** Repair of one committed version.
`task` holds the Celery messages and where their execution is. The first
transaction of `run_job` holds the job row and is one action; each node call after
it is another. `mark_replica_healthy` and `_mark_job` commit separately, because no
transaction is open after line 366 (`MetadataManager._transaction` then opens and
commits its own). `IntegrityReads`, `IntegrityMeasures` and `IntegrityMarks` are one
integrity check of a replica; the repair it asks for is in place, or at a spare node if
the damaged one has no room (`TargetSets`). Nodes are HEALTHY or JOINING from the start and stay
so: `process_node_health` loses its transitions unless it creates a repair job after
them (see HealthTask), and draining is modelled in Rebalance. Every spare node has room for the version.

**Rebalance** (spec), **ObjectRead**, **RebalanceRead** (their composition),
**MCRebalance**, **RebalanceProofs**, **RebalanceCopiesProofs**,
**RebalanceReadProofs.** Moving one committed
version. `AdminRebalances` and `DrainRequested`
are the requests; `DrainEnds`, `DrainBlocked` and `DrainPlans` are `drain_node`; the
actions from `RunStarts` to `RemoveSource` are `run_job`, one per node call.
`run_job` commits when it starts and in `_mark_job` only. In between its replicas
rows are savepoints that no other session sees (`task.mine`), while the nodes have
already stored and deleted bytes; `SessionLost` drops the former and not the latter.
`RunInvalid` and `CallRefused` are its two kinds of errors: the first ends the task,
the second is retried. A copy is `rotten` when the node's own checksums notice it and
`wrong` when they do not, because damaged bytes were streamed into a new copy.
ObjectRead is one GET: `Resolve` is `read_targets`, `Preflight` the HEAD requests,
`Open`, `Chunk` and `Complete` the body, which the node reads file by file and
without a lock. A damaged copy may be served, or fail where a file or the metadata is
missing (`Intact`). It shares `status`, `data` and `node` with Rebalance, so every step of
a migration can fall between any two steps of a read.

**NodeHealth** (spec), **NodeHealthProofs.** Registration, heartbeats, failure detector and
reconciliation, with one version whose replicas they mark. Times are ages in ticks,
counted up to a cap past every threshold. `PollNode` is `poll_node`, which makes the
heartbeats; `Heartbeat` ingests one answer, with answers late and out of order between
overlapping tasks. As in `process_node_health`, an accepted heartbeat of an UNAVAILABLE
node starts `reconcile_node` (`Reconciles`), whose end is a step of its own, so that the
detector, an outage or another reconciliation can come in between. `Repair` is `run_job`
seen from its target: REPAIRING, the old copy deleted, the new one stored, verified and
marked, or a failure at any of these. A job is dispatched by the detector's task or by
`Scan` (`check_under_replicated_objects`); one that a reconciliation creates is not
(`"created"`), until the scan or an administrator finds it. The session lasts, as in
`HealthScheduler` and the tests.

**HealthTask** extends NodeHealth with the task that is deployed.
`process_node_health` opens its transaction with a SELECT, so the services' changes
are savepoints; the creation of a repair job commits them, and the end of the session
rolls back what is not committed then (`saved` holds the committed rows). A
transition right after such a commit has a transaction of its own (`begun`). A
reconciliation that raises (`TaskRaises`) ends the task before the detector runs.

**RateLimiter** (spec), **MCRateLimiter**, **RateLimiterProofs.** `allow` is one step,
since the middleware calls it on the event loop. `keys` is the dictionary's order of
insertion, which the eviction depends on. A second has several ticks, because the
window is measured in fractions of a second and Retry-After in whole ones.

Operators marked "Mutant" are faulty variants of the definition that follows; they
are used only to show that a property notices that fault.

## Runs

| Run | Instance | Result |
|---|---|---|
| StorageEngine | 2 keys, 2 uploads of up to 2 pieces, capacity 3; 65,573 states | TypeOK, CapacityRespected, NoStrayFiles, CountersCoverClaims, OneUploadPerKey hold; the engine implements ObjectStore; every accepted PUT settles |
| GatewayOneLoop | 2 PUTs (one conditional), 2 DELETEs, one process; 205,152 states | TypeOK; an ACTIVE object keeps a quorum of copies unless a DELETE is at work or died; numbers are distinct, the current version is the newest, a DELETED object is empty; a PUT commits on the row it checked; the history is only added to (HistoryKept); the requests implement VersionedObject |
| RepairSafety | 3 nodes, 2 jobs, 2 tasks, one worker, 2 integrity checks; 402,717 states | TypeOK; PutCopiesSurvive: repair never costs a copy of the PUT; HealthyStored: a HEALTHY replica has its bytes |
| RepairLiveness | one worker, fewer faults than attempts; 8,517 states | replication is restored |
| Rebalance | 3 nodes, 2 jobs, 2 tasks, one worker, one GET of 2 chunks, one fault; 1,140,493 states | TypeOK, ReadTypeOK; CopiesSurvive: a migration costs no copy; ReadsWhole: a body has its chunks once and in order; UnservedOnlyIfGone: a GET fails without a byte only if all its copies have gone or are damaged |
| NodeHealth | 3 nodes, one of which goes down twice, one lost or damaged copy; 430,987 states | TypeOK; StatusMatchesSilence; SuspicionEndsByHeartbeat: no reconciliation overrules the detector; UnreachableNotCorrupted: outages alone corrupt no replica; SilenceNoticed: a silent node ends UNAVAILABLE; LossRepaired: the copy of a node that stays away is replaced |
| RateLimiter | 3 clients, 2 keys, 2 requests in 1.5 seconds, 3 seconds; 261,212 states | TypeOK; Bounded; WindowBound; RetryAfterSuffices |

Five runs show the code disagreeing with what the repository says of it; the
findings in `PROJECT.json` quote the lines.

| Run | What happens |
|---|---|
| StorageEngineRetry | a delete cut short leaves a key that is absent to DELETE and occupied to PUT |
| GatewayStaleRow | two conditional PUTs in two processes both commit over one version: the row checked under the lock is the one read before waiting |
| GatewayHang | two writes of one object block a single event loop for ever |
| RepairDuplicate | two tasks of one job leave a HEALTHY replica without bytes |
| HealthTask | a node that has answered and then stays down remains HEALTHY in the database, since the task does not commit |

GatewayStaleRow needs two gateway processes. The compose file starts one; there
GatewayOneLoop shows the conditional PUT correct, and GatewayHang shows that two
writes of one object can block the loop. The same property fails when a PUT waits
for a DELETE: it commits on an object that is DELETING.

**Limits of the passing runs.** With `Workers = 2`, HealthyStored fails
(RepairDuplicate), and so does CopiesSurvive: a second run of a job has verified the
source before the first run deletes it, and then deletes the target in order to copy
it again, from a source that is gone. The default of `MAX_PARALLEL_REPAIRS` is 4: the two
properties are checked for a deployment that sets it to 1. For more workers
`HealthyStoredSeparateTargets` says what is left: HealthyStored holds as long as no two
runs are at work on one target.
ReplicationRestored fails with
`MaxErrors = MaxAttempts`: a job out of attempts leaves its target REPAIRING, a node
with a replicas row is no spare, and with one spare node nothing is left to repair
onto. For the same reason LossRepaired is about a single node that fails: with a second
one a repair can run out of attempts. NodeHealth describes the services on a session that lasts; the deployed task
is HealthTask, whose counterpart with a commit at the end satisfies FailureRecorded.

A DELETE or PUT that its caller gave up has acted by then or never does (`MayHaveActed` in
Repair and Rebalance); one that a node carries out after the retry has begun is not
modelled there. The late writes of a gateway PUT are (`LateStore`).

**What NodeHealth does not promise.** README.md:976 lists "reconciliation when connectivity
returns", and README.md:1752 says that "recovered nodes remain `RECOVERING` until
reconciliation succeeds". The code does neither in every case, and the model follows it. A
reconciliation that cannot reach its node ends incomplete and leaves the node RECOVERING.
The next heartbeat finds it RECOVERING, not UNAVAILABLE, so that `process_node_health`
calls plain `ingest` (worker/tasks.py:352-356), and no reconciliation follows until the node
has been UNAVAILABLE once more. And a RECOVERING node that is late becomes SUSPECT
(health/failure_detector.py:128-130), from where the next heartbeat makes it HEALTHY
without a reconciliation (health/heartbeat.py:104). So neither "a node that is back becomes
HEALTHY" nor "a HEALTHY node has been reconciled" is a property of this code.

**Bounds.** Two uploads on two keys compete for one key or for the space: the
capacity is below their sum, so uploads also fail for it. Two PUTs and two DELETEs
give every pair of racing requests and a third that finds their result, a DELETE
that repeats a failed one included. Three nodes with two copies leave one spare, the
case in which a blocked target matters, and in which two migrations want the same
target. One fault of any kind at any step of a migration or of the read is enough to
separate bytes from rows, and the retry after it runs undisturbed.
One watched node is enough for NodeHealth because the detector and the
reconciliation treat nodes separately; they meet only in the repair job, and the safety
properties are proved for any number of nodes. The source of a repair is always up there:
that it may be gone is RepairSafety's case. Two outages
let a node fail again while it is being reconciled, two answers can be ingested out of
order, and two reconciliations of a node can overlap. A migration that failed may have left
a COPYING replica, on which a reconciliation raises. Two keys for three clients make
the limiter evict, and 1.5 seconds are no whole number of seconds.
`MaxErrors`, `MaxFaults`, `MaxReadErrors`, `MaxRot`, `MaxDamage`, `MaxOutages` and
`MaxAttempts` bound the faults; `Jobs`, `Tasks`, `Checks`, `MaxAnswers` and
`MaxReconciling` bound what exists at a time,
`MaxTime` how long the limiter runs. Symmetry is used only in runs of invariants.
Deadlock is checked for the engine and the nodes' health; gateway requests may all
be finished, a repair or a migration may have used up its jobs, and the limiter's
clock ends, so there the system may stop.

**Fairness.** Engine and gateway requests that are not blocked go on, because the
node client sets timeouts and the loop resumes its tasks; strong fairness says
that a waiter gets a lock that keeps being released (PostgreSQL queues waiters).
Celery beat repeats the scan and workers run what is queued (weak fairness); no
fault is fair. RepairLiveness assumes one worker: concurrent duplicates of a job
can use up its attempts between them. It also assumes that every node answered
when the gateway started, so that there is a spare. In NodeHealth time passes,
the detector looks at every node, the scan at the version, and workers run the repairs
that are dispatched; polls, heartbeats, reconciliations, undispatched repairs, outages and
damage are not fair. HealthTask assumes only that celery beat starts the task
and that it goes on.

## Proofs

All for every value of the constants that the named assumptions allow. Each proof module
sets its default provers (SMT, then Zenon, then SMT again) with their time limits; a leaf
that names a prover is for that one. tlapm also allows itself five seconds to translate a
leaf for SMT, which is why the proofs prefer many small leaves and modules.

*StorageEngineProofs* (from `EngineConstants`): `TypeCorrect`,
`NoStrayFilesAlways`, `CountersCover`, `CapacityAlwaysRespected`. The capacity bound
is not inductive, since it does not mention the counters. `CountersCoverClaims`
strengthens it: the pieces claimed outside the directory being removed, plus what
that removal will release, are within `used + reserved`, which is within capacity.
It rests on `NoStrayFiles`: each piece lies in a directory in place or under the
reservation of its upload. This holds across the publish/account window that
makes the cached usage inexact: the error is always on the side of too much.

The second part of the module (also from `ViewConstants`: the two marks of the view,
absent and damaged, are no uploads) has `OneUploadPerKeyAlways` and
`EngineImplementsObjectStore`, the refinement of ObjectStore. Initial states map to
initial states, and every action to `Publish`, `StartRemove`, a step of the removal or a
stutter. `Layout` says which directories are in place; the
refinement also needs what they hold. `Contents` adds it: a staged directory has every
piece counted so far, so that the rename publishes a whole version, and no directory
has more than was counted, so that a version that loses a file is no longer whole.

*RepairProofs* (from `RepairConstants`): `RepairTypeCorrect`,
`PutCopiesAlwaysSurvive`. A running task deletes its target without looking again,
so the invariant adds `Harmless`: a running task's target, and a replica measured
as damaged, is not an intact copy of the PUT. `Bound` ties a task to its job row
and `Sourced` gives the row a source. `HealthyStoredSeparateTargets`
is about any number of workers: HealthyStored can fail only after two runs were at work
on one target (`Separate` is broken), which is what RepairDuplicate shows. Its invariant
adds `Careful`: from its first commit to its mark the target of a run is not HEALTHY, and
it still stores something when it is marked. `HealthyStoredOneWorker` follows for
`Workers = 1`, where one run at a time is at work (`Solo`). The invariant was also
model-checked with two workers under `Separate` (546,439 states).

*ObjectGatewayProofs* (from `GatewayConstants`): `GatewayTypes`,
`GatewayNumbersDistinct`, `GatewayCurrentIsNewest`, `GatewayActiveReadable`, for any
number of requests, processes and nodes, any quorum, and any stale row in a session.
The inductive invariant `ReadInv` has three parts besides ActiveReadable.
`Numbering`: a PUT that copies holds the row, its number is above every committed
one, and only it and committed versions have numbers; this is what the row lock gives
although the row it reads is stale. `Stored`: a verified write of a PUT in progress has
its bytes, and only committed versions have replicas rows or are swept by a DELETE.
`Deleting`: a DELETE that goes on without the row's lock, or that found the object no
longer ACTIVE, works on an object that is DELETING or DELETED. The invariant was also
model-checked with two PUTs and two DELETEs in two processes (775,194 states).
`GatewayHistoryKept` is the part of the abstract object that any number of processes
keeps, stale rows or not: a committed version stays under its number, the current number
never goes down (from CurrentIsNewest before and after the step), and a DELETING or
DELETED object is never ACTIVE again (`commit_version` assigns ACTIVE to a session's row
that already is ACTIVE, which writes nothing over a DELETING committed meanwhile).

Three more theorems assume `[]Fresh`, for any number of processes: while a request is
between its SELECT and the lock, the row it has found is the committed row. They are
`DeletedIsEmptyFresh`, `CommitsOnCheckedRowFresh` (the property GatewayStaleRow shows
false for two processes, by a row that is not fresh), and
`ImplementsVersionedObjectFresh`, the refinement. So a stale row is the only thing by
which several processes can break these three. `OneProcessFresh` proves `[]Fresh` from `OneProcess`, that
all requests arrive at one process, as docker-compose.yml and gateway.Dockerfile (one
uvicorn worker) deploy it: nothing else runs between a SELECT and the next await
(`OneAtATime`). `DeletedIsEmptyOneProcess`, `CommitsOnCheckedRowOneProcess` and
`ImplementsVersionedObjectOneProcess` follow.

With fresh rows the lock does the rest. `Checked`: a PUT that copies does so for the
version after the current one, on an ACTIVE or new object. `Held`: the row a DELETE has
locked is ACTIVE until its first commit. `Swept`: a replicas row that is gone was removed
from its node first, and a DELETE at work knows every row that is left, because no PUT
can commit beside it.

*RateLimiterProofs* (from `LimiterConstants`): `LimiterTypes`, `LimiterBounded`,
`LimiterWindow`, `LimiterRetryAfter`. The bound on a window is not inductive: `allow`
sees only what it has not pruned. `IInv` adds that the deque of a client is the end of
what was admitted, that the rest is older than the window, that a promised time is
not before the oldest event expires, that keys are distinct and that no tracked deque
is empty. The last one also shows that the
eviction of an empty deque, which the code looks for first, never happens.

*NodeHealthProofs* (from `HealthConstants`): `HealthTypes`,
`HealthStatusMatchesSilence`, `HealthSuspicionEnds`, `HealthNotCorrupted`. The second is
inductive with the types: a suspicion is raised on an age that only grows, and the accepted
heartbeat that lowers the age also ends the suspicion. The third is an action property that
rests on it: the only other step that changes a status to HEALTHY is the end of a
reconciliation, which looks whether the node is still RECOVERING, and a heartbeat that is
accepted by a suspected node is newer than the stored one, which is not null. The fourth
needs that no copy is damaged before the first damage (`Undamaged`), through every repair:
a repair copies what its source stores.

*RebalanceProofs* and *RebalanceCopiesProofs* (from `RebalanceConstants`):
`RebalanceTypes`, for any number of
workers, and `CopiesSurviveOneWorker`, which assumes `Workers = 1` (with two it is false,
see the limits above). CopiesSurvive counts HEALTHY replicas with undamaged bytes, which
is not inductive: a run that dies after it deleted its source leaves a HEALTHY replica
without bytes and an active job whose target has them; the retry then removes that
replica without a copy being lost, and a count of what is stored cannot tell this from a
loss. The invariant keeps a ledger instead, one node for each copy of the PUT.
`Sound` holds the nodes that stand for themselves (`Stands`: HEALTHY, undamaged, and not
the HEALTHY target of an active job, whose copy is counted at the source) and those whose
bytes an unfinished job has taken (`Backed`: a HEALTHY target of that job has them).
`Kept` adds the source of a run about to close. `KeptEnough` says that `Kept`, what was
lost and what rotted make up the copies of the PUT, and that a run past its verification
whose target has rotted since leaves one to spare, or has nothing to remove. It rests on
`Alone`: a target has one active job, a FAILED job has used up its attempts, one run goes
on at a time, and what its session knows of the rows is still so (`InSession`). Each
action moves at most one node out of `Kept`, and pays for it: a job that ends moves its
entry from source to target, `Rot` raises `rots`, `SessionLost` raises `lost`.

*RebalanceReadProofs* (also from `ReadConstants`): `ReadTypes`, `ReadsWholeAlways`,
`UnservedOnlyIfGoneAlways`, for any number of workers, moves, nodes and chunks. The last
one needs that, until the first chunk is sent, every node that has kept its copy undamaged
since it was resolved is still among those to be asked (`ReadInv`).

**Only model-checked:** liveness (StorageEngine, RepairLiveness, NodeHealth and the
temporal findings) and all of HealthTask, whose properties are temporal: fairness and
ENABLED are outside the prover. The five disagreements are counterexamples, and stay with
TLC. Two of them are what happens where an assumption of a theorem fails: `Fresh` in
GatewayStaleRow, `Separate` in RepairDuplicate.

## Not modelled

- Frontend, migrations, validation, identifiers and logging: no state of the store.
- `StorageEngine.verify`: its callers' models take its outcome. Its walk over the files
  runs without the lock, so a verification that overlaps a delete or a rewrite of the
  same version could see parts of both; no model shows that.
- Integrity job rows (`run_job`, `scan_node`): they count what `verify_replica` does and
  decide nothing. `scan_all_integrity` only inserts one and sends its message.
- `_write_iterable`, `update_node_heartbeat`, `RebalanceManager._source_for_version`: no
  caller outside tests. `repair_version_until_healthy` is called in a branch of the task
  `repair_version` (worker/tasks.py:70) that nothing dispatches.
- `HealthScheduler` and the router of `health/api.py` are used by tests only; NodeHealth
  models the services they call, not their timers.
- Room on nodes (`used_bytes`, `capacity_bytes` in the metadata): a PUT may find too few
  nodes, for this or any other reason; repair and rebalance always find room at a spare
  node, a repair in place need not.
- Several versions of one object in repair and rebalance: each is worked on alone.
- Repair together with DELETE, or with rebalance, of the same version: the managers
  share the replicas rows. Each is modelled alone; the composition is open.
- The format of requests and responses, listings, and the temporary file a PUT's body
  is staged in.
