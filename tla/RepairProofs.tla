---------------------------- MODULE RepairProofs ----------------------------
(***************************************************************************)
(* No repair harms a copy the PUT verified, for any number of nodes, jobs, *)
(* messages, workers and integrity checks.                                 *)
(*                                                                         *)
(* PutCopiesSurvive is not inductive: a task past its first transaction    *)
(* deletes and overwrites its target without looking at the replica again, *)
(* and an integrity check marks the replica it measured earlier.  Harmless *)
(* says why neither can reach an intact copy: a running task's target was  *)
(* not HEALTHY when it started, so it is not intact, and never will be; a  *)
(* mismatch was measured on a copy that is damaged.  Bound keeps a task    *)
(* tied to its job row, whose target never changes once inserted; Sourced  *)
(* says that the row has a source to copy from.                            *)
(***************************************************************************)
EXTENDS Repair, FiniteSetTheorems, TLAPS

\* Default provers, in the order they are tried, with time limits in seconds.
USE SMTT(60), ZenonT(60), SMTT(90), SMTT(120)

\* Every message names a job row that exists.
Bound ==
  \A t \in Tasks : task[t].pc # "free" =>
    task[t].job \in Jobs /\ job[task[t].job].status # "none"

Harmless ==
  /\ \A t \in Running : Target(t) \notin intact
  /\ \A c \in Checks : check[c].point = "mismatch" => check[c].node \notin intact

\* A job row, or one about to be inserted, has a source to copy from.
Sourced ==
  /\ \A j \in Jobs : job[j].status # "none" => job[j].source \in Nodes
  /\ plan # NoPlan => plan.source \in Nodes

Inv == TypeOK /\ Bound /\ Sourced /\ Harmless /\ PutCopiesSurvive

-----------------------------------------------------------------------------
(* What most steps leave alone *)

JobRecords ==
  [status : Statuses, source : Nodes \cup {NoNode},
   target : Nodes \cup {NoNode}, attempts : Nat]

TaskRecords == [pc : Points, job : Jobs \cup {NoJob}, retries : Nat, attempts : Nat]

\* A job row that exists keeps existing, with its target.
TargetsKept ==
  \A j \in Jobs : job[j].status # "none" =>
    job'[j].status # "none" /\ job'[j].target = job[j].target

JobsSourced == \A j \in Jobs : job[j].status # "none" => job[j].source \in Nodes

\* Every message was there before, with the same job ...
MessagesKept ==
  \A t \in Tasks : task'[t].pc # "free" =>
    task[t].pc # "free" /\ task'[t].job = task[t].job

\* ... and every run was running before.
RunsKept ==
  \A t \in Tasks : task'[t].pc \notin {"free", "queued"} =>
    /\ task[t].pc \notin {"free", "queued"}
    /\ task'[t].job = task[t].job

ChecksKept ==
  \A c \in Checks : check'[c].point = "mismatch" =>
    check[c].point = "mismatch" /\ check'[c].node = check[c].node

LEMMA BoundKept ==
  ASSUME Inv, TargetsKept, MessagesKept PROVE Bound'
  BY DEF Inv, TargetsKept, MessagesKept, Bound

LEMMA HarmlessKept ==
  ASSUME Inv, TargetsKept, RunsKept, ChecksKept, intact' \subseteq intact
  PROVE  Harmless'
  BY DEF Inv, Bound, TargetsKept, RunsKept, ChecksKept, Harmless, Running,
     Target, JobOf

LEMMA SourcedKept ==
  ASSUME Inv, JobsSourced', plan' \in {plan, NoPlan} PROVE Sourced'
  BY DEF Inv, Sourced, JobsSourced

LEMMA SourcedAlready == Inv => JobsSourced
  BY DEF Inv, Sourced, JobsSourced

\* Writing the status of a job row.
LEMMA StatusWritten ==
  ASSUME Inv, NEW j \in Jobs, job[j].status # "none",
         NEW s \in Statuses \ {"none"},
         job' = [job EXCEPT ![j].status = s]
  PROVE  job' \in [Jobs -> JobRecords] /\ TargetsKept /\ JobsSourced'
  BY DEF Inv, TypeOK, Sourced, JobRecords, TargetsKept, JobsSourced

\* Inserting a job row.
LEMMA RowInserted ==
  ASSUME Inv, NEW j \in Jobs, NEW source \in Nodes,
         NEW target \in Nodes \cup {NoNode}, Insert(j, source, target)
  PROVE  /\ job' \in [Jobs -> JobRecords]
         /\ TargetsKept /\ JobsSourced'
         /\ job'[j].status # "none"
  BY DEF Inv, TypeOK, Sourced, JobRecords, TargetsKept, JobsSourced, Insert,
     NoEntry, Statuses

\* One more message.
LEMMA Dispatched ==
  ASSUME TypeOK, NEW j \in Jobs, Dispatch(j)
  PROVE  /\ task' \in [Tasks -> TaskRecords]
         /\ RunsKept
         /\ \A t \in Tasks : task'[t].pc # "free" =>
              \/ task'[t].job = j
              \/ task[t].pc # "free" /\ task'[t].job = task[t].job
  BY DEF TypeOK, TaskRecords, RunsKept, Dispatch, Message, Points

\* A run ends, is requeued or goes on.
LEMMA RunMoves ==
  ASSUME TypeOK, Bound, NEW t \in Tasks, task[t].pc # "free",
         \/ End(t)
         \/ Retry(t)
         \/ Redeliver(t)
         \/ t \in Running /\ \E p \in Points \ {"free", "queued"} : Move(t, p)
  PROVE  task' \in [Tasks -> TaskRecords] /\ MessagesKept /\ RunsKept
  <1> USE DEF TypeOK, Bound, TaskRecords, MessagesKept, RunsKept, Points
  <1>1. CASE End(t)
    BY <1>1 DEF End, NoTask
  <1>2. CASE Retry(t)
    BY <1>2, RepairConstants DEF Retry, NoTask, Message
  <1>3. CASE t \in Running /\ \E p \in Points \ {"free", "queued"} : Move(t, p)
    BY <1>3 DEF Running, Move
  <1>4. CASE Redeliver(t)
    BY <1>4 DEF Redeliver, Message
  <1> QED BY <1>1, <1>2, <1>3, <1>4
-----------------------------------------------------------------------------
(* The steps *)

LEMMA InitSafe == Init => Inv
  <1> SUFFICES ASSUME Init PROVE Inv
    OBVIOUS
  <1>1. TypeOK
    BY RepairConstants DEF Init, TypeOK, NoEntry, NoTask, NoPlan, NoCheck,
       ReplicaStates, Contents, Statuses, Points
  <1>2. Bound /\ Sourced /\ Harmless
    BY DEF Init, Bound, Sourced, Harmless, Running, NoTask, NoCheck, NoEntry
  <1>3. PutCopiesSurvive
    BY DEF Init, PutCopiesSurvive
  <1> QED BY <1>1, <1>2, <1>3 DEF Inv

\* Scheduling touches neither replicas nor copies.
LEMMA SchedulingSafe ==
  ASSUME Inv, Scan \/ Insertion \/ Administrative PROVE Inv'
  <1>a. TypeOK
    BY DEF Inv
  <1>1. ASSUME NEW j \in Jobs, Active(j), Dispatch(j),
               UNCHANGED <<status, data, healthy, job, plan, check, intact,
                           errors, rots>>
        PROVE  Inv'
    <2>1. /\ task' \in [Tasks -> TaskRecords] /\ RunsKept
          /\ \A t \in Tasks : task'[t].pc # "free" =>
               \/ task'[t].job = j
               \/ task[t].pc # "free" /\ task'[t].job = task[t].job
      BY <1>a, <1>1, Dispatched
    <2>2. TypeOK'
      BY <1>a, <1>1, <2>1 DEF TypeOK, TaskRecords
    <2>3. Bound'
      BY <1>1, <2>1 DEF Inv, Bound, Active
    <2>4. Harmless'
      BY <1>1, <2>1, HarmlessKept DEF TargetsKept, ChecksKept
    <2>5. Sourced' /\ PutCopiesSurvive'
      BY <1>1 DEF Inv, Sourced, PutCopiesSurvive
    <2> QED BY <2>2, <2>3, <2>4, <2>5 DEF Inv
  <1>2. ASSUME NEW source \in Nodes, NEW target \in Nodes,
               ScanPlans(source, target)
        PROVE  Inv'
    BY <1>2 DEF Inv, ScanPlans, TypeOK, Bound, Sourced, Harmless, Running,
       Target, JobOf, PutCopiesSurvive
  <1>3. ASSUME NEW j \in Jobs, NEW source \in Nodes,
               NEW target \in Nodes \cup {NoNode},
               Insert(j, source, target), Dispatch(j),
               UNCHANGED <<status, data, healthy, check, intact, errors, rots>>,
               plan' \in {plan, NoPlan}
        PROVE  Inv'
    <2>1. /\ job' \in [Jobs -> JobRecords]
          /\ TargetsKept /\ JobsSourced'
          /\ job'[j].status # "none"
      BY <1>3, RowInserted
    <2>2. /\ task' \in [Tasks -> TaskRecords] /\ RunsKept
          /\ \A t \in Tasks : task'[t].pc # "free" =>
               \/ task'[t].job = j
               \/ task[t].pc # "free" /\ task'[t].job = task[t].job
      BY <1>a, <1>3, Dispatched
    <2>3. TypeOK'
      BY <1>a, <1>3, <2>1, <2>2 DEF TypeOK, JobRecords, TaskRecords, NoPlan
    <2>4. Bound'
      BY <2>1, <2>2 DEF Inv, Bound, TargetsKept
    <2>5. Harmless'
      BY <1>3, <2>1, <2>2, HarmlessKept DEF ChecksKept
    <2>6. Sourced' /\ PutCopiesSurvive'
      BY <1>3, <2>1, SourcedKept DEF Inv, PutCopiesSurvive
    <2> QED BY <2>3, <2>4, <2>5, <2>6 DEF Inv
  <1>4. ASSUME NEW j \in Jobs, ScanInserts(j) PROVE Inv'
    <2>1. plan.source \in Nodes /\ plan.target \in Nodes \cup {NoNode}
      BY <1>4 DEF ScanInserts, Inv, Sourced, TypeOK
    <2> QED BY <1>3, <1>4, <2>1 DEF ScanInserts
  <1>5. ASSUME NEW j \in Jobs, NEW source \in Nodes, NEW target \in Nodes,
               AdminRepairs(j, source, target)
        PROVE  Inv'
    <2>1. CASE Insert(j, source, target)
      BY <1>3, <1>5, <2>1 DEF AdminRepairs
    <2>2. CASE Active(j) /\ job' = job
      BY <1>1, <1>5, <2>2 DEF AdminRepairs
    <2> QED BY <1>5, <2>1, <2>2 DEF AdminRepairs
  <1>6. ASSUME NEW j \in Jobs, ScanRedispatches(j) PROVE Inv'
    BY <1>1, <1>6 DEF ScanRedispatches
  <1> QED BY <1>2, <1>4, <1>5, <1>6 DEF Scan, Insertion, Administrative


\* A check marks only a copy that it measured as damaged.
LEMMA IntegritySafe ==
  ASSUME Inv, NEW c \in Checks,
         \/ \E n \in Nodes : IntegrityReads(c, n)
         \/ IntegrityMeasures(c)
         \/ IntegrityMarks(c)
  PROVE  Inv'
  <1>a. TypeOK
    BY DEF Inv
  <1>1. ASSUME NEW n \in Nodes, IntegrityReads(c, n) PROVE Inv'
    BY <1>1 DEF Inv, IntegrityReads, NoCheck, TypeOK, Bound, Sourced, Harmless,
       Running, Target, JobOf, PutCopiesSurvive
  <1>2. CASE IntegrityMeasures(c)
    BY <1>2 DEF Inv, IntegrityMeasures, NoCheck, TypeOK, Bound, Sourced, Harmless,
       Running, Target, JobOf, PutCopiesSurvive
  <1>3. CASE IntegrityMarks(c)
    <2> DEFINE n == check[c].node
    <2>1. /\ status' = [status EXCEPT ![n] = "CORRUPTED"]
          /\ check' = [check EXCEPT ![c] = NoCheck]
          /\ UNCHANGED <<data, healthy, plan, intact, rots>>
          /\ errors' \in {errors, errors + 1}
          /\ n \notin intact
      BY <1>3 DEF IntegrityMarks, Inv, Harmless
    <2>2. ChecksKept /\ PutCopiesSurvive'
      BY <1>a, <2>1 DEF TypeOK, ChecksKept, NoCheck, Inv, PutCopiesSurvive
    <2>3. /\ status' \in [Nodes -> ReplicaStates]
          /\ check' \in [Checks -> [node : Nodes \cup {NoNode},
                                   point : {"idle", "read", "mismatch"}]]
          /\ errors' \in Nat
      <3>1. status' \in [Nodes -> ReplicaStates]
        BY Zenon, <1>a, <2>1 DEF TypeOK, ReplicaStates
      <3>2. check' \in [Checks -> [node : Nodes \cup {NoNode},
                                  point : {"idle", "read", "mismatch"}]]
        BY <1>a, <2>1 DEF TypeOK, NoCheck
      <3>3. errors' \in Nat
        BY <1>a, <2>1 DEF TypeOK
      <3> QED BY <3>1, <3>2, <3>3
    <2>4. CASE UNCHANGED <<job, task>>
      <3>1. TargetsKept /\ MessagesKept /\ RunsKept
        BY <2>4 DEF TargetsKept, MessagesKept, RunsKept
      <3>2. TypeOK'
        BY <1>a, <2>1, <2>3, <2>4 DEF TypeOK
      <3>3. Sourced'
        BY <2>1, <2>4 DEF Inv, Sourced
      <3> QED BY <2>1, <2>2, <3>1, <3>2, <3>3, BoundKept, HarmlessKept DEF Inv
    <2>5. ASSUME NEW source \in HealthyReplicas, NEW target \in Nodes,
                 NEW j \in Jobs,
                 \/ Active(j) /\ job' = job
                 \/ Insert(j, source, target),
                 Dispatch(j) \/ task' = task
          PROVE  Inv'
      <3>0. source \in Nodes /\ target \in Nodes \cup {NoNode}
        BY <1>a DEF HealthyReplicas, TypeOK
      <3>1. /\ job' \in [Jobs -> JobRecords]
            /\ TargetsKept /\ JobsSourced'
            /\ job'[j].status # "none"
        <4>1. CASE Active(j) /\ job' = job
          BY <1>a, <4>1, SourcedAlready
          DEF Active, TypeOK, JobRecords, TargetsKept, JobsSourced
        <4>2. CASE Insert(j, source, target)
          BY <3>0, <4>2, RowInserted
        <4> QED BY <2>5, <4>1, <4>2
      <3>2. /\ task' \in [Tasks -> TaskRecords] /\ RunsKept
            /\ \A t \in Tasks : task'[t].pc # "free" =>
                 \/ task'[t].job = j
                 \/ task[t].pc # "free" /\ task'[t].job = task[t].job
        <4>1. CASE Dispatch(j)
          BY <1>a, <4>1, Dispatched
        <4>2. CASE task' = task
          BY <1>a, <4>2 DEF TypeOK, TaskRecords, RunsKept
        <4> QED BY <2>5, <4>1, <4>2
      <3>3. TypeOK'
        BY <1>a, <2>1, <2>3, <3>1, <3>2 DEF TypeOK, JobRecords, TaskRecords
      <3>4. Bound'
        BY <3>1, <3>2 DEF Inv, Bound, TargetsKept
      <3>5. Harmless'
        BY <2>1, <2>2, <3>1, <3>2, HarmlessKept
      <3>6. Sourced'
        BY <2>1, <3>1, SourcedKept
      <3> QED BY <2>2, <3>3, <3>4, <3>5, <3>6 DEF Inv
    <2>6. \/ UNCHANGED <<job, task>>
          \/ \E source \in HealthyReplicas, target \in Nodes, j \in Jobs :
               /\ \/ Active(j) /\ job' = job
                  \/ Insert(j, source, target)
               /\ Dispatch(j) \/ task' = task
      <3>1. UNION TargetSets(n) \subseteq Nodes
        BY <1>a DEF TargetSets, TypeOK
      <3> QED BY <1>3, <3>1 DEF IntegrityMarks
    <2> QED BY <2>4, <2>5, <2>6
  <1> QED BY <1>1, <1>2, <1>3

\* The first transaction of a run: the target is not HEALTHY, so not intact.
LEMMA ClaimSafe ==
  ASSUME Inv, NEW t \in Tasks,
         \/ RunFinished(t) \/ RunRefused(t) \/ RunWithoutSource(t)
         \/ RunTargetDown(t) \/ RunStarts(t)
  PROVE  Inv'
  <1>a. TypeOK /\ Bound
    BY DEF Inv
  <1>b. /\ task[t].pc = "queued" /\ task[t].pc # "free"
        /\ task[t].job \in Jobs /\ JobOf(t).status # "none"
    BY <1>a DEF RunFinished, RunRefused, RunWithoutSource, RunTargetDown,
       RunStarts, Taken, At, Bound, JobOf
  <1>c. "FAILED" \in Statuses \ {"none"}
    BY DEF Statuses
  <1>d. ASSUME Rebuildable(Target(t)), SetRepairing(Target(t)),
               UNCHANGED <<data, intact>>
        PROVE  /\ Target(t) \notin intact
               /\ status' \in [Nodes -> ReplicaStates]
               /\ PutCopiesSurvive'
    BY Zenon, <1>a, <1>d DEF Rebuildable, SetRepairing, TypeOK, ReplicaStates, Inv,
       PutCopiesSurvive
  <1>1. CASE RunFinished(t) \/ RunRefused(t)
    <2>1. End(t) /\ UNCHANGED <<status, data, healthy, job, plan, check, intact,
                                errors, rots>>
      BY <1>1 DEF RunFinished, RunRefused
    <2>2. task' \in [Tasks -> TaskRecords] /\ MessagesKept /\ RunsKept
      BY <1>a, <1>b, <2>1, RunMoves
    <2>3. TargetsKept /\ ChecksKept /\ PutCopiesSurvive'
      BY <2>1 DEF TargetsKept, ChecksKept, Inv, PutCopiesSurvive
    <2>4. TypeOK'
      BY <1>a, <2>1, <2>2 DEF TypeOK, TaskRecords
    <2>5. Sourced'
      BY <2>1 DEF Inv, Sourced
    <2> QED BY <2>1, <2>2, <2>3, <2>4, <2>5, BoundKept, HarmlessKept DEF Inv
  <1>2. CASE RunWithoutSource(t) \/ RunTargetDown(t)
    <2>1. /\ job' = [job EXCEPT ![task[t].job].status = "FAILED"]
          /\ Retry(t)
          /\ UNCHANGED <<data, healthy, plan, check, intact, errors, rots>>
      BY <1>2 DEF RunWithoutSource, RunTargetDown
    <2>2. task' \in [Tasks -> TaskRecords] /\ MessagesKept /\ RunsKept
      BY <1>a, <1>b, <2>1, RunMoves
    <2>3. /\ job' \in [Jobs -> JobRecords]
          /\ TargetsKept /\ JobsSourced'
      BY Zenon, <1>b, <1>c, <2>1, StatusWritten DEF JobOf
    <2>4. status' \in [Nodes -> ReplicaStates] /\ PutCopiesSurvive'
      <3>1. CASE RunWithoutSource(t)
        BY <1>a, <2>1, <3>1 DEF RunWithoutSource, TypeOK, Inv, PutCopiesSurvive
      <3>2. CASE RunTargetDown(t)
        BY <1>d, <3>2 DEF RunTargetDown
      <3> QED BY <1>2, <3>1, <3>2
    <2>5. TypeOK'
      BY <1>a, <2>1, <2>2, <2>3, <2>4 DEF TypeOK, JobRecords, TaskRecords
    <2>6. ChecksKept /\ Sourced'
      BY <2>1, <2>3, SourcedKept DEF ChecksKept
    <2> QED BY <2>1, <2>2, <2>3, <2>4, <2>5, <2>6, BoundKept, HarmlessKept
            DEF Inv
  <1>3. CASE RunStarts(t)
    <2>1. /\ Target(t) \notin intact
          /\ status' \in [Nodes -> ReplicaStates]
          /\ PutCopiesSurvive'
      BY <1>3, <1>d DEF RunStarts
    <2>2. /\ job' \in [Jobs -> JobRecords]
          /\ TargetsKept /\ JobsSourced'
      BY <1>a, <1>b, <1>3, SourcedAlready
      DEF RunStarts, TypeOK, JobRecords, Statuses, TargetsKept, JobsSourced, JobOf
    <2>3. /\ task' \in [Tasks -> TaskRecords]
          /\ MessagesKept
          /\ \A s \in Tasks \ {t} : task'[s] = task[s]
          /\ task'[t].job = task[t].job
      BY <1>a, <1>b, <1>3
      DEF RunStarts, TypeOK, TaskRecords, Points, MessagesKept, JobOf
    <2>4. TypeOK'
      BY <1>a, <1>3, <2>1, <2>2, <2>3
      DEF RunStarts, TypeOK, JobRecords, TaskRecords
    <2>5. Bound'
      BY <2>2, <2>3, BoundKept
    <2>6. Target(t)' = Target(t)
      BY <1>a, <1>b, <2>2, <2>3 DEF Target, JobOf, Bound, TargetsKept
    <2>7. Harmless'
      <3>1. UNCHANGED <<check, intact>>
        BY <1>3 DEF RunStarts
      <3>2. ASSUME NEW s \in Running' PROVE Target(s)' \notin intact'
        <4>1. CASE s = t
          BY <2>1, <2>6, <3>1, <4>1
        <4>2. CASE s # t
          <5>1. s \in Running /\ task'[s] = task[s]
            BY <2>3, <3>2, <4>2 DEF Running
          <5>2. Target(s)' = Target(s)
            BY <1>a, <2>2, <5>1 DEF Target, JobOf, Bound, TargetsKept, Running
          <5> QED BY <3>1, <5>1, <5>2 DEF Inv, Harmless
        <4> QED BY <4>1, <4>2
      <3> QED BY <3>1, <3>2 DEF Inv, Harmless
    <2>8. Sourced'
      BY <1>3, <2>2, SourcedKept DEF RunStarts
    <2> QED BY <2>1, <2>4, <2>5, <2>7, <2>8 DEF Inv
  <1> QED BY <1>1, <1>2, <1>3

\* A run changes nothing but its target, which is not intact.
LEMMA RunningSafe ==
  ASSUME Inv, NEW t \in Tasks, t \in Running,
         \/ End(t) \/ Retry(t) \/ Redeliver(t)
         \/ \E p \in Points \ {"free", "queued"} : Move(t, p),
         \/ job' = job
         \/ \E s \in Statuses \ {"none"} :
              job' = [job EXCEPT ![task[t].job].status = s],
         \/ data' = data
         \/ \E v \in Contents : data' = [data EXCEPT ![Target(t)] = v],
         \/ status' = status
         \/ status' = [status EXCEPT ![Target(t)] = "HEALTHY"],
         errors' \in Nat,
         UNCHANGED <<healthy, plan, check, intact, rots>>
  PROVE  Inv'
  <1>1. /\ TypeOK /\ Bound /\ Target(t) \notin intact
        /\ task[t].pc # "free" /\ task[t].job \in Jobs
        /\ job[task[t].job].status # "none"
    BY DEF Inv, Bound, Harmless, Running
  <1>2. task' \in [Tasks -> TaskRecords] /\ MessagesKept /\ RunsKept
    BY <1>1, RunMoves
  <1>3. /\ job' \in [Jobs -> JobRecords]
        /\ TargetsKept /\ JobsSourced'
    <2>1. CASE job' = job
      BY <1>1, <2>1, SourcedAlready
      DEF TypeOK, JobRecords, TargetsKept, JobsSourced
    <2>2. ASSUME NEW s \in Statuses \ {"none"},
                 job' = [job EXCEPT ![task[t].job].status = s]
          PROVE  /\ job' \in [Jobs -> JobRecords]
                 /\ TargetsKept /\ JobsSourced'
      BY Zenon, <1>1, <2>2, StatusWritten
    <2> QED BY Zenon, <2>1, <2>2
  <1>4. data' \in [Nodes -> Contents] /\ \A n \in intact : data'[n] = data[n]
    BY <1>1 DEF TypeOK
  <1>5. /\ status' \in [Nodes -> ReplicaStates]
        /\ \A n \in intact : status'[n] = status[n]
    BY <1>1 DEF TypeOK, ReplicaStates
  <1>6. TypeOK'
    BY <1>1, <1>2, <1>3, <1>4, <1>5 DEF TypeOK, JobRecords, TaskRecords
  <1>7. Sourced' /\ PutCopiesSurvive'
    BY <1>3, <1>4, <1>5, SourcedKept DEF Inv, PutCopiesSurvive
  <1>8. ChecksKept
    BY DEF ChecksKept
  <1> QED BY <1>2, <1>3, <1>6, <1>7, <1>8, BoundKept, HarmlessKept DEF Inv

\* The node calls of a run, what it marks, and how its calls fail or it dies.
LEMMA CopySafe ==
  ASSUME Inv, NEW t \in Tasks,
         \/ VerifySource(t) \/ DeleteTarget(t) \/ PutTarget(t)
         \/ VerifyTarget(t) \/ MarkHealthy(t) \/ MarkSucceeded(t)
         \/ CallRefused(t) \/ CallLost(t) \/ WorkerLost(t)
  PROVE  Inv'
  <1>a. TypeOK /\ errors \in Nat /\ errors + 1 \in Nat
    BY DEF Inv, TypeOK
  <1>b. /\ {"delete", "put", "check", "mark", "close"}
             \subseteq Points \ {"free", "queued"}
        /\ {"SUCCEEDED", "FAILED", "PENDING"} \subseteq Statuses \ {"none"}
        /\ \A n \in Nodes : data[n] \in Contents
        /\ "none" \in Contents
    BY <1>a DEF Points, Statuses, Contents, TypeOK
  <1>1. t \in Running
    BY DEF VerifySource, DeleteTarget, PutTarget, VerifyTarget, MarkHealthy,
       MarkSucceeded, CallRefused, CallLost, WorkerLost, At, Running
  <1>c. Source(t) \in Nodes
    BY <1>1 DEF Inv, Bound, Sourced, Running, Source, JobOf
  <1>2. CASE VerifySource(t) \/ DeleteTarget(t) \/ VerifyTarget(t)
    BY <1>a, <1>b, <1>1, <1>2, RunningSafe
    DEF VerifySource, DeleteTarget, VerifyTarget
  <1>3. CASE MarkHealthy(t) \/ MarkSucceeded(t)
    BY <1>a, <1>b, <1>1, <1>3, RunningSafe DEF MarkHealthy, MarkSucceeded
  <1>4. CASE PutTarget(t)
    BY Zenon, <1>a, <1>b, <1>c, <1>1, <1>4, RunningSafe DEF PutTarget
  <1>5. CASE CallRefused(t)
    BY Zenon, <1>a, <1>b, <1>1, <1>5, RunningSafe DEF CallRefused, Fails
  <1>6. CASE CallLost(t)
    BY Zenon, <1>a, <1>b, <1>c, <1>1, <1>6, RunningSafe DEF CallLost, Fails, MayHaveActed
  <1>7. CASE WorkerLost(t)
    BY <1>a, <1>b, <1>c, <1>1, <1>7, RunningSafe DEF WorkerLost, MayHaveActed
  <1> QED BY <1>2, <1>3, <1>4, <1>5, <1>6, <1>7

\* Errors around the runs: only Rot touches a copy, which is intact no more.
LEMMA SurroundingsSafe ==
  ASSUME Inv,
         \/ \E t \in Tasks : DatabaseError(t)
         \/ \E n \in Nodes : Rot(n)
  PROVE  Inv'
  <1>1. ASSUME NEW t \in Tasks, DatabaseError(t) PROVE Inv'
    <2>1. /\ TypeOK /\ Bound
          /\ End(t) /\ task[t].pc # "free" /\ errors' = errors + 1
          /\ UNCHANGED <<status, data, healthy, job, plan, check, intact, rots>>
      BY <1>1 DEF Inv, DatabaseError, At
    <2>2. task' \in [Tasks -> TaskRecords] /\ MessagesKept /\ RunsKept
      BY <2>1, RunMoves
    <2>3. TypeOK'
      BY <2>1, <2>2 DEF TypeOK, TaskRecords
    <2>4. TargetsKept /\ ChecksKept /\ Sourced' /\ PutCopiesSurvive'
      BY <2>1 DEF TargetsKept, ChecksKept, Inv, Sourced, PutCopiesSurvive
    <2> QED BY <2>1, <2>2, <2>3, <2>4, BoundKept, HarmlessKept DEF Inv
  <1>2. ASSUME NEW n \in Nodes, Rot(n) PROVE Inv'
    BY <1>2 DEF Inv, Rot, TypeOK, Contents, Bound, Sourced, Harmless, Running,
       Target, JobOf, PutCopiesSurvive
  <1> QED BY <1>1, <1>2

LEMMA StepSafe == Inv /\ [Next]_vars => Inv'
  <1> SUFFICES ASSUME Inv, [Next]_vars PROVE Inv'
    OBVIOUS
  <1>1. CASE Scan \/ Insertion \/ Administrative
    BY <1>1, SchedulingSafe
  <1>2. ASSUME NEW c \in Checks,
               \/ \E n \in Nodes : IntegrityReads(c, n)
               \/ IntegrityMeasures(c) \/ IntegrityMarks(c)
        PROVE  Inv'
    BY <1>2, IntegritySafe
  <1>3. ASSUME NEW t \in Tasks, Run(t) \/ CallLost(t) \/ WorkerLost(t)
        PROVE  Inv'
    BY <1>3, ClaimSafe, CopySafe DEF Run
  <1>4. CASE \/ \E t \in Tasks : DatabaseError(t)
             \/ \E n \in Nodes : Rot(n)
    BY <1>4, SurroundingsSafe
  <1>5. CASE UNCHANGED vars
    BY <1>5 DEF vars, Inv, TypeOK, Bound, Sourced, Harmless, Running, Target,
       JobOf, PutCopiesSurvive
  <1> QED BY <1>1, <1>2, <1>3, <1>4, <1>5
          DEF Next, Automatic, Administrative, Fault, Transient

\* The inductive invariant of the repair system.
THEOREM InvAlways == Spec => []Inv
  BY InitSafe, StepSafe, PTL DEF Spec

\* Rows, messages and checks keep their types (repair_jobs, replicas, Celery).
THEOREM RepairTypeCorrect == Spec => []TypeOK
  <1>1. Inv => TypeOK
    BY DEF Inv
  <1> QED BY <1>1, InvAlways, PTL

\* A copy that the PUT verified and the disk has not damaged is never deleted,
\* overwritten or taken out of HEALTHY by any number of repair jobs, duplicate
\* runs, retries, lost workers, administrators and integrity checks
\* (RepairManager.run_job, IntegrityManager.verify_replica).
THEOREM PutCopiesAlwaysSurvive == Spec => []PutCopiesSurvive
  <1>1. Inv => PutCopiesSurvive
    BY DEF Inv
  <1> QED BY <1>1, InvAlways, PTL
-----------------------------------------------------------------------------
(* Runs of different targets: a HEALTHY replica is stored *)

\* The runs from their first commit to the mark of their target.
AtWork == {t \in Tasks : task[t].pc \in {"verify", "delete", "put", "check", "mark"}}

\* No two runs work on one target ...
Separate == \A t, u \in AtWork : Target(t) = Target(u) => t = u

\* ... so that a target, not HEALTHY when its run started, is not made so by
\* another, and what was verified there is not deleted before it is marked.
CarefulRun(t) ==
  \A n \in Nodes : Target(t) = n =>
    /\ status[n] # "HEALTHY"
    /\ At(t, "mark") => data[n] # "none"

Careful == \A t \in AtWork : CarefulRun(t)

StoredInv == Inv /\ Careful /\ HealthyStored

\* One message is run at a time.
Solo == \A t, u \in Running : t = u

\* A run that goes on is where it was.
PointsKept ==
  \A t \in Tasks : task'[t].pc \notin {"free", "queued"} =>
    task'[t].pc = task[t].pc /\ task'[t].job = task[t].job

\* No step changes the target of a job row.
LEMMA TargetsStay == Inv /\ [Next]_vars => TargetsKept
  <1> SUFFICES ASSUME Inv, [Next]_vars PROVE TargetsKept
    OBVIOUS
  <1>1. CASE job' = job
    BY <1>1 DEF TargetsKept
  <1>2. ASSUME NEW j \in Jobs, NEW source, NEW target, Insert(j, source, target)
        PROVE  TargetsKept
    BY <1>2 DEF Inv, TypeOK, TargetsKept, Insert, NoEntry
  <1>3. ASSUME NEW t \in Tasks, task[t].pc # "free", NEW s \in Statuses \ {"none"},
               job' = [job EXCEPT ![task[t].job].status = s]
        PROVE  TargetsKept
    <2>1. task[t].job \in Jobs /\ job[task[t].job].status # "none"
      BY <1>3 DEF Inv, Bound
    <2> QED BY Zenon, <1>3, <2>1, StatusWritten
  <1>4. ASSUME NEW t \in Tasks, RunStarts(t) PROVE TargetsKept
    BY <1>4 DEF Inv, TypeOK, Bound, RunStarts, Taken, At, TargetsKept
  <1>5. CASE Scan \/ Insertion \/ Administrative
    BY <1>1, <1>2, <1>5 DEF Scan, Insertion, Administrative, ScanPlans,
       ScanRedispatches, ScanInserts, AdminRepairs
  <1>6. ASSUME NEW c \in Checks,
               \/ \E n \in Nodes : IntegrityReads(c, n)
               \/ IntegrityMeasures(c) \/ IntegrityMarks(c)
        PROVE  TargetsKept
    BY <1>1, <1>2, <1>6 DEF IntegrityReads, IntegrityMeasures, IntegrityMarks
  <1>7. ASSUME NEW t \in Tasks, Run(t) \/ CallLost(t) \/ WorkerLost(t) \/ DatabaseError(t)
        PROVE  TargetsKept
    <2>1. CASE RunFinished(t) \/ RunRefused(t) \/ VerifySource(t) \/ DeleteTarget(t)
               \/ PutTarget(t) \/ VerifyTarget(t) \/ MarkHealthy(t) \/ WorkerLost(t)
               \/ DatabaseError(t)
      BY <1>1, <2>1 DEF RunFinished, RunRefused, VerifySource, DeleteTarget,
         PutTarget, VerifyTarget, MarkHealthy, WorkerLost, DatabaseError
    <2>2. CASE RunWithoutSource(t) \/ RunTargetDown(t) \/ MarkSucceeded(t)
      BY <1>3, <2>2 DEF RunWithoutSource, RunTargetDown, MarkSucceeded, Taken, At, Statuses
    <2>3. CASE CallRefused(t) \/ CallLost(t)
      <3>1. task[t].pc # "free" /\ Fails(t)
        BY <2>3 DEF CallRefused, CallLost, At
      <3> DEFINE s == IF task[t].attempts >= MaxAttempts THEN "FAILED" ELSE "PENDING"
      <3>2. s \in Statuses \ {"none"}
        BY DEF Statuses
      <3>3. job' = [job EXCEPT ![task[t].job].status = s]
        BY <3>1 DEF Fails
      <3> HIDE DEF s
      <3> QED BY Zenon, <1>3, <3>1, <3>2, <3>3
    <2> QED BY <1>4, <1>7, <2>1, <2>2, <2>3 DEF Run
  <1>8. ASSUME NEW n \in Nodes, Rot(n) PROVE TargetsKept
    BY <1>1, <1>8 DEF Rot
  <1> QED BY <1>1, <1>5, <1>6, <1>7, <1>8
          DEF Next, Automatic, Fault, Transient, vars

\* What a step leaves to a run that it does not move.
LEMMA OthersKept ==
  ASSUME StoredInv, TargetsKept, NEW u \in AtWork,
         task'[u].pc = task[u].pc, task'[u].job = task[u].job,
         \A n \in Nodes : n = Target(u) =>
           /\ status'[n] = "HEALTHY" => status[n] = "HEALTHY"
           /\ data'[n] = "none" => data[n] = "none"
  PROVE  CarefulRun(u)'
  <1>1. Target(u)' = Target(u)
    BY DEF StoredInv, Inv, Bound, TargetsKept, AtWork, Target, JobOf
  <1>2. ASSUME NEW n \in Nodes, Target(u) = n
        PROVE  status'[n] # "HEALTHY" /\ (task[u].pc = "mark" => data'[n] # "none")
    BY <1>2 DEF StoredInv, Careful, CarefulRun, At
  <1> QED BY <1>1, <1>2 DEF CarefulRun, At

\* Steps that start no run, and neither remove a copy nor mark one HEALTHY.
LEMMA StoredKept ==
  ASSUME StoredInv, TargetsKept, PointsKept,
         \A n \in Nodes : data'[n] = "none" => data[n] = "none",
         \A n \in Nodes : status'[n] = "HEALTHY" => status[n] = "HEALTHY"
  PROVE  Careful' /\ HealthyStored' /\ Running' \subseteq Running
  <1>1. ASSUME NEW t \in AtWork'
        PROVE  CarefulRun(t)'
    <2>1. t \in AtWork /\ task'[t].pc = task[t].pc /\ task'[t].job = task[t].job
      BY DEF AtWork, PointsKept
    <2> QED BY <2>1, OthersKept
  <1>2. HealthyStored'
    BY DEF StoredInv, HealthyStored
  <1>3. Running' \subseteq Running
    BY DEF PointsKept, Running
  <1> QED BY <1>1, <1>2, <1>3 DEF Careful

\* One more message is no run.
LEMMA DispatchPoints ==
  ASSUME TypeOK, NEW j \in Jobs, Dispatch(j) PROVE PointsKept
  BY DEF TypeOK, Dispatch, Message, PointsKept

\* Neither is a message that is given back or dropped.
LEMMA EndPoints ==
  ASSUME TypeOK, NEW t \in Tasks, End(t) \/ Retry(t) \/ Redeliver(t)
  PROVE  PointsKept /\ t \notin Running'
  <1>1. /\ task'[t].pc \in {"free", "queued"}
        /\ \A u \in Tasks \ {t} : task'[u] = task[u]
    BY DEF TypeOK, End, Retry, Redeliver, NoTask, Message
  <1> QED BY <1>1 DEF PointsKept, Running

\* Everything but the steps of a run.
LEMMA OthersStored ==
  ASSUME StoredInv, [Next]_vars,
         \/ Scan \/ Insertion \/ Administrative
         \/ \E c \in Checks, n \in Nodes : IntegrityReads(c, n)
         \/ \E c \in Checks : IntegrityMeasures(c) \/ IntegrityMarks(c)
         \/ \E n \in Nodes : Rot(n)
         \/ UNCHANGED vars
  PROVE  Careful' /\ HealthyStored' /\ Running' \subseteq Running
  <1>1. TypeOK /\ TargetsKept
    BY TargetsStay DEF StoredInv, Inv
  <1>2. CASE Scan \/ Insertion \/ Administrative
    <2>1. UNCHANGED <<status, data>> /\ (task' = task \/ \E j \in Jobs : Dispatch(j))
      BY Zenon, <1>2 DEF Scan, Insertion, Administrative, ScanPlans, ScanRedispatches,
         ScanInserts, AdminRepairs
    <2>2. PointsKept
      BY <1>1, <2>1, DispatchPoints DEF PointsKept
    <2> QED BY <1>1, <2>1, <2>2, StoredKept
  <1>3. ASSUME NEW c \in Checks,
               \/ \E n \in Nodes : IntegrityReads(c, n)
               \/ IntegrityMeasures(c) \/ IntegrityMarks(c)
        PROVE  Careful' /\ HealthyStored' /\ Running' \subseteq Running
    <2>1. /\ UNCHANGED data /\ (task' = task \/ \E j \in Jobs : Dispatch(j))
          /\ \/ status' = status
             \/ status' = [status EXCEPT ![check[c].node] = "CORRUPTED"]
      BY <1>3 DEF IntegrityReads, IntegrityMeasures, IntegrityMarks
    <2>2. PointsKept
      BY <1>1, <2>1, DispatchPoints DEF PointsKept
    <2>3. \A n \in Nodes : status'[n] = "HEALTHY" => status[n] = "HEALTHY"
      BY <1>1, <2>1 DEF TypeOK
    <2> QED BY <1>1, <2>1, <2>2, <2>3, StoredKept
  <1>4. ASSUME NEW n \in Nodes, Rot(n) PROVE Careful' /\ HealthyStored' /\ Running' \subseteq Running
    <2>1. /\ UNCHANGED <<status, task>> /\ data' = [data EXCEPT ![n] = "bad"]
      BY <1>4 DEF Rot
    <2>2. PointsKept /\ \A m \in Nodes : data'[m] = "none" => data[m] = "none"
      BY <1>1, <2>1 DEF TypeOK, PointsKept
    <2> QED BY <1>1, <2>1, <2>2, StoredKept
  <1>5. CASE UNCHANGED vars
    BY <1>1, <1>5, StoredKept DEF vars, PointsKept
  <1> QED BY <1>2, <1>3, <1>4, <1>5

\* What a run that ends or is refused leaves.
LEMMA EndsStored ==
  ASSUME StoredInv, [Next]_vars, NEW t \in Tasks,
         \/ RunFinished(t) \/ RunWithoutSource(t) \/ RunRefused(t) \/ RunTargetDown(t)
         \/ MarkSucceeded(t) \/ CallRefused(t) \/ DatabaseError(t)
  PROVE  Careful' /\ HealthyStored' /\ Running' \subseteq Running
  <1>1. TypeOK /\ TargetsKept
    BY TargetsStay DEF StoredInv, Inv
  <1>2. data' = data /\ (End(t) \/ Retry(t))
    BY DEF RunFinished, RunWithoutSource, RunRefused, RunTargetDown, MarkSucceeded,
       CallRefused, DatabaseError, Fails
  <1>3. status' = status \/ status' = [status EXCEPT ![Target(t)] = "REPAIRING"]
    BY DEF RunFinished, RunWithoutSource, RunRefused, RunTargetDown, MarkSucceeded,
       CallRefused, DatabaseError, SetRepairing
  <1>4. PointsKept
    BY <1>1, <1>2, EndPoints
  <1>5. \A n \in Nodes : status'[n] = "HEALTHY" => status[n] = "HEALTHY"
    BY <1>1, <1>3 DEF TypeOK
  <1> QED BY <1>1, <1>2, <1>4, <1>5, StoredKept

\* A call that was lost, or a worker, may have removed the copy at the target.
LEMMA LostStored ==
  ASSUME StoredInv, Separate, [Next]_vars, NEW t \in Tasks, CallLost(t) \/ WorkerLost(t)
  PROVE  Careful' /\ HealthyStored' /\ Running' \subseteq Running
  <1>1. /\ TypeOK /\ TargetsKept /\ MayHaveActed(t) /\ status' = status
        /\ Retry(t) \/ Redeliver(t)
    BY TargetsStay DEF StoredInv, Inv, CallLost, WorkerLost, Fails
  <1>2. PointsKept /\ t \notin Running'
    BY <1>1, EndPoints
  <1>3. ASSUME NEW n \in Nodes, data'[n] = "none", data[n] # "none"
        PROVE  t \in AtWork /\ n = Target(t)
    BY <1>1, <1>3 DEF MayHaveActed, At, TypeOK, AtWork
  <1>4. ASSUME NEW u \in AtWork'
        PROVE  CarefulRun(u)'
    <2>1. /\ u \in AtWork /\ task'[u].pc = task[u].pc /\ task'[u].job = task[u].job
          /\ u # t
      BY <1>2 DEF AtWork, PointsKept, Running
    <2>2. ASSUME NEW n \in Nodes, n = Target(u), data'[n] = "none" PROVE data[n] = "none"
      BY <1>3, <2>1, <2>2 DEF Separate
    <2> QED BY <1>1, <2>1, <2>2, OthersKept
  <1>5. ASSUME NEW n \in Nodes, status'[n] = "HEALTHY", data'[n] = "none" PROVE FALSE
    <2>1. data[n] # "none"
      BY <1>1, <1>5 DEF StoredInv, HealthyStored
    <2>2. t \in AtWork /\ n = Target(t)
      BY <1>3, <1>5, <2>1
    <2> QED BY <1>1, <1>5, <2>2 DEF StoredInv, Careful, CarefulRun
  <1>6. Running' \subseteq Running
    BY <1>2 DEF PointsKept, Running
  <1> QED BY <1>4, <1>5, <1>6 DEF Careful, HealthyStored

\* A run starts on a target that is not HEALTHY, and stays so.
LEMMA StartStored ==
  ASSUME StoredInv, [Next]_vars, NEW t \in Tasks, RunStarts(t)
  PROVE  Careful' /\ HealthyStored' /\ Running' \subseteq Running \cup {t}
  <1>1. TypeOK /\ TargetsKept /\ Bound
    BY TargetsStay DEF StoredInv, Inv
  <1>2. /\ data' = data /\ SetRepairing(Target(t)) /\ task[t].pc = "queued"
        /\ task' = [task EXCEPT ![t].pc = "verify", ![t].attempts = JobOf(t).attempts + 1]
    BY DEF RunStarts, Taken, At
  <1>3. /\ task'[t].pc = "verify" /\ task'[t].job = task[t].job
        /\ \A u \in Tasks \ {t} : task'[u] = task[u]
    BY <1>1, <1>2 DEF TypeOK
  <1>4. Target(t)' = Target(t)
    BY <1>1, <1>2, <1>3 DEF Target, JobOf, Bound, TargetsKept
  <1>5. \A n \in Nodes : status'[n] = IF n = Target(t) THEN "REPAIRING" ELSE status[n]
    BY <1>1, <1>2 DEF SetRepairing, TypeOK
  <1>6. ASSUME NEW u \in AtWork'
        PROVE  CarefulRun(u)'
    <2>1. CASE u = t
      BY <1>3, <1>4, <1>5, <2>1 DEF CarefulRun, At
    <2>2. CASE u # t
      <3>1. u \in AtWork /\ task'[u] = task[u]
        BY <1>3, <2>2 DEF AtWork
      <3>2. \A n \in Nodes : (status'[n] = "HEALTHY" => status[n] = "HEALTHY")
                              /\ data'[n] = data[n]
        BY <1>2, <1>5
      <3> QED BY <1>1, <3>1, <3>2, OthersKept
    <2> QED BY <2>1, <2>2
  <1>7. HealthyStored'
    BY <1>2, <1>5 DEF StoredInv, HealthyStored
  <1>8. Running' \subseteq Running \cup {t}
    BY <1>3 DEF Running
  <1> QED BY <1>6, <1>7, <1>8 DEF Careful

\* A run goes on, alone on its target.
LEMMA MoveStored ==
  ASSUME StoredInv, Separate, [Next]_vars, NEW t \in Tasks,
         \/ VerifySource(t) \/ DeleteTarget(t) \/ PutTarget(t) \/ VerifyTarget(t)
         \/ MarkHealthy(t)
  PROVE  Careful' /\ HealthyStored' /\ Running' \subseteq Running
  <1>1. TypeOK /\ TargetsKept /\ Bound
    BY TargetsStay DEF StoredInv, Inv
  <1>2. t \in AtWork /\ t \in Running
    BY DEF VerifySource, DeleteTarget, PutTarget, VerifyTarget, MarkHealthy, At, AtWork,
       Running
  <1>3. PICK p \in {"delete", "put", "check", "mark", "close"} : Move(t, p)
    BY DEF VerifySource, DeleteTarget, PutTarget, VerifyTarget, MarkHealthy
  <1>4. /\ task'[t].pc = p /\ task'[t].job = task[t].job
        /\ \A u \in Tasks \ {t} : task'[u] = task[u]
    BY <1>1, <1>3 DEF TypeOK, Move
  <1>5. Running' \subseteq Running
    BY <1>2, <1>4 DEF Running
  <1>6. Target(t)' = Target(t)
    BY <1>1, <1>2, <1>4 DEF Target, JobOf, Bound, TargetsKept, Running
  <1>7. \A n \in Nodes : n # Target(t) => data'[n] = data[n] /\ status'[n] = status[n]
    BY <1>1 DEF VerifySource, DeleteTarget, PutTarget, VerifyTarget, MarkHealthy, TypeOK
  <1>8. \A n \in Nodes : n = Target(t) =>
          status[n] # "HEALTHY" /\ (task[t].pc = "mark" => data[n] # "none")
    BY <1>2 DEF StoredInv, Careful, CarefulRun, At
  <1>9. ASSUME NEW n \in Nodes, n = Target(t)
        PROVE  /\ status'[n] = "HEALTHY" => data'[n] # "none"
               /\ p # "close" => status'[n] # "HEALTHY"
               /\ p = "mark" => data'[n] # "none"
    <2>1. CASE VerifySource(t) \/ DeleteTarget(t) \/ PutTarget(t)
      <3>1. /\ status' = status /\ task[t].pc \in {"verify", "delete", "put"}
            /\ task' = [task EXCEPT ![t].pc = "delete"] \/ task' = [task EXCEPT ![t].pc = "put"]
               \/ task' = [task EXCEPT ![t].pc = "check"]
        BY <2>1 DEF VerifySource, DeleteTarget, PutTarget, Move, At
      <3>2. task'[t].pc # "mark"
        BY <1>1, <3>1 DEF TypeOK
      <3> QED BY <1>4, <1>8, <1>9, <3>1, <3>2
    <2>2. CASE VerifyTarget(t)
      <3>1. status' = status /\ data' = data /\ task[t].pc = "check" /\ data[Target(t)] = "good"
        BY Zenon, <2>2 DEF VerifyTarget, At
      <3> QED BY <1>8, <1>9, <3>1
    <2>3. CASE MarkHealthy(t)
      <3>1. data' = data /\ task[t].pc = "mark" /\ task' = [task EXCEPT ![t].pc = "close"]
        BY <2>3 DEF MarkHealthy, Move, At
      <3>2. p = "close"
        BY <1>1, <1>4, <3>1 DEF TypeOK
      <3> QED BY <1>8, <1>9, <3>1, <3>2
    <2> QED BY <2>1, <2>2, <2>3
  <1>10. ASSUME NEW u \in AtWork'
        PROVE  CarefulRun(u)'
    <2>1. CASE u = t
      BY <1>4, <1>6, <1>9, <2>1 DEF CarefulRun, AtWork, At
    <2>2. CASE u # t
      <3>1. u \in AtWork /\ task'[u] = task[u]
        BY <1>4, <2>2 DEF AtWork
      <3>2. Target(u) # Target(t)
        BY <1>2, <2>2, <3>1 DEF Separate
      <3>3. \A n \in Nodes : n = Target(u) => data'[n] = data[n] /\ status'[n] = status[n]
        BY <1>7, <3>2
      <3> QED BY <1>1, <3>1, <3>3, OthersKept
    <2> QED BY <2>1, <2>2
  <1>11. HealthyStored'
    BY <1>7, <1>9 DEF StoredInv, HealthyStored
  <1> QED BY <1>5, <1>10, <1>11 DEF Careful

\* Only RunStarts adds a run.
LEMMA StepRuns ==
  ASSUME StoredInv, Separate, [Next]_vars
  PROVE  /\ Careful' /\ HealthyStored'
         /\ \/ Running' \subseteq Running
            \/ \E t \in Tasks : RunStarts(t) /\ Running' \subseteq Running \cup {t}
  <1> DEFINE Goal == /\ Careful' /\ HealthyStored'
                     /\ \/ Running' \subseteq Running
                        \/ \E t \in Tasks : RunStarts(t) /\ Running' \subseteq Running \cup {t}
  <1>1. ASSUME NEW t \in Tasks, Run(t) \/ CallLost(t) \/ WorkerLost(t) \/ DatabaseError(t)
        PROVE  Goal
    <2>1. CASE RunStarts(t)
      BY <2>1, StartStored
    <2>2. CASE CallLost(t) \/ WorkerLost(t)
      BY <2>2, LostStored
    <2>3. CASE \/ VerifySource(t) \/ DeleteTarget(t) \/ PutTarget(t) \/ VerifyTarget(t)
               \/ MarkHealthy(t)
      BY <2>3, MoveStored
    <2>4. CASE \/ RunFinished(t) \/ RunWithoutSource(t) \/ RunRefused(t) \/ RunTargetDown(t)
               \/ MarkSucceeded(t) \/ CallRefused(t) \/ DatabaseError(t)
      BY <2>4, EndsStored
    <2> QED BY <1>1, <2>1, <2>2, <2>3, <2>4 DEF Run
  <1>2. ASSUME \/ Scan \/ Insertion \/ Administrative
               \/ \E c \in Checks, n \in Nodes : IntegrityReads(c, n)
               \/ \E c \in Checks : IntegrityMeasures(c) \/ IntegrityMarks(c)
               \/ \E n \in Nodes : Rot(n)
               \/ UNCHANGED vars
        PROVE  Goal
    BY <1>2, OthersStored
  <1> HIDE DEF Goal
  <1>3. Goal
    BY <1>1, <1>2 DEF Next, Automatic, Fault, Transient
  <1> QED BY <1>3 DEF Goal

LEMMA InitStored == Init => StoredInv
  <1> SUFFICES ASSUME Init PROVE StoredInv
    OBVIOUS
  <1>1. Inv
    BY InitSafe
  <1>2. Careful
    BY DEF Init, Careful, AtWork, NoTask
  <1>3. HealthyStored
    BY DEF Init, HealthyStored
  <1> QED BY <1>1, <1>2, <1>3 DEF StoredInv

LEMMA StepStored == StoredInv /\ Separate /\ [Next]_vars => StoredInv'
  BY StepSafe, StepRuns DEF StoredInv

\* A replica is HEALTHY only while its node stores something, however many
\* workers there are, as long as no two runs are at work on one target: two
\* runs of different targets do each other no harm (run_job).
THEOREM HealthyStoredSeparateTargets == Spec /\ []Separate => []HealthyStored
  <1>1. StoredInv => HealthyStored
    BY DEF StoredInv
  <1> QED BY <1>1, InitStored, StepStored, PTL DEF Spec

\* A run starts when fewer than Workers run.
LEMMA StepSolo ==
  ASSUME StoredInv, Solo, Workers = 1, [Next]_vars
  PROVE  Solo'
  <1>1. Separate
    BY DEF Solo, Separate, AtWork, Running
  <1>2. CASE Running' \subseteq Running
    BY <1>2 DEF Solo
  <1>3. ASSUME NEW t \in Tasks, RunStarts(t), Running' \subseteq Running \cup {t}
        PROVE  Solo'
    <2>1. IsFiniteSet(Running) /\ Cardinality(Running) < 1
      BY <1>3, RepairConstants, FS_Subset DEF RunStarts, Taken, Running
    <2>2. Cardinality(Running) = 0
      BY <2>1, FS_CardinalityType
    <2>3. Running = {}
      BY <2>1, <2>2, FS_EmptySet
    <2> QED BY <1>3, <2>3 DEF Solo
  <1> QED BY <1>1, <1>2, <1>3, StepRuns

\* With one worker a replica is HEALTHY only while its node stores something,
\* for any number of nodes, jobs, messages, attempts and integrity checks: no
\* run deletes a copy that another marked (run_job, mark_replica_healthy).
THEOREM HealthyStoredOneWorker ==
  ASSUME Workers = 1
  PROVE  Spec => []HealthyStored
  <1>1. Init => Solo
    BY DEF Init, Solo, Running, NoTask
  <1>2. Solo => Separate
    BY DEF Solo, Separate, AtWork, Running
  <1>3. StoredInv /\ Solo /\ [Next]_vars => (StoredInv /\ Solo)'
    BY <1>2, StepStored, StepSolo
  <1>4. StoredInv => HealthyStored
    BY DEF StoredInv
  <1> QED BY InitStored, <1>1, <1>3, <1>4, PTL DEF Spec
=============================================================================
