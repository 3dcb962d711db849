--------------------------- MODULE RebalanceProofs ---------------------------
(***************************************************************************)
(* Proofs about Rebalance: the types, for any number of workers, and what  *)
(* the only session knows when there is one worker.                        *)
(***************************************************************************)
EXTENDS Rebalance, FiniteSetTheorems, TLAPS

\* Default provers, in the order they are tried, with time limits in seconds.
USE SMTT(60), ZenonT(60), SMTT(90), SMTT(120)

-----------------------------------------------------------------------------
(* Types, for any number of workers *)

JobRows == [status : Statuses, source : Nodes \cup {NoNode},
            target : Nodes \cup {NoNode}, attempts : Nat]
Messages == [pc : Points, kind : {"migrate", "drain"}, node : Nodes \cup {NoNode},
             job : Jobs \cup {NoJob}, retries : 0 .. MaxAttempts - 1,
             attempts : Nat, seen : ReplicaStates,
             mine : {"none", "COPYING", "HEALTHY"}]

\* A message names a job that was created, and a job two different nodes.
Named(t) == task[t].job \in Jobs /\ job[task[t].job].status # "none"

Rows ==
  \A j \in Jobs : job[j].status # "none" =>
    /\ job[j].source \in Nodes /\ job[j].target \in Nodes
    /\ job[j].source # job[j].target

Queue ==
  \A t \in Tasks :
    /\ At(t, "queued") /\ task[t].kind = "migrate" => Named(t)
    /\ task[t].kind = "drain" => task[t].node \in Nodes
    /\ task[t].pc \notin {"free", "queued"} => Named(t)

Types == TypeOK /\ Rows /\ Queue

LEMMA NoTaskType == NoTask \in Messages
  BY RebalanceConstants DEF NoTask, Messages, Points, ReplicaStates

LEMMA MessageType ==
  ASSUME NEW kind \in {"migrate", "drain"}, NEW n \in Nodes \cup {NoNode},
         NEW j \in Jobs \cup {NoJob}, NEW retries \in 0 .. MaxAttempts - 1
  PROVE  /\ Message(kind, n, j, retries) \in Messages
         /\ Message(kind, n, j, retries).pc = "queued"
         /\ Message(kind, n, j, retries).kind = kind
         /\ Message(kind, n, j, retries).node = n
         /\ Message(kind, n, j, retries).job = j
         /\ Message(kind, n, j, retries).mine = "none"
  <1>1. NoTask \in Messages /\ NoTask.mine = "none"
    BY NoTaskType DEF NoTask
  <1> QED BY Zenon, <1>1 DEF Message, Messages, Points

\* What a step may do to one message: every step changes one, or only forgets
\* a replica.
Fits(message) ==
  /\ message \in Messages
  /\ message.pc = "queued" /\ message.kind = "migrate" =>
       message.job \in Jobs /\ job'[message.job].status # "none"
  /\ message.kind = "drain" => message.node \in Nodes
  /\ message.pc \notin {"free", "queued"} =>
       message.job \in Jobs /\ job'[message.job].status # "none"

LEMMA TypesStep ==
  ASSUME Types, NEW t \in Tasks, NEW message,
         task' = [task EXCEPT ![t] = message], Fits(message),
         status' \in [Nodes -> ReplicaStates], data' \in [Nodes -> Contents],
         node' \in [Nodes -> NodeStates], job' \in [Jobs -> JobRows], Rows',
         \A j \in Jobs : job[j].status # "none" => job'[j].status # "none",
         copies' = copies, errors' \in Nat, lost' \in Nat, rots' \in Nat
  PROVE  Types'
  <1>1. task \in [Tasks -> Messages] /\ copies \in Nat
    BY DEF Types, TypeOK, Messages
  <1>2. task' \in [Tasks -> Messages] /\ task'[t] = message
        /\ \A u \in Tasks \ {t} : task'[u] = task[u]
    BY <1>1 DEF Fits
  <1>3. TypeOK'
    BY <1>1, <1>2 DEF TypeOK, JobRows, Messages
  <1>4. Queue'
    BY <1>2 DEF Types, Queue, Fits, At, Named
  <1> QED BY <1>3, <1>4 DEF Types

\* The rows after a step: none is lost, and each names two nodes.
Written ==
  /\ job' \in [Jobs -> JobRows] /\ Rows'
  /\ \A j \in Jobs : job[j].status # "none" => job'[j].status # "none"

LEMMA JobTyped ==
  ASSUME Types
  PROVE  job \in [Jobs -> JobRows] /\ task \in [Tasks -> Messages]
         /\ status \in [Nodes -> ReplicaStates] /\ data \in [Nodes -> Contents]
         /\ node \in [Nodes -> NodeStates] /\ copies \in Nat /\ errors \in Nat
         /\ lost \in Nat /\ rots \in Nat
  BY DEF Types, TypeOK, JobRows, Messages

LEMMA UnchangedWritten ==
  ASSUME Types, UNCHANGED job
  PROVE  Written
  BY JobTyped DEF Written, Types, Rows

LEMMA CreateWritten ==
  ASSUME Types, NEW j \in Jobs, NEW source \in Nodes, NEW target \in Nodes,
         source # target, CreateJob(j, source, target)
  PROVE  Written /\ job'[j].status # "none"
  <1>1. job \in [Jobs -> JobRows]
    BY JobTyped
  <1>2. CASE Active(j) /\ job' = job
    BY <1>2, UnchangedWritten DEF Active
  <1>3. CASE job' = [job EXCEPT ![j] = [status |-> "PENDING", source |-> source,
                                        target |-> target, attempts |-> 0]]
    <2>1. [status |-> "PENDING", source |-> source, target |-> target,
           attempts |-> 0] \in JobRows
      BY DEF JobRows, Statuses
    <2>2. job' \in [Jobs -> JobRows]
      BY <1>1, <1>3, <2>1
    <2>3. /\ job'[j].status = "PENDING" /\ job'[j].source = source
          /\ job'[j].target = target
          /\ \A i \in Jobs \ {j} : job'[i] = job[i]
      BY <1>1, <1>3
    <2> QED BY <2>2, <2>3 DEF Written, Types, Rows
  <1> QED BY <1>2, <1>3 DEF CreateJob

\* The row of a task's job gets another status.
LEMMA MarkWritten ==
  ASSUME Types, NEW t \in Tasks, Named(t), NEW s \in Statuses \ {"none"},
         job' = [job EXCEPT ![task[t].job].status = s]
  PROVE  Written
  <1>1. job \in [Jobs -> JobRows] /\ task[t].job \in Jobs
    BY JobTyped DEF Named
  <1>2. /\ job' \in [Jobs -> JobRows]
        /\ job'[task[t].job].status = s
        /\ job'[task[t].job].source = job[task[t].job].source
        /\ job'[task[t].job].target = job[task[t].job].target
        /\ \A i \in Jobs \ {task[t].job} : job'[i] = job[i]
    BY <1>1 DEF JobRows
  <1> QED BY <1>2 DEF Written, Types, Rows, Named

LEMMA FailsWritten ==
  ASSUME Types, NEW t \in Tasks, Named(t), Fails(t)
  PROVE  Written /\ status' \in [Nodes -> ReplicaStates]
  <1>1. Written
    <2>1. PICK s \in {"FAILED", "PENDING"} :
            job' = [job EXCEPT ![task[t].job].status = s]
      BY Zenon DEF Fails
    <2>2. s \in Statuses \ {"none"}
      BY DEF Statuses
    <2> QED BY Zenon, <2>1, <2>2, MarkWritten
  <1>2. task[t].mine \in ReplicaStates
    BY JobTyped DEF Messages, ReplicaStates
  <1>3. status' \in [Nodes -> ReplicaStates]
    BY <1>2, JobTyped DEF Fails, View
  <1> QED BY <1>1, <1>3

LEMMA NoTaskFits == Fits(NoTask)
  BY NoTaskType DEF Fits, NoTask

LEMMA MoveFits ==
  ASSUME Types, NEW t \in Tasks, Named(t), Written, NEW point \in Points \ {"free", "queued"}
  PROVE  Fits([task[t] EXCEPT !.pc = point])
  <1>1. task[t] \in Messages /\ (task[t].kind = "drain" => task[t].node \in Nodes)
    BY JobTyped DEF Types, Queue
  <1>2. [task[t] EXCEPT !.pc = point] \in Messages
    BY <1>1 DEF Messages
  <1>3. /\ [task[t] EXCEPT !.pc = point].pc = point
        /\ [task[t] EXCEPT !.pc = point].kind = task[t].kind
        /\ [task[t] EXCEPT !.pc = point].node = task[t].node
        /\ [task[t] EXCEPT !.pc = point].job = task[t].job
    BY <1>1 DEF Messages
  <1> QED BY <1>1, <1>2, <1>3 DEF Fits, Written, Named

LEMMA ResentFits ==
  ASSUME Types, NEW t \in Tasks, task[t].kind = "migrate" => Named(t), Written,
         NEW retries \in 0 .. MaxAttempts - 1
  PROVE  Fits(Resent(t, retries))
  <1> DEFINE j == IF task[t].kind = "drain" THEN NoJob ELSE task[t].job
  <1>1. /\ task[t].kind \in {"migrate", "drain"} /\ task[t].node \in Nodes \cup {NoNode}
        /\ task[t].job \in Jobs \cup {NoJob}
        /\ task[t].kind = "drain" => task[t].node \in Nodes
    BY JobTyped DEF Messages, Types, Queue
  <1>2. j \in Jobs \cup {NoJob} /\ (task[t].kind = "migrate" => j = task[t].job)
    BY <1>1
  <1>3. Resent(t, retries) = Message(task[t].kind, task[t].node, j, retries)
    BY DEF Resent
  <1> HIDE DEF j
  <1>4. /\ Resent(t, retries) \in Messages
        /\ Resent(t, retries).pc = "queued"
        /\ Resent(t, retries).kind = task[t].kind
        /\ Resent(t, retries).node = task[t].node
        /\ Resent(t, retries).job = j
    BY <1>1, <1>2, <1>3, MessageType
  <1> QED BY <1>1, <1>2, <1>4 DEF Fits, Written, Named

LEMMA RetriedFits ==
  ASSUME Types, NEW t \in Tasks, task[t].kind = "migrate" => Named(t), Written
  PROVE  Fits(Retried(t))
  <1>1. task[t].retries \in 0 .. MaxAttempts - 1
    BY JobTyped DEF Messages
  <1>2. CASE task[t].retries < MaxAttempts - 1
    <2>1. task[t].retries + 1 \in 0 .. MaxAttempts - 1
      BY <1>1, <1>2, RebalanceConstants
    <2> QED BY <1>2, <2>1, ResentFits DEF Retried
  <1>3. CASE ~(task[t].retries < MaxAttempts - 1)
    BY <1>3, NoTaskFits DEF Retried
  <1> QED BY <1>2, <1>3

LEMMA RequestTypes ==
  ASSUME Types, Request
  PROVE  Types'
  <1> USE JobTyped
  <1>r. 0 \in 0 .. MaxAttempts - 1
    BY RebalanceConstants
  <1>1. ASSUME NEW j \in Jobs, NEW source \in Nodes, NEW target \in Nodes,
               AdminRebalances(j, source, target)
        PROVE  Types'
    <2>1. Written /\ job'[j].status # "none"
      BY <1>1, CreateWritten DEF AdminRebalances, Movable
    <2> DEFINE message == Message("migrate", source, j, 0)
    <2>2. Fits(message)
      BY <1>r, <2>1, MessageType DEF Fits
    <2>3. PICK t \in Tasks : task' = [task EXCEPT ![t] = message]
      BY Zenon, <1>1 DEF AdminRebalances, Dispatch
    <2> HIDE DEF message
    <2>4. UNCHANGED <<status, data, node, copies, errors, lost, rots>>
      BY <1>1 DEF AdminRebalances
    <2> QED BY Zenon, <2>1, <2>2, <2>3, <2>4, TypesStep DEF Written
  <1>2. ASSUME NEW n \in Nodes, DrainRequested(n)
        PROVE  Types'
    <2> DEFINE message == Message("drain", n, NoJob, 0)
    <2>1. Fits(message)
      <3>1. /\ message \in Messages /\ message.pc = "queued"
            /\ message.kind = "drain" /\ message.node = n
        BY Zenon, <1>r, NoTaskType DEF Message, Messages, Points
      <3> HIDE DEF message
      <3> QED BY <3>1 DEF Fits
    <2>2. PICK t \in Tasks : task' = [task EXCEPT ![t] = message]
      BY Zenon, <1>2 DEF DrainRequested, Dispatch
    <2> HIDE DEF message
    <2>3. UNCHANGED <<status, data, node, job, copies, errors, lost, rots>>
      BY <1>2 DEF DrainRequested
    <2>4. Written
      BY <2>3, UnchangedWritten
    <2> QED BY Zenon, <2>1, <2>2, <2>3, <2>4, TypesStep DEF Written
  <1> QED BY <1>1, <1>2 DEF Request

\* Before run_job has begun.
LEMMA TakenTypes ==
  ASSUME Types, NEW t \in Tasks,
         \/ DrainEnds(t) \/ DrainBlocked(t) \/ ReplicaGone(t) \/ RunFinished(t)
         \/ \E j \in Jobs, target \in Nodes : DrainPlans(t, j, target)
  PROVE  Types'
  <1> USE JobTyped
  <1>1. CASE DrainEnds(t) \/ ReplicaGone(t) \/ RunFinished(t)
    <2>1. /\ UNCHANGED <<status, data, node, job, copies, errors, lost, rots>>
          /\ task' = [task EXCEPT ![t] = NoTask]
      BY <1>1 DEF DrainEnds, ReplicaGone, RunFinished, End
    <2>2. Written
      BY <2>1, UnchangedWritten
    <2> QED BY Zenon, <2>1, <2>2, NoTaskFits, TypesStep DEF Written
  <1>2. CASE DrainBlocked(t)
    <2>1. /\ UNCHANGED <<status, data, node, job, copies, errors, lost, rots>>
          /\ task' = [task EXCEPT ![t] = Retried(t)] /\ task[t].kind = "drain"
      BY <1>2 DEF DrainBlocked, Retry, Taken
    <2>2. Written
      BY <2>1, UnchangedWritten
    <2>3. Fits(Retried(t))
      BY <2>1, <2>2, RetriedFits
    <2> QED BY Zenon, <2>1, <2>2, <2>3, TypesStep DEF Written
  <1>3. ASSUME NEW j \in Jobs, NEW target \in Nodes, DrainPlans(t, j, target)
        PROVE  Types'
    <2> DEFINE n == task[t].node
               message == [task[t] EXCEPT !.pc = "start", !.job = j]
    <2>1. /\ task[t].kind = "drain" /\ n \in Nodes /\ task[t] \in Messages
          /\ n # target
      BY <1>3 DEF DrainPlans, Taken, Types, Queue, Movable
    <2>2. Written /\ job'[j].status # "none"
      BY Zenon, <1>3, <2>1, CreateWritten DEF DrainPlans
    <2>3. /\ message \in Messages /\ message.pc = "start" /\ message.job = j
          /\ message.kind = "drain" /\ message.node = n
      BY Zenon, <2>1 DEF Messages, Points
    <2>4. task' = [task EXCEPT ![t] = message]
      BY Zenon, <1>3 DEF DrainPlans
    <2> HIDE DEF message
    <2>5. Fits(message)
      BY <2>1, <2>2, <2>3 DEF Fits
    <2>6. /\ node' = [node EXCEPT ![n] = IF job' = job THEN @ ELSE "DRAINING"]
          /\ UNCHANGED <<status, data, copies, errors, lost, rots>>
      BY Zenon, <1>3 DEF DrainPlans
    <2>7. node' \in [Nodes -> NodeStates]
      BY Zenon, <2>6 DEF NodeStates
    <2> QED BY ZenonT(60), <2>2, <2>4, <2>5, <2>6, <2>7, TypesStep DEF Written
  <1> QED BY <1>1, <1>2, <1>3

LEMMA RunStartsTypes ==
  ASSUME Types, NEW t \in Tasks, RunStarts(t)
  PROVE  Types'
  <1> USE JobTyped
  <1> DEFINE j == task[t].job
             target == job[j].target
             message == [task[t] EXCEPT
               !.pc = IF status[target] = "HEALTHY" THEN "recheck" ELSE "source",
               !.attempts = job[j].attempts + 1, !.seen = status[target]]
  <1>1. Named(t)
    BY DEF RunStarts, Begins, Taken, At, Types, Queue
  <1>2. /\ j \in Jobs /\ job[j] \in JobRows /\ target \in Nodes /\ task[t] \in Messages
        /\ (task[t].kind = "drain" => task[t].node \in Nodes)
    BY <1>1 DEF Named, Types, Rows, Queue
  <1>3. job' = [job EXCEPT ![j].status = "RUNNING", ![j].attempts = @ + 1]
    BY DEF RunStarts
  <1>4. Written
    <2>1. /\ job' \in [Jobs -> JobRows] /\ job'[j].status = "RUNNING"
          /\ job'[j].source = job[j].source /\ job'[j].target = job[j].target
          /\ \A i \in Jobs \ {j} : job'[i] = job[i]
      BY <1>2, <1>3 DEF JobRows, Statuses
    <2> QED BY <1>1, <2>1 DEF Written, Types, Rows, Named
  <1>5. task' = [task EXCEPT ![t] = message]
    BY Zenon DEF RunStarts, Target, JobOf
  <1>6. /\ message \in Messages /\ message.pc \in {"recheck", "source"}
        /\ message.kind = task[t].kind /\ message.node = task[t].node
        /\ message.job = j
    <2>1. status[target] \in ReplicaStates /\ job[j].attempts + 1 \in Nat
      BY <1>2 DEF JobRows
    <2>2. PICK point \in {"recheck", "source"} :
            message = [task[t] EXCEPT !.pc = point,
               !.attempts = job[j].attempts + 1, !.seen = status[target]]
      BY Zenon
    <2> QED BY ZenonT(60), <1>2, <2>1, <2>2 DEF Messages, Points
  <1> HIDE DEF message
  <1>7. Fits(message)
    <2>1. job'[j].status # "none"
      BY <1>1, <1>4 DEF Written, Named
    <2> HIDE DEF j
    <2> QED BY <1>2, <1>6, <2>1 DEF Fits
  <1>8. node' \in [Nodes -> NodeStates] /\ UNCHANGED <<status, data, copies, errors, lost, rots>>
    BY DEF RunStarts, NodeStates
  <1> QED BY ZenonT(60), <1>4, <1>5, <1>7, <1>8, TypesStep DEF Written

LEMMA JobNodes ==
  ASSUME Types, NEW t \in Tasks, Named(t)
  PROVE  Source(t) \in Nodes /\ Target(t) \in Nodes /\ Source(t) # Target(t)
  BY DEF Types, Rows, Named, Source, Target, JobOf

LEMMA StreamedType ==
  ASSUME NEW content
  PROVE  Streamed(content) \in Contents
  BY DEF Streamed, Contents

\* run_job, between its two commits.
LEMMA RunningTypes ==
  ASSUME Types, NEW t \in Tasks,
         \/ RecheckTarget(t) \/ VerifySource(t) \/ ClaimTarget(t)
         \/ DeleteTarget(t) \/ PutTarget(t) \/ CheckTarget(t)
         \/ CountHealthy(t) \/ DeleteSource(t)
  PROVE  Types'
  <1> USE JobTyped
  <1>1. task[t].pc \notin {"free", "queued"} /\ Named(t)
    <2>1. task[t].pc \notin {"free", "queued"}
      BY DEF RecheckTarget, VerifySource, ClaimTarget, DeleteTarget, PutTarget,
             CheckTarget, CountHealthy, DeleteSource, At
    <2> QED BY <2>1 DEF Types, Queue
  <1>2. UNCHANGED <<node, job, copies, errors, lost, rots>>
    BY DEF RecheckTarget, VerifySource, ClaimTarget, DeleteTarget, PutTarget,
           CheckTarget, CountHealthy, DeleteSource
  <1>3. Written /\ node' \in [Nodes -> NodeStates]
        /\ errors' \in Nat /\ lost' \in Nat /\ rots' \in Nat /\ copies' = copies
    BY <1>2, UnchangedWritten
  <1>4. Source(t) \in Nodes /\ Target(t) \in Nodes
    BY <1>1, JobNodes
  <1>5. data' \in [Nodes -> Contents]
    <2>1. \/ data' = data
          \/ data' = [data EXCEPT ![Target(t)] = "none"]
          \/ data' = [data EXCEPT ![Source(t)] = "none"]
          \/ data' = [data EXCEPT ![Target(t)] = Streamed(data[Source(t)])]
      BY DEF RecheckTarget, VerifySource, ClaimTarget, DeleteTarget, PutTarget,
             CheckTarget, CountHealthy, DeleteSource
    <2>2. "none" \in Contents /\ Streamed(data[Source(t)]) \in Contents
      BY StreamedType DEF Contents
    <2> QED BY <1>4, <2>1, <2>2
  <1>6. status' \in [Nodes -> ReplicaStates]
    <2>1. status' = status \/ status' = [status EXCEPT ![Target(t)] = "CORRUPTED"]
      BY DEF RecheckTarget, VerifySource, ClaimTarget, DeleteTarget, PutTarget,
             CheckTarget, CountHealthy, DeleteSource
    <2> QED BY <1>4, <2>1 DEF ReplicaStates
  <1>7. \E message : task' = [task EXCEPT ![t] = message] /\ Fits(message)
    <2>1. \A point \in Points \ {"free", "queued"} : Fits([task[t] EXCEPT !.pc = point])
      BY <1>1, <1>3, MoveFits
    <2>2. {"source", "claim", "delete", "put", "check", "count", "drop", "close"}
            \subseteq Points \ {"free", "queued"}
      BY DEF Points
    <2>3. ASSUME NEW point \in Points, Move(t, point)
          PROVE  task' = [task EXCEPT ![t] = [task[t] EXCEPT !.pc = point]]
      BY <2>3 DEF Move
    <2>4. CASE \E point \in Points \ {"free", "queued"} : Move(t, point)
      BY <2>1, <2>3, <2>4
    <2>5. CASE RecheckTarget(t) /\ ~Move(t, "count")
      <3> DEFINE message == [task[t] EXCEPT !.pc = "source", !.seen = "none"]
      <3>1. task' = [task EXCEPT ![t] = message]
        BY Zenon, <2>5 DEF RecheckTarget
      <3>2. task[t] \in Messages /\ (task[t].kind = "drain" => task[t].node \in Nodes)
        BY DEF Types, Queue
      <3>3. /\ message \in Messages /\ message.pc = "source"
            /\ message.kind = task[t].kind /\ message.node = task[t].node
            /\ message.job = task[t].job
        BY ZenonT(60), <3>2 DEF Messages, Points, ReplicaStates
      <3> HIDE DEF message
      <3>4. Fits(message)
        BY <1>1, <1>2, <3>2, <3>3 DEF Fits, Named
      <3> QED BY Zenon, <3>1, <3>4
    <2>6. CASE ClaimTarget(t)
      <3>1. CASE Contenders(t) # {}
        BY Zenon, <2>6, <3>1, NoTaskFits DEF ClaimTarget
      <3>2. CASE Contenders(t) = {}
        <4>1. PICK m \in {"none", "COPYING"} :
                task' = [task EXCEPT ![t] = [task[t] EXCEPT !.pc = "delete", !.mine = m]]
          BY Zenon, <2>6, <3>2 DEF ClaimTarget
        <4> DEFINE message == [task[t] EXCEPT !.pc = "delete", !.mine = m]
        <4>2. task[t] \in Messages /\ (task[t].kind = "drain" => task[t].node \in Nodes)
          BY DEF Types, Queue
        <4>3. /\ message \in Messages /\ message.pc = "delete"
              /\ message.kind = task[t].kind /\ message.node = task[t].node
              /\ message.job = task[t].job
          BY ZenonT(60), <4>2 DEF Messages, Points
        <4>4. task' = [task EXCEPT ![t] = message]
          BY <4>1
        <4> HIDE DEF message
        <4>5. Fits(message)
          BY <1>1, <1>2, <4>2, <4>3 DEF Fits, Named
        <4> QED BY Zenon, <4>4, <4>5
      <3> QED BY <3>1, <3>2
    <2>7. CASE CheckTarget(t)
      <3> DEFINE message == [task[t] EXCEPT !.pc = "count", !.mine = "HEALTHY"]
      <3>1. task' = [task EXCEPT ![t] = message]
        BY Zenon, <2>7 DEF CheckTarget
      <3>2. task[t] \in Messages /\ (task[t].kind = "drain" => task[t].node \in Nodes)
        BY DEF Types, Queue
      <3>3. /\ message \in Messages /\ message.pc = "count"
            /\ message.kind = task[t].kind /\ message.node = task[t].node
            /\ message.job = task[t].job
        BY Zenon, <3>2 DEF Messages, Points
      <3> HIDE DEF message
      <3>4. Fits(message)
        BY <1>1, <1>2, <3>2, <3>3 DEF Fits, Named
      <3> QED BY ZenonT(60), <3>1, <3>4
    <2> QED
      BY <2>2, <2>4, <2>5, <2>6, <2>7
      DEF RecheckTarget, VerifySource, DeleteTarget, PutTarget, CountHealthy, DeleteSource
  <1> QED BY Zenon, <1>3, <1>5, <1>6, <1>7, TypesStep DEF Written

LEMMA RemoveSourceTypes ==
  ASSUME Types, NEW t \in Tasks, RemoveSource(t)
  PROVE  Types'
  <1>1. Named(t)
    BY DEF RemoveSource, At, Types, Queue
  <1>2. Written
    <2>1. job' = [job EXCEPT ![task[t].job].status = "SUCCEEDED"]
      BY DEF RemoveSource
    <2>2. "SUCCEEDED" \in Statuses \ {"none"}
      BY DEF Statuses
    <2> QED BY Zenon, <1>1, <2>1, <2>2, MarkWritten
  <1>3. status' \in [Nodes -> ReplicaStates]
    <2>1. task[t].mine \in ReplicaStates /\ Source(t) \in Nodes
      BY <1>1, JobTyped, JobNodes DEF Messages, ReplicaStates
    <2>2. View(t) \in [Nodes -> ReplicaStates]
      BY <2>1, JobTyped DEF View
    <2> QED BY <2>1, <2>2 DEF RemoveSource, ReplicaStates
  <1>4. UNCHANGED <<data, node, copies, errors, lost, rots>>
    BY DEF RemoveSource
  <1> DEFINE ended == [task EXCEPT ![t] = NoTask]
  <1>5. ended \in [Tasks -> Messages]
    BY JobTyped, NoTaskType
  <1>6. \A u \in Tasks : Fits(ended[u])
    <2>1. \A u \in Tasks \ {t} : ended[u] = task[u] /\ Fits(task[u])
      BY <1>2, JobTyped DEF Types, Queue, At, Named, Fits, Written
    <2>2. ended[t] = NoTask
      BY JobTyped
    <2> QED BY <2>1, <2>2, NoTaskFits
  <1>7. task' = Forget(ended, Source(t))
    BY DEF RemoveSource
  <1> HIDE DEF ended
  <1>8. \A u \in Tasks : task'[u] \in Messages /\ Fits(task'[u])
    <2> TAKE u \in Tasks
    <2>1. CASE ended[u].kind = "migrate" /\ ended[u].node = Source(t)
      <3> DEFINE message == [ended[u] EXCEPT !.node = NoNode]
      <3>1. task'[u] = message
        BY <1>7, <2>1 DEF Forget
      <3>2. /\ message \in Messages /\ message.pc = ended[u].pc
            /\ message.kind = ended[u].kind /\ message.job = ended[u].job
        BY <1>5 DEF Messages
      <3> HIDE DEF message
      <3>3. Fits(message)
        BY <1>6, <2>1, <3>2 DEF Fits
      <3> QED BY <3>1, <3>2, <3>3
    <2>2. CASE ~(ended[u].kind = "migrate" /\ ended[u].node = Source(t))
      <3>1. task'[u] = ended[u]
        BY <1>7, <2>2 DEF Forget
      <3> QED BY <1>5, <1>6, <3>1
    <2> QED BY <2>1, <2>2
  <1>9. task' \in [Tasks -> Messages]
    <2>1. task' = [u \in Tasks |-> task'[u]]
      BY <1>7 DEF Forget
    <2> QED BY <1>8, <2>1
  <1>10. TypeOK'
    BY <1>2, <1>3, <1>4, <1>9, JobTyped DEF TypeOK, JobRows, Messages, Written
  <1>11. Queue'
    BY <1>8 DEF Queue, Fits, At, Named
  <1> QED BY <1>2, <1>10, <1>11 DEF Types, Written

LEMMA FailureTypes ==
  ASSUME Types, NEW t \in Tasks,
         RunInvalid(t) \/ CallRefused(t) \/ CallLost(t) \/ SessionLost(t)
  PROVE  Types'
  <1>1. task[t].pc \notin {"free", "queued"} /\ Named(t)
    <2>1. task[t].pc \notin {"free", "queued"}
      BY DEF RunInvalid, CallRefused, CallLost, SessionLost, At
    <2> QED BY <2>1 DEF Types, Queue
  <1>2. Written /\ status' \in [Nodes -> ReplicaStates]
    <2>1. CASE Fails(t)
      BY <1>1, <2>1, FailsWritten
    <2>2. CASE UNCHANGED <<status, job>>
      BY <2>2, JobTyped, UnchangedWritten
    <2> QED BY <2>1, <2>2 DEF RunInvalid, CallRefused, CallLost, SessionLost
  <1>3. data' \in [Nodes -> Contents]
    <2>1. Source(t) \in Nodes /\ Target(t) \in Nodes
      BY <1>1, JobNodes
    <2>2. data' = data \/ MayHaveActed(t)
      BY DEF RunInvalid, CallRefused, CallLost, SessionLost
    <2>3. \/ data' = data
          \/ data' = [data EXCEPT ![Target(t)] = "none"]
          \/ data' = [data EXCEPT ![Source(t)] = "none"]
          \/ data' = [data EXCEPT ![Target(t)] = Streamed(data[Source(t)])]
      BY <2>2 DEF MayHaveActed
    <2>4. "none" \in Contents /\ Streamed(data[Source(t)]) \in Contents
      BY StreamedType DEF Contents
    <2> QED BY <2>1, <2>3, <2>4, JobTyped
  <1>4. /\ UNCHANGED <<node, copies>>
        /\ errors' \in Nat /\ lost' \in Nat /\ rots' \in Nat
    BY JobTyped DEF RunInvalid, CallRefused, CallLost, SessionLost
  <1>5. \E message : task' = [task EXCEPT ![t] = message] /\ Fits(message)
    <2>1. Fits(NoTask) /\ Fits(Retried(t)) /\ Fits(Resent(t, task[t].retries))
      <3>1. task[t].retries \in 0 .. MaxAttempts - 1
        BY JobTyped DEF Messages
      <3> QED BY <1>1, <1>2, <3>1, NoTaskFits, RetriedFits, ResentFits
    <2>2. \/ task' = [task EXCEPT ![t] = NoTask]
          \/ task' = [task EXCEPT ![t] = Retried(t)]
          \/ task' = [task EXCEPT ![t] = Resent(t, task[t].retries)]
      BY DEF RunInvalid, CallRefused, CallLost, SessionLost, End, Retry
    <2> QED BY <2>1, <2>2
  <1> QED BY Zenon, <1>2, <1>3, <1>4, <1>5, JobTyped, TypesStep DEF Written

LEMMA TypesNext == Types /\ [Next]_vars => Types'
  <1>1. Types /\ UNCHANGED vars => Types'
    BY DEF Types, TypeOK, Rows, Queue, Named, At, vars
  <1>2. ASSUME Types, NEW n \in Nodes, Rot(n) PROVE Types'
    <2>1. /\ data' \in [Nodes -> Contents] /\ rots' \in Nat
          /\ UNCHANGED <<status, node, job, task, copies, errors, lost>>
      BY <1>2, JobTyped DEF Rot, Contents
    <2> QED BY <1>2, <2>1 DEF Types, TypeOK, Rows, Queue, Named, At
  <1> QED
    BY <1>1, <1>2, RequestTypes, TakenTypes, RunStartsTypes, RunningTypes,
       RemoveSourceTypes, FailureTypes
    DEF Next, Run, Fault

LEMMA InitTypes == Init => Types
  <1> SUFFICES ASSUME Init PROVE Types
    OBVIOUS
  <1>1. job = [j \in Jobs |-> NoEntry] /\ task = [t \in Tasks |-> NoTask]
    BY DEF Init
  <1>2. NoEntry \in JobRows
    BY DEF NoEntry, JobRows, Statuses
  <1>3. status \in [Nodes -> ReplicaStates] /\ data \in [Nodes -> Contents]
        /\ node \in [Nodes -> NodeStates]
    BY DEF Init, ReplicaStates, Contents, NodeStates
  <1>4. copies \in Nat
    <2>1. PICK stored \in SUBSET Nodes : copies = Cardinality(stored)
      BY DEF Init
    <2> QED BY <2>1, RebalanceConstants, FS_Subset, FS_CardinalityType
  <1>5. TypeOK
    BY <1>1, <1>2, <1>3, <1>4, NoTaskType DEF Init, TypeOK, JobRows, Messages
  <1>6. Rows /\ Queue
    BY <1>1 DEF Rows, Queue, NoEntry, NoTask, At
  <1> QED BY <1>5, <1>6 DEF Types

\* Type correctness of the migrations' state, for any number of workers.
THEOREM RebalanceTypes == Spec => []TypeOK
  <1>1. Types => TypeOK
    BY DEF Types
  <1> QED BY <1>1, InitTypes, TypesNext, PTL DEF Spec

-----------------------------------------------------------------------------
(* One worker: nobody commits behind the session of a running task *)

\* A target has one active job; a job is FAILED with its attempts used up.
Ledger ==
  /\ \A i, j \in Jobs : Active(i) /\ Active(j) /\ job[i].target = job[j].target => i = j
  /\ \A j \in Jobs : job[j].status = "FAILED" => job[j].attempts >= MaxAttempts

\* What the session of a message knows: nothing that has been committed since
\* it read the target's row.
InSession(m, st, d, rows) ==
  LET source == rows[m.job].source
      target == rows[m.job].target
  IN /\ m.pc \in {"free", "queued", "start", "recheck", "source", "claim"} => m.mine = "none"
     /\ m.pc \notin {"free", "queued", "start"} =>
          rows[m.job].status = "RUNNING" /\ m.attempts <= rows[m.job].attempts
     /\ m.pc = "recheck" => st[target] = "HEALTHY"
     /\ m.pc \in {"source", "claim"} => st[target] # "HEALTHY" /\ m.seen # "HEALTHY"
     /\ m.pc \in {"delete", "put", "check"} => m.mine = "COPYING" /\ st[target] # "HEALTHY"
     /\ m.pc \in {"count", "drop", "close"} =>
          \/ m.mine = "HEALTHY" /\ st[target] # "HEALTHY"
          \/ m.mine = "none" /\ st[target] = "HEALTHY"
     /\ m.pc = "close" => d[source] = "none"

Session ==
  /\ \A t, u \in Running : t = u
  /\ \A t \in Tasks : InSession(task[t], status, data, job)

Alone == Types /\ Ledger /\ Session

Idle(m) == m.pc \in {"free", "queued"} /\ m.mine = "none"

LEMMA IdleInSession ==
  ASSUME NEW m, Idle(m), NEW st, NEW d, NEW rows
  PROVE  InSession(m, st, d, rows)
  BY DEF Idle, InSession

LEMMA NoTaskIdle == Idle(NoTask)
  BY DEF Idle, NoTask

LEMMA ResentIdle ==
  ASSUME NEW t \in Tasks, Types
  PROVE  /\ \A retries \in 0 .. MaxAttempts - 1 : Idle(Resent(t, retries))
         /\ Idle(Retried(t)) /\ Idle(Resent(t, task[t].retries))
  <1>1. ASSUME NEW retries PROVE Idle(Resent(t, retries))
    BY NoTaskType DEF Resent, Message, Idle, Messages, NoTask
  <1> QED BY <1>1, NoTaskIdle DEF Retried

\* With one worker, the others wait while a task runs.
LEMMA OthersIdle ==
  ASSUME Alone, NEW t \in Tasks, t \in Running \/ Running = {},
         NEW u \in Tasks \ {t}
  PROVE  Idle(task[u])
  BY DEF Alone, Session, Running, Idle, InSession

\* A worker that takes a message was free.
LEMMA TakenAlone ==
  ASSUME Types, Workers = 1, NEW t \in Tasks, NEW kind, Taken(t, kind)
  PROVE  Running = {}
  <1>1. IsFiniteSet(Running)
    BY RebalanceConstants, FS_Subset DEF Running
  <1>2. Cardinality(Running) \in Nat /\ Cardinality(Running) < 1
    BY <1>1, FS_CardinalityType DEF Taken
  <1> QED BY <1>1, <1>2, FS_EmptySet

\* A step of the only session.
LEMMA SessionStep ==
  ASSUME Alone, NEW t \in Tasks, t \in Running \/ Running = {}, NEW m,
         task' = [task EXCEPT ![t] = m], InSession(m, status', data', job')
  PROVE  Session'
  <1>1. task'[t] = m /\ \A u \in Tasks \ {t} : task'[u] = task[u] /\ Idle(task[u])
    BY OthersIdle, JobTyped DEF Alone
  <1>2. \A u \in Tasks : InSession(task'[u], status', data', job')
    BY <1>1, IdleInSession
  <1>3. Running' \subseteq {t}
    BY <1>1 DEF Running, Idle
  <1> QED BY <1>2, <1>3 DEF Session

\* The row of a task's job is marked at the end of run_job.
LEMMA MarkedRow ==
  ASSUME Types, NEW t \in Tasks, Named(t), NEW s,
         job' = [job EXCEPT ![task[t].job].status = s]
  PROVE  /\ job'[task[t].job].status = s
         /\ \A i \in Jobs :
              /\ i # task[t].job => job'[i] = job[i]
              /\ job'[i].source = job[i].source /\ job'[i].target = job[i].target
              /\ job'[i].attempts = job[i].attempts
  BY JobTyped DEF Named, JobRows

LEMMA StartedRow ==
  ASSUME Alone, NEW t \in Tasks, RunStarts(t)
  PROVE  /\ Named(t) /\ Active(task[t].job)
         /\ job'[task[t].job].status = "RUNNING"
         /\ job'[task[t].job].attempts = job[task[t].job].attempts + 1
         /\ \A i \in Jobs :
              /\ i # task[t].job => job'[i] = job[i]
              /\ job'[i].source = job[i].source /\ job'[i].target = job[i].target
  <1> DEFINE j == task[t].job
  <1>1. Named(t)
    BY DEF RunStarts, Begins, Taken, At, Alone, Types, Queue
  <1>2. job \in [Jobs -> JobRows] /\ j \in Jobs
    BY <1>1, JobTyped DEF Named, Alone
  <1>3. job[j].status \in {"PENDING", "RUNNING"}
    <2>1. job[j].status \in Statuses \ {"none"} /\ ~Finished(j)
      BY <1>1, <1>2 DEF Named, JobRows, RunStarts
    <2>2. job[j].status # "FAILED" /\ job[j].status # "SUCCEEDED"
      BY <1>2, <2>1 DEF Finished, Alone, Ledger
    <2> QED BY <2>1, <2>2 DEF Statuses
  <1>4. job' = [job EXCEPT ![j].status = "RUNNING", ![j].attempts = @ + 1]
    BY DEF RunStarts
  <1>5. /\ job'[j].status = "RUNNING" /\ job'[j].attempts = job[j].attempts + 1
        /\ job'[j].source = job[j].source /\ job'[j].target = job[j].target
        /\ \A i \in Jobs \ {j} : job'[i] = job[i]
    BY <1>2, <1>4 DEF JobRows
  <1> QED BY <1>1, <1>3, <1>5 DEF Active

LEMMA CreatedRow ==
  ASSUME Types, NEW j \in Jobs, NEW source, NEW target,
         CreateJob(j, source, target)
  PROVE  \/ job' = job /\ Active(j)
         \/ /\ \A i \in Jobs : ~(Active(i) /\ job[i].target = target)
            /\ job[j].status = "none" /\ job'[j].status = "PENDING"
            /\ job'[j].source = source /\ job'[j].target = target
            /\ \A i \in Jobs \ {j} : job'[i] = job[i]
  BY JobTyped DEF CreateJob, NoEntry

LEMMA FailsRow ==
  ASSUME Alone, NEW t \in Tasks, Named(t), task[t].pc \notin {"free", "queued", "start"},
         Fails(t)
  PROVE  /\ job[task[t].job].status = "RUNNING"
         /\ job'[task[t].job].status \in {"FAILED", "PENDING"}
         /\ job'[task[t].job].status = "FAILED" =>
              job'[task[t].job].attempts >= MaxAttempts
         /\ \A i \in Jobs :
              /\ i # task[t].job => job'[i] = job[i]
              /\ job'[i].source = job[i].source /\ job'[i].target = job[i].target
  <1> DEFINE j == task[t].job
  <1>1. /\ job[j].status = "RUNNING" /\ task[t].attempts <= job[j].attempts
        /\ task[t].attempts \in Nat /\ job[j].attempts \in Nat
    BY JobTyped DEF Alone, Session, InSession, Named, Messages, JobRows
  <1>2. PICK s \in {"FAILED", "PENDING"} :
          /\ job' = [job EXCEPT ![j].status = s]
          /\ s = "FAILED" => task[t].attempts >= MaxAttempts
    BY Zenon DEF Fails
  <1>3. /\ job'[j].status = s /\ job'[j].attempts = job[j].attempts
        /\ \A i \in Jobs :
             /\ i # j => job'[i] = job[i]
             /\ job'[i].source = job[i].source /\ job'[i].target = job[i].target
    BY ZenonT(60), <1>2, MarkedRow DEF Alone, Named
  <1> QED BY <1>1, <1>2, <1>3, RebalanceConstants

\* Active jobs do not come back, and keep their targets.
LEMMA LedgerStep ==
  ASSUME Alone, [Next]_vars
  PROVE  Ledger'
  <1> USE DEF Ledger, Active
  <1>1. CASE UNCHANGED job
    BY <1>1 DEF Alone
  <1>2. ASSUME NEW j \in Jobs, NEW source, NEW target, CreateJob(j, source, target)
        PROVE  Ledger'
    BY <1>2, CreatedRow DEF Alone
  <1>3. ASSUME NEW t \in Tasks, RunStarts(t) PROVE Ledger'
    BY <1>3, StartedRow DEF Alone
  <1>4. ASSUME NEW t \in Tasks, RemoveSource(t) PROVE Ledger'
    <2>1. Named(t)
      BY <1>4 DEF RemoveSource, At, Alone, Types, Queue
    <2> QED BY <1>4, <2>1, MarkedRow DEF Alone, RemoveSource
  <1>5. ASSUME NEW t \in Tasks, RunInvalid(t) \/ CallRefused(t) \/ CallLost(t)
        PROVE  Ledger'
    <2>1. task[t].pc \notin {"free", "queued", "start"} /\ Fails(t)
      BY <1>5 DEF RunInvalid, CallRefused, CallLost, At
    <2>2. Named(t)
      BY <2>1 DEF Alone, Types, Queue
    <2> QED BY <2>1, <2>2, FailsRow DEF Alone
  <1>6. ASSUME NEW t \in Tasks,
               \/ DrainEnds(t) \/ DrainBlocked(t) \/ ReplicaGone(t) \/ RunFinished(t)
               \/ RecheckTarget(t) \/ VerifySource(t) \/ ClaimTarget(t)
               \/ DeleteTarget(t) \/ PutTarget(t) \/ CheckTarget(t)
               \/ CountHealthy(t) \/ DeleteSource(t) \/ SessionLost(t)
        PROVE  UNCHANGED job
    BY <1>6 DEF DrainEnds, DrainBlocked, ReplicaGone, RunFinished, RecheckTarget,
       VerifySource, ClaimTarget, DeleteTarget, PutTarget, CheckTarget,
       CountHealthy, DeleteSource, SessionLost
  <1>7. (\E n \in Nodes : DrainRequested(n) \/ Rot(n)) \/ UNCHANGED vars => UNCHANGED job
    BY DEF DrainRequested, Rot, vars
  <1> QED
    BY Zenon, <1>1, <1>2, <1>3, <1>4, <1>5, <1>6, <1>7
    DEF Next, Request, Run, Fault, AdminRebalances, DrainPlans

\* A message arrives, or a copy rots: no session notices.
LEMMA SessionOutside ==
  ASSUME Alone,
         \/ Request
         \/ \E n \in Nodes : Rot(n)
         \/ UNCHANGED vars
  PROVE  Session'
  <1> DEFINE Steady ==
        /\ UNCHANGED status
        /\ \A n \in Nodes : data[n] = "none" => data'[n] = "none"
        /\ \A j \in Jobs : job[j].status # "none" => job'[j] = job[j]
        /\ \A t \in Tasks : task'[t] = task[t] \/ (Idle(task[t]) /\ Idle(task'[t]))
  <1>2. ASSUME NEW n \in Nodes, Rot(n) PROVE Steady
    BY <1>2, JobTyped DEF Rot, Alone
  <1>3. ASSUME NEW t \in Tasks, NEW m, task[t].pc = "free", Idle(m),
               task' = [task EXCEPT ![t] = m]
        PROVE  \A u \in Tasks : task'[u] = task[u] \/ (Idle(task[u]) /\ Idle(task'[u]))
    <2>1. Idle(task[t])
      BY <1>3 DEF Alone, Session, InSession, Idle
    <2> QED BY <1>3, <2>1, JobTyped DEF Alone
  <1>4. ASSUME NEW kind, NEW n, NEW j, NEW retries
        PROVE  Idle(Message(kind, n, j, retries))
    BY NoTaskType DEF Message, Idle, Messages, NoTask
  <1>5. ASSUME NEW n \in Nodes, DrainRequested(n) PROVE Steady
    <2>1. UNCHANGED <<status, data, job>>
      BY <1>5 DEF DrainRequested
    <2> QED BY Zenon, <1>3, <1>4, <1>5, <2>1 DEF DrainRequested, Dispatch
  <1>6. ASSUME NEW j \in Jobs, NEW source \in Nodes, NEW target \in Nodes,
               AdminRebalances(j, source, target)
        PROVE  Steady
    <2>1. UNCHANGED <<status, data>> /\ CreateJob(j, source, target)
      BY <1>6 DEF AdminRebalances
    <2>2. \A i \in Jobs : job[i].status # "none" => job'[i] = job[i]
      BY <2>1, CreatedRow DEF Alone
    <2> DEFINE m == Message("migrate", source, j, 0)
    <2>3. PICK t \in Tasks : task[t].pc = "free" /\ task' = [task EXCEPT ![t] = m]
      BY Zenon, <1>6 DEF AdminRebalances, Dispatch
    <2>4. Idle(m)
      BY <1>4
    <2> HIDE DEF m
    <2>5. \A u \in Tasks : task'[u] = task[u] \/ (Idle(task[u]) /\ Idle(task'[u]))
      BY Zenon, <1>3, <2>3, <2>4
    <2> QED BY <2>1, <2>2, <2>5
  <1>7. ASSUME Steady PROVE Session'
    <2>1. Running' = Running
      BY <1>7 DEF Running, Idle
    <2>2. ASSUME NEW t \in Tasks, t \in Running
          PROVE  InSession(task'[t], status', data', job')
      <3>1. task'[t] = task[t]
        BY <1>7, <2>2 DEF Running, Idle
      <3>2. Named(t) /\ job'[task[t].job] = job[task[t].job]
        BY <1>7, <2>2 DEF Running, Alone, Types, Queue, Named
      <3>3. job[task[t].job].source \in Nodes
        BY <3>2, JobNodes DEF Source, JobOf, Alone
      <3>4. InSession(task[t], status, data, job)
        BY DEF Alone, Session
      <3>5. status' = status /\ (data[job[task[t].job].source] = "none" =>
                                 data'[job[task[t].job].source] = "none")
        BY <1>7, <3>3
      <3> QED BY <3>1, <3>2, <3>4, <3>5 DEF InSession
    <2>3. ASSUME NEW t \in Tasks, t \notin Running
          PROVE  InSession(task'[t], status', data', job')
      <3>1. Idle(task'[t])
        BY <1>7, <2>3 DEF Running, Idle, Alone, Session, InSession
      <3> QED BY <3>1, IdleInSession
    <2> QED BY <2>1, <2>2, <2>3 DEF Session, Alone
  <1>8. CASE UNCHANGED vars
    <2>1. UNCHANGED <<status, data, job, task>>
      BY <1>8 DEF vars
    <2> QED BY <2>1 DEF Alone, Session, Running
  <1> QED BY <1>2, <1>5, <1>6, <1>7, <1>8 DEF Request

LEMMA SessionBegins ==
  ASSUME Alone, Workers = 1, NEW t \in Tasks,
         \/ DrainEnds(t) \/ DrainBlocked(t) \/ ReplicaGone(t) \/ RunFinished(t)
         \/ \E j \in Jobs, target \in Nodes : DrainPlans(t, j, target)
         \/ RunStarts(t)
  PROVE  Session' /\ (t \in Running \/ Running = {})
  <1>1. t \in Running \/ Running = {}
    BY TakenAlone DEF Alone, DrainEnds, DrainBlocked, ReplicaGone, RunFinished,
       DrainPlans, RunStarts, Begins, At, Running
  <1>2. CASE DrainEnds(t) \/ ReplicaGone(t) \/ RunFinished(t) \/ DrainBlocked(t)
    <2>1. PICK m : task' = [task EXCEPT ![t] = m] /\ Idle(m)
      BY Zenon, <1>2, NoTaskIdle, ResentIdle
      DEF DrainEnds, ReplicaGone, RunFinished, DrainBlocked, End, Retry, Alone
    <2> QED BY Zenon, <1>1, <2>1, IdleInSession, SessionStep
  <1>3. ASSUME NEW j \in Jobs, NEW target \in Nodes, DrainPlans(t, j, target)
        PROVE  Session'
    <2> DEFINE m == [task[t] EXCEPT !.pc = "start", !.job = j]
    <2>1. task' = [task EXCEPT ![t] = m] /\ At(t, "queued")
      BY ZenonT(60), <1>3 DEF DrainPlans, Taken
    <2>2. task[t] \in Messages /\ task[t].mine = "none"
      BY <2>1, JobTyped DEF Alone, Session, InSession, At
    <2>3. m.pc = "start" /\ m.mine = "none"
      BY <2>2 DEF Messages
    <2> HIDE DEF m
    <2>4. InSession(m, status', data', job')
      BY <2>3 DEF InSession
    <2> QED BY Zenon, <1>1, <2>1, <2>4, SessionStep
  <1>4. CASE RunStarts(t)
    <2> DEFINE j == task[t].job
               target == job[j].target
               m == [task[t] EXCEPT
                 !.pc = IF status[target] = "HEALTHY" THEN "recheck" ELSE "source",
                 !.attempts = job[j].attempts + 1, !.seen = status[target]]
    <2>1. /\ task' = [task EXCEPT ![t] = m] /\ UNCHANGED <<status, data>>
      BY ZenonT(60), <1>4 DEF RunStarts, Target, JobOf
    <2>2. task[t] \in Messages /\ task[t].mine = "none"
      BY <1>4, JobTyped DEF Alone, Session, InSession, At, RunStarts, Begins, Taken
    <2>3. /\ m.pc = IF status[target] = "HEALTHY" THEN "recheck" ELSE "source"
          /\ m.mine = "none" /\ m.job = j
          /\ m.attempts = job[j].attempts + 1 /\ m.seen = status[target]
      BY <2>2 DEF Messages
    <2> HIDE DEF m
    <2>4. /\ job'[j].status = "RUNNING" /\ job'[j].attempts = job[j].attempts + 1
          /\ job'[j].target = target /\ job[j].attempts \in Nat
      BY <1>4, StartedRow, JobTyped DEF Alone, Named, JobRows
    <2>5. m.attempts <= job'[j].attempts
      BY <2>3, <2>4
    <2> HIDE DEF target, j
    <2>6. CASE status[target] = "HEALTHY"
      BY ZenonT(60), <2>1, <2>3, <2>4, <2>5, <2>6, <1>1, SessionStep DEF InSession
    <2>7. CASE status[target] # "HEALTHY"
      BY ZenonT(60), <2>1, <2>3, <2>4, <2>5, <2>7, <1>1, SessionStep DEF InSession
    <2> QED BY <2>6, <2>7
  <1> QED BY <1>1, <1>2, <1>3, <1>4

LEMMA InRunning ==
  ASSUME Alone, NEW t \in Tasks, task[t].pc \notin {"free", "queued"}
  PROVE  /\ t \in Running /\ Named(t) /\ task[t].job \in Jobs
         /\ Source(t) \in Nodes /\ Target(t) \in Nodes /\ Source(t) # Target(t)
         /\ Source(t) = job[task[t].job].source /\ Target(t) = job[task[t].job].target
         /\ InSession(task[t], status, data, job) /\ task[t] \in Messages
  <1>1. Named(t)
    BY DEF Alone, Types, Queue
  <1> QED
    BY <1>1, JobNodes, JobTyped
    DEF Alone, Session, Running, Named, Source, Target, JobOf

\* A message at another point of run_job.
LEMMA MoveSession ==
  ASSUME Alone, NEW t \in Tasks, task[t].pc \notin {"free", "queued"},
         NEW point \in Points, Move(t, point), job' = job,
         \A m : /\ m.pc = point /\ m.mine = task[t].mine /\ m.job = task[t].job
                /\ m.attempts = task[t].attempts /\ m.seen = task[t].seen
                => InSession(m, status', data', job)
  PROVE  Session'
  <1> DEFINE m == [task[t] EXCEPT !.pc = point]
  <1>1. t \in Running /\ task[t] \in Messages
    BY InRunning
  <1>2. task' = [task EXCEPT ![t] = m]
    BY DEF Move
  <1>3. /\ m.pc = point /\ m.mine = task[t].mine /\ m.job = task[t].job
        /\ m.attempts = task[t].attempts /\ m.seen = task[t].seen
    BY <1>1 DEF Messages
  <1> HIDE DEF m
  <1>4. InSession(m, status', data', job')
    BY <1>3
  <1> QED BY ZenonT(60), <1>1, <1>2, <1>4, SessionStep

\* The only session sees the rows as it has left them.
LEMMA SessionRuns ==
  ASSUME Alone, NEW t \in Tasks,
         \/ RecheckTarget(t) \/ VerifySource(t) \/ ClaimTarget(t)
         \/ DeleteTarget(t) \/ PutTarget(t) \/ CheckTarget(t)
         \/ CountHealthy(t) \/ DeleteSource(t)
  PROVE  Session'
  <1>1. task[t].pc \notin {"free", "queued", "start"} /\ job' = job
    BY DEF RecheckTarget, VerifySource, ClaimTarget, DeleteTarget, PutTarget,
           CheckTarget, CountHealthy, DeleteSource, At
  <1>2. /\ t \in Running /\ Named(t) /\ Source(t) \in Nodes /\ Target(t) \in Nodes
        /\ Source(t) # Target(t)
        /\ Source(t) = job[task[t].job].source /\ Target(t) = job[task[t].job].target
        /\ InSession(task[t], status, data, job) /\ task[t] \in Messages
    BY <1>1, InRunning
  <1>p. {"source", "claim", "delete", "put", "check", "count", "drop", "close"} \subseteq Points
    BY DEF Points
  <1>3. CASE RecheckTarget(t) /\ data[Target(t)] = "good"
    <2>1. /\ UNCHANGED <<status, data>> /\ task[t].pc = "recheck"
          /\ Move(t, "count")
      BY <1>3 DEF RecheckTarget, At
    <2>2. /\ task[t].mine = "none" /\ status[Target(t)] = "HEALTHY"
          /\ job[task[t].job].status = "RUNNING"
          /\ task[t].attempts <= job[task[t].job].attempts
      BY Zenon, <1>2, <2>1 DEF InSession
    <2> QED BY ZenonT(60), <1>1, <1>2, <1>3, <1>p, <2>1, <2>2, MoveSession DEF InSession
  <1>4. CASE /\ RecheckTarget(t)
             /\ task' = [task EXCEPT ![t].pc = "source", ![t].seen = "none"]
             /\ status' = [status EXCEPT ![Target(t)] = "CORRUPTED"]
    <2> DEFINE m == [task[t] EXCEPT !.pc = "source", !.seen = "none"]
    <2>1. task' = [task EXCEPT ![t] = m] /\ task[t].pc = "recheck"
      BY Zenon, <1>4 DEF RecheckTarget, At
    <2>2. /\ m.pc = "source" /\ m.seen = "none" /\ m.mine = task[t].mine
          /\ m.job = task[t].job /\ m.attempts = task[t].attempts
      BY <1>2 DEF Messages
    <2> HIDE DEF m
    <2>3. status'[Target(t)] = "CORRUPTED"
      BY <1>2, <1>4, JobTyped DEF Alone
    <2>4. InSession(m, status', data', job')
      BY Zenon, <1>1, <1>2, <2>1, <2>2, <2>3 DEF InSession
    <2> QED BY Zenon, <1>2, <2>1, <2>4, SessionStep
  <1>5. CASE VerifySource(t)
    <2>1. UNCHANGED <<status, data>> /\ task[t].pc = "source" /\ Move(t, "claim")
      BY <1>5 DEF VerifySource, At
    <2> QED BY ZenonT(60), <1>1, <1>2, <1>p, <2>1, MoveSession DEF InSession
  <1>6. CASE ClaimTarget(t)
    <2>1. UNCHANGED <<status, data>> /\ task[t].pc = "claim"
      BY <1>6 DEF ClaimTarget, At
    <2>2. CASE Contenders(t) # {}
      BY Zenon, <1>2, <1>6, <2>2, NoTaskIdle, IdleInSession, SessionStep DEF ClaimTarget
    <2>3. CASE Contenders(t) = {}
      <3> DEFINE m == [task[t] EXCEPT !.pc = "delete", !.mine = "COPYING"]
      <3>1. status[Target(t)] # "HEALTHY" /\ task[t].seen # "HEALTHY"
        BY Zenon, <1>2, <2>1 DEF InSession
      <3>2. task' = [task EXCEPT ![t] = m]
        BY ZenonT(60), <1>6, <2>3, <3>1 DEF ClaimTarget
      <3>3. /\ m.pc = "delete" /\ m.mine = "COPYING" /\ m.job = task[t].job
            /\ m.attempts = task[t].attempts
        BY <1>2 DEF Messages
      <3> HIDE DEF m
      <3>4. InSession(m, status', data', job')
        BY Zenon, <1>1, <1>2, <2>1, <3>1, <3>3 DEF InSession
      <3> QED BY Zenon, <1>2, <3>2, <3>4, SessionStep
    <2> QED BY <2>2, <2>3
  <1>7. CASE DeleteTarget(t)
    <2>1. UNCHANGED status /\ task[t].pc = "delete" /\ Move(t, "put")
      BY <1>7 DEF DeleteTarget, At
    <2> QED BY ZenonT(60), <1>1, <1>2, <1>p, <2>1, MoveSession DEF InSession
  <1>8. CASE PutTarget(t)
    <2>1. UNCHANGED status /\ task[t].pc = "put" /\ Move(t, "check")
      BY Zenon, <1>8 DEF PutTarget, At
    <2> QED BY ZenonT(60), <1>1, <1>2, <1>p, <2>1, MoveSession DEF InSession
  <1>9. CASE CheckTarget(t)
    <2> DEFINE m == [task[t] EXCEPT !.pc = "count", !.mine = "HEALTHY"]
    <2>1. /\ task' = [task EXCEPT ![t] = m] /\ task[t].pc = "check"
          /\ UNCHANGED <<status, data>>
      BY Zenon, <1>9 DEF CheckTarget, At
    <2>2. /\ m.pc = "count" /\ m.mine = "HEALTHY" /\ m.job = task[t].job
          /\ m.attempts = task[t].attempts
      BY <1>2 DEF Messages
    <2> HIDE DEF m
    <2>3. InSession(m, status', data', job')
      BY Zenon, <1>1, <1>2, <2>1, <2>2 DEF InSession
    <2> QED BY Zenon, <1>2, <2>1, <2>3, SessionStep
  <1>10. CASE CountHealthy(t)
    <2>1. UNCHANGED <<status, data>> /\ task[t].pc = "count" /\ Move(t, "drop")
      BY Zenon, <1>10 DEF CountHealthy, At
    <2> QED BY ZenonT(60), <1>1, <1>2, <1>p, <2>1, MoveSession DEF InSession
  <1>11. CASE DeleteSource(t)
    <2>1. /\ UNCHANGED status /\ task[t].pc = "drop" /\ Move(t, "close")
          /\ data'[Source(t)] = "none"
      BY Zenon, <1>2, <1>11, JobTyped DEF DeleteSource, At, Alone
    <2> QED BY ZenonT(60), <1>1, <1>2, <1>p, <2>1, MoveSession DEF InSession
  <1> QED
    BY <1>3, <1>4, <1>5, <1>6, <1>7, <1>8, <1>9, <1>10, <1>11 DEF RecheckTarget

\* The session ends.
LEMMA SessionEnds ==
  ASSUME Alone, NEW t \in Tasks,
         \/ RemoveSource(t) \/ RunInvalid(t) \/ CallRefused(t) \/ CallLost(t)
         \/ SessionLost(t)
  PROVE  Session' /\ t \in Running /\ Running' = {}
  <1>1. task[t].pc \notin {"free", "queued"}
    BY DEF RemoveSource, RunInvalid, CallRefused, CallLost, SessionLost, At
  <1>2. t \in Running
    BY <1>1, InRunning
  <1>3. \A u \in Tasks : Idle(task'[u])
    <2>1. ASSUME NEW m, Idle(m), task' = [task EXCEPT ![t] = m]
          PROVE  \A u \in Tasks : Idle(task'[u])
      BY <1>2, <2>1, OthersIdle, JobTyped DEF Alone
    <2>2. CASE RemoveSource(t)
      <3> DEFINE ended == [task EXCEPT ![t] = NoTask]
      <3>1. \A u \in Tasks : Idle(ended[u])
        BY <1>2, NoTaskIdle, OthersIdle, JobTyped DEF Alone
      <3>2. ended \in [Tasks -> Messages]
        BY JobTyped, NoTaskType DEF Alone
      <3>3. task' = Forget(ended, Source(t))
        BY <2>2 DEF RemoveSource
      <3> HIDE DEF ended
      <3>4. ASSUME NEW u \in Tasks PROVE Idle(task'[u])
        <4>1. task'[u].pc = ended[u].pc /\ task'[u].mine = ended[u].mine
          BY <3>2, <3>3 DEF Forget, Messages
        <4> QED BY <3>1, <4>1 DEF Idle
      <3> QED BY <3>4
    <2>3. CASE RunInvalid(t) \/ CallRefused(t) \/ CallLost(t) \/ SessionLost(t)
      <3>1. PICK m : task' = [task EXCEPT ![t] = m] /\ Idle(m)
        BY ZenonT(60), <2>3, NoTaskIdle, ResentIdle
        DEF RunInvalid, CallRefused, CallLost, SessionLost, End, Retry, Alone
      <3> QED BY Zenon, <2>1, <3>1
    <2> QED BY <2>2, <2>3
  <1>4. Running' = {}
    BY <1>3 DEF Running, Idle
  <1> QED BY <1>2, <1>3, <1>4, IdleInSession DEF Session

LEMMA AloneStep ==
  ASSUME Alone, Workers = 1, [Next]_vars
  PROVE  Alone'
  <1>1. Types' /\ Ledger'
    BY TypesNext, LedgerStep DEF Alone
  <1>2. Session'
    BY SessionOutside, SessionBegins, SessionRuns, SessionEnds DEF Next, Run, Fault
  <1> QED BY <1>1, <1>2 DEF Alone

LEMMA InitAlone == Init => Alone
  <1> SUFFICES ASSUME Init PROVE Alone
    OBVIOUS
  <1>1. Types
    BY InitTypes
  <1>2. Ledger
    BY DEF Init, Ledger, Active, NoEntry
  <1>3. \A t \in Tasks : Idle(task[t])
    BY NoTaskIdle DEF Init
  <1>4. Running = {}
    BY <1>3 DEF Running, Idle
  <1> QED BY <1>1, <1>2, <1>3, <1>4, IdleInSession DEF Alone, Session
=============================================================================
