----------------------- MODULE RebalanceCopiesProofs ------------------------
(***************************************************************************)
(* With one worker, the migrations keep the copies of a PUT: the ledger    *)
(* Kept has a node for every copy that neither rotted nor was lost.        *)
(***************************************************************************)
EXTENDS RebalanceProofs

\* Default provers, in the order they are tried, with time limits in seconds.
USE SMTT(60), ZenonT(60), SMTT(90), SMTT(120)

\* A job whose target is recorded: the copy there replaces the source's.
Realized(j) == Active(j) /\ status[job[j].target] = "HEALTHY"

\* A copy that no active job is about to account for.
Stands(n) ==
  /\ status[n] = "HEALTHY" /\ data[n] = "good"
  /\ \A j \in Jobs : Realized(j) => job[j].target # n

\* A job has a copy of what was at its source.
Backs(j, n) == Realized(j) /\ job[j].source = n /\ data[job[j].target] = "good"

\* A replica whose bytes were deleted for a job that could not say so.
Backed(n) ==
  status[n] = "HEALTHY" /\ data[n] = "none" /\ \E j \in Jobs : Backs(j, n)

\* A replica that a job is about to remove.
Closes(n) == status[n] = "HEALTHY" /\ \E t \in Closing : Source(t) = n

\* One node for every copy of the PUT that neither rotted nor was lost.
Sound == {n \in Nodes : Stands(n) \/ Backed(n)}
Kept == Sound \cup {n \in Nodes : Closes(n)}
Balance == Cardinality(Kept) + lost + rots

\* A target that rotted after it was verified leaves a copy to spare, unless
\* the source has none to lose.
KeptEnough ==
  /\ Balance >= copies
  /\ \A t \in Tasks :
       task[t].pc \in {"count", "drop", "close"} /\ data[Target(t)] # "good" =>
         Balance > copies \/ (data[Source(t)] = "none" /\ Source(t) \notin Kept)

CopiesInv == Alone /\ KeptEnough

LEMMA NodeSetFinite ==
  ASSUME NEW S \in SUBSET Nodes
  PROVE  IsFiniteSet(S) /\ Cardinality(S) \in Nat
  BY RebalanceConstants, FS_Subset, FS_CardinalityType

LEMMA CountMono ==
  ASSUME NEW A \in SUBSET Nodes, NEW B \in SUBSET Nodes, A \subseteq B
  PROVE  Cardinality(A) <= Cardinality(B)
  BY NodeSetFinite, FS_Subset

LEMMA CountWithout ==
  ASSUME NEW A \in SUBSET Nodes, NEW B \in SUBSET Nodes, NEW x, A \ {x} \subseteq B
  PROVE  Cardinality(A) <= Cardinality(B) + 1
  <1>1. CASE x \in A
    <2>1. Cardinality(A \ {x}) = Cardinality(A) - 1
      BY <1>1, NodeSetFinite, FS_RemoveElement
    <2>2. Cardinality(A \ {x}) <= Cardinality(B)
      BY CountMono
    <2> QED BY <2>1, <2>2, NodeSetFinite
  <1>2. CASE x \notin A
    BY <1>2, CountMono, NodeSetFinite
  <1> QED BY <1>1, <1>2

LEMMA CountGain ==
  ASSUME NEW A \in SUBSET Nodes, NEW B \in SUBSET Nodes, A \subseteq B,
         NEW y \in B \ A
  PROVE  Cardinality(A) < Cardinality(B)
  <1>1. Cardinality(A \cup {y}) = Cardinality(A) + 1
    BY NodeSetFinite, FS_AddElement
  <1>2. Cardinality(A \cup {y}) <= Cardinality(B)
    BY CountMono
  <1> QED BY <1>1, <1>2, NodeSetFinite

LEMMA CountSwap ==
  ASSUME NEW A \in SUBSET Nodes, NEW B \in SUBSET Nodes, NEW x, A \ {x} \subseteq B,
         NEW y \in B \ A
  PROVE  Cardinality(A) <= Cardinality(B)
  <1>1. CASE x \in A
    <2>1. Cardinality(A \ {x}) = Cardinality(A) - 1
      BY <1>1, NodeSetFinite, FS_RemoveElement
    <2>2. Cardinality(A \ {x}) < Cardinality(B)
      BY CountGain
    <2> QED BY <2>1, <2>2, NodeSetFinite
  <1>2. CASE x \notin A
    BY <1>2, CountMono, NodeSetFinite
  <1> QED BY <1>1, <1>2

LEMMA KeptNodes ==
  /\ Kept \in SUBSET Nodes /\ Kept' \in SUBSET Nodes
  /\ Sound \in SUBSET Nodes /\ Sound' \in SUBSET Nodes
  BY DEF Kept, Sound

\* A job with a copy at its target.
Copied(j) == Realized(j) /\ data[job[j].target] = "good"

\* Steps that move no recorded copy leave the ledger as it is.
LEMMA SoundSame ==
  ASSUME \A n \in Nodes, x \in {"good", "none"} :
           status'[n] = "HEALTHY" /\ data'[n] = x <=> status[n] = "HEALTHY" /\ data[n] = x,
         \A j \in Jobs :
           /\ Copied(j)' <=> Copied(j)
           /\ Copied(j) => /\ job'[j].source = job[j].source
                           /\ job'[j].target = job[j].target
  PROVE  Sound' = Sound
  <1>1. ASSUME NEW n \in Nodes PROVE Stands(n)' <=> Stands(n)
    <2>1. Stands(n) <=> /\ status[n] = "HEALTHY" /\ data[n] = "good"
                        /\ \A j \in Jobs : Copied(j) => job[j].target # n
      BY DEF Stands, Copied
    <2>2. Stands(n)' <=> /\ status'[n] = "HEALTHY" /\ data'[n] = "good"
                         /\ \A j \in Jobs : Copied(j)' => job'[j].target # n
      BY DEF Stands, Copied
    <2> QED BY <2>1, <2>2
  <1>2. ASSUME NEW n \in Nodes PROVE Backed(n)' <=> Backed(n)
    <2>1. Backed(n) <=> /\ status[n] = "HEALTHY" /\ data[n] = "none"
                        /\ \E j \in Jobs : Copied(j) /\ job[j].source = n
      BY DEF Backed, Backs, Copied
    <2>2. Backed(n)' <=> /\ status'[n] = "HEALTHY" /\ data'[n] = "none"
                         /\ \E j \in Jobs : Copied(j)' /\ job'[j].source = n
      BY DEF Backed, Backs, Copied
    <2> QED BY <2>1, <2>2
  <1> QED BY <1>1, <1>2 DEF Sound

LEMMA EnoughSame ==
  ASSUME KeptEnough, Kept' = Kept, UNCHANGED <<copies, lost, rots>>,
         \A t \in Tasks :
           task'[t].pc \in {"count", "drop", "close"} /\ data'[Target(t)'] # "good" =>
             /\ task[t].pc \in {"count", "drop", "close"} /\ data[Target(t)] # "good"
             /\ Source(t)' = Source(t)
             /\ data[Source(t)] = "none" => data'[Source(t)] = "none"
  PROVE  KeptEnough'
  <1>1. Balance' = Balance
    BY DEF Balance
  <1>2. Balance' >= copies'
    BY <1>1 DEF KeptEnough
  <1>3. ASSUME NEW t \in Tasks, task'[t].pc \in {"count", "drop", "close"},
               data'[Target(t)'] # "good"
        PROVE  Balance' > copies' \/ (data'[Source(t)'] = "none" /\ Source(t)' \notin Kept')
    <2>1. Balance > copies \/ (data[Source(t)] = "none" /\ Source(t) \notin Kept)
      BY <1>3 DEF KeptEnough
    <2> QED BY <1>1, <1>3, <2>1
  <1> QED BY <1>2, <1>3 DEF KeptEnough

LEMMA QuietOutside ==
  ASSUME CopiesInv, Request \/ UNCHANGED vars
  PROVE  KeptEnough'
  <1>1. /\ UNCHANGED <<status, data, copies, lost, rots>>
        /\ \A j \in Jobs : job[j].status # "none" => job'[j] = job[j]
        /\ \A j \in Jobs : job[j].status = "none" =>
             \/ job'[j] = job[j]
             \/ status[job'[j].target] = "none"
        /\ \A t \in Tasks : task'[t] = task[t] \/ (task'[t].pc = "queued" /\ task[t].pc = "free")
    <2>1. CASE UNCHANGED vars
      BY <2>1 DEF vars
    <2>2. ASSUME NEW kind, NEW n, NEW j, NEW retries,
                 Dispatch(Message(kind, n, j, retries))
          PROVE  \A u \in Tasks :
                   task'[u] = task[u] \/ (task'[u].pc = "queued" /\ task[u].pc = "free")
      <3> DEFINE m == Message(kind, n, j, retries)
      <3>1. m.pc = "queued"
        BY NoTaskType DEF Message, Messages
      <3>2. PICK t \in Tasks : task[t].pc = "free" /\ task' = [task EXCEPT ![t] = m]
        BY ZenonT(60), <2>2 DEF Dispatch
      <3> HIDE DEF m
      <3> QED BY <3>1, <3>2, JobTyped DEF CopiesInv, Alone
    <2>3. ASSUME NEW n \in Nodes, DrainRequested(n)
          PROVE  /\ UNCHANGED <<status, data, job, copies, lost, rots>>
                 /\ \A u \in Tasks :
                      task'[u] = task[u] \/ (task'[u].pc = "queued" /\ task[u].pc = "free")
      BY <2>2, <2>3 DEF DrainRequested
    <2>4. ASSUME NEW j \in Jobs, NEW source \in Nodes, NEW target \in Nodes,
                 AdminRebalances(j, source, target)
          PROVE  <1>1!1 /\ <1>1!2 /\ <1>1!3 /\ <1>1!4
      <3>1. /\ UNCHANGED <<status, data, copies, lost, rots>>
            /\ CreateJob(j, source, target) /\ status[target] = "none"
        BY <2>4 DEF AdminRebalances, Movable
      <3>2. \A u \in Tasks :
              task'[u] = task[u] \/ (task'[u].pc = "queued" /\ task[u].pc = "free")
        BY ZenonT(60), <2>2, <2>4 DEF AdminRebalances
      <3> QED BY <3>1, <3>2, CreatedRow DEF CopiesInv, Alone
    <2> QED BY <2>1, <2>3, <2>4 DEF Request
  <1>2. \A j \in Jobs : /\ Copied(j)' <=> Copied(j)
                        /\ Copied(j) => job'[j] = job[j]
    BY <1>1 DEF Copied, Realized, Active
  <1>3. ASSUME NEW t \in Tasks, task[t].pc \notin {"free", "queued"}
        PROVE  task'[t] = task[t] /\ job'[task[t].job] = job[task[t].job]
    BY <1>1, <1>3, InRunning DEF CopiesInv, Named
  <1>4. \A n \in Nodes : Closes(n)' <=> Closes(n)
    BY <1>1, <1>3 DEF Closes, Closing, At, Source, JobOf
  <1>5. Kept' = Kept
    BY <1>1, <1>2, <1>4, SoundSame DEF Kept
  <1>6. ASSUME NEW t \in Tasks, task'[t].pc \in {"count", "drop", "close"}
        PROVE  task[t].pc = task'[t].pc /\ Source(t)' = Source(t) /\ Target(t)' = Target(t)
    BY <1>1, <1>3, <1>6 DEF Source, Target, JobOf
  <1> QED BY <1>1, <1>5, <1>6, EnoughSame DEF CopiesInv

LEMMA OnlyStep ==
  ASSUME Alone, NEW t \in Tasks, t \in Running \/ Running = {}, NEW m,
         task' = [task EXCEPT ![t] = m]
  PROVE  /\ task'[t] = m
         /\ \A u \in Tasks \ {t} : task'[u] = task[u] /\ Idle(task[u])
  BY OthersIdle, JobTyped DEF Alone

LEMMA QuietStep ==
  ASSUME CopiesInv, NEW t \in Tasks, t \in Running \/ Running = {}, NEW m,
         task' = [task EXCEPT ![t] = m], UNCHANGED <<copies, lost, rots>>,
         \A n \in Nodes, x \in {"good", "none"} :
           status'[n] = "HEALTHY" /\ data'[n] = x <=> status[n] = "HEALTHY" /\ data[n] = x,
         \A j \in Jobs :
           /\ Copied(j)' <=> Copied(j)
           /\ Copied(j) => /\ job'[j].source = job[j].source
                           /\ job'[j].target = job[j].target,
         task[t].pc # "close", m.pc # "close",
         m.pc \in {"count", "drop"} =>
           \/ data'[Target(t)'] = "good"
           \/ task[t].pc \in {"count", "drop"} /\ m.job = task[t].job /\ UNCHANGED <<data, job>>
  PROVE  KeptEnough'
  <1>1. /\ task'[t] = m
        /\ \A u \in Tasks \ {t} : task'[u] = task[u] /\ Idle(task[u])
    BY ZenonT(60), OnlyStep DEF CopiesInv
  <1>2. Closing = {} /\ Closing' = {}
    BY <1>1 DEF Closing, At, Idle
  <1>3. \A n \in Nodes : Closes(n)' <=> Closes(n)
    BY <1>2 DEF Closes
  <1>4. Kept' = Kept
    BY <1>3, SoundSame DEF Kept
  <1>5. ASSUME NEW u \in Tasks, task'[u].pc \in {"count", "drop", "close"},
               data'[Target(u)'] # "good"
        PROVE  /\ task[u].pc \in {"count", "drop", "close"} /\ data[Target(u)] # "good"
               /\ Source(u)' = Source(u)
               /\ data[Source(u)] = "none" => data'[Source(u)] = "none"
    <2>1. u = t
      BY <1>1, <1>5 DEF Idle
    <2>2. task[t].pc \in {"count", "drop"} /\ m.job = task[t].job /\ UNCHANGED <<data, job>>
      BY <1>1, <1>5, <2>1
    <2>3. Source(t)' = Source(t) /\ Target(t)' = Target(t)
      BY <1>1, <2>2 DEF Source, Target, JobOf
    <2> QED BY <1>5, <2>1, <2>2, <2>3
  <1>6. KeptEnough
    BY DEF CopiesInv
  <1> QED BY ZenonT(60), <1>4, <1>5, <1>6, EnoughSame

LEMMA ActiveNodes ==
  ASSUME Types, NEW j \in Jobs, Active(j)
  PROVE  job[j].source \in Nodes /\ job[j].target \in Nodes /\ job[j].source # job[j].target
  BY DEF Types, Rows, Active

\* A worker takes a message, or begins the job of the one it has.
LEMMA QuietBegins ==
  ASSUME CopiesInv, Workers = 1, NEW t \in Tasks,
         \/ DrainEnds(t) \/ DrainBlocked(t) \/ ReplicaGone(t) \/ RunFinished(t)
         \/ \E j \in Jobs, target \in Nodes : DrainPlans(t, j, target)
         \/ RunStarts(t)
  PROVE  KeptEnough'
  <1>1. t \in Running \/ Running = {}
    BY SessionBegins DEF CopiesInv
  <1>2. UNCHANGED <<status, data, copies, lost, rots>> /\ task[t].pc \in {"queued", "start"}
    BY DEF DrainEnds, DrainBlocked, ReplicaGone, RunFinished, DrainPlans, RunStarts,
           Begins, Taken, At
  <1>3. \A j \in Jobs : /\ Copied(j)' <=> Copied(j)
                        /\ Copied(j) => /\ job'[j].source = job[j].source
                                        /\ job'[j].target = job[j].target
    <2>1. CASE job' = job
      BY ZenonT(60), <1>2, <2>1 DEF Copied, Realized, Active
    <2>2. CASE RunStarts(t)
      BY <1>2, <2>2, StartedRow DEF Copied, Realized, Active, CopiesInv
    <2>3. ASSUME NEW j \in Jobs, NEW target \in Nodes, DrainPlans(t, j, target)
          PROVE  \A i \in Jobs : /\ Copied(i)' <=> Copied(i)
                                 /\ Copied(i) => /\ job'[i].source = job[i].source
                                                 /\ job'[i].target = job[i].target
      <3>1. CreateJob(j, task[t].node, target) /\ status[target] = "none"
        BY <2>3 DEF DrainPlans, Movable
      <3>2. Types
        BY DEF CopiesInv, Alone
      <3>3. CASE job' = job
        BY <1>2, <3>3 DEF Copied, Realized, Active
      <3>4. CASE /\ job[j].status = "none" /\ job'[j].target = target
                 /\ \A i \in Jobs \ {j} : job'[i] = job[i]
        <4>1. ~Copied(j) /\ ~Copied(j)'
          BY ZenonT(60), <1>2, <3>1, <3>4 DEF Copied, Realized, Active
        <4>2. \A i \in Jobs \ {j} : Copied(i)' <=> Copied(i)
          BY <1>2, <3>4 DEF Copied, Realized, Active
        <4> QED BY <3>4, <4>1, <4>2
      <3>5. \/ job' = job
            \/ /\ job[j].status = "none" /\ job'[j].target = target
               /\ \A i \in Jobs \ {j} : job'[i] = job[i]
        BY ZenonT(60), <3>1, <3>2, CreatedRow
      <3> QED BY ZenonT(60), <3>3, <3>4, <3>5
    <2> QED
      BY ZenonT(60), <2>1, <2>2, <2>3 DEF DrainEnds, DrainBlocked, ReplicaGone, RunFinished
  <1>4. PICK m : /\ task' = [task EXCEPT ![t] = m]
                 /\ m.pc \in {"free", "queued", "start", "recheck", "source"}
    <2>1. CASE DrainEnds(t) \/ ReplicaGone(t) \/ RunFinished(t) \/ DrainBlocked(t)
      BY ZenonT(60), <2>1, NoTaskIdle, ResentIdle
      DEF DrainEnds, ReplicaGone, RunFinished, DrainBlocked, End, Retry, Alone, Idle,
          CopiesInv
    <2>2. task[t] \in Messages
      BY JobTyped DEF CopiesInv, Alone
    <2>3. ASSUME NEW j \in Jobs, NEW target \in Nodes, DrainPlans(t, j, target)
          PROVE  \E m : /\ task' = [task EXCEPT ![t] = m]
                       /\ m.pc \in {"free", "queued", "start", "recheck", "source"}
      <3> DEFINE n == [task[t] EXCEPT !.pc = "start", !.job = j]
      <3>1. task' = [task EXCEPT ![t] = n] /\ n.pc = "start"
        BY Zenon, <2>2, <2>3 DEF DrainPlans, Messages
      <3> QED BY Zenon, <3>1
    <2>4. CASE RunStarts(t)
      <3> DEFINE point == IF status[Target(t)] = "HEALTHY" THEN "recheck" ELSE "source"
                 n == [task[t] EXCEPT !.pc = point, !.attempts = JobOf(t).attempts + 1,
                                      !.seen = status[Target(t)]]
      <3>1. task' = [task EXCEPT ![t] = n]
        BY Zenon, <2>4 DEF RunStarts
      <3>2. n.pc = point
        BY <2>2 DEF Messages
      <3> HIDE DEF n
      <3> QED BY Zenon, <3>1, <3>2
    <2> QED BY <2>1, <2>3, <2>4
  <1> QED BY ZenonT(60), <1>1, <1>2, <1>3, <1>4, QuietStep

LEMMA QuietRun ==
  ASSUME CopiesInv, NEW t \in Tasks, t \in Running, NEW m,
         task' = [task EXCEPT ![t] = m], UNCHANGED <<job, copies, lost, rots>>,
         \A n \in Nodes, x \in {"good", "none"} :
           status'[n] = "HEALTHY" /\ data'[n] = x <=> status[n] = "HEALTHY" /\ data[n] = x,
         task[t].pc # "close", m.pc # "close",
         m.pc \in {"count", "drop"} =>
           \/ data'[Target(t)'] = "good"
           \/ task[t].pc \in {"count", "drop"} /\ m.job = task[t].job /\ UNCHANGED <<data, job>>
  PROVE  KeptEnough'
  <1>1. \A j \in Jobs : Copied(j)' <=> Copied(j)
    <2>1. \A j \in Jobs : Active(j) => job[j].target \in Nodes
      BY ActiveNodes DEF CopiesInv, Alone
    <2> QED BY <2>1 DEF Copied, Realized, Active
  <1> QED BY ZenonT(60), <1>1, QuietStep

\* run_job up to the DELETE at its source moves no recorded copy.
LEMMA QuietRuns ==
  ASSUME CopiesInv, NEW t \in Tasks,
         \/ RecheckTarget(t) \/ VerifySource(t) \/ ClaimTarget(t)
         \/ DeleteTarget(t) \/ PutTarget(t) \/ CheckTarget(t)
         \/ CountHealthy(t)
  PROVE  KeptEnough'
  <1>1. /\ task[t].pc \in {"recheck", "source", "claim", "delete", "put", "check", "count"}
        /\ UNCHANGED <<job, copies, lost, rots>>
    BY DEF RecheckTarget, VerifySource, ClaimTarget, DeleteTarget, PutTarget,
           CheckTarget, CountHealthy, At
  <1>2. /\ t \in Running /\ Source(t) \in Nodes /\ Target(t) \in Nodes
        /\ InSession(task[t], status, data, job) /\ task[t] \in Messages
        /\ Target(t) = job[task[t].job].target
        /\ status \in [Nodes -> ReplicaStates] /\ data \in [Nodes -> Contents]
    BY ZenonT(60), <1>1, InRunning, JobTyped DEF CopiesInv, Alone
  <1>3. ASSUME NEW point, Move(t, point)
        PROVE  \E m : /\ task' = [task EXCEPT ![t] = m]
                      /\ m.pc = point /\ m.job = task[t].job
    <2> DEFINE m == [task[t] EXCEPT !.pc = point]
    <2>1. task' = [task EXCEPT ![t] = m]
      BY <1>3 DEF Move
    <2>2. m.pc = point /\ m.job = task[t].job
      BY <1>2 DEF Messages
    <2> HIDE DEF m
    <2> QED BY Zenon, <2>1, <2>2
  <1>4. ASSUME NEW m, task' = [task EXCEPT ![t] = m], m.job = task[t].job
        PROVE  Target(t)' = Target(t)
    <2>1. task'[t] = m
      BY ZenonT(60), <1>2, <1>4, OnlyStep DEF CopiesInv
    <2> QED BY <1>1, <1>4, <2>1 DEF Target, JobOf
  <1>5. CASE RecheckTarget(t) /\ data[Target(t)] = "good"
    <2>1. UNCHANGED <<status, data>> /\ Move(t, "count")
      BY <1>5 DEF RecheckTarget
    <2>2. PICK m : /\ task' = [task EXCEPT ![t] = m]
                   /\ m.pc = "count" /\ m.job = task[t].job
      BY <1>3, <2>1
    <2>3. data'[Target(t)'] = "good"
      BY ZenonT(60), <1>4, <1>5, <2>1, <2>2
    <2> QED BY ZenonT(60), <1>1, <1>2, <2>1, <2>2, <2>3, QuietRun
  <1>6. CASE RecheckTarget(t) /\ data[Target(t)] # "good"
    <2> DEFINE m == [task[t] EXCEPT !.pc = "source", !.seen = "none"]
    <2>1. /\ task' = [task EXCEPT ![t] = m] /\ UNCHANGED data
          /\ status' = [status EXCEPT ![Target(t)] = "CORRUPTED"]
          /\ data[Target(t)] = "wrong"
      BY ZenonT(60), <1>6 DEF RecheckTarget
    <2>2. m.pc = "source"
      BY <1>2 DEF Messages
    <2> HIDE DEF m
    <2>3. \A n \in Nodes, x \in {"good", "none"} :
            status'[n] = "HEALTHY" /\ data'[n] = x <=> status[n] = "HEALTHY" /\ data[n] = x
      BY ZenonT(60), <1>2, <2>1
    <2> QED BY ZenonT(60), <1>1, <1>2, <2>1, <2>2, <2>3, QuietRun
  <1>7. CASE VerifySource(t) \/ CountHealthy(t)
    <2>1. PICK point \in {"claim", "drop"} :
            /\ UNCHANGED <<status, data>> /\ Move(t, point)
            /\ point = "drop" => task[t].pc = "count"
      BY ZenonT(60), <1>7 DEF VerifySource, CountHealthy, At
    <2>2. PICK m : /\ task' = [task EXCEPT ![t] = m]
                   /\ m.pc = point /\ m.job = task[t].job
      BY <1>3, <2>1
    <2> QED BY ZenonT(60), <1>1, <1>2, <2>1, <2>2, QuietRun
  <1>8. CASE ClaimTarget(t)
    <2>1. UNCHANGED <<status, data>>
      BY <1>8 DEF ClaimTarget
    <2> DEFINE n == IF task[t].seen = "none" THEN status[Target(t)] ELSE task[t].seen
               claimed == [task[t] EXCEPT !.pc = "delete",
                             !.mine = IF n = "HEALTHY" THEN "none" ELSE "COPYING"]
               m == IF Contenders(t) # {} THEN NoTask ELSE claimed
    <2>2. task' = [task EXCEPT ![t] = m]
      BY <1>8 DEF ClaimTarget
    <2>3. claimed.pc = "delete" /\ NoTask.pc = "free"
      BY <1>2 DEF Messages, NoTask
    <2> HIDE DEF claimed
    <2>4. m.pc \in {"free", "delete"}
      BY <2>3
    <2> HIDE DEF m
    <2> QED BY ZenonT(60), <1>1, <1>2, <2>1, <2>2, <2>4, QuietRun
  <1>9. CASE DeleteTarget(t) \/ PutTarget(t)
    <2>1. PICK x \in Contents, point \in {"put", "check"} :
            /\ data' = [data EXCEPT ![Target(t)] = x]
            /\ UNCHANGED status /\ Move(t, point) /\ task[t].pc \in {"delete", "put"}
      <3>1. CASE DeleteTarget(t)
        BY Zenon, <3>1 DEF DeleteTarget, At, Contents
      <3>2. CASE PutTarget(t)
        BY ZenonT(60), <3>2, StreamedType DEF PutTarget, At
      <3> QED BY ZenonT(60), <1>9, <3>1, <3>2
    <2>2. PICK m : /\ task' = [task EXCEPT ![t] = m]
                   /\ m.pc = point /\ m.job = task[t].job
      BY <1>3, <2>1
    <2>3. status[Target(t)] # "HEALTHY"
      BY ZenonT(60), <1>2, <2>1 DEF InSession
    <2>4. \A n \in Nodes, y \in {"good", "none"} :
            status'[n] = "HEALTHY" /\ data'[n] = y <=> status[n] = "HEALTHY" /\ data[n] = y
      BY ZenonT(60), <1>2, <2>1, <2>3
    <2> QED BY ZenonT(60), <1>1, <1>2, <2>1, <2>2, <2>4, QuietRun
  <1>10. CASE CheckTarget(t)
    <2> DEFINE m == [task[t] EXCEPT !.pc = "count", !.mine = "HEALTHY"]
    <2>1. /\ task' = [task EXCEPT ![t] = m] /\ UNCHANGED <<status, data>>
          /\ data[Target(t)] = "good"
      BY ZenonT(60), <1>10 DEF CheckTarget
    <2>2. m.pc = "count" /\ m.job = task[t].job
      BY <1>2 DEF Messages
    <2> HIDE DEF m
    <2>3. data'[Target(t)'] = "good"
      BY ZenonT(60), <1>4, <2>1, <2>2
    <2> QED BY ZenonT(60), <1>1, <1>2, <2>1, <2>2, <2>3, QuietRun
  <1> QED BY <1>5, <1>6, <1>7, <1>8, <1>9, <1>10

\* A copy is deleted or rots: besides its own, at most the copy counts that it
\* was to replace.
LEMMA DropOne ==
  ASSUME Alone, NEW b \in Nodes, NEW c, data' = [data EXCEPT ![b] = c],
         UNCHANGED <<status, job>>
  PROVE  /\ status[b] # "HEALTHY" => Sound' = Sound
         /\ \E x \in Nodes :
              /\ Sound \ {x} \subseteq Sound'
              /\ \/ x = b /\ \A i \in Jobs : Copied(i) => job[i].target # b
                 \/ /\ b \notin Sound
                    /\ \E i \in Jobs : Copied(i) /\ job[i].target = b /\ job[i].source = x
  <1>1. /\ data \in [Nodes -> Contents]
        /\ \A i \in Jobs : Active(i) => job[i].source \in Nodes /\ job[i].target \in Nodes
    BY ZenonT(60), JobTyped, ActiveNodes DEF Alone
  <1>2. data'[b] = c /\ \A n \in Nodes \ {b} : data'[n] = data[n]
    BY <1>1
  <1>3. ASSUME status[b] # "HEALTHY" PROVE Sound' = Sound
    <2>1. \A j \in Jobs : Copied(j)' <=> Copied(j)
      BY <1>1, <1>2, <1>3 DEF Copied, Realized, Active
    <2> QED BY <1>2, <1>3, <2>1, SoundSame
  <1>4. ASSUME NEW n \in Sound, n # b,
               \A i \in Jobs : Copied(i) /\ job[i].source = n => job[i].target # b
        PROVE  n \in Sound'
    <2>1. CASE Stands(n)
      BY <1>2, <1>4, <2>1 DEF Sound, Stands, Realized, Active
    <2>2. CASE Backed(n)
      <3>1. PICK i \in Jobs : Backs(i, n)
        BY <2>2 DEF Backed
      <3>2. job[i].target \in Nodes \ {b}
        BY <1>1, <1>4, <3>1 DEF Backs, Copied, Realized
      <3> QED BY <1>2, <1>4, <2>2, <3>1, <3>2 DEF Sound, Backed, Backs, Realized, Active
    <2> QED BY <1>4, <2>1, <2>2 DEF Sound
  <1>5. CASE \A i \in Jobs : Copied(i) => job[i].target # b
    BY <1>3, <1>4, <1>5
  <1>6. ASSUME NEW i \in Jobs, Copied(i), job[i].target = b
        PROVE  /\ job[i].source \in Nodes /\ b \notin Sound
               /\ Sound \ {job[i].source} \subseteq Sound'
    <2>1. b \notin Sound /\ job[i].source \in Nodes
      BY <1>1, <1>6 DEF Sound, Stands, Backed, Copied, Realized
    <2>2. \A j \in Jobs : Copied(j) /\ job[j].target = b => j = i
      BY <1>6 DEF Copied, Realized, Alone, Ledger
    <2> QED BY <1>4, <2>1, <2>2
  <1> QED BY <1>3, <1>5, <1>6

\* A commit at the end of run_job for j.
LEMMA CommitSound ==
  ASSUME Alone, NEW j \in Jobs, Active(j),
         \A i \in Jobs : /\ i # j => job'[i] = job[i]
                         /\ job'[i].source = job[i].source
                         /\ job'[i].target = job[i].target,
         \A m \in Nodes : m # job[j].target /\ status'[m] = "HEALTHY" => status[m] = "HEALTHY",
         NEW n \in Sound, status'[n] = "HEALTHY", data'[n] = data[n],
         \A i \in Jobs : Copied(i) /\ job[i].source = n =>
           /\ data'[job[i].target] = "good" /\ status'[job[i].target] = "HEALTHY"
           /\ i = j => Active(j)'
  PROVE  n \in Sound'
  <1>1. \A i \in Jobs : Active(i) /\ i # j => job[i].target \in Nodes /\ job[i].target # job[j].target
    BY Zenon, ActiveNodes DEF Alone, Ledger
  <1>2. CASE Stands(n)
    <2>1. n # job[j].target
      BY <1>2 DEF Stands, Realized
    <2>2. \A i \in Jobs : Realized(i)' => job'[i].target # n
      BY <1>1, <1>2, <2>1 DEF Stands, Realized, Active
    <2> QED BY ZenonT(60), <1>2, <2>2 DEF Stands, Sound
  <1>3. CASE Backed(n)
    <2>1. PICK i \in Jobs : Backs(i, n)
      BY Zenon, <1>3 DEF Backed
    <2>2. Backs(i, n)'
      BY ZenonT(60), <2>1 DEF Backs, Realized, Copied, Active
    <2> QED BY ZenonT(60), <1>3, <2>2 DEF Backed, Sound
  <1> QED BY ZenonT(60), <1>2, <1>3 DEF Sound

\* The copy at the target of a job that is over counts for itself.
LEMMA TargetStands ==
  ASSUME Alone, NEW j \in Jobs, Active(j), ~Active(j)',
         \A i \in Jobs : /\ i # j => job'[i] = job[i]
                         /\ job'[i].source = job[i].source
                         /\ job'[i].target = job[i].target,
         status'[job[j].target] = "HEALTHY",
         data[job[j].target] = "good", data'[job[j].target] = "good"
  PROVE  job[j].target \in Sound' /\ job[j].target \notin Sound
  <1>1. job[j].target \in Nodes
    BY ActiveNodes DEF Alone
  <1>2. \A i \in Jobs : Realized(i)' => job'[i].target # job[j].target
    BY DEF Realized, Active, Alone, Ledger
  <1>3. job[j].target \notin Sound
    BY DEF Sound, Stands, Backed, Realized
  <1> QED BY Zenon, <1>1, <1>2, <1>3 DEF Sound, Stands

LEMMA KeptBefore ==
  ASSUME Alone, NEW t \in Tasks, t \in Running
  PROVE  /\ task[t].pc # "close" => Kept = Sound
         /\ task[t].pc = "close" /\ status[Source(t)] # "HEALTHY" => Kept = Sound
         /\ task[t].pc = "close" => Kept \subseteq Sound \cup {Source(t)}
  <1>1. Closing \subseteq {t} /\ (task[t].pc # "close" => Closing = {})
    BY OthersIdle DEF Closing, At, Idle
  <1> QED BY <1>1 DEF Kept, Closes, Sound

LEMMA KeptAfter ==
  ASSUME Running' = {}
  PROVE  Kept' = Sound' /\ (Balance' >= copies' => KeptEnough')
  <1>1. \A t \in Tasks : task'[t].pc \in {"free", "queued"}
    BY DEF Running
  <1>2. Closing' = {}
    BY <1>1 DEF Closing, At
  <1> QED BY <1>1, <1>2 DEF Kept, Closes, KeptEnough

LEMMA KeptCounts ==
  /\ Cardinality(Kept) \in Nat /\ Cardinality(Kept') \in Nat
  /\ Cardinality(Sound) \in Nat
  BY ZenonT(60), KeptNodes, NodeSetFinite

\* The session ends: no copy is short, or one that is accounted for.
LEMMA EndedEnough ==
  ASSUME CopiesInv, Running' = {}, UNCHANGED <<copies, rots>>,
         \/ lost' = lost /\ Cardinality(Kept) <= Cardinality(Kept')
         \/ lost' = lost /\ Balance > copies /\ Cardinality(Kept) <= Cardinality(Kept') + 1
         \/ lost' = lost + 1 /\ Cardinality(Kept) <= Cardinality(Kept') + 1
  PROVE  KeptEnough'
  <1>1. copies \in Nat /\ lost \in Nat /\ rots \in Nat
    BY JobTyped DEF CopiesInv, Alone
  <1>2. Cardinality(Kept) + lost + rots >= copies
    BY DEF CopiesInv, KeptEnough, Balance
  <1>3. \A k, l \in Nat :
          /\ k + lost + rots >= copies
          /\ \/ lost' = lost /\ k <= l
             \/ lost' = lost /\ k + lost + rots > copies /\ k <= l + 1
             \/ lost' = lost + 1 /\ k <= l + 1
          => l + lost' + rots >= copies
    BY <1>1
  <1>4. Cardinality(Kept') + lost' + rots >= copies
    BY <1>2, <1>3, KeptCounts DEF Balance
  <1>5. Balance' >= copies'
    BY <1>4 DEF Balance
  <1> QED BY <1>5, KeptAfter

\* remove_replica commits the target in the place of the source.
LEMMA RemoveSourceKept ==
  ASSUME CopiesInv, NEW t \in Tasks, RemoveSource(t)
  PROVE  KeptEnough'
  <1> DEFINE j == task[t].job
             b == Source(t)
             d == Target(t)
  <1>1. /\ task[t].pc = "close" /\ UNCHANGED <<data, copies, lost, rots>>
        /\ status' = [View(t) EXCEPT ![b] = "none"]
        /\ job' = [job EXCEPT ![j].status = "SUCCEEDED"]
    BY DEF RemoveSource, At
  <1>2. /\ t \in Running /\ Named(t) /\ j \in Jobs /\ b \in Nodes /\ d \in Nodes /\ b # d
        /\ b = job[j].source /\ d = job[j].target
        /\ InSession(task[t], status, data, job)
    BY <1>1, InRunning DEF CopiesInv
  <1>3. /\ Active(j) /\ data[b] = "none" /\ job[j].status = "RUNNING"
        /\ \/ task[t].mine = "HEALTHY" /\ status[d] # "HEALTHY"
           \/ task[t].mine = "none" /\ status[d] = "HEALTHY"
    BY <1>1, <1>2 DEF InSession, Active
  <1>4. /\ status'[d] = "HEALTHY" /\ status'[b] = "none"
        /\ \A n \in Nodes \ {b, d} : status'[n] = status[n]
    BY ZenonT(60), <1>1, <1>2, <1>3 DEF View
  <1>5. /\ job'[j].status = "SUCCEEDED"
        /\ \A i \in Jobs : /\ i # j => job'[i] = job[i]
                           /\ job'[i].source = job[i].source
                           /\ job'[i].target = job[i].target
    BY ZenonT(60), <1>1, <1>2, MarkedRow DEF CopiesInv, Alone
  <1>6. Running' = {}
    BY SessionEnds DEF CopiesInv
  <1> HIDE DEF j, b, d
  <1>8. Sound \ {b} \subseteq Sound'
    <2> SUFFICES ASSUME NEW n \in Sound, n # b PROVE n \in Sound'
      OBVIOUS
    <2>1. n \in Nodes /\ status[n] = "HEALTHY"
      BY DEF Sound, Stands, Backed
    <2>2. status'[n] = "HEALTHY"
      BY <1>4, <2>1
    <2>3. ASSUME NEW i \in Jobs, Copied(i), job[i].source = n
          PROVE  data[job[i].target] = "good" /\ status'[job[i].target] = "HEALTHY" /\ i # j
      <3>1. i # j /\ job[i].target # d /\ job[i].target \in Nodes
        BY ZenonT(60), <1>2, <1>3, <2>3, ActiveNodes DEF Copied, Realized, CopiesInv, Alone, Ledger
      <3> QED BY <1>3, <1>4, <2>3, <3>1 DEF Copied, Realized
    <2> QED BY <1>1, <1>2, <1>3, <1>4, <1>5, <2>2, <2>3, CommitSound DEF CopiesInv
  <1>9. Kept \ {b} \subseteq Kept' /\ Kept' = Sound'
    BY <1>1, <1>2, <1>6, <1>8, KeptBefore, KeptAfter DEF CopiesInv, b
  <1>10. CASE data[d] = "good"
    <2>1. d \in Sound' /\ d \notin Sound
      BY <1>1, <1>2, <1>3, <1>4, <1>5, <1>10, TargetStands DEF CopiesInv, Active
    <2>2. d \in Kept' \ Kept
      BY <1>1, <1>2, <1>9, <2>1, KeptBefore DEF CopiesInv, b
    <2>3. Cardinality(Kept) <= Cardinality(Kept')
      BY <1>9, <2>2, KeptNodes, CountSwap
    <2> QED BY <1>1, <1>6, <2>3, EndedEnough
  <1>11. CASE data[d] # "good"
    <2>1. Balance > copies \/ b \notin Kept
      BY <1>1, <1>11 DEF CopiesInv, KeptEnough, b, d
    <2>2. CASE Balance > copies
      <3>1. Cardinality(Kept) <= Cardinality(Kept') + 1
        BY <1>9, KeptNodes, CountWithout
      <3> QED BY <1>1, <1>6, <2>2, <3>1, EndedEnough
    <2>3. CASE b \notin Kept
      <3>1. Cardinality(Kept) <= Cardinality(Kept')
        BY <1>9, <2>3, KeptNodes, CountMono
      <3> QED BY <1>1, <1>6, <3>1, EndedEnough
    <2> QED BY <2>1, <2>2, <2>3
  <1> QED BY <1>10, <1>11

\* DELETE at the source: what it had is now about to be removed.
LEMMA DeleteSourceKept ==
  ASSUME CopiesInv, NEW t \in Tasks, DeleteSource(t)
  PROVE  KeptEnough'
  <1> DEFINE b == Source(t)
             d == Target(t)
             m == [task[t] EXCEPT !.pc = "close"]
  <1>1. /\ task[t].pc = "drop" /\ UNCHANGED <<status, job, copies, lost, rots>>
        /\ data' = [data EXCEPT ![b] = "none"] /\ task' = [task EXCEPT ![t] = m]
    BY DEF DeleteSource, At, Move
  <1>2. /\ t \in Running /\ b \in Nodes /\ d \in Nodes /\ b # d /\ task[t] \in Messages
        /\ data \in [Nodes -> Contents]
    BY <1>1, InRunning, JobTyped DEF CopiesInv, Alone
  <1>3. m.pc = "close" /\ m.job = task[t].job
    BY <1>2 DEF Messages
  <1>4. copies \in Nat /\ lost \in Nat /\ rots \in Nat
    BY JobTyped DEF CopiesInv, Alone
  <1> HIDE DEF m
  <1>5. /\ task'[t] = m /\ \A u \in Tasks \ {t} : task'[u] = task[u] /\ Idle(task[u])
    BY ZenonT(60), <1>1, <1>2, OnlyStep DEF CopiesInv
  <1>6. Source(t)' = b /\ Target(t)' = d /\ Closing' = {t}
    BY <1>1, <1>3, <1>5 DEF Source, Target, JobOf, Closing, At, Idle
  <1>7. data'[b] = "none" /\ data'[d] = data[d]
    BY <1>1, <1>2
  <1>8. Kept = Sound
    BY <1>1, <1>2, KeptBefore DEF CopiesInv
  <1>9. /\ status[b] # "HEALTHY" => Sound' = Sound
        /\ \E x \in Nodes : Sound \ {x} \subseteq Sound' /\ (x = b \/ b \notin Sound)
    BY ZenonT(60), <1>1, <1>2, DropOne DEF CopiesInv
  <1>10. Kept' = IF status[b] = "HEALTHY" THEN Sound' \cup {b} ELSE Sound'
    BY <1>1, <1>2, <1>6 DEF Kept, Closes
  <1>a. b \notin Kept /\ status[b] # "HEALTHY" => b \notin Kept'
    BY <1>8, <1>9, <1>10
  <1> HIDE DEF b, d
  <1>11. Cardinality(Kept) <= Cardinality(Kept')
    <2>1. CASE status[b] # "HEALTHY"
      BY <1>8, <1>9, <1>10, <2>1, KeptNodes, CountMono
    <2>2. CASE status[b] = "HEALTHY"
      <3>1. PICK x \in Nodes : Sound \ {x} \subseteq Sound' /\ (x = b \/ b \notin Sound)
        BY <1>9
      <3>2. Kept \ {x} \subseteq Kept' /\ b \in Kept'
        BY <1>8, <1>10, <2>2, <3>1
      <3>3. CASE x = b
        BY <3>2, <3>3, KeptNodes, CountMono
      <3>4. CASE b \notin Sound
        BY <1>8, <3>2, <3>4, KeptNodes, CountSwap
      <3> QED BY <3>1, <3>3, <3>4
    <2> QED BY <2>1, <2>2
  <1>12. Balance' >= Balance
    BY <1>1, <1>4, <1>11, KeptNodes, NodeSetFinite DEF Balance
  <1>13. Balance \in Int /\ Balance' \in Int /\ Balance >= copies
    BY <1>1, <1>4, KeptNodes, NodeSetFinite DEF Balance, KeptEnough, CopiesInv
  <1>14. ASSUME data[d] # "good"
         PROVE  Balance' > copies \/ b \notin Kept'
    <2>1. Balance > copies \/ (data[b] = "none" /\ b \notin Kept)
      BY <1>1, <1>14 DEF CopiesInv, KeptEnough, b, d
    <2>2. CASE Balance > copies
      BY <1>4, <1>12, <1>13, <2>2
    <2>3. CASE data[b] = "none" /\ b \notin Kept /\ status[b] = "HEALTHY"
      <3>1. \A i \in Jobs : Copied(i) => job[i].target # b
        BY <2>3 DEF Copied
      <3>2. PICK x \in Nodes :
              /\ Sound \ {x} \subseteq Sound'
              /\ \/ x = b /\ \A i \in Jobs : Copied(i) => job[i].target # b
                 \/ /\ b \notin Sound
                    /\ \E i \in Jobs : Copied(i) /\ job[i].target = b /\ job[i].source = x
        BY ZenonT(60), <1>1, <1>2, DropOne DEF CopiesInv, b
      <3>3. Kept \subseteq Kept' /\ b \in Kept' \ Kept
        BY <1>8, <1>10, <2>3, <3>1, <3>2
      <3>4. Cardinality(Kept) < Cardinality(Kept')
        BY <3>3, KeptNodes, CountGain
      <3>5. Balance' > Balance
        BY <1>1, <1>4, <3>4, KeptNodes, NodeSetFinite DEF Balance
      <3> QED BY <1>4, <1>13, <3>5
    <2>4. CASE b \notin Kept /\ status[b] # "HEALTHY"
      BY <1>a, <2>4
    <2> QED BY <2>1, <2>2, <2>3, <2>4
  <1>15. Balance' >= copies'
    BY <1>1, <1>4, <1>12, <1>13
  <1>16. ASSUME NEW u \in Tasks, task'[u].pc \in {"count", "drop", "close"},
                data'[Target(u)'] # "good"
         PROVE  Balance' > copies' \/ (data'[Source(u)'] = "none" /\ Source(u)' \notin Kept')
    <2>1. u = t
      BY <1>5, <1>16 DEF Idle
    <2> QED BY <1>1, <1>6, <1>7, <1>14, <1>16, <2>1
  <1> QED BY <1>15, <1>16 DEF KeptEnough

\* The session is lost, and with it at most one copy.
LEMMA SessionLostKept ==
  ASSUME CopiesInv, NEW t \in Tasks, SessionLost(t)
  PROVE  KeptEnough'
  <1> DEFINE b == Source(t)
             d == Target(t)
  <1>1. /\ task[t].pc \notin {"free", "queued"} /\ UNCHANGED <<status, job, copies, rots>>
        /\ MayHaveActed(t) /\ lost' = lost + 1
    BY DEF SessionLost
  <1>2. /\ t \in Running /\ b \in Nodes /\ d \in Nodes
        /\ InSession(task[t], status, data, job) /\ d = job[task[t].job].target
    BY ZenonT(60), <1>1, InRunning DEF CopiesInv
  <1>3. copies \in Nat /\ lost \in Nat /\ rots \in Nat
    BY JobTyped DEF CopiesInv, Alone
  <1>4. Running' = {}
    BY SessionEnds DEF CopiesInv
  <1>5. \E x : Sound \ {x} \subseteq Sound' /\ (task[t].pc = "close" => Sound' = Sound)
    <2>1. CASE data' = data
      <3>1. Sound' = Sound
        BY <1>1, <2>1 DEF Sound, Stands, Backed, Backs, Realized, Active
      <3> QED BY <3>1
    <2>2. CASE At(t, "drop") /\ data' = [data EXCEPT ![b] = "none"]
      BY ZenonT(60), <1>1, <1>2, <2>2, DropOne DEF At, CopiesInv
    <2>3. CASE data' # data /\ ~At(t, "drop")
      <3>1. /\ task[t].pc \in {"delete", "put"}
            /\ \E c \in Contents : data' = [data EXCEPT ![d] = c]
        <4>1. CASE At(t, "delete") /\ data' = [data EXCEPT ![d] = "none"]
          BY <4>1 DEF At, Contents
        <4>2. CASE At(t, "put") /\ data' = [data EXCEPT ![d] = Streamed(data[Source(t)])]
          BY ZenonT(60), <4>2, StreamedType DEF At
        <4> QED BY ZenonT(60), <1>1, <2>3, <4>1, <4>2 DEF MayHaveActed
      <3>2. PICK c \in Contents : data' = [data EXCEPT ![d] = c]
        BY Zenon, <3>1
      <3>3. status[d] # "HEALTHY"
        BY ZenonT(60), <1>2, <3>1 DEF InSession
      <3>4. Sound' = Sound
        BY ZenonT(60), <1>1, <1>2, <3>1, <3>2, <3>3, DropOne DEF CopiesInv
      <3> QED BY <3>4
    <2> QED BY ZenonT(60), <1>1, <2>1, <2>2, <2>3 DEF MayHaveActed, At
  <1>6. \E x : Kept \ {x} \subseteq Kept'
    BY <1>2, <1>4, <1>5, KeptBefore, KeptAfter DEF CopiesInv
  <1>7. Cardinality(Kept) <= Cardinality(Kept') + 1
    BY <1>6, KeptNodes, CountWithout
  <1> QED BY <1>1, <1>4, <1>7, EndedEnough

\* A copy rots: it counts as rotten, not as kept.
LEMMA RotKept ==
  ASSUME CopiesInv, NEW r \in Nodes, Rot(r)
  PROVE  KeptEnough'
  <1>1. /\ UNCHANGED <<status, job, task, copies, lost>> /\ rots' = rots + 1
        /\ data[r] = "good" /\ data' = [data EXCEPT ![r] = "rotten"]
    BY DEF Rot
  <1>2. /\ data \in [Nodes -> Contents] /\ copies \in Nat /\ lost \in Nat /\ rots \in Nat
        /\ \A i \in Jobs : Active(i) => job[i].source \in Nodes /\ job[i].target \in Nodes
    BY JobTyped, ActiveNodes DEF CopiesInv, Alone
  <1>3. data'[r] = "rotten" /\ \A n \in Nodes \ {r} : data'[n] = data[n]
    BY <1>1, <1>2
  <1>4. PICK x \in Nodes :
          /\ Sound \ {x} \subseteq Sound'
          /\ \/ x = r /\ \A i \in Jobs : Copied(i) => job[i].target # r
             \/ /\ r \notin Sound
                /\ \E i \in Jobs : Copied(i) /\ job[i].target = r /\ job[i].source = x
    BY ZenonT(60), <1>1, DropOne DEF CopiesInv
  <1>5. \A n \in Nodes : Closes(n)' <=> Closes(n)
    BY <1>1 DEF Closes, Closing, At, Source, JobOf
  <1>6. Kept \ {x} \subseteq Kept'
    BY <1>4, <1>5 DEF Kept
  <1>7. Cardinality(Kept) <= Cardinality(Kept') + 1
    BY <1>6, KeptNodes, CountWithout
  <1>8. /\ Cardinality(Kept) \in Nat /\ Cardinality(Kept') \in Nat
        /\ Balance = Cardinality(Kept) + lost + rots
        /\ Balance' = Cardinality(Kept') + lost + rots + 1
        /\ Balance >= copies
    <2>1. Balance >= copies
      BY DEF CopiesInv, KeptEnough
    <2>2. Balance' = Cardinality(Kept') + lost + (rots + 1)
      BY <1>1 DEF Balance
    <2> QED BY <1>2, <2>1, <2>2, KeptCounts DEF Balance
  <1>9. Balance' >= copies' /\ Balance' >= Balance
    BY <1>1, <1>2, <1>7, <1>8
  <1>10. ASSUME NEW t \in Tasks, task'[t].pc \in {"count", "drop", "close"},
                data'[Target(t)'] # "good"
         PROVE  Balance' > copies' \/ (data'[Source(t)'] = "none" /\ Source(t)' \notin Kept')
    <2> DEFINE j == task[t].job
               b == Source(t)
               d == Target(t)
    <2>1. task[t].pc \in {"count", "drop", "close"}
      BY <1>1, <1>10
    <2>2. /\ b \in Nodes /\ d \in Nodes /\ b # d /\ j \in Jobs
          /\ b = job[j].source /\ d = job[j].target /\ job[j].status = "RUNNING"
      BY ZenonT(60), <2>1, InRunning DEF CopiesInv, InSession
    <2>3. Source(t)' = b /\ Target(t)' = d
      BY <1>1 DEF Source, Target, JobOf
    <2>4. ASSUME NEW n \in Nodes, data[n] = "none", n \in Kept'
          PROVE  n \in Kept
      <3>1. n # r /\ data'[n] = "none"
        BY <1>1, <1>3, <2>4
      <3>2. CASE Closes(n)
        BY <3>2 DEF Kept
      <3>3. CASE Backed(n)'
        <4>1. PICK i \in Jobs : Backs(i, n)'
          BY <3>3 DEF Backed
        <4>2. data[job[i].target] = "good"
          BY <1>1, <1>2, <1>3, <4>1 DEF Backs, Realized, Active
        <4> QED BY ZenonT(60), <1>1, <3>3, <4>1, <4>2, <2>4
                DEF Backed, Backs, Realized, Active, Kept, Sound
      <3> QED BY ZenonT(60), <1>5, <2>4, <3>1, <3>2, <3>3 DEF Kept, Sound, Stands
    <2>5. CASE data[d] # "good"
      <3>1. Balance > copies \/ (data[b] = "none" /\ b \notin Kept)
        BY <2>1, <2>5 DEF CopiesInv, KeptEnough
      <3>2. CASE Balance > copies
        BY <1>1, <1>2, <1>8, <1>9, <3>2
      <3>3. CASE data[b] = "none" /\ b \notin Kept
        <4>1. b # r
          BY <1>1, <3>3
        <4> QED BY <1>3, <2>2, <2>3, <2>4, <3>3, <4>1
      <3> QED BY <3>1, <3>2, <3>3
    <2>6. CASE data[d] = "good"
      <3>1. d = r
        BY ZenonT(60), <1>3, <1>10, <2>2, <2>3, <2>6
      <3>2. CASE Kept \subseteq Kept'
        <4>1. Cardinality(Kept) <= Cardinality(Kept')
          BY <3>2, KeptNodes, CountMono
        <4> QED BY <1>1, <1>2, <1>8, <4>1
      <3>3. CASE x \in Kept /\ x \notin Kept'
        <4>1. x \in Sound /\ x \notin Sound' /\ ~Closes(x)
          BY <1>5, <3>3 DEF Kept
        <4>2. status[d] = "HEALTHY"
          BY ZenonT(60), <1>1, <3>1, <4>1, DropOne DEF CopiesInv
        <4>3. Copied(j) /\ Active(j)
          BY ZenonT(60), <2>2, <2>6, <4>2 DEF Copied, Realized, Active
        <4>4. x = b
          BY ZenonT(60), <1>4, <2>2, <3>1, <4>3 DEF Copied, Realized, CopiesInv, Alone, Ledger
        <4>5. data'[b] = data[b]
          BY ZenonT(60), <1>3, <2>2, <3>1
        <4>6. ~Stands(b)
          BY <1>1, <4>1, <4>4, <4>5 DEF Sound, Stands, Realized, Active
        <4>7. data[b] = "none"
          BY <4>1, <4>4, <4>6 DEF Sound, Backed
        <4> QED BY <2>3, <3>3, <4>4, <4>5, <4>7
      <3> QED BY <1>6, <3>2, <3>3
    <2> QED BY <2>5, <2>6
  <1> QED BY <1>9, <1>10 DEF KeptEnough

\* run_job raises.  A target that a FAILED job leaves counts for itself.
LEMMA FailsKept ==
  ASSUME CopiesInv, NEW t \in Tasks,
         RunInvalid(t) \/ CallRefused(t) \/ CallLost(t)
  PROVE  KeptEnough'
  <1>1. /\ task[t].pc \notin {"free", "queued", "start"} /\ Fails(t)
        /\ UNCHANGED <<copies, lost, rots>> /\ MayHaveActed(t)
        /\ task[t].pc # "claim"
        /\ task[t].pc = "close" => data' = data /\ View(t)[Source(t)] = "COPYING"
    BY Zenon DEF RunInvalid, CallRefused, CallLost, At, MayHaveActed
  <1>2. PICK j \in Jobs, b \in Nodes, d \in Nodes :
          /\ t \in Running /\ Named(t) /\ j = task[t].job
          /\ b = Source(t) /\ d = Target(t) /\ b # d
          /\ b = job[j].source /\ d = job[j].target
          /\ InSession(task[t], status, data, job)
    BY ZenonT(60), <1>1, InRunning DEF CopiesInv
  <1>3. /\ copies \in Nat /\ lost \in Nat /\ rots \in Nat
        /\ data \in [Nodes -> Contents] /\ status \in [Nodes -> ReplicaStates]
        /\ task[t].pc \in Points
    BY JobTyped DEF CopiesInv, Alone, Messages
  <1>4. Running' = {}
    BY SessionEnds DEF CopiesInv
  <1>5. /\ Active(j) /\ job'[j].status \in {"FAILED", "PENDING"}
        /\ \A i \in Jobs : /\ i # j => job'[i] = job[i]
                           /\ job'[i].source = job[i].source
                           /\ job'[i].target = job[i].target
    BY ZenonT(60), <1>1, <1>2, FailsRow DEF CopiesInv, Active
  <1>6. /\ \A n \in Nodes \ {d} : status'[n] = status[n]
        /\ status'[d] = IF task[t].mine = "none" THEN status[d] ELSE task[t].mine
    BY <1>1, <1>2 DEF Fails, View
  <1>7. Kept = Sound
    <2>1. task[t].pc = "close" => status[b] = "COPYING"
      BY ZenonT(60), <1>1, <1>2 DEF View
    <2> QED BY ZenonT(60), <1>2, <2>1, KeptBefore DEF CopiesInv
  <1>8. Kept' = Sound' /\ (Balance' >= copies' => KeptEnough')
    BY <1>4, KeptAfter
  <1>9. SUFFICES \/ Cardinality(Kept) <= Cardinality(Kept')
                 \/ Balance > copies /\ Cardinality(Kept) <= Cardinality(Kept') + 1
    BY <1>1, <1>4, EndedEnough
  <1>10. ASSUME NEW i \in Jobs, Copied(i)
         PROVE  /\ Active(i) /\ job[i].target \in Nodes /\ job[i].source \in Nodes
                /\ status[job[i].target] = "HEALTHY" /\ data[job[i].target] = "good"
                /\ i # j => job[i].target # d
    BY ZenonT(60), <1>2, <1>5, <1>10, ActiveNodes DEF Copied, Realized, CopiesInv, Alone, Ledger
  <1>11. CASE task[t].pc \in {"delete", "put", "check"}
    <2>1. task[t].mine = "COPYING" /\ status[d] # "HEALTHY"
      BY ZenonT(60), <1>2, <1>11 DEF InSession
    <2>2. \A n \in Nodes \ {d} : data'[n] = data[n]
      BY ZenonT(60), <1>1, <1>2, <1>3, <1>11 DEF MayHaveActed, At
    <2>3. status'[d] # "HEALTHY"
      BY <1>6, <2>1
    <2>4. \A n \in Nodes, x \in {"good", "none"} :
            status'[n] = "HEALTHY" /\ data'[n] = x <=> status[n] = "HEALTHY" /\ data[n] = x
      BY ZenonT(60), <1>6, <2>1, <2>2, <2>3
    <2>5. ASSUME NEW i \in Jobs PROVE Copied(i)' <=> Copied(i)
      <3>1. CASE i = j
        BY ZenonT(60), <1>2, <1>5, <2>1, <2>3, <3>1 DEF Copied, Realized
      <3>2. CASE i # j
        <4>1. Active(i)' <=> Active(i)
          BY <1>5, <3>2 DEF Active
        <4>2. Active(i) => job[i].target \in Nodes \ {d} /\ job'[i].target = job[i].target
          BY ZenonT(60), <1>2, <1>5, <3>2, ActiveNodes DEF CopiesInv, Alone, Ledger
        <4> QED BY ZenonT(60), <1>6, <2>2, <4>1, <4>2 DEF Copied, Realized
      <3> QED BY <3>1, <3>2
    <2>6. Sound' = Sound
      BY ZenonT(60), <1>5, <2>4, <2>5, SoundSame
    <2> QED BY <1>7, <1>8, <2>6, KeptNodes, CountMono
  <1>12. CASE task[t].pc \in {"recheck", "source", "count", "drop", "close"}
    <2>1. /\ status[d] = "HEALTHY" => status'[d] = "HEALTHY"
          /\ task[t].pc = "drop" => status'[d] = "HEALTHY"
          /\ \A m \in Nodes : m # job[j].target /\ status'[m] = "HEALTHY" => status[m] = "HEALTHY"
      BY ZenonT(60), <1>2, <1>6, <1>12 DEF InSession
    <2>2. ASSUME NEW n \in Sound, data'[n] = data[n],
                 \A i \in Jobs : Copied(i) /\ job[i].source = n =>
                   data'[job[i].target] = "good" /\ (i = j => Active(j)')
          PROVE  n \in Sound'
      <3>1. status'[n] = "HEALTHY"
        BY ZenonT(60), <1>6, <2>1 DEF Sound, Stands, Backed
      <3>2. \A i \in Jobs : Copied(i) => status'[job[i].target] = "HEALTHY"
        BY ZenonT(60), <1>2, <1>6, <1>10, <2>1
      <3>3. Alone /\ Active(j) /\ \A i \in Jobs : /\ i # j => job'[i] = job[i]
                                                 /\ job'[i].source = job[i].source
                                                 /\ job'[i].target = job[i].target
        BY <1>5 DEF CopiesInv
      <3>4. \A i \in Jobs : Copied(i) /\ job[i].source = n =>
              /\ data'[job[i].target] = "good" /\ status'[job[i].target] = "HEALTHY"
              /\ i = j => Active(j)'
        BY ZenonT(60), <2>2, <3>2
      <3> QED BY ZenonT(60), <2>1, <2>2, <3>1, <3>3, <3>4, CommitSound
    <2>3. ASSUME ~Active(j)', status'[d] = "HEALTHY", data[d] = "good", data'[d] = "good"
          PROVE  d \in Sound' \ Sound
      BY ZenonT(60), <1>2, <1>5, <2>3, TargetStands DEF CopiesInv
    <2>4. CASE data' = data
      <3>1. CASE Copied(j) /\ ~Active(j)'
        <4>1. d \in Sound' \ Sound
          BY ZenonT(60), <1>2, <1>10, <2>1, <2>3, <2>4, <3>1
        <4>2. Sound \ {b} \subseteq Sound'
          BY ZenonT(60), <1>2, <1>10, <2>2, <2>4
        <4> QED BY <1>7, <1>8, <4>1, <4>2, KeptNodes, CountSwap
      <3>2. CASE Copied(j) => Active(j)'
        <4>1. Sound \subseteq Sound'
          BY <1>10, <2>2, <2>4, <3>2
        <4> QED BY <1>7, <1>8, <4>1, KeptNodes, CountMono
      <3> QED BY <3>1, <3>2
    <2>5. CASE data' # data
      <3>1. task[t].pc = "drop" /\ data' = [data EXCEPT ![b] = "none"]
        BY ZenonT(60), <1>1, <1>2, <1>12, <2>5 DEF MayHaveActed, At
      <3>2. /\ data[b] # "none" /\ data'[b] = "none" /\ data'[d] = data[d]
            /\ \A n \in Nodes \ {b} : data'[n] = data[n]
        BY ZenonT(60), <1>2, <1>3, <2>5, <3>1
      <3>3. PICK x \in Nodes : /\ x = b \/ b \notin Sound
                               /\ \A i \in Jobs : Copied(i) /\ job[i].target = b =>
                                                    x = job[i].source
                               /\ x # b => \E i \in Jobs : Copied(i) /\ job[i].target = b
        <4>1. CASE \A i \in Jobs : Copied(i) => job[i].target # b
          BY ZenonT(60), <1>2, <4>1
        <4>2. ASSUME NEW i \in Jobs, Copied(i), job[i].target = b
              PROVE  /\ job[i].source \in Nodes /\ b \notin Sound
                     /\ \A k \in Jobs : Copied(k) /\ job[k].target = b => k = i
          BY <1>10, <4>2 DEF CopiesInv, Alone, Ledger, Copied, Sound, Stands, Backed
        <4> QED BY ZenonT(60), <4>1, <4>2
      <3>4. Sound \ {x} \subseteq Sound'
        <4> SUFFICES ASSUME NEW n \in Sound, n # x PROVE n \in Sound'
          OBVIOUS
        <4>1. n # b /\ n \in Nodes
          BY Zenon, <3>3 DEF Sound
        <4>2. \A i \in Jobs : Copied(i) /\ job[i].source = n => job[i].target # b /\ i # j
          BY ZenonT(60), <1>2, <3>3, <4>1
        <4> QED BY ZenonT(60), <1>10, <2>2, <3>2, <4>1, <4>2
      <3>5. CASE data[d] # "good"
        <4>1. Balance > copies
          BY ZenonT(60), <1>2, <3>1, <3>2, <3>5 DEF CopiesInv, KeptEnough
        <4> QED BY <1>7, <1>8, <3>4, <4>1, KeptNodes, CountWithout
      <3>6. CASE data[d] = "good" /\ ~Active(j)'
        <4>1. d \in Sound' \ Sound
          BY <2>1, <2>3, <3>1, <3>2, <3>6
        <4> QED BY <1>7, <1>8, <3>4, <4>1, KeptNodes, CountSwap
      <3>7. CASE data[d] = "good" /\ Active(j)' /\ status[b] = "HEALTHY"
        <4>1. Backs(j, b)'
          <5>1. /\ status'[d] = "HEALTHY" /\ data'[d] = "good"
                /\ job'[j].source = b /\ job'[j].target = d
            BY ZenonT(60), <1>2, <1>5, <2>1, <3>1, <3>2, <3>7
          <5> QED BY <3>7, <5>1 DEF Backs, Realized
        <4>2. b \in Sound'
          BY ZenonT(60), <1>2, <1>6, <3>2, <3>7, <4>1 DEF Sound, Backed
        <4>3. CASE x = b
          BY <1>7, <1>8, <3>4, <4>2, <4>3, KeptNodes, CountMono
        <4>4. CASE b \notin Sound
          BY <1>7, <1>8, <3>4, <4>2, <4>4, KeptNodes, CountSwap
        <4> QED BY <3>3, <4>3, <4>4
      <3>8. CASE status[b] # "HEALTHY"
        <4>1. x = b /\ b \notin Sound
          BY <1>10, <3>3, <3>8 DEF Sound, Stands, Backed
        <4> QED BY <1>7, <1>8, <3>4, <4>1, KeptNodes, CountMono
      <3> QED BY <3>5, <3>6, <3>7, <3>8
    <2> QED BY <2>4, <2>5
  <1> QED BY ZenonT(60), <1>1, <1>3, <1>11, <1>12 DEF Points

LEMMA KeptStep ==
  ASSUME CopiesInv, Workers = 1, [Next]_vars
  PROVE  KeptEnough'
  BY QuietOutside, QuietBegins, QuietRuns, DeleteSourceKept, RemoveSourceKept,
     FailsKept, SessionLostKept, RotKept
  DEF Next, Run, Fault

LEMMA InitCopies ==
  ASSUME Init
  PROVE  CopiesInv
  <1>1. Alone
    BY InitAlone
  <1>2. PICK stored \in SUBSET Nodes :
          /\ \A n \in Nodes : /\ n \in stored => status[n] = "HEALTHY" /\ data[n] = "good"
                              /\ n \notin stored => status[n] # "HEALTHY"
          /\ copies = Cardinality(stored)
    BY DEF Init
  <1>3. /\ \A j \in Jobs : ~Active(j)
        /\ \A t \in Tasks : task[t].pc = "free"
        /\ lost = 0 /\ rots = 0
    BY DEF Init, Active, NoEntry, NoTask
  <1>4. Kept = stored
    BY <1>2, <1>3 DEF Kept, Sound, Stands, Backed, Closes, Closing, At, Realized
  <1>5. Balance = copies /\ copies \in Nat
    BY <1>2, <1>3, <1>4, NodeSetFinite DEF Balance
  <1> QED BY <1>1, <1>3, <1>5 DEF CopiesInv, KeptEnough

\* Every node that counts has a recorded copy of its own, here or at the target
\* of a job.
LEMMA SoundRecorded ==
  ASSUME Alone
  PROVE  Cardinality(Sound) <= Cardinality(Recorded)
  <1> DEFINE Of(n) == CHOOSE j \in Jobs : Backs(j, n)
             f == [n \in Sound |-> IF Stands(n) THEN n ELSE job[Of(n)].target]
  <1>1. ASSUME NEW n \in Sound, ~Stands(n)
        PROVE  Of(n) \in Jobs /\ Backs(Of(n), n)
    BY <1>1 DEF Sound, Backed
  <1> HIDE DEF Of
  <1>2. ASSUME NEW n \in Sound
        PROVE  /\ f[n] \in Recorded
               /\ Stands(n) => f[n] = n /\ \A j \in Jobs : Realized(j) => job[j].target # f[n]
               /\ ~Stands(n) => \E j \in Jobs : Realized(j) /\ job[j].target = f[n]
                                                /\ job[j].source = n
    <2>1. CASE Stands(n)
      BY Zenon, <2>1 DEF Stands, Recorded, Sound
    <2>2. CASE ~Stands(n)
      <3>1. job[Of(n)].target \in Nodes
        BY <1>1, <2>2, ActiveNodes DEF Backs, Realized, Alone
      <3> QED BY ZenonT(60), <1>1, <2>2, <3>1 DEF Backs, Realized, Recorded
    <2> QED BY Zenon, <2>1, <2>2
  <1>3. f \in [Sound -> Recorded]
    BY <1>2
  <1> HIDE DEF f
  <1>4. ASSUME NEW n \in Sound, NEW m \in Sound, f[n] = f[m] PROVE n = m
    BY <1>2, <1>4 DEF Alone, Ledger, Realized
  <1>5. f \in Injection(Sound, Recorded)
    BY <1>3, <1>4 DEF Injection, IsInjective
  <1>6. IsFiniteSet(Recorded)
    BY RebalanceConstants, FS_Subset DEF Recorded
  <1> QED BY <1>5, <1>6, FS_Injection

LEMMA CopiesInvSurvive == CopiesInv => CopiesSurvive
  <1> SUFFICES ASSUME CopiesInv PROVE CopiesSurvive
    OBVIOUS
  <1>1. /\ copies \in Nat /\ lost \in Nat /\ rots \in Nat
        /\ Cardinality(Kept) \in Nat /\ Cardinality(Sound) \in Nat
        /\ Cardinality(Recorded) \in Nat
    BY JobTyped, KeptNodes, NodeSetFinite DEF CopiesInv, Alone, Recorded
  <1>2. Cardinality(Sound) <= Cardinality(Recorded)
    BY SoundRecorded DEF CopiesInv
  <1>3. Cardinality(Kept) + lost + rots >= copies
    BY DEF CopiesInv, KeptEnough, Balance
  <1>4. CASE Closing = {}
    <2>1. Kept = Sound /\ Cardinality(Closing) = 0
      BY <1>4, FS_EmptySet DEF Kept, Closes
    <2> QED BY <1>1, <1>2, <1>3, <2>1 DEF CopiesSurvive
  <1>5. CASE Closing # {}
    <2>1. PICK t \in Tasks : t \in Closing /\ task[t].pc = "close"
      BY <1>5 DEF Closing, At
    <2>2. t \in Running
      BY <2>1 DEF Running
    <2>3. Closing = {t}
      BY <2>1, <2>2, OthersIdle DEF CopiesInv, Closing, At, Idle
    <2>4. Cardinality(Closing) = 1
      BY ZenonT(60), <2>3, FS_Singleton
    <2>5. Kept \ {Source(t)} \subseteq Sound
      BY <2>1, <2>2, KeptBefore DEF CopiesInv
    <2>6. Cardinality(Kept) <= Cardinality(Sound) + 1
      BY Zenon, <2>5, KeptNodes, CountWithout
    <2> QED BY <1>1, <1>2, <1>3, <2>4, <2>6 DEF CopiesSurvive
  <1> QED BY <1>4, <1>5

\* With one worker, the migrations keep the copies of a PUT, for any number of
\* nodes, jobs, messages, attempts and faults: every copy that is missing has
\* rotted, is about to be replaced, or went with a lost session.
THEOREM CopiesSurviveOneWorker ==
  ASSUME Workers = 1
  PROVE  Spec => []CopiesSurvive
  <1>1. Init => CopiesInv
    BY InitCopies
  <1>2. CopiesInv /\ [Next]_vars => CopiesInv'
    BY AloneStep, KeptStep DEF CopiesInv
  <1> QED BY <1>1, <1>2, CopiesInvSurvive, PTL DEF Spec
=============================================================================
