----------------------------- MODULE HealthTask -----------------------------
(***************************************************************************)
(* process_node_health, the Celery task that celery beat starts: it polls  *)
(* the nodes, takes the answers as heartbeats and runs the failure         *)
(* detector, all on one session_scope() session.  The services change rows *)
(* in savepoints of the transaction the task's SELECT began; what commits  *)
(* is the creation of a repair job.  At its end the session is rolled      *)
(* back.  The variables of NodeHealth are what this session sees.          *)
(***************************************************************************)
EXTENDS NodeHealth

VARIABLES
  saved,   \* the committed rows
  pc,      \* "idle", "poll", "ingest" or "scan"
  todo,    \* nodes still to ingest or to evaluate
  begun    \* the session is in a transaction

taskVars == <<vars, saved, pc, todo, begun>>

Rows == [node |-> node, beat |-> beat, replica |-> replica, job |-> job,
         source |-> source]

TaskInit ==
  /\ Init
  /\ saved = Rows
  /\ pc = "idle" /\ todo = {} /\ begun = FALSE

TaskBegins ==
  /\ pc = "idle"
  /\ pc' = "poll" /\ begun' = TRUE
  /\ UNCHANGED <<vars, saved, todo>>

\* poll_nodes: those that are up answer; the payload has the time of the answer.
PollNodes ==
  /\ pc = "poll"
  /\ sent' = [n \in Nodes |-> IF n \in alive THEN {0} ELSE {}]
  /\ todo' = alive
  /\ pc' = "ingest"
  /\ UNCHANGED <<rows, rec, data, alive, outages, damage, saved, begun>>

Reconciling == \E n \in Nodes : rec[n] > 0

\* One answer after the other, each with the reconciliation it starts.
IngestAnswer(n) ==
  /\ pc = "ingest" /\ ~Reconciling /\ n \in todo
  /\ Heartbeat(n)
  /\ todo' = todo \ {n}
  /\ UNCHANGED <<saved, pc, begun>>

JobCreated == \E n \in Nodes : job[n] = "none" /\ job'[n] # "none"

\* create_job commits what the session has done so far.  The next statement
\* of the reconciliation begins a transaction, before the node is HEALTHY.
ReconcileAnswer(n) ==
  /\ pc = "ingest"
  /\ ReconcileNothing(n) \/ ReconcileVerified(n) \/ ReconcileLost(n)
       \/ ReconcileUnreachable(n)
  /\ saved' = IF JobCreated THEN [Rows' EXCEPT !.node = node] ELSE saved
  /\ UNCHANGED <<pc, todo, begun>>

ScanBegins ==
  /\ pc = "ingest" /\ todo = {} /\ ~Reconciling
  /\ pc' = "scan" /\ todo' = Nodes
  /\ UNCHANGED <<vars, saved, begun>>

\* _evaluate of one node.  After create_job's commit the session is in no
\* transaction: the next transition has one of its own, and commits.
EvaluateNext(n) ==
  /\ pc = "scan" /\ n \in todo
  /\ todo' = todo \ {n}
  /\ \/ ~ENABLED Evaluate(n) /\ UNCHANGED <<vars, saved, begun>>
     \/ /\ Evaluate(n)
        /\ begun' = (~JobCreated /\ (begun \/ node'[n] = "UNAVAILABLE"))
        /\ saved' = IF JobCreated THEN Rows'
                    ELSE IF ~begun THEN [Rows EXCEPT !.node = node'] ELSE saved
  /\ UNCHANGED pc

\* session_scope rolls back.
RolledBack ==
  /\ pc' = "idle" /\ begun' = FALSE /\ todo' = {}
  /\ node' = saved.node /\ beat' = saved.beat
  /\ replica' = saved.replica /\ job' = saved.job /\ source' = saved.source
  /\ UNCHANGED <<data, alive, outages, damage, saved>>

\* The task returns.
TaskEnds ==
  /\ pc = "scan" /\ todo = {}
  /\ RolledBack
  /\ UNCHANGED <<rec, sent>>

\* A reconciliation raises: the answers still to be ingested are gone, and the
\* detector does not run.  InvalidState is not retried.
TaskRaises(n) ==
  /\ pc = "ingest"
  /\ ENABLED ReconcileRaises(n)
  /\ RolledBack
  /\ rec' = [rec EXCEPT ![n] = @ - 1]
  /\ sent' = [m \in Nodes |-> {}]

Task ==
  \/ TaskBegins \/ PollNodes \/ ScanBegins \/ TaskEnds
  \/ \E n \in Nodes : IngestAnswer(n) \/ ReconcileAnswer(n) \/ TaskRaises(n)
                      \/ EvaluateNext(n)

\* The committed heartbeats age as well.  Bound: the answers are ingested before
\* they are older than UnavailableAfter.
TimePasses ==
  /\ \A n \in todo : pc = "ingest" => \A age \in sent[n] : age < UnavailableAfter
  /\ Tick
  /\ saved' = [saved EXCEPT !.beat = [n \in Nodes |-> Older(@[n])]]
  /\ UNCHANGED <<pc, todo, begun>>

NodeChanges ==
  /\ \E n \in Watched : GoesDown(n) \/ ComesBack(n)
  /\ UNCHANGED <<saved, pc, todo, begun>>

TaskNext == Task \/ TimePasses \/ NodeChanges

\* Celery beat starts the task for ever, and its calls to nodes time out.
TaskSpec ==
  /\ TaskInit /\ [][TaskNext]_taskVars
  /\ WF_taskVars(Task) /\ WF_taskVars(TimePasses)

-----------------------------------------------------------------------------
(* Properties *)

\* A node the task has heard of and that then stays down does not stay HEALTHY
\* in the database, where placement and reads look for nodes: "Node failures |
\* Heartbeats, failure detector, SUSPECT/UNAVAILABLE states" (README.md:100).
FailureRecorded ==
  \A n \in Nodes :
    <>(beat[n] # Never) /\ <>[](n \notin alive) => <>[](saved.node[n] # "HEALTHY")
=============================================================================
