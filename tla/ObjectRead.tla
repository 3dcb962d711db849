----------------------------- MODULE ObjectRead -----------------------------
(***************************************************************************)
(* One GET of an object (gateway/api.py, gateway/service.py), with the     *)
(* storage nodes' side of it (storage/node_server.py, storage_engine.py).  *)
(*                                                                         *)
(* The nodes to read from are resolved once; the session is closed while   *)
(* the body is streamed, and a node serves its chunk files one by one and  *)
(* without a lock.  So the copies may come and go at every step: status,   *)
(* data and node belong to whatever moves them.                            *)
(***************************************************************************)
EXTENDS Integers, FiniteSets, Sequences

CONSTANTS
  Nodes,
  Chunks,          \* chunk files of the version
  MaxReadErrors    \* bound: calls a node does not answer

VARIABLES
  status,   \* replicas.status at each node
  data,     \* what each node stores of the version
  node,     \* storage_nodes.status
  read      \* the request

\* tries: the nodes still to be asked, in order; got: the chunks that have been
\* sent to the client; emitted: of them from the first of tries; held: history,
\* resolved nodes with an undamaged copy ever since that answered every call.
NoRead == [pc |-> "idle", tries |-> <<>>, got |-> <<>>, emitted |-> 0,
           held |-> {}, errors |-> 0]

Outcomes == {"unavailable", "broken", "done"}

ReadTypeOK ==
  /\ read.pc \in {"idle", "head", "open", "stream"} \cup Outcomes
  /\ read.tries \in Seq(Nodes)
  /\ read.got \in Seq(1 .. Chunks)
  /\ read.emitted \in 0 .. Chunks
  /\ read.held \subseteq Nodes
  /\ read.errors \in 0 .. MaxReadErrors

\* What a node can serve: any copy it has.  Of a damaged one a chunk file or a
\* part of the metadata may be missing, so that the node may fail as well.
Answers(n) == data[n] # "none"
Intact(contents) == contents \notin {"none", "rotten"}

Orders(S) == {q \in [1 .. Cardinality(S) -> S] : \A n \in S : \E i \in DOMAIN q : q[i] = n}

\* The answer, or the end of the body: nothing else of the request matters.
Ended(outcome, got, held) ==
  [NoRead EXCEPT !.pc = outcome, !.got = got, !.held = held,
                 !.errors = read.errors]

\* read_targets: HEALTHY replicas on HEALTHY nodes, by node id (the ids are in
\* any order); none is NODE_UNAVAILABLE, 503.
Resolve ==
  LET targets == {n \in Nodes : status[n] = "HEALTHY" /\ node[n] = "HEALTHY"}
  IN /\ read.pc = "idle"
     /\ \E order \in Orders(targets) :
          read' = IF targets = {} THEN Ended("unavailable", <<>>, {})
                  ELSE [read EXCEPT !.pc = "head", !.tries = order,
                                    !.held = {n \in targets : Intact(data[n])}]

\* preflight_read_target: the first node that answers HEAD, and it again with
\* those after it; nodes before it are not asked any more.
Preflight ==
  /\ read.pc = "head"
  /\ Answers(Head(read.tries))
  /\ read' = [read EXCEPT !.pc = "open",
                          !.tries = <<Head(read.tries)>> \o read.tries]

\* Mutant: one failing node ends the preflight.
GivesUp == Ended("unavailable", <<>>, read.held)

\* A failing node is skipped; without another one the answer is 503.
SkipsNode ==
  IF Len(read.tries) = 1 THEN Ended("unavailable", <<>>, read.held)
  ELSE [read EXCEPT !.tries = Tail(@)]

\* GET: the node looks the version up before it answers with the headers.
Open ==
  /\ read.pc = "open"
  /\ Answers(Head(read.tries))
  /\ read' = [read EXCEPT !.pc = "stream"]

\* Mutant: one chunk file too many.
ChunkAfterLast ==
  /\ read.pc = "stream"
  /\ Answers(Head(read.tries))
  /\ read' = [read EXCEPT !.emitted = @ + 1, !.got = Append(@, read.emitted + 1)]

\* iter_chunks: the next chunk file, sent on to the client.
Chunk ==
  /\ read.pc = "stream"
  /\ read.emitted < Chunks
  /\ Answers(Head(read.tries))
  /\ read' = [read EXCEPT !.emitted = @ + 1, !.got = Append(@, read.emitted + 1)]

\* The node has sent every chunk.
Complete ==
  /\ read.pc = "stream"
  /\ read.emitted = Chunks
  /\ read' = Ended("done", read.got, {})

\* Mutant: the next node is asked whatever has been sent.
AlwaysNextTry ==
  IF Len(read.tries) = 1 THEN Ended("broken", read.got, read.held)
  ELSE [read EXCEPT !.pc = "open", !.tries = Tail(@), !.emitted = 0]

\* body: the next node is asked, if nothing has been sent and there is one;
\* else the response, whose headers are out, breaks off.
NextTry ==
  IF read.emitted > 0 \/ Len(read.tries) = 1
  THEN Ended("broken", read.got, read.held)
  ELSE [read EXCEPT !.pc = "open", !.tries = Tail(@)]

Failed == IF read.pc = "head" THEN SkipsNode ELSE NextTry

Asking ==
  \/ read.pc \in {"head", "open"}
  \/ read.pc = "stream" /\ read.emitted < Chunks

\* 404, an invalid chunk layout, or a chunk file that is gone: the connection
\* breaks off.
CopyGone ==
  /\ Asking
  /\ ~Intact(data[Head(read.tries)])
  /\ read' = Failed

\* The node does not answer, after the retries of the client.
CallFails ==
  /\ Asking
  /\ read.errors < MaxReadErrors
  /\ read' = [Failed EXCEPT !.errors = read.errors + 1,
                            !.held = @ \ {Head(read.tries)}]

ReadNext ==
  \/ Resolve \/ Preflight \/ Open \/ Chunk \/ Complete \/ CopyGone \/ CallFails

\* What a read may notice of the others' steps: copies that are gone or damaged.
Observe ==
  read' = [read EXCEPT !.held = {n \in read.held : Intact(data'[n])}]

-----------------------------------------------------------------------------
(* Properties *)

\* A client gets the chunks of the version once and in order, and all of them
\* unless the response breaks off: a failing node is replaced only before its
\* first byte (body in get_object).
ReadsWhole ==
  /\ read.got = [i \in 1 .. Len(read.got) |-> i]
  /\ read.pc = "done" => Len(read.got) = Chunks

\* A GET is refused, or breaks off without a byte, only if every copy it had
\* resolved is damaged, has been deleted since, or its node did not answer.
UnservedOnlyIfGone ==
  read.pc \in {"unavailable", "broken"} /\ read.got = <<>> => read.held = {}
=============================================================================
