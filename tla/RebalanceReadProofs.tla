------------------------- MODULE RebalanceReadProofs -------------------------
(***************************************************************************)
(* Proofs about RebalanceRead: what a GET returns while its version is     *)
(* moved.                                                                  *)
(***************************************************************************)
EXTENDS RebalanceRead, FiniteSetTheorems, SequenceTheorems, TLAPS

\* Default provers, in the order they are tried, with time limits in seconds.
USE SMTT(60), ZenonT(60), SMTT(90), SMTT(120)

-----------------------------------------------------------------------------
(* The read *)

Asked == {"head", "open", "stream"}

Reads ==
  [pc : {"idle", "head", "open", "stream"} \cup Outcomes, tries : Seq(Nodes),
   got : Seq(1 .. Chunks), emitted : 0 .. Chunks, held : SUBSET Nodes,
   errors : 0 .. MaxReadErrors]

\* Until the first chunk is sent, every node that has kept its copy since it
\* was resolved is still to be asked.
ReadInv ==
  /\ read \in Reads
  /\ \A i \in 1 .. Len(read.got) : read.got[i] = i
  /\ read.pc \in {"idle", "head", "open"} => read.got = <<>> /\ read.emitted = 0
  /\ read.pc = "stream" => Len(read.got) = read.emitted
  /\ read.pc = "done" => Len(read.got) = Chunks
  /\ read.pc \in Asked => read.tries # <<>>
  /\ read.pc \in Asked /\ read.got = <<>> =>
       \A n \in read.held : \E i \in 1 .. Len(read.tries) : read.tries[i] = n
  /\ \A n \in read.held : Intact(data[n])
  /\ UnservedOnlyIfGone

\* A request is answered, or its body ends.
LEMMA EndedRead ==
  ASSUME NEW outcome \in Outcomes, NEW got \in Seq(1 .. Chunks),
         NEW held \in SUBSET Nodes, read \in Reads,
         read' = Ended(outcome, got, held)
  PROVE  /\ read' \in Reads
         /\ read'.pc = outcome /\ read'.got = got /\ read'.held = held
  <1>1. <<>> \in Seq(Nodes) /\ <<>> \in Seq(1 .. Chunks)
    BY EmptySeq
  <1>2. NoRead \in Reads
    BY <1>1, ReadConstants DEF NoRead, Reads
  <1>3. read.errors \in 0 .. MaxReadErrors
    BY DEF Reads
  <1> QED BY Zenon, <1>2, <1>3 DEF Reads, Ended

LEMMA EndedFailed ==
  ASSUME NEW outcome \in Outcomes, NEW got \in Seq(1 .. Chunks),
         NEW held \in SUBSET Nodes, read \in Reads,
         Failed = Ended(outcome, got, held)
  PROVE  /\ Failed \in Reads
         /\ Failed.pc = outcome /\ Failed.got = got /\ Failed.held = held
  <1>1. <<>> \in Seq(Nodes) /\ <<>> \in Seq(1 .. Chunks)
    BY EmptySeq
  <1>2. NoRead \in Reads
    BY <1>1, ReadConstants DEF NoRead, Reads
  <1>3. read.errors \in 0 .. MaxReadErrors
    BY DEF Reads
  <1> QED BY Zenon, <1>2, <1>3 DEF Reads, Ended

\* A function on 1 .. n is a sequence.
LEMMA FunctionSequence ==
  ASSUME NEW S, NEW n \in Nat, NEW f \in [1 .. n -> S]
  PROVE  f \in Seq(S) /\ Len(f) = n
  OBVIOUS

LEMMA ResolveReads ==
  ASSUME ReadInv, Resolve, UNCHANGED data
  PROVE  ReadInv'
  <1> DEFINE targets == {n \in Nodes : status[n] = "HEALTHY" /\ node[n] = "HEALTHY"}
  <1>1. PICK order \in Orders(targets) :
          read' = IF targets = {} THEN Ended("unavailable", <<>>, {})
                  ELSE [read EXCEPT !.pc = "head", !.tries = order,
                                    !.held = {n \in targets : Intact(data[n])}]
    BY Zenon DEF Resolve
  <1>2. read.pc = "idle" /\ read \in Reads /\ read.got = <<>> /\ read.emitted = 0
    BY DEF ReadInv, Resolve
  <1>3. CASE targets = {}
    <2>1. read' = Ended("unavailable", <<>>, {})
      BY <1>1, <1>3
    <2>2. /\ read'.pc = "unavailable" /\ read'.got = <<>> /\ read'.held = {}
          /\ read' \in Reads
      <3>1. "unavailable" \in Outcomes /\ <<>> \in Seq(1 .. Chunks) /\ {} \in SUBSET Nodes
        BY EmptySeq DEF Outcomes
      <3> QED BY Zenon, <1>2, <2>1, <3>1, EndedRead
    <2> QED BY <2>2 DEF ReadInv, Asked, UnservedOnlyIfGone
  <1>4. CASE targets # {}
    <2>1. Cardinality(targets) \in Nat
      BY RebalanceConstants, FS_Subset, FS_CardinalityType
    <2>2. /\ order \in Seq(Nodes) /\ Len(order) = Cardinality(targets)
          /\ \A n \in targets : \E i \in 1 .. Len(order) : order[i] = n
      <3>1. /\ order \in [1 .. Cardinality(targets) -> targets]
            /\ \A n \in targets : \E i \in DOMAIN order : order[i] = n
        BY DEF Orders
      <3>2. order \in Seq(targets) /\ Len(order) = Cardinality(targets)
        BY Zenon, <2>1, <3>1, FunctionSequence
      <3>3. order \in Seq(Nodes)
        BY <3>2
      <3> QED BY <3>1, <3>2, <3>3
    <2>3. order # <<>>
      BY <1>4, <2>2
    <2>4. read' = [read EXCEPT !.pc = "head", !.tries = order,
                               !.held = {n \in targets : Intact(data[n])}]
      BY <1>1, <1>4
    <2>5. read' \in Reads
      BY Zenon, <1>2, <2>2, <2>4 DEF Reads
    <2>6. /\ read'.pc = "head" /\ read'.tries = order /\ read'.got = <<>>
          /\ read'.emitted = 0 /\ read'.held = {n \in targets : Intact(data[n])}
      BY <1>2, <2>4 DEF Reads
    <2> QED
      BY <2>2, <2>3, <2>5, <2>6 DEF ReadInv, UnservedOnlyIfGone, Asked
  <1> QED BY <1>3, <1>4

LEMMA PreflightReads ==
  ASSUME ReadInv, Preflight, UNCHANGED data
  PROVE  ReadInv'
  <1> DEFINE first == Head(read.tries)
             tries == <<first>> \o read.tries
  <1>1. /\ read \in Reads /\ read.pc = "head" /\ read.tries # <<>>
        /\ read.tries \in Seq(Nodes) /\ read.got = <<>> /\ read.emitted = 0
    BY DEF ReadInv, Preflight, Reads, Asked
  <1>2. first \in Nodes /\ <<first>> \in Seq(Nodes) /\ Len(<<first>>) = 1
    BY <1>1, HeadTailProperties
  <1>3. /\ tries \in Seq(Nodes) /\ Len(tries) = 1 + Len(read.tries)
        /\ \A i \in 1 .. Len(read.tries) : tries[i + 1] = read.tries[i]
    BY <1>1, <1>2, ConcatProperties, LenProperties
  <1>4. read' = [read EXCEPT !.pc = "open", !.tries = tries]
    BY DEF Preflight
  <1>5. \A n \in read.held : \E i \in 1 .. Len(tries) : tries[i] = n
    <2>1. \A n \in read.held : \E i \in 1 .. Len(read.tries) : read.tries[i] = n
      BY <1>1 DEF ReadInv, Asked
    <2> HIDE DEF tries
    <2>2. \A i \in 1 .. Len(read.tries) : i + 1 \in 1 .. Len(tries)
      BY <1>1, <1>3, LenProperties
    <2> QED BY <1>3, <2>1, <2>2
  <1> HIDE DEF tries
  <1>6. /\ read' \in Reads /\ read'.pc = "open" /\ read'.tries = tries
        /\ read'.got = <<>> /\ read'.emitted = 0 /\ read'.held = read.held
    BY Zenon, <1>1, <1>3, <1>4 DEF Reads
  <1>7. tries # <<>>
    BY <1>1, <1>3, EmptySeq, LenProperties
  <1> QED
    BY <1>5, <1>6, <1>7 DEF ReadInv, Asked, UnservedOnlyIfGone

\* Another node is asked instead of the first of tries, or none is left.
LEMMA FailedRead ==
  ASSUME ReadInv, Asking
  PROVE  /\ Failed \in Reads /\ Failed.got = read.got /\ Failed.held = read.held
         /\ \/ /\ Failed.pc \in {"unavailable", "broken"}
               /\ Len(read.tries) = 1 \/ read.got # <<>>
            \/ /\ Failed.pc \in {"head", "open"} /\ Failed.emitted = 0
               /\ Failed.tries = Tail(read.tries) /\ Len(read.tries) # 1
               /\ read.got = <<>>
  <1>1. /\ read \in Reads /\ read.pc \in Asked /\ read.tries \in Seq(Nodes)
        /\ read.tries # <<>> /\ Len(read.tries) \in Nat \ {0}
        /\ read.got \in Seq(1 .. Chunks) /\ read.held \in SUBSET Nodes
        /\ read.emitted \in Nat
    <2>1. read \in Reads /\ read.pc \in Asked /\ read.tries # <<>>
      BY DEF ReadInv, Asking, Asked
    <2> QED BY <2>1, EmptySeq DEF Reads
  <1>2. Tail(read.tries) \in Seq(Nodes)
    BY <1>1, HeadTailProperties
  <1>3. <<>> \in Seq(1 .. Chunks) /\ {"unavailable", "broken"} \subseteq Outcomes
    BY EmptySeq DEF Outcomes
  <1>4. CASE read.pc = "head"
    <2>1. read.got = <<>> /\ read.emitted = 0
      BY <1>4 DEF ReadInv
    <2>2. CASE Len(read.tries) = 1
      <3>1. Failed = Ended("unavailable", read.got, read.held)
        BY <1>4, <2>1, <2>2 DEF Failed, SkipsNode
      <3>2. /\ Failed \in Reads /\ Failed.pc = "unavailable"
            /\ Failed.got = read.got /\ Failed.held = read.held
        BY <1>1, <1>3, <3>1, EndedFailed
      <3> QED BY <2>1, <2>2, <3>2
    <2>3. CASE Len(read.tries) # 1
      <3>1. Failed = [read EXCEPT !.tries = Tail(read.tries)]
        BY <1>4, <2>3 DEF Failed, SkipsNode
      <3>2. /\ Failed \in Reads /\ Failed.pc = "head"
            /\ Failed.tries = Tail(read.tries) /\ Failed.got = read.got
            /\ Failed.held = read.held /\ Failed.emitted = read.emitted
        BY ZenonT(60), <1>1, <1>2, <1>4, <3>1 DEF Reads
      <3> QED BY <2>1, <2>3, <3>2
    <2> QED BY <2>2, <2>3
  <1>5. CASE read.pc # "head"
    <2>1. CASE read.emitted > 0 \/ Len(read.tries) = 1
      <3>1. Failed = Ended("broken", read.got, read.held)
        BY <1>5, <2>1 DEF Failed, NextTry
      <3>2. read.emitted > 0 => read.got # <<>>
        BY <1>1, <1>5, EmptySeq DEF ReadInv, Asked
      <3>3. /\ Failed \in Reads /\ Failed.pc = "broken"
            /\ Failed.got = read.got /\ Failed.held = read.held
        BY <1>1, <1>3, <3>1, EndedFailed
      <3> QED BY <2>1, <3>2, <3>3
    <2>2. CASE ~(read.emitted > 0 \/ Len(read.tries) = 1)
      <3>1. Failed = [read EXCEPT !.pc = "open", !.tries = Tail(read.tries)]
        BY <1>5, <2>2 DEF Failed, NextTry
      <3>2. read.got = <<>> /\ read.emitted = 0
        BY <1>1, <1>5, <2>2, EmptySeq DEF ReadInv, Asked
      <3>3. /\ Failed \in Reads /\ Failed.pc = "open"
            /\ Failed.tries = Tail(read.tries) /\ Failed.got = read.got
            /\ Failed.held = read.held /\ Failed.emitted = read.emitted
        BY ZenonT(60), <1>1, <1>2, <3>1 DEF Reads
      <3> QED BY <2>2, <3>2, <3>3
    <2> QED BY <2>1, <2>2
  <1> QED BY <1>4, <1>5

\* A node that failed is not asked first again, and is no longer held.
LEMMA FailedReads ==
  ASSUME ReadInv, Asking, UNCHANGED data, read' \in Reads,
         read'.got = read.got, read'.held \subseteq read.held \ {Head(read.tries)},
         read'.pc = Failed.pc, read'.tries = Failed.tries,
         read'.emitted = Failed.emitted
  PROVE  ReadInv'
  <1>1. /\ read.tries \in Seq(Nodes) /\ read.tries # <<>> /\ read.pc \in Asked
        /\ Len(read.tries) \in Nat /\ Len(read.tries) # 0
    <2>1. read.tries \in Seq(Nodes) /\ read.tries # <<>> /\ read.pc \in Asked
      BY DEF ReadInv, Reads, Asking, Asked
    <2> QED BY <2>1, EmptySeq, LenProperties
  <1>2. /\ Tail(read.tries) \in Seq(Nodes)
        /\ Len(Tail(read.tries)) = Len(read.tries) - 1
        /\ \A i \in 1 .. Len(Tail(read.tries)) : Tail(read.tries)[i] = read.tries[i + 1]
        /\ Head(read.tries) = read.tries[1]
    BY <1>1, HeadTailProperties
  <1>3. read.got = <<>> =>
          \A n \in read.held : \E i \in 1 .. Len(read.tries) : read.tries[i] = n
    BY <1>1 DEF ReadInv
  <1>4. CASE /\ Failed.pc \in {"unavailable", "broken"}
             /\ Len(read.tries) = 1 \/ read.got # <<>>
    <2>1. read.got = <<>> => read'.held = {}
      BY <1>2, <1>3, <1>4
    <2> QED BY <1>4, <2>1 DEF ReadInv, Asked, UnservedOnlyIfGone
  <1>5. CASE /\ Failed.pc \in {"head", "open"} /\ Failed.emitted = 0
             /\ Failed.tries = Tail(read.tries) /\ Len(read.tries) # 1
             /\ read.got = <<>>
    <2>1. Tail(read.tries) # <<>>
      <3>1. \A k \in Nat : k # 1 => k - 1 # 0
        OBVIOUS
      <3>2. Len(Tail(read.tries)) # 0
        BY <1>1, <1>2, <1>5, <3>1
      <3> QED BY ZenonT(60), <1>2, <3>2, EmptySeq
    <2>2. ASSUME NEW n \in read'.held
          PROVE  \E i \in 1 .. Len(Tail(read.tries)) : Tail(read.tries)[i] = n
      <3>1. PICK i \in 1 .. Len(read.tries) : read.tries[i] = n
        BY <1>3, <1>5, <2>2
      <3>2. i # 1 /\ i \in Nat
        BY <1>2, <2>2, <3>1
      <3>3. i - 1 \in 1 .. Len(Tail(read.tries)) /\ (i - 1) + 1 = i
        BY <1>1, <1>2, <3>1, <3>2
      <3> QED BY <1>2, <3>1, <3>3
    <2> QED
      BY <1>5, <2>1, <2>2 DEF ReadInv, Asked, UnservedOnlyIfGone
  <1> QED BY <1>4, <1>5, FailedRead

LEMMA ReadStep ==
  ASSUME ReadInv, ReadNext, UNCHANGED data
  PROVE  ReadInv'
  <1>1. /\ read \in Reads /\ read.got \in Seq(1 .. Chunks) /\ read.emitted \in 0 .. Chunks
        /\ Len(read.got) \in Nat /\ read.held \in SUBSET Nodes
    <2>1. read \in Reads
      BY DEF ReadInv
    <2> QED BY <2>1, LenProperties DEF Reads
  <1>2. CASE Open
    <2>1. /\ read.pc = "open" /\ read' = [read EXCEPT !.pc = "stream"]
      BY <1>2 DEF Open
    <2>2. /\ read' \in Reads /\ read'.pc = "stream" /\ read'.tries = read.tries
          /\ read'.got = read.got /\ read'.emitted = read.emitted
          /\ read'.held = read.held
      BY <1>1, <2>1 DEF Reads
    <2> QED BY <2>1, <2>2, EmptySeq DEF ReadInv, Asked, UnservedOnlyIfGone
  <1>3. CASE Chunk
    <2> DEFINE got == Append(read.got, read.emitted + 1)
    <2>1. /\ read.pc = "stream" /\ read.emitted < Chunks /\ Len(read.got) = read.emitted
          /\ read' = [read EXCEPT !.emitted = read.emitted + 1, !.got = got]
      BY <1>3 DEF Chunk, ReadInv
    <2>2. /\ got \in Seq(1 .. Chunks) /\ Len(got) = read.emitted + 1
          /\ \A i \in 1 .. Len(read.got) : got[i] = read.got[i]
          /\ got[Len(read.got) + 1] = read.emitted + 1
      BY <1>1, <2>1, ReadConstants, AppendProperties
    <2> HIDE DEF got
    <2>3. /\ read' \in Reads /\ read'.pc = "stream" /\ read'.tries = read.tries
          /\ read'.got = got /\ read'.emitted = read.emitted + 1
          /\ read'.held = read.held
      <3>1. read.emitted + 1 \in 0 .. Chunks
        BY <1>1, <2>1, ReadConstants
      <3> QED BY ZenonT(60), <1>1, <2>1, <2>2, <3>1 DEF Reads
    <2>4. \A i \in 1 .. Len(got) : got[i] = i
      BY <1>1, <2>1, <2>2 DEF ReadInv
    <2>5. got # <<>>
      BY <1>1, <2>2, EmptySeq
    <2> QED BY <2>1, <2>2, <2>3, <2>4, <2>5 DEF ReadInv, Asked, UnservedOnlyIfGone
  <1>4. CASE Complete
    <2>1. /\ read.pc = "stream" /\ read.emitted = Chunks
          /\ read' = Ended("done", read.got, {})
      BY <1>4 DEF Complete
    <2>2. "done" \in Outcomes /\ {} \in SUBSET Nodes
      BY DEF Outcomes
    <2>3. read' \in Reads /\ read'.pc = "done" /\ read'.got = read.got /\ read'.held = {}
      BY <1>1, <2>1, <2>2, EndedRead
    <2> QED BY <2>1, <2>3 DEF ReadInv, Asked, UnservedOnlyIfGone
  <1>5. CASE CopyGone
    <2>1. Asking /\ read' = Failed /\ ~Intact(data[Head(read.tries)])
      BY <1>5 DEF CopyGone
    <2>2. Head(read.tries) \notin read.held
      BY <2>1 DEF ReadInv
    <2> QED BY <2>1, <2>2, FailedRead, FailedReads
  <1>6. CASE CallFails
    <2>1. /\ Asking /\ read.errors < MaxReadErrors
          /\ read' = [Failed EXCEPT !.errors = read.errors + 1,
                                    !.held = @ \ {Head(read.tries)}]
      BY <1>6 DEF CallFails
    <2>2. Failed \in Reads /\ Failed.got = read.got /\ Failed.held = read.held
      BY <2>1, FailedRead
    <2>3. read.errors + 1 \in 0 .. MaxReadErrors
      BY <1>1, <2>1, ReadConstants DEF Reads
    <2>4. /\ read' \in Reads /\ read'.got = read.got
          /\ read'.held = read.held \ {Head(read.tries)} /\ read'.pc = Failed.pc
          /\ read'.tries = Failed.tries /\ read'.emitted = Failed.emitted
      BY ZenonT(60), <2>1, <2>2, <2>3 DEF Reads
    <2> QED BY <2>1, <2>4, FailedReads
  <1> QED
    BY <1>2, <1>3, <1>4, <1>5, <1>6, ResolveReads, PreflightReads DEF ReadNext

\* A copy that a step of the others removes or damages is no longer held.
LEMMA ObserveReads ==
  ASSUME ReadInv, Observe
  PROVE  ReadInv'
  <1> DEFINE held == {n \in read.held : Intact(data'[n])}
  <1>1. read \in Reads /\ read' = [read EXCEPT !.held = held]
    BY DEF ReadInv, Observe
  <1>2. held \in SUBSET Nodes /\ held \subseteq read.held
    BY <1>1 DEF Reads
  <1>3. /\ read' \in Reads /\ read'.pc = read.pc /\ read'.tries = read.tries
        /\ read'.got = read.got /\ read'.emitted = read.emitted
        /\ read'.held = held
    BY <1>1, <1>2 DEF Reads
  <1> QED BY <1>2, <1>3 DEF ReadInv, UnservedOnlyIfGone

\* What a GET sends is right, and it is served while a copy is held,
\* whatever the migrations do meanwhile.
THEOREM ReadInductive == ReadSpec => []ReadInv
  <1>1. ReadInit => ReadInv
    <2> SUFFICES ASSUME ReadInit PROVE ReadInv
      OBVIOUS
    <2>1. <<>> \in Seq(Nodes) /\ <<>> \in Seq(1 .. Chunks) /\ Len(<<>>) = 0
      BY EmptySeq
    <2>2. /\ read \in Reads /\ read.pc = "idle" /\ read.got = <<>>
          /\ read.emitted = 0 /\ read.held = {}
      BY <2>1, ReadConstants DEF ReadInit, NoRead, Reads
    <2> QED BY <2>1, <2>2 DEF ReadInv, Asked, UnservedOnlyIfGone
  <1>2. ReadInv /\ [Both]_allVars => ReadInv'
    <2>1. ReadInv /\ UNCHANGED allVars => ReadInv'
      BY DEF ReadInv, allVars, vars, UnservedOnlyIfGone
    <2>2. ReadInv /\ Both => ReadInv'
      BY ObserveReads, ReadStep DEF Both, vars
    <2> QED BY <2>1, <2>2
  <1> QED BY <1>1, <1>2, PTL DEF ReadSpec

\* Type correctness of a request's state.
THEOREM ReadTypes == ReadSpec => []ReadTypeOK
  <1>1. ReadInv => ReadTypeOK
    BY DEF ReadInv, Reads, ReadTypeOK
  <1> QED BY <1>1, ReadInductive, PTL

\* A client gets the chunks of the version once and in order, and all of them
\* unless the response breaks off, for any number of nodes and chunks.
THEOREM ReadsWholeAlways == ReadSpec => []ReadsWhole
  <1>1. ReadInv => ReadsWhole
    <2> SUFFICES ASSUME ReadInv PROVE ReadsWhole
      OBVIOUS
    <2>1. read.got \in Seq(1 .. Chunks) /\ \A i \in 1 .. Len(read.got) : read.got[i] = i
      BY DEF ReadInv, Reads
    <2>2. read.got = [i \in 1 .. Len(read.got) |-> i]
      BY <2>1, LenProperties
    <2> QED BY <2>2 DEF ReadInv, ReadsWhole
  <1> QED BY <1>1, ReadInductive, PTL

\* A GET is refused, or breaks off without a byte, only when every copy it had
\* resolved was deleted since or its node did not answer.
THEOREM UnservedOnlyIfGoneAlways == ReadSpec => []UnservedOnlyIfGone
  <1>1. ReadInv => UnservedOnlyIfGone
    BY DEF ReadInv
  <1> QED BY <1>1, ReadInductive, PTL
=============================================================================
