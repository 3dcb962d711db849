------------------------ MODULE ObjectGatewayProofs ------------------------
(***************************************************************************)
(* Proofs about ObjectGateway, for every set of requests, gateway          *)
(* processes and nodes, and every way the requests are spread over them.   *)
(***************************************************************************)
EXTENDS ObjectGateway, TLAPS

\* Default provers, in the order they are tried, with time limits in seconds.
USE SMTT(60), ZenonT(60), SMTT(90), SMTT(120)

\* A version is numbered while its PUT holds the row, above all committed ones,
\* and keeps its number once it is committed.
Numbering ==
  /\ \A p \in Puts : pc[p] = "copying" => lock = p
  /\ \A p \in Puts : number[p] # 0 => p \in committed \/ pc[p] = "copying"
  /\ \A p \in committed : number[p] > 0 /\ pc[p] = "acked"
  /\ \A p \in Puts : pc[p] = "copying" =>
       number[p] > 0 /\ \A v \in committed : number[v] < number[p]
  /\ NumbersDistinct
  /\ CurrentIsNewest

NumInv == TypeOK /\ Numbering

Points == {"idle"} \cup Synchronous \cup Awaiting \cup Answered
Outcomes == {"none", "COPYING", "ok", "failed", "late"}

\* The rows a session starts from.
LEMMA RowTypes == NoRow \in Rows /\ NewRow \in Rows
  BY DEF NoRow, NewRow, Rows, ObjectStates

\* A change of state keeps the rest of a row.
LEMMA StateChange ==
  ASSUME NEW o \in Rows, NEW to \in ObjectStates
  PROVE  /\ [o EXCEPT !.state = to] \in Rows
         /\ [o EXCEPT !.state = to].current = o.current
         /\ [o EXCEPT !.state = to].state = to
  BY DEF Rows

\* max(version_number) + 1 is above every committed number.
LEMMA NextNumberAbove ==
  ASSUME NumInv
  PROVE  /\ NextNumber \in Nat /\ NextNumber > 0
         /\ \A v \in committed : number[v] < NextNumber
  <1> DEFINE S == {0} \cup {number[v] : v \in committed}
             m == IF row.current = NoVersion THEN 0 ELSE number[row.current]
  <1>1. number \in [Puts -> Nat] /\ committed \subseteq Puts
    BY DEF NumInv, TypeOK
  <1>2. S \subseteq Nat
    BY <1>1
  <1>3. m \in S /\ \A y \in S : m >= y
    BY <1>1, GatewayConstants DEF NumInv, Numbering, CurrentIsNewest
  <1>4. \E x \in S : \A y \in S : x >= y
    BY Zenon, <1>3
  <1>5. Max(S) \in S /\ \A y \in S : Max(S) >= y
    <2> HIDE DEF S
    <2> QED BY <1>4 DEF Max
  <1>6. NextNumber = Max(S) + 1
    BY DEF NextNumber
  <1>7. \A v \in committed : number[v] \in S
    OBVIOUS
  <1> HIDE DEF S, m
  <1>8. Max(S) \in Nat
    BY Zenon, <1>2, <1>5
  <1> QED
    BY <1>1, <1>2, <1>5, <1>6, <1>7, <1>8

LEMMA InitNumInv == Init => NumInv
  <1> SUFFICES ASSUME Init PROVE NumInv
    OBVIOUS
  <1>1. TypeOK
    BY RowTypes, GatewayConstants DEF Init, TypeOK, NoSweep
  <1>2. Numbering
    BY GatewayConstants
    DEF Init, Numbering, NumbersDistinct, CurrentIsNewest, NoRow, Requests
  <1> QED BY <1>1, <1>2 DEF NumInv

\* The steps of a PUT that change neither numbers nor versions.
LEMMA PutLooks ==
  ASSUME NumInv, NEW p \in Puts,
         \/ PutRead(p) \/ PutFindsRow(p) \/ PutRefused(p) \/ PutUnplaced(p)
         \/ \E n \in Nodes : WriteOne(p, n) \/ LateStore(p, n)
  PROVE  NumInv'
  <1> USE GatewayConstants DEF Requests
  <1>1. UNCHANGED <<row, lock, number, committed, replica, sweep>>
    BY Zenon DEF PutRead, PutFindsRow, PutRefused, PutUnplaced, WriteOne, LateStore
  <1>2. TypeOK'
    <2>1. seen' \in [Requests -> Rows]
      BY ZenonT(60), RowTypes DEF NumInv, TypeOK, PutRead, PutFindsRow, PutRefused, PutUnplaced,
                      WriteOne, LateStore, Close
    <2>2. pc' \in [Requests -> Points]
      BY ZenonT(60) DEF NumInv, TypeOK, PutRead, PutFindsRow, PutRefused, PutUnplaced,
             WriteOne, LateStore, Goto, Points, Synchronous, Answered
    <2>3. copy' \in [Copies -> Outcomes] /\ bytes' \in SUBSET Copies
      <3>1. CASE PutRead(p) \/ PutFindsRow(p) \/ PutRefused(p) \/ PutUnplaced(p)
        BY <3>1 DEF NumInv, TypeOK, PutRead, PutFindsRow, PutRefused, PutUnplaced,
                    Outcomes
      <3>2. ASSUME NEW n \in Nodes, WriteOne(p, n) \/ LateStore(p, n)
            PROVE  copy' \in [Copies -> Outcomes] /\ bytes' \in SUBSET Copies
        <4>1. <<p, n>> \in Copies
          BY DEF Copies
        <4>2. copy' \in [Copies -> Outcomes]
          BY <3>2, <4>1 DEF NumInv, TypeOK, WriteOne, LateStore, Outcomes
        <4>3. bytes' \in SUBSET Copies
          BY <3>2, <4>1 DEF NumInv, TypeOK, WriteOne, LateStore
        <4> QED BY <4>2, <4>3
      <3> QED BY <3>1, <3>2
    <2> QED BY <1>1, <2>1, <2>2, <2>3 DEF NumInv, TypeOK, Points, Outcomes
  <1>3. \A q \in Puts : (pc'[q] = "copying") <=> (pc[q] = "copying")
    BY ZenonT(60) DEF NumInv, TypeOK, PutRead, PutFindsRow, PutRefused, PutUnplaced,
           WriteOne, LateStore, Goto
  <1>4. \A q \in committed : pc'[q] = "acked"
    BY ZenonT(60) DEF NumInv, TypeOK, Numbering, PutRead, PutFindsRow, PutRefused,
           PutUnplaced, WriteOne, LateStore, Goto
  <1> QED
    BY <1>1, <1>2, <1>3, <1>4
    DEF NumInv, Numbering, NumbersDistinct, CurrentIsNewest

\* create_version: a number above all committed ones, under the row lock.
LEMMA PutPrepareNumbers ==
  ASSUME NumInv, NEW p \in Puts, NEW targets \in SUBSET Nodes, PutPrepare(p, targets)
  PROVE  NumInv'
  <1> USE GatewayConstants DEF Requests
  <1>1. /\ NextNumber \in Nat /\ NextNumber > 0
        /\ \A v \in committed : number[v] < NextNumber
    BY NextNumberAbove
  <1>2. /\ number' = [number EXCEPT ![p] = NextNumber] /\ lock' = p
        /\ pc' = [pc EXCEPT ![p] = "copying"] /\ lock = NoRequest
        /\ UNCHANGED <<row, committed, replica, bytes, sweep>>
        /\ pc[p] \in {"found", "creating"}
    BY DEF PutPrepare, Goto, RowFree
  <1>3. TypeOK'
    <2>1. seen' \in [Requests -> Rows]
      BY RowTypes DEF PutPrepare, NumInv, TypeOK
    <2>2. copy' \in [Copies -> {"none", "COPYING", "ok", "failed", "late"}]
      BY DEF PutPrepare, CopiesStarted, NumInv, TypeOK
    <2>3. number' \in [Puts -> Nat] /\ pc' \in [Requests -> {"idle"} \cup Synchronous \cup Awaiting \cup Answered]
      BY <1>1, <1>2 DEF NumInv, TypeOK, Awaiting
    <2> QED BY <1>2, <2>1, <2>2, <2>3 DEF NumInv, TypeOK
  <1>4. p \notin committed /\ \A q \in Puts : pc[q] # "copying"
    BY <1>2 DEF NumInv, Numbering
  <1>5. /\ number'[p] = NextNumber /\ \A q \in Puts \ {p} : number'[q] = number[q]
        /\ pc'[p] = "copying" /\ \A q \in Puts \ {p} : pc'[q] = pc[q]
    BY <1>2 DEF NumInv, TypeOK
  <1>6. \A q \in Puts \ {p} : number[q] # 0 => q \in committed
    BY <1>4 DEF NumInv, Numbering
  <1>7. NumbersDistinct'
    <2>1. \A q \in Puts \ {p} : number'[q] # 0 => number'[q] # number'[p]
      BY <1>1, <1>5, <1>6 DEF NumInv, TypeOK
    <2> QED BY <1>5, <2>1 DEF NumInv, Numbering, NumbersDistinct
  <1>8. \A v \in committed : v \in Puts /\ v # p /\ number'[v] = number[v]
    BY <1>4, <1>5 DEF NumInv, TypeOK
  <1>9. CurrentIsNewest'
    BY <1>2, <1>8 DEF NumInv, Numbering, CurrentIsNewest
  <1> QED
    BY <1>1, <1>2, <1>3, <1>4, <1>5, <1>6, <1>7, <1>8, <1>9 DEF NumInv, Numbering

\* commit_version: the number is above the committed ones, so p is the newest.
LEMMA PutCommitNumbers ==
  ASSUME NumInv, NEW p \in Puts, PutCommit(p)
  PROVE  NumInv'
  <1> USE GatewayConstants DEF Requests
  <1>1. /\ pc[p] = "copying" /\ pc' = [pc EXCEPT ![p] = "acked"]
        /\ lock' = NoRequest /\ committed' = committed \cup {p}
        /\ row' = RowAfter(p) /\ seen' = [seen EXCEPT ![p] = NoRow]
        /\ replica' = [c \in Copies |->
                         IF c[1] # p \/ copy[c] = "none" THEN replica[c] ELSE Outcome(c)]
        /\ UNCHANGED <<number, bytes, copy, sweep>>
    BY DEF PutCommit, Unlock, Goto, Close
  <1>2. row'.current = p /\ row' \in Rows
    BY <1>1 DEF RowAfter, NumInv, TypeOK, Rows, ObjectStates
  <1>3. TypeOK'
    <2>1. replica' \in [Copies -> {"none", "HEALTHY", "FAILED"}]
      BY <1>1 DEF NumInv, TypeOK, Outcome
    <2>2. pc' \in [Requests -> Points]
      BY <1>1 DEF NumInv, TypeOK, Points, Answered
    <2>3. seen' \in [Requests -> Rows]
      BY <1>1, RowTypes DEF NumInv, TypeOK
    <2> QED BY <1>1, <1>2, <2>1, <2>2, <2>3 DEF NumInv, TypeOK, Points
  <1>4. \A q \in Puts \ {p} : pc[q] # "copying"
    BY <1>1 DEF NumInv, Numbering
  <1>5. pc'[p] = "acked" /\ \A q \in Puts \ {p} : pc'[q] = pc[q]
    BY <1>1 DEF NumInv, TypeOK
  <1>6. number[p] > 0 /\ \A v \in committed : number[v] < number[p]
    BY <1>1 DEF NumInv, Numbering
  <1>7. committed \subseteq Puts /\ number \in [Puts -> Nat] /\ p # NoVersion
    BY DEF NumInv, TypeOK
  <1>8. CurrentIsNewest'
    BY <1>1, <1>2, <1>6, <1>7 DEF CurrentIsNewest
  <1>9. NumbersDistinct'
    BY <1>1 DEF NumInv, Numbering, NumbersDistinct
  <1> QED
    BY <1>1, <1>3, <1>4, <1>5, <1>6, <1>7, <1>8, <1>9 DEF NumInv, Numbering

\* What a rollback of the PUTs ps, none of them committed, leaves.
LEMMA RolledBackNumbers ==
  ASSUME NumInv, NEW ps \in SUBSET (Puts \ committed), RolledBack(ps)
  PROVE  /\ number' \in [Puts -> Nat] /\ copy' \in [Copies -> Outcomes]
         /\ \A p \in ps : number'[p] = 0
         /\ \A p \in Puts \ ps : number'[p] = number[p]
         /\ \A v \in committed : v \in Puts /\ number'[v] = number[v]
  BY DEF NumInv, TypeOK, RolledBack, Outcomes

LEMMA PutAbortNumbers ==
  ASSUME NumInv, NEW p \in Puts, PutAbort(p)
  PROVE  NumInv'
  <1> USE GatewayConstants DEF Requests
  <1>1. /\ pc[p] = "copying" /\ pc' = [pc EXCEPT ![p] = "failed"]
        /\ lock' = NoRequest /\ seen' = [seen EXCEPT ![p] = NoRow]
        /\ RolledBack({p})
        /\ UNCHANGED <<row, committed, replica, bytes, sweep>>
    BY DEF PutAbort, Unlock, Goto, Close
  <1>2. p \notin committed /\ \A q \in Puts \ {p} : pc[q] # "copying"
    BY <1>1 DEF NumInv, Numbering
  <1>3. /\ number' \in [Puts -> Nat] /\ copy' \in [Copies -> Outcomes]
        /\ number'[p] = 0 /\ \A q \in Puts \ {p} : number'[q] = number[q]
        /\ \A v \in committed : v \in Puts /\ number'[v] = number[v]
    BY <1>1, <1>2, RolledBackNumbers
  <1>4. pc'[p] = "failed" /\ \A q \in Puts \ {p} : pc'[q] = pc[q]
    BY <1>1 DEF NumInv, TypeOK
  <1>5. TypeOK'
    <2>1. pc' \in [Requests -> Points] /\ seen' \in [Requests -> Rows]
      BY <1>1, RowTypes DEF NumInv, TypeOK, Points, Answered
    <2> QED BY <1>1, <1>3, <2>1 DEF NumInv, TypeOK, Points, Outcomes
  <1>6. NumbersDistinct'
    BY <1>3 DEF NumInv, Numbering, NumbersDistinct
  <1>7. CurrentIsNewest'
    BY <1>1, <1>3 DEF NumInv, Numbering, CurrentIsNewest
  <1> QED
    BY <1>1, <1>2, <1>3, <1>4, <1>5, <1>6, <1>7 DEF NumInv, Numbering

\* A DELETE changes the state of the row, never its version.
LEMMA DeleteNumbers ==
  ASSUME NumInv, NEW d \in Deletes,
         \/ DeleteRead(d) \/ DeleteBegin(d) \/ DeleteCommit(d) \/ DeleteFinish(d)
         \/ \E c \in Copies : DeleteOne(d, c)
  PROVE  NumInv'
  <1> USE GatewayConstants DEF Requests
  <1>1. UNCHANGED <<number, committed, copy>> /\ d \notin Puts
    BY Zenon DEF DeleteRead, DeleteBegin, DeleteCommit, DeleteFinish, DeleteOne
  <1>2. row' \in Rows /\ row'.current = row.current
    <2>1. row \in Rows /\ {"DELETING", "DELETED"} \subseteq ObjectStates
      BY DEF NumInv, TypeOK, ObjectStates
    <2>2. \/ row' = row
          \/ \E to \in {"DELETING", "DELETED"} : row' = [row EXCEPT !.state = to]
      BY Zenon DEF DeleteRead, DeleteBegin, DeleteCommit, DeleteFinish, DeleteOne
    <2>3. ASSUME NEW to \in {"DELETING", "DELETED"}, row' = [row EXCEPT !.state = to]
          PROVE  row' \in Rows /\ row'.current = row.current
      <3>1. to \in ObjectStates
        BY <2>1
      <3> QED BY <2>1, <2>3, <3>1, StateChange
    <2> QED BY <2>1, <2>2, <2>3
  <1>3. pc' \in [Requests -> Points] /\ \A p \in Puts : pc'[p] = pc[p]
    BY ZenonT(60), <1>1 DEF NumInv, TypeOK, Points, Answered, Awaiting, Synchronous, Goto,
           DeleteRead, DeleteBegin, DeleteCommit, DeleteFinish, DeleteOne
  <1>4. lock' \in Requests \cup {NoRequest} /\ \A p \in Puts : lock = p => lock' = p
    BY ZenonT(60), <1>1 DEF NumInv, TypeOK, RowFree,
           DeleteRead, DeleteBegin, DeleteCommit, DeleteFinish, DeleteOne
  <1>5. seen' \in [Requests -> Rows]
    <2>1. CASE DeleteBegin(d)
      <3>1. seen[d] \in Rows /\ seen \in [Requests -> Rows]
        BY DEF NumInv, TypeOK
      <3>2. [seen[d] EXCEPT !.state = "DELETING"] \in Rows
        BY Zenon, <3>1, StateChange DEF ObjectStates
      <3>3. seen' = seen \/ seen' = [seen EXCEPT ![d] = [seen[d] EXCEPT !.state = "DELETING"]]
        BY <2>1, <3>1 DEF DeleteBegin
      <3> QED BY <3>1, <3>2, <3>3
    <2>2. CASE ~DeleteBegin(d)
      <3>1. seen \in [Requests -> Rows] /\ row \in Rows /\ NoRow \in Rows
        BY RowTypes DEF NumInv, TypeOK
      <3>2. \/ seen' = seen
            \/ \E r \in {row, NoRow} : seen' = [seen EXCEPT ![d] = r]
        BY Zenon, <2>2 DEF Close, DeleteRead, DeleteCommit, DeleteFinish, DeleteOne
      <3> QED BY <3>1, <3>2
    <2> QED BY <2>1, <2>2
  <1>6. replica' \in [Copies -> {"none", "HEALTHY", "FAILED"}]
    BY Zenon DEF NumInv, TypeOK, DeleteRead, DeleteBegin, DeleteCommit, DeleteFinish,
           DeleteOne
  <1>7. bytes' \in SUBSET Copies
    BY Zenon DEF NumInv, TypeOK, DeleteRead, DeleteBegin, DeleteCommit, DeleteFinish,
           DeleteOne
  <1>8. sweep' \in [Deletes -> [todo : SUBSET Copies, gone : SUBSET Copies,
                               kept : SUBSET Copies]]
    <2> DEFINE Sweeps == [todo : SUBSET Copies, gone : SUBSET Copies, kept : SUBSET Copies]
    <2> SUFFICES sweep' \in [Deletes -> Sweeps]
      OBVIOUS
    <2>1. sweep \in [Deletes -> Sweeps]
      BY DEF NumInv, TypeOK
    <2>2. CASE DeleteRead(d) \/ DeleteFinish(d)
      BY <2>1, <2>2 DEF DeleteRead, DeleteFinish
    <2>3. CASE DeleteCommit(d)
      <3>1. NoSweep \in Sweeps
        BY DEF NoSweep
      <3> HIDE DEF Sweeps
      <3> QED BY <2>1, <2>3, <3>1 DEF DeleteCommit
    <2>4. CASE DeleteBegin(d)
      BY <2>1, <2>4 DEF DeleteBegin
    <2>5. ASSUME NEW c \in Copies, DeleteOne(d, c) PROVE sweep' \in [Deletes -> Sweeps]
      BY <2>1, <2>5 DEF DeleteOne
    <2> HIDE DEF Sweeps
    <2> QED BY <2>2, <2>3, <2>4, <2>5
  <1>9. TypeOK'
    BY <1>1, <1>2, <1>3, <1>4, <1>5, <1>6, <1>7, <1>8
    DEF NumInv, TypeOK, Points
  <1> QED
    BY <1>1, <1>2, <1>3, <1>4, <1>9
    DEF NumInv, Numbering, NumbersDistinct, CurrentIsNewest, TypeOK

\* A process that dies takes only open transactions with it.
LEMMA CrashNumbers ==
  ASSUME NumInv, NEW g \in Loops, Crash(g)
  PROVE  NumInv'
  <1> USE GatewayConstants DEF Requests
  <1> DEFINE lost == {r \in Requests : LoopOf[r] = g
                                       /\ pc[r] \in Synchronous \cup Awaiting}
             ps == lost \cap Puts
  <1>1. /\ pc' = [r \in Requests |-> IF r \in lost THEN "dead" ELSE pc[r]]
        /\ lock' = IF lock \in lost THEN NoRequest ELSE lock
        /\ RolledBack(ps)
        /\ seen' = [r \in Requests |-> IF r \in lost THEN NoRow ELSE seen[r]]
        /\ sweep' = [d \in Deletes |-> IF d \in lost THEN NoSweep ELSE sweep[d]]
        /\ UNCHANGED <<row, committed, replica, bytes>>
    BY DEF Crash
  <1>2. ps \subseteq Puts \ committed
    BY DEF NumInv, Numbering, Synchronous, Awaiting
  <1> HIDE DEF lost
  <1>3. /\ number' \in [Puts -> Nat] /\ copy' \in [Copies -> Outcomes]
        /\ \A p \in Puts : p \in lost => number'[p] = 0
        /\ \A p \in Puts : p \notin lost => number'[p] = number[p]
        /\ \A v \in committed : v \in Puts /\ v \notin lost /\ number'[v] = number[v]
    BY <1>1, <1>2, RolledBackNumbers
  <1>4. \A r \in Requests : pc'[r] = IF r \in lost THEN "dead" ELSE pc[r]
    BY <1>1
  <1>5. TypeOK'
    <2>1. pc' \in [Requests -> Points] /\ seen' \in [Requests -> Rows]
      BY <1>1, RowTypes DEF NumInv, TypeOK, Points, Answered
    <2>2. sweep' \in [Deletes -> [todo : SUBSET Copies, gone : SUBSET Copies,
                                 kept : SUBSET Copies]]
      BY <1>1 DEF NumInv, TypeOK, NoSweep
    <2> QED BY <1>1, <1>3, <2>1, <2>2 DEF NumInv, TypeOK, Points, Outcomes
  <1>6. NumbersDistinct'
    BY <1>3 DEF NumInv, Numbering, NumbersDistinct
  <1>7. CurrentIsNewest'
    BY <1>1, <1>3 DEF NumInv, Numbering, CurrentIsNewest
  <1> QED
    BY <1>1, <1>3, <1>4, <1>5, <1>6, <1>7 DEF NumInv, Numbering

-----------------------------------------------------------------------------
(* ActiveReadable: what a PUT has verified stays stored until a DELETE, which *)
(* knows only replicas of committed versions, removes it.                     *)

Closed == {"DELETING", "DELETED"}

Stored ==
  /\ \A p \in Puts, n \in Nodes :
       /\ copy[<<p, n>>] = "ok" /\ pc[p] = "copying" => <<p, n>> \in bytes
       /\ pc[p] \in {"idle", "found", "creating"} => copy[<<p, n>>] = "none"
       /\ replica[<<p, n>>] # "none" => p \in committed
  /\ \A d \in Deletes, p \in Puts, n \in Nodes :
       <<p, n>> \in sweep[d].todo => p \in committed

\* A DELETE that does not hold the row has seen it DELETING.
Deleting ==
  \A d \in Deletes :
    /\ pc[d] = "removing" /\ lock # d => row.state \in Closed
    /\ pc[d] = "found" /\ seen[d].state # "ACTIVE" => row.state \in Closed

ReadInv == NumInv /\ Stored /\ Deleting /\ ActiveReadable

\* A step that keeps the rows and removes no bytes keeps the object readable.
LEMMA KeepsReadable ==
  ASSUME ActiveReadable, row' = row, replica' = replica, bytes \subseteq bytes',
         \A d \in Deletes : pc[d] \in {"removing", "dead"} =>
                           pc'[d] \in {"removing", "dead"}
  PROVE  ActiveReadable'
  <1>1. ASSUME NEW v, Readable(v) PROVE Readable(v)'
    BY <1>1 DEF Readable
  <1> QED
    BY <1>1 DEF ActiveReadable

LEMMA InitReadInv == Init => ReadInv
  <1> SUFFICES ASSUME Init PROVE ReadInv
    OBVIOUS
  <1>1. Stored /\ Deleting
    BY GatewayConstants
    DEF Init, Stored, Deleting, Copies, Requests, NoSweep
  <1>2. ActiveReadable
    BY DEF Init, ActiveReadable, NoRow
  <1> QED BY InitNumInv, <1>1, <1>2 DEF ReadInv

\* The steps of a PUT before it commits.
LEMMA PutStored ==
  ASSUME ReadInv, NEW p \in Puts,
         \/ PutRead(p) \/ PutFindsRow(p) \/ PutRefused(p) \/ PutUnplaced(p)
         \/ \E n \in Nodes : WriteOne(p, n) \/ LateStore(p, n)
  PROVE  Stored' /\ Deleting' /\ ActiveReadable'
  <1> USE GatewayConstants DEF Requests
  <1>1. UNCHANGED <<row, lock, number, committed, replica, sweep>>
    BY ZenonT(60) DEF PutRead, PutFindsRow, PutRefused, PutUnplaced, WriteOne, LateStore
  <1>2. \A r \in Requests \ {p} : pc'[r] = pc[r] /\ seen'[r] = seen[r]
    BY ZenonT(60) DEF ReadInv, NumInv, TypeOK, PutRead, PutFindsRow, PutRefused,
           PutUnplaced, WriteOne, LateStore, Goto, Close
  <1>3. \A d \in Deletes : d \in Requests \ {p}
    OBVIOUS
  <1>4. Deleting'
    BY <1>1, <1>2, <1>3 DEF ReadInv, Deleting
  <1>5. bytes \subseteq bytes'
    BY Zenon DEF PutRead, PutFindsRow, PutRefused, PutUnplaced, WriteOne, LateStore
  <1>6. ActiveReadable'
    BY <1>1, <1>2, <1>3, <1>5, KeepsReadable DEF ReadInv
  <1>7. Stored'
    <2>1. CASE PutRead(p) \/ PutFindsRow(p) \/ PutRefused(p) \/ PutUnplaced(p)
      <3>1. UNCHANGED <<bytes, copy>> /\ pc[p] \in {"idle", "found", "creating"}
            /\ pc'[p] # "copying"
        BY <2>1 DEF PutRead, PutFindsRow, PutRefused, PutUnplaced, Goto,
                    ReadInv, NumInv, TypeOK
      <3> QED BY <1>1, <1>2, <3>1 DEF ReadInv, Stored
    <2>2. ASSUME NEW n \in Nodes, WriteOne(p, n) \/ LateStore(p, n)
          PROVE  Stored'
      <3>1. /\ pc' = pc /\ copy[<<p, n>>] \in {"COPYING", "late"}
            /\ <<p, n>> \in Copies
            /\ \A c \in Copies : c # <<p, n>> => copy'[c] = copy[c]
            /\ copy'[<<p, n>>] = "ok" => <<p, n>> \in bytes'
        BY <2>2 DEF WriteOne, LateStore, ReadInv, NumInv, TypeOK, Copies
      <3>2. pc[p] \notin {"idle", "found", "creating"}
        BY <3>1 DEF ReadInv, Stored
      <3>3. ASSUME NEW q \in Puts, NEW m \in Nodes
            PROVE  /\ copy'[<<q, m>>] = "ok" /\ pc'[q] = "copying" => <<q, m>> \in bytes'
                   /\ pc'[q] \in {"idle", "found", "creating"} => copy'[<<q, m>>] = "none"
        <4>1. CASE <<q, m>> = <<p, n>>
          BY <3>1, <3>2, <4>1
        <4>2. CASE <<q, m>> # <<p, n>>
          <5>1. copy'[<<q, m>>] = copy[<<q, m>>]
            BY <3>1, <4>2 DEF Copies
          <5> QED BY <1>5, <3>1, <5>1 DEF ReadInv, Stored
        <4> QED BY <4>1, <4>2
      <3> QED BY ZenonT(60), <1>1, <3>3 DEF ReadInv, Stored
    <2> QED BY <2>1, <2>2
  <1> QED BY <1>4, <1>6, <1>7

LEMMA PutPrepareStored ==
  ASSUME ReadInv, NEW p \in Puts, NEW targets \in SUBSET Nodes, PutPrepare(p, targets)
  PROVE  Stored' /\ Deleting' /\ ActiveReadable'
  <1> USE GatewayConstants DEF Requests
  <1>1. /\ lock = NoRequest /\ pc[p] \in {"found", "creating"}
        /\ pc' = [pc EXCEPT ![p] = "copying"] /\ lock' = p
        /\ UNCHANGED <<row, committed, replica, bytes, sweep>>
    BY DEF PutPrepare, Goto, RowFree
  <1>2. \A r \in Requests \ {p} : pc'[r] = pc[r] /\ seen'[r] = seen[r]
    BY <1>1 DEF PutPrepare, ReadInv, NumInv, TypeOK
  <1>3. \A d \in Deletes : d \in Requests \ {p} /\ d # NoRequest
    OBVIOUS
  <1>4. Deleting'
    BY <1>1, <1>2, <1>3 DEF ReadInv, Deleting
  <1>5. ActiveReadable'
    BY <1>1, <1>2, <1>3, KeepsReadable DEF ReadInv
  <1>6. \A q \in Puts, n \in Nodes :
          copy'[<<q, n>>] = IF q = p /\ n \in targets THEN "COPYING" ELSE copy[<<q, n>>]
    BY DEF PutPrepare, CopiesStarted, Copies
  <1>7. pc'[p] = "copying" /\ \A n \in Nodes : copy[<<p, n>>] = "none"
    BY <1>1 DEF ReadInv, NumInv, TypeOK, Stored
  <1>8. Stored'
    BY <1>1, <1>2, <1>6, <1>7 DEF ReadInv, Stored
  <1> QED BY <1>4, <1>5, <1>8

\* commit_version makes p current, with the copies its quorum was counted on.
LEMMA PutCommitStored ==
  ASSUME ReadInv, NEW p \in Puts, PutCommit(p)
  PROVE  Stored' /\ Deleting' /\ ActiveReadable'
  <1> USE GatewayConstants DEF Requests
  <1>1. /\ pc[p] = "copying" /\ pc' = [pc EXCEPT ![p] = "acked"]
        /\ lock' = NoRequest /\ committed' = committed \cup {p}
        /\ row' = RowAfter(p) /\ seen' = [seen EXCEPT ![p] = NoRow]
        /\ replica' = [c \in Copies |->
                         IF c[1] # p \/ copy[c] = "none" THEN replica[c] ELSE Outcome(c)]
        /\ UNCHANGED <<number, bytes, copy, sweep>>
        /\ QuorumMet(p)
    BY DEF PutCommit, Unlock, Goto, Close
  <1>2. \A r \in Requests \ {p} : pc'[r] = pc[r] /\ seen'[r] = seen[r]
    BY <1>1 DEF ReadInv, NumInv, TypeOK
  <1>3. \A d \in Deletes : d \in Requests \ {p}
    OBVIOUS
  <1>4. lock = p /\ p \notin committed
    BY <1>1 DEF ReadInv, NumInv, Numbering
  <1>5. row.state \in Closed => row'.state \in Closed
    BY <1>1 DEF RowAfter, NoRow, Closed
  <1>6. Deleting'
    BY <1>2, <1>3, <1>4, <1>5 DEF ReadInv, Deleting
  <1>7. \A q \in Puts, n \in Nodes :
          replica'[<<q, n>>] = IF q # p \/ copy[<<q, n>>] = "none"
                               THEN replica[<<q, n>>] ELSE Outcome(<<q, n>>)
    BY <1>1 DEF Copies
  <1>8. pc'[p] = "acked"
    BY <1>1 DEF ReadInv, NumInv, TypeOK
  <1>9. Stored'
    BY <1>1, <1>2, <1>7, <1>8 DEF ReadInv, Stored
  <1>10. \A n \in Nodes : (replica'[<<p, n>>] = "HEALTHY" /\ <<p, n>> \in bytes')
                         <=> copy[<<p, n>>] = "ok"
    <2>1. \A n \in Nodes : replica[<<p, n>>] = "none"
      BY <1>4 DEF ReadInv, Stored
    <2>2. \A n \in Nodes : copy[<<p, n>>] = "ok" => <<p, n>> \in bytes
      BY <1>1 DEF ReadInv, Stored
    <2> QED BY <1>1, <1>7, <2>1, <2>2 DEF Outcome
  <1>11. Readable(p)'
    <2>1. /\ Verified(p) \in SUBSET Nodes
          /\ \A n \in Verified(p) : replica'[<<p, n>>] = "HEALTHY" /\ <<p, n>> \in bytes'
      BY <1>10 DEF Verified
    <2> QED BY Zenon, <1>1, <2>1 DEF Readable, QuorumMet
  <1>12. row'.current = p
    BY <1>1 DEF RowAfter
  <1>13. ActiveReadable'
    BY <1>11, <1>12 DEF ActiveReadable
  <1> QED BY <1>6, <1>9, <1>13

\* A rollback changes the copies of the rolled back PUTs only.
LEMMA RolledBackCopies ==
  ASSUME NEW ps, RolledBack(ps)
  PROVE  \A q \in Puts \ ps, n \in Nodes : copy'[<<q, n>>] = copy[<<q, n>>]
  BY DEF RolledBack, Copies

LEMMA PutAbortStored ==
  ASSUME ReadInv, NEW p \in Puts, PutAbort(p)
  PROVE  Stored' /\ Deleting' /\ ActiveReadable'
  <1> USE GatewayConstants DEF Requests
  <1>1. /\ pc[p] = "copying" /\ pc' = [pc EXCEPT ![p] = "failed"]
        /\ lock' = NoRequest /\ seen' = [seen EXCEPT ![p] = NoRow]
        /\ RolledBack({p})
        /\ UNCHANGED <<row, committed, replica, bytes, sweep>>
    BY DEF PutAbort, Unlock, Goto, Close
  <1>2. pc'[p] = "failed" /\ \A r \in Requests \ {p} : pc'[r] = pc[r] /\ seen'[r] = seen[r]
    BY <1>1 DEF ReadInv, NumInv, TypeOK
  <1>3. lock = p /\ \A d \in Deletes : d \in Requests \ {p}
    BY <1>1 DEF ReadInv, NumInv, Numbering
  <1>4. Deleting'
    BY <1>1, <1>2, <1>3 DEF ReadInv, Deleting
  <1>5. ActiveReadable'
    BY <1>1, <1>2, <1>3, KeepsReadable DEF ReadInv
  <1>6. \A q \in Puts \ {p}, n \in Nodes : copy'[<<q, n>>] = copy[<<q, n>>]
    BY ZenonT(60), <1>1, RolledBackCopies
  <1>7. Stored'
    BY <1>1, <1>2, <1>6 DEF ReadInv, Stored
  <1> QED BY <1>4, <1>5, <1>7

\* The steps of a DELETE: it removes bytes only once nothing reads the object
\* as ACTIVE, or while it is itself removing.
LEMMA DeleteStored ==
  ASSUME ReadInv, NEW d \in Deletes,
         \/ DeleteRead(d) \/ DeleteBegin(d)
         \/ \E c \in Copies : DeleteOne(d, c)
         \/ DeleteCommit(d) \/ DeleteFinish(d)
  PROVE  Stored' /\ Deleting' /\ ActiveReadable'
  <1> USE GatewayConstants DEF Requests
  <1>t. TypeOK
    BY DEF ReadInv, NumInv
  <1>p. \A p \in Puts : p \in Requests \ {d}
    OBVIOUS
  <1>1. CASE DeleteRead(d)
    <2>1. /\ UNCHANGED <<row, lock, committed, replica, bytes, copy, sweep>>
          /\ pc[d] = "idle" /\ pc'[d] # "removing"
          /\ pc'[d] = "found" => seen'[d] = row /\ row.state \in {"ACTIVE", "DELETING"}
          /\ \A r \in Requests \ {d} : pc'[r] = pc[r] /\ seen'[r] = seen[r]
      BY <1>1, <1>t DEF DeleteRead, Goto, Close, TypeOK
    <2>2. Deleting'
      BY <2>1 DEF ReadInv, Deleting, Closed
    <2>3. ActiveReadable'
      BY <2>1, KeepsReadable DEF ReadInv
    <2>4. Stored'
      BY <2>1, <1>p DEF ReadInv, Stored
    <2> QED BY <2>2, <2>3, <2>4
  <1>2. CASE DeleteBegin(d)
    <2>1. /\ UNCHANGED <<row, committed, replica, bytes, copy>>
          /\ pc[d] = "found" /\ pc'[d] = "removing"
          /\ \A r \in Requests \ {d} : pc'[r] = pc[r] /\ seen'[r] = seen[r]
          /\ \/ lock = NoRequest /\ lock' = d
             \/ lock' = lock /\ seen[d].state = "DELETING"
      BY <1>2, <1>t DEF DeleteBegin, Goto, RowFree, TypeOK
    <2>2. /\ sweep'[d].todo = {c \in Copies : replica[c] # "none"}
          /\ \A e \in Deletes \ {d} : sweep'[e] = sweep[e]
      <3>1. sweep \in [Deletes -> [todo : SUBSET Copies, gone : SUBSET Copies,
                                  kept : SUBSET Copies]]
        BY <1>t DEF TypeOK
      <3>2. sweep' = [sweep EXCEPT ![d].todo = {c \in Copies : replica[c] # "none"}]
        BY <1>2 DEF DeleteBegin
      <3> QED BY <3>1, <3>2
    <2>3. Deleting'
      BY <2>1 DEF ReadInv, Deleting
    <2>4. ActiveReadable'
      BY <2>1, KeepsReadable DEF ReadInv
    <2>5. Stored'
      BY ZenonT(60), <2>1, <2>2, <1>p DEF ReadInv, Stored
    <2> QED BY <2>3, <2>4, <2>5
  <1>3. ASSUME NEW c \in Copies, DeleteOne(d, c)
        PROVE  Stored' /\ Deleting' /\ ActiveReadable'
    <2>1. /\ UNCHANGED <<row, lock, committed, replica, pc, seen, copy>>
          /\ pc[d] = "removing" /\ c \in sweep[d].todo
          /\ bytes \ {c} \subseteq bytes'
      BY <1>3 DEF DeleteOne
    <2>2. \A e \in Deletes : sweep'[e].todo \subseteq sweep[e].todo
      <3>1. sweep \in [Deletes -> [todo : SUBSET Copies, gone : SUBSET Copies,
                                  kept : SUBSET Copies]]
        BY <1>t DEF TypeOK
      <3>2. \/ sweep' = [sweep EXCEPT ![d].todo = @ \ {c}, ![d].gone = @ \cup {c}]
            \/ sweep' = [sweep EXCEPT ![d].todo = @ \ {c}, ![d].kept = @ \cup {c}]
        BY Zenon, <1>3 DEF DeleteOne
      <3>3. /\ \A e \in Deletes \ {d} : sweep'[e] = sweep[e]
            /\ sweep'[d].todo = sweep[d].todo \ {c}
        BY <3>1, <3>2
      <3> QED BY <3>3
    <2>3. Deleting'
      BY <2>1 DEF ReadInv, Deleting
    <2>4. ActiveReadable'
      BY <2>1 DEF ActiveReadable
    <2>5. \A p \in Puts, n \in Nodes :
            c = <<p, n>> => pc[p] # "copying"
      BY <2>1 DEF ReadInv, Stored, NumInv, Numbering
    <2>6. Stored'
      BY <2>1, <2>2, <2>5 DEF ReadInv, Stored
    <2> QED BY <2>3, <2>4, <2>6
  <1>4. CASE DeleteCommit(d)
    <2>1. /\ UNCHANGED <<committed, bytes, copy>>
          /\ pc[d] = "removing" /\ pc'[d] # "removing"
          /\ \A r \in Requests \ {d} : pc'[r] = pc[r] /\ seen'[r] = seen[r]
          /\ \A p \in Puts, n \in Nodes :
               replica'[<<p, n>>] # "none" => replica[<<p, n>>] # "none"
      BY <1>4, <1>t DEF DeleteCommit, Goto, Close, TypeOK, Copies
    <2>2. row'.state \in Closed
      <3>1. CASE lock = d
        BY <1>4, <1>t, <3>1, StateChange DEF DeleteCommit, TypeOK, ObjectStates, Closed
      <3>2. CASE lock # d
        BY <1>4, <2>1, <3>2 DEF DeleteCommit, ReadInv, Deleting
      <3> QED BY <3>1, <3>2
    <2>3. \A e \in Deletes : sweep'[e].todo \subseteq sweep[e].todo
      BY <1>4, <1>t DEF DeleteCommit, TypeOK, NoSweep
    <2>4. Stored'
      BY <2>1, <2>3, <1>p DEF ReadInv, Stored
    <2> QED BY <2>2, <2>4 DEF Deleting, ActiveReadable, Closed
  <1>5. CASE DeleteFinish(d)
    <2>1. /\ UNCHANGED <<committed, replica, bytes, copy, sweep>>
          /\ \A r \in Requests \ {d} : pc'[r] = pc[r]
      BY <1>5, <1>t DEF DeleteFinish, Goto, TypeOK
    <2>2. row'.state = "DELETED"
      BY <1>5, <1>t, StateChange DEF DeleteFinish, TypeOK, ObjectStates
    <2>3. Stored'
      BY <2>1, <1>p DEF ReadInv, Stored
    <2> QED BY <2>2, <2>3 DEF Deleting, ActiveReadable, Closed
  <1> QED BY <1>1, <1>2, <1>3, <1>4, <1>5

LEMMA CrashStored ==
  ASSUME ReadInv, NEW g \in Loops, Crash(g)
  PROVE  Stored' /\ Deleting' /\ ActiveReadable'
  <1> USE GatewayConstants DEF Requests
  <1> DEFINE lost == {r \in Requests : LoopOf[r] = g
                                       /\ pc[r] \in Synchronous \cup Awaiting}
  <1>1. /\ UNCHANGED <<row, committed, replica, bytes>>
        /\ RolledBack(lost \cap Puts)
        /\ \A r \in Requests : /\ pc'[r] = IF r \in lost THEN "dead" ELSE pc[r]
                               /\ seen'[r] = IF r \in lost THEN NoRow ELSE seen[r]
        /\ \A d \in Deletes : sweep'[d] = IF d \in lost THEN NoSweep ELSE sweep[d]
        /\ lock' = IF lock \in lost THEN NoRequest ELSE lock
    BY DEF Crash
  <1> HIDE DEF lost
  <1>2. Deleting'
    BY <1>1 DEF ReadInv, Deleting
  <1>3. ActiveReadable'
    BY <1>1, KeepsReadable DEF ReadInv
  <1>4. \A q \in Puts : q \notin lost =>
          \A n \in Nodes : copy'[<<q, n>>] = copy[<<q, n>>]
    BY <1>1, RolledBackCopies
  <1>5. \A d \in Deletes : sweep'[d].todo \subseteq sweep[d].todo
    BY <1>1 DEF NoSweep
  <1>6. Stored'
    BY <1>1, <1>4, <1>5 DEF ReadInv, Stored
  <1> QED BY <1>2, <1>3, <1>6

-----------------------------------------------------------------------------
\* The inductive invariant: every step of every request, every late write and
\* every death of a gateway process keeps ReadInv.
THEOREM GatewayInductive == Spec => []ReadInv
  <1>1. ReadInv /\ [Next]_vars => ReadInv'
    <2> SUFFICES ASSUME ReadInv, [Next]_vars PROVE ReadInv'
      OBVIOUS
    <2>n. NumInv
      BY DEF ReadInv
    <2>1. ASSUME NEW r \in Requests, Step(r) PROVE ReadInv'
      <3>1. CASE r \in Puts
        <4>0. r \notin Deletes
          BY <3>1, GatewayConstants
        <4>1. CASE \/ PutRead(r) \/ PutFindsRow(r) \/ PutRefused(r) \/ PutUnplaced(r)
                   \/ \E n \in Nodes : WriteOne(r, n)
          BY <2>n, <3>1, <4>1, PutLooks, PutStored DEF ReadInv
        <4>2. ASSUME NEW targets \in SUBSET Nodes, PutPrepare(r, targets)
              PROVE  ReadInv'
          BY <2>n, <3>1, <4>2, PutPrepareNumbers, PutPrepareStored DEF ReadInv
        <4>3. CASE PutCommit(r)
          BY <2>n, <3>1, <4>3, PutCommitNumbers, PutCommitStored DEF ReadInv
        <4>4. CASE PutAbort(r)
          BY <2>n, <3>1, <4>4, PutAbortNumbers, PutAbortStored DEF ReadInv
        <4> QED BY <2>1, <4>0, <4>1, <4>2, <4>3, <4>4 DEF Step
      <3>2. CASE r \in Deletes
        <4>1. r \notin Puts
          BY <3>2, GatewayConstants
        <4>2. \/ DeleteRead(r) \/ DeleteBegin(r) \/ DeleteCommit(r) \/ DeleteFinish(r)
              \/ \E c \in Copies : DeleteOne(r, c)
          BY <2>1, <4>1 DEF Step
        <4> QED BY <2>n, <3>2, <4>2, DeleteNumbers, DeleteStored DEF ReadInv
      <3> QED BY <3>1, <3>2 DEF Requests
    <2>2. ASSUME NEW p \in Puts, NEW n \in Nodes, LateStore(p, n) PROVE ReadInv'
      BY <2>n, <2>2, PutLooks, PutStored DEF ReadInv
    <2>3. ASSUME NEW g \in Loops, Crash(g) PROVE ReadInv'
      BY <2>n, <2>3, CrashNumbers, CrashStored DEF ReadInv
    <2>4. CASE UNCHANGED vars
      BY <2>4 DEF vars, ReadInv, NumInv, TypeOK, Numbering, NumbersDistinct,
                  CurrentIsNewest, Stored, Deleting, ActiveReadable, Readable
    <2> QED BY <2>1, <2>2, <2>3, <2>4 DEF Next
  <1> QED BY InitReadInv, <1>1, PTL DEF Spec

\* The types of the rows and of the requests' sessions, in any number of
\* gateway processes.
THEOREM GatewayTypes == Spec => []TypeOK
  <1>1. ReadInv => TypeOK
    BY DEF ReadInv, NumInv
  <1> QED BY <1>1, GatewayInductive, PTL

\* No two versions of an object get one number, whatever rows the sessions of
\* concurrent requests hold (create_version allocates under the row lock).
THEOREM GatewayNumbersDistinct == Spec => []NumbersDistinct
  <1>1. ReadInv => NumbersDistinct
    BY DEF ReadInv, NumInv, Numbering
  <1> QED BY <1>1, GatewayInductive, PTL

\* No commit moves the object back to an older version (commit_version).
THEOREM GatewayCurrentIsNewest == Spec => []CurrentIsNewest
  <1>1. ReadInv => CurrentIsNewest
    BY DEF ReadInv, NumInv, Numbering
  <1> QED BY <1>1, GatewayInductive, PTL

\* Only the number of a PUT that has not committed is given or taken back.
LEMMA NumbersKept ==
  ASSUME NumInv, Next, NEW v \in committed
  PROVE  v \in committed' /\ number'[v] = number[v]
  <1>1. v \in Puts /\ v \in Requests /\ pc[v] = "acked" /\ number \in [Puts -> Nat]
    BY DEF NumInv, TypeOK, Numbering, Requests
  <1>2. ASSUME NEW ps, v \notin ps, RolledBack(ps)
        PROVE  number'[v] = number[v]
    BY <1>1, <1>2 DEF RolledBack
  <1>3. ASSUME NEW r \in Requests, Step(r)
        PROVE  v \in committed' /\ number'[v] = number[v]
    <2>1. CASE UNCHANGED <<number, committed>>
      BY <2>1
    <2>2. ASSUME NEW targets \in SUBSET Nodes, PutPrepare(r, targets)
          PROVE  v \in committed' /\ number'[v] = number[v]
      <3>1. v # r
        BY <1>1, <2>2 DEF PutPrepare
      <3>2. committed' = committed /\ number' = [number EXCEPT ![r] = NextNumber]
        BY <2>2 DEF PutPrepare
      <3> QED BY <1>1, <3>1, <3>2
    <2>3. CASE PutCommit(r)
      BY <2>3 DEF PutCommit
    <2>4. CASE PutAbort(r)
      <3>1. v # r /\ committed' = committed /\ RolledBack({r})
        BY <1>1, <2>4 DEF PutAbort
      <3> QED BY <1>2, <3>1
    <2>5. \/ UNCHANGED <<number, committed>>
          \/ \E targets \in SUBSET Nodes : PutPrepare(r, targets)
          \/ PutCommit(r) \/ PutAbort(r)
      BY Zenon, <1>3
      DEF Step, PutRead, PutFindsRow, PutRefused, PutUnplaced, WriteOne,
          DeleteRead, DeleteBegin, DeleteOne, DeleteCommit, DeleteFinish
    <2> QED BY <2>1, <2>2, <2>3, <2>4, <2>5
  <1>4. ASSUME NEW p \in Puts, NEW n \in Nodes, LateStore(p, n)
        PROVE  v \in committed' /\ number'[v] = number[v]
    BY <1>4 DEF LateStore
  <1>5. ASSUME NEW g \in Loops, Crash(g)
        PROVE  v \in committed' /\ number'[v] = number[v]
    <2> DEFINE lost == {r \in Requests : LoopOf[r] = g
                                         /\ pc[r] \in Synchronous \cup Awaiting}
    <2>1. committed' = committed /\ RolledBack(lost \cap Puts)
      BY Zenon, <1>5 DEF Crash
    <2>2. v \notin lost \cap Puts
      BY <1>1 DEF Synchronous, Awaiting
    <2> HIDE DEF lost
    <2> QED BY <1>2, <2>1, <2>2
  <1> QED BY <1>3, <1>4, <1>5 DEF Next

\* Only commits write the row, and none of them makes a closed one ACTIVE.
LEMMA StaysClosed ==
  ASSUME NumInv, Next, row.state \in Closed
  PROVE  row'.state \in Closed
  <1>1. row \in Rows /\ row # NoRow
    BY DEF NumInv, TypeOK, Closed, NoRow
  <1>2. \/ row' = row
        \/ \E p \in Puts : row' = RowAfter(p)
        \/ row' = [row EXCEPT !.state = "DELETING"]
        \/ row' = [row EXCEPT !.state = "DELETED"]
    BY Zenon
    DEF Next, Step, PutRead, PutFindsRow, PutRefused, PutUnplaced, PutPrepare,
        WriteOne, PutCommit, PutAbort, DeleteRead, DeleteBegin, DeleteOne,
        DeleteCommit, DeleteFinish, LateStore, Crash
  <1>3. ASSUME NEW p \in Puts, row' = RowAfter(p) PROVE row'.state = row.state
    BY <1>1, <1>3 DEF RowAfter
  <1>4. ASSUME NEW to \in {"DELETING", "DELETED"}, row' = [row EXCEPT !.state = to]
        PROVE  row'.state = to
    BY <1>1, <1>4, StateChange DEF ObjectStates
  <1> QED BY <1>2, <1>3, <1>4 DEF Closed

\* In any number of gateway processes the history of an object is only added
\* to, and its current version is followed by newer ones only.
THEOREM GatewayHistoryKept == Spec => HistoryKept
  <1> DEFINE Keeps ==
        /\ \A v \in committed : v \in committed' /\ number'[v] = number[v]
        /\ NumberOf(row) <= NumberOf(row)'
        /\ row.state \in {"DELETING", "DELETED"} =>
             row'.state \in {"DELETING", "DELETED"}
  <1>1. ASSUME ReadInv, ReadInv', Next PROVE Keeps
    <2>1. \A v \in committed : v \in committed' /\ number'[v] = number[v]
      BY <1>1, NumbersKept DEF ReadInv
    <2>2. row.state \in {"DELETING", "DELETED"} =>
            row'.state \in {"DELETING", "DELETED"}
      BY <1>1, StaysClosed DEF ReadInv, Closed
    <2>3. NumberOf(row) <= NumberOf(row)'
      <3>1. /\ number' \in [Puts -> Nat] /\ committed' \subseteq Puts
            /\ row'.current \in committed' \cup {NoVersion}
            /\ \A v \in committed' :
                 row'.current # NoVersion /\ number'[v] <= number'[row'.current]
        BY <1>1 DEF ReadInv, NumInv, TypeOK, Numbering, CurrentIsNewest
      <3>2. row.current \in committed \cup {NoVersion}
        BY <1>1 DEF ReadInv, NumInv, Numbering, CurrentIsNewest
      <3>3. CASE row.current = NoVersion
        BY <3>1, <3>3 DEF NumberOf
      <3>4. CASE row.current \in committed /\ row.current # NoVersion
        BY <2>1, <3>1, <3>4 DEF NumberOf
      <3> QED BY <3>2, <3>3, <3>4
    <2> QED BY <2>1, <2>2, <2>3
  <1>2. ReadInv /\ ReadInv' /\ [Next]_vars => [Keeps]_vars
    <2> HIDE DEF Keeps
    <2> QED BY <1>1
  <1> QED BY <1>2, GatewayInductive, PTL DEF Spec, HistoryKept

\* What a client can read of an ACTIVE object is on a write quorum of nodes,
\* through late writes, failed writes, rollbacks and deaths of the processes.
THEOREM GatewayActiveReadable == Spec => []ActiveReadable
  <1>1. ReadInv => ActiveReadable
    BY DEF ReadInv
  <1> QED BY <1>1, GatewayInductive, PTL
-----------------------------------------------------------------------------
(* Fresh rows.  When no session's row is overtaken by a commit between its  *)
(* SELECT and the lock, the lock keeps it so from there on, and no PUT      *)
(* commits while a DELETE is removing.  With all requests on one event loop *)
(* rows are fresh, for nothing else runs from the SELECT to the next await. *)

\* What a request has found is what is there ...
Fresh == \A r \in Requests : pc[r] = "found" => seen[r] = row

\* ... so a PUT copies for the version after the current one ...
CheckedFor(p) ==
  /\ seen[p].current = row.current
  /\ row.state \in {"none", "ACTIVE"}
  /\ number[p] = NumberOf(row) + 1

Checked == \A p \in Puts : pc[p] = "copying" => CheckedFor(p)

\* ... and the row a DELETE has locked is ACTIVE until its first commit.
Held ==
  /\ row.state = "none" => row = NoRow
  /\ \A d \in Deletes :
       /\ lock = d => row.state = "ACTIVE"
       /\ pc[d] = "finishing" => row.state \in Closed

\* Where a committed version has no replicas row any more, its bytes are gone ...
Emptied ==
  \A p \in committed, n \in Nodes :
    replica[<<p, n>>] = "none" /\ <<p, n>> \in bytes => copy[<<p, n>>] # "ok"

\* ... for a DELETE drops a row only after the node has removed them ...
GoneFirst ==
  \A d \in Deletes, p \in Puts, n \in Nodes :
    <<p, n>> \in sweep[d].gone =>
      p \in committed /\ (<<p, n>> \in bytes => copy[<<p, n>>] # "ok")

\* ... while it removes, it knows all the rows there are ...
AllKnown ==
  \A d \in Deletes, p \in Puts, n \in Nodes :
    pc[d] = "removing" /\ replica[<<p, n>>] # "none" =>
      <<p, n>> \in sweep[d].todo \cup sweep[d].gone \cup sweep[d].kept

\* ... and none are left once it has no failures.
NoneLeft ==
  row.state = "DELETED" \/ (\E d \in Deletes : pc[d] = "finishing") =>
    \A p \in Puts, n \in Nodes : replica[<<p, n>>] = "none"

Swept == Emptied /\ GoneFirst /\ AllKnown /\ NoneLeft

Serial == Checked /\ Held
LoopInv == ReadInv /\ Serial /\ Swept

\* What these proofs need of the constants.
LEMMA Distinct ==
  /\ \A p \in Puts : p \notin Deletes /\ p # NoVersion
  /\ \A r \in Requests : r # NoRequest
  BY GatewayConstants

\* The number of a row depends on the number of its version only.
LEMMA SameNumber ==
  ASSUME NumInv, \A v \in committed : number'[v] = number[v]
  PROVE  (IF row.current = NoVersion THEN 0 ELSE number'[row.current]) = NumberOf(row)
  BY DEF NumInv, Numbering, CurrentIsNewest, NumberOf

\* max(version_number) + 1 is one above the number of the current version.
LEMMA NextNumberIs ==
  ASSUME NumInv
  PROVE  NextNumber = NumberOf(row) + 1
  <1> DEFINE S == {0} \cup {number[v] : v \in committed}
             m == NumberOf(row)
  <1>1. number \in [Puts -> Nat] /\ committed \subseteq Puts
    BY DEF NumInv, TypeOK
  <1>2. S \subseteq Nat
    BY <1>1
  <1>3. m \in S /\ \A y \in S : m >= y
    BY <1>1, GatewayConstants DEF NumInv, Numbering, CurrentIsNewest, NumberOf
  <1>4. NextNumber = Max(S) + 1
    BY DEF NextNumber
  <1> HIDE DEF S, m
  <1>5. Max(S) \in S /\ \A y \in S : Max(S) >= y
    BY <1>3 DEF Max
  <1>6. Max(S) = m
    <2>1. Max(S) \in Nat /\ m \in Nat
      BY Zenon, <1>2, <1>3, <1>5
    <2>2. Max(S) >= m /\ m >= Max(S)
      BY <1>3, <1>5
    <2> QED BY <2>1, <2>2
  <1> QED BY <1>4, <1>6 DEF m

\* A step of r that leaves the row and the other requests alone.
LEMMA SerialKept ==
  ASSUME LoopInv, NEW r \in Requests, row' = row,
         \A q \in Requests \ {r} : pc'[q] = pc[q] /\ seen'[q] = seen[q],
         \A q \in Puts \ {r} : number'[q] = number[q],
         \A v \in committed : number'[v] = number[v],
         \A q \in Requests \ {r} : lock' = q => lock = q,
         r \in Puts /\ pc'[r] = "copying" => CheckedFor(r)',
         r \in Deletes /\ lock' = r => lock = r \/ row.state = "ACTIVE",
         r \in Deletes /\ pc'[r] = "finishing" => row.state \in Closed
  PROVE  Serial'
  <1> USE Distinct DEF Requests
  <1>1. Checked'
    <2>1. NumberOf(row)' = NumberOf(row)
      BY SameNumber DEF LoopInv, ReadInv, NumberOf
    <2>2. ASSUME NEW p \in Puts, p # r, pc'[p] = "copying" PROVE CheckedFor(p)'
      <3>1. CheckedFor(p) /\ seen'[p] = seen[p] /\ number'[p] = number[p]
        BY <2>2 DEF LoopInv, Serial, Checked
      <3> QED BY <2>1, <3>1 DEF CheckedFor
    <2> QED BY <2>2 DEF Checked
  <1>2. Held'
    BY DEF LoopInv, Serial, Held
  <1> QED BY <1>1, <1>2 DEF Serial

\* A step that neither brings bytes back nor touches the rows or the sweeps.
LEMMA SweptKept ==
  ASSUME LoopInv, committed' = committed, replica' = replica, row' = row,
         \A p \in committed, n \in Nodes :
           <<p, n>> \in bytes' /\ copy'[<<p, n>>] = "ok" =>
             <<p, n>> \in bytes /\ copy[<<p, n>>] = "ok",
         \A d \in Deletes : /\ sweep'[d].gone \subseteq sweep[d].gone
                            /\ pc'[d] = "removing" => pc[d] = "removing" /\ sweep'[d] = sweep[d]
                            /\ pc'[d] = "finishing" => pc[d] = "finishing"
  PROVE  Swept'
  <1>1. Emptied'
    BY DEF LoopInv, Swept, Emptied
  <1>2. GoneFirst'
    BY DEF LoopInv, Swept, GoneFirst
  <1>3. AllKnown'
    BY DEF LoopInv, Swept, AllKnown
  <1>4. NoneLeft'
    BY Zenon DEF LoopInv, Swept, NoneLeft
  <1> QED BY <1>1, <1>2, <1>3, <1>4 DEF Swept

LEMMA InitLoopInv == Init => LoopInv
  <1> SUFFICES ASSUME Init PROVE LoopInv
    OBVIOUS
  <1> USE Distinct DEF Requests
  <1>1. \A r \in Requests : pc[r] = "idle"
    BY DEF Init
  <1>2. Serial
    BY <1>1 DEF Init, Serial, Checked, Held
  <1>3. Swept
    BY <1>1 DEF Init, Swept, Emptied, GoneFirst, AllKnown, NoneLeft, NoSweep, NoRow, Copies
  <1> QED BY InitReadInv, <1>2, <1>3 DEF LoopInv

\* The steps of a PUT that leave rows and numbers alone.
LEMMA PutLoop ==
  ASSUME LoopInv, NEW p \in Puts,
         \/ PutRead(p) \/ PutFindsRow(p) \/ PutRefused(p) \/ PutUnplaced(p)
         \/ \E n \in Nodes : WriteOne(p, n) \/ LateStore(p, n)
  PROVE  Serial' /\ Swept'
  <1> USE Distinct DEF Requests
  <1>t. TypeOK
    BY DEF LoopInv, ReadInv, NumInv
  <1>1. UNCHANGED <<row, lock, number, committed, replica, sweep>>
    BY Zenon DEF PutRead, PutFindsRow, PutRefused, PutUnplaced, WriteOne, LateStore
  <1>2. \A q \in Requests \ {p} : pc'[q] = pc[q] /\ seen'[q] = seen[q]
    BY Zenon, <1>t DEF TypeOK, PutRead, PutFindsRow, PutRefused,
           PutUnplaced, WriteOne, LateStore, Goto, Close
  <1>3. CASE PutRead(p) \/ PutFindsRow(p) \/ PutRefused(p) \/ PutUnplaced(p)
    <2>1. /\ UNCHANGED <<bytes, copy>> /\ pc'[p] # "copying"
      BY <1>3, <1>t DEF PutRead, PutFindsRow, PutRefused, PutUnplaced, Goto, Close, TypeOK
    <2>2. Serial'
      BY Zenon, <1>1, <1>2, <2>1, SerialKept
    <2>3. \A d \in Deletes : pc'[d] = pc[d]
      BY Zenon, <1>2
    <2>4. Swept'
      BY ZenonT(60), <1>1, <2>1, <2>3, SweptKept
    <2> QED BY <2>2, <2>4
  <1>4. ASSUME NEW n \in Nodes, WriteOne(p, n) \/ LateStore(p, n)
        PROVE  Serial' /\ Swept'
    <2>1. /\ UNCHANGED <<pc, seen>> /\ <<p, n>> \in Copies
          /\ copy[<<p, n>>] \in {"COPYING", "late"}
          /\ \A c \in Copies : c # <<p, n>> => copy'[c] = copy[c] /\ (c \in bytes' => c \in bytes)
          /\ copy'[<<p, n>>] = "ok" => pc[p] = "copying"
      BY <1>4, <1>t DEF WriteOne, LateStore, TypeOK, Copies
    <2>2. Serial'
      BY Zenon, <1>1, <2>1, SerialKept, SameNumber
      DEF LoopInv, ReadInv, Serial, Checked, CheckedFor, NumberOf, Held
    <2>3. \A q \in committed, m \in Nodes :
            <<q, m>> \in bytes' /\ copy'[<<q, m>>] = "ok" =>
              <<q, m>> \in bytes /\ copy[<<q, m>>] = "ok"
      <3>1. \A q \in committed : q \in Puts /\ pc[q] = "acked"
        BY <1>t DEF LoopInv, ReadInv, NumInv, Numbering, TypeOK
      <3> QED BY ZenonT(60), <2>1, <3>1 DEF Copies
    <2>4. Swept'
      BY <1>1, <2>1, <2>3, SweptKept
    <2> QED BY <2>2, <2>4
  <1> QED BY <1>3, <1>4

\* create_version locks the row that was found: the next number is one above
\* that of the current version.
LEMMA PutPrepareLoop ==
  ASSUME LoopInv, Fresh, NEW p \in Puts, NEW targets \in SUBSET Nodes,
         PutPrepare(p, targets)
  PROVE  Serial' /\ Swept'
  <1> USE Distinct DEF Requests
  <1>t. TypeOK /\ NumInv /\ CurrentIsNewest
    BY DEF LoopInv, ReadInv, NumInv, Numbering
  <1>1. /\ number' = [number EXCEPT ![p] = NextNumber] /\ lock' = p
        /\ pc' = [pc EXCEPT ![p] = "copying"] /\ lock = NoRequest
        /\ UNCHANGED <<row, committed, replica, bytes, sweep>>
        /\ pc[p] \in {"found", "creating"}
    BY DEF PutPrepare, Goto, RowFree
  <1>2. \A q \in Requests \ {p} : pc'[q] = pc[q] /\ seen'[q] = seen[q]
    BY <1>1, <1>t DEF PutPrepare, TypeOK
  <1>3. p \notin committed /\ \A v \in committed : v \in Puts
    BY <1>1, <1>t DEF NumInv, Numbering, TypeOK
  <1>4. /\ number'[p] = NextNumber /\ pc'[p] = "copying"
        /\ \A q \in Puts \ {p} : number'[q] = number[q]
        /\ \A v \in committed : number'[v] = number[v]
    BY <1>1, <1>3, <1>t DEF TypeOK
  <1>5. NumberOf(row)' = NumberOf(row)
    BY <1>1, <1>4, <1>t, SameNumber DEF NumberOf
  <1>6. NextNumber = NumberOf(row) + 1
    BY <1>t, NextNumberIs
  <1>7. seen'[p].current = row.current /\ row.state \in {"none", "ACTIVE"}
    <2>1. CASE pc[p] = "found"
      <3>1. seen' = seen /\ seen'[p].state = "ACTIVE"
        BY <2>1 DEF PutPrepare
      <3>2. seen[p] = row
        BY <2>1 DEF Fresh
      <3> QED BY <3>1, <3>2
    <2>2. CASE pc[p] # "found"
      <3>1. row = NoRow /\ seen' = [seen EXCEPT ![p] = NewRow]
        BY <2>2 DEF PutPrepare
      <3>2. seen'[p] = NewRow
        BY <3>1, <1>t DEF TypeOK
      <3> QED BY <3>1, <3>2 DEF NoRow, NewRow
    <2> QED BY <2>1, <2>2
  <1>8. CheckedFor(p)'
    BY <1>1, <1>4, <1>5, <1>6, <1>7 DEF CheckedFor
  <1>9. Serial'
    BY <1>1, <1>2, <1>4, <1>8, SerialKept
  <1>10. \A q \in committed, n \in Nodes : copy'[<<q, n>>] = copy[<<q, n>>]
    BY Zenon, <1>3 DEF PutPrepare, CopiesStarted, Copies
  <1>11. Swept'
    BY ZenonT(60), <1>1, <1>2, <1>10, SweptKept
  <1> QED BY <1>9, <1>11

\* commit_version: no DELETE is removing or finishing.
LEMMA PutCommitLoop ==
  ASSUME LoopInv, NEW p \in Puts, PutCommit(p)
  PROVE  Serial' /\ Swept'
  <1> USE Distinct DEF Requests
  <1>t. TypeOK /\ NumInv
    BY DEF LoopInv, ReadInv, NumInv
  <1>1. /\ pc[p] = "copying" /\ pc' = [pc EXCEPT ![p] = "acked"]
        /\ lock' = NoRequest /\ committed' = committed \cup {p}
        /\ row' = RowAfter(p) /\ seen' = [seen EXCEPT ![p] = NoRow]
        /\ replica' = [c \in Copies |->
                         IF c[1] # p \/ copy[c] = "none" THEN replica[c] ELSE Outcome(c)]
        /\ UNCHANGED <<number, bytes, copy, sweep>>
    BY ZenonT(60) DEF PutCommit, Unlock, Goto, Close
  <1>2. pc'[p] = "acked" /\ \A q \in Requests \ {p} : pc'[q] = pc[q] /\ seen'[q] = seen[q]
    BY <1>1, <1>t DEF TypeOK
  <1>4. lock = p /\ p \notin committed /\ \A q \in Puts \ {p} : pc[q] # "copying"
    BY Zenon, <1>1, <1>t DEF NumInv, Numbering
  <1>5. CheckedFor(p)
    BY ZenonT(60), <1>1 DEF LoopInv, Serial, Checked
  <1>6. row'.state = "ACTIVE" /\ row'.current = p
    BY ZenonT(60), <1>1, <1>5 DEF RowAfter, CheckedFor, LoopInv, Serial, Held
  <1>7. \A d \in Deletes : pc[d] # "removing" /\ pc'[d] # "removing"
    BY <1>2, <1>4, <1>5 DEF LoopInv, ReadInv, Deleting, CheckedFor, Closed
  <1>3. \A d \in Deletes : pc'[d] # "finishing"
    BY <1>2, <1>5 DEF LoopInv, Serial, Held, CheckedFor, Closed
  <1>8. Serial'
    BY <1>1, <1>2, <1>3, <1>4, <1>6 DEF Serial, Checked, Held
  <1>9. \A q \in Puts, n \in Nodes :
          replica'[<<q, n>>] = IF q # p \/ copy[<<q, n>>] = "none"
                               THEN replica[<<q, n>>] ELSE Outcome(<<q, n>>)
    BY <1>1 DEF Copies
  <1>10. Emptied'
    <2>1. \A q \in committed, n \in Nodes : replica'[<<q, n>>] = replica[<<q, n>>]
      <3>1. \A q \in committed : q \in Puts /\ q # p
        BY <1>t, <1>4 DEF TypeOK
      <3> QED BY ZenonT(60), <1>9, <3>1
    <2>2. \A n \in Nodes : replica'[<<p, n>>] = "none" => copy[<<p, n>>] # "ok"
      BY <1>9 DEF Outcome
    <2> SUFFICES ASSUME NEW q \in committed', NEW n \in Nodes,
                        replica'[<<q, n>>] = "none", <<q, n>> \in bytes'
                 PROVE  copy'[<<q, n>>] # "ok"
      BY DEF Emptied
    <2>3. CASE q = p
      BY <1>1, <2>2, <2>3
    <2>4. CASE q \in committed
      BY <1>1, <2>1, <2>4 DEF LoopInv, Swept, Emptied
    <2> QED BY <1>1, <2>3, <2>4
  <1>11. GoneFirst'
    BY <1>1 DEF LoopInv, Swept, GoneFirst
  <1>12. AllKnown'
    BY <1>7 DEF AllKnown
  <1>13. NoneLeft'
    BY <1>3, <1>6 DEF NoneLeft
  <1>14. Swept'
    BY <1>10, <1>11, <1>12, <1>13 DEF Swept
  <1> QED BY <1>8, <1>14

LEMMA PutAbortLoop ==
  ASSUME LoopInv, NEW p \in Puts, PutAbort(p)
  PROVE  Serial' /\ Swept'
  <1> USE Distinct DEF Requests
  <1>t. TypeOK /\ NumInv
    BY DEF LoopInv, ReadInv, NumInv
  <1>1. /\ pc[p] = "copying" /\ pc' = [pc EXCEPT ![p] = "failed"]
        /\ lock' = NoRequest /\ seen' = [seen EXCEPT ![p] = NoRow]
        /\ RolledBack({p})
        /\ UNCHANGED <<row, committed, replica, bytes, sweep>>
    BY DEF PutAbort, Unlock, Goto, Close
  <1>2. pc'[p] = "failed" /\ \A q \in Requests \ {p} : pc'[q] = pc[q] /\ seen'[q] = seen[q]
    BY <1>1, <1>t DEF TypeOK
  <1>3. p \notin committed /\ \A v \in committed : v \in Puts
    BY <1>1, <1>t DEF NumInv, Numbering, TypeOK
  <1>4. /\ \A q \in Puts \ {p} : number'[q] = number[q]
        /\ \A v \in committed : number'[v] = number[v]
    BY <1>1, <1>3, <1>t, RolledBackNumbers
  <1>5. Serial'
    <2>1. p \in Requests /\ row' = row /\ \A q \in Requests \ {p} : lock' = q => lock = q
      BY <1>1
    <2>2. p \in Puts /\ pc'[p] = "copying" => CheckedFor(p)'
      BY <1>2
    <2>3. /\ p \in Deletes /\ lock' = p => lock = p \/ row.state = "ACTIVE"
          /\ p \in Deletes /\ pc'[p] = "finishing" => row.state \in Closed
      BY <1>2
    <2> QED BY ZenonT(60), <1>2, <1>4, <2>1, <2>2, <2>3, SerialKept
  <1>6. \A q \in committed, n \in Nodes : copy'[<<q, n>>] = copy[<<q, n>>]
    <2>1. \A q \in Puts \ {p}, n \in Nodes : copy'[<<q, n>>] = copy[<<q, n>>]
      BY Zenon, <1>1, RolledBackCopies
    <2> QED BY Zenon, <1>3, <2>1
  <1>7. Swept'
    BY ZenonT(60), <1>1, <1>2, <1>6, SweptKept
  <1> QED BY <1>5, <1>7

\* A DELETE looks up and locks the row, and asks the nodes.
LEMMA DeleteLoop ==
  ASSUME LoopInv, Fresh, NEW d \in Deletes,
         \/ DeleteRead(d) \/ DeleteBegin(d) \/ \E c \in Copies : DeleteOne(d, c)
  PROVE  Serial' /\ Swept'
  <1> USE Distinct DEF Requests
  <1>t. TypeOK /\ d \notin Puts
    BY DEF LoopInv, ReadInv, NumInv
  <1>1. CASE DeleteRead(d)
    <2>1. UNCHANGED <<row, lock, number, committed, replica, bytes, copy, sweep>>
      BY <1>1 DEF DeleteRead
    <2>2. \A r \in Requests \ {d} : pc'[r] = pc[r] /\ seen'[r] = seen[r]
      BY <1>1, <1>t DEF DeleteRead, Goto, Close, TypeOK
    <2>3. pc'[d] \in {"found", "acked", "refused"}
      BY <1>1, <1>t DEF DeleteRead, Goto, Close, TypeOK
    <2>4. Serial'
      BY ZenonT(60), <1>t, <2>1, <2>2, <2>3, SerialKept
    <2>5. Swept'
      BY ZenonT(60), <2>1, <2>2, <2>3, SweptKept
    <2> QED BY <2>4, <2>5
  <1>2. CASE DeleteBegin(d)
    <2>1. /\ UNCHANGED <<row, number, committed, replica, bytes, copy>>
          /\ pc[d] = "found" /\ seen[d] = row
          /\ pc' = [pc EXCEPT ![d] = "removing"]
      BY <1>2 DEF DeleteBegin, Goto, Fresh
    <2>2. \A r \in Requests \ {d} : pc'[r] = pc[r] /\ seen'[r] = seen[r]
      BY <1>2, <1>t, <2>1 DEF DeleteBegin, TypeOK
    <2>3. \/ lock' = d /\ row.state = "ACTIVE"
          \/ lock' = lock /\ row.state = "DELETING"
      BY <1>2, <2>1 DEF DeleteBegin
    <2>4. pc'[d] = "removing"
      BY <1>t, <2>1 DEF TypeOK
    <2>6. Serial'
      BY ZenonT(60), <1>t, <2>1, <2>2, <2>3, <2>4, SerialKept
    <2>7. /\ sweep'[d].todo = {c \in Copies : replica[c] # "none"}
          /\ sweep'[d].gone = sweep[d].gone
          /\ \A e \in Deletes \ {d} : sweep'[e] = sweep[e] /\ pc'[e] = pc[e]
      <3>1. sweep \in [Deletes -> [todo : SUBSET Copies, gone : SUBSET Copies,
                                  kept : SUBSET Copies]]
        BY <1>t DEF TypeOK
      <3>2. sweep' = [sweep EXCEPT ![d].todo = {c \in Copies : replica[c] # "none"}]
        BY <1>2 DEF DeleteBegin
      <3> QED BY <2>2, <3>1, <3>2
    <2>8. \A p \in Puts, n \in Nodes : replica[<<p, n>>] # "none" => <<p, n>> \in sweep'[d].todo
      BY <2>7 DEF Copies
    <2>9. Swept'
      <3>1. Emptied'
        BY <2>1 DEF LoopInv, Swept, Emptied
      <3>2. GoneFirst'
        <4>1. \A e \in Deletes : sweep'[e].gone = sweep[e].gone
          BY <2>7
        <4> QED BY <2>1, <4>1 DEF LoopInv, Swept, GoneFirst
      <3>3. AllKnown'
        BY ZenonT(60), <2>1, <2>7, <2>8 DEF LoopInv, Swept, AllKnown
      <3>4. NoneLeft'
        BY ZenonT(60), <2>1, <2>4, <2>7 DEF LoopInv, Swept, NoneLeft
      <3> QED BY <3>1, <3>2, <3>3, <3>4 DEF Swept
    <2> QED BY <2>6, <2>9
  <1>3. ASSUME NEW c \in Copies, DeleteOne(d, c) PROVE Serial' /\ Swept'
    <2>1. /\ UNCHANGED <<row, lock, number, committed, replica, pc, seen, copy>>
          /\ pc[d] = "removing" /\ c \in sweep[d].todo /\ bytes' \subseteq bytes
      BY <1>3 DEF DeleteOne
    <2>2. Serial'
      BY ZenonT(60), <2>1 DEF LoopInv, Serial, Checked, CheckedFor, Held, NumberOf
    <2>3. /\ \A e \in Deletes \ {d} : sweep'[e] = sweep[e]
          /\ sweep'[d].todo = sweep[d].todo \ {c}
          /\ \/ /\ sweep'[d].gone = sweep[d].gone \cup {c} /\ c \notin bytes'
                /\ sweep'[d].kept = sweep[d].kept
             \/ sweep'[d].gone = sweep[d].gone /\ sweep'[d].kept = sweep[d].kept \cup {c}
      <3>1. sweep \in [Deletes -> [todo : SUBSET Copies, gone : SUBSET Copies,
                                  kept : SUBSET Copies]]
        BY <1>t DEF TypeOK
      <3>2. \/ /\ sweep' = [sweep EXCEPT ![d].todo = @ \ {c}, ![d].gone = @ \cup {c}]
               /\ c \notin bytes'
            \/ sweep' = [sweep EXCEPT ![d].todo = @ \ {c}, ![d].kept = @ \cup {c}]
        BY <1>3 DEF DeleteOne
      <3> QED BY <3>1, <3>2
    <2>4. \A p \in Puts, n \in Nodes : <<p, n>> = c => p \in committed
      BY Zenon, <2>1 DEF LoopInv, ReadInv, Stored
    <2>5. Swept'
      <3>1. Emptied'
        BY <2>1 DEF LoopInv, Swept, Emptied
      <3>2. ASSUME NEW e \in Deletes, NEW x \in sweep'[e].gone
            PROVE  x \in sweep[e].gone \/ (x = c /\ c \notin bytes')
        <4>1. CASE e = d
          BY <2>3, <3>2, <4>1
        <4>2. CASE e # d
          BY <2>3, <3>2, <4>2
        <4> QED BY <4>1, <4>2
      <3>3. GoneFirst'
        BY <2>1, <2>4, <3>2 DEF LoopInv, Swept, GoneFirst
      <3>4. \A e \in Deletes :
              sweep[e].todo \cup sweep[e].gone \cup sweep[e].kept \subseteq
                sweep'[e].todo \cup sweep'[e].gone \cup sweep'[e].kept
        BY <2>3
      <3>5. AllKnown'
        BY <2>1, <3>4 DEF LoopInv, Swept, AllKnown
      <3>6. NoneLeft'
        BY Zenon, <2>1 DEF LoopInv, Swept, NoneLeft
      <3> QED BY <3>1, <3>3, <3>5, <3>6 DEF Swept
    <2> QED BY <2>2, <2>5
  <1> QED BY <1>1, <1>2, <1>3

\* First commit of a DELETE: with no failures no replicas row is left.
LEMMA DeleteCommitLoop ==
  ASSUME LoopInv, NEW d \in Deletes, DeleteCommit(d)
  PROVE  Serial' /\ Swept'
  <1> USE Distinct DEF Requests
  <1>t. TypeOK /\ d \notin Puts
    BY DEF LoopInv, ReadInv, NumInv
  <1>1. /\ pc[d] = "removing" /\ sweep[d].todo = {}
        /\ UNCHANGED <<number, committed, bytes, copy>>
        /\ row' = IF lock = d THEN [row EXCEPT !.state = "DELETING"] ELSE row
        /\ lock' = IF lock = d THEN NoRequest ELSE lock
    BY DEF DeleteCommit
  <1>2. \A r \in Requests \ {d} : pc'[r] = pc[r] /\ seen'[r] = seen[r]
    BY <1>t DEF DeleteCommit, Goto, Close, TypeOK
  <1>3. /\ pc'[d] = IF AllGone(d) THEN "finishing" ELSE "failed"
        /\ sweep'[d] = NoSweep /\ \A e \in Deletes \ {d} : sweep'[e] = sweep[e]
    BY <1>t DEF DeleteCommit, Goto, TypeOK
  <1>4. \A p \in Puts, n \in Nodes :
          replica'[<<p, n>>] = IF <<p, n>> \in sweep[d].gone THEN "none" ELSE replica[<<p, n>>]
    BY DEF DeleteCommit, Copies
  <1>6. row'.state = (IF lock = d THEN "DELETING" ELSE row.state) /\ row'.state \in Closed
    <2>1. CASE lock = d
      BY <1>1, <1>t, <2>1, StateChange DEF TypeOK, ObjectStates, Closed
    <2>2. CASE lock # d
      BY <1>1, <2>2 DEF LoopInv, ReadInv, Deleting
    <2> QED BY <2>1, <2>2
  <1>7. Serial'
    <2>1. CASE lock = d
      <3>1. \A p \in Puts : pc'[p] # "copying"
        BY <1>t, <1>2, <2>1 DEF LoopInv, ReadInv, NumInv, Numbering
      <3>2. Checked'
        BY <3>1 DEF Checked
      <3>3. Held'
        BY <1>1, <1>3, <1>6, <2>1 DEF Held, Closed
      <3> QED BY <3>2, <3>3 DEF Serial
    <2>2. CASE lock # d
      BY <1>t, <1>1, <1>2, <1>3, <1>6, <2>2, SerialKept
    <2> QED BY <2>1, <2>2
  <1>8. Emptied'
    <2>1. \A p \in committed : p \in Puts
      BY <1>t DEF TypeOK
    <2> QED BY <1>1, <1>4, <2>1 DEF LoopInv, Swept, Emptied, GoneFirst
  <1>9. GoneFirst'
    BY <1>1, <1>3 DEF LoopInv, Swept, GoneFirst, NoSweep
  <1>10. AllKnown'
    BY <1>2, <1>3, <1>4 DEF LoopInv, Swept, AllKnown
  <1>11. NoneLeft'
    <2> SUFFICES ASSUME row'.state = "DELETED" \/ (\E e \in Deletes : pc'[e] = "finishing"),
                        NEW p \in Puts, NEW n \in Nodes
                 PROVE  replica'[<<p, n>>] = "none"
      BY ZenonT(60) DEF NoneLeft
    <2>1. CASE row'.state = "DELETED"
      BY <1>4, <1>6, <2>1 DEF LoopInv, Swept, NoneLeft
    <2>2. CASE pc'[d] = "finishing"
      BY <1>1, <1>3, <1>4, <2>2 DEF LoopInv, Swept, AllKnown, AllGone
    <2>3. ASSUME NEW e \in Deletes, e # d, pc'[e] = "finishing"
          PROVE  replica'[<<p, n>>] = "none"
      BY <1>2, <1>4, <2>3 DEF LoopInv, Swept, NoneLeft
    <2> QED BY <2>1, <2>2, <2>3
  <1>12. Swept'
    BY <1>8, <1>9, <1>10, <1>11 DEF Swept
  <1> QED BY <1>7, <1>12

\* Second commit: the row is free, so nobody copies.
LEMMA DeleteFinishLoop ==
  ASSUME LoopInv, NEW d \in Deletes, DeleteFinish(d)
  PROVE  Serial' /\ Swept'
  <1> USE Distinct DEF Requests
  <1>t. TypeOK
    BY DEF LoopInv, ReadInv, NumInv
  <1>1. /\ pc[d] = "finishing" /\ lock = NoRequest /\ row' = [row EXCEPT !.state = "DELETED"]
        /\ pc' = [pc EXCEPT ![d] = "acked"]
        /\ UNCHANGED <<lock, number, committed, replica, bytes, seen, copy, sweep>>
    BY DEF DeleteFinish, RowFree, Goto
  <1>2. pc'[d] = "acked" /\ \A r \in Requests \ {d} : pc'[r] = pc[r]
    BY <1>1, <1>t DEF TypeOK
  <1>3. row'.state = "DELETED"
    BY <1>1, <1>t, StateChange DEF TypeOK, ObjectStates
  <1>5. \A p \in Puts : pc'[p] # "copying"
    BY <1>1, <1>2 DEF LoopInv, ReadInv, NumInv, Numbering
  <1>6. Serial'
    BY <1>1, <1>3, <1>5 DEF Serial, Checked, Held, Closed
  <1>8. \A p \in Puts, n \in Nodes : replica'[<<p, n>>] = "none"
    BY Zenon, <1>1 DEF LoopInv, Swept, NoneLeft
  <1>9. Emptied' /\ GoneFirst'
    BY <1>1 DEF LoopInv, Swept, Emptied, GoneFirst
  <1>10. AllKnown' /\ NoneLeft'
    BY <1>8 DEF AllKnown, NoneLeft
  <1>11. Swept'
    BY <1>9, <1>10 DEF Swept
  <1> QED BY <1>6, <1>11

\* A process dies with all its requests; the others go on.
LEMMA CrashLoop ==
  ASSUME LoopInv, NEW g \in Loops, Crash(g)
  PROVE  Serial' /\ Swept'
  <1> USE Distinct DEF Requests
  <1> DEFINE lost == {r \in Requests : LoopOf[r] = g
                                       /\ pc[r] \in Synchronous \cup Awaiting}
  <1>t. TypeOK /\ NumInv
    BY DEF LoopInv, ReadInv, NumInv
  <1>1. /\ UNCHANGED <<row, committed, replica, bytes>>
        /\ lock' \in {lock, NoRequest}
        /\ RolledBack(lost \cap Puts)
        /\ \A r \in Requests : pc'[r] = IF r \in lost THEN "dead" ELSE pc[r]
        /\ \A r \in Requests : seen'[r] = IF r \in lost THEN NoRow ELSE seen[r]
        /\ \A d \in Deletes : sweep'[d] = IF d \in lost THEN NoSweep ELSE sweep[d]
    BY ZenonT(60) DEF Crash
  <1>2. lost \cap Puts \in SUBSET (Puts \ committed)
    BY <1>t DEF NumInv, Numbering, Synchronous, Awaiting
  <1>3. \A p \in committed : p \in Puts /\ p \notin lost
    BY <1>t, <1>2 DEF TypeOK
  <1> HIDE DEF lost
  <1>4. Serial'
    <2>1. /\ \A p \in Puts : p \notin lost => number'[p] = number[p]
          /\ \A v \in committed : number'[v] = number[v]
      BY <1>t, <1>1, <1>2, RolledBackNumbers
    <2>2. NumberOf(row)' = NumberOf(row)
      BY <1>t, <1>1, <2>1, SameNumber DEF NumberOf
    <2>3. ASSUME NEW p \in Puts, pc'[p] = "copying" PROVE CheckedFor(p)'
      <3>1. p \notin lost /\ pc[p] = "copying" /\ seen'[p] = seen[p]
        BY <1>1, <2>3
      <3>2. CheckedFor(p) /\ number'[p] = number[p]
        BY <2>1, <3>1 DEF LoopInv, Serial, Checked
      <3> QED BY <1>1, <2>2, <3>1, <3>2 DEF CheckedFor
    <2>4. Held'
      BY <1>1 DEF LoopInv, Serial, Held
    <2> QED BY <2>3, <2>4 DEF Serial, Checked
  <1>5. \A p \in committed, n \in Nodes : copy'[<<p, n>>] = copy[<<p, n>>]
    <2>1. \A q \in Puts : q \notin lost =>
            \A n \in Nodes : copy'[<<q, n>>] = copy[<<q, n>>]
      BY <1>1, RolledBackCopies
    <2> QED BY ZenonT(60), <1>3, <2>1
  <1>6. \A d \in Deletes :
          /\ sweep'[d].gone \subseteq sweep[d].gone
          /\ pc'[d] = "removing" => pc[d] = "removing" /\ sweep'[d] = sweep[d]
          /\ pc'[d] = "finishing" => pc[d] = "finishing"
    BY <1>1 DEF NoSweep
  <1>7. Swept'
    BY <1>1, <1>5, <1>6, SweptKept
  <1> QED BY <1>4, <1>7

LEMMA StepLoop == Fresh /\ LoopInv /\ ReadInv' /\ [Next]_vars => LoopInv'
  <1> SUFFICES ASSUME Fresh, LoopInv, ReadInv', [Next]_vars PROVE Serial' /\ Swept'
    BY DEF LoopInv
  <1>1. ASSUME NEW p \in Puts, Step(p) PROVE Serial' /\ Swept'
    <2>1. p \notin Deletes
      BY GatewayConstants
    <2> QED BY <1>1, <2>1, PutLoop, PutPrepareLoop, PutCommitLoop, PutAbortLoop DEF Step
  <1>2. ASSUME NEW d \in Deletes, Step(d) PROVE Serial' /\ Swept'
    <2>1. d \notin Puts
      BY GatewayConstants
    <2> QED BY <1>2, <2>1, DeleteLoop, DeleteCommitLoop, DeleteFinishLoop DEF Step
  <1>3. ASSUME NEW p \in Puts, NEW n \in Nodes, LateStore(p, n) PROVE Serial' /\ Swept'
    BY <1>3, PutLoop
  <1>4. ASSUME NEW g \in Loops, Crash(g) PROVE Serial' /\ Swept'
    BY <1>4, CrashLoop
  <1>5. CASE UNCHANGED vars
    <2>1. Serial'
      BY <1>5 DEF vars, LoopInv, Serial, Checked, CheckedFor, NumberOf, Held
    <2>2. Swept'
      BY <1>5, SweptKept DEF vars
    <2> QED BY <2>1, <2>2
  <1> QED BY <1>1, <1>2, <1>3, <1>4, <1>5 DEF Next, Requests

\* The inductive invariant of gateway processes that lock fresh rows.
THEOREM FreshInductive == Spec /\ []Fresh => []LoopInv
  BY InitLoopInv, StepLoop, GatewayInductive, PTL DEF Spec

\* When rows are fresh, a DELETED object leaves no replicas row, and bytes only
\* where a write was given up: no PUT slips in between the two commits of
\* delete_object, and no failure of a node is forgotten.
THEOREM DeletedIsEmptyFresh == Spec /\ []Fresh => []DeletedIsEmpty
  <1>1. LoopInv => DeletedIsEmpty
    <2> SUFFICES ASSUME LoopInv, row.state = "DELETED", NEW c \in Copies, c[1] \in committed
                 PROVE  replica[c] = "none" /\ (c \in bytes => copy[c] # "ok")
      BY DEF DeletedIsEmpty
    <2>1. PICK p \in Puts, n \in Nodes : c = <<p, n>>
      BY DEF Copies
    <2>2. p \in committed
      BY <2>1
    <2>3. replica[<<p, n>>] = "none"
      BY DEF LoopInv, Swept, NoneLeft
    <2>4. <<p, n>> \in bytes => copy[<<p, n>>] # "ok"
      BY <2>2, <2>3 DEF LoopInv, Swept, Emptied
    <2> QED BY <2>1, <2>3, <2>4
  <1> QED BY <1>1, FreshInductive, PTL

\* Only commit_version adds a version.
LEMMA CommitsAlone ==
  ASSUME LoopInv, Next, committed' # committed
  PROVE  \E p \in Puts : PutCommit(p)
  BY ZenonT(60) DEF Next, Step, PutRead, PutFindsRow, PutRefused, PutUnplaced, PutPrepare,
     WriteOne, PutAbort, DeleteRead, DeleteBegin, DeleteOne, DeleteCommit,
     DeleteFinish, LateStore, Crash

\* When rows are fresh, a PUT commits on the row its checks were about: an
\* object that is ACTIVE or new, at the version its client expects
\* (_expected_matches in create_version and commit_version).
THEOREM CommitsOnCheckedRowFresh == Spec /\ []Fresh => CommitsOnCheckedRow
  <1>1. ASSUME LoopInv, [Next]_vars, NEW p \in Puts, p \in committed' \ committed
        PROVE  row.state \in {"none", "ACTIVE"} /\ Expected[p] \in {AnyVersion, NumberOf(row)}
    <2>1. Next /\ committed' # committed
      BY <1>1 DEF vars
    <2>2. PICK q \in Puts : PutCommit(q)
      BY <1>1, <2>1, CommitsAlone
    <2>3. q = p
      BY Zenon, <1>1, <2>2 DEF PutCommit
    <2>4. CheckedFor(p)
      BY Zenon, <1>1, <2>2, <2>3 DEF PutCommit, LoopInv, Serial, Checked
    <2>5. Expected[p] = AnyVersion \/ Expected[p] = NumberOf(seen[p])
      BY Zenon, <2>2, <2>3 DEF PutCommit, ExpectedMatches
    <2> QED BY <2>4, <2>5 DEF CheckedFor, NumberOf
  <1>2. LoopInv /\ [Next]_vars =>
          [\A p \in Puts :
             p \in committed' \ committed =>
               /\ row.state \in {"none", "ACTIVE"}
               /\ Expected[p] \in {AnyVersion, NumberOf(row)}]_vars
    BY <1>1
  <1> QED BY <1>2, FreshInductive, PTL DEF Spec, CommitsOnCheckedRow

-----------------------------------------------------------------------------
(* With fresh rows the gateway implements VersionedObject. *)

\* The abstract object, as the refinement mapping gives it.
CommittedNumbers == [p \in Puts |-> IF p \in committed THEN number[p] ELSE 0]
ObjectView == <<row.state, row.current, CommittedNumbers>>

\* Steps that change neither the row nor a committed number are invisible.
LEMMA UnseenStep ==
  ASSUME NumInv, row' = row, committed' = committed,
         \A v \in committed : number'[v] = number[v]
  PROVE  UNCHANGED ObjectView
  BY DEF ObjectView, CommittedNumbers

\* Which steps can be seen at all.
LEMMA SeenSteps ==
  ASSUME LoopInv, [Next]_vars
  PROVE  \/ UNCHANGED ObjectView
         \/ \E p \in Puts : PutCommit(p)
         \/ \E d \in Deletes : DeleteCommit(d) \/ DeleteFinish(d)
  <1>n. NumInv
    BY DEF LoopInv, ReadInv
  <1>1. ASSUME UNCHANGED <<row, committed, number>> PROVE UNCHANGED ObjectView
    BY <1>1 DEF ObjectView, CommittedNumbers
  <1>2. ASSUME NEW p \in Puts, NEW targets \in SUBSET Nodes, PutPrepare(p, targets)
        PROVE  UNCHANGED ObjectView
    <2>1. /\ number' = [number EXCEPT ![p] = NextNumber]
          /\ UNCHANGED <<row, committed>> /\ pc[p] \in {"found", "creating"}
      BY <1>2 DEF PutPrepare
    <2>2. p \notin committed
      BY <1>n, <2>1 DEF NumInv, Numbering
    <2>3. \A v \in committed : number'[v] = number[v]
      BY <1>n, <2>1, <2>2 DEF NumInv, TypeOK
    <2> QED BY <1>n, <2>1, <2>3, UnseenStep
  <1>3. ASSUME NEW p \in Puts, PutAbort(p) PROVE UNCHANGED ObjectView
    <2>1. RolledBack({p}) /\ UNCHANGED <<row, committed>> /\ pc[p] = "copying"
      BY <1>3 DEF PutAbort
    <2>2. {p} \in SUBSET (Puts \ committed)
      BY <1>n, <2>1 DEF NumInv, Numbering
    <2>3. \A v \in committed : number'[v] = number[v]
      BY <1>n, <2>1, <2>2, RolledBackNumbers
    <2> QED BY <1>n, <2>1, <2>3, UnseenStep
  <1>4. ASSUME NEW g \in Loops, Crash(g) PROVE UNCHANGED ObjectView
    <2> DEFINE lost == {r \in Requests : LoopOf[r] = g
                                         /\ pc[r] \in Synchronous \cup Awaiting}
    <2>1. RolledBack(lost \cap Puts) /\ UNCHANGED <<row, committed>>
      BY <1>4 DEF Crash
    <2>2. lost \cap Puts \in SUBSET (Puts \ committed)
      BY <1>n DEF NumInv, Numbering, Synchronous, Awaiting
    <2> HIDE DEF lost
    <2>3. \A v \in committed : number'[v] = number[v]
      BY <1>n, <2>1, <2>2, RolledBackNumbers
    <2> QED BY <1>n, <2>1, <2>3, UnseenStep
  <1>5. ASSUME NEW p \in Puts,
               \/ PutRead(p) \/ PutFindsRow(p) \/ PutRefused(p) \/ PutUnplaced(p)
               \/ \E n \in Nodes : WriteOne(p, n) \/ LateStore(p, n)
        PROVE  UNCHANGED ObjectView
    BY Zenon, <1>1, <1>5
    DEF PutRead, PutFindsRow, PutRefused, PutUnplaced, WriteOne, LateStore
  <1>6. ASSUME NEW d \in Deletes,
               DeleteRead(d) \/ DeleteBegin(d) \/ \E c \in Copies : DeleteOne(d, c)
        PROVE  UNCHANGED ObjectView
    BY ZenonT(60), <1>1, <1>6 DEF DeleteRead, DeleteBegin, DeleteOne
  <1>7. CASE UNCHANGED vars
    BY <1>1, <1>7 DEF vars
  <1> QED BY <1>2, <1>3, <1>4, <1>5, <1>6, <1>7 DEF Next, Step

\* A commit of a PUT is a Put of the abstract object: it is on the version it
\* expects, numbered next.
LEMMA CommitIsPut ==
  ASSUME LoopInv, NEW p \in Puts, PutCommit(p)
  PROVE  Object!Put(p)
  <1>1. /\ pc[p] = "copying" /\ row' = RowAfter(p) /\ committed' = committed \cup {p}
        /\ number' = number /\ ExpectedMatches(p)
    BY DEF PutCommit
  <1>2. /\ CheckedFor(p) /\ p \notin committed
        /\ row.state = "none" => row = NoRow
    BY Zenon, <1>1 DEF LoopInv, ReadInv, NumInv, Numbering, Serial, Checked, Held
  <1>3. row'.state = "ACTIVE" /\ row'.current = p
    BY ZenonT(60), <1>1, <1>2 DEF RowAfter, CheckedFor
  <1>4. row.current = NoVersion \/ row.current \in committed
    BY DEF LoopInv, ReadInv, NumInv, Numbering, CurrentIsNewest
  <1>5. Object!CurrentNumber = NumberOf(row)
    <2>1. CASE row.current = NoVersion
      BY <2>1 DEF Object!CurrentNumber, NumberOf
    <2>2. CASE row.current \in committed
      <3>1. row.current \in Puts
        BY <2>2 DEF LoopInv, ReadInv, NumInv, TypeOK
      <3> QED BY <2>2, <3>1 DEF Object!CurrentNumber, NumberOf
    <2> QED BY <1>4, <2>1, <2>2
  <1>6. Expected[p] \in {AnyVersion, NumberOf(row)}
    BY <1>1, <1>2 DEF ExpectedMatches, CheckedFor, NumberOf
  <1>7. CommittedNumbers' = [CommittedNumbers EXCEPT ![p] = NumberOf(row) + 1]
    BY Zenon, <1>1, <1>2 DEF CommittedNumbers, CheckedFor
  <1>8. CommittedNumbers[p] = 0
    BY <1>2 DEF CommittedNumbers
  <1>9. row.state \in {"none", "ACTIVE"}
    BY <1>2 DEF CheckedFor
  <1> QED BY ZenonT(60), <1>3, <1>5, <1>6, <1>7, <1>8, <1>9 DEF Object!Put, CommittedNumbers

\* The two commits of a DELETE begin and end that of the abstract object, or
\* repeat what another DELETE did.
LEMMA DeleteIsDelete ==
  ASSUME LoopInv, NEW d \in Deletes, DeleteCommit(d) \/ DeleteFinish(d)
  PROVE  Object!BeginDelete \/ Object!EndDelete \/ UNCHANGED ObjectView
  <1>t. row \in Rows
    BY DEF LoopInv, ReadInv, NumInv, TypeOK
  <1>1. UNCHANGED <<committed, number>>
    BY DEF DeleteCommit, DeleteFinish
  <1>2. CommittedNumbers' = CommittedNumbers
    BY <1>1 DEF CommittedNumbers
  <1>3. CASE DeleteCommit(d)
    <2>1. CASE lock = d
      <3>1. row' = [row EXCEPT !.state = "DELETING"] /\ row.state = "ACTIVE"
        BY <1>3, <2>1 DEF DeleteCommit, LoopInv, Serial, Held
      <3>2. row'.state = "DELETING" /\ row'.current = row.current
        BY <1>t, <3>1, StateChange DEF ObjectStates
      <3> QED BY <1>2, <3>1, <3>2 DEF Object!BeginDelete, CommittedNumbers
    <2>2. CASE lock # d
      BY <1>2, <1>3, <2>2 DEF DeleteCommit, ObjectView
    <2> QED BY <2>1, <2>2
  <1>4. CASE DeleteFinish(d)
    <2>1. row' = [row EXCEPT !.state = "DELETED"] /\ row.state \in Closed
      BY <1>4 DEF DeleteFinish, LoopInv, Serial, Held
    <2>2. row'.state = "DELETED" /\ row'.current = row.current
      BY <1>t, <2>1, StateChange DEF ObjectStates
    <2>3. CASE row.state = "DELETING"
      BY <1>2, <2>2, <2>3 DEF Object!EndDelete, CommittedNumbers
    <2>4. CASE row.state = "DELETED"
      BY <1>2, <2>2, <2>4 DEF ObjectView
    <2> QED BY <2>1, <2>3, <2>4 DEF Closed
  <1> QED BY <1>3, <1>4

\* When rows are fresh, the requests of all processes act on the object one at
\* a time: every behaviour is one of VersionedObject, a register of conditional
\* PUTs until a DELETE (put_object, delete_object).
THEOREM ImplementsVersionedObjectFresh == Spec /\ []Fresh => ImplementsVersionedObject
  <1>1. Init => Object!Init
    BY DEF Init, Object!Init, NoRow
  <1>2. LoopInv /\ [Next]_vars =>
          [Object!Next]_<<row.state, row.current,
                          [p \in Puts |-> IF p \in committed THEN number[p] ELSE 0]>>
    <2> SUFFICES ASSUME LoopInv, [Next]_vars PROVE Object!Next \/ UNCHANGED ObjectView
      BY DEF ObjectView, CommittedNumbers
    <2> QED BY SeenSteps, CommitIsPut, DeleteIsDelete DEF Object!Next
  <1> QED BY <1>1, <1>2, FreshInductive, PTL
          DEF Spec, ImplementsVersionedObject, Object!Spec

-----------------------------------------------------------------------------
(* One gateway process: a request that is in its database calls, from the   *)
(* SELECT to the next await, is the only one, so what it found stays so.    *)

OneProcess == \A r, q \in Requests : LoopOf[r] = LoopOf[q]

OneAtATime ==
  \A r, q \in Requests : pc[r] \in Synchronous /\ pc[q] \in Synchronous => r = q

\* A step of r that leaves the others where they were, and either leaves the
\* row alone or ends the database calls of the only request in any.
LEMMA TurnTaken ==
  ASSUME OneAtATime, Fresh, NEW r \in Requests,
         \A q \in Requests \ {r} : pc'[q] = pc[q] /\ seen'[q] = seen[q],
         pc'[r] \in Synchronous =>
           pc[r] \in Synchronous \/ \A q \in Requests \ {r} : pc[q] \notin Synchronous,
         pc'[r] = "found" => seen'[r] = row',
         row' = row \/ \A q \in Requests \ {r} : pc[q] # "found"
  PROVE  (OneAtATime /\ Fresh)'
  <1>1. OneAtATime'
    BY DEF OneAtATime
  <1>2. Fresh'
    BY DEF Fresh
  <1> QED BY <1>1, <1>2

LEMMA PutTurn ==
  ASSUME OneProcess, TypeOK, OneAtATime, Fresh, NEW p \in Puts,
         Step(p) \/ \E n \in Nodes : LateStore(p, n), p \notin Deletes
  PROVE  (OneAtATime /\ Fresh)'
  <1> USE DEF Requests
  <1>1. MayRun(p) => \A q \in Requests \ {p} : pc[q] \notin Synchronous
    BY DEF OneProcess, MayRun
  <1>2. CASE PutRead(p) \/ PutFindsRow(p) \/ PutRefused(p) \/ PutUnplaced(p)
    <2>1. /\ row' = row
          /\ \A q \in Requests \ {p} : pc'[q] = pc[q] /\ seen'[q] = seen[q]
      BY <1>2 DEF TypeOK, PutRead, PutFindsRow, PutRefused, PutUnplaced, Goto, Close
    <2>2. /\ pc'[p] \in Synchronous => pc[p] \in Synchronous \/ MayRun(p)
          /\ pc'[p] = "found" => seen'[p] = row
      BY <1>2 DEF TypeOK, PutRead, PutFindsRow, PutRefused, PutUnplaced, Goto, Close,
         Synchronous
    <2> QED BY <1>1, <2>1, <2>2, TurnTaken
  <1>3. ASSUME NEW targets \in SUBSET Nodes, PutPrepare(p, targets)
        PROVE  (OneAtATime /\ Fresh)'
    <2>1. /\ row' = row /\ pc'[p] = "copying"
          /\ \A q \in Requests \ {p} : pc'[q] = pc[q] /\ seen'[q] = seen[q]
      BY <1>3 DEF TypeOK, PutPrepare, Goto
    <2> QED BY <2>1, TurnTaken DEF Synchronous
  <1>4. ASSUME NEW n \in Nodes, WriteOne(p, n) \/ LateStore(p, n)
        PROVE  (OneAtATime /\ Fresh)'
    BY <1>4 DEF WriteOne, LateStore, OneAtATime, Fresh
  <1>5. CASE PutCommit(p)
    <2>1. /\ MayRun(p) /\ pc'[p] = "acked"
          /\ \A q \in Requests \ {p} : pc'[q] = pc[q] /\ seen'[q] = seen[q]
      BY <1>5 DEF TypeOK, PutCommit, Goto, Close
    <2> QED BY <1>1, <2>1, TurnTaken DEF Synchronous
  <1>6. CASE PutAbort(p)
    <2>1. /\ row' = row /\ pc'[p] = "failed"
          /\ \A q \in Requests \ {p} : pc'[q] = pc[q] /\ seen'[q] = seen[q]
      BY <1>6 DEF TypeOK, PutAbort, Goto, Close
    <2> QED BY <2>1, TurnTaken DEF Synchronous
  <1> QED BY <1>2, <1>3, <1>4, <1>5, <1>6 DEF Step

LEMMA DeleteTurn ==
  ASSUME OneProcess, TypeOK, OneAtATime, Fresh, NEW d \in Deletes, Step(d), d \notin Puts
  PROVE  (OneAtATime /\ Fresh)'
  <1> USE DEF Requests
  <1>1. MayRun(d) => \A q \in Requests \ {d} : pc[q] \notin Synchronous
    BY DEF OneProcess, MayRun
  <1>2. CASE DeleteRead(d)
    <2>1. /\ row' = row /\ MayRun(d) /\ (pc'[d] = "found" => seen'[d] = row)
          /\ \A q \in Requests \ {d} : pc'[q] = pc[q] /\ seen'[q] = seen[q]
      BY <1>2 DEF TypeOK, DeleteRead, Goto, Close
    <2> QED BY <1>1, <2>1, TurnTaken
  <1>3. CASE DeleteBegin(d)
    <2>1. /\ row' = row /\ pc'[d] = "removing"
          /\ \A q \in Requests \ {d} : pc'[q] = pc[q] /\ seen'[q] = seen[q]
      BY <1>3 DEF TypeOK, DeleteBegin, Goto
    <2> QED BY <2>1, TurnTaken DEF Synchronous
  <1>4. ASSUME NEW c \in Copies, DeleteOne(d, c) PROVE (OneAtATime /\ Fresh)'
    BY <1>4 DEF DeleteOne, OneAtATime, Fresh
  <1>5. CASE DeleteCommit(d)
    <2>1. /\ MayRun(d) /\ pc'[d] # "found"
          /\ \A q \in Requests \ {d} : pc'[q] = pc[q] /\ seen'[q] = seen[q]
      BY <1>5 DEF TypeOK, DeleteCommit, Goto, Close
    <2>2. \A q \in Requests \ {d} : pc[q] # "found"
      BY <1>1, <2>1 DEF Synchronous
    <2> QED BY <1>1, <2>1, <2>2, TurnTaken
  <1>6. CASE DeleteFinish(d)
    <2>1. /\ pc[d] = "finishing" /\ pc'[d] = "acked"
          /\ \A q \in Requests \ {d} : pc'[q] = pc[q] /\ seen'[q] = seen[q]
      BY <1>6 DEF TypeOK, DeleteFinish, Goto
    <2>2. \A q \in Requests \ {d} : pc[q] # "found"
      BY <2>1 DEF OneAtATime, Synchronous
    <2> QED BY <2>1, <2>2, TurnTaken DEF Synchronous
  <1> QED BY <1>2, <1>3, <1>4, <1>5, <1>6 DEF Step

\* In one gateway process the row a request has found is still the committed
\* one when it is locked: nothing runs from a SELECT to the next await.
THEOREM OneProcessFresh ==
  ASSUME OneProcess
  PROVE  Spec => []Fresh
  <1>1. Init => OneAtATime /\ Fresh
    BY DEF Init, OneAtATime, Fresh, Synchronous
  <1>2. TypeOK /\ OneAtATime /\ Fresh /\ [Next]_vars => (OneAtATime /\ Fresh)'
    <2> SUFFICES ASSUME TypeOK, OneAtATime, Fresh, [Next]_vars PROVE (OneAtATime /\ Fresh)'
      OBVIOUS
    <2>1. ASSUME NEW g \in Loops, Crash(g) PROVE (OneAtATime /\ Fresh)'
      <3>1. /\ row' = row
            /\ \A r \in Requests :
                 pc'[r] = "dead" \/ (pc'[r] = pc[r] /\ seen'[r] = seen[r])
        BY ZenonT(60), <2>1 DEF Crash
      <3> QED BY <3>1 DEF OneAtATime, Fresh, Synchronous
    <2>2. CASE UNCHANGED vars
      BY <2>2 DEF vars, OneAtATime, Fresh
    <2> QED BY <2>1, <2>2, PutTurn, DeleteTurn, GatewayConstants DEF Next, Requests
  <1> QED BY <1>1, <1>2, GatewayTypes, PTL DEF Spec

\* In one gateway process a DELETED object leaves no replicas row, and bytes
\* only where a write was given up (delete_object).
THEOREM DeletedIsEmptyOneProcess ==
  ASSUME OneProcess
  PROVE  Spec => []DeletedIsEmpty
  BY OneProcessFresh, DeletedIsEmptyFresh, PTL

\* In one gateway process a PUT commits on the row its checks were about
\* (create_version, commit_version).
THEOREM CommitsOnCheckedRowOneProcess ==
  ASSUME OneProcess
  PROVE  Spec => CommitsOnCheckedRow
  BY OneProcessFresh, CommitsOnCheckedRowFresh, PTL

\* The requests of one gateway process act on the object one at a time, as
\* VersionedObject says (put_object, delete_object).
THEOREM ImplementsVersionedObjectOneProcess ==
  ASSUME OneProcess
  PROVE  Spec => ImplementsVersionedObject
  BY OneProcessFresh, ImplementsVersionedObjectFresh, PTL
=============================================================================
