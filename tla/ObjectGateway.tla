---------------------------- MODULE ObjectGateway ----------------------------
(***************************************************************************)
(* PUT and DELETE of one object name, through gateway processes that share *)
(* a PostgreSQL database (gateway/service.py, metadata/manager.py,         *)
(* replication/manager.py, placement/manager.py).                          *)
(*                                                                         *)
(* A request runs on the event loop of its gateway process.  Its database  *)
(* calls are synchronous: between two awaits nothing else runs on that     *)
(* loop, and a statement that waits for a row lock stops the whole loop.   *)
(* Each request is one READ COMMITTED transaction up to its commit, so its *)
(* writes show only there.  The ORM keeps the objects row as first read:   *)
(* SELECT ... FOR UPDATE waits for the row but does not refresh it, so the *)
(* checks made under the lock look at seen, not at row.                    *)
(*                                                                         *)
(* A version is known by the PUT that creates it.  Only the steps that     *)
(* race are separate actions: read, lock, one write per node, commit.      *)
(***************************************************************************)
EXTENDS Integers, FiniteSets, FiniteSetsExt

CONSTANTS
  Puts,        \* PUT requests
  Deletes,     \* DELETE requests
  Loops,       \* gateway processes, one event loop each
  LoopOf,      \* the process a request arrives at
  Expected,    \* X-Expected-Version of each PUT, or AnyVersion
  AnyVersion,
  Nodes,       \* storage nodes
  Factor,      \* replication_factor
  Quorum,      \* write_quorum
  NoVersion,   \* current_version_id of an object without version
  NoRequest    \* the objects row is not locked

Requests == Puts \cup Deletes

ASSUME GatewayConstants ==
  /\ LoopOf \in [Requests -> Loops]
  /\ Expected \in [Puts -> Nat \cup {AnyVersion}]
  /\ AnyVersion \notin Nat
  /\ Puts \cap Deletes = {}
  /\ NoVersion \notin Puts
  /\ NoRequest \notin Requests
  /\ IsFiniteSet(Puts) /\ IsFiniteSet(Nodes)
  /\ Factor \in Nat /\ Quorum \in 1 .. Factor

VARIABLES
  row,        \* the committed objects row
  lock,       \* the request whose transaction holds that row
  number,     \* version_number each PUT allocated, 0 before
  committed,  \* PUTs whose versions row is COMMITTED
  replica,    \* the committed replicas rows, per version and node
  bytes,      \* <<v, n>>: node n stores version v
  pc,         \* where each request is
  seen,       \* the objects row as each request's session has it
  copy,       \* outcome of the concurrent writes of each PUT
  sweep       \* outcome of the concurrent deletes of each DELETE

vars == <<row, lock, number, committed, replica, bytes, pc, seen, copy, sweep>>

Copies == Puts \X Nodes
ObjectStates == {"none", "ACTIVE", "DELETING", "DELETED"}
Rows == [state : ObjectStates, current : Puts \cup {NoVersion}]
NoRow == [state |-> "none", current |-> NoVersion]
NewRow == [state |-> "ACTIVE", current |-> NoVersion]
NoSweep == [todo |-> {}, gone |-> {}, kept |-> {}]
Synchronous == {"found", "creating", "finishing"}
Awaiting == {"copying", "removing"}
Answered == {"acked", "refused", "failed", "dead"}

TypeOK ==
  /\ row \in Rows
  /\ lock \in Requests \cup {NoRequest}
  /\ number \in [Puts -> Nat]
  /\ committed \in SUBSET Puts
  /\ replica \in [Copies -> {"none", "HEALTHY", "FAILED"}]
  /\ bytes \in SUBSET Copies
  /\ pc \in [Requests -> {"idle"} \cup Synchronous \cup Awaiting \cup Answered]
  /\ seen \in [Requests -> Rows]
  /\ copy \in [Copies -> {"none", "COPYING", "ok", "failed", "late"}]
  /\ sweep \in [Deletes -> [todo : SUBSET Copies, gone : SUBSET Copies,
                            kept : SUBSET Copies]]

Init ==
  /\ row = NoRow
  /\ lock = NoRequest
  /\ number = [p \in Puts |-> 0]
  /\ committed = {}
  /\ replica = [c \in Copies |-> "none"]
  /\ bytes = {}
  /\ pc = [r \in Requests |-> "idle"]
  /\ seen = [r \in Requests |-> NoRow]
  /\ copy = [c \in Copies |-> "none"]
  /\ sweep = [d \in Deletes |-> NoSweep]

-----------------------------------------------------------------------------
\* The loop of r is not inside, or blocked in, another request's database calls.
MayRun(r) ==
  \A q \in Requests \ {r} : LoopOf[q] = LoopOf[r] => pc[q] \notin Synchronous

Goto(r, to) == pc' = [pc EXCEPT ![r] = to]

\* Mutant: a plain SELECT, which never waits.
PlainSelect == TRUE

\* SELECT ... FOR UPDATE of the objects row does not have to wait.
RowFree == lock = NoRequest

\* The end of the transaction that holds the row.
Unlock == lock' = NoRequest

\* The session of a finished request is closed.
Close(r) == seen' = [seen EXCEPT ![r] = NoRow]

\* Mutant: the clean-up deletes the object with all its versions.
CascadedBack(ps) ==
  /\ number' = [p \in Puts |-> 0]
  /\ UNCHANGED copy

\* Rolled back: no version, no replicas rows; writes given up may still land.
RolledBack(ps) ==
  /\ number' = [p \in Puts |-> IF p \in ps THEN 0 ELSE number[p]]
  /\ copy' = [c \in Copies |->
                IF c[1] \in ps /\ copy[c] # "none"
                THEN IF copy[c] \in {"COPYING", "late"} THEN "late" ELSE "failed"
                ELSE copy[c]]

\* _current_version_number of a row, 0 for an object without version.
NumberOf(o) == IF o.current = NoVersion THEN 0 ELSE number[o.current]

\* Mutant: X-Expected-Version is ignored.
AnyExpected(p) == TRUE

\* _expected_matches, on the row as the session has it.
ExpectedMatches(p) == Expected[p] = AnyVersion \/ Expected[p] = NumberOf(seen[p])

\* Mutant: the highest number, 1 without versions.
HighestNumber == Max({1} \cup {number[v] : v \in committed})

\* func.max(version_number) + 1 over the committed rows.
NextNumber == Max({0} \cup {number[v] : v \in committed}) + 1

-----------------------------------------------------------------------------
(* PUT *)

\* put_object, after staging the body: look the object up by name.
PutRead(p) ==
  /\ pc[p] = "idle"
  /\ MayRun(p)
  /\ seen' = [seen EXCEPT ![p] = row]
  /\ Goto(p, IF row = NoRow THEN "creating" ELSE "found")
  /\ UNCHANGED <<row, lock, number, committed, replica, bytes, copy, sweep>>

\* create_object finds a row committed since (ObjectAlreadyExists): read it.
\* An insert that waited for that row's commit fails on the unique name instead.
PutFindsRow(p) ==
  /\ pc[p] = "creating"
  /\ RowFree
  /\ row # NoRow
  /\ \/ seen' = [seen EXCEPT ![p] = row] /\ Goto(p, "found")
     \/ Close(p) /\ Goto(p, "failed")
  /\ UNCHANGED <<row, lock, number, committed, replica, bytes, copy, sweep>>

\* create_replicas and set_replica_states(COPYING), one replica per target.
CopiesStarted(p, targets) ==
  copy' = [c \in Copies |->
             IF c[1] = p /\ c[2] \in targets THEN "COPYING" ELSE copy[c]]

\* create_version and the synchronous head of replicate_version: the row is
\* locked (or inserted by this transaction), the version is numbered, Factor
\* eligible nodes get COPYING replicas.
PutPrepare(p, targets) ==
  /\ \/ pc[p] = "found" /\ seen' = seen
     \/ pc[p] = "creating" /\ row = NoRow
        /\ seen' = [seen EXCEPT ![p] = NewRow]
  /\ RowFree
  /\ seen'[p].state = "ACTIVE"
  /\ ExpectedMatches(p)
  /\ Cardinality(targets) = Factor
  /\ lock' = p
  /\ number' = [number EXCEPT ![p] = NextNumber]
  /\ CopiesStarted(p, targets)
  /\ Goto(p, "copying")
  /\ UNCHANGED <<row, committed, replica, bytes, sweep>>

\* InvalidState or VersionConflict out of create_version: rolled back.
PutRefused(p) ==
  /\ pc[p] \in {"found", "creating"}
  /\ RowFree
  /\ pc[p] = "creating" => row = NoRow
  /\ \/ pc[p] = "found" /\ seen[p].state # "ACTIVE"
     \/ ~ExpectedMatches(p)
  /\ Goto(p, "refused")
  /\ Close(p)
  /\ UNCHANGED <<row, lock, number, committed, replica, bytes, copy, sweep>>

\* INSUFFICIENT_REPLICAS out of select_nodes: fewer than Factor are eligible.
PutUnplaced(p) ==
  /\ pc[p] \in {"found", "creating"}
  /\ RowFree
  /\ pc[p] = "creating" => row = NoRow
  /\ pc[p] = "found" => seen[p].state = "ACTIVE"
  /\ ExpectedMatches(p)
  /\ Goto(p, "failed")
  /\ Close(p)
  /\ UNCHANGED <<row, lock, number, committed, replica, bytes, copy, sweep>>

\* _write_one: PUT then VERIFY at one node.  An error of either may come after
\* the node has stored the bytes, and a timeout while it is still storing.
WriteOne(p, n) ==
  /\ pc[p] = "copying"
  /\ copy[<<p, n>>] = "COPYING"
  /\ MayRun(p)
  /\ \/ /\ copy' = [copy EXCEPT ![<<p, n>>] = "ok"]
        /\ bytes' = bytes \cup {<<p, n>>}
     \/ /\ copy' = [copy EXCEPT ![<<p, n>>] = "failed"]
        /\ bytes' \in {bytes, bytes \cup {<<p, n>>}}
     \/ /\ copy' = [copy EXCEPT ![<<p, n>>] = "late"]
        /\ bytes' = bytes
  /\ UNCHANGED <<row, lock, number, committed, replica, pc, seen, sweep>>

\* The node completes a write its client has given up on, or died on.
LateStore(p, n) ==
  /\ copy[<<p, n>>] = "late"
  /\ copy' = [copy EXCEPT ![<<p, n>>] = "failed"]
  /\ bytes' = bytes \cup {<<p, n>>}
  /\ UNCHANGED <<row, lock, number, committed, replica, pc, seen, sweep>>

Verified(p) == {n \in Nodes : copy[<<p, n>>] = "ok"}
Settled(p) == \A n \in Nodes : copy[<<p, n>>] # "COPYING"

\* Mutant: the write quorum is not checked.
AnyQuorum(p) == TRUE

QuorumMet(p) == Cardinality(Verified(p)) >= Quorum

\* Mutant: a replica whose write failed stays COPYING.
OutcomeCopying(c) == IF copy[c] = "ok" THEN "HEALTHY" ELSE "COPYING"

\* The state replicate_version gives a replica after its write.
Outcome(c) == IF copy[c] = "ok" THEN "HEALTHY" ELSE "FAILED"

\* Mutant: current_version_id is set once.
FirstStaysCurrent(p) ==
  IF row = NoRow THEN [NewRow EXCEPT !.current = p] ELSE row

\* The objects row as commit_version leaves it.  The session's state is ACTIVE,
\* so "obj.state = ACTIVE" writes nothing over the state in the database.
RowAfter(p) == [state |-> IF row = NoRow THEN "ACTIVE" ELSE row.state, current |-> p]

\* The rest of replicate_version with its quorum met, commit_version (on the
\* row the session has), and session.commit: rows and version appear at once.
PutCommit(p) ==
  /\ pc[p] = "copying"
  /\ MayRun(p)
  /\ Settled(p)
  /\ QuorumMet(p)
  /\ ExpectedMatches(p)
  /\ number[p] > NumberOf(seen[p])
  /\ row' = RowAfter(p)
  /\ committed' = committed \cup {p}
  /\ replica' = [c \in Copies |->
                   IF c[1] # p \/ copy[c] = "none" THEN replica[c]
                   ELSE Outcome(c)]
  /\ Unlock
  /\ Goto(p, "acked")
  /\ Close(p)
  /\ UNCHANGED <<number, bytes, copy, sweep>>

\* Quorum missed, or an unexpected exception of one write is raised again.
\* The handler's clean-up leaves nothing: fail_version is rolled back with
\* the rest, a created object is deleted again in the same transaction.
PutAbort(p) ==
  /\ pc[p] = "copying"
  /\ MayRun(p)
  /\ Settled(p)
  /\ \E n \in Nodes : copy[<<p, n>>] \in {"failed", "late"}
  /\ RolledBack({p})
  /\ Unlock
  /\ Goto(p, "failed")
  /\ Close(p)
  /\ UNCHANGED <<row, committed, replica, bytes, sweep>>

-----------------------------------------------------------------------------
(* DELETE *)

\* get_object: 404 without a row; a DELETED object is answered at once.
DeleteRead(d) ==
  /\ pc[d] = "idle"
  /\ MayRun(d)
  /\ \/ row.state = "none" /\ Goto(d, "refused") /\ Close(d)
     \/ row.state = "DELETED" /\ Goto(d, "acked") /\ Close(d)
     \/ /\ row.state \in {"ACTIVE", "DELETING"}
        /\ Goto(d, "found")
        /\ seen' = [seen EXCEPT ![d] = row]
  /\ UNCHANGED <<row, lock, number, committed, replica, bytes, copy, sweep>>

\* An ACTIVE object is locked and made DELETING in this transaction; one seen
\* DELETING is not locked.  All replicas rows of the object are then listed.
DeleteBegin(d) ==
  /\ pc[d] = "found"
  /\ \/ seen[d].state = "ACTIVE" /\ RowFree /\ lock' = d
        /\ seen' = [seen EXCEPT ![d].state = "DELETING"]
     \/ seen[d].state = "DELETING" /\ UNCHANGED <<lock, seen>>
  /\ sweep' = [sweep EXCEPT ![d].todo = {c \in Copies : replica[c] # "none"}]
  /\ Goto(d, "removing")
  /\ UNCHANGED <<row, number, committed, replica, bytes, copy>>

\* delete_one: an error may come after the node has removed the bytes.
DeleteOne(d, c) ==
  /\ pc[d] = "removing"
  /\ c \in sweep[d].todo
  /\ MayRun(d)
  /\ \/ /\ bytes' = bytes \ {c}
        /\ sweep' = [sweep EXCEPT ![d].todo = @ \ {c}, ![d].gone = @ \cup {c}]
     \/ /\ bytes' \in {bytes, bytes \ {c}}
        /\ sweep' = [sweep EXCEPT ![d].todo = @ \ {c}, ![d].kept = @ \cup {c}]
  /\ UNCHANGED <<row, lock, number, committed, replica, pc, seen, copy>>

\* Mutant: replicas that could not be deleted are forgotten.
FailuresIgnored(d) == TRUE

\* No failures.
AllGone(d) == sweep[d].kept = {}

\* First commit: the rows of removed replicas go, DELETING is stored, the lock
\* is released.  With failures the answer is 503.
DeleteCommit(d) ==
  /\ pc[d] = "removing"
  /\ MayRun(d)
  /\ sweep[d].todo = {}
  /\ replica' = [c \in Copies |->
                   IF c \in sweep[d].gone THEN "none" ELSE replica[c]]
  /\ row' = IF lock = d THEN [row EXCEPT !.state = "DELETING"] ELSE row
  /\ lock' = IF lock = d THEN NoRequest ELSE lock
  /\ Goto(d, IF AllGone(d) THEN "finishing" ELSE "failed")
  /\ sweep' = [sweep EXCEPT ![d] = NoSweep]
  /\ Close(d)
  /\ UNCHANGED <<number, committed, bytes, copy>>

\* Second commit: transition_object_state locks the row anew.
DeleteFinish(d) ==
  /\ pc[d] = "finishing"
  /\ RowFree
  /\ row' = [row EXCEPT !.state = "DELETED"]
  /\ Goto(d, "acked")
  /\ UNCHANGED <<lock, number, committed, replica, bytes, seen, copy, sweep>>

-----------------------------------------------------------------------------
\* A gateway process dies: its transactions roll back, stored bytes stay.
Crash(g) ==
  LET lost == {r \in Requests : LoopOf[r] = g
                                /\ pc[r] \in Synchronous \cup Awaiting}
  IN /\ lost # {}
     /\ pc' = [r \in Requests |-> IF r \in lost THEN "dead" ELSE pc[r]]
     /\ lock' = IF lock \in lost THEN NoRequest ELSE lock
     /\ RolledBack(lost \cap Puts)
     /\ seen' = [r \in Requests |-> IF r \in lost THEN NoRow ELSE seen[r]]
     /\ sweep' = [d \in Deletes |-> IF d \in lost THEN NoSweep ELSE sweep[d]]
     /\ UNCHANGED <<row, committed, replica, bytes>>

Step(r) ==
  \/ /\ r \in Puts
     /\ \/ PutRead(r) \/ PutFindsRow(r) \/ PutRefused(r) \/ PutUnplaced(r)
        \/ \E targets \in SUBSET Nodes : PutPrepare(r, targets)
        \/ \E n \in Nodes : WriteOne(r, n)
        \/ PutCommit(r) \/ PutAbort(r)
  \/ /\ r \in Deletes
     /\ \/ DeleteRead(r) \/ DeleteBegin(r)
        \/ \E c \in Copies : DeleteOne(r, c)
        \/ DeleteCommit(r) \/ DeleteFinish(r)

Next ==
  \/ \E r \in Requests : Step(r)
  \/ \E p \in Puts, n \in Nodes : LateStore(p, n)
  \/ \E g \in Loops : Crash(g)

Spec == Init /\ [][Next]_vars

(***************************************************************************)
(* A request that is not blocked goes on: node calls time out, the event   *)
(* loop resumes every task.  PostgreSQL queues the waiters of a row lock,  *)
(* so one that waits gets it if it keeps being released (SF).              *)
(***************************************************************************)
Progress(r) == Step(r) /\ pc[r] # "idle"

FairSpec == Spec /\ \A r \in Requests : SF_vars(Progress(r))

-----------------------------------------------------------------------------
(* Properties *)

\* Version numbers are allocated under the row lock: no two versions, those
\* of transactions still open included, get the same number, whatever stale
\* rows the sessions hold (create_version, uq_versions_object_version_number).
NumbersDistinct ==
  \A p, q \in Puts : number[p] = number[q] /\ number[p] # 0 => p = q

\* The current version is the committed version with the highest number, so
\* a commit never moves the object back (commit_version's last check).
CurrentIsNewest ==
  /\ row.current \in committed \cup {NoVersion}
  /\ \A v \in committed :
       row.current # NoVersion /\ number[v] <= number[row.current]

\* An ACTIVE object can be read back from at least Quorum verified copies
\* (read_targets), unless a DELETE is removing them or died while doing so:
\* its DELETING is not committed before the nodes are told to delete.
Readable(v) ==
  \E ns \in SUBSET Nodes :
    /\ Cardinality(ns) >= Quorum
    /\ \A n \in ns : replica[<<v, n>>] = "HEALTHY" /\ <<v, n>> \in bytes

ActiveReadable ==
  row.state = "ACTIVE" =>
    \/ Readable(row.current)
    \/ \E d \in Deletes : pc[d] \in {"removing", "dead"}

\* What a DELETED object leaves behind: no replicas row, and bytes only at
\* nodes whose write had been given up (delete_object; its 404 is success).
DeletedIsEmpty ==
  row.state = "DELETED" =>
    \A c \in Copies :
      c[1] \in committed =>
        replica[c] = "none" /\ (c \in bytes => copy[c] # "ok")

\* A PUT commits only on the row its checks were about: an ACTIVE object
\* (create_version refuses any other, metadata/manager.py:138), and the version
\* its client expects, for "the operation returns a version conflict instead of
\* silently overwriting another client's update" (README.md:541).
CommitsOnCheckedRow ==
  [][\A p \in Puts :
       p \in committed' \ committed =>
         /\ row.state \in {"none", "ACTIVE"}
         /\ Expected[p] \in {AnyVersion, NumberOf(row)}]_vars

\* The history of an object is only added to: a committed version stays, under
\* its number, the object's current number never goes down, and an object that
\* left ACTIVE never returns to it, whatever rolls back, fails or crashes
\* (put_object's clean-up, commit_version, delete_object's two commits).
HistoryKept ==
  [][/\ \A v \in committed : v \in committed' /\ number'[v] = number[v]
     /\ NumberOf(row) <= NumberOf(row)'
     /\ row.state \in {"DELETING", "DELETED"} =>
          row'.state \in {"DELETING", "DELETED"}]_vars

\* Every request is answered (or its process dies).
RequestsAnswered ==
  \A r \in Requests : (pc[r] # "idle") ~> (pc[r] \in Answered)

Object == INSTANCE VersionedObject WITH
  state <- row.state, current <- row.current,
  numbers <- [p \in Puts |-> IF p \in committed THEN number[p] ELSE 0]

\* The requests of one gateway process act on the object one at a time.
ImplementsVersionedObject == Object!Spec
=============================================================================
