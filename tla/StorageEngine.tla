---------------------------- MODULE StorageEngine ----------------------------
(***************************************************************************)
(* The storage engine of one storage node (storage/storage_engine.py).     *)
(*                                                                         *)
(* An object version is a directory holding chunk files and metadata.json. *)
(* A PUT (write_stream) fills a private staging directory and renames it   *)
(* to its final path; a DELETE removes the directory entry by entry with   *)
(* the engine's lock held; a crash may fall between any two steps and the  *)
(* constructor of the next process cleans up.  PUTs run on the event loop, *)
(* DELETEs on pool threads, so steps of both interleave: every action is   *)
(* one critical section of _lock or one step outside it.                   *)
(*                                                                         *)
(* A directory is known by the upload that created it (the uuid4 of the    *)
(* staging name), so renaming it moves no file.  Bytes are counted in      *)
(* pieces, one per item of the request stream: <<u, i>> is the i-th piece  *)
(* of upload u on disk.                                                    *)
(***************************************************************************)
EXTENDS Integers, FiniteSets

CONSTANTS
  Keys,        \* (object_id, version_id) pairs
  Uploads,     \* uuids of staging directories, one per accepted PUT
  NoUpload,    \* no directory at a path
  NoKey,       \* the key of an upload that has not begun
  Capacity,    \* capacity_bytes, in pieces
  MaxPieces    \* bound: pieces in one request body

ASSUME EngineConstants ==
  /\ Capacity \in Nat \ {0}
  /\ MaxPieces \in Nat
  /\ NoUpload \notin Uploads
  /\ NoKey \notin Keys
  /\ IsFiniteSet(Uploads)

VARIABLES
  stage,      \* where the write_stream call of each upload is
  key,        \* the key each upload writes
  count,      \* pieces of each upload written to its chunk files
  res,        \* write_stream's local reserved_bytes
  files,      \* the pieces present on disk, staged or published
  meta,       \* the directories holding metadata.json
  final,      \* the directory at each key's final path
  used,       \* _used_bytes
  reserved,   \* _reserved_bytes
  inflight,   \* _inflight_objects
  removal     \* the delete() holding _lock: its key, directory, released_bytes

vars == <<stage, key, count, res, files, meta, final, used, reserved,
          inflight, removal>>

Stages == {"new", "open", "reserved", "sealed", "published", "done",
           "aborting", "discarded", "leaked", "dead"}

Pieces(u) == {u} \X (1 .. MaxPieces)
AllPieces == Uploads \X (1 .. MaxPieces)
FilesOf(u) == {f \in files : f[1] = u}
InPlace == {final[k] : k \in Keys} \ {NoUpload}
NoRemoval == [key |-> NoKey, dir |-> NoUpload, released |-> 0]
Removals ==
  [key : Keys \cup {NoKey}, dir : Uploads \cup {NoUpload}, released : Nat]
LockFree == removal = NoRemoval

\* Mutant: the counters may go below zero.
Unclamped(n) == n

\* max(n, 0)
AtLeastZero(n) == IF n < 0 THEN 0 ELSE n

\* exists(): metadata.json is a file of the directory at the final path.
Exists(k) == final[k] # NoUpload /\ final[k] \in meta

\* Mutant: _inflight_objects is not consulted.
AbsentOnly(k) == ~Exists(k)

\* _ensure_new_object
IsNew(k) == k \notin inflight /\ ~Exists(k)

\* Mutant: the reservations of other uploads are not counted.
FreeIgnoringOthers == AtLeastZero(Capacity - used)

\* What _reserve_capacity may still hand out.
Free == AtLeastZero(Capacity - used - reserved)

\* Mutant: the size that was written, whatever is left of it.
WrittenSize(u) == count[u]

\* _payload_bytes: the chunk files of the directory, as they are now.
MeasuredSize(u) == Cardinality(FilesOf(u))

\* Mutant: the clean-up does not look at published.
UntilAccounted == {"open", "reserved", "sealed", "published"}

\* Where an exception finds published still false.
BeforePublication == {"open", "reserved", "sealed"}

\* Mutant: stale staging directories survive the restart.
KeptStaging == files

\* The chunk files left after __init__ has removed the staging directories.
Kept == {f \in files : f[1] \in InPlace}

TypeOK ==
  /\ stage \in [Uploads -> Stages]
  /\ key \in [Uploads -> Keys \cup {NoKey}]
  /\ count \in [Uploads -> 0 .. MaxPieces]
  /\ res \in [Uploads -> 0 .. MaxPieces]
  /\ files \in SUBSET AllPieces
  /\ meta \in SUBSET Uploads
  /\ final \in [Keys -> Uploads \cup {NoUpload}]
  /\ used \in Nat
  /\ reserved \in Nat
  /\ inflight \in SUBSET Keys
  /\ removal \in Removals

Init ==
  /\ stage = [u \in Uploads |-> "new"]
  /\ key = [u \in Uploads |-> NoKey]
  /\ count = [u \in Uploads |-> 0]
  /\ res = [u \in Uploads |-> 0]
  /\ files = {}
  /\ meta = {}
  /\ final = [k \in Keys |-> NoUpload]
  /\ used = 0
  /\ reserved = 0
  /\ inflight = {}
  /\ removal = NoRemoval

-----------------------------------------------------------------------------
(* PUT: write_stream *)

\* First critical section: _ensure_new_object, _create_staging_dir, inflight.
Begin(u, k) ==
  /\ stage[u] = "new"
  /\ LockFree
  /\ IsNew(k)
  /\ stage' = [stage EXCEPT ![u] = "open"]
  /\ key' = [key EXCEPT ![u] = k]
  /\ inflight' = inflight \cup {k}
  /\ UNCHANGED <<count, res, files, meta, final, used, reserved, removal>>

\* _reserve_capacity for the next item of the stream, under the lock.
Reserve(u) ==
  /\ stage[u] = "open"
  /\ LockFree
  /\ count[u] < MaxPieces
  /\ 1 <= Free
  /\ stage' = [stage EXCEPT ![u] = "reserved"]
  /\ res' = [res EXCEPT ![u] = @ + 1]
  /\ reserved' = reserved + 1
  /\ UNCHANGED <<key, count, files, meta, final, used, inflight, removal>>

\* The piece goes to a chunk file of the staging directory, without the lock.
WritePiece(u) ==
  /\ stage[u] = "reserved"
  /\ stage' = [stage EXCEPT ![u] = "open"]
  /\ count' = [count EXCEPT ![u] = @ + 1]
  /\ files' = files \cup {<<u, count[u] + 1>>}
  /\ UNCHANGED <<key, res, meta, final, used, reserved, inflight, removal>>

\* End of stream: _write_metadata renames metadata.json into the staging dir.
Seal(u) ==
  /\ stage[u] = "open"
  /\ stage' = [stage EXCEPT ![u] = "sealed"]
  /\ meta' = meta \cup {u}
  /\ UNCHANGED <<key, count, res, files, final, used, reserved, inflight,
                 removal>>

\* _publish_staging, without the lock: nothing at the final path, os.replace.
Publish(u) ==
  /\ stage[u] = "sealed"
  /\ final[key[u]] = NoUpload
  /\ stage' = [stage EXCEPT ![u] = "published"]
  /\ final' = [final EXCEPT ![key[u]] = u]
  /\ UNCHANGED <<key, count, res, files, meta, used, reserved, inflight,
                 removal>>

\* The last critical section: release, account, leave _inflight_objects.
Account(u) ==
  /\ stage[u] = "published"
  /\ LockFree
  /\ stage' = [stage EXCEPT ![u] = "done"]
  /\ reserved' = AtLeastZero(reserved - res[u])
  /\ res' = [res EXCEPT ![u] = 0]
  /\ used' = used + count[u]
  /\ inflight' = inflight \ {key[u]}
  /\ UNCHANGED <<key, count, files, meta, final, removal>>

\* An exception before publication: storage full, broken stream, I/O error,
\* cancellation, or ObjectAlreadyExistsError out of _publish_staging.
Fail(u) ==
  /\ stage[u] \in BeforePublication
  /\ stage' = [stage EXCEPT ![u] = "aborting"]
  /\ UNCHANGED <<key, count, res, files, meta, final, used, reserved,
                 inflight, removal>>

\* finally: the unpublished staging directory is removed ...
Discard(u) ==
  /\ stage[u] = "aborting"
  /\ stage' = [stage EXCEPT ![u] = "discarded"]
  /\ files' = files \ FilesOf(u)
  /\ meta' = meta \ {u}
  /\ UNCHANGED <<key, count, res, final, used, reserved, inflight, removal>>

\* ... unless rmtree raises: the rest of the finally block is then skipped.
DiscardFails(u) ==
  /\ stage[u] = "aborting"
  /\ stage' = [stage EXCEPT ![u] = "leaked"]
  /\ \E kept \in SUBSET FilesOf(u) : files' = (files \ FilesOf(u)) \cup kept
  /\ UNCHANGED <<key, count, res, meta, final, used, reserved, inflight,
                 removal>>

\* Mutant: only an upload that reserved something is released.
ReleaseReserved(u) ==
  /\ stage[u] = "discarded"
  /\ LockFree
  /\ res[u] > 0
  /\ stage' = [stage EXCEPT ![u] = "dead"]
  /\ reserved' = AtLeastZero(reserved - res[u])
  /\ res' = [res EXCEPT ![u] = 0]
  /\ inflight' = inflight \ {key[u]}
  /\ UNCHANGED <<key, count, files, meta, final, used, removal>>

\* finally, second part: return the reservation, leave _inflight_objects.
Release(u) ==
  /\ stage[u] = "discarded"
  /\ LockFree
  /\ stage' = [stage EXCEPT ![u] = "dead"]
  /\ reserved' = AtLeastZero(reserved - res[u])
  /\ res' = [res EXCEPT ![u] = 0]
  /\ inflight' = inflight \ {key[u]}
  /\ UNCHANGED <<key, count, files, meta, final, used, removal>>

-----------------------------------------------------------------------------
(* DELETE, under _lock from its first to its last step *)

\* The object exists; released_bytes is measured before anything is removed.
StartRemove(k) ==
  /\ LockFree
  /\ Exists(k)
  /\ removal' = [key |-> k, dir |-> final[k],
                 released |-> MeasuredSize(final[k])]
  /\ UNCHANGED <<stage, key, count, res, files, meta, final, used, reserved,
                 inflight>>

\* rmtree unlinks the entries one by one, in directory order.
RemoveFile ==
  /\ ~LockFree
  /\ \E f \in FilesOf(removal.dir) : files' = files \ {f}
  /\ UNCHANGED <<stage, key, count, res, meta, final, used, reserved,
                 inflight, removal>>

RemoveMeta ==
  /\ ~LockFree
  /\ removal.dir \in meta
  /\ meta' = meta \ {removal.dir}
  /\ UNCHANGED <<stage, key, count, res, files, final, used, reserved,
                 inflight, removal>>

\* The emptied directory goes, _used_bytes is lowered, the lock is released.
FinishRemove ==
  /\ ~LockFree
  /\ FilesOf(removal.dir) = {}
  /\ removal.dir \notin meta
  /\ final' = [final EXCEPT ![removal.key] = NoUpload]
  /\ used' = AtLeastZero(used - removal.released)
  /\ removal' = NoRemoval
  /\ UNCHANGED <<stage, key, count, res, files, meta, reserved, inflight>>

\* rmtree raises: the lock is released with the directory half removed.
RemoveFails ==
  /\ ~LockFree
  /\ removal' = NoRemoval
  /\ UNCHANGED <<stage, key, count, res, files, meta, final, used, reserved,
                 inflight>>

-----------------------------------------------------------------------------
\* The process dies and the next one runs __init__: staging directories are
\* removed, _used_bytes is the sum over the chunk files that are left.
CrashRestart ==
  /\ stage' = [u \in Uploads |->
                 IF stage[u] \in {"new", "done"} THEN stage[u] ELSE "dead"]
  /\ res' = [u \in Uploads |-> 0]
  /\ files' = Kept
  /\ meta' = meta \cap InPlace
  /\ used' = Cardinality(Kept)
  /\ reserved' = 0
  /\ inflight' = {}
  /\ removal' = NoRemoval
  /\ UNCHANGED <<key, count, final>>

UploadStep(u) ==
  \/ \E k \in Keys : Begin(u, k)
  \/ Reserve(u)
  \/ WritePiece(u)
  \/ Seal(u)
  \/ Publish(u)
  \/ Account(u)
  \/ Fail(u)
  \/ Discard(u)
  \/ Release(u)

RemoveStep == RemoveFile \/ RemoveMeta \/ FinishRemove

Fault ==
  \/ \E u \in Uploads : DiscardFails(u)
  \/ RemoveFails
  \/ CrashRestart

Next ==
  \/ \E u \in Uploads : UploadStep(u)
  \/ \E k \in Keys : StartRemove(k)
  \/ RemoveStep
  \/ Fault

Spec == Init /\ [][Next]_vars

(***************************************************************************)
(* Every client of a node is a StorageNodeClient with read and write       *)
(* timeouts, so a request body ends or breaks off; the event loop and the  *)
(* pool threads run every call to its end.  Strong fairness says that a    *)
(* thread that waits for _lock is granted it when it keeps being released. *)
(***************************************************************************)
UploadProgress(u) == UploadStep(u) /\ stage[u] # "new"

FairSpec ==
  /\ Spec
  /\ \A u \in Uploads : SF_vars(UploadProgress(u))
  /\ WF_vars(RemoveStep)

-----------------------------------------------------------------------------
(* Properties *)

\* The pieces on disk, staged ones included, never exceed the configured
\* capacity: reservations and the cached usage cover every byte across
\* interleaved uploads, deletes inside an upload's publish/account window,
\* failed removals and restarts (_reserve_capacity, delete, __init__).
CapacityRespected == Cardinality(files) <= Capacity

\* Every piece on disk has an owner the code will account for or clean up: a
\* directory in place, or a PUT that still holds the reservation covering it.
\* A directory in place is at the key it was written for and its PUT is past
\* publication; a delete works on the directory at its key, and what it will
\* subtract from _used_bytes is at least what is left to remove.
Unpublished == {"open", "reserved", "sealed", "aborting", "leaked"}

NoStrayFiles ==
  /\ \A u \in Uploads :
       /\ stage[u] = "new" => count[u] = 0
       /\ stage[u] # "new" => key[u] \in Keys
       /\ stage[u] \in {"open", "sealed", "published"} => res[u] = count[u]
       /\ stage[u] = "reserved" => res[u] = count[u] + 1
       /\ stage[u] \in {"new", "done", "dead"} => res[u] = 0
  /\ \A k \in Keys : final[k] # NoUpload =>
       /\ key[final[k]] = k
       /\ stage[final[k]] \in {"published", "done", "dead"}
  /\ \A f \in files : f[1] \notin InPlace =>
       stage[f[1]] \in Unpublished /\ f[2] <= res[f[1]]
  /\ ~LockFree =>
       /\ removal.key \in Keys
       /\ removal.dir # NoUpload
       /\ final[removal.key] = removal.dir
  /\ Cardinality(FilesOf(removal.dir)) <= removal.released

\* What makes CapacityRespected inductive.  A claim is a piece the counters
\* must cover: of a directory in place its files, of a staged one everything
\* it reserved.  The claims outside the directory being removed, and the
\* bytes that removal will release, are within used + reserved.
Reservations == {p \in AllPieces : p[2] <= res[p[1]]}

Claims ==
  {p \in AllPieces :
     \/ p[1] \in InPlace /\ p \in files
     \/ /\ p[1] \notin InPlace
        /\ stage[p[1]] # "published"
        /\ p[2] <= res[p[1]]}

OtherClaims == {p \in Claims : p[1] # removal.dir}

\* The counters cover the disk: _reserved_bytes is the sum of the calls' own
\* reserved_bytes, so max(..., 0) in _release_capacity never bites, and
\* _used_bytes + _reserved_bytes lies between what is claimed and capacity.
CountersCoverClaims ==
  /\ reserved = Cardinality(Reservations)
  /\ Cardinality(OtherClaims) + removal.released <= used + reserved
  /\ used + reserved <= Capacity

\* Two accepted PUTs of one key are never in progress together, whatever
\* mix of failures, deletes and restarts came before (_inflight_objects).
Active(u) == stage[u] \notin {"new", "done", "dead"}

OneUploadPerKey ==
  \A u, v \in Uploads : Active(u) /\ Active(v) /\ key[u] = key[v] => u = v

\* A version directory in place holds all its pieces and its metadata.
Whole(u) ==
  /\ u \in meta
  /\ FilesOf(u) = {p \in Pieces(u) : p[2] <= count[u]}

\* A directory's uuid is none of the two marks of the view.
ASSUME ViewConstants == {"absent", "damaged"} \cap Uploads = {}

\* The engine implements ObjectStore: clients see whole, immutable versions.
StoreView ==
  [k \in Keys |-> IF ~Exists(k) THEN "absent"
                  ELSE IF Whole(final[k]) THEN final[k] ELSE "damaged"]

Store == INSTANCE ObjectStore WITH
  Versions <- Uploads, Absent <- "absent", Damaged <- "damaged",
  store <- StoreView, removing <- removal.key

\* Every step of the engine, a crash included, is a step of the abstract
\* store or invisible: publication by os.replace is atomic, nothing is
\* overwritten, only delete() damages a version.
ImplementsObjectStore == Store!Spec

\* An accepted PUT ends: it is acknowledged, fails with its reservation
\* returned, or (rmtree failing in the finally block) leaks it.
UploadsSettle ==
  \A u \in Uploads :
    (stage[u] = "open") ~> (stage[u] \in {"done", "dead", "leaked"})

\* A key whose DELETE answers 404 can be written again: repair relies on it
\* to retry a copy (repair/manager.py:386, "this also makes retries safe").
AbsentIsWritable ==
  \A k \in Keys : LockFree /\ ~Exists(k) => final[k] = NoUpload
=============================================================================
