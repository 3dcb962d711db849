------------------------- MODULE StorageEngineProofs -------------------------
(***************************************************************************)
(* Proofs about StorageEngine, for every set of keys, every finite set of  *)
(* uploads and every capacity.                                             *)
(***************************************************************************)
EXTENDS StorageEngine, FiniteSetTheorems, TLAPS

\* Default provers, in the order they are tried, with time limits in seconds.
USE SMTT(60), ZenonT(60), SMTT(90), SMTT(120)

\* The structure of the disk and of the calls, with its types.
Layout == TypeOK /\ NoStrayFiles

\* A directory is in place when it is at the final path of some key.
LEMMA InPlaceMember ==
  ASSUME NEW u
  PROVE  u \in InPlace <=> u # NoUpload /\ \E k \in Keys : final[k] = u
  BY DEF InPlace

\* All sets of pieces are finite.
LEMMA PiecesFinite ==
  ASSUME NEW S \in SUBSET AllPieces
  PROVE  IsFiniteSet(S) /\ Cardinality(S) \in Nat
  <1>1. IsFiniteSet(1 .. MaxPieces)
    BY EngineConstants, FS_Interval
  <1>2. IsFiniteSet(AllPieces)
    BY <1>1, EngineConstants, FS_Product DEF AllPieces
  <1> QED
    BY <1>2, FS_Subset, FS_CardinalityType

\* Init establishes the layout.
LEMMA InitLayout == Init => Layout
  <1> SUFFICES ASSUME Init PROVE Layout
    OBVIOUS
  <1>1. TypeOK
    BY EngineConstants DEF Init, TypeOK, Stages, Removals, NoRemoval
  <1>2. Cardinality(FilesOf(removal.dir)) <= removal.released
    <2>1. FilesOf(removal.dir) = {}
      BY DEF Init, FilesOf
    <2> QED
      BY <2>1, FS_EmptySet DEF Init, NoRemoval
  <1> QED
    BY <1>1, <1>2, EngineConstants
    DEF Layout, NoStrayFiles, Init, LockFree

\* The steps of a PUT preserve the layout.
LEMMA UploadLayout ==
  ASSUME Layout, NEW u \in Uploads, UploadStep(u) \/ DiscardFails(u)
  PROVE  Layout'
  <1> USE EngineConstants
  <1>1. ASSUME NEW k \in Keys, Begin(u, k)
        PROVE  Layout'
    BY <1>1 DEF Layout, Begin, IsNew, TypeOK, NoStrayFiles, Stages, InPlace,
                FilesOf, LockFree, Unpublished
  <1>2. CASE Reserve(u)
    BY <1>2 DEF Layout, Reserve, Free, TypeOK, NoStrayFiles, Stages, InPlace,
                FilesOf, LockFree, Unpublished, AllPieces
  <1>3. CASE WritePiece(u)
    <2>1. u # removal.dir /\ u \notin InPlace
      BY <1>3 DEF Layout, WritePiece, TypeOK, NoStrayFiles, InPlace, LockFree,
                  NoRemoval
    <2>2. FilesOf(removal.dir)' = FilesOf(removal.dir)
      BY <1>3, <2>1 DEF WritePiece, FilesOf
    <2>3. TypeOK'
      BY <1>3 DEF Layout, WritePiece, TypeOK, NoStrayFiles, Stages, FilesOf, AllPieces
    <2>4. \A f \in files' : f[1] \notin InPlace =>
            stage'[f[1]] \in Unpublished /\ f[2] <= res[f[1]]
      BY <1>3, <2>1 DEF Layout, WritePiece, TypeOK, NoStrayFiles, Unpublished,
         FilesOf, AllPieces
    <2> QED
      BY <1>3, <2>1, <2>2, <2>3, <2>4 DEF Layout, WritePiece, TypeOK,
         NoStrayFiles, InPlace, LockFree
  <1>4. CASE Seal(u)
    BY <1>4 DEF Layout, Seal, TypeOK, NoStrayFiles, Stages, InPlace,
                FilesOf, LockFree, Unpublished
  <1>5. CASE Publish(u)
    BY <1>5 DEF Layout, Publish, TypeOK, NoStrayFiles, Stages, InPlace,
                FilesOf, LockFree, Unpublished
  <1>6. CASE Account(u)
    BY <1>6 DEF Layout, Account, TypeOK, NoStrayFiles, Stages, InPlace,
                FilesOf, LockFree, Unpublished, AtLeastZero
  <1>7. CASE Fail(u)
    BY <1>7 DEF Layout, Fail, BeforePublication, TypeOK, NoStrayFiles, Stages, InPlace,
                FilesOf, LockFree, Unpublished
  <1>8. CASE Discard(u)
    <2>1. u # removal.dir /\ u \notin InPlace
      BY <1>8 DEF Layout, Discard, TypeOK, NoStrayFiles, InPlace, LockFree,
                  NoRemoval
    <2>2. FilesOf(removal.dir)' = FilesOf(removal.dir)
      BY <1>8, <2>1 DEF Discard, FilesOf
    <2>3. TypeOK'
      BY <1>8 DEF Layout, Discard, TypeOK, NoStrayFiles, Stages, FilesOf
    <2>4. \A f \in files' : f[1] \notin InPlace =>
            stage'[f[1]] \in Unpublished /\ f[2] <= res[f[1]]
      BY <1>8, <2>1 DEF Layout, Discard, TypeOK, NoStrayFiles, Unpublished,
         FilesOf, AllPieces
    <2> QED
      BY <1>8, <2>1, <2>2, <2>3, <2>4 DEF Layout, Discard, TypeOK,
         NoStrayFiles, InPlace, LockFree
  <1>9. CASE DiscardFails(u)
    <2>1. u # removal.dir /\ u \notin InPlace
      BY <1>9 DEF Layout, DiscardFails, TypeOK, NoStrayFiles, InPlace, LockFree,
                  NoRemoval
    <2>2. FilesOf(removal.dir)' = FilesOf(removal.dir)
      BY <1>9, <2>1 DEF DiscardFails, FilesOf
    <2>3. TypeOK'
      BY <1>9 DEF Layout, DiscardFails, TypeOK, NoStrayFiles, Stages, FilesOf
    <2>4. \A f \in files' : f[1] \notin InPlace =>
            stage'[f[1]] \in Unpublished /\ f[2] <= res[f[1]]
      BY <1>9, <2>1 DEF Layout, DiscardFails, TypeOK, NoStrayFiles, Unpublished,
         FilesOf, AllPieces
    <2> QED
      BY <1>9, <2>1, <2>2, <2>3, <2>4 DEF Layout, DiscardFails, TypeOK,
         NoStrayFiles, InPlace, LockFree
  <1>10. CASE Release(u)
    BY <1>10 DEF Layout, Release, TypeOK, NoStrayFiles, Stages, InPlace,
                FilesOf, LockFree, Unpublished, AtLeastZero
  <1> QED
    BY <1>1, <1>2, <1>3, <1>4, <1>5, <1>6, <1>7, <1>8, <1>9, <1>10
    DEF UploadStep

\* The steps of a DELETE preserve the layout.
LEMMA RemovalLayout ==
  ASSUME Layout,
         (\E k \in Keys : StartRemove(k)) \/ RemoveStep \/ RemoveFails
  PROVE  Layout'
  <1> USE EngineConstants
  <1>a. FilesOf(NoUpload) = {}
    BY DEF Layout, TypeOK, FilesOf, AllPieces
  <1>b. \A u : FilesOf(u) \in SUBSET AllPieces
    BY DEF Layout, TypeOK, FilesOf
  <1>1. ASSUME NEW k \in Keys, StartRemove(k)
        PROVE  Layout'
    <2>1. /\ Cardinality(FilesOf(final[k])) \in Nat
          /\ final[k] \in Uploads
      BY <1>1, <1>b, PiecesFinite DEF StartRemove, MeasuredSize, Exists, Layout, TypeOK
    <2>2. FilesOf(final[k])' = FilesOf(final[k])
      BY <1>1 DEF StartRemove, MeasuredSize, FilesOf
    <2>3. TypeOK'
      BY <1>1, <2>1 DEF Layout, StartRemove, MeasuredSize, TypeOK, Removals
    <2>4. Cardinality(FilesOf(removal.dir)') <= removal'.released
      BY <1>1, <2>1, <2>2 DEF StartRemove, MeasuredSize, FilesOf
    <2> QED
      BY <1>1, <2>1, <2>3, <2>4 DEF Layout, StartRemove, MeasuredSize, NoStrayFiles,
         InPlace, Exists
  <1>2. CASE RemoveFile
    <2> PICK f \in FilesOf(removal.dir) : files' = files \ {f}
      BY <1>2 DEF RemoveFile
    <2>1. /\ FilesOf(removal.dir)' \in SUBSET FilesOf(removal.dir)
          /\ IsFiniteSet(FilesOf(removal.dir))
      BY <1>2, <1>b, PiecesFinite DEF RemoveFile, FilesOf
    <2>2. /\ Cardinality(FilesOf(removal.dir)') \in Nat
          /\ Cardinality(FilesOf(removal.dir)) \in Nat
          /\ Cardinality(FilesOf(removal.dir)')
               <= Cardinality(FilesOf(removal.dir))
      BY <2>1, FS_Subset, FS_CardinalityType
    <2>3. Cardinality(FilesOf(removal.dir)') <= removal.released
      BY <2>2 DEF Layout, TypeOK, NoStrayFiles, Removals
    <2>4. TypeOK'
      BY <1>2 DEF Layout, RemoveFile, TypeOK
    <2> QED
      BY <1>2, <2>3, <2>4 DEF Layout, RemoveFile, NoStrayFiles, InPlace,
         LockFree
  <1>3. CASE RemoveMeta
    BY <1>3 DEF Layout, RemoveMeta, TypeOK, NoStrayFiles, InPlace, FilesOf,
                LockFree
  <1>4. CASE FinishRemove
    <2>0. used' \in Nat /\ removal' \in Removals
      <3>1. used \in Nat /\ removal.released \in Nat
        BY DEF Layout, TypeOK, Removals
      <3> QED
        BY <1>4, <3>1 DEF FinishRemove, AtLeastZero, NoRemoval, Removals
    <2>1. TypeOK'
      BY ZenonT(60), <1>4, <2>0 DEF Layout, FinishRemove, TypeOK
    <2>2. \A f \in files : f[1] \notin InPlace' =>
            stage[f[1]] \in Unpublished /\ f[2] <= res[f[1]]
      BY <1>4 DEF Layout, FinishRemove, TypeOK, NoStrayFiles, InPlace,
                  FilesOf
    <2>3. FilesOf(removal.dir)' = {}
      BY <1>4, <1>a DEF FinishRemove, FilesOf, NoRemoval
    <2>4. Cardinality(FilesOf(removal.dir)') <= removal'.released
      BY <1>4, <2>3, FS_EmptySet DEF FinishRemove, NoRemoval
    <2> QED
      BY <1>4, <2>1, <2>2, <2>4 DEF Layout, FinishRemove, TypeOK,
         NoStrayFiles, LockFree
  <1>5. CASE RemoveFails
    <2>1. TypeOK'
      BY <1>5 DEF Layout, RemoveFails, TypeOK, NoRemoval, Removals
    <2>2. FilesOf(removal.dir)' = {}
      BY <1>5, <1>a DEF RemoveFails, FilesOf, NoRemoval
    <2>3. Cardinality(FilesOf(removal.dir)') <= removal'.released
      BY <1>5, <2>2, FS_EmptySet DEF RemoveFails, NoRemoval
    <2> QED
      BY <1>5, <2>1, <2>3 DEF Layout, RemoveFails, NoStrayFiles, LockFree,
         InPlace
  <1> QED
    BY <1>1, <1>2, <1>3, <1>4, <1>5 DEF RemoveStep

\* A restart preserves the layout.
LEMMA RestartLayout == Layout /\ CrashRestart => Layout'
  <1> SUFFICES ASSUME Layout, CrashRestart PROVE Layout'
    OBVIOUS
  <1> USE EngineConstants
  <1>1. Cardinality({f \in files : f[1] \in InPlace}) \in Nat
    <2>1. {f \in files : f[1] \in InPlace} \in SUBSET AllPieces
      BY DEF Layout, TypeOK
    <2> QED
      BY <2>1, PiecesFinite
  <1>2. TypeOK'
    BY <1>1 DEF Layout, CrashRestart, Kept, TypeOK, NoRemoval, Removals, Stages
  <1>3. FilesOf(removal.dir)' = {}
    BY DEF Layout, CrashRestart, Kept, TypeOK, FilesOf, NoRemoval, AllPieces
  <1>4. Cardinality(FilesOf(removal.dir)') <= removal'.released
    BY <1>3, FS_EmptySet DEF CrashRestart, Kept, NoRemoval
  <1>5. InPlace' = InPlace
    BY DEF CrashRestart, Kept, InPlace
  <1>6. \A f \in files' : f[1] \in InPlace'
    BY <1>5 DEF CrashRestart, Kept
  <1> QED
    BY <1>2, <1>4, <1>6 DEF Layout, CrashRestart, Kept, TypeOK, NoStrayFiles,
       LockFree

\* Every step keeps the layout.
LEMMA LayoutStep == Layout /\ [Next]_vars => Layout'
  <1>1. Layout /\ UNCHANGED vars => Layout'
    BY DEF Layout, TypeOK, NoStrayFiles, vars, InPlace, FilesOf, LockFree
  <1> QED
    BY <1>1, UploadLayout, RemovalLayout, RestartLayout
    DEF Next, Fault

\* The layout is an invariant: types are right and no file on disk is
\* without an owner, in every interleaving of PUTs, DELETEs and crashes.
THEOREM LayoutInvariant == Spec => []Layout
  BY InitLayout, LayoutStep, PTL DEF Spec

\* Type correctness of the engine's state.
THEOREM TypeCorrect == Spec => []TypeOK
  BY LayoutInvariant, PTL DEF Layout

\* NoStrayFiles, which a run checks on a small instance, in general.
THEOREM NoStrayFilesAlways == Spec => []NoStrayFiles
  BY LayoutInvariant, PTL DEF Layout

-----------------------------------------------------------------------------
(* The counters *)

Inv == Layout /\ CountersCoverClaims

\* A set of pieces is the pieces of one directory and the rest.
LEMMA CardSplit ==
  ASSUME NEW S \in SUBSET AllPieces, NEW u
  PROVE  Cardinality(S) = Cardinality({p \in S : p[1] # u})
                          + Cardinality({p \in S : p[1] = u})
  <1> DEFINE A == {p \in S : p[1] # u}
             B == {p \in S : p[1] = u}
  <1>1. A \in SUBSET AllPieces /\ B \in SUBSET AllPieces
    OBVIOUS
  <1>2. IsFiniteSet(A) /\ IsFiniteSet(B)
        /\ Cardinality(A) \in Nat /\ Cardinality(B) \in Nat
    BY <1>1, PiecesFinite
  <1>3. A \cup B = S /\ A \cap B = {}
    OBVIOUS
  <1> HIDE DEF A, B
  <1>4. Cardinality(A \cup B)
          = Cardinality(A) + Cardinality(B) - Cardinality(A \cap B)
    BY <1>2, FS_Union
  <1>5. Cardinality(A \cap B) = 0
    BY <1>3, FS_EmptySet
  <1>6. Cardinality(A \cup B) = Cardinality(S)
    BY <1>3
  <1>7. Cardinality(S) = Cardinality(A) + Cardinality(B)
    BY ONLY <1>2, <1>4, <1>5, <1>6
  <1> QED
    BY <1>7 DEF A, B

\* The part one call has in the reservations is its own reserved_bytes.
LEMMA OwnReservation ==
  ASSUME Layout, NEW u \in Uploads
  PROVE  Cardinality({p \in Reservations : p[1] = u}) = res[u]
  <1>1. res[u] \in 0 .. MaxPieces
    BY DEF Layout, TypeOK
  <1>2. {p \in Reservations : p[1] = u} = {u} \X (1 .. res[u])
    BY <1>1, EngineConstants DEF Reservations, AllPieces
  <1>3. /\ IsFiniteSet(1 .. res[u])
        /\ Cardinality(1 .. res[u]) = res[u]
    <2> DEFINE n == res[u]
    <2>1. n \in Nat
      BY <1>1, EngineConstants
    <2> HIDE DEF n
    <2>2. /\ IsFiniteSet(1 .. n)
          /\ Cardinality(1 .. n) = IF 1 > n THEN 0 ELSE n - 1 + 1
      BY <2>1, FS_Interval
    <2>3. Cardinality(1 .. n) = n
      BY <2>1, <2>2
    <2> QED
      BY <2>2, <2>3 DEF n
  <1>4. IsFiniteSet({u}) /\ Cardinality({u}) = 1
    BY FS_Singleton
  <1>5. Cardinality({u} \X (1 .. res[u])) = 1 * res[u]
    BY ZenonT(60), <1>3, <1>4, FS_Product
  <1>6. res[u] \in Int
    BY <1>1, EngineConstants
  <1>7. Cardinality({u} \X (1 .. res[u])) = res[u]
    BY ONLY <1>5, <1>6
  <1> QED
    BY ONLY <1>2, <1>7

\* The sets the counters are compared with are sets of pieces.
LEMMA CounterSets ==
  /\ Reservations \in SUBSET AllPieces
  /\ Claims \in SUBSET AllPieces
  /\ OtherClaims \in SUBSET AllPieces
  BY DEF Reservations, Claims, OtherClaims

\* Steps that reserve nothing and add no claim keep the counters covering.
LEMMA NoNewClaim ==
  ASSUME Layout, CountersCoverClaims,
         UNCHANGED <<used, reserved, removal>>,
         Reservations' = Reservations,
         OtherClaims' \subseteq OtherClaims
  PROVE  CountersCoverClaims'
  <1>1. IsFiniteSet(OtherClaims) /\ Cardinality(OtherClaims) \in Nat
    BY CounterSets, PiecesFinite
  <1>2. /\ Cardinality(OtherClaims') \in Nat
        /\ Cardinality(OtherClaims') <= Cardinality(OtherClaims)
    BY <1>1, FS_Subset, FS_CardinalityType
  <1> QED
    BY <1>1, <1>2
    DEF CountersCoverClaims, Layout, TypeOK, Removals

\* Without a removal the other claims are all claims.
LEMMA FreeClaims ==
  ASSUME LockFree
  PROVE  OtherClaims = Claims /\ removal.released = 0
  BY EngineConstants
  DEF LockFree, OtherClaims, Claims, NoRemoval, AllPieces

LEMMA InitCounters == Init => CountersCoverClaims
  <1> SUFFICES ASSUME Init PROVE CountersCoverClaims
    OBVIOUS
  <1>1. Reservations = {} /\ OtherClaims = {}
    BY EngineConstants
    DEF Init, Reservations, OtherClaims, Claims, InPlace, AllPieces
  <1> QED
    BY <1>1, FS_EmptySet, EngineConstants
    DEF CountersCoverClaims, Init, NoRemoval

\* _reserve_capacity: one more piece is reserved and claimed.
LEMMA ReserveCounters ==
  ASSUME Inv, NEW u \in Uploads, Reserve(u)
  PROVE  CountersCoverClaims'
  <1> DEFINE p == <<u, res[u] + 1>>
  <1>1. /\ res[u] \in 0 .. MaxPieces /\ res[u] = count[u]
        /\ p \in AllPieces /\ u # removal.dir /\ u \notin InPlace
    BY EngineConstants, InPlaceMember
    DEF Inv, Layout, TypeOK, NoStrayFiles, Reserve, Free, AllPieces, LockFree,
        NoRemoval
  <1>2. res' = [res EXCEPT ![u] = res[u] + 1] /\ InPlace' = InPlace
        /\ stage' = [stage EXCEPT ![u] = "reserved"]
        /\ files' = files /\ removal' = removal
    BY DEF Reserve, Free, InPlace
  <1>3. Reservations' = Reservations \cup {p} /\ p \notin Reservations
    BY <1>1, <1>2, EngineConstants
    DEF Reservations, AllPieces, Inv, Layout, TypeOK
  <1>4. Claims' = Claims \cup {p} /\ p \notin Claims
    BY <1>1, <1>2, EngineConstants
    DEF Claims, AllPieces, Inv, Layout, TypeOK, Reserve, Free
  <1>5. OtherClaims' = OtherClaims \cup {p} /\ p \notin OtherClaims
    BY <1>1, <1>2, <1>4 DEF OtherClaims
  <1> HIDE DEF p
  <1>6. /\ IsFiniteSet(Reservations) /\ Cardinality(Reservations) \in Nat
        /\ IsFiniteSet(OtherClaims) /\ Cardinality(OtherClaims) \in Nat
    BY CounterSets, PiecesFinite
  <1>7. /\ Cardinality(Reservations') = Cardinality(Reservations) + 1
        /\ Cardinality(OtherClaims') = Cardinality(OtherClaims) + 1
    BY Zenon, <1>3, <1>5, <1>6, FS_AddElement
  <1>8. removal.released \in Nat /\ used \in Nat /\ reserved \in Nat
    BY DEF Inv, Layout, TypeOK, Removals
  <1>9. /\ used' = used /\ reserved' = reserved + 1 /\ removal' = removal
        /\ used + reserved + 1 <= Capacity
    BY <1>8, EngineConstants DEF Reserve, Free, AtLeastZero
  <1> QED
    BY <1>6, <1>7, <1>8, <1>9, EngineConstants DEF CountersCoverClaims, Inv

\* Steps of a PUT between reservation and publication move no claim.
LEMMA StagingCounters ==
  ASSUME Inv, NEW u \in Uploads,
         \/ \E k \in Keys : Begin(u, k)
         \/ WritePiece(u) \/ Seal(u) \/ Fail(u) \/ Discard(u)
         \/ DiscardFails(u)
  PROVE  CountersCoverClaims'
  <1>1. u \notin InPlace
    BY InPlaceMember
    DEF Begin, IsNew, WritePiece, Seal, Fail, BeforePublication, Discard, DiscardFails, Inv, Layout,
        NoStrayFiles
  <1>2. /\ UNCHANGED <<res, final, used, reserved, removal>>
        /\ \E s \in Stages \ {"published"} : stage' = [stage EXCEPT ![u] = s]
        /\ stage[u] # "published"
        /\ \A f \in AllPieces : f[1] # u => (f \in files' <=> f \in files)
    BY DEF Begin, IsNew, WritePiece, Seal, Fail, BeforePublication, Discard, DiscardFails, Stages,
           FilesOf
  <1>3. InPlace' = InPlace /\ Reservations' = Reservations
    BY <1>2 DEF InPlace, Reservations
  <1>4. Claims' = Claims
    BY <1>1, <1>2, <1>3
    DEF Claims, AllPieces, Inv, Layout, TypeOK
  <1>5. OtherClaims' = OtherClaims
    BY <1>2, <1>4 DEF OtherClaims
  <1> QED
    BY <1>2, <1>3, <1>5, NoNewClaim DEF Inv

\* Publication: the files in place are no more than what was reserved.
LEMMA PublishCounters ==
  ASSUME Inv, NEW u \in Uploads, Publish(u)
  PROVE  CountersCoverClaims'
  <1>1. u \notin InPlace /\ stage[u] = "sealed" /\ key[u] \in Keys
    BY InPlaceMember DEF Publish, Inv, Layout, NoStrayFiles
  <1>2. \A v \in Uploads : v # u => (v \in InPlace' <=> v \in InPlace)
    BY <1>1, EngineConstants
    DEF Publish, InPlace, Inv, Layout, TypeOK
  <1>3. \A f \in files : f[1] = u => f[2] <= res[u]
    BY <1>1 DEF Inv, Layout, NoStrayFiles
  <1>4. /\ UNCHANGED <<res, used, reserved, removal, files>>
        /\ stage' = [stage EXCEPT ![u] = "published"]
    BY DEF Publish
  <1>5. Claims' \subseteq Claims
    BY <1>1, <1>2, <1>3, <1>4
    DEF Claims, AllPieces, Inv, Layout, TypeOK
  <1>6. OtherClaims' \subseteq OtherClaims /\ Reservations' = Reservations
    BY <1>4, <1>5 DEF OtherClaims, Reservations
  <1> QED
    BY <1>4, <1>6, NoNewClaim DEF Inv

\* Returning a call's reservation subtracts exactly what it holds.
LEMMA ReturnReservation ==
  ASSUME Inv, NEW u \in Uploads, res' = [res EXCEPT ![u] = 0],
         reserved' = AtLeastZero(reserved - res[u])
  PROVE  /\ reserved' = Cardinality(Reservations')
         /\ reserved = reserved' + res[u]
         /\ res[u] \in Nat /\ reserved' \in Nat
  <1> DEFINE rest == {p \in Reservations : p[1] # u}
  <1>1. Reservations' = rest
    BY DEF Reservations, AllPieces, Inv, Layout, TypeOK
  <1>2. Cardinality(Reservations)
          = Cardinality(rest) + Cardinality({p \in Reservations : p[1] = u})
    BY Zenon, CounterSets, CardSplit
  <1>3. Cardinality({p \in Reservations : p[1] = u}) = res[u]
    BY OwnReservation DEF Inv
  <1>4. rest \in SUBSET AllPieces
    BY CounterSets
  <1>5. Cardinality(rest) \in Nat
    BY <1>4, PiecesFinite
  <1>6. res[u] \in Nat /\ reserved = Cardinality(Reservations)
    BY EngineConstants DEF Inv, Layout, TypeOK, CountersCoverClaims
  <1> HIDE DEF rest
  <1>7. reserved = Cardinality(rest) + res[u]
    BY ONLY <1>2, <1>3, <1>6
  <1>8. reserved' = Cardinality(rest)
    BY <1>5, <1>6, <1>7 DEF AtLeastZero
  <1> QED
    BY <1>1, <1>5, <1>6, <1>7, <1>8

\* The last critical section of a PUT: reserved bytes become used bytes.
LEMMA AccountCounters ==
  ASSUME Inv, NEW u \in Uploads, Account(u)
  PROVE  CountersCoverClaims'
  <1>1. /\ reserved' = Cardinality(Reservations')
        /\ reserved = reserved' + res[u]
        /\ res[u] \in Nat /\ reserved' \in Nat
    BY Zenon, ReturnReservation DEF Account
  <1>2. used' = used + res[u] /\ used \in Nat /\ removal' = removal
    BY DEF Account, Inv, Layout, NoStrayFiles, TypeOK
  <1>3. InPlace' = InPlace
    BY DEF Account, InPlace
  <1>4. Claims' = Claims
    BY <1>3
    DEF Account, Claims, AllPieces, Inv, Layout, TypeOK
  <1>5. OtherClaims' = OtherClaims
    BY <1>2, <1>4 DEF OtherClaims
  <1>6. used' + reserved' = used + reserved
    BY <1>1, <1>2
  <1> QED
    BY <1>1, <1>2, <1>5, <1>6 DEF CountersCoverClaims, Inv

\* A failed PUT gives back its reservation and its claim on it.
LEMMA ReleaseCounters ==
  ASSUME Inv, NEW u \in Uploads, Release(u)
  PROVE  CountersCoverClaims'
  <1>1. /\ reserved' = Cardinality(Reservations')
        /\ reserved = reserved' + res[u]
        /\ res[u] \in Nat /\ reserved' \in Nat
    BY Zenon, ReturnReservation DEF Release
  <1>2. /\ used' = used /\ used \in Nat /\ removal' = removal
        /\ removal.released \in Nat /\ u # removal.dir
    BY EngineConstants
    DEF Release, Inv, Layout, TypeOK, Removals, LockFree, NoRemoval
  <1>3. InPlace' = InPlace
    BY DEF Release, InPlace
  <1>4. u \notin InPlace
    BY InPlaceMember DEF Release, Inv, Layout, NoStrayFiles
  <1>5. Claims' = {p \in Claims : p[1] # u}
    BY <1>3, <1>4
    DEF Release, Claims, AllPieces, Inv, Layout, TypeOK
  <1>6. OtherClaims' = {p \in OtherClaims : p[1] # u}
    BY <1>2, <1>5 DEF OtherClaims
  <1>7. {p \in OtherClaims : p[1] = u} = {p \in Reservations : p[1] = u}
    BY <1>2, <1>4 DEF Release, OtherClaims, Claims, Reservations
  <1>8. Cardinality(OtherClaims) = Cardinality(OtherClaims') + res[u]
    <2>1. Cardinality(OtherClaims)
            = Cardinality({p \in OtherClaims : p[1] # u})
              + Cardinality({p \in OtherClaims : p[1] = u})
      BY CounterSets, CardSplit
    <2>2. Cardinality({p \in Reservations : p[1] = u}) = res[u]
      BY OwnReservation DEF Inv
    <2> QED
      BY ONLY Zenon, <1>6, <1>7, <2>1, <2>2
  <1>9. Cardinality(OtherClaims') \in Nat
    BY <1>6, CounterSets, PiecesFinite
  <1> QED
    BY <1>1, <1>2, <1>8, <1>9, EngineConstants DEF CountersCoverClaims, Inv

\* delete(): from the measurement to the end, released_bytes stands for the
\* files of the directory being removed.
LEMMA StartRemoveCounters ==
  ASSUME Inv, NEW k \in Keys, StartRemove(k)
  PROVE  CountersCoverClaims'
  <1> DEFINE d == final[k]
  <1>1. d \in InPlace /\ d \in Uploads
    BY InPlaceMember DEF StartRemove, MeasuredSize, Exists, Inv, Layout, TypeOK
  <1>2. /\ removal'.dir = d
        /\ removal'.released = Cardinality(FilesOf(d))
        /\ UNCHANGED <<used, reserved>>
    BY DEF StartRemove, MeasuredSize
  <1>3. Claims' = Claims /\ Reservations' = Reservations
    BY Zenon DEF StartRemove, MeasuredSize, Claims, InPlace, Reservations
  <1>4. OtherClaims = Claims /\ removal.released = 0
    BY FreeClaims DEF StartRemove, MeasuredSize
  <1>5. OtherClaims' = {p \in Claims : p[1] # d}
    BY <1>2, <1>3 DEF OtherClaims
  <1>6. {p \in Claims : p[1] = d} = FilesOf(d)
    BY <1>1 DEF Claims, FilesOf, Inv, Layout, TypeOK
  <1> HIDE DEF d
  <1>7. Cardinality(Claims)
          = Cardinality(OtherClaims') + Cardinality(FilesOf(d))
    <2>1. Cardinality(Claims)
            = Cardinality({p \in Claims : p[1] # d})
              + Cardinality({p \in Claims : p[1] = d})
      BY Zenon, CounterSets, CardSplit
    <2> QED
      BY ONLY <1>5, <1>6, <2>1
  <1> QED
    BY <1>2, <1>3, <1>4, <1>7, CounterSets, PiecesFinite
    DEF CountersCoverClaims, Inv, Layout, TypeOK

\* What is in place and what is staged, in one set: all files are claimed or
\* in the directory being removed.
LEMMA FilesClaimed ==
  ASSUME Layout
  PROVE  files \subseteq OtherClaims \cup FilesOf(removal.dir)
  BY DEF Layout, NoStrayFiles, TypeOK, OtherClaims, Claims, FilesOf,
         Unpublished

\* So the files on disk are within the counters.
LEMMA FilesCovered ==
  ASSUME Inv
  PROVE  /\ Cardinality(files) <= used + reserved
         /\ Cardinality(files) <= Capacity
         /\ Cardinality(files) \in Nat
  <1> DEFINE A == OtherClaims
             B == FilesOf(removal.dir)
  <1>1. A \in SUBSET AllPieces /\ B \in SUBSET AllPieces
        /\ files \in SUBSET AllPieces
    BY CounterSets DEF FilesOf, Inv, Layout, TypeOK
  <1>2. files \subseteq A \cup B
    BY FilesClaimed DEF Inv
  <1>3. Cardinality(B) <= removal.released /\ removal.released \in Nat
    BY DEF Inv, Layout, NoStrayFiles, TypeOK, Removals
  <1>4. Cardinality(A) + removal.released <= used + reserved
        /\ used + reserved <= Capacity /\ used \in Nat /\ reserved \in Nat
    BY DEF Inv, CountersCoverClaims, Layout, TypeOK
  <1> HIDE DEF A, B
  <1>5. A \cap B \in SUBSET AllPieces /\ A \cup B \in SUBSET AllPieces
    BY <1>1
  <1>6. /\ IsFiniteSet(A) /\ IsFiniteSet(B) /\ IsFiniteSet(A \cup B)
        /\ Cardinality(A) \in Nat /\ Cardinality(B) \in Nat
        /\ Cardinality(A \cap B) \in Nat /\ Cardinality(files) \in Nat
        /\ Cardinality(A \cup B) \in Nat
    BY <1>1, <1>5, PiecesFinite
  <1>7. Cardinality(A \cup B)
          = Cardinality(A) + Cardinality(B) - Cardinality(A \cap B)
    BY <1>6, FS_Union
  <1>8. Cardinality(files) <= Cardinality(A \cup B)
    BY <1>2, <1>6, FS_Subset
  <1> QED
    BY ONLY <1>3, <1>4, <1>6, <1>7, <1>8, EngineConstants

\* Unlinking files and metadata of that directory moves no other claim, and
\* when it is gone _used_bytes has lost no more than was measured.
LEMMA RemovalCounters ==
  ASSUME Inv, RemoveStep
  PROVE  CountersCoverClaims'
  <1>1. removal.key \in Keys /\ removal.dir \in InPlace
        /\ final[removal.key] = removal.dir
    BY InPlaceMember
    DEF Inv, Layout, NoStrayFiles, RemoveStep, RemoveFile, RemoveMeta,
        FinishRemove
  <1>2. CASE RemoveFile \/ RemoveMeta
    <2>1. /\ UNCHANGED <<res, stage, final, used, reserved, removal>>
          /\ \A f \in AllPieces :
               f[1] # removal.dir => (f \in files' <=> f \in files)
      BY <1>2 DEF RemoveFile, RemoveMeta, FilesOf
    <2>2. OtherClaims' = OtherClaims
      BY <2>1 DEF OtherClaims, Claims, InPlace
    <2>3. Reservations' = Reservations
      BY <2>1 DEF Reservations
    <2> QED
      BY <2>1, <2>2, <2>3, NoNewClaim DEF Inv
  <1>3. CASE FinishRemove
    <2>1. \A v \in Uploads : v # removal.dir => (v \in InPlace' <=> v \in InPlace)
      BY <1>1, <1>3, EngineConstants
      DEF FinishRemove, InPlace, Inv, Layout, TypeOK
    <2>2. removal.dir \notin InPlace'
      BY <1>1, <1>3
      DEF FinishRemove, InPlace, Inv, Layout, TypeOK, NoStrayFiles
    <2>3. /\ UNCHANGED <<res, stage, files, reserved>>
          /\ removal'.dir = NoUpload /\ removal'.released = 0
          /\ used' = AtLeastZero(used - removal.released)
      BY <1>3 DEF FinishRemove, NoRemoval
    <2>4. stage[removal.dir] \in {"published", "done", "dead"}
      BY <1>1 DEF Inv, Layout, NoStrayFiles, InPlace
    <2>5. removal.dir \in Uploads
      BY <1>1, InPlaceMember DEF Inv, Layout, TypeOK
    <2>6. stage[removal.dir] # "published" => res[removal.dir] = 0
      BY <2>4, <2>5 DEF Inv, Layout, NoStrayFiles
    <2>7. Claims' \subseteq OtherClaims
      BY <2>1, <2>2, <2>3, <2>6, EngineConstants
      DEF Claims, OtherClaims, AllPieces
    <2>8. OtherClaims' \subseteq OtherClaims /\ Reservations' = Reservations
      BY <2>3, <2>7 DEF OtherClaims, Reservations
    <2>9. /\ Cardinality(OtherClaims') <= Cardinality(OtherClaims)
          /\ Cardinality(OtherClaims') \in Nat
          /\ Cardinality(OtherClaims) \in Nat
      BY <2>8, CounterSets, PiecesFinite, FS_Subset, FS_CardinalityType
    <2>10. used \in Nat /\ reserved \in Nat /\ removal.released \in Nat
      BY DEF Inv, Layout, TypeOK, Removals
    <2> QED
      BY <2>3, <2>8, <2>9, <2>10, EngineConstants
      DEF CountersCoverClaims, Inv, AtLeastZero
  <1> QED
    BY <1>2, <1>3 DEF RemoveStep

\* A removal that fails half way leaves its files to the cached usage.
LEMMA RemoveFailsCounters ==
  ASSUME Inv, RemoveFails
  PROVE  CountersCoverClaims'
  <1>1. removal.dir \in InPlace
    BY InPlaceMember DEF Inv, Layout, NoStrayFiles, RemoveFails
  <1>2. /\ UNCHANGED <<res, stage, files, final, used, reserved>>
        /\ removal'.dir = NoUpload /\ removal'.released = 0
    BY DEF RemoveFails, NoRemoval
  <1>3. OtherClaims' = Claims
    BY <1>2, EngineConstants DEF OtherClaims, Claims, InPlace, AllPieces
  <1>4. {p \in Claims : p[1] = removal.dir} = FilesOf(removal.dir)
    BY <1>1 DEF Claims, FilesOf, Inv, Layout, TypeOK
  <1>5. Cardinality(Claims) = Cardinality({p \in Claims : p[1] # removal.dir})
          + Cardinality({p \in Claims : p[1] = removal.dir})
    BY CounterSets, CardSplit
  <1>6. Cardinality(OtherClaims')
          = Cardinality(OtherClaims) + Cardinality(FilesOf(removal.dir))
    <2>1. OtherClaims = {p \in Claims : p[1] # removal.dir}
      BY DEF OtherClaims
    <2> QED
      BY ONLY <1>3, <1>4, <1>5, <2>1
  <1>7. /\ Cardinality(FilesOf(removal.dir)) <= removal.released
        /\ removal.released \in Nat /\ used \in Nat /\ reserved \in Nat
    BY DEF Inv, Layout, NoStrayFiles, TypeOK, Removals
  <1>8. FilesOf(removal.dir) \in SUBSET AllPieces
    BY DEF FilesOf, Inv, Layout, TypeOK
  <1>9. /\ Cardinality(FilesOf(removal.dir)) \in Nat
        /\ Cardinality(OtherClaims) \in Nat
    BY <1>8, CounterSets, PiecesFinite
  <1>10. Reservations' = Reservations
    BY <1>2 DEF Reservations
  <1> QED
    BY <1>2, <1>6, <1>7, <1>9, <1>10 DEF CountersCoverClaims, Inv

\* A restart recounts what is in place; nothing is reserved.
LEMMA RestartCounters ==
  ASSUME Inv, CrashRestart
  PROVE  CountersCoverClaims'
  <1> DEFINE kept == {f \in files : f[1] \in InPlace}
  <1>1. /\ InPlace' = InPlace /\ files' = kept /\ used' = Cardinality(kept)
        /\ reserved' = 0 /\ removal'.dir = NoUpload
        /\ removal'.released = 0 /\ res' = [u \in Uploads |-> 0]
    BY DEF CrashRestart, Kept, InPlace, NoRemoval
  <1>2. Reservations' = {}
    BY <1>1, EngineConstants DEF Reservations, AllPieces
  <1>3. OtherClaims' \subseteq kept
    BY <1>1, EngineConstants DEF OtherClaims, Claims, AllPieces
  <1>4. IsFiniteSet(files) /\ IsFiniteSet(kept) /\ Cardinality(kept) \in Nat
    <2>1. files \in SUBSET AllPieces /\ kept \in SUBSET AllPieces
      BY DEF Inv, Layout, TypeOK
    <2> QED
      BY <2>1, PiecesFinite
  <1>5. kept \subseteq files
    OBVIOUS
  <1> HIDE DEF kept
  <1>6. /\ Cardinality(OtherClaims') <= Cardinality(kept)
        /\ Cardinality(OtherClaims') \in Nat
        /\ Cardinality(kept) <= Cardinality(files)
    BY <1>3, <1>4, <1>5, FS_Subset, FS_CardinalityType
  <1>7. Cardinality(files) <= Capacity /\ Cardinality(files) \in Nat
    BY FilesCovered
  <1> QED
    BY <1>1, <1>2, <1>4, <1>6, <1>7, FS_EmptySet, EngineConstants
    DEF CountersCoverClaims

\* _reserved_bytes is the sum of what the running calls hold, and
\* _used_bytes + _reserved_bytes stays between what is claimed and capacity.
THEOREM CountersCover == Spec => []CountersCoverClaims
  <1>1. Init => Inv
    BY InitLayout, InitCounters DEF Inv
  <1>2. Inv /\ [Next]_vars => Inv'
    <2> SUFFICES ASSUME Inv, [Next]_vars PROVE Inv'
      OBVIOUS
    <2>1. Layout'
      BY LayoutStep DEF Inv
    <2>2. CountersCoverClaims'
      <3>1. ASSUME NEW u \in Uploads, UploadStep(u) \/ DiscardFails(u)
            PROVE  CountersCoverClaims'
        BY <3>1, ReserveCounters, StagingCounters, PublishCounters,
           AccountCounters, ReleaseCounters DEF UploadStep
      <3>2. ASSUME NEW k \in Keys, StartRemove(k)
            PROVE  CountersCoverClaims'
        BY <3>2, StartRemoveCounters
      <3>3. CASE UNCHANGED vars
        BY <3>3
        DEF vars, Inv, CountersCoverClaims, Reservations, OtherClaims,
            Claims, InPlace
      <3> QED
        BY <3>1, <3>2, <3>3, RemovalCounters, RemoveFailsCounters,
           RestartCounters
        DEF Next, Fault
    <2> QED
      BY <2>1, <2>2 DEF Inv
  <1>3. Inv => CountersCoverClaims
    BY DEF Inv
  <1> QED
    BY <1>1, <1>2, <1>3, PTL DEF Spec

\* The node never holds more than capacity_bytes, staging included, for any
\* number of concurrent uploads, deletes, failed removals and restarts.
THEOREM CapacityAlwaysRespected == Spec => []CapacityRespected
  <1>1. Layout /\ CountersCoverClaims => CapacityRespected
    BY FilesCovered DEF Inv, CapacityRespected
  <1> QED
    BY <1>1, LayoutInvariant, CountersCover, PTL

-----------------------------------------------------------------------------
(***************************************************************************)
(* The engine implements ObjectStore, and accepts one PUT of a key at a    *)
(* time.  The layout above says which directories are in place; the        *)
(* refinement also needs what they hold: a staged directory has every      *)
(* piece counted so far (so the rename publishes a whole version), and no  *)
(* directory has more than was counted (so a whole version that loses a    *)
(* file is not whole).                                                     *)
(***************************************************************************)

Contents ==
  /\ \A f \in files : f[2] <= count[f[1]]
  /\ \A u \in Uploads :
       /\ stage[u] \in {"open", "reserved", "sealed"} =>
            \A i \in 1 .. count[u] : <<u, i>> \in files
       /\ stage[u] = "sealed" => u \in meta

ViewInv == Layout /\ Contents

\* A staged directory is not at a final path.
LEMMA StagedNotInPlace ==
  ASSUME Layout, NEW u \in Uploads, NEW k \in Keys,
         stage[u] \notin {"published", "done", "dead"}
  PROVE  final[k] # u
  BY EngineConstants DEF Layout, NoStrayFiles

\* Two keys never share a directory.
LEMMA OwnDirectory ==
  ASSUME Layout, NEW j \in Keys, NEW k \in Keys, final[j] = final[k], final[k] # NoUpload
  PROVE  j = k
  BY DEF Layout, NoStrayFiles

LEMMA UploadContents ==
  ASSUME ViewInv, NEW u \in Uploads, UploadStep(u) \/ DiscardFails(u)
  PROVE  Contents'
  <1> USE DEF ViewInv
  <1>1. files \in SUBSET AllPieces /\ stage \in [Uploads -> Stages] /\ count[u] \in Nat
        /\ count \in [Uploads -> 0 .. MaxPieces]
    BY DEF Layout, TypeOK
  <1>2. CASE \/ \E k \in Keys : Begin(u, k)
             \/ Reserve(u) \/ Publish(u) \/ Account(u) \/ Fail(u) \/ Release(u)
    <2>1. UNCHANGED <<files, meta, count>>
      BY <1>2 DEF Begin, Reserve, Publish, Account, Fail, Release
    <2>2. \A v \in Uploads : stage'[v] \in {"open", "reserved", "sealed"} =>
            \/ stage'[v] = stage[v]
            \/ stage'[v] = "open" /\ stage[v] = "new" /\ count[v] = 0
            \/ stage'[v] = "reserved" /\ stage[v] = "open"
      BY <1>1, <1>2 DEF Begin, Reserve, Publish, Account, Fail, Release, Layout,
                        NoStrayFiles, BeforePublication
    <2> QED BY <1>1, <2>1, <2>2 DEF Contents
  <1>3. CASE WritePiece(u)
    <2>1. /\ files' = files \cup {<<u, count[u] + 1>>}
          /\ count'[u] = count[u] + 1
          /\ \A v \in Uploads \ {u} : count'[v] = count[v] /\ stage'[v] = stage[v]
          /\ stage[u] = "reserved" /\ stage'[u] = "open" /\ meta' = meta
      BY <1>1, <1>3 DEF WritePiece
    <2>2. \A f \in files' : f[2] <= count'[f[1]]
      BY <1>1, <2>1 DEF Contents, AllPieces
    <2>3. \A i \in 1 .. count'[u] : <<u, i>> \in files'
      BY <1>1, <2>1 DEF Contents
    <2>4. ASSUME NEW v \in Uploads \ {u}
          PROVE  /\ stage'[v] \in {"open", "reserved", "sealed"} =>
                      \A i \in 1 .. count'[v] : <<v, i>> \in files'
                 /\ stage'[v] = "sealed" => v \in meta'
      BY <2>1, <2>4 DEF Contents
    <2> QED BY <2>1, <2>2, <2>3, <2>4 DEF Contents
  <1>4. CASE Seal(u)
    BY <1>1, <1>4 DEF Seal, Contents
  <1>5. CASE Discard(u) \/ DiscardFails(u)
    <2>1. /\ files' \subseteq files /\ count' = count
          /\ \A f \in files \ files' : f[1] = u
          /\ stage'[u] \in {"discarded", "leaked"}
          /\ \A v \in Uploads \ {u} : stage'[v] = stage[v] /\ (v \in meta => v \in meta')
      BY <1>1, <1>5 DEF Discard, DiscardFails, FilesOf
    <2> QED BY <2>1 DEF Contents
  <1> QED BY <1>2, <1>3, <1>4, <1>5 DEF UploadStep

LEMMA OtherContents ==
  ASSUME ViewInv,
         \/ \E k \in Keys : StartRemove(k)
         \/ RemoveStep \/ RemoveFails \/ CrashRestart
  PROVE  Contents'
  <1> USE DEF ViewInv
  <1>1. CASE UNCHANGED <<stage, count, files, meta>>
    BY <1>1 DEF Contents
  <1>2. CASE RemoveFile \/ RemoveMeta
    <2>1. /\ UNCHANGED <<stage, count>> /\ files' \subseteq files
          /\ \A f \in files \ files' : f[1] = removal.dir
          /\ \A v \in meta \ meta' : v = removal.dir
          /\ ~LockFree
      BY <1>2 DEF RemoveFile, RemoveMeta, FilesOf
    <2>2. removal.dir \in Uploads /\ stage[removal.dir] \in {"published", "done", "dead"}
      BY <2>1, EngineConstants DEF Layout, NoStrayFiles, TypeOK, Removals
    <2> QED BY <2>1, <2>2 DEF Contents
  <1>3. CASE CrashRestart
    BY <1>3 DEF CrashRestart, Kept, Contents, Layout, TypeOK
  <1> QED BY <1>1, <1>2, <1>3 DEF StartRemove, RemoveStep, FinishRemove, RemoveFails

LEMMA ViewInvStep == ViewInv /\ [Next]_vars => ViewInv'
  <1>1. ViewInv /\ UNCHANGED vars => Contents'
    BY DEF ViewInv, Contents, vars
  <1> QED
    BY <1>1, LayoutStep, UploadContents, OtherContents DEF Next, Fault, ViewInv

\* The inductive invariant of the refinement.
THEOREM ContentsInvariant == Spec => []ViewInv
  <1>1. Init => ViewInv
    <2>1. Init => Contents
      BY DEF Init, Contents
    <2> QED BY <2>1, InitLayout DEF ViewInv
  <1> QED BY <1>1, ViewInvStep, PTL DEF Spec

-----------------------------------------------------------------------------
(* One upload per key *)

Holding == \A u \in Uploads : Active(u) => key[u] \in inflight

\* A step starts an upload of a key that is not in flight, ends uploads with
\* their keys, or ends every upload.
LEMMA OneUploadStep ==
  ASSUME Layout, Holding, OneUploadPerKey, [Next]_vars
  PROVE  Holding' /\ OneUploadPerKey'
  <1> USE DEF Active
  <1>1. stage \in [Uploads -> Stages] /\ key \in [Uploads -> Keys \cup {NoKey}]
    BY DEF Layout, TypeOK
  <1>2. ASSUME NEW u \in Uploads, NEW k \in Keys, Begin(u, k)
        PROVE  Holding' /\ OneUploadPerKey'
    BY <1>1, <1>2 DEF Begin, IsNew, Holding, OneUploadPerKey
  <1>3. ASSUME NEW u \in Uploads,
               Account(u) \/ Release(u)
        PROVE  Holding' /\ OneUploadPerKey'
    BY <1>1, <1>3 DEF Account, Release, Holding, OneUploadPerKey
  <1>4. ASSUME NEW u \in Uploads,
               \/ Reserve(u) \/ WritePiece(u) \/ Seal(u) \/ Publish(u)
               \/ Fail(u) \/ Discard(u) \/ DiscardFails(u)
        PROVE  Holding' /\ OneUploadPerKey'
    <2>1. /\ UNCHANGED <<key, inflight>>
          /\ \A v \in Uploads : Active(v)' => Active(v)
      BY <1>1, <1>4 DEF Reserve, WritePiece, Seal, Publish, Fail, Discard,
                        DiscardFails, BeforePublication
    <2> QED BY <2>1 DEF Holding, OneUploadPerKey
  <1>5. CASE CrashRestart
    <2>1. \A v \in Uploads : ~Active(v)'
      BY <1>5 DEF CrashRestart
    <2> QED BY <2>1 DEF Holding, OneUploadPerKey
  <1>6. CASE UNCHANGED <<stage, key, inflight>>
    BY <1>6 DEF Holding, OneUploadPerKey
  <1>7. \/ \E k \in Keys : StartRemove(k)
        \/ RemoveStep \/ RemoveFails \/ UNCHANGED vars
        => UNCHANGED <<stage, key, inflight>>
    BY DEF StartRemove, RemoveStep, RemoveFile, RemoveMeta, FinishRemove,
           RemoveFails, vars
  <1> QED
    BY <1>2, <1>3, <1>4, <1>5, <1>6, <1>7 DEF Next, UploadStep, Fault

\* _inflight_objects does its work: two accepted PUTs of one key are never in
\* progress together.
THEOREM OneUploadPerKeyAlways == Spec => []OneUploadPerKey
  <1>1. Init => Holding /\ OneUploadPerKey
    BY DEF Init, Holding, OneUploadPerKey, Active
  <1> QED BY <1>1, OneUploadStep, LayoutInvariant, PTL DEF Spec

-----------------------------------------------------------------------------
(* The refinement *)

\* What a client sees of a key depends on the directory at its final path.
LEMMA ViewOfKey ==
  ASSUME NEW k \in Keys, final'[k] = final[k],
         final[k] # NoUpload =>
           /\ final[k] \in meta' <=> final[k] \in meta
           /\ {f \in files' : f[1] = final[k]} = {f \in files : f[1] = final[k]}
           /\ count'[final[k]] = count[final[k]]
  PROVE  StoreView'[k] = StoreView[k]
  BY DEF StoreView, Exists, Whole, FilesOf, Pieces

LEMMA ViewType ==
  /\ DOMAIN StoreView = Keys /\ StoreView = [k \in Keys |-> StoreView[k]]
  /\ DOMAIN StoreView' = Keys /\ StoreView' = [k \in Keys |-> StoreView'[k]]
  BY DEF StoreView

\* An upload changes nothing a client sees until it is published.
LEMMA UploadInvisible ==
  ASSUME ViewInv, NEW u \in Uploads, UploadStep(u) \/ DiscardFails(u), ~Publish(u)
  PROVE  UNCHANGED <<StoreView, removal.key>>
  <1>1. UNCHANGED <<final, removal>>
    BY DEF UploadStep, Begin, Reserve, WritePiece, Seal, Account, Fail, Discard,
           DiscardFails, Release
  <1>2. ASSUME NEW k \in Keys PROVE StoreView'[k] = StoreView[k]
    <2>1. CASE UNCHANGED <<files, meta, count>>
      BY <1>1, <2>1, ViewOfKey
    <2>2. CASE WritePiece(u) \/ Seal(u) \/ Discard(u) \/ DiscardFails(u)
      <3>1. final[k] # u
        BY <2>2, StagedNotInPlace
        DEF ViewInv, WritePiece, Seal, Discard, DiscardFails
      <3>2. count \in [Uploads -> 0 .. MaxPieces] /\ final[k] \in Uploads \cup {NoUpload}
        BY DEF ViewInv, Layout, TypeOK
      <3>3. final[k] # NoUpload => count'[final[k]] = count[final[k]]
        BY <2>2, <3>1, <3>2 DEF WritePiece, Seal, Discard, DiscardFails
      <3>4. final[k] \in meta' <=> final[k] \in meta
        BY <2>2, <3>1 DEF WritePiece, Seal, Discard, DiscardFails
      <3>5. {f \in files' : f[1] = final[k]} = {f \in files : f[1] = final[k]}
        BY <2>2, <3>1 DEF WritePiece, Seal, Discard, DiscardFails, FilesOf
      <3> QED BY <1>1, <3>3, <3>4, <3>5, ViewOfKey
    <2> QED
      BY <2>1, <2>2 DEF UploadStep, Begin, Reserve, Account, Fail, Release
  <1> QED BY <1>1, <1>2, ViewType

\* os.replace makes a whole version appear under a key that showed nothing.
LEMMA PublishPuts ==
  ASSUME ViewInv, NEW u \in Uploads, Publish(u)
  PROVE  Store!Put(key[u], u) /\ key[u] \in Keys
  <1>1. /\ key[u] \in Keys /\ stage[u] = "sealed" /\ final[key[u]] = NoUpload
        /\ final' = [final EXCEPT ![key[u]] = u]
        /\ UNCHANGED <<files, meta, count, removal>>
    BY DEF Publish, ViewInv, Layout, NoStrayFiles
  <1>2. /\ final \in [Keys -> Uploads \cup {NoUpload}] /\ files \in SUBSET AllPieces
        /\ count[u] \in 0 .. MaxPieces
    BY DEF ViewInv, Layout, TypeOK
  <1>3. StoreView[key[u]] = "absent"
    BY <1>1 DEF StoreView, Exists
  <1>4. ASSUME NEW j \in Keys PROVE StoreView[j] # u
    <2>1. final[j] # u
      BY <1>1, StagedNotInPlace DEF ViewInv
    <2> QED BY <2>1, ViewConstants DEF StoreView
  <1>5. u \in meta /\ FilesOf(u) = {p \in Pieces(u) : p[2] <= count[u]}
    <2>1. u \in meta /\ \A i \in 1 .. count[u] : <<u, i>> \in files
      BY <1>1 DEF ViewInv, Contents
    <2>2. \A f \in files : f[2] <= count[f[1]]
      BY DEF ViewInv, Contents
    <2>3. FilesOf(u) \subseteq {p \in Pieces(u) : p[2] <= count[u]}
      BY <1>2, <2>2 DEF FilesOf, Pieces, AllPieces
    <2>4. {p \in Pieces(u) : p[2] <= count[u]} \subseteq FilesOf(u)
      BY <1>2, <2>1 DEF FilesOf, Pieces
    <2> QED BY <2>1, <2>3, <2>4
  <1>6. StoreView'[key[u]] = u
    <2>1. final'[key[u]] = u /\ u # NoUpload
      BY <1>1, <1>2, EngineConstants
    <2>2. Exists(key[u])' /\ Whole(u)'
      BY <1>1, <1>5, <2>1 DEF Exists, Whole, FilesOf, Pieces, Publish
    <2> QED BY <1>1, <2>1, <2>2 DEF StoreView, Publish, Whole, Exists, FilesOf, Pieces
  <1>7. ASSUME NEW j \in Keys, j # key[u] PROVE StoreView'[j] = StoreView[j]
    <2>1. final'[j] = final[j]
      BY <1>1, <1>2, <1>7
    <2> QED BY <1>1, <2>1, ViewOfKey
  <1>8. StoreView' = [StoreView EXCEPT ![key[u]] = u]
    BY <1>1, <1>6, <1>7, ViewType
  <1> QED BY <1>1, <1>3, <1>4, <1>8 DEF Store!Put

\* The delete in progress works on the directory at its key and on no other.
LEMMA RemovedDirectory ==
  ASSUME Layout, ~LockFree
  PROVE  /\ removal.key \in Keys
         /\ final[removal.key] = removal.dir
         /\ removal.dir \in Uploads
         /\ \A j \in Keys \ {removal.key} : final[j] # removal.dir
  <1>1. /\ removal.key \in Keys /\ removal.dir # NoUpload
        /\ final[removal.key] = removal.dir
    BY DEF Layout, NoStrayFiles
  <1>2. removal.dir \in Uploads
    BY <1>1 DEF Layout, TypeOK
  <1> QED BY <1>1, <1>2, OwnDirectory

LEMMA StartRemoveDeletes ==
  ASSUME ViewInv, NEW k \in Keys, StartRemove(k)
  PROVE  Store!StartDelete(k)
  <1>1. UNCHANGED <<final, files, meta, count>>
    BY DEF StartRemove
  <1>2. StoreView' = StoreView
    BY <1>1, ViewOfKey, ViewType
  <1>3. StoreView[k] # "absent"
    <2>1. Exists(k) /\ final[k] \in Uploads
      BY DEF StartRemove, Exists, ViewInv, Layout, TypeOK
    <2> QED BY <2>1, ViewConstants DEF StoreView
  <1>4. removal.key = NoKey /\ removal'.key = k
    BY DEF StartRemove, LockFree, NoRemoval
  <1> QED BY <1>2, <1>3, <1>4 DEF Store!StartDelete

\* A version that lost a chunk file is not whole, and never reads as whole.
LEMMA RemoveFileTakes ==
  ASSUME ViewInv, RemoveFile
  PROVE  \/ removal.key \in Keys /\ Store!Take(removal.key)
         \/ UNCHANGED <<StoreView, removal.key>>
  <1> DEFINE k == removal.key
             d == removal.dir
  <1>1. /\ k \in Keys /\ final[k] = d /\ d \in Uploads
        /\ \A j \in Keys \ {k} : final[j] # d
    BY RemovedDirectory DEF ViewInv, RemoveFile
  <1>2. PICK f \in FilesOf(d) : files' = files \ {f}
    BY DEF RemoveFile
  <1>3. UNCHANGED <<final, meta, count, removal>>
    BY DEF RemoveFile
  <1>4. ASSUME NEW j \in Keys, j # k PROVE StoreView'[j] = StoreView[j]
    <2>1. {g \in files' : g[1] = final[j]} = {g \in files : g[1] = final[j]}
      BY <1>1, <1>2, <1>4 DEF FilesOf
    <2> QED BY <1>3, <2>1, ViewOfKey
  <1>5. CASE ~Exists(k)
    <2>1. StoreView'[k] = StoreView[k]
      BY <1>1, <1>3, <1>5 DEF StoreView, Exists
    <2> QED BY <1>3, <1>4, <2>1, ViewType
  <1>6. CASE Exists(k)
    <2>1. f \in Pieces(d) /\ f[2] <= count[d] /\ f \notin files'
      BY <1>2 DEF FilesOf, ViewInv, Contents, Layout, TypeOK, AllPieces, Pieces
    <2>2. ~Whole(d)'
      BY <1>3, <2>1 DEF Whole, FilesOf, Pieces
    <2>3. StoreView'[k] = "damaged"
      BY <1>1, <1>3, <1>6, <2>2 DEF StoreView, Exists
    <2>4. StoreView[k] # "absent"
      BY <1>1, <1>6, ViewConstants DEF StoreView
    <2>5. StoreView' = [StoreView EXCEPT ![k] = "damaged"]
      BY <1>1, <1>4, <2>3, ViewType
    <2> QED BY <1>1, <1>3, <2>4, <2>5 DEF Store!Take
  <1> QED BY <1>5, <1>6

LEMMA RemoveMetaTakes ==
  ASSUME ViewInv, RemoveMeta
  PROVE  removal.key \in Keys /\ Store!Take(removal.key)
  <1> DEFINE k == removal.key
             d == removal.dir
  <1>1. /\ k \in Keys /\ final[k] = d
        /\ \A j \in Keys \ {k} : final[j] # d
    BY RemovedDirectory DEF ViewInv, RemoveMeta
  <1>2. /\ UNCHANGED <<final, files, count, removal>> /\ meta' = meta \ {d}
    BY DEF RemoveMeta
  <1>3. StoreView'[k] = "absent"
    BY <1>1, <1>2 DEF StoreView, Exists
  <1>4. ASSUME NEW j \in Keys, j # k PROVE StoreView'[j] = StoreView[j]
    BY <1>1, <1>2, <1>4, ViewOfKey
  <1>5. StoreView' = [StoreView EXCEPT ![k] = "absent"]
    BY <1>1, <1>3, <1>4, ViewType
  <1> QED BY <1>1, <1>2, <1>5 DEF Store!Take

\* The end of a delete, however it ends, and a restart show nothing new.
LEMMA DeleteEnds ==
  ASSUME ViewInv, FinishRemove \/ RemoveFails \/ CrashRestart
  PROVE  Store!EndDelete
  <1>1. removal'.key = NoKey
    BY DEF FinishRemove, RemoveFails, CrashRestart, NoRemoval
  <1>2. final \in [Keys -> Uploads \cup {NoUpload}]
    BY DEF ViewInv, Layout, TypeOK
  <1>3. ASSUME NEW k \in Keys PROVE StoreView'[k] = StoreView[k]
    <2>1. CASE FinishRemove
      <3>1. /\ removal.key \in Keys /\ final[removal.key] \notin meta
            /\ final' = [final EXCEPT ![removal.key] = NoUpload]
            /\ UNCHANGED <<files, meta, count>>
        BY <2>1, RemovedDirectory DEF FinishRemove, ViewInv
      <3>2. CASE k = removal.key
        BY <1>2, <3>1, <3>2 DEF StoreView, Exists
      <3>3. CASE k # removal.key
        BY <1>2, <3>1, <3>3, ViewOfKey
      <3> QED BY <3>2, <3>3
    <2>2. CASE RemoveFails
      BY <2>2, ViewOfKey DEF RemoveFails
    <2>3. CASE CrashRestart
      <3>1. final[k] # NoUpload => final[k] \in InPlace
        BY InPlaceMember
      <3>2. UNCHANGED <<final, count>> /\ files' = Kept /\ meta' = meta \cap InPlace
        BY <2>3 DEF CrashRestart
      <3> QED BY <3>1, <3>2, ViewOfKey DEF Kept
    <2> QED BY <2>1, <2>2, <2>3
  <1> QED BY <1>1, <1>3, ViewType DEF Store!EndDelete

LEMMA RefinementStep ==
  ASSUME ViewInv, [Next]_vars
  PROVE  [Store!Next]_<<StoreView, removal.key>>
  <1>1. ASSUME NEW u \in Uploads, UploadStep(u) \/ DiscardFails(u)
        PROVE  [Store!Next]_<<StoreView, removal.key>>
    BY <1>1, UploadInvisible, PublishPuts DEF Store!Next
  <1>2. ASSUME NEW k \in Keys, StartRemove(k)
        PROVE  Store!Next
    BY <1>2, StartRemoveDeletes DEF Store!Next
  <1>3. CASE RemoveStep \/ RemoveFails \/ CrashRestart
    BY <1>3, RemoveFileTakes, RemoveMetaTakes, DeleteEnds DEF RemoveStep, Store!Next
  <1>4. CASE UNCHANGED vars
    <2>1. UNCHANGED <<final, files, meta, count, removal>>
      BY <1>4 DEF vars
    <2> QED BY <2>1, ViewOfKey, ViewType
  <1> QED BY <1>1, <1>2, <1>3, <1>4 DEF Next, Fault

\* The engine implements the abstract store, crashes and failed removals
\* included: every client sees whole, immutable versions that appear at once,
\* are never overwritten, and are damaged only by a delete of their own key.
THEOREM EngineImplementsObjectStore == Spec => ImplementsObjectStore
  <1>1. Init => Store!Init
    BY DEF Init, Store!Init, StoreView, Exists, NoRemoval
  <1>2. ViewInv /\ [Next]_vars => [Store!Next]_<<StoreView, removal.key>>
    BY RefinementStep
  <1> QED
    BY <1>1, <1>2, ContentsInvariant, PTL
    DEF Spec, ImplementsObjectStore, Store!Spec
=============================================================================
