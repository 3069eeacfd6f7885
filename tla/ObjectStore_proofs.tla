------------------------ MODULE ObjectStore_proofs ------------------------
(***************************************************************************)
(* Proofs about ObjectStore for every value of its constants.              *)
(***************************************************************************)
EXTENDS ObjectStore, FiniteSetTheorems, TLAPS

USE DEF uploadVars, chunkVars, manVars, tombVars, fileVars, workerVars,
        readerVars, leaseVars, modeVars

-----------------------------------------------------------------------------
(* Arithmetic and finite sets. *)

(* Products of naturals, which charge and release bytes, are naturals. *)
LEMMA ProductNat == \A a, b \in Nat : a * b \in Nat
  OBVIOUS

(* A decremented counter stays a natural. *)
LEMMA MinusNat == \A a, b \in Nat : Minus(a, b) \in Nat
  BY DEF Minus

(* Any set of manifests, objects or uploads has a cardinality. *)
LEMMA CardinalityNat ==
  ASSUME NEW S, NEW T \in {Uploads, Objects, Manifests}, S \subseteq T
  PROVE  IsFiniteSet(S) /\ Cardinality(S) \in Nat
<1>1. IsFiniteSet(T)
  BY SetsAssumption
<1>2. IsFiniteSet(S)
  BY <1>1, FS_Subset
<1> QED
  BY <1>2, FS_CardinalityType

(* What a publication charges is a natural. *)
LEMMA ActualBytesNat ==
  ASSUME NEW b \in SUBSET Manifests
  PROVE  ActualBytes(b) \in Nat
<1> DEFINE N == NewManifests(b)
           C == {o \in Objects : refcount[o] = 0 /\ NewReferences(b, o) # {}}
<1>1. N \subseteq Manifests
  BY DEF NewManifests
<1>2. Cardinality(N) \in Nat
  BY <1>1, CardinalityNat
<1>3. C \subseteq Objects
  OBVIOUS
<1>4. Cardinality(C) \in Nat
  BY <1>3, CardinalityNat
<1>5. ManifestBytes * Cardinality(N) \in Nat /\ ChunkBytes * Cardinality(C) \in Nat
  BY <1>2, <1>4, ProductNat, SizesAssumption
<1>6. ActualBytes(b) = ManifestBytes * Cardinality(N) + ChunkBytes * Cardinality(C)
  BY DEF ActualBytes
<1> HIDE DEF N, C
<1> QED
  BY <1>5, <1>6

-----------------------------------------------------------------------------
(* Types. *)

(* The initial catalog is well typed. *)
LEMMA InitTyped == Init => TypeOK
<1> SUFFICES ASSUME Init PROVE TypeOK
  OBVIOUS
<1>1. IdleJob \in Jobs
  BY DEF IdleJob, Jobs
<1> QED
  BY <1>1, SizesAssumption DEF Init, TypeOK, UploadStates, ChunkStates

(* Audit rows are taken from what is left. *)
LEMMA TakeTyped ==
  ASSUME TypeOK, NEW n \in Nat, TakeAuditRows(n)
  PROVE  room' \in 0 .. AuditRoom
BY SizesAssumption DEF TypeOK, TakeAuditRows

(* Every step of an upload thread keeps the types. *)
LEMMA UploadTyped ==
  ASSUME TypeOK, NEW u \in Uploads, UploadStep(u)
  PROVE  TypeOK'
<1> USE SetsAssumption, SizesAssumption, DataAssumption DEF TypeOK, UploadStates, ChunkStates
<1>1. CASE ReserveUpload(u)
  BY <1>1 DEF ReserveUpload
<1>2. CASE MarkReceiving(u)
  BY <1>2 DEF MarkReceiving
<1>3. CASE SealUpload(u)
  BY <1>3 DEF SealUpload
<1>4. CASE AbortUpload(u)
  <2>1. room' \in 0 .. AuditRoom
    BY <1>4, TakeTyped DEF AbortUpload
  <2> QED
    BY <1>4, <2>1, MinusNat DEF AbortUpload
<1>5. CASE QuarantineUpload(u)
  BY <1>5, MinusNat DEF QuarantineUpload
<1>6. ASSUME NEW o \in Objects, FindChunk(u, o)
      PROVE  TypeOK'
  <2>0. UNCHANGED <<uploadVars, durable, chunkVars, manVars, tombVars, fileVars,
                    batch, job, readerVars, leaseVars, modeVars>>
    BY <1>6 DEF FindChunk
  <2>1. ASSUME NEW c \in Objects, got' = [got EXCEPT ![u] = @ \cup {c}],
               UNCHANGED <<pc, cur>>
        PROVE  TypeOK'
    BY <2>0, <2>1
  <2>2. CASE /\ pc' = [pc EXCEPT ![u] = "write"] /\ cur' = [cur EXCEPT ![u] = o]
             /\ UNCHANGED got
    BY <2>0, <2>2
  <2> QED
    BY <1>6, <2>1, <2>2 DEF FindChunk
<1>7. ASSUME NEW o \in Objects, ImportChunk(u, o)
      PROVE  TypeOK'
  BY <1>7 DEF ImportChunk
<1>8. CASE WriteImmutable(u)
  <2>1. cur[u] \in Objects
    BY <1>8 DEF WriteImmutable
  <2> QED
    BY <1>8, <2>1 DEF WriteImmutable
<1>9. CASE CatalogChunks(u)
  <2>1. cur[u] \in Objects
    BY <1>9 DEF CatalogChunks
  <2>2. RowsOfContent(ContentOf[cur[u]]) \subseteq Objects
    BY DEF RowsOfContent
  <2>3. CASE RowsOfContent(ContentOf[cur[u]]) = {}
    <3>1. /\ chunk' = [chunk EXCEPT ![cur[u]] = "AVAILABLE"]
          /\ rung' = [rung EXCEPT ![cur[u]] = 0]
          /\ refcount' = [refcount EXCEPT ![cur[u]] = 0]
          /\ got' = [got EXCEPT ![u] = @ \cup {cur[u]}]
          /\ pc' = [pc EXCEPT ![u] = "idle"]
          /\ cur' = [cur EXCEPT ![u] = NoObject]
          /\ UNCHANGED <<uploadVars, durable, manVars, tombVars, fileVars, batch,
                         job, readerVars, leaseVars, modeVars>>
      BY <1>9, <2>3 DEF CatalogChunks
    <3> QED
      BY <2>1, <3>1
  <2>4. ASSUME NEW c \in RowsOfContent(ContentOf[cur[u]]),
               got' = [got EXCEPT ![u] = @ \cup {c}], UNCHANGED chunkVars,
               \/ pc' = [pc EXCEPT ![u] = "discard"] /\ UNCHANGED cur
               \/ /\ pc' = [pc EXCEPT ![u] = "idle"]
                  /\ cur' = [cur EXCEPT ![u] = NoObject]
        PROVE  TypeOK'
    <3>1. UNCHANGED <<uploadVars, durable, manVars, tombVars, fileVars, batch, job,
                      readerVars, leaseVars, modeVars>>
      BY <1>9 DEF CatalogChunks
    <3>2. CASE pc' = [pc EXCEPT ![u] = "discard"] /\ UNCHANGED cur
      BY <2>1, <2>2, <2>4, <3>1, <3>2
    <3>3. CASE /\ pc' = [pc EXCEPT ![u] = "idle"]
               /\ cur' = [cur EXCEPT ![u] = NoObject]
      BY <2>1, <2>2, <2>4, <3>1, <3>3
    <3> QED
      BY <2>4, <3>2, <3>3
  <2> QED
    BY <1>9, <2>3, <2>4 DEF CatalogChunks
<1>10. CASE QuarantineObject(u)
  BY <1>10 DEF QuarantineObject
<1>11. CASE UploadThreadFails(u)
  BY <1>11 DEF UploadThreadFails
<1>12. ASSUME NEW b \in SUBSET Manifests, BuildManifests(u, b)
       PROVE  TypeOK'
  BY <1>12 DEF BuildManifests
<1>13. CASE WriteManifests(u)
  BY <1>13 DEF WriteManifests
<1>14. CASE PublishManifestBatch(u)
  <2> DEFINE b == batch[u]
  <2> USE <1>14 DEF PublishManifestBatch
  <2>1. b \in SUBSET Manifests
    OBVIOUS
  <2>2. reserved' \in Nat /\ durable' \in Nat
    <3>1. ActualBytes(b) \in Nat
      BY <2>1, ActualBytesNat
    <3>2. Minus(reserved, held[u]) \in Nat
      BY MinusNat
    <3> QED
      BY <3>1, <3>2
  <2>3. refcount' \in [Objects -> Nat]
    <3>1. \A o \in Objects : NewReferences(b, o) \subseteq Manifests
      BY <2>1 DEF NewReferences, NewManifests
    <3>2. \A o \in Objects : Cardinality(NewReferences(b, o)) \in Nat
      BY <3>1, CardinalityNat
    <3> QED
      BY <3>2
  <2>4. prefix' \in [Prefixes -> Manifests \cup {NoManifest}]
    BY <2>1
  <2>5. refs' \in [Manifests -> SUBSET Objects]
    OBVIOUS
  <2>6. man' \in [Manifests -> {"ABSENT", "AVAILABLE", "EVICTING"}]
    OBVIOUS
  <2> QED
    BY <2>2, <2>3, <2>4, <2>5, <2>6
<1> QED
  BY <1>1, <1>2, <1>3, <1>4, <1>5, <1>6, <1>7, <1>8, <1>9, <1>10, <1>11, <1>12,
     <1>13, <1>14 DEF UploadStep

(* What gc and the ladder release is a natural. *)
LEMMA ReleaseNat ==
  ASSUME NEW S \in SUBSET Objects
  PROVE  ChunkBytes * Cardinality(S) \in Nat
<1>1. Cardinality(S) \in Nat
  BY CardinalityNat
<1> QED
  BY <1>1, ProductNat, SizesAssumption

(* Every step of a maintenance thread keeps the types. *)
LEMMA MaintenanceTyped ==
  ASSUME TypeOK, NEW e \in Evictors, MaintenanceStep(e)
  PROVE  TypeOK'
<1> USE SizesAssumption DEF TypeOK, ChunkStates
<1>0. /\ job[e] \in Jobs /\ IdleJob \in Jobs
      /\ job[e].todo \in SUBSET Objects /\ job[e].done \in SUBSET Objects
      /\ job[e].target \in Manifests \cup {NoManifest}
  BY DEF Jobs, IdleJob
<1>1. ASSUME NEW m \in Manifests, EvictManifest(e, m)
      PROVE  TypeOK'
  <2>1. [IdleJob EXCEPT !.op = "evict", !.target = m] \in Jobs
    BY DEF IdleJob, Jobs
  <2>2. RefcountWithout(m) \in [Objects -> Nat]
    BY MinusNat DEF RefcountWithout
  <2> QED
    BY <1>1, <2>1, <2>2 DEF EvictManifest
<1>2. CASE MoveManifest(e)
  <2>1. [job[e] EXCEPT !.op = "evicted"] \in Jobs
    BY <1>0 DEF Jobs
  <2> QED
    BY <1>2, <2>1 DEF MoveManifest
<1>3. CASE FinishManifestEviction(e)
  BY <1>3, <1>0, MinusNat DEF FinishManifestEviction, DropManifestRow
<1>4. ASSUME NEW victims \in SUBSET Objects, GcSelect(e, victims)
      PROVE  TypeOK'
  <2> DEFINE spent == {o \in victims : chunk[o] = "TOMBSTONED"}
  <2>1. [IdleJob EXCEPT !.op = "gc", !.todo = victims, !.spent = spent] \in Jobs
    BY DEF IdleJob, Jobs
  <2> HIDE DEF spent
  <2>2. job' = [job EXCEPT ![e] = [IdleJob EXCEPT !.op = "gc", !.todo = victims,
                                                 !.spent = spent]]
    BY <1>4 DEF GcSelect, spent
  <2>3. job' \in [Evictors -> Jobs]
    BY <2>1, <2>2
  <2> QED
    BY <1>4, <2>3 DEF GcSelect
<1>5. ASSUME NEW o \in Objects, GcMove(e, o)
      PROVE  TypeOK'
  <2>1. job' \in [Evictors -> Jobs]
    <3>1. [job[e] EXCEPT !.todo = @ \ {o}] \in Jobs
      BY <1>0 DEF Jobs
    <3>2. [job[e] EXCEPT !.todo = @ \ {o}, !.done = @ \cup {o}] \in Jobs
      BY <1>0, ZenonT(60) DEF Jobs
    <3>3. \/ job' = [job EXCEPT ![e] = [job[e] EXCEPT !.todo = @ \ {o}]]
          \/ job' = [job EXCEPT ![e] = [job[e] EXCEPT !.todo = @ \ {o},
                                                     !.done = @ \cup {o}]]
      BY <1>5 DEF GcMove
    <3> QED
      BY <3>1, <3>2, <3>3
  <2> QED
    BY <1>5, <2>1 DEF GcMove
<1>6. CASE GcFinish(e)
  <2>1. Deletable(job[e].done) \ job[e].spent \in SUBSET Objects
    BY <1>0 DEF Deletable
  <2>2. durable' \in Nat
    BY <1>6, <2>1, ReleaseNat, MinusNat DEF GcFinish
  <2> QED
    BY <1>6, <1>0, <2>2 DEF GcFinish, DropChunkRows
<1>7. CASE MaintenanceFails(e)
  BY <1>7, <1>0 DEF MaintenanceFails
<1>8. ASSUME NEW victims \in SUBSET Objects, DemoteSelect(e, victims)
      PROVE  TypeOK'
  <2> DEFINE low == {o \in victims : rung[o] = 1}
             top == {o \in victims : rung[o] = 0}
  <2>1. [IdleJob EXCEPT !.op = "demote", !.todo = low, !.done = top] \in Jobs
    BY DEF IdleJob, Jobs
  <2>2. job' = [job EXCEPT ![e] = [IdleJob EXCEPT !.op = "demote", !.todo = low,
                                                 !.done = top]]
    BY <1>8 DEF DemoteSelect
  <2> HIDE DEF low, top
  <2>3. job' \in [Evictors -> Jobs]
    BY <2>1, <2>2
  <2> QED
    BY <1>8, <2>3 DEF DemoteSelect
<1>9. CASE DemoteUpdate(e)
  <2>1. [job[e] EXCEPT !.op = "unlink"] \in Jobs
    BY <1>0 DEF Jobs
  <2>2. {o \in job[e].todo : rung[o] = 1 /\ chunk[o] = "AVAILABLE"} \in SUBSET Objects
    BY <1>0
  <2>3. durable' \in Nat
    BY <1>9, <2>2, ReleaseNat, MinusNat DEF DemoteUpdate
  <2>4. job' \in [Evictors -> Jobs]
    BY <1>9, <2>1 DEF DemoteUpdate
  <2> QED
    BY <1>9, <2>3, <2>4 DEF DemoteUpdate
<1>10. CASE DemoteUnlink(e)
  BY <1>10, <1>0 DEF DemoteUnlink
<1> QED
  BY <1>1, <1>2, <1>3, <1>4, <1>5, <1>6, <1>7, <1>8, <1>9, <1>10 DEF MaintenanceStep

(* Every step of a reader keeps the types. *)
LEMMA ReaderTyped ==
  ASSUME TypeOK, NEW r \in Readers, ReaderStep(r)
  PROVE  TypeOK'
  BY DEF TypeOK, ReaderStep, ReadManifest, PinChunkRows, OpenChunkFiles, ReleasePins

(* So does the deletion of a prefix checkpoint. *)
LEMMA DeletePrefixTyped ==
  ASSUME TypeOK, NEW p \in Prefixes, DeletePrefix(p)
  PROVE  TypeOK'
  BY DEF TypeOK, DeletePrefix

(* Every step of a source lease keeps the types. *)
LEMMA LeaseTyped ==
  ASSUME TypeOK, NEW l \in Leases, LeaseStep(l)
  PROVE  TypeOK'
  BY ZenonT(60) DEF TypeOK, LeaseStep, AcquireSourceLease, SourceLeaseExpires,
         ReattachSourceLease, ReleaseSourceLease

(* A crash and every step of the recovery after it keep the types. *)
LEMMA RecoveryTyped ==
  ASSUME TypeOK, Crash \/ RecoveryStep
  PROVE  TypeOK'
<1> USE SizesAssumption DEF TypeOK, ChunkStates
<1>1. CASE Crash
  <2>1. IdleJob \in Jobs
    BY DEF IdleJob, Jobs
  <2> QED
    BY <1>1, <2>1 DEF Crash
<1>2. CASE Reopen
  BY <1>2 DEF Reopen
<1>3. CASE PruneOverdue \/ OpenRefused \/ StoreOpened
  <2>1. room' \in 0 .. AuditRoom /\ overdue' \in 0 .. MaxOverdue
    BY <1>3, TakeTyped DEF PruneOverdue, OpenRefused, StoreOpened
  <2> QED
    BY <1>3, <2>1 DEF PruneOverdue, OpenRefused, StoreOpened
<1>4. ASSUME NEW m \in Manifests, ReconcileManifest(m)
      PROVE  TypeOK'
  <2>1. durable' \in Nat
    <3>1. Minus(durable, ManifestBytes) \in Nat
      BY MinusNat
    <3> QED
      BY <1>4, <3>1 DEF ReconcileManifest, DropManifestRow
  <2>2. CASE m \in mfile
    BY <1>4, <2>1, <2>2 DEF ReconcileManifest
  <2>3. room' \in 0 .. AuditRoom
    BY <1>4, TakeTyped DEF ReconcileManifest
  <2>4. CASE m \notin mfile
    BY <1>4, <2>1, <2>3, <2>4 DEF ReconcileManifest, DropManifestRow
  <2> QED
    BY <2>2, <2>4
<1>5. ASSUME NEW o \in Objects, ReconcileChunk(o)
      PROVE  TypeOK'
  <2>1. durable' \in Nat
    <3>1. Minus(durable, ChunkBytes) \in Nat
      BY MinusNat
    <3> QED
      BY <1>5, <3>1 DEF ReconcileChunk
  <2>2. CASE o \in cfile
    BY <1>5, <2>1, <2>2 DEF ReconcileChunk
  <2>3. room' \in 0 .. AuditRoom
    BY <1>5, TakeTyped DEF ReconcileChunk
  <2>4. CASE o \notin cfile
    BY <1>5, <2>1, <2>3, <2>4 DEF ReconcileChunk, DropChunkRows
  <2> QED
    BY <2>2, <2>4
<1> QED
  BY <1>1, <1>2, <1>3, <1>4, <1>5 DEF RecoveryStep

(* Every variable of the store keeps its type: no counter goes below zero, a
   thread that is putting an object has one, and no job names a foreign row. *)
THEOREM TypeCorrect == Spec => []TypeOK
<1>1. TypeOK /\ [Next]_vars => TypeOK'
  <2> SUFFICES ASSUME TypeOK, [Next]_vars PROVE TypeOK'
    OBVIOUS
  <2>1. CASE UNCHANGED vars
    BY <2>1 DEF vars, TypeOK
  <2> QED
    BY <2>1, UploadTyped, MaintenanceTyped, ReaderTyped, LeaseTyped,
         RecoveryTyped, DeletePrefixTyped
    DEF Next
<1> QED
  BY <1>1, InitTyped, PTL DEF Spec

-----------------------------------------------------------------------------
(* References. *)

(* The manifests whose manifest_chunks rows name o. *)
ReferencedBy(o) == {m \in Manifests : o \in refs[m]}

(* A thread that demotes was started with the fidelity ladder. *)
DemotionIsLadder ==
    \A e \in Evictors : job[e].op \in {"demote", "unlink"} => Ladder

(* RefcountExact is not inductive alone: catalog_chunks restarts a count at zero,
   which is right only because a referenced chunk never loses its row, and that
   is kept only because a count of zero means that nobody references the chunk. *)
RefInv ==
    /\ TypeOK
    /\ RefcountExact
    /\ ReferencedChunksKept
    /\ DemotionIsLadder

(* A chunk nobody references counts zero, and only such a chunk does. *)
LEMMA ZeroIffUnreferenced ==
  ASSUME NEW o \in Objects, RefcountExact
  PROVE  refcount[o] = 0 <=> \A m \in Manifests : o \notin refs[m]
<1>1. IsFiniteSet(ReferencedBy(o))
  BY CardinalityNat DEF ReferencedBy
<1>2. Cardinality(ReferencedBy(o)) = 0 <=> ReferencedBy(o) = {}
  BY <1>1, FS_EmptySet
<1>3. refcount[o] = Cardinality(ReferencedBy(o))
  BY DEF RefcountExact, ReferencedBy
<1> QED
  BY <1>2, <1>3 DEF ReferencedBy

(* A step that touches neither rows, counts nor references keeps both. *)
LEMMA ReferencesFrame ==
  ASSUME RefcountExact, ReferencedChunksKept, UNCHANGED <<chunk, refcount, refs>>
  PROVE  RefcountExact' /\ ReferencedChunksKept'
  BY DEF RefcountExact, ReferencedChunksKept

(* Chunks that are on their way out, or absent, may change state freely. *)
LEMMA UnreferencedStateChange ==
  ASSUME RefcountExact, ReferencedChunksKept, UNCHANGED <<refcount, refs>>,
         \A o \in Objects : chunk'[o] # chunk[o] =>
            refcount[o] = 0 \/ chunk[o] \in {"EVICTING", "TRASHED"},
         refs \in [Manifests -> SUBSET Objects]
  PROVE  RefcountExact' /\ ReferencedChunksKept'
<1>1. RefcountExact'
  BY DEF RefcountExact
<1>2. ASSUME NEW m \in Manifests, NEW o \in refs[m]
      PROVE  chunk'[o] = "AVAILABLE" \/ (Ladder /\ chunk'[o] = "TOMBSTONED")
  <2>1. o \in Objects
    OBVIOUS
  <2>2. refcount[o] # 0
    BY <2>1, ZeroIffUnreferenced
  <2> QED
    BY <2>1, <2>2 DEF ReferencedChunksKept
<1>3. ReferencedChunksKept'
  BY <1>2 DEF ReferencedChunksKept
<1> QED
  BY <1>1, <1>3

(* catalog_chunks inserts a row with count zero for a chunk that has none. *)
LEMMA CatalogKeepsReferences ==
  ASSUME RefInv, NEW u \in Uploads, CatalogChunks(u)
  PROVE  RefcountExact' /\ ReferencedChunksKept'
<1> USE DEF RefInv
<1> DEFINE o == cur[u]
<1>1. CASE UNCHANGED chunkVars
  BY <1>1, ReferencesFrame DEF CatalogChunks
<1>2. CASE RowsOfContent(ContentOf[o]) = {}
  <2>1. o \in Objects
    BY SMTT(40) DEF CatalogChunks, TypeOK
  <2>2. chunk[o] = "ABSENT"
    BY <1>2, <2>1 DEF RowsOfContent
  <2>3. /\ chunk' = [chunk EXCEPT ![o] = "AVAILABLE"]
        /\ refcount' = [refcount EXCEPT ![o] = 0]
        /\ UNCHANGED refs
    BY <1>2 DEF CatalogChunks
  <2>4. \A m \in Manifests : o \notin refs[m]
    BY <2>2 DEF ReferencedChunksKept
  <2>5. refcount[o] = 0
    BY <2>1, <2>4, ZeroIffUnreferenced
  <2>6. refcount' = refcount
    BY <2>3, <2>5 DEF TypeOK
  <2>7. RefcountExact'
    BY <2>3, <2>6 DEF RefcountExact
  <2>8. ReferencedChunksKept'
    BY <2>1, <2>3 DEF ReferencedChunksKept, TypeOK
  <2> QED
    BY <2>7, <2>8
<1> QED
  BY <1>1, <1>2 DEF CatalogChunks

(* A publication adds its new manifests to the references of each chunk they
   name and as many to its count: their manifest_chunks rows were not there. *)
LEMMA PublishKeepsReferences ==
  ASSUME RefInv, NEW u \in Uploads, PublishManifestBatch(u)
  PROVE  RefcountExact' /\ ReferencedChunksKept'
<1> USE DataAssumption DEF RefInv
<1> DEFINE b == batch[u]
<1>1. /\ \A m \in NewManifests(b) : refs[m] = {} /\ \A o \in ChunksOf[m] : Publishable(o)
      /\ refs' = [m \in Manifests |-> IF m \in NewManifests(b) THEN ChunksOf[m] ELSE refs[m]]
      /\ refcount' = [o \in Objects |-> refcount[o] + Cardinality(NewReferences(b, o))]
      /\ chunk' = chunk
  BY DEF PublishManifestBatch
<1>2. NewManifests(b) \subseteq Manifests
  BY DEF NewManifests, TypeOK
<1> HIDE DEF b
<1>3. ASSUME NEW o \in Objects
      PROVE  refcount'[o] = Cardinality({m \in Manifests : o \in refs'[m]})
  <2> DEFINE New == NewReferences(b, o)
             Old == ReferencedBy(o)
  <2>1. New \subseteq Manifests /\ Old \subseteq Manifests
    BY <1>2 DEF NewReferences, ReferencedBy
  <2>2. IsFiniteSet(New) /\ IsFiniteSet(Old)
    BY <2>1, CardinalityNat
  <2>3. New \cap Old = {}
    BY <1>1 DEF NewReferences, ReferencedBy
  <2>4. {m \in Manifests : o \in refs'[m]} = Old \cup New
    BY <1>1, <1>2 DEF NewReferences, ReferencedBy
  <2>5. refcount[o] = Cardinality(Old)
    BY DEF RefcountExact, ReferencedBy
  <2> HIDE DEF New, Old
  <2>6. Cardinality(Old \cup New) = Cardinality(Old) + Cardinality(New)
    <3>1. Cardinality(Old \cup New) =
            Cardinality(Old) + Cardinality(New) - Cardinality(Old \cap New)
      BY <2>2, FS_Union
    <3>2. Old \cap New = {}
      BY <2>3
    <3>3. Cardinality(Old \cap New) = 0
      BY <3>2, FS_EmptySet
    <3>4. Cardinality(Old) \in Nat /\ Cardinality(New) \in Nat
      BY <2>2, FS_CardinalityType
    <3> QED
      BY <3>1, <3>3, <3>4
  <2>7. refcount'[o] = refcount[o] + Cardinality(New)
    BY <1>1 DEF New
  <2> QED
    BY <2>4, <2>5, <2>6, <2>7
<1>4. RefcountExact'
  BY <1>3 DEF RefcountExact
<1>5. ReferencedChunksKept'
  BY <1>1 DEF ReferencedChunksKept, Publishable
<1> QED
  BY <1>4, <1>5

(* An eviction takes the manifest out of the references of each of its chunks
   and one off its count, which therefore never meets the clamp at zero. *)
LEMMA EvictKeepsReferences ==
  ASSUME RefInv, NEW e \in Evictors, NEW m \in Manifests, EvictManifest(e, m)
  PROVE  RefcountExact' /\ ReferencedChunksKept'
<1> USE DEF RefInv
<1>1. /\ refs' = [refs EXCEPT ![m] = {}]
      /\ refcount' = RefcountWithout(m)
      /\ chunk' = chunk
  BY DEF EvictManifest
<1>2. ASSUME NEW o \in Objects
      PROVE  refcount'[o] = Cardinality({n \in Manifests : o \in refs'[n]})
  <2> DEFINE Old == ReferencedBy(o)
             New == {n \in Manifests : o \in refs'[n]}
  <2>1. IsFiniteSet(Old)
    BY CardinalityNat DEF ReferencedBy
  <2>2. New = Old \ {m}
    BY <1>1 DEF ReferencedBy, TypeOK
  <2>3. refcount[o] = Cardinality(Old)
    BY DEF RefcountExact, ReferencedBy
  <2>4. Cardinality(Old) \in Nat
    BY <2>1, FS_CardinalityType
  <2>5. refcount'[o] = IF o \in refs[m] THEN Minus(refcount[o], 1) ELSE refcount[o]
    BY <1>1 DEF RefcountWithout
  <2>6. m \in Old <=> o \in refs[m]
    BY DEF ReferencedBy
  <2> HIDE DEF Old, New
  <2>7. CASE o \in refs[m]
    <3>1. Cardinality(Old \ {m}) = Cardinality(Old) - 1
      BY <2>1, <2>6, <2>7, FS_RemoveElement
    <3>2. Cardinality(Old) # 0
      BY <2>1, <2>6, <2>7, FS_EmptySet
    <3>3. refcount'[o] = Cardinality(Old) - 1
      BY <2>3, <2>4, <2>5, <2>7, <3>2 DEF Minus
    <3> QED
      BY <2>2, <3>1, <3>3 DEF New
  <2>8. CASE o \notin refs[m]
    <3>1. Old \ {m} = Old
      BY <2>6, <2>8
    <3> QED
      BY <2>2, <2>3, <2>5, <2>8, <3>1 DEF New
  <2> QED
    BY <2>7, <2>8
<1>3. RefcountExact'
  BY <1>2 DEF RefcountExact
<1>4. ReferencedChunksKept'
  BY <1>1 DEF ReferencedChunksKept, TypeOK
<1> QED
  BY <1>3, <1>4

(* No step of an upload thread puts a count out of step with the references. *)
LEMMA UploadKeepsReferences ==
  ASSUME RefInv, NEW u \in Uploads, UploadStep(u)
  PROVE  RefcountExact' /\ ReferencedChunksKept'
<1> USE DEF RefInv
<1>1. CASE CatalogChunks(u)
  BY <1>1, CatalogKeepsReferences
<1>2. CASE PublishManifestBatch(u)
  BY <1>2, PublishKeepsReferences
<1>3. CASE ~CatalogChunks(u) /\ ~PublishManifestBatch(u)
  <2>1. UNCHANGED <<chunk, refcount, refs>>
    BY <1>3 DEF UploadStep, ReserveUpload, MarkReceiving, SealUpload, AbortUpload,
       QuarantineUpload, FindChunk, ImportChunk, WriteImmutable, QuarantineObject,
       UploadThreadFails, BuildManifests, WriteManifests
  <2> QED
    BY <2>1, ReferencesFrame
<1> QED
  BY <1>1, <1>2, <1>3

(* Dropping moved victims deletes or trashes rows that are on their way out. *)
LEMMA DropKeepsReferences ==
  ASSUME RefInv, NEW moved \in SUBSET Objects, DropChunkRows(moved), UNCHANGED refs
  PROVE  RefcountExact' /\ ReferencedChunksKept'
<1> USE DEF RefInv
<1>1. \A o \in Objects : chunk'[o] # chunk[o] =>
         refcount[o] = 0 \/ chunk[o] \in {"EVICTING", "TRASHED"}
  BY DEF DropChunkRows, Deletable
<1> QED
  BY <1>1, UnreferencedStateChange DEF DropChunkRows, TypeOK

(* Nor does a step of a maintenance thread. *)
LEMMA MaintenanceKeepsReferences ==
  ASSUME RefInv, NEW e \in Evictors, MaintenanceStep(e)
  PROVE  RefcountExact' /\ ReferencedChunksKept'
<1> USE DEF RefInv
<1>1. ASSUME NEW m \in Manifests, EvictManifest(e, m)
      PROVE  RefcountExact' /\ ReferencedChunksKept'
  BY <1>1, EvictKeepsReferences
<1>2. ASSUME NEW victims \in SUBSET Objects, GcSelect(e, victims)
      PROVE  RefcountExact' /\ ReferencedChunksKept'
  <2>1. \A o \in Objects : chunk'[o] # chunk[o] => refcount[o] = 0
    BY <1>2 DEF GcSelect, Collectable
  <2> QED
    BY <1>2, <2>1, UnreferencedStateChange DEF GcSelect, TypeOK
<1>3. CASE GcFinish(e)
  <2>1. job[e].done \in SUBSET Objects
    BY DEF TypeOK, Jobs
  <2> QED
    BY <1>3, <2>1, DropKeepsReferences DEF GcFinish
<1>4. CASE DemoteUpdate(e)
  <2>1. Ladder
    BY <1>4 DEF DemoteUpdate, DemotionIsLadder
  <2>2. UNCHANGED <<refcount, refs>>
    BY <1>4 DEF DemoteUpdate
  <2>3. \A o \in Objects : chunk'[o] = chunk[o] \/ chunk'[o] = "TOMBSTONED"
    BY <1>4 DEF DemoteUpdate
  <2>4. RefcountExact'
    BY <2>2 DEF RefcountExact
  <2>5. ReferencedChunksKept'
    BY <2>1, <2>2, <2>3 DEF ReferencedChunksKept, TypeOK
  <2> QED
    BY <2>4, <2>5
<1>5. CASE \/ MoveManifest(e) \/ FinishManifestEviction(e) \/ MaintenanceFails(e)
           \/ DemoteUnlink(e)
           \/ \E o \in Objects : GcMove(e, o)
           \/ \E victims \in SUBSET Objects : DemoteSelect(e, victims)
  <2>1. UNCHANGED <<chunk, refcount, refs>>
    BY <1>5 DEF MoveManifest, FinishManifestEviction, DropManifestRow,
       MaintenanceFails, DemoteUnlink, GcMove, DemoteSelect
  <2> QED
    BY <2>1, ReferencesFrame
<1> QED
  BY <1>1, <1>2, <1>3, <1>4, <1>5 DEF MaintenanceStep

(* Nor does a crash or the recovery after it. *)
LEMMA RecoveryKeepsReferences ==
  ASSUME RefInv, Crash \/ RecoveryStep
  PROVE  RefcountExact' /\ ReferencedChunksKept'
<1> USE DEF RefInv
<1>1. ASSUME NEW o \in Objects, ReconcileChunk(o)
      PROVE  RefcountExact' /\ ReferencedChunksKept'
  <2>1. CASE o \in cfile
    <3>1. UNCHANGED <<chunk, refcount, refs>>
      BY <1>1, <2>1 DEF ReconcileChunk
    <3> QED
      BY <3>1, ReferencesFrame
  <2>2. CASE o \notin cfile
    <3>1. DropChunkRows({o}) /\ UNCHANGED refs
      BY <1>1, <2>2 DEF ReconcileChunk
    <3> QED
      BY <3>1, DropKeepsReferences
  <2> QED
    BY <2>1, <2>2
<1>2. CASE \/ Crash \/ Reopen \/ PruneOverdue \/ OpenRefused \/ StoreOpened
           \/ \E m \in Manifests : ReconcileManifest(m)
  <2>1. UNCHANGED <<chunk, refcount, refs>>
    BY <1>2 DEF Crash, Reopen, PruneOverdue, OpenRefused, StoreOpened, ReconcileManifest,
       DropManifestRow
  <2> QED
    BY <2>1, ReferencesFrame
<1> QED
  BY <1>1, <1>2 DEF RecoveryStep

(* Only DemoteSelect, which asks for the ladder, starts a demotion. *)
LEMMA DemotionStaysLadder ==
  ASSUME TypeOK, DemotionIsLadder, Next
  PROVE  DemotionIsLadder'
<1> USE DEF DemotionIsLadder, TypeOK
<1>1. ASSUME NEW e \in Evictors, MaintenanceStep(e)
      PROVE  DemotionIsLadder'
  <2>0. job[e] \in Jobs
    OBVIOUS
  <2>1. ASSUME NEW m \in Manifests, EvictManifest(e, m)
        PROVE  DemotionIsLadder'
    BY <2>1 DEF EvictManifest, IdleJob
  <2>2. CASE MoveManifest(e)
    BY <2>0, <2>2 DEF MoveManifest, Jobs
  <2>3. CASE \/ FinishManifestEviction(e) \/ GcFinish(e) \/ MaintenanceFails(e)
             \/ DemoteUnlink(e)
    <3>1. job' = [job EXCEPT ![e] = IdleJob]
      BY <2>3 DEF FinishManifestEviction, GcFinish, MaintenanceFails, DemoteUnlink
    <3> QED
      BY <3>1 DEF IdleJob
  <2>4. ASSUME NEW victims \in SUBSET Objects, GcSelect(e, victims)
        PROVE  DemotionIsLadder'
    BY <2>4 DEF GcSelect, IdleJob
  <2>5. ASSUME NEW o \in Objects, GcMove(e, o)
        PROVE  DemotionIsLadder'
    <3>1. job[e].op = "gc"
      BY <2>5 DEF GcMove
    <3>2. \/ job' = [job EXCEPT ![e] = [job[e] EXCEPT !.todo = @ \ {o}]]
          \/ job' = [job EXCEPT ![e] = [job[e] EXCEPT !.todo = @ \ {o},
                                                     !.done = @ \cup {o}]]
      BY <2>5 DEF GcMove
    <3>3. job'[e].op = "gc"
      <4>1. CASE job' = [job EXCEPT ![e] = [job[e] EXCEPT !.todo = @ \ {o}]]
        BY <2>0, <3>1, <4>1 DEF Jobs
      <4>2. CASE job' = [job EXCEPT ![e] = [job[e] EXCEPT !.todo = @ \ {o},
                                                          !.done = @ \cup {o}]]
        <5>1. job'[e] = [job[e] EXCEPT !.todo = @ \ {o}, !.done = @ \cup {o}]
          BY <4>2
        <5> QED
          BY <2>0, <3>1, <5>1 DEF Jobs
      <4> QED
        BY <3>2, <4>1, <4>2
    <3>4. \A f \in Evictors : f # e => job'[f] = job[f]
      BY <3>2
    <3> QED
      BY <3>3, <3>4
  <2>6. ASSUME NEW victims \in SUBSET Objects, DemoteSelect(e, victims)
        PROVE  DemotionIsLadder'
    BY <2>6 DEF DemoteSelect
  <2>7. CASE DemoteUpdate(e)
    BY <2>7 DEF DemoteUpdate
  <2> QED
    BY <1>1, <2>1, <2>2, <2>3, <2>4, <2>5, <2>6, <2>7 DEF MaintenanceStep
<1>2. CASE Crash
  BY <1>2 DEF Crash, IdleJob
<1>3. CASE \/ RecoveryStep
           \/ \E u \in Uploads : UploadStep(u)
           \/ \E r \in Readers : ReaderStep(r)
           \/ \E l \in Leases : LeaseStep(l)
           \/ \E p \in Prefixes : DeletePrefix(p)
  <2>1. job' = job
    BY <1>3, ZenonT(60) DEF DeletePrefix, RecoveryStep, Reopen, PruneOverdue, OpenRefused,
       StoreOpened, ReconcileManifest, ReconcileChunk,
       UploadStep, ReserveUpload, MarkReceiving, SealUpload, AbortUpload,
       QuarantineUpload, FindChunk, ImportChunk, WriteImmutable, CatalogChunks,
       QuarantineObject, UploadThreadFails, BuildManifests, WriteManifests,
       PublishManifestBatch, ReaderStep, ReadManifest, PinChunkRows, OpenChunkFiles,
       ReleasePins, LeaseStep, AcquireSourceLease, SourceLeaseExpires,
       ReattachSourceLease, ReleaseSourceLease
  <2> QED
    BY <2>1
<1> QED
  BY <1>1, <1>2, <1>3 DEF Next

(* The references part of every reachable state. *)
THEOREM ReferencesInvariant == Spec => []RefInv
<1>1. Init => RefInv
  <2> SUFFICES ASSUME Init PROVE RefInv
    OBVIOUS
  <2>1. \A o \in Objects : {m \in Manifests : o \in refs[m]} = {}
    BY DEF Init
  <2>2. RefcountExact
    BY <2>1, FS_EmptySet DEF Init, RefcountExact
  <2> QED
    BY <2>2, InitTyped DEF RefInv, Init, ReferencedChunksKept, DemotionIsLadder, IdleJob
<1>2. RefInv /\ [Next]_vars => RefInv'
  <2> SUFFICES ASSUME RefInv, [Next]_vars PROVE RefInv'
    OBVIOUS
  <2> USE DEF RefInv
  <2>1. CASE UNCHANGED vars
    BY <2>1 DEF vars, TypeOK, RefcountExact, ReferencedChunksKept, DemotionIsLadder
  <2>2. CASE Next
    <3>1. TypeOK'
      BY <2>2, UploadTyped, MaintenanceTyped, ReaderTyped, LeaseTyped,
         RecoveryTyped, DeletePrefixTyped
      DEF Next
    <3>2. DemotionIsLadder'
      BY <2>2, DemotionStaysLadder
    <3>3. CASE \/ \E r \in Readers : ReaderStep(r)
               \/ \E l \in Leases : LeaseStep(l)
               \/ \E p \in Prefixes : DeletePrefix(p)
      <4>1. UNCHANGED <<chunk, refcount, refs>>
        BY <3>3 DEF ReaderStep, ReadManifest, PinChunkRows, OpenChunkFiles, ReleasePins,
           LeaseStep, AcquireSourceLease, SourceLeaseExpires, ReattachSourceLease,
           ReleaseSourceLease, DeletePrefix
      <4> QED
        BY <3>1, <3>2, <4>1, ReferencesFrame
    <3>4. RefcountExact' /\ ReferencedChunksKept'
      BY <2>2, <3>3, UploadKeepsReferences, MaintenanceKeepsReferences,
         RecoveryKeepsReferences DEF Next
    <3> QED
      BY <3>1, <3>2, <3>4
  <2> QED
    BY <2>1, <2>2
<1> QED
  BY <1>1, <1>2, PTL DEF Spec

(* refcount is the number of referencing manifests in every reachable state, for
   any number of uploads, manifests, chunks and maintenance threads. *)
THEOREM RefcountIsExact == Spec => []RefcountExact
<1>1. RefInv => RefcountExact
  BY DEF RefInv
<1> QED
  BY <1>1, ReferencesInvariant, PTL

(* No interleaving lets collection take the row of a referenced chunk. *)
THEOREM ReferencedRowsStay == Spec => []ReferencedChunksKept
<1>1. RefInv => ReferencedChunksKept
  BY DEF RefInv
<1> QED
  BY <1>1, ReferencesInvariant, PTL

(* Recovery never finds a referenced victim, the row it refuses to open on for good. *)
THEOREM RecoveryNeverRefuses == Spec => []EvictingUnreferenced
<1>1. RefInv => EvictingUnreferenced
  <2> SUFFICES ASSUME RefInv, NEW o \in Objects, chunk[o] \in {"EVICTING", "TRASHED"}
               PROVE  refcount[o] = 0
    BY DEF EvictingUnreferenced
  <2>1. \A m \in Manifests : o \notin refs[m]
    BY DEF RefInv, ReferencedChunksKept
  <2> QED
    BY <2>1, ZeroIffUnreferenced DEF RefInv
<1> QED
  BY <1>1, ReferencesInvariant, PTL

-----------------------------------------------------------------------------
(* Quota. *)

(* The uploads whose bytes are reserved. *)
Reserving == {u \in Uploads : up[u] \in InFlightStates}

(* An upload in flight holds what it reserved. *)
HeldExact == \A u \in Uploads : up[u] \in InFlightStates => held[u] = ExpectedBytes

(* The quota holds because a publication moves at most the bytes its upload holds
   from reserved to durable, and those are part of reserved. *)
QuotaInv ==
    /\ TypeOK
    /\ HeldExact
    /\ ReservationExact
    /\ QuotaRespected

(* One factor more, one factor less. *)
LEMMA Distribute == \A a, n \in Nat : a * (n + 1) = a * n + a
  OBVIOUS

(* The upload that leaves the in-flight states gives back what it holds. *)
LEMMA GiveBack ==
  ASSUME QuotaInv, NEW u \in Uploads, up[u] \in InFlightStates,
         NEW s \in UploadStates \ InFlightStates, up' = [up EXCEPT ![u] = s],
         reserved' = Minus(reserved, held[u])
  PROVE  /\ held[u] = ExpectedBytes
         /\ reserved' = reserved - ExpectedBytes
         /\ reserved' \in Nat
         /\ ReservationExact'
<1> USE DEF QuotaInv
<1>1. held[u] = ExpectedBytes
  BY DEF HeldExact
<1>2. IsFiniteSet(Reserving) /\ Cardinality(Reserving) \in Nat
  BY CardinalityNat DEF Reserving
<1>3. Reserving' = Reserving \ {u} /\ u \in Reserving
  BY DEF Reserving, TypeOK
<1> DEFINE n == Cardinality(Reserving')
<1>4. IsFiniteSet(Reserving') /\ n \in Nat
  BY <1>2, <1>3, FS_RemoveElement, FS_CardinalityType
<1>5. n = Cardinality(Reserving) - 1
  BY <1>2, <1>3, FS_RemoveElement
<1>6. reserved = ExpectedBytes * Cardinality(Reserving)
  BY DEF ReservationExact, Reserving
<1> HIDE DEF n
<1>7. reserved = ExpectedBytes * n + ExpectedBytes
  <2>1. Cardinality(Reserving) = n + 1
    BY <1>2, <1>4, <1>5
  <2> QED
    BY <1>4, <1>6, <2>1, Distribute, SizesAssumption
<1>8. ExpectedBytes * n \in Nat
  BY <1>4, ProductNat, SizesAssumption
<1>9. reserved' = ExpectedBytes * n /\ reserved' = reserved - ExpectedBytes
  BY <1>1, <1>7, <1>8, SizesAssumption DEF Minus
<1>10. ReservationExact'
  BY <1>9 DEF ReservationExact, n, Reserving
<1> QED
  BY <1>1, <1>8, <1>9, <1>10

(* Reserving adds the upload's bytes, inside both quotas. *)
LEMMA ReserveKeepsQuota ==
  ASSUME QuotaInv, NEW u \in Uploads, ReserveUpload(u)
  PROVE  HeldExact' /\ ReservationExact' /\ QuotaRespected'
<1> USE DEF QuotaInv
<1>0. /\ up[u] \notin InFlightStates
      /\ up' = [up EXCEPT ![u] = "RESERVED"]
      /\ held' = [held EXCEPT ![u] = ExpectedBytes]
      /\ reserved' = reserved + ExpectedBytes
      /\ durable' = durable
      /\ QuotaAdmits
  BY DEF ReserveUpload, InFlightStates
<1>1. IsFiniteSet(Reserving) /\ Cardinality(Reserving) \in Nat
  BY CardinalityNat DEF Reserving
<1>2. Reserving' = Reserving \cup {u} /\ u \notin Reserving
  BY <1>0 DEF Reserving, TypeOK, InFlightStates
<1>3. Cardinality(Reserving') = Cardinality(Reserving) + 1
  BY <1>1, <1>2, FS_AddElement
<1>4. reserved = ExpectedBytes * Cardinality(Reserving)
  BY DEF ReservationExact, Reserving
<1>5. reserved' = ExpectedBytes * Cardinality(Reserving')
  BY <1>0, <1>1, <1>3, <1>4, Distribute, SizesAssumption
<1>6. ReservationExact'
  BY <1>5 DEF ReservationExact, Reserving
<1>7. HeldExact'
  BY <1>0 DEF HeldExact, TypeOK
<1>8. QuotaRespected'
  BY <1>0, SizesAssumption DEF QuotaAdmits, QuotaRespected, TypeOK
<1> QED
  BY <1>6, <1>7, <1>8

(* Publication moves bytes from reserved to durable and creates none. *)
LEMMA PublishKeepsQuota ==
  ASSUME QuotaInv, NEW u \in Uploads, PublishManifestBatch(u)
  PROVE  HeldExact' /\ ReservationExact' /\ QuotaRespected'
<1> USE DEF QuotaInv
<1>0. /\ up[u] \in InFlightStates
      /\ up' = [up EXCEPT ![u] = "PUBLISHED"]
      /\ held' = held
      /\ reserved' = Minus(reserved, held[u])
      /\ ActualBytes(batch[u]) <= held[u]
      /\ durable' = durable + ActualBytes(batch[u])
  BY DEF PublishManifestBatch
<1>1. "PUBLISHED" \in UploadStates \ InFlightStates
  BY DEF UploadStates, InFlightStates
<1>2. /\ held[u] = ExpectedBytes
      /\ reserved' = reserved - ExpectedBytes
      /\ reserved' \in Nat
      /\ ReservationExact'
  BY <1>0, <1>1, GiveBack
<1>3. HeldExact'
  BY <1>0, <1>1 DEF HeldExact, TypeOK
<1>4. ActualBytes(batch[u]) \in Nat
  BY ActualBytesNat DEF TypeOK
<1>5. QuotaRespected'
  BY <1>0, <1>2, <1>4, SizesAssumption DEF QuotaRespected, TypeOK
<1> QED
  BY <1>2, <1>3, <1>5

(* Abort and quarantine give the reservation back. *)
LEMMA AbandonKeepsQuota ==
  ASSUME QuotaInv, NEW u \in Uploads, AbortUpload(u) \/ QuarantineUpload(u)
  PROVE  HeldExact' /\ ReservationExact' /\ QuotaRespected'
<1> USE DEF QuotaInv
<1>1. PICK s \in UploadStates \ InFlightStates :
         /\ up[u] \in InFlightStates
         /\ up' = [up EXCEPT ![u] = s]
         /\ held' = [held EXCEPT ![u] = 0]
         /\ reserved' = Minus(reserved, held[u])
         /\ durable' = durable
  <2>1. "ABORTED" \in UploadStates \ InFlightStates
        /\ "QUARANTINED" \in UploadStates \ InFlightStates
    BY DEF UploadStates, InFlightStates
  <2> QED
    BY <2>1 DEF AbortUpload, QuarantineUpload
<1>2. /\ reserved' = reserved - ExpectedBytes
      /\ reserved' \in Nat
      /\ ReservationExact'
  BY <1>1, GiveBack
<1>3. HeldExact'
  BY <1>1 DEF HeldExact, TypeOK
<1>4. QuotaRespected'
  BY <1>1, <1>2, SizesAssumption DEF QuotaRespected, TypeOK
<1> QED
  BY <1>2, <1>3, <1>4

(* A sum that fits a bound fits it with a smaller summand. *)
LEMMA SmallerFits ==
  \A a, b, c, d \in Nat : a <= b /\ b + c <= d => a + c <= d
  OBVIOUS

(* A step that leaves reservations alone and charges nothing. *)
LEMMA QuotaFrame ==
  ASSUME QuotaInv, TypeOK', held' = held, reserved' = reserved, durable' <= durable,
         \A u \in Uploads : up'[u] \in InFlightStates <=> up[u] \in InFlightStates
  PROVE  HeldExact' /\ ReservationExact' /\ QuotaRespected'
<1> USE DEF QuotaInv
<1>1. {u \in Uploads : up'[u] \in InFlightStates} = {u \in Uploads : up[u] \in InFlightStates}
  OBVIOUS
<1>2. ReservationExact'
  BY <1>1 DEF ReservationExact
<1>3. HeldExact'
  BY DEF HeldExact
<1>4. QuotaRespected'
  <2>1. /\ reserved \in Nat /\ durable \in Nat /\ durable' \in Nat
        /\ reserved <= StagingQuota /\ durable + reserved <= Quota
    BY DEF QuotaRespected, TypeOK
  <2>2. durable' + reserved <= Quota
    BY <2>1, SmallerFits, SizesAssumption
  <2> QED
    BY <2>1, <2>2 DEF QuotaRespected
<1> QED
  BY <1>2, <1>3, <1>4

(* Upload threads keep the byte accounting. *)
LEMMA UploadKeepsQuota ==
  ASSUME QuotaInv, NEW u \in Uploads, UploadStep(u)
  PROVE  HeldExact' /\ ReservationExact' /\ QuotaRespected'
<1>1. CASE ReserveUpload(u)
  BY <1>1, ReserveKeepsQuota
<1>2. CASE AbortUpload(u) \/ QuarantineUpload(u)
  BY <1>2, AbandonKeepsQuota
<1>3. CASE PublishManifestBatch(u)
  BY <1>3, PublishKeepsQuota
<1>4. CASE ~ReserveUpload(u) /\ ~AbortUpload(u) /\ ~QuarantineUpload(u)
             /\ ~PublishManifestBatch(u)
  <2>1. /\ held' = held /\ reserved' = reserved /\ durable' = durable
        /\ \/ up' = up
           \/ up[u] = "RESERVED" /\ up' = [up EXCEPT ![u] = "RECEIVING"]
           \/ up[u] = "RECEIVING" /\ up' = [up EXCEPT ![u] = "VERIFIED"]
    BY <1>4 DEF UploadStep, MarkReceiving, SealUpload, FindChunk, ImportChunk,
       WriteImmutable, CatalogChunks, QuarantineObject, UploadThreadFails,
       BuildManifests, WriteManifests
  <2>2. \A v \in Uploads : up'[v] \in InFlightStates <=> up[v] \in InFlightStates
    BY <2>1 DEF QuotaInv, TypeOK, InFlightStates
  <2>3. TypeOK'
    BY UploadTyped DEF QuotaInv
  <2>4. durable' <= durable
    BY <2>1 DEF QuotaInv, TypeOK
  <2> QED
    BY <2>1, <2>2, <2>3, <2>4, QuotaFrame
<1> QED
  BY <1>1, <1>2, <1>3, <1>4

(* A clamped decrement does not grow. *)
LEMMA MinusLeq == \A a, b \in Nat : Minus(a, b) <= a
  BY DEF Minus

(* Maintenance and recovery release durable bytes and reserve none. *)
LEMMA OthersKeepQuota ==
  ASSUME QuotaInv, TypeOK',
         \/ \E e \in Evictors : MaintenanceStep(e)
         \/ \E r \in Readers : ReaderStep(r)
         \/ \E l \in Leases : LeaseStep(l)
         \/ \E p \in Prefixes : DeletePrefix(p)
         \/ Crash \/ RecoveryStep
  PROVE  HeldExact' /\ ReservationExact' /\ QuotaRespected'
<1> USE DEF QuotaInv
<1>1. UNCHANGED uploadVars
  BY ZenonT(60) DEF MaintenanceStep, EvictManifest, MoveManifest, FinishManifestEviction,
     GcSelect, GcMove, GcFinish, MaintenanceFails, DemoteSelect, DemoteUpdate,
     DemoteUnlink, ReaderStep, ReadManifest, PinChunkRows, OpenChunkFiles,
     ReleasePins, LeaseStep, AcquireSourceLease, SourceLeaseExpires,
     ReattachSourceLease, ReleaseSourceLease, Crash, RecoveryStep, Reopen,
     PruneOverdue, OpenRefused, StoreOpened, ReconcileManifest, ReconcileChunk, DeletePrefix
<1>2. \/ durable' = durable
      \/ \E b \in Nat : durable' = Minus(durable, b)
  <2>1. ASSUME NEW e \in Evictors, MaintenanceStep(e)
        PROVE  \/ durable' = durable
               \/ \E b \in Nat : durable' = Minus(durable, b)
    <3>0. job[e].todo \in SUBSET Objects /\ job[e].done \in SUBSET Objects
      BY DEF TypeOK, Jobs
    <3>1. CASE GcFinish(e)
      <4>1. Deletable(job[e].done) \ job[e].spent \in SUBSET Objects
        BY <3>0 DEF Deletable
      <4> QED
        BY <3>1, <4>1, ReleaseNat DEF GcFinish
    <3>2. CASE DemoteUpdate(e)
      <4>1. {o \in job[e].todo : rung[o] = 1 /\ chunk[o] = "AVAILABLE"} \in SUBSET Objects
        BY <3>0
      <4> QED
        BY <3>2, <4>1, ReleaseNat DEF DemoteUpdate
    <3>3. CASE FinishManifestEviction(e)
      BY <3>3, SizesAssumption DEF FinishManifestEviction, DropManifestRow
    <3>4. CASE ~GcFinish(e) /\ ~DemoteUpdate(e) /\ ~FinishManifestEviction(e)
      BY <2>1, <3>4 DEF MaintenanceStep, EvictManifest, MoveManifest, GcSelect, GcMove,
         MaintenanceFails, DemoteSelect, DemoteUnlink
    <3> QED
      BY <3>1, <3>2, <3>3, <3>4
  <2>2. ASSUME Crash \/ RecoveryStep
        PROVE  \/ durable' = durable
               \/ \E b \in Nat : durable' = Minus(durable, b)
    BY <2>2, SizesAssumption DEF Crash, RecoveryStep, Reopen, PruneOverdue, OpenRefused,
       StoreOpened, ReconcileManifest, DropManifestRow, ReconcileChunk
  <2>3. ASSUME \/ \E r \in Readers : ReaderStep(r)
               \/ \E l \in Leases : LeaseStep(l)
               \/ \E p \in Prefixes : DeletePrefix(p)
        PROVE  durable' = durable
    BY <2>3 DEF ReaderStep, ReadManifest, PinChunkRows, OpenChunkFiles, ReleasePins,
       LeaseStep, AcquireSourceLease, SourceLeaseExpires, ReattachSourceLease,
       ReleaseSourceLease, DeletePrefix
  <2> QED
    BY <2>1, <2>2, <2>3
<1>3. durable' <= durable
  BY <1>2, MinusLeq DEF TypeOK
<1> QED
  BY <1>1, <1>3, QuotaFrame

(* The byte accounting of every reachable state. *)
THEOREM QuotaInvariant == Spec => []QuotaInv
<1>1. Init => QuotaInv
  <2> SUFFICES ASSUME Init PROVE QuotaInv
    OBVIOUS
  <2>1. {u \in Uploads : up[u] \in InFlightStates} = {}
    BY DEF Init, InFlightStates
  <2>2. ReservationExact
    <3>1. Cardinality({u \in Uploads : up[u] \in InFlightStates}) = 0
      BY <2>1, FS_EmptySet
    <3>2. ExpectedBytes * 0 = 0
      BY SizesAssumption
    <3> QED
      BY <3>1, <3>2 DEF Init, ReservationExact
  <2>3. HeldExact
    BY DEF Init, HeldExact, InFlightStates
  <2> QED
    BY <2>2, <2>3, InitTyped, SizesAssumption DEF Init, QuotaInv, QuotaRespected
<1>2. QuotaInv /\ [Next]_vars => QuotaInv'
  <2> SUFFICES ASSUME QuotaInv, [Next]_vars PROVE QuotaInv'
    OBVIOUS
  <2>1. CASE UNCHANGED vars
    BY <2>1 DEF vars, QuotaInv, TypeOK, HeldExact, ReservationExact, QuotaRespected
  <2>2. CASE Next
    <3>1. TypeOK'
      BY <2>2, UploadTyped, MaintenanceTyped, ReaderTyped, LeaseTyped,
         RecoveryTyped, DeletePrefixTyped
      DEF Next, QuotaInv
    <3>2. HeldExact' /\ ReservationExact' /\ QuotaRespected'
      BY <2>2, <3>1, UploadKeepsQuota, OthersKeepQuota DEF Next
    <3> QED
      BY <3>1, <3>2 DEF QuotaInv
  <2> QED
    BY <2>1, <2>2
<1> QED
  BY <1>1, <1>2, PTL DEF Spec

(* Every reservation is given back exactly once. *)
THEOREM ReservationsBalance == Spec => []ReservationExact
<1>1. QuotaInv => ReservationExact
  BY DEF QuotaInv
<1> QED
  BY <1>1, QuotaInvariant, PTL

(* The tenant's counters stay inside both quotas, for any number of concurrent
   uploads and any quota. *)
THEOREM QuotaIsRespected == Spec => []QuotaRespected
<1>1. QuotaInv => QuotaRespected
  BY DEF QuotaInv
<1> QED
  BY <1>1, QuotaInvariant, PTL


-----------------------------------------------------------------------------
(***************************************************************************)
(* The object files: which rows, checkpoints, pins and leases can rely on  *)
(* the files beside the catalog, although both change in separate steps.   *)
(***************************************************************************)

-----------------------------------------------------------------------------
(* Manifests: rows, packs and checkpoints. *)

(* A manifest on its way out has its tombstone. *)
EvictingTombstoned == \A m \in Manifests : man[m] = "EVICTING" => m \in mtomb

(* So has the one a maintenance thread is about to move or to delete: its row may
   have been published again, but is not found. *)
TargetsTombstoned ==
    \A e \in Evictors : job[e].op \in {"evict", "evicted"} =>
        job[e].target \in Manifests \cap mtomb

(* The pack files of a batch about to be published are still there, except the
   ones whose manifests were evicted since they were written. *)
PacksWritten ==
    \A u \in Uploads : pc[u] = "publish" => batch[u] \subseteq mfile \cup mtomb

(* The row of a manifest that was never evicted has its pack and all references. *)
RowsComplete ==
    \A m \in Manifests : m \notin mtomb /\ man[m] # "ABSENT" =>
        m \in mfile /\ refs[m] = ChunksOf[m]

(* A checkpoint that is not held back leads to an AVAILABLE row. *)
CheckpointsLive ==
    \A p \in Prefixes : \A m \in Manifests :
        prefix[p] = m /\ m \notin mtomb => man[m] = "AVAILABLE"

(* Tombstones of manifests are never removed, which is why the one fact "not
   tombstoned" is enough to know that no eviction has begun. *)
ManifestInv ==
    /\ EvictingTombstoned
    /\ TargetsTombstoned
    /\ PacksWritten
    /\ RowsComplete
    /\ CheckpointsLive

(* A step that leaves rows, packs and checkpoints alone keeps the invariant if no
   thread arrives at its publication and no eviction begins. *)
LEMMA ManifestFrame ==
  ASSUME TypeOK, ManifestInv, UNCHANGED <<manVars, mtomb, mfile>>,
         \A u \in Uploads : pc'[u] = "publish" => pc[u] = "publish" /\ batch'[u] = batch[u],
         \A e \in Evictors : job'[e].op \in {"evict", "evicted"} =>
             job[e].op \in {"evict", "evicted"} /\ job'[e].target = job[e].target
  PROVE  ManifestInv'
<1>1. EvictingTombstoned' /\ RowsComplete' /\ CheckpointsLive'
  BY DEF ManifestInv, EvictingTombstoned, RowsComplete, CheckpointsLive
<1>2. TargetsTombstoned' /\ PacksWritten'
  BY DEF ManifestInv, TargetsTombstoned, PacksWritten
<1> QED
  BY <1>1, <1>2 DEF ManifestInv

(* Steps of an upload thread: only WriteManifests adds packs, only the publishing
   transaction adds rows, references and checkpoints. *)
LEMMA UploadKeepsManifests ==
  ASSUME TypeOK, ManifestInv, NEW u \in Uploads, UploadStep(u)
  PROVE  ManifestInv'
<1>1. CASE \/ ReserveUpload(u) \/ MarkReceiving(u) \/ SealUpload(u)
           \/ AbortUpload(u) \/ QuarantineUpload(u)
  <2>1. UNCHANGED <<manVars, mtomb, mfile, pc, batch, job>>
    BY <1>1 DEF ReserveUpload, MarkReceiving, SealUpload, AbortUpload, QuarantineUpload
  <2> QED
    BY <2>1, ManifestFrame
<1>2. CASE \/ \E o \in Objects : FindChunk(u, o) \/ ImportChunk(u, o)
           \/ WriteImmutable(u) \/ CatalogChunks(u) \/ QuarantineObject(u)
  <2>1. UNCHANGED <<manVars, mtomb, mfile, batch, job>>
    BY <1>2 DEF FindChunk, ImportChunk, WriteImmutable, CatalogChunks, QuarantineObject
  <2>2. \E l \in {"idle", "write", "linked", "existing", "discard"} :
           pc' = [pc EXCEPT ![u] = l] \/ pc' = pc
    BY <1>2 DEF FindChunk, ImportChunk, WriteImmutable, CatalogChunks, QuarantineObject
  <2>3. \A v \in Uploads : pc'[v] = "publish" => pc[v] = "publish"
    BY <2>2 DEF TypeOK
  <2> QED
    BY <2>1, <2>3, ManifestFrame
<1>3. CASE UploadThreadFails(u) \/ \E b \in SUBSET Manifests : BuildManifests(u, b)
  <2>1. UNCHANGED <<manVars, mtomb, mfile, job>>
    BY <1>3 DEF UploadThreadFails, BuildManifests
  <2>2. \A v \in Uploads : pc'[v] = "publish" => pc[v] = "publish" /\ batch'[v] = batch[v]
    BY <1>3 DEF TypeOK, UploadThreadFails, BuildManifests
  <2> QED
    BY <2>1, <2>2, ManifestFrame
<1>4. CASE WriteManifests(u)
  <2>1. /\ UNCHANGED <<manVars, mtomb, batch, job>>
        /\ mfile' = mfile \cup batch[u]
        /\ pc' = [pc EXCEPT ![u] = "publish"]
    BY <1>4 DEF WriteManifests
  <2>2. PacksWritten'
    BY <2>1 DEF TypeOK, ManifestInv, PacksWritten
  <2>3. EvictingTombstoned' /\ RowsComplete' /\ CheckpointsLive' /\ TargetsTombstoned'
    BY <2>1 DEF ManifestInv, EvictingTombstoned, RowsComplete, CheckpointsLive, TargetsTombstoned
  <2> QED
    BY <2>2, <2>3 DEF ManifestInv
<1>5. CASE PublishManifestBatch(u)
  <2> DEFINE b == batch[u]
  <2>1. /\ pc[u] = "publish"
        /\ man' = [m \in Manifests |-> IF m \in b THEN "AVAILABLE" ELSE man[m]]
        /\ refs' = [m \in Manifests |-> IF m \in NewManifests(b) THEN ChunksOf[m] ELSE refs[m]]
        /\ prefix' = [p \in Prefixes |->
                        IF \E m \in b : PrefixOf[m] = p
                          THEN CHOOSE m \in b : PrefixOf[m] = p
                          ELSE prefix[p]]
        /\ pc' = [pc EXCEPT ![u] = "idle"]
        /\ batch' = [batch EXCEPT ![u] = {}]
        /\ UNCHANGED <<mtomb, mfile, job>>
    BY <1>5 DEF PublishManifestBatch
  <2>2. b \subseteq Manifests /\ b \subseteq mfile \cup mtomb
    BY <2>1 DEF TypeOK, ManifestInv, PacksWritten
  <2> HIDE DEF b
  <2>3. EvictingTombstoned'
    BY <2>1 DEF TypeOK, ManifestInv, EvictingTombstoned
  <2>4. TargetsTombstoned' /\ PacksWritten'
    BY <2>1 DEF TypeOK, ManifestInv, TargetsTombstoned, PacksWritten
  <2>5. RowsComplete'
    BY <2>1, <2>2 DEF TypeOK, ManifestInv, RowsComplete, NewManifests
  <2>6. ASSUME NEW p \in Prefixes, NEW m \in Manifests, prefix'[p] = m, m \notin mtomb'
        PROVE  man'[m] = "AVAILABLE"
    <3>1. CASE \E n \in b : PrefixOf[n] = p
      <4>1. m \in b
        BY <2>1, <2>6, <3>1
      <4> QED
        BY <2>1, <4>1
    <3>2. CASE ~ \E n \in b : PrefixOf[n] = p
      BY <2>1, <2>6, <3>2 DEF ManifestInv, CheckpointsLive
    <3> QED
      BY <3>1, <3>2
  <2>7. CheckpointsLive'
    BY <2>6 DEF CheckpointsLive
  <2> QED
    BY <2>3, <2>4, <2>5, <2>7 DEF ManifestInv
<1> QED
  BY <1>1, <1>2, <1>3, <1>4, <1>5 DEF UploadStep

(* Steps of a maintenance thread: an eviction writes the tombstone in its first
   transaction, before the pack and the row go. *)
LEMMA MaintenanceKeepsManifests ==
  ASSUME TypeOK, ManifestInv, NEW e \in Evictors, MaintenanceStep(e)
  PROVE  ManifestInv'
<1>0. job[e] \in Jobs /\ job \in [Evictors -> Jobs]
  BY DEF TypeOK
<1>1. ASSUME NEW m \in Manifests, EvictManifest(e, m) PROVE ManifestInv'
  <2>1. /\ mtomb' = mtomb \cup {m}
        /\ prefix' = [p \in Prefixes |-> IF prefix[p] = m THEN NoManifest ELSE prefix[p]]
        /\ man' = [man EXCEPT ![m] = "EVICTING"]
        /\ refs' = [refs EXCEPT ![m] = {}]
        /\ UNCHANGED <<mfile, pc, batch>>
    BY <1>1 DEF EvictManifest
  <2>2. job' = [job EXCEPT ![e] = [IdleJob EXCEPT !.op = "evict", !.target = m]]
    BY <1>1 DEF EvictManifest
  <2>3. TargetsTombstoned'
    BY <1>0, <2>1, <2>2 DEF ManifestInv, TargetsTombstoned, IdleJob
  <2>4. EvictingTombstoned' /\ PacksWritten'
    BY <2>1 DEF TypeOK, ManifestInv, EvictingTombstoned, PacksWritten
  <2>5. RowsComplete'
    BY <2>1 DEF TypeOK, ManifestInv, RowsComplete
  <2>6. CheckpointsLive'
    BY <2>1, SetsAssumption DEF TypeOK, ManifestInv, CheckpointsLive
  <2> QED
    BY <2>3, <2>4, <2>5, <2>6 DEF ManifestInv
<1>2. CASE MoveManifest(e)
  <2>1. /\ job[e].op = "evict" /\ mfile' = mfile \ {job[e].target}
        /\ job' = [job EXCEPT ![e].op = "evicted"]
        /\ UNCHANGED <<manVars, mtomb, pc, batch>>
    BY <1>2 DEF MoveManifest
  <2>2. job[e].target \in Manifests \cap mtomb
    BY <2>1 DEF ManifestInv, TargetsTombstoned
  <2>3. TargetsTombstoned'
    BY <1>0, <2>1, <2>2 DEF ManifestInv, TargetsTombstoned, Jobs
  <2>4. EvictingTombstoned' /\ CheckpointsLive'
    BY <2>1 DEF ManifestInv, EvictingTombstoned, CheckpointsLive
  <2>5. PacksWritten' /\ RowsComplete'
    BY <2>1, <2>2 DEF ManifestInv, PacksWritten, RowsComplete
  <2> QED
    BY <2>3, <2>4, <2>5 DEF ManifestInv
<1>3. CASE FinishManifestEviction(e)
  <2>1. /\ job[e].op = "evicted"
        /\ man' = [man EXCEPT ![job[e].target] = "ABSENT"]
        /\ job' = [job EXCEPT ![e] = IdleJob]
        /\ UNCHANGED <<refs, prefix, mtomb, mfile, pc, batch>>
    BY <1>3 DEF FinishManifestEviction, DropManifestRow
  <2>2. job[e].target \in Manifests \cap mtomb
    BY <2>1 DEF ManifestInv, TargetsTombstoned
  <2>3. TargetsTombstoned'
    BY <1>0, <2>1 DEF ManifestInv, TargetsTombstoned, IdleJob
  <2>4. EvictingTombstoned' /\ CheckpointsLive'
    BY <2>1, <2>2 DEF TypeOK, ManifestInv, EvictingTombstoned, CheckpointsLive
  <2>5. PacksWritten' /\ RowsComplete'
    BY <2>1, <2>2 DEF TypeOK, ManifestInv, PacksWritten, RowsComplete
  <2> QED
    BY <2>3, <2>4, <2>5 DEF ManifestInv
<1>4. CASE \/ \E victims \in SUBSET Objects : GcSelect(e, victims)
           \/ \E o \in Objects : GcMove(e, o)
           \/ GcFinish(e) \/ MaintenanceFails(e)
           \/ \E victims \in SUBSET Objects : DemoteSelect(e, victims)
           \/ DemoteUpdate(e) \/ DemoteUnlink(e)
  <2>1. UNCHANGED <<manVars, mtomb, mfile, pc, batch>>
    BY <1>4 DEF GcSelect, GcMove, GcFinish, MaintenanceFails, DemoteSelect,
                DemoteUpdate, DemoteUnlink
  <2>2. /\ \A f \in Evictors : f # e => job'[f] = job[f]
        /\ job'[e].op \notin {"evict", "evicted"}
    <3>1. CASE \E victims \in SUBSET Objects : GcSelect(e, victims)
      BY <1>0, <3>1 DEF GcSelect, IdleJob
    <3>2. CASE \E o \in Objects : GcMove(e, o)
      BY <1>0, <3>2 DEF GcMove, Jobs
    <3>3. CASE GcFinish(e) \/ MaintenanceFails(e) \/ DemoteUnlink(e)
      BY <1>0, <3>3 DEF GcFinish, MaintenanceFails, DemoteUnlink, IdleJob
    <3>4. CASE \E victims \in SUBSET Objects : DemoteSelect(e, victims)
      BY <1>0, <3>4 DEF DemoteSelect, IdleJob
    <3>5. CASE DemoteUpdate(e)
      BY <1>0, <3>5 DEF DemoteUpdate, Jobs
    <3> QED
      BY <1>4, <3>1, <3>2, <3>3, <3>4, <3>5
  <2>3. \A f \in Evictors : job'[f].op \in {"evict", "evicted"} => job'[f] = job[f]
    BY <2>2
  <2> QED
    BY <2>1, <2>3, ManifestFrame
<1> QED
  BY <1>1, <1>2, <1>3, <1>4 DEF MaintenanceStep

(* Recovery finishes what is EVICTING, a crash forgets threads, and the other
   steps do not touch manifests. *)
LEMMA OthersKeepManifests ==
  ASSUME TypeOK, ManifestInv,
         \/ \E r \in Readers : ReaderStep(r)
         \/ \E l \in Leases : LeaseStep(l)
         \/ \E p \in Prefixes : DeletePrefix(p)
         \/ Crash \/ RecoveryStep \/ UNCHANGED vars
  PROVE  ManifestInv'
<1>1. CASE \/ \E r \in Readers : ReaderStep(r)
           \/ \E l \in Leases : LeaseStep(l)
           \/ Reopen \/ PruneOverdue \/ OpenRefused \/ StoreOpened
           \/ (\E o \in Objects : ReconcileChunk(o)) \/ UNCHANGED vars
  <2>1. UNCHANGED <<manVars, mtomb, mfile, pc, batch, job>>
    <3>1. CASE \/ \E r \in Readers : ReaderStep(r)
      BY <3>1 DEF ReaderStep, ReadManifest, PinChunkRows, OpenChunkFiles, ReleasePins
    <3>2. CASE \E l \in Leases : LeaseStep(l)
      BY <3>2 DEF LeaseStep, AcquireSourceLease, SourceLeaseExpires, ReattachSourceLease,
                  ReleaseSourceLease
    <3>3. CASE \/ Reopen \/ PruneOverdue \/ OpenRefused \/ StoreOpened
               \/ (\E o \in Objects : ReconcileChunk(o)) \/ UNCHANGED vars
      BY <3>3 DEF Reopen, PruneOverdue, OpenRefused, StoreOpened, ReconcileChunk, vars
    <3> QED
      BY <1>1, <3>1, <3>2, <3>3
  <2> QED
    BY <2>1, ManifestFrame
<1>2. ASSUME NEW p \in Prefixes, DeletePrefix(p) PROVE ManifestInv'
  <2>1. /\ prefix' = [prefix EXCEPT ![p] = NoManifest]
        /\ UNCHANGED <<man, refs, mtomb, mfile, pc, batch, job>>
    BY <1>2 DEF DeletePrefix
  <2>2. CheckpointsLive'
    BY <2>1, SetsAssumption DEF TypeOK, ManifestInv, CheckpointsLive
  <2> QED
    BY <2>1, <2>2 DEF ManifestInv, EvictingTombstoned, TargetsTombstoned, PacksWritten,
                      RowsComplete
<1>3. CASE Crash
  <2>1. /\ UNCHANGED <<manVars, mtomb, mfile>>
        /\ pc' = [u \in Uploads |-> "idle"]
        /\ job' = [e \in Evictors |-> IdleJob]
    BY <1>3 DEF Crash
  <2>2. \A u \in Uploads : pc'[u] # "publish"
    BY <2>1
  <2>3. \A e \in Evictors : job'[e].op \notin {"evict", "evicted"}
    BY <2>1 DEF IdleJob
  <2> QED
    BY <2>1, <2>2, <2>3, ManifestFrame
<1>4. ASSUME NEW m \in Manifests, ReconcileManifest(m) PROVE ManifestInv'
  <2>1. /\ m \in mtomb
        /\ mfile' \in {mfile, mfile \ {m}}
        /\ man' = man \/ man' = [man EXCEPT ![m] = "ABSENT"]
        /\ UNCHANGED <<refs, prefix, mtomb, pc, batch, job>>
    BY <1>4 DEF ReconcileManifest, ManifestsEvicting, DropManifestRow, ManifestInv,
       EvictingTombstoned
  <2>2. EvictingTombstoned' /\ CheckpointsLive' /\ TargetsTombstoned'
    BY <2>1 DEF TypeOK, ManifestInv, EvictingTombstoned, CheckpointsLive, TargetsTombstoned
  <2>3. PacksWritten' /\ RowsComplete'
    BY <2>1 DEF TypeOK, ManifestInv, PacksWritten, RowsComplete
  <2> QED
    BY <2>2, <2>3 DEF ManifestInv
<1> QED
  BY <1>1, <1>2, <1>3, <1>4 DEF RecoveryStep

(* The facts about manifests hold in every reachable state. *)
THEOREM ManifestsInvariant == Spec => []ManifestInv
<1>1. Init => ManifestInv
  BY SetsAssumption DEF Init, ManifestInv, EvictingTombstoned, TargetsTombstoned, PacksWritten,
         RowsComplete, CheckpointsLive, IdleJob
<1>2. TypeOK /\ ManifestInv /\ [Next]_vars => ManifestInv'
  BY UploadKeepsManifests, MaintenanceKeepsManifests, OthersKeepManifests DEF Next
<1> QED
  BY <1>1, <1>2, TypeCorrect, PTL DEF Spec

(* A prefix checkpoint that resolves leads to a manifest with its pack and all its
   references, although packs are written and moved outside the catalog's mutex
   and an evicted manifest may be published again in the middle. *)
THEOREM ResolvedAreComplete == Spec => []ResolvedIsComplete
<1>1. ManifestInv => ResolvedIsComplete
  BY DEF ManifestInv, RowsComplete, CheckpointsLive, ResolvedIsComplete
<1> QED
  BY <1>1, ManifestsInvariant, PTL

-----------------------------------------------------------------------------
(* Chunks: rows and object files. *)

(* Another object key has the same content, so that the UNIQUE constraint may
   refuse this one's row. *)
Contested(o) == \E c \in Objects : c # o /\ ContentOf[c] = ContentOf[o]

(* No two uploads put the same contested object key.  It holds where a key
   is a function of the content, as without encryption, and where every upload
   encrypts for itself; it fails where two imports carry one object of a remote
   store whose content is already here under another key. *)
KeysApart ==
    \A u, v \in Uploads : u # v =>
        \A o \in Carries[u] \cap Carries[v] : ~Contested(o)

(* A chunk on its way out has its tombstone. *)
VictimsTombstoned ==
    \A o \in Objects : chunk[o] \in {"EVICTING", "TRASHED"} => o \in ctomb

(* The last rung of the ladder is not served. *)
DroppedUnserved == \A o \in Objects : rung[o] = 2 => chunk[o] # "AVAILABLE"

(* A put is of an object its upload carries. *)
PutsCarried ==
    \A u \in Uploads : pc[u] \in {"write", "linked", "existing", "discard"} =>
        cur[u] \in Carries[u]

(* An object whose put lost to another key, or may still lose after it created
   the file, is not served. *)
LosersUnserved ==
    \A u \in Uploads :
        /\ pc[u] = "discard" => Contested(cur[u]) /\ ~Servable(cur[u])
        /\ pc[u] = "linked" /\ Contested(cur[u]) => ~Servable(cur[u])

(* A put between its file and its row has its file, unless the object has been
   collected or demoted since. *)
PutsHaveFiles ==
    \A u \in Uploads : pc[u] \in {"linked", "existing"} =>
        cur[u] \in cfile \cup ctomb \/ chunk[cur[u]] = "TOMBSTONED"

(* The chunks whose files a demotion is going to unlink are on the ladder, or
   were collected meanwhile; after its update none of them is served. *)
DemotedUnserved ==
    \A e \in Evictors : \A o \in job[e].todo :
        /\ job[e].op = "demote" => o \in ctomb \/ (rung[o] # 0 /\ chunk[o] # "ABSENT")
        /\ job[e].op = "unlink" => o \in ctomb \/ chunk[o] = "TOMBSTONED"

FileInv ==
    /\ VictimsTombstoned
    /\ DroppedUnserved
    /\ PutsCarried
    /\ LosersUnserved
    /\ PutsHaveFiles
    /\ DemotedUnserved
    /\ ServableBytesPresent

(* A step that leaves rows, tombstones and object files alone keeps the invariant
   if no put gets past its file and no demotion begins. *)
LEMMA FileFrame ==
  ASSUME TypeOK, FileInv, UNCHANGED <<chunk, rung, ctomb, cfile>>,
         \A u \in Uploads :
            \/ pc'[u] = pc[u] /\ cur'[u] = cur[u]
            \/ pc'[u] = "write" /\ cur'[u] \in Carries[u]
            \/ pc'[u] \in {"idle", "pack", "publish"},
         \A e \in Evictors : job'[e].op \in {"demote", "unlink"} => job'[e] = job[e]
  PROVE  FileInv'
<1>1. VictimsTombstoned' /\ DroppedUnserved' /\ ServableBytesPresent'
  BY DEF FileInv, VictimsTombstoned, DroppedUnserved, ServableBytesPresent, Servable
<1>2. PutsCarried'
  BY DEF FileInv, PutsCarried
<1>3. LosersUnserved'
  BY DEF FileInv, LosersUnserved, Servable, Contested
<1>4. PutsHaveFiles'
  BY DEF FileInv, PutsHaveFiles
<1>5. DemotedUnserved'
  BY DEF FileInv, DemotedUnserved
<1> QED
  BY <1>1, <1>2, <1>3, <1>4, <1>5 DEF FileInv

(* The file is written, or found, before the row. *)
LEMMA WriteKeepsFiles ==
  ASSUME TypeOK, FileInv, NEW u \in Uploads, WriteImmutable(u)
  PROVE  FileInv'
<1>1. /\ pc[u] = "write"
      /\ pc' = [pc EXCEPT ![u] = IF cur[u] \in cfile THEN "existing" ELSE "linked"]
      /\ cfile' = cfile \cup {cur[u]}
      /\ UNCHANGED <<chunk, rung, ctomb, cur, job>>
  BY DEF WriteImmutable
<1>2. cur[u] \in Objects /\ cur[u] \in Carries[u]
  BY <1>1, DataAssumption DEF TypeOK, FileInv, PutsCarried
<1>3. VictimsTombstoned' /\ DroppedUnserved' /\ DemotedUnserved' /\ ServableBytesPresent'
  BY <1>1 DEF FileInv, VictimsTombstoned, DroppedUnserved, DemotedUnserved,
              ServableBytesPresent, Servable
<1>4. PutsCarried' /\ PutsHaveFiles'
  BY <1>1, <1>2 DEF TypeOK, FileInv, PutsCarried, PutsHaveFiles
<1>5. LosersUnserved'
  <2>1. cur[u] \notin cfile => ~Servable(cur[u])
    BY <1>2 DEF FileInv, ServableBytesPresent
  <2> QED
    BY <1>1, <2>1 DEF TypeOK, FileInv, LosersUnserved, Servable, Contested
<1> QED
  BY <1>3, <1>4, <1>5 DEF FileInv

(* The catalog transaction of a put: a new row has its file, and a put that
   created a file and lost knows that nobody is served from it. *)
LEMMA CatalogKeepsFiles ==
  ASSUME KeysApart, TypeOK, FileInv, NEW u \in Uploads, CatalogChunks(u)
  PROVE  FileInv'
<1> DEFINE o == cur[u]
<1>1. /\ pc[u] \in {"linked", "existing"}
      /\ UNCHANGED <<ctomb, cfile, job>>
  BY DEF CatalogChunks
<1>2. o \in Objects /\ o \in Carries[u]
  BY <1>1, DataAssumption DEF TypeOK, FileInv, PutsCarried
<1>3. CASE /\ RowsOfContent(ContentOf[o]) = {}
           /\ chunk' = [chunk EXCEPT ![o] = "AVAILABLE"]
           /\ rung' = [rung EXCEPT ![o] = 0]
           /\ pc' = [pc EXCEPT ![u] = "idle"]
           /\ cur' = [cur EXCEPT ![u] = NoObject]
  <2>1. chunk[o] = "ABSENT"
    BY <1>2, <1>3 DEF RowsOfContent
  <2>2. o \in cfile \cup ctomb
    BY <1>1, <2>1 DEF FileInv, PutsHaveFiles
  <2> HIDE DEF o
  <2>3. VictimsTombstoned' /\ DroppedUnserved'
    BY <1>1, <1>2, <1>3 DEF TypeOK, FileInv, VictimsTombstoned, DroppedUnserved
  <2>4. ServableBytesPresent'
    BY <1>1, <1>2, <1>3, <2>2 DEF TypeOK, FileInv, ServableBytesPresent, Servable
  <2>5. PutsCarried'
    BY <1>3 DEF TypeOK, FileInv, PutsCarried
  <2>6. PutsHaveFiles'
    BY <1>1, <1>2, <1>3, <2>2 DEF TypeOK, FileInv, PutsHaveFiles
  <2>7. DemotedUnserved'
    BY <1>1, <1>2, <1>3, <2>1 DEF TypeOK, FileInv, DemotedUnserved
  <2>8. ASSUME NEW v \in Uploads, v # u,
               pc[v] \in {"linked", "discard"}, Contested(cur[v])
        PROVE  cur[v] # o
    BY <1>2, <2>8 DEF KeysApart, FileInv, PutsCarried
  <2>9. \A v \in Uploads : v # u => cur'[v] = cur[v] /\ pc'[v] = pc[v]
    BY <1>3 DEF TypeOK
  <2>10. pc'[u] = "idle"
    BY <1>3 DEF TypeOK
  <2>11. \A c : c # o /\ Servable(c)' => Servable(c) \/ c \notin Objects
    BY <1>1, <1>3 DEF TypeOK, Servable
  <2>12. \A v \in Uploads : pc[v] \in {"linked", "discard"} => cur[v] \in Objects
    BY DEF TypeOK
  <2>13. LosersUnserved'
    BY <2>8, <2>9, <2>10, <2>11, <2>12 DEF FileInv, LosersUnserved, Contested
  <2> QED
    BY <2>3, <2>4, <2>5, <2>6, <2>7, <2>13 DEF FileInv
<1>4. ASSUME NEW c \in RowsOfContent(ContentOf[o]), UNCHANGED chunkVars,
             IF pc[u] = "linked" /\ c # o
               THEN pc' = [pc EXCEPT ![u] = "discard"] /\ UNCHANGED cur
               ELSE /\ pc' = [pc EXCEPT ![u] = "idle"]
                    /\ cur' = [cur EXCEPT ![u] = NoObject]
      PROVE  FileInv'
  <2>1. CASE ~(pc[u] = "linked" /\ c # o)
    <3>1. \A v \in Uploads : (pc'[v] = pc[v] /\ cur'[v] = cur[v]) \/ pc'[v] = "idle"
      BY <1>4, <2>1 DEF TypeOK
    <3> QED
      BY <1>1, <1>4, <3>1, FileFrame
  <2>2. CASE pc[u] = "linked" /\ c # o
    <3>1. Contested(o) /\ ~Servable(o)
      BY <1>4, <2>2 DEF Contested, RowsOfContent, FileInv, LosersUnserved
    <3>2. pc' = [pc EXCEPT ![u] = "discard"] /\ UNCHANGED <<cur, chunk, rung, ctomb, cfile, job>>
      BY <1>1, <1>4, <2>2
    <3>3. VictimsTombstoned' /\ DroppedUnserved' /\ DemotedUnserved' /\ ServableBytesPresent'
      BY <3>2 DEF FileInv, VictimsTombstoned, DroppedUnserved, DemotedUnserved,
                  ServableBytesPresent, Servable
    <3>4. PutsCarried' /\ PutsHaveFiles'
      BY <1>2, <3>2 DEF TypeOK, FileInv, PutsCarried, PutsHaveFiles
    <3>5. LosersUnserved'
      BY <3>1, <3>2 DEF TypeOK, FileInv, LosersUnserved, Servable, Contested
    <3> QED
      BY <3>3, <3>4, <3>5 DEF FileInv
  <2> QED
    BY <2>1, <2>2
<1> QED
  BY <1>3, <1>4 DEF CatalogChunks

(* The second transaction of a put that lost: it moves away a file that no other
   put relies on. *)
LEMMA QuarantineKeepsFiles ==
  ASSUME KeysApart, TypeOK, FileInv, NEW u \in Uploads, QuarantineObject(u)
  PROVE  FileInv'
<1>1. /\ pc[u] = "discard"
      /\ cfile' = cfile \ {cur[u]}
      /\ pc' = [pc EXCEPT ![u] = "idle"]
      /\ cur' = [cur EXCEPT ![u] = NoObject]
      /\ UNCHANGED <<chunk, rung, ctomb, job>>
  BY DEF QuarantineObject
<1>2. Contested(cur[u]) /\ ~Servable(cur[u]) /\ cur[u] \in Carries[u]
  BY <1>1 DEF FileInv, LosersUnserved, PutsCarried
<1>3. VictimsTombstoned' /\ DroppedUnserved' /\ DemotedUnserved'
  BY <1>1 DEF FileInv, VictimsTombstoned, DroppedUnserved, DemotedUnserved
<1>4. ServableBytesPresent'
  BY <1>1, <1>2 DEF FileInv, ServableBytesPresent, Servable
<1>5. PutsCarried' /\ LosersUnserved'
  BY <1>1 DEF TypeOK, FileInv, PutsCarried, LosersUnserved, Servable, Contested
<1>6. ASSUME NEW v \in Uploads, v # u, pc[v] \in {"linked", "existing"}
      PROVE  cur[v] # cur[u]
  BY <1>2, <1>6 DEF KeysApart, FileInv, PutsCarried
<1>7. PutsHaveFiles'
  BY <1>1, <1>6 DEF TypeOK, FileInv, PutsHaveFiles
<1> QED
  BY <1>3, <1>4, <1>5, <1>7 DEF FileInv

(* Every step of an upload thread keeps rows and files together. *)
LEMMA UploadKeepsFiles ==
  ASSUME KeysApart, TypeOK, FileInv, NEW u \in Uploads, UploadStep(u)
  PROVE  FileInv'
<1>1. CASE \/ ReserveUpload(u) \/ MarkReceiving(u) \/ SealUpload(u)
           \/ AbortUpload(u) \/ QuarantineUpload(u)
  <2>1. UNCHANGED <<chunk, rung, ctomb, cfile, pc, cur, job>>
    BY <1>1 DEF ReserveUpload, MarkReceiving, SealUpload, AbortUpload, QuarantineUpload
  <2> QED
    BY <2>1, FileFrame
<1>2. ASSUME NEW o \in Objects, FindChunk(u, o) \/ ImportChunk(u, o) PROVE FileInv'
  <2>1. UNCHANGED <<chunk, rung, ctomb, cfile, job>> /\ o \in Carries[u]
    BY <1>2 DEF FindChunk, ImportChunk
  <2>2. \/ UNCHANGED <<pc, cur>>
        \/ pc' = [pc EXCEPT ![u] = "write"] /\ cur' = [cur EXCEPT ![u] = o]
    BY <1>2 DEF FindChunk, ImportChunk
  <2>3. \A v \in Uploads : \/ pc'[v] = pc[v] /\ cur'[v] = cur[v]
                           \/ pc'[v] = "write" /\ cur'[v] \in Carries[v]
    BY <2>1, <2>2 DEF TypeOK
  <2> QED
    BY <2>1, <2>3, FileFrame
<1>3. CASE \/ UploadThreadFails(u) \/ (\E b \in SUBSET Manifests : BuildManifests(u, b))
           \/ WriteManifests(u) \/ PublishManifestBatch(u)
  <2>1. UNCHANGED <<chunk, rung, ctomb, cfile, job>>
    BY <1>3 DEF UploadThreadFails, BuildManifests, WriteManifests, PublishManifestBatch
  <2>2. /\ \E l \in {"idle", "pack", "publish"} : pc' = [pc EXCEPT ![u] = l]
        /\ cur' = cur \/ cur' = [cur EXCEPT ![u] = NoObject]
    BY <1>3 DEF UploadThreadFails, BuildManifests, WriteManifests, PublishManifestBatch
  <2>3. \A v \in Uploads : \/ pc'[v] = pc[v] /\ cur'[v] = cur[v]
                           \/ pc'[v] \in {"idle", "pack", "publish"}
    BY <2>2 DEF TypeOK
  <2> QED
    BY <2>1, <2>3, FileFrame
<1> QED
  BY <1>1, <1>2, <1>3, WriteKeepsFiles, CatalogKeepsFiles, QuarantineKeepsFiles DEF UploadStep


(* The deletion of collected rows concerns tombstoned objects only. *)
LEMMA DropKeepsFiles ==
  ASSUME TypeOK, FileInv, NEW moved \in SUBSET Objects, DropChunkRows(moved),
         UNCHANGED <<ctomb, cfile, pc, cur>>,
         \A e \in Evictors : job'[e].op \in {"demote", "unlink"} => job'[e] = job[e]
  PROVE  FileInv'
<1>1. \A o \in Objects : o \notin ctomb => chunk'[o] = chunk[o] /\ rung'[o] = rung[o]
  BY DEF DropChunkRows, Deletable, FileInv, VictimsTombstoned, TypeOK
<1>2. \A o \in Objects : chunk'[o] = chunk[o] \/ chunk'[o] \in {"ABSENT", "TRASHED"}
  BY DEF DropChunkRows
<1>3. \A o \in Objects : rung'[o] \in {0, rung[o]}
  BY DEF DropChunkRows
<1>4. VictimsTombstoned' /\ ServableBytesPresent'
  BY <1>1, <1>2 DEF FileInv, VictimsTombstoned, ServableBytesPresent, Servable
<1>5. DroppedUnserved'
  BY <1>2, <1>3 DEF FileInv, DroppedUnserved
<1>6. \A u \in Uploads : pc[u] \in {"linked", "existing", "discard"} => cur[u] \in Objects
  BY DEF TypeOK
<1>7. \A o \in Objects : Servable(o)' => Servable(o)
  BY <1>1 DEF Servable
<1>8. PutsCarried' /\ LosersUnserved'
  BY <1>6, <1>7 DEF FileInv, PutsCarried, LosersUnserved, Contested
<1>9. PutsHaveFiles'
  BY <1>1, <1>6 DEF FileInv, PutsHaveFiles
<1>10. \A e \in Evictors : job[e].todo \subseteq Objects
  BY DEF TypeOK, Jobs
<1>11. DemotedUnserved'
  BY <1>1, <1>10 DEF FileInv, DemotedUnserved
<1> QED
  BY <1>4, <1>5, <1>8, <1>9, <1>11 DEF FileInv

(* Taking away the files of objects that are tombstoned, or on the ladder's last
   rung, takes nothing that is served or relied on. *)
LEMMA UnlinkKeepsFiles ==
  ASSUME TypeOK, FileInv, NEW gone, cfile' = cfile \ gone,
         \A o \in gone : o \in ctomb \/ chunk[o] = "TOMBSTONED",
         UNCHANGED <<chunk, rung, ctomb, pc, cur>>,
         \A e \in Evictors : job'[e].op \in {"demote", "unlink"} => job'[e] = job[e]
  PROVE  FileInv'
<1>1. VictimsTombstoned' /\ DroppedUnserved' /\ PutsCarried'
  BY DEF FileInv, VictimsTombstoned, DroppedUnserved, PutsCarried
<1>2. LosersUnserved'
  BY DEF FileInv, LosersUnserved, Servable, Contested
<1>3. ServableBytesPresent' /\ PutsHaveFiles'
  BY DEF FileInv, ServableBytesPresent, PutsHaveFiles, Servable
<1>4. DemotedUnserved'
  BY DEF FileInv, DemotedUnserved
<1> QED
  BY <1>1, <1>2, <1>3, <1>4 DEF FileInv

(* The update of the ladder: what it drops is TOMBSTONED at once. *)
LEMMA DemoteKeepsFiles ==
  ASSUME TypeOK, FileInv, NEW e \in Evictors, DemoteUpdate(e)
  PROVE  FileInv'
<1> DEFINE annotated == {o \in job[e].done : rung[o] = 0 /\ chunk[o] = "AVAILABLE"}
           dropped   == {o \in job[e].todo : rung[o] = 1 /\ chunk[o] = "AVAILABLE"}
<1>0. job \in [Evictors -> Jobs] /\ job[e] \in Jobs
  BY DEF TypeOK
<1>1. /\ job[e].op = "demote"
      /\ rung' = [o \in Objects |-> IF o \in dropped THEN 2
                                    ELSE IF o \in annotated THEN 1 ELSE rung[o]]
      /\ chunk' = [o \in Objects |-> IF o \in dropped THEN "TOMBSTONED" ELSE chunk[o]]
      /\ job' = [job EXCEPT ![e].op = "unlink"]
      /\ UNCHANGED <<ctomb, cfile, pc, cur>>
  BY DEF DemoteUpdate
<1>2. job[e].todo \subseteq Objects
  BY <1>0 DEF Jobs
<1>3. ASSUME NEW o \in Objects
      PROVE  /\ chunk'[o] = chunk[o] \/ (chunk[o] = "AVAILABLE" /\ chunk'[o] = "TOMBSTONED")
             /\ rung'[o] = 0 => rung[o] = 0
             /\ rung'[o] = 2 => chunk'[o] # "AVAILABLE"
             /\ o \in job[e].todo => o \in ctomb \/ chunk'[o] = "TOMBSTONED"
  <2>1. chunk'[o] = chunk[o] \/ (chunk[o] = "AVAILABLE" /\ chunk'[o] = "TOMBSTONED")
    BY <1>1
  <2>2. rung'[o] = 0 => rung[o] = 0
    BY <1>1 DEF TypeOK
  <2>3. rung'[o] = 2 => chunk'[o] # "AVAILABLE"
    BY <1>1 DEF FileInv, DroppedUnserved
  <2>4. ASSUME o \in job[e].todo, o \notin ctomb PROVE chunk'[o] = "TOMBSTONED"
    <3>1. rung[o] \in {1, 2} /\ chunk[o] \in {"AVAILABLE", "TOMBSTONED"}
      BY <1>1, <2>4 DEF TypeOK, ChunkStates, FileInv, DemotedUnserved, VictimsTombstoned
    <3>2. CASE o \in dropped
      BY <1>1, <3>2
    <3>3. CASE o \notin dropped
      <4>1. rung[o] = 2 \/ chunk[o] # "AVAILABLE"
        BY <2>4, <3>1, <3>3
      <4>2. chunk[o] = "TOMBSTONED"
        BY <3>1, <4>1 DEF FileInv, DroppedUnserved
      <4> QED
        BY <1>1, <3>3, <4>2
    <3> QED
      BY <3>2, <3>3
  <2> QED
    BY <2>1, <2>2, <2>3, <2>4
<1> HIDE DEF annotated, dropped
<1>4. \A o \in Objects : Servable(o)' => Servable(o)
  BY <1>1, <1>3 DEF Servable
<1>5. \A u \in Uploads : pc[u] \in {"linked", "existing", "discard"} => cur[u] \in Objects
  BY DEF TypeOK
<1>6. VictimsTombstoned' /\ DroppedUnserved' /\ PutsCarried'
  BY <1>1, <1>3 DEF FileInv, VictimsTombstoned, DroppedUnserved, PutsCarried
<1>7. LosersUnserved' /\ ServableBytesPresent'
  BY <1>1, <1>4, <1>5 DEF FileInv, LosersUnserved, ServableBytesPresent, Contested
<1>8. PutsHaveFiles'
  BY <1>1, <1>3, <1>5 DEF FileInv, PutsHaveFiles
<1>9. /\ job'[e].op = "unlink" /\ job'[e].todo = job[e].todo
      /\ \A f \in Evictors : f # e => job'[f] = job[f]
  BY <1>0, <1>1 DEF Jobs
<1>10. ASSUME NEW f \in Evictors, NEW o \in job'[f].todo
       PROVE  /\ job'[f].op = "demote" => o \in ctomb \/ (rung'[o] # 0 /\ chunk'[o] # "ABSENT")
              /\ job'[f].op = "unlink" => o \in ctomb \/ chunk'[o] = "TOMBSTONED"
  <2>1. CASE f = e
    BY <1>2, <1>3, <1>9, <1>10, <2>1
  <2>2. CASE f # e
    <3>1. o \in Objects /\ job'[f] = job[f]
      BY <1>0, <1>9, <1>10, <2>2 DEF Jobs
    <3> QED
      BY <1>3, <1>10, <3>1 DEF FileInv, DemotedUnserved
  <2> QED
    BY <2>1, <2>2
<1>11. DemotedUnserved'
  BY <1>1, <1>10 DEF DemotedUnserved
<1> QED
  BY <1>6, <1>7, <1>8, <1>11 DEF FileInv

(* Every step of a maintenance thread keeps rows and files together. *)
LEMMA MaintenanceKeepsFiles ==
  ASSUME TypeOK, FileInv, NEW e \in Evictors, MaintenanceStep(e)
  PROVE  FileInv'
<1>0. job \in [Evictors -> Jobs] /\ job[e] \in Jobs
  BY DEF TypeOK
<1>1. CASE \/ \E m \in Manifests : EvictManifest(e, m)
           \/ MoveManifest(e) \/ FinishManifestEviction(e) \/ MaintenanceFails(e)
  <2>1. UNCHANGED <<chunk, rung, ctomb, cfile, pc, cur>>
    BY <1>1 DEF EvictManifest, MoveManifest, FinishManifestEviction, MaintenanceFails
  <2>2. /\ \A f \in Evictors : f # e => job'[f] = job[f]
        /\ job'[e].op \notin {"demote", "unlink"}
    <3>1. CASE \E m \in Manifests : EvictManifest(e, m)
      BY <1>0, <3>1 DEF EvictManifest, IdleJob
    <3>2. CASE MoveManifest(e)
      BY <1>0, <3>2 DEF MoveManifest, Jobs
    <3>3. CASE FinishManifestEviction(e) \/ MaintenanceFails(e)
      BY <1>0, <3>3 DEF FinishManifestEviction, MaintenanceFails, IdleJob
    <3> QED
      BY <1>1, <3>1, <3>2, <3>3
  <2>3. \A f \in Evictors : job'[f].op \in {"demote", "unlink"} => job'[f] = job[f]
    BY <2>2
  <2> QED
    BY <2>1, <2>3, FileFrame
<1>2. ASSUME NEW victims \in SUBSET Objects, GcSelect(e, victims) PROVE FileInv'
  <2>1. /\ ctomb' = ctomb \cup victims
        /\ chunk' = [o \in Objects |-> IF o \in victims THEN "EVICTING" ELSE chunk[o]]
        /\ UNCHANGED <<rung, cfile, pc, cur>>
    BY <1>2 DEF GcSelect
  <2>2. job' = [job EXCEPT ![e] =
                 [IdleJob EXCEPT !.op = "gc", !.todo = victims,
                    !.spent = {o \in victims : chunk[o] = "TOMBSTONED"}]]
    BY <1>2 DEF GcSelect
  <2>3. \A f \in Evictors : job'[f].op \in {"demote", "unlink"} => job'[f] = job[f]
    BY <1>0, <2>2 DEF IdleJob
  <2>4. \A u \in Uploads : pc[u] \in {"linked", "existing", "discard"} => cur[u] \in Objects
    BY DEF TypeOK
  <2>5. \A o \in Objects : Servable(o)' => Servable(o)
    BY <2>1 DEF Servable
  <2>6. VictimsTombstoned' /\ DroppedUnserved' /\ PutsCarried' /\ ServableBytesPresent'
    BY <2>1 DEF FileInv, VictimsTombstoned, DroppedUnserved, PutsCarried,
                ServableBytesPresent, Servable
  <2>7. LosersUnserved'
    BY <2>1, <2>4, <2>5 DEF FileInv, LosersUnserved, Contested
  <2>8. PutsHaveFiles'
    BY <2>1, <2>4 DEF FileInv, PutsHaveFiles
  <2>9. \A f \in Evictors : job[f].todo \subseteq Objects
    BY <1>0 DEF Jobs
  <2>10. DemotedUnserved'
    BY <2>1, <2>3, <2>9 DEF FileInv, DemotedUnserved
  <2> QED
    BY <2>6, <2>7, <2>8, <2>10 DEF FileInv
<1>3. ASSUME NEW o \in Objects, GcMove(e, o) PROVE FileInv'
  <2>1. /\ UNCHANGED <<chunk, rung, ctomb, pc, cur>>
        /\ cfile' = cfile \/ (cfile' = cfile \ {o} /\ chunk[o] \in {"EVICTING", "TRASHED"})
    BY <1>3 DEF GcMove
  <2>2. \A f \in Evictors : job'[f].op \in {"demote", "unlink"} => job'[f] = job[f]
    BY <1>0, <1>3 DEF GcMove, Jobs
  <2>3. CASE cfile' = cfile
    BY <2>1, <2>2, <2>3, FileFrame
  <2>4. CASE cfile' = cfile \ {o} /\ chunk[o] \in {"EVICTING", "TRASHED"}
    <3>1. o \in ctomb
      BY <2>4 DEF FileInv, VictimsTombstoned
    <3> QED
      BY <2>1, <2>2, <2>4, <3>1, UnlinkKeepsFiles
  <2> QED
    BY <2>1, <2>3, <2>4
<1>4. CASE GcFinish(e)
  <2>1. /\ DropChunkRows(job[e].done) /\ job' = [job EXCEPT ![e] = IdleJob]
        /\ UNCHANGED <<ctomb, cfile, pc, cur>>
    BY <1>4 DEF GcFinish
  <2>2. \A f \in Evictors : job'[f].op \in {"demote", "unlink"} => job'[f] = job[f]
    BY <1>0, <2>1 DEF IdleJob
  <2>3. job[e].done \in SUBSET Objects
    BY <1>0 DEF Jobs
  <2> QED
    BY <2>1, <2>2, <2>3, DropKeepsFiles
<1>5. ASSUME NEW victims \in SUBSET Objects, DemoteSelect(e, victims) PROVE FileInv'
  <2>1. /\ \A o \in victims : chunk[o] = "AVAILABLE"
        /\ UNCHANGED <<chunk, rung, ctomb, cfile, pc, cur>>
    BY <1>5 DEF DemoteSelect, Demotable
  <2>2. job' = [job EXCEPT ![e] =
                 [IdleJob EXCEPT !.op = "demote",
                    !.todo = {o \in victims : rung[o] = 1},
                    !.done = {o \in victims : rung[o] = 0}]]
    BY <1>5 DEF DemoteSelect
  <2>3. /\ job'[e].op = "demote" /\ job'[e].todo = {o \in victims : rung[o] = 1}
        /\ \A f \in Evictors : f # e => job'[f] = job[f]
    BY <1>0, <2>2 DEF IdleJob
  <2>4. DemotedUnserved'
    BY <2>1, <2>3 DEF FileInv, DemotedUnserved
  <2>5. VictimsTombstoned' /\ DroppedUnserved' /\ PutsCarried' /\ ServableBytesPresent'
    BY <2>1 DEF FileInv, VictimsTombstoned, DroppedUnserved, PutsCarried,
                ServableBytesPresent, Servable
  <2>6. LosersUnserved' /\ PutsHaveFiles'
    BY <2>1 DEF FileInv, LosersUnserved, Contested, Servable, PutsHaveFiles
  <2> QED
    BY <2>4, <2>5, <2>6 DEF FileInv
<1>6. CASE DemoteUnlink(e)
  <2>1. /\ job[e].op = "unlink" /\ cfile' = cfile \ job[e].todo
        /\ job' = [job EXCEPT ![e] = IdleJob]
        /\ UNCHANGED <<chunk, rung, ctomb, pc, cur>>
    BY <1>6 DEF DemoteUnlink
  <2>2. \A f \in Evictors : job'[f].op \in {"demote", "unlink"} => job'[f] = job[f]
    BY <1>0, <2>1 DEF IdleJob
  <2>3. \A o \in job[e].todo : o \in ctomb \/ chunk[o] = "TOMBSTONED"
    BY <2>1 DEF FileInv, DemotedUnserved
  <2> QED
    BY <2>1, <2>2, <2>3, UnlinkKeepsFiles
<1> QED
  BY <1>1, <1>2, <1>3, <1>4, <1>5, <1>6, DemoteKeepsFiles DEF MaintenanceStep

(* So do readers, leases, checkpoints, a crash and the restart. *)
LEMMA OthersKeepFiles ==
  ASSUME TypeOK, FileInv,
         \/ \E r \in Readers : ReaderStep(r)
         \/ \E l \in Leases : LeaseStep(l)
         \/ \E p \in Prefixes : DeletePrefix(p)
         \/ Crash \/ RecoveryStep \/ UNCHANGED vars
  PROVE  FileInv'
<1>1. CASE \/ \E r \in Readers : ReaderStep(r)
           \/ \E l \in Leases : LeaseStep(l)
           \/ \E p \in Prefixes : DeletePrefix(p)
           \/ Reopen \/ PruneOverdue \/ OpenRefused \/ StoreOpened
           \/ (\E m \in Manifests : ReconcileManifest(m)) \/ UNCHANGED vars
  <2>1. UNCHANGED <<chunk, rung, ctomb, cfile, pc, cur, job>>
    <3>1. CASE \E r \in Readers : ReaderStep(r)
      BY <3>1 DEF ReaderStep, ReadManifest, PinChunkRows, OpenChunkFiles, ReleasePins
    <3>2. CASE \E l \in Leases : LeaseStep(l)
      BY <3>2 DEF LeaseStep, AcquireSourceLease, SourceLeaseExpires, ReattachSourceLease,
                  ReleaseSourceLease
    <3>3. CASE \/ \E p \in Prefixes : DeletePrefix(p)
               \/ Reopen \/ PruneOverdue \/ OpenRefused \/ StoreOpened
               \/ (\E m \in Manifests : ReconcileManifest(m)) \/ UNCHANGED vars
      BY <3>3 DEF DeletePrefix, Reopen, PruneOverdue, OpenRefused, StoreOpened,
         ReconcileManifest, vars
    <3> QED
      BY <1>1, <3>1, <3>2, <3>3
  <2> QED
    BY <2>1, FileFrame
<1>2. CASE Crash
  <2>1. /\ UNCHANGED <<chunk, rung, ctomb, cfile>>
        /\ pc' = [u \in Uploads |-> "idle"]
        /\ job' = [e \in Evictors |-> IdleJob]
    BY <1>2 DEF Crash
  <2>2. \A u \in Uploads : pc'[u] = "idle"
    BY <2>1
  <2>3. \A e \in Evictors : job'[e].op \notin {"demote", "unlink"}
    BY <2>1 DEF IdleJob
  <2> QED
    BY <2>1, <2>2, <2>3, FileFrame
<1>3. ASSUME NEW o \in Objects, ReconcileChunk(o) PROVE FileInv'
  <2>1. o \in ctomb /\ UNCHANGED <<ctomb, pc, cur, job>>
    BY <1>3 DEF ReconcileChunk, ChunksEvicting, FileInv, VictimsTombstoned
  <2>2. CASE o \in cfile
    <3>1. cfile' = cfile \ {o} /\ UNCHANGED <<chunk, rung>>
      BY <1>3, <2>2 DEF ReconcileChunk
    <3> QED
      BY <2>1, <3>1, UnlinkKeepsFiles
  <2>3. CASE o \notin cfile
    <3>1. DropChunkRows({o}) /\ UNCHANGED cfile
      BY <1>3, <2>3 DEF ReconcileChunk
    <3> QED
      BY <2>1, <3>1, DropKeepsFiles
  <2> QED
    BY <2>2, <2>3
<1> QED
  BY <1>1, <1>2, <1>3 DEF RecoveryStep

(* The facts about chunk files hold in every reachable state. *)
THEOREM FilesInvariant ==
  ASSUME KeysApart
  PROVE  Spec => []FileInv
<1>1. Init => FileInv
  BY DEF Init, FileInv, VictimsTombstoned, DroppedUnserved, PutsCarried, LosersUnserved,
         PutsHaveFiles, DemotedUnserved, ServableBytesPresent, Servable, IdleJob
<1>2. TypeOK /\ FileInv /\ [Next]_vars => FileInv'
  BY UploadKeepsFiles, MaintenanceKeepsFiles, OthersKeepFiles DEF Next
<1> QED
  BY <1>1, <1>2, TypeCorrect, PTL DEF Spec

(* A chunk that byte-serving queries accept has its file, if contested keys are
   apart: puts, collection, the ladder and recovery check and move files outside
   the transaction that changes the row. *)
THEOREM ServedBytesArePresent ==
  ASSUME KeysApart
  PROVE  Spec => []ServableBytesPresent
<1>1. FileInv => ServableBytesPresent
  BY DEF FileInv
<1> QED
  BY <1>1, FilesInvariant, PTL


-----------------------------------------------------------------------------
(* Pins and source leases. *)

(* Pinned chunks are served. *)
PinsServed ==
    \A r \in Readers : rpc[r] \in {"pinned", "open"} =>
        rman[r] \in Manifests /\ \A o \in ChunksOf[rman[r]] : Servable(o)

(* So are the chunks of a lease that never lapsed, and its manifest is readable. *)
LeasesServed ==
    \A l \in Leases : Protecting(l) /\ ~lapsed[l] =>
        /\ lman[l] \in Manifests /\ Readable(lman[l])
        /\ \A o \in ChunksOf[lman[l]] : Servable(o)

(* A lease past its expiry is known to have lapsed, also when a restart makes it
   UNCERTAIN or its owner reattaches it. *)
LapsesRemembered == \A l \in Leases : lease[l] = "EXPIRED" => lapsed[l]

(* A reader that has read a manifest holds it. *)
ReadersHold == \A r \in Readers : rpc[r] # "idle" => rman[r] \in Manifests

ProtectInv == PinsServed /\ LeasesServed /\ LapsesRemembered /\ ReadersHold

(* A step that takes no protected chunk or manifest out of service, and changes no
   reader or lease, keeps what they rely on. *)
LEMMA ProtectFrame ==
  ASSUME TypeOK, ProtectInv, UNCHANGED <<readerVars, leaseVars>>,
         \A o \in (Pinned \cup LeasedObjects) \cap Objects : Servable(o) => Servable(o)',
         \A m \in LeasedManifests \cap Manifests : Readable(m) => Readable(m)'
  PROVE  ProtectInv'
<1>1. PinsServed'
  BY DataAssumption DEF ProtectInv, PinsServed, Pinned
<1>2. LeasesServed'
  BY DataAssumption DEF ProtectInv, LeasesServed, Protecting, LeasedManifests, LeasedObjects
<1>3. LapsesRemembered' /\ ReadersHold'
  BY DEF ProtectInv, LapsesRemembered, ReadersHold
<1> QED
  BY <1>1, <1>2, <1>3 DEF ProtectInv

(* No step of an upload thread takes anything out of service: rows are only
   added, and a row that is published again is AVAILABLE. *)
LEMMA UploadKeepsProtected ==
  ASSUME TypeOK, ProtectInv, NEW u \in Uploads, UploadStep(u)
  PROVE  ProtectInv'
<1>1. UNCHANGED <<readerVars, leaseVars, tombVars>>
  <2>1. CASE \/ ReserveUpload(u) \/ MarkReceiving(u) \/ SealUpload(u)
             \/ AbortUpload(u) \/ QuarantineUpload(u)
    BY <2>1 DEF ReserveUpload, MarkReceiving, SealUpload, AbortUpload, QuarantineUpload
  <2>2. CASE \/ \E o \in Objects : FindChunk(u, o) \/ ImportChunk(u, o)
             \/ WriteImmutable(u) \/ CatalogChunks(u) \/ QuarantineObject(u)
    BY <2>2 DEF FindChunk, ImportChunk, WriteImmutable, CatalogChunks, QuarantineObject
  <2>3. CASE \/ UploadThreadFails(u) \/ (\E b \in SUBSET Manifests : BuildManifests(u, b))
             \/ WriteManifests(u) \/ PublishManifestBatch(u)
    BY <2>3 DEF UploadThreadFails, BuildManifests, WriteManifests, PublishManifestBatch
  <2> QED
    BY <2>1, <2>2, <2>3 DEF UploadStep
<1>2. \/ UNCHANGED chunk
      \/ \E o \in Objects : chunk' = [chunk EXCEPT ![o] = "AVAILABLE"]
  <2>1. CASE CatalogChunks(u)
    <3>1. cur[u] \in Objects
      BY <2>1 DEF TypeOK, CatalogChunks
    <3> QED
      BY <2>1, <3>1 DEF CatalogChunks
  <2>2. CASE \/ ReserveUpload(u) \/ MarkReceiving(u) \/ SealUpload(u)
             \/ AbortUpload(u) \/ QuarantineUpload(u)
    BY <2>2 DEF ReserveUpload, MarkReceiving, SealUpload, AbortUpload, QuarantineUpload
  <2>3. CASE \/ \E o \in Objects : FindChunk(u, o) \/ ImportChunk(u, o)
             \/ WriteImmutable(u) \/ QuarantineObject(u)
    BY <2>3 DEF FindChunk, ImportChunk, WriteImmutable, QuarantineObject
  <2>4. CASE \/ UploadThreadFails(u) \/ (\E b \in SUBSET Manifests : BuildManifests(u, b))
             \/ WriteManifests(u) \/ PublishManifestBatch(u)
    BY <2>4 DEF UploadThreadFails, BuildManifests, WriteManifests, PublishManifestBatch
  <2> QED
    BY <2>1, <2>2, <2>3, <2>4 DEF UploadStep
<1>3. \/ UNCHANGED man
      \/ man' = [m \in Manifests |-> IF m \in batch[u] THEN "AVAILABLE" ELSE man[m]]
  <2>1. CASE \/ ReserveUpload(u) \/ MarkReceiving(u) \/ SealUpload(u)
             \/ AbortUpload(u) \/ QuarantineUpload(u)
    BY <2>1 DEF ReserveUpload, MarkReceiving, SealUpload, AbortUpload, QuarantineUpload
  <2>2. CASE \/ \E o \in Objects : FindChunk(u, o) \/ ImportChunk(u, o)
             \/ WriteImmutable(u) \/ CatalogChunks(u) \/ QuarantineObject(u)
    BY <2>2 DEF FindChunk, ImportChunk, WriteImmutable, CatalogChunks, QuarantineObject
  <2>3. CASE \/ UploadThreadFails(u) \/ (\E b \in SUBSET Manifests : BuildManifests(u, b))
             \/ WriteManifests(u) \/ PublishManifestBatch(u)
    BY <2>3 DEF UploadThreadFails, BuildManifests, WriteManifests, PublishManifestBatch
  <2> QED
    BY <2>1, <2>2, <2>3 DEF UploadStep
<1>4. \A o \in Objects : Servable(o) => Servable(o)'
  BY <1>1, <1>2 DEF Servable, TypeOK
<1>5. \A m \in Manifests : Readable(m) => Readable(m)'
  BY <1>1, <1>3 DEF Readable
<1> QED
  BY <1>1, <1>4, <1>5, ProtectFrame

(* Maintenance without the ladder passes over what is pinned or leased, and its
   later steps concern tombstoned objects only. *)
LEMMA MaintenanceKeepsProtected ==
  ASSUME ~Ladder, TypeOK, ManifestInv, VictimsTombstoned, DemotionIsLadder, ProtectInv,
         NEW e \in Evictors, MaintenanceStep(e)
  PROVE  ProtectInv'
<1>1. ASSUME NEW m \in Manifests, EvictManifest(e, m) PROVE ProtectInv'
  <2>1. /\ UNCHANGED <<readerVars, leaseVars, chunk, ctomb>>
        /\ m \notin LeasedManifests
        /\ mtomb' = mtomb \cup {m} /\ man' = [man EXCEPT ![m] = "EVICTING"]
    BY <1>1 DEF EvictManifest, Evictable
  <2>2. \A n \in LeasedManifests \cap Manifests : Readable(n) => Readable(n)'
    BY <2>1 DEF TypeOK, Readable
  <2> QED
    BY <2>1, <2>2, ProtectFrame DEF Servable
<1>2. CASE FinishManifestEviction(e)
  <2>1. /\ UNCHANGED <<readerVars, leaseVars, chunk, tombVars>>
        /\ job[e].target \in mtomb
        /\ man' = [man EXCEPT ![job[e].target] = "ABSENT"]
    BY <1>2 DEF FinishManifestEviction, DropManifestRow, ManifestInv, TargetsTombstoned
  <2>2. \A n \in LeasedManifests \cap Manifests : Readable(n) => Readable(n)'
    BY <2>1 DEF TypeOK, Readable
  <2> QED
    BY <2>1, <2>2, ProtectFrame DEF Servable
<1>3. ASSUME NEW victims \in SUBSET Objects, GcSelect(e, victims) PROVE ProtectInv'
  <2>1. /\ UNCHANGED <<readerVars, leaseVars, man, mtomb>>
        /\ \A o \in victims : o \notin Pinned \cup LeasedObjects
        /\ ctomb' = ctomb \cup victims
        /\ chunk' = [o \in Objects |-> IF o \in victims THEN "EVICTING" ELSE chunk[o]]
    BY <1>3 DEF GcSelect, Collectable
  <2>2. \A o \in (Pinned \cup LeasedObjects) \cap Objects : Servable(o) => Servable(o)'
    BY <2>1 DEF Servable
  <2> QED
    BY <2>1, <2>2, ProtectFrame DEF Readable
<1>4. CASE GcFinish(e)
  <2>1. /\ UNCHANGED <<readerVars, leaseVars, man, tombVars>>
        /\ DropChunkRows(job[e].done)
    BY <1>4 DEF GcFinish
  <2>2. \A o \in Objects : Servable(o) => Servable(o)'
    BY <2>1 DEF Servable, DropChunkRows, Deletable, VictimsTombstoned
  <2> QED
    BY <2>1, <2>2, ProtectFrame DEF Readable
<1>5. CASE \/ MoveManifest(e) \/ (\E o \in Objects : GcMove(e, o)) \/ MaintenanceFails(e)
           \/ \E victims \in SUBSET Objects : DemoteSelect(e, victims)
           \/ DemoteUnlink(e)
  <2>1. UNCHANGED <<readerVars, leaseVars, man, tombVars, chunk>>
    BY <1>5 DEF MoveManifest, GcMove, MaintenanceFails, DemoteSelect, DemoteUnlink
  <2> QED
    BY <2>1, ProtectFrame DEF Readable, Servable
<1>6. CASE DemoteUpdate(e)
  BY <1>6 DEF DemoteUpdate, DemotionIsLadder
<1> QED
  BY <1>1, <1>2, <1>3, <1>4, <1>5, <1>6 DEF MaintenanceStep


(* Readers pin what is servable, a crash keeps their pins; leases are granted on
   what is readable and servable, and a restart keeps them. *)
LEMMA OthersKeepProtected ==
  ASSUME TypeOK, ManifestInv, VictimsTombstoned, ProtectInv,
         \/ \E r \in Readers : ReaderStep(r)
         \/ \E l \in Leases : LeaseStep(l)
         \/ \E p \in Prefixes : DeletePrefix(p)
         \/ Crash \/ RecoveryStep \/ UNCHANGED vars
  PROVE  ProtectInv'
<1>1. ASSUME NEW r \in Readers, ReaderStep(r) PROVE ProtectInv'
  <2>1. UNCHANGED <<leaseVars, man, tombVars, chunk>>
    BY <1>1 DEF ReaderStep, ReadManifest, PinChunkRows, OpenChunkFiles, ReleasePins
  <2>2. LeasesServed' /\ LapsesRemembered'
    BY <2>1 DEF ProtectInv, LeasesServed, LapsesRemembered, Protecting, Servable, Readable
  <2>3. ASSUME NEW p \in Prefixes, ReadManifest(r, p) PROVE PinsServed' /\ ReadersHold'
    <3>1. /\ prefix[p] \in Manifests
          /\ rman' = [rman EXCEPT ![r] = prefix[p]]
          /\ rpc' = [rpc EXCEPT ![r] = "read"]
      BY <2>3 DEF TypeOK, ReadManifest
    <3> QED
      BY <2>1, <3>1 DEF TypeOK, ProtectInv, PinsServed, ReadersHold, Servable
  <2>4. ASSUME PinChunkRows(r) PROVE PinsServed' /\ ReadersHold'
    BY <2>1, <2>4 DEF PinChunkRows, TypeOK, ProtectInv, PinsServed, ReadersHold, Servable
  <2>5. ASSUME OpenChunkFiles(r) PROVE PinsServed' /\ ReadersHold'
    BY <2>1, <2>5 DEF OpenChunkFiles, TypeOK, ProtectInv, PinsServed, ReadersHold, Servable
  <2>6. ASSUME ReleasePins(r) PROVE PinsServed' /\ ReadersHold'
    BY <2>1, <2>6 DEF ReleasePins, TypeOK, ProtectInv, PinsServed, ReadersHold, Servable
  <2>7. PinsServed' /\ ReadersHold'
    BY <1>1, <2>3, <2>4, <2>5, <2>6 DEF ReaderStep
  <2> QED
    BY <2>2, <2>7 DEF ProtectInv
<1>2. ASSUME NEW l \in Leases, LeaseStep(l) PROVE ProtectInv'
  <2>1. UNCHANGED <<readerVars, man, tombVars, chunk>>
    BY <1>2 DEF LeaseStep, AcquireSourceLease, SourceLeaseExpires, ReattachSourceLease,
                ReleaseSourceLease
  <2>2. PinsServed' /\ ReadersHold'
    BY <2>1 DEF ProtectInv, PinsServed, ReadersHold, Servable
  <2>3. ASSUME NEW m \in Manifests, AcquireSourceLease(l, m)
        PROVE  LeasesServed' /\ LapsesRemembered'
    BY <2>1, <2>3 DEF AcquireSourceLease, TypeOK, ProtectInv, LeasesServed, LapsesRemembered,
                      Protecting, Servable, Readable
  <2>4. ASSUME SourceLeaseExpires(l) PROVE LeasesServed' /\ LapsesRemembered'
    BY <2>1, <2>4 DEF SourceLeaseExpires, TypeOK, ProtectInv, LeasesServed, LapsesRemembered,
                      Protecting, Servable, Readable
  <2>5. ASSUME ReattachSourceLease(l) PROVE LeasesServed' /\ LapsesRemembered'
    BY <2>1, <2>5 DEF ReattachSourceLease, TypeOK, ProtectInv, LeasesServed, LapsesRemembered,
                      Protecting, Servable, Readable
  <2>6. ASSUME ReleaseSourceLease(l) PROVE LeasesServed' /\ LapsesRemembered'
    BY <2>1, <2>6 DEF ReleaseSourceLease, TypeOK, ProtectInv, LeasesServed, LapsesRemembered,
                      Protecting, Servable, Readable
  <2>7. LeasesServed' /\ LapsesRemembered'
    BY <1>2, <2>3, <2>4, <2>5, <2>6 DEF LeaseStep
  <2> QED
    BY <2>2, <2>7 DEF ProtectInv
<1>3. CASE \/ \E p \in Prefixes : DeletePrefix(p)
           \/ PruneOverdue \/ OpenRefused \/ StoreOpened \/ UNCHANGED vars
  <2>1. UNCHANGED <<readerVars, leaseVars, man, tombVars, chunk>>
    BY <1>3 DEF DeletePrefix, PruneOverdue, OpenRefused, StoreOpened, vars
  <2> QED
    BY <2>1, ProtectFrame DEF Servable, Readable
<1>4. CASE Crash
  <2>1. /\ UNCHANGED <<leaseVars, man, tombVars, chunk>>
        /\ rpc' = [r \in Readers |-> IF rpc[r] \in {"pinned", "open"} THEN "pinned" ELSE "idle"]
        /\ rman' = [r \in Readers |-> IF rpc[r] \in {"pinned", "open"} THEN rman[r] ELSE NoManifest]
    BY <1>4 DEF Crash
  <2>2. LeasesServed' /\ LapsesRemembered'
    BY <2>1 DEF ProtectInv, LeasesServed, LapsesRemembered, Protecting, Servable, Readable
  <2>3. PinsServed' /\ ReadersHold'
    BY <2>1 DEF ProtectInv, PinsServed, ReadersHold, Servable
  <2> QED
    BY <2>2, <2>3 DEF ProtectInv
<1>5. CASE Reopen
  <2>1. /\ UNCHANGED <<readerVars, lman, lapsed, man, tombVars, chunk>>
        /\ lease' = [l \in Leases |->
                       IF lease[l] \in {"ACTIVE", "EXPIRED"} THEN "UNCERTAIN" ELSE lease[l]]
    BY <1>5 DEF Reopen
  <2>2. PinsServed' /\ ReadersHold'
    BY <2>1 DEF ProtectInv, PinsServed, ReadersHold, Servable
  <2>3. LapsesRemembered'
    BY <2>1 DEF ProtectInv, LapsesRemembered
  <2>4. \A l \in Leases : lease'[l] \in {"ACTIVE", "UNCERTAIN"} /\ ~lapsed[l] => Protecting(l)
    BY <2>1 DEF ProtectInv, LapsesRemembered, Protecting
  <2>5. LeasesServed'
    BY <2>1, <2>4 DEF ProtectInv, LeasesServed, Protecting, Servable, Readable
  <2> QED
    BY <2>2, <2>3, <2>5 DEF ProtectInv
<1>6. ASSUME NEW m \in Manifests, ReconcileManifest(m) PROVE ProtectInv'
  <2>1. /\ man[m] = "EVICTING"
        /\ UNCHANGED <<readerVars, leaseVars, tombVars, chunk>>
        /\ man' = man \/ man' = [man EXCEPT ![m] = "ABSENT"]
    BY <1>6 DEF ReconcileManifest, ManifestsEvicting, DropManifestRow
  <2>2. \A n \in LeasedManifests \cap Manifests : Readable(n) => Readable(n)'
    BY <2>1 DEF TypeOK, Readable
  <2> QED
    BY <2>1, <2>2, ProtectFrame DEF Servable
<1>7. ASSUME NEW o \in Objects, ReconcileChunk(o) PROVE ProtectInv'
  <2>1. /\ UNCHANGED <<readerVars, leaseVars, tombVars, man>>
        /\ chunk' = chunk \/ DropChunkRows({o})
    BY <1>7 DEF ReconcileChunk
  <2>2. \A c \in Objects : Servable(c) => Servable(c)'
    BY <2>1 DEF Servable, DropChunkRows, Deletable, VictimsTombstoned
  <2> QED
    BY <2>1, <2>2, ProtectFrame DEF Readable
<1> QED
  BY <1>1, <1>2, <1>3, <1>4, <1>5, <1>6, <1>7 DEF RecoveryStep

(* What pins and leases rely on holds in every reachable state of a store that
   does not demote. *)
THEOREM ProtectionInvariant ==
  ASSUME KeysApart, ~Ladder
  PROVE  Spec => []ProtectInv
<1>1. Init => ProtectInv
  BY DEF Init, ProtectInv, PinsServed, LeasesServed, LapsesRemembered, ReadersHold, Protecting
<1>2. TypeOK /\ ManifestInv /\ FileInv /\ RefInv /\ ProtectInv /\ [Next]_vars => ProtectInv'
  BY UploadKeepsProtected, MaintenanceKeepsProtected, OthersKeepProtected
     DEF Next, FileInv, RefInv
<1> QED
  BY <1>1, <1>2, TypeCorrect, ManifestsInvariant, FilesInvariant, ReferencesInvariant, PTL
     DEF Spec

(* From the pin to its release every pinned chunk stays servable with its bytes in
   place, across a crash too, if contested keys are apart. *)
THEOREM PinsAreHonoured ==
  ASSUME KeysApart
  PROVE  Spec => []PinnedChunksReadable
<1>1. CASE Ladder
  <2>1. PinnedChunksReadable
    BY <1>1 DEF PinnedChunksReadable
  <2> QED
    BY <2>1, PTL
<1>2. CASE ~Ladder
  <2>1. TypeOK /\ FileInv /\ ProtectInv => PinnedChunksReadable
    BY DataAssumption DEF FileInv, ProtectInv, PinsServed, ServableBytesPresent,
                          PinnedChunksReadable
  <2>2. Spec => []ProtectInv
    BY <1>2, ProtectionInvariant
  <2> QED
    BY <2>1, <2>2, TypeCorrect, FilesInvariant, PTL
<1> QED
  BY <1>1, <1>2

(* A source lease that never ran past its expiry keeps its manifest, the pack and
   every chunk, also over a restart, if contested keys are apart. *)
THEOREM LeasesAreHonoured ==
  ASSUME KeysApart
  PROVE  Spec => []LeasedObjectsKept
<1>1. CASE Ladder
  <2>1. LeasedObjectsKept
    BY <1>1 DEF LeasedObjectsKept
  <2> QED
    BY <2>1, PTL
<1>2. CASE ~Ladder
  <2>1. TypeOK /\ ManifestInv /\ FileInv /\ ProtectInv => LeasedObjectsKept
    BY DataAssumption DEF FileInv, ProtectInv, LeasesServed, ServableBytesPresent,
                          LeasedObjectsKept, ManifestInv, RowsComplete, Readable
  <2>2. Spec => []ProtectInv
    BY <1>2, ProtectionInvariant
  <2> QED
    BY <2>1, <2>2, TypeCorrect, ManifestsInvariant, FilesInvariant, PTL
<1> QED
  BY <1>1, <1>2


=============================================================================
