---------------------------- MODULE ObjectStore ----------------------------
(***************************************************************************)
(* The LocalStore of crates/kvpack/src/store for one tenant: a SQLite      *)
(* catalog behind one mutex and the object files beside it, changed by     *)
(* upload threads, maintenance threads and readers.  One action is one     *)
(* catalog transaction or one file operation, because the mutex is dropped *)
(* between them; the steps of different threads interleave freely and the  *)
(* process may crash between any two.                                      *)
(*                                                                         *)
(* Sizes are abstracted: every chunk object has ChunkBytes, every manifest *)
(* file ManifestBytes, and every upload reserves ExpectedBytes.  An object *)
(* is known by its object key; ContentOf gives the (chunk_id, key_epoch)   *)
(* the UNIQUE constraint of the chunks table is on, so two keys with one   *)
(* content are two encryptions of the same chunk.                          *)
(***************************************************************************)
EXTENDS Integers, FiniteSets

CONSTANTS
    Uploads,       \* idempotency keys
    Imports,       \* the uploads driven by the authenticated-import path
    Objects,       \* chunk object keys
    Contents,      \* (chunk_id, key_epoch) pairs
    Manifests,     \* manifest ids
    Prefixes,      \* prefix_checkpoints keys
    Readers,       \* reading threads, each restoring one manifest at a time
    Leases,        \* source lease ids
    Evictors,      \* maintenance threads
    NoManifest, NoObject,
    ContentOf,     \* [Objects -> Contents]
    Carries,       \* [Uploads -> SUBSET Objects]: the objects a writer encodes
    Batches,       \* [Uploads -> SUBSET SUBSET Manifests]: cut sets it may build
    ChunksOf,      \* [Manifests -> SUBSET Objects]
    ParentOf,      \* [Manifests -> Manifests \cup {NoManifest}]
    PrefixOf,      \* [Manifests -> Prefixes]
    ChunkBytes, ManifestBytes, ExpectedBytes, Quota, StagingQuota,
    GcBatch,       \* victims of one gc_chunk_batch
    Ladder,        \* whether maintenance runs with the fidelity ladder
    AuditRoom,     \* bound: free audit rows a process leaves behind
    MaxOverdue,    \* bound: quarantine entries it leaves for the next open
    MaxCrashes     \* bound: crashes of one behaviour

ASSUME SetsAssumption ==
    /\ IsFiniteSet(Uploads) /\ IsFiniteSet(Objects) /\ IsFiniteSet(Manifests)
    /\ Imports \subseteq Uploads
    /\ NoManifest \notin Manifests
    /\ NoObject \notin Objects

ASSUME DataAssumption ==
    /\ ContentOf \in [Objects -> Contents]
    /\ Carries \in [Uploads -> SUBSET Objects]
    /\ Batches \in [Uploads -> SUBSET ((SUBSET Manifests) \ {{}})]
    /\ ChunksOf \in [Manifests -> SUBSET Objects]
    /\ ParentOf \in [Manifests -> Manifests \cup {NoManifest}]
    /\ PrefixOf \in [Manifests -> Prefixes]

ASSUME SizesAssumption ==
    /\ ChunkBytes \in Nat /\ ManifestBytes \in Nat /\ ExpectedBytes \in Nat
    /\ Quota \in Nat /\ StagingQuota \in Nat /\ GcBatch \in Nat
    /\ AuditRoom \in Nat /\ MaxOverdue \in Nat /\ MaxCrashes \in Nat
    /\ Ladder \in BOOLEAN

VARIABLES
    up,        \* uploads.state
    held,      \* uploads.reserved_bytes
    reserved,  \* tenants.reserved_bytes
    durable,   \* tenants.durable_bytes
    chunk,     \* chunks.location_state, "ABSENT" without a row
    rung,      \* chunks.fidelity_rung
    refcount,  \* chunks.refcount
    man,       \* manifests row and its local location state
    refs,      \* manifest_chunks, the distinct object keys of a manifest
    prefix,    \* prefix_checkpoints
    ctomb,     \* tombstones of kind chunk
    mtomb,     \* tombstones of kind manifest
    cfile,     \* object files under chunks/
    mfile,     \* pack files under manifests/
    pc,        \* where each upload's thread is
    cur,       \* the object that thread is putting
    got,       \* the object keys its puts returned
    batch,     \* the manifests it is about to publish
    job,       \* what each maintenance thread is doing
    rpc,       \* where each reader is
    rman,      \* the manifest it reads
    lease,     \* source_leases.state, "EXPIRED" for ACTIVE past expires_ns
    lman,      \* source_leases.manifest_id
    lapsed,    \* history: this lease was past its expiry at some point
    mode,      \* process up, down or running LocalStore::open
    room,      \* rows the audit outbox has left for LocalStore::open; 0 while open
    overdue,   \* quarantine entries, expired or over the cap, open has to prune
    crashes

uploadVars  == <<up, held, reserved>>
chunkVars   == <<chunk, rung, refcount>>
manVars     == <<man, refs, prefix>>
tombVars    == <<ctomb, mtomb>>
fileVars    == <<cfile, mfile>>
workerVars  == <<pc, cur, got, batch>>
readerVars  == <<rpc, rman>>
leaseVars   == <<lease, lman, lapsed>>
modeVars    == <<mode, room, overdue, crashes>>

vars == <<up, held, reserved, durable, chunk, rung, refcount, man, refs, prefix,
          ctomb, mtomb, cfile, mfile, pc, cur, got, batch, job,
          rpc, rman, lease, lman, lapsed, mode, room, overdue, crashes>>

InFlightStates == {"RESERVED", "RECEIVING", "VERIFIED"}

UploadStates ==
    {"NONE", "RESERVED", "RECEIVING", "VERIFIED", "PUBLISHED", "ABORTED",
     "QUARANTINED"}

ChunkStates == {"ABSENT", "AVAILABLE", "TOMBSTONED", "EVICTING", "TRASHED"}

IdleJob == [op |-> "idle", target |-> NoManifest, todo |-> {}, done |-> {}, spent |-> {}]

Jobs ==
    [op : {"idle", "evict", "evicted", "gc", "demote", "unlink"},
     target : Manifests \cup {NoManifest},
     todo : SUBSET Objects,     \* gc: still to move; demote: chosen on rung 1
     done : SUBSET Objects,     \* gc: moved to trash; demote: chosen on rung 0
     spent : SUBSET Objects]    \* gc: was TOMBSTONED, bytes already released

TypeOK ==
    /\ up \in [Uploads -> UploadStates]
    /\ held \in [Uploads -> Nat]
    /\ reserved \in Nat /\ durable \in Nat
    /\ chunk \in [Objects -> ChunkStates]
    /\ rung \in [Objects -> 0 .. 2]
    /\ refcount \in [Objects -> Nat]
    /\ man \in [Manifests -> {"ABSENT", "AVAILABLE", "EVICTING"}]
    /\ refs \in [Manifests -> SUBSET Objects]
    /\ prefix \in [Prefixes -> Manifests \cup {NoManifest}]
    /\ ctomb \subseteq Objects /\ mtomb \subseteq Manifests
    /\ cfile \subseteq Objects /\ mfile \subseteq Manifests
    /\ pc \in [Uploads -> {"idle", "write", "linked", "existing", "discard", "pack", "publish"}]
    /\ cur \in [Uploads -> Objects \cup {NoObject}]
    /\ \A u \in Uploads : cur[u] = NoObject => pc[u] \in {"idle", "pack", "publish"}
    /\ got \in [Uploads -> SUBSET Objects]
    /\ batch \in [Uploads -> SUBSET Manifests]
    /\ job \in [Evictors -> Jobs]
    /\ rpc \in [Readers -> {"idle", "read", "pinned", "open"}]
    /\ rman \in [Readers -> Manifests \cup {NoManifest}]
    /\ lease \in [Leases -> {"NONE", "ACTIVE", "EXPIRED", "UNCERTAIN", "RELEASED"}]
    /\ lman \in [Leases -> Manifests \cup {NoManifest}]
    /\ lapsed \in [Leases -> BOOLEAN]
    /\ mode \in {"open", "down", "recovering"}
    /\ room \in 0 .. AuditRoom /\ overdue \in 0 .. MaxOverdue
    /\ crashes \in 0 .. MaxCrashes

Init ==
    /\ up = [u \in Uploads |-> "NONE"]
    /\ held = [u \in Uploads |-> 0]
    /\ reserved = 0 /\ durable = 0
    /\ chunk = [o \in Objects |-> "ABSENT"]
    /\ rung = [o \in Objects |-> 0]
    /\ refcount = [o \in Objects |-> 0]
    /\ man = [m \in Manifests |-> "ABSENT"]
    /\ refs = [m \in Manifests |-> {}]
    /\ prefix = [p \in Prefixes |-> NoManifest]
    /\ ctomb = {} /\ mtomb = {}
    /\ cfile = {} /\ mfile = {}
    /\ pc = [u \in Uploads |-> "idle"]
    /\ cur = [u \in Uploads |-> NoObject]
    /\ got = [u \in Uploads |-> {}]
    /\ batch = [u \in Uploads |-> {}]
    /\ job = [e \in Evictors |-> IdleJob]
    /\ rpc = [r \in Readers |-> "idle"]
    /\ rman = [r \in Readers |-> NoManifest]
    /\ lease = [l \in Leases |-> "NONE"]
    /\ lman = [l \in Leases |-> NoManifest]
    /\ lapsed = [l \in Leases |-> FALSE]
    /\ mode = "open" /\ room = 0 /\ overdue = 0 /\ crashes = 0

-----------------------------------------------------------------------------
(* Mutant: a counter decremented without MAX(0, ...). *)
MinusUnclipped(a, b) == a - b

(* MAX(0, a - b), the form every byte counter is decremented in. *)
Minus(a, b) == IF b <= a THEN a - b ELSE 0

InFlight == \E u \in Uploads : up[u] \in InFlightStates

(* Mutant: a chunk counts as pinned only once its file is open. *)
PinnedOnceOpen == UNION {ChunksOf[rman[r]] : r \in {q \in Readers : rpc[q] = "open"}}

(* The objects some pins row names. *)
Pinned == UNION {ChunksOf[rman[r]] : r \in {q \in Readers : rpc[q] \in {"pinned", "open"}}}

(* A source lease protects its objects while UNCERTAIN, or ACTIVE and unexpired. *)
Protecting(l) == lease[l] \in {"ACTIVE", "UNCERTAIN"}

(* Mutant: UNCERTAIN leases are forgotten. *)
ActivelyLeasedManifests == {lman[l] : l \in {k \in Leases : lease[k] = "ACTIVE"}}

LeasedManifests == {lman[l] : l \in {k \in Leases : Protecting(k)}}

LeasedObjects == UNION {ChunksOf[m] : m \in LeasedManifests}

(* Mutant: the tombstone predicate is left out of the query. *)
ServableByState(o) == chunk[o] = "AVAILABLE"

(* A row a byte-serving query accepts. *)
Servable(o) == chunk[o] = "AVAILABLE" /\ o \notin ctomb

Readable(m) == man[m] = "AVAILABLE" /\ m \notin mtomb

(* The rows reconcile_evictions has still to finish. *)
ManifestsEvicting == {m \in Manifests : man[m] = "EVICTING"}

ChunksEvicting == {o \in Objects : chunk[o] \in {"EVICTING", "TRASHED"}}

EvictionsFinished == ManifestsEvicting = {} /\ ChunksEvicting = {}

(* preflight_events and append_events of a step of LocalStore::open: nobody
   exports before the store is open, so what it appends is gone. *)
TakeAuditRows(n) == n <= room /\ room' = room - n

-----------------------------------------------------------------------------
(* Upload lifecycle: publication/uploads.rs. *)

(* Mutant: reservations of other uploads do not count towards the quota. *)
QuotaAdmitsAlone ==
    /\ reserved + ExpectedBytes <= StagingQuota
    /\ durable + ExpectedBytes <= Quota

(* The staging and the durable quota checks of the reserving transaction. *)
QuotaAdmits ==
    /\ reserved + ExpectedBytes <= StagingQuota
    /\ durable + reserved + ExpectedBytes <= Quota

(* reserve_upload on a new key, or RE_INIT of an ABORTED one, which restarts from
   an empty ledger.  The checks made before the write transaction are repeated
   inside it, so only the transaction decides. *)
ReserveUpload(u) ==
    /\ mode = "open"
    /\ up[u] \in {"NONE", "ABORTED"}
    /\ QuotaAdmits
    /\ up' = [up EXCEPT ![u] = "RESERVED"]
    /\ held' = [held EXCEPT ![u] = ExpectedBytes]
    /\ reserved' = reserved + ExpectedBytes
    /\ got' = [got EXCEPT ![u] = {}]
    /\ UNCHANGED <<durable, chunkVars, manVars, tombVars, fileVars, pc, cur, batch,
                   job, readerVars, leaseVars, modeVars>>

MarkReceiving(u) ==
    /\ mode = "open"
    /\ up[u] = "RESERVED"
    /\ up' = [up EXCEPT ![u] = "RECEIVING"]
    /\ UNCHANGED <<held, reserved, durable, chunkVars, manVars, tombVars, fileVars,
                   workerVars, job, readerVars, leaseVars, modeVars>>

(* seal_authenticated_import and seal_provisional_upload: the ledger is complete. *)
SealUpload(u) ==
    /\ mode = "open"
    /\ up[u] = "RECEIVING"
    /\ \A o \in Carries[u] : \E c \in got[u] : ContentOf[c] = ContentOf[o]
    /\ up' = [up EXCEPT ![u] = "VERIFIED"]
    /\ UNCHANGED <<held, reserved, durable, chunkVars, manVars, tombVars, fileVars,
                   workerVars, job, readerVars, leaseVars, modeVars>>

(* Mutant: an upload that is already PUBLISHED gives its bytes back again. *)
AbortPublishedUpload(u) ==
    /\ mode # "down"
    /\ up[u] \in InFlightStates \cup {"PUBLISHED"}
    /\ up' = [up EXCEPT ![u] = "ABORTED"]
    /\ held' = [held EXCEPT ![u] = 0]
    /\ reserved' = Minus(reserved, held[u])
    /\ UNCHANGED <<durable, chunkVars, manVars, tombVars, fileVars, workerVars,
                   job, readerVars, leaseVars, modeVars>>

(* abort_upload, by the session's owner, its Drop, a cancel, the reaper, or the
   restart's reconciliation, which comes after the evictions; the upload's own
   thread may be in the middle of a put and goes on. *)
AbortUpload(u) ==
    /\ \/ mode = "open" /\ UNCHANGED room
       \/ mode = "recovering" /\ EvictionsFinished /\ TakeAuditRows(1)
    /\ up[u] \in InFlightStates
    /\ up' = [up EXCEPT ![u] = "ABORTED"]
    /\ held' = [held EXCEPT ![u] = 0]
    /\ reserved' = Minus(reserved, held[u])
    /\ UNCHANGED <<durable, chunkVars, manVars, tombVars, fileVars, workerVars,
                   job, readerVars, leaseVars, mode, overdue, crashes>>

QuarantineUpload(u) ==
    /\ mode = "open"
    /\ up[u] \in InFlightStates
    /\ up' = [up EXCEPT ![u] = "QUARANTINED"]
    /\ held' = [held EXCEPT ![u] = 0]
    /\ reserved' = Minus(reserved, held[u])
    /\ UNCHANGED <<durable, chunkVars, manVars, tombVars, fileVars, workerVars,
                   job, readerVars, leaseVars, modeVars>>

-----------------------------------------------------------------------------
(* Chunk puts: publication/chunks.rs. *)

(* put_chunk_with_retention: find_chunk answers with the canonical key of a
   servable row of the same content, or the thread goes on to write. *)
FindChunk(u, o) ==
    /\ mode = "open"
    /\ pc[u] = "idle" /\ u \notin Imports
    /\ up[u] \in InFlightStates
    /\ o \in Carries[u]
    /\ \/ \E c \in Objects :
            /\ ContentOf[c] = ContentOf[o] /\ Servable(c)
            /\ got' = [got EXCEPT ![u] = @ \cup {c}]
            /\ UNCHANGED <<pc, cur>>
       \/ /\ \A c \in Objects : ContentOf[c] = ContentOf[o] => ~Servable(c)
          /\ pc' = [pc EXCEPT ![u] = "write"]
          /\ cur' = [cur EXCEPT ![u] = o]
          /\ UNCHANGED got
    /\ UNCHANGED <<uploadVars, durable, chunkVars, manVars, tombVars, fileVars,
                   batch, job, readerVars, leaseVars, modeVars>>

(* put_authenticated_import_chunk: no dedup lookup, but only while RECEIVING. *)
ImportChunk(u, o) ==
    /\ mode = "open"
    /\ pc[u] = "idle" /\ u \in Imports
    /\ up[u] = "RECEIVING"
    /\ o \in Carries[u]
    /\ pc' = [pc EXCEPT ![u] = "write"]
    /\ cur' = [cur EXCEPT ![u] = o]
    /\ UNCHANGED <<uploadVars, durable, chunkVars, manVars, tombVars, fileVars,
                   got, batch, job, readerVars, leaseVars, modeVars>>

(* write_immutable: an existing target is kept, otherwise a hard link publishes
   the synced partial without replacing. *)
WriteImmutable(u) ==
    /\ mode = "open"
    /\ pc[u] = "write"
    /\ pc' = [pc EXCEPT ![u] = IF cur[u] \in cfile THEN "existing" ELSE "linked"]
    /\ cfile' = cfile \cup {cur[u]}
    /\ UNCHANGED <<uploadVars, durable, chunkVars, manVars, tombVars, mfile,
                   cur, got, batch, job, readerVars, leaseVars, modeVars>>

RowsOfContent(c) == {o \in Objects : ContentOf[o] = c /\ chunk[o] # "ABSENT"}

(* catalog_chunks: INSERT OR IGNORE under UNIQUE(chunk_id, key_epoch), then the
   canonical row whatever its state.  An import's transaction also advances the
   upload cursor and needs RECEIVING. *)
CatalogChunks(u) ==
    /\ mode = "open"
    /\ pc[u] \in {"linked", "existing"}
    /\ u \in Imports => up[u] = "RECEIVING"
    /\ LET rows == RowsOfContent(ContentOf[cur[u]])
           o    == cur[u]
       IN \/ /\ rows = {}
             /\ chunk' = [chunk EXCEPT ![o] = "AVAILABLE"]
             /\ rung' = [rung EXCEPT ![o] = 0]
             /\ refcount' = [refcount EXCEPT ![o] = 0]
             /\ got' = [got EXCEPT ![u] = @ \cup {o}]
             /\ pc' = [pc EXCEPT ![u] = "idle"]
             /\ cur' = [cur EXCEPT ![u] = NoObject]
          \/ \E c \in rows :
             /\ got' = [got EXCEPT ![u] = @ \cup {c}]
             /\ IF pc[u] = "linked" /\ c # o
                  THEN pc' = [pc EXCEPT ![u] = "discard"] /\ UNCHANGED cur
                  ELSE /\ pc' = [pc EXCEPT ![u] = "idle"]
                       /\ cur' = [cur EXCEPT ![u] = NoObject]
             /\ UNCHANGED chunkVars
    /\ UNCHANGED <<uploadVars, durable, manVars, tombVars, fileVars, batch,
                   job, readerVars, leaseVars, modeVars>>

(* quarantine_object: the put that lost to another key of the same content moves
   its own file away, in a second transaction after the one that found the winner. *)
QuarantineObject(u) ==
    /\ mode = "open"
    /\ pc[u] = "discard"
    /\ cfile' = cfile \ {cur[u]}
    /\ pc' = [pc EXCEPT ![u] = "idle"]
    /\ cur' = [cur EXCEPT ![u] = NoObject]
    /\ UNCHANGED <<uploadVars, durable, chunkVars, manVars, tombVars, mfile,
                   got, batch, job, readerVars, leaseVars, modeVars>>

(* Any error of the put or of the publication: the thread gives up. *)
UploadThreadFails(u) ==
    /\ mode = "open"
    /\ pc[u] # "idle"
    /\ pc' = [pc EXCEPT ![u] = "idle"]
    /\ cur' = [cur EXCEPT ![u] = NoObject]
    /\ batch' = [batch EXCEPT ![u] = {}]
    /\ UNCHANGED <<uploadVars, durable, chunkVars, manVars, tombVars, fileVars,
                   got, job, readerVars, leaseVars, modeVars>>

-----------------------------------------------------------------------------
(* Publication: publication/batch.rs and publication/manifests.rs. *)

(* Mutant: the catalog transaction runs before the pack files are written. *)
BuildAndSkipWrite(u, b) ==
    /\ mode = "open"
    /\ pc[u] = "idle"
    /\ up[u] \in InFlightStates
    /\ b \in Batches[u]
    /\ \A m \in b : ChunksOf[m] \subseteq got[u]
    /\ batch' = [batch EXCEPT ![u] = b]
    /\ pc' = [pc EXCEPT ![u] = "publish"]
    /\ UNCHANGED <<uploadVars, durable, chunkVars, manVars, tombVars, fileVars,
                   cur, got, job, readerVars, leaseVars, modeVars>>

(* The thread has a reference for every chunk and builds its cut set. *)
BuildManifests(u, b) ==
    /\ mode = "open"
    /\ pc[u] = "idle"
    /\ up[u] \in InFlightStates
    /\ b \in Batches[u]
    /\ \A m \in b : ChunksOf[m] \subseteq got[u]
    /\ batch' = [batch EXCEPT ![u] = b]
    /\ pc' = [pc EXCEPT ![u] = "pack"]
    /\ UNCHANGED <<uploadVars, durable, chunkVars, manVars, tombVars, fileVars,
                   cur, got, job, readerVars, leaseVars, modeVars>>

(* validate_and_write_manifest_batch: the pack files, before any catalog change. *)
WriteManifests(u) ==
    /\ mode = "open"
    /\ pc[u] = "pack"
    /\ mfile' = mfile \cup batch[u]
    /\ pc' = [pc EXCEPT ![u] = "publish"]
    /\ UNCHANGED <<uploadVars, durable, chunkVars, manVars, tombVars, cfile,
                   cur, got, batch, job, readerVars, leaseVars, modeVars>>

(* The manifests of a batch that have no catalog row yet; the others keep their
   rows and only have their location made AVAILABLE again. *)
NewManifests(b) == {m \in b : man[m] = "ABSENT"}

NewReferences(b, o) == {m \in NewManifests(b) : o \in ChunksOf[m]}

(* Bytes charged: new manifests, and chunks going from zero references. *)
ActualBytes(b) ==
    ManifestBytes * Cardinality(NewManifests(b))
      + ChunkBytes * Cardinality({o \in Objects :
                                    refcount[o] = 0 /\ NewReferences(b, o) # {}})

(* Mutant: any row will do. *)
PublishableRow(o) == chunk[o] # "ABSENT"

(* The chunk rows a new manifest may reference; tombstones are not looked at. *)
Publishable(o) == chunk[o] = "AVAILABLE"

(* The publishing transaction of publish_manifest_batch_inner.  The primary key
   of manifest_chunks refuses a manifest whose old rows are still there. *)
PublishManifestBatch(u) ==
    LET b == batch[u] IN
    /\ mode = "open"
    /\ pc[u] = "publish"
    /\ up[u] \in InFlightStates
    /\ \A m \in NewManifests(b) :
         /\ refs[m] = {}
         /\ \A o \in ChunksOf[m] : Publishable(o)
    /\ ActualBytes(b) <= held[u]
    /\ man' = [m \in Manifests |-> IF m \in b THEN "AVAILABLE" ELSE man[m]]
    /\ refs' = [m \in Manifests |-> IF m \in NewManifests(b) THEN ChunksOf[m] ELSE refs[m]]
    /\ refcount' = [o \in Objects |-> refcount[o] + Cardinality(NewReferences(b, o))]
    /\ prefix' = [p \in Prefixes |->
                    IF \E m \in b : PrefixOf[m] = p
                      THEN CHOOSE m \in b : PrefixOf[m] = p
                      ELSE prefix[p]]
    /\ reserved' = Minus(reserved, held[u])
    /\ durable' = durable + ActualBytes(b)
    /\ up' = [up EXCEPT ![u] = "PUBLISHED"]
    /\ pc' = [pc EXCEPT ![u] = "idle"]
    /\ got' = [got EXCEPT ![u] = {}]
    /\ batch' = [batch EXCEPT ![u] = {}]
    /\ UNCHANGED <<held, chunk, rung, tombVars, fileVars, cur, job, readerVars,
                   leaseVars, modeVars>>

(* delete_prefix, by the operator: the checkpoint goes, the manifest stays.  The
   prefix tombstone it leaves is read by nobody. *)
DeletePrefix(p) ==
    /\ mode = "open"
    /\ prefix[p] # NoManifest
    /\ prefix' = [prefix EXCEPT ![p] = NoManifest]
    /\ UNCHANGED <<uploadVars, durable, chunkVars, man, refs, tombVars, fileVars,
                   workerVars, job, readerVars, leaseVars, modeVars>>

-----------------------------------------------------------------------------
(* Eviction and collection: gc/eviction.rs. *)

(* EVICT_MANIFEST_SQL: a local leaf manifest nobody leases, none of whose chunks
   is pinned or leased, while no upload is in flight. *)
Evictable(m) ==
    /\ man[m] = "AVAILABLE"
    /\ \A child \in Manifests : ParentOf[child] = m => man[child] = "ABSENT"
    /\ m \notin LeasedManifests
    /\ refs[m] \cap (Pinned \cup LeasedObjects) = {}
    /\ ~InFlight

(* Mutant: the references go but the counts stay. *)
RefcountKept(m) == refcount

RefcountWithout(m) ==
    [o \in Objects |-> IF o \in refs[m] THEN Minus(refcount[o], 1) ELSE refcount[o]]

(* evict_manifest_one, first transaction. *)
EvictManifest(e, m) ==
    /\ mode = "open"
    /\ job[e].op = "idle"
    /\ Evictable(m)
    /\ mtomb' = mtomb \cup {m}
    /\ prefix' = [p \in Prefixes |-> IF prefix[p] = m THEN NoManifest ELSE prefix[p]]
    /\ man' = [man EXCEPT ![m] = "EVICTING"]
    /\ refcount' = RefcountWithout(m)
    /\ refs' = [refs EXCEPT ![m] = {}]
    /\ job' = [job EXCEPT ![e] = [IdleJob EXCEPT !.op = "evict", !.target = m]]
    /\ UNCHANGED <<uploadVars, durable, chunk, rung, ctomb, fileVars, workerVars,
                   readerVars, leaseVars, modeVars>>

(* finish_manifest_eviction: move_and_unlink, outside the mutex. *)
MoveManifest(e) ==
    /\ mode = "open"
    /\ job[e].op = "evict"
    /\ mfile' = mfile \ {job[e].target}
    /\ job' = [job EXCEPT ![e].op = "evicted"]
    /\ UNCHANGED <<uploadVars, durable, chunkVars, manVars, tombVars, cfile,
                   workerVars, readerVars, leaseVars, modeVars>>

(* What its last transaction does to the manifest's row, which it deletes in
   whatever state it finds it. *)
DropManifestRow(m) ==
    /\ man' = [man EXCEPT ![m] = "ABSENT"]
    /\ durable' = IF man[m] = "ABSENT" THEN durable ELSE Minus(durable, ManifestBytes)
    /\ UNCHANGED <<refs, prefix>>

FinishManifestEviction(e) ==
    /\ mode = "open"
    /\ job[e].op = "evicted"
    /\ DropManifestRow(job[e].target)
    /\ job' = [job EXCEPT ![e] = IdleJob]
    /\ UNCHANGED <<uploadVars, chunkVars, tombVars, fileVars, workerVars,
                   readerVars, leaseVars, modeVars>>

(* Mutant: references do not keep a chunk from collection. *)
CollectableReferenced(o) ==
    /\ chunk[o] \in {"AVAILABLE", "TOMBSTONED"}
    /\ o \notin Pinned \cup LeasedObjects
    /\ ~InFlight

(* GC_CHUNK_BATCH_SQL. *)
Collectable(o) ==
    /\ refcount[o] = 0
    /\ chunk[o] \in {"AVAILABLE", "TOMBSTONED"}
    /\ o \notin Pinned \cup LeasedObjects
    /\ ~InFlight

(* gc_chunk_batch, first transaction: tombstone the victims and mark them. *)
GcSelect(e, victims) ==
    /\ mode = "open"
    /\ job[e].op = "idle"
    /\ victims # {} /\ Cardinality(victims) <= GcBatch
    /\ \A o \in victims : Collectable(o)
    /\ ctomb' = ctomb \cup victims
    /\ chunk' = [o \in Objects |-> IF o \in victims THEN "EVICTING" ELSE chunk[o]]
    /\ job' = [job EXCEPT ![e] =
                 [IdleJob EXCEPT !.op = "gc", !.todo = victims,
                    !.spent = {o \in victims : chunk[o] = "TOMBSTONED"}]]
    /\ UNCHANGED <<uploadVars, durable, rung, refcount, manVars, mtomb, fileVars,
                   workerVars, readerVars, leaseVars, modeVars>>

(* One victim: its row is read again, then its file is moved to trash and
   unlinked.  A vanished row is skipped; a row no longer on its way out ends the
   batch with an error, the rest of it still EVICTING. *)
GcMove(e, o) ==
    /\ mode = "open"
    /\ job[e].op = "gc" /\ o \in job[e].todo
    /\ \/ /\ chunk[o] = "ABSENT"
          /\ job' = [job EXCEPT ![e].todo = @ \ {o}]
          /\ UNCHANGED cfile
       \/ /\ chunk[o] \in {"EVICTING", "TRASHED"} /\ refcount[o] = 0
          /\ cfile' = cfile \ {o}
          /\ job' = [job EXCEPT ![e].todo = @ \ {o}, ![e].done = @ \cup {o}]
    /\ UNCHANGED <<uploadVars, durable, chunkVars, manVars, tombVars, mfile,
                   workerVars, readerVars, leaseVars, modeVars>>

(* What the last transaction does to moved victims: EVICTING to TRASHED, and the
   unreferenced TRASHED rows deleted. *)
Deletable(moved) ==
    {o \in moved : chunk[o] \in {"EVICTING", "TRASHED"} /\ refcount[o] = 0}

DropChunkRows(moved) ==
    /\ chunk' = [o \in Objects |->
                   IF o \in Deletable(moved) THEN "ABSENT"
                   ELSE IF o \in moved /\ chunk[o] = "EVICTING" THEN "TRASHED"
                   ELSE chunk[o]]
    /\ rung' = [o \in Objects |-> IF o \in Deletable(moved) THEN 0 ELSE rung[o]]
    /\ UNCHANGED refcount

GcFinish(e) ==
    /\ mode = "open"
    /\ job[e].op = "gc" /\ job[e].todo = {}
    /\ DropChunkRows(job[e].done)
    /\ durable' = Minus(durable,
                        ChunkBytes * Cardinality(Deletable(job[e].done) \ job[e].spent))
    /\ job' = [job EXCEPT ![e] = IdleJob]
    /\ UNCHANGED <<uploadVars, manVars, tombVars, fileVars, workerVars, readerVars,
                   leaseVars, modeVars>>

(* An I/O error, a Busy from the audit outbox or an invalid row ends a
   maintenance call wherever it is; nothing in the process takes it up again. *)
MaintenanceFails(e) ==
    /\ mode = "open"
    /\ job[e].op # "idle"
    /\ job' = [job EXCEPT ![e] = IdleJob]
    /\ UNCHANGED <<uploadVars, durable, chunkVars, manVars, tombVars, fileVars,
                   workerVars, readerVars, leaseVars, modeVars>>

-----------------------------------------------------------------------------
(* The fidelity ladder: gc/demotion.rs. *)

Demotable(o) ==
    /\ chunk[o] = "AVAILABLE" /\ rung[o] < 2
    /\ o \notin Pinned \cup LeasedObjects
    /\ ~InFlight

(* demote_fidelity_one_rung: the victims are chosen in one critical section ... *)
DemoteSelect(e, victims) ==
    /\ mode = "open" /\ Ladder
    /\ job[e].op = "idle"
    /\ victims # {} /\ Cardinality(victims) <= GcBatch
    /\ \A o \in victims : Demotable(o)
    /\ job' = [job EXCEPT ![e] =
                 [IdleJob EXCEPT !.op = "demote",
                    !.todo = {o \in victims : rung[o] = 1},
                    !.done = {o \in victims : rung[o] = 0}]]
    /\ UNCHANGED <<uploadVars, durable, chunkVars, manVars, tombVars, fileVars,
                   workerVars, readerVars, leaseVars, modeVars>>

(* ... changed in another, which checks their rung and state again and nothing
   else ... *)
DemoteUpdate(e) ==
    LET annotated == {o \in job[e].done : rung[o] = 0 /\ chunk[o] = "AVAILABLE"}
        dropped   == {o \in job[e].todo : rung[o] = 1 /\ chunk[o] = "AVAILABLE"}
    IN
    /\ mode = "open"
    /\ job[e].op = "demote"
    /\ rung' = [o \in Objects |-> IF o \in dropped THEN 2
                                  ELSE IF o \in annotated THEN 1 ELSE rung[o]]
    /\ chunk' = [o \in Objects |-> IF o \in dropped THEN "TOMBSTONED" ELSE chunk[o]]
    /\ durable' = Minus(durable, ChunkBytes * Cardinality(dropped))
    /\ job' = [job EXCEPT ![e].op = "unlink"]
    /\ UNCHANGED <<uploadVars, refcount, manVars, tombVars, fileVars, workerVars,
                   readerVars, leaseVars, modeVars>>

(* ... and the files of all that were chosen on rung 1 go, outside the mutex. *)
DemoteUnlink(e) ==
    /\ mode = "open"
    /\ job[e].op = "unlink"
    /\ cfile' = cfile \ job[e].todo
    /\ job' = [job EXCEPT ![e] = IdleJob]
    /\ UNCHANGED <<uploadVars, durable, chunkVars, manVars, tombVars, mfile,
                   workerVars, readerVars, leaseVars, modeVars>>

-----------------------------------------------------------------------------
(* Readers: read/manifests.rs and read/pins.rs. *)

(* A resolved prefix, whose pack is then read and authenticated. *)
ReadManifest(r, p) ==
    /\ mode = "open"
    /\ rpc[r] = "idle"
    /\ prefix[p] # NoManifest /\ Readable(prefix[p]) /\ prefix[p] \in mfile
    /\ rman' = [rman EXCEPT ![r] = prefix[p]]
    /\ rpc' = [rpc EXCEPT ![r] = "read"]
    /\ UNCHANGED <<uploadVars, durable, chunkVars, manVars, tombVars, fileVars,
                   workerVars, job, leaseVars, modeVars>>

(* pin_chunk_rows: every chunk in one transaction, or none. *)
PinChunkRows(r) ==
    /\ mode = "open"
    /\ rpc[r] = "read"
    /\ \A o \in ChunksOf[rman[r]] : Servable(o)
    /\ rpc' = [rpc EXCEPT ![r] = "pinned"]
    /\ UNCHANGED <<uploadVars, durable, chunkVars, manVars, tombVars, fileVars,
                   workerVars, job, rman, leaseVars, modeVars>>

(* open_chunk_file of every pinned chunk. *)
OpenChunkFiles(r) ==
    /\ mode = "open"
    /\ rpc[r] = "pinned"
    /\ ChunksOf[rman[r]] \subseteq cfile
    /\ rpc' = [rpc EXCEPT ![r] = "open"]
    /\ UNCHANGED <<uploadVars, durable, chunkVars, manVars, tombVars, fileVars,
                   workerVars, job, rman, leaseVars, modeVars>>

(* release_retained_source_pins: the read is over or failed, or an agent drops
   the pins a crashed process left. *)
ReleasePins(r) ==
    /\ mode = "open"
    /\ rpc[r] # "idle"
    /\ rpc' = [rpc EXCEPT ![r] = "idle"]
    /\ rman' = [rman EXCEPT ![r] = NoManifest]
    /\ UNCHANGED <<uploadVars, durable, chunkVars, manVars, tombVars, fileVars,
                   workerVars, job, leaseVars, modeVars>>

-----------------------------------------------------------------------------
(* Source leases: remote.rs. *)

AcquireSourceLease(l, m) ==
    /\ mode = "open"
    /\ lease[l] = "NONE"
    /\ Readable(m) /\ m \in mfile
    /\ \A o \in ChunksOf[m] : Servable(o)
    /\ lease' = [lease EXCEPT ![l] = "ACTIVE"]
    /\ lman' = [lman EXCEPT ![l] = m]
    /\ UNCHANGED <<uploadVars, durable, chunkVars, manVars, tombVars, fileVars,
                   workerVars, job, readerVars, lapsed, modeVars>>

(* Time passes expires_ns; an UNCERTAIN lease has no expiry. *)
SourceLeaseExpires(l) ==
    /\ lease[l] = "ACTIVE"
    /\ lease' = [lease EXCEPT ![l] = "EXPIRED"]
    /\ lapsed' = [lapsed EXCEPT ![l] = TRUE]
    /\ UNCHANGED <<uploadVars, durable, chunkVars, manVars, tombVars, fileVars,
                   workerVars, job, readerVars, lman, modeVars>>

(* reattach_source_lease: any lease not RELEASED becomes ACTIVE again, its
   objects not looked at. *)
ReattachSourceLease(l) ==
    /\ mode = "open"
    /\ lease[l] \in {"ACTIVE", "EXPIRED", "UNCERTAIN"}
    /\ lease' = [lease EXCEPT ![l] = "ACTIVE"]
    /\ UNCHANGED <<uploadVars, durable, chunkVars, manVars, tombVars, fileVars,
                   workerVars, job, readerVars, lman, lapsed, modeVars>>

(* release_source_lease by the owner, or of an UNCERTAIN one by the operator. *)
ReleaseSourceLease(l) ==
    /\ mode = "open"
    /\ lease[l] \in {"ACTIVE", "EXPIRED", "UNCERTAIN"}
    /\ lease' = [lease EXCEPT ![l] = "RELEASED"]
    /\ UNCHANGED <<uploadVars, durable, chunkVars, manVars, tombVars, fileVars,
                   workerVars, job, readerVars, lman, lapsed, modeVars>>

-----------------------------------------------------------------------------
(* Crash and restart: LocalStore::open, read/reconcile.rs, reconcile_evictions. *)

(* Threads and file descriptors are gone; the catalog (with its pins, the import
   ledger and the audit outbox, as full as it happens to be) and the files stay.
   An I/O error that ends LocalStore::open leaves the same state. *)
Crash ==
    /\ mode # "down" /\ crashes < MaxCrashes
    /\ mode' = "down" /\ crashes' = crashes + 1
    /\ IF mode = "open"
         THEN room' \in 0 .. AuditRoom /\ overdue' \in 0 .. MaxOverdue
         ELSE UNCHANGED <<room, overdue>>
    /\ pc' = [u \in Uploads |-> "idle"]
    /\ cur' = [u \in Uploads |-> NoObject]
    /\ got' = [u \in Uploads |-> IF u \in Imports THEN got[u] ELSE {}]
    /\ batch' = [u \in Uploads |-> {}]
    /\ job' = [e \in Evictors |-> IdleJob]
    /\ rpc' = [r \in Readers |-> IF rpc[r] \in {"pinned", "open"} THEN "pinned" ELSE "idle"]
    /\ rman' = [r \in Readers |-> IF rpc[r] \in {"pinned", "open"} THEN rman[r] ELSE NoManifest]
    /\ UNCHANGED <<uploadVars, durable, chunkVars, manVars, tombVars, fileVars,
                   leaseVars>>

(* mark_active_source_leases_uncertain, the first thing a reopened store does. *)
Reopen ==
    /\ mode = "down"
    /\ mode' = "recovering"
    /\ lease' = [l \in Leases |->
                   IF lease[l] \in {"ACTIVE", "EXPIRED"} THEN "UNCERTAIN" ELSE lease[l]]
    /\ UNCHANGED <<uploadVars, durable, chunkVars, manVars, tombVars, fileVars,
                   workerVars, job, readerVars, lman, lapsed, room, overdue, crashes>>

(* Mutant: a pack file that is already gone is an error. *)
ReconcileManifestOnce(m) ==
    /\ mode = "recovering"
    /\ m \in ManifestsEvicting /\ m \in mfile
    /\ mfile' = mfile \ {m}
    /\ DropManifestRow(m)
    /\ \E n \in 0 .. 1 : TakeAuditRows(n)
    /\ UNCHANGED <<uploadVars, chunkVars, tombVars, cfile, workerVars, job,
                   readerVars, leaseVars, mode, overdue, crashes>>

(* reconcile_evictions takes unfinished manifests first: the file, then the row
   with its audit event, for which no row is needed when the outbox still has the
   event of an earlier collection. *)
ReconcileManifest(m) ==
    /\ mode = "recovering"
    /\ m \in ManifestsEvicting
    /\ IF m \in mfile
         THEN mfile' = mfile \ {m} /\ UNCHANGED <<durable, manVars, room>>
         ELSE /\ DropManifestRow(m)
              /\ \E n \in 0 .. 1 : TakeAuditRows(n)
              /\ UNCHANGED mfile
    /\ UNCHANGED <<uploadVars, chunkVars, tombVars, cfile, workerVars, job,
                   readerVars, leaseVars, mode, overdue, crashes>>

(* finish_chunk_eviction; a referenced victim is an error and the store does not
   open. *)
ReconcileChunk(o) ==
    /\ mode = "recovering"
    /\ ManifestsEvicting = {}
    /\ o \in ChunksEvicting /\ refcount[o] = 0
    /\ IF o \in cfile
         THEN cfile' = cfile \ {o} /\ UNCHANGED <<durable, chunkVars, room>>
         ELSE /\ DropChunkRows({o})
              /\ durable' = IF rung[o] = 2 THEN durable ELSE Minus(durable, ChunkBytes)
              /\ \E n \in 0 .. 1 : TakeAuditRows(n)
              /\ UNCHANGED cfile
    /\ UNCHANGED <<uploadVars, manVars, tombVars, mfile, workerVars, job,
                   readerVars, leaseVars, mode, overdue, crashes>>

(* enforce_quarantine_cap, one entry.  That one open prunes 1024 of them at most
   is left out; the next open goes on. *)
PruneOverdue ==
    /\ mode = "recovering" /\ EvictionsFinished
    /\ overdue > 0 /\ overdue' = overdue - 1
    /\ \E n \in 0 .. 1 : TakeAuditRows(n)
    /\ UNCHANGED <<uploadVars, durable, chunkVars, manVars, tombVars, fileVars,
                   workerVars, job, readerVars, leaseVars, mode, crashes>>

(* Busy from the preflight of any of these, after the file is gone and before the
   row is changed: LocalStore::open returns it. *)
OpenRefused ==
    /\ mode = "recovering" /\ room = 0
    /\ \/ ManifestsEvicting \ mfile # {}
       \/ ManifestsEvicting = {} /\ ChunksEvicting \ cfile # {}
       \/ EvictionsFinished /\ (InFlight \/ overdue > 0)
    /\ mode' = "down"
    /\ UNCHANGED <<uploadVars, durable, chunkVars, manVars, tombVars, fileVars,
                   workerVars, job, readerVars, leaseVars, room, overdue, crashes>>

StoreOpened ==
    /\ mode = "recovering" /\ EvictionsFinished /\ overdue = 0
    /\ mode' = "open" /\ room' = 0
    /\ UNCHANGED <<uploadVars, durable, chunkVars, manVars, tombVars, fileVars,
                   workerVars, job, readerVars, leaseVars, overdue, crashes>>

-----------------------------------------------------------------------------
UploadStep(u) ==
    \/ ReserveUpload(u) \/ MarkReceiving(u) \/ SealUpload(u)
    \/ AbortUpload(u) \/ QuarantineUpload(u)
    \/ \E o \in Objects : FindChunk(u, o) \/ ImportChunk(u, o)
    \/ WriteImmutable(u) \/ CatalogChunks(u) \/ QuarantineObject(u)
    \/ UploadThreadFails(u)
    \/ \E b \in SUBSET Manifests : BuildManifests(u, b)
    \/ WriteManifests(u) \/ PublishManifestBatch(u)

MaintenanceStep(e) ==
    \/ \E m \in Manifests : EvictManifest(e, m)
    \/ MoveManifest(e) \/ FinishManifestEviction(e)
    \/ \E victims \in SUBSET Objects : GcSelect(e, victims)
    \/ \E o \in Objects : GcMove(e, o)
    \/ GcFinish(e) \/ MaintenanceFails(e)
    \/ \E victims \in SUBSET Objects : DemoteSelect(e, victims)
    \/ DemoteUpdate(e) \/ DemoteUnlink(e)

ReaderStep(r) ==
    \/ \E p \in Prefixes : ReadManifest(r, p)
    \/ PinChunkRows(r) \/ OpenChunkFiles(r) \/ ReleasePins(r)

LeaseStep(l) ==
    \/ \E m \in Manifests : AcquireSourceLease(l, m)
    \/ SourceLeaseExpires(l) \/ ReattachSourceLease(l) \/ ReleaseSourceLease(l)

RecoveryStep ==
    \/ Reopen \/ PruneOverdue \/ OpenRefused \/ StoreOpened
    \/ \E m \in Manifests : ReconcileManifest(m)
    \/ \E o \in Objects : ReconcileChunk(o)

Next ==
    \/ \E u \in Uploads : UploadStep(u)
    \/ \E e \in Evictors : MaintenanceStep(e)
    \/ \E r \in Readers : ReaderStep(r)
    \/ \E l \in Leases : LeaseStep(l)
    \/ \E p \in Prefixes : DeletePrefix(p)
    \/ Crash \/ RecoveryStep

Spec == Init /\ [][Next]_vars

(* A restarted process runs LocalStore::open to its end unless it crashes. *)
FairSpec == Spec /\ WF_vars(RecoveryStep)

-----------------------------------------------------------------------------
(* Safety. *)

(* A chunk's refcount, which alone decides whether gc_chunk_batch may take it,
   is the number of manifests whose manifest_chunks rows name it, through every
   interleaving of publications, evictions, collections and restarts. *)
RefcountExact ==
    \A o \in Objects : refcount[o] = Cardinality({m \in Manifests : o \in refs[m]})

(* A chunk some manifest references has a row that is not on its way out: only
   the fidelity ladder may take its bytes, and it keeps the row. *)
ReferencedChunksKept ==
    \A m \in Manifests : \A o \in refs[m] :
        chunk[o] = "AVAILABLE" \/ (Ladder /\ chunk[o] = "TOMBSTONED")

(* A chunk that byte-serving queries accept has its file, although the file is
   checked or written, and moved away, outside the catalog mutex. *)
ServableBytesPresent ==
    \A o \in Objects : Servable(o) => o \in cfile

(* A prefix checkpoint whose manifest is not tombstoned resolves, and to a
   manifest with its pack file and all its chunk references. *)
ResolvedIsComplete ==
    \A p \in Prefixes : \A m \in Manifests :
        prefix[p] = m /\ m \notin mtomb =>
            man[m] = "AVAILABLE" /\ m \in mfile /\ refs[m] = ChunksOf[m]

(* From the transaction that inserts a reader's pins rows to their release, every
   chunk it pinned stays servable with its bytes in place, across a crash too. *)
PinnedChunksReadable ==
    ~Ladder => \A r \in Readers : rpc[r] \in {"pinned", "open"} =>
        \A o \in ChunksOf[rman[r]] : Servable(o) /\ o \in cfile

(* A source lease that never ran past its expiry keeps the manifest, its pack and
   every chunk in place, also while a restart has made it UNCERTAIN. *)
LeasedObjectsKept ==
    ~Ladder => \A l \in Leases : Protecting(l) /\ ~lapsed[l] =>
        /\ Readable(lman[l]) /\ lman[l] \in mfile
        /\ \A o \in ChunksOf[lman[l]] : Servable(o) /\ o \in cfile

(* tenants.reserved_bytes is what the uploads in flight hold: each reservation
   is given back exactly once, by publication, abort or quarantine. *)
ReservationExact ==
    reserved = ExpectedBytes * Cardinality({u \in Uploads : up[u] \in InFlightStates})

(* Neither quota is ever exceeded by the tenant's own counters, whatever mix of
   reservations, publications and re-publications is in flight. *)
QuotaRespected == reserved <= StagingQuota /\ durable + reserved <= Quota

(* A victim left EVICTING or TRASHED is unreferenced, which is what recovery
   needs to finish it instead of refusing to open the store. *)
EvictingUnreferenced ==
    \A o \in Objects : chunk[o] \in {"EVICTING", "TRASHED"} => refcount[o] = 0

(* The audit rows LocalStore::open may need. *)
AuditRowsDue ==
    Cardinality(ManifestsEvicting) + Cardinality(ChunksEvicting)
      + Cardinality({u \in Uploads : up[u] \in InFlightStates}) + overdue

(* A process that restarts in the middle of evictions gets the store open, however
   often it crashes on the way, if the outbox was left with a row for everything
   open has to record.  Without that room each open may end with Busy. *)
RecoveryCompletes == (mode = "down" /\ AuditRowsDue <= room) ~> (mode = "open")

-----------------------------------------------------------------------------
(* What the repository says and the code does not keep. *)

(* gc/eviction.rs:38, "Parents remain until all authenticated children have been
   evicted": a delta manifest that resolves has its parent's row. *)
ParentsRemain ==
    \A m \in Manifests :
        Readable(m) /\ ParentOf[m] # NoManifest /\ ParentOf[m] \in Manifests =>
            man[ParentOf[m]] # "ABSENT"

(* gc/demotion.rs:38, "Pins, leases, source leases, and in-flight uploads protect
   their objects as usual": a pinned chunk keeps its AVAILABLE row. *)
DemotionSparesPinned ==
    \A r \in Readers : rpc[r] \in {"pinned", "open"} =>
        \A o \in ChunksOf[rman[r]] : chunk[o] = "AVAILABLE"

Quiescent ==
    /\ mode = "open" /\ ~InFlight
    /\ \A u \in Uploads : pc[u] = "idle"
    /\ \A e \in Evictors : job[e].op = "idle"
    /\ \A o \in Objects : chunk[o] \in {"ABSENT", "AVAILABLE"}
    /\ \A m \in Manifests : man[m] \in {"ABSENT", "AVAILABLE"}

(* tests/store_model.rs:285-292: durable_bytes is the sum of the chunk and the
   manifest rows.  Asked only when nothing is under way and every chunk left is
   referenced, so that chunks no publication has charged yet do not count. *)
DurableMatchesCatalog ==
    Quiescent /\ (\A o \in Objects : chunk[o] = "AVAILABLE" => refcount[o] > 0) =>
        durable = ManifestBytes * Cardinality({m \in Manifests : man[m] # "ABSENT"})
                    + ChunkBytes * Cardinality({o \in Objects : chunk[o] # "ABSENT"})

(* tests/store_model.rs:314, assert!(snapshot.manifests.is_disjoint(
   &snapshot.tombstones)): a manifest whose row is AVAILABLE, so that its
   publication was reported and charged, is not held back by the tombstone of an
   earlier eviction, which resolve would obey. *)
AvailableNotTombstoned ==
    \A m \in Manifests : man[m] = "AVAILABLE" => m \notin mtomb

=============================================================================
