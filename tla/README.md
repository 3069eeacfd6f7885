# Formal verification of kvpack

kvpack keeps model KV caches as content-addressed, encrypted objects on a local
disk, and hands them to other machines. This directory holds TLA+ modules
translated from the Rust code under `src/crates`, TLC configurations that check
them on small instances, and proofs that TLAPS checks for every instance.
`PROJECT.json` maps every definition to the lines it models.

## 1. The system and its parts

### 1.1 Inventory

| Part (files under `src/crates/`) | State it keeps | Operations | What makes it correct |
|---|---|---|---|
| Upload lifecycle (`kvpack/src/store/publication/uploads.rs`) | `uploads.state`, `uploads.reserved_bytes`, `tenants.reserved_bytes`, `tenants.durable_bytes` | reserve, re-init of an aborted key, mark receiving, abort, quarantine | every reservation is given back once; quotas hold under concurrent uploads |
| Chunk puts (`publication/chunks.rs`, `publication/immutable.rs`) | `chunks` rows, files under `chunks/` | dedup lookup, write of an immutable file, `INSERT OR IGNORE`, quarantine of a loser's file | a servable row has its bytes; one row for each content |
| Manifest publication (`publication/manifests.rs`, `publication/batch.rs`) | `manifests`, `manifest_chunks`, `prefix_checkpoints`, `chunks.refcount`, pack files | pack writes, then one transaction over a cut set | counts exact; a checkpoint resolves to a complete manifest |
| Eviction and collection (`gc/eviction.rs`) | `location_state`, `tombstones`, trash | two transactions around file moves, for manifests and for batches of chunks | nothing referenced, pinned, leased or in flight is taken; a half-done eviction can be finished |
| Fidelity ladder (`gc/demotion.rs`) | `chunks.fidelity_rung` | select, update, unlink | protected chunks stay; a row that changed is left alone |
| Pins and reads (`read/pins.rs`, `read/manifests.rs`, `resolve.rs`) | `pins` rows, open files | resolve, read pack, pin, open, release | pinned chunks stay readable |
| Source leases (`remote.rs`) | `source_leases` | acquire, expire, reattach, release, uncertain at restart | leased objects stay, over a restart too |
| Open and recovery (`store/mod.rs`, `read/reconcile.rs`) | none of its own | leases to UNCERTAIN, finish evictions, reconcile uploads, prune the quarantine | a restart after any crash ends with the store open, if the audit outbox has room for what open records |
| Authenticated import (`import.rs`) | import cursor, staged manifests | begin, put chunk, seal, publish, `delete_prefix` | only a complete ledger is sealed |
| Provisional export (`store/provisional/`, `kvpack/src/export/provisional*`) | stage ledger, session token, lease, staging directories | begin/adopt, stage, seal, promote, cancel, reap, restart reconcile | one live session for each upload; a stale one takes nothing that was published (what it can do: section 4) |
| Single-flight fill (`store/fill.rs`) | map of weak entries, one mutex and condition variable for each | get_or_fill | one fetch at a time for each key; nobody waits forever |
| Audit outbox and segments (`store/audit*`) | `audit_outbox`, `audit_state`, segment files | preflight, append in the caller's transaction, load a batch, publish and rotate segments, acknowledge, prune | bounded; nothing is dropped before it was exported |
| Key epochs (`store/keys.rs`, `store_key.rs`, `store/schema.rs`) | `tenants` row, tombstones, each handle's window | register, publish within the window, retire in batches | a retirement comes to an end and is audited; epochs never move backward |
| Restore holds (`store/holds.rs`) | `restore_holds` (in memory), pin rows | reserve, attach, release | aggregate bounds hold; failures leave no pins |
| Capacity, policy, quarantine (`gc/capacity.rs`, `gc/quarantine.rs`, `store/policy*`) | watermarks, sketch, ghost entries | maintenance loop, victim order | the loop ends; hysteresis |
| Fsck, backup, disaster recovery (`store/fsck.rs`, `store/recovery*`) | catalog, WAL, evidence copies, backup and inventory files | back up, inventory, restore, reconcile, rebuild | no file is replaced; a restored catalog opens; reports are exact; the old catalog is kept |
| Live handoff (`kvpack-handoff/src`) | frames on each connection, permits, bundle directories; for v2 a shadow and a live generation | accept, prepare, spray, receive, interrupt, seal, promote, publish, acknowledge | only a complete bundle becomes visible, the producer is told the truth, and a receive returns by its deadline (unless it is starved of permits: section 4) |
| Prefill sessions and relocation (`kvpack/src/prefill`) | session phases, token counts | begin, stage, resume, relocate | token accounting |
| Restore (`kvpack/src/restore*`) | plan, workers, channel, sinks, shadow stages | list, plan, pin, decode, commit, promote, cancel, free | a plan covers every page once; all or nothing reaches the engine |
| Export and capacity planning (`kvpack/src/export*`, `writer.rs`, `capacity.rs`) | plans | plan, write, size | a store sized by the worksheet keeps what it was sized for |
| Formats and codecs (`kvpack-core/src`) | none | encode, decode, validate | round trips |
| Tensor transforms, telemetry, GGUF layouts | none that a decision reads | numeric kernels, counters, parsing | outside these models |

### 1.2 How the parts interact

All store operations go through `LocalStore`: one SQLite connection behind one
mutex, plus the object files. The mutex is **dropped** between the transactions of
one operation and around every file operation. Uploads, maintenance and readers
of the same process therefore interleave between transactions, and a file may
appear or go while the catalog says otherwise. The tables are shared state:
publication raises `refcount`, eviction lowers it, collection reads it; pins,
source leases and uploads in flight are read by maintenance as protection; the
tenant's byte counters are changed by all of them. Export sessions and imports
are clients of the upload, put and publication calls. A restart runs
`LocalStore::open`, which finishes what the catalog says was begun.

Several processes may open one catalog. They share the outbox, the tenant row and
the quarantine directory through SQLite alone, each with the key window it was
opened with. A restore reads through the same pins as any reader, but reserves its
resources first and hands decoded pages to an engine's sink. The handoff crate does
not use the store: a prefill worker streams planes to a decode worker, which writes
a bundle directory or, with protocol v2, a shadow generation of its engine.

### 1.3 What is hard here

* Two writers encrypt one chunk under different object keys and race through
  lookup, write and insert, while collection moves files.
* Eviction in two transactions, with a publication of the same manifest between.
* Decisions made in one critical section and carried out in another (the ladder,
  the session abort, the reaper).
* A crash between a file move and the row that records it.
* Counters that are adjusted and never recomputed, with a clamp at zero.
* Threads of one receive that wait for permits, events, sockets and each other,
  while a deadline, a cancellation or a broken connection may come at any moment.
* A parallel restore in which one worker fails while results are in the channel.
* An export of audit records by two processes, with a crash between the segment
  and its acknowledgement.
* Recovery tools over a catalog that goes on changing, and renames one by one.
* Leases over a restart, and tombstones that outlive what they were written for.

The full list, each at its line, is under `hazards` in `PROJECT.json`.

## 2. Modules

| Module | Models | Kind |
|---|---|---|
| `ObjectStore` | the `LocalStore` of one tenant: uploads, puts, publication, eviction, collection, ladder, readers, leases, crash and restart | specification |
| `MCObjectStore` | data for its instances | TLC |
| `ObjectStore_proofs` | theorems about `ObjectStore`: counts, references and quotas of its catalog, then what rows, pins and leases can rely on in its files | TLAPS |
| `ProvisionalSession` | the provisional export sessions of one idempotency key: begin and adoption, staging, seal and promotion, cancel, reaper, restart | specification, with its own instances |
| `ProvisionalSession_proofs` | theorems about `ProvisionalSession` | TLAPS |
| `SingleflightFill` | `get_or_fill_cancellable` for one object key | specification, with its own instances |
| `AtomicTransfer` | what a handoff receiver promises, whatever the protocol | abstract specification |
| `LayoutTable` | begin manifests of protocol v1: validator and canonical walk | operators |
| `LiveHandoff` | one receive of protocol v1, single-stream or sprayed | specification, refines `AtomicTransfer` |
| `AtomicReceiver` | one receive of protocol v2 | specification, refines `AtomicTransfer` |
| `Handoff_proofs` | theorems about `LiveHandoff` and `AtomicReceiver` | TLAPS |
| `MCHandoff` | a worker armed for either protocol | TLC |
| `AuditOutbox` | outbox rows and segment files of one tenant | specification part |
| `StoreServices` | handles with key windows, publication, retirement, quarantine, all over `AuditOutbox` | specification |
| `StoreServices_proofs` | theorems about `StoreServices` and `AuditOutbox`, and about `SingleflightFill` | TLAPS |
| `MCServices` | data for its instance | TLC |
| `CutManifest` | structural rules of a cut manifest (`validator.rs`) | operators |
| `RestorePlanning` | candidates, delta chains, page and scatter plans, resource charges, over `CutManifest` | operators |
| `RestoreExecution` | restore calls over `RestorePlanning`: holds, pins, workers, sinks, shadows | specification |
| `RestoreExecution_proofs` | theorems about `RestoreExecution` | TLAPS |
| `MCRestore` | data for its instance | TLC |
| `DisasterRecovery` | backups, inventories, reconciliation, rebuild | specification |
| `DisasterRecovery_proofs` | theorems about `DisasterRecovery` | TLAPS |
| `MCDisaster` | data for its instance | TLC |
| `TinyLfu` | sketch, admission and victim order of the cache policy | operators |
| `CacheReplay` | trace replay under five policies, and the offline oracle, over `TinyLfu` | specification |
| `CapacityPlanning` | the capacity worksheet, and utilization, target and loop of maintenance in f64 | operators |
| `CapacityPlanning_proofs` | the theorem about sized stores | TLAPS |
| `Recursion_proofs` | induction, recursive functions, folds and sums, for the proofs | TLAPS |
| `MCAlgorithms` | inputs and reference definitions of the pure algorithms | TLC |

`ProvisionalSession` looks closely at calls that `ObjectStore` takes as whole
uploads: it has the token, the lease, the ledger and the private directory, and
leaves quotas, other uploads, eviction and collection to `ObjectStore`.

### 2.1 ObjectStore: correspondence to the code

One action is one catalog transaction or one file operation, because that is
where the code drops its mutex. `pc`, `job` and `rpc` are the program counters of
upload, maintenance and reading threads; everything else is a column, a set of
rows or a set of files, as the comment beside each VARIABLE says.

* **Put**: `FindChunk` / `ImportChunk` -> `WriteImmutable` -> `CatalogChunks` ->
  (if another key won) `QuarantineObject`. `UploadThreadFails` is an error return
  at any of these points, including `Busy` from the audit outbox.
* **Publish**: `BuildManifests` -> `WriteManifests` (pack files, no mutex) ->
  `PublishManifestBatch` (the transaction).
* **Evict**: `EvictManifest` -> `MoveManifest` -> `FinishManifestEviction`;
  **collect**: `GcSelect` -> `GcMove` for each victim -> `GcFinish`; either may stop
  anywhere by `MaintenanceFails`. **Demote**: `DemoteSelect` -> `DemoteUpdate` ->
  `DemoteUnlink`.
* **Read**: `ReadManifest` -> `PinChunkRows` -> `OpenChunkFiles` -> `ReleasePins`.
* **Leases**: `AcquireSourceLease`, `SourceLeaseExpires`, `ReattachSourceLease`,
  `ReleaseSourceLease`.
* **Restart**: `Crash` at any point, `Reopen`, `ReconcileManifest`,
  `ReconcileChunk`, `AbortUpload` by the reconciliation, `PruneOverdue`, and then
  `StoreOpened`, or `OpenRefused` where a preflight finds the outbox full after the file is
  gone. While the store is open a full outbox may end any call, so the outbox is not
  counted; `room` is what the last process left, and open only takes from it, because
  nobody exports before the store is open. A row whose event the outbox still holds from an
  earlier collection takes none. An I/O error that ends open is a `Crash`.

An object is its object key. `ContentOf` gives the pair (chunk id, key epoch) the
`UNIQUE` constraint is on, so two objects with one content are two encryptions of
the same chunk.

Abstractions, and why they are sound for the properties:

* One tenant. Quotas and dedup are scoped by tenant; no step relates two.
* Uniform sizes: `ChunkBytes`, `ManifestBytes`, `ExpectedBytes`. Accounting
  distinguishes how often bytes are charged and released.
* Victim choice is free: any set allowed by the query's conditions, where the code
  orders by the policy. The code's behaviours are among the model's.
* Admission policy, write tickets and the endurance window only refuse
  operations; a refused operation changes none of the modelled state.
* A partial file, its `fsync`s and the no-replace link are one step: the link is
  what publishes the file. `DemoteUnlink` removes its files in one step.
* A second `publish` of an upload that is already PUBLISHED returns the stored
  result and changes nothing; it is left out.
* Time is the action `SourceLeaseExpires`, enabled at any moment.
* `cleanup_one_provisional_promotion` deletes unreferenced rows of a provisional
  upload while uploads are in flight; it is an action of `ProvisionalSession`, not
  of `ObjectStore`.

### 2.2 ProvisionalSession: correspondence to the code

The state is the `uploads` row of one key (`up`, `token`, `lease`,
`cursor`), its `upload_chunks` rows (`ledger`), the `chunks` rows of the export's contents
(`row`, `pub`), the private directory (`dir`, `staged`) and the files
under `chunks/` (`cas`, object key to inode). Two history variables name the keys whose
file went without the row: `cut` by a crash inside a cleanup, `lost` without one. A session is a thread with a program
counter; one step is one critical section or one file operation.

* **begin**: `ReserveLook` -> (aborted key) `ReinitDir` -> `ReinitLedger` ->
  `Reserve` -> `MarkReceiving` -> `Adopt` -> `MakeDir`. A failure goes through
  `BeginGivesUp` (plain abort) or `Unbegin` (token check, abort, ledger: three
  steps, as `fail_provisional_begin` has them).
* **stage_state**: `StageBegin` -> `StageFile` -> `StageCommit`.
* **seal_and_publish**: `VerifyLedger`, for each chunk `PromoteLink` ->
  `PromotePut` -> `PromoteInsert` (-> `PromoteTidy` if another key won), then `Seal`
  -> `Publish` -> `Finish`. A failure goes to `Undo`, the cleanup of promotions last
  first, and `Cancel`. A put that wrote its file itself (`insertNew`) and loses the insert
  moves the file to quarantine.
* **cleanup**: `cleanup_one_provisional_promotion` holds the catalog mutex from its check
  to its commit, so other sessions see one step, `CleanupOne`. Its order is kept where it
  can be seen: a crash may fall between the unlink (`promotion.rs:163`) and the commit
  (`:176`), and `CleanupFails` has the errors: nothing done or all undone, all done but
  the directory not synced, and the unlink done while the commit and the link back
  (`:177`, its result ignored) both failed. An error ends `Undo`, except that of the
  failed put's own cleanup.
* **cancel, Drop**: `Cancel` (check, directory, abort, ledger), `DropSession`.
* **reaper**: `ReapLook` -> `ReapDir` -> `ReapAbort` -> `ReapLedger`, or `ReapFails`;
  **restart**: `Crash`, `Restart`.

Abstractions: a state of the export is one chunk, so a batch has one ledger row;
removing a directory with its files is one step; the two `stat`s of a cleanup are
in the step of its transaction; the existence check of a put and its file write
are one step (their race with collection is in `ObjectStore`); the read and the link
of a promotion are one step; a session that begins on a PUBLISHED upload only reads
until it finishes; each session is used once. A file is named by its writer, and
`Key` gives its object key: the same for all writers of a content, or, encrypted,
fresh for each.

### 2.3 SingleflightFill: correspondence to the code

`weak` is the map's entry for the key, `hold` who has an `Arc` of which
`FillEntry`, `state` the mutex-protected `FillState`. `GetOrFill` is the critical
section of the map's mutex; `StartFetch`, `FetchReturns` and `GiveUp` are the leader
(`GiveUp` is `LeaderGuard::drop`, after a cancellation or a panic); `Look`, `Wake`
and `Return` the follower's loop. Keys share nothing but the map's mutex, so one key
is enough. A poisoned mutex (a panic while it is held) is not modelled: no code
that can panic runs under either mutex.

### 2.4 Handoff: correspondence to the code

`AtomicTransfer` is the promise: state becomes visible whole, in one step, at most
once; success is reported only when it is visible; what was refused before that never
shows. `LiveHandoff` implements it with `visible` the planes under the bundle's final
name, `AtomicReceiver` with `visible` the engine's live generation.

`LiveHandoff` has the session thread (`pc`), a reader thread for each connection of a
sprayed transfer (`rd`), the deadline guard, a canceller and the engine's sink.
* **accept**: `AcceptConnection` -> `RegisterSocket` -> `RegisterChecked` ->
  `PrepareConnection`, against `Cancel` / `DeadlineFires`, which set the reason, and
  `ShutdownSockets`, which walks the sockets registered by then: two steps, as
  `ReceiverInterruptV1` has them.
* **receive**: single stream `SessionHeader` -> `SessionAcquire` -> `SessionPayload`;
  sprayed `ReadHeader` -> `AcquirePermit` -> `ReadPayload` in each reader, then the
  channel, `ReceiveEvent` and the mux's `DrainOne`. `PlaneVerifies` checks a plane against
  the canonical walk of `LayoutTable`.
* **publish**: `VerifySeal` or `SealRefused` -> `SinkPromotes` -> `PublishReady` ->
  `PublishRename` -> `ReopenBundle` -> `WriteAck` -> `Finish`.
* **end**: `CleanupSprayed`, `AbortSession` (with the stager's own abort), `JoinAux`.

A frame is a record with a verdict: TLS, MAC, digests and lengths decide `ok` and
nothing else. `AtomicReceiver` has one action for each method of `AtomicReceiverV2`:
begin, `SegmentReady` (declared), `SegmentReadyDeferred`, `PrepareCommit`, `Commit`,
`Abort`. A digest is the sequence of what was hashed, so equal digests mean equal input.

### 2.5 Audit, key epochs, quarantine: correspondence to the code

`AuditOutbox` keeps rows by sequence number and segments by their first and last;
a handle's export is `LoadBatch` -> `PublishSegment` -> `PruneSegments` ->
`Acknowledge` or `AcknowledgeRefused`, each a critical section or a file operation, and
`ExportFails`. `StoreServices` appends to it in the actions of the store:
`CheckTenant` -> `UpsertTenant` (the two statements of `register_tenant`), `PutChunk`,
`Publish`, `Retire`, `QuarantineObject`, `PruneUnlink` -> `PruneRow`, the
reconciliation of `partials/` at open, `Close` and `Crash`. The hash chain
and the JSON of a segment are left out; a segment is what it contains. Ages are not
counted: at a prune any set of the other segments may be past the retention, whether
their rows are acknowledged or not, because a retry may come later than any retention and
publishing a segment again does not refresh its time. The history variable `lapsed` keeps
those that went with rows still pending.

### 2.6 Restore: correspondence to the code

`CutManifest` and `RestorePlanning` are pure: `ValidateManifest`, the authentication of a
delta chain, `BuildExactManifest`, the candidates with their order, the resource
charge, and the scatter transfer in batches of descriptors. `RestoreExecution` is one call for
each restore: `List` -> `Build` -> `Start` (reservation) -> `SinkBegin` -> `PinAll` -> either
`SequentialChunk` or `WorkerClaim` / `WorkerSend` / `Receive` / `Join` -> `Settle` ->
`Commit`, then `EngineFree`, `DropHandle`, or for a shadow `Promote`, `PromoteRefused`,
`AbortShadow`. `Evict` and the two steps of the ladder are the store beside it; the
eviction sees the pins, the ladder only when it selects. A page is a token range; bytes
and decoding are a verdict.

### 2.7 Disaster recovery: correspondence to the code

The catalog is the file and its WAL. `BackupSnapshot` -> `BackupPublish` and
`InventorySnapshot` -> `InventoryPublish` write an artifact under a temporary name and
link it; `RestoreBackup` -> `RestorePublish` validates and installs; `ReconcileLoad` ->
`ReconcileObject` (one for each object) -> `ReconcileReport`; `FsckScan` -> `FsckMoveDb`
-> `FsckMoveWal` -> `FsckPublish`. Publication, eviction, demotion and retirement beside
them are one step each, as a single transaction looks to another process. The clock has
seconds, because the evidence is named by them. An artifact is a sequence of blocks; a
damaged or truncated one no longer decrypts.

### 2.8 Policy and capacity: correspondence to the code

`TinyLfu` translates the count-min sketch with saturation and halving, the admission
duel, and the segments of the policy; `CacheReplay` replays a trace event by event
for LRU, LFU, TinyLFU, ARC and CLOCK-Pro with the service costs of the code, and the
oracle's bounded search. `CapacityPlanning` has the checked arithmetic of the worksheet with
`U64Max` as a parameter, and what `maintain_capacity` computes from a quota. The latter is
`f64` in the code and here: `F64` rounds to nearest even with `Significand` values of the
significand, 2^53 in the code and 32 in the run, so that stores of a few bytes meet the
rounding. The worksheet's promise is stated for quotas below `Significand`; from 2^53 bytes on
the target can be rounded below the retained bytes.

## 3. Runs

Run one with `tlc -config <run>.cfg <module>`. The passing runs visit every
reachable state. `CHECK_DEADLOCK FALSE` where a finite set of keys, leases, calls or
transfers may all be used up: the program then simply has nothing to do.

| Run | Instance | Shows |
|---|---|---|
| `dedup` | a writer and an import that encrypt one chunk under two keys; two manifests under one checkpoint; one maintenance thread with eviction, collection and ladder; room for both uploads at once | `RefcountExact`, `ResolvedIsComplete`, `ReferencedChunksKept`, `ServableBytesPresent` |
| `protection` | the same uploads without the ladder, with a reader, a source lease and a crash; a quota of 3 for uploads that reserve 2 each, so that the second waits until bytes are given back | `PinnedChunksReadable`, `LeasedObjectsKept`, `QuotaRespected`, `ReservationExact`, `EvictingUnreferenced` |
| `recovery` | one upload, two manifests, two chunks, batches of two victims, two crashes (so that recovery itself is interrupted) | `RecoveryCompletes` |
| `fill` | three threads that call again and again, three entry addresses | `OneFetch`, `EveryCallReturns`, `CancelledWaiterDetaches` |
| `provisional` | two sessions, two chunks, encryption, lapsing leases, refused aborts, I/O errors, one crash | `CursorCovered`, `RowsHaveFiles`, `PublishedWhole` |
| `reaping` | the same with one chunk, under `FairSpec` | `AdoptedUploadEnds` |
| `handoff` | protocol v1 with three layers, two permits and twelve scripts (honest, cut short, corrupted, out of order, duplicated, aborted, starving; on one connection and on two), a cancellation, the deadline and one fault; protocol v2 with five begins, declared and deferred, and every descriptor over three tokens of two components | `AckedBundleWhole`, `EndsUnlessStarved`, `HonestNotRefused`, `RefinesTransfer` for v1; `InstalledDisjoint`, `RefinesTransferV2` for v2 |
| `services` | two processes, an outbox of two, two segments, two key epochs, one fault or crash | `NothingUnexportedLost`, `PendingBounded`, `AckedOnDiskOrAged`, `TombstonesAudited`, `RetirementFinishes` |
| `restore` | a parallel restore of a chain of up to three manifests with two workers, beside a shadow restore, under limits that do not fit both at their largest; eviction and the ladder on a shared chunk; one fault, one cancellation | `PinnedWithinLimits`, `AllOrNothing`, `FailedLeavesNoPins`, `RestoreReturns` |
| `disaster` | two processes that rotate a tenant through three configurations, two manifests, one artifact path, two seconds, six calls, one crash or damage | `NeverReplaces`, `RestoredOpens`, `ReportExact`, `EvidenceKept` |
| `algorithms` | 75 000 inputs: layout tables of up to two classes over three layers, manifest chains of three, lookups with hints, stores of 3 to 40 bytes, traces of five events | `BeginsStream`, `PlansExact`, `SizedStoreRetains`, `OracleIsLowerBound` |
| `spray` | six planes of a latent-attention model in turn on two connections, no fault | finding: `SessionEnds` is violated |

**Bounds.** Two uploads, two object keys of one content and two manifests are the
least that make every race of the put and of the publication possible: the winner
and the loser of the insert, a row shared by two manifests, and a manifest
published again during its own eviction. In `dedup` and `protection` each upload
encrypts for itself, so no two put the same contested key (`KeysApart` of section 5);
`shared.cfg` has two that do. Behaviours are unbounded in length: an
aborted key is reserved again and an evicted manifest is published again any
number of times; `MaxCrashes` is the only counter and bounds crashes alone. In `recovery`
the outbox is left with up to five free rows and the quarantine with up to one entry to
prune: enough room for both manifests and both chunks with one more, and too little of it. Two
sessions are the least that can take an upload from each other; a losing put's quarantine
takes a third and is in the proof only. Two connections and
a pool of two are the code's own experiment; with three layers the third waits for a permit,
which the engine gives back, or, in the script that starves the pool, nobody. In `services` an outbox of two fills with one publication, so every
operation meets a full one, and two handles are enough to acknowledge and rotate
against each other; publication and quarantine are explored in separate behaviours
(`OneKind`), since they meet only in the outbox, and a prune finds all the other segments
past the retention or none (`OneAge`; the proof has any of them). In `restore` three operations and two
workers leave one operation unclaimed while one is in the channel and one is decoding.
In `disaster` one path and two seconds make collisions happen, and six calls are
enough for publish, back up, change, lose, restore and reconcile. The bounds of
`algorithms` are small numbers with every rounding and every boundary in them.

**Fairness.** `ObjectStore!FairSpec` adds `WF_vars(RecoveryStep)`: a restarted process runs
`LocalStore::open` to its end, opened or refused, unless it crashes again, and is started
again after a refusal; `MaxCrashes` makes crashes finite. Nothing makes room in the outbox
meanwhile, so `RecoveryCompletes` has that room as its premise (`AuditRowsDue <= room`). `SingleflightFill` assumes that a scheduled thread runs and a timed
wait of 50 ms ends; a fetch may hang. `EveryCallReturns` has as its premise that
fetches end, by returning or by a panic (`FetchesEnd`). `ProvisionalSession!FairSpec`
assumes nothing of producers: time passes, some `stat` or `reserve_upload` runs the
reaper again, I/O errors and a full audit outbox do not last for ever (strong fairness
of `ReapDir` and `ReapAbort`, which such errors interrupt), and a stopped process is
started again. `LiveHandoff!Fairness`: threads that can run do, the deadline comes, and
the engine consumes what it was given; reads that wait for the producer and
connections need not happen. `RestoreExecution!Fairness`: the calling thread and its
workers go on; nothing is asked of callers, sinks or maintenance. `StoreServices!FairSpec`:
an open handle keeps exporting and retiring, which is what the reports of those calls
(`complete`, `exported_records`) ask of their callers.

**Refinement.** `RefinesTransfer` and `RefinesTransferV2` are the abstract
specification under the mappings of `LiveHandoff` and `AtomicReceiver`. An interrupt
between the rename and the acknowledgement refuses a transfer whose bundle is
visible; `AtomicTransfer` allows that, and forbids the reverse.

Each property has a mutant in `PROJECT.json`: a plausible bug in one mapped
definition under which TLC finds it violated.

## 4. Where the code and its documentation disagree

The run `spray` is the finding listed in `PROJECT.json`. `LayerPermitPoolV1::acquire`
(`coordinator.rs:56`) waits without a deadline. When the planes of a model with K planes
only are sent in turn on two connections, the two permits of the pool are with planes that
are not next, both readers wait in `acquire`, the session thread waits in
`events.recv()`, and the deadline shuts sockets that nobody is reading: the receive
does not return. It is the only way a receive hangs (`EndsUnlessStarved`, run `handoff`).
`receiver/session.rs:460-462` says "a reader parked in acquire always
wakes", `receiver/spray.rs:118-119` that "no thread can leak or deadlock the pool".

Further counterexample configurations show other disagreements; each checks one
property that a comment or a test states, and TLC violates it with
`tlc -config <name>.cfg <module>`:

| Configuration | Module | Property | What happens |
|---|---|---|---|
| `parents` | `MCObjectStore` | `ParentsRemain` | `finish_manifest_eviction` (`gc/eviction.rs:395`) deletes the row whatever its state: a manifest published again between the two transactions, together with a child, loses its row while the child stays. `gc/eviction.rs:37-38`: "Parents remain until all authenticated children have been evicted". |
| `demote` | `MCObjectStore` | `DemotionSparesPinned` | the ladder (`gc/demotion.rs:121`) tests pins when it selects; a chunk pinned before the update is tombstoned and unlinked. `gc/demotion.rs:38-39` says pins protect their objects. |
| `durable` | `MCObjectStore` | `DurableMatchesCatalog` | publication (`publication/manifests.rs:248`) charges a chunk whenever its `refcount` is zero, also when an earlier, evicted manifest paid for it. `tests/store_model.rs:285-292` asserts equality with the catalog. |
| `readd` | `MCObjectStore` | `AvailableNotTombstoned` | tombstones are never removed and `resolve.rs:121` obeys them, so a manifest published again is charged and never found. `docs/DISTRIBUTED_CONSISTENCY_AND_REPLICATION.md:162`: eviction "permits a later re-add". |
| `shared` | `MCObjectStore` | `ServableBytesPresent` | two imports carry one object of a remote store, a writer has its content under another key. The first import loses the insert and moves the file away (`publication/chunks.rs:261`) after the second found it existing (`immutable.rs:97`); when the writer's row has been collected, the second's insert makes an AVAILABLE row without a file. `tests/store_model.rs:310` asserts of every AVAILABLE local location `is_file()`. |
| `fenced` | `ProvisionalSession` | `StaleSessionsFenced` | token check and abort are two critical sections (`provisional/session.rs:187`); the session that adopted the upload in between is aborted. `provisional/session.rs:164-165` says a stale session must not kill the live reservation. |
| `plain` | `ProvisionalSession` | `RowsHaveFiles` | without encryption two sessions promote one inode, and the cleanup of the stale one (`promotion.rs:147`) unlinks it between the other's existence check and its row. With encryption keys differ, and `provisional` shows the property holds. |
| `torn` | `ProvisionalSession` | `RowsBacked` | a cleanup unlinks the file (`promotion.rs:163`) before it commits the deletion of the row (`:176`); a crash in between, or a failed commit whose link back fails too (`:177`, ignored), leaves an AVAILABLE row without a file. Exports of that content are deduplicated against the row and fail when they read the file (`export/provisional/seal.rs:88-95`). `tests/store_model.rs:310` asserts of every AVAILABLE local location `is_file()`. |
| `rollback` | `MCServices` | `EpochsForward` | `register_tenant` (`schema.rs:165-199`) reads and writes the tenant row in two statements without a transaction; two processes that open at once move the epochs back. `schema.rs:183`: "key epochs cannot move backward in an existing catalog". |
| `cancel` | `MCRestore` | `EndedLeavesNoPins` | a parallel restore that is cancelled while no result is in the channel has no pending error (`restore/plan.rs:661-666`): the workers release the pins they claimed (`:603-610`), the caller those it received, nobody those never claimed. `tests/restore_plan/execution.rs:195,208` expect none. |
| `evidence` | `MCDisaster` | `EvidenceRetained` | two rebuilds in one second, or a crash between the renames (`fsck.rs:173-191`), lose the former catalog. `fsck.rs:41-43` says it is retained. |

Behaviours the models contain, or the reading of the code showed, that no document
contradicts but a reader should know:

* Provisional sessions: the reaper aborts by key alone and may abort an upload resumed
  since it looked; a reservation has no lease before adoption; a row that is created and
  aborted between the two looks of `reserve_upload` keeps its ledger; publication takes no
  session token. A file that a failed cleanup lost, or that a losing put quarantined while
  another session was about to insert its key (that takes four sessions), may be missing from
  a published export.
* Handoff: an auxiliary connection that is rejected ends the receive; a layer
  event that overtakes stream 0's BEGIN aborts an honest sprayed session; a failed
  directory sync after the rename refuses a bundle that stays visible; a `create` that
  fails after `create_dir` leaves its staging directory; a v2 seal with malformed hex is
  refused without an abort.
* Open: `reconcile_evictions`, the restart's aborts and `enforce_quarantine_cap` return
  `Busy` when the audit outbox is full, and `LocalStore::open` with them
  (`eviction.rs:383-389`, `465-471`, `mod.rs:299`). Only an open handle exports, so a process
  that stops with a full outbox and an eviction under way cannot be started again unless
  another process has the store open.
* Audit: two handles that export into one directory with `maximum_segments` 1 rotate
  each other's segment away; a batch retried or paused for longer than the retention is
  acknowledged although its segment may have expired in between (`lapsed`); a `.audit-*.partial` left by a crash is never pruned; chunk
  tombstone events carry the key epoch as their generation.
* Key epochs: a handle opened with an older window keeps writing below a
  retirement; the open of a second process quarantines the partial files of a live one.
  Quarantine pruning removes the file before its preflight, so a full outbox leaves a row
  without a file until the next pass.
* Recovery: a restore accepts a row whose minimum is above the configuration's, which
  `open` then refuses until the minimum is raised; a backup of a catalog with two tenants
  cannot be restored; a rebuild fails as a whole if a file of a retired epoch or of a
  demoted chunk is on disk, drops rows of other tenants, and brings tombstoned objects
  back; a reconciliation beside an eviction reports the evicted object missing.
* Restore: `resolve` applies its LIMIT before incomplete chains are skipped.
* Cache policy (not modelled): after a failed flush, pending accesses of the failed
  batch overwrite newer ones (`policy.rs:430`); an explicit flush that fails after the
  timer thread saw nothing pending leaves nobody to flush (`policy.rs:598-655`).

## 5. Proofs

TLAPS checks every theorem below, for every value of the constants that satisfies the
named assumptions of the modules; TLC evaluates those assumptions on every instance.
A theorem with a further hypothesis says so.

`ObjectStore_proofs`, for any finite sets of uploads, objects and manifests and any sets
of readers, leases and maintenance threads, from `SetsAssumption`, `DataAssumption` and
`SizesAssumption`:

| Theorem | States |
|---|---|
| `TypeCorrect` | `Spec => []TypeOK` |
| `RefcountIsExact` | `Spec => []RefcountExact` |
| `ReferencedRowsStay` | `Spec => []ReferencedChunksKept` |
| `RecoveryNeverRefuses` | `Spec => []EvictingUnreferenced` |
| `ReservationsBalance` | `Spec => []ReservationExact` |
| `QuotaIsRespected` | `Spec => []QuotaRespected` |
| `ResolvedAreComplete` | `Spec => []ResolvedIsComplete` |
| `ServedBytesArePresent` | `Spec => []ServableBytesPresent`, if `KeysApart` |
| `PinsAreHonoured` | `Spec => []PinnedChunksReadable`, if `KeysApart` |
| `LeasesAreHonoured` | `Spec => []LeasedObjectsKept`, if `KeysApart` |

`KeysApart`: no two uploads put the same object key of a content that has more than
one. It holds where keys are a function of the content (no encryption) and where every
upload encrypts for itself; two imports from one remote store break it, and `shared.cfg`
shows that `ServableBytesPresent` then fails, so the hypothesis cannot be dropped.

* **References.** `RefcountExact` and `ReferencedChunksKept` support each other, and
  neither is inductive alone: a row is inserted with `refcount` 0, which is right
  only if nothing references it, which follows because the row was absent and
  referenced rows are kept; and a referenced row is kept because collection takes
  only `refcount` 0, which means unreferenced only if the count is exact. The
  inductive invariant `RefInv` joins both with the types and with
  `DemotionIsLadder` (a maintenance thread is in the ladder's steps only if the
  ladder is on). Publication adds exactly the references that had no
  `manifest_chunks` row; the first transaction of an eviction removes them all.
  `EvictingUnreferenced` follows from `RefInv`.
* **Quota.** `QuotaRespected` needs to know what `reserved` consists of. `QuotaInv`
  adds `HeldExact` (an upload holds `ExpectedBytes` while in flight and 0
  otherwise) and `ReservationExact`. Publication then moves at most what the
  upload holds from reserved to durable, and every other step lowers a counter.
* **Manifests.** Packs are written before, and removed after, the transaction that
  makes a row visible or hides it. `ManifestInv` rests on tombstones never being
  removed: whatever an eviction has begun on is tombstoned (`EvictingTombstoned`,
  `TargetsTombstoned`), so a manifest without a tombstone has its row, pack and
  references untouched (`RowsComplete`), and a batch about to be published still has the
  packs it wrote unless they were tombstoned meanwhile (`PacksWritten`).
* **Files.** `FileInv` says for every thread between a file and its row what it may rely
  on: a put past its write has its file unless the object was collected or demoted
  (`PutsHaveFiles`), a put that may still lose or has lost to another key is of an object
  nobody is served from (`LosersUnserved`), a demotion past its update unlinks only
  what is no longer served (`DemotedUnserved`). The step that needs `KeysApart` is the
  catalog transaction of one put while another is about to quarantine the same key.
* **Protection.** Pins and leases are excluded by the transactions that evict and select
  victims, and recovery touches only what is already tombstoned. `ProtectInv` adds
  that a reader's manifest and a lease's manifest stay served, and that a lapsed lease is
  known to have lapsed over a restart (`LapsesRemembered`). `demote.cfg` shows why the
  ladder, which tests pins too early, is outside these two properties.

`ProvisionalSession_proofs`, for any set of sessions and any number of chunks and
crashes, from `SessionsAssumption`, `CountAssumption` and `NoFileAssumption`:

| Theorem | States |
|---|---|
| `TypeCorrect` | `Spec => []TypeOK` |
| `CursorIsCovered` | `Spec => []CursorCovered` |
| `EncryptedRowsHaveFiles` | `Spec => []RowsHaveFiles`, if `Encrypted` |
| `EncryptedPublishedWhole` | `Spec => []PublishedWhole`, if `Encrypted` |

* **Progress.** The types need where each session stands (`Progress`): one that
  stages has a reference to every chunk before its ordinal, one that promotes has all of
  them and the canonical key of every chunk it is done with.
* **Keys.** `RowsHaveFiles` excuses the keys in `cut` and `lost`, and the invariant has to
  show that nothing else parts row and file. A file is taken back by the session that linked it. `KeyInv` says why nobody
  else is then served from it: a key that another session refers to, or that a row has,
  is one whose writer is past the chunk (`KeysPast`), and a link its writer might still
  take back is the row's; so the existence check and the insert see the same file
  (`InsertsBacked`). Without encryption the writers of a content share the key, and
  `plain.cfg` is the counterexample. `PublishedRows` then carries the published set over
  the cleanups of other sessions.
* **Cut keys.** `PublishedWhole` excuses `lost` alone, so a key cut by a crash must not be
  published. `CutInv`: such a key has no file, its writer has ended, and a running session
  whose chunk has that row took its reference from the row; so it fails before the put
  (the file is read first), and neither a canonical nor a published reference is cut.
  A file lost without a crash is not covered: a session that has promoted the chunk goes on
  to publish, and publication looks at rows only.

`StoreServices_proofs`, second part, from `EntriesAssumption` alone and for any set of threads:

| Theorem | States |
|---|---|
| `FetchesAreSingle` | `FillSpec => []OneFetch` |
| `WaitersAreServed` | `FillSpec => []WaitersHaveLeader` |

* **Fill.** `FillInv` adds to `OneFetch` that everybody who holds an entry
  holds the one the map points to (`HoldersShare`) and that a Running entry
  somebody holds has its leader (`RunningHasLeader`). A new leader appears only when
  nobody holds the map's entry, and then no older leader is left; an entry stops being
  Running in the same step in which its leader stops leading.

`Handoff_proofs`, for any accepted begin, any scripts of typed frames on any number of
connections, any pool and any number of faults (`HandoffAssumption`):

| Theorem | States |
|---|---|
| `AcknowledgedIsWhole` | `Spec => []AckedBundleWhole` |
| `ImplementsTransferV1` | `Spec => RefinesTransfer` |
| `AcceptedBeginsStream` | `AcceptedBeginStreams(b)` for every `b` with `TypedBegin(b)` |
| `HonestIsNotRefused` | `Spec => HonestNotRefused` |

* **Receive.** `SessionInv` follows the session thread alone; interrupts, readers, the
  pool and the engine's consumption leave its parts unchanged. From BEGIN to the rename the
  staging directory holds exactly the planes up to the verifier's cursor
  (`StagedToCursor`), nothing has the final name (`HiddenBefore`), and the seal is only
  accepted with the cursor at the end. The engine promotes before the rename
  (`PromotedFirst`), and after the reopening the bundle is whole (`ReopenedWhole`). A
  failure may leave anything in staging, but never touches the bundle.
* **Honest streams.** `HonestOrExcused` says of a session whose script was honest that
  nothing is wrong with it unless a fault, an interrupt or a broken connection already
  excuses a refusal: the frames left on the wire are exactly those the verifier still
  expects, in order (`Rest`), the frame in the reader's hand is the next one, the coordinator
  holds a K plane only while its V plane is due (`HonestCursor`, `PendingKey`), and the
  session thread is nowhere on the way to a refusal (`HonestPlaces`). It speaks of the script the
  behaviour began with, which is why `wire` at the start is a hypothesis and not a state
  predicate. That the last frame completes its layer (`EndsComplete`) is a fact about the
  begin, and follows from `AcceptedBeginsStream`.
* **Walks.** A flat begin streams because its walk is a closed formula. For a layout table,
  a class sends its layers in order, K alone or K directly before V (`Sends`, `Paired`); the
  schedule lists every class once (`OrderLists`), so the walk is the walks of the classes at
  offsets that are sums of lengths (`Walked`), and every plane of it is a plane of one class
  (`Stands`). Two planes of one layer and role would be two places of that layer among the
  layers of all classes, which `CoversOnce` excludes. Frames and bytes are sums over the
  classes in table order, the walk adds them up in schedule order (`SumReordered`). Only
  types are assumed: the counts are natural numbers and the table is a sequence of classes.
* **Refinement.** The rename is `Install`, also when the sync after it fails; the return
  of success is `Accept`; a refused accept, prepare or session is `Refuse`; every other
  step is a stutter. A crash tells nobody anything and leaves the outcome open.

`Handoff_proofs`, second part, for any manifests, descriptors and seals of protocol v2; the
second theorem uses `ManifestsAssumption` (positions and counts are natural numbers):

| Theorem | States |
|---|---|
| `ImplementsTransfer` | `SpecV2 => RefinesTransferV2` |
| `InstalledIsDisjoint` | `SpecV2 => []InstalledDisjoint` |

* **Transfer.** The refinement needs one fact, `LiveOnlyCommitted`: nothing is live
  before the commit. Every step of the receiver is then a `Stream`, an
  `InstallAndAccept`, a `Refuse` or a stutter of `AtomicTransfer`.
* **Disjointness.** `DisjointInv` says where the shadow's segments come from: with
  declared segments from the validated begin, up to the cursor, so that the pairwise
  check of `ValidatedBegin` covers the next one; with deferred segments their ranges
  are all recorded, so that the check against `ranges` does. The commit copies the shadow.

`StoreServices_proofs`, for any handles, epochs, outbox and segment limits, from
`AuditAssumption` and `ServicesAssumption`:

| Theorem | States |
|---|---|
| `TypeCorrect` | `Spec => []TypeOK` |
| `NothingIsLost` | `Spec => []NothingUnexportedLost` |
| `OutboxIsBounded` | `Spec => []PendingBounded` |
| `RetirementsAreAudited` | `Spec => []TombstonesAudited` |
| `AcknowledgedOnDiskOrAged` | `Spec => AckedOnDiskOrAged`, if `MaxSegments > 1` |

* **Outbox.** A row leaves only after a segment had it: an exporter past its publication
  has its batch in `everOut` (`OutboxOK`), whatever other handles append, prune or
  acknowledge meanwhile. Every tombstone has its event (`ServicesInv`), so retirement is
  audited as long as nothing is lost.
* **Segments.** That an acknowledged row is on disk at that moment, or its segment
  reached the retention age, needs more:
  exporters load from the oldest pending row, so every segment and batch begins at or
  below all that is pending (`SpansOK`), and a published batch that is still pending is
  covered by a segment that begins where it does, on disk or lapsed (`Covered`). Rotation
  removes the oldest by name. With `maximum_segments` 1, which `segments.rs:21` accepts, two handles rotate
  each other's only segment away and the property is false; hence the hypothesis.

`RestoreExecution_proofs`, for any finite set of restore calls in any mode, workers,
manifests and limits, from `RestoreAssumption` and `ManifestsAssumption` (well-typed
manifests):

| Theorem | States |
|---|---|
| `RestoreIsAllOrNothing` | `Spec => []AllOrNothing` |
| `FailedRestoreUnpins` | `Spec => []FailedLeavesNoPins` |
| `ReservationsWithinLimits` | `Spec => []PinnedWithinLimits` |

* **One call.** `CallInv(r)` speaks of one call, and a step of another call leaves it
  alone (`Moves`). Every pin row belongs to an operation that is collected, unclaimed, or
  `Underway`: in a worker's hand or in the channel (`CallPins`); a worker stops only for a
  reason the calling thread learns of (`Stopped`), so that the join has collected them
  all. What is written is what was collected until an error is known (`CallWrites`).
  `FailedLeavesNoPins` excludes cancelled parallel calls (`Forgets`): for them it is
  false (`cancel.cfg`).
* **All calls.** The hold charges the plan's resources (`CallCharge`), and the plan has as
  many pins as operations, a fact about the recursive functions of `RestorePlanning` proved
  by induction on sets and numbers (`NatInduct`, `SubsetInduct`). The total is a fold over
  the reserved calls; `ChargesOfSums` shows it is a sum in any order, so admission of one
  more call and the release of another keep it within the limits.

`DisasterRecovery_proofs`, for any number of processes, configurations, seconds and
destinations, from `RecoveryAssumption` (finitely many tenants and identities, which are
digests of one width and so numbers, and typed configurations):

| Theorem | States |
|---|---|
| `TypeCorrect` | `Spec => []TypeOK` |
| `RestoredCatalogsOpen` | `Spec => []RestoredOpens` |
| `ReportsAreExact` | `Spec => []ReportExact` |
| `EvidenceIsKept` | `Spec => []EvidenceKept` |
| `NothingIsReplaced` | `Spec => NeverReplaces` |

* **Steps.** Every step is one of six kinds (`StepKinds`): one process alone moves
  (`Solo`), a mutation, a change of the catalog by the process that may (`CatalogStep`), a
  tick, the loss of the catalog or damage to an artifact. Each part of the invariant is
  shown once per kind instead of once per action.
* **Store and calls.** `StoreInv` joins the types with `RebuildsAlone` (whoever rebuilds
  holds the lock and nobody has the catalog open), `WorkingHasCatalog` (a backup, an
  inventory or a reconciliation has the catalog it began with under it) and `Reports`: the
  work left and the two lists of a reconciliation split the inventory exactly, as long as
  it is `quiet`. A staged restore is `Installable` for its configuration, hence
  `RestoredOpens`. The order of an inventory is a choice among orders of a finite set;
  `EntriesFact` shows that it lists each object once.
* **Evidence.** A rebuild renames the catalog and then its log, two steps with one
  second as their name, and anything may happen in between. `EvidenceInv` has the catalog
  and the log under a second as a pair (`EvidencePaired`), except for the one process between
  its renames (`Moving`), and every catalog ever taken away under its second (`Retained`).
  `slipped` records that a rebuild was cut short there or that two shared a second, which the
  code allows and `evidence.cfg` shows; `KeptInv` is `slipped \/ EvidenceInv`.

`CapacityPlanning_proofs`, for every worksheet input, surplus, reservation, list of
evictable manifests and operation limit, any batch of at least one victim, and any
`Significand` that is a multiple of 16 (2^53 is one), when the quota is below it:

| Theorem | States |
|---|---|
| `SizedStoresRetain` | `MaintenanceKeepsRetained(in, surplus, reserved, manifests, maximum)` |

* **Loop.** The loop of `maintain_capacity_impl` is a recursive function of the turn. It
  exists because a turn stays in `EvictStates` (`RecursionExists`), and two facts hold at every
  turn: `TurnInv` (what is left, and at most a batch more, exceeds the target; the loop has
  stopped or evicted at least one object per turn, so it has stopped after `maximum + 1`) and
  `Unharmed` (while the bytes are the retained ones and the unreferenced chunks, no manifest
  went). `Unharmed` ends with the loop because the retained bytes fit under the target.
* **Rounding.** That they fit is the arithmetic of `QuotaFacts`. The quota is rounded up at
  75 %. The target is 75 % of the quota rounded to an f64 and then truncated: `TargetHolds`
  shows that it is not below the truncated 75 %, because the unit an f64 of that size is a
  multiple of divides the integer (`UnitDivides`). `BeginFacts` bounds what the rounded
  quotient and the rounded literal 0.85 can do to the threshold.

`Recursion_proofs` holds what these proofs and those of `RestoreExecution_proofs` and
`Handoff_proofs` need of induction and recursion. The library's induction theorems take an operator, which the
installed provers cannot instantiate; here the parameter is a set of naturals or of subsets
(`NatInduct`, `SubsetInduct`), with which the existence of recursively defined functions, and
that the library's folds are sums in any order, follow. It also says where the members of a
sequence of sequences lie in what `FlattenSeq` puts together (`FlattenPlaces`).

Only model-checked:

* liveness (`RecoveryCompletes`, `EveryCallReturns`, `CancelledWaiterDetaches`,
  `AdoptedUploadEnds`, `EndsUnlessStarved`, `RestoreReturns`, `RetirementFinishes`), which is
  outside the prover's reach;
* what the larger recursive algorithms compute: the composition of plans (`PlansExact`) and
  the dynamic program of the oracle (`OracleIsLowerBound`);
* the types of `RestoreExecution` and `LiveHandoff` beyond what their invariants state.

## 6. Not modelled, and what is left

* Authenticated import beyond the put, the seal and `delete_prefix`: its chunk cursor,
  staged manifests and the mutation fences of remote peers (`import.rs`, `remote.rs`).
* The persistence of cache accesses (pending set, flush, timer thread of `policy.rs`).
* Byte-serving and range reads, the manifest LRU, the scatter reader's I/O: they read.
* Prefill sessions and their artifacts, export drivers and writer: sequential code of one
  process, checked in the code by types and digests; the store calls they make are modelled.
* Encoders, decoders and parsers over bytes (`kvpack-core`, GGUF), tensor
  arithmetic (floating point) and telemetry (no decision reads it), for good.

Proofs worth adding next: `PlansExact` and `OracleIsLowerBound`, by induction over the
recursive functions they are defined with, as in `CapacityPlanning_proofs`.
