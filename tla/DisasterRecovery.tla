-------------------------- MODULE DisasterRecovery --------------------------
(***************************************************************************)
(* What is left when a catalog is lost (store/recovery*, store/fsck.rs):   *)
(* encrypted catalog backups and their restore into a bare path, signed    *)
(* inventories, the reconciliation of catalog and object files, and the    *)
(* offline rebuild of a catalog from the object files.                     *)
(*                                                                         *)
(* A process works under one configuration: a tenant, a catalog epoch and  *)
(* a window of key epochs.  The catalog is an SQLite database and its WAL: *)
(* the WAL, when there, holds the newest committed state.  A catalog value *)
(* has the tenants rows, the rows of manifests and chunks, and tombstones. *)
(* Publication, eviction and retirement are one step each here; their own  *)
(* steps are those of ObjectStore and StoreServices.                       *)
(***************************************************************************)
EXTENDS Integers, Sequences, FiniteSets, SequencesExt

CONSTANTS
    Procs,      \* processes, each with at most one store open
    Configs,    \* StoreConfig: [tenant, catalog, min, active]
    Tenants,
    Manifests,  \* manifest identities, natural numbers
    TenantOf,   \* [Manifests -> Tenants]
    EpochOf,    \* [Manifests -> key epoch]
    Chunks,     \* chunk object keys, natural numbers
    ChunksOf,   \* [Manifests -> SUBSET Chunks]
    Dests,      \* paths that backups and inventories are written to
    BlockRows,  \* BACKUP_BLOCK_BYTES, in catalog rows
    MaxBlocks,  \* CatalogBackupBounds.maximum_blocks
    MaxEntries, \* maximum_entries, maximum_objects
    Seconds,    \* the seconds of the clock
    MaxCalls,   \* bound: calls of the store and of the recovery tools
    MaxFaults   \* bound: crashes and damages

ASSUME RecoveryAssumption ==
    /\ TenantOf \in [Manifests -> Tenants]
    /\ EpochOf \in [Manifests -> Nat \ {0}]
    /\ ChunksOf \in [Manifests -> SUBSET Chunks]
    /\ Manifests \cap Chunks = {} /\ Manifests \cup Chunks \subseteq Nat
    /\ IsFiniteSet(Tenants) /\ IsFiniteSet(Manifests) /\ IsFiniteSet(Chunks)
    /\ Configs \subseteq [tenant : Tenants, catalog : Nat, min : Nat, active : Nat]
    /\ BlockRows \in Nat \ {0} /\ MaxBlocks \in Nat /\ MaxEntries \in Nat \ {0}
    /\ Seconds \subseteq Nat /\ MaxCalls \in Nat /\ MaxFaults \in Nat

VARIABLES
    db,         \* the file at catalog_path
    wal,        \* the file at catalog_path-wal
    evidence,   \* [Seconds -> the files at catalog_path.backup-<second>]
    files,      \* object files
    corrupt,    \* object files whose bytes were damaged
    artifacts,  \* [Dests -> backup or inventory]
    proc,       \* [Procs -> state of the process]
    second,     \* the clock
    calls, faults,
    replaced,   \* history: catalogs that a rebuild took from the path
    slipped     \* history: a rebuild was cut short, or shared its second

catalogVars == <<db, wal, evidence>>
objectVars == <<files, corrupt>>
clockVars == <<second, calls, faults>>
historyVars == <<replaced, slipped>>
vars == <<catalogVars, objectVars, artifacts, proc, clockVars, historyVars>>

NoFile == [none |-> TRUE]
NoRow == [none |-> TRUE]
NoConfig == [none |-> TRUE]

Empty == [tenants |-> [t \in Tenants |-> NoRow], manifests |-> {}, chunks |-> {},
          tombstones |-> {}]

\* What a connection reads.
Catalog == IF wal # NoFile THEN wal ELSE db

Closed == [pc |-> "closed", config |-> NoConfig, work |-> NoFile, dest |-> NoFile,
           missing |-> {}, corrupt |-> {}, quiet |-> TRUE]

Init ==
    /\ db = NoFile /\ wal = NoFile
    /\ evidence = [s \in Seconds |-> [db |-> NoFile, wal |-> NoFile]]
    /\ files = {} /\ corrupt = {}
    /\ artifacts = [d \in Dests |-> NoFile]
    /\ proc = [p \in Procs |-> Closed]
    /\ second \in Seconds /\ \A s \in Seconds : second <= s
    /\ calls = 0 /\ faults = 0
    /\ replaced = {} /\ slipped = FALSE

At(p, pc) == proc[p].pc = pc
Config(p) == proc[p].config

\* A new call: bounded in the model.
Calls == calls < MaxCalls /\ calls' = calls + 1 /\ UNCHANGED <<second, faults>>

\* Steps that start or end a call of p.
Goes(p, pc) == proc' = [proc EXCEPT ![p].pc = pc]
Returns(p) == proc' = [proc EXCEPT ![p] = [Closed EXCEPT !.pc = "open", !.config = Config(p)]]
Ends(p) == proc' = [proc EXCEPT ![p] = Closed]

\* A rebuild is offline: nobody has the store open or opens it meanwhile.
Rebuilding(p) == proc[p].pc \in {"scanned", "db moved", "wal moved"}
Offline == \A p \in Procs : At(p, "closed")
NoRebuild == \A p \in Procs : ~Rebuilding(p)

----------------------------------------------------------------------------
(* The store in use.                                                       *)

Row(c) == [active |-> c.active, min |-> c.min, catalog |-> c.catalog]

NotBackward(row, c) ==
    row # NoRow => c.active >= row.active /\ c.min >= row.min /\ c.catalog >= row.catalog

\* LocalStore::open: a missing database is created, and SQLite deletes a WAL
\* it finds beside a new one.
Open(p, c) ==
    LET found == IF db = NoFile THEN Empty ELSE Catalog
    IN  /\ At(p, "closed") /\ NoRebuild
        /\ NotBackward(found.tenants[c.tenant], c)
        /\ db' = IF db = NoFile THEN Empty ELSE db
        /\ wal' = [found EXCEPT !.tenants[c.tenant] = Row(c)]
        /\ proc' = [proc EXCEPT ![p] = [Closed EXCEPT !.pc = "open", !.config = c]]
        /\ Calls
        /\ UNCHANGED <<evidence, objectVars, artifacts, historyVars>>

\* The last connection to close checkpoints the WAL and removes it.
Close(p) ==
    /\ At(p, "open")
    /\ IF \A q \in Procs \ {p} : Config(q) = NoConfig \/ At(q, "restoring")
         THEN db' = Catalog /\ wal' = NoFile
         ELSE UNCHANGED <<db, wal>>
    /\ Ends(p)
    /\ UNCHANGED <<evidence, objectVars, artifacts, clockVars, historyVars>>

\* Reconciliations that run see a moving store.
Disturbs == proc' = [q \in Procs |-> [proc[q] EXCEPT !.quiet = @ /\ ~At(q, "checking")]]

Mutates(p, value) ==
    /\ wal' = value
    /\ Disturbs
    /\ UNCHANGED <<db, evidence, artifacts, historyVars>>

\* A publication: files first, the rows at its end; a crash leaves the files.
WriteFiles(p, m) ==
    /\ At(p, "open") /\ TenantOf[m] = Config(p).tenant /\ EpochOf[m] = Config(p).active
    /\ m \notin files
    /\ files' = files \cup {m} \cup ChunksOf[m]
    /\ Calls /\ Disturbs
    /\ UNCHANGED <<catalogVars, corrupt, artifacts, historyVars>>

Publish(p, m) ==
    /\ At(p, "open") /\ TenantOf[m] = Config(p).tenant /\ EpochOf[m] = Config(p).active
    /\ {m} \cup ChunksOf[m] \subseteq files
    /\ m \notin Catalog.manifests
    /\ Mutates(p, [Catalog EXCEPT !.manifests = @ \cup {m}, !.chunks = @ \cup ChunksOf[m]])
    /\ UNCHANGED <<objectVars, clockVars>>

\* An eviction of a manifest and the collection of its chunks.
Evict(p, m) ==
    LET kept == UNION {ChunksOf[n] : n \in Catalog.manifests \ {m}}
        gone == {m} \cup (ChunksOf[m] \ kept)
    IN  /\ At(p, "open") /\ m \in Catalog.manifests /\ TenantOf[m] = Config(p).tenant
        /\ Mutates(p, [Catalog EXCEPT !.manifests = @ \ {m}, !.chunks = @ \ gone,
                                      !.tombstones = @ \cup gone])
        /\ files' = files \ gone /\ corrupt' = corrupt \ gone
        /\ Calls

\* The last rung of the ladder: the bytes of a chunk go, its row is no longer
\* AVAILABLE, the manifest stays.
Demote(p, k) ==
    /\ At(p, "open") /\ k \in Catalog.chunks /\ k \notin Catalog.tombstones
    /\ \E m \in Catalog.manifests : k \in ChunksOf[m] /\ TenantOf[m] = Config(p).tenant
    /\ Mutates(p, [Catalog EXCEPT !.chunks = @ \ {k}])
    /\ files' = files \ {k} /\ corrupt' = corrupt \ {k}
    /\ Calls

\* A retirement below the minimum: tombstones, the rows and the files stay.
Retire(p) ==
    LET old == {m \in Catalog.manifests :
                  TenantOf[m] = Config(p).tenant /\ EpochOf[m] < Config(p).min}
        gone == old \cup UNION {ChunksOf[m] : m \in old}
    IN  /\ At(p, "open") /\ ~(gone \subseteq Catalog.tombstones)
        /\ Mutates(p, [Catalog EXCEPT !.tombstones = @ \cup gone])
        /\ Calls
        /\ UNCHANGED objectVars

----------------------------------------------------------------------------
(* Backups.                                                                *)

\* hash_file and the lengths of the envelope: the plaintext and its blocks.
PlaintextRows(value) ==
    Cardinality({t \in Tenants : value.tenants[t] # NoRow})
      + Cardinality(value.manifests) + Cardinality(value.chunks)
      + Cardinality(value.tombstones)

BlockCount(rows) == (rows + BlockRows - 1) \div BlockRows

\* expected_backup_bytes: header, one framed record per block, signature.
ExpectedBackupBytes(rows, blocks) == 1 + rows + blocks + 1

\* BackupHeader, as encode_backup_header writes it: the identity is the
\* process's own, not that of the tenants row of the snapshot.
BackupHeader(c, value) ==
    [tenant |-> c.tenant, catalog |-> c.catalog, key |-> c.active,
     rows |-> PlaintextRows(value), blocks |-> BlockCount(PlaintextRows(value)),
     digest |-> value]

\* A block, encrypted with its ordinal as nonce; the header and the ordinal
\* are authenticated with it.
Block(header, i) == [ordinal |-> i, aad |-> header]

Blocks(header) == [i \in 1..header.blocks |-> Block(header, i)]

\* The MAC of an artifact covers everything before it (write_mac as it is
\* written, verify_file_mac when it is read).
Mac(header, body) == <<header, body>>

BackupArtifact(header) ==
    [kind |-> "backup", header |-> header, body |-> Blocks(header),
     signed |-> Mac(header, Blocks(header))]

RequireNewDestination(d) == artifacts[d] = NoFile

\* write_catalog_backup up to the online snapshot, which takes no lock of the
\* store: it is the state committed last when it starts.
BackupSnapshot(p, d) ==
    /\ At(p, "open") /\ RequireNewDestination(d)
    /\ proc' = [proc EXCEPT ![p].pc = "backing up", ![p].work = Catalog, ![p].dest = d]
    /\ Calls
    /\ UNCHANGED <<catalogVars, objectVars, artifacts, historyVars>>

\* A plausible bug: the artifact is renamed over what the path holds.
PublishReplacing(d, artifact) == artifacts' = [artifacts EXCEPT ![d] = artifact]

\* publish_temporary: the link makes the whole file visible, or fails since
\* the path was taken in the meantime.
PublishTemporary(d, artifact) ==
    artifacts' = IF artifacts[d] = NoFile THEN [artifacts EXCEPT ![d] = artifact] ELSE artifacts

\* The encryption into a private temporary, and its publication.
BackupPublish(p) ==
    LET header == BackupHeader(Config(p), proc[p].work)
    IN  /\ At(p, "backing up")
        /\ IF header.blocks <= MaxBlocks
             THEN PublishTemporary(proc[p].dest, BackupArtifact(header))
             ELSE UNCHANGED artifacts
        /\ Returns(p)
        /\ UNCHANGED <<catalogVars, objectVars, clockVars, historyVars>>

\* recovery_tenant: the epoch of an artifact is in the readable window.
RecoveryTenant(c, header) == header.key \in c.min..c.active

\* validate_snapshot_identity.
SnapshotIdentity(c, header) == header.tenant = c.tenant /\ header.catalog = c.catalog

FileRows(header, body) == ExpectedBackupBytes(header.rows, Len(body))

\* authenticate_backup.
AuthenticateBackup(c, a) ==
    /\ a # NoFile /\ a.kind = "backup"
    /\ a.header.rows > 0 /\ a.header.blocks \in 1..MaxBlocks
    /\ a.header.blocks = BlockCount(a.header.rows)
    /\ FileRows(a.header, a.body) = ExpectedBackupBytes(a.header.rows, a.header.blocks)
    /\ RecoveryTenant(c, a.header)
    /\ a.signed = Mac(a.header, a.body)
    /\ SnapshotIdentity(c, a.header)

\* The decryption loop of restore_catalog_backup and the digest at its end.
DecryptsWhole(a) ==
    \A i \in 1..a.header.blocks : a.body[i] = Block(a.header, i)

\* A plausible bug: the row is not compared with the envelope.
ValidateRestoredTenant(c, header, value) ==
    LET row == value.tenants[header.tenant]
    IN  /\ Cardinality({t \in Tenants : value.tenants[t] # NoRow}) = 1
        /\ row # NoRow
        /\ row.min <= row.active /\ row.min >= c.min

\* validate_restored_catalog: one tenant, whose row agrees with the envelope
\* and the configuration (the rest is SQLite's own integrity).
ValidateRestored(c, header, value) ==
    LET row == value.tenants[header.tenant]
    IN  /\ Cardinality({t \in Tenants : value.tenants[t] # NoRow}) = 1
        /\ row # NoRow
        /\ row.active = header.key /\ row.min <= row.active
        /\ row.catalog = header.catalog
        /\ row.active <= c.active /\ row.min >= c.min

\* Neither a database nor its WAL or SHM is at the path.
RequireBareCatalogPath == db = NoFile /\ wal = NoFile

\* restore_catalog_backup up to the validated temporary.
RestoreBackup(p, c, d) ==
    /\ At(p, "closed") /\ NoRebuild
    /\ RequireBareCatalogPath
    /\ AuthenticateBackup(c, artifacts[d])
    /\ DecryptsWhole(artifacts[d])
    /\ ValidateRestored(c, artifacts[d].header, artifacts[d].header.digest)
    /\ proc' = [proc EXCEPT ![p].pc = "restoring", ![p].config = c,
                            ![p].work = artifacts[d].header.digest]
    /\ Calls
    /\ UNCHANGED <<catalogVars, objectVars, artifacts, historyVars>>

\* A plausible bug: the restored file replaces what is at the path.
InstallReplacing(p) == db' = proc[p].work

\* The link to the catalog path, which fails when a database is there.
InstallCatalog(p) == db' = IF db = NoFile THEN proc[p].work ELSE db

RestorePublish(p) ==
    /\ At(p, "restoring")
    /\ InstallCatalog(p)
    /\ Ends(p)
    /\ UNCHANGED <<wal, evidence, objectVars, artifacts, clockVars, historyVars>>

----------------------------------------------------------------------------
(* Inventories and reconciliation.                                         *)

\* load_inventory_entries: manifests and chunks of the tenant in the readable
\* window without a tombstone; a chunk has the epoch of its manifests.
InventoryObjects(c, value) ==
    LET readable(m) == TenantOf[m] = c.tenant /\ EpochOf[m] \in c.min..c.active
        listed == {m \in value.manifests : readable(m)}
          \cup {k \in value.chunks : \E m \in Manifests : k \in ChunksOf[m] /\ readable(m)}
    IN  listed \ value.tombstones

Kind(o) == IF o \in Manifests THEN 0 ELSE 1

\* ORDER BY kind, object_id; InventoryCursor's own order.
CursorBefore(a, b) == Kind(a) < Kind(b) \/ (Kind(a) = Kind(b) /\ a < b)

InventoryEntries(c, value) ==
    CHOOSE entries \in SetToSeqs(InventoryObjects(c, value)) :
        \A i, j \in DOMAIN entries : i < j => CursorBefore(entries[i], entries[j])

\* InventoryHeader, as encode_inventory_header writes it.
InventoryHeader(c, entries) ==
    [tenant |-> c.tenant, catalog |-> c.catalog, key |-> c.active,
     count |-> Len(entries), digest |-> entries]

InventoryArtifact(c, entries) ==
    [kind |-> "inventory", header |-> InventoryHeader(c, entries), body |-> entries,
     signed |-> Mac(InventoryHeader(c, entries), entries)]

\* write_signed_inventory_snapshot: the entries under the lock ...
InventorySnapshot(p, d) ==
    LET entries == InventoryEntries(Config(p), Catalog)
    IN  /\ At(p, "open") /\ RequireNewDestination(d)
        /\ Len(entries) <= MaxEntries
        /\ proc' = [proc EXCEPT ![p].pc = "listing", ![p].work = entries, ![p].dest = d]
        /\ Calls
        /\ UNCHANGED <<catalogVars, objectVars, artifacts, historyVars>>

\* ... and the signed file.
InventoryPublish(p) ==
    /\ At(p, "listing")
    /\ PublishTemporary(proc[p].dest, InventoryArtifact(Config(p), proc[p].work))
    /\ Returns(p)
    /\ UNCHANGED <<catalogVars, objectVars, clockVars, historyVars>>

\* decode_inventory_entry and the order test of the verification: cursors
\* strictly increase, manifests (kind 0) before chunks (kind 1).
CanonicalEntries(entries) ==
    \A i \in 1..(Len(entries) - 1) :
        LET a == entries[i]
            b == entries[i + 1]
        IN  \/ a \in Manifests /\ b \in Chunks
            \/ {a, b} \subseteq Manifests /\ a < b
            \/ {a, b} \subseteq Chunks /\ a < b

\* verify_signed_inventory_snapshot.
VerifyInventory(c, a) ==
    /\ a # NoFile /\ a.kind = "inventory"
    /\ a.header.count <= MaxEntries /\ Len(a.body) = a.header.count
    /\ RecoveryTenant(c, a.header)
    /\ a.signed = Mac(a.header, a.body)
    /\ SnapshotIdentity(c, a.header)
    /\ CanonicalEntries(a.body)
    /\ a.header.digest = a.body

\* reconcile_catalog_objects: the entries are loaded under the lock ...
ReconcileLoad(p) ==
    LET entries == InventoryEntries(Config(p), Catalog)
    IN  /\ At(p, "open") /\ Len(entries) <= MaxEntries
        /\ proc' = [proc EXCEPT ![p].pc = "checking", ![p].work = entries, ![p].quiet = TRUE,
                                ![p].missing = {}, ![p].corrupt = {}]
        /\ Calls
        /\ UNCHANGED <<catalogVars, objectVars, artifacts, historyVars>>

\* A plausible bug: the bytes of a manifest are not authenticated.
ObjectCheckChunksOnly(o) ==
    IF o \notin files THEN "missing"
    ELSE IF o \in corrupt /\ o \in Chunks THEN "corrupt" ELSE "present"

\* check_inventory_object: what the file of an entry says.
ObjectCheck(o) ==
    IF o \notin files THEN "missing" ELSE IF o \in corrupt THEN "corrupt" ELSE "present"

\* ... and each file is opened and checked with the lock released.
ReconcileObject(p) ==
    /\ At(p, "checking") /\ proc[p].work # <<>>
    /\ LET o == Head(proc[p].work)
       IN  proc' = [proc EXCEPT
             ![p].work = Tail(@),
             ![p].missing = IF ObjectCheck(o) = "missing" THEN @ \cup {o} ELSE @,
             ![p].corrupt = IF ObjectCheck(o) = "corrupt" THEN @ \cup {o} ELSE @]
    /\ UNCHANGED <<catalogVars, objectVars, artifacts, clockVars, historyVars>>

ReconcileReport(p) ==
    /\ At(p, "checking") /\ proc[p].work = <<>>
    /\ Returns(p)
    /\ UNCHANGED <<catalogVars, objectVars, artifacts, clockVars, historyVars>>

----------------------------------------------------------------------------
(* The offline rebuild.                                                    *)

ObjectFiles == Manifests \cap files

\* The first loop: the pack files of the tenant.
ScannedManifests(c) == {m \in ObjectFiles : TenantOf[m] = c.tenant}

\* Each pack must authenticate under the window and each chunk it names must
\* be there and decode; one that does not fails the whole rebuild.
ScanSucceeds(c) ==
    \A m \in ScannedManifests(c) :
        /\ EpochOf[m] \in c.min..c.active /\ m \notin corrupt
        /\ ChunksOf[m] \subseteq files \ corrupt

\* The replacement catalog: everything on disk is published again; other
\* tenants and tombstones are not.
Rebuilt(c) ==
    [tenants |-> [Empty.tenants EXCEPT ![c.tenant] = Row(c)],
     manifests |-> ScannedManifests(c),
     chunks |-> UNION {ChunksOf[m] : m \in ScannedManifests(c)},
     tombstones |-> {}]

\* fsck_rebuild_catalog up to the checkpoint of the scratch catalog.
FsckScan(p, c) ==
    /\ At(p, "closed") /\ Offline
    /\ ScanSucceeds(c)
    /\ proc' = [proc EXCEPT ![p].pc = "scanned", ![p].config = c, ![p].work = Rebuilt(c),
                            ![p].dest = second]
    /\ Calls
    /\ UNCHANGED <<catalogVars, objectVars, artifacts, historyVars>>

\* The rename of the old database, if there is one; it replaces what an
\* earlier rebuild left under the same second.
FsckMoveDb(p) ==
    LET s == proc[p].dest
    IN  /\ At(p, "scanned")
        /\ Goes(p, "db moved")
        /\ IF db = NoFile THEN UNCHANGED <<db, evidence, replaced, slipped>>
           ELSE /\ db' = NoFile
                /\ evidence' = [evidence EXCEPT ![s].db = db]
                /\ replaced' = replaced \cup {Catalog}
                /\ slipped' = (slipped \/ evidence[s].db # NoFile)
        /\ UNCHANGED <<wal, objectVars, artifacts, clockVars>>

\* A plausible bug: the WAL stays where it is.
FsckLeaveWal(p) ==
    /\ At(p, "db moved")
    /\ Goes(p, "wal moved")
    /\ UNCHANGED <<catalogVars, objectVars, artifacts, clockVars, historyVars>>

\* Then its WAL (the SHM holds nothing a recovery needs).
FsckMoveWal(p) ==
    LET s == proc[p].dest
    IN  /\ At(p, "db moved")
        /\ Goes(p, "wal moved")
        /\ IF wal = NoFile THEN UNCHANGED <<wal, evidence>>
           ELSE /\ wal' = NoFile
                /\ evidence' = [evidence EXCEPT ![s].wal = wal]
        /\ UNCHANGED <<db, objectVars, artifacts, clockVars, historyVars>>

\* The rename of the scratch catalog to the path.
FsckPublish(p) ==
    /\ At(p, "wal moved")
    /\ db' = proc[p].work
    /\ Ends(p)
    /\ UNCHANGED <<wal, evidence, objectVars, artifacts, clockVars, historyVars>>

----------------------------------------------------------------------------
(* The environment.                                                        *)

Tick ==
    /\ second + 1 \in Seconds
    /\ second' = second + 1
    /\ UNCHANGED <<catalogVars, objectVars, artifacts, proc, calls, faults, historyVars>>

\* A process dies; its temporaries are never visible under their names.
Crash(p) ==
    /\ ~At(p, "closed") /\ faults < MaxFaults
    /\ faults' = faults + 1
    /\ slipped' = (slipped \/ At(p, "db moved") \/ At(p, "wal moved"))
    /\ Ends(p)
    /\ UNCHANGED <<catalogVars, objectVars, artifacts, second, calls, replaced>>

\* The machine loses the catalog, or an object file goes bad.
LoseCatalog ==
    /\ faults < MaxFaults /\ Offline /\ db # NoFile
    /\ db' = NoFile /\ wal' = NoFile
    /\ faults' = faults + 1
    /\ UNCHANGED <<evidence, objectVars, artifacts, proc, second, calls, historyVars>>

Damage(o) ==
    /\ faults < MaxFaults /\ o \in files \ corrupt
    /\ corrupt' = corrupt \cup {o}
    /\ Disturbs
    /\ faults' = faults + 1
    /\ UNCHANGED <<catalogVars, files, artifacts, second, calls, historyVars>>

\* A copy of an artifact is cut short, or a record of it goes bad.
DamageArtifact(d) ==
    /\ faults < MaxFaults /\ artifacts[d] # NoFile /\ artifacts[d].body # <<>>
    /\ \/ artifacts' = [artifacts EXCEPT ![d].body = Front(@)]
       \/ artifacts' = [artifacts EXCEPT ![d].body[1] =
                           IF artifacts[d].kind = "backup" THEN NoFile ELSE 0]
    /\ faults' = faults + 1
    /\ UNCHANGED <<catalogVars, objectVars, proc, second, calls, historyVars>>

Next ==
    \/ \E p \in Procs :
         \/ \E c \in Configs : Open(p, c) \/ FsckScan(p, c)
         \/ \E c \in Configs, d \in Dests : RestoreBackup(p, c, d)
         \/ Close(p) \/ Crash(p) \/ Retire(p)
         \/ \E m \in Manifests : WriteFiles(p, m) \/ Publish(p, m) \/ Evict(p, m)
         \/ \E k \in Chunks : Demote(p, k)
         \/ \E d \in Dests : BackupSnapshot(p, d) \/ InventorySnapshot(p, d)
         \/ BackupPublish(p) \/ InventoryPublish(p) \/ RestorePublish(p)
         \/ ReconcileLoad(p) \/ ReconcileObject(p) \/ ReconcileReport(p)
         \/ FsckMoveDb(p) \/ FsckMoveWal(p) \/ FsckPublish(p)
    \/ Tick \/ LoseCatalog
    \/ \E o \in Manifests \cup Chunks : Damage(o)
    \/ \E d \in Dests : DamageArtifact(d)

Spec == Init /\ [][Next]_vars

----------------------------------------------------------------------------
(* Properties.                                                             *)

TypeOK ==
    /\ files \subseteq Manifests \cup Chunks /\ corrupt \subseteq files
    /\ second \in Seconds /\ faults \in 0..MaxFaults
    /\ \A p \in Procs : proc[p].config \in Configs \cup {NoConfig}

\* backup.rs:170-171, "this API never replaces a live or existing database",
\* and the create-new destinations: a restore and the publication of an
\* artifact leave a file that is there as it is, whoever put it there between
\* the test of the path and the link.
NeverReplaces ==
    [][/\ \A p \in Procs : At(p, "restoring") /\ ~At(p, "restoring")' =>
             db = NoFile \/ db' = db
       /\ \A d \in Dests : artifacts[d] # NoFile /\ faults' = faults =>
             artifacts'[d] = artifacts[d]]_vars

\* A catalog that a restore installs opens again: the restoring configuration
\* itself, with its minimum raised if need be, is not behind the tenants row
\* (helpers.rs:160-166 beside schema.rs:180-193).
RestoredOpens ==
    \A p \in Procs : At(p, "restoring") =>
        LET c == Config(p)
            row == proc[p].work.tenants[c.tenant]
        IN  /\ row # NoRow
            /\ \E least \in c.min..c.active : NotBackward(row, [c EXCEPT !.min = least])
            /\ \A t \in Tenants \ {c.tenant} : proc[p].work.tenants[t] = NoRow

\* The report of a reconciliation that ran beside no mutation names exactly
\* the cataloged objects whose file is gone or bad, after a restore of an
\* older catalog too (reconcile.rs:30-56).
ReportExact ==
    \A p \in Procs : At(p, "checking") /\ proc[p].quiet /\ proc[p].work = <<>> =>
        LET listed == InventoryObjects(Config(p), Catalog)
        IN  /\ proc[p].missing = listed \ files
            /\ proc[p].corrupt = listed \cap corrupt

EvidenceValue(s) == IF evidence[s].wal # NoFile THEN evidence[s].wal ELSE evidence[s].db

\* fsck.rs:42-43, "The former DB/WAL/SHM are retained as timestamped recovery
\* evidence": every catalog a rebuild took away can be read again.
EvidenceRetained ==
    NoRebuild => \A v \in replaced : \E s \in Seconds : EvidenceValue(s) = v

\* The same, unless a rebuild was interrupted between its renames or two
\* rebuilds shared a second.
EvidenceKept == slipped \/ EvidenceRetained
=============================================================================
