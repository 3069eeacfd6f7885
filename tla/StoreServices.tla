--------------------------- MODULE StoreServices ---------------------------
(***************************************************************************)
(* The parts of LocalStore that share the audit outbox and are not about   *)
(* one object's life: opening a store with its window of key epochs        *)
(* (store/mod.rs, schema.rs, store_key.rs), publishing under the active    *)
(* epoch, retiring epochs (keys.rs), and the quarantine directory with its *)
(* reconciliation at open and its pruning (read/reconcile.rs,              *)
(* publication/immutable.rs, gc/quarantine.rs).                            *)
(*                                                                         *)
(* A handle is one LocalStore of one process.  Its window is fixed when it *)
(* opens and is never read again from the catalog, so a handle opened with *)
(* an older window keeps writing under its epoch after others moved on.    *)
(* register_tenant reads the tenant row and writes it in two statements    *)
(* with no transaction around them: two steps here.                        *)
(***************************************************************************)
EXTENDS AuditOutbox

CONSTANTS
    Cuts,       \* cut contents: one manifest and one chunk each, per epoch
    Uploads,    \* publications, each with its own idempotency key
    MaxEpoch,   \* bound of the model: key epochs 1..MaxEpoch
    MaxRetire,  \* maximum_objects of a retirement call
    Files       \* files that may end up in quarantine

ASSUME ServicesAssumption ==
    /\ MaxEpoch \in Nat \ {0}
    /\ MaxRetire \in 1..MaxPending  \* MAX_RETIREMENT_BATCH is below it

Epochs == 1..MaxEpoch

\* KeyEpochWindow::validate (the 64-epoch limit is beyond the model's bound).
Windows == {w \in [min : Epochs, active : Epochs] : w.min <= w.active}
Closed == [min |-> 0, active |-> 0]

VARIABLES
    phase,      \* handle |-> closed, checked, registered, open
    window,     \* handle |-> its KeyEpochWindow
    tenant,     \* the tenants row: minimum_readable_key_epoch and key_epoch
    manifests,  \* manifests rows, <<cut, epoch>>
    chunks,     \* chunks rows, <<cut, epoch>>
    tombstones, \* tombstones rows, <<kind, cut, epoch>>
    checkpoints,\* prefix_checkpoints rows, <<cut, epoch>>
    published,  \* uploads already published
    partials,   \* files in partials/
    qfiles,     \* files in quarantine/
    qrows,      \* quarantine_entries rows
    working,    \* handle |-> the file its quarantine step is in the middle of
    torn        \* a process died inside such a step, and no open finished since

epochVars == <<window, tenant, manifests, chunks, tombstones, checkpoints, published>>
quarantineVars == <<partials, qfiles, qrows, working, torn>>
serviceVars == <<phase, epochVars, quarantineVars>>
vars == <<auditVars, serviceVars>>

NoFile == "none"

Init ==
    /\ AuditInit
    /\ phase = [p \in Stores |-> "closed"]
    /\ window = [p \in Stores |-> Closed]
    /\ tenant = Closed
    /\ manifests = {} /\ chunks = {} /\ tombstones = {} /\ checkpoints = {}
    /\ published = {}
    /\ partials \in SUBSET Files
    /\ qfiles = {} /\ qrows = {}
    /\ working = [p \in Stores |-> NoFile]
    /\ torn = FALSE

\* Entry identities are random and file names fresh: each file of the model
\* goes through quarantine once.
Fresh(f) ==
    /\ f \notin partials \cup qfiles \cup qrows
    /\ \A q \in Stores : working[q] # f
    /\ \A i \in DOMAIN events : events[i] \notin {<<"quarantined", f>>, <<"collected", f>>}

----------------------------------------------------------------------------
(* Opening.                                                                *)

NotBackward(w) == w.active >= tenant.active /\ w.min >= tenant.min

\* open and the query of register_tenant.
CheckTenant(p, w) ==
    /\ phase[p] = "closed"
    /\ NotBackward(w)
    /\ phase' = [phase EXCEPT ![p] = "checked"]
    /\ window' = [window EXCEPT ![p] = w]
    /\ UNCHANGED <<auditVars, tenant, manifests, chunks, tombstones,
                   checkpoints, published, quarantineVars>>

\* The upsert of register_tenant.
UpsertTenant(p) ==
    /\ phase[p] = "checked"
    /\ tenant' = window[p]
    /\ phase' = [phase EXCEPT ![p] = "registered"]
    /\ UNCHANGED <<auditVars, window, manifests, chunks, tombstones,
                   checkpoints, published, quarantineVars>>

\* The first loop of reconcile_work_dirs: the row of a partial is inserted ...
ReconcileRow(p, f) ==
    /\ phase[p] = "registered"
    /\ working[p] = NoFile
    /\ f \in partials
    /\ qrows' = qrows \cup {f}
    /\ working' = [working EXCEPT ![p] = f]
    /\ UNCHANGED <<auditVars, phase, epochVars, partials, qfiles, torn>>

\* ... and the file is renamed; another open may have moved it, an error.
ReconcileMove(p) ==
    /\ phase[p] = "registered"
    /\ working[p] # NoFile
    /\ working' = [working EXCEPT ![p] = NoFile]
    /\ \/ /\ working[p] \in partials
          /\ partials' = partials \ {working[p]}
          /\ qfiles' = qfiles \cup {working[p]}
          /\ UNCHANGED <<phase, window>>
       \/ /\ working[p] \notin partials
          /\ phase' = [phase EXCEPT ![p] = "closed"]
          /\ window' = [window EXCEPT ![p] = Closed]
          /\ UNCHANGED <<partials, qfiles>>
    /\ UNCHANGED <<auditVars, tenant, manifests, chunks, tombstones,
                   checkpoints, published, qrows, torn>>

\* The second loop: files without a row get one; then the store is open.
ReconcileUncataloged(p) ==
    /\ phase[p] = "registered"
    /\ working[p] = NoFile
    /\ partials = {}
    /\ qrows' = qrows \cup qfiles
    /\ torn' = FALSE
    /\ phase' = [phase EXCEPT ![p] = "open"]
    /\ UNCHANGED <<auditVars, epochVars, partials, qfiles, working>>

\* The handle is dropped; its exports and quarantine steps have returned.
Close(p) ==
    /\ phase[p] = "open"
    /\ exporting[p] = "idle" /\ working[p] = NoFile
    /\ phase' = [phase EXCEPT ![p] = "closed"]
    /\ window' = [window EXCEPT ![p] = Closed]
    /\ UNCHANGED <<auditVars, tenant, manifests, chunks, tombstones,
                   checkpoints, published, quarantineVars>>

\* The process dies, wherever it is: it may leave a partial file, or a file
\* quarantine_object had renamed when the transaction was not yet committed.
Crash(p) ==
    /\ phase[p] # "closed"
    /\ faults < MaxFaults
    /\ faults' = faults + 1
    /\ exporting' = [exporting EXCEPT ![p] = "idle"]
    /\ batch' = [batch EXCEPT ![p] = NoBatch]
    /\ phase' = [phase EXCEPT ![p] = "closed"]
    /\ window' = [window EXCEPT ![p] = Closed]
    /\ working' = [working EXCEPT ![p] = NoFile]
    /\ \/ /\ torn' = (torn \/ working[p] # NoFile)
          /\ UNCHANGED <<partials, qfiles>>
       \/ \E f \in Files :
            /\ phase[p] = "open" /\ working[p] = NoFile /\ Fresh(f)
            /\ \/ partials' = partials \cup {f} /\ UNCHANGED <<qfiles, torn>>
               \/ qfiles' = qfiles \cup {f} /\ torn' = TRUE /\ UNCHANGED partials
    /\ UNCHANGED <<outbox, events, pruned, segments, everOut, lapsed, tenant, manifests,
                   chunks, tombstones, checkpoints, published, qrows>>

----------------------------------------------------------------------------
(* Publishing under the active epoch.                                      *)

\* A chunk put: the row is inserted unless one is there, tombstoned or not.
PutChunk(p, c) ==
    /\ phase[p] = "open"
    /\ <<c, window[p].active>> \notin chunks
    /\ chunks' = chunks \cup {<<c, window[p].active>>}
    /\ UNCHANGED <<auditVars, phase, window, tenant, manifests, tombstones,
                   checkpoints, published, quarantineVars>>

PublishEvents(u) == <<<<"verified", u>>, <<"published", u>>>>

\* publish_manifest_batch_inner: the chunk must have a row; a tombstone on it
\* is not looked at.  An existing manifest row is kept as it is.
Publish(p, u, c) ==
    LET m == <<c, window[p].active>>
    IN  /\ phase[p] = "open"
        /\ u \notin published
        /\ m \in chunks
        /\ PreflightReady(PublishEvents(u))
        /\ published' = published \cup {u}
        /\ manifests' = manifests \cup {m}
        /\ checkpoints' = checkpoints \cup {m}
        /\ AppendEvents(PublishEvents(u))
        /\ UNCHANGED <<phase, window, tenant, chunks, tombstones, quarantineVars>>

----------------------------------------------------------------------------
(* Retiring epochs.                                                        *)

Tombstoned(kind, m) == <<kind, m[1], m[2]>> \in tombstones

\* Rows retire_key_epochs_before still has to tombstone for minimum k.  The
\* chunks of a manifest have the manifest's epoch: every writer puts them
\* under the epoch it publishes with.
RetirableManifests(k) == {m \in manifests : m[2] < k /\ ~Tombstoned("manifest", m)}
RetirableChunks(k) == {m \in chunks : m[2] < k /\ ~Tombstoned("chunk", m)}

\* ORDER BY key_epoch LIMIT n.
TakesOldest(sel, rows, n) ==
    /\ sel \subseteq rows
    /\ Cardinality(sel) = Min({n, Cardinality(rows)})
    /\ \A a \in sel, b \in rows \ sel : a[2] <= b[2]

TombstoneEvents(ms, cs) ==
    SetToSeq({<<"tombstoned", "manifest", m>> : m \in ms}
               \cup {<<"tombstoned", "chunk", c>> : c \in cs})

\* A plausible bug: chunk tombstones are written without audit events.
RetireUnaudited(p, n) ==
    LET k == window[p].min
    IN  /\ phase[p] = "open"
        /\ \E ms \in SUBSET RetirableManifests(k), cs \in SUBSET RetirableChunks(k) :
             /\ ms \cup cs # {}
             /\ TakesOldest(ms, RetirableManifests(k), n)
             /\ TakesOldest(cs, RetirableChunks(k), n - Cardinality(ms))
             /\ tombstones' = tombstones
                   \cup {<<"manifest", m[1], m[2]>> : m \in ms}
                   \cup {<<"chunk", c[1], c[2]>> : c \in cs}
             /\ checkpoints' = checkpoints \ ms
             /\ AppendEvents(TombstoneEvents(ms, {}))
        /\ UNCHANGED <<phase, window, tenant, manifests, chunks, published, quarantineVars>>

\* A plausible bug: the budget left by the manifests is not spent on chunks.
RetireManifestsOnly(p, n) ==
    LET k == window[p].min
    IN  /\ phase[p] = "open"
        /\ \E ms \in SUBSET RetirableManifests(k), cs \in SUBSET RetirableChunks(k) :
             /\ ms \cup cs # {}
             /\ TakesOldest(ms, RetirableManifests(k), n)
             /\ cs = {}
             /\ tombstones' = tombstones
                   \cup {<<"manifest", m[1], m[2]>> : m \in ms}
                   \cup {<<"chunk", c[1], c[2]>> : c \in cs}
             /\ checkpoints' = checkpoints \ ms
             /\ AppendEvents(TombstoneEvents(ms, cs))
        /\ UNCHANGED <<phase, window, tenant, manifests, chunks, published, quarantineVars>>

Retire(p, n) ==
    LET k == window[p].min
    IN  /\ phase[p] = "open"
        /\ \E ms \in SUBSET RetirableManifests(k), cs \in SUBSET RetirableChunks(k) :
             /\ ms \cup cs # {}
             /\ TakesOldest(ms, RetirableManifests(k), n)
             /\ TakesOldest(cs, RetirableChunks(k), n - Cardinality(ms))
             /\ PreflightReady(TombstoneEvents(ms, cs))
             /\ tombstones' = tombstones
                   \cup {<<"manifest", m[1], m[2]>> : m \in ms}
                   \cup {<<"chunk", c[1], c[2]>> : c \in cs}
             /\ checkpoints' = checkpoints \ ms
             /\ AppendEvents(TombstoneEvents(ms, cs))
        /\ UNCHANGED <<phase, window, tenant, manifests, chunks, published, quarantineVars>>

----------------------------------------------------------------------------
(* Quarantine.                                                             *)

QuarantineEvent(f) == <<<<"quarantined", f>>>>
CollectEvent(f) == <<<<"collected", f>>>>

\* quarantine_object: the rename, the row and the event in one transaction.
QuarantineObject(p, f) ==
    /\ phase[p] = "open"
    /\ working[p] = NoFile
    /\ Fresh(f)
    /\ PreflightReady(QuarantineEvent(f))
    /\ qfiles' = qfiles \cup {f}
    /\ qrows' = qrows \cup {f}
    /\ AppendEvents(QuarantineEvent(f))
    /\ UNCHANGED <<phase, epochVars, partials, working, torn>>

\* prune_quarantine_bounded, for an expired entry or one above the cap: the
\* file goes first ...
PruneUnlink(p, f) ==
    /\ phase[p] = "open"
    /\ working[p] = NoFile
    /\ f \in qrows
    /\ qfiles' = qfiles \ {f}
    /\ working' = [working EXCEPT ![p] = f]
    /\ UNCHANGED <<auditVars, phase, epochVars, partials, qrows, torn>>

\* ... then its row and the event; a full outbox leaves the row behind, and a
\* row another handle deleted ends the pass.
PruneRow(p) ==
    LET f == working[p]
    IN  /\ phase[p] = "open"
        /\ f # NoFile /\ f \notin qfiles
        /\ working' = [working EXCEPT ![p] = NoFile]
        /\ \/ /\ PreflightReady(CollectEvent(f))
              /\ f \in qrows
              /\ qrows' = qrows \ {f}
              /\ AppendEvents(CollectEvent(f))
           \/ /\ ~PreflightReady(CollectEvent(f)) \/ f \notin qrows
              /\ UNCHANGED <<auditVars, qrows>>
        /\ UNCHANGED <<phase, epochVars, partials, qfiles, torn>>

----------------------------------------------------------------------------
Next ==
    \E p \in Stores :
      \/ \E w \in Windows : CheckTenant(p, w)
      \/ UpsertTenant(p)
      \/ \E f \in Files : ReconcileRow(p, f) \/ PruneUnlink(p, f) \/ QuarantineObject(p, f)
      \/ ReconcileMove(p)
      \/ ReconcileUncataloged(p)
      \/ Close(p)
      \/ Crash(p)
      \/ \E c \in Cuts : PutChunk(p, c) \/ \E u \in Uploads : Publish(p, u, c)
      \/ Retire(p, MaxRetire)
      \/ PruneRow(p)
      \/ /\ phase[p] = "open"
         /\ ExportStep(p) \/ ExportFails(p)
         /\ UNCHANGED serviceVars

Spec == Init /\ [][Next]_vars

Exporting(p) == phase[p] = "open" /\ ExportStep(p) /\ UNCHANGED serviceVars

\* An open handle keeps exporting and retiring, as the two reports ask their
\* callers to (`exported_records`, `complete`); the faults are finitely many.
FairSpec ==
    /\ Spec
    /\ \A p \in Stores : WF_vars(Exporting(p)) /\ WF_vars(Retire(p, MaxRetire))

----------------------------------------------------------------------------
(* Properties.                                                             *)

TypeOK ==
    /\ phase \in [Stores -> {"closed", "checked", "registered", "open"}]
    /\ window \in [Stores -> Windows \cup {Closed}]
    /\ tenant \in Windows \cup {Closed}
    /\ manifests \cup chunks \cup checkpoints \subseteq Cuts \X Epochs
    /\ tombstones \subseteq {"manifest", "chunk"} \X Cuts \X Epochs
    /\ partials \cup qfiles \cup qrows \subseteq Files
    /\ working \in [Stores -> Files \cup {NoFile}]
    /\ exporting \in [Stores -> {"idle", "loaded", "published", "exported"}]
    /\ \A p \in Stores : phase[p] = "closed" <=> window[p] = Closed

\* Every retirement is in the audit trail: the event of a tombstone has been
\* appended with it, and is pending or was exported (keys.rs appends in the
\* transaction that inserts the tombstone; INSERT OR IGNORE must not swallow
\* the event of a different object).
TombstonesAudited ==
    \A t \in tombstones : \E s \in DOMAIN events :
        /\ events[s] = <<"tombstoned", t[1], <<t[2], t[3]>>>>
        /\ s \in Pending \/ s \in everOut

\* Retirement comes to an end: when a handle with minimum k stays open and no
\* handle that writes below k is open, repeated calls leave nothing below k
\* unretired, although the outbox makes them wait for the exporter.
RetirementFinishes ==
    \A p \in Stores, k \in 2..MaxEpoch :
        <>[](/\ phase[p] = "open" /\ window[p].min = k
             /\ \A q \in Stores : phase[q] = "open" => window[q].active >= k)
        => <>[](/\ \A m \in manifests : m[2] < k => Tombstoned("manifest", m)
                /\ \A c \in chunks : c[2] < k => Tombstoned("chunk", c))

\* schema.rs: "key epochs cannot move backward in an existing catalog".
EpochsForward == [][tenant'.min >= tenant.min /\ tenant'.active >= tenant.active]_vars
=============================================================================
