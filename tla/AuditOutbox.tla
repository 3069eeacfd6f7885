---------------------------- MODULE AuditOutbox ----------------------------
(***************************************************************************)
(* The publication audit stream of one tenant: the catalog's outbox        *)
(* (store/audit/outbox.rs) and the directory of immutable segments it is   *)
(* exported to (store/audit/segments.rs).                                  *)
(*                                                                         *)
(* A store operation appends its events in the catalog transaction that    *)
(* makes its change, after a preflight that refuses the whole operation    *)
(* when the outbox is full.  Several LocalStore handles, one per process,  *)
(* export batches: the batch is read in one lock scope, written as a       *)
(* segment with no lock held, and acknowledged in a later transaction.     *)
(* Within one handle `audit_export_serial` keeps exports apart; between    *)
(* handles nothing does.                                                   *)
(*                                                                         *)
(* A segment is named after its first and last sequence and its digest;    *)
(* outbox rows never change their event, so the pair of sequences stands   *)
(* for the file.  The partial file a segment is linked from has a random   *)
(* name nothing reads, and is left out.                                    *)
(***************************************************************************)
EXTENDS Naturals, Sequences, FiniteSets, FiniteSetsExt, SequencesExt

CONSTANTS
    Stores,        \* LocalStore handles (processes) sharing the catalog
    MaxPending,    \* MAX_PENDING_AUDIT_RECORDS
    MaxRetained,   \* MAX_RETAINED_DELIVERED_AUDIT_RECORDS
    MaxBatch,      \* MAX_AUDIT_BATCH_RECORDS
    MaxSegments,   \* AuditDirectoryPolicy::maximum_segments
    MaxFaults      \* bound of the model: export failures and crashes

ASSUME AuditAssumption ==
    /\ MaxPending \in Nat \ {0} /\ MaxRetained \in Nat \ {0}
    /\ MaxBatch \in Nat \ {0} /\ MaxSegments \in Nat \ {0}
    /\ MaxFaults \in Nat

VARIABLES
    outbox,    \* audit_outbox: sequence |-> whether the row is delivered
    events,    \* the event of each sequence; its length is next_sequence - 1
    pruned,    \* audit_state.retention_pruned_records
    segments,  \* segment files in the export directory, <<first, last>>
    exporting, \* handle |-> the step its export_audit_batch has reached
    batch,     \* handle |-> the batch that step works on, <<first, last>>
    everOut,   \* history: sequences that were in a published segment
    lapsed,    \* history: segments with pending rows that were removed for their
               \* age and not published again
    faults     \* faults injected so far

auditVars == <<outbox, events, pruned, segments, exporting, batch, everOut, lapsed, faults>>

NoBatch == <<1, 0>>
Span(b) == b[1]..b[2]

AuditInit ==
    /\ outbox = <<>>
    /\ events = <<>>
    /\ pruned = 0
    /\ segments = {}
    /\ exporting = [p \in Stores |-> "idle"]
    /\ batch = [p \in Stores |-> NoBatch]
    /\ everOut = {}
    /\ lapsed = {}
    /\ faults = 0

----------------------------------------------------------------------------
(* Appending.                                                              *)

Pending == {s \in DOMAIN outbox : ~outbox[s]}
Delivered == {s \in DOMAIN outbox : outbox[s]}
next_sequence == Len(events) + 1

\* The unique index on the event identity: delivered rows count as long as
\* they are retained.
Recorded(e) == \E s \in DOMAIN outbox : events[s] = e

\* unique_events: an event given twice counts once.
FirstOf(evs, i) == \A j \in 1..(i - 1) : evs[j] # evs[i]

\* The rows the operation will really add, in the order given.
NewEvents(evs) ==
    LET new == {i \in DOMAIN evs : FirstOf(evs, i) /\ ~Recorded(evs[i])}
    IN  [k \in 1..Cardinality(new) |->
            evs[CHOOSE i \in new : Cardinality({j \in new : j <= i}) = k]]

\* A plausible bug: the rows about to be added are not counted.
PreflightReadyIgnoringNew(evs) == Cardinality(Pending) <= MaxPending

\* preflight_events: TRUE is AuditCapacity::Ready.
PreflightReady(evs) == Cardinality(Pending) + Len(NewEvents(evs)) <= MaxPending

\* append_events: INSERT OR IGNORE, one sequence per row really inserted.
AppendEvents(evs) ==
    LET new == NewEvents(evs)
    IN  /\ events' = events \o new
        /\ outbox' = [s \in DOMAIN outbox \cup (next_sequence..Len(events \o new)) |->
                        s \in Delivered]
        /\ UNCHANGED <<pruned, segments, exporting, batch, everOut, lapsed, faults>>

----------------------------------------------------------------------------
(* Exporting.                                                              *)

\* load_batch: the oldest pending rows, at most n, in sequence order; a gap
\* between two of them is an error.
OldestPending(n) ==
    LET rank(s) == Cardinality({t \in Pending : t <= s})
    IN  {s \in Pending : rank(s) <= n}

HasGap(rows) == \E s \in rows : s # Min(rows) /\ s - 1 \notin rows

LoadBatch(p, n) ==
    LET rows == OldestPending(n)
    IN  /\ exporting[p] = "idle"
        /\ rows # {}
        /\ ~HasGap(rows)
        /\ batch' = [batch EXCEPT ![p] = <<Min(rows), Max(rows)>>]
        /\ exporting' = [exporting EXCEPT ![p] = "loaded"]
        /\ UNCHANGED <<outbox, events, pruned, segments, everOut, lapsed, faults>>

\* publish_segment: written and synced under a partial name, then linked; a
\* segment of that name already there has the same bytes and is kept, with its
\* modification time.
PublishSegment(p) ==
    /\ exporting[p] = "loaded"
    /\ segments' = segments \cup {batch[p]}
    /\ everOut' = everOut \cup Span(batch[p])
    /\ lapsed' = lapsed \ {batch[p]}
    /\ exporting' = [exporting EXCEPT ![p] = "published"]
    /\ UNCHANGED <<outbox, events, pruned, batch, faults>>

\* The order of the file names: fixed-width first, then last sequence.
NameBefore(a, b) == a[1] < b[1] \/ (a[1] = b[1] /\ a[2] < b[2])

\* A plausible bug: the rotation keeps the oldest segments.
RotatedNewestFirst(files, current) ==
    LET excess == Cardinality(files) - MaxSegments
        rank(f) == Cardinality({g \in files : g = f \/ NameBefore(f, g)})
    IN  {f \in files : rank(f) <= excess}

\* The rotation of prune_segments: the oldest names but the current one go
\* until at most maximum_segments remain.
Rotated(files, current) ==
    LET others == files \ {current}
        excess == Cardinality(files) - MaxSegments
        rank(f) == Cardinality({g \in others : g = f \/ NameBefore(g, f)})
    IN  {f \in others : rank(f) <= excess}

WithPending(files, rows) == {f \in files : Span(f) \cap rows # {}}

\* prune_segments: segments older than the retention, then the rotation.  A
\* retry may come, and a handle may pause, for longer than any retention, so
\* every segment but the current one may be that old, whether its rows are
\* acknowledged or not.
PruneSegments(p) ==
    /\ exporting[p] = "published"
    /\ \E expired \in SUBSET (segments \ {batch[p]}) :
         LET kept == segments \ expired
         IN  /\ segments' = kept \ Rotated(kept, batch[p])
             /\ lapsed' = lapsed \cup WithPending(expired, Pending)
    /\ exporting' = [exporting EXCEPT ![p] = "exported"]
    /\ UNCHANGED <<outbox, events, pruned, batch, everOut, faults>>

\* export returned an error (before or after the link): record_delivery_failure.
ExportFails(p) ==
    /\ exporting[p] \in {"loaded", "published"}
    /\ faults < MaxFaults
    /\ faults' = faults + 1
    /\ exporting' = [exporting EXCEPT ![p] = "idle"]
    /\ batch' = [batch EXCEPT ![p] = NoBatch]
    /\ UNCHANGED <<outbox, events, pruned, segments, everOut, lapsed>>

\* prune_delivered on the rows of the acknowledging transaction: rows
\* delivered before the age cutoff (`expired`), then all but the newest
\* MAX_RETAINED delivered ones.
PrunedRows(rows, expired) ==
    LET left == {s \in DOMAIN rows : rows[s]} \ expired
        newer(s) == Cardinality({t \in left : t > s})
    IN  expired \cup {s \in left : newer(s) >= MaxRetained}

\* A plausible bug: a batch is acknowledged before it is on disk.
AcknowledgeUnexported(p) ==
    /\ exporting[p] \in {"loaded", "exported"}
    /\ Span(batch[p]) \subseteq Pending
    /\ outbox' = [s \in DOMAIN outbox |-> outbox[s] \/ s \in Span(batch[p])]
    /\ exporting' = [exporting EXCEPT ![p] = "idle"]
    /\ batch' = [batch EXCEPT ![p] = NoBatch]
    /\ UNCHANGED <<events, pruned, segments, everOut, lapsed, faults>>

\* The acknowledgement: every row of the batch must still be pending.
Acknowledge(p) ==
    /\ exporting[p] = "exported"
    /\ Span(batch[p]) \subseteq Pending
    /\ LET acked == [s \in DOMAIN outbox |-> outbox[s] \/ s \in Span(batch[p])]
       IN  \E expired \in {{}, Delivered} :
             LET gone == PrunedRows(acked, expired)
             IN  /\ outbox' = [s \in DOMAIN outbox \ gone |-> acked[s]]
                 /\ pruned' = pruned + Cardinality(gone)
    /\ exporting' = [exporting EXCEPT ![p] = "idle"]
    /\ batch' = [batch EXCEPT ![p] = NoBatch]
    /\ lapsed' = WithPending(lapsed, Pending \ Span(batch[p]))
    /\ UNCHANGED <<events, segments, everOut, faults>>

\* "audit batch acknowledgement changed": another handle acknowledged first,
\* and the transaction rolls back.
AcknowledgeRefused(p) ==
    /\ exporting[p] = "exported"
    /\ ~(Span(batch[p]) \subseteq Pending)
    /\ exporting' = [exporting EXCEPT ![p] = "idle"]
    /\ batch' = [batch EXCEPT ![p] = NoBatch]
    /\ UNCHANGED <<outbox, events, pruned, segments, everOut, lapsed, faults>>

ExportStep(p) ==
    \/ \E n \in 1..MaxBatch : LoadBatch(p, n)
    \/ PublishSegment(p)
    \/ PruneSegments(p)
    \/ Acknowledge(p)
    \/ AcknowledgeRefused(p)

----------------------------------------------------------------------------
(* Properties.                                                             *)

\* Nothing is lost: a sequence handed out is still pending, or it has been in
\* a published segment.  A crash between the export and its acknowledgement,
\* two handles exporting at once, and both retention rules keep it so
\* (export_audit_batch, prune_delivered).
NothingUnexportedLost == \A s \in DOMAIN events : s \in Pending \/ s \in everOut

\* The outbox never holds more pending rows than its limit: preflight counts
\* the rows the operation will really add.
PendingBounded == Cardinality(Pending) <= MaxPending

\* A row is marked delivered only when a segment with its record is in the
\* directory, or was there and reached the retention age: rotation, by this or
\* by another handle, never takes a segment whose rows are still to be
\* acknowledged (export_audit_batch, prune_segments).
AckedOnDiskOrAged ==
    [][\A s \in Pending :
         s \notin Pending' => \E f \in segments \cup lapsed : s \in Span(f)]_auditVars
=============================================================================
