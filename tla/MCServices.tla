----------------------------- MODULE MCServices -----------------------------
(***************************************************************************)
(* The instance of StoreServices for TLC.  A behaviour either publishes    *)
(* and retires or fills and prunes the quarantine: the two only meet in    *)
(* the outbox, where each by itself already makes the other's appends      *)
(* wait, and together they multiply the orders of events.                  *)
(***************************************************************************)
EXTENDS StoreServices

Quarantining ==
    \/ partials \cup qfiles \cup qrows # {}
    \/ \E i \in DOMAIN events : events[i][1] \in {"quarantined", "collected"}

OneKind == chunks = {} \/ ~Quarantining

\* A handle that reads two epochs writes and retires like one of the two.
OneEpoch == \A p \in Stores : window[p].min = window[p].active

\* A prune finds that none of the other segments is past the retention, or all.
OneAge ==
    \A p \in Stores : exporting[p] = "published" /\ exporting'[p] = "exported" =>
        segments' \in {segments \ Rotated(segments, batch[p]), segments \cap {batch[p]}}

MCNext == Next /\ OneKind' /\ OneEpoch' /\ OneAge

MCSpec == Init /\ [][MCNext]_vars

MCFairSpec ==
    /\ MCSpec
    /\ \A p \in Stores : WF_vars(Exporting(p)) /\ WF_vars(Retire(p, MaxRetire))
=============================================================================
