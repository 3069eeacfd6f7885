-------------------------- MODULE RestorePlanning --------------------------
(***************************************************************************)
(* How a restore is planned (kvpack, restore.rs and restore/helpers.rs):   *)
(* the authentication of a manifest's parent chain, the disposition of its *)
(* chunks, the resources it will hold, the scatter plan, and the ordered   *)
(* list of candidates.                                                     *)
(*                                                                         *)
(* A store is a record with                                                *)
(*   manifests   a function from identities to manifests (CutManifest)     *)
(*   rows        a function from chunks to [state, epoch, digest, file]:   *)
(*               the catalog row and whether the object file is there      *)
(*   epoch, minimum   the window of readable key epochs                    *)
(***************************************************************************)
EXTENDS CutManifest, FiniteSetsExt

CONSTANT MaxScatterFds          \* MAX_SCATTER_FDS_PER_BATCH

(* load_authenticated_manifest: "ok", "missing" (also outside the readable *)
(* epochs) or "invalid".                                                   *)
LoadManifest(store, id, minimum) ==
    IF id \notin DOMAIN store.manifests THEN "missing"
    ELSE LET m == store.manifests[id]
         IN  IF m.epoch \notin minimum..store.epoch THEN "missing"
             ELSE IF ~ValidateManifest(m) THEN "invalid"
             ELSE "ok"

(* A plausible bug: the parent's cut is not compared with the cut the      *)
(* child was derived from.                                                 *)
ParentCompatibleAnyCut(parent, child, leaf) ==
    /\ parent.lineage = leaf.lineage
    /\ parent.family = leaf.family
    /\ parent.epoch = leaf.epoch
    /\ (IF parent.kind = "full" THEN 0 ELSE parent.depth) + 1 = child.depth

(* What a parent must agree on with the leaf, and with the child that      *)
(* names it.                                                               *)
ParentCompatible(parent, child, leaf) ==
    /\ parent.cut = child.parentCut
    /\ parent.lineage = leaf.lineage
    /\ parent.family = leaf.family
    /\ parent.epoch = leaf.epoch
    /\ (IF parent.kind = "full" THEN 0 ELSE parent.depth) + 1 = child.depth

Depth(m) == IF m.kind = "full" THEN 0 ELSE m.depth

(* One turn of the loop of authenticate_chain_cached: the walk is the      *)
(* chain from the leaf up and "walking", or its verdict.                   *)
ChainTurn(store, minimum, walk) ==
    LET m    == store.manifests[Last(walk.chain)]
        load == LoadManifest(store, m.parent, minimum)
        stop(status) == [walk EXCEPT !.status = status]
    IN  IF walk.status # "walking" THEN walk
        ELSE IF m.kind = "full" THEN stop("ok")
        ELSE IF \/ m.depth \notin 1..MaxDeltaDepth
                \/ m.parent \in Range(walk.chain) THEN stop("invalid")
        ELSE IF load # "ok" THEN stop(load)
        ELSE IF ~ParentCompatible(store.manifests[m.parent], m,
                                  store.manifests[Head(walk.chain)])
             THEN stop("invalid")
        ELSE [walk EXCEPT !.chain = Append(@, m.parent)]

(* authenticate_chain: the chain from its full root to the leaf.           *)
AuthenticateChain(store, leaf, minimum) ==
    LET loaded == LoadManifest(store, leaf, minimum)
        walk[n \in 0..(MaxDeltaDepth + 2)] ==
            IF n = 0 THEN [status |-> "walking", chain |-> <<leaf>>]
            ELSE LET before == walk[n - 1] IN ChainTurn(store, minimum, before)
        walked == walk[MaxDeltaDepth + 2]
    IN  IF loaded # "ok" THEN [status |-> loaded, chain |-> <<>>]
        ELSE IF walked.status # "ok" THEN [status |-> walked.status, chain |-> <<>>]
        ELSE IF Len(walked.chain) # Depth(store.manifests[leaf]) + 1
             THEN [status |-> "invalid", chain |-> <<>>]
        ELSE [status |-> "ok", chain |-> Reverse(walked.chain)]

(* The spans of a chain, root first, state by state.                       *)
ChainSpans(store, chain) ==
    LET ofState(m, i) == [j \in DOMAIN m.states[i].spans |->
                             [manifest |-> m, state |-> i, span |-> m.states[i].spans[j]]]
        ofManifest(m) == FlattenSeq([i \in DOMAIN m.states |-> ofState(m, i)])
    IN  FlattenSeq([n \in DOMAIN chain |-> ofManifest(store.manifests[chain[n]])])

ChainChunks(store, chain) ==
    {ChainSpans(store, chain)[i].span.chunk : i \in DOMAIN ChainSpans(store, chain)}

(* prefetch_local_availability: what one row and its file say of a chunk.  *)
Availability(store, chunk) ==
    LET row == store.rows[chunk]
    IN  IF row.state \notin {"AVAILABLE", "TOMBSTONED"} THEN "missing"
        ELSE IF row.epoch \notin store.minimum..store.epoch \/ row.digest # chunk
             THEN "disagrees"
        ELSE IF row.state = "TOMBSTONED" THEN "tombstoned"
        ELSE IF row.file THEN "available" ELSE "missing"

(* chain_chunk_disposition: complete when every row is there, with the     *)
(* chunks whose bytes demotion dropped.                                    *)
Disposition(store, chain) ==
    LET chunks == ChainChunks(store, chain)
    IN  [valid      |-> \A c \in chunks : Availability(store, c) # "disagrees",
         complete   |-> \A c \in chunks : Availability(store, c) # "missing",
         tombstoned |-> {c \in chunks : Availability(store, c) = "tombstoned"}]

Total(counts) == FoldLeft(+, 0, counts)

(* chain_resources: one source pin per operation, the scratch of the       *)
(* largest chunk, the shadow of the leaf's states.                         *)
ChainResources(store, chain) ==
    LET spans == ChainSpans(store, chain)
        leaf  == store.manifests[Last(chain)]
        wide(i) == IF leaf.family[i].rule = "tail" THEN leaf.states[i].count
                                                   ELSE leaf.cut.count
    IN  [shadow  |-> Total([i \in DOMAIN leaf.states |-> wide(i)]),
         pinned  |-> Total([i \in DOMAIN spans |-> spans[i].span.count]),
         scratch |-> Max({0} \cup {spans[i].span.count : i \in DOMAIN spans}),
         pins    |-> Len(spans)]

(* resource_charge: the scratch of every parallel task.                    *)
ResourceCharge(resources, parallelism) ==
    [resources EXCEPT !.scratch = @ * parallelism]

ChargeAdd(a, b) ==
    [shadow  |-> a.shadow + b.shadow,   pinned |-> a.pinned + b.pinned,
     scratch |-> a.scratch + b.scratch, pins   |-> a.pins + b.pins]

NoCharge == [shadow |-> 0, pinned |-> 0, scratch |-> 0, pins |-> 0]

ChargeWithinLimits(charge, limits) ==
    /\ charge.shadow  <= limits.shadow
    /\ charge.pinned  <= limits.pinned
    /\ charge.scratch <= limits.scratch
    /\ charge.pins    <= limits.pins

(* build_scatter_plan: the composition of the chain's spans, each where    *)
(* the last one of its state ended and the last where the leaf's range     *)
(* ends; a tail window is placed relative to its own start.                *)
ScatterPlan(store, chain) ==
    LET root    == store.manifests[Head(chain)]
        leaf    == store.manifests[Last(chain)]
        entries == ChainSpans(store, chain)
        ofState(i) == LET mine == SelectSeq(entries, LAMBDA e : e.state = i)
                      IN  [n \in DOMAIN mine |-> mine[n].span]
        place(e) == IF e.manifest.family[e.state].rule = "tail"
                      THEN e.span.start - e.manifest.states[e.state].start
                      ELSE e.span.start
    IN  [ok  |-> \A i \in DOMAIN leaf.states :
                   /\ Contiguous(ofState(i), root.states[i].start)
                   /\ End(ofState(i)) = leaf.states[i].start + leaf.states[i].count,
         ops |-> [n \in DOMAIN entries |->
                    [state |-> entries[n].state, target |-> place(entries[n]),
                     count |-> entries[n].span.count, chunk |-> entries[n].span.chunk]]]

(* tier_order.                                                             *)
TierOrder(tier) ==
    CASE tier = "resident" -> 0 [] tier = "local" -> 1
      [] tier = "gateway" -> 2 [] tier = "recompute" -> 3

(* The cut of the request's prefix of a length; request.roots holds the    *)
(* prefix node of every length.                                            *)
ExpectedCut(request, count) == [root |-> request.roots[count], count |-> count]

MatchesRequest(request, cut) ==
    cut.count \in DOMAIN request.roots /\ cut = ExpectedCut(request, cut.count)

(* resolve_prefix_candidates: the checkpoints on the request's path whose  *)
(* manifests are readable, longest first, at most one less than the        *)
(* request asks for.                                                       *)
ResolvePrefix(store, request) ==
    LET minimum == Max({request.minimum, store.minimum})
        hits == {id \in DOMAIN store.manifests :
                    /\ MatchesRequest(request, store.manifests[id].cut)
                    /\ store.manifests[id].lineage = request.lineage
                    /\ store.manifests[id].family = request.family
                    /\ store.manifests[id].epoch \in minimum..store.epoch}
        longer(a, b) == \/ store.manifests[a].cut.count > store.manifests[b].cut.count
                        \/ /\ store.manifests[a].cut.count = store.manifests[b].cut.count
                           /\ a < b
        sorted == SetToSortSeq(hits, longer)
    IN  SubSeq(sorted, 1, Min({Len(sorted), request.maximum - 1}))

(* A local hit as a candidate.                                             *)
LocalCandidate(store, id, chain) ==
    [tier       |-> "local",
     count      |-> store.manifests[id].cut.count,
     source     |-> id,
     chain      |-> chain,
     resources  |-> ChainResources(store, chain),
     tombstoned |-> Cardinality(Disposition(store, chain).tombstoned)]

(* A hit with its chain and what the rows of its chunks say.               *)
LookedUp(store, id, chain) ==
    [id |-> id, chain |-> chain.chain,
     found |-> IF chain.status = "ok" THEN Disposition(store, chain.chain)
               ELSE [valid |-> chain.status = "missing", complete |-> FALSE,
                     tombstoned |-> {}]]

UsableCandidates(store, looked) ==
    LET usable == SelectSeq(looked, LAMBDA l : l.found.complete)
    IN  [failed |-> \E i \in DOMAIN looked : ~looked[i].found.valid,
         list   |-> [n \in DOMAIN usable |->
                       LocalCandidate(store, usable[n].id, usable[n].chain)]]

(* The loop over the hits: an unreadable chain or an incomplete one is     *)
(* skipped, a chain or a row that does not authenticate fails the lookup.  *)
LocalCandidates(store, request) ==
    LET minimum == Max({request.minimum, store.minimum})
        hits    == ResolvePrefix(store, request)
    IN  UsableCandidates(store,
            [i \in DOMAIN hits |->
                LookedUp(store, hits[i], AuthenticateChain(store, hits[i], minimum))])

(* The availability hints that survive: a Resident or Gateway source on    *)
(* the request's path, a Gateway one of a readable epoch whose shadow is   *)
(* what it restores.                                                       *)
HintAccepted(store, request, hint) ==
    /\ MatchesRequest(request, hint.cut)
    /\ hint.bytes > 0
    /\ hint.tier = "gateway" =>
         /\ hint.epoch \in Max({request.minimum, store.minimum})..store.epoch
         /\ hint.resources.shadow = hint.bytes

HintCandidates(store, request, hints) ==
    LET kept == SelectSeq(hints, LAMBDA h : HintAccepted(store, request, h))
    IN  [i \in DOMAIN kept |->
            [tier |-> kept[i].tier, count |-> kept[i].cut.count,
             source |-> kept[i].source, chain |-> <<kept[i].source>>,
             resources |-> kept[i].resources, tombstoned |-> 0]]

RecomputeCandidate ==
    [tier |-> "recompute", count |-> 0, source |-> 0, chain |-> <<>>,
     resources |-> NoCharge, tombstoned |-> 0]

(* A plausible bug: the tiers compared before the lengths.                 *)
CandidateBeforeTierFirst(a, b) ==
    \/ TierOrder(a.tier) < TierOrder(b.tier)
    \/ a.tier = b.tier /\ a.count > b.count
    \/ a.count = b.count /\ a.tier = b.tier /\ a.source < b.source

CandidateBefore(a, b) ==
    \/ a.count > b.count
    \/ a.count = b.count /\ TierOrder(a.tier) < TierOrder(b.tier)
    \/ a.count = b.count /\ a.tier = b.tier /\ a.source < b.source

(* sort_by, which is stable.                                               *)
SortedCandidates(all) ==
    LET order == SetToSortSeq(DOMAIN all, LAMBDA i, j :
                    \/ CandidateBefore(all[i], all[j])
                    \/ ~CandidateBefore(all[j], all[i]) /\ i < j)
    IN  [i \in DOMAIN order |-> all[order[i]]]

(* dedup_by: a candidate equal to the one before it goes.                  *)
WithoutRepetitions(sorted) ==
    LET same(a, b) == a.tier = b.tier /\ a.count = b.count /\ a.source = b.source
        fresh == SelectSeq([i \in DOMAIN sorted |-> i],
                           LAMBDA i : i = 1 \/ ~same(sorted[i - 1], sorted[i]))
    IN  [n \in DOMAIN fresh |-> sorted[fresh[n]]]

Truncated(s, bound) == SubSeq(s, 1, Min({Len(s), bound}))

MergedCandidates(local, hinted, maximum) ==
    IF local.failed THEN <<>>
    ELSE Append(Truncated(WithoutRepetitions(SortedCandidates(local.list \o hinted)),
                          maximum - 1),
                RecomputeCandidate)

(* restore_candidates_with_sources: sorted, without repetitions, cut to    *)
(* the bound, and recomputation last.                                      *)
RestoreCandidates(store, request, hints) ==
    MergedCandidates(LocalCandidates(store, request), HintCandidates(store, request, hints),
                     request.maximum)

Refused(why) == [status |-> why, ops |-> <<>>, recompute |-> {}, resources |-> NoCharge]

(* What both ways to a plan do with an authenticated chain; listed is what *)
(* the caller knows of it.                                                 *)
PlanChain(store, chain, listed, limits) ==
    LET disposition == Disposition(store, chain.chain)
        scatter == ScatterPlan(store, chain.chain)
    IN  IF chain.status # "ok" THEN Refused(chain.status)
        ELSE IF ~disposition.valid THEN Refused("invalid")
        ELSE IF ~disposition.complete THEN Refused("missing")
        ELSE IF \/ listed.chain # chain.chain
                \/ listed.resources # ChainResources(store, chain.chain)
                \/ listed.tombstoned # Cardinality(disposition.tombstoned)
             THEN Refused("changed")
        ELSE IF ~ChargeWithinLimits(ResourceCharge(listed.resources, 1), limits)
             THEN Refused("quota")
        ELSE IF ~scatter.ok THEN Refused("invalid")
        ELSE [status |-> "ok", ops |-> scatter.ops, resources |-> listed.resources,
              recompute |-> {i \in DOMAIN scatter.ops :
                               scatter.ops[i].chunk \in disposition.tombstoned}]

(* AuthenticatedRestorePlan::build: the candidate is authenticated again   *)
(* and must still be what was listed.                                      *)
BuildPlan(store, candidate, minimum, limits) ==
    IF candidate.tier # "local" THEN Refused("expectation")
    ELSE PlanChain(store, AuthenticateChain(store, candidate.source, minimum), candidate, limits)

(* build_exact_manifest: the same plan for a manifest named by its         *)
(* identity, with no candidate to agree with.                              *)
BuildExactManifest(store, id, minimum, limits) ==
    LET chain == AuthenticateChain(store, id, Max({minimum, store.minimum}))
    IN  PlanChain(store, chain, LocalCandidate(store, id, chain.chain), limits)

(* div_ceil of the operations by the descriptors of a batch.               *)
TotalBatches(plan) == (Len(plan.ops) + MaxScatterFds - 1) \div MaxScatterFds

(* The chunks(MAX_SCATTER_FDS_PER_BATCH) of the operations: descriptors    *)
(* numbered from zero within their batch and through the transfer.         *)
ScatterBatch(plan, number) ==
    LET base == number * MaxScatterFds
    IN  [fd \in 1 .. Min({MaxScatterFds, Len(plan.ops) - base}) |->
            [batch |-> number, fd |-> fd - 1, ordinal |-> base + fd - 1,
             op |-> plan.ops[base + fd]]]

(* prepare_scatter_transfer: nothing for a plan that needs recomputation   *)
(* or has no operation.                                                    *)
PrepareScatterTransfer(plan) ==
    IF plan.recompute # {} \/ plan.ops = <<>> THEN <<>>
    ELSE [n \in 1 .. TotalBatches(plan) |-> ScatterBatch(plan, n - 1)]

=============================================================================
