---------------------------- MODULE MCAlgorithms ----------------------------
(***************************************************************************)
(* The pure algorithms over bounded inputs.  `input` is one input of one   *)
(* of them, chosen in the initial state: a BEGIN manifest of a handoff     *)
(* (LayoutTable), a store with a chain of manifests, or a lookup with its  *)
(* rows and hints (RestorePlanning), the sizing and the load of a store    *)
(* (CapacityPlanning); or a trace, which the steps of CacheReplay then     *)
(* consume event by event.                                                 *)
(***************************************************************************)
EXTENDS CacheReplay

VARIABLE input

L == INSTANCE LayoutTable WITH
        MaxFrameBytes <- 8, MaxTotalBytes <- 40, MaxLayers <- 3, MaxCachedTokens <- 2,
        MaxContextTokens <- 4, U64Max <- 1000

P == INSTANCE RestorePlanning WITH MaxDeltaDepth <- 2, MaxChunkTokens <- 2,
                                    MaxScatterFds <- 2

C == INSTANCE CapacityPlanning WITH
        U64Max <- 40, WindowBytes <- 4, MaxConcurrency <- 2, VictimBatch <- 2,
        Significand <- 32

-----------------------------------------------------------------------------
(* BEGIN manifests: one or two layout classes over three layers, with and  *)
(* without holes and overlaps, and the v1 form.                            *)

Classes == {[mla |-> kind[1], roles |-> kind[2], from |-> from, until |-> until,
             step |-> step, except |-> except, window |-> window, heads |-> 1, dim |-> 1] :
            kind \in {<<FALSE, <<"K", "V">> >>, <<TRUE, <<"K">> >>},
            from \in 0 .. 1, until \in 2 .. 3, step \in 1 .. 2,
            except \in {<< >>, <<1>>}, window \in 0 .. 1}

Tables == {<< >>} \cup {<<c>> : c \in Classes} \cup (Classes \X Classes)

Declared(b, extra) ==
    [b EXCEPT !.frames = L!FrameCount(b) + extra, !.bytes = L!DeclaredBytes(b)]

Begin(abi, table, schedule, extra) ==
    LET flat == IF Len(table) = 2 THEN 0 ELSE 1
    IN  Declared([abi |-> abi, layers |-> 3, heads |-> flat, dim |-> flat, cached |-> 2,
                  maxContext |-> 3, table |-> table, schedule |-> schedule,
                  frames |-> 0, bytes |-> 0, wellFormed |-> TRUE], extra)

Begins == {Begin(IF table = << >> THEN "v1" ELSE "v2-prerope", table, schedule, 0) :
              table \in Tables, schedule \in {"none", "decode-priority"}}
          \cup {Begin("v1", << >>, "none", 1)}

-----------------------------------------------------------------------------
(* Stores with a chain of up to three manifests over three tokens.  The    *)
(* spans of a manifest cover its range in one chunk or in two, or stop     *)
(* short of it; the cuts, parents and depths agree with each other or not. *)

Family(tail) == IF tail THEN <<[key |-> 1, rule |-> "direct", deps |-> << >>],
                               [key |-> 2, rule |-> "tail", deps |-> <<1>>]>>
                ELSE <<[key |-> 1, rule |-> "direct", deps |-> << >>]>>

Cut(n) == [root |-> n, count |-> n]

Spans(id, start, count, how) ==
    LET span(s, n, c) == [start |-> s, count |-> n, chunk |-> c]
    IN  CASE how = "one"   -> <<span(start, count, 2 * id)>>
          [] how = "two"   -> <<span(start, 1, 2 * id), span(start + 1, count - 1, 2 * id + 1)>>
          [] how = "short" -> <<span(start, 1, 2 * id)>>

Manifest(id, cut, parent, parentCut, depth, tail, how) ==
    LET full == parent = 0
        start == IF full THEN 0 ELSE parentCut
        direct == [key |-> 1, start |-> start, count |-> cut - start,
                   spans |-> Spans(id, start, cut - start, how)]
        window == [key |-> 2, start |-> cut - 1, count |-> 1,
                   spans |-> Spans(id, cut - 1, 1, "one")]
    IN  [lineage |-> "m", epoch |-> 1, cut |-> Cut(cut), family |-> Family(tail),
         kind |-> IF full THEN "full" ELSE "delta", parent |-> parent,
         parentCut |-> Cut(parentCut), depth |-> depth,
         groups |-> <<[id |-> 1, states |-> IF tail THEN <<1, 2>> ELSE <<1>>]>>,
         states |-> IF tail THEN <<direct, window>> ELSE <<direct>>]

Hows == {"one", "two", "short"}

Rows(state) == [c \in 2 .. 7 |-> [state |-> state[c \div 2], epoch |-> 1, digest |-> c,
                                  file |-> state[c \div 2] # "TOMBSTONED"]]

Store(manifests, state) ==
    [manifests |-> manifests, rows |-> Rows(state), epoch |-> 1, minimum |-> 1]

Present == <<"AVAILABLE", "AVAILABLE", "AVAILABLE">>

Chains ==
    {Store(<<Manifest(1, c1, 0, 0, 0, FALSE, h1), Manifest(2, c2, 1, p2, 1, FALSE, h2),
             Manifest(3, 3, p, p3, d, FALSE, h3)>>, Present) :
        c1 \in 1 .. 2, h1 \in Hows, c2 \in 2 .. 3, p2 \in 1 .. 2, h2 \in Hows,
        p \in 1 .. 2, p3 \in 1 .. 2, d \in 1 .. 2, h3 \in Hows}
    \cup {Store(<<Manifest(1, c1, 0, 0, 0, TRUE, h1), Manifest(2, 2, 1, 1, 1, TRUE, "one"),
                  Manifest(3, 3, 0, 0, 0, TRUE, h1)>>, Present) :
             c1 \in 1 .. 2, h1 \in Hows}

Hint(tier, count, bytes) ==
    [tier |-> tier, cut |-> Cut(count), epoch |-> 1, bytes |-> bytes, source |-> 9,
     resources |-> [shadow |-> 2, pinned |-> 1, scratch |-> 1, pins |-> 1]]

Lookups ==
    {[store |-> Store(<<Manifest(1, 1, 0, 0, 0, FALSE, "one"),
                        Manifest(2, 2, 1, 1, 1, FALSE, "one"),
                        Manifest(3, 3, 2, 2, 2, FALSE, "one")>>, state),
      hints |-> hints,
      request |-> [roots |-> [i \in 1 .. n |-> i], lineage |-> "m", family |-> Family(FALSE),
                   minimum |-> 1, maximum |-> maximum]] :
        state \in [1 .. 3 -> {"AVAILABLE", "TOMBSTONED", "MISSING"}],
        hints \in {<< >>, <<Hint("resident", 1, 1)>>,
                   <<Hint("gateway", 2, 2), Hint("gateway", 2, 2), Hint("gateway", 3, 1)>>,
                   <<Hint("gateway", 3, 2), Hint("resident", 3, 1)>>},
        n \in 2 .. 3, maximum \in 1 .. 4}

-----------------------------------------------------------------------------
(* Stores of three to 23 bytes and their load: a surplus of up to three    *)
(* chunks and two evictable manifests.  With significands of five bits the *)
(* targets of the larger ones, and most utilizations, are rounded.         *)

Sizing(unique, overhead, pinned, uploads, uploadBytes, rows) ==
    [uniqueKv |-> unique, overhead |-> overhead, pinned |-> pinned, rows |-> rows,
     rowBytes |-> 2, catalogFixed |-> 1, wal |-> 1, uploads |-> uploads,
     uploadBytes |-> uploadBytes, restores |-> 2, planBytes |-> 3, pins |-> 2, fds |-> 1,
     gateways |-> 1, dailyKv |-> 10, peakKv |-> 1, peakObject |-> 1, amplification |-> 1300,
     writeBudget |-> 13, network |-> 1, networkTarget |-> 950, backupBytes |-> 1,
     generations |-> 3]

Loads ==
    {[in |-> Sizing(unique, overhead, pinned, uploads, uploadBytes, rows),
      surplus |-> surplus, reserved |-> reserved, manifests |-> manifests,
      maximum |-> maximum] :
        unique \in {3, 4, 6, 9, 20, 22, 40}, overhead \in 0 .. 1, pinned \in {2, 8},
        uploads \in {1, 3}, uploadBytes \in {1, 4}, rows \in {3, 9},
        surplus \in {<< >>, <<1>>, <<2, 1, 3>>}, reserved \in {0, 3},
        manifests \in {<< >>, <<[bytes |-> 1, chunks |-> <<1, 1>>]>>,
                       <<[bytes |-> 1, chunks |-> << >>], [bytes |-> 1, chunks |-> <<1>>]>>},
        maximum \in 1 .. 4}

-----------------------------------------------------------------------------
(* Traces. *)

Retention(bytes, avoided) ==
    [predictedReuse |-> 1000, bytes |-> bytes, shared |-> 0, avoidedPrefill |-> avoided,
     bestRestore |-> 0, bandwidth |-> 2, interference |-> 0, wear |-> 0]

MCSketchCells == [k \in Keys |-> {<<1, k>>, <<2, k % 2>>}]
MCProfile == [t \in Tiers |-> [bytesPerSecond |-> 1, available |-> TRUE,
                               fixedLatency |-> IF t = "local" THEN 1 ELSE 5]]
Access(k, tier, bytes, avoided) ==
    [key |-> k, tier |-> tier, retention |-> Retention(bytes, avoided)]
MCAccesses == {Access(1, "local", 1, 9), Access(2, "local", 1, 2), Access(3, "gateway", 2, 30),
               Access(4, "gateway", 1, 3), Access(4, "gateway", 2, 3)}

Trace == [kind |-> "trace"]

MCInit ==
    /\ Init
    /\ input \in {Trace} \cup [kind : {"begin"}, begin : Begins]
                   \cup [kind : {"chain"}, store : Chains]
                   \cup [kind : {"lookup"}, lookup : Lookups]
                   \cup [kind : {"sizing"}, load : Loads]
    /\ input # Trace => policy = "Lru"

MCNext == input = Trace /\ Next /\ UNCHANGED input

MCSpec == MCInit /\ [][MCNext]_<<vars, input>>

-----------------------------------------------------------------------------
(* Properties of the inputs. *)

\* A BEGIN that validate accepts can be streamed to its end by an honest sender:
\* the walk of the schedule has the declared planes and bytes, every layer once
\* in each role, so neither verify_plane nor the seal refuses it
\* (manifest/validation.rs:205-299).
BeginsStream == input.kind = "begin" => L!AcceptedBeginStreams(input.begin)

\* The tokens of a state that a plan writes, in the order of its operations.
Targets(ops, i) ==
    LET mine == SelectSeq(ops, LAMBDA op : op.state = i)
    IN  [n \in DOMAIN mine |-> mine[n].target .. mine[n].target + mine[n].count - 1]

\* A scatter transfer hands over every operation of its plan once, in order, in
\* batches that fit in one message, and is refused only when bytes are missing.
TransferExact(plan) ==
    LET batches == P!PrepareScatterTransfer(plan)
        sent    == FlattenSeq(batches)
    IN  IF plan.recompute # {} THEN batches = << >>
        ELSE /\ [n \in DOMAIN sent |-> sent[n].op] = plan.ops
             /\ \A n \in DOMAIN sent : sent[n].ordinal = n - 1
             /\ \A b \in DOMAIN batches : Len(batches[b]) \in 1 .. 2

\* A chain whose manifests authenticate one by one composes: the scatter plan is
\* not refused, and its operations write every token of every state of the leaf
\* exactly once, a tail window from its own start.
ScatterExact(store) ==
    LET chain == P!AuthenticateChain(store, 3, 1)
        plan == P!ScatterPlan(store, chain.chain)
        leaf == store.manifests[3]
    IN  chain.status = "ok" =>
            /\ plan.ok
            /\ TransferExact([ops |-> plan.ops, recompute |-> {}])
            /\ \A i \in DOMAIN leaf.states :
                 LET targets == Targets(plan.ops, i)
                 IN  /\ \A m, n \in DOMAIN targets :
                          m # n => targets[m] \cap targets[n] = {}
                     /\ UNION Range(targets) =
                          0 .. (IF leaf.family[i].rule = "tail" THEN leaf.states[i].count
                                                               ELSE leaf.cut.count) - 1

\* The plan of a listed candidate: it can be built, and it is that of its manifest.
PlanSound(plan, exact) == plan.status = "ok" /\ TransferExact(plan) /\ plan = exact

\* The candidates that restore_candidates_with_sources lists are worth trying in
\* their order: at most as many as asked for, recomputation last and only once,
\* a longer prefix before a shorter one, and every local one can be planned on
\* the store it was listed from.
CandidatesSound(list, store, request) ==
    LET unlimited == [shadow |-> 99, pinned |-> 99, scratch |-> 99, pins |-> 99]
    IN  list # << >> =>
            /\ Len(list) <= request.maximum
            /\ \A i \in DOMAIN list : list[i].tier = "recompute" <=> i = Len(list)
            /\ \A i \in 1 .. Len(list) - 1 : list[i].count >= list[i + 1].count
            /\ \A i \in DOMAIN list : list[i].tier = "local" =>
                 /\ list[i].count <= Len(request.roots)
                 /\ PlanSound(P!BuildPlan(store, list[i], request.minimum, unlimited),
                              P!BuildExactManifest(store, list[i].source, request.minimum,
                                                   unlimited))

\* What a lookup lists can be planned, and what is planned restores exactly the
\* state: the validation of single manifests, the authentication of chains, the
\* listing of candidates, the two ways to a plan and its scatter transfer, pieces
\* of code that check overlapping facts, agree (restore.rs, restore/helpers.rs,
\* restore/plan.rs, validator.rs).
PlansExact ==
    /\ input.kind = "chain" => ScatterExact(input.store)
    /\ input.kind = "lookup" =>
         LET l == input.lookup
         IN  CandidatesSound(P!RestoreCandidates(l.store, l.request, l.hints), l.store, l.request)

\* A store sized by the worksheet keeps what it was sized for, and maintenance
\* stops at its target or says that it could not (CapacityPlanning states it for
\* one input; capacity.rs, store/gc/capacity.rs).
SizedStoreRetains ==
    input.kind = "sizing" =>
        LET l == input.load
        IN  C!MaintenanceKeepsRetained(l.in, l.surplus, l.reserved, l.manifests, l.maximum)
=============================================================================
