---------------------------- MODULE LayoutTable ----------------------------
(***************************************************************************)
(* The BEGIN manifest of a live handoff and the order its planes travel in:*)
(* crates/kvpack-handoff/src/manifest.rs and manifest/validation.rs.       *)
(*                                                                         *)
(* A begin is a record [abi, layers, heads, dim, cached, maxContext, table,*)
(* schedule, frames, bytes], a layout class a record [mla, from, until,    *)
(* step, except, window, heads, dim, roles].  Labels, digests, precision   *)
(* and clocks are one field: wellFormed.                                   *)
(***************************************************************************)
EXTENDS Integers, FiniteSets, SequencesExt

CONSTANTS
    MaxFrameBytes, MaxTotalBytes, MaxLayers, MaxCachedTokens, MaxContextTokens,
    U64Max          \* the largest byte count that does not overflow

ASSUME LimitsAssumption ==
    {MaxFrameBytes, MaxTotalBytes, MaxLayers, MaxCachedTokens, MaxContextTokens, U64Max}
        \subseteq Nat

(* LayoutClassV2 *)
LayoutClasses ==
    [mla : BOOLEAN, from : Nat, until : Nat, step : Nat, except : Seq(Nat), window : Nat,
     heads : Nat, dim : Nat, roles : Seq({"K", "V"})]

(* BeginManifestV1: the counts are unsigned. *)
TypedBegin(b) ==
    /\ {b.layers, b.heads, b.dim, b.cached, b.maxContext, b.frames, b.bytes} \subseteq Nat
    /\ b.table \in Seq(LayoutClasses)

IsV2(b) == b.table # <<>>
IsPrerope(b) == IsV2(b) /\ b.abi = "v2-prerope"

(* Width of one element: pre-RoPE keys are f32, everything else f16. *)
ElementBytes(b, role) == IF IsPrerope(b) /\ role = "K" THEN 4 ELSE 2

(* The members of a finite set of numbers, each at the place of its rank. *)
Ascending(S) ==
    [n \in 1 .. Cardinality(S) |-> CHOOSE x \in S : Cardinality({y \in S : y < x}) = n - 1]

(* LayoutClassV2::layers: ascending, empty for a zero step. *)
Layers(c) ==
    IF c.step = 0 \/ c.from >= c.until THEN <<>>
    ELSE Ascending({l \in c.from .. c.until - 1 :
                       (l - c.from) % c.step = 0 /\ ~Contains(c.except, l)})

Window(b, c) == IF c.window = 0 \/ c.window > b.cached THEN b.cached ELSE c.window

PlaneBytes(b, c, role) == Window(b, c) * c.heads * c.dim * ElementBytes(b, role)

(* decode-priority is a stable partition: windowed classes first. *)
ScheduleClassOrder(b) ==
    LET windowed == {i \in 1 .. Len(b.table) : b.table[i].window > 0}
        full == {i \in 1 .. Len(b.table) : b.table[i].window = 0}
    IN  IF b.schedule = "decode-priority" THEN Ascending(windowed) \o Ascending(full)
        ELSE [i \in 1 .. Len(b.table) |-> i]

(* The planes of one class: layers ascending, roles in declared order. *)
ClassWalk(b, i) ==
    FlattenSeq([n \in 1 .. Len(Layers(b.table[i])) |->
        [r \in 1 .. Len(b.table[i].roles) |->
            [class |-> i, layer |-> Layers(b.table[i])[n], role |-> b.table[i].roles[r]]]])

(* layout_walk_v2 *)
LayoutWalk(b) ==
    FlattenSeq([n \in 1 .. Len(b.table) |-> ClassWalk(b, ScheduleClassOrder(b)[n])])

(* What the verifier expects at each sequence number, counted from 1. A v1 begin has K then V of each layer. *)
Planes(b) ==
    IF IsV2(b) THEN LayoutWalk(b)
    ELSE [n \in 1 .. 2 * b.layers |->
            [class |-> 0, layer |-> (n - 1) \div 2, role |-> IF n % 2 = 1 THEN "K" ELSE "V"]]

(* A frame that completes its layer alone: the packed plane of an mla-latent class. *)
IsSingleRole(b, n) == IsV2(b) /\ Len(b.table[Planes(b)[n].class].roles) = 1

(* validate_for, validate_for_v2_expected: the byte length a header must declare. *)
ExpectedBytes(b, n) ==
    IF IsV2(b) THEN PlaneBytes(b, b.table[Planes(b)[n].class], Planes(b)[n].role)
    ELSE (2 * b.layers * b.cached * b.heads * b.dim * 2) \div b.frames

Total(counts) == FoldLeft(+, 0, counts)

(* v2_frame_counts *)
FrameCount(b) ==
    IF IsV2(b)
    THEN Total([i \in 1 .. Len(b.table) |-> Len(Layers(b.table[i])) * Len(b.table[i].roles)])
    ELSE 2 * b.layers

ClassBytes(b, c) ==
    Total([r \in 1 .. Len(c.roles) |-> Len(Layers(c)) * PlaneBytes(b, c, c.roles[r])])

DeclaredBytes(b) ==
    IF IsV2(b)
    THEN Total([i \in 1 .. Len(b.table) |-> ClassBytes(b, b.table[i])])
    ELSE 2 * b.layers * b.cached * b.heads * b.dim * 2

-----------------------------------------------------------------------------
(* validate_layout_table, in the order of its tests. *)
ValidClass(b, c) ==
    /\ c.step # 0 /\ c.from < c.until /\ c.until <= b.layers
    /\ \A i \in 1 .. Len(c.roles) :
           PlaneBytes(b, c, c.roles[i]) <= IF MaxFrameBytes < U64Max THEN MaxFrameBytes ELSE U64Max
    /\ IsInjective(c.except)
    /\ \A i \in 1 .. Len(c.except) : c.except[i] \in c.from .. c.until - 1
    /\ \/ c.roles = <<"K", "V">>
       \/ c.mla /\ c.roles = <<"K">>
    /\ Layers(c) # <<>> /\ c.heads # 0 /\ c.dim # 0

(* Mutant: a table with holes is accepted, as it once was. *)
CoversOnceAtMost(b) ==
    LET covered == FlattenSeq([i \in 1 .. Len(b.table) |-> Layers(b.table[i])])
    IN  IsInjective(covered)

(* Every declared layer is in exactly one class. *)
CoversOnce(b) ==
    LET covered == FlattenSeq([i \in 1 .. Len(b.table) |-> Layers(b.table[i])])
    IN  IsInjective(covered) /\ ToSet(covered) = 0 .. b.layers - 1

FlatGeometryAgrees(b) ==
    IF Len(b.table) = 1
    THEN b.heads = b.table[1].heads /\ b.dim = b.table[1].dim
    ELSE b.heads = 0 /\ b.dim = 0

ValidLayoutTable(b) ==
    /\ \A i \in 1 .. Len(b.table) : ValidClass(b, b.table[i])
    /\ CoversOnce(b)
    /\ FlatGeometryAgrees(b)

(* BeginManifestV1::validate *)
ValidBegin(b) ==
    /\ b.abi \in IF IsV2(b) THEN {"v2", "v2-prerope"} ELSE {"v1"}
    /\ b.cached \in 1 .. MaxCachedTokens
    /\ b.maxContext <= MaxContextTokens /\ b.cached < b.maxContext
    /\ b.layers \in 1 .. MaxLayers
    /\ IF IsV2(b)
       THEN ValidLayoutTable(b) /\ b.schedule \in {"none", "layer-order", "decode-priority"}
       ELSE b.schedule = "none" /\ b.heads # 0 /\ b.dim # 0
    /\ DeclaredBytes(b) <= U64Max
    /\ b.frames = FrameCount(b) /\ b.bytes = DeclaredBytes(b)
    /\ b.bytes <= MaxTotalBytes /\ b.bytes \div b.frames <= MaxFrameBytes
    /\ b.wellFormed

(* ReceiverBeginExpectationsV1::validate_for: the begin is the armed one. *)
MatchesArmed(armed, b) ==
    /\ \A f \in {"abi", "layers", "heads", "dim", "cached", "maxContext", "table"} : b[f] = armed[f]
    /\ b.abi \in IF IsV2(b) THEN {"v2", "v2-prerope"} ELSE {"v1"}

-----------------------------------------------------------------------------
(* A begin that validation accepts can be streamed to its end: the walk has *)
(* as many planes as declared, every layer has each role of its class once  *)
(* with K directly before V, no plane exceeds the frame bound, and the      *)
(* running byte count meets the declared total exactly at the last plane,   *)
(* so neither verify_plane nor the pair cursor of the coordinator nor the   *)
(* seal can refuse an honest stream (validation.rs:205-299).                *)
AcceptedBeginStreams(b) ==
    ValidBegin(b) =>
        LET w == Planes(b)
        IN  /\ Len(w) = b.frames
            /\ {w[n].layer : n \in 1 .. Len(w)} = 0 .. b.layers - 1
            /\ \A n, m \in 1 .. Len(w) :
                   w[n].layer = w[m].layer /\ w[n].role = w[m].role => n = m
            /\ \A n \in 1 .. Len(w) :
                   /\ ExpectedBytes(b, n) <= MaxFrameBytes
                   /\ w[n].role = "V" => n > 1 /\ w[n - 1] = [w[n] EXCEPT !.role = "K"]
                   /\ w[n].role = "K" /\ ~IsSingleRole(b, n) =>
                          n < Len(w) /\ w[n + 1] = [w[n] EXCEPT !.role = "V"]
            /\ Total([n \in 1 .. Len(w) |-> ExpectedBytes(b, n)]) = b.bytes
=============================================================================
