---------------------------- MODULE CutManifest ----------------------------
(***************************************************************************)
(* The structural rules of a cut manifest (kvpack-core, validator.rs): what *)
(* validate_family and validate_manifest accept.  One token of a state is   *)
(* one byte of its stream, so token offsets stand for byte offsets.         *)
(*                                                                         *)
(* A manifest is a record with                                             *)
(*   lineage     the semantic model and the engine's cache ABI             *)
(*   epoch       its key epoch                                             *)
(*   cut         [root, count]: the input prefix it is a cut of            *)
(*   kind        "full" or "delta"; parent, parentCut, depth of a delta    *)
(*   family      a sequence of [key, rule, deps], rule "direct" or "tail"  *)
(*   states      a sequence of [key, start, count, spans]: the realized    *)
(*               range of each state and its chunk spans [start, count,    *)
(*               chunk]                                                    *)
(*   groups      a sequence of [id, states]                                *)
(***************************************************************************)
EXTENDS Integers, Sequences, FiniteSets, SequencesExt, Relation

CONSTANTS MaxDeltaDepth,    \* MAX_DELTA_DEPTH
          MaxChunkTokens    \* MAX_CHUNK_PLAINTEXT, in tokens

ASSUME ManifestAssumption == MaxDeltaDepth \in Nat \ {0} /\ MaxChunkTokens \in Nat \ {0}

StateKeys(states) == [i \in DOMAIN states |-> states[i].key]

Ascending(s) == \A i \in 1..(Len(s) - 1) : s[i] < s[i + 1]

(* validate_dependencies: a state depends on other states of the family,   *)
(* each named once in canonical order, and the depth-first visit of the    *)
(* graph never meets a state it is still visiting.                         *)
ValidateDependencies(family) ==
    LET keys  == Range(StateKeys(family))
        edges == UNION {{<<family[i].key, d>> : d \in Range(family[i].deps)} :
                           i \in DOMAIN family}
        reaches == TransitiveClosure(
                      [p \in keys \X keys |-> p \in edges], keys)
    IN  /\ \A i \in DOMAIN family :
             /\ Range(family[i].deps) \subseteq keys \ {family[i].key}
             /\ Ascending(family[i].deps)
        /\ \A k \in keys : ~reaches[<<k, k>>]

ValidateFamily(family) ==
    /\ family # <<>>
    /\ Ascending(StateKeys(family))
    /\ ValidateDependencies(family)

(* What a delta says of its parent: a strict, nonempty prefix, at a depth  *)
(* within the bound.                                                       *)
ValidateKind(m) ==
    \/ m.kind = "full"
    \/ /\ m.kind = "delta"
       /\ m.depth \in 1..MaxDeltaDepth
       /\ m.parentCut.count \in 1..(m.cut.count - 1)

(* Every state of the family is in exactly one atomic group.               *)
ValidateAtomicGroups(m) ==
    LET members == {m.groups[i].states : i \in DOMAIN m.groups}
    IN  /\ Ascending([i \in DOMAIN m.groups |-> m.groups[i].id])
        /\ \A i \in DOMAIN m.groups : m.groups[i].id # 0 /\ Ascending(m.groups[i].states)
        /\ \A i, j \in DOMAIN m.groups :
             i # j => Range(m.groups[i].states) \cap Range(m.groups[j].states) = {}
        /\ UNION {Range(s) : s \in members} = Range(StateKeys(m.family))

(* The tokens the manifest must hold of a state: a tail window is a        *)
(* snapshot of the last tokens of a full cut, any other state the tokens   *)
(* after the parent's cut.                                                 *)
RequiredRange(m, rule, state) ==
    IF rule = "tail"
      THEN [ok    |-> m.kind = "full" /\ state.count \in 1..m.cut.count,
            start |-> m.cut.count - state.count,
            count |-> state.count]
      ELSE [ok    |-> TRUE,
            start |-> IF m.kind = "full" THEN 0 ELSE m.parentCut.count,
            count |-> IF m.kind = "full" THEN m.cut.count
                                         ELSE m.cut.count - m.parentCut.count]

(* The spans follow one another from a first token on; End is the token    *)
(* after the last.                                                         *)
Contiguous(spans, start) ==
    /\ spans # <<>> /\ spans[1].start = start
    /\ \A i \in 2..Len(spans) : spans[i].start = spans[i - 1].start + spans[i - 1].count

End(spans) == Last(spans).start + Last(spans).count

(* A plausible bug: the last span may stop short of the range.             *)
ValidateSpansPrefix(spans, start, count) ==
    /\ \A i \in DOMAIN spans : spans[i].count \in 1..MaxChunkTokens
    /\ Contiguous(spans, start)

(* The span loop of validate_manifest: a contiguous partition of the       *)
(* range into chunks of a bounded size.                                    *)
ValidateSpans(spans, start, count) ==
    /\ \A i \in DOMAIN spans : spans[i].count \in 1..MaxChunkTokens
    /\ Contiguous(spans, start)
    /\ End(spans) = start + count

ValidateManifest(m) ==
    /\ m.cut.count > 0 /\ m.epoch > 0
    /\ ValidateFamily(m.family)
    /\ ValidateKind(m)
    /\ StateKeys(m.states) = StateKeys(m.family)
    /\ ValidateAtomicGroups(m)
    /\ \A i \in DOMAIN m.states :
         LET range == RequiredRange(m, m.family[i].rule, m.states[i])
         IN  /\ range.ok
             /\ m.states[i].start = range.start
             /\ m.states[i].count = range.count
             /\ ValidateSpans(m.states[i].spans, range.start, range.count)

=============================================================================
