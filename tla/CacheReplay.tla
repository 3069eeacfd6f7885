---------------------------- MODULE CacheReplay ----------------------------
(***************************************************************************)
(* The offline qualification of the cache policies: replay_cache_policy    *)
(* (store/policy/replay.rs) drives one of five online policies through a   *)
(* trace of accesses and source outages, and replay_offline_oracle         *)
(* (store/policy/oracle.rs) computes, by dynamic programming over the sets *)
(* of resident objects, the cheapest history any policy could have had.    *)
(*                                                                         *)
(* Both functions consume the same trace; here one event at a time is      *)
(* chosen and both take their step for it, so that a behaviour is a trace  *)
(* and a state is what the two functions hold after a prefix of it.        *)
(***************************************************************************)
EXTENDS TinyLfu

CONSTANTS
    Policies,        \* the policies replayed, of {"Lru", "Lfu", "TinyLfu", "Arc", "ClockPro"}
    Tiers,           \* source tiers
    Profile,         \* [Tiers -> [bytesPerSecond, fixedLatency, available]]
    MaximumEntries,  \* CacheReplayConfig::maximum_entries
    Accesses,        \* the accesses of a trace: [key, tier, retention]
    MaximumEvents,   \* OfflineOracleBounds::maximum_events, the length of a trace
    MaximumObjects,  \* OfflineOracleBounds::maximum_distinct_objects
    MaximumStates,   \* OfflineOracleBounds::maximum_states
    MaximumTransitions \* OfflineOracleBounds::maximum_transitions

\* validate_replay_config.
ValidReplayConfig ==
    /\ MaximumEntries \in Nat \ {0}
    /\ \A t \in Tiers : Profile[t].bytesPerSecond \in Nat \ {0}

\* validate_bounds.
ValidBounds == {MaximumEvents, MaximumObjects, MaximumStates, MaximumTransitions}
                    \subseteq Nat \ {0}

\* A trace with an invalid access is refused by both functions.
ASSUME ReplayAssumption ==
    /\ Policies \subseteq {"Lru", "Lfu", "TinyLfu", "Arc", "ClockPro"}
    /\ \A a \in Accesses : /\ a.key \in Keys /\ a.tier \in Tiers
                           /\ ValidRetention(a.retention)
    /\ ValidReplayConfig
    /\ ValidBounds

VARIABLES
    policy,        \* the policy replayed
    replay,        \* ReplayState of the online policy
    result,        \* CacheReplayResult: its counters
    availability,  \* the tiers that answer
    oracle,        \* the dynamic program: cost of each reachable resident set
    transitions,   \* evaluated_transitions: how many moves it has weighed
    inventory,     \* the objects of the trace and their sizes
    admissible,    \* the oracle accepts the trace so far
    events         \* events consumed

vars == <<policy, replay, result, availability, oracle, transitions, inventory,
          admissible, events>>

-----------------------------------------------------------------------------
(* The online policies. *)

NewReplay ==
    [entries |-> << >>, residentBytes |-> 0, tick |-> 0, tiny |-> NewPolicy,
     recent |-> << >>, frequent |-> << >>, recentGhost |-> << >>,
     frequentGhost |-> << >>, target |-> CapacityBytes \div 2, clock |-> << >>]

Resident(s) == DOMAIN s.entries

ServiceNs(t, r) ==
    Profile[t].fixedLatency
    + (r.bytes * NsPerSecond + Profile[t].bytesPerSecond - 1) \div Profile[t].bytesPerSecond
    + r.bestRestore + r.interference

\* ReplayState::hit.
HitObject(s, k, r) ==
    LET e == s.entries[k]
        t == [s EXCEPT !.entries[k] =
                [e EXCEPT !.frequency = @ + 1, !.lastAccess = s.tick, !.referenced = TRUE,
                          !.hot = @ \/ e.frequency + 1 >= 2, !.retention = r]]
    IN  CASE policy = "TinyLfu" ->
               [t EXCEPT !.tiny = RecordAccessWithRetention(@, k, r, s.tick)]
          [] policy = "Arc" ->
               [t EXCEPT !.recent = RemoveKey(@, k),
                         !.frequent = Touch(@, k)]
          [] OTHER -> t

\* ReplayState::insert.  An object that ARC remembers as a ghost goes to the
\* frequent list and moves the target size of the recent one.
InsertObject(s, k, r) ==
    LET t == [s EXCEPT
                !.residentBytes = @ + r.bytes,
                !.entries = (k :> [retention |-> r, frequency |-> 1, lastAccess |-> s.tick,
                                   referenced |-> TRUE, hot |-> FALSE]) @@ @]
        recentGhost == k \in Range(s.recentGhost)
        frequentGhost == ~recentGhost /\ k \in Range(s.frequentGhost)
    IN  CASE policy = "TinyLfu" ->
               [t EXCEPT !.tiny = RegisterWithRetention(@, k, r, s.tick)]
          [] policy = "Arc" /\ recentGhost ->
               [t EXCEPT !.recentGhost = RemoveKey(@, k),
                         !.target = Min({@ + r.bytes, CapacityBytes}),
                         !.frequent = Append(@, k)]
          [] policy = "Arc" /\ frequentGhost ->
               [t EXCEPT !.frequentGhost = RemoveKey(@, k),
                         !.target = Monus(@, r.bytes),
                         !.frequent = Append(@, k)]
          [] policy = "Arc" /\ ~recentGhost /\ ~frequentGhost ->
               [t EXCEPT !.recent = Append(@, k)]
          [] policy = "ClockPro" -> [t EXCEPT !.clock = Append(@, k)]
          [] OTHER -> t

\* The ghost lists hold each key once, and together at most MaximumEntries: the
\* longer one loses its oldest key first.
TrimGhosts(s) ==
    LET Distinct(queue, seen) ==
            FoldLeft(LAMBDA kept, k :
                        IF k \in seen \cup Range(kept) THEN kept ELSE Append(kept, k),
                     << >>, queue)
        recent == Distinct(s.recentGhost, {})
        frequent == Distinct(s.frequentGhost, Range(recent))
        drop[n \in 0 .. Len(recent) + Len(frequent)] ==
            IF n = 0 THEN <<0, 0>>
            ELSE LET i == drop[n - 1][1]
                     j == drop[n - 1][2]
                 IN  IF Len(recent) - i >= Len(frequent) - j
                     THEN <<i + 1, j>> ELSE <<i, j + 1>>
        dropped == drop[Monus(Len(recent) + Len(frequent), MaximumEntries)]
    IN  [s EXCEPT !.recentGhost = SubSeq(recent, dropped[1] + 1, Len(recent)),
                  !.frequentGhost = SubSeq(frequent, dropped[2] + 1, Len(frequent))]

\* ReplayState::remove.
DropObject(s, k) ==
    LET t == [s EXCEPT
                !.residentBytes = Monus(@, s.entries[k].retention.bytes),
                !.entries = [j \in DOMAIN @ \ {k} |-> s.entries[j]]]
        recent == k \in Range(s.recent)
        frequent == ~recent /\ k \in Range(s.frequent)
    IN  CASE policy = "TinyLfu" -> [t EXCEPT !.tiny = RemoveObject(@, k)]
          [] policy = "Arc" ->
               TrimGhosts([t EXCEPT
                    !.recent = RemoveKey(@, k),
                    !.frequent = IF frequent THEN RemoveKey(@, k) ELSE @,
                    !.recentGhost = IF recent THEN Append(@, k) ELSE @,
                    !.frequentGhost = IF frequent THEN Append(@, k) ELSE @])
          [] policy = "ClockPro" -> [t EXCEPT !.clock = RemoveKey(@, k)]
          [] OTHER -> t

\* The clock hand turns at most three times: it clears `referenced`, then `hot`,
\* and stops at the first object that has neither.
ClockSweep(s) ==
    LET turn[n \in 0 .. 3 * Len(s.clock)] ==
            IF n = 0 THEN [state |-> s, key |-> NoKey]
            ELSE LET prev == turn[n - 1]
                     k == Head(prev.state.clock)
                     e == prev.state.entries[k]
                     moved == [prev.state EXCEPT !.clock = Append(Tail(@), k)]
                 IN  IF prev.key # NoKey \/ prev.state.clock = << >> THEN prev
                     ELSE IF k \notin Resident(prev.state)
                     THEN [prev EXCEPT !.state.clock = Tail(@)]
                     ELSE IF e.referenced
                     THEN [prev EXCEPT !.state =
                            [moved EXCEPT !.entries[k].referenced = FALSE,
                                          !.entries[k].hot = @ \/ e.frequency >= 2]]
                     ELSE IF e.hot
                     THEN [prev EXCEPT !.state = [moved EXCEPT !.entries[k].hot = FALSE]]
                     ELSE [state |-> moved, key |-> k]
        last == turn[3 * Len(s.clock)]
    IN  IF last.key = NoKey /\ last.state.clock # << >>
        THEN [last EXCEPT !.key = Head(last.state.clock)] ELSE last

ArcVictim(s) ==
    LET recentBytes == FoldSeq(LAMBDA k, sum :
                                (IF k \in Resident(s) THEN s.entries[k].retention.bytes ELSE 0)
                                + sum, 0, s.recent)
        queue == IF recentBytes > s.target \/ s.frequent = << >> THEN s.recent ELSE s.frequent
    IN  IF queue = << >> THEN NoKey ELSE Head(queue)

\* The resident object that comes first in the order of `Rank`, a pair.
FirstBy(s, Rank(_)) ==
    IF Resident(s) = {} THEN NoKey
    ELSE CHOOSE j \in Resident(s) : \A k \in Resident(s) \ {j} :
            \/ Rank(j)[1] < Rank(k)[1]
            \/ Rank(j)[1] = Rank(k)[1] /\ Rank(j)[2] < Rank(k)[2]
            \/ Rank(j) = Rank(k) /\ j < k

\* ReplayState::victim.
VictimOf(s) ==
    LET Same(k) == [state |-> s, key |-> k]
    IN  CASE policy = "Lru" -> Same(FirstBy(s, LAMBDA k : <<s.entries[k].lastAccess, 0>>))
          [] policy = "Lfu" ->
               Same(FirstBy(s, LAMBDA k : <<s.entries[k].frequency, s.entries[k].lastAccess>>))
          [] policy = "TinyLfu" -> Same(Victim(s.tiny))
          [] policy = "Arc" -> Same(ArcVictim(s))
          [] policy = "ClockPro" -> ClockSweep(s)

\* ReplayState::make_room: victims leave, the preferred one first, until the
\* object fits.
MakeRoom(s, incoming, preferred) ==
    LET Full(t) == \/ t.residentBytes + incoming > CapacityBytes
                   \/ Cardinality(Resident(t)) >= MaximumEntries
        room[n \in 0 .. Cardinality(Resident(s)) + 1] ==
            IF n = 0 THEN [state |-> s, evicted |-> 0, stuck |-> FALSE]
            ELSE LET prev == room[n - 1]
                     choice == IF n = 1 /\ preferred \in Resident(s)
                               THEN [state |-> s, key |-> preferred]
                               ELSE VictimOf(prev.state)
                 IN  IF prev.stuck \/ ~Full(prev.state) THEN prev
                     ELSE IF choice.key = NoKey THEN [prev EXCEPT !.stuck = TRUE]
                     ELSE [state |-> DropObject(choice.state, choice.key),
                           evicted |-> prev.evicted + 1, stuck |-> FALSE]
    IN  room[Cardinality(Resident(s)) + 1]

-----------------------------------------------------------------------------
(* The offline oracle. *)

ZeroCost == [hits |-> 0, misses |-> 0, admitted |-> 0, rejected |-> 0,
             failures |-> 0, evictions |-> 0, service |-> 0]

\* The least service time; then the most hits, and so on.
Better(c, d) ==
    LET rank(x) == <<x.service, 0 - x.hits, x.failures, x.evictions, x.admitted>>
    IN  \E i \in 1 .. 5 : /\ rank(c)[i] < rank(d)[i]
                          /\ \A j \in 1 .. i - 1 : rank(c)[j] = rank(d)[j]

StateBytes(set) == MapThenSumSet(LAMBDA k : inventory'[k], set)

StateFits(set) == /\ Cardinality(set) <= MaximumEntries
                  /\ StateBytes(set) <= CapacityBytes

Miss(c) == [c EXCEPT !.misses = @ + 1]

Unavailable(c, r) ==
    [Miss(c) EXCEPT !.failures = @ + 1, !.service = @ + r.avoidedPrefill]

Fetched(c, t, r) == [Miss(c) EXCEPT !.service = @ + ServiceNs(t, r)]

\* A plausible bug: the oracle never evicts.
TransitionsWithoutEviction(set, a) ==
    LET c == oracle[set]
        r == a.retention
        fetched == Fetched(c, a.tier, r)
    IN  IF a.key \in set THEN {<<set, [c EXCEPT !.hits = @ + 1]>>}
        ELSE IF ~availability[a.tier] THEN {<<set, Unavailable(c, r)>>}
        ELSE {<<set, [fetched EXCEPT !.rejected = @ + 1]>>}
             \cup {<<set \cup {a.key}, [fetched EXCEPT !.admitted = @ + 1]>> :
                   x \in {x \in {0} : StateFits(set \cup {a.key})}}

\* Where the oracle may go from one resident set when the access a arrives: a
\* hit changes nothing; a miss is rejected, or admitted after evicting any
\* subset of the residents that makes it fit.
Transitions(set, a) ==
    LET c == oracle[set]
        r == a.retention
        fetched == Fetched(c, a.tier, r)
    IN  IF a.key \in set THEN {<<set, [c EXCEPT !.hits = @ + 1]>>}
        ELSE IF ~availability[a.tier] THEN {<<set, Unavailable(c, r)>>}
        ELSE {<<set, [fetched EXCEPT !.rejected = @ + 1]>>}
             \cup {<<kept \cup {a.key},
                     [fetched EXCEPT !.admitted = @ + 1,
                        !.evictions = @ + Cardinality(set) - Cardinality(kept)]>> :
                   kept \in {kept \in SUBSET set :
                                /\ r.bytes <= CapacityBytes
                                /\ StateFits(kept \cup {a.key})}}

\* record_transition keeps the best cost of each resident set.
OracleStep(a) ==
    LET all == UNION {Transitions(set, a) : set \in DOMAIN oracle}
    IN  [set \in {t[1] : t \in all} |->
            LET costs == {t[2] : t \in {t \in all : t[1] = set}}
            IN  CHOOSE c \in costs : \A d \in costs : ~Better(d, c)]

\* The inventory of the trace: each object has one size in it.
Inventoried(a) ==
    IF a.key \in DOMAIN inventory THEN inventory
    ELSE (a.key :> a.retention.bytes) @@ inventory

SizeKept(a) == a.key \in DOMAIN inventory => inventory[a.key] = a.retention.bytes

\* What the oracle does with an access: its next states, or it refuses the
\* trace and computes no more.
OracleAccess(a) ==
    /\ inventory' = Inventoried(a)
    /\ transitions' = transitions
         + MapThenSumSet(LAMBDA set : Cardinality(Transitions(set, a)), DOMAIN oracle)
    /\ admissible' = /\ admissible /\ SizeKept(a)
                     /\ Cardinality(DOMAIN inventory') <= MaximumObjects
                     /\ transitions' <= MaximumTransitions
                     /\ Cardinality(DOMAIN OracleStep(a)) <= MaximumStates
    /\ oracle' = IF admissible' THEN OracleStep(a) ELSE oracle

\* The history that replay_offline_oracle reports: the best cost, and the fewest
\* resident bytes among those of the same cost.
OracleChoice ==
    CHOOSE set \in DOMAIN oracle : \A other \in DOMAIN oracle :
        /\ ~Better(oracle[other], oracle[set])
        /\ oracle[other] = oracle[set] =>
             MapThenSumSet(LAMBDA k : inventory[k], set)
                <= MapThenSumSet(LAMBDA k : inventory[k], other)

-----------------------------------------------------------------------------
(* The trace. *)

Init ==
    /\ policy \in Policies
    /\ replay = NewReplay
    /\ result = ZeroCost
    /\ availability = [t \in Tiers |-> Profile[t].available]
    /\ oracle = ({} :> ZeroCost)
    /\ transitions = 0
    /\ inventory = << >>
    /\ admissible = TRUE
    /\ events = 0

Consume == events < MaximumEvents /\ events' = events + 1

SourceFailed(t) ==
    /\ Consume
    /\ availability' = [availability EXCEPT ![t] = FALSE]
    /\ UNCHANGED <<policy, replay, result, oracle, transitions, inventory, admissible>>

SourceRecovered(t) ==
    /\ Consume
    /\ availability' = [availability EXCEPT ![t] = TRUE]
    /\ UNCHANGED <<policy, replay, result, oracle, transitions, inventory, admissible>>

Ticked == [replay EXCEPT !.tick = @ + 1]

AccessHit(a) ==
    /\ Consume
    /\ a.key \in Resident(replay)
    /\ replay' = HitObject(Ticked, a.key, a.retention)
    /\ result' = [result EXCEPT !.hits = @ + 1]
    /\ OracleAccess(a)
    /\ UNCHANGED <<policy, availability>>

AccessUnavailable(a) ==
    /\ Consume
    /\ a.key \notin Resident(replay)
    /\ ~availability[a.tier]
    /\ replay' = Ticked
    /\ result' = Unavailable(result, a.retention)
    /\ OracleAccess(a)
    /\ UNCHANGED <<policy, availability>>

\* Only TinyLFU decides about an admission; the decision sees the utilization
\* that the object would bring.
Admission(a) ==
    LET projected == ((replay.residentBytes + a.retention.bytes) * 1000) \div CapacityBytes
        automatic == AutomaticAdmissionDecision(replay.tiny, a.key, a.retention,
                                                Min({projected, 1000}))
    IN  IF policy = "TinyLfu" THEN automatic
        ELSE [decision |-> [admit |-> TRUE, victim |-> NoKey], policy |-> replay.tiny]

AccessMiss(a) ==
    LET admission == Admission(a)
        s == [Ticked EXCEPT !.tiny = admission.policy]
        room == MakeRoom(s, a.retention.bytes, admission.decision.victim)
        fetched == Fetched(result, a.tier, a.retention)
        tried == admission.decision.admit /\ a.retention.bytes <= CapacityBytes
    IN  /\ Consume
        /\ a.key \notin Resident(replay)
        /\ availability[a.tier]
        /\ IF tried /\ ~room.stuck
           THEN /\ replay' = InsertObject(room.state, a.key, a.retention)
                /\ result' = [fetched EXCEPT !.admitted = @ + 1,
                                             !.evictions = @ + room.evicted]
           ELSE /\ replay' = IF tried THEN room.state ELSE s
                /\ result' = [fetched EXCEPT !.rejected = @ + 1,
                                !.evictions = @ + IF tried THEN room.evicted ELSE 0]
        /\ OracleAccess(a)
        /\ UNCHANGED <<policy, availability>>

Next ==
    \/ \E t \in Tiers : SourceFailed(t) \/ SourceRecovered(t)
    \/ \E a \in Accesses : AccessHit(a) \/ AccessUnavailable(a) \/ AccessMiss(a)

Spec == Init /\ [][Next]_vars

-----------------------------------------------------------------------------
(* Properties. *)

\* No online policy beats the oracle: the resident set the policy is in is one
\* the oracle has considered, at no greater cost, so that the least service time
\* of the oracle is a lower bound of the policy's.  oracle.rs:64-68 promises it
\* ("and therefore provides a lower bound for online admission and eviction
\* policies").
OracleIsLowerBound ==
    admissible =>
        /\ Resident(replay) \in DOMAIN oracle
        /\ ~Better(result, oracle[Resident(replay)])
        /\ oracle[OracleChoice].service <= result.service
=============================================================================
