-------------------------- MODULE CapacityPlanning --------------------------
(***************************************************************************)
(* How large a store must be, and how it keeps itself that small: the      *)
(* production worksheet (kvpack, capacity.rs) and the capacity maintenance *)
(* that the sized store then runs (store/gc/capacity.rs).                  *)
(*                                                                         *)
(* Thresholds are in thousandths.  An input of the worksheet   is a record *)
(* with the fields of CapacityWorksheetInput.  What maintenance can evict  *)
(* is a record [chunks, manifests]: the sizes of the chunk objects nothing *)
(* refers to, in eviction order, and the evictable manifests, each with    *)
(* its size and those of the chunks that only it refers to.                *)
(***************************************************************************)
EXTENDS Integers, Sequences, FiniteSets, SequencesExt, FiniteSetsExt

CONSTANTS
    U64Max,          \* the largest byte count; a larger result is an overflow
    WindowBytes,     \* PRODUCTION_GATEWAY_IN_FLIGHT_BYTES
    MaxConcurrency,  \* MAX_CAPACITY_CONCURRENCY
    VictimBatch,     \* EVICTION_VICTIM_BATCH
    Significand      \* 2^53: the values of an f64's significand

-----------------------------------------------------------------------------
(* The worksheet. *)

DurableTarget == 750
InternalTarget == 750
QuarantineMillis == 10
AmplificationLimit == 1300

\* A plausible bug: the quota is rounded down.
ScaleCeilDown(value, numerator, denominator) == (value * numerator) \div denominator

ScaleCeil(value, numerator, denominator) ==
    (value * numerator + denominator - 1) \div denominator

ScaleFloor(value, numerator, denominator) == (value * numerator) \div denominator

\* What `add` and `multiply` accept: a result that fits 64 bits.
Fits(value) == value <= U64Max

\* `validate`: the inputs that must be there, and the relations between them.
ValidInput(in) ==
    /\ 0 \notin {in.uniqueKv, in.rows, in.rowBytes, in.catalogFixed, in.wal, in.uploads,
                 in.uploadBytes, in.restores, in.planBytes, in.gateways, in.dailyKv,
                 in.peakObject, in.amplification, in.writeBudget, in.network,
                 in.networkTarget, in.backupBytes, in.generations}
    /\ {in.uploads, in.restores, in.pins} \subseteq 0 .. MaxConcurrency
    /\ in.fds <= in.pins
    /\ in.peakKv <= in.dailyKv
    /\ in.rowBytes <= 1048576 /\ in.gateways <= 65536 /\ in.generations <= 3650
    /\ in.amplification <= 10000
    /\ in.networkTarget <= 950

\* production_v1.  Every sum and product is checked: one that does not fit makes
\* the worksheet fail, and none saturates.
Worksheet(in) ==
    LET retained == in.uniqueKv + in.overhead
        staging == in.uploads * in.uploadBytes
        quota == Max({ScaleCeil(retained, 1000, DurableTarget), retained + staging})
        quarantine == ScaleFloor(quota, QuarantineMillis, 1000)
        catalog == in.catalogFixed + in.rows * in.rowBytes
        internal == ScaleCeil(2 * catalog + in.wal, 1000, InternalTarget)
        agents == in.restores * in.planBytes
        windows == in.gateways * WindowBytes
        dailyWrites == ScaleCeil(in.dailyKv, in.amplification, 1000)
        bits == ScaleCeil(8 * in.network, 1000, in.networkTarget)
        checked == {retained, staging, quota, quota + quarantine, catalog, 2 * catalog + in.wal,
                    internal, agents, windows, agents + windows, in.restores * in.pins,
                    in.restores * in.fds, dailyWrites,
                    ScaleCeil(in.peakKv, in.amplification, 1000), 8 * in.network, bits,
                    in.backupBytes * in.generations}
    IN  [ok |-> /\ ValidInput(in)
                /\ in.pinned <= retained
                /\ \A value \in checked : Fits(value),
         retained |-> retained, evictable |-> retained - in.pinned, staging |-> staging,
         quota |-> quota, filesystem |-> quota + quarantine, internal |-> internal,
         admission |-> agents + windows, pins |-> in.restores * in.pins,
         fds |-> in.restores * in.fds, networkBits |-> bits,
         withinBudget |-> dailyWrites <= in.writeBudget,
         withinGate |-> in.amplification <= AmplificationLimit]

-----------------------------------------------------------------------------
(* Maintenance. *)

\* UtilizationPolicy::default, and validate.
DefaultPolicy == [stop |-> 750, begin |-> 850, emergency |-> 920, stopPromotion |-> 950]

ValidPolicy(p) ==
    /\ p.stop < p.begin /\ p.begin < p.emergency /\ p.emergency < p.stopPromotion
    /\ p.stopPromotion <= 1000

\* The integer nearest to n / d, the even one of two.
NearestEven(n, d) ==
    LET q == n \div d
        r == n % d
    IN  IF 2 * r < d \/ (2 * r = d /\ q % 2 = 0) THEN q ELSE q + 1

\* The units an f64 is a multiple of: the powers of two up to Significand ^ 2.
Units ==
    LET powers == {u \in 1 .. Significand : Significand % u = 0}
    IN  powers \cup {Significand * u : u \in powers}

\* `n as f64`, and the result of an operation on f64s that is exactly n.
F64(n) ==
    LET unit == Min({u \in Units : n < u * Significand})
    IN  unit * NearestEven(n, unit)

\* The literals 0.5 to 1.0, and quotients of that size, in units of 1 / Significand.
Literal(millis) == NearestEven(millis * Significand, 1000)

Utilization(bytes, capacity) == NearestEven(F64(bytes) * Significand, F64(capacity))

\* `utilization >= threshold`, for a threshold of one half or more.
AtLeast(bytes, capacity, millis) == Utilization(bytes, capacity) >= Literal(millis)

\* `(capacity as f64 * policy.stop_eviction) as u64`
EvictionTarget(capacity, p) == F64(F64(capacity) * Literal(p.stop)) \div Significand

CachePressure(bytes, capacity, p) ==
    CASE AtLeast(bytes, capacity, p.stopPromotion) -> "PromotionStopped"
      [] ~AtLeast(bytes, capacity, p.stopPromotion) /\ AtLeast(bytes, capacity, p.emergency)
           -> "Emergency"
      [] ~AtLeast(bytes, capacity, p.emergency) /\ AtLeast(bytes, capacity, p.begin)
           -> "Evicting"
      [] OTHER -> "Normal"

SumOf(sizes) == FoldLeft(LAMBDA sum, size : sum + size, 0, sizes)

SaturatingSub(a, b) == IF a > b THEN a - b ELSE 0

\* One turn of the loop: a batch of unreferenced chunks, or else one manifest,
\* whose chunks the next turn can take; blocked when there is neither.
EvictTurn(s, target, maximum) ==
    LET n == Min({maximum - s.operations, VictimBatch, Len(s.chunks)})
    IN  IF s.blocked \/ s.durable <= target \/ s.operations >= maximum THEN s
        ELSE IF n > 0
        THEN [s EXCEPT !.chunks = SubSeq(@, n + 1, Len(@)),
                       !.durable = SaturatingSub(@, SumOf(SubSeq(s.chunks, 1, n))),
                       !.operations = @ + n, !.chunksEvicted = @ + n]
        ELSE IF s.manifests = << >> THEN [s EXCEPT !.blocked = TRUE]
        ELSE [s EXCEPT !.manifests = Tail(@),
                       !.chunks = Head(s.manifests).chunks,
                       !.durable = SaturatingSub(@, Head(s.manifests).bytes),
                       !.operations = @ + 1, !.manifestsEvicted = @ + 1]

\* maintain_capacity_impl: the report, and what is left.  `demotable` is what
\* one rung of the fidelity ladder would free; with the ladder on, a call that
\* demotes evicts nothing.
MaintainCapacity(durable, reserved, evictable, capacity, p, maximum, ladder, demotable) ==
    LET before == durable + reserved
        target == EvictionTarget(capacity, p)
        targetDurable == SaturatingSub(target, reserved)
        start == [durable |-> durable, chunks |-> evictable.chunks,
                  manifests |-> evictable.manifests, operations |-> 0, chunksEvicted |-> 0,
                  manifestsEvicted |-> 0, blocked |-> FALSE]
        turn[n \in 0 .. maximum + 1] ==
            IF n = 0 THEN start
            ELSE LET prev == turn[n - 1] IN EvictTurn(prev, targetDurable, maximum)
        last == turn[maximum + 1]
        report(s, blocked) ==
            [before |-> before, after |-> s.durable + reserved, blocked |-> blocked,
             chunks |-> s.chunksEvicted, manifests |-> s.manifestsEvicted,
             operations |-> s.operations, emergency |-> AtLeast(before, capacity, p.emergency)]
        demoted == [start EXCEPT !.durable = SaturatingSub(@, demotable)]
    IN  IF ~AtLeast(before, capacity, p.begin) THEN report(start, FALSE)
        ELSE IF ladder /\ durable > targetDurable /\ demotable > 0
        THEN report(demoted, demoted.durable + reserved > target)
        ELSE report(last, \/ last.blocked
                          \/ last.operations = maximum /\ last.durable + reserved > target)

-----------------------------------------------------------------------------
\* A store with the quota of its worksheet keeps what it was sized for, when an
\* f64 holds the quota exactly (it is below 2^53 bytes).  While the store holds
\* only the retained bytes maintenance does nothing, and every concurrent upload
\* still fits.  While uploads reserve nothing, a surplus of unreferenced chunks
\* never costs a retained manifest: the 75 % of the worksheet, rounded up in
\* integers (capacity.rs:11), are the 75 % at which eviction stops, rounded in
\* f64 and truncated (store/gc/capacity.rs:16, 180).  Under any load eviction
\* begins less than a byte before 85 % (168-170), stops as soon as the target is
\* met or only the reservations are left, one batch late at the most, and says so
\* with `blocked` when it could not.
MaintenanceKeepsRetained(in, surplus, reserved, manifests, maximum) ==
    LET w == Worksheet(in)
        idle == MaintainCapacity(w.retained, 0, [chunks |-> << >>, manifests |-> manifests],
                                 w.quota, DefaultPolicy, maximum, FALSE, 0)
        busy == MaintainCapacity(w.retained + SumOf(surplus), reserved,
                                 [chunks |-> surplus, manifests |-> manifests],
                                 w.quota, DefaultPolicy, maximum, FALSE, 0)
        target == EvictionTarget(w.quota, DefaultPolicy)
        largest == Max({0} \cup {surplus[i] : i \in DOMAIN surplus}
                       \cup UNION {{manifests[i].bytes} \cup Range(manifests[i].chunks) :
                                      i \in DOMAIN manifests})
    IN  w.ok /\ w.quota < Significand =>
        /\ idle.operations = 0 /\ idle.after = w.retained
        /\ w.retained + w.staging <= w.quota
        /\ reserved = 0 => busy.manifests = 0
        /\ busy.operations > 0 =>
             /\ (busy.before + 1) * 1000 > w.quota * DefaultPolicy.begin
             /\ busy.operations <= maximum
             /\ busy.after + VictimBatch * largest > target
             /\ busy.after > Max({target, reserved}) => busy.blocked
=============================================================================
