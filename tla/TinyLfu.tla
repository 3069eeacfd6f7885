------------------------------ MODULE TinyLfu ------------------------------
(***************************************************************************)
(* The TinyLFU retention policy of the store (store/policy.rs) as a pure   *)
(* data structure: every operator takes the policy's state, a record, and  *)
(* returns the next one.  It is the policy that the live store locks for   *)
(* each call, and the one that the offline replay (CacheReplay) drives.    *)
(*                                                                         *)
(* A key is a natural number, so that ties are broken as the code breaks   *)
(* them, by the order of the keys.  The count-min sketch keeps its cells:  *)
(* two keys may share some of theirs.  The accesses waiting to be written  *)
(* to the catalog (`pending`) are not part of this state: no decision      *)
(* reads them.                                                             *)
(***************************************************************************)
EXTENDS Integers, Sequences, FiniteSets, SequencesExt, FiniteSetsExt

CONSTANTS
    Keys,                    \* object keys
    SketchCells,             \* the cells of the sketch that a key hashes to
    CapacityBytes,           \* TinyLfuConfig::capacity_bytes
    ResetAfterAccesses,      \* TinyLfuConfig::reset_after_accesses
    ProtectedFractionMillis, \* TinyLfuConfig::protected_fraction_millis
    MaxCounter,              \* what a sketch counter saturates at (u16::MAX)
    NsPerSecond              \* the unit of promotion_ns

\* TinyLfuConfig::production and TinyLfuPolicy::new refuse every other value.
ValidConfig ==
    /\ CapacityBytes \in Nat \ {0}
    /\ ResetAfterAccesses \in Nat \ {0}
    /\ ProtectedFractionMillis \in 0 .. 1000

ASSUME ConfigAssumption ==
    /\ ValidConfig
    /\ Keys \subseteq Nat \ {0} /\ IsFiniteSet(Keys)
    /\ \A k \in Keys : SketchCells[k] # {} /\ IsFiniteSet(SketchCells[k])
    /\ MaxCounter \in Nat \ {0} /\ NsPerSecond \in Nat \ {0}

Cells == UNION {SketchCells[k] : k \in Keys}

\* saturating_sub.
Monus(a, b) == IF a > b THEN a - b ELSE 0

-----------------------------------------------------------------------------
(* What an object is worth. *)

ValidRetention(r) ==
    /\ r.predictedReuse <= 1000
    /\ r.bytes # 0
    /\ r.shared <= r.bytes

MarginalBytes(r) == Max({Monus(r.bytes, r.shared), 1})

\* The time to promote the object, rounded up.
PromotionNs(r) ==
    IF r.bandwidth = 0 THEN 0
    ELSE (r.bytes * NsPerSecond + r.bandwidth - 1) \div r.bandwidth

Score(frequency, r) ==
    LET benefit == Monus(Monus(Monus(r.avoidedPrefill, r.bestRestore),
                               PromotionNs(r)), r.interference)
        effective == Max({MarginalBytes(r) + r.wear, 1})
    IN  IF r.bytes = 0 \/ r.predictedReuse = 0 \/ benefit = 0 THEN 0
        ELSE Max({1, ((frequency * r.predictedReuse * benefit) \div 1000)
                        \div effective})

-----------------------------------------------------------------------------
(* The queues and the sketch. *)

RemoveKey(queue, k) == RemoveFirst(queue, k)

Touch(queue, k) == Append(RemoveKey(queue, k), k)

Increment(p, k) ==
    [p EXCEPT !.sketch = [c \in Cells |->
        IF c \in SketchCells[k] THEN Min({p.sketch[c] + 1, MaxCounter})
                                ELSE p.sketch[c]]]

Estimate(p, k) == Min({p.sketch[c] : c \in SketchCells[k]})

NewPolicy ==
    [sketch |-> [c \in Cells |-> 0], accesses |-> 0, entries |-> << >>,
     probationary |-> << >>, protected |-> << >>, protectedBytes |-> 0]

BytesOf(p, queue) == FoldSeq(LAMBDA k, sum : p.entries[k].bytes + sum, 0, queue)

ProtectedBound == (CapacityBytes * ProtectedFractionMillis) \div 1000

\* The oldest protected objects go back to the probationary queue until the
\* protected bytes fit their bound.
DemoteProtectedOverflow(p) ==
    LET n == CHOOSE i \in 0 .. Len(p.protected) :
                /\ \/ Monus(p.protectedBytes, BytesOf(p, SubSeq(p.protected, 1, i)))
                        <= ProtectedBound
                   \/ i = Len(p.protected)
                /\ \A j \in 0 .. i - 1 :
                     Monus(p.protectedBytes, BytesOf(p, SubSeq(p.protected, 1, j)))
                        > ProtectedBound
        demoted == SubSeq(p.protected, 1, n)
    IN  [p EXCEPT
            !.entries = [k \in DOMAIN p.entries |->
                IF k \in Range(demoted)
                THEN [p.entries[k] EXCEPT !.segment = "Probationary"]
                ELSE p.entries[k]],
            !.protected = SubSeq(p.protected, n + 1, Len(p.protected)),
            !.probationary = p.probationary \o demoted,
            !.protectedBytes = Monus(p.protectedBytes, BytesOf(p, demoted))]

Age(p) ==
    [p EXCEPT
        !.sketch = [c \in Cells |-> p.sketch[c] \div 2],
        !.accesses = 0,
        !.entries = [k \in DOMAIN p.entries |->
            LET e == p.entries[k]
                f == Max({e.frequency \div 2, 1})
            IN  [e EXCEPT !.frequency = f, !.score = Score(f, e.retention)]]]

AgeIfDue(p) == IF p.accesses >= ResetAfterAccesses THEN Age(p) ELSE p

-----------------------------------------------------------------------------
(* The policy's operations. *)

PolicyEntry(bytes, r, frequency, segment, now) ==
    [bytes |-> bytes, retention |-> r, frequency |-> frequency,
     score |-> Score(frequency, r), segment |-> segment, lastAccess |-> now]

RegisterWithRetention(p, k, r, now) ==
    IF k \in DOMAIN p.entries \/ ~ValidRetention(r) THEN p
    ELSE LET f == Max({Estimate(p, k), 1})
         IN  [p EXCEPT
                !.entries = (k :> PolicyEntry(r.bytes, r, f, "Probationary", now)) @@ @,
                !.probationary = Append(@, k)]

\* An object keeps the size it was registered with, whatever the access says.
\* The second access the sketch counts moves it to the protected queue.
RecordAccessWithRetention(p, k, given, now) ==
    LET known == k \in DOMAIN p.entries
        bytes == IF known THEN p.entries[k].bytes ELSE given.bytes
        r == [given EXCEPT !.bytes = bytes, !.shared = Min({@, bytes})]
        q == Increment(p, k)
        f == Max({Estimate(q, k), 1})
        probationary == ~known \/ p.entries[k].segment = "Probationary"
        promoted == probationary /\ f >= 2
        segment == IF probationary /\ ~promoted THEN "Probationary" ELSE "Protected"
        moved == [q EXCEPT
            !.entries = (k :> PolicyEntry(bytes, r, f, segment, now)) @@ @,
            !.probationary = CASE promoted -> RemoveKey(@, k)
                               [] probationary /\ ~promoted -> Touch(@, k)
                               [] OTHER -> @,
            !.protected = CASE promoted -> Append(@, k)
                            [] probationary /\ ~promoted -> @
                            [] OTHER -> Touch(@, k),
            !.protectedBytes = IF promoted THEN @ + bytes ELSE @,
            !.accesses = @ + 1]
    IN  IF ~ValidRetention(given) THEN p
        ELSE AgeIfDue(DemoteProtectedOverflow(moved))

\* The order of (score, last access, key).
EntryBefore(p, j, k) ==
    LET e == p.entries[j]
        f == p.entries[k]
    IN  \/ e.score < f.score
        \/ e.score = f.score /\ e.lastAccess < f.lastAccess
        \/ e.score = f.score /\ e.lastAccess = f.lastAccess /\ j <= k

LeastEntry(p, ks) == CHOOSE j \in ks : \A k \in ks : EntryBefore(p, j, k)

\* No object: keys are positive.
NoKey == 0

\* [admit, victim]: what an upload may do at this utilization.
AdmissionDecisionWithRetention(p, k, r, utilizationMillis) ==
    LET probationary == Range(p.probationary) \cap DOMAIN p.entries
        candidate == Score(Max({Estimate(p, k), 1}), r)
        victim == LeastEntry(p, probationary)
    IN  IF utilizationMillis >= 950 THEN [admit |-> FALSE, victim |-> NoKey]
        ELSE IF utilizationMillis < 850 \/ probationary = {}
        THEN [admit |-> TRUE, victim |-> NoKey]
        ELSE IF candidate > p.entries[victim].score
        THEN [admit |-> TRUE, victim |-> victim]
        ELSE [admit |-> FALSE, victim |-> NoKey]

\* Deciding about an admission counts as an access of the candidate.
AutomaticAdmissionDecision(p, k, r, utilizationMillis) ==
    LET q == [Increment(p, k) EXCEPT !.accesses = @ + 1]
    IN  [decision |-> AdmissionDecisionWithRetention(q, k, r, utilizationMillis),
         policy |-> AgeIfDue(q)]

\* A protected object is a victim only when no probationary one is left.
Victim(p) ==
    LET probationary == Range(p.probationary) \cap DOMAIN p.entries
        protected == Range(p.protected) \cap DOMAIN p.entries
        atRisk == IF probationary # {} THEN probationary ELSE protected
    IN  IF atRisk = {} THEN NoKey ELSE LeastEntry(p, atRisk)

RemoveObject(p, k) ==
    [p EXCEPT
        !.entries = [j \in DOMAIN @ \ {k} |-> p.entries[j]],
        !.probationary = RemoveKey(@, k),
        !.protected = RemoveKey(@, k),
        !.protectedBytes =
            IF k \in DOMAIN p.entries /\ p.entries[k].segment = "Protected"
            THEN Monus(@, p.entries[k].bytes) ELSE @]
=============================================================================
