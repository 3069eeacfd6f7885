------------------------ MODULE StoreServices_proofs ------------------------
(***************************************************************************)
(* Proofs about StoreServices and the audit outbox it extends, for any     *)
(* number of handles and any limits; at the end those about the fills of   *)
(* SingleflightFill, for any number of callers.                            *)
(***************************************************************************)
EXTENDS StoreServices, SingleflightFill, FiniteSetTheorems, TLAPS

-----------------------------------------------------------------------------
(* Facts about the operators. *)

(* A set of naturals has a least element, and a bounded one a greatest. *)
LEMMA LeastNatural ==
  ASSUME NEW T \in SUBSET Nat, T # {}
  PROVE  \E x \in T : \A y \in T : x <= y
<1>1. \E x \in T : \A y \in T : ~(<<y, x>> \in OpToRel(<, Nat))
  BY WFMin, NatLessThanWellFounded
<1>2. PICK x \in T : \A y \in T : ~(<<y, x>> \in OpToRel(<, Nat))
  BY <1>1
<1>3. \A y \in T : ~(y < x)
  BY <1>2 DEF OpToRel
<1> QED
  BY <1>3

(* A non-empty set of naturals with an upper bound has a greatest element. *)
LEMMA GreatestNatural ==
  ASSUME NEW T \in SUBSET Nat, T # {}, NEW n \in Nat, \A x \in T : x <= n
  PROVE  \E x \in T : \A y \in T : y <= x
<1> DEFINE D == {m \in Nat : \E x \in T : m = n - x}
<1>1. D \in SUBSET Nat /\ D # {}
  <2>1. PICK x \in T : TRUE
    OBVIOUS
  <2>2. n - x \in D
    BY <2>1
  <2> QED
    BY <2>2
<1>2. PICK d \in D : \A e \in D : d <= e
  <2> HIDE DEF D
  <2> QED
    BY <1>1, LeastNatural
<1>3. PICK x \in T : d = n - x
  BY <1>2
<1>4. ASSUME NEW y \in T PROVE y <= x
  <2>1. n - y \in D
    <3>1. n - y \in Nat
      BY <1>4
    <3> QED
      BY <1>4, <3>1
  <2>2. d <= n - y
    <3> HIDE DEF D
    <3> QED
      BY <1>2, <2>1
  <2>3. x \in Nat /\ y \in Nat
    OBVIOUS
  <2> QED
    BY <1>3, <2>2, <2>3
<1> QED
  BY <1>4

(* The rank of an element in a set of naturals. *)
Rank(T, i) == Cardinality({j \in T : j <= i})

(* The ranks number the elements of a finite set from one: each has its own number,
   and every number is used. *)
LEMMA RankFact ==
  ASSUME NEW T \in SUBSET Nat, IsFiniteSet(T)
  PROVE  /\ Cardinality(T) \in Nat
         /\ \A i \in T : Rank(T, i) \in 1 .. Cardinality(T)
         /\ \A i, j \in T : Rank(T, i) = Rank(T, j) => i = j
         /\ \A k \in 1 .. Cardinality(T) : \E i \in T : Rank(T, i) = k
<1> DEFINE Low(i) == {j \in T : j <= i}
<1>0. Cardinality(T) \in Nat
  BY FS_CardinalityType
<1>1. ASSUME NEW i \in T
      PROVE  /\ IsFiniteSet(Low(i)) /\ Cardinality(Low(i)) \in Nat
             /\ Cardinality(Low(i)) <= Cardinality(T) /\ Cardinality(Low(i)) # 0
  <2>1. Low(i) \in SUBSET T /\ i \in Low(i)
    OBVIOUS
  <2> HIDE DEF Low
  <2>2. IsFiniteSet(Low(i)) /\ Cardinality(Low(i)) <= Cardinality(T)
    BY <2>1, FS_Subset
  <2>3. Cardinality(Low(i)) \in Nat
    BY <2>2, FS_CardinalityType
  <2>4. Cardinality(Low(i)) # 0
    BY <2>1, <2>2, FS_EmptySet
  <2> QED
    BY <2>2, <2>3, <2>4
<1>2. ASSUME NEW i \in T PROVE Rank(T, i) \in 1 .. Cardinality(T)
  BY <1>0, <1>1 DEF Rank
<1>3. ASSUME NEW i \in T, NEW j \in T, i < j PROVE Rank(T, i) # Rank(T, j)
  <2>0. i \in Nat /\ j \in Nat /\ \A x \in T : x \in Nat
    OBVIOUS
  <2>1. Low(i) \in SUBSET Low(j) /\ j \in Low(j) /\ j \notin Low(i)
    <3>1. ASSUME NEW x \in Low(i) PROVE x \in Low(j)
      <4>1. x \in T /\ x <= i /\ x \in Nat
        OBVIOUS
      <4>2. x <= j
        BY <1>3, <2>0, <4>1
      <4> QED
        BY <4>1, <4>2
    <3>2. j \in Low(j) /\ j \notin Low(i)
      BY <1>3, <2>0
    <3> QED
      BY <3>1, <3>2
  <2>2. Low(i) # Low(j)
    BY <2>1
  <2>3. Cardinality(Low(j)) = Cardinality(Low(i)) => Low(j) = Low(i)
    BY <1>1, <2>1, FS_Subset
  <2> QED
    BY <2>2, <2>3 DEF Rank
<1>4. ASSUME NEW i \in T, NEW j \in T, Rank(T, i) = Rank(T, j) PROVE i = j
  BY <1>3, <1>4
<1>5. \A k \in 1 .. Cardinality(T) : \E i \in T : Rank(T, i) = k
  <2> DEFINE f == [i \in T |-> Rank(T, i)]
             U == 1 .. Cardinality(T)
  <2>1. f \in Injection(T, U)
    BY <1>2, <1>4 DEF Injection, IsInjective
  <2>2. IsFiniteSet(U) /\ Cardinality(U) = Cardinality(T)
    BY <1>0, FS_Interval
  <2>3. f \in Surjection(T, U)
    <3> HIDE DEF f, U
    <3> QED
      BY <2>1, <2>2, FS_Injection
  <2> QED
    BY <2>3 DEF Surjection
<1> QED
  BY <1>0, <1>2, <1>4, <1>5

(* SetToSeq lists every element of a finite set. *)
LEMMA SetToSeqFact ==
  ASSUME NEW S, IsFiniteSet(S)
  PROVE  /\ SetToSeq(S) \in Seq(S)
         /\ \A x \in S : \E i \in DOMAIN SetToSeq(S) : SetToSeq(S)[i] = x
<1> DEFINE n == Cardinality(S)
           q == SetToSeq(S)
<1>1. n \in Nat /\ ExistsBijection(1 .. n, S)
  BY FS_CardinalityType
<1>2. PICK b : b \in Bijection(1 .. n, S)
  BY <1>1 DEF ExistsBijection
<1>3. b \in [1 .. n -> S] /\ IsInjective(b)
  BY <1>2 DEF Bijection, Injection
<1>4. q \in [1 .. n -> S] /\ IsInjective(q)
  BY <1>3 DEF SetToSeq
<1>5. q \in Injection(1 .. n, S)
  BY <1>4 DEF Injection
<1>6. IsFiniteSet(1 .. n) /\ Cardinality(1 .. n) = n
  BY <1>1, FS_Interval
<1>7. q \in Surjection(1 .. n, S)
  <2> HIDE DEF q
  <2> QED
    BY <1>5, <1>6, FS_Injection
<1>8. \A x \in S : \E i \in 1 .. n : q[i] = x
  BY <1>7 DEF Surjection
<1>9. q \in Seq(S)
  <2> HIDE DEF q, n
  <2> QED
    BY <1>1, <1>4
<1> QED
  <2> HIDE DEF q, n
  <2>1. DOMAIN q = 1 .. n
    BY <1>4
  <2>2. \A x \in S : \E i \in DOMAIN q : q[i] = x
    BY <1>8, <2>1
  <2> QED
    BY <1>9, <2>2 DEF q

-----------------------------------------------------------------------------
(* The outbox. *)

(* What an event is: a state change of an upload, a file or an object. *)
Event ==
    ({"verified", "published"} \X Uploads)
      \cup ({"quarantined", "collected"} \X Files)
      \cup ({"tombstoned"} \X {"manifest", "chunk"} \X (Cuts \X Epochs))

(* Rows are numbered by the events, and an exporter that published its batch has it in a
   segment that was on disk. *)
OutboxOK ==
    /\ events \in Seq(Event)
    /\ DOMAIN outbox \subseteq 1 .. Len(events)
    /\ \A s \in DOMAIN outbox : outbox[s] \in BOOLEAN
    /\ exporting \in [Stores -> {"idle", "loaded", "published", "exported"}]
    /\ DOMAIN batch = Stores
    /\ \A p \in Stores : exporting[p] \in {"published", "exported"} => Span(batch[p]) \subseteq everOut

AuditInv == OutboxOK /\ NothingUnexportedLost /\ PendingBounded

(* What preflight counts is a sequence of events, and an event that is not yet recorded is
   in it. *)
LEMMA NewEventsFact ==
  ASSUME OutboxOK, NEW evs \in Seq(Event)
  PROVE  /\ NewEvents(evs) \in Seq(Event)
         /\ \A i \in DOMAIN evs :
              Recorded(evs[i]) \/ \E k \in DOMAIN NewEvents(evs) : NewEvents(evs)[k] = evs[i]
<1> DEFINE new == {i \in DOMAIN evs : FirstOf(evs, i) /\ ~Recorded(evs[i])}
           Pick(k) == CHOOSE i \in new : Rank(new, i) = k
           q == NewEvents(evs)
<1>1. DOMAIN evs = 1 .. Len(evs) /\ Len(evs) \in Nat
  OBVIOUS
<1>2. new \in SUBSET Nat /\ new \in SUBSET (1 .. Len(evs)) /\ IsFiniteSet(new)
  <2>1. new \in SUBSET Nat /\ new \in SUBSET (1 .. Len(evs))
    BY <1>1
  <2>2. IsFiniteSet(1 .. Len(evs))
    BY <1>1, FS_Interval
  <2> HIDE DEF new
  <2> QED
    BY <2>1, <2>2, FS_Subset
<1>3. q = [k \in 1 .. Cardinality(new) |-> evs[Pick(k)]]
  BY DEF NewEvents, Rank
<1>4. /\ Cardinality(new) \in Nat
      /\ \A i \in new : Rank(new, i) \in 1 .. Cardinality(new)
      /\ \A i, j \in new : Rank(new, i) = Rank(new, j) => i = j
      /\ \A k \in 1 .. Cardinality(new) : \E i \in new : Rank(new, i) = k
  <2> HIDE DEF new
  <2> QED
    BY <1>2, RankFact
<1>5. \A k \in 1 .. Cardinality(new) : Pick(k) \in new /\ Rank(new, Pick(k)) = k
  <2> HIDE DEF new
  <2> QED
    BY <1>4
<1>6. q \in Seq(Event)
  <2>1. \A k \in 1 .. Cardinality(new) : evs[Pick(k)] \in Event
    <3>1. \A i \in 1 .. Len(evs) : evs[i] \in Event
      OBVIOUS
    <3> HIDE DEF new, Pick
    <3>2. \A k \in 1 .. Cardinality(new) : Pick(k) \in 1 .. Len(evs)
      BY <1>2, <1>5
    <3> QED
      BY <3>1, <3>2
  <2> HIDE DEF new, Pick, q
  <2> QED
    BY <1>3, <1>4, <2>1
<1>7. ASSUME NEW i \in new PROVE \E k \in DOMAIN q : q[k] = evs[i]
  <2>1. Rank(new, i) \in 1 .. Cardinality(new) /\ Pick(Rank(new, i)) = i
    <3> HIDE DEF new
    <3> QED
      BY <1>4, <1>5, <1>7
  <2>2. DOMAIN q = 1 .. Cardinality(new) /\ q[Rank(new, i)] = evs[Pick(Rank(new, i))]
    <3> HIDE DEF new, Pick, q
    <3> QED
      BY <1>3, <2>1
  <2> QED
    <3> HIDE DEF new, Pick, q
    <3> QED
      BY <2>1, <2>2
<1>8. ASSUME NEW i \in DOMAIN evs, ~Recorded(evs[i])
      PROVE  \E k \in DOMAIN q : q[k] = evs[i]
  <2> DEFINE T == {j \in DOMAIN evs : evs[j] = evs[i]}
  <2>1. T \in SUBSET Nat /\ T # {}
    BY <1>1, <1>8
  <2>2. PICK j \in T : \A x \in T : j <= x
    <3> HIDE DEF T
    <3> QED
      BY <2>1, LeastNatural
  <2>3. FirstOf(evs, j)
    <3>1. ASSUME NEW x \in 1 .. (j - 1), evs[x] = evs[j] PROVE FALSE
      <4>1. j \in 1 .. Len(evs) /\ evs[j] = evs[i]
        BY <1>1, <2>2
      <4>2. x \in T /\ x < j
        BY <1>1, <3>1, <4>1
      <4> QED
        BY <2>2, <4>1, <4>2
    <3> QED
      BY <3>1 DEF FirstOf
  <2>4. j \in new /\ evs[j] = evs[i]
    BY <1>8, <2>2, <2>3
  <2> HIDE DEF new, q
  <2> QED
    BY <1>7, <2>4
<1> QED
  <2> HIDE DEF q
  <2>1. \A i \in DOMAIN evs : Recorded(evs[i]) \/ \E k \in DOMAIN q : q[k] = evs[i]
    BY <1>8
  <2> QED
    BY <1>6, <2>1 DEF q

(* The pending rows are finitely many. *)
LEMMA PendingFinite ==
  ASSUME OutboxOK
  PROVE  IsFiniteSet(Pending) /\ Cardinality(Pending) \in Nat
<1>1. Len(events) \in Nat /\ Pending \in SUBSET (1 .. Len(events))
  BY DEF OutboxOK, Pending
<1>2. IsFiniteSet(1 .. Len(events))
  BY <1>1, FS_Interval
<1> QED
  BY <1>1, <1>2, FS_Subset, FS_CardinalityType

(* An append that passed preflight keeps the events there were, adds those not recorded,
   and loses and overfills nothing. *)
LEMMA AppendKeeps ==
  ASSUME AuditInv, NEW evs \in Seq(Event), PreflightReady(evs), AppendEvents(evs)
  PROVE  /\ AuditInv'
         /\ \A s \in DOMAIN events : s \in DOMAIN events' /\ events'[s] = events[s]
         /\ \A i \in DOMAIN evs : \E s \in DOMAIN events' : events'[s] = evs[i]
<1> DEFINE new == NewEvents(evs)
           n == Len(events)
           m == Len(new)
<1>0. OutboxOK
  BY DEF AuditInv
<1>1. new \in Seq(Event) /\ events \in Seq(Event) /\ n \in Nat /\ m \in Nat
  BY <1>0, NewEventsFact DEF OutboxOK
<1>2. /\ events' = events \o new
      /\ outbox' = [s \in DOMAIN outbox \cup (n + 1 .. Len(events \o new)) |-> s \in Delivered]
      /\ UNCHANGED <<exporting, batch, everOut>>
  BY DEF AppendEvents, next_sequence
<1> HIDE DEF new
<1>3. /\ events' \in Seq(Event) /\ Len(events') = n + m
      /\ \A s \in 1 .. n : events'[s] = events[s]
      /\ \A k \in 1 .. m : events'[n + k] = new[k]
      /\ DOMAIN events = 1 .. n /\ DOMAIN events' = 1 .. n + m /\ DOMAIN new = 1 .. m
      /\ n = Len(events) /\ m = Len(new)
  BY <1>1, <1>2
<1>4. /\ DOMAIN outbox' = DOMAIN outbox \cup (n + 1 .. n + m)
      /\ \A s \in DOMAIN outbox' : outbox'[s] = (s \in Delivered)
  BY <1>1, <1>2, <1>3
<1> HIDE DEF n, m
<1>5. OutboxOK'
  <2>1. DOMAIN outbox' \subseteq 1 .. n + m
    <3>1. DOMAIN outbox \subseteq 1 .. n
      BY <1>0, <1>3 DEF OutboxOK
    <3> QED
      BY <1>1, <1>4, <3>1
  <2>2. \A s \in DOMAIN outbox' : outbox'[s] \in BOOLEAN
    <3>1. \A s : (s \in Delivered) \in BOOLEAN
      OBVIOUS
    <3> QED
      BY <1>4, <3>1, Zenon
  <2>3. /\ exporting' \in [Stores -> {"idle", "loaded", "published", "exported"}]
        /\ DOMAIN batch' = Stores
        /\ \A p \in Stores : exporting'[p] \in {"published", "exported"}
                                => Span(batch'[p]) \subseteq everOut'
    BY <1>0, <1>2 DEF OutboxOK
  <2>4. events' \in Seq(Event) /\ DOMAIN outbox' \subseteq 1 .. Len(events')
    BY <1>3, <2>1
  <2> QED
    BY <2>2, <2>3, <2>4 DEF OutboxOK
<1>6. Pending' = Pending \cup (n + 1 .. n + m)
  <2>1. \A s \in DOMAIN outbox : s \in 1 .. n /\ outbox[s] \in BOOLEAN
    BY <1>0, <1>3 DEF OutboxOK
  <2>2. \A s \in n + 1 .. n + m : s \notin Delivered
    BY <1>1, <2>1 DEF Delivered
  <2> QED
    BY <1>4, <2>1, <2>2 DEF Pending, Delivered
<1>7. NothingUnexportedLost'
  <2>1. ASSUME NEW s \in DOMAIN events' PROVE s \in Pending' \/ s \in everOut'
    <3>1. s \in 1 .. n \/ s \in n + 1 .. n + m
      BY <1>1, <1>3, <2>1
    <3>2. s \in 1 .. n => s \in Pending \/ s \in everOut
      BY <1>3 DEF AuditInv, NothingUnexportedLost
    <3> QED
      BY <1>2, <1>6, <3>1, <3>2
  <2> QED
    BY <2>1 DEF NothingUnexportedLost
<1>8. PendingBounded'
  <2>1. IsFiniteSet(Pending) /\ Cardinality(Pending) \in Nat
    BY <1>0, PendingFinite
  <2>2. IsFiniteSet(n + 1 .. n + m) /\ Cardinality(n + 1 .. n + m) = m
    BY <1>1, FS_Interval
  <2>3. Pending \cap (n + 1 .. n + m) = {}
    BY <1>0, <1>1, <1>3 DEF OutboxOK, Pending
  <2>4. Cardinality(Pending \cup (n + 1 .. n + m)) = Cardinality(Pending) + m
    <3> DEFINE I == n + 1 .. n + m
    <3>1. Cardinality(Pending \cup I) = Cardinality(Pending) + m - Cardinality({})
      <4> HIDE DEF I
      <4>1. Cardinality(Pending \cup I) =
              Cardinality(Pending) + Cardinality(I) - Cardinality(Pending \cap I)
        BY <2>1, <2>2, FS_Union DEF I
      <4> QED
        BY <2>2, <2>3, <4>1 DEF I
    <3> QED
      <4>1. Cardinality({}) = 0
        BY FS_EmptySet
      <4> QED
        BY <1>1, <2>1, <3>1, <4>1
  <2> QED
    BY <1>3, <1>6, <2>4 DEF PendingBounded, PreflightReady, new
<1>9. ASSUME NEW i \in DOMAIN evs PROVE \E s \in DOMAIN events' : events'[s] = evs[i]
  <2>1. CASE Recorded(evs[i])
    <3>1. PICK s \in DOMAIN outbox : events[s] = evs[i]
      BY <2>1 DEF Recorded
    <3>2. s \in 1 .. n
      BY <1>0, <1>3 DEF OutboxOK
    <3>3. s \in 1 .. n + m
      BY <1>1, <3>2
    <3> QED
      BY <1>3, <3>1, <3>2, <3>3
  <2>2. CASE \E k \in DOMAIN new : new[k] = evs[i]
    <3>1. PICK k \in 1 .. m : new[k] = evs[i]
      BY <1>3, <2>2
    <3>2. n + k \in 1 .. n + m
      BY <1>1
    <3>3. events'[n + k] = evs[i]
      BY <1>3, <3>1
    <3> QED
      BY <1>3, <3>2, <3>3
  <2> QED
    BY <1>0, <2>1, <2>2, NewEventsFact DEF new
<1>10. \A s \in DOMAIN events : s \in DOMAIN events' /\ events'[s] = events[s]
  BY <1>1, <1>3
<1> QED
  BY <1>5, <1>7, <1>8, <1>9, <1>10 DEF AuditInv

(* A handle gives up its export: it failed, was refused, or its process died. *)
GivesUp(p) ==
    /\ exporting' = [exporting EXCEPT ![p] = "idle"]
    /\ batch' = [batch EXCEPT ![p] = NoBatch]
    /\ UNCHANGED <<outbox, events, segments, everOut, lapsed>>

(* Every step of an exporter keeps the outbox. *)
LEMMA ExportKeeps ==
  ASSUME AuditInv, NEW p \in Stores
  PROVE  ExportStep(p) \/ ExportFails(p) \/ GivesUp(p) => AuditInv' /\ UNCHANGED events
<1>0. /\ OutboxOK /\ NothingUnexportedLost /\ PendingBounded
      /\ exporting \in [Stores -> {"idle", "loaded", "published", "exported"}]
      /\ DOMAIN batch = Stores
  BY DEF AuditInv, OutboxOK
<1>1. ASSUME UNCHANGED <<outbox, events>>, everOut \subseteq everOut', OutboxOK'
      PROVE  AuditInv' /\ UNCHANGED events
  <2>1. Pending' = Pending
    BY <1>1 DEF Pending
  <2> QED
    BY <1>0, <1>1, <2>1 DEF AuditInv, NothingUnexportedLost, PendingBounded
<1>2. ASSUME NEW n \in 1 .. MaxBatch, LoadBatch(p, n) PROVE AuditInv' /\ UNCHANGED events
  <2>1. OutboxOK'
    BY <1>0, <1>2 DEF LoadBatch, OutboxOK
  <2> QED
    BY <1>1, <1>2, <2>1 DEF LoadBatch
<1>3. ASSUME PublishSegment(p) PROVE AuditInv' /\ UNCHANGED events
  <2>1. OutboxOK'
    BY <1>0, <1>3 DEF PublishSegment, OutboxOK
  <2> QED
    BY <1>1, <1>3, <2>1 DEF PublishSegment
<1>4. ASSUME PruneSegments(p) PROVE AuditInv' /\ UNCHANGED events
  <2>1. OutboxOK'
    BY <1>0, <1>4 DEF PruneSegments, OutboxOK
  <2> QED
    BY <1>1, <1>4, <2>1 DEF PruneSegments
<1>5. ASSUME ExportFails(p) \/ GivesUp(p) \/ AcknowledgeRefused(p)
      PROVE  AuditInv' /\ UNCHANGED events
  <2>1. OutboxOK'
    BY <1>0, <1>5 DEF ExportFails, GivesUp, AcknowledgeRefused, OutboxOK
  <2> QED
    BY <1>1, <1>5, <2>1 DEF ExportFails, GivesUp, AcknowledgeRefused
<1>6. ASSUME Acknowledge(p) PROVE AuditInv' /\ UNCHANGED events
  <2> DEFINE acked == [s \in DOMAIN outbox |-> outbox[s] \/ s \in Span(batch[p])]
  <2>1. PICK expired \in {{}, Delivered} :
          outbox' = [s \in DOMAIN outbox \ PrunedRows(acked, expired) |-> acked[s]]
    BY <1>6 DEF Acknowledge
  <2> DEFINE gone == PrunedRows(acked, expired)
  <2>2. UNCHANGED <<events, everOut>> /\ exporting[p] = "exported"
    BY <1>6 DEF Acknowledge
  <2>3. Span(batch[p]) \subseteq everOut
    BY <1>0, <2>2 DEF OutboxOK
  <2>4. \A s \in DOMAIN outbox : outbox[s] \in BOOLEAN /\ acked[s] = (outbox[s] \/ s \in Span(batch[p]))
    BY <1>0 DEF OutboxOK
  <2>5. \A s \in gone : s \in DOMAIN outbox /\ acked[s]
    BY <2>1, <2>4 DEF PrunedRows, Delivered
  <2>6. /\ DOMAIN outbox' = DOMAIN outbox \ gone
        /\ \A s \in DOMAIN outbox' : outbox'[s] = acked[s]
    BY <2>1
  <2> HIDE DEF acked, gone
  <2>7. Pending' = Pending \ Span(batch[p])
    BY <2>4, <2>5, <2>6 DEF Pending
  <2>8. OutboxOK'
    BY <1>0, <1>6, <2>2, <2>4, <2>6 DEF OutboxOK, Acknowledge
  <2>9. NothingUnexportedLost'
    BY <1>0, <2>2, <2>3, <2>7 DEF NothingUnexportedLost
  <2>10. PendingBounded'
    <3>1. IsFiniteSet(Pending) /\ Pending' \in SUBSET Pending
      BY <1>0, <2>7, PendingFinite
    <3>2. /\ Cardinality(Pending') <= Cardinality(Pending)
          /\ Cardinality(Pending) \in Nat /\ Cardinality(Pending') \in Nat
      BY <3>1, FS_Subset, FS_CardinalityType
    <3> QED
      BY <1>0, <3>2, AuditAssumption DEF PendingBounded
  <2> QED
    BY <2>2, <2>8, <2>9, <2>10 DEF AuditInv
<1> QED
  BY <1>2, <1>3, <1>4, <1>5, <1>6 DEF ExportStep

-----------------------------------------------------------------------------
(* The services around the outbox. *)

(* The rows of the catalog are finitely many, and every tombstone has its event. *)
ServicesInv ==
    /\ TypeOK
    /\ IsFiniteSet(manifests) /\ IsFiniteSet(chunks)
    /\ \A t \in tombstones : \E s \in DOMAIN events :
         events[s] = <<"tombstoned", t[1], <<t[2], t[3]>>>>

Inv == AuditInv /\ ServicesInv

(* The events a service appends. *)
LEMMA EventsTyped ==
  /\ \A u \in Uploads : PublishEvents(u) \in Seq(Event)
  /\ \A f \in Files : QuarantineEvent(f) \in Seq(Event) /\ CollectEvent(f) \in Seq(Event)
<1>1. ASSUME NEW u \in Uploads PROVE PublishEvents(u) \in Seq(Event)
  <2>1. <<"verified", u>> \in Event /\ <<"published", u>> \in Event
    BY DEF Event
  <2> QED
    BY <2>1 DEF PublishEvents
<1>2. ASSUME NEW f \in Files
      PROVE  QuarantineEvent(f) \in Seq(Event) /\ CollectEvent(f) \in Seq(Event)
  <2>1. <<"quarantined", f>> \in Event /\ <<"collected", f>> \in Event
    BY DEF Event
  <2> QED
    BY <2>1 DEF QuarantineEvent, CollectEvent
<1> QED
  BY <1>1, <1>2

(* The events of a retirement: one for each row it tombstones. *)
LEMMA TombstoneEventsFact ==
  ASSUME NEW ms \in SUBSET (Cuts \X Epochs), NEW cs \in SUBSET (Cuts \X Epochs),
         IsFiniteSet(ms), IsFiniteSet(cs)
  PROVE  /\ TombstoneEvents(ms, cs) \in Seq(Event)
         /\ \A m \in ms : \E i \in DOMAIN TombstoneEvents(ms, cs) :
              TombstoneEvents(ms, cs)[i] = <<"tombstoned", "manifest", m>>
         /\ \A c \in cs : \E i \in DOMAIN TombstoneEvents(ms, cs) :
              TombstoneEvents(ms, cs)[i] = <<"tombstoned", "chunk", c>>
<1> DEFINE M == {<<"tombstoned", "manifest", m>> : m \in ms}
           C == {<<"tombstoned", "chunk", c>> : c \in cs}
           q == SetToSeq(M \cup C)
<1>1. IsFiniteSet(M)
  <2> DEFINE f == [m \in ms |-> <<"tombstoned", "manifest", m>>]
  <2>1. f \in Surjection(ms, M)
    BY DEF Surjection
  <2> HIDE DEF f, M
  <2> QED
    BY <2>1, FS_Surjection
<1>2. IsFiniteSet(C)
  <2> DEFINE f == [c \in cs |-> <<"tombstoned", "chunk", c>>]
  <2>1. f \in Surjection(cs, C)
    BY DEF Surjection
  <2> HIDE DEF f, C
  <2> QED
    BY <2>1, FS_Surjection
<1>3. M \cup C \subseteq Event
  BY DEF Event
<1>4. /\ q \in Seq(M \cup C)
      /\ \A x \in M \cup C : \E i \in DOMAIN q : q[i] = x
  <2> HIDE DEF M, C
  <2>1. IsFiniteSet(M \cup C)
    BY <1>1, <1>2, FS_Union
  <2> QED
    BY <2>1, SetToSeqFact
<1>5. q \in Seq(Event)
  <2> HIDE DEF M, C, q
  <2> QED
    BY <1>3, <1>4
<1>6. /\ \A m \in ms : <<"tombstoned", "manifest", m>> \in M \cup C
      /\ \A c \in cs : <<"tombstoned", "chunk", c>> \in M \cup C
  OBVIOUS
<1>7. q = TombstoneEvents(ms, cs)
  BY DEF TombstoneEvents
<1> HIDE DEF q, M, C
<1> QED
  BY <1>4, <1>5, <1>6, <1>7

(* The types of the handles. *)
HandlesOK ==
    /\ phase \in [Stores -> {"closed", "checked", "registered", "open"}]
    /\ window \in [Stores -> Windows \cup {Closed}]
    /\ tenant \in Windows \cup {Closed}
    /\ \A p \in Stores : phase[p] = "closed" <=> window[p] = Closed

(* No window is the closed one, and a window's epochs are epochs. *)
LEMMA WindowFact ==
  \A w \in Windows : w # Closed /\ w.min \in Epochs /\ w.active \in Epochs
<1>1. ASSUME NEW w \in Windows PROVE w # Closed /\ w.min \in Epochs /\ w.active \in Epochs
  <2>1. w.min \in Epochs /\ w.active \in Epochs
    BY DEF Windows
  <2>2. 0 \notin Epochs /\ Closed.min = 0
    BY DEF Epochs, Closed
  <2> QED
    BY <2>1, <2>2
<1> QED
  BY <1>1

(* Opening, closing and dying keep the types. *)
LEMMA OpenTyped ==
  ASSUME TypeOK, NEW p \in Stores
  PROVE  (\/ \E w \in Windows : CheckTenant(p, w)
          \/ UpsertTenant(p) \/ (\E f \in Files : ReconcileRow(p, f)) \/ ReconcileMove(p)
          \/ ReconcileUncataloged(p) \/ Close(p) \/ Crash(p))
         => TypeOK'
<1>0. HandlesOK
  BY DEF TypeOK, HandlesOK
<1>1. ASSUME NEW w \in Windows, CheckTenant(p, w) PROVE TypeOK'
  <2>1. HandlesOK'
    BY <1>0, <1>1, WindowFact DEF CheckTenant, HandlesOK
  <2> QED
    BY <1>1, <2>1 DEF CheckTenant, TypeOK, HandlesOK, auditVars, quarantineVars
<1>2. ASSUME UpsertTenant(p) PROVE TypeOK'
  <2>1. HandlesOK'
    BY <1>0, <1>2 DEF UpsertTenant, HandlesOK
  <2> QED
    BY <1>2, <2>1 DEF UpsertTenant, TypeOK, HandlesOK, auditVars, quarantineVars
<1>3. ASSUME NEW f \in Files, ReconcileRow(p, f) PROVE TypeOK'
  BY <1>3 DEF ReconcileRow, TypeOK, auditVars, epochVars
<1>4. ASSUME ReconcileMove(p) PROVE TypeOK'
  <2>1. HandlesOK'
    BY <1>0, <1>4 DEF ReconcileMove, HandlesOK
  <2>2. partials' \cup qfiles' \cup qrows' \subseteq Files
    BY <1>4 DEF ReconcileMove, TypeOK
  <2>3. working' \in [Stores -> Files \cup {NoFile}]
    BY <1>4 DEF ReconcileMove, TypeOK
  <2> QED
    BY <1>4, <2>1, <2>2, <2>3 DEF ReconcileMove, TypeOK, HandlesOK, auditVars
<1>5. ASSUME ReconcileUncataloged(p) PROVE TypeOK'
  <2>1. HandlesOK'
    BY <1>0, <1>5 DEF ReconcileUncataloged, HandlesOK, epochVars
  <2> QED
    BY <1>5, <2>1 DEF ReconcileUncataloged, TypeOK, HandlesOK, auditVars, epochVars
<1>6. ASSUME Close(p) PROVE TypeOK'
  <2>1. HandlesOK'
    BY <1>0, <1>6 DEF Close, HandlesOK
  <2> QED
    BY <1>6, <2>1 DEF Close, TypeOK, HandlesOK, auditVars, quarantineVars
<1>7. ASSUME Crash(p) PROVE TypeOK'
  <2>1. HandlesOK'
    BY <1>0, <1>7 DEF Crash, HandlesOK
  <2>2. partials' \cup qfiles' \cup qrows' \subseteq Files
    BY <1>7 DEF Crash, TypeOK
  <2>3. /\ working' \in [Stores -> Files \cup {NoFile}]
        /\ exporting' \in [Stores -> {"idle", "loaded", "published", "exported"}]
    BY <1>7 DEF Crash, TypeOK
  <2> QED
    BY <1>7, <2>1, <2>2, <2>3 DEF Crash, TypeOK, HandlesOK
<1> QED
  BY <1>1, <1>2, <1>3, <1>4, <1>5, <1>6, <1>7

(* A handle that is open writes under an epoch. *)
LEMMA OpenWindow ==
  ASSUME TypeOK, NEW p \in Stores, phase[p] = "open"
  PROVE  window[p] \in Windows /\ window[p].active \in Epochs
<1>1. window[p] \in Windows
  BY DEF TypeOK
<1> QED
  BY <1>1, WindowFact

(* Publishing, retiring and quarantine keep the types. *)
LEMMA ServiceTyped ==
  ASSUME TypeOK, NEW p \in Stores
  PROVE  (\/ \E c \in Cuts : PutChunk(p, c) \/ \E u \in Uploads : Publish(p, u, c)
          \/ Retire(p, MaxRetire)
          \/ \E f \in Files : QuarantineObject(p, f) \/ PruneUnlink(p, f)
          \/ PruneRow(p))
         => TypeOK'
<1>1. ASSUME NEW c \in Cuts, PutChunk(p, c) PROVE TypeOK'
  <2>1. <<c, window[p].active>> \in Cuts \X Epochs
    BY <1>1, OpenWindow DEF PutChunk
  <2> QED
    BY <1>1, <2>1 DEF PutChunk, TypeOK, auditVars, quarantineVars
<1>2. ASSUME NEW c \in Cuts, NEW u \in Uploads, Publish(p, u, c) PROVE TypeOK'
  <2>1. <<c, window[p].active>> \in Cuts \X Epochs
    BY <1>2, OpenWindow DEF Publish
  <2> QED
    BY <1>2, <2>1 DEF Publish, AppendEvents, TypeOK, quarantineVars
<1>3. ASSUME Retire(p, MaxRetire) PROVE TypeOK'
  <2>1. PICK ms \in SUBSET manifests, cs \in SUBSET chunks :
          /\ tombstones' = tombstones
                \cup {<<"manifest", m[1], m[2]>> : m \in ms}
                \cup {<<"chunk", c[1], c[2]>> : c \in cs}
          /\ checkpoints' = checkpoints \ ms
          /\ AppendEvents(TombstoneEvents(ms, cs))
    BY <1>3 DEF Retire, RetirableManifests, RetirableChunks
  <2>2. /\ \A m \in ms : <<"manifest", m[1], m[2]>> \in {"manifest", "chunk"} \X Cuts \X Epochs
        /\ \A c \in cs : <<"chunk", c[1], c[2]>> \in {"manifest", "chunk"} \X Cuts \X Epochs
    BY <2>1 DEF TypeOK
  <2>3. tombstones' \subseteq {"manifest", "chunk"} \X Cuts \X Epochs
    BY <2>1, <2>2 DEF TypeOK
  <2>4. exporting' = exporting
    BY <2>1 DEF AppendEvents
  <2> QED
    BY <1>3, <2>1, <2>3, <2>4 DEF Retire, TypeOK, quarantineVars
<1>4. ASSUME NEW f \in Files, QuarantineObject(p, f) PROVE TypeOK'
  BY <1>4 DEF QuarantineObject, AppendEvents, TypeOK, epochVars
<1>5. ASSUME NEW f \in Files, PruneUnlink(p, f) PROVE TypeOK'
  BY <1>5 DEF PruneUnlink, TypeOK, auditVars, epochVars
<1>6. ASSUME PruneRow(p) PROVE TypeOK'
  <2>1. exporting' = exporting /\ qrows' \subseteq qrows
    BY <1>6 DEF PruneRow, AppendEvents, auditVars
  <2>2. working' \in [Stores -> Files \cup {NoFile}]
    BY <1>6 DEF PruneRow, TypeOK
  <2> QED
    BY <1>6, <2>1, <2>2 DEF PruneRow, TypeOK, epochVars
<1> QED
  BY <1>1, <1>2, <1>3, <1>4, <1>5, <1>6

(* What a service's step does to the audit stream: nothing, or one append that passed
   preflight, or the death of an exporter. *)
Appends(evs) == PreflightReady(evs) /\ AppendEvents(evs)

(* A step that does not retire leaves every tombstone its event. *)
LEMMA OthersKeep ==
  ASSUME Inv, TypeOK', UNCHANGED tombstones, IsFiniteSet(manifests)', IsFiniteSet(chunks)',
         \/ UNCHANGED auditVars
         \/ \E evs \in Seq(Event) : Appends(evs)
         \/ \E p \in Stores : ExportStep(p) \/ ExportFails(p) \/ GivesUp(p)
  PROVE  Inv'
<1>1. AuditInv' /\ \A s \in DOMAIN events : s \in DOMAIN events' /\ events'[s] = events[s]
  <2>1. CASE UNCHANGED auditVars
    <3>1. UNCHANGED <<outbox, events, exporting, batch, everOut>>
      BY <2>1 DEF auditVars
    <3>2. Pending' = Pending
      BY <3>1 DEF Pending
    <3> QED
      BY <3>1, <3>2 DEF Inv, AuditInv, OutboxOK, NothingUnexportedLost, PendingBounded
  <2>2. CASE \E evs \in Seq(Event) : Appends(evs)
    BY <2>2, AppendKeeps DEF Inv, Appends
  <2>3. CASE \E p \in Stores : ExportStep(p) \/ ExportFails(p) \/ GivesUp(p)
    BY <2>3, ExportKeeps DEF Inv
  <2> QED
    BY <2>1, <2>2, <2>3
<1> QED
  BY <1>1 DEF Inv, ServicesInv

(* A retirement appends the event of every tombstone it writes. *)
LEMMA RetireKeeps ==
  ASSUME Inv, NEW p \in Stores, Retire(p, MaxRetire)
  PROVE  Inv'
<1>0. TypeOK /\ TypeOK' /\ AuditInv
  BY ServiceTyped DEF Inv, ServicesInv
<1>1. PICK ms \in SUBSET manifests, cs \in SUBSET chunks :
        /\ tombstones' = tombstones
              \cup {<<"manifest", m[1], m[2]>> : m \in ms}
              \cup {<<"chunk", c[1], c[2]>> : c \in cs}
        /\ PreflightReady(TombstoneEvents(ms, cs)) /\ AppendEvents(TombstoneEvents(ms, cs))
  BY DEF Retire, RetirableManifests, RetirableChunks
<1> DEFINE evs == TombstoneEvents(ms, cs)
<1>2. ms \in SUBSET (Cuts \X Epochs) /\ cs \in SUBSET (Cuts \X Epochs)
  BY <1>0 DEF TypeOK
<1>3. IsFiniteSet(ms) /\ IsFiniteSet(cs)
  BY FS_Subset DEF Inv, ServicesInv
<1>4. /\ evs \in Seq(Event)
      /\ \A m \in ms : \E i \in DOMAIN evs : evs[i] = <<"tombstoned", "manifest", m>>
      /\ \A c \in cs : \E i \in DOMAIN evs : evs[i] = <<"tombstoned", "chunk", c>>
  BY <1>2, <1>3, TombstoneEventsFact
<1>5. PreflightReady(evs) /\ AppendEvents(evs)
  BY <1>1
<1> HIDE DEF evs
<1>6. /\ AuditInv'
      /\ \A s \in DOMAIN events : s \in DOMAIN events' /\ events'[s] = events[s]
      /\ \A i \in DOMAIN evs : \E s \in DOMAIN events' : events'[s] = evs[i]
  BY <1>0, <1>4, <1>5, AppendKeeps
<1>7. ASSUME NEW t \in tombstones'
      PROVE  \E s \in DOMAIN events' : events'[s] = <<"tombstoned", t[1], <<t[2], t[3]>>>>
  <2>1. CASE t \in tombstones
    BY <1>6, <2>1 DEF Inv, ServicesInv
  <2>2. ASSUME NEW m \in ms, t = <<"manifest", m[1], m[2]>>
        PROVE  \E s \in DOMAIN events' : events'[s] = <<"tombstoned", t[1], <<t[2], t[3]>>>>
    <3>1. m = <<m[1], m[2]>>
      BY <1>2
    <3>2. <<"tombstoned", t[1], <<t[2], t[3]>>>> = <<"tombstoned", "manifest", m>>
      BY <2>2, <3>1
    <3> QED
      BY <1>4, <1>6, <3>2
  <2>3. ASSUME NEW c \in cs, t = <<"chunk", c[1], c[2]>>
        PROVE  \E s \in DOMAIN events' : events'[s] = <<"tombstoned", t[1], <<t[2], t[3]>>>>
    <3>1. c = <<c[1], c[2]>>
      BY <1>2
    <3>2. <<"tombstoned", t[1], <<t[2], t[3]>>>> = <<"tombstoned", "chunk", c>>
      BY <2>3, <3>1
    <3> QED
      BY <1>4, <1>6, <3>2
  <2> QED
    BY <1>1, <1>7, <2>1, <2>2, <2>3
<1>8. UNCHANGED <<manifests, chunks>>
  BY DEF Retire
<1> QED
  BY <1>0, <1>6, <1>7, <1>8 DEF Inv, ServicesInv

(* The invariant is inductive. *)
LEMMA InvInit == Init => Inv
<1> SUFFICES ASSUME Init PROVE Inv
  OBVIOUS
<1>1. OutboxOK
  <2>1. events = <<>> /\ DOMAIN outbox = {}
    BY DEF Init, AuditInit
  <2>2. exporting = [p \in Stores |-> "idle"] /\ batch = [p \in Stores |-> NoBatch]
    BY DEF Init, AuditInit
  <2> QED
    BY <2>1, <2>2 DEF OutboxOK
<1>2. NothingUnexportedLost /\ Pending = {}
  BY DEF Init, AuditInit, NothingUnexportedLost, Pending
<1>3. PendingBounded
  BY <1>2, FS_EmptySet, AuditAssumption DEF PendingBounded
<1>4. HandlesOK
  BY WindowFact DEF Init, HandlesOK
<1>5. /\ manifests \cup chunks \cup checkpoints \subseteq Cuts \X Epochs
      /\ tombstones \subseteq {"manifest", "chunk"} \X Cuts \X Epochs
      /\ partials \cup qfiles \cup qrows \subseteq Files
      /\ working \in [Stores -> Files \cup {NoFile}]
  BY DEF Init
<1>6. TypeOK
  BY <1>1, <1>4, <1>5 DEF TypeOK, HandlesOK, OutboxOK
<1>7. IsFiniteSet(manifests) /\ IsFiniteSet(chunks) /\ tombstones = {}
  BY FS_EmptySet DEF Init
<1> QED
  BY <1>1, <1>2, <1>3, <1>6, <1>7 DEF Inv, AuditInv, ServicesInv

(* Every step keeps it. *)
LEMMA InvNext == Inv /\ [Next]_vars => Inv'
<1> SUFFICES ASSUME Inv, [Next]_vars PROVE Inv'
  OBVIOUS
<1>0. TypeOK /\ IsFiniteSet(manifests) /\ IsFiniteSet(chunks)
  BY DEF Inv, ServicesInv
<1>1. ASSUME NEW p \in Stores,
             \/ \E w \in Windows : CheckTenant(p, w)
             \/ UpsertTenant(p) \/ (\E f \in Files : ReconcileRow(p, f)) \/ ReconcileMove(p)
             \/ ReconcileUncataloged(p) \/ Close(p)
             \/ (\E f \in Files : PruneUnlink(p, f))
      PROVE  Inv'
  <2>1. UNCHANGED auditVars /\ UNCHANGED <<tombstones, manifests, chunks>>
    BY <1>1 DEF CheckTenant, UpsertTenant, ReconcileRow, ReconcileMove, ReconcileUncataloged,
       Close, PruneUnlink, epochVars
  <2>2. TypeOK'
    BY <1>0, <1>1, OpenTyped, ServiceTyped
  <2> QED
    BY <1>0, <2>1, <2>2, OthersKeep
<1>2. ASSUME NEW p \in Stores, Crash(p) PROVE Inv'
  <2>1. GivesUp(p) /\ UNCHANGED <<tombstones, manifests, chunks>>
    BY <1>2 DEF Crash, GivesUp
  <2>2. TypeOK'
    BY <1>0, <1>2, OpenTyped
  <2> QED
    BY <1>0, <2>1, <2>2, OthersKeep
<1>3. ASSUME NEW p \in Stores, NEW c \in Cuts, PutChunk(p, c) PROVE Inv'
  <2>1. UNCHANGED auditVars /\ UNCHANGED <<tombstones, manifests>>
    BY <1>3 DEF PutChunk
  <2>2. IsFiniteSet(chunks')
    BY <1>0, <1>3, FS_AddElement DEF PutChunk
  <2>3. TypeOK'
    BY <1>0, <1>3, ServiceTyped
  <2> QED
    BY <1>0, <2>1, <2>2, <2>3, OthersKeep
<1>4. ASSUME NEW p \in Stores, NEW c \in Cuts, NEW u \in Uploads, Publish(p, u, c) PROVE Inv'
  <2>1. Appends(PublishEvents(u)) /\ UNCHANGED <<tombstones, chunks>>
    BY <1>4 DEF Publish, Appends
  <2>2. IsFiniteSet(manifests')
    BY <1>0, <1>4, FS_AddElement DEF Publish
  <2>3. TypeOK'
    BY <1>0, <1>4, ServiceTyped
  <2> QED
    BY <1>0, <2>1, <2>2, <2>3, EventsTyped, OthersKeep
<1>5. ASSUME NEW p \in Stores, NEW f \in Files, QuarantineObject(p, f) PROVE Inv'
  <2>1. Appends(QuarantineEvent(f)) /\ UNCHANGED <<tombstones, manifests, chunks>>
    BY <1>5 DEF QuarantineObject, Appends, epochVars
  <2>2. TypeOK'
    BY <1>0, <1>5, ServiceTyped
  <2> QED
    BY <1>0, <2>1, <2>2, EventsTyped, OthersKeep
<1>6. ASSUME NEW p \in Stores, PruneRow(p) PROVE Inv'
  <2>1. working[p] \in Files
    BY <1>0, <1>6 DEF PruneRow, TypeOK
  <2>2. /\ UNCHANGED auditVars \/ Appends(CollectEvent(working[p]))
        /\ UNCHANGED <<tombstones, manifests, chunks>>
    BY <1>6 DEF PruneRow, Appends, epochVars
  <2>3. TypeOK'
    BY <1>0, <1>6, ServiceTyped
  <2> QED
    BY <1>0, <2>1, <2>2, <2>3, EventsTyped, OthersKeep
<1>7. ASSUME NEW p \in Stores, ExportStep(p) \/ ExportFails(p), UNCHANGED serviceVars PROVE Inv'
  <2>1. UNCHANGED <<phase, window, tenant, manifests, chunks, tombstones, checkpoints>>
        /\ UNCHANGED <<partials, qfiles, qrows, working>>
    BY <1>7 DEF serviceVars, epochVars, quarantineVars
  <2>2. AuditInv'
    BY <1>7, ExportKeeps DEF Inv
  <2>3. exporting' \in [Stores -> {"idle", "loaded", "published", "exported"}]
    BY <2>2 DEF AuditInv, OutboxOK
  <2>4. TypeOK'
    BY <1>0, <2>1, <2>3 DEF TypeOK
  <2> QED
    BY <1>0, <1>7, <2>1, <2>4, OthersKeep
<1>8. CASE UNCHANGED vars
  <2>1. UNCHANGED auditVars /\ UNCHANGED serviceVars
    BY <1>8 DEF vars
  <2>2. TypeOK'
    BY <1>0, <2>1 DEF TypeOK, auditVars, serviceVars, epochVars, quarantineVars
  <2> QED
    BY <1>0, <2>1, <2>2, OthersKeep DEF serviceVars, epochVars
<1> QED
  BY <1>1, <1>2, <1>3, <1>4, <1>5, <1>6, <1>7, <1>8, RetireKeeps DEF Next

-----------------------------------------------------------------------------
(* Results. *)

(* Every variable keeps its type, and a handle has a window while it is not closed. *)
THEOREM TypeCorrect == Spec => []TypeOK
<1>1. Inv => TypeOK
  BY DEF Inv, ServicesInv
<1> QED
  BY <1>1, InvInit, InvNext, PTL DEF Spec

(* A sequence handed out is pending or was in a published segment, whatever handles export
   at once, fail or die between the segment and its acknowledgement, and whatever the
   retention of delivered rows prunes. *)
THEOREM NothingIsLost == Spec => []NothingUnexportedLost
<1>1. Inv => NothingUnexportedLost
  BY DEF Inv, AuditInv
<1> QED
  BY <1>1, InvInit, InvNext, PTL DEF Spec

(* The pending rows never exceed the limit: preflight counts what append adds. *)
THEOREM OutboxIsBounded == Spec => []PendingBounded
<1>1. Inv => PendingBounded
  BY DEF Inv, AuditInv
<1> QED
  BY <1>1, InvInit, InvNext, PTL DEF Spec

(* Every tombstone a retirement writes has its event in the stream, pending or exported:
   dropping repeated and recorded events never drops one of another object. *)
THEOREM RetirementsAreAudited == Spec => []TombstonesAudited
<1>1. Inv => TombstonesAudited
  BY DEF Inv, AuditInv, ServicesInv, TombstonesAudited, NothingUnexportedLost
<1> QED
  BY <1>1, InvInit, InvNext, PTL DEF Spec

-----------------------------------------------------------------------------
(* Segments on disk. *)

(* The sequences handed out so far. *)
HandedOut == 1 .. Len(events)

(* Batches and segments are spans of sequences that begin at or below every pending one:
   an exporter loads the oldest.  A batch that is published and still wholly pending is
   covered by a segment that begins where it does, on disk or lapsed. *)
SpansOK ==
    /\ segments \cup lapsed \subseteq HandedOut \X HandedOut
    /\ \A f \in segments, s \in Pending : f[1] <= s
    /\ \A p \in Stores : exporting[p] # "idle" =>
         /\ batch[p] \in HandedOut \X HandedOut /\ batch[p][1] <= batch[p][2]
         /\ \A s \in Pending : batch[p][1] <= s

Covered(p) ==
    exporting[p] \in {"published", "exported"} /\ Span(batch[p]) \subseteq Pending
      => \E f \in segments \cup lapsed : f[1] = batch[p][1] /\ batch[p][2] <= f[2]

DiskInv == SpansOK /\ \A p \in Stores : Covered(p)

(* The batch that is loaded begins at the oldest pending row. *)
LEMMA OldestFact ==
  ASSUME OutboxOK, NEW n \in 1 .. MaxBatch, OldestPending(n) # {}
  PROVE  LET rows == OldestPending(n)
         IN  /\ <<Min(rows), Max(rows)>> \in HandedOut \X HandedOut
             /\ Min(rows) <= Max(rows)
             /\ \A s \in Pending : Min(rows) <= s
<1> DEFINE rows == OldestPending(n)
<1>1. /\ Len(events) \in Nat /\ rows \in SUBSET Pending /\ Pending \in SUBSET HandedOut
      /\ HandedOut \in SUBSET Nat
  BY DEF OutboxOK, OldestPending, Pending, HandedOut
<1>2. \E x \in rows : \A y \in rows : x <= y
  <2> HIDE DEF rows
  <2> QED
    BY <1>1, LeastNatural DEF rows
<1>3. \E x \in rows : \A y \in rows : y <= x
  <2> HIDE DEF rows
  <2>1. \A x \in rows : x <= Len(events)
    BY <1>1 DEF HandedOut
  <2> QED
    BY <1>1, <2>1, GreatestNatural DEF rows
<1>4. Min(rows) \in rows /\ \A y \in rows : Min(rows) <= y
  <2> HIDE DEF rows
  <2> QED
    BY <1>2 DEF Min
<1>5. Max(rows) \in rows /\ \A y \in rows : Max(rows) >= y
  <2>1. \E x \in rows : \A y \in rows : x >= y
    BY <1>1, <1>3
  <2> HIDE DEF rows
  <2> QED
    BY <2>1 DEF Max
<1>6. PICK m \in Pending : \A s \in Pending : m <= s
  BY <1>1, LeastNatural
<1>7. m \in rows
  <2>1. {t \in Pending : t <= m} = {m}
    <3>1. ASSUME NEW t \in Pending, t <= m PROVE t = m
      <4>1. t \in Nat /\ m \in Nat /\ m <= t
        BY <1>1, <1>6
      <4> QED
        BY <3>1, <4>1
    <3>2. m \in {t \in Pending : t <= m}
      BY <1>1, <1>6
    <3> QED
      BY <3>1, <3>2
  <2>2. Cardinality({t \in Pending : t <= m}) = 1
    BY <2>1, FS_Singleton
  <2> QED
    <3>1. Cardinality({t \in Pending : t <= m}) <= n
      BY <2>2, AuditAssumption
    <3> QED
      BY <3>1 DEF OldestPending
<1>8. \A s \in Pending : Min(rows) <= s
  <2>1. Min(rows) <= m /\ Min(rows) \in Nat /\ m \in Nat
    BY <1>1, <1>4, <1>7
  <2> QED
    BY <1>1, <1>6, <2>1
<1> HIDE DEF rows
<1>9. <<Min(rows), Max(rows)>> \in HandedOut \X HandedOut /\ Min(rows) <= Max(rows)
  BY <1>1, <1>4, <1>5
<1> QED
  BY <1>8, <1>9 DEF rows

(* A non-empty set of segments has a last one in the order of the names. *)
LEMMA LastSegment ==
  ASSUME NEW n \in Nat, NEW F \in SUBSET ((1 .. n) \X (1 .. n)), F # {}
  PROVE  \E g \in F : \A f \in F : f = g \/ NameBefore(f, g)
<1> DEFINE A == {x \in Nat : \E f \in F : x = f[1]}
<1>0. \A f \in F : f[1] \in 1 .. n /\ f[2] \in 1 .. n /\ f = <<f[1], f[2]>>
  OBVIOUS
<1>1. A \in SUBSET Nat /\ A # {} /\ \A x \in A : x <= n
  BY <1>0
<1>2. PICK a \in A : \A x \in A : x <= a
  <2> HIDE DEF A
  <2> QED
    BY <1>1, GreatestNatural
<1>3. \A f \in F : f[1] <= a
  BY <1>0, <1>2
<1> DEFINE B == {x \in Nat : \E f \in F : f[1] = a /\ x = f[2]}
<1>4. B \in SUBSET Nat /\ B # {} /\ \A x \in B : x <= n
  BY <1>0, <1>2
<1>5. PICK b \in B : \A x \in B : x <= b
  <2> HIDE DEF B
  <2> QED
    BY <1>4, GreatestNatural
<1>6. PICK g \in F : g[1] = a /\ g[2] = b
  BY <1>5
<1>7. ASSUME NEW f \in F PROVE f = g \/ NameBefore(f, g)
  <2>1. CASE f[1] = a
    <3>1. f[2] \in B
      BY <1>0, <2>1
    <3>2. f[2] <= b
      BY <1>5, <3>1
    <3> QED
      BY <1>0, <1>6, <2>1, <3>2 DEF NameBefore
  <2>2. CASE f[1] # a
    <3>1. f[1] <= a /\ f[1] \in Nat /\ a \in Nat
      BY <1>0, <1>1, <1>2, <1>3
    <3> QED
      BY <1>6, <2>2, <3>1 DEF NameBefore
  <2> QED
    BY <2>1, <2>2
<1> QED
  BY <1>7

(* With room for two segments or more the rotation keeps the last name. *)
LEMMA RotationKeepsLast ==
  ASSUME MaxSegments > 1, NEW n \in Nat, NEW F \in SUBSET ((1 .. n) \X (1 .. n)), NEW current,
         NEW f \in F
  PROVE  \E g \in F \ Rotated(F, current) : g = f \/ NameBefore(f, g)
<1>1. CASE f = current
  BY <1>1 DEF Rotated
<1>2. CASE f # current
  <2> DEFINE others == F \ {current}
  <2>1. PICK g \in others : \A h \in others : h = g \/ NameBefore(h, g)
    <3>1. others \in SUBSET ((1 .. n) \X (1 .. n)) /\ others # {}
      BY <1>2
    <3> HIDE DEF others
    <3> QED
      BY <3>1, LastSegment
  <2>2. {h \in others : h = g \/ NameBefore(h, g)} = others
    BY <2>1
  <2>3. IsFiniteSet(F)
    <3>1. IsFiniteSet(1 .. n)
      BY FS_Interval
    <3>2. IsFiniteSet((1 .. n) \X (1 .. n))
      BY <3>1, FS_Product
    <3> QED
      BY <3>2, FS_Subset
  <2>4. /\ IsFiniteSet(others) /\ Cardinality(others) \in Nat /\ Cardinality(F) \in Nat
        /\ Cardinality(F) <= Cardinality(others) + 1
    <3>1. /\ IsFiniteSet(others)
          /\ Cardinality(others) = IF current \in F THEN Cardinality(F) - 1 ELSE Cardinality(F)
      BY <2>3, FS_RemoveElement
    <3>2. Cardinality(others) \in Nat /\ Cardinality(F) \in Nat
      BY <2>3, <3>1, FS_CardinalityType
    <3> QED
      BY <3>1, <3>2
  <2>5. ~(Cardinality(others) <= Cardinality(F) - MaxSegments)
    BY <2>4, AuditAssumption
  <2>6. g \notin Rotated(F, current)
    BY <2>2, <2>5 DEF Rotated
  <2> QED
    BY <1>2, <2>1, <2>6
<1> QED
  BY <1>1, <1>2

(* The steps of Next as the audit stream sees them. *)
LEMMA AuditEffects ==
  ASSUME Inv, [Next]_vars
  PROVE  \/ UNCHANGED auditVars
         \/ \E evs \in Seq(Event) : Appends(evs)
         \/ \E p \in Stores : ExportStep(p) \/ ExportFails(p) \/ GivesUp(p)
<1>0. TypeOK /\ IsFiniteSet(manifests) /\ IsFiniteSet(chunks)
  BY DEF Inv, ServicesInv
<1>1. ASSUME NEW p \in Stores, Retire(p, MaxRetire) PROVE \E evs \in Seq(Event) : Appends(evs)
  <2>1. PICK ms \in SUBSET manifests, cs \in SUBSET chunks : Appends(TombstoneEvents(ms, cs))
    BY <1>1 DEF Retire, RetirableManifests, RetirableChunks, Appends
  <2>2. ms \in SUBSET (Cuts \X Epochs) /\ cs \in SUBSET (Cuts \X Epochs)
    BY <1>0 DEF TypeOK
  <2>3. IsFiniteSet(ms) /\ IsFiniteSet(cs)
    BY <1>0, FS_Subset
  <2> QED
    BY <2>1, <2>2, <2>3, TombstoneEventsFact
<1>2. ASSUME NEW p \in Stores, PruneRow(p)
      PROVE  UNCHANGED auditVars \/ \E evs \in Seq(Event) : Appends(evs)
  <2>1. working[p] \in Files
    BY <1>0, <1>2 DEF PruneRow, TypeOK
  <2> QED
    BY <1>2, <2>1, EventsTyped DEF PruneRow, Appends
<1>3. ASSUME NEW p \in Stores, NEW c \in Cuts, NEW u \in Uploads, Publish(p, u, c)
      PROVE  \E evs \in Seq(Event) : Appends(evs)
  BY <1>3, EventsTyped DEF Publish, Appends
<1>4. ASSUME NEW p \in Stores, NEW f \in Files, QuarantineObject(p, f)
      PROVE  \E evs \in Seq(Event) : Appends(evs)
  BY <1>4, EventsTyped DEF QuarantineObject, Appends
<1>5. ASSUME NEW p \in Stores,
             \/ \E w \in Windows : CheckTenant(p, w)
             \/ UpsertTenant(p) \/ (\E f \in Files : ReconcileRow(p, f)) \/ ReconcileMove(p)
             \/ ReconcileUncataloged(p) \/ Close(p)
             \/ (\E f \in Files : PruneUnlink(p, f))
             \/ (\E c \in Cuts : PutChunk(p, c))
      PROVE  UNCHANGED auditVars
  BY <1>5 DEF CheckTenant, UpsertTenant, ReconcileRow, ReconcileMove, ReconcileUncataloged,
     Close, PruneUnlink, PutChunk
<1>6. ASSUME NEW p \in Stores, Crash(p) PROVE GivesUp(p)
  BY <1>6 DEF Crash, GivesUp
<1>7. CASE UNCHANGED vars
  BY <1>7 DEF vars
<1> QED
  BY <1>1, <1>2, <1>3, <1>4, <1>5, <1>6, <1>7 DEF Next

(* A segment that covers a batch has the batch's first row. *)
LEMMA CoverMeets ==
  ASSUME OutboxOK, SpansOK, NEW p \in Stores, exporting[p] # "idle",
         NEW f \in segments \cup lapsed, f[1] = batch[p][1], batch[p][2] <= f[2]
  PROVE  batch[p][1] \in Span(f) /\ batch[p][1] \in Span(batch[p])
<1>1. /\ batch[p] \in HandedOut \X HandedOut /\ batch[p][1] <= batch[p][2]
      /\ f \in HandedOut \X HandedOut /\ Len(events) \in Nat
  BY DEF SpansOK, OutboxOK
<1>2. f[1] \in Int /\ f[2] \in Int /\ batch[p][1] \in Int /\ batch[p][2] \in Int
  BY <1>1 DEF HandedOut
<1> QED
  BY <1>1, <1>2 DEF Span

(* The segment that covers a pending batch outlives the rotation of every other handle:
   it stays, or one of the same beginning and no shorter does, or it lapses for its age. *)
LEMMA PruneCovers ==
  ASSUME MaxSegments > 1, OutboxOK, DiskInv, NEW q \in Stores, PruneSegments(q),
         NEW p \in Stores, exporting[p] \in {"published", "exported"}, Span(batch[p]) \subseteq Pending
  PROVE  \E g \in segments' \cup lapsed' : g[1] = batch[p][1] /\ batch[p][2] <= g[2]
<1>1. PICK expired \in SUBSET (segments \ {batch[q]}) :
        /\ segments' = (segments \ expired) \ Rotated(segments \ expired, batch[q])
        /\ lapsed' = lapsed \cup WithPending(expired, Pending)
  BY DEF PruneSegments
<1>2. PICK f \in segments \cup lapsed : f[1] = batch[p][1] /\ batch[p][2] <= f[2]
  BY DEF DiskInv, Covered
<1>3. /\ batch[p] \in HandedOut \X HandedOut /\ batch[p][1] <= batch[p][2]
      /\ segments \subseteq HandedOut \X HandedOut
      /\ \A g \in segments, s \in Pending : g[1] <= s
  BY DEF DiskInv, SpansOK
<1>4. Len(events) \in Nat
  BY DEF OutboxOK
<1>5. batch[p][1] \in Pending /\ batch[p][1] \in Span(f)
  BY <1>2, CoverMeets DEF DiskInv
<1>6. CASE f \in lapsed \/ f \in expired
  <2>1. f \in lapsed'
    BY <1>1, <1>5, <1>6 DEF WithPending
  <2> QED
    BY <1>2, <2>1
<1>11. SUFFICES ASSUME f \in segments \ expired
                PROVE  \E g \in segments' : g[1] = batch[p][1] /\ batch[p][2] <= g[2]
  BY <1>2, <1>6
<1> DEFINE F == segments \ expired
<1>7. F \in SUBSET ((1 .. Len(events)) \X (1 .. Len(events)))
  BY <1>3 DEF HandedOut
<1>8. PICK g \in F \ Rotated(F, batch[q]) : g = f \/ NameBefore(f, g)
  <2> HIDE DEF F
  <2>1. f \in F
    BY <1>11 DEF F
  <2> QED
    BY <1>4, <1>7, <2>1, RotationKeepsLast
<1>9. /\ g[1] \in Nat /\ g[2] \in Nat /\ f[1] \in Nat /\ f[2] \in Nat
      /\ batch[p][2] \in Nat /\ g[1] <= f[1]
  BY <1>2, <1>3, <1>4, <1>5, <1>7, <1>8, <1>11 DEF HandedOut
<1>10. g[1] = f[1] /\ f[2] <= g[2]
  BY <1>8, <1>9 DEF NameBefore
<1> QED
  BY <1>1, <1>2, <1>8, <1>9, <1>10

(* Spans and covers are kept. *)
LEMMA DiskKept ==
  ASSUME MaxSegments > 1, Inv, DiskInv, [Next]_vars
  PROVE  DiskInv'
<1>0. /\ OutboxOK /\ SpansOK /\ \A p \in Stores : Covered(p)
      /\ exporting \in [Stores -> {"idle", "loaded", "published", "exported"}]
      /\ DOMAIN batch = Stores /\ Len(events) \in Nat /\ Pending \in SUBSET HandedOut
  BY DEF Inv, AuditInv, OutboxOK, DiskInv, Pending, HandedOut
<1>1. CASE UNCHANGED auditVars
  <2>1. UNCHANGED <<outbox, events, segments, lapsed, exporting, batch>>
    BY <1>1 DEF auditVars
  <2>2. Pending' = Pending /\ HandedOut' = HandedOut
    BY <2>1 DEF Pending, HandedOut
  <2> QED
    BY <1>0, <2>1, <2>2 DEF DiskInv, SpansOK, Covered
<1>2. ASSUME NEW evs \in Seq(Event), Appends(evs) PROVE DiskInv'
  <2>1. UNCHANGED <<segments, lapsed, exporting, batch>>
    BY <1>2 DEF Appends, AppendEvents
  <2>2. /\ Len(events') \in Nat /\ Len(events) <= Len(events')
        /\ Pending' = Pending \cup (Len(events) + 1 .. Len(events'))
    <3>1. NewEvents(evs) \in Seq(Event) /\ events \in Seq(Event)
      BY <1>0, NewEventsFact DEF OutboxOK
    <3>2. /\ events' = events \o NewEvents(evs)
          /\ outbox' = [s \in DOMAIN outbox \cup (Len(events) + 1 .. Len(events')) |-> s \in Delivered]
      BY <1>2 DEF Appends, AppendEvents, next_sequence
    <3>3. Len(events') \in Nat /\ Len(events) <= Len(events')
      BY <3>1, <3>2
    <3>4. \A s \in DOMAIN outbox : s \in 1 .. Len(events) /\ outbox[s] \in BOOLEAN
      BY <1>0 DEF OutboxOK
    <3>5. \A s \in Len(events) + 1 .. Len(events') : s \notin Delivered /\ s \notin DOMAIN outbox
      BY <1>0, <3>3, <3>4 DEF Delivered
    <3>6. /\ DOMAIN outbox' = DOMAIN outbox \cup (Len(events) + 1 .. Len(events'))
          /\ \A s \in DOMAIN outbox' : outbox'[s] = (s \in Delivered)
      BY <3>2
    <3> QED
      BY <3>3, <3>4, <3>5, <3>6 DEF Pending, Delivered
  <2>3. HandedOut \in SUBSET HandedOut'
    BY <1>0, <2>2 DEF HandedOut
  <2>4. \A x \in HandedOut, s \in Len(events) + 1 .. Len(events') : x <= s /\ s # x
    BY <1>0, <2>2 DEF HandedOut
  <2>5. SpansOK'
    <3>1. ASSUME NEW f \in HandedOut \X HandedOut, \A s \in Pending : f[1] <= s, NEW s \in Pending'
          PROVE  f[1] <= s
      BY <2>2, <2>4, <3>1
    <3>2. segments' \cup lapsed' \subseteq (HandedOut \X HandedOut)'
      BY <1>0, <2>1, <2>3 DEF SpansOK
    <3>3. \A f \in segments', s \in Pending' : f[1] <= s
      BY <1>0, <2>1, <3>1 DEF SpansOK
    <3>4. ASSUME NEW p \in Stores, exporting'[p] # "idle"
          PROVE  /\ batch'[p] \in (HandedOut \X HandedOut)' /\ batch'[p][1] <= batch'[p][2]
                 /\ \A s \in Pending' : batch'[p][1] <= s
      <4>1. /\ batch[p] \in HandedOut \X HandedOut /\ batch[p][1] <= batch[p][2]
            /\ \A s \in Pending : batch[p][1] <= s
        BY <1>0, <2>1, <3>4 DEF SpansOK
      <4>2. batch'[p] = batch[p]
        BY <2>1
      <4> QED
        BY <2>3, <3>1, <4>1, <4>2
    <3> QED
      BY <3>2, <3>3, <3>4 DEF SpansOK
  <2>6. ASSUME NEW p \in Stores PROVE Covered(p)'
    <3>1. ASSUME exporting[p] \in {"published", "exported"}, Span(batch[p]) \subseteq Pending'
          PROVE  Span(batch[p]) \subseteq Pending
      <4>1. batch[p] \in HandedOut \X HandedOut
        BY <1>0, <3>1 DEF SpansOK
      <4>2. Span(batch[p]) \subseteq HandedOut
        BY <1>0, <4>1 DEF Span, HandedOut
      <4> QED
        BY <2>2, <2>4, <3>1, <4>2
    <3> QED
      BY <1>0, <2>1, <3>1 DEF Covered
  <2> QED
    BY <2>5, <2>6 DEF DiskInv
<1>3. ASSUME NEW q \in Stores, NEW n \in 1 .. MaxBatch, LoadBatch(q, n) PROVE DiskInv'
  <2>1. UNCHANGED <<outbox, events, segments, lapsed>>
    BY <1>3 DEF LoadBatch
  <2>2. Pending' = Pending /\ HandedOut' = HandedOut
    BY <2>1 DEF Pending, HandedOut
  <2>3. /\ batch'[q] \in HandedOut \X HandedOut /\ batch'[q][1] <= batch'[q][2]
        /\ \A s \in Pending : batch'[q][1] <= s
    <3> DEFINE rows == OldestPending(n)
    <3>1. rows # {} /\ batch'[q] = <<Min(rows), Max(rows)>>
      BY <1>0, <1>3 DEF LoadBatch
    <3>2. /\ <<Min(rows), Max(rows)>> \in HandedOut \X HandedOut
          /\ Min(rows) <= Max(rows)
          /\ \A s \in Pending : Min(rows) <= s
      BY <1>0, <3>1, OldestFact
    <3> HIDE DEF rows
    <3> QED
      BY <3>1, <3>2
  <2>4. /\ \A p \in Stores : p # q => batch'[p] = batch[p] /\ exporting'[p] = exporting[p]
        /\ exporting'[q] = "loaded"
    BY <1>0, <1>3 DEF LoadBatch
  <2> QED
    BY <1>0, <2>1, <2>2, <2>3, <2>4 DEF DiskInv, SpansOK, Covered
<1>4. ASSUME NEW q \in Stores, PublishSegment(q) PROVE DiskInv'
  <2>1. /\ UNCHANGED <<outbox, events, batch>> /\ exporting[q] = "loaded"
        /\ segments' = segments \cup {batch[q]} /\ lapsed' = lapsed \ {batch[q]}
    BY <1>4 DEF PublishSegment
  <2>2. Pending' = Pending /\ HandedOut' = HandedOut
    BY <2>1 DEF Pending, HandedOut
  <2>3. /\ \A p \in Stores : p # q => exporting'[p] = exporting[p]
        /\ exporting'[q] = "published"
    BY <1>0, <1>4 DEF PublishSegment
  <2>4. /\ batch[q] \in HandedOut \X HandedOut /\ batch[q][1] <= batch[q][2]
        /\ \A s \in Pending : batch[q][1] <= s
    BY <1>0, <2>1 DEF SpansOK
  <2>5. SpansOK'
    BY <1>0, <2>1, <2>2, <2>3, <2>4 DEF SpansOK
  <2>6. batch[q][2] <= batch[q][2]
    BY <1>0, <2>4 DEF HandedOut
  <2>7. \A p \in Stores : Covered(p)'
    BY <1>0, <2>1, <2>2, <2>3, <2>6 DEF Covered
  <2> QED
    BY <2>5, <2>7 DEF DiskInv
<1>5. ASSUME NEW q \in Stores, PruneSegments(q) PROVE DiskInv'
  <2>1. UNCHANGED <<outbox, events, batch>> /\ segments' \subseteq segments
        /\ lapsed' \subseteq lapsed \cup segments
    BY <1>5 DEF PruneSegments, WithPending
  <2>2. Pending' = Pending /\ HandedOut' = HandedOut
    BY <2>1 DEF Pending, HandedOut
  <2>3. \A p \in Stores :
          /\ exporting'[p] # "idle" => exporting[p] # "idle"
          /\ exporting'[p] \in {"published", "exported"}
               => exporting[p] \in {"published", "exported"}
    BY <1>0, <1>5 DEF PruneSegments
  <2>4. SpansOK'
    BY <1>0, <2>1, <2>2, <2>3 DEF SpansOK
  <2>5. \A p \in Stores : Covered(p)'
    BY <1>0, <1>5, <2>1, <2>2, <2>3, PruneCovers DEF Covered, DiskInv
  <2> QED
    BY <2>4, <2>5 DEF DiskInv
<1>6. ASSUME NEW q \in Stores, ExportFails(q) \/ GivesUp(q) \/ AcknowledgeRefused(q) \/ Acknowledge(q)
      PROVE  DiskInv'
  <2>1. /\ UNCHANGED <<events, segments>>
        /\ exporting' = [exporting EXCEPT ![q] = "idle"]
        /\ batch' = [batch EXCEPT ![q] = NoBatch]
    BY <1>6 DEF ExportFails, GivesUp, AcknowledgeRefused, Acknowledge
  <2>2. /\ Pending' \subseteq Pending /\ HandedOut' = HandedOut
        /\ lapsed' \subseteq lapsed
        /\ \A f \in lapsed : Span(f) \cap Pending' # {} => f \in lapsed'
    <3>1. CASE Acknowledge(q)
      <4>1. Pending' \subseteq Pending \ Span(batch[q])
        <5> DEFINE acked == [s \in DOMAIN outbox |-> outbox[s] \/ s \in Span(batch[q])]
        <5>1. \A s \in DOMAIN outbox' : s \in DOMAIN outbox /\ outbox'[s] = acked[s]
          BY <3>1 DEF Acknowledge
        <5>2. \A s \in DOMAIN outbox' :
                s \in DOMAIN outbox /\ outbox'[s] = (outbox[s] \/ s \in Span(batch[q]))
          BY <5>1
        <5> QED
          BY <5>2 DEF Pending
      <4>2. lapsed' = WithPending(lapsed, Pending \ Span(batch[q]))
        BY <3>1 DEF Acknowledge
      <4> QED
        BY <2>1, <4>1, <4>2 DEF HandedOut, WithPending
    <3>2. CASE UNCHANGED <<outbox, lapsed>>
      BY <2>1, <3>2 DEF Pending, HandedOut
    <3> QED
      BY <1>6, <3>1, <3>2 DEF ExportFails, GivesUp, AcknowledgeRefused
  <2>3. /\ \A p \in Stores : p # q => batch'[p] = batch[p] /\ exporting'[p] = exporting[p]
        /\ exporting'[q] = "idle"
    BY <1>0, <2>1
  <2>4. SpansOK'
    BY <1>0, <2>1, <2>2, <2>3 DEF SpansOK
  <2>5. ASSUME NEW p \in Stores PROVE Covered(p)'
    <3> SUFFICES ASSUME exporting'[p] \in {"published", "exported"}, Span(batch'[p]) \subseteq Pending'
                 PROVE  \E f \in segments' \cup lapsed' : f[1] = batch'[p][1] /\ batch'[p][2] <= f[2]
      BY DEF Covered
    <3>1. batch'[p] = batch[p] /\ exporting[p] \in {"published", "exported"}
      BY <2>3
    <3>2. Span(batch[p]) \subseteq Pending'
      BY <3>1
    <3>3. PICK f \in segments \cup lapsed : f[1] = batch[p][1] /\ batch[p][2] <= f[2]
      BY <1>0, <2>2, <3>1, <3>2 DEF Covered
    <3>4. batch[p][1] \in Span(f) \cap Pending'
      BY <1>0, <3>1, <3>2, <3>3, CoverMeets
    <3> QED
      BY <2>1, <2>2, <3>1, <3>3, <3>4
  <2> QED
    BY <2>4, <2>5 DEF DiskInv
<1> QED
  BY <1>1, <1>2, <1>3, <1>4, <1>5, <1>6, AuditEffects DEF ExportStep

(* Only an acknowledgement takes rows off the pending ones, and only its batch's. *)
LEMMA PendingLeaves ==
  ASSUME Inv, [Next]_vars, NEW s \in Pending, s \notin Pending'
  PROVE  \E p \in Stores : exporting[p] = "exported" /\ Span(batch[p]) \subseteq Pending
                             /\ s \in Span(batch[p])
<1>0. OutboxOK
  BY DEF Inv, AuditInv
<1>1. CASE UNCHANGED outbox
  BY <1>1 DEF Pending
<1>2. ASSUME NEW evs \in Seq(Event), Appends(evs) PROVE FALSE
  <2>1. s \in DOMAIN outbox /\ ~outbox[s]
    BY DEF Pending
  <2>2. /\ DOMAIN outbox \subseteq DOMAIN outbox'
        /\ \A x \in DOMAIN outbox' : outbox'[x] = (x \in Delivered)
    BY <1>2 DEF Appends, AppendEvents
  <2>3. s \notin Delivered
    BY <2>1 DEF Delivered
  <2>4. s \in DOMAIN outbox' /\ ~outbox'[s]
    BY <2>1, <2>2, <2>3
  <2> QED
    BY <2>4 DEF Pending
<1>3. ASSUME NEW p \in Stores, Acknowledge(p)
      PROVE  exporting[p] = "exported" /\ Span(batch[p]) \subseteq Pending /\ s \in Span(batch[p])
  <2> DEFINE acked == [x \in DOMAIN outbox |-> outbox[x] \/ x \in Span(batch[p])]
  <2>1. PICK expired \in {{}, Delivered} :
          outbox' = [x \in DOMAIN outbox \ PrunedRows(acked, expired) |-> acked[x]]
    BY <1>3 DEF Acknowledge
  <2>2. s \in DOMAIN outbox /\ ~outbox[s]
    BY DEF Pending
  <2>3. s \in PrunedRows(acked, expired) => acked[s]
    BY <2>1, <2>2 DEF PrunedRows, Delivered
  <2>4. s \notin PrunedRows(acked, expired) => s \in DOMAIN outbox' /\ outbox'[s] = acked[s]
    BY <2>1, <2>2
  <2>5. acked[s] = (s \in Span(batch[p]))
    BY <2>2
  <2>6. s \in Span(batch[p])
    <3> HIDE DEF acked
    <3> QED
      BY <2>3, <2>4, <2>5 DEF Pending
  <2> QED
    BY <1>3, <2>6 DEF Acknowledge
<1> QED
  BY <1>1, <1>2, <1>3, AuditEffects DEF auditVars, ExportStep, ExportFails, GivesUp, LoadBatch,
     PublishSegment, PruneSegments, AcknowledgeRefused

(* A row is marked delivered only when a segment with its record is on disk or was removed
   for its age: as long as the directory may hold two segments, no handle's rotation takes
   a segment whose rows are still to be acknowledged.  With maximum_segments = 1 the
   property fails, and without the excuse it fails for every setting: a handle that retries
   or pauses for longer than the retention acknowledges rows of an expired segment. *)
THEOREM AcknowledgedOnDiskOrAged ==
  ASSUME MaxSegments > 1 PROVE Spec => AckedOnDiskOrAged
<1>1. Init => DiskInv
  BY DEF Init, AuditInit, DiskInv, SpansOK, Covered
<1>2. Inv /\ DiskInv /\ [Next]_vars => DiskInv'
  BY DiskKept
<1>3. Inv /\ DiskInv /\ [Next]_vars =>
        [\A s \in Pending :
           s \notin Pending' => \E f \in segments \cup lapsed : s \in Span(f)]_auditVars
  <2> SUFFICES ASSUME Inv, DiskInv, [Next]_vars, NEW s \in Pending, s \notin Pending'
               PROVE  \E f \in segments \cup lapsed : s \in Span(f)
    OBVIOUS
  <2>1. PICK p \in Stores : /\ exporting[p] = "exported" /\ Span(batch[p]) \subseteq Pending
                            /\ s \in Span(batch[p])
    BY PendingLeaves
  <2>2. PICK f \in segments \cup lapsed : f[1] = batch[p][1] /\ batch[p][2] <= f[2]
    BY <2>1 DEF DiskInv, Covered
  <2>3. /\ batch[p] \in HandedOut \X HandedOut /\ f \in HandedOut \X HandedOut
        /\ HandedOut \subseteq Nat
    BY <2>1 DEF DiskInv, SpansOK, HandedOut, Inv, AuditInv, OutboxOK
  <2>4. /\ batch[p][1] \in Nat /\ batch[p][2] \in Nat /\ f[1] \in Nat /\ f[2] \in Nat
    BY <2>3
  <2>5. s \in batch[p][1] .. batch[p][2]
    BY <2>1 DEF Span
  <2>6. s \in f[1] .. f[2]
    BY <2>2, <2>4, <2>5
  <2> QED
    BY <2>2, <2>6 DEF Span
<1> QED
  BY <1>1, <1>2, <1>3, InvInit, InvNext, PTL DEF Spec, AckedOnDiskOrAged

-----------------------------------------------------------------------------
(* SingleflightFill: one leader for each fill. *)

(* Every strong reference is to the entry the map points to weakly. *)
HoldersShare ==
    \A c \in Callers : (pc[c] = "idle" => hold[c] = NoEntry)
                       /\ (hold[c] # NoEntry => hold[c] = weak)

(* An entry that is Running and held has a leader among its holders. *)
RunningHasLeader ==
    \A c \in Callers : hold[c] # NoEntry /\ state[hold[c]] = "Running" =>
        \E d \in Callers : pc[d] \in LeaderSteps /\ hold[d] = hold[c]

FillInv == FillTypeOK /\ OneFetch /\ HoldersShare /\ RunningHasLeader

-----------------------------------------------------------------------------
(* A new leader finds nobody else in a call. *)
LEMMA LeaderIsAlone ==
  ASSUME FillTypeOK, HoldersShare, ~Alive(weak)
  PROVE  \A c \in Callers : pc[c] = "idle" /\ hold[c] = NoEntry
  BY EntriesAssumption DEF FillTypeOK, HoldersShare, Alive

(* Joining or creating the entry keeps the invariant. *)
LEMMA GetOrFillKeepsInv ==
  ASSUME FillInv, NEW c \in Callers, GetOrFill(c)
  PROVE  FillInv'
<1> USE EntriesAssumption DEF FillInv
<1>1. FillTypeOK'
  BY DEF FillTypeOK, GetOrFill, Alive, Remembered
<1>2. CASE Alive(weak)
  <2>1. OneFetch'
    BY <1>2 DEF FillTypeOK, OneFetch, GetOrFill, LeaderSteps
  <2>2. HoldersShare'
    BY <1>2 DEF FillTypeOK, HoldersShare, GetOrFill
  <2>3. \A d \in Callers : pc[d] \in LeaderSteps => d # c
    BY DEF GetOrFill, LeaderSteps
  <2>4. RunningHasLeader'
    <3> SUFFICES ASSUME NEW d \in Callers, hold'[d] # NoEntry, state'[hold'[d]] = "Running"
                 PROVE  \E f \in Callers : pc'[f] \in LeaderSteps /\ hold'[f] = hold'[d]
      BY DEF RunningHasLeader
    <3>1. PICK h \in Callers : hold[h] = weak
      BY <1>2 DEF Alive
    <3>2. hold'[d] = weak /\ weak # NoEntry /\ state' = state
      BY <1>2 DEF FillTypeOK, HoldersShare, GetOrFill, Alive
    <3>3. PICK f \in Callers : pc[f] \in LeaderSteps /\ hold[f] = weak
      BY <3>1, <3>2 DEF RunningHasLeader
    <3>4. pc'[f] = pc[f] /\ hold'[f] = hold[f]
      BY <1>2, <2>3, <3>3 DEF FillTypeOK, GetOrFill
    <3> QED
      BY <3>2, <3>3, <3>4
  <2> QED
    BY <1>1, <2>1, <2>2, <2>4
<1>3. CASE ~Alive(weak)
  <2>1. \A d \in Callers : pc[d] = "idle" /\ hold[d] = NoEntry
    BY <1>3, LeaderIsAlone
  <2>2. PICK e \in Entries : /\ hold' = [hold EXCEPT ![c] = e]
                             /\ weak' = e
                             /\ state' = [state EXCEPT ![e] = "Running"]
                             /\ pc' = [pc EXCEPT ![c] = "lead"]
    BY <1>3 DEF GetOrFill, Remembered
  <2>3. OneFetch'
    BY <2>1, <2>2 DEF FillTypeOK, OneFetch, LeaderSteps
  <2>4. HoldersShare'
    BY <2>1, <2>2 DEF FillTypeOK, HoldersShare
  <2>5. RunningHasLeader'
    BY <2>1, <2>2 DEF FillTypeOK, RunningHasLeader, LeaderSteps
  <2> QED
    BY <1>1, <2>3, <2>4, <2>5
<1> QED
  BY <1>2, <1>3

(* A leader that publishes an outcome leaves no Running entry behind. *)
LEMMA OutcomeKeepsInv ==
  ASSUME FillInv, NEW c \in Callers, GiveUp(c) \/ FetchReturns(c)
  PROVE  FillInv'
<1> USE EntriesAssumption DEF FillInv
<1>1. PICK outcome \in {"Ready", "Failed"} :
        /\ state' = [state EXCEPT ![hold[c]] = outcome]
        /\ pc' = [pc EXCEPT ![c] = "done"]
        /\ UNCHANGED <<hold, weak, cancelled>>
        /\ pc[c] \in LeaderSteps
  BY DEF GiveUp, FetchReturns, LeaderSteps
<1>2. hold[c] \in Entries /\ hold[c] = weak
  BY <1>1 DEF FillTypeOK, HoldersShare, LeaderSteps
<1>3. FillTypeOK'
  BY <1>1, <1>2 DEF FillTypeOK
<1>4. OneFetch'
  BY <1>1 DEF FillTypeOK, OneFetch, LeaderSteps
<1>5. HoldersShare'
  BY <1>1 DEF FillTypeOK, HoldersShare
<1>6. \A d \in Callers : hold'[d] # NoEntry => state'[hold'[d]] # "Running"
  BY <1>1, <1>2 DEF FillTypeOK, HoldersShare
<1>7. RunningHasLeader'
  BY <1>6 DEF RunningHasLeader
<1> QED
  BY <1>3, <1>4, <1>5, <1>7

(* Followers, cancellations and returns do not touch the leader. *)
LEMMA OthersKeepInv ==
  ASSUME FillInv, NEW c \in Callers,
         Cancel(c) \/ StartFetch(c) \/ Look(c) \/ Wake(c) \/ Return(c)
  PROVE  FillInv'
<1> USE EntriesAssumption DEF FillInv
<1>1. FillTypeOK'
  BY DEF FillTypeOK, Cancel, StartFetch, Look, Wake, Return
<1>2. OneFetch'
  BY DEF FillTypeOK, OneFetch, LeaderSteps, Cancel, StartFetch, Look, Wake, Return
<1>3. HoldersShare'
  BY DEF FillTypeOK, HoldersShare, Cancel, StartFetch, Look, Wake, Return
<1>4. \A d \in Callers : pc[d] \in LeaderSteps =>
        pc'[d] \in LeaderSteps /\ hold'[d] = hold[d]
  BY DEF FillTypeOK, LeaderSteps, Cancel, StartFetch, Look, Wake, Return
<1>5. \A d \in Callers : hold'[d] # NoEntry => hold'[d] = hold[d]
  BY DEF FillTypeOK, Cancel, StartFetch, Look, Wake, Return
<1>6. state' = state
  BY DEF Cancel, StartFetch, Look, Wake, Return
<1>7. RunningHasLeader'
  <2> SUFFICES ASSUME NEW d \in Callers, hold'[d] # NoEntry, state'[hold'[d]] = "Running"
               PROVE  \E f \in Callers : pc'[f] \in LeaderSteps /\ hold'[f] = hold'[d]
    BY DEF RunningHasLeader
  <2>1. PICK f \in Callers : pc[f] \in LeaderSteps /\ hold[f] = hold[d]
    BY <1>5, <1>6 DEF RunningHasLeader
  <2> QED
    BY <1>4, <1>5, <2>1
<1> QED
  BY <1>1, <1>2, <1>3, <1>7

(* The inductive invariant: one leader, which holds the entry all others hold. *)
THEOREM FillInvariant == FillSpec => []FillInv
<1>1. FillInit => FillInv
  BY EntriesAssumption
     DEF FillInit, FillInv, FillTypeOK, OneFetch, HoldersShare, RunningHasLeader, LeaderSteps
<1>2. FillInv /\ [FillNext]_fillVars => FillInv'
  <2> SUFFICES ASSUME FillInv, [FillNext]_fillVars PROVE FillInv'
    OBVIOUS
  <2>1. CASE UNCHANGED fillVars
    BY <2>1 DEF fillVars, FillInv, FillTypeOK, OneFetch, HoldersShare, RunningHasLeader, LeaderSteps
  <2>2. ASSUME NEW c \in Callers, GetOrFill(c) PROVE FillInv'
    BY <2>2, GetOrFillKeepsInv
  <2>3. ASSUME NEW c \in Callers, GiveUp(c) \/ FetchReturns(c) PROVE FillInv'
    BY <2>3, OutcomeKeepsInv
  <2>4. ASSUME NEW c \in Callers,
               Cancel(c) \/ StartFetch(c) \/ Look(c) \/ Wake(c) \/ Return(c)
        PROVE  FillInv'
    BY <2>4, OthersKeepInv
  <2> QED
    BY <2>1, <2>2, <2>3, <2>4 DEF FillNext
<1> QED
  BY <1>1, <1>2, PTL DEF FillSpec

(* At most one call at a time leads a fill (get_or_fill_cancellable), for any
   number of callers. *)
THEOREM FetchesAreSingle == FillSpec => []OneFetch
<1>1. FillInv => OneFetch
  BY DEF FillInv
<1> QED
  BY <1>1, FillInvariant, PTL

(* No waiter of get_or_fill_cancellable holds a Running entry without a leader,
   also after cancelled, failed and panicked leaders. *)
THEOREM WaitersAreServed == FillSpec => []WaitersHaveLeader
<1>1. FillInv => WaitersHaveLeader
  BY EntriesAssumption DEF FillInv, FillTypeOK, RunningHasLeader, WaitersHaveLeader
<1> QED
  BY <1>1, FillInvariant, PTL
=============================================================================
