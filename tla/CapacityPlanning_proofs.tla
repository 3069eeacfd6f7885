---------------------- MODULE CapacityPlanning_proofs ----------------------
(***************************************************************************)
(* A store with the quota of its worksheet keeps what it was sized for:    *)
(* MaintenanceKeepsRetained for every input of the worksheet and every     *)
(* load.  The loop of maintain_capacity_impl is followed turn by turn; the *)
(* induction over its turns is that of Recursion_proofs.                   *)
(***************************************************************************)
EXTENDS CapacityPlanning, Recursion_proofs

-----------------------------------------------------------------------------
(* The eviction loop, turn by turn. *)

EvictableManifests == [bytes : Nat, chunks : Seq(Nat)]

(* What the loop of maintain_capacity_impl can be in. *)
EvictFields ==
    [durable : Nat, chunks : Seq(Nat), manifests : Seq(EvictableManifests), operations : Nat,
     chunksEvicted : Nat, manifestsEvicted : Nat, blocked : BOOLEAN]

EvictStates(maximum) == {s \in EvictFields : s.operations <= maximum}

(* The loop stops. *)
Finished(s, target, maximum) == s.blocked \/ s.durable <= target \/ s.operations >= maximum

(* A turn that goes on takes a batch of chunks, finds nothing, or takes a manifest. *)
TookChunks(s, t, n) ==
    /\ n \in 1 .. Len(s.chunks) /\ n <= VictimBatch
    /\ t.durable = SaturatingSub(s.durable, SumOf(SubSeq(s.chunks, 1, n)))
    /\ t.chunks = SubSeq(s.chunks, n + 1, Len(s.chunks)) /\ t.manifests = s.manifests
    /\ t.operations = s.operations + n /\ t.manifestsEvicted = s.manifestsEvicted

FoundNothing(s, t) ==
    /\ s.chunks = <<>> /\ t.blocked
    /\ t.durable = s.durable /\ t.chunks = s.chunks /\ t.manifests = s.manifests
    /\ t.operations = s.operations /\ t.manifestsEvicted = s.manifestsEvicted

TookManifest(s, t) ==
    /\ s.chunks = <<>> /\ s.manifests # <<>>
    /\ t.durable = SaturatingSub(s.durable, Head(s.manifests).bytes)
    /\ t.chunks = Head(s.manifests).chunks /\ t.manifests = Tail(s.manifests)
    /\ t.operations = s.operations + 1

(* The sums of the loop are sums. *)
LEMMA SumOfIs ==
  ASSUME NEW q \in Seq(Nat)
  PROVE  SumOf(q) = SeqSum(q) /\ SumOf(q) \in Nat
<1>1. SumOf(q) = SeqSum(q)
  BY DEF SumOf, SeqSum, FoldLeft, MapThenFoldSet
<1> QED
  BY <1>1, SeqSumIs

(* The two updates of a state, field by field. *)
HasFields(t, m, c, d, o) ==
    /\ t \in EvictFields /\ t.manifests = m /\ t.chunks = c /\ t.durable = d
    /\ t.operations = o

WithoutChunks(s, c, d, o, e) ==
    [s EXCEPT !.chunks = c, !.durable = d, !.operations = o, !.chunksEvicted = e]

(* Taking chunks changes only the fields it names. *)
LEMMA ChunksTaken ==
  ASSUME NEW s \in EvictFields, NEW c \in Seq(Nat), NEW d \in Nat, NEW o \in Nat, NEW e \in Nat
  PROVE  /\ HasFields(WithoutChunks(s, c, d, o, e), s.manifests, c, d, o)
         /\ WithoutChunks(s, c, d, o, e).manifestsEvicted = s.manifestsEvicted
BY DEF EvictFields, WithoutChunks, HasFields

WithoutManifest(s, m, c, d, o, v) ==
    [s EXCEPT !.manifests = m, !.chunks = c, !.durable = d, !.operations = o,
              !.manifestsEvicted = v]

(* So does taking a manifest. *)
LEMMA ManifestTaken ==
  ASSUME NEW s \in EvictFields, NEW m \in Seq(EvictableManifests), NEW c \in Seq(Nat),
         NEW d \in Nat, NEW o \in Nat, NEW v \in Nat
  PROVE  HasFields(WithoutManifest(s, m, c, d, o, v), m, c, d, o)
BY DEF EvictFields, WithoutManifest, HasFields

(* saturating_sub. *)
LEMMA SubtractionFacts ==
  ASSUME NEW a \in Nat, NEW b \in Nat
  PROVE  /\ SaturatingSub(a, b) \in Nat /\ SaturatingSub(a, b) + b >= a
         /\ (b <= a => SaturatingSub(a, b) = a - b)
         /\ (a <= b => SaturatingSub(a, b) = 0)
BY DEF SaturatingSub

(* The counters stay natural numbers. *)
LEMMA CountersAdd ==
  ASSUME NEW x \in Nat, NEW y \in Nat
  PROVE  x + y \in Nat
OBVIOUS

(* A turn of n operations ends turn i + 1 with at least i + 1 operations. *)
LEMMA CountersAdvance ==
  ASSUME NEW x \in Nat, NEW i \in Nat, NEW n \in Nat, x >= i, n >= 1
  PROVE  x + n >= i + 1
OBVIOUS

(* Subtracting a part of what was added takes away just that part. *)
LEMMA PartOfSum ==
  ASSUME NEW r \in Nat, NEW x \in Nat, NEW y \in Nat
  PROVE  SaturatingSub(r + (x + y), x) = r + y
BY DEF SaturatingSub

(* A turn stays in the loop's states; it is one of the three once the loop goes on. *)
LEMMA TurnKinds ==
  ASSUME VictimBatch \in Nat \ {0}, NEW target \in Nat, NEW maximum \in Nat,
         NEW s \in EvictStates(maximum), NEW t, t = EvictTurn(s, target, maximum)
  PROVE  /\ t \in EvictStates(maximum)
         /\ Finished(s, target, maximum) => t = s
         /\ ~Finished(s, target, maximum) =>
              (\E n \in Nat : TookChunks(s, t, n)) \/ FoundNothing(s, t) \/ TookManifest(s, t)
<1> DEFINE n == Min({maximum - s.operations, VictimBatch, Len(s.chunks)})
<1>0. s \in EvictFields /\ s.operations <= maximum
  BY DEF EvictStates
<1>1. /\ s.durable \in Nat /\ s.chunks \in Seq(Nat) /\ s.manifests \in Seq(EvictableManifests)
      /\ s.operations \in Nat /\ s.chunksEvicted \in Nat /\ s.manifestsEvicted \in Nat
  BY <1>0 DEF EvictFields
<1>2. /\ n \in {maximum - s.operations, VictimBatch, Len(s.chunks)}
      /\ n <= maximum - s.operations /\ n <= VictimBatch /\ n <= Len(s.chunks)
  <2> DEFINE S == {maximum - s.operations, VictimBatch, Len(s.chunks)}
  <2>1. S \in SUBSET Nat /\ S # {}
    BY <1>0, <1>1
  <2>2. Min(S) \in S /\ \A y \in S : Min(S) <= y
    <3> HIDE DEF S
    <3> QED
      BY <2>1, MinIsLeast
  <2> QED
    BY <2>2
<1>3. CASE Finished(s, target, maximum)
  <2>1. t = s
    BY <1>3 DEF Finished, EvictTurn
  <2> QED
    BY <1>3, <2>1
<1>4. CASE ~Finished(s, target, maximum) /\ n > 0
  <2> DEFINE q == s.chunks
             c == SubSeq(q, n + 1, Len(q))
             d == SaturatingSub(s.durable, SumOf(SubSeq(q, 1, n)))
             o == s.operations + n
             e == s.chunksEvicted + n
  <2>1. t = WithoutChunks(s, c, d, o, e)
    BY <1>4 DEF EvictTurn, Finished, WithoutChunks
  <2> HIDE DEF n
  <2>2. n \in Nat /\ n \in 1 .. Len(q) /\ s.operations + n <= maximum /\ q \in Seq(Nat)
    BY <1>1, <1>2, <1>4
  <2>3. c \in Seq(Nat) /\ SubSeq(q, 1, n) \in Seq(Nat)
    <3> HIDE DEF q
    <3> QED
      BY <2>2
  <2>4. SumOf(SubSeq(q, 1, n)) \in Nat
    BY <2>3, SumOfIs
  <2>5. d \in Nat /\ o \in Nat /\ e \in Nat
    <3>1. d \in Nat
      BY <1>1, <2>4, SubtractionFacts
    <3>2. o \in Nat /\ e \in Nat
      BY <1>1, <2>2, CountersAdd, Zenon
    <3> QED
      BY <3>1, <3>2, Zenon
  <2> HIDE DEF c, d, o, e
  <2>6. HasFields(t, s.manifests, c, d, o) /\ t.manifestsEvicted = s.manifestsEvicted
    <3>1. c \in Seq(Nat)
      BY <2>3
    <3>2. d \in Nat /\ o \in Nat /\ e \in Nat /\ s \in EvictFields
      BY <1>0, <2>5
    <3>3. /\ HasFields(WithoutChunks(s, c, d, o, e), s.manifests, c, d, o)
          /\ WithoutChunks(s, c, d, o, e).manifestsEvicted = s.manifestsEvicted
      BY ONLY <3>1, <3>2, ChunksTaken
    <3> QED
      BY <2>1, <3>3, Zenon
  <2>7. TookChunks(s, t, n)
    BY <1>2, <2>2, <2>6, Zenon DEF TookChunks, HasFields, c, d, o
  <2>8. t.operations <= maximum
    BY <2>2, <2>6 DEF HasFields, o
  <2> QED
    BY <1>4, <2>2, <2>6, <2>7, <2>8 DEF EvictStates, HasFields
<1>5. CASE ~Finished(s, target, maximum) /\ ~(n > 0)
  <2>0. s.operations < maximum /\ Len(s.chunks) = 0 /\ s.chunks = <<>>
    <3> HIDE DEF n
    <3>1. s.operations < maximum
      BY <1>1, <1>5 DEF Finished
    <3>2. Len(s.chunks) = 0
      BY <1>1, <1>2, <1>5, <3>1
    <3> QED
      BY <1>1, <3>1, <3>2
  <2>1. CASE s.manifests = <<>>
    <3>1. t = [s EXCEPT !.blocked = TRUE]
      BY <1>5, <2>1 DEF EvictTurn, Finished
    <3>2. t \in EvictFields /\ FoundNothing(s, t) /\ t.operations = s.operations
      BY <1>0, <2>0, <3>1 DEF FoundNothing, EvictFields
    <3> QED
      BY <1>0, <1>5, <3>2 DEF EvictStates
  <2>2. CASE s.manifests # <<>>
    <3> DEFINE m == Tail(s.manifests)
               c == Head(s.manifests).chunks
               d == SaturatingSub(s.durable, Head(s.manifests).bytes)
               o == s.operations + 1
               v == s.manifestsEvicted + 1
    <3>1. t = WithoutManifest(s, m, c, d, o, v)
      BY <1>5, <2>2 DEF EvictTurn, Finished, WithoutManifest
    <3>2. Head(s.manifests) \in EvictableManifests /\ m \in Seq(EvictableManifests)
      BY <1>1, <2>2
    <3>3. c \in Seq(Nat) /\ Head(s.manifests).bytes \in Nat
      BY <3>2 DEF EvictableManifests
    <3>4. d \in Nat /\ o \in Nat /\ v \in Nat
      <4>1. d \in Nat
        BY <1>1, <3>3, SubtractionFacts, Zenon
      <4>2. 1 \in Nat
        OBVIOUS
      <4> QED
        BY <1>1, <4>1, <4>2, CountersAdd, Zenon
    <3> HIDE DEF m, c, d, o, v
    <3>5. HasFields(t, m, c, d, o)
      BY <1>0, <3>1, <3>2, <3>3, <3>4, ManifestTaken
    <3>6. TookManifest(s, t)
      BY <2>0, <2>2, <3>5, Zenon DEF TookManifest, HasFields, m, c, d, o
    <3>7. t.operations <= maximum
      BY <1>1, <2>0, <3>5 DEF HasFields, o
    <3> QED
      BY <1>5, <3>5, <3>6, <3>7 DEF EvictStates, HasFields
  <2> QED
    BY <2>1, <2>2
<1> QED
  BY <1>3, <1>4, <1>5

(* The loop as a whole: the states turn after turn. *)
Turns(start, target, maximum, f) ==
    f = [n \in 0 .. maximum + 1 |->
            IF n = 0 THEN start
            ELSE LET prev == f[n - 1] IN EvictTurn(prev, target, maximum)]

(* The recursive definition of the loop has a solution. *)
LEMMA TurnsExist ==
  ASSUME VictimBatch \in Nat \ {0}, NEW target \in Nat, NEW maximum \in Nat,
         NEW start \in EvictStates(maximum)
  PROVE  \E f : Turns(start, target, maximum, f)
<1> DEFINE V == EvictStates(maximum)
           N == maximum + 1
           G == [p \in (1 .. N) \X V |-> EvictTurn(p[2], target, maximum)]
<1>1. \A p \in (1 .. N) \X V : EvictTurn(p[2], target, maximum) \in V
  <2> TAKE p \in (1 .. N) \X V
  <2>1. p[2] \in V
    OBVIOUS
  <2> QED
    BY <2>1, TurnKinds
<1>2. G \in [(1 .. N) \X V -> V] /\ N \in Nat /\ start \in V
  <2> HIDE DEF V
  <2>1. G \in [(1 .. N) \X V -> V]
    BY <1>1
  <2> QED
    BY <2>1 DEF V
<1>3. PICK f : Recursion(N, V, start, G, f)
  <2> HIDE DEF V, G, N
  <2> QED
    BY <1>2, RecursionExists
<1>4. f \in [0 .. N -> V] /\ f[0] = start /\ \A i \in 1 .. N : f[i] = G[<<i, f[i - 1]>>]
  BY <1>3 DEF Recursion
<1>5. ASSUME NEW i \in 1 .. N PROVE f[i] = EvictTurn(f[i - 1], target, maximum)
  <2>1. i - 1 \in 0 .. N
    OBVIOUS
  <2>2. f[i - 1] \in V
    <3> HIDE DEF V, G, N
    <3> QED
      BY <1>4, <2>1
  <2>3. <<i, f[i - 1]>> \in (1 .. N) \X V
    <3> HIDE DEF V, G, N
    <3> QED
      BY <2>2
  <2>4. G[<<i, f[i - 1]>>] = EvictTurn(f[i - 1], target, maximum)
    <3> HIDE DEF V, N
    <3> QED
      BY <2>3
  <2> HIDE DEF G
  <2> QED
    BY <1>4, <2>4
<1>6. \A i \in 0 .. N : f[i] = IF i = 0 THEN start ELSE EvictTurn(f[i - 1], target, maximum)
  <2> TAKE i \in 0 .. N
  <2>1. CASE i = 0
    BY <1>4, <2>1
  <2>2. CASE i # 0
    <3>1. i \in 1 .. N
      BY <2>2
    <3> QED
      BY <1>5, <2>2, <3>1
  <2> QED
    BY <2>1, <2>2
<1>7. f = [i \in 0 .. N |-> f[i]]
  <2> HIDE DEF V, G, N
  <2> QED
    BY <1>4
<1> HIDE DEF N
<1>8. f = [n \in 0 .. N |-> IF n = 0 THEN start ELSE EvictTurn(f[n - 1], target, maximum)]
  BY <1>6, <1>7
<1> QED
  BY <1>8 DEF Turns, N

(* The states it goes through. *)
LEMMA TurnByTurn ==
  ASSUME VictimBatch \in Nat \ {0}, NEW target \in Nat, NEW maximum \in Nat,
         NEW start \in EvictStates(maximum), NEW f, Turns(start, target, maximum, f)
  PROVE  /\ f[0] = start
         /\ \A i \in Nat : i <= maximum =>
              /\ f[i + 1] = EvictTurn(f[i], target, maximum)
              /\ f[i] \in EvictStates(maximum)
         /\ f[maximum + 1] \in EvictStates(maximum)
<1> DEFINE Body(n) == IF n = 0 THEN start ELSE EvictTurn(f[n - 1], target, maximum)
           Good == {i \in Nat : i <= maximum + 1 => f[i] \in EvictStates(maximum)}
<1>1. \A n \in 0 .. maximum + 1 : f[n] = Body(n)
  <2>1. f = [n \in 0 .. maximum + 1 |-> Body(n)]
    BY DEF Turns
  <2> HIDE DEF Body
  <2> QED
    BY <2>1
<1>2. f[0] = start
  BY <1>1
<1>3. ASSUME NEW i \in Nat, i <= maximum PROVE f[i + 1] = EvictTurn(f[i], target, maximum)
  <2>1. i + 1 \in 0 .. maximum + 1 /\ i + 1 # 0 /\ (i + 1) - 1 = i
    BY <1>3
  <2>2. f[i + 1] = Body(i + 1)
    <3> HIDE DEF Body
    <3> QED
      BY <1>1, <2>1
  <2> QED
    BY <2>1, <2>2
<1>4. \A i \in Nat : i \in Good
  <2>1. 0 \in Good
    BY <1>2
  <2>2. ASSUME NEW i \in Good PROVE i + 1 \in Good
    <3> SUFFICES ASSUME i + 1 <= maximum + 1 PROVE f[i + 1] \in EvictStates(maximum)
      OBVIOUS
    <3>1. i \in Nat /\ i <= maximum
      OBVIOUS
    <3>2. f[i] \in EvictStates(maximum)
      BY <3>1
    <3> HIDE DEF Good
    <3> QED
      BY <1>3, <3>1, <3>2, TurnKinds
  <2>3. Good \in SUBSET Nat
    OBVIOUS
  <2> HIDE DEF Good
  <2> QED
    BY <2>1, <2>2, <2>3, NatInduct
<1> QED
  BY <1>2, <1>3, <1>4

(* No object is larger than b. *)
Bounded(s, b) ==
    /\ \A i \in 1 .. Len(s.chunks) : s.chunks[i] <= b
    /\ \A i \in 1 .. Len(s.manifests) :
         /\ s.manifests[i].bytes <= b
         /\ \A j \in 1 .. Len(s.manifests[i].chunks) : s.manifests[i].chunks[j] <= b

(* After i turns: whatever was evicted, the target was not met by more than a batch, and
   either the loop has stopped or each turn evicted something. *)
TurnInv(s, i, target, maximum, b) ==
    /\ Bounded(s, b)
    /\ s.operations > 0 => s.durable + VictimBatch * b > target
    /\ Finished(s, target, maximum) \/ s.operations >= i

(* A turn keeps the bounds on what is left. *)
LEMMA TurnKeeps ==
  ASSUME VictimBatch \in Nat \ {0}, NEW target \in Nat, NEW maximum \in Nat, NEW b \in Nat,
         NEW i \in Nat, NEW s \in EvictStates(maximum), TurnInv(s, i, target, maximum, b)
  PROVE  TurnInv(EvictTurn(s, target, maximum), i + 1, target, maximum, b)
<1> DEFINE t == EvictTurn(s, target, maximum)
           B == VictimBatch * b
<1>0. /\ s.durable \in Nat /\ s.chunks \in Seq(Nat) /\ s.manifests \in Seq(EvictableManifests)
      /\ s.operations \in Nat
  BY DEF EvictStates, EvictFields
<1>1. /\ Finished(s, target, maximum) => t = s
      /\ ~Finished(s, target, maximum) =>
           (\E n \in Nat : TookChunks(s, t, n)) \/ FoundNothing(s, t) \/ TookManifest(s, t)
  BY TurnKinds
<1> HIDE DEF t
<1>b. B \in Nat /\ b <= B
  <2>1. VictimBatch >= 1 /\ VictimBatch * b \in Nat
    OBVIOUS
  <2>2. VictimBatch * b = b + (VictimBatch - 1) * b /\ (VictimBatch - 1) * b \in Nat
    OBVIOUS
  <2> QED
    BY <2>1, <2>2
<1> HIDE DEF B
<1>f. Bounded(s, b) /\ (s.operations > 0 => s.durable + B > target)
  BY DEF TurnInv, B
<1>s. SUFFICES TurnInv(t, i + 1, target, maximum, b)
  BY DEF t
<1>2. CASE Finished(s, target, maximum)
  <2>1. t = s
    BY <1>1, <1>2
  <2> QED
    BY <1>2, <2>1 DEF TurnInv
<1>3. CASE ~Finished(s, target, maximum)
  <2>0. s.durable > target /\ s.operations >= i
    BY <1>0, <1>3 DEF TurnInv, Finished
  <2>1. ASSUME NEW n \in Nat, TookChunks(s, t, n) PROVE TurnInv(t, i + 1, target, maximum, b)
    <3> DEFINE q == s.chunks
               p == SubSeq(q, 1, n)
    <3>1. q \in Seq(Nat) /\ n \in 1 .. Len(q) /\ n <= VictimBatch
          /\ \A k \in 1 .. Len(q) : q[k] <= b
      BY <1>0, <1>f, <2>1 DEF TookChunks, Bounded
    <3> HIDE DEF q
    <3>2. p \in Seq(Nat) /\ Len(p) = n /\ \A k \in 1 .. Len(p) : p[k] <= b
      BY <3>1
    <3>3. SumOf(p) \in Nat /\ SumOf(p) <= n * b
      <4> HIDE DEF p
      <4> QED
        BY <3>2, SumOfIs, SeqSumBounded
    <3>4. n * b <= B /\ n * b \in Nat
      <4>1. VictimBatch - n \in Nat
        BY <3>1
      <4>2. (VictimBatch - n) * b \in Nat /\ VictimBatch * b = n * b + (VictimBatch - n) * b
            /\ n * b \in Nat
        BY <4>1
      <4> QED
        BY <4>2 DEF B
    <3>5. t.durable = SaturatingSub(s.durable, SumOf(p)) /\ t.operations = s.operations + n
          /\ t.manifests = s.manifests /\ t.chunks = SubSeq(q, n + 1, Len(q))
      BY <2>1, Zenon DEF TookChunks, q
    <3> HIDE DEF p
    <3>6. t.durable \in Nat /\ t.durable + SumOf(p) >= s.durable
      <4>1. s.durable \in Nat /\ SumOf(p) \in Nat
        BY <1>0, <3>3, Zenon
      <4>2. /\ SaturatingSub(s.durable, SumOf(p)) \in Nat
            /\ SaturatingSub(s.durable, SumOf(p)) + SumOf(p) >= s.durable
        BY <4>1, SubtractionFacts, Zenon
      <4> QED
        BY <3>5, <4>2, Zenon
    <3>7. t.durable + B > target
      <4>1. B \in Nat /\ SumOf(p) <= B
        BY <1>b, <3>3, <3>4
      <4> QED
        BY <1>0, <2>0, <3>3, <3>6, <4>1
    <3>8. Bounded(t, b)
      <4>1. \A k \in 1 .. Len(SubSeq(q, n + 1, Len(q))) : SubSeq(q, n + 1, Len(q))[k] <= b
        BY <3>1
      <4> QED
        BY <1>f, <3>5, <4>1 DEF Bounded
    <3>9. t.operations >= i + 1
      <4>1. n \in Nat /\ n >= 1
        BY <3>1
      <4> QED
        BY <1>0, <2>0, <3>5, <4>1, CountersAdvance, Zenon
    <3> QED
      BY <3>7, <3>8, <3>9 DEF TurnInv, B
  <2>2. CASE FoundNothing(s, t)
    BY <1>f, <2>0, <2>2 DEF FoundNothing, TurnInv, Bounded, Finished, B
  <2>3. CASE TookManifest(s, t)
    <3> DEFINE m == s.manifests
    <3>1. m \in Seq(EvictableManifests) /\ m # <<>>
          /\ \A k \in 1 .. Len(m) : /\ m[k].bytes <= b
                                    /\ \A j \in 1 .. Len(m[k].chunks) : m[k].chunks[j] <= b
      BY <1>0, <1>f, <2>3 DEF TookManifest, Bounded
    <3>2. /\ t.durable = SaturatingSub(s.durable, Head(m).bytes) /\ t.operations = s.operations + 1
          /\ t.manifests = Tail(m) /\ t.chunks = Head(m).chunks
      BY <2>3, Zenon DEF TookManifest
    <3> HIDE DEF m
    <3>3. Head(m) = m[1] /\ 1 \in 1 .. Len(m) /\ m[1] \in EvictableManifests
      BY <3>1
    <3>4. m[1].bytes \in Nat /\ m[1].bytes <= b
      BY <3>1, <3>3 DEF EvictableManifests
    <3>5. t.durable \in Nat /\ t.durable + m[1].bytes >= s.durable
      <4>1. s.durable \in Nat /\ m[1].bytes \in Nat
        BY <1>0, <3>4, Zenon
      <4>2. /\ SaturatingSub(s.durable, m[1].bytes) \in Nat
            /\ SaturatingSub(s.durable, m[1].bytes) + m[1].bytes >= s.durable
        BY <4>1, SubtractionFacts, Zenon
      <4>3. t.durable = SaturatingSub(s.durable, m[1].bytes)
        BY <3>2, <3>3, Zenon
      <4> QED
        BY <4>2, <4>3, Zenon
    <3>6. t.durable + B > target
      BY <1>0, <1>b, <2>0, <3>4, <3>5
    <3>7. Bounded(t, b)
      <4>1. \A k \in 1 .. Len(Tail(m)) : k + 1 \in 1 .. Len(m) /\ Tail(m)[k] = m[k + 1]
        BY <3>1
      <4>2. \A k \in 1 .. Len(Tail(m)) :
               /\ Tail(m)[k].bytes <= b
               /\ \A j \in 1 .. Len(Tail(m)[k].chunks) : Tail(m)[k].chunks[j] <= b
        BY <3>1, <4>1
      <4> QED
        BY <3>1, <3>2, <3>3, <4>2, Zenon DEF Bounded
    <3>8. t.operations >= i + 1
      BY <1>0, <2>0, <3>2
    <3> QED
      BY <3>6, <3>7, <3>8 DEF TurnInv, B
  <2> QED
    BY <1>1, <1>3, <2>1, <2>2, <2>3
<1> QED
  BY <1>2, <1>3

(* As long as what is retained fits under the target, only unreferenced chunks go. *)
Unharmed(s, r) == s.manifestsEvicted = 0 /\ s.durable = r + SumOf(s.chunks)

(* A turn that starts with every retained byte spares the manifests. *)
LEMMA TurnSpares ==
  ASSUME VictimBatch \in Nat \ {0}, NEW target \in Nat, NEW maximum \in Nat,
         NEW s \in EvictStates(maximum), NEW r \in Nat, r <= target, Unharmed(s, r)
  PROVE  Unharmed(EvictTurn(s, target, maximum), r)
<1> DEFINE t == EvictTurn(s, target, maximum)
<1>0. s.durable \in Nat /\ s.chunks \in Seq(Nat) /\ s.operations \in Nat
  BY DEF EvictStates, EvictFields
<1>1. /\ Finished(s, target, maximum) => t = s
      /\ ~Finished(s, target, maximum) =>
           (\E n \in Nat : TookChunks(s, t, n)) \/ FoundNothing(s, t) \/ TookManifest(s, t)
  BY TurnKinds
<1> HIDE DEF t
<1>s. SUFFICES Unharmed(t, r)
  BY DEF t
<1>2. CASE Finished(s, target, maximum)
  BY <1>1, <1>2
<1>3. ASSUME ~Finished(s, target, maximum), s.chunks = <<>> PROVE FALSE
  <2>1. SumOf(s.chunks) = 0
    <3>1. SumOf(s.chunks) = SeqSum(<<>>)
      BY <1>0, <1>3, SumOfIs, Zenon
    <3> QED
      BY <3>1, SeqSumEmpty, Zenon
  <2>2. s.durable = r
    BY <2>1 DEF Unharmed
  <2> QED
    BY <1>3, <2>2 DEF Finished
<1>4. ASSUME NEW n \in Nat, TookChunks(s, t, n) PROVE Unharmed(t, r)
  <2> DEFINE q == s.chunks
             a == SubSeq(q, 1, n)
             c == SubSeq(q, n + 1, Len(q))
  <2>1. q \in Seq(Nat) /\ n \in 1 .. Len(q) /\ s.durable = r + SumOf(q)
        /\ s.manifestsEvicted = 0
    BY <1>0, <1>4 DEF TookChunks, Unharmed
  <2>2. t.durable = SaturatingSub(s.durable, SumOf(a)) /\ t.chunks = c
        /\ t.manifestsEvicted = s.manifestsEvicted
    BY <1>4, Zenon DEF TookChunks
  <2> HIDE DEF q
  <2>3. a \in Seq(Nat) /\ c \in Seq(Nat) /\ n \in 0 .. Len(q)
    BY <2>1
  <2>4. SeqSum(a) + SeqSum(c) = SeqSum(q)
    BY <2>1, <2>3, SeqSumSplits
  <2> HIDE DEF a, c
  <2>5. /\ SumOf(a) = SeqSum(a) /\ SumOf(c) = SeqSum(c) /\ SumOf(q) = SeqSum(q)
        /\ SumOf(a) \in Nat /\ SumOf(c) \in Nat /\ SumOf(q) \in Nat
    BY <2>1, <2>3, SumOfIs
  <2>6. SumOf(a) + SumOf(c) = SumOf(q)
    BY <2>4, <2>5, Zenon
  <2>7. s.durable = r + (SumOf(a) + SumOf(c))
    BY <2>1, <2>6, Zenon
  <2>8. t.durable = r + SumOf(c)
    <3>1. SumOf(a) \in Nat /\ SumOf(c) \in Nat
      BY <2>5, Zenon
    <3>2. SaturatingSub(r + (SumOf(a) + SumOf(c)), SumOf(a)) = r + SumOf(c)
      BY <3>1, PartOfSum, Zenon
    <3> QED
      BY <2>2, <2>7, <3>2, Zenon
  <2> QED
    BY <2>1, <2>2, <2>8, Zenon DEF Unharmed
<1> QED
  BY <1>1, <1>2, <1>3, <1>4 DEF FoundNothing, TookManifest

-----------------------------------------------------------------------------
(* A whole call of maintain_capacity_impl without the ladder. *)

StartOf(durable, evictable) ==
    [durable |-> durable, chunks |-> evictable.chunks, manifests |-> evictable.manifests,
     operations |-> 0, chunksEvicted |-> 0, manifestsEvicted |-> 0, blocked |-> FALSE]

Loop(start, target, maximum) == CHOOSE f : Turns(start, target, maximum, f)

(* What the loop ends in. *)
EndState(start, target, maximum) == Loop(start, target, maximum)[maximum + 1]

(* The report of a call that evicts nothing, and of one that does. *)
FirstReport(before, reserved, capacity, p, s) ==
    [before |-> before, after |-> s.durable + reserved, blocked |-> FALSE,
     chunks |-> s.chunksEvicted, manifests |-> s.manifestsEvicted,
     operations |-> s.operations, emergency |-> AtLeast(before, capacity, p.emergency)]

FinalReport(before, reserved, capacity, p, s, target, maximum) ==
    [before |-> before, after |-> s.durable + reserved,
     blocked |-> \/ s.blocked
                 \/ s.operations = maximum /\ s.durable + reserved > target,
     chunks |-> s.chunksEvicted, manifests |-> s.manifestsEvicted,
     operations |-> s.operations, emergency |-> AtLeast(before, capacity, p.emergency)]

(* After one turn more than there may be operations, the loop has stopped. *)
LEMMA LoopEnds ==
  ASSUME VictimBatch \in Nat \ {0}, NEW target \in Nat, NEW maximum \in Nat, NEW b \in Nat,
         NEW start \in EvictStates(maximum), start.operations = 0, Bounded(start, b)
  PROVE  /\ EndState(start, target, maximum) \in EvictStates(maximum)
         /\ TurnInv(EndState(start, target, maximum), maximum + 1, target, maximum, b)
         /\ \A r \in Nat : r <= target /\ Unharmed(start, r) =>
              Unharmed(EndState(start, target, maximum), r)
<1> DEFINE f == Loop(start, target, maximum)
<1>1. Turns(start, target, maximum, f)
  BY TurnsExist, Zenon DEF Loop
<1> HIDE DEF f
<1>2. /\ f[0] = start
      /\ \A i \in Nat : i <= maximum =>
           /\ f[i + 1] = EvictTurn(f[i], target, maximum)
           /\ f[i] \in EvictStates(maximum)
      /\ f[maximum + 1] \in EvictStates(maximum)
  BY <1>1, TurnByTurn
<1>3. EndState(start, target, maximum) = f[maximum + 1]
  BY DEF f, EndState
<1>4. ASSUME NEW G \in SUBSET Nat, 0 \in G,
             \A i \in Nat : i <= maximum /\ i \in G => i + 1 \in G
      PROVE  maximum + 1 \in G
  <2> DEFINE H == {i \in Nat : i <= maximum + 1 => i \in G}
  <2>1. H \in SUBSET Nat /\ 0 \in H
    BY <1>4
  <2>2. ASSUME NEW i \in H PROVE i + 1 \in H
    BY <1>4
  <2>3. \A i \in Nat : i \in H
    <3> HIDE DEF H
    <3> QED
      BY <2>1, <2>2, NatInduct
  <2> QED
    BY <2>3
<1>5. TurnInv(f[maximum + 1], maximum + 1, target, maximum, b)
  <2> DEFINE G == {i \in Nat : TurnInv(f[i], i, target, maximum, b)}
  <2>1. 0 \in G
    <3>1. TurnInv(start, 0, target, maximum, b)
      BY DEF TurnInv
    <3> QED
      BY <1>2, <3>1
  <2>2. ASSUME NEW i \in Nat, i <= maximum, i \in G PROVE i + 1 \in G
    <3>1. TurnInv(EvictTurn(f[i], target, maximum), i + 1, target, maximum, b)
      BY <1>2, <2>2, TurnKeeps
    <3>2. f[i + 1] = EvictTurn(f[i], target, maximum)
      BY <1>2, <2>2
    <3> QED
      BY <3>1, <3>2
  <2>3. G \in SUBSET Nat
    OBVIOUS
  <2>4. maximum + 1 \in G
    <3> HIDE DEF G
    <3> QED
      BY <1>4, <2>1, <2>2, <2>3
  <2> QED
    BY <2>4
<1>6. ASSUME NEW r \in Nat, r <= target, Unharmed(start, r)
      PROVE  Unharmed(f[maximum + 1], r)
  <2> DEFINE G == {i \in Nat : Unharmed(f[i], r)}
  <2>1. 0 \in G
    BY <1>2, <1>6
  <2>2. ASSUME NEW i \in Nat, i <= maximum, i \in G PROVE i + 1 \in G
    <3>1. Unharmed(EvictTurn(f[i], target, maximum), r)
      BY <1>2, <1>6, <2>2, TurnSpares
    <3>2. f[i + 1] = EvictTurn(f[i], target, maximum)
      BY <1>2, <2>2
    <3> QED
      BY <3>1, <3>2
  <2>3. G \in SUBSET Nat
    OBVIOUS
  <2>4. maximum + 1 \in G
    <3> HIDE DEF G
    <3> QED
      BY <1>4, <2>1, <2>2, <2>3
  <2> QED
    BY <2>4
<1> QED
  BY <1>2, <1>3, <1>5, <1>6

-----------------------------------------------------------------------------
(* What the worksheet promises of the quota. *)

WorksheetInputs ==
    [uniqueKv : Nat, overhead : Nat, pinned : Nat, rows : Nat, rowBytes : Nat,
     catalogFixed : Nat, wal : Nat, uploads : Nat, uploadBytes : Nat, restores : Nat,
     planBytes : Nat, pins : Nat, fds : Nat, gateways : Nat, dailyKv : Nat, peakKv : Nat,
     peakObject : Nat, amplification : Nat, writeBudget : Nat, network : Nat,
     networkTarget : Nat, backupBytes : Nat, generations : Nat]

(* The f64 of a store: a power of two, of which only this is needed. *)
SignificandOK == Significand \in Nat \ {0} /\ Significand % 16 = 0

(* The bytes at which eviction stops and the load at which it begins. *)
Target(capacity) == EvictionTarget(capacity, DefaultPolicy)

Begins(bytes, capacity) == AtLeast(bytes, capacity, DefaultPolicy.begin)

Quota(retained, staging) ==
    Max({ScaleCeil(retained, 1000, DurableTarget), retained + staging})

(* The nearest integer is at most one half away from the quotient. *)
LEMMA NearestBounds ==
  ASSUME NEW n \in Nat, NEW d \in Nat \ {0}, NEW x, x = NearestEven(n, d)
  PROVE  /\ x \in Nat /\ n \div d <= x
         /\ 2 * (d * x) <= 2 * n + d
         /\ 2 * n <= 2 * (d * x) + d
<1> DEFINE q == n \div d
           r == n % d
<1>1. q \in Nat /\ r \in Nat /\ r < d /\ n = d * q + r
  OBVIOUS
<1>2. x = IF 2 * r < d \/ (2 * r = d /\ q % 2 = 0) THEN q ELSE q + 1
  BY DEF NearestEven
<1>3. d * q \in Nat /\ d * (q + 1) = d * q + d
  BY <1>1
<1> HIDE DEF q, r
<1> DEFINE p == d * q
<1>4. p \in Nat /\ n = p + r
  BY <1>1, <1>3
<1> HIDE DEF p
<1>5. CASE x = q /\ 2 * r <= d
  <2>1. d * x = p
    BY <1>5 DEF p
  <2>2. 2 * p <= 2 * n + d /\ 2 * n <= 2 * p + d
    BY <1>1, <1>4, <1>5
  <2> QED
    BY <1>1, <1>5, <2>1, <2>2 DEF q
<1>6. CASE x = q + 1 /\ 2 * r >= d
  <2>1. d * x = p + d
    BY <1>3, <1>6 DEF p
  <2>2. 2 * (p + d) <= 2 * n + d /\ 2 * n <= 2 * (p + d) + d
    BY <1>1, <1>4, <1>6
  <2> QED
    BY <1>1, <1>6, <2>1, <2>2 DEF q
<1>7. (x = q /\ 2 * r <= d) \/ (x = q + 1 /\ 2 * r >= d)
  BY <1>1, <1>2
<1> QED
  BY <1>5, <1>6, <1>7

(* A number of bytes below the significand is exact as an f64. *)
LEMMA ExactF64 ==
  ASSUME SignificandOK, NEW n \in Nat, n < Significand
  PROVE  F64(n) = n
<1> DEFINE S == {u \in Units : n < u * Significand}
<1>1. 1 \in Units
  BY DEF Units, SignificandOK
<1>2. \A u \in Units : u \in Nat /\ 1 <= u
  <2>1. ASSUME NEW u \in 1 .. Significand PROVE Significand * u \in Nat /\ 1 <= Significand * u
    BY DEF SignificandOK
  <2> QED
    BY <2>1 DEF Units, SignificandOK
<1>3. 1 \in S
  BY <1>1 DEF SignificandOK
<1>4. Min(S) = 1
  <2>1. S \in SUBSET Nat /\ S # {} /\ \A y \in S : 1 <= y
    BY <1>2, <1>3
  <2> HIDE DEF S
  <2> DEFINE m == Min(S)
  <2>2. m \in S /\ \A y \in S : m <= y
    BY <2>1, MinIsLeast
  <2> HIDE DEF m
  <2>3. m \in Nat /\ m <= 1 /\ 1 <= m
    BY <1>3, <2>1, <2>2
  <2>4. m = 1
    BY <2>3
  <2> QED
    BY <2>4 DEF m
<1>5. NearestEven(n, 1) = n
  BY DEF NearestEven
<1> QED
  BY <1>4, <1>5 DEF F64

(* The unit of a number below Significand ^ 2 divides Significand. *)
LEMMA UnitDivides ==
  ASSUME SignificandOK, NEW n \in Nat, n < Significand * Significand
  PROVE  \E u, e \in Nat \ {0} : /\ Significand = u * e
                                 /\ F64(n) = u * NearestEven(n, u)
<1> DEFINE M == Significand
           S == {u \in Units : n < u * M}
<1>0. M \in Nat \ {0}
  BY DEF SignificandOK
<1>1. M \in S
  BY <1>0 DEF Units
<1>2. \A u \in S : u \in Nat \ {0}
  <2>1. ASSUME NEW u \in 1 .. M PROVE M * u \in Nat \ {0}
    BY <1>0
  <2> QED
    BY <1>0, <2>1 DEF Units
<1> DEFINE u == Min(S)
<1>3. u \in S /\ \A y \in S : u <= y
  <2>1. S \in SUBSET Nat /\ S # {}
    BY <1>1, <1>2
  <2> HIDE DEF S
  <2> QED
    BY <2>1, MinIsLeast
<1>4. Min(S) = u
  OBVIOUS
<1> HIDE DEF u
<1>5. u <= M /\ u \in Nat \ {0}
  BY <1>1, <1>2, <1>3
<1>6. M % u = 0
  <2>1. u \in {v \in 1 .. M : M % v = 0} \/ \E v \in 1 .. M : u = M * v
    BY <1>3 DEF Units
  <2>2. ASSUME NEW v \in 1 .. M, u = M * v PROVE u = M
    <3>1. M * v >= M
      BY <1>0
    <3> QED
      BY <1>0, <1>5, <2>2, <3>1
  <2>3. M % M = 0
    BY <1>0
  <2> QED
    BY <2>1, <2>2, <2>3
<1>7. M = u * (M \div u) /\ M \div u \in Nat \ {0}
  BY <1>0, <1>5, <1>6
<1>8. F64(n) = u * NearestEven(n, u)
  BY <1>4 DEF F64
<1> QED
  BY <1>5, <1>7, <1>8

(* The f64 target is at least the integer one. *)
LEMMA TargetHolds ==
  ASSUME SignificandOK, NEW quota \in Nat, quota < Significand
  PROVE  Target(quota) \in Nat /\ (3 * quota) \div 4 <= Target(quota)
<1> DEFINE M == Significand
           j == M \div 4
           f == (3 * quota) \div 4
           N == quota * (3 * j)
<1>1. M \in Nat \ {0} /\ j \in Nat /\ M = 4 * j
  BY DEF SignificandOK
<1>2. Literal(750) = 3 * j
  <2>1. (750 * M) \div 1000 = 3 * j /\ (750 * M) % 1000 = 0
    BY <1>1
  <2> QED
    BY <2>1 DEF Literal, NearestEven
<1>3. Target(quota) = F64(N) \div M
  BY <1>2, ExactF64 DEF Target, EvictionTarget, DefaultPolicy
<1>4. f \in Nat /\ 4 * f <= 3 * quota
  OBVIOUS
<1> HIDE DEF M, j, f
<1>5. N \in Nat /\ N < M * M
  <2>1. quota < M
    BY DEF M
  <2>2. N = 3 * (quota * j) /\ quota * j \in Nat
    BY <1>1
  <2>3. M * M = 4 * (M * j) /\ M * j \in Nat /\ M * j >= quota * j
    BY <1>1, <2>1
  <2>4. M * j > 0
    BY <1>1
  <2> QED
    BY <2>2, <2>3, <2>4
<1>6. f * M <= N
  <2>1. f * M = (4 * f) * j
    BY <1>1, <1>4
  <2>2. N = (3 * quota) * j
    BY <1>1
  <2>3. \A a, b \in Nat : a <= b => a * j <= b * j
    BY <1>1
  <2> QED
    BY <1>4, <2>1, <2>2, <2>3
<1> HIDE DEF N
<1>7. PICK u, e \in Nat \ {0} : M = u * e /\ F64(N) = u * NearestEven(N, u)
  BY <1>5, UnitDivides DEF M
<1> DEFINE x == NearestEven(N, u)
<1>8. x \in Nat /\ N \div u <= x
  BY <1>5, NearestBounds
<1> HIDE DEF x
<1>9. f * e <= N \div u
  <2>1. f * M = u * (f * e) /\ f * e \in Nat
    BY <1>4, <1>7
  <2> DEFINE k == f * e
             q == N \div u
             r == N % u
  <2>2. N = u * q + r /\ q \in Nat /\ r \in Nat /\ r < u
    BY <1>5
  <2>3. k \in Nat /\ u * k <= N
    BY <1>6, <2>1
  <2> HIDE DEF k, q, r
  <2>4. ASSUME k >= q + 1 PROVE FALSE
    <3>1. u * k >= u * (q + 1)
      BY <2>2, <2>3, <2>4
    <3>2. u * (q + 1) = u * q + u /\ u * q \in Nat /\ u * k \in Nat
      BY <2>2, <2>3
    <3> DEFINE a == u * q
               b == u * k
    <3>3. a \in Nat /\ b \in Nat /\ b >= a + u /\ b <= N /\ N = a + r
      BY <2>2, <2>3, <3>1, <3>2
    <3> HIDE DEF a, b
    <3> QED
      BY <2>2, <3>3
  <2>5. k <= q
    BY <2>2, <2>3, <2>4
  <2> QED
    BY <2>5 DEF k, q
<1>10. f * M <= u * x
  <2>1. f * M = u * (f * e) /\ f * e \in Nat /\ N \div u \in Nat
    BY <1>4, <1>5, <1>7
  <2>2. f * e <= x
    BY <1>8, <1>9, <2>1
  <2>3. \A a, b \in Nat : a <= b => u * a <= u * b
    OBVIOUS
  <2> QED
    BY <1>8, <2>1, <2>2, <2>3
<1>11. u * x \in Nat
  BY <1>8
<1>12. F64(N) = u * x
  BY <1>7 DEF x
<1> DEFINE y == u * x
<1>13. y \in Nat /\ f * M <= y /\ Target(quota) = y \div M
  BY <1>3, <1>10, <1>11, <1>12
<1> HIDE DEF y
<1>14. y \div M \in Nat /\ f <= y \div M
  BY <1>1, <1>4, <1>13
<1> QED
  BY <1>13, <1>14 DEF f

(* The threshold of 85 %, to half a unit. *)
LEMMA BeginLiteral ==
  ASSUME SignificandOK
  PROVE  /\ Literal(850) \in Nat
         /\ 2000 * Literal(850) + 1000 >= 1700 * Significand
<1>1. Significand \in Nat /\ 850 * Significand \in Nat
  BY DEF SignificandOK
<1> DEFINE x == NearestEven(850 * Significand, 1000)
<1>2. x \in Nat /\ 2 * (850 * Significand) <= 2 * (1000 * x) + 1000
  BY <1>1, NearestBounds
<1>3. Literal(850) = x
  BY DEF Literal
<1> HIDE DEF x
<1> QED
  BY <1>1, <1>2, <1>3

(* Three quarters of a store do not reach the threshold, and what reaches it is less than
   one byte below 85 %. *)
LEMMA BeginFacts ==
  ASSUME SignificandOK, NEW quota \in Nat \ {0}, quota < Significand, NEW bytes \in Nat
  PROVE  /\ 4 * bytes <= 3 * quota => ~Begins(bytes, quota)
         /\ Begins(bytes, quota) => (bytes + 1) * 1000 > quota * 850
<1> DEFINE M == Significand
           x == Utilization(bytes, quota)
           t == Literal(850)
<1>1. M \in Nat /\ M >= 16 /\ t \in Nat /\ 2000 * t + 1000 >= 1700 * M /\ quota < M
  BY BeginLiteral DEF SignificandOK
<1>2. Begins(bytes, quota) <=> x >= t
  BY DEF Begins, AtLeast, DefaultPolicy
<1>3. CASE bytes >= M
  BY <1>1, <1>3
<1>4. CASE bytes < M
  <2> DEFINE n == bytes * M
  <2>1. x = NearestEven(n, quota)
    BY <1>4, ExactF64 DEF Utilization
  <2>2. n \in Nat
    BY <1>1
  <2> HIDE DEF x, M, t, n
  <2>3. x \in Nat /\ 2 * (quota * x) <= 2 * n + quota
    BY <2>1, <2>2, NearestBounds
  <2> DEFINE p == quota * x
  <2>4. p \in Nat /\ 2 * p <= 2 * n + quota
    BY <2>3
  <2>5. ASSUME 4 * bytes <= 3 * quota, x >= t PROVE FALSE
    <3>1. 4 * n <= 3 * (quota * M)
      <4>1. 4 * n = (4 * bytes) * M /\ 3 * (quota * M) = (3 * quota) * M
        BY <1>1 DEF n
      <4>2. \A a, b \in Nat : a <= b => a * M <= b * M
        BY <1>1
      <4> QED
        BY <2>5, <4>1, <4>2
    <3> DEFINE g == quota * M
               h == quota * t
    <3>2. g \in Nat /\ h \in Nat /\ g >= 16 * quota
      BY <1>1
    <3>3. h <= p
      <4>1. \A a, b \in Nat : a <= b => quota * a <= quota * b
        OBVIOUS
      <4> QED
        BY <1>1, <2>3, <2>5, <4>1
    <3>4. 2000 * h + 1000 * quota >= 1700 * g
      <4>1. 2000 * h + 1000 * quota = quota * (2000 * t + 1000) /\ 1700 * g = quota * (1700 * M)
        BY <1>1
      <4>2. \A a, b \in Nat : a >= b => quota * a >= quota * b
        OBVIOUS
      <4> QED
        BY <1>1, <4>1, <4>2
    <3>5. 4 * n <= 3 * g
      BY <3>1
    <3> HIDE DEF g, h, p
    <3> QED
      BY <2>2, <2>4, <3>2, <3>3, <3>4, <3>5
  <2>6. ASSUME x >= t PROVE (bytes + 1) * 1000 > quota * 850
    <3> DEFINE g == quota * M
               h == quota * t
    <3>1. g \in Nat /\ h \in Nat
      BY <1>1
    <3>2. h <= p
      <4>1. \A a, b \in Nat : a <= b => quota * a <= quota * b
        OBVIOUS
      <4> QED
        BY <1>1, <2>3, <2>6, <4>1
    <3>3. 2000 * h + 1000 * quota >= 1700 * g
      <4>1. 2000 * h + 1000 * quota = quota * (2000 * t + 1000) /\ 1700 * g = quota * (1700 * M)
        BY <1>1
      <4>2. \A a, b \in Nat : a >= b => quota * a >= quota * b
        OBVIOUS
      <4> QED
        BY <1>1, <4>1, <4>2
    <3>4. 2000 * n + 2000 * quota >= 1700 * g
      <4> HIDE DEF g, h, p
      <4> QED
        BY <2>2, <2>4, <3>1, <3>2, <3>3
    <3>5. 2000 * n + 2000 * M > 1700 * g
      <4> HIDE DEF g
      <4> QED
        BY <1>1, <2>2, <3>1, <3>4
    <3>6. 2000 * n + 2000 * M = (2000 * bytes + 2000) * M /\ 1700 * g = (1700 * quota) * M
      BY <1>1 DEF n
    <3>7. \A a, b \in Nat : a * M > b * M => a > b
      <4>1. \A a, b \in Nat : a <= b => a * M <= b * M
        BY <1>1
      <4>2. \A a \in Nat : a * M \in Nat
        BY <1>1
      <4> QED
        BY <4>1, <4>2
    <3>8. 2000 * bytes + 2000 > 1700 * quota
      BY <3>5, <3>6, <3>7
    <3> QED
      BY <3>8
  <2> QED
    BY <1>2, <2>5, <2>6
<1> QED
  BY <1>1, <1>3, <1>4

(* The quota holds the uploads beside the retained bytes, and its 75 % hold the retained
   bytes alone. *)
LEMMA QuotaFacts ==
  ASSUME SignificandOK, NEW retained \in Nat, NEW staging \in Nat,
         Quota(retained, staging) < Significand
  PROVE  /\ Quota(retained, staging) \in Nat
         /\ retained + staging <= Quota(retained, staging)
         /\ retained <= Target(Quota(retained, staging))
         /\ Target(Quota(retained, staging)) \in Nat
         /\ retained > 0 => ~Begins(retained, Quota(retained, staging))
<1> DEFINE c == ScaleCeil(retained, 1000, DurableTarget)
           l == retained + staging
           quota == Quota(retained, staging)
<1>1. c = (retained * 1000 + 749) \div 750
  BY DEF ScaleCeil, DurableTarget
<1>2. c \in Nat /\ 750 * c >= 1000 * retained
  BY <1>1
<1>3. l \in Nat
  OBVIOUS
<1>4. quota = Max({c, l}) /\ quota < Significand
  BY DEF Quota
<1> HIDE DEF c, l, quota
<1>5. quota \in {c, l} /\ c <= quota /\ l <= quota
  <2>1. Max({c, l}) = IF c <= l THEN l ELSE c
    BY <1>2, <1>3, PairBounds
  <2> QED
    BY <1>2, <1>3, <1>4, <2>1
<1>6. quota \in Nat /\ 4 * retained <= 3 * quota
  BY <1>2, <1>3, <1>5
<1>7. Target(quota) \in Nat /\ (3 * quota) \div 4 <= Target(quota)
  BY <1>4, <1>6, TargetHolds
<1>8. retained <= Target(quota)
  <2> DEFINE y == Target(quota)
  <2>1. y \in Nat /\ (3 * quota) \div 4 <= y
    BY <1>7
  <2> HIDE DEF y
  <2>2. retained <= y
    BY <1>6, <2>1
  <2> QED
    BY <2>2 DEF y
<1>9. ASSUME retained > 0 PROVE ~Begins(retained, quota)
  <2>1. quota \in Nat \ {0}
    BY <1>6, <1>9
  <2> QED
    BY <1>4, <1>6, <2>1, BeginFacts
<1> QED
  BY <1>5, <1>6, <1>7, <1>8, <1>9 DEF l, quota

(* The largest object of a load is at least as large as each of them. *)
Largest(surplus, manifests) ==
    Max({0} \cup {surplus[i] : i \in DOMAIN surplus}
        \cup UNION {{manifests[i].bytes} \cup Range(manifests[i].chunks) : i \in DOMAIN manifests})

(* No object is larger than the largest. *)
LEMMA LargestBounds ==
  ASSUME NEW surplus \in Seq(Nat), NEW manifests \in Seq(EvictableManifests)
  PROVE  /\ Largest(surplus, manifests) \in Nat
         /\ \A i \in 1 .. Len(surplus) : surplus[i] <= Largest(surplus, manifests)
         /\ \A i \in 1 .. Len(manifests) :
              /\ manifests[i].bytes <= Largest(surplus, manifests)
              /\ \A j \in 1 .. Len(manifests[i].chunks) :
                    manifests[i].chunks[j] <= Largest(surplus, manifests)
<1> DEFINE A == {surplus[i] : i \in DOMAIN surplus}
           Of(i) == {manifests[i].bytes} \cup Range(manifests[i].chunks)
           g == [i \in DOMAIN manifests |-> Of(i)]
           B == {Of(i) : i \in DOMAIN manifests}
           S == {0} \cup A \cup UNION B
<1>d. DOMAIN surplus = 1 .. Len(surplus) /\ DOMAIN manifests = 1 .. Len(manifests)
      /\ Len(surplus) \in Nat /\ Len(manifests) \in Nat
  OBVIOUS
<1>f. IsFiniteSet(DOMAIN surplus) /\ IsFiniteSet(DOMAIN manifests)
  BY <1>d, FS_Interval
<1>1. IsFiniteSet(A) /\ A \in SUBSET Nat
  <2>1. IsFiniteSet(A)
    BY <1>f, ImageIsFinite
  <2> QED
    BY <2>1, <1>d
<1>2. ASSUME NEW i \in DOMAIN manifests
      PROVE  /\ IsFiniteSet(Of(i)) /\ Of(i) \in SUBSET Nat /\ manifests[i].bytes \in Of(i)
             /\ \A j \in 1 .. Len(manifests[i].chunks) : manifests[i].chunks[j] \in Of(i)
  <2> DEFINE q == manifests[i].chunks
             x == manifests[i].bytes
  <2>1. q \in Seq(Nat) /\ x \in Nat
    <3>1. manifests[i] \in EvictableManifests
      BY <1>d
    <3> QED
      BY <3>1 DEF EvictableManifests
  <2> HIDE DEF q, x
  <2>2. DOMAIN q = 1 .. Len(q) /\ Len(q) \in Nat /\ Range(q) = {q[j] : j \in DOMAIN q}
    BY <2>1 DEF Range
  <2>3. IsFiniteSet(DOMAIN q)
    BY <2>2, FS_Interval
  <2>4. IsFiniteSet(Range(q)) /\ Range(q) \in SUBSET Nat
    <3>1. IsFiniteSet({q[j] : j \in DOMAIN q})
      BY <2>3, ImageIsFinite
    <3> QED
      BY <2>1, <2>2, <3>1
  <2>5. Of(i) = {x} \cup Range(q)
    BY DEF x, q
  <2>6. IsFiniteSet({x})
    BY FS_Singleton
  <2>7. IsFiniteSet({x} \cup Range(q))
    BY <2>4, <2>6, FS_Union
  <2>8. {x} \cup Range(q) \in SUBSET Nat /\ x \in {x} \cup Range(q)
        /\ \A j \in 1 .. Len(q) : q[j] \in {x} \cup Range(q)
    BY <2>1, <2>2, <2>4
  <2> QED
    BY <2>5, <2>7, <2>8, Zenon DEF x, q
<1> HIDE DEF A, Of
<1>3. IsFiniteSet(B)
  <2>1. {g[i] : i \in DOMAIN manifests} = B
    OBVIOUS
  <2> HIDE DEF g, B
  <2> QED
    BY <1>f, <2>1, ImageIsFinite
<1>4. IsFiniteSet(UNION B) /\ UNION B \in SUBSET Nat
      /\ \A i \in DOMAIN manifests : Of(i) \subseteq UNION B
  <2>1. \A b \in B : IsFiniteSet(b)
    BY <1>2
  <2>2. UNION B \in SUBSET Nat /\ \A i \in DOMAIN manifests : Of(i) \subseteq UNION B
    BY <1>2
  <2> HIDE DEF B
  <2> QED
    BY <1>3, <2>1, <2>2, FS_UNION
<1> HIDE DEF B
<1>5. IsFiniteSet(S) /\ S \in SUBSET Nat /\ S # {}
  <2>1. IsFiniteSet({0})
    BY FS_Singleton
  <2>2. IsFiniteSet({0} \cup A)
    BY <1>1, <2>1, FS_Union
  <2>3. IsFiniteSet(S)
    BY <1>4, <2>2, FS_Union
  <2>4. \A y \in S : y \in Nat
    <3> DEFINE U == UNION B
    <3>1. A \in SUBSET Nat /\ U \in SUBSET Nat
      BY <1>1, <1>4
    <3> HIDE DEF U
    <3>2. \A y \in {0} \cup A \cup U : y \in Nat
      BY <3>1
    <3> QED
      BY <3>2 DEF U
  <2>5. 0 \in S
    OBVIOUS
  <2> HIDE DEF S
  <2> QED
    BY <2>3, <2>4, <2>5
<1>6. Largest(surplus, manifests) = Max(S)
  BY DEF Largest, A, B, Of
<1>7. Max(S) \in Nat /\ \A y \in S : y <= Max(S)
  <2> HIDE DEF S
  <2>1. Max(S) \in S /\ \A y \in S : Max(S) >= y
    BY <1>5, MaxIsGreatest
  <2>2. Max(S) \in Nat
    BY <1>5, <2>1
  <2>3. \A y \in S : y <= Max(S)
    BY <1>5, <2>1, <2>2
  <2> QED
    BY <2>2, <2>3
<1>8. \A i \in 1 .. Len(surplus) : surplus[i] \in S
  BY <1>d DEF A
<1>9. \A i \in 1 .. Len(manifests) :
        /\ manifests[i].bytes \in S
        /\ \A j \in 1 .. Len(manifests[i].chunks) : manifests[i].chunks[j] \in S
  <2> TAKE i \in 1 .. Len(manifests)
  <2>1. i \in DOMAIN manifests
    BY <1>d
  <2>2. Of(i) \subseteq S
    BY <1>4, <2>1
  <2> QED
    BY <1>2, <2>1, <2>2
<1> HIDE DEF S
<1> QED
  BY <1>6, <1>7, <1>8, <1>9, Zenon

(* The fields of a report that tell how a loop ended. *)
Stuck(s, reserved, target, maximum) ==
    \/ s.blocked
    \/ s.operations = maximum /\ s.durable + reserved > target

Reports(report, s, before, reserved) ==
    /\ report.before = before /\ report.after = s.durable + reserved
    /\ report.manifests = s.manifestsEvicted /\ report.operations = s.operations

(* Both reports carry over the fields of the state they are of. *)
LEMMA ReportFacts ==
  ASSUME NEW before, NEW reserved, NEW capacity, NEW p, NEW s, NEW target, NEW maximum
  PROVE  /\ Reports(FirstReport(before, reserved, capacity, p, s), s, before, reserved)
         /\ Reports(FinalReport(before, reserved, capacity, p, s, target, maximum),
                    s, before, reserved)
         /\ Stuck(s, reserved, target, maximum) =>
              FinalReport(before, reserved, capacity, p, s, target, maximum).blocked
BY DEF FirstReport, FinalReport, Reports, Stuck

(* A call without the ladder. *)
Maintain(durable, reserved, chunks, manifests, capacity, maximum) ==
    MaintainCapacity(durable, reserved, [chunks |-> chunks, manifests |-> manifests], capacity,
                     DefaultPolicy, maximum, FALSE, 0)

First(durable, chunks, manifests) ==
    StartOf(durable, [chunks |-> chunks, manifests |-> manifests])

LastState(durable, reserved, chunks, manifests, target, maximum) ==
    EndState(First(durable, chunks, manifests), SaturatingSub(target, reserved), maximum)

(* A call reports the state it began in, or the one its loop ended in. *)
LEMMA MaintenanceReports ==
  ASSUME NEW durable, NEW reserved, NEW chunks, NEW manifests, NEW capacity, NEW maximum
  PROVE  LET report == Maintain(durable, reserved, chunks, manifests, capacity, maximum)
             last == LastState(durable, reserved, chunks, manifests, Target(capacity), maximum)
             first == First(durable, chunks, manifests)
         IN  /\ Begins(durable + reserved, capacity) =>
                  /\ Reports(report, last, durable + reserved, reserved)
                  /\ Stuck(last, reserved, Target(capacity), maximum) => report.blocked
             /\ ~Begins(durable + reserved, capacity) =>
                  Reports(report, first, durable + reserved, reserved)
<1> DEFINE start == First(durable, chunks, manifests)
           last == LastState(durable, reserved, chunks, manifests, Target(capacity), maximum)
           report == Maintain(durable, reserved, chunks, manifests, capacity, maximum)
           before == durable + reserved
           first == FirstReport(before, reserved, capacity, DefaultPolicy, start)
           final == FinalReport(before, reserved, capacity, DefaultPolicy, last,
                                Target(capacity), maximum)
<1>1. report = IF ~Begins(before, capacity) THEN first ELSE final
  BY ZenonT(60) DEF Maintain, MaintainCapacity, StartOf, Loop, Turns, FirstReport, FinalReport,
                    EndState, First, LastState, Target, Begins
<1> HIDE DEF start, last, report
<1>2. Reports(first, start, before, reserved)
  BY ReportFacts, Zenon
<1>3. /\ Reports(final, last, before, reserved)
      /\ Stuck(last, reserved, Target(capacity), maximum) => final.blocked
  <2>1. Reports(final, last, before, reserved)
    BY ReportFacts, Zenon
  <2>2. Stuck(last, reserved, Target(capacity), maximum) => final.blocked
    BY ReportFacts, Zenon
  <2> QED
    BY <2>1, <2>2, Zenon
<1> HIDE DEF first, final, before
<1>4. /\ Begins(before, capacity) => report = final
      /\ ~Begins(before, capacity) => report = first
  BY <1>1
<1>5. /\ Begins(before, capacity) =>
           /\ Reports(report, last, before, reserved)
           /\ Stuck(last, reserved, Target(capacity), maximum) => report.blocked
      /\ ~Begins(before, capacity) => Reports(report, start, before, reserved)
  BY <1>2, <1>3, <1>4, Zenon
<1> QED
  BY <1>5, Zenon DEF start, last, report, before

(* The state a call begins in. *)
LEMMA StartFacts ==
  ASSUME NEW durable \in Nat, NEW chunks \in Seq(Nat),
         NEW manifests \in Seq(EvictableManifests), NEW maximum \in Nat, NEW s,
         s = First(durable, chunks, manifests)
  PROVE  /\ s \in EvictStates(maximum) /\ s.operations = 0 /\ s.manifestsEvicted = 0
         /\ s.durable = durable /\ s.chunks = chunks /\ s.manifests = manifests
<1>1. /\ s.operations = 0 /\ s.manifestsEvicted = 0
      /\ s.durable = durable /\ s.chunks = chunks /\ s.manifests = manifests
  BY DEF First, StartOf
<1>2. s \in EvictFields
  BY DEF First, StartOf, EvictFields
<1> QED
  BY <1>1, <1>2 DEF EvictStates

(* No object of a load is larger than b. *)
LoadBounded(chunks, manifests, b) ==
    /\ \A i \in 1 .. Len(chunks) : chunks[i] <= b
    /\ \A i \in 1 .. Len(manifests) :
         /\ manifests[i].bytes <= b
         /\ \A j \in 1 .. Len(manifests[i].chunks) : manifests[i].chunks[j] <= b

(* How the loop of a call ends: within its limit, never further below the target than one
   batch, and stuck when the target is missed for another reason than reservations. *)
Outcome(s, durable, reserved, chunks, target, maximum, b) ==
    /\ s.operations \in Nat /\ s.operations <= maximum /\ s.durable + reserved \in Nat
    /\ s.operations > 0 => (s.durable + reserved) + VictimBatch * b > target
    /\ s.durable + reserved > target /\ s.durable + reserved > reserved =>
         Stuck(s, reserved, target, maximum)
    /\ \A r \in Nat : reserved = 0 /\ r <= target /\ durable = r + SumOf(chunks) =>
         s.manifestsEvicted = 0

(* The loop of every call has such an outcome. *)
LEMMA LoopOutcome ==
  ASSUME VictimBatch \in Nat \ {0}, NEW durable \in Nat, NEW reserved \in Nat,
         NEW chunks \in Seq(Nat), NEW manifests \in Seq(EvictableManifests),
         NEW maximum \in Nat, NEW target \in Nat, NEW b \in Nat,
         LoadBounded(chunks, manifests, b)
  PROVE  Outcome(LastState(durable, reserved, chunks, manifests, target, maximum),
                 durable, reserved, chunks, target, maximum, b)
<1> DEFINE below == SaturatingSub(target, reserved)
           B == VictimBatch * b
           start == First(durable, chunks, manifests)
           s == LastState(durable, reserved, chunks, manifests, target, maximum)
<1>1. /\ start \in EvictStates(maximum) /\ start.operations = 0 /\ start.manifestsEvicted = 0
      /\ start.durable = durable /\ start.chunks = chunks /\ start.manifests = manifests
  BY StartFacts
<1>a. s = EndState(start, below, maximum)
  BY DEF LastState
<1> HIDE DEF start, s
<1>2. below \in Nat /\ (reserved = 0 => below = target) /\ B \in Nat
  BY DEF SaturatingSub
<1>3. Bounded(start, b)
  BY <1>1, Zenon DEF Bounded, LoadBounded
<1> HIDE DEF below, B
<1>5. /\ s \in EvictStates(maximum)
      /\ TurnInv(s, maximum + 1, below, maximum, b)
      /\ \A r \in Nat : r <= below /\ Unharmed(start, r) => Unharmed(s, r)
  <2>1. /\ EndState(start, below, maximum) \in EvictStates(maximum)
        /\ TurnInv(EndState(start, below, maximum), maximum + 1, below, maximum, b)
        /\ \A r \in Nat : r <= below /\ Unharmed(start, r) =>
             Unharmed(EndState(start, below, maximum), r)
    BY <1>1, <1>2, <1>3, LoopEnds
  <2> QED
    BY <1>a, <2>1, Zenon
<1>6. s.durable \in Nat /\ s.operations \in Nat /\ s.operations <= maximum
  BY <1>5 DEF EvictStates, EvictFields
<1>7. /\ s.operations > 0 => s.durable + B > below
      /\ s.blocked \/ s.durable <= below \/ s.operations >= maximum
  <2>1. ~(s.operations >= maximum + 1)
    BY <1>6
  <2> QED
    BY <1>5, <2>1, Zenon DEF TurnInv, Finished, B
<1>8. \A r \in Nat : r <= below /\ durable = r + SumOf(chunks) => s.manifestsEvicted = 0
  BY <1>1, <1>5, Zenon DEF Unharmed
<1>9. /\ s.durable + reserved \in Nat
      /\ s.operations > 0 => (s.durable + reserved) + B > target
      /\ s.durable + reserved > target /\ s.durable + reserved > reserved =>
           s.blocked \/ (s.operations = maximum /\ s.durable + reserved > target)
  <2> DEFINE d == s.durable
             o == s.operations
  <2>1. d \in Nat /\ o \in Nat /\ o <= maximum /\ B \in Nat /\ below \in Nat
        /\ (o > 0 => d + B > below) /\ (s.blocked \/ d <= below \/ o >= maximum)
        /\ below + reserved >= target /\ (below = 0 \/ below + reserved = target)
    BY <1>2, <1>6, <1>7 DEF below, SaturatingSub
  <2> HIDE DEF d, o, below
  <2>2. d + reserved \in Nat /\ (o > 0 => (d + reserved) + B > target)
    BY <2>1
  <2>3. d + reserved > target /\ d + reserved > reserved => s.blocked \/ o = maximum
    BY <2>1
  <2> QED
    BY <2>2, <2>3, Zenon DEF d, o
<1> QED
  BY <1>2, <1>6, <1>8, <1>9, Zenon DEF Outcome, Stuck, B, s

(* What a report says: nothing happens below the point where eviction begins. *)
Kept(report, durable, reserved, chunks, capacity, maximum, b) ==
    /\ report.before = durable + reserved
    /\ ~Begins(durable + reserved, capacity) =>
         report.operations = 0 /\ report.after = durable + reserved
    /\ report.operations <= maximum /\ report.after \in Nat
    /\ report.operations > 0 =>
         /\ Begins(durable + reserved, capacity)
         /\ report.after + VictimBatch * b > Target(capacity)
         /\ report.after > Target(capacity) /\ report.after > reserved => report.blocked
    /\ \A r \in Nat : reserved = 0 /\ r <= Target(capacity) /\ durable = r + SumOf(chunks) =>
         report.manifests = 0

(* Every call keeps that. *)
LEMMA MaintenanceFacts ==
  ASSUME VictimBatch \in Nat \ {0}, NEW durable \in Nat, NEW reserved \in Nat,
         NEW chunks \in Seq(Nat), NEW manifests \in Seq(EvictableManifests),
         NEW capacity \in Nat, NEW maximum \in Nat, NEW b \in Nat,
         Target(capacity) \in Nat, LoadBounded(chunks, manifests, b)
  PROVE  Kept(Maintain(durable, reserved, chunks, manifests, capacity, maximum),
              durable, reserved, chunks, capacity, maximum, b)
<1> DEFINE report == Maintain(durable, reserved, chunks, manifests, capacity, maximum)
           target == Target(capacity)
           start == First(durable, chunks, manifests)
           last == LastState(durable, reserved, chunks, manifests, target, maximum)
           over == Begins(durable + reserved, capacity)
<1>1. /\ over => /\ Reports(report, last, durable + reserved, reserved)
                 /\ Stuck(last, reserved, target, maximum) => report.blocked
      /\ ~over => Reports(report, start, durable + reserved, reserved)
  BY MaintenanceReports, Zenon
<1>2. start.operations = 0 /\ start.manifestsEvicted = 0 /\ start.durable = durable
  BY StartFacts
<1>3. /\ last.operations \in Nat /\ last.operations <= maximum /\ last.durable + reserved \in Nat
      /\ last.operations > 0 => (last.durable + reserved) + VictimBatch * b > target
      /\ last.durable + reserved > target /\ last.durable + reserved > reserved =>
           Stuck(last, reserved, target, maximum)
      /\ \A r \in Nat : reserved = 0 /\ r <= target /\ durable = r + SumOf(chunks) =>
           last.manifestsEvicted = 0
  <2>1. target \in Nat
    OBVIOUS
  <2> HIDE DEF target
  <2>2. Outcome(last, durable, reserved, chunks, target, maximum, b)
    BY <2>1, LoopOutcome
  <2> HIDE DEF last
  <2> QED
    BY <2>2, Zenon DEF Outcome
<1> HIDE DEF report, target, start, last, over
<1>4. CASE ~over
  <2>1. /\ report.before = durable + reserved /\ report.after = durable + reserved
        /\ report.operations = 0 /\ report.manifests = 0
    BY <1>1, <1>2, <1>4, Zenon DEF Reports
  <2>2. 0 <= maximum /\ ~(0 > 0)
    OBVIOUS
  <2>3. report.operations <= maximum /\ ~(report.operations > 0)
    BY <2>1, <2>2, Zenon
  <2>4. durable + reserved \in Nat
    OBVIOUS
  <2> QED
    BY <1>4, <2>1, <2>3, <2>4, Zenon DEF Kept, over, report
<1>5. CASE over
  <2>1. /\ report.before = durable + reserved /\ report.after = last.durable + reserved
        /\ report.operations = last.operations /\ report.manifests = last.manifestsEvicted
        /\ Stuck(last, reserved, target, maximum) => report.blocked
    BY <1>1, <1>5, Zenon DEF Reports
  <2>2. report.operations <= maximum /\ report.after \in Nat
    BY <1>3, <2>1, Zenon
  <2>3. report.operations > 0 => report.after + VictimBatch * b > target
    BY <1>3, <2>1, Zenon
  <2>4. report.after > target /\ report.after > reserved => report.blocked
    BY <1>3, <2>1, Zenon
  <2>5. \A r \in Nat : reserved = 0 /\ r <= target /\ durable = r + SumOf(chunks) =>
           report.manifests = 0
    BY <1>3, <2>1, Zenon
  <2> QED
    BY <1>5, <2>1, <2>2, <2>3, <2>4, <2>5, Zenon DEF Kept, over, report, target
<1> QED
  BY <1>4, <1>5

-----------------------------------------------------------------------------
(* A store with the quota of its worksheet (production_v1) keeps what it was sized for,
   for every quota that an f64 holds exactly, whatever the load is and however many victims
   a call of maintain_capacity_impl may take: maintenance does nothing while only the
   retained bytes are there, a surplus of unreferenced chunks costs no retained manifest
   while nothing is reserved, and under any load eviction begins less than a byte early,
   ends within its limit, less than one batch below the target, and reports that it was
   blocked when it ends above it.  Significand is 2^53 in the code. *)
THEOREM SizedStoresRetain ==
  ASSUME SignificandOK, VictimBatch \in Nat \ {0}, NEW in \in WorksheetInputs,
         NEW surplus \in Seq(Nat), NEW reserved \in Nat,
         NEW manifests \in Seq(EvictableManifests), NEW maximum \in Nat
  PROVE  MaintenanceKeepsRetained(in, surplus, reserved, manifests, maximum)
<1> DEFINE w == Worksheet(in)
           retained == w.retained
           staging == w.staging
           quota == w.quota
           target == Target(quota)
           b == Largest(surplus, manifests)
           held == retained + SumOf(surplus)
           idle == Maintain(retained, 0, << >>, manifests, quota, maximum)
           busy == Maintain(held, reserved, surplus, manifests, quota, maximum)
<1>s. SUFFICES ASSUME w.ok, quota < Significand
               PROVE  /\ idle.operations = 0 /\ idle.after = retained
                      /\ retained + staging <= quota
                      /\ reserved = 0 => busy.manifests = 0
                      /\ busy.operations > 0 =>
                           /\ (busy.before + 1) * 1000 > quota * DefaultPolicy.begin
                           /\ busy.operations <= maximum
                           /\ busy.after + VictimBatch * b > target
                           /\ busy.after > Max({target, reserved}) => busy.blocked
  BY Zenon DEF MaintenanceKeepsRetained, Maintain, Target, Largest
<1>1. /\ retained = in.uniqueKv + in.overhead /\ staging = in.uploads * in.uploadBytes
      /\ quota = Quota(in.uniqueKv + in.overhead, in.uploads * in.uploadBytes)
      /\ in.uniqueKv # 0
  BY <1>s DEF Worksheet, ValidInput, Quota
<1>a. quota < Significand
  BY <1>s
<1> HIDE DEF w, retained, staging, quota
<1>2. in.uniqueKv \in Nat /\ in.overhead \in Nat /\ in.uploads \in Nat /\ in.uploadBytes \in Nat
  BY DEF WorksheetInputs
<1>3. retained \in Nat /\ staging \in Nat /\ retained > 0 /\ quota = Quota(retained, staging)
  <2>1. \A m, n \in Nat : m * n \in Nat
    OBVIOUS
  <2>2. in.uploads * in.uploadBytes \in Nat
    BY <1>2, <2>1, Zenon
  <2>3. \A m, n \in Nat : m # 0 => m + n \in Nat /\ m + n > 0
    OBVIOUS
  <2>4. in.uniqueKv + in.overhead \in Nat /\ in.uniqueKv + in.overhead > 0
    BY <1>1, <1>2, <2>3, Zenon
  <2> QED
    BY <1>1, <2>2, <2>4, Zenon
<1>4. /\ quota \in Nat /\ retained + staging <= quota /\ retained <= target /\ target \in Nat
      /\ ~Begins(retained, quota)
  BY <1>3, <1>a, QuotaFacts
<1>5. b \in Nat /\ LoadBounded(surplus, manifests, b) /\ LoadBounded(<<>>, manifests, b)
  BY LargestBounds DEF LoadBounded
<1> HIDE DEF b
<1>6. held \in Nat
  <2>1. SumOf(surplus) \in Nat
    BY SumOfIs
  <2> QED
    BY <1>3, <2>1
<1>7. idle.operations = 0 /\ idle.after = retained
  <2>1. /\ <<>> \in Seq(Nat) /\ retained + 0 = retained /\ 0 \in Nat
    BY <1>3
  <2>2. Kept(idle, retained, 0, <<>>, quota, maximum, b)
    BY <1>3, <1>4, <1>5, <2>1, MaintenanceFacts
  <2> HIDE DEF idle
  <2>3. ~Begins(retained + 0, quota) => idle.operations = 0 /\ idle.after = retained + 0
    BY <2>2, Zenon DEF Kept
  <2> QED
    BY <1>4, <2>1, <2>3, Zenon
<1>8. /\ busy.before = held + reserved
      /\ busy.operations <= maximum /\ busy.after \in Nat
      /\ busy.operations > 0 =>
           /\ Begins(held + reserved, quota)
           /\ busy.after + VictimBatch * b > target
           /\ busy.after > target /\ busy.after > reserved => busy.blocked
      /\ \A r \in Nat : reserved = 0 /\ r <= target /\ held = r + SumOf(surplus) =>
           busy.manifests = 0
  <2> HIDE DEF held
  <2>1. Kept(busy, held, reserved, surplus, quota, maximum, b)
    BY <1>4, <1>5, <1>6, MaintenanceFacts
  <2> HIDE DEF busy
  <2> QED
    BY <2>1, Zenon DEF Kept
<1>9. reserved = 0 => busy.manifests = 0
  <2> HIDE DEF busy, target
  <2> QED
    BY <1>3, <1>4, <1>8, Zenon
<1> HIDE DEF idle, busy, held
<1>10. ASSUME busy.operations > 0 PROVE (busy.before + 1) * 1000 > quota * DefaultPolicy.begin
  <2>1. Begins(busy.before, quota)
    BY <1>8, <1>10, Zenon
  <2>2. busy.before \in Nat
    BY <1>6, <1>8
  <2>3. quota \in Nat \ {0}
    BY <1>3, <1>4
  <2>4. (busy.before + 1) * 1000 > quota * 850
    BY <1>a, <2>1, <2>2, <2>3, BeginFacts
  <2> QED
    BY <2>4 DEF DefaultPolicy
<1>11. Max({target, reserved}) = IF target <= reserved THEN reserved ELSE target
  <2> HIDE DEF target
  <2> QED
    BY <1>4, PairBounds
<1>12. ASSUME busy.operations > 0, busy.after > Max({target, reserved}) PROVE busy.blocked
  <2>1. busy.after \in Nat
    BY <1>8
  <2>2. busy.after > target /\ busy.after > reserved
    <3> HIDE DEF target
    <3> QED
      BY <1>4, <1>11, <1>12, <2>1
  <2> QED
    BY <1>8, <1>12, <2>2, Zenon
<1> HIDE DEF target
<1> QED
  BY <1>4, <1>7, <1>8, <1>9, <1>10, <1>12, ZenonT(60)
=============================================================================
