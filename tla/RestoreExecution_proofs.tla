---------------------- MODULE RestoreExecution_proofs -----------------------
(***************************************************************************)
(* What holds of every restore of RestoreExecution, for any set of calls,  *)
(* workers and manifests.  The first part is what a plan looks like; the   *)
(* second is the inductive invariant of one call and the theorems; the     *)
(* last is the sum of the reservations.                                    *)
(***************************************************************************)
EXTENDS RestoreExecution, Recursion_proofs

-----------------------------------------------------------------------------
(* The sum of a sequence of naturals is a natural. *)
LEMMA TotalIsNatural ==
  ASSUME NEW q \in Seq(Nat)
  PROVE  Total(q) \in Nat
<1> DEFINE D == DOMAIN q
           Rec(f) == [s \in SUBSET D |-> IF s = {} THEN 0 ELSE f[s \ {Max(s)}] + q[Max(s)]]
<1>1. D = 1 .. Len(q) /\ Len(q) \in Nat /\ IsFiniteSet(D) /\ \A i \in D : q[i] \in Nat
  BY FS_Interval
<1>f. IsFiniteSet(D)
  BY <1>1
<1>2. ASSUME NEW s \in SUBSET D, s # {} PROVE Max(s) \in s
  <2>1. IsFiniteSet(s) /\ s \in SUBSET Nat
    BY <1>1, FS_Subset
  <2>2. \E x \in s : \A y \in s : x >= y
    BY <1>2, <2>1, MaxExists
  <2> QED
    BY <2>2 DEF Max
<1>3. \E f : f = Rec(f)
  <2> DEFINE pick == [s \in SUBSET D |-> Max(s)]
             G == [p \in D \X Nat |-> p[2] + q[p[1]]]
  <2>1. G \in [D \X Nat -> Nat]
    OBVIOUS
  <2>2. \A s \in SUBSET D : s # {} => pick[s] \in s
    BY <1>2
  <2>3. PICK f \in [SUBSET D -> Nat] : \A s \in SUBSET D :
            f[s] = IF s = {} THEN 0 ELSE G[<<pick[s], f[s \ {pick[s]}]>>]
    <3>1. 0 \in Nat
      OBVIOUS
    <3>2. PicksFrom(D, pick)
      BY <2>2 DEF PicksFrom
    <3>3. \E f : FoldsOver(D, Nat, 0, pick, G, f)
      <4> HIDE DEF G, pick, D
      <4> QED
        BY <1>f, <2>1, <3>1, <3>2, FoldExists
    <3> QED
      BY <3>3 DEF FoldsOver
  <2>4. ASSUME NEW s \in SUBSET D
        PROVE  f[s] = IF s = {} THEN 0 ELSE f[s \ {Max(s)}] + q[Max(s)]
    <3>1. CASE s = {}
      BY <2>3, <3>1
    <3>2. CASE s # {}
      <4>1. Max(s) \in D /\ s \ {Max(s)} \in SUBSET D
        BY <1>2, <3>2
      <4>2. <<Max(s), f[s \ {Max(s)}]>> \in D \X Nat
        BY <4>1
      <4>3. f[s] = G[<<Max(s), f[s \ {Max(s)}]>>]
        BY <2>3, <3>2
      <4> QED
        BY <3>2, <4>2, <4>3
    <3> QED
      BY <3>1, <3>2
  <2> HIDE DEF D
  <2> QED
    BY <2>3, <2>4
<1>4. \E f : f = Rec(f) /\ Total(q) = f[D]
  <2> DEFINE g == CHOOSE f : f = Rec(f)
  <2>1. g = Rec(g)
    BY <1>3
  <2>2. Total(q) = g[D]
    BY DEF Total, FoldLeft, MapThenFoldSet
  <2> QED
    BY <2>1, <2>2
<1>5. PICK f : f = Rec(f) /\ Total(q) = f[D]
  BY <1>4
<1>a. \A s \in SUBSET D : f[s] = IF s = {} THEN 0 ELSE f[s \ {Max(s)}] + q[Max(s)]
  <2> TAKE s \in SUBSET D
  <2>1. f[s] = Rec(f)[s]
    <3> HIDE DEF Rec
    <3> QED
      BY <1>5
  <2> QED
    BY <2>1
<1> DEFINE Good == {s \in SUBSET D : f[s] \in Nat}
<1>b. ASSUME NEW s \in SUBSET D, s # {}, f[s \ {Max(s)}] \in Nat PROVE f[s] \in Nat
  <2>1. Max(s) \in D
    BY <1>2, <1>b
  <2>2. q[Max(s)] \in Nat
    BY <1>1, <2>1
  <2>3. f[s] = f[s \ {Max(s)}] + q[Max(s)]
    <3> HIDE DEF D
    <3> QED
      BY <1>a, <1>b
  <2> QED
    BY <1>b, <2>2, <2>3
<1>6. ASSUME NEW s \in SUBSET D, \A t \in SUBSET s : t # s => t \in Good PROVE s \in Good
  <2>1. CASE s = {}
    <3>1. f[s] = 0
      <4> HIDE DEF D
      <4> QED
        BY <1>a, <2>1
    <3> QED
      BY <3>1
  <2>2. CASE s # {}
    <3>1. Max(s) \in s
      BY <1>2, <2>2
    <3>2. s \ {Max(s)} \in Good
      <4> HIDE DEF Good
      <4> QED
        BY <1>6, <3>1
    <3> QED
      BY <1>b, <2>2, <3>2
  <2> QED
    BY <2>1, <2>2
<1>7. D \in Good
  <2>1. Good \in SUBSET (SUBSET D)
    OBVIOUS
  <2>2. \A s \in SUBSET D : (\A t \in SUBSET s : t # s => t \in Good) => s \in Good
    <3> HIDE DEF Good, D
    <3> QED
      BY <1>6
  <2> HIDE DEF Good, D
  <2>3. \A s \in SUBSET D : s \in Good
    BY <1>f, <2>1, <2>2, SubsetInduct
  <2> QED
    BY <2>3
<1> QED
  BY <1>5, <1>7

-----------------------------------------------------------------------------
(* Chains and plans. *)

(* A sequence extended by one of its kind. *)
LEMMA AppendStays ==
  ASSUME NEW S, NEW c \in Seq(S), NEW x \in S
  PROVE  Append(c, x) \in Seq(S) /\ Append(c, x) # <<>>
  BY AppendProperties

(* A sequence turned around. *)
LEMMA ReverseStays ==
  ASSUME NEW S, NEW c \in Seq(S), c # <<>>
  PROVE  Reverse(c) \in Seq(S) /\ Reverse(c) # <<>>
<1>1. Len(c) \in Nat \ {0}
  BY EmptySeq
<1>2. \A i \in 1 .. Len(c) : c[(Len(c) - i) + 1] \in S
  BY <1>1
<1>3. Reverse(c) \in Seq(S) /\ Len(Reverse(c)) = Len(c)
  BY <1>1, <1>2 DEF Reverse
<1>4. Len(<<>>) = 0
  OBVIOUS
<1> QED
  BY <1>1, <1>3, <1>4

(* A walk with another chain. *)
LEMMA WalkExtended ==
  ASSUME NEW w, w = [status |-> w.status, chain |-> w.chain], NEW c
  PROVE  [w EXCEPT !.chain = c] = [status |-> w.status, chain |-> c]
  OBVIOUS

(* The states of the walk up a chain. *)
Walks(ids) ==
    [status : {"walking", "ok", "missing", "invalid"}, chain : Seq(ids) \ {<<>>}]

(* A turn of the walk stays within the manifests of the store. *)
LEMMA TurnStays ==
  ASSUME NEW store, NEW minimum, NEW w \in Walks(DOMAIN store.manifests)
  PROVE  ChainTurn(store, minimum, w) \in Walks(DOMAIN store.manifests)
<1> DEFINE ids == DOMAIN store.manifests
           m == store.manifests[Last(w.chain)]
           load == LoadManifest(store, m.parent, minimum)
           status == {"walking", "ok", "missing", "invalid"}
<1>1. /\ w = [status |-> w.status, chain |-> w.chain]
      /\ w.status \in status /\ w.chain \in Seq(ids) /\ w.chain # <<>>
  BY DEF Walks
<1>2. load \in {"ok", "missing", "invalid"} /\ (load = "ok" => m.parent \in ids)
  BY DEF LoadManifest
<1>3. \A s \in status : [w EXCEPT !.status = s] = [status |-> s, chain |-> w.chain]
  BY <1>1
<1>4. load = "ok" => /\ Append(w.chain, m.parent) \in Seq(ids)
                     /\ Append(w.chain, m.parent) # <<>>
  <2>1. ASSUME NEW x \in ids PROVE Append(w.chain, x) \in Seq(ids) /\ Append(w.chain, x) # <<>>
    <3>1. w.chain \in Seq(ids)
      BY <1>1
    <3> HIDE DEF ids
    <3> QED
      BY <3>1, AppendStays
  <2> HIDE DEF ids, load, m
  <2> QED
    BY <1>2, <2>1
<1>5. [w EXCEPT !.chain = Append(@, m.parent)]
         = [status |-> w.status, chain |-> Append(w.chain, m.parent)]
  <2>1. w = [status |-> w.status, chain |-> w.chain]
    BY <1>1
  <2> HIDE DEF m
  <2> QED
    BY <2>1, WalkExtended
<1>6. \/ ChainTurn(store, minimum, w) = w
      \/ \E s \in status : ChainTurn(store, minimum, w) = [w EXCEPT !.status = s]
      \/ /\ load = "ok"
         /\ ChainTurn(store, minimum, w) = [w EXCEPT !.chain = Append(@, m.parent)]
  <2> HIDE DEF load
  <2> QED
    BY <1>2 DEF ChainTurn, load
<1> QED
  BY <1>1, <1>3, <1>4, <1>5, <1>6 DEF Walks

(* An authenticated chain is a sequence of manifests of the store, with a leaf. *)
LEMMA ChainIsSequence ==
  ASSUME NEW store, NEW leaf, NEW minimum,
         AuthenticateChain(store, leaf, minimum).status = "ok"
  PROVE  /\ AuthenticateChain(store, leaf, minimum).chain \in Seq(DOMAIN store.manifests)
         /\ AuthenticateChain(store, leaf, minimum).chain # <<>>
<1> DEFINE ids == DOMAIN store.manifests
           K == MaxDeltaDepth + 2
           first == [status |-> "walking", chain |-> <<leaf>>]
           Rec(f) == [n \in 0 .. K |-> IF n = 0 THEN first ELSE ChainTurn(store, minimum, f[n - 1])]
           walk == CHOOSE f : f = Rec(f)
           loaded == LoadManifest(store, leaf, minimum)
<1>0. K \in Nat
  BY ManifestAssumption
<1>1. AuthenticateChain(store, leaf, minimum)
         = IF loaded # "ok" THEN [status |-> loaded, chain |-> <<>>]
           ELSE IF walk[K].status # "ok" THEN [status |-> walk[K].status, chain |-> <<>>]
           ELSE IF Len(walk[K].chain) # Depth(store.manifests[leaf]) + 1
                THEN [status |-> "invalid", chain |-> <<>>]
           ELSE [status |-> "ok", chain |-> Reverse(walk[K].chain)]
  <2> HIDE DEF loaded
  <2> QED
    BY DEF AuthenticateChain, loaded
<1>2. loaded = "ok" /\ AuthenticateChain(store, leaf, minimum).chain = Reverse(walk[K].chain)
  <2> HIDE DEF loaded, walk, K
  <2> QED
    BY <1>1
<1>3. first \in Walks(ids)
  <2>1. leaf \in ids
    BY <1>2 DEF LoadManifest
  <2>2. <<leaf>> \in Seq(ids) /\ <<leaf>> # <<>>
    <3> HIDE DEF ids
    <3> QED
      BY <2>1
  <2> QED
    BY <2>2 DEF Walks
<1>4. \E f : f = Rec(f)
  <2> DEFINE V == Walks(ids)
             G == [p \in (1 .. K) \X V |-> ChainTurn(store, minimum, p[2])]
  <2>1. G \in [(1 .. K) \X V -> V]
    BY TurnStays
  <2>2. PICK f : Recursion(K, V, first, G, f)
    <3> HIDE DEF K, V, G, first
    <3> QED
      BY <1>0, <1>3, <2>1, RecursionExists DEF V
  <2>3. ASSUME NEW n \in 0 .. K
        PROVE  f[n] = IF n = 0 THEN first ELSE ChainTurn(store, minimum, f[n - 1])
    <3>1. CASE n = 0
      BY <2>2, <3>1 DEF Recursion
    <3>2. CASE n # 0
      <4>1. n \in 1 .. K /\ n - 1 \in 0 .. K
        BY <1>0, <3>2
      <4>2. f[n] = G[<<n, f[n - 1]>>] /\ f[n - 1] \in V
        <5> HIDE DEF K, V, G, first
        <5> QED
          BY <2>2, <4>1 DEF Recursion
      <4>3. <<n, f[n - 1]>> \in (1 .. K) \X V
        BY <4>1, <4>2
      <4>4. G[<<n, f[n - 1]>>] = ChainTurn(store, minimum, f[n - 1])
        <5> HIDE DEF K, V
        <5> QED
          BY <4>3
      <4> QED
        BY <3>2, <4>2, <4>4
    <3> QED
      BY <3>1, <3>2
  <2>4. f = Rec(f)
    <3>1. f \in [0 .. K -> V]
      BY <2>2 DEF Recursion
    <3> HIDE DEF K, V, first
    <3> QED
      BY <2>3, <3>1
  <2> QED
    BY <2>4
<1>5. walk = Rec(walk)
  <2> HIDE DEF Rec
  <2> QED
    BY <1>4
<1>6. ASSUME NEW n \in 0 .. K
      PROVE  walk[n] = IF n = 0 THEN first ELSE ChainTurn(store, minimum, walk[n - 1])
  <2>1. walk[n] = Rec(walk)[n]
    <3> HIDE DEF Rec, walk
    <3> QED
      BY <1>5
  <2> HIDE DEF walk, K, first
  <2> QED
    BY <2>1
<1> HIDE DEF walk
<1> DEFINE Good == {n \in Nat : n \in 0 .. K => walk[n] \in Walks(ids)}
<1>7. 0 \in Good
  <2>1. 0 \in 0 .. K
    BY <1>0
  <2> HIDE DEF first, K
  <2> QED
    BY <1>3, <1>6, <2>1
<1>8. \A n \in Good : n + 1 \in Good
  <2> TAKE n \in Good
  <2> SUFFICES ASSUME n + 1 \in 0 .. K PROVE walk[n + 1] \in Walks(ids)
    OBVIOUS
  <2>1. n \in 0 .. K /\ (n + 1) - 1 = n /\ n + 1 # 0
    BY <1>0
  <2>2. walk[n] \in Walks(ids)
    BY <2>1
  <2>3. walk[n + 1] = ChainTurn(store, minimum, walk[n])
    <3> HIDE DEF first, K
    <3> QED
      BY <1>6, <2>1
  <2> QED
    BY <2>2, <2>3, TurnStays
<1>9. \A n \in Nat : n \in Good
  <2>1. Good \in SUBSET Nat
    OBVIOUS
  <2> HIDE DEF Good
  <2> QED
    BY <1>7, <1>8, <2>1, NatInduct
<1>10. walk[K] \in Walks(ids)
  BY <1>0, <1>9
<1>11. walk[K].chain \in Seq(ids) /\ walk[K].chain # <<>>
  BY <1>10 DEF Walks
<1> QED
  <2> HIDE DEF K, ids
  <2> QED
    BY <1>2, <1>11, ReverseStays DEF ids

(* The spans of the manifests, and the entries of a chain. *)
Spans ==
    UNION {UNION {Range(Manifests[id].states[i].spans) : i \in DOMAIN Manifests[id].states} :
              id \in DOMAIN Manifests}

Entries ==
    [manifest : Range(Manifests), state : Nat, span : {x \in Spans : x.count \in Nat}]

(* The spans of a chain are a sequence of entries. *)
LEMMA SpansAreSequence ==
  ASSUME NEW store, store.manifests = Manifests, NEW chain \in Seq(DOMAIN Manifests)
  PROVE  ChainSpans(store, chain) \in Seq(Entries)
<1> DEFINE ofState(m, i) == [j \in DOMAIN m.states[i].spans |->
                               [manifest |-> m, state |-> i, span |-> m.states[i].spans[j]]]
           states(m) == [i \in DOMAIN m.states |-> ofState(m, i)]
           ofManifest(m) == FlattenSeq(states(m))
<1>1. ASSUME NEW id \in DOMAIN Manifests, NEW i \in DOMAIN Manifests[id].states
      PROVE  ofState(Manifests[id], i) \in Seq(Entries)
  <2> DEFINE m == Manifests[id]
             spans == m.states[i].spans
  <2>1. /\ m.states \in Seq(Range(m.states)) /\ spans \in Seq(Range(spans))
        /\ \A j \in DOMAIN spans : spans[j].count \in Nat
    BY <1>1, ManifestsAssumption
  <2>2. i \in Nat /\ m \in Range(Manifests)
    BY <1>1, <2>1 DEF Range
  <2>3. ASSUME NEW j \in DOMAIN spans PROVE spans[j] \in Spans
    BY <1>1, <2>3 DEF Spans, Range
  <2>4. \A j \in DOMAIN spans : [manifest |-> m, state |-> i, span |-> spans[j]] \in Entries
    <3> HIDE DEF m, spans
    <3> QED
      BY <2>1, <2>2, <2>3 DEF Entries
  <2>5. Len(spans) \in Nat /\ DOMAIN spans = 1 .. Len(spans)
    BY <2>1, LenProperties
  <2>6. [j \in DOMAIN spans |-> [manifest |-> m, state |-> i, span |-> spans[j]]] \in Seq(Entries)
    <3> HIDE DEF m, spans
    <3> QED
      BY <2>4, <2>5
  <2> QED
    BY <2>6
<1>2. ASSUME NEW id \in DOMAIN Manifests PROVE ofManifest(Manifests[id]) \in Seq(Entries)
  <2> DEFINE m == Manifests[id]
             V == Seq(Entries)
  <2>1. m.states \in Seq(Range(m.states))
    BY <1>2, ManifestsAssumption
  <2>2. Len(m.states) \in Nat /\ DOMAIN m.states = 1 .. Len(m.states)
    BY <2>1, LenProperties
  <2>3. \A i \in DOMAIN m.states : ofState(m, i) \in V
    BY <1>1
  <2>4. states(m) \in Seq(V)
    <3> HIDE DEF ofState, V, m
    <3> QED
      BY <2>2, <2>3
  <2>5. FlattenSeq(states(m)) \in Seq(Entries)
    <3> HIDE DEF states, m
    <3> QED
      BY <2>4, FlattenIsSequence
  <2> HIDE DEF states
  <2> QED
    BY <2>5
<1>3. ChainSpans(store, chain) = FlattenSeq([n \in DOMAIN chain |-> ofManifest(Manifests[chain[n]])])
  BY DEF ChainSpans
<1>4. [n \in DOMAIN chain |-> ofManifest(Manifests[chain[n]])] \in Seq(Seq(Entries))
  <2> DEFINE V == Seq(Entries)
  <2>1. Len(chain) \in Nat /\ DOMAIN chain = 1 .. Len(chain)
    BY LenProperties
  <2>2. \A n \in DOMAIN chain : ofManifest(Manifests[chain[n]]) \in V
    <3> HIDE DEF ofManifest, V
    <3> QED
      BY <1>2, <2>1, ElementOfSeq DEF V
  <2>3. [n \in DOMAIN chain |-> ofManifest(Manifests[chain[n]])] \in Seq(V)
    <3> HIDE DEF ofManifest, V
    <3> QED
      BY <2>1, <2>2
  <2> QED
    BY <2>3
<1> HIDE DEF ofManifest
<1> QED
  BY <1>3, <1>4, FlattenIsSequence

(* A charge of RestoreResourceRequirements. *)
Charges == [shadow : Nat, pinned : Nat, scratch : Nat, pins : Nat]

(* What chain_resources asks for is a vector of naturals, with a pin for every span. *)
LEMMA ResourcesAreNatural ==
  ASSUME NEW store, store.manifests = Manifests,
         NEW chain \in Seq(DOMAIN Manifests), chain # <<>>
  PROVE  /\ ChainResources(store, chain) \in Charges
         /\ ChainResources(store, chain).pins = Len(ChainSpans(store, chain))
<1> DEFINE spans == ChainSpans(store, chain)
           leaf == Manifests[Last(chain)]
           wide(i) == IF leaf.family[i].rule = "tail" THEN leaf.states[i].count
                                                      ELSE leaf.cut.count
           shadow == Total([i \in DOMAIN leaf.states |-> wide(i)])
           pinned == Total([i \in DOMAIN spans |-> spans[i].span.count])
           counts == {0} \cup {spans[i].span.count : i \in DOMAIN spans}
<1>1. ChainResources(store, chain)
         = [shadow |-> shadow, pinned |-> pinned, scratch |-> Max(counts), pins |-> Len(spans)]
  <2> HIDE DEF spans, pinned, counts
  <2> QED
    BY DEF ChainResources, spans, pinned, counts
<1>2. /\ spans \in Seq(Entries) /\ Len(spans) \in Nat /\ DOMAIN spans = 1 .. Len(spans)
      /\ \A i \in DOMAIN spans : spans[i].span.count \in Nat
  <2>1. spans \in Seq(Entries)
    BY SpansAreSequence
  <2> HIDE DEF spans
  <2>2. Len(spans) \in Nat /\ DOMAIN spans = 1 .. Len(spans)
    BY <2>1, LenProperties
  <2>3. \A i \in DOMAIN spans : spans[i] \in Entries
    BY <2>1, <2>2, ElementOfSeq
  <2>4. \A e \in Entries : e.span.count \in Nat
    BY DEF Entries
  <2> QED
    BY <2>1, <2>2, <2>3, <2>4
<1>3. shadow \in Nat
  <2>1. Last(chain) \in DOMAIN Manifests
    <3>1. Len(chain) \in 1 .. Len(chain)
      BY EmptySeq
    <3> QED
      BY <3>1, ElementOfSeq DEF Last
  <2>2. /\ leaf.cut.count \in Nat /\ leaf.states \in Seq(Range(leaf.states))
        /\ \A i \in DOMAIN leaf.states : leaf.states[i].count \in Nat
    BY <2>1, ManifestsAssumption
  <2>3. Len(leaf.states) \in Nat /\ DOMAIN leaf.states = 1 .. Len(leaf.states)
    BY <2>2, LenProperties
  <2>4. \A i \in DOMAIN leaf.states : wide(i) \in Nat
    <3> HIDE DEF leaf
    <3> QED
      BY <2>2
  <2>5. [i \in DOMAIN leaf.states |-> wide(i)] \in Seq(Nat)
    <3> HIDE DEF leaf, wide
    <3> QED
      BY <2>3, <2>4
  <2> HIDE DEF leaf, wide
  <2> QED
    BY <2>5, TotalIsNatural
<1>4. pinned \in Nat
  <2> HIDE DEF spans
  <2>1. [i \in DOMAIN spans |-> spans[i].span.count] \in Seq(Nat)
    BY <1>2
  <2> QED
    BY <2>1, TotalIsNatural
<1>5. Max(counts) \in Nat
  <2> HIDE DEF spans
  <2>1. IsFiniteSet({spans[i].span.count : i \in DOMAIN spans})
    <3>1. IsFiniteSet(DOMAIN spans)
      <4>1. DOMAIN spans = 1 .. Len(spans) /\ Len(spans) \in Int /\ 1 \in Int
        BY <1>2
      <4>2. IsFiniteSet(1 .. Len(spans))
        BY <4>1, FS_Interval
      <4> QED
        BY <4>1, <4>2
    <3> DEFINE F == [i \in DOMAIN spans |-> spans[i].span.count]
               T == {spans[i].span.count : i \in DOMAIN spans}
    <3>2. F \in Surjection(DOMAIN spans, T)
      BY DEF Surjection
    <3> HIDE DEF F, T
    <3>3. IsFiniteSet(T)
      BY <3>1, <3>2, FS_Surjection
    <3> QED
      BY <3>3 DEF T
  <2>2. IsFiniteSet(counts)
    BY <2>1, FS_AddElement, FS_Union, FS_Singleton
  <2>3. counts \in SUBSET Nat /\ counts # {}
    BY <1>2
  <2> HIDE DEF counts
  <2>4. \E x \in counts : \A y \in counts : x >= y
    BY <2>2, <2>3, MaxExists
  <2>5. Max(counts) \in counts
    BY <2>4 DEF Max
  <2> QED
    BY <2>3, <2>5
<1> HIDE DEF shadow, pinned, counts, spans
<1> QED
  BY <1>1, <1>2, <1>3, <1>4, <1>5 DEF Charges, spans

(* A plan: its operations are a sequence, and when it was built it asks for as many
   pins as it has operations. *)
PlanShaped(plan) ==
    \E n \in Nat :
        /\ DOMAIN plan.ops = 1 .. n
        /\ plan.status = "ok" => plan.resources \in Charges /\ plan.resources.pins = n

(* AuthenticatedRestorePlan::build makes such plans. *)
LEMMA BuildShapes ==
  ASSUME NEW store, store.manifests = Manifests, NEW candidate, NEW minimum, NEW limits
  PROVE  PlanShaped(BuildPlan(store, candidate, minimum, limits))
<1> DEFINE chain == AuthenticateChain(store, candidate.source, minimum)
           entries == ChainSpans(store, chain.chain)
           plan == BuildPlan(store, candidate, minimum, limits)
<1>1. ASSUME NEW why, why # "ok" PROVE PlanShaped(Refused(why))
  <2>1. Refused(why).status # "ok" /\ Refused(why).ops = <<>>
    BY <1>1 DEF Refused
  <2>2. DOMAIN Refused(why).ops = 1 .. 0 /\ 0 \in Nat
    BY <2>1
  <2> QED
    BY <2>1, <2>2 DEF PlanShaped
<1>2. \/ \E why : why # "ok" /\ plan = Refused(why)
      \/ /\ chain.status = "ok"
         /\ plan.resources = ChainResources(store, chain.chain)
         /\ plan.ops = ScatterPlan(store, chain.chain).ops
  <2>1. CASE candidate.tier # "local"
    BY <2>1 DEF BuildPlan
  <2>2. CASE candidate.tier = "local"
    <3> DEFINE disposition == Disposition(store, chain.chain)
               scatter == ScatterPlan(store, chain.chain)
               resources == ChainResources(store, chain.chain)
    <3>1. plan = PlanChain(store, chain, candidate, limits)
      BY <2>2 DEF BuildPlan
    <3>2. PlanChain(store, chain, candidate, limits)
            = IF chain.status # "ok" THEN Refused(chain.status)
              ELSE IF ~disposition.valid THEN Refused("invalid")
              ELSE IF ~disposition.complete THEN Refused("missing")
              ELSE IF \/ candidate.chain # chain.chain
                      \/ candidate.resources # resources
                      \/ candidate.tombstoned # Cardinality(disposition.tombstoned)
                   THEN Refused("changed")
              ELSE IF ~ChargeWithinLimits(ResourceCharge(candidate.resources, 1), limits)
                   THEN Refused("quota")
              ELSE IF ~scatter.ok THEN Refused("invalid")
              ELSE [status |-> "ok", ops |-> scatter.ops, resources |-> candidate.resources,
                    recompute |-> {i \in DOMAIN scatter.ops :
                                     scatter.ops[i].chunk \in disposition.tombstoned}]
      <4> HIDE DEF chain
      <4> QED
        BY DEF PlanChain
    <3> HIDE DEF plan, chain, scatter, disposition, resources
    <3>3. \/ \E why \in {chain.status, "invalid", "missing", "changed", "quota"} :
                 why # "ok" /\ plan = Refused(why)
          \/ /\ chain.status = "ok" /\ plan.resources = resources /\ plan.ops = scatter.ops
      BY <3>1, <3>2
    <3> QED
      BY <3>3 DEF scatter, resources
  <2> QED
    BY <2>1, <2>2
<1>3. CASE \E why : why # "ok" /\ plan = Refused(why)
  <2> HIDE DEF plan
  <2>1. PlanShaped(plan)
    BY <1>1, <1>3
  <2> QED
    BY <2>1 DEF plan
<1>4. CASE /\ chain.status = "ok"
           /\ plan.resources = ChainResources(store, chain.chain)
           /\ plan.ops = ScatterPlan(store, chain.chain).ops
  <2>1. chain.chain \in Seq(DOMAIN Manifests) /\ chain.chain # <<>>
    BY <1>4, ChainIsSequence
  <2>2. entries \in Seq(Entries)
    <3> HIDE DEF chain
    <3> QED
      BY <2>1, SpansAreSequence
  <2>3. Len(entries) \in Nat /\ DOMAIN entries = 1 .. Len(entries)
    <3> HIDE DEF entries
    <3> QED
      BY <2>2, LenProperties
  <2>4. DOMAIN ScatterPlan(store, chain.chain).ops = DOMAIN entries
    <3> HIDE DEF chain
    <3> QED
      BY DEF ScatterPlan
  <2>5. /\ ChainResources(store, chain.chain) \in Charges
        /\ ChainResources(store, chain.chain).pins = Len(entries)
    <3> HIDE DEF chain
    <3> QED
      BY <2>1, ResourcesAreNatural
  <2> HIDE DEF plan, chain, entries
  <2>6. PlanShaped(plan)
    BY <1>4, <2>3, <2>4, <2>5 DEF PlanShaped
  <2> QED
    BY <2>6 DEF plan
<1> QED
  BY <1>2, <1>3, <1>4


-----------------------------------------------------------------------------
(* The inductive invariant of one call. *)

(* The state of a call; candidates and plans are whatever was built so far. *)
Results == [op : Nat, ok : BOOLEAN]
WorkerStates == [at : {"idle", "send", "done"}, op : Nat, ok : BOOLEAN]
Holds == [reserved : BOOLEAN, charge : Charges, pins : SUBSET Nat]

Errors == {"none", "decode", "cancelled", "write"}
Sinks == {"idle", "begun", "committed", "aborted", "reset"}
Outcomes == {"none", "recompute", "error", "ok"}

Job(candidates, plans) ==
    [pc : Pcs, candidate : candidates, plan : plans, cancelled : BOOLEAN,
     next : Nat \ {0}, failed : BOOLEAN, error : Errors,
     worker : [Workers -> WorkerStates], channel : Seq(Results),
     got : SUBSET Nat, written : SUBSET Nat, sink : Sinks, outcome : Outcomes]

Maps ==
    /\ \E candidates, plans : job \in [Restores -> Job(candidates, plans)]
    /\ holds \in [Restores -> Holds]

CallShape(r) ==
    /\ PlanShaped(job[r].plan)
    /\ \A i : <<r, i>> \in pins => i \in Ops(r)

(* Before the pins are taken, and while the hold keeps them. *)
Starting == {"new", "listed", "planned", "reserved", "pinning"}
Holding == {"attached", "installed", "staged", "lost"}

(* What was written is what was collected until an error is known. *)
CallWrites(r) ==
    /\ job[r].pc \in Starting =>
         /\ job[r].got = {} /\ job[r].written = {} /\ job[r].channel = <<>>
         /\ job[r].next = 1 /\ job[r].error = "none" /\ job[r].worker = NoWorkers
    /\ Mode[r] # "parallel" =>
         job[r].channel = <<>> /\ job[r].error = "none" /\ job[r].worker = NoWorkers
    /\ job[r].failed => job[r].error # "none"
    /\ job[r].pc = "decoding" /\ job[r].error = "none" => job[r].written = job[r].got
    /\ job[r].pc = "decoded" => job[r].written = job[r].got
    /\ job[r].pc \in Holding => job[r].written = Ops(r) /\ holds[r].pins = Ops(r)
    /\ job[r].pc = "freeing" => job[r].got = Ops(r)

CallSink(r) ==
    /\ job[r].pc \in Starting \ {"pinning"} => job[r].sink = "idle"
    /\ job[r].pc = "installed" => job[r].sink = "committed"
    /\ job[r].pc = "freeing" /\ job[r].outcome # "ok" =>
         job[r].sink \in {"idle", "aborted", "reset"}
    /\ job[r].pc = "ended" => job[r].sink \in {"idle", "aborted", "reset"}

(* A cancelled parallel call may forget pins. *)
Forgets(r) == job[r].cancelled /\ Mode[r] = "parallel"

(* An operation some worker has decoded and the calling thread has not collected. *)
Underway(r, i) ==
    \/ \E w \in Workers : job[r].worker[w] = [at |-> "send", op |-> i, ok |-> TRUE]
    \/ \E k \in 1 .. Len(job[r].channel) : job[r].channel[k] = [op |-> i, ok |-> TRUE]

(* Why a worker may have stopped. *)
Stopped(r) ==
    \/ job[r].cancelled \/ job[r].error # "none"
    \/ \A i \in Ops(r) : i < job[r].next
    \/ \E k \in 1 .. Len(job[r].channel) : ~job[r].channel[k].ok

(* Every pin row of a call is one it still knows of. *)
CallPins(r) ==
    /\ job[r].pc \in Starting => \A i : <<r, i>> \notin pins
    /\ job[r].pc = "decoding" =>
         /\ \A i : <<r, i>> \in pins =>
              i \in job[r].got \/ i >= job[r].next \/ Underway(r, i)
         /\ \A w \in Workers : job[r].worker[w].at = "done" => Stopped(r)
    /\ job[r].pc = "decoded" /\ ~Forgets(r) =>
         \A i : <<r, i>> \in pins => i \in job[r].got
    /\ job[r].pc = "ended" /\ ~Forgets(r) => \A i : <<r, i>> \notin pins

(* A hold charges the plan of its call. *)
CallCharge(r) ==
    /\ job[r].pc \notin {"new", "listed", "ended"} => job[r].plan.status = "ok"
    /\ job[r].pc \in {"new", "listed", "planned", "freeing", "ended", "freed"} => ~holds[r].reserved
    /\ holds[r].reserved => holds[r].charge.pins = job[r].plan.resources.pins

CallInv(r) ==
    CallShape(r) /\ CallWrites(r) /\ CallSink(r) /\ CallPins(r) /\ CallCharge(r)

Inv == Maps /\ \A r \in Restores : CallInv(r)

(* A step of one call: it leaves the call in state j with hold h, and touches no pin
   row of another call. *)
Moves(r, j, h) ==
    /\ Becomes(r, j)
    /\ holds' = [holds EXCEPT ![r] = h]
    /\ \A q, i : q # r => (<<q, i>> \in pins' <=> <<q, i>> \in pins)

(* What a step leaves alone. *)
KeepsPlan(j, k) == k.plan = j.plan /\ k.cancelled = j.cancelled
KeepsData(j, k) == k.got = j.got /\ k.written = j.written
KeepsWork(j, k) ==
    /\ k.next = j.next /\ k.failed = j.failed /\ k.error = j.error
    /\ k.worker = j.worker /\ k.channel = j.channel
KeepsEnd(j, k) == k.sink = j.sink /\ k.outcome = j.outcome
Keeps(j, k) == KeepsPlan(j, k) /\ KeepsData(j, k) /\ KeepsWork(j, k) /\ KeepsEnd(j, k)

(* The other calls do not notice such a step. *)
LEMMA MovesOne ==
  ASSUME Inv, NEW r \in Restores, NEW candidates, NEW plans, NEW j \in Job(candidates, plans),
         NEW h \in Holds, Moves(r, j, h)
  PROVE  /\ job'[r] = j /\ holds'[r] = h
         /\ CallInv(r)' => Inv'
<1>0. PICK C, P : job \in [Restores -> Job(C, P)]
  BY DEF Inv, Maps
<1>1. job'[r] = j /\ holds'[r] = h
  BY <1>0 DEF Inv, Maps, Moves, Becomes
<1>2. Maps'
  <2>1. holds' \in [Restores -> Holds]
    BY DEF Inv, Maps, Moves
  <2> DEFINE C2 == C \cup candidates
             P2 == P \cup plans
  <2>2. \A x : (x \in Job(C, P) => x \in Job(C2, P2))
              /\ (x \in Job(candidates, plans) => x \in Job(C2, P2))
    BY DEF Job
  <2>3. job' \in [Restores -> Job(C2, P2)]
    <3> HIDE DEF C2, P2
    <3> QED
      BY <1>0, <2>2 DEF Moves, Becomes
  <2> QED
    BY <2>1, <2>3 DEF Maps
<1>3. ASSUME NEW q \in Restores, q # r PROVE CallInv(q)'
  <2>1. /\ job'[q] = job[q] /\ holds'[q] = holds[q]
        /\ \A i : (<<q, i>> \in pins' <=> <<q, i>> \in pins)
    BY <1>0, <1>3 DEF Inv, Maps, Moves, Becomes
  <2>2. CallInv(q)
    BY DEF Inv
  <2>3. CallShape(q)'
    BY <2>1, <2>2 DEF CallInv, CallShape, Ops
  <2>4. CallWrites(q)'
    BY <2>1, <2>2 DEF CallInv, CallWrites, Ops
  <2>5. CallSink(q)'
    BY <2>1, <2>2 DEF CallInv, CallSink
  <2>6. CallPins(q)'
    BY <2>1, <2>2 DEF CallInv, CallPins, Forgets, Underway, Stopped, Ops
  <2>7. CallCharge(q)'
    BY <2>1, <2>2 DEF CallInv, CallCharge
  <2> QED
    BY <2>3, <2>4, <2>5, <2>6, <2>7 DEF CallInv
<1> QED
  BY <1>1, <1>2, <1>3 DEF Inv

(* restore_candidates, and the caller's choice of one. *)
LEMMA ListKeeps ==
  ASSUME Inv, NEW r \in Restores, List(r)
  PROVE  Inv'
<1>0. CallInv(r) /\ holds[r] \in Holds /\ holds \in [Restores -> Holds]
  BY DEF Inv, Maps
<1>1. PICK C, P : job[r] \in Job(C, P)
  BY DEF Inv, Maps
<1>2. /\ job[r].pc = "new" /\ pins' = pins
      /\ \/ \E c : Moves(r, [job[r] EXCEPT !.pc = "listed", !.candidate = c], holds[r])
         \/ Moves(r, [job[r] EXCEPT !.pc = "ended", !.outcome = "recompute"], holds[r])
  BY <1>0 DEF List, Moves
<1>3. ASSUME NEW c, Moves(r, [job[r] EXCEPT !.pc = "listed", !.candidate = c], holds[r])
      PROVE  Inv'
  <2> DEFINE k == [job[r] EXCEPT !.pc = "listed", !.candidate = c]
  <2>1. k \in Job(C \cup {c}, P)
    BY <1>1 DEF Job, Pcs, Outcomes, Sinks, Errors
  <2>2. k.pc = "listed" /\ Keeps(job[r], k)
    BY <1>1 DEF Job, Pcs, Keeps, KeepsPlan, KeepsData, KeepsWork, KeepsEnd
  <2> HIDE DEF k
  <2>3. job'[r] = k /\ holds'[r] = holds[r] /\ (CallInv(r)' => Inv')
    BY <1>0, <1>3, <2>1, MovesOne DEF k
  <2>4. CallShape(r)'
    BY <1>0, <1>2, <2>2, <2>3 DEF CallInv, CallShape, Ops, Keeps, KeepsPlan
  <2>5. CallWrites(r)'
    BY <1>0, <1>2, <2>2, <2>3 DEF CallInv, CallWrites, Ops, Keeps, KeepsPlan, KeepsData, KeepsWork,
           Starting, Holding
  <2>6. CallSink(r)'
    BY <1>0, <1>2, <2>2, <2>3 DEF CallInv, CallSink, Keeps, KeepsEnd, Starting
  <2>7. CallPins(r)'
    BY <1>0, <1>2, <2>2, <2>3
       DEF CallInv, CallPins, Forgets, Underway, Stopped, Ops, Keeps, KeepsPlan,
           KeepsData, KeepsWork, Starting
  <2>8. CallCharge(r)'
    BY <1>0, <1>2, <2>2, <2>3 DEF CallInv, CallCharge, Keeps, KeepsPlan
  <2> QED
    BY <2>3, <2>4, <2>5, <2>6, <2>7, <2>8 DEF CallInv
<1>4. ASSUME Moves(r, [job[r] EXCEPT !.pc = "ended", !.outcome = "recompute"], holds[r])
      PROVE  Inv'
  <2> DEFINE k == [job[r] EXCEPT !.pc = "ended", !.outcome = "recompute"]
  <2>1. k \in Job(C, P)
    BY <1>1 DEF Job, Pcs, Outcomes, Sinks, Errors
  <2>2. k.pc = "ended" /\ KeepsPlan(job[r], k) /\ KeepsData(job[r], k)
          /\ KeepsWork(job[r], k) /\ k.sink = job[r].sink
    BY <1>1 DEF Job, Pcs, Keeps, KeepsPlan, KeepsData, KeepsWork, KeepsEnd
  <2> HIDE DEF k
  <2>3. job'[r] = k /\ holds'[r] = holds[r] /\ (CallInv(r)' => Inv')
    BY <1>0, <1>4, <2>1, MovesOne DEF k
  <2>4. CallShape(r)'
    BY <1>0, <1>2, <2>2, <2>3 DEF CallInv, CallShape, Ops, Keeps, KeepsPlan
  <2>5. CallWrites(r)'
    BY <1>0, <1>2, <2>2, <2>3 DEF CallInv, CallWrites, Ops, Keeps, KeepsPlan, KeepsData, KeepsWork,
           Starting, Holding
  <2>6. CallSink(r)'
    BY <1>0, <1>2, <2>2, <2>3 DEF CallInv, CallSink, Keeps, KeepsEnd, Starting
  <2>7. CallPins(r)'
    BY <1>0, <1>2, <2>2, <2>3
       DEF CallInv, CallPins, Forgets, Underway, Stopped, Ops, Keeps, KeepsPlan,
           KeepsData, KeepsWork, Starting
  <2>8. CallCharge(r)'
    BY <1>0, <1>2, <2>2, <2>3 DEF CallInv, CallCharge, Keeps, KeepsPlan
  <2> QED
    BY <2>3, <2>4, <2>5, <2>6, <2>7, <2>8 DEF CallInv
<1> QED
  BY <1>2, <1>3, <1>4

(* AuthenticatedRestorePlan::build. *)
LEMMA BuildKeeps ==
  ASSUME Inv, NEW r \in Restores, Build(r)
  PROVE  Inv'
<1>0. CallInv(r) /\ holds[r] \in Holds /\ holds \in [Restores -> Holds]
  BY DEF Inv, Maps
<1>1. PICK C, P : job[r] \in Job(C, P)
  BY DEF Inv, Maps
<1> DEFINE plan == BuildPlan(Store, job[r].candidate, 1, Limits)
           to == IF plan.status = "ok" THEN "planned" ELSE "ended"
           end == IF plan.status = "ok" THEN job[r].outcome ELSE "error"
           k == [job[r] EXCEPT !.plan = plan, !.pc = to, !.candidate = RecomputeCandidate,
                               !.outcome = end]
<1>a. /\ job[r].pc = "listed" /\ pins' = pins /\ Moves(r, k, holds[r])
      /\ PlanShaped(plan)
  <2>1. Store.manifests = Manifests
    BY DEF Store
  <2>2. PlanShaped(plan)
    BY <2>1, BuildShapes
  <2> QED
    BY <1>0, <2>2 DEF Build, Moves
<1>b. /\ to \in Pcs /\ end \in Outcomes
      /\ (plan.status = "ok" => to = "planned") /\ (plan.status # "ok" => to = "ended")
  BY <1>1 DEF Job, Pcs, Outcomes
<1> HIDE DEF plan, to, end
<1>2. /\ job[r].pc = "listed" /\ pins' = pins /\ Moves(r, k, holds[r])
      /\ PlanShaped(plan)
      /\ (plan.status = "ok" => to = "planned") /\ (plan.status # "ok" => to = "ended")
  BY <1>a, <1>b
<1>3. k \in Job(C \cup {RecomputeCandidate}, P \cup {plan})
  BY <1>1, <1>b DEF Job
<1>4. /\ k.plan = plan /\ k.cancelled = job[r].cancelled /\ k.pc = to
      /\ KeepsData(job[r], k) /\ KeepsWork(job[r], k) /\ k.sink = job[r].sink
  BY <1>1, <1>b DEF Job, Pcs, Keeps, KeepsPlan, KeepsData, KeepsWork, KeepsEnd
<1> HIDE DEF k
<1>5. job'[r] = k /\ holds'[r] = holds[r] /\ (CallInv(r)' => Inv')
  BY <1>0, <1>2, <1>3, MovesOne DEF k
<1>6. CallShape(r)'
  BY <1>0, <1>2, <1>4, <1>5 DEF CallInv, CallShape, Ops, Keeps, KeepsPlan, CallPins, Starting
<1>7. CallWrites(r)'
  BY <1>0, <1>2, <1>4, <1>5 DEF CallInv, CallWrites, Ops, Keeps, KeepsPlan, KeepsData, KeepsWork,
         Starting, Holding
<1>8. CallSink(r)'
  BY <1>0, <1>2, <1>4, <1>5 DEF CallInv, CallSink, Keeps, KeepsEnd, Starting
<1>9. CallPins(r)'
  BY <1>0, <1>2, <1>4, <1>5
     DEF CallInv, CallPins, Forgets, Underway, Stopped, Ops, Keeps, KeepsPlan,
         KeepsData, KeepsWork, Starting
<1>10. CallCharge(r)'
  BY <1>0, <1>2, <1>4, <1>5 DEF CallInv, CallCharge, Keeps, KeepsPlan
<1> QED
  BY <1>5, <1>6, <1>7, <1>8, <1>9, <1>10 DEF CallInv

(* The caller's token. *)
LEMMA CancelKeeps ==
  ASSUME Inv, NEW r \in Restores, Cancel(r)
  PROVE  Inv'
<1>0. CallInv(r) /\ holds[r] \in Holds /\ holds \in [Restores -> Holds]
  BY DEF Inv, Maps
<1>1. PICK C, P : job[r] \in Job(C, P)
  BY DEF Inv, Maps
<1> DEFINE k == [job[r] EXCEPT !.cancelled = TRUE]
<1>2. /\ job[r].pc \notin {"new", "ended", "freed"} /\ pins' = pins /\ Moves(r, k, holds[r])
  BY <1>0 DEF Cancel, Moves
<1>3. k \in Job(C, P)
  BY <1>1 DEF Job, Pcs, Outcomes, Sinks, Errors
<1>4. /\ k.cancelled = TRUE /\ k.plan = job[r].plan /\ k.pc = job[r].pc
      /\ KeepsData(job[r], k) /\ KeepsWork(job[r], k) /\ KeepsEnd(job[r], k)
  BY <1>1 DEF Job, Pcs, Keeps, KeepsPlan, KeepsData, KeepsWork, KeepsEnd
<1> HIDE DEF k
<1>5. job'[r] = k /\ holds'[r] = holds[r] /\ (CallInv(r)' => Inv')
  BY <1>0, <1>2, <1>3, MovesOne DEF k
<1>6. CallShape(r)'
  BY <1>0, <1>2, <1>4, <1>5 DEF CallInv, CallShape, Ops, Keeps, KeepsPlan
<1>7. CallWrites(r)'
  BY <1>0, <1>2, <1>4, <1>5 DEF CallInv, CallWrites, Ops, Keeps, KeepsPlan, KeepsData, KeepsWork,
         Starting, Holding
<1>8. CallSink(r)'
  BY <1>0, <1>2, <1>4, <1>5 DEF CallInv, CallSink, Keeps, KeepsEnd, Starting
<1>9. CallPins(r)'
  BY <1>0, <1>2, <1>4, <1>5
     DEF CallInv, CallPins, Forgets, Underway, Stopped, Ops, Keeps, KeepsPlan,
         KeepsData, KeepsWork, Starting
<1>10. CallCharge(r)'
  BY <1>0, <1>2, <1>4, <1>5 DEF CallInv, CallCharge, Keeps, KeepsPlan
<1> QED
  BY <1>5, <1>6, <1>7, <1>8, <1>9, <1>10 DEF CallInv

(* A step that takes away no pin row of another call, and adds none to its own. *)
Drops(r) ==
    /\ \A q, i : q # r => (<<q, i>> \in pins' <=> <<q, i>> \in pins)
    /\ \A i : <<r, i>> \in pins' => <<r, i>> \in pins

(* Releasing operations takes away their pin rows and no other. *)
LEMMA ReleaseFact ==
  ASSUME NEW r, NEW ops, Release(r, ops)
  PROVE  /\ Drops(r)
         /\ \A i : <<r, i>> \in pins' <=> <<r, i>> \in pins /\ i \notin ops
<1>1. \A q, i : <<q, i>> \in pins' <=> <<q, i>> \in pins /\ ~(q = r /\ i \in ops)
  BY DEF Release
<1> QED
  BY <1>1 DEF Drops

(* An error return: the sink is aborted, the reservation given back, and the pins are gone
   unless the call is one that may forget them. *)
LEMMA UnwindKeeps ==
  ASSUME Inv, NEW r \in Restores, Unwind(r), Drops(r),
         Forgets(r) \/ \A i : <<r, i>> \notin pins'
  PROVE  Inv'
<1>0. CallInv(r) /\ holds[r] \in Holds /\ holds \in [Restores -> Holds]
  BY DEF Inv, Maps
<1>1. PICK C, P : job[r] \in Job(C, P)
  BY DEF Inv, Maps
<1> DEFINE sink == IF Engine(r) THEN "aborted" ELSE "idle"
           k == [NewJob EXCEPT !.pc = "ended", !.outcome = "error", !.plan = job[r].plan,
                               !.cancelled = job[r].cancelled, !.sink = sink]
<1>a. sink \in {"idle", "aborted", "reset"}
  OBVIOUS
<1>b. Moves(r, k, NoHold)
  BY DEF Unwind, Moves, Drops
<1> HIDE DEF sink
<1>c. NewJob \in Job({RecomputeCandidate}, {NoPlan})
  BY EmptySeq DEF NewJob, Job, Pcs, NoWorkers, WorkerStates, Errors, Sinks, Outcomes
<1>d. /\ NewJob.got = {} /\ NewJob.written = {} /\ NewJob.channel = <<>> /\ NewJob.error = "none"
      /\ NewJob.failed = FALSE /\ NewJob.worker = NoWorkers
  BY DEF NewJob
<1>2. /\ Drops(r) /\ (Forgets(r) \/ \A i : <<r, i>> \notin pins')
      /\ Moves(r, k, NoHold) /\ NoHold.reserved = FALSE
      /\ sink \in {"idle", "aborted", "reset"}
  BY <1>a, <1>b DEF NoHold
<1>3. k \in Job({RecomputeCandidate}, {job[r].plan})
  BY <1>1, <1>a, <1>c, <1>d, ZenonT(60) DEF Job, Pcs, Outcomes, Sinks, Errors
<1>4. /\ KeepsPlan(job[r], k) /\ k.pc = "ended" /\ k.sink = sink
      /\ k.got = {} /\ k.written = {} /\ k.channel = <<>> /\ k.error = "none"
      /\ k.failed = FALSE /\ k.worker = NoWorkers
  BY <1>1, <1>a, <1>c, <1>d DEF Job, Pcs, Keeps, KeepsPlan, KeepsData, KeepsWork, KeepsEnd
<1> HIDE DEF k
<1>5. NoHold \in Holds
  BY DEF NoHold, NoCharge, Holds, Charges
<1>6. job'[r] = k /\ holds'[r] = NoHold /\ (CallInv(r)' => Inv')
  BY <1>0, <1>2, <1>3, <1>5, MovesOne DEF k
<1>7. CallShape(r)'
  BY <1>0, <1>2, <1>4, <1>6 DEF CallInv, CallShape, Ops, Keeps, KeepsPlan, Drops
<1>8. CallWrites(r)'
  BY <1>0, <1>2, <1>4, <1>6 DEF CallInv, CallWrites, Ops, Keeps, KeepsPlan, KeepsData, KeepsWork,
         Starting, Holding
<1>9. CallSink(r)'
  BY <1>0, <1>2, <1>4, <1>6 DEF CallInv, CallSink, Keeps, KeepsEnd, Starting
<1>10. CallPins(r)'
  BY <1>0, <1>2, <1>4, <1>6
     DEF CallInv, CallPins, Forgets, Underway, Stopped, Ops, Keeps, KeepsPlan,
         KeepsData, KeepsWork, Starting, Drops
<1>11. CallCharge(r)'
  BY <1>0, <1>2, <1>4, <1>6 DEF CallInv, CallCharge, Keeps, KeepsPlan
<1> QED
  BY <1>6, <1>7, <1>8, <1>9, <1>10, <1>11 DEF CallInv

(* acknowledge_engine_free takes the hold out, and the call keeps its pins to release them. *)
LEMMA TakeHoldKeeps ==
  ASSUME Inv, NEW r \in Restores, pins' = pins,
         job[r].pc \in Holding, NEW outcome \in Outcomes, NEW sink \in Sinks,
         outcome = "ok" \/ sink \in {"idle", "aborted", "reset"}, TakeHold(r, outcome, sink)
  PROVE  Inv'
<1>0. CallInv(r) /\ holds[r] \in Holds /\ holds \in [Restores -> Holds]
  BY DEF Inv, Maps
<1>1. PICK C, P : job[r] \in Job(C, P)
  BY DEF Inv, Maps
<1> DEFINE k == [job[r] EXCEPT !.pc = "freeing", !.got = holds[r].pins, !.outcome = outcome,
                               !.sink = sink, !.written = {}]
<1>a. holds[r].pins \in SUBSET Nat
  BY <1>0 DEF Holds
<1>2. /\ pins' = pins /\ job[r].pc \in Holding
      /\ (outcome = "ok" \/ sink \in {"idle", "aborted", "reset"})
      /\ Moves(r, k, NoHold) /\ NoHold.reserved = FALSE
  BY DEF TakeHold, Moves, NoHold
<1>3. k \in Job(C, P)
  BY <1>1, <1>a DEF Job, Pcs
<1>4. /\ KeepsPlan(job[r], k) /\ KeepsWork(job[r], k) /\ k.pc = "freeing" /\ k.sink = sink
      /\ k.got = holds[r].pins /\ k.outcome = outcome
  BY <1>1, <1>a DEF Job, Pcs, Keeps, KeepsPlan, KeepsData, KeepsWork, KeepsEnd
<1> HIDE DEF k
<1>5. NoHold \in Holds
  BY DEF NoHold, NoCharge, Holds, Charges
<1>6. job'[r] = k /\ holds'[r] = NoHold /\ (CallInv(r)' => Inv')
  BY <1>0, <1>2, <1>3, <1>5, MovesOne DEF k
<1>7. CallShape(r)'
  BY <1>0, <1>2, <1>4, <1>6 DEF CallInv, CallShape, Ops, Keeps, KeepsPlan
<1>8. CallWrites(r)'
  BY <1>0, <1>2, <1>4, <1>6 DEF CallInv, CallWrites, Ops, Keeps, KeepsPlan, KeepsData, KeepsWork,
         Starting, Holding
<1>9. CallSink(r)'
  BY <1>0, <1>2, <1>4, <1>6 DEF CallInv, CallSink, Keeps, KeepsEnd, Starting
<1>10. CallPins(r)'
  BY <1>0, <1>2, <1>4, <1>6
     DEF CallInv, CallPins, Forgets, Underway, Stopped, Ops, Keeps, KeepsPlan,
         KeepsData, KeepsWork, Starting
<1>11. CallCharge(r)'
  BY <1>0, <1>2, <1>4, <1>6 DEF CallInv, CallCharge, Keeps, KeepsPlan, Holding
<1> QED
  BY <1>6, <1>7, <1>8, <1>9, <1>10, <1>11 DEF CallInv

(* What a built plan charges. *)
LEMMA ChargeIsNatural ==
  ASSUME Inv, NEW r \in Restores, job[r].plan.status = "ok"
  PROVE  Charge(r) \in Charges /\ Charge(r).pins = job[r].plan.resources.pins
<1>1. job[r].plan.resources \in Charges
  BY DEF Inv, CallInv, CallShape, PlanShaped
<1>2. Parallelism(r) \in Nat
  BY RestoreAssumption, FS_CardinalityType DEF Parallelism
<1> QED
  BY <1>1, <1>2 DEF Charge, ResourceCharge, Charges

(* restore(): a plan is refused, or its charge is reserved. *)
LEMMA StartKeeps ==
  ASSUME Inv, NEW r \in Restores, Start(r)
  PROVE  Inv'
<1>0. CallInv(r) /\ holds[r] \in Holds /\ holds \in [Restores -> Holds]
  BY DEF Inv, Maps
<1>1. PICK C, P : job[r] \in Job(C, P)
  BY DEF Inv, Maps
<1> DEFINE h == [reserved |-> TRUE, charge |-> Charge(r), pins |-> {}]
<1>2. /\ job[r].pc = "planned" /\ pins' = pins
      /\ \/ Moves(r, [job[r] EXCEPT !.pc = "ended", !.outcome = "error"], holds[r])
         \/ Moves(r, [job[r] EXCEPT !.pc = "reserved"], h)
  BY <1>0 DEF Start, Moves, Returned
<1>h. ~holds[r].reserved
  BY <1>0, <1>2 DEF CallInv, CallCharge
<1>i. h \in Holds /\ h.charge.pins = job[r].plan.resources.pins
  <2>1. job[r].plan.status = "ok"
    BY <1>0, <1>2 DEF CallInv, CallCharge
  <2> QED
    BY <2>1, ChargeIsNatural DEF Holds
<1> HIDE DEF h
<1>3. ASSUME Moves(r, [job[r] EXCEPT !.pc = "ended", !.outcome = "error"], holds[r])
      PROVE  Inv'
  <2> DEFINE k == [job[r] EXCEPT !.pc = "ended", !.outcome = "error"]
  <2>1. k \in Job(C, P)
    BY <1>1 DEF Job, Pcs, Outcomes, Sinks, Errors
  <2>2. /\ k.pc = "ended" /\ KeepsPlan(job[r], k) /\ KeepsData(job[r], k)
          /\ KeepsWork(job[r], k) /\ k.sink = job[r].sink
    BY <1>1 DEF Job, Pcs, Keeps, KeepsPlan, KeepsData, KeepsWork, KeepsEnd
  <2> HIDE DEF k
  <2>3. job'[r] = k /\ holds'[r] = holds[r] /\ (CallInv(r)' => Inv')
    BY <1>0, <1>3, <2>1, MovesOne DEF k
  <2>4. CallShape(r)'
    BY <1>0, <1>2, <2>2, <2>3 DEF CallInv, CallShape, Ops, Keeps, KeepsPlan
  <2>5. CallWrites(r)'
    BY <1>0, <1>2, <2>2, <2>3 DEF CallInv, CallWrites, Ops, Keeps, KeepsPlan, KeepsData, KeepsWork,
           Starting, Holding
  <2>6. CallSink(r)'
    BY <1>0, <1>2, <2>2, <2>3 DEF CallInv, CallSink, Keeps, KeepsEnd, Starting
  <2>7. CallPins(r)'
    BY <1>0, <1>2, <2>2, <2>3
       DEF CallInv, CallPins, Forgets, Underway, Stopped, Ops, Keeps, KeepsPlan,
           KeepsData, KeepsWork, Starting
  <2>8. CallCharge(r)'
    BY <1>0, <1>2, <2>2, <2>3, <1>h DEF CallInv, CallCharge, Keeps, KeepsPlan
  <2> QED
    BY <2>3, <2>4, <2>5, <2>6, <2>7, <2>8 DEF CallInv
<1>4. ASSUME Moves(r, [job[r] EXCEPT !.pc = "reserved"], h)
      PROVE  Inv'
  <2> DEFINE k == [job[r] EXCEPT !.pc = "reserved"]
  <2>1. k \in Job(C, P)
    BY <1>1 DEF Job, Pcs, Outcomes, Sinks, Errors
  <2>2. /\ k.pc = "reserved" /\ Keeps(job[r], k)
    BY <1>1 DEF Job, Pcs, Keeps, KeepsPlan, KeepsData, KeepsWork, KeepsEnd
  <2> HIDE DEF k
  <2>3. h \in Holds
    BY <1>i
  <2>4. job'[r] = k /\ holds'[r] = h /\ (CallInv(r)' => Inv')
    BY <1>0, <1>4, <2>1, <2>3, MovesOne DEF k
  <2>5. CallShape(r)'
    BY <1>0, <1>2, <2>2, <2>4 DEF CallInv, CallShape, Ops, Keeps, KeepsPlan
  <2>6. CallWrites(r)'
    BY <1>0, <1>2, <2>2, <2>4 DEF CallInv, CallWrites, Ops, Keeps, KeepsPlan, KeepsData, KeepsWork,
           Starting, Holding
  <2>7. CallSink(r)'
    BY <1>0, <1>2, <2>2, <2>4 DEF CallInv, CallSink, Keeps, KeepsEnd, Starting
  <2>8. CallPins(r)'
    BY <1>0, <1>2, <2>2, <2>4
       DEF CallInv, CallPins, Forgets, Underway, Stopped, Ops, Keeps, KeepsPlan,
           KeepsData, KeepsWork, Starting
  <2>9. CallCharge(r)'
    BY <1>0, <1>2, <2>2, <2>4, <1>i DEF CallInv, CallCharge, Keeps, KeepsPlan
  <2> QED
    BY <2>4, <2>5, <2>6, <2>7, <2>8, <2>9 DEF CallInv
<1> QED
  BY <1>2, <1>3, <1>4

(* The engine's sink begins, or fails to. *)
LEMMA SinkBeginKeeps ==
  ASSUME Inv, NEW r \in Restores, SinkBegin(r)
  PROVE  Inv'
<1>0. CallInv(r) /\ holds[r] \in Holds /\ holds \in [Restores -> Holds]
  BY DEF Inv, Maps
<1>1. PICK C, P : job[r] \in Job(C, P)
  BY DEF Inv, Maps
<1>2. job[r].pc = "reserved" /\ pins' = pins
  BY DEF SinkBegin
<1>3. CASE Unwind(r)
  <2>1. Drops(r) /\ \A i : <<r, i>> \notin pins'
    BY <1>0, <1>2 DEF Drops, CallInv, CallPins, Starting
  <2> QED
    BY <1>3, <2>1, UnwindKeeps
<1>4. CASE ~Unwind(r)
  <2> DEFINE sink == IF Engine(r) THEN "begun" ELSE job[r].sink
             k == [job[r] EXCEPT !.pc = "pinning", !.sink = sink]
  <2>1. sink \in Sinks
    BY <1>1 DEF Job, Sinks
  <2>2. Moves(r, k, holds[r])
    BY <1>0, <1>4 DEF SinkBegin, Moves
  <2> HIDE DEF sink
  <2>3. k \in Job(C, P)
    BY <1>1, <2>1 DEF Job, Pcs
  <2>4. /\ k.pc = "pinning" /\ KeepsPlan(job[r], k) /\ KeepsData(job[r], k)
        /\ KeepsWork(job[r], k)
    BY <1>1 DEF Job, Pcs, KeepsPlan, KeepsData, KeepsWork
  <2> HIDE DEF k
  <2>5. job'[r] = k /\ holds'[r] = holds[r] /\ (CallInv(r)' => Inv')
    BY <1>0, <2>2, <2>3, MovesOne
  <2>6. CallShape(r)'
    BY <1>0, <1>2, <2>4, <2>5 DEF CallInv, CallShape, Ops, Keeps, KeepsPlan
  <2>7. CallWrites(r)'
    BY <1>0, <1>2, <2>4, <2>5 DEF CallInv, CallWrites, Ops, Keeps, KeepsPlan, KeepsData, KeepsWork,
           Starting, Holding
  <2>8. CallSink(r)'
    BY <1>0, <1>2, <2>4, <2>5 DEF CallInv, CallSink, Keeps, KeepsEnd, Starting
  <2>9. CallPins(r)'
    BY <1>0, <1>2, <2>4, <2>5
       DEF CallInv, CallPins, Forgets, Underway, Stopped, Ops, Keeps, KeepsPlan,
           KeepsData, KeepsWork, Starting
  <2>10. CallCharge(r)'
    BY <1>0, <1>2, <2>4, <2>5 DEF CallInv, CallCharge, Keeps, KeepsPlan
  <2> QED
    BY <2>5, <2>6, <2>7, <2>8, <2>9, <2>10 DEF CallInv
<1> QED
  BY <1>3, <1>4

(* pin_chunks_batch: every source is pinned, or none. *)
LEMMA PinAllKeeps ==
  ASSUME Inv, NEW r \in Restores, PinAll(r)
  PROVE  Inv'
<1>0. CallInv(r) /\ holds[r] \in Holds /\ holds \in [Restores -> Holds]
  BY DEF Inv, Maps
<1>1. PICK C, P : job[r] \in Job(C, P)
  BY DEF Inv, Maps
<1>2. job[r].pc = "pinning"
  BY DEF PinAll
<1>3. CASE ~\A i \in Ops(r) : rows[ChunkOf(r, i)] = "AVAILABLE"
  <2>1. Unwind(r) /\ pins' = pins
    BY <1>3 DEF PinAll
  <2>2. Drops(r) /\ \A i : <<r, i>> \notin pins'
    BY <1>0, <1>2, <2>1 DEF Drops, CallInv, CallPins, Starting
  <2> QED
    BY <2>1, <2>2, UnwindKeeps
<1>4. CASE \A i \in Ops(r) : rows[ChunkOf(r, i)] = "AVAILABLE"
  <2> DEFINE k == [job[r] EXCEPT !.pc = "decoding"]
  <2>1. pins' = pins \cup {<<r, i>> : i \in Ops(r)}
    BY <1>4 DEF PinAll
  <2>2. /\ \A q, i : q # r => (<<q, i>> \in pins' <=> <<q, i>> \in pins)
        /\ \A i : <<r, i>> \in pins' <=> <<r, i>> \in pins \/ i \in Ops(r)
    BY <2>1
  <2>3. Moves(r, k, holds[r])
    BY <1>0, <1>4, <2>2 DEF PinAll, Moves
  <2>4. k \in Job(C, P)
    BY <1>1 DEF Job, Pcs
  <2>5. k.pc = "decoding" /\ Keeps(job[r], k)
    BY <1>1 DEF Job, Keeps, KeepsPlan, KeepsData, KeepsWork, KeepsEnd
  <2> HIDE DEF k
  <2>6. job'[r] = k /\ holds'[r] = holds[r] /\ (CallInv(r)' => Inv')
    BY <1>0, <2>3, <2>4, MovesOne
  <2>7. CallShape(r)'
    BY <1>0, <1>2, <2>5, <2>6, <2>2 DEF CallInv, CallShape, Ops, Keeps, KeepsPlan
  <2>8. CallWrites(r)'
    BY <1>0, <1>2, <2>5, <2>6 DEF CallInv, CallWrites, Ops, Keeps, KeepsPlan, KeepsData, KeepsWork,
           Starting, Holding
  <2>9. CallSink(r)'
    BY <1>0, <1>2, <2>5, <2>6 DEF CallInv, CallSink, Keeps, KeepsEnd, Starting
  <2>10. CallPins(r)'
    <3>1. \A i \in Ops(r) : i >= 1
      BY <1>0 DEF CallInv, CallShape, PlanShaped, Ops
    <3>2. job[r].next = 1 /\ \A w \in Workers : job[r].worker[w].at = "idle"
      BY <1>0, <1>2 DEF CallInv, CallWrites, Starting, NoWorkers
    <3>3. \A i : <<r, i>> \in pins => i \in Ops(r)
      BY <1>0 DEF CallInv, CallShape
    <3> QED
      BY <2>2, <2>5, <2>6, <3>1, <3>2, <3>3 DEF CallPins, Keeps, KeepsWork, Starting
  <2>11. CallCharge(r)'
    BY <1>0, <1>2, <2>5, <2>6 DEF CallInv, CallCharge, Keeps, KeepsPlan
  <2> QED
    BY <2>6, <2>7, <2>8, <2>9, <2>10, <2>11 DEF CallInv
<1> QED
  BY <1>3, <1>4

(* The operations of a plan are numbered from one, and pin rows name operations. *)
LEMMA OpsNumbered ==
  ASSUME NEW r, CallShape(r)
  PROVE  /\ \E n \in Nat : Ops(r) = 1 .. n
         /\ Ops(r) \subseteq Nat \ {0}
         /\ \A i : <<r, i>> \in pins => i \in Ops(r)
<1> QED
  BY DEF CallShape, PlanShaped, Ops

(* Without workers every pin is collected or still to come. *)
LEMMA SequentialPins ==
  ASSUME NEW r, CallInv(r), job[r].pc = "decoding", Mode[r] # "parallel"
  PROVE  /\ job[r].channel = <<>> /\ job[r].error = "none" /\ job[r].worker = NoWorkers
         /\ \A i : <<r, i>> \in pins => i \in job[r].got \/ i >= job[r].next
<1>1. job[r].channel = <<>> /\ job[r].error = "none" /\ job[r].worker = NoWorkers
  BY DEF CallInv, CallWrites
<1>2. \A i : ~Underway(r, i)
  BY <1>1 DEF Underway, NoWorkers
<1> QED
  BY <1>1, <1>2 DEF CallInv, CallPins

(* An operation decoded on the calling thread, or an error that releases the rest of the pins. *)
LEMMA SequentialChunkKeeps ==
  ASSUME Inv, NEW r \in Restores, SequentialChunk(r)
  PROVE  Inv'
<1>0. CallInv(r) /\ holds[r] \in Holds /\ holds \in [Restores -> Holds]
  BY DEF Inv, Maps
<1>1. PICK C, P : job[r] \in Job(C, P)
  BY DEF Inv, Maps
<1> DEFINE i == job[r].next
           k == [job[r] EXCEPT !.next = i + 1, !.got = @ \cup {i}, !.written = @ \cup {i}]
<1>2. job[r].pc = "decoding" /\ Mode[r] # "parallel" /\ i \in Ops(r)
  BY DEF SequentialChunk
<1>3. \/ Unwind(r) /\ Release(r, Ops(r))
      \/ Unwind(r) /\ Release(r, job[r].got \cup {m \in Ops(r) : m >= i})
      \/ pins' = pins /\ Moves(r, k, holds[r])
  BY <1>0 DEF SequentialChunk, Moves
<1>4. /\ Ops(r) \subseteq Nat \ {0}
      /\ \A m : <<r, m>> \in pins => m \in Ops(r) /\ (m \in job[r].got \/ m >= i)
      /\ job[r].channel = <<>> /\ job[r].error = "none" /\ job[r].worker = NoWorkers
  BY <1>0, <1>2, OpsNumbered, SequentialPins DEF CallInv
<1>5. CASE Unwind(r) /\ Release(r, Ops(r))
  <2>1. Drops(r) /\ \A m : <<r, m>> \notin pins'
    BY <1>4, <1>5, ReleaseFact
  <2> QED
    BY <1>5, <2>1, UnwindKeeps
<1>6. CASE Unwind(r) /\ Release(r, job[r].got \cup {m \in Ops(r) : m >= i})
  <2>1. Drops(r) /\ \A m : <<r, m>> \notin pins'
    BY <1>4, <1>6, ReleaseFact
  <2> QED
    BY <1>6, <2>1, UnwindKeeps
<1>7. CASE pins' = pins /\ Moves(r, k, holds[r])
  <2>1. k \in Job(C, P)
    <3> DEFINE after == i + 1
               got == job[r].got \cup {i}
               written == job[r].written \cup {i}
    <3>1. after \in Nat \ {0} /\ got \in SUBSET Nat /\ written \in SUBSET Nat
      BY <1>1 DEF Job
    <3>2. k = [job[r] EXCEPT !.next = after, !.got = got, !.written = written]
      OBVIOUS
    <3> HIDE DEF after, got, written, k
    <3> QED
      BY <1>1, <3>1, <3>2 DEF Job
  <2>2. /\ k.next = i + 1 /\ k.got = job[r].got \cup {i} /\ k.written = job[r].written \cup {i}
        /\ k.pc = job[r].pc /\ KeepsPlan(job[r], k) /\ KeepsEnd(job[r], k)
        /\ k.failed = job[r].failed /\ k.error = job[r].error /\ k.worker = job[r].worker
        /\ k.channel = job[r].channel /\ i \in Nat
    BY <1>1 DEF Job, KeepsPlan, KeepsEnd
  <2> HIDE DEF k, i
  <2>3. job'[r] = k /\ holds'[r] = holds[r] /\ (CallInv(r)' => Inv')
    BY <1>0, <1>7, <2>1, MovesOne
  <2>4. CallShape(r)'
    BY <1>0, <1>2, <1>7, <2>2, <2>3 DEF CallInv, CallShape, Ops, Keeps, KeepsPlan
  <2>5. CallWrites(r)'
    BY <1>0, <1>2, <1>7, <2>2, <2>3, <1>4
       DEF CallInv, CallWrites, Ops, Keeps, KeepsPlan, KeepsData, KeepsWork,
           Starting, Holding
  <2>6. CallSink(r)'
    BY <1>0, <1>2, <1>7, <2>2, <2>3 DEF CallInv, CallSink, Keeps, KeepsEnd, Starting
  <2>7. CallPins(r)'
    <3>1. \A m : <<r, m>> \in pins' => m \in k.got \/ m >= k.next
      BY <1>4, <1>7, <2>2
    <3>2. \A w \in Workers : k.worker[w].at # "done"
      BY <1>4, <2>2 DEF NoWorkers
    <3> QED
      BY <1>2, <2>2, <2>3, <3>1, <3>2 DEF CallPins, Starting
  <2>8. CallCharge(r)'
    BY <1>0, <1>2, <1>7, <2>2, <2>3 DEF CallInv, CallCharge, Keeps, KeepsPlan
  <2> QED
    BY <2>3, <2>4, <2>5, <2>6, <2>7, <2>8 DEF CallInv
<1> QED
  BY <1>3, <1>5, <1>6, <1>7

(* The last operation has been decoded. *)
LEMMA SequentialDoneKeeps ==
  ASSUME Inv, NEW r \in Restores, SequentialDone(r)
  PROVE  Inv'
<1>0. CallInv(r) /\ holds[r] \in Holds /\ holds \in [Restores -> Holds]
  BY DEF Inv, Maps
<1>1. PICK C, P : job[r] \in Job(C, P)
  BY DEF Inv, Maps
<1> DEFINE k == [job[r] EXCEPT !.pc = "decoded", !.next = 1]
<1>a. /\ job[r].pc = "decoding" /\ Mode[r] # "parallel" /\ pins' = pins
      /\ job[r].next \notin Ops(r) /\ Moves(r, k, holds[r])
  BY <1>0 DEF SequentialDone, Moves
<1>b. /\ \A i : <<r, i>> \in pins => i \in job[r].got
      /\ job[r].error = "none"
  <2>1. PICK n \in Nat : Ops(r) = 1 .. n /\ \A i : <<r, i>> \in pins => i \in Ops(r)
    BY <1>0, OpsNumbered DEF CallInv
  <2>2. job[r].next \in Nat \ {0} /\ job[r].next > n
    BY <1>1, <1>a, <2>1 DEF Job
  <2> QED
    BY <1>0, <1>a, <2>1, <2>2, SequentialPins
<1>2. /\ job[r].pc = "decoding" /\ Mode[r] # "parallel" /\ pins' = pins
      /\ Moves(r, k, holds[r]) /\ job[r].error = "none"
      /\ \A i : <<r, i>> \in pins => i \in job[r].got
  BY <1>a, <1>b
<1>c. 1 \in Nat \ {0}
  OBVIOUS
<1>3. k \in Job(C, P)
  BY <1>1, <1>c DEF Job, Pcs
<1>4. /\ KeepsPlan(job[r], k) /\ KeepsEnd(job[r], k) /\ KeepsData(job[r], k)
      /\ k.pc = "decoded" /\ k.failed = job[r].failed /\ k.error = job[r].error
      /\ k.worker = job[r].worker /\ k.channel = job[r].channel
  BY <1>1, <1>c DEF Job, Pcs, Keeps, KeepsPlan, KeepsData, KeepsWork, KeepsEnd
<1> HIDE DEF k
<1>5. job'[r] = k /\ holds'[r] = holds[r] /\ (CallInv(r)' => Inv')
  BY <1>0, <1>2, <1>3, MovesOne DEF k
<1>6. CallShape(r)'
  BY <1>0, <1>2, <1>4, <1>5 DEF CallInv, CallShape, Ops, Keeps, KeepsPlan
<1>7. CallWrites(r)'
  BY <1>0, <1>2, <1>4, <1>5 DEF CallInv, CallWrites, Ops, Keeps, KeepsPlan, KeepsData, KeepsWork,
         Starting, Holding
<1>8. CallSink(r)'
  BY <1>0, <1>2, <1>4, <1>5 DEF CallInv, CallSink, Keeps, KeepsEnd, Starting
<1>9. CallPins(r)'
  BY <1>0, <1>2, <1>4, <1>5
     DEF CallInv, CallPins, Forgets, Underway, Stopped, Ops, Keeps, KeepsPlan,
         KeepsData, KeepsWork, Starting
<1>10. CallCharge(r)'
  BY <1>0, <1>2, <1>4, <1>5 DEF CallInv, CallCharge, Keeps, KeepsPlan
<1> QED
  BY <1>5, <1>6, <1>7, <1>8, <1>9, <1>10 DEF CallInv

(* A worker claims the operation at the cursor and goes to state s; the pin of the operation
   stays unless it was released, and a worker that stops has a reason. *)
LEMMA ClaimKeeps ==
  ASSUME Inv, NEW r \in Restores, NEW w \in Workers, NEW s \in WorkerStates,
         job[r].pc = "decoding", Mode[r] = "parallel", job[r].worker[w].at = "idle", Drops(r),
         Moves(r, [job[r] EXCEPT !.next = job[r].next + 1, !.worker[w] = s], holds[r]),
         \/ <<r, job[r].next>> \notin pins'
         \/ s = [at |-> "send", op |-> job[r].next, ok |-> TRUE],
         \/ s.at # "done" \/ job[r].cancelled \/ job[r].error # "none"
         \/ job[r].next \notin Ops(r)
  PROVE  Inv'
<1>0. CallInv(r) /\ holds[r] \in Holds /\ holds \in [Restores -> Holds]
  BY DEF Inv, Maps
<1>1. PICK C, P : job[r] \in Job(C, P)
  BY DEF Inv, Maps
<1> DEFINE i == job[r].next
           k == [job[r] EXCEPT !.next = i + 1, !.worker[w] = s]
<1>2. job[r].pc = "decoding" /\ Mode[r] = "parallel" /\ Drops(r) /\ Moves(r, k, holds[r])
  OBVIOUS
<1>3. k \in Job(C, P)
  <2> DEFINE after == i + 1
             worker == [job[r].worker EXCEPT ![w] = s]
  <2>1. after \in Nat \ {0} /\ worker \in [Workers -> WorkerStates]
    BY <1>1 DEF Job
  <2>2. k = [job[r] EXCEPT !.next = after, !.worker = worker]
    OBVIOUS
  <2> HIDE DEF after, worker, k
  <2> QED
    BY <1>1, <2>1, <2>2 DEF Job
<1>4. /\ k.next = i + 1 /\ k.worker = [job[r].worker EXCEPT ![w] = s]
      /\ k.pc = job[r].pc /\ KeepsPlan(job[r], k) /\ KeepsEnd(job[r], k) /\ KeepsData(job[r], k)
      /\ k.failed = job[r].failed /\ k.error = job[r].error /\ k.channel = job[r].channel
  BY <1>1 DEF Job, KeepsPlan, KeepsEnd, KeepsData
<1>5. /\ k.worker[w] = s /\ \A v \in Workers : v # w => k.worker[v] = job[r].worker[v]
      /\ i \in Nat \ {0}
  BY <1>1, <1>4 DEF Job
<1> HIDE DEF k, i
<1>6. job'[r] = k /\ holds'[r] = holds[r] /\ (CallInv(r)' => Inv')
  BY <1>0, <1>2, <1>3, MovesOne
<1>7. PICK n \in Nat : Ops(r) = 1 .. n /\ \A m : <<r, m>> \in pins => m \in Ops(r)
  BY <1>0, OpsNumbered DEF CallInv
<1>8. CallShape(r)'
  BY <1>0, <1>2, <1>4, <1>6 DEF CallInv, CallShape, Ops, Keeps, KeepsPlan, Drops
<1>9. CallWrites(r)'
  BY <1>0, <1>2, <1>4, <1>6 DEF CallInv, CallWrites, Ops, Keeps, KeepsPlan, KeepsData, KeepsWork,
         Starting, Holding
<1>10. CallSink(r)'
  BY <1>0, <1>2, <1>4, <1>6 DEF CallInv, CallSink, Keeps, KeepsEnd, Starting
<1>11. CallPins(r)'
  <2>1. ASSUME NEW m, Underway(r, m) PROVE Underway(r, m)'
    <3>1. ASSUME NEW v \in Workers, job[r].worker[v] = [at |-> "send", op |-> m, ok |-> TRUE]
          PROVE  Underway(r, m)'
      <4>1. job[r].worker[v].at = "send"
        BY <3>1
      <4>2. v # w
        BY <4>1
      <4> QED
        BY <1>5, <1>6, <3>1, <4>2 DEF Underway
    <3>2. job'[r].channel = job[r].channel
      BY <1>4, <1>6
    <3> QED
      BY <2>1, <3>1, <3>2 DEF Underway
  <2>2. Stopped(r) => Stopped(r)'
    <3>1. Ops(r)' = Ops(r)
      BY <1>4, <1>6 DEF Ops, KeepsPlan
    <3>2. /\ job'[r].cancelled = job[r].cancelled /\ job'[r].error = job[r].error
          /\ job'[r].channel = job[r].channel /\ job'[r].next = i + 1
      BY <1>4, <1>6 DEF KeepsPlan
    <3>3. (\A m \in Ops(r) : m < i) => \A m \in Ops(r) : m < i + 1
      BY <1>5, <1>7
    <3> QED
      BY <3>1, <3>2, <3>3 DEF Stopped, i
  <2>3. ASSUME NEW m, <<r, m>> \in pins' PROVE m \in k.got \/ m >= k.next \/ Underway(r, m)'
    <3>1. <<r, m>> \in pins /\ m \in Nat
      BY <1>2, <1>7, <2>3 DEF Drops
    <3>2. CASE m = i
      <4>1. k.worker[w] = [at |-> "send", op |-> m, ok |-> TRUE]
        BY <1>5, <2>3, <3>2 DEF i
      <4> QED
        BY <1>6, <4>1 DEF Underway
    <3>3. CASE m # i
      <4>1. m \in job[r].got \/ m >= i \/ Underway(r, m)
        BY <1>0, <1>2, <3>1 DEF CallInv, CallPins, i
      <4> QED
        BY <1>4, <1>5, <2>1, <3>1, <3>3, <4>1 DEF KeepsData
    <3> QED
      BY <3>2, <3>3
  <2>4. ASSUME NEW v \in Workers, k.worker[v].at = "done" PROVE Stopped(r)'
    <3>1. CASE v # w
      BY <1>0, <1>2, <1>5, <2>2, <2>4, <3>1 DEF CallInv, CallPins
    <3>2. CASE v = w
      <4>1. s.at = "done"
        BY <1>5, <2>4, <3>2
      <4>2. CASE i \notin Ops(r)
        <5>1. \A m \in Ops(r) : m < k.next
          BY <1>4, <1>5, <1>7, <4>2
        <5> QED
          BY <1>4, <1>6, <5>1 DEF Stopped, Ops, KeepsPlan
      <4>3. CASE i \in Ops(r)
        BY <1>4, <1>6, <4>1, <4>3 DEF Stopped, KeepsPlan, i
      <4> QED
        BY <4>2, <4>3
    <3> QED
      BY <3>1, <3>2
  <2> QED
    BY <1>2, <1>4, <1>6, <2>3, <2>4 DEF CallPins, Starting
<1>12. CallCharge(r)'
  BY <1>0, <1>2, <1>4, <1>6 DEF CallInv, CallCharge, Keeps, KeepsPlan
<1> QED
  BY <1>6, <1>8, <1>9, <1>10, <1>11, <1>12 DEF CallInv

(* The cursor is past the plan, the call has stopped, or the operation is read. *)
LEMMA WorkerClaimKeeps ==
  ASSUME Inv, NEW r \in Restores, NEW w \in Workers, WorkerClaim(r, w)
  PROVE  Inv'
<1>0. CallInv(r) /\ holds[r] \in Holds /\ holds \in [Restores -> Holds]
  BY DEF Inv, Maps
<1>1. PICK C, P : job[r] \in Job(C, P)
  BY DEF Inv, Maps
<1> DEFINE i == job[r].next
           To(at, ok) == [job[r] EXCEPT !.next = i + 1, !.worker[w] = [at |-> at, op |-> i, ok |-> ok]]
<1>2. job[r].pc = "decoding" /\ Mode[r] = "parallel" /\ job[r].worker[w].at = "idle"
  BY DEF WorkerClaim
<1>3. /\ job[r].failed => job[r].error # "none"
      /\ \A m : <<r, m>> \in pins => m \in Ops(r)
      /\ i \in Nat
  BY <1>0, <1>1, OpsNumbered DEF CallInv, CallWrites, Job
<1>4. /\ holds' = holds
      /\ \/ i \notin Ops(r) /\ Becomes(r, To("done", TRUE)) /\ pins' = pins
         \/ (job[r].cancelled \/ job[r].failed) /\ Becomes(r, To("done", TRUE)) /\ Release(r, {i})
         \/ Becomes(r, To("send", TRUE)) /\ pins' = pins
         \/ Becomes(r, To("send", FALSE)) /\ Release(r, {i})
  BY DEF WorkerClaim
<1>5. Drops(r) /\ (pins' = pins \/ <<r, i>> \notin pins')
  <2>1. CASE pins' = pins
    BY <2>1 DEF Drops
  <2>2. CASE Release(r, {i})
    BY <2>2, ReleaseFact
  <2> QED
    BY <1>4, <2>1, <2>2
<1>6. ASSUME NEW at \in {"idle", "send", "done"}, NEW ok \in BOOLEAN, Becomes(r, To(at, ok)),
             at = "done" => job[r].cancelled \/ job[r].error # "none" \/ i \notin Ops(r),
             <<r, i>> \notin pins' \/ (at = "send" /\ ok = TRUE)
      PROVE  Inv'
  <2> DEFINE s == [at |-> at, op |-> i, ok |-> ok]
  <2>1. s \in WorkerStates /\ s.at = at
    BY <1>3 DEF WorkerStates
  <2>2. Moves(r, [job[r] EXCEPT !.next = job[r].next + 1, !.worker[w] = s], holds[r])
    BY <1>0, <1>4, <1>5, <1>6 DEF Moves, Drops
  <2>3. <<r, job[r].next>> \notin pins' \/ s = [at |-> "send", op |-> job[r].next, ok |-> TRUE]
    BY <1>6
  <2>4. s.at # "done" \/ job[r].cancelled \/ job[r].error # "none" \/ job[r].next \notin Ops(r)
    BY <1>6, <2>1
  <2> HIDE DEF s
  <2> QED
    BY <1>2, <1>5, <2>1, <2>2, <2>3, <2>4, ClaimKeeps
<1>7. CASE i \notin Ops(r) /\ Becomes(r, To("done", TRUE)) /\ pins' = pins
  BY <1>3, <1>6, <1>7
<1>8. CASE (job[r].cancelled \/ job[r].failed) /\ Becomes(r, To("done", TRUE)) /\ Release(r, {i})
  <2>1. <<r, i>> \notin pins'
    BY <1>8, ReleaseFact
  <2> QED
    BY <1>3, <1>6, <1>8, <2>1
<1>9. CASE Becomes(r, To("send", TRUE)) /\ pins' = pins
  BY <1>6, <1>9
<1>10. CASE Becomes(r, To("send", FALSE)) /\ Release(r, {i})
  <2>1. <<r, i>> \notin pins'
    BY <1>10, ReleaseFact
  <2> QED
    BY <1>6, <1>10, <2>1
<1> QED
  BY <1>4, <1>7, <1>8, <1>9, <1>10

(* A worker sends its result and goes on, or stops after an error. *)
LEMMA WorkerSendKeeps ==
  ASSUME Inv, NEW r \in Restores, NEW w \in Workers, WorkerSend(r, w)
  PROVE  Inv'
<1>0. CallInv(r) /\ holds[r] \in Holds /\ holds \in [Restores -> Holds]
  BY DEF Inv, Maps
<1>1. PICK C, P : job[r] \in Job(C, P)
  BY DEF Inv, Maps
<1> DEFINE it == job[r].worker[w]
           x == [op |-> it.op, ok |-> it.ok]
           channel == Append(job[r].channel, x)
           s == [it EXCEPT !.at = IF it.ok THEN "idle" ELSE "done"]
           worker == [job[r].worker EXCEPT ![w] = s]
           k == [job[r] EXCEPT !.channel = channel, !.worker = worker]
<1>a. /\ it \in WorkerStates /\ job[r].channel \in Seq(Results)
      /\ job[r].worker \in [Workers -> WorkerStates]
  BY <1>1 DEF Job
<1>b. job[r].pc = "decoding" /\ it.at = "send" /\ pins' = pins /\ Moves(r, k, holds[r])
  BY <1>0 DEF WorkerSend, Moves
<1>c. x \in Results /\ s \in WorkerStates
  BY <1>a DEF Results, WorkerStates
<1>d. /\ channel \in Seq(Results) /\ Len(channel) = Len(job[r].channel) + 1
      /\ \A m \in 1 .. Len(job[r].channel) : channel[m] = job[r].channel[m]
      /\ channel[Len(job[r].channel) + 1] = x
  BY <1>a, <1>c, AppendProperties
<1>e. /\ worker \in [Workers -> WorkerStates] /\ worker[w] = s
      /\ \A v \in Workers : v # w => worker[v] = job[r].worker[v]
  BY <1>a, <1>c
<1>f. Len(job[r].channel) \in Nat
  BY <1>a, LenProperties
<1>g. s.at = "done" => ~x.ok
  BY <1>a DEF WorkerStates
<1>h. Mode[r] = "parallel"
  <2>1. it # [at |-> "idle", op |-> 0, ok |-> TRUE]
    BY <1>b
  <2> HIDE DEF it
  <2> QED
    BY <1>0, <2>1 DEF CallInv, CallWrites, NoWorkers, it
<1> HIDE DEF channel, s, worker, it
<1>2. /\ job[r].pc = "decoding" /\ pins' = pins /\ Mode[r] = "parallel"
      /\ Moves(r, k, holds[r])
  BY <1>b, <1>h
<1>3. k \in Job(C, P)
  BY <1>1, <1>d, <1>e DEF Job
<1>4. /\ k.channel = channel /\ k.worker = worker /\ k.pc = job[r].pc
      /\ k.next = job[r].next /\ k.failed = job[r].failed /\ k.error = job[r].error
      /\ KeepsPlan(job[r], k) /\ KeepsEnd(job[r], k) /\ KeepsData(job[r], k)
  BY <1>1, <1>d, <1>e DEF Job, Pcs, Keeps, KeepsPlan, KeepsData, KeepsWork, KeepsEnd
<1> HIDE DEF k
<1>5. job'[r] = k /\ holds'[r] = holds[r] /\ (CallInv(r)' => Inv')
  BY <1>0, <1>2, <1>3, MovesOne DEF k
<1>6. CallShape(r)'
  BY <1>0, <1>2, <1>4, <1>5 DEF CallInv, CallShape, Ops, Keeps, KeepsPlan
<1>7. CallWrites(r)'
  BY <1>0, <1>2, <1>4, <1>5 DEF CallInv, CallWrites, Ops, Keeps, KeepsPlan, KeepsData, KeepsWork,
         Starting, Holding
<1>8. CallSink(r)'
  BY <1>0, <1>2, <1>4, <1>5 DEF CallInv, CallSink, Keeps, KeepsEnd, Starting
<1>9. CallPins(r)'
  <2>1. ASSUME NEW m, Underway(r, m) PROVE Underway(r, m)'
    <3>1. CASE it = [at |-> "send", op |-> m, ok |-> TRUE]
      <4>1. x = [op |-> m, ok |-> TRUE]
        BY <3>1
      <4>2. channel[Len(job[r].channel) + 1] = [op |-> m, ok |-> TRUE]
        BY <1>d, <4>1
      <4> HIDE DEF x
      <4> QED
        BY <1>d, <1>f, <1>4, <1>5, <4>2 DEF Underway
    <3>2. ASSUME NEW v \in Workers, v # w, job[r].worker[v] = [at |-> "send", op |-> m, ok |-> TRUE]
          PROVE  Underway(r, m)'
      BY <1>e, <1>4, <1>5, <3>2 DEF Underway
    <3>3. ASSUME NEW l \in 1 .. Len(job[r].channel), job[r].channel[l] = [op |-> m, ok |-> TRUE]
          PROVE  Underway(r, m)'
      BY <1>d, <1>f, <1>4, <1>5, <3>3 DEF Underway
    <3> QED
      BY <2>1, <3>1, <3>2, <3>3 DEF Underway, it
  <2>2. ASSUME Stopped(r) PROVE Stopped(r)'
    <3>1. Ops(r)' = Ops(r)
      BY <1>4, <1>5 DEF Ops, KeepsPlan
    <3>2. /\ job'[r].cancelled = job[r].cancelled /\ job'[r].error = job[r].error
          /\ job'[r].channel = channel /\ job'[r].next = job[r].next
      BY <1>4, <1>5 DEF KeepsPlan
    <3>3. ASSUME NEW l \in 1 .. Len(job[r].channel), ~job[r].channel[l].ok
          PROVE  Stopped(r)'
      <4>1. l \in 1 .. Len(channel) /\ ~channel[l].ok
        BY <1>d, <1>f, <3>3
      <4> QED
        BY <3>2, <4>1 DEF Stopped
    <3> QED
      BY <2>2, <3>1, <3>2, <3>3 DEF Stopped
  <2>3. ASSUME NEW v \in Workers, worker[v].at = "done" PROVE Stopped(r)'
    <3>1. CASE v # w
      BY <1>0, <1>2, <1>e, <2>2, <2>3, <3>1 DEF CallInv, CallPins
    <3>2. CASE v = w
      <4>1. ~channel[Len(job[r].channel) + 1].ok
        BY <1>d, <1>e, <1>g, <2>3, <3>2
      <4> HIDE DEF x
      <4> QED
        BY <1>d, <1>f, <1>4, <1>5, <4>1 DEF Stopped
    <3> QED
      BY <3>1, <3>2
  <2> QED
    BY <1>0, <1>2, <1>4, <1>5, <2>1, <2>3 DEF CallInv, CallPins, Starting, KeepsData
<1>10. CallCharge(r)'
  BY <1>0, <1>2, <1>4, <1>5 DEF CallInv, CallCharge, Keeps, KeepsPlan
<1> QED
  BY <1>5, <1>6, <1>7, <1>8, <1>9, <1>10 DEF CallInv

(* The calling thread takes the first result of the channel: it keeps the pin of one that
   decoded, writes it unless an error is known, and knows of an error that was sent. *)
LEMMA TakenKeeps ==
  ASSUME Inv, NEW r \in Restores, NEW k, NEW it,
         job[r].pc = "decoding", job[r].channel # <<>>, it = Head(job[r].channel), pins' = pins,
         Moves(r, k, holds[r]), \E D, Q : k \in Job(D, Q),
         KeepsPlan(job[r], k), KeepsEnd(job[r], k), k.pc = job[r].pc, k.next = job[r].next,
         k.worker = job[r].worker, k.channel = Tail(job[r].channel),
         k.got = IF it.ok THEN job[r].got \cup {it.op} ELSE job[r].got,
         k.error = "none" => it.ok /\ job[r].error = "none" /\ k.written = job[r].written \cup {it.op},
         k.failed => k.error # "none"
  PROVE  Inv'
<1>0. CallInv(r) /\ holds[r] \in Holds /\ holds \in [Restores -> Holds]
  BY DEF Inv, Maps
<1>1. PICK C, P : job[r] \in Job(C, P)
  BY DEF Inv, Maps
<1> DEFINE channel == Tail(job[r].channel)
<1>a. /\ it \in Results /\ Len(channel) \in Nat /\ Len(job[r].channel) = Len(channel) + 1
      /\ \A m \in 1 .. Len(channel) : channel[m] = job[r].channel[m + 1]
      /\ it = job[r].channel[1]
  <2>1. job[r].channel \in Seq(Results)
    BY <1>1 DEF Job
  <2>2. channel \in Seq(Results) /\ Len(channel) = Len(job[r].channel) - 1 /\ it \in Results
    BY <2>1, HeadTailProperties
  <2>3. Len(channel) \in Nat /\ Len(job[r].channel) \in Nat
    BY <2>1, <2>2, LenProperties
  <2> QED
    BY <2>1, <2>2, <2>3, HeadTailProperties
<1> HIDE DEF channel
<1>b. Mode[r] = "parallel"
  BY <1>0 DEF CallInv, CallWrites
<1>2. /\ job[r].pc = "decoding" /\ pins' = pins /\ Mode[r] = "parallel"
  BY <1>b
<1>3. /\ k.channel = channel /\ k.worker = job[r].worker /\ k.pc = job[r].pc /\ k.next = job[r].next
      /\ KeepsPlan(job[r], k) /\ KeepsEnd(job[r], k)
      /\ k.got = IF it.ok THEN job[r].got \cup {it.op} ELSE job[r].got
      /\ k.error = "none" => it.ok /\ job[r].error = "none" /\ k.written = job[r].written \cup {it.op}
      /\ k.failed => k.error # "none"
  BY DEF channel
<1>4. job'[r] = k /\ holds'[r] = holds[r] /\ (CallInv(r)' => Inv')
  BY <1>0, MovesOne
<1>5. CallShape(r)'
  BY <1>0, <1>2, <1>3, <1>4 DEF CallInv, CallShape, Ops, Keeps, KeepsPlan
<1>6. CallWrites(r)'
  BY <1>0, <1>2, <1>3, <1>4 DEF CallInv, CallWrites, Ops, Keeps, KeepsPlan, KeepsData, KeepsWork,
         Starting, Holding
<1>7. CallSink(r)'
  BY <1>0, <1>2, <1>3, <1>4 DEF CallInv, CallSink, Keeps, KeepsEnd, Starting
<1>8. CallPins(r)'
  <2>1. ASSUME NEW m, <<r, m>> \in pins PROVE m \in k.got \/ m >= k.next \/ Underway(r, m)'
    <3>1. CASE m \in job[r].got \/ m >= job[r].next
      BY <1>3, <3>1
    <3>2. ASSUME NEW v \in Workers, job[r].worker[v] = [at |-> "send", op |-> m, ok |-> TRUE]
          PROVE  Underway(r, m)'
      BY <1>3, <1>4, <3>2 DEF Underway
    <3>3. ASSUME NEW l \in 1 .. Len(job[r].channel), job[r].channel[l] = [op |-> m, ok |-> TRUE]
          PROVE  m \in k.got \/ Underway(r, m)'
      <4>1. CASE l = 1
        <5>1. it.ok /\ it.op = m
          BY <1>a, <3>3, <4>1
        <5> QED
          BY <1>3, <5>1
      <4>2. CASE l # 1
        <5>1. l - 1 \in 1 .. Len(channel) /\ channel[l - 1] = [op |-> m, ok |-> TRUE]
          BY <1>a, <3>3, <4>2
        <5> QED
          BY <1>3, <1>4, <5>1 DEF Underway
      <4> QED
        BY <4>1, <4>2
    <3> QED
      BY <1>0, <1>2, <2>1, <3>1, <3>2, <3>3 DEF CallInv, CallPins, Underway
  <2>2. ASSUME Stopped(r) PROVE Stopped(r)'
    <3>1. Ops(r)' = Ops(r)
      BY <1>3, <1>4 DEF Ops, KeepsPlan
    <3>2. /\ job'[r].cancelled = job[r].cancelled /\ job'[r].error = k.error
          /\ job'[r].channel = channel /\ job'[r].next = job[r].next
      BY <1>3, <1>4 DEF KeepsPlan
    <3>3. ASSUME NEW l \in 1 .. Len(job[r].channel), ~job[r].channel[l].ok
          PROVE  Stopped(r)'
      <4>1. CASE l = 1
        BY <1>3, <1>a, <3>2, <3>3, <4>1 DEF Stopped
      <4>2. CASE l # 1
        <5>1. l - 1 \in 1 .. Len(channel) /\ ~channel[l - 1].ok
          BY <1>a, <3>3, <4>2
        <5> QED
          BY <3>2, <5>1 DEF Stopped
      <4> QED
        BY <4>1, <4>2
    <3>4. job[r].error # "none" => Stopped(r)'
      BY <1>3, <3>2 DEF Stopped
    <3> QED
      BY <2>2, <3>1, <3>2, <3>3, <3>4 DEF Stopped
  <2> QED
    BY <1>0, <1>2, <1>3, <1>4, <2>1, <2>2 DEF CallInv, CallPins, Starting
<1>9. CallCharge(r)'
  BY <1>0, <1>2, <1>3, <1>4 DEF CallInv, CallCharge, Keeps, KeepsPlan
<1> QED
  BY <1>4, <1>5, <1>6, <1>7, <1>8, <1>9 DEF CallInv

(* The results of the workers, one by one. *)
LEMMA ReceiveKeeps ==
  ASSUME Inv, NEW r \in Restores, Receive(r)
  PROVE  Inv'
<1>0. CallInv(r) /\ holds[r] \in Holds /\ holds \in [Restores -> Holds]
  BY DEF Inv, Maps
<1>1. PICK C, P : job[r] \in Job(C, P)
  BY DEF Inv, Maps
<1> DEFINE it == Head(job[r].channel)
           channel == Tail(job[r].channel)
           got == job[r].got \cup {it.op}
           written == job[r].written \cup {it.op}
           taken == [job[r] EXCEPT !.channel = channel]
           Erred(e) == [taken EXCEPT !.failed = TRUE, !.got = IF it.ok THEN @ \cup {it.op} ELSE @,
                                     !.error = IF @ = "none" THEN e ELSE @]
           wrote == [taken EXCEPT !.got = @ \cup {it.op}, !.written = @ \cup {it.op}]
<1>2. /\ job[r].pc = "decoding" /\ job[r].channel # <<>> /\ pins' = pins /\ holds' = holds
      /\ \/ \E e \in {"decode", "cancelled", "write"} : Becomes(r, Erred(e))
         \/ it.ok /\ job[r].error = "none" /\ Becomes(r, wrote)
  BY DEF Receive
<1>3. /\ it \in Results /\ channel \in Seq(Results)
      /\ got \in SUBSET Nat /\ written \in SUBSET Nat
  <2>1. job[r].channel \in Seq(Results) /\ job[r].got \in SUBSET Nat /\ job[r].written \in SUBSET Nat
    BY <1>1 DEF Job
  <2>2. it \in Results /\ channel \in Seq(Results)
    BY <1>2, <2>1, HeadTailProperties
  <2> QED
    BY <2>1, <2>2 DEF Results
<1> HIDE DEF it, channel
<1>4. /\ taken \in Job(C, P) /\ taken.channel = channel /\ taken.pc = job[r].pc
      /\ KeepsPlan(job[r], taken) /\ KeepsEnd(job[r], taken) /\ KeepsData(job[r], taken)
      /\ taken.next = job[r].next /\ taken.worker = job[r].worker
      /\ taken.failed = job[r].failed /\ taken.error = job[r].error
  BY <1>1, <1>3 DEF Job, KeepsPlan, KeepsEnd, KeepsData
<1>5. job[r].failed => job[r].error # "none"
  BY <1>0 DEF CallInv, CallWrites
<1> HIDE DEF taken
<1>6. ASSUME NEW e \in {"decode", "cancelled", "write"}, Becomes(r, Erred(e)) PROVE Inv'
  <2> DEFINE kept == IF it.ok THEN taken.got \cup {it.op} ELSE taken.got
             error == IF taken.error = "none" THEN e ELSE taken.error
             k == [taken EXCEPT !.failed = TRUE, !.got = kept, !.error = error]
  <2>1. kept \in SUBSET Nat /\ error \in Errors /\ error # "none"
    BY <1>3, <1>4, <1>6 DEF Job, Errors, KeepsData
  <2>2. Moves(r, k, holds[r])
    BY <1>0, <1>2, <1>6 DEF Moves
  <2>3. kept = IF it.ok THEN job[r].got \cup {it.op} ELSE job[r].got
    BY <1>4 DEF KeepsData
  <2> HIDE DEF kept, error
  <2>4. k \in Job(C, P)
    BY <1>4, <2>1 DEF Job
  <2>5. /\ k.failed = TRUE /\ k.got = kept /\ k.error = error /\ k.channel = channel
        /\ k.pc = job[r].pc /\ k.next = job[r].next /\ k.worker = job[r].worker
        /\ KeepsPlan(job[r], k) /\ KeepsEnd(job[r], k)
    BY <1>4 DEF Job, KeepsPlan, KeepsEnd
  <2> HIDE DEF k
  <2> QED
    BY <1>2, <2>1, <2>2, <2>3, <2>4, <2>5, TakenKeeps DEF it, channel
<1>7. ASSUME it.ok, job[r].error = "none", Becomes(r, wrote) PROVE Inv'
  <2> DEFINE k == [taken EXCEPT !.got = got, !.written = written]
  <2>1. Moves(r, k, holds[r])
    <3>1. k = wrote
      BY <1>4 DEF KeepsData
    <3> QED
      BY <1>0, <1>2, <1>7, <3>1 DEF Moves
  <2>2. got = IF it.ok THEN job[r].got \cup {it.op} ELSE job[r].got
    BY <1>7
  <2>3. written = job[r].written \cup {it.op}
    OBVIOUS
  <2> HIDE DEF got, written
  <2>4. k \in Job(C, P)
    BY <1>3, <1>4 DEF Job
  <2>5. /\ k.failed = job[r].failed /\ k.got = got /\ k.written = written /\ k.error = job[r].error
        /\ k.channel = channel /\ k.pc = job[r].pc /\ k.next = job[r].next
        /\ k.worker = job[r].worker /\ KeepsPlan(job[r], k) /\ KeepsEnd(job[r], k)
    BY <1>4 DEF Job, KeepsPlan, KeepsEnd
  <2> HIDE DEF k
  <2> QED
    BY <1>2, <1>5, <1>7, <2>1, <2>2, <2>3, <2>4, <2>5, TakenKeeps DEF it, channel
<1> QED
  BY <1>2, <1>6, <1>7

(* All senders are gone: with an error the pins known to the call are released, without one
   every operation has been collected. *)
LEMMA JoinKeeps ==
  ASSUME Inv, NEW r \in Restores, Join(r)
  PROVE  Inv'
<1>0. CallInv(r) /\ holds[r] \in Holds /\ holds \in [Restores -> Holds]
  BY DEF Inv, Maps
<1>1. PICK C, P : job[r] \in Job(C, P)
  BY DEF Inv, Maps
<1> DEFINE k == [job[r] EXCEPT !.pc = "decoded", !.next = 1, !.worker = NoWorkers]
<1>a. /\ job[r].pc = "decoding" /\ Mode[r] = "parallel" /\ job[r].channel = <<>>
      /\ \A w \in Workers : job[r].worker[w].at = "done"
  BY DEF Join
<1>b. \A i : ~Underway(r, i)
  <2>1. ASSUME NEW i, NEW w \in Workers, job[r].worker[w] = [at |-> "send", op |-> i, ok |-> TRUE]
        PROVE  FALSE
    <3>1. job[r].worker[w].at = "send"
      BY <2>1
    <3> QED
      BY <1>a, <3>1
  <2>2. 1 .. Len(job[r].channel) = {}
    BY <1>a, EmptySeq
  <2> QED
    BY <2>1, <2>2, Zenon DEF Underway
<1>c. \A i : <<r, i>> \in pins => i \in Ops(r) /\ (i \in job[r].got \/ i >= job[r].next)
  BY <1>0, <1>a, <1>b, OpsNumbered DEF CallInv, CallPins
<1>d. CASE job[r].error # "none"
  <2> DEFINE rest == job[r].got \cup {i \in Ops(r) : i >= job[r].next}
  <2>1. Unwind(r) /\ Release(r, rest)
    BY <1>d DEF Join
  <2>2. Drops(r) /\ \A i : <<r, i>> \in pins' <=> <<r, i>> \in pins /\ i \notin rest
    BY <2>1, ReleaseFact
  <2> QED
    BY <1>c, <2>1, <2>2, UnwindKeeps
<1>e. CASE job[r].error = "none"
  <2>1. pins' = pins /\ Moves(r, k, holds[r])
    BY <1>0, <1>e DEF Join, Moves
  <2>2. job[r].cancelled \/ \A i \in Ops(r) : i < job[r].next
    <3>1. PICK w \in Workers : TRUE
      BY RestoreAssumption, FS_EmptySet
    <3>2. Stopped(r)
      BY <1>0, <1>a DEF CallInv, CallPins
    <3> QED
      BY <1>a, <1>e, <3>2 DEF Stopped
  <2>3. ~Forgets(r) => \A i : <<r, i>> \in pins => i \in job[r].got
    <3>1. Ops(r) \subseteq Nat /\ job[r].next \in Nat
      BY <1>0, <1>1, OpsNumbered DEF CallInv, Job
    <3> QED
      BY <1>a, <1>c, <2>2, <3>1 DEF Forgets
  <2>4. 1 \in Nat \ {0} /\ NoWorkers \in [Workers -> WorkerStates]
    BY DEF NoWorkers, WorkerStates
  <2>5. k \in Job(C, P)
    BY <1>1, <2>4 DEF Job, Pcs
  <2>6. /\ KeepsPlan(job[r], k) /\ KeepsEnd(job[r], k) /\ KeepsData(job[r], k)
        /\ k.pc = "decoded" /\ k.failed = job[r].failed /\ k.error = job[r].error
        /\ k.channel = job[r].channel
    BY <1>1 DEF Job, KeepsPlan, KeepsEnd, KeepsData
  <2> HIDE DEF k
  <2>7. job'[r] = k /\ holds'[r] = holds[r] /\ (CallInv(r)' => Inv')
    BY <1>0, <2>1, <2>5, MovesOne
  <2>8. CallShape(r)'
    BY <1>0, <1>a, <1>e, <2>1, <2>6, <2>7 DEF CallInv, CallShape, Ops, Keeps, KeepsPlan
  <2>9. CallWrites(r)'
    BY <1>0, <1>a, <1>e, <2>1, <2>6, <2>7
       DEF CallInv, CallWrites, Ops, Keeps, KeepsPlan, KeepsData, KeepsWork,
           Starting, Holding
  <2>10. CallSink(r)'
    BY <1>0, <1>a, <1>e, <2>1, <2>6, <2>7 DEF CallInv, CallSink, Keeps, KeepsEnd, Starting
  <2>11. CallPins(r)'
    BY <1>0, <1>a, <1>e, <2>1, <2>6, <2>7, <2>3
       DEF CallInv, CallPins, Forgets, Underway, Stopped, Ops, Keeps, KeepsPlan,
           KeepsData, KeepsWork, Starting
  <2>12. CallCharge(r)'
    BY <1>0, <1>a, <1>e, <2>1, <2>6, <2>7 DEF CallInv, CallCharge, Keeps, KeepsPlan
  <2> QED
    BY <2>7, <2>8, <2>9, <2>10, <2>11, <2>12 DEF CallInv
<1> QED
  BY <1>d, <1>e

(* The collected pins are released with an error, or attached to the hold. *)
LEMMA SettleKeeps ==
  ASSUME Inv, NEW r \in Restores, Settle(r)
  PROVE  Inv'
<1>0. CallInv(r) /\ holds[r] \in Holds /\ holds \in [Restores -> Holds]
  BY DEF Inv, Maps
<1>1. PICK C, P : job[r] \in Job(C, P)
  BY DEF Inv, Maps
<1> DEFINE h == [holds[r] EXCEPT !.pins = job[r].got]
           k == [job[r] EXCEPT !.pc = "attached", !.got = {}]
<1>2. job[r].pc = "decoded"
  BY DEF Settle
<1>3. CASE job[r].got # Ops(r) \/ job[r].cancelled
  <2>1. Unwind(r) /\ Release(r, job[r].got)
    BY <1>3 DEF Settle
  <2>2. Drops(r) /\ \A i : <<r, i>> \in pins' <=> <<r, i>> \in pins /\ i \notin job[r].got
    BY <2>1, ReleaseFact
  <2>3. Forgets(r) \/ \A i : <<r, i>> \notin pins'
    BY <1>0, <1>2, <2>2 DEF CallInv, CallPins
  <2> QED
    BY <2>1, <2>2, <2>3, UnwindKeeps
<1>4. CASE job[r].got = Ops(r) /\ ~job[r].cancelled
  <2>1. pins' = pins /\ Moves(r, k, h)
    BY <1>4 DEF Settle, AttachPins, Moves
  <2>2. job[r].got \in SUBSET Nat
    BY <1>1 DEF Job
  <2>3. /\ h \in Holds /\ h.pins = Ops(r) /\ h.charge = holds[r].charge
        /\ h.reserved = holds[r].reserved
    BY <1>0, <1>4, <2>2 DEF Holds
  <2>4. k \in Job(C, P)
    BY <1>1 DEF Job, Pcs
  <2>5. /\ KeepsPlan(job[r], k) /\ KeepsEnd(job[r], k) /\ KeepsWork(job[r], k)
        /\ k.pc = "attached" /\ k.written = job[r].written
    BY <1>1 DEF Job, KeepsPlan, KeepsEnd, KeepsWork
  <2> HIDE DEF k, h
  <2>6. job'[r] = k /\ holds'[r] = h /\ (CallInv(r)' => Inv')
    BY <2>1, <2>3, <2>4, MovesOne
  <2>7. CallShape(r)'
    BY <1>0, <1>2, <1>4, <2>1, <2>5, <2>6 DEF CallInv, CallShape, Ops, Keeps, KeepsPlan
  <2>8. CallWrites(r)'
    BY <1>0, <1>2, <1>4, <2>1, <2>5, <2>6, <2>3
       DEF CallInv, CallWrites, Ops, Keeps, KeepsPlan, KeepsData, KeepsWork,
           Starting, Holding
  <2>9. CallSink(r)'
    BY <1>0, <1>2, <1>4, <2>1, <2>5, <2>6 DEF CallInv, CallSink, Keeps, KeepsEnd, Starting
  <2>10. CallPins(r)'
    BY <1>0, <1>2, <1>4, <2>1, <2>5, <2>6
       DEF CallInv, CallPins, Forgets, Underway, Stopped, Ops, Keeps, KeepsPlan,
           KeepsData, KeepsWork, Starting
  <2>11. CallCharge(r)'
    BY <1>0, <1>2, <1>4, <2>1, <2>5, <2>6, <2>3 DEF CallInv, CallCharge, Keeps, KeepsPlan
  <2> QED
    BY <2>6, <2>7, <2>8, <2>9, <2>10, <2>11 DEF CallInv
<1> QED
  BY <1>3, <1>4

(* A step of a call whose hold keeps the pins: it changes where the call is, its sink and its
   outcome. *)
LEMMA LaterKeeps ==
  ASSUME Inv, NEW r \in Restores, pins' = pins, job[r].pc \in Holding,
         NEW pc \in Holding, NEW sink \in Sinks, NEW outcome \in Outcomes,
         pc = "installed" => sink = "committed",
         Moves(r, [job[r] EXCEPT !.pc = pc, !.sink = sink, !.outcome = outcome], holds[r])
  PROVE  Inv'
<1>0. CallInv(r) /\ holds[r] \in Holds /\ holds \in [Restores -> Holds]
  BY DEF Inv, Maps
<1>1. PICK C, P : job[r] \in Job(C, P)
  BY DEF Inv, Maps
<1> DEFINE k == [job[r] EXCEPT !.pc = pc, !.sink = sink, !.outcome = outcome]
<1>2. /\ pins' = pins /\ job[r].pc \in Holding /\ Moves(r, k, holds[r]) /\ pc \in Holding
      /\ (pc = "installed" => sink = "committed")
  OBVIOUS
<1>3. k \in Job(C, P)
  BY <1>1 DEF Job, Pcs, Holding
<1>4. /\ KeepsPlan(job[r], k) /\ KeepsData(job[r], k) /\ KeepsWork(job[r], k)
      /\ k.pc = pc /\ k.sink = sink
  BY <1>1 DEF Job, Pcs, Keeps, KeepsPlan, KeepsData, KeepsWork, KeepsEnd
<1> HIDE DEF k
<1>5. job'[r] = k /\ holds'[r] = holds[r] /\ (CallInv(r)' => Inv')
  BY <1>0, <1>2, <1>3, MovesOne DEF k
<1>6. CallShape(r)'
  BY <1>0, <1>2, <1>4, <1>5 DEF CallInv, CallShape, Ops, Keeps, KeepsPlan
<1>7. CallWrites(r)'
  BY <1>0, <1>2, <1>4, <1>5 DEF CallInv, CallWrites, Ops, Keeps, KeepsPlan, KeepsData, KeepsWork,
         Starting, Holding
<1>8. CallSink(r)'
  BY <1>0, <1>2, <1>4, <1>5 DEF CallInv, CallSink, Keeps, KeepsEnd, Starting, Holding
<1>9. CallPins(r)'
  BY <1>0, <1>2, <1>4, <1>5
     DEF CallInv, CallPins, Forgets, Underway, Stopped, Ops, Keeps, KeepsPlan,
         KeepsData, KeepsWork, Starting, Holding
<1>10. CallCharge(r)'
  BY <1>0, <1>2, <1>4, <1>5 DEF CallInv, CallCharge, Keeps, KeepsPlan, Holding
<1> QED
  BY <1>5, <1>6, <1>7, <1>8, <1>9, <1>10 DEF CallInv

(* The sink commits, or is reset. *)
LEMMA CommitKeeps ==
  ASSUME Inv, NEW r \in Restores, Commit(r)
  PROVE  Inv'
<1>0. CallInv(r) /\ holds[r] \in Holds /\ holds \in [Restores -> Holds]
  BY DEF Inv, Maps
<1>1. PICK C, P : job[r] \in Job(C, P)
  BY DEF Inv, Maps
<1> DEFINE pc == IF Engine(r) THEN "installed" ELSE IF Prestaged(r) THEN "staged" ELSE "lost"
           sink == IF Engine(r) THEN "committed" ELSE job[r].sink
<1>2. job[r].pc \in Holding /\ pins' = pins
  BY DEF Commit, Holding
<1>3. \/ TakeHold(r, "error", "reset")
      \/ Moves(r, [job[r] EXCEPT !.pc = pc, !.sink = sink, !.outcome = "ok"], holds[r])
  BY <1>0 DEF Commit, Moves
<1>4. /\ pc \in Holding /\ sink \in Sinks /\ (pc = "installed" => sink = "committed")
      /\ "ok" \in Outcomes /\ "error" \in Outcomes /\ "reset" \in Sinks
  BY <1>1 DEF Holding, Sinks, Outcomes, Job
<1> HIDE DEF pc, sink
<1>5. CASE TakeHold(r, "error", "reset")
  BY <1>2, <1>4, <1>5, TakeHoldKeeps
<1>6. CASE Moves(r, [job[r] EXCEPT !.pc = pc, !.sink = sink, !.outcome = "ok"], holds[r])
  BY <1>2, <1>4, <1>6, LaterKeeps
<1> QED
  BY <1>3, <1>5, <1>6

(* The pins of a hold that was taken out are released. *)
LEMMA ReleaseHeldKeeps ==
  ASSUME Inv, NEW r \in Restores, ReleaseHeld(r)
  PROVE  Inv'
<1>0. CallInv(r) /\ holds[r] \in Holds /\ holds \in [Restores -> Holds]
  BY DEF Inv, Maps
<1>1. PICK C, P : job[r] \in Job(C, P)
  BY DEF Inv, Maps
<1> DEFINE pc == IF job[r].outcome = "ok" THEN "freed" ELSE "ended"
           k == [job[r] EXCEPT !.pc = pc, !.got = {}]
<1>a. job[r].pc = "freeing" /\ Release(r, job[r].got) /\ holds' = holds /\ Becomes(r, k)
  BY DEF ReleaseHeld
<1>b. Drops(r) /\ \A i : <<r, i>> \notin pins'
  BY <1>0, <1>a, ReleaseFact, OpsNumbered DEF CallInv, CallWrites
<1>c. pc \in {"freed", "ended"} /\ (pc = "ended" => job[r].outcome # "ok")
  OBVIOUS
<1> HIDE DEF pc
<1>2. /\ job[r].pc = "freeing" /\ Drops(r) /\ (\A i : <<r, i>> \notin pins') /\ Moves(r, k, holds[r])
      /\ pc \in {"freed", "ended"} /\ (pc = "ended" => job[r].outcome # "ok")
  BY <1>0, <1>a, <1>b, <1>c DEF Moves, Drops
<1>3. k \in Job(C, P)
  BY <1>1, <1>c DEF Job, Pcs
<1>4. /\ KeepsPlan(job[r], k) /\ KeepsEnd(job[r], k) /\ KeepsWork(job[r], k)
      /\ k.pc = pc /\ k.written = job[r].written
  BY <1>1, <1>c DEF Job, Pcs, Keeps, KeepsPlan, KeepsData, KeepsWork, KeepsEnd
<1> HIDE DEF k
<1>5. job'[r] = k /\ holds'[r] = holds[r] /\ (CallInv(r)' => Inv')
  BY <1>0, <1>2, <1>3, MovesOne DEF k
<1>6. CallShape(r)'
  BY <1>0, <1>2, <1>4, <1>5 DEF CallInv, CallShape, Ops, Keeps, KeepsPlan, Drops
<1>7. CallWrites(r)'
  BY <1>0, <1>2, <1>4, <1>5 DEF CallInv, CallWrites, Ops, Keeps, KeepsPlan, KeepsData, KeepsWork,
         Starting, Holding
<1>8. CallSink(r)'
  BY <1>0, <1>2, <1>4, <1>5 DEF CallInv, CallSink, Keeps, KeepsEnd, Starting
<1>9. CallPins(r)'
  BY <1>0, <1>2, <1>4, <1>5
     DEF CallInv, CallPins, Forgets, Underway, Stopped, Ops, Keeps, KeepsPlan,
         KeepsData, KeepsWork, Starting
<1>10. CallCharge(r)'
  BY <1>0, <1>2, <1>4, <1>5 DEF CallInv, CallCharge, Keeps, KeepsPlan
<1> QED
  BY <1>5, <1>6, <1>7, <1>8, <1>9, <1>10 DEF CallInv

(* The engine gives the restored blocks back. *)
LEMMA EngineFreeKeeps ==
  ASSUME Inv, NEW r \in Restores, EngineFree(r)
  PROVE  Inv'
<1>0. CallInv(r) /\ holds[r] \in Holds /\ holds \in [Restores -> Holds]
  BY DEF Inv, Maps
<1>1. PICK C, P : job[r] \in Job(C, P)
  BY DEF Inv, Maps
<1>2. job[r].pc \in Holding /\ pins' = pins /\ TakeHold(r, "ok", job[r].sink)
  BY DEF EngineFree, Holding
<1>3. "ok" \in Outcomes /\ job[r].sink \in Sinks
  BY <1>1 DEF Outcomes, Job
<1> QED
  BY <1>2, <1>3, TakeHoldKeeps

(* A handle is dropped and keeps everything. *)
LEMMA DropHandleKeeps ==
  ASSUME Inv, NEW r \in Restores, DropHandle(r)
  PROVE  Inv'
<1>0. CallInv(r) /\ holds[r] \in Holds /\ holds \in [Restores -> Holds]
  BY DEF Inv, Maps
<1>1. PICK C, P : job[r] \in Job(C, P)
  BY DEF Inv, Maps
<1> DEFINE k == [job[r] EXCEPT !.pc = "lost"]
<1>2. job[r].pc \in Holding /\ pins' = pins /\ Moves(r, k, holds[r])
  BY <1>0 DEF DropHandle, Holding, Moves
<1>3. k \in Job(C, P)
  BY <1>1 DEF Job, Pcs
<1>4. k.pc = "lost" /\ Keeps(job[r], k)
  BY <1>1 DEF Job, Pcs, Keeps, KeepsPlan, KeepsData, KeepsWork, KeepsEnd
<1> HIDE DEF k
<1>5. job'[r] = k /\ holds'[r] = holds[r] /\ (CallInv(r)' => Inv')
  BY <1>0, <1>2, <1>3, MovesOne DEF k
<1>6. CallShape(r)'
  BY <1>0, <1>2, <1>4, <1>5 DEF CallInv, CallShape, Ops, Keeps, KeepsPlan
<1>7. CallWrites(r)'
  BY <1>0, <1>2, <1>4, <1>5 DEF CallInv, CallWrites, Ops, Keeps, KeepsPlan, KeepsData, KeepsWork,
         Starting, Holding
<1>8. CallSink(r)'
  BY <1>0, <1>2, <1>4, <1>5 DEF CallInv, CallSink, Keeps, KeepsEnd, Starting
<1>9. CallPins(r)'
  BY <1>0, <1>2, <1>4, <1>5
     DEF CallInv, CallPins, Forgets, Underway, Stopped, Ops, Keeps, KeepsPlan,
         KeepsData, KeepsWork, Starting
<1>10. CallCharge(r)'
  BY <1>0, <1>2, <1>4, <1>5 DEF CallInv, CallCharge, Keeps, KeepsPlan, Holding
<1> QED
  BY <1>5, <1>6, <1>7, <1>8, <1>9, <1>10 DEF CallInv

(* A shadow is installed. *)
LEMMA PromoteKeeps ==
  ASSUME Inv, NEW r \in Restores, Promote(r)
  PROVE  Inv'
<1>0. CallInv(r) /\ holds[r] \in Holds /\ holds \in [Restores -> Holds]
  BY DEF Inv, Maps
<1>1. PICK C, P : job[r] \in Job(C, P)
  BY DEF Inv, Maps
<1> DEFINE k == [job[r] EXCEPT !.pc = "installed", !.sink = "committed"]
<1>2. job[r].pc \in Holding /\ pins' = pins /\ Moves(r, k, holds[r])
  BY <1>0 DEF Promote, Holding, Moves
<1>3. k \in Job(C, P)
  BY <1>1 DEF Job, Pcs, Sinks
<1>4. /\ k.pc = "installed" /\ k.sink = "committed" /\ KeepsPlan(job[r], k)
      /\ KeepsData(job[r], k) /\ KeepsWork(job[r], k)
  BY <1>1 DEF Job, Pcs, Keeps, KeepsPlan, KeepsData, KeepsWork, KeepsEnd
<1> HIDE DEF k
<1>5. job'[r] = k /\ holds'[r] = holds[r] /\ (CallInv(r)' => Inv')
  BY <1>0, <1>2, <1>3, MovesOne DEF k
<1>6. CallShape(r)'
  BY <1>0, <1>2, <1>4, <1>5 DEF CallInv, CallShape, Ops, Keeps, KeepsPlan
<1>7. CallWrites(r)'
  BY <1>0, <1>2, <1>4, <1>5 DEF CallInv, CallWrites, Ops, Keeps, KeepsPlan, KeepsData, KeepsWork,
         Starting, Holding
<1>8. CallSink(r)'
  BY <1>0, <1>2, <1>4, <1>5 DEF CallInv, CallSink, Keeps, KeepsEnd, Starting
<1>9. CallPins(r)'
  BY <1>0, <1>2, <1>4, <1>5
     DEF CallInv, CallPins, Forgets, Underway, Stopped, Ops, Keeps, KeepsPlan,
         KeepsData, KeepsWork, Starting
<1>10. CallCharge(r)'
  BY <1>0, <1>2, <1>4, <1>5 DEF CallInv, CallCharge, Keeps, KeepsPlan, Holding
<1> QED
  BY <1>5, <1>6, <1>7, <1>8, <1>9, <1>10 DEF CallInv

(* A promotion is refused, or a shadow aborted. *)
LEMMA PromoteRefusedKeeps ==
  ASSUME Inv, NEW r \in Restores, PromoteRefused(r) \/ AbortShadow(r)
  PROVE  Inv'
<1>0. CallInv(r) /\ holds[r] \in Holds /\ holds \in [Restores -> Holds]
  BY DEF Inv, Maps
<1>1. PICK C, P : job[r] \in Job(C, P)
  BY DEF Inv, Maps
<1>2. /\ job[r].pc \in Holding /\ pins' = pins
      /\ \E sink \in {"idle", "aborted", "reset"} : TakeHold(r, "error", sink)
  BY DEF PromoteRefused, AbortShadow, Holding
<1>3. "error" \in Outcomes /\ {"idle", "aborted", "reset"} \subseteq Sinks
  BY DEF Outcomes, Sinks
<1> QED
  BY <1>2, <1>3, TakeHoldKeeps

-----------------------------------------------------------------------------
(* The theorems about a call. *)

(* Nothing has been asked for yet. *)
LEMMA InitInv == Init => Inv
<1> SUFFICES ASSUME Init PROVE Inv
  OBVIOUS
<1>1. Maps
  <2>1. NewJob \in Job({RecomputeCandidate}, {NoPlan})
    BY EmptySeq DEF NewJob, Job, Pcs, NoWorkers, WorkerStates, Errors, Sinks, Outcomes
  <2>2. NoHold \in Holds
    BY DEF NoHold, NoCharge, Holds, Charges
  <2>3. job \in [Restores -> Job({RecomputeCandidate}, {NoPlan})] /\ holds \in [Restores -> Holds]
    <3> HIDE DEF NewJob, Job
    <3> QED
      BY <2>1, <2>2 DEF Init
  <2> QED
    BY <2>3 DEF Maps
<1>2. ASSUME NEW r \in Restores PROVE CallInv(r)
  <2>1. job[r] = NewJob /\ holds[r] = NoHold /\ pins = {}
    BY DEF Init
  <2>2. /\ NewJob.pc = "new" /\ NewJob.plan = NoPlan /\ NewJob.got = {} /\ NewJob.written = {}
        /\ NewJob.channel = <<>> /\ NewJob.next = 1 /\ NewJob.error = "none"
        /\ NewJob.worker = NoWorkers /\ NewJob.failed = FALSE /\ NewJob.sink = "idle"
    BY DEF NewJob
  <2>3. PlanShaped(NoPlan)
    <3>1. NoPlan.ops = <<>> /\ NoPlan.status = "none"
      BY DEF NoPlan
    <3>2. DOMAIN NoPlan.ops = 1 .. 0 /\ 0 \in Nat
      BY <3>1
    <3> QED
      BY <3>1, <3>2 DEF PlanShaped
  <2>4. CallShape(r)
    BY <2>1, <2>2, <2>3 DEF CallShape
  <2>5. CallWrites(r) /\ CallSink(r)
    BY <2>1, <2>2 DEF CallWrites, CallSink, Holding, Starting
  <2>6. CallPins(r)
    BY <2>1, <2>2 DEF CallPins
  <2>7. CallCharge(r)
    BY <2>1, <2>2 DEF CallCharge, NoHold
  <2> QED
    BY <2>4, <2>5, <2>6, <2>7 DEF CallInv
<1> QED
  BY <1>1, <1>2 DEF Inv

(* The maintenance of the store touches no call. *)
LEMMA QuietKeeps ==
  ASSUME Inv, pins' = pins, holds' = holds, job' = job
  PROVE  Inv'
<1>1. Maps'
  BY DEF Inv, Maps
<1>2. ASSUME NEW r \in Restores PROVE CallInv(r)'
  <2>1. CallInv(r)
    BY DEF Inv
  <2>2. CallShape(r)' /\ CallWrites(r)'
    BY <2>1 DEF CallInv, CallShape, CallWrites, Ops
  <2>3. CallSink(r)' /\ CallCharge(r)'
    BY <2>1 DEF CallInv, CallSink, CallCharge
  <2>4. CallPins(r)'
    BY <2>1 DEF CallInv, CallPins, Forgets, Underway, Stopped, Ops
  <2> QED
    BY <2>2, <2>3, <2>4 DEF CallInv
<1> QED
  BY <1>1, <1>2 DEF Inv

(* Every step keeps the invariant. *)
LEMMA NextInv == Inv /\ [Next]_vars => Inv'
<1> SUFFICES ASSUME Inv, [Next]_vars PROVE Inv'
  OBVIOUS
<1>1. ASSUME NEW r \in Restores, Step(r) PROVE Inv'
  BY <1>1, StartKeeps, SinkBeginKeeps, PinAllKeeps, SequentialChunkKeeps, SequentialDoneKeeps,
     WorkerClaimKeeps, WorkerSendKeeps, ReceiveKeeps, JoinKeeps, SettleKeeps, CommitKeeps,
     ReleaseHeldKeeps DEF Step
<1>2. ASSUME NEW r \in Restores, Caller(r) PROVE Inv'
  BY <1>2, ListKeeps, BuildKeeps, CancelKeeps, EngineFreeKeeps, DropHandleKeeps, PromoteKeeps,
     PromoteRefusedKeeps DEF Caller
<1>3. ASSUME NEW c \in Chunks, Evict(c) \/ DemoteSelect(c) \/ DemoteUpdate(c) PROVE Inv'
  <2>1. pins' = pins /\ holds' = holds /\ job' = job
    BY <1>3 DEF Evict, DemoteSelect, DemoteUpdate
  <2> QED
    BY <2>1, QuietKeeps
<1>4. CASE UNCHANGED vars
  BY <1>4, QuietKeeps DEF vars
<1> QED
  BY <1>1, <1>2, <1>3, <1>4 DEF Next

(* The invariant holds always. *)
LEMMA AlwaysInv == Spec => []Inv
<1> QED
  BY InitInv, NextInv, PTL DEF Spec

(* The engine's sink is committed only with every operation decoded, authenticated and
   written, whatever order any number of workers finish in, and a call that failed leaves
   it untouched, aborted or reset (plan.rs 391-524, shadow.rs 172-217). *)
THEOREM RestoreIsAllOrNothing == Spec => []AllOrNothing
<1>1. Inv => AllOrNothing
  <2> SUFFICES ASSUME Inv, NEW r \in Restores
               PROVE  /\ job[r].pc = "installed" =>
                           job[r].sink = "committed" /\ job[r].written = Ops(r)
                      /\ job[r].pc = "ended" => job[r].sink \in {"idle", "aborted", "reset"}
    BY DEF AllOrNothing
  <2> QED
    BY DEF Inv, CallInv, CallWrites, CallSink, Holding
<1> QED
  BY <1>1, AlwaysInv, PTL

(* A restore that failed, and was not a cancelled parallel one, leaves no pin row behind,
   with any mix of decode and sink failures and any number of results still in the channel
   (plan.rs 537-564, 650-660). *)
THEOREM FailedRestoreUnpins == Spec => []FailedLeavesNoPins
<1>1. Inv => FailedLeavesNoPins
  <2> SUFFICES ASSUME Inv, NEW r \in Restores, job[r].pc = "ended",
                      ~(job[r].cancelled /\ Mode[r] = "parallel")
               PROVE  PinsOf(r) = {}
    BY DEF FailedLeavesNoPins
  <2> QED
    BY DEF Inv, CallInv, CallPins, Forgets, PinsOf
<1> QED
  BY <1>1, AlwaysInv, PTL

-----------------------------------------------------------------------------
(* The sum of the reservations. *)

(* A function that sums the charges of any reserved calls, whichever is taken last. *)
Sums(S, held, f) ==
    /\ f \in [SUBSET S -> Charges] /\ f[{}] = NoCharge
    /\ \A s \in SUBSET S : \A x \in s : f[s] = ChargeAdd(f[s \ {x}], held[x].charge)

(* Charges add up to charges, in any order. *)
LEMMA ChargeAddFacts ==
  /\ NoCharge \in Charges
  /\ \A a, b \in Charges : ChargeAdd(a, b) \in Charges
  /\ \A a, b, c \in Charges : ChargeAdd(ChargeAdd(a, b), c) = ChargeAdd(ChargeAdd(a, c), b)
<1> QED
  BY DEF NoCharge, ChargeAdd, Charges

(* The fold of the model is such a sum. *)
LEMMA ChargesOfSums ==
  ASSUME NEW held \in [Restores -> Holds]
  PROVE  \E f : Sums(Reserved(held), held, f) /\ ChargesOf(held) = f[Reserved(held)]
<1> DEFINE S == Reserved(held)
           pick == [s \in SUBSET S |-> CHOOSE x \in s : TRUE]
           G == [p \in S \X Charges |-> ChargeAdd(p[2], held[p[1]].charge)]
           Next1(f) == [s \in SUBSET S |-> IF s = {} THEN NoCharge
                                           ELSE ChargeAdd(f[s \ {CHOOSE x \in s : TRUE}],
                                                          held[CHOOSE x \in s : TRUE].charge)]
<1>0. S \in SUBSET Restores /\ IsFiniteSet(S)
  BY RestoreAssumption, FS_Subset DEF Reserved
<1>1. \A x \in S : held[x].charge \in Charges
  BY <1>0 DEF Holds
<1> HIDE DEF S
<1>2. PicksFrom(S, pick)
  BY DEF PicksFrom
<1>3. G \in [S \X Charges -> Charges]
  BY <1>1, ChargeAddFacts
<1>4. PICK g : FoldsOver(S, Charges, NoCharge, pick, G, g)
  <2> HIDE DEF pick, G
  <2> QED
    BY <1>0, <1>2, <1>3, FoldExists, ChargeAddFacts
<1>5. g = Next1(g)
  <2>1. ASSUME NEW s \in SUBSET S PROVE g[s] = Next1(g)[s]
    <3>1. CASE s = {}
      BY <1>4, <3>1 DEF FoldsOver
    <3>2. CASE s # {}
      <4> DEFINE p == CHOOSE x \in s : TRUE
      <4>1. p \in s /\ pick[s] = p
        BY <3>2
      <4>2. g[s] = G[<<p, g[s \ {p}]>>]
        <5> HIDE DEF p, pick, G
        <5> QED
          BY <1>4, <3>2, <4>1 DEF FoldsOver
      <4>3. g[s \ {p}] \in Charges
        BY <1>4 DEF FoldsOver
      <4>4. G[<<p, g[s \ {p}]>>] = ChargeAdd(g[s \ {p}], held[p].charge)
        <5> HIDE DEF p
        <5> QED
          BY <4>1, <4>3
      <4> QED
        BY <3>2, <4>2, <4>4
    <3> QED
      BY <3>1, <3>2
  <2>2. g = [s \in SUBSET S |-> g[s]]
    BY <1>4 DEF FoldsOver
  <2>3. Next1(g) = [s \in SUBSET S |-> Next1(g)[s]]
    OBVIOUS
  <2> HIDE DEF Next1
  <2> QED
    BY <2>1, <2>2, <2>3
<1> DEFINE f == CHOOSE f : f = Next1(f)
<1>6. f = Next1(f)
  <2> HIDE DEF Next1
  <2> QED
    BY <1>5
<1>7. ChargesOf(held) = f[S]
  BY DEF ChargesOf, FoldSet, MapThenFoldSet, S
<1> HIDE DEF f
<1>8. f[{}] = NoCharge
  <2>1. f[{}] = Next1(f)[{}]
    <3> HIDE DEF Next1
    <3> QED
      BY <1>6
  <2> QED
    BY <2>1
<1>9. \A s \in SUBSET S : s # {} =>
        \E p \in s : f[s] = ChargeAdd(f[s \ {p}], held[p].charge)
  <2> TAKE s \in SUBSET S
  <2>1. HAVE s # {}
  <2>2. f[s] = Next1(f)[s]
    <3> HIDE DEF Next1
    <3> QED
      BY <1>6
  <2> DEFINE p == CHOOSE x \in s : TRUE
  <2>3. p \in s
    BY <2>1
  <2>4. f[s] = ChargeAdd(f[s \ {p}], held[p].charge)
    BY <2>1, <2>2
  <2> HIDE DEF p
  <2> QED
    BY <2>3, <2>4
<1> DEFINE Good == {s \in SUBSET S :
                      /\ f[s] \in Charges
                      /\ \A x \in s : f[s] = ChargeAdd(f[s \ {x}], held[x].charge)}
<1>10. ASSUME NEW s \in SUBSET S, \A t \in SUBSET s : t # s => t \in Good PROVE s \in Good
  <2>1. CASE s = {}
    BY <1>8, <2>1, ChargeAddFacts
  <2>2. CASE s # {}
    <3>1. PICK p \in s : f[s] = ChargeAdd(f[s \ {p}], held[p].charge)
      BY <1>9, <2>2
    <3>2. /\ s \ {p} \in Good /\ f[s \ {p}] \in Charges /\ p \in S
          /\ held[p].charge \in Charges
      BY <1>1, <1>10, <3>1
    <3>3. f[s] \in Charges
      BY <3>1, <3>2, ChargeAddFacts, ZenonT(60)
    <3>4. ASSUME NEW x \in s, x # p PROVE f[s] = ChargeAdd(f[s \ {x}], held[x].charge)
      <4> DEFINE t == (s \ {p}) \ {x}
      <4>1. s \ {x} \in Good /\ t \in Good /\ t = (s \ {x}) \ {p}
        BY <1>10, <3>1, <3>4
      <4>2. f[s \ {x}] = ChargeAdd(f[t], held[p].charge)
        BY <3>4, <4>1
      <4>3. f[s \ {p}] = ChargeAdd(f[t], held[x].charge)
        BY <3>2, <3>4
      <4>4. f[t] \in Charges /\ held[x].charge \in Charges
        BY <1>1, <4>1
      <4> HIDE DEF t
      <4>5. ChargeAdd(ChargeAdd(f[t], held[x].charge), held[p].charge)
              = ChargeAdd(ChargeAdd(f[t], held[p].charge), held[x].charge)
        BY <3>2, <4>4, ChargeAddFacts, ZenonT(60)
      <4> QED
        BY <3>1, <4>2, <4>3, <4>5, Zenon
    <3> QED
      BY <3>1, <3>3, <3>4
  <2> QED
    BY <2>1, <2>2
<1>11. \A s \in SUBSET S : s \in Good
  <2>1. Good \in SUBSET (SUBSET S)
    OBVIOUS
  <2> HIDE DEF Good
  <2> QED
    BY <1>0, <1>10, <2>1, SubsetInduct
<1>12. f \in [SUBSET S -> Charges]
  <2>1. \A s \in SUBSET S : f[s] \in Charges
    BY <1>11
  <2>2. f = [s \in SUBSET S |-> f[s]]
    <3>1. Next1(f) = [s \in SUBSET S |-> Next1(f)[s]]
      OBVIOUS
    <3> HIDE DEF Next1
    <3> QED
      BY <1>6, <3>1
  <2> QED
    BY <2>1, <2>2
<1>13. Sums(S, held, f)
  BY <1>8, <1>11, <1>12 DEF Sums
<1> QED
  BY <1>7, <1>13 DEF S

(* Two sums agree where the charges do. *)
LEMMA SumsAgree ==
  ASSUME NEW S, NEW T, NEW a, NEW b, NEW f, NEW g, Sums(S, a, f), Sums(T, b, g),
         NEW U \in SUBSET S, U \in SUBSET T, IsFiniteSet(U),
         \A x \in U : a[x].charge = b[x].charge
  PROVE  f[U] = g[U]
<1> DEFINE Good == {s \in SUBSET U : f[s] = g[s]}
<1>1. ASSUME NEW s \in SUBSET U, \A t \in SUBSET s : t # s => t \in Good PROVE s \in Good
  <2>1. CASE s = {}
    BY <2>1 DEF Sums
  <2>2. CASE s # {}
    <3>1. PICK x \in s : TRUE
      BY <2>2
    <3>2. s \ {x} \in Good
      BY <1>1, <3>1
    <3>3. /\ f[s] = ChargeAdd(f[s \ {x}], a[x].charge)
          /\ g[s] = ChargeAdd(g[s \ {x}], b[x].charge)
      BY <3>1 DEF Sums
    <3> QED
      BY <3>2, <3>3
  <2> QED
    BY <2>1, <2>2
<1>2. \A s \in SUBSET U : s \in Good
  <2>1. Good \in SUBSET (SUBSET U)
    OBVIOUS
  <2> HIDE DEF Good
  <2> QED
    BY <1>1, <2>1, SubsetInduct
<1> QED
  BY <1>2

(* The sum depends on what is reserved and on nothing else of a hold. *)
LEMMA SameCharges ==
  ASSUME NEW a \in [Restores -> Holds], NEW b \in [Restores -> Holds],
         \A x \in Restores : b[x].reserved = a[x].reserved /\ b[x].charge = a[x].charge
  PROVE  ChargesOf(b) = ChargesOf(a)
<1>1. Reserved(b) = Reserved(a) /\ Reserved(a) \in SUBSET Restores /\ IsFiniteSet(Reserved(a))
  BY RestoreAssumption, FS_Subset DEF Reserved
<1>2. PICK f : Sums(Reserved(a), a, f) /\ ChargesOf(a) = f[Reserved(a)]
  BY ChargesOfSums
<1>3. PICK g : Sums(Reserved(b), b, g) /\ ChargesOf(b) = g[Reserved(b)]
  BY ChargesOfSums
<1>4. f[Reserved(a)] = g[Reserved(a)]
  BY <1>1, <1>2, <1>3, SumsAgree
<1> QED
  BY <1>1, <1>2, <1>3, <1>4

(* A new reservation adds its charge to the others. *)
LEMMA OneMore ==
  ASSUME NEW a \in [Restores -> Holds], NEW r \in Restores, ~a[r].reserved,
         NEW h \in Holds, h.reserved = TRUE
  PROVE  ChargesOf([a EXCEPT ![r] = h]) = ChargeAdd(ChargesOf(a), h.charge)
<1> DEFINE b == [a EXCEPT ![r] = h]
<1>0. b \in [Restores -> Holds] /\ b[r] = h /\ \A x \in Restores : x # r => b[x] = a[x]
  OBVIOUS
<1> HIDE DEF b
<1>1. /\ Reserved(a) \in SUBSET Restores /\ IsFiniteSet(Reserved(a)) /\ r \in Reserved(b)
      /\ Reserved(b) \ {r} = Reserved(a) /\ Reserved(a) \in SUBSET Reserved(b)
      /\ r \notin Reserved(a)
  BY <1>0, RestoreAssumption, FS_Subset DEF Reserved
<1>2. PICK f : Sums(Reserved(a), a, f) /\ ChargesOf(a) = f[Reserved(a)]
  BY ChargesOfSums
<1>3. PICK g : Sums(Reserved(b), b, g) /\ ChargesOf(b) = g[Reserved(b)]
  BY <1>0, ChargesOfSums
<1>4. \A x \in Reserved(a) : a[x].charge = b[x].charge
  BY <1>0, <1>1
<1>5. f[Reserved(a)] = g[Reserved(a)]
  BY <1>1, <1>2, <1>3, <1>4, SumsAgree
<1>6. g[Reserved(b)] = ChargeAdd(g[Reserved(a)], b[r].charge)
  BY <1>1, <1>3 DEF Sums
<1> QED
  BY <1>0, <1>2, <1>3, <1>5, <1>6 DEF b

(* The charges are what they were without a reservation, and its own on top. *)
LEMMA OneLess ==
  ASSUME NEW a \in [Restores -> Holds], NEW r \in Restores,
         ChargeWithinLimits(ChargesOf(a), Limits)
  PROVE  ChargeWithinLimits(ChargesOf([a EXCEPT ![r] = NoHold]), Limits)
<1> DEFINE b == [a EXCEPT ![r] = NoHold]
<1>0. /\ b \in [Restores -> Holds] /\ ~b[r].reserved /\ a[r] \in Holds
      /\ \A x \in Restores : x # r => b[x] = a[x]
  BY DEF NoHold, NoCharge, Holds, Charges
<1>1. CASE a[r].reserved = FALSE
  <2>1. \A x \in Restores : x \in Reserved(b) <=> x \in Reserved(a)
    BY <1>0, <1>1 DEF Reserved
  <2>2. Reserved(b) = Reserved(a) /\ IsFiniteSet(Reserved(a)) /\ r \notin Reserved(a)
    BY <1>1, <2>1, RestoreAssumption, FS_Subset DEF Reserved
  <2> HIDE DEF b
  <2>3. PICK f : Sums(Reserved(a), a, f) /\ ChargesOf(a) = f[Reserved(a)]
    BY ChargesOfSums
  <2>4. PICK g : Sums(Reserved(b), b, g) /\ ChargesOf(b) = g[Reserved(b)]
    BY <1>0, ChargesOfSums
  <2>5. \A x \in Reserved(a) : a[x].charge = b[x].charge
    BY <1>0, <2>2 DEF Reserved
  <2>6. f[Reserved(a)] = g[Reserved(a)]
    BY <2>2, <2>3, <2>4, <2>5, SumsAgree
  <2> QED
    BY <2>2, <2>3, <2>4, <2>6 DEF b
<1>2. CASE a[r].reserved = TRUE
  <2>1. [b EXCEPT ![r] = a[r]] = a
    BY <1>0
  <2> HIDE DEF b
  <2>2. ChargesOf(a) = ChargeAdd(ChargesOf(b), a[r].charge)
    <3>1. /\ b \in [Restores -> Holds] /\ ~b[r].reserved /\ a[r] \in Holds
          /\ a[r].reserved = TRUE
      BY <1>0, <1>2
    <3>2. ChargesOf([b EXCEPT ![r] = a[r]]) = ChargeAdd(ChargesOf(b), a[r].charge)
      BY <3>1, OneMore
    <3> QED
      BY <2>1, <3>2
  <2>3. PICK g : Sums(Reserved(b), b, g) /\ ChargesOf(b) = g[Reserved(b)]
    BY <1>0, ChargesOfSums
  <2>4. ChargesOf(b) \in Charges
    BY <2>3 DEF Sums
  <2>5. a[r].charge \in Charges
    BY <1>0 DEF Holds
  <2>6. ChargeWithinLimits(ChargesOf(b), Limits)
    BY <2>2, <2>4, <2>5, RestoreAssumption DEF ChargeWithinLimits, ChargeAdd, Charges
  <2> QED
    BY <2>6 DEF b
<1>3. a[r].reserved \in BOOLEAN
  BY <1>0 DEF Holds
<1> QED
  BY <1>1, <1>2, <1>3
-----------------------------------------------------------------------------
(* The theorem about all reservations together. *)

Within == ChargeWithinLimits(Aggregate, Limits)

(* What a step may do to the holds: nothing that is charged, one hold given back, or one
   admitted with all the others. *)
HoldsStep ==
    \/ \A x \in Restores : holds'[x].reserved = holds[x].reserved /\ holds'[x].charge = holds[x].charge
    \/ \E r \in Restores : holds' = [holds EXCEPT ![r] = NoHold]
    \/ \E r \in Restores :
         /\ job[r].pc = "planned" /\ Admits(r)
         /\ holds' = [holds EXCEPT ![r] = [reserved |-> TRUE, charge |-> Charge(r), pins |-> {}]]

(* The steps do no more than that. *)
LEMMA StepsOnHolds == Inv /\ [Next]_vars => HoldsStep
<1> SUFFICES ASSUME Inv, [Next]_vars PROVE HoldsStep
  OBVIOUS
<1>0. holds \in [Restores -> Holds]
  BY DEF Inv, Maps
<1>1. ASSUME holds' = holds PROVE HoldsStep
  BY <1>1 DEF HoldsStep
<1>2. ASSUME NEW r \in Restores, holds' = [holds EXCEPT ![r] = NoHold] PROVE HoldsStep
  BY <1>2 DEF HoldsStep
<1>3. ASSUME NEW r \in Restores, Step(r) PROVE HoldsStep
  <2>1. CASE Start(r)
    <3>1. \/ holds' = holds
          \/ /\ job[r].pc = "planned" /\ Admits(r)
             /\ holds' = [holds EXCEPT ![r] = [reserved |-> TRUE, charge |-> Charge(r), pins |-> {}]]
      BY <2>1 DEF Start
    <3> QED
      BY <1>1, <3>1 DEF HoldsStep
  <2>2. CASE Settle(r)
    <3>1. \/ holds' = [holds EXCEPT ![r] = NoHold]
          \/ holds' = [holds EXCEPT ![r].pins = job[r].got]
      BY <2>2 DEF Settle, Unwind, AttachPins
    <3>2. CASE holds' = [holds EXCEPT ![r].pins = job[r].got]
      <4>1. \A x \in Restores : /\ holds'[x].reserved = holds[x].reserved
                                /\ holds'[x].charge = holds[x].charge
        BY <1>0, <3>2 DEF Holds
      <4> QED
        BY <4>1 DEF HoldsStep
    <3> QED
      BY <1>2, <3>1, <3>2
  <2>3. CASE SinkBegin(r) \/ PinAll(r) \/ SequentialChunk(r) \/ SequentialDone(r)
    BY <1>1, <1>2, <2>3 DEF SinkBegin, PinAll, SequentialChunk, SequentialDone, Unwind
  <2>4. CASE \E w \in Workers : WorkerClaim(r, w) \/ WorkerSend(r, w)
    BY <1>1, <2>4 DEF WorkerClaim, WorkerSend
  <2>5. CASE Receive(r) \/ Join(r) \/ Commit(r) \/ ReleaseHeld(r)
    BY <1>1, <1>2, <2>5 DEF Receive, Join, Commit, ReleaseHeld, Unwind, TakeHold
  <2> QED
    BY <1>3, <2>1, <2>2, <2>3, <2>4, <2>5 DEF Step
<1>4. ASSUME NEW r \in Restores, Caller(r) PROVE HoldsStep
  BY <1>1, <1>2, <1>4 DEF Caller, List, Build, Cancel, EngineFree, DropHandle, Promote,
     PromoteRefused, AbortShadow, TakeHold
<1>5. ASSUME NEW c \in Chunks, Evict(c) \/ DemoteSelect(c) \/ DemoteUpdate(c) PROVE HoldsStep
  BY <1>1, <1>5 DEF Evict, DemoteSelect, DemoteUpdate
<1>6. CASE UNCHANGED vars
  BY <1>1, <1>6 DEF vars
<1> QED
  BY <1>3, <1>4, <1>5, <1>6 DEF Next

(* No step passes the limits. *)
LEMMA NextWithin == Inv /\ Inv' /\ Within /\ [Next]_vars => Within'
<1> SUFFICES ASSUME Inv, Inv', Within, [Next]_vars PROVE Within'
  OBVIOUS
<1>0. holds \in [Restores -> Holds] /\ holds' \in [Restores -> Holds]
  BY DEF Inv, Maps
<1>1. ChargeWithinLimits(ChargesOf(holds), Limits)
  BY DEF Within, Aggregate
<1>2. SUFFICES ChargeWithinLimits(ChargesOf(holds'), Limits)
  BY <1>2 DEF Within, Aggregate
<1>3. CASE \A x \in Restores : /\ holds'[x].reserved = holds[x].reserved
                               /\ holds'[x].charge = holds[x].charge
  <2>1. ChargesOf(holds') = ChargesOf(holds)
    BY <1>0, <1>3, SameCharges
  <2> QED
    BY <1>1, <2>1
<1>4. ASSUME NEW r \in Restores, holds' = [holds EXCEPT ![r] = NoHold]
      PROVE  ChargeWithinLimits(ChargesOf(holds'), Limits)
  BY <1>0, <1>1, <1>4, OneLess
<1>5. ASSUME NEW r \in Restores, job[r].pc = "planned", Admits(r),
             holds' = [holds EXCEPT ![r] = [reserved |-> TRUE, charge |-> Charge(r), pins |-> {}]]
      PROVE  ChargeWithinLimits(ChargesOf(holds'), Limits)
  <2> DEFINE h == [reserved |-> TRUE, charge |-> Charge(r), pins |-> {}]
  <2>1. ~holds[r].reserved /\ job[r].plan.status = "ok"
    BY <1>5 DEF Inv, CallInv, CallCharge
  <2>2. h \in Holds /\ h.reserved = TRUE /\ h.charge = Charge(r)
    BY <2>1, ChargeIsNatural DEF Holds
  <2> HIDE DEF h
  <2>3. ChargesOf([holds EXCEPT ![r] = h]) = ChargeAdd(ChargesOf(holds), h.charge)
    BY <1>0, <2>1, <2>2, OneMore
  <2> QED
    BY <1>5, <2>2, <2>3 DEF h, Admits, Aggregate
<1> QED
  BY <1>3, <1>4, <1>5, StepsOnHolds DEF HoldsStep

(* Nothing is reserved at first. *)
LEMMA InitWithin == Init => Within
<1> SUFFICES ASSUME Init PROVE Within
  OBVIOUS
<1>1. holds \in [Restores -> Holds] /\ Reserved(holds) = {}
  BY InitInv DEF Inv, Maps, Init, Reserved, NoHold
<1>2. PICK f : Sums(Reserved(holds), holds, f) /\ ChargesOf(holds) = f[Reserved(holds)]
  BY <1>1, ChargesOfSums
<1>3. ChargesOf(holds) = NoCharge
  BY <1>1, <1>2 DEF Sums
<1>4. ChargeWithinLimits(NoCharge, Limits)
  BY RestoreAssumption DEF ChargeWithinLimits, NoCharge
<1> QED
  BY <1>3, <1>4 DEF Within, Aggregate

(* What running and installed restores have pinned is what they reserved, and all of it
   together stays within the limits, for any number of concurrent restores and any limits
   (holds.rs 14-35). *)
THEOREM ReservationsWithinLimits == Spec => []PinnedWithinLimits
<1>1. Inv /\ Within => PinnedWithinLimits
  <2> SUFFICES ASSUME Inv, NEW r \in Restores, holds[r].reserved
               PROVE  Cardinality(PinsOf(r)) <= holds[r].charge.pins
    BY DEF PinnedWithinLimits, Within
  <2>1. /\ job[r].plan.status = "ok" /\ CallShape(r)
        /\ holds[r].charge.pins = job[r].plan.resources.pins
    BY DEF Inv, CallInv, CallCharge
  <2>2. PICK n \in Nat : Ops(r) = 1 .. n /\ job[r].plan.resources.pins = n
    BY <2>1 DEF CallShape, PlanShaped, Ops
  <2>3. IsFiniteSet(1 .. n) /\ Cardinality(1 .. n) = n
    <3>1. 1 \in Int /\ n \in Int
      BY <2>2
    <3> QED
      BY <2>2, <3>1, FS_Interval
  <2>4. PinsOf(r) \in SUBSET (1 .. n)
    BY <2>2 DEF PinsOf
  <2>5. Cardinality(PinsOf(r)) <= Cardinality(1 .. n)
    BY <2>3, <2>4, FS_Subset
  <2> QED
    BY <2>1, <2>2, <2>3, <2>5
<1>2. Spec => []Within
  BY InitInv, InitWithin, NextInv, NextWithin, PTL DEF Spec
<1> QED
  BY <1>1, <1>2, AlwaysInv, PTL

=============================================================================
