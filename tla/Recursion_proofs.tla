-------------------------- MODULE Recursion_proofs --------------------------
(***************************************************************************)
(* What the proofs need of induction, of recursive functions and of folds: *)
(* facts about numbers, finite sets and sequences that no component owns.  *)
(* The library's induction theorems take an operator; here the parameters  *)
(* are sets and functions, which the provers can instantiate.              *)
(***************************************************************************)
EXTENDS Integers, Sequences, FiniteSets, SequencesExt, FiniteSetsExt, FiniteSetTheorems,
        SequenceTheorems, WellFoundedInduction, TLAPS

-----------------------------------------------------------------------------
(* Induction and recursion. *)

(* A set of naturals with 0 that is closed under successor is all of them. *)
LEMMA NatInduct ==
  ASSUME NEW G \in SUBSET Nat, 0 \in G, \A n \in G : n + 1 \in G
  PROVE  \A n \in Nat : n \in G
<1> SUFFICES ASSUME NEW m \in Nat, m \notin G PROVE FALSE
  OBVIOUS
<1> DEFINE T == Nat \ G
<1>1. T \in SUBSET Nat /\ T # {}
  OBVIOUS
<1>2. \E x \in T : \A y \in T : ~(<<y, x>> \in OpToRel(<, Nat))
  <2> HIDE DEF T
  <2> QED
    BY <1>1, WFMin, NatLessThanWellFounded
<1>3. PICK x \in T : \A y \in T : ~(<<y, x>> \in OpToRel(<, Nat))
  BY <1>2
<1>4. \A y \in T : ~(y < x)
  BY <1>3 DEF OpToRel
<1>5. x \in Nat /\ x \notin G
  OBVIOUS
<1>6. x # 0 /\ x - 1 \in Nat
  BY <1>5
<1>7. x - 1 \in G
  BY <1>4, <1>6
<1>8. (x - 1) + 1 \in G
  BY <1>7
<1> QED
  BY <1>5, <1>8

(* The subsets of a finite set, by strong induction on their inclusion. *)
LEMMA SubsetInduct ==
  ASSUME NEW S, IsFiniteSet(S), NEW Good \in SUBSET (SUBSET S),
         \A s \in SUBSET S : (\A t \in SUBSET s : t # s => t \in Good) => s \in Good
  PROVE  \A s \in SUBSET S : s \in Good
<1> DEFINE G == {n \in Nat : \A s \in SUBSET S : Cardinality(s) <= n => s \in Good}
<1>0. \A s \in SUBSET S : IsFiniteSet(s) /\ Cardinality(s) \in Nat
  BY FS_Subset, FS_CardinalityType
<1>1. \A s \in SUBSET S : \A t \in SUBSET s :
         t # s => t \in SUBSET S /\ Cardinality(t) < Cardinality(s)
  <2> TAKE s \in SUBSET S
  <2> TAKE t \in SUBSET s
  <2>1. HAVE t # s
  <2>2. IsFiniteSet(s) /\ Cardinality(s) \in Nat /\ Cardinality(t) \in Nat
    BY <1>0
  <2>3. Cardinality(t) <= Cardinality(s) /\ (Cardinality(t) = Cardinality(s) => t = s)
    BY <2>2, FS_Subset
  <2> QED
    BY <2>1, <2>2, <2>3
<1>2. 0 \in G
  <2>1. ASSUME NEW s \in SUBSET S, Cardinality(s) <= 0 PROVE s \in Good
    <3>1. s = {}
      <4>1. IsFiniteSet(s) /\ Cardinality(s) = 0
        BY <1>0, <2>1
      <4> QED
        BY <4>1, FS_EmptySet
    <3> QED
      BY <3>1
  <2> QED
    BY <2>1
<1>3. ASSUME NEW n \in G PROVE n + 1 \in G
  <2>1. ASSUME NEW s \in SUBSET S, Cardinality(s) <= n + 1 PROVE s \in Good
    <3>1. ASSUME NEW t \in SUBSET s, t # s PROVE t \in Good
      <4>1. t \in SUBSET S /\ Cardinality(t) < Cardinality(s)
        BY <1>1, <3>1
      <4>2. Cardinality(t) \in Nat /\ Cardinality(s) \in Nat /\ n \in Nat
        BY <1>0, <4>1
      <4>3. Cardinality(t) <= n
        BY <4>1, <4>2, <2>1
      <4> QED
        BY <4>1, <4>3
    <3> QED
      BY <3>1
  <2> QED
    BY <2>1
<1>4. \A n \in Nat : n \in G
  <2>1. G \in SUBSET Nat
    OBVIOUS
  <2> HIDE DEF G
  <2> QED
    BY <1>2, <1>3, <2>1, NatInduct
<1> TAKE s \in SUBSET S
<1>5. Cardinality(s) \in G
  BY <1>0, <1>4
<1> QED
  BY <1>0, <1>5

(* The elements a choice function picks, and a function defined by recursion on their
   removal. *)
PicksFrom(S, pick) == \A s \in SUBSET S : s # {} => pick[s] \in s

FoldsOver(S, V, base, pick, G, f) ==
    /\ f \in [SUBSET S -> V]
    /\ \A s \in SUBSET S :
         f[s] = IF s = {} THEN base ELSE G[<<pick[s], f[s \ {pick[s]}]>>]

(* Such a function exists on the subsets of a finite set. *)
LEMMA FoldExists ==
  ASSUME NEW S, IsFiniteSet(S), NEW V, NEW base \in V, NEW pick, PicksFrom(S, pick),
         NEW G \in [S \X V -> V]
  PROVE  \E f : FoldsOver(S, V, base, pick, G, f)
<1>p. \A s \in SUBSET S : s # {} => pick[s] \in s
  BY DEF PicksFrom
<1> DEFINE Value(f, s) == IF s = {} THEN base ELSE G[<<pick[s], f[s \ {pick[s]}]>>]
           N == {n \in Nat : \E f \in [SUBSET S -> V] :
                    \A s \in SUBSET S : Cardinality(s) <= n => f[s] = Value(f, s)}
<1>0. \A s \in SUBSET S : IsFiniteSet(s) /\ Cardinality(s) \in Nat
  BY FS_Subset, FS_CardinalityType
<1>1. \A s \in SUBSET S : s # {} =>
         /\ s \ {pick[s]} \in SUBSET S
         /\ Cardinality(s \ {pick[s]}) \in Nat
         /\ Cardinality(s \ {pick[s]}) = Cardinality(s) - 1
  BY <1>0, <1>p, FS_RemoveElement
<1>2. 0 \in N
  <2> DEFINE f == [s \in SUBSET S |-> base]
  <2>1. f \in [SUBSET S -> V]
    OBVIOUS
  <2>2. ASSUME NEW s \in SUBSET S, Cardinality(s) <= 0 PROVE f[s] = Value(f, s)
    <3>1. IsFiniteSet(s) /\ Cardinality(s) = 0
      BY <1>0, <2>2
    <3>2. s = {}
      BY <3>1, FS_EmptySet
    <3> QED
      BY <3>2
  <2> QED
    BY <2>1, <2>2
<1>3. ASSUME NEW n \in N PROVE n + 1 \in N
  <2>0. n \in Nat
    OBVIOUS
  <2>1. PICK g \in [SUBSET S -> V] :
           \A s \in SUBSET S : Cardinality(s) <= n => g[s] = Value(g, s)
    BY <1>3
  <2> DEFINE f == [s \in SUBSET S |-> Value(g, s)]
  <2>2. f \in [SUBSET S -> V]
    <3>1. ASSUME NEW s \in SUBSET S PROVE Value(g, s) \in V
      <4>1. CASE s = {}
        BY <4>1
      <4>2. CASE s # {}
        <5>1. s \ {pick[s]} \in SUBSET S /\ pick[s] \in S
          BY <1>p, <4>2
        <5>2. <<pick[s], g[s \ {pick[s]}]>> \in S \X V
          BY <5>1
        <5>3. G[<<pick[s], g[s \ {pick[s]}]>>] \in V
          BY <5>2
        <5> QED
          BY <4>2, <5>3
      <4> QED
        BY <4>1, <4>2
    <3> HIDE DEF Value
    <3> QED
      BY <3>1
  <2>3. ASSUME NEW s \in SUBSET S, Cardinality(s) <= n + 1 PROVE f[s] = Value(f, s)
    <3>1. CASE s = {}
      BY <3>1
    <3>2. CASE s # {}
      <4> DEFINE t == s \ {pick[s]}
      <4>1. t \in SUBSET S /\ Cardinality(t) <= n
        BY <1>0, <1>1, <2>0, <2>3, <3>2
      <4>2. f[t] = g[t]
        <5> HIDE DEF Value, t
        <5> QED
          BY <2>1, <4>1
      <4>3. f[s] = G[<<pick[s], g[t]>>]
        BY <3>2
      <4> QED
        BY <3>2, <4>2, <4>3
    <3> QED
      BY <3>1, <3>2
  <2>4. \E h \in [SUBSET S -> V] : \A s \in SUBSET S : Cardinality(s) <= n + 1 => h[s] = Value(h, s)
    <3> HIDE DEF f, Value
    <3> QED
      BY <2>2, <2>3
  <2> HIDE DEF Value
  <2> QED
    BY <2>0, <2>4
<1>4. \A n \in Nat : n \in N
  <2>1. N \in SUBSET Nat
    OBVIOUS
  <2> HIDE DEF N
  <2> QED
    BY <1>2, <1>3, <2>1, NatInduct
<1>5. Cardinality(S) \in N
  BY <1>0, <1>4
<1>6. PICK f \in [SUBSET S -> V] :
         \A s \in SUBSET S : Cardinality(s) <= Cardinality(S) => f[s] = Value(f, s)
  <2> HIDE DEF Value
  <2> QED
    BY <1>5
<1>7. \A s \in SUBSET S : Cardinality(s) <= Cardinality(S)
  BY FS_Subset
<1>8. \A s \in SUBSET S : f[s] = Value(f, s)
  <2> HIDE DEF Value
  <2> QED
    BY <1>6, <1>7
<1> QED
  BY <1>6, <1>8 DEF FoldsOver

(* A function defined by recursion on its predecessor. *)
Recursion(n, V, base, G, f) ==
    /\ f \in [0 .. n -> V]
    /\ f[0] = base /\ \A i \in 1 .. n : f[i] = G[<<i, f[i - 1]>>]

(* Such a function exists. *)
LEMMA RecursionExists ==
  ASSUME NEW n \in Nat, NEW V, NEW base \in V, NEW G \in [(1 .. n) \X V -> V]
  PROVE  \E f : Recursion(n, V, base, G, f)
<1> DEFINE Solves(f, k) == f[0] = base /\ \A i \in 1 .. n : i <= k => f[i] = G[<<i, f[i - 1]>>]
           N == {k \in Nat : \E f \in [0 .. n -> V] : Solves(f, k)}
<1>1. 0 \in N
  <2> DEFINE f == [i \in 0 .. n |-> base]
  <2>1. f \in [0 .. n -> V] /\ Solves(f, 0)
    OBVIOUS
  <2> HIDE DEF f, Solves
  <2> QED
    BY <2>1
<1>2. ASSUME NEW k \in N PROVE k + 1 \in N
  <2>0. k \in Nat
    OBVIOUS
  <2>1. PICK g \in [0 .. n -> V] : Solves(g, k)
    <3> HIDE DEF Solves
    <3> QED
      BY <1>2
  <2> DEFINE f == [i \in 0 .. n |-> IF i = k + 1 THEN G[<<i, g[i - 1]>>] ELSE g[i]]
  <2>2. f \in [0 .. n -> V]
    <3>1. ASSUME NEW i \in 0 .. n
          PROVE  (IF i = k + 1 THEN G[<<i, g[i - 1]>>] ELSE g[i]) \in V
      <4>1. CASE i = k + 1
        <5>1. i \in 1 .. n /\ i - 1 \in 0 .. n
          BY <2>0, <4>1
        <5>2. <<i, g[i - 1]>> \in (1 .. n) \X V
          BY <5>1
        <5>3. G[<<i, g[i - 1]>>] \in V
          BY <5>2
        <5> QED
          BY <4>1, <5>3
      <4>2. CASE i # k + 1
        BY <4>2
      <4> QED
        BY <4>1, <4>2
    <3> QED
      BY <3>1
  <2>3. Solves(f, k + 1)
    <3>1. f[0] = base
      BY <2>0, <2>1
    <3>2. ASSUME NEW i \in 1 .. n, i <= k + 1 PROVE f[i] = G[<<i, f[i - 1]>>]
      <4>1. i \in 0 .. n /\ i - 1 \in 0 .. n /\ i - 1 # k + 1
        BY <2>0, <3>2
      <4>2. f[i - 1] = g[i - 1]
        BY <4>1
      <4>3. CASE i = k + 1
        BY <4>1, <4>2, <4>3
      <4>4. CASE i # k + 1
        <5>1. i <= k
          BY <2>0, <3>2, <4>4
        <5>2. g[i] = G[<<i, g[i - 1]>>]
          BY <2>1, <5>1
        <5> QED
          BY <4>1, <4>2, <4>4, <5>2
      <4> QED
        BY <4>3, <4>4
    <3> QED
      BY <3>1, <3>2
  <2> HIDE DEF f, Solves
  <2> QED
    BY <2>0, <2>2, <2>3
<1>3. \A k \in Nat : k \in N
  <2>1. N \in SUBSET Nat
    OBVIOUS
  <2> HIDE DEF N
  <2> QED
    BY <1>1, <1>2, <2>1, NatInduct
<1>4. PICK f \in [0 .. n -> V] : Solves(f, n)
  <2>1. n \in N
    BY <1>3
  <2> HIDE DEF Solves
  <2> QED
    BY <2>1
<1> QED
  BY <1>4 DEF Recursion


(* A finite non-empty set of naturals has a greatest element. *)
LEMMA MaxExists ==
  ASSUME NEW S \in SUBSET Nat, IsFiniteSet(S), S # {}
  PROVE  \E x \in S : \A y \in S : x >= y
<1> DEFINE Good == {s \in SUBSET S : s # {} => \E x \in s : \A y \in s : x >= y}
<1>1. ASSUME NEW s \in SUBSET S, \A t \in SUBSET s : t # s => t \in Good, s # {}
      PROVE  \E x \in s : \A y \in s : x >= y
  <2>1. PICK z \in s : TRUE
    BY <1>1
  <2>2. CASE s \ {z} = {}
    BY <2>1, <2>2
  <2>3. CASE s \ {z} # {}
    <3>1. s \ {z} \in Good
      BY <1>1, <2>1
    <3>2. PICK x \in s \ {z} : \A y \in s \ {z} : x >= y
      BY <2>3, <3>1
    <3>3. x \in Nat /\ z \in Nat /\ s \in SUBSET Nat
      BY <2>1, <3>2
    <3>4. CASE x >= z
      BY <3>2, <3>3, <3>4
    <3>5. CASE z >= x
      <4>1. \A y \in s : z >= y
        <5> TAKE y \in s
        <5>1. y \in Nat
          BY <3>3
        <5>2. CASE y = z
          BY <3>3, <5>2
        <5>3. CASE y # z
          BY <3>2, <3>3, <3>5, <5>1, <5>3
        <5> QED
          BY <5>2, <5>3
      <4> QED
        BY <2>1, <4>1
    <3> QED
      BY <3>3, <3>4, <3>5
  <2> QED
    BY <2>2, <2>3
<1>2. S \in Good
  <2>1. Good \in SUBSET (SUBSET S)
    OBVIOUS
  <2>2. \A s \in SUBSET S : (\A t \in SUBSET s : t # s => t \in Good) => s \in Good
    <3> TAKE s \in SUBSET S
    <3>1. HAVE \A t \in SUBSET s : t # s => t \in Good
    <3>2. s # {} => \E x \in s : \A y \in s : x >= y
      <4> HIDE DEF Good
      <4> QED
        BY <1>1, <3>1
    <3> QED
      BY <3>2
  <2> HIDE DEF Good
  <2>3. \A s \in SUBSET S : s \in Good
    BY <2>1, <2>2, SubsetInduct
  <2> QED
    BY <2>3
<1> QED
  BY <1>2

-----------------------------------------------------------------------------
(* Orders on finite sets. *)

(* The values of a function on a finite set are finitely many. *)
LEMMA ImageIsFinite ==
  ASSUME NEW S, IsFiniteSet(S), NEW f
  PROVE  IsFiniteSet({f[x] : x \in S})
<1> DEFINE T == {f[x] : x \in S}
           g == [x \in S |-> f[x]]
<1>1. g \in Surjection(S, T)
  BY DEF Surjection
<1> HIDE DEF T, g
<1> QED
  BY <1>1, FS_Surjection DEF T

(* The least and the greatest of finitely many naturals. *)
LEMMA MinIsLeast ==
  ASSUME NEW S \in SUBSET Nat, S # {}
  PROVE  Min(S) \in S /\ \A y \in S : Min(S) <= y
<1>1. \E x \in S : \A y \in S : ~(<<y, x>> \in OpToRel(<, Nat))
  BY WFMin, NatLessThanWellFounded
<1>2. PICK x \in S : \A y \in S : ~(<<y, x>> \in OpToRel(<, Nat))
  BY <1>1
<1>3. \A y \in S : ~(y < x)
  BY <1>2 DEF OpToRel
<1>4. \A y \in S : x <= y
  BY <1>3
<1> QED
  BY <1>4 DEF Min

(* The same for the greatest, of finitely many. *)
LEMMA MaxIsGreatest ==
  ASSUME NEW S \in SUBSET Nat, IsFiniteSet(S), S # {}
  PROVE  Max(S) \in S /\ \A y \in S : Max(S) >= y
BY MaxExists DEF Max

(* Of two numbers. *)
LEMMA PairBounds ==
  ASSUME NEW a \in Nat, NEW b \in Nat
  PROVE  /\ Min({a, b}) = (IF a <= b THEN a ELSE b)
         /\ Max({a, b}) = (IF a <= b THEN b ELSE a)
BY DEF Min, Max

-----------------------------------------------------------------------------
(* Sums over finite sets. *)

Sum(f, S) == MapThenSumSet(LAMBDA x : f[x], S)

(* g is the sum of f over every subset of S, in whatever order. *)
SumsTo(S, f, g) ==
    /\ g \in [SUBSET S -> Nat] /\ g[{}] = 0
    /\ \A s \in SUBSET S : \A x \in s : g[s] = f[x] + g[s \ {x}]

(* It is enough to take the elements out in one order. *)
LEMMA OneOrderSums ==
  ASSUME NEW S, IsFiniteSet(S), NEW f, \A x \in S : f[x] \in Nat, NEW g,
         g = [s \in SUBSET S |-> g[s]], g[{}] = 0,
         \A s \in SUBSET S : s # {} => \E p \in s : g[s] = f[p] + g[s \ {p}]
  PROVE  SumsTo(S, f, g)
<1> DEFINE Good == {s \in SUBSET S : g[s] \in Nat /\ \A x \in s : g[s] = f[x] + g[s \ {x}]}
<1>1. ASSUME NEW s \in SUBSET S, \A t \in SUBSET s : t # s => t \in Good PROVE s \in Good
  <2>1. CASE s = {}
    BY <2>1
  <2>2. CASE s # {}
    <3>1. PICK p \in s : g[s] = f[p] + g[s \ {p}]
      BY <2>2
    <3>2. s \ {p} \in Good /\ g[s \ {p}] \in Nat /\ f[p] \in Nat
      BY <1>1, <3>1
    <3>3. g[s] \in Nat
      BY <3>1, <3>2
    <3>4. ASSUME NEW x \in s, x # p PROVE g[s] = f[x] + g[s \ {x}]
      <4> DEFINE t == (s \ {p}) \ {x}
      <4>1. s \ {x} \in Good /\ t \in Good /\ t = (s \ {x}) \ {p}
        BY <1>1, <3>1, <3>4
      <4>2. g[s \ {x}] = f[p] + g[t]
        BY <3>4, <4>1
      <4>3. g[s \ {p}] = f[x] + g[t]
        BY <3>2, <3>4
      <4>4. g[t] \in Nat /\ f[x] \in Nat
        BY <4>1
      <4> QED
        BY <3>1, <3>2, <4>2, <4>3, <4>4
    <3> QED
      BY <3>1, <3>3, <3>4
  <2> QED
    BY <2>1, <2>2
<1>2. \A s \in SUBSET S : s \in Good
  <2>1. Good \in SUBSET (SUBSET S)
    OBVIOUS
  <2> HIDE DEF Good
  <2> QED
    BY <1>1, <2>1, SubsetInduct
<1>3. \A s \in SUBSET S : g[s] \in Nat
  BY <1>2
<1>4. g \in [SUBSET S -> Nat]
  BY <1>3
<1> QED
  BY <1>2, <1>4 DEF SumsTo

(* There is such a function. *)
LEMMA SumsExist ==
  ASSUME NEW S, IsFiniteSet(S), NEW f, \A x \in S : f[x] \in Nat
  PROVE  \E g : SumsTo(S, f, g)
<1> DEFINE pick == [s \in SUBSET S |-> CHOOSE x \in s : TRUE]
           G == [p \in S \X Nat |-> f[p[1]] + p[2]]
<1>1. G \in [S \X Nat -> Nat] /\ 0 \in Nat
  OBVIOUS
<1>2. PicksFrom(S, pick)
  BY DEF PicksFrom
<1>3. PICK g : FoldsOver(S, Nat, 0, pick, G, g)
  <2> HIDE DEF pick, G
  <2> QED
    BY <1>1, <1>2, FoldExists
<1>4. g[{}] = 0 /\ g = [s \in SUBSET S |-> g[s]] /\ \A s \in SUBSET S : g[s] \in Nat
  BY <1>3 DEF FoldsOver
<1>5. ASSUME NEW s \in SUBSET S, s # {} PROVE \E p \in s : g[s] = f[p] + g[s \ {p}]
  <2> DEFINE p == pick[s]
  <2>1. p \in s
    BY <1>2, <1>5 DEF PicksFrom
  <2>2. g[s] = G[<<p, g[s \ {p}]>>]
    <3> HIDE DEF G, pick
    <3> QED
      BY <1>3, <1>5 DEF FoldsOver
  <2> HIDE DEF p
  <2>3. G[<<p, g[s \ {p}]>>] = f[p] + g[s \ {p}]
    BY <1>4, <2>1
  <2> QED
    BY <2>1, <2>2, <2>3
<1> QED
  BY <1>4, <1>5, OneOrderSums

(* Sums agree where their terms do. *)
LEMMA SumsToAgree ==
  ASSUME NEW S, NEW T, NEW a, NEW b, NEW f, NEW g, SumsTo(S, a, f), SumsTo(T, b, g),
         NEW U \in SUBSET S, U \in SUBSET T, IsFiniteSet(U), \A x \in U : a[x] = b[x]
  PROVE  f[U] = g[U]
<1> DEFINE Good == {s \in SUBSET U : f[s] = g[s]}
<1>1. ASSUME NEW s \in SUBSET U, \A t \in SUBSET s : t # s => t \in Good PROVE s \in Good
  <2>1. CASE s = {}
    BY <2>1 DEF SumsTo
  <2>2. CASE s # {}
    <3>1. PICK x \in s : TRUE
      BY <2>2
    <3>2. s \ {x} \in Good
      BY <1>1, <3>1
    <3>3. f[s] = a[x] + f[s \ {x}] /\ g[s] = b[x] + g[s \ {x}]
      BY <3>1 DEF SumsTo
    <3> QED
      BY <3>2, <3>3
  <2> QED
    BY <2>1, <2>2
<1>2. \A s \in SUBSET U : s \in Good
  <2>1. Good \in SUBSET (SUBSET U)
    OBVIOUS
  <2> HIDE DEF Good
  <2> QED
    BY <1>1, <2>1, SubsetInduct
<1> QED
  BY <1>2

(* What a fold that takes the elements out with `pick` computes: any function that is
   defined by the recursion is the sum. *)
TakesOut(S, f, pick, g) ==
    g = [s \in SUBSET S |-> IF s = {} THEN 0 ELSE f[pick[s]] + g[s \ {pick[s]}]]

(* A recursion that takes one element out at a time sums the function. *)
LEMMA RecursionSums ==
  ASSUME NEW S, IsFiniteSet(S), NEW f, \A x \in S : f[x] \in Nat, NEW pick, PicksFrom(S, pick)
  PROVE  /\ \E g : TakesOut(S, f, pick, g)
         /\ \A g : TakesOut(S, f, pick, g) => SumsTo(S, f, g)
<1>1. \E g : TakesOut(S, f, pick, g)
  <2>1. PICK g : SumsTo(S, f, g)
    BY SumsExist
  <2>2. \A s \in SUBSET S : g[s] = IF s = {} THEN 0 ELSE f[pick[s]] + g[s \ {pick[s]}]
    BY <2>1 DEF SumsTo, PicksFrom
  <2>3. g = [s \in SUBSET S |-> g[s]]
    BY <2>1 DEF SumsTo
  <2> QED
    BY <2>2, <2>3 DEF TakesOut
<1>2. ASSUME NEW g, TakesOut(S, f, pick, g) PROVE SumsTo(S, f, g)
  <2> DEFINE Body(h, s) == IF s = {} THEN 0 ELSE f[pick[s]] + h[s \ {pick[s]}]
  <2>1. g = [s \in SUBSET S |-> Body(g, s)]
    BY <1>2 DEF TakesOut
  <2>2. g = [s \in SUBSET S |-> g[s]] /\ \A s \in SUBSET S : g[s] = Body(g, s)
    <3> HIDE DEF Body
    <3> QED
      BY <2>1
  <2>3. g[{}] = 0 /\ \A s \in SUBSET S : s # {} => g[s] = f[pick[s]] + g[s \ {pick[s]}]
    BY <2>2
  <2>4. \A s \in SUBSET S : s # {} => \E p \in s : g[s] = f[p] + g[s \ {p}]
    BY <2>3 DEF PicksFrom
  <2> HIDE DEF Body
  <2> QED
    BY <2>2, <2>3, <2>4, OneOrderSums
<1> QED
  BY <1>1, <1>2

(* The library's fold over a set is such a sum. *)
LEMMA SumIs ==
  ASSUME NEW S, IsFiniteSet(S), NEW f, \A x \in S : f[x] \in Nat
  PROVE  \E g : SumsTo(S, f, g) /\ Sum(f, S) = g[S]
<1> DEFINE pick == [s \in SUBSET S |-> CHOOSE x \in s : TRUE]
           Rec(g) == [s \in SUBSET S |-> IF s = {} THEN 0
                        ELSE f[CHOOSE x \in s : TRUE] + g[s \ {CHOOSE x \in s : TRUE}]]
           h == CHOOSE g : g = Rec(g)
<1>1. PicksFrom(S, pick)
  BY DEF PicksFrom
<1>2. ASSUME NEW g PROVE TakesOut(S, f, pick, g) <=> g = Rec(g)
  <2>1. \A s \in SUBSET S : pick[s] = CHOOSE x \in s : TRUE
    OBVIOUS
  <2>2. ASSUME NEW s \in SUBSET S
        PROVE  (IF s = {} THEN 0 ELSE f[pick[s]] + g[s \ {pick[s]}])
                 = (IF s = {} THEN 0
                      ELSE f[CHOOSE x \in s : TRUE] + g[s \ {CHOOSE x \in s : TRUE}])
    <3> HIDE DEF pick
    <3> QED
      BY <2>1, Zenon
  <2>3. [s \in SUBSET S |-> IF s = {} THEN 0 ELSE f[pick[s]] + g[s \ {pick[s]}]] = Rec(g)
    <3> HIDE DEF pick
    <3> QED
      BY <2>2, Zenon
  <2> HIDE DEF pick, Rec
  <2> QED
    BY <2>3 DEF TakesOut
<1>3. \E g : TakesOut(S, f, pick, g)
  <2> HIDE DEF pick
  <2> QED
    BY <1>1, RecursionSums
<1>4. h = Rec(h)
  <2> HIDE DEF Rec
  <2> QED
    BY <1>2, <1>3
<1>5. Sum(f, S) = h[S]
  BY DEF Sum, MapThenSumSet, MapThenFoldSet
<1>6. SumsTo(S, f, h)
  <2> HIDE DEF Rec, pick, h
  <2> QED
    BY <1>1, <1>2, <1>4, RecursionSums
<1> QED
  BY <1>5, <1>6

(* The sum over nothing, over one element more, and over equal terms. *)
LEMMA SumFacts ==
  ASSUME NEW S, IsFiniteSet(S), NEW f, \A x \in S : f[x] \in Nat
  PROVE  Sum(f, S) \in Nat /\ (S = {} => Sum(f, S) = 0)
<1>1. PICK g : SumsTo(S, f, g) /\ Sum(f, S) = g[S]
  BY SumIs
<1> QED
  BY <1>1 DEF SumsTo

(* A sum depends on the values at the elements only. *)
LEMMA SumAgrees ==
  ASSUME NEW S, IsFiniteSet(S), NEW f, NEW g, \A x \in S : f[x] \in Nat /\ g[x] = f[x]
  PROVE  Sum(g, S) = Sum(f, S)
<1>1. PICK h : SumsTo(S, f, h) /\ Sum(f, S) = h[S]
  BY SumIs
<1>2. PICK k : SumsTo(S, g, k) /\ Sum(g, S) = k[S]
  BY SumIs
<1>3. h[S] = k[S]
  BY <1>1, <1>2, SumsToAgree
<1> QED
  BY <1>1, <1>2, <1>3

(* An element taken out. *)
LEMMA SumWithout ==
  ASSUME NEW S, IsFiniteSet(S), NEW f, \A x \in S : f[x] \in Nat, NEW x \in S
  PROVE  Sum(f, S) = f[x] + Sum(f, S \ {x}) /\ Sum(f, S \ {x}) \in Nat
<1>0. IsFiniteSet(S \ {x}) /\ \A y \in S \ {x} : f[y] \in Nat
  BY FS_RemoveElement
<1>1. PICK g : SumsTo(S, f, g) /\ Sum(f, S) = g[S]
  BY SumIs
<1>2. PICK h : SumsTo(S \ {x}, f, h) /\ Sum(f, S \ {x}) = h[S \ {x}]
  BY <1>0, SumIs
<1>3. g[S \ {x}] = h[S \ {x}]
  BY <1>0, <1>1, <1>2, SumsToAgree
<1>4. g[S] = f[x] + g[S \ {x}]
  BY <1>1 DEF SumsTo
<1> QED
  BY <1>0, <1>1, <1>2, <1>3, <1>4, SumFacts

-----------------------------------------------------------------------------
(* Sequences of sequences. *)

(* f puts the members of ss together one by one. *)
FlattensTo(S, ss, f) ==
    /\ f \in [1 .. Len(ss) -> Seq(S)] /\ f[1] = ss[1]
    /\ \A i \in 2 .. Len(ss) : f[i] = f[i - 1] \o ss[i]
    /\ FlattenSeq(ss) = f[Len(ss)]

(* What FlattenSeq chooses. *)
LEMMA FlattenSteps ==
  ASSUME NEW S, NEW ss \in Seq(Seq(S)), Len(ss) # 0
  PROVE  \E f : FlattensTo(S, ss, f)
<1> DEFINE n == Len(ss)
           Rec(f) == [i \in 1 .. n |-> IF i = 1 THEN ss[i] ELSE f[i - 1] \o ss[i]]
<1>0. n \in Nat /\ n # 0 /\ \A i \in 1 .. n : ss[i] \in Seq(S)
  OBVIOUS
<1>1. \E f : f = Rec(f)
  <2> DEFINE G == [p \in (1 .. n) \X Seq(S) |-> p[2] \o ss[p[1]]]
  <2>1. G \in [(1 .. n) \X Seq(S) -> Seq(S)]
    BY <1>0
  <2>2. <<>> \in Seq(S)
    OBVIOUS
  <2>3. PICK f : Recursion(n, Seq(S), <<>>, G, f)
    <3> HIDE DEF n, G
    <3> QED
      BY <1>0, <2>1, <2>2, RecursionExists
  <2> DEFINE h == [i \in 1 .. n |-> f[i]]
  <2>4. ASSUME NEW i \in 1 .. n
        PROVE  h[i] = IF i = 1 THEN ss[i] ELSE h[i - 1] \o ss[i]
    <3>1. f[i - 1] \in Seq(S) /\ f[i] = G[<<i, f[i - 1]>>] /\ f[0] = <<>>
      <4> HIDE DEF n, G
      <4>1. i \in 1 .. n /\ i - 1 \in 0 .. n
        BY <1>0
      <4> QED
        BY <2>3, <4>1 DEF Recursion
    <3>2. f[i] = f[i - 1] \o ss[i]
      <4>1. <<i, f[i - 1]>> \in (1 .. n) \X Seq(S)
        BY <3>1
      <4>2. G[<<i, f[i - 1]>>] = f[i - 1] \o ss[i]
        BY <4>1
      <4> HIDE DEF G
      <4> QED
        BY <3>1, <4>2
    <3>3. CASE i = 1
      <4>1. ss[i] \in Seq(S)
        BY <1>0
      <4>2. i - 1 = 0
        BY <3>3
      <4>3. f[i] = <<>> \o ss[i]
        <5> HIDE DEF G
        <5> QED
          BY <3>1, <3>2, <4>2
      <4>4. <<>> \o ss[i] = ss[i]
        BY <4>1, ConcatEmptySeq
      <4> QED
        BY <3>3, <4>3, <4>4
    <3>4. CASE i # 1
      <4>1. i - 1 \in 1 .. n
        BY <1>0, <3>4
      <4> QED
        BY <3>2, <3>4, <4>1
    <3> QED
      BY <3>3, <3>4
  <2>5. h = Rec(h)
    <3> HIDE DEF n
    <3> QED
      BY <2>4
  <2> QED
    BY <2>5
<1>2. \E f : f = Rec(f) /\ FlattenSeq(ss) = f[n]
  <2> DEFINE g == CHOOSE f : f = Rec(f)
  <2>1. g = Rec(g)
    BY <1>1
  <2>2. FlattenSeq(ss) = g[n]
    BY <1>0 DEF FlattenSeq
  <2> QED
    BY <2>1, <2>2
<1>3. PICK f : f = Rec(f) /\ FlattenSeq(ss) = f[n]
  BY <1>2
<1>4. ASSUME NEW i \in 1 .. n PROVE f[i] = IF i = 1 THEN ss[i] ELSE f[i - 1] \o ss[i]
  <2>1. f[i] = Rec(f)[i]
    <3> HIDE DEF Rec
    <3> QED
      BY <1>3
  <2> QED
    BY <2>1
<1> DEFINE Good == {i \in Nat : i \in 1 .. n => f[i] \in Seq(S)}
<1>5. 0 \in Good
  OBVIOUS
<1>6. \A i \in Good : i + 1 \in Good
  <2> TAKE i \in Good
  <2> SUFFICES ASSUME i + 1 \in 1 .. n PROVE f[i + 1] \in Seq(S)
    OBVIOUS
  <2>1. ss[i + 1] \in Seq(S)
    BY <1>0
  <2>2. CASE i = 0
    BY <1>4, <2>1, <2>2
  <2>3. CASE i # 0
    <3>1. i \in 1 .. n /\ (i + 1) - 1 = i /\ i + 1 # 1
      BY <1>0, <2>3
    <3>2. f[i + 1] = f[i] \o ss[i + 1]
      BY <1>4, <3>1
    <3> QED
      BY <2>1, <3>1, <3>2
  <2> QED
    BY <2>2, <2>3
<1>7. \A i \in Nat : i \in Good
  <2>1. Good \in SUBSET Nat
    OBVIOUS
  <2> HIDE DEF Good
  <2> QED
    BY <1>5, <1>6, <2>1, NatInduct
<1>8. \A i \in 1 .. n : f[i] \in Seq(S)
  BY <1>0, <1>7
<1>9. f = [i \in 1 .. n |-> f[i]]
  <2> DEFINE Body(i) == IF i = 1 THEN ss[i] ELSE f[i - 1] \o ss[i]
  <2>1. f = [i \in 1 .. n |-> Body(i)]
    BY <1>3
  <2> HIDE DEF Body, n
  <2> QED
    BY <2>1
<1>10. f \in [1 .. n -> Seq(S)]
  <2> HIDE DEF n
  <2> QED
    BY <1>8, <1>9
<1>11. f[1] = ss[1] /\ \A i \in 2 .. n : f[i] = f[i - 1] \o ss[i]
  <2>1. 1 \in 1 .. n /\ \A i \in 2 .. n : i \in 1 .. n /\ i # 1
    BY <1>0
  <2> HIDE DEF n
  <2> QED
    BY <1>4, <2>1
<1> QED
  BY <1>3, <1>10, <1>11 DEF FlattensTo

(* Sequences put together are a sequence. *)
LEMMA FlattenIsSequence ==
  ASSUME NEW S, NEW ss \in Seq(Seq(S))
  PROVE  FlattenSeq(ss) \in Seq(S)
<1>1. CASE Len(ss) = 0
  <2>1. ss = <<>>
    <3> DEFINE V == Seq(S)
    <3>1. ss \in Seq(V)
      OBVIOUS
    <3> HIDE DEF V
    <3> QED
      BY <1>1, <3>1, EmptySeq
  <2>2. FlattenSeq(ss) = <<>>
    BY <1>1, <2>1 DEF FlattenSeq
  <2> QED
    BY <2>2
<1>2. CASE Len(ss) # 0
  <2>1. PICK f : FlattensTo(S, ss, f)
    BY <1>2, FlattenSteps
  <2>2. Len(ss) \in 1 .. Len(ss)
    BY <1>2
  <2> QED
    BY <2>1, <2>2 DEF FlattensTo
<1> QED
  BY <1>1, <1>2

(* The last one that is not empty ends the whole. *)
LEMMA FlattenEnds ==
  ASSUME NEW S, NEW ss \in Seq(Seq(S)), Len(ss) # 0, Len(ss[Len(ss)]) # 0
  PROVE  LET all == FlattenSeq(ss)
             end == ss[Len(ss)]
         IN  all \in Seq(S) /\ Len(all) # 0 /\ all[Len(all)] = end[Len(end)]
<1> DEFINE all == FlattenSeq(ss)
           n == Len(ss)
           end == ss[n]
<1>0. n \in Nat /\ n # 0 /\ end \in Seq(S) /\ Len(end) \in Nat /\ Len(end) # 0
  OBVIOUS
<1>n. n \in Nat /\ n # 0
  BY <1>0
<1>1. PICK f : FlattensTo(S, ss, f)
  BY FlattenSteps
<1>2. all = f[n]
  BY <1>1, Zenon DEF FlattensTo
<1>3. CASE n = 1
  <2>1. all = end
    BY <1>1, <1>2, <1>3, Zenon DEF FlattensTo
  <2> HIDE DEF all, end
  <2> QED
    BY <1>0, <2>1 DEF all, end
<1>4. CASE n # 1
  <2> DEFINE g == f[n - 1]
  <2> HIDE DEF n
  <2>1. n \in 2 .. n /\ n - 1 \in 1 .. n
    BY <1>n, <1>4
  <2>2. g \in Seq(S) /\ f[n] = g \o end
    <3>1. /\ f \in [1 .. n -> Seq(S)]
          /\ \A i \in 2 .. n : f[i] = f[i - 1] \o ss[i]
      BY <1>1, Zenon DEF FlattensTo, n
    <3> QED
      BY <2>1, <3>1, Zenon
  <2> HIDE DEF all, end, g
  <2>3. all = g \o end
    BY <1>2, <2>2
  <2>4. all \in Seq(S) /\ Len(all) # 0 /\ all[Len(all)] = end[Len(end)]
    BY <1>0, <2>2, <2>3
  <2> QED
    BY <2>4 DEF all, end, n
<1> QED
  BY <1>3, <1>4

-----------------------------------------------------------------------------
(* Sums over sequences. *)

SeqSum(q) == FoldLeft(LAMBDA sum, x : sum + x, 0, q)

(* The library's fold over a sequence is the sum of its elements. *)
LEMMA SeqSumIs ==
  ASSUME NEW q \in Seq(Nat)
  PROVE  SeqSum(q) = Sum(q, DOMAIN q) /\ SeqSum(q) \in Nat
<1> DEFINE S == DOMAIN q
           pick == [s \in SUBSET S |-> Max(s)]
           Rec(g) == [s \in SUBSET S |-> IF s = {} THEN 0 ELSE g[s \ {Max(s)}] + q[Max(s)]]
           h == CHOOSE g : g = Rec(g)
<1>0. S = 1 .. Len(q) /\ Len(q) \in Nat /\ IsFiniteSet(S) /\ \A x \in S : q[x] \in Nat
  BY FS_Interval
<1>1. PicksFrom(S, pick)
  <2>1. ASSUME NEW s \in SUBSET S, s # {} PROVE Max(s) \in s
    <3>1. s \in SUBSET Nat /\ IsFiniteSet(s)
      BY <1>0, FS_Subset
    <3> QED
      BY <2>1, <3>1, MaxIsGreatest
  <2> QED
    BY <2>1 DEF PicksFrom
<1>s. IsFiniteSet(S) /\ \A x \in S : q[x] \in Nat
  BY <1>0
<1>r. (\E g : TakesOut(S, q, pick, g)) /\ \A g : TakesOut(S, q, pick, g) => SumsTo(S, q, g)
  <2> HIDE DEF pick, S
  <2> QED
    BY <1>s, <1>1, RecursionSums
<1>2. ASSUME NEW g, SumsTo(S, q, g) PROVE g = Rec(g)
  <2>1. \A s \in SUBSET S : g[s] = IF s = {} THEN 0 ELSE g[s \ {Max(s)}] + q[Max(s)]
    <3> TAKE s \in SUBSET S
    <3>1. CASE s = {}
      BY <1>2, <3>1 DEF SumsTo
    <3>2. CASE s # {}
      <4>1. Max(s) \in s
        BY <1>1, <3>2 DEF PicksFrom
      <4>2. g[s] = q[Max(s)] + g[s \ {Max(s)}] /\ g[s \ {Max(s)}] \in Nat
        <5> HIDE DEF S
        <5> QED
          BY <1>2, <4>1 DEF SumsTo
      <4>3. q[Max(s)] \in Nat
        BY <1>s, <4>1
      <4> QED
        BY <3>2, <4>2, <4>3
    <3> QED
      BY <3>1, <3>2
  <2>2. g = [s \in SUBSET S |-> g[s]]
    BY <1>2 DEF SumsTo
  <2> HIDE DEF S
  <2> QED
    BY <2>1, <2>2
<1>3. \E g : g = Rec(g)
  <2>1. PICK g : SumsTo(S, q, g)
    <3> HIDE DEF S
    <3> QED
      BY <1>s, SumsExist
  <2> HIDE DEF Rec
  <2> QED
    BY <1>2, <2>1
<1>4. h = Rec(h)
  <2> HIDE DEF Rec
  <2> QED
    BY <1>3
<1>5. SeqSum(q) = h[S]
  BY DEF SeqSum, FoldLeft, MapThenFoldSet
<1> HIDE DEF h
<1>6. h = [s \in SUBSET S |-> h[s]] /\ \A s \in SUBSET S :
         h[s] = IF s = {} THEN 0 ELSE h[s \ {Max(s)}] + q[Max(s)]
  <2> DEFINE Body(s) == IF s = {} THEN 0 ELSE h[s \ {Max(s)}] + q[Max(s)]
  <2>1. h = [s \in SUBSET S |-> Body(s)]
    BY <1>4
  <2>2. h = [s \in SUBSET S |-> h[s]] /\ \A s \in SUBSET S : h[s] = Body(s)
    <3> HIDE DEF Body, S
    <3> QED
      BY <2>1
  <2> QED
    BY <2>2
<1>7. PICK g : SumsTo(S, q, g) /\ Sum(q, S) = g[S]
  <2> HIDE DEF S
  <2> QED
    BY <1>s, SumIs
<1> DEFINE Good == {s \in SUBSET S : h[s] = g[s]}
<1>8. ASSUME NEW s \in SUBSET S, \A t \in SUBSET s : t # s => t \in Good PROVE s \in Good
  <2>1. CASE s = {}
    BY <1>6, <1>7, <2>1 DEF SumsTo
  <2>2. CASE s # {}
    <3> DEFINE m == Max(s)
    <3>1. m \in s
      BY <1>1, <2>2 DEF PicksFrom
    <3>2. s \ {m} \in Good
      <4> HIDE DEF m, Good
      <4> QED
        BY <1>8, <3>1
    <3>3. h[s] = h[s \ {m}] + q[m]
      <4> HIDE DEF S
      <4> QED
        BY <1>6, <2>2
    <3> HIDE DEF m
    <3>4. g[s] = q[m] + g[s \ {m}] /\ g[s \ {m}] \in Nat
      <4> HIDE DEF S
      <4> QED
        BY <1>7, <3>1 DEF SumsTo
    <3>5. q[m] \in Nat
      BY <1>s, <3>1
    <3> QED
      BY <3>2, <3>3, <3>4, <3>5
  <2> QED
    BY <2>1, <2>2
<1>9. S \in Good
  <2>1. Good \in SUBSET (SUBSET S)
    OBVIOUS
  <2> HIDE DEF Good, S
  <2>2. \A s \in SUBSET S : s \in Good
    BY <1>s, <1>8, <2>1, SubsetInduct
  <2> QED
    BY <2>2
<1> QED
  BY <1>5, <1>7, <1>9 DEF SumsTo

(* One element more. *)
LEMMA SeqSumAppend ==
  ASSUME NEW q \in Seq(Nat), NEW x \in Nat
  PROVE  SeqSum(Append(q, x)) = SeqSum(q) + x
<1> DEFINE r == Append(q, x)
           n == Len(q)
<1>1. /\ r \in Seq(Nat) /\ n \in Nat /\ DOMAIN r = 1 .. n + 1 /\ DOMAIN q = 1 .. n
      /\ r[n + 1] = x /\ \A i \in 1 .. n : r[i] = q[i] /\ q[i] \in Nat
  OBVIOUS
<1> HIDE DEF r, n
<1>2. IsFiniteSet(1 .. n) /\ IsFiniteSet(1 .. n + 1) /\ (1 .. n + 1) \ {n + 1} = 1 .. n
  <2>1. 1 \in Int /\ n \in Int /\ n + 1 \in Int
    BY <1>1
  <2>2. (1 .. n + 1) \ {n + 1} = 1 .. n
    BY <1>1
  <2> QED
    BY <2>1, <2>2, FS_Interval
<1>3. \A i \in 1 .. n + 1 : r[i] \in Nat
  BY <1>1
<1>4. Sum(r, 1 .. n + 1) = r[n + 1] + Sum(r, (1 .. n + 1) \ {n + 1})
  BY <1>1, <1>2, <1>3, SumWithout
<1>5. Sum(r, 1 .. n) = Sum(q, 1 .. n)
  BY <1>1, <1>2, SumAgrees
<1>6. SeqSum(r) = Sum(r, 1 .. n + 1) /\ SeqSum(q) = Sum(q, 1 .. n) /\ SeqSum(q) \in Nat
  BY <1>1, SeqSumIs
<1>7. SeqSum(r) = SeqSum(q) + x
  <2>1. SeqSum(r) = x + SeqSum(q)
    BY <1>1, <1>2, <1>4, <1>5, <1>6, Zenon
  <2> QED
    BY <1>6, <2>1
<1> QED
  BY <1>7, Zenon DEF r

(* No elements. *)
LEMMA SeqSumEmpty == SeqSum(<<>>) = 0
<1>1. <<>> \in Seq(Nat) /\ DOMAIN <<>> = {}
  OBVIOUS
<1>2. SeqSum(<<>>) = Sum(<<>>, {})
  BY <1>1, SeqSumIs
<1>3. Sum(<<>>, {}) = 0
  BY FS_EmptySet, SumFacts
<1> QED
  BY <1>2, <1>3

(* A sequence cut in two. *)
LEMMA SeqSumSplits ==
  ASSUME NEW q \in Seq(Nat), NEW n \in 0 .. Len(q)
  PROVE  SeqSum(SubSeq(q, 1, n)) + SeqSum(SubSeq(q, n + 1, Len(q))) = SeqSum(q)
<1> DEFINE A == SeqSum(SubSeq(q, 1, n))
           B(k) == SeqSum(SubSeq(q, n + 1, n + k))
           C(k) == SeqSum(SubSeq(q, 1, n + k))
           Good == {k \in Nat : n + k <= Len(q) => A + B(k) = C(k)}
<1>n. n \in Nat /\ Len(q) \in Nat /\ n <= Len(q)
  OBVIOUS
<1>0. A \in Nat
  <2>1. SubSeq(q, 1, n) \in Seq(Nat)
    OBVIOUS
  <2> QED
    BY <2>1, SeqSumIs
<1>1. 0 \in Good
  <2>1. SubSeq(q, n + 1, n + 0) = <<>> /\ n + 0 = n
    OBVIOUS
  <2>2. B(0) = 0 /\ C(0) = A
    BY <2>1, SeqSumEmpty, Zenon
  <2> HIDE DEF A, B, C
  <2> QED
    BY <1>0, <2>2
<1>2. ASSUME NEW k \in Nat, n + (k + 1) <= Len(q)
      PROVE  B(k + 1) = B(k) + q[n + (k + 1)] /\ C(k + 1) = C(k) + q[n + (k + 1)]
             /\ B(k) \in Nat /\ C(k) \in Nat /\ q[n + (k + 1)] \in Nat
  <2> DEFINE a == SubSeq(q, n + 1, n + k)
             b == SubSeq(q, 1, n + k)
             x == q[n + (k + 1)]
  <2>0. n + (k + 1) \in 1 .. Len(q) /\ n + k \in Nat /\ n + k <= Len(q) /\ n + (k + 1) = (n + k) + 1
    BY <1>n, <1>2
  <2>1. a \in Seq(Nat) /\ b \in Seq(Nat) /\ x \in Nat
    BY <1>n, <2>0
  <2>2. SubSeq(q, n + 1, n + (k + 1)) = Append(a, x)
    BY <1>n, <2>0
  <2>3. SubSeq(q, 1, n + (k + 1)) = Append(b, x)
    BY <1>n, <2>0
  <2> HIDE DEF a, b, x
  <2>4. /\ SeqSum(Append(a, x)) = SeqSum(a) + x /\ SeqSum(Append(b, x)) = SeqSum(b) + x
        /\ SeqSum(a) \in Nat /\ SeqSum(b) \in Nat
    BY <2>1, SeqSumAppend, SeqSumIs
  <2> QED
    BY <2>1, <2>2, <2>3, <2>4, Zenon DEF a, b, x
<1>3. ASSUME NEW k \in Good PROVE k + 1 \in Good
  <2> HIDE DEF A, B, C
  <2>1. ASSUME n + (k + 1) <= Len(q) PROVE A + B(k + 1) = C(k + 1)
    <3>1. k \in Nat /\ A + B(k) = C(k)
      BY <1>n, <1>3, <2>1
    <3> DEFINE x == q[n + (k + 1)]
    <3>2. /\ B(k + 1) = B(k) + x /\ C(k + 1) = C(k) + x
          /\ B(k) \in Nat /\ C(k) \in Nat /\ x \in Nat
      BY <1>2, <2>1, <3>1
    <3> HIDE DEF x
    <3> QED
      BY <1>0, <3>1, <3>2
  <2> QED
    BY <2>1
<1>4. \A k \in Nat : k \in Good
  <2>1. Good \in SUBSET Nat
    OBVIOUS
  <2> HIDE DEF Good
  <2> QED
    BY <1>1, <1>3, <2>1, NatInduct
<1>5. A + B(Len(q) - n) = C(Len(q) - n)
  <2> HIDE DEF A, B, C
  <2> QED
    BY <1>n, <1>4
<1>6. n + (Len(q) - n) = Len(q) /\ SubSeq(q, 1, Len(q)) = q
  OBVIOUS
<1> QED
  BY <1>5, <1>6, Zenon

(* A bound on the elements bounds the sum. *)
LEMMA SeqSumBounded ==
  ASSUME NEW q \in Seq(Nat), NEW b \in Nat, \A i \in 1 .. Len(q) : q[i] <= b
  PROVE  SeqSum(q) <= Len(q) * b
<1> DEFINE A(k) == SeqSum(SubSeq(q, 1, k))
           Good == {k \in Nat : k <= Len(q) => A(k) <= k * b}
<1>n. Len(q) \in Nat
  OBVIOUS
<1>1. 0 \in Good
  <2>1. SubSeq(q, 1, 0) = <<>> /\ 0 * b = 0
    OBVIOUS
  <2>2. A(0) = 0
    BY <2>1, SeqSumEmpty, Zenon
  <2> HIDE DEF A
  <2> QED
    BY <2>1, <2>2
<1>2. ASSUME NEW k \in Nat, k + 1 <= Len(q)
      PROVE  A(k + 1) = A(k) + q[k + 1] /\ A(k) \in Nat
  <2> DEFINE a == SubSeq(q, 1, k)
             x == q[k + 1]
  <2>1. a \in Seq(Nat) /\ x \in Nat
    BY <1>n, <1>2
  <2>2. SubSeq(q, 1, k + 1) = Append(a, x)
    BY <1>n, <1>2
  <2> HIDE DEF a, x
  <2>3. SeqSum(Append(a, x)) = SeqSum(a) + x /\ SeqSum(a) \in Nat
    BY <2>1, SeqSumAppend, SeqSumIs
  <2> QED
    BY <2>2, <2>3, Zenon DEF a, x
<1>3. ASSUME NEW k \in Good PROVE k + 1 \in Good
  <2> HIDE DEF A
  <2>1. ASSUME k + 1 <= Len(q) PROVE A(k + 1) <= (k + 1) * b
    <3>1. k \in Nat /\ A(k) <= k * b
      BY <1>n, <1>3, <2>1
    <3>2. k * b \in Nat /\ (k + 1) * b = k * b + b
      BY <3>1
    <3>3. q[k + 1] \in Nat /\ q[k + 1] <= b
      BY <1>n, <2>1, <3>1
    <3>4. A(k + 1) = A(k) + q[k + 1] /\ A(k) \in Nat
      BY <1>2, <2>1, <3>1
    <3> DEFINE y == q[k + 1]
               c == k * b
               d == (k + 1) * b
    <3> HIDE DEF y, c, d
    <3>5. A(k) + y <= d
      BY <3>1, <3>2, <3>3, <3>4 DEF y, c, d
    <3> QED
      BY <3>4, <3>5 DEF y, d
  <2> QED
    BY <2>1
<1>4. \A k \in Nat : k \in Good
  <2>1. Good \in SUBSET Nat
    OBVIOUS
  <2> HIDE DEF Good
  <2> QED
    BY <1>1, <1>3, <2>1, NatInduct
<1>5. A(Len(q)) <= Len(q) * b
  <2> HIDE DEF A
  <2> QED
    BY <1>n, <1>4
<1>6. SubSeq(q, 1, Len(q)) = q
  OBVIOUS
<1> QED
  BY <1>5, <1>6, Zenon

-----------------------------------------------------------------------------
(* Where sequences lie in what they are put together to. *)

(* Where the members of ss lie in what they are put together to: o[i] elements come
   before those of the i-th. *)
Offsets(ss, o) ==
    /\ o \in [1 .. Len(ss) + 1 -> Nat] /\ o[1] = 0
    /\ \A i \in 1 .. Len(ss) : o[i + 1] = o[i] + Len(ss[i])
    /\ \A i, m \in 1 .. Len(ss) : i < m => o[i] + Len(ss[i]) <= o[m]

Placed(ss, all, o) ==
    /\ Len(all) = o[Len(ss) + 1]
    /\ \A i \in 1 .. Len(ss) : \A j \in 1 .. Len(ss[i]) :
         o[i] + j \in 1 .. Len(all) /\ all[o[i] + j] = ss[i][j]
    /\ \A k \in 1 .. Len(all) : \E i \in 1 .. Len(ss) : \E j \in 1 .. Len(ss[i]) : k = o[i] + j

(* One sequence more. *)
LEMMA PlacedAppend ==
  ASSUME NEW S, NEW ss \in Seq(Seq(S)), NEW o, NEW all \in Seq(S), NEW t \in Seq(S),
         Offsets(ss, o), Placed(ss, all, o)
  PROVE  LET tt == Append(ss, t)
             p  == [i \in 1 .. Len(ss) + 2 |->
                      IF i = Len(ss) + 2 THEN Len(all) + Len(t) ELSE o[i]]
         IN  Offsets(tt, p) /\ Placed(tt, all \o t, p)
<1> DEFINE n == Len(ss)
           tt == Append(ss, t)
           p  == [i \in 1 .. n + 2 |-> IF i = n + 2 THEN Len(all) + Len(t) ELSE o[i]]
           l == Len(all)
           e == Len(t)
           V == Seq(S)
<1>0. n \in Nat /\ l \in Nat /\ e \in Nat
  OBVIOUS
<1>1. /\ o \in [1 .. n + 1 -> Nat] /\ o[1] = 0 /\ o[n + 1] = l
      /\ \A i \in 1 .. n : o[i + 1] = o[i] + Len(ss[i])
      /\ \A i, m \in 1 .. n : i < m => o[i] + Len(ss[i]) <= o[m]
  BY Zenon DEF Offsets, Placed
<1>2. Len(tt) = n + 1 /\ tt[n + 1] = t /\ \A i \in 1 .. n : tt[i] = ss[i] /\ Len(ss[i]) \in Nat
  <2>1. ss \in Seq(V) /\ t \in V
    OBVIOUS
  <2>2. \A i \in 1 .. n : ss[i] \in Seq(S)
    OBVIOUS
  <2>3. Len(tt) = n + 1 /\ tt[n + 1] = t /\ \A i \in 1 .. n : tt[i] = ss[i]
    <3> HIDE DEF V
    <3> QED
      BY <2>1
  <2>4. \A i \in 1 .. n : Len(ss[i]) \in Nat
    BY <2>2
  <2> QED
    BY <2>3, <2>4
<1> HIDE DEF tt, n, l, e
<1>p. /\ p \in [1 .. n + 2 -> Nat] /\ p[n + 2] = l + e /\ p[n + 1] = l /\ p[1] = 0
      /\ \A i \in 1 .. n + 1 : p[i] = o[i]
  BY <1>0, <1>1 DEF l, e
<1> HIDE DEF p
<1>3. \A i \in 1 .. n + 1 : p[i + 1] = p[i] + Len(tt[i])
  <2> TAKE i \in 1 .. n + 1
  <2>1. CASE i = n + 1
    <3>1. p[i] = l /\ i + 1 = n + 2 /\ Len(tt[i]) = e
      BY <1>0, <1>2, <1>p, <2>1 DEF e
    <3> QED
      BY <1>p, <3>1
  <2>2. CASE i # n + 1
    <3>1. i \in 1 .. n /\ i + 1 \in 1 .. n + 1
      BY <1>0, <2>2
    <3> QED
      BY <1>1, <1>2, <1>p, <3>1
  <2> QED
    BY <2>1, <2>2
<1>4. \A i \in 1 .. n : o[i] + Len(ss[i]) <= l
  <2> TAKE i \in 1 .. n
  <2>0. o[i] \in Nat /\ Len(ss[i]) \in Nat
    <3>1. i \in 1 .. n + 1
      BY <1>0
    <3> QED
      BY <1>1, <1>2, <3>1, Zenon
  <2>1. CASE i = n
    <3>1. l = o[i] + Len(ss[i])
      BY <1>1, <2>1, Zenon
    <3> QED
      BY <1>0, <2>0, <3>1
  <2>2. CASE i # n
    <3>1. n \in 1 .. n /\ n \in 1 .. n + 1 /\ i < n
      BY <1>0, <2>2
    <3>2. o[i] + Len(ss[i]) <= o[n] /\ o[n] \in Nat /\ Len(ss[n]) \in Nat
      BY <1>1, <1>2, <3>1, Zenon
    <3>3. l = o[n] + Len(ss[n])
      BY <1>1, <3>1, Zenon
    <3> DEFINE x == o[i] + Len(ss[i])
               y == o[n]
               z == Len(ss[n])
    <3>4. x \in Nat /\ y \in Nat /\ z \in Nat /\ x <= y /\ l = y + z
      BY <2>0, <3>2, <3>3
    <3> HIDE DEF x, y, z
    <3>5. x <= l
      BY <3>4
    <3> QED
      BY <3>5 DEF x
  <2> QED
    BY <2>1, <2>2
<1>5. \A i, m \in 1 .. n + 1 : i < m => p[i] + Len(tt[i]) <= p[m]
  <2> TAKE i, m \in 1 .. n + 1
  <2>1. HAVE i < m
  <2>2. i \in 1 .. n /\ p[i] = o[i] /\ tt[i] = ss[i]
    BY <1>0, <1>2, <1>p, <2>1
  <2>3. CASE m = n + 1
    <3>1. p[m] = l
      BY <1>p, <2>3
    <3>2. o[i] + Len(ss[i]) <= l
      BY <1>4, <2>2
    <3> QED
      BY <2>2, <3>1, <3>2, Zenon
  <2>4. CASE m # n + 1
    <3>1. m \in 1 .. n /\ p[m] = o[m]
      BY <1>0, <1>p, <2>4
    <3>2. o[i] + Len(ss[i]) <= o[m]
      BY <1>1, <2>1, <2>2, <3>1, Zenon
    <3> QED
      BY <2>2, <3>1, <3>2, Zenon
  <2> QED
    BY <2>3, <2>4
<1>6. Offsets(tt, p)
  <2>1. Len(tt) + 1 = n + 2
    BY <1>0, <1>2
  <2> QED
    BY <1>2, <1>p, <1>3, <1>5, <2>1, Zenon DEF Offsets
<1> DEFINE a == all \o t
<1>7. /\ Len(a) = l + e /\ \A k \in 1 .. l : a[k] = all[k]
      /\ \A j \in 1 .. e : a[l + j] = t[j]
  BY DEF l, e
<1> HIDE DEF a
<1>8. ASSUME NEW i \in 1 .. n + 1, NEW j \in 1 .. Len(tt[i])
      PROVE  p[i] + j \in 1 .. Len(a) /\ a[p[i] + j] = tt[i][j]
  <2>1. CASE i = n + 1
    <3>1. p[i] = l /\ tt[i] = t /\ j \in 1 .. e
      BY <1>2, <1>8, <1>p, <2>1 DEF e
    <3> HIDE DEF tt
    <3>2. l + j \in 1 .. l + e
      BY <1>0, <3>1
    <3> QED
      BY <1>7, <3>1, <3>2, Zenon
  <2>2. CASE i # n + 1
    <3>1. i \in 1 .. n /\ p[i] = o[i] /\ tt[i] = ss[i] /\ j \in 1 .. Len(ss[i])
      BY <1>0, <1>2, <1>p, <1>8, <2>2
    <3>2. o[i] + j \in 1 .. l /\ all[o[i] + j] = ss[i][j]
      BY <3>1, Zenon DEF Placed, n, l
    <3>3. o[i] + j \in 1 .. l + e
      BY <1>0, <3>2
    <3> QED
      BY <1>7, <3>1, <3>2, <3>3, Zenon
  <2> QED
    BY <2>1, <2>2
<1>9. ASSUME NEW k \in 1 .. Len(a)
      PROVE  \E i \in 1 .. n + 1 : \E j \in 1 .. Len(tt[i]) : k = p[i] + j
  <2>1. CASE k \in 1 .. l
    <3>1. PICK i \in 1 .. n : \E j \in 1 .. Len(ss[i]) : k = o[i] + j
      BY <2>1, Zenon DEF Placed, n, l
    <3>2. i \in 1 .. n + 1 /\ p[i] = o[i] /\ tt[i] = ss[i]
      BY <1>0, <1>2, <1>p
    <3> QED
      BY <3>1, <3>2, Zenon
  <2>2. CASE k \notin 1 .. l
    <3>1. k - l \in 1 .. e /\ k = l + (k - l) /\ n + 1 \in 1 .. n + 1
      BY <1>0, <1>7, <2>2
    <3>2. p[n + 1] = l /\ Len(tt[n + 1]) = e
      BY <1>2, <1>p DEF e
    <3> QED
      BY <3>1, <3>2, Zenon
  <2> QED
    BY <2>1, <2>2
<1>10. Placed(tt, a, p)
  <2>1. Len(tt) = n + 1 /\ Len(a) = p[n + 2]
    BY <1>2, <1>7, <1>p, Zenon
  <2>2. Len(tt) + 1 = n + 2
    BY <1>0, <2>1
  <2>3. \A i \in 1 .. Len(tt) : \A j \in 1 .. Len(tt[i]) :
           p[i] + j \in 1 .. Len(a) /\ a[p[i] + j] = tt[i][j]
    BY <1>8, <2>1
  <2>4. \A k \in 1 .. Len(a) : \E i \in 1 .. Len(tt) : \E j \in 1 .. Len(tt[i]) : k = p[i] + j
    BY <1>9, <2>1
  <2>5. Len(a) = p[Len(tt) + 1]
    BY <2>1, <2>2
  <2> QED
    BY <2>3, <2>4, <2>5, Zenon DEF Placed
<1> QED
  BY <1>6, <1>10 DEF tt, p, a, n, l, e

(* Sequences put together keep their places. *)
LEMMA FlattenPlaces ==
  ASSUME NEW S, NEW ss \in Seq(Seq(S))
  PROVE  \E o : Offsets(ss, o) /\ Placed(ss, FlattenSeq(ss), o)
<1> DEFINE V == Seq(S)
<1>v. ss \in Seq(V)
  OBVIOUS
<1>0. Len(ss) \in Nat /\ \A i \in 1 .. Len(ss) : ss[i] \in Seq(S)
  OBVIOUS
<1>1. CASE Len(ss) = 0
  <2>1. ss = <<>>
    <3> HIDE DEF V
    <3> QED
      BY <1>v, <1>1, EmptySeq
  <2>2. FlattenSeq(ss) = <<>>
    BY <1>1, <2>1 DEF FlattenSeq
  <2> DEFINE o == [i \in 1 .. 1 |-> 0]
  <2>3. Offsets(<<>>, o) /\ Placed(<<>>, <<>>, o)
    BY DEF Offsets, Placed
  <2> HIDE DEF o
  <2> QED
    BY <2>1, <2>2, <2>3
<1>2. CASE Len(ss) # 0
  <2>1. PICK f : FlattensTo(S, ss, f)
    BY <1>2, FlattenSteps
  <2> DEFINE n == Len(ss)
             pre(m) == SubSeq(ss, 1, m)
             Good == {m \in Nat : m + 1 \in 1 .. n =>
                        \E o : Offsets(pre(m + 1), o) /\ Placed(pre(m + 1), f[m + 1], o)}
  <2>2. /\ n \in Nat /\ n # 0 /\ f \in [1 .. n -> Seq(S)] /\ f[1] = ss[1]
        /\ \A i \in 2 .. n : f[i] = f[i - 1] \o ss[i]
        /\ FlattenSeq(ss) = f[n]
    BY <1>0, <1>2, <2>1, Zenon DEF FlattensTo
  <2>3. \A m \in 1 .. n : pre(m) \in Seq(V) /\ Len(pre(m)) = m
    <3> HIDE DEF V
    <3> QED
      BY <1>v
  <2>4. \A m \in 0 .. n : m + 1 \in 1 .. n => pre(m + 1) = Append(pre(m), ss[m + 1])
    <3> HIDE DEF V
    <3> QED
      BY <1>v
  <2>5. pre(1) = Append(<<>>, ss[1]) /\ pre(n) = ss
    <3> HIDE DEF V
    <3>1. pre(0) = <<>> /\ pre(n) = ss
      BY <1>v
    <3>2. 0 \in 0 .. n /\ 0 + 1 \in 1 .. n /\ 0 + 1 = 1
      BY <1>0, <1>2
    <3> HIDE DEF n, pre
    <3>3. pre(0 + 1) = Append(pre(0), ss[0 + 1])
      BY <2>4, <3>2, Zenon
    <3> QED
      BY <3>1, <3>2, <3>3, Zenon
  <2> HIDE DEF n, pre
  <2>6. 0 \in Good
    <3> DEFINE o == [i \in 1 .. 1 |-> 0]
    <3>1. Offsets(<<>>, o) /\ Placed(<<>>, <<>>, o)
      BY DEF Offsets, Placed
    <3>2. ss[1] \in Seq(S) /\ <<>> \in Seq(S) /\ <<>> \in Seq(Seq(S))
      BY <1>0, <2>2 DEF n
    <3> HIDE DEF o
    <3>3. \E p : Offsets(Append(<<>>, ss[1]), p) /\ Placed(Append(<<>>, ss[1]), <<>> \o ss[1], p)
      BY <3>1, <3>2, PlacedAppend
    <3>4. <<>> \o ss[1] = f[1] /\ 0 + 1 = 1
      BY <2>2, <3>2, ConcatEmptySeq
    <3>5. \E p : Offsets(pre(0 + 1), p) /\ Placed(pre(0 + 1), f[0 + 1], p)
      BY <2>5, <3>3, <3>4, Zenon
    <3> QED
      BY <3>5
  <2>7. ASSUME NEW m \in Good PROVE m + 1 \in Good
    <3>0. m \in Nat
      OBVIOUS
    <3>1. ASSUME (m + 1) + 1 \in 1 .. n
          PROVE  \E o : Offsets(pre((m + 1) + 1), o) /\ Placed(pre((m + 1) + 1), f[(m + 1) + 1], o)
      <4> DEFINE k == m + 1
      <4>1. k \in 1 .. n /\ k + 1 \in 1 .. n /\ k + 1 \in 2 .. n /\ (k + 1) - 1 = k
        BY <2>2, <3>0, <3>1
      <4>2. PICK o : Offsets(pre(k), o) /\ Placed(pre(k), f[k], o)
        BY <2>7, <4>1
      <4> HIDE DEF k
      <4>3. pre(k) \in Seq(Seq(S)) /\ f[k] \in Seq(S) /\ ss[k + 1] \in Seq(S)
        BY <1>0, <2>2, <2>3, <4>1 DEF n
      <4>4. f[k + 1] = f[k] \o ss[k + 1] /\ pre(k + 1) = Append(pre(k), ss[k + 1])
        <5>1. k \in 0 .. n
          BY <4>1
        <5> QED
          BY <2>2, <2>4, <4>1, <5>1
      <4>5. \E p : /\ Offsets(Append(pre(k), ss[k + 1]), p)
                   /\ Placed(Append(pre(k), ss[k + 1]), f[k] \o ss[k + 1], p)
        BY <4>2, <4>3, PlacedAppend
      <4>6. \E p : Offsets(pre(k + 1), p) /\ Placed(pre(k + 1), f[k + 1], p)
        BY <4>4, <4>5, Zenon
      <4> QED
        BY <4>6 DEF k
    <3> QED
      BY <3>0, <3>1
  <2>8. \A m \in Nat : m \in Good
    <3>1. Good \in SUBSET Nat
      OBVIOUS
    <3> HIDE DEF Good
    <3> QED
      BY <2>6, <2>7, <3>1, NatInduct
  <2>9. n - 1 \in Nat /\ (n - 1) + 1 = n /\ n \in 1 .. n
    BY <2>2
  <2>10. \E o : Offsets(pre(n), o) /\ Placed(pre(n), f[n], o)
    BY <2>8, <2>9
  <2> QED
    BY <2>2, <2>5, <2>10, Zenon
<1> QED
  BY <1>1, <1>2

(* Two places are the same only for the same element of the same sequence. *)
LEMMA PlacesDiffer ==
  ASSUME NEW ss, Len(ss) \in Nat, NEW o, Offsets(ss, o),
         NEW i \in 1 .. Len(ss), NEW m \in 1 .. Len(ss), Len(ss[i]) \in Nat, Len(ss[m]) \in Nat,
         NEW j \in 1 .. Len(ss[i]), NEW k \in 1 .. Len(ss[m]), o[i] + j = o[m] + k
  PROVE  i = m /\ j = k
<1>0. o[i] \in Nat /\ o[m] \in Nat
  <2>1. i \in 1 .. Len(ss) + 1 /\ m \in 1 .. Len(ss) + 1
    OBVIOUS
  <2> QED
    BY <2>1, Zenon DEF Offsets
<1>1. /\ i < m => o[i] + Len(ss[i]) <= o[m]
      /\ m < i => o[m] + Len(ss[m]) <= o[i]
  BY Zenon DEF Offsets
<1>2. ~(i < m) /\ ~(m < i)
  <2> DEFINE a == Len(ss[i])
             c == Len(ss[m])
             x == o[i]
             y == o[m]
  <2>1. a \in Nat /\ c \in Nat /\ j \in 1 .. a /\ k \in 1 .. c
    OBVIOUS
  <2>2. x + j = y + k /\ (i < m => x + a <= y) /\ (m < i => y + c <= x)
    BY <1>1
  <2>3. x \in Nat /\ y \in Nat
    BY <1>0
  <2> HIDE DEF a, c, x, y
  <2> QED
    BY <2>1, <2>2, <2>3
<1>3. i = m
  BY <1>2
<1> QED
  BY <1>0, <1>3

(* Sequences of one length lie at its multiples. *)
SameLength(ss, d) ==
    Len(ss) \in Nat /\ d \in Nat /\ \A i \in 1 .. Len(ss) : Len(ss[i]) = d

LEMMA EvenOffsets ==
  ASSUME NEW ss, NEW o, NEW d, SameLength(ss, d), Offsets(ss, o)
  PROVE  \A i \in 1 .. Len(ss) + 1 : o[i] = d * (i - 1)
<1> DEFINE n == Len(ss)
           Good == {m \in Nat : m <= n => o[m + 1] = d * m}
<1>0. n \in Nat /\ o[1] = 0 /\ \A i \in 1 .. n : o[i + 1] = o[i] + d
  BY Zenon DEF Offsets, SameLength
<1>d. d \in Nat
  BY DEF SameLength
<1> HIDE DEF n
<1>1. 0 \in Good
  <2>1. 0 + 1 = 1 /\ d * 0 = 0 /\ 0 \in Nat
    BY <1>d
  <2>2. o[0 + 1] = d * 0
    BY <1>0, <2>1, Zenon
  <2> QED
    BY <2>1, <2>2
<1>2. ASSUME NEW m \in Good PROVE m + 1 \in Good
  <2>0. m \in Nat /\ m + 1 \in Nat
    OBVIOUS
  <2>1. ASSUME m + 1 <= n PROVE o[(m + 1) + 1] = d * (m + 1)
    <3>1. m + 1 \in 1 .. n /\ m <= n
      BY <1>0, <2>0, <2>1
    <3>2. o[m + 1] = d * m
      BY <3>1
    <3>3. o[(m + 1) + 1] = o[m + 1] + d
      BY <1>0, <3>1
    <3>4. d * (m + 1) = d * m + d
      BY <1>d, <2>0
    <3> QED
      BY <3>2, <3>3, <3>4, Zenon
  <2> QED
    BY <2>0, <2>1
<1>3. \A m \in Nat : m \in Good
  <2>1. Good \in SUBSET Nat
    OBVIOUS
  <2> HIDE DEF Good
  <2> QED
    BY <1>1, <1>2, <2>1, NatInduct
<1>4. ASSUME NEW i \in 1 .. n + 1 PROVE o[i] = d * (i - 1)
  <2>1. i - 1 \in Nat /\ i - 1 <= n /\ (i - 1) + 1 = i
    BY <1>0
  <2>2. o[(i - 1) + 1] = d * (i - 1)
    BY <1>3, <2>1
  <2> QED
    BY <2>1, <2>2, Zenon
<1> QED
  BY <1>4 DEF n

-----------------------------------------------------------------------------
(* Lists of sets, and sums in segments. *)

(* The members of S below x, and how many they are. *)
Below(S, x) == {y \in S : y < x}
Rank(S, x) == Cardinality(Below(S, x))

(* What is below a member. *)
LEMMA BelowGrows ==
  ASSUME NEW S \in SUBSET Nat, NEW x \in S
  PROVE  /\ Below(S, x) \in SUBSET S /\ x \notin Below(S, x)
         /\ \A z \in S : x < z => x \in Below(S, z) /\ Below(S, x) \in SUBSET Below(S, z)
<1>1. x \in Nat /\ \A y \in S : y \in Nat
  OBVIOUS
<1>2. Below(S, x) \in SUBSET S /\ x \notin Below(S, x)
  BY <1>1 DEF Below
<1>3. ASSUME NEW z \in S, x < z PROVE x \in Below(S, z) /\ Below(S, x) \in SUBSET Below(S, z)
  <2>1. \A y \in S : y < x => y < z
    BY <1>1, <1>3
  <2> QED
    BY <1>3, <2>1 DEF Below
<1> QED
  BY <1>2, <1>3

(* Ranks ascend with the members. *)
LEMMA RankFacts ==
  ASSUME NEW S \in SUBSET Nat, IsFiniteSet(S)
  PROVE  /\ \A x \in S : Rank(S, x) \in Nat /\ Rank(S, x) < Cardinality(S)
         /\ \A x, z \in S : Rank(S, x) = Rank(S, z) => x = z
<1>0. Cardinality(S) \in Nat
  BY FS_CardinalityType
<1>1. ASSUME NEW x \in S PROVE Rank(S, x) \in Nat /\ IsFiniteSet(Below(S, x))
  BY BelowGrows, FS_Subset, FS_CardinalityType DEF Rank
<1>2. ASSUME NEW x \in S, NEW z \in S, x < z PROVE Rank(S, x) # Rank(S, z)
  <2>1. x \in Below(S, z) /\ x \notin Below(S, x) /\ Below(S, x) \in SUBSET Below(S, z)
    BY <1>2, BelowGrows
  <2>2. Cardinality(Below(S, z)) = Cardinality(Below(S, x)) => Below(S, z) = Below(S, x)
    BY <1>1, <2>1, FS_Subset
  <2> QED
    BY <2>1, <2>2, Zenon DEF Rank
<1>3. ASSUME NEW x \in S PROVE Rank(S, x) < Cardinality(S)
  <2>1. Below(S, x) \in SUBSET S /\ x \notin Below(S, x)
    BY BelowGrows
  <2>2. /\ Cardinality(Below(S, x)) <= Cardinality(S)
        /\ Cardinality(S) = Cardinality(Below(S, x)) => S = Below(S, x)
    BY <2>1, FS_Subset
  <2>3. Rank(S, x) <= Cardinality(S) /\ Rank(S, x) # Cardinality(S)
    BY <2>1, <2>2, Zenon DEF Rank
  <2> QED
    BY <1>0, <1>1, <2>3
<1>4. ASSUME NEW x \in S, NEW z \in S, Rank(S, x) = Rank(S, z) PROVE x = z
  <2>1. x \in Nat /\ z \in Nat
    OBVIOUS
  <2>2. ~(x < z) /\ ~(z < x)
    BY <1>2, <1>4, Zenon
  <2> QED
    BY <2>1, <2>2
<1> QED
  BY <1>1, <1>3, <1>4

(* q lists every member of S once. *)
Lists(S, q) ==
    /\ q \in Seq(S)
    /\ \A x \in S : \E n \in 1 .. Len(q) : q[n] = x
    /\ \A m, n \in 1 .. Len(q) : q[m] = q[n] => m = n

(* Two lists of disjoint sets, one after the other. *)
LEMMA ListsConcat ==
  ASSUME NEW S, NEW T, NEW p, NEW q, Lists(S, p), Lists(T, q), S \cap T = {}
  PROVE  Lists(S \cup T, p \o q) /\ Len(p \o q) = Len(p) + Len(q)
<1> DEFINE a == Len(p)
           c == Len(q)
           z == p \o q
           U == S \cup T
<1>0. a \in Nat /\ c \in Nat /\ p \in Seq(U) /\ q \in Seq(U)
  BY DEF Lists
<1>1. /\ \A i \in 1 .. a : p[i] \in S
      /\ \A x \in S : \E n \in 1 .. a : p[n] = x
      /\ \A m, n \in 1 .. a : p[m] = p[n] => m = n
  BY DEF Lists
<1>2. /\ \A i \in 1 .. c : q[i] \in T
      /\ \A x \in T : \E n \in 1 .. c : q[n] = x
      /\ \A m, n \in 1 .. c : q[m] = q[n] => m = n
  BY DEF Lists
<1>3. /\ z \in Seq(U) /\ Len(z) = a + c
      /\ \A i \in 1 .. a : z[i] = p[i]
      /\ \A i \in 1 .. c : z[a + i] = q[i]
  <2> HIDE DEF U
  <2> QED
    BY <1>0
<1> HIDE DEF z, a, c
<1>4. ASSUME NEW x \in U PROVE \E n \in 1 .. a + c : z[n] = x
  <2>1. CASE x \in S
    <3>1. PICK n \in 1 .. a : p[n] = x
      BY <1>1, <2>1
    <3>2. n \in 1 .. a + c
      BY <1>0
    <3> QED
      BY <1>3, <3>1, <3>2
  <2>2. CASE x \in T
    <3>1. PICK n \in 1 .. c : q[n] = x
      BY <1>2, <2>2
    <3>2. a + n \in 1 .. a + c
      BY <1>0
    <3> QED
      BY <1>3, <3>1, <3>2
  <2> QED
    BY <2>1, <2>2
<1>5. ASSUME NEW m \in 1 .. a + c, NEW n \in 1 .. a + c, z[m] = z[n] PROVE m = n
  <2>1. CASE m \in 1 .. a /\ n \in 1 .. a
    BY <1>1, <1>3, <1>5, <2>1, Zenon
  <2>2. CASE m \in 1 .. a /\ n \notin 1 .. a
    <3>1. n - a \in 1 .. c /\ a + (n - a) = n
      BY <1>0, <2>2
    <3>2. z[n] \in T /\ z[m] \in S
      BY <1>1, <1>2, <1>3, <2>2, <3>1
    <3> QED
      BY <1>5, <3>2
  <2>3. CASE m \notin 1 .. a /\ n \in 1 .. a
    <3>1. m - a \in 1 .. c /\ a + (m - a) = m
      BY <1>0, <2>3
    <3>2. z[m] \in T /\ z[n] \in S
      BY <1>1, <1>2, <1>3, <2>3, <3>1
    <3> QED
      BY <1>5, <3>2
  <2>4. CASE m \notin 1 .. a /\ n \notin 1 .. a
    <3>1. /\ n - a \in 1 .. c /\ a + (n - a) = n
          /\ m - a \in 1 .. c /\ a + (m - a) = m
      BY <1>0, <2>4
    <3>2. z[m] = q[m - a] /\ z[n] = q[n - a]
      BY <1>3, <3>1
    <3>3. m - a = n - a
      BY <1>2, <1>5, <3>1, <3>2, Zenon
    <3> QED
      BY <1>0, <3>3
  <2> QED
    BY <2>1, <2>2, <2>3, <2>4
<1>6. Lists(U, z)
  BY <1>3, <1>4, <1>5, Zenon DEF Lists
<1> QED
  BY <1>3, <1>6 DEF z, a, c, U

(* The sum of the first k values, term by term. *)
LEMMA PrefixSums ==
  ASSUME NEW n \in Nat, NEW v, \A i \in 1 .. n : v[i] \in Nat
  PROVE  /\ Sum(v, 1 .. 0) = 0
         /\ \A k \in 0 .. n : Sum(v, 1 .. k) \in Nat
         /\ \A k \in 0 .. n : k + 1 \in 1 .. n =>
              Sum(v, 1 .. k + 1) = Sum(v, 1 .. k) + v[k + 1]
<1>1. Sum(v, 1 .. 0) = 0
  <2>1. 1 .. 0 = {}
    OBVIOUS
  <2>2. Sum(v, {}) = 0
    BY FS_EmptySet, SumFacts
  <2> QED
    BY <2>1, <2>2, Zenon
<1>2. ASSUME NEW k \in 0 .. n PROVE Sum(v, 1 .. k) \in Nat /\ IsFiniteSet(1 .. k)
  <2>1. k \in Int /\ 1 \in Int /\ \A i \in 1 .. k : i \in 1 .. n
    OBVIOUS
  <2>2. \A i \in 1 .. k : v[i] \in Nat
    BY <2>1, Zenon
  <2>3. IsFiniteSet(1 .. k)
    BY <2>1, FS_Interval
  <2> QED
    BY <2>2, <2>3, SumFacts
<1>3. ASSUME NEW k \in 0 .. n, k + 1 \in 1 .. n
      PROVE  Sum(v, 1 .. k + 1) = Sum(v, 1 .. k) + v[k + 1]
  <2>1. /\ k + 1 \in 0 .. n /\ k + 1 \in 1 .. k + 1 /\ (1 .. k + 1) \ {k + 1} = 1 .. k
        /\ \A i \in 1 .. k + 1 : i \in 1 .. n
    BY <1>3
  <2>2. IsFiniteSet(1 .. k + 1) /\ \A i \in 1 .. k + 1 : v[i] \in Nat
    BY <1>2, <2>1, Zenon
  <2> DEFINE T == 1 .. k + 1
             x == k + 1
  <2>3. IsFiniteSet(T) /\ (\A i \in T : v[i] \in Nat) /\ x \in T /\ T \ {x} = 1 .. k
    BY <2>1, <2>2
  <2> HIDE DEF T, x
  <2>4. Sum(v, T) = v[x] + Sum(v, T \ {x})
    BY <2>3, SumWithout
  <2>5. Sum(v, T) = v[x] + Sum(v, 1 .. k) /\ v[x] \in Nat /\ Sum(v, 1 .. k) \in Nat
    BY <1>2, <2>3, <2>4
  <2>6. Sum(v, T) = Sum(v, 1 .. k) + v[x]
    BY <2>5
  <2> QED
    BY <2>6 DEF T, x
<1> QED
  BY <1>1, <1>2, <1>3

(* A run of c equal values x, or of c pairs x, y, after the first a of n values. *)
RunsOne(n, v, a, c, x) ==
    /\ n \in Nat /\ a \in Nat /\ c \in Nat /\ x \in Nat /\ a + c <= n
    /\ \A i \in 1 .. n : v[i] \in Nat
    /\ \A j \in 1 .. c : v[a + j] = x

RunsTwo(n, v, a, c, x, y) ==
    /\ n \in Nat /\ a \in Nat /\ c \in Nat /\ x \in Nat /\ y \in Nat /\ a + 2 * c <= n
    /\ \A i \in 1 .. n : v[i] \in Nat
    /\ \A j \in 1 .. c : v[a + (2 * j - 1)] = x /\ v[a + 2 * j] = y

LEMMA RunOfOne ==
  ASSUME NEW n, NEW v, NEW a, NEW c, NEW x, RunsOne(n, v, a, c, x)
  PROVE  Sum(v, 1 .. a + c) = Sum(v, 1 .. a) + c * x
<1> SUFFICES ASSUME n \in Nat, a \in Nat, c \in Nat, x \in Nat, a + c <= n,
                    \A i \in 1 .. n : v[i] \in Nat, \A j \in 1 .. c : v[a + j] = x
             PROVE  Sum(v, 1 .. a + c) = Sum(v, 1 .. a) + c * x
  BY DEF RunsOne
<1> DEFINE P(k) == Sum(v, 1 .. k)
           Good == {m \in Nat : m <= c => P(a + m) = P(a) + m * x}
<1>0. /\ \A k \in 0 .. n : P(k) \in Nat
      /\ \A k \in 0 .. n : k + 1 \in 1 .. n => P(k + 1) = P(k) + v[k + 1]
  BY PrefixSums
<1> HIDE DEF P
<1>1. 0 \in Good
  <2>1. a + 0 = a /\ 0 * x = 0 /\ P(a) \in Nat /\ P(a) + 0 = P(a)
    BY <1>0
  <2> QED
    BY <2>1
<1>2. ASSUME NEW m \in Good PROVE m + 1 \in Good
  <2>1. ASSUME m + 1 <= c PROVE P(a + (m + 1)) = P(a) + (m + 1) * x
    <3>1. /\ m \in Nat /\ a + m \in 0 .. n /\ (a + m) + 1 \in 1 .. n /\ m + 1 \in 1 .. c /\ a \in 0 .. n
          /\ a + (m + 1) = (a + m) + 1
      BY <2>1
    <3>2. P(a + m) = P(a) + m * x
      BY <2>1, <3>1
    <3>3. P((a + m) + 1) = P(a + m) + v[(a + m) + 1]
      BY <1>0, <3>1
    <3>4. v[(a + m) + 1] = x
      <4>1. v[a + (m + 1)] = x
        BY <3>1
      <4> QED
        BY <3>1, <4>1, Zenon
    <3>5. P(a) \in Nat /\ m * x \in Nat /\ (m + 1) * x = m * x + x
      BY <1>0, <3>1
    <3> DEFINE y == m * x
    <3> HIDE DEF y
    <3>6. P(a + (m + 1)) = (P(a) + y) + x /\ (m + 1) * x = y + x /\ y \in Nat
      BY <3>1, <3>2, <3>3, <3>4, <3>5, Zenon DEF y
    <3> QED
      BY <3>5, <3>6
  <2>2. m + 1 \in Nat
    OBVIOUS
  <2> QED
    BY <2>1, <2>2
<1>3. \A m \in Nat : m \in Good
  <2>1. Good \in SUBSET Nat
    OBVIOUS
  <2> HIDE DEF Good
  <2> QED
    BY <1>1, <1>2, <2>1, NatInduct
<1>4. P(a + c) = P(a) + c * x
  BY <1>3
<1> QED
  BY <1>4 DEF P

LEMMA RunOfTwo ==
  ASSUME NEW n, NEW v, NEW a, NEW c, NEW x, NEW y, RunsTwo(n, v, a, c, x, y)
  PROVE  Sum(v, 1 .. a + 2 * c) = Sum(v, 1 .. a) + (c * x + c * y)
<1> SUFFICES ASSUME n \in Nat, a \in Nat, c \in Nat, x \in Nat, y \in Nat, a + 2 * c <= n,
                    \A i \in 1 .. n : v[i] \in Nat,
                    \A j \in 1 .. c : v[a + (2 * j - 1)] = x /\ v[a + 2 * j] = y
             PROVE  Sum(v, 1 .. a + 2 * c) = Sum(v, 1 .. a) + (c * x + c * y)
  BY DEF RunsTwo
<1> DEFINE P(k) == Sum(v, 1 .. k)
           Good == {m \in Nat : m <= c => P(a + 2 * m) = P(a) + (m * x + m * y)}
<1>0. /\ \A k \in 0 .. n : P(k) \in Nat
      /\ \A k \in 0 .. n : k + 1 \in 1 .. n => P(k + 1) = P(k) + v[k + 1]
  BY PrefixSums
<1> HIDE DEF P
<1>1. 0 \in Good
  <2>1. a + 2 * 0 = a /\ 0 * x = 0 /\ 0 * y = 0 /\ P(a) \in Nat /\ P(a) + (0 + 0) = P(a)
    BY <1>0
  <2> QED
    BY <2>1
<1>2. ASSUME NEW m \in Good PROVE m + 1 \in Good
  <2>1. ASSUME m + 1 <= c PROVE P(a + 2 * (m + 1)) = P(a) + ((m + 1) * x + (m + 1) * y)
    <3> DEFINE k == a + 2 * m
    <3>1. /\ m \in Nat /\ k \in 0 .. n /\ k + 1 \in 1 .. n /\ k + 1 \in 0 .. n
          /\ (k + 1) + 1 \in 1 .. n /\ m + 1 \in 1 .. c /\ a \in 0 .. n
          /\ a + 2 * (m + 1) = (k + 1) + 1 /\ a + (2 * (m + 1) - 1) = k + 1
      BY <2>1
    <3>2. P(k) = P(a) + (m * x + m * y)
      BY <2>1, <3>1
    <3> HIDE DEF k
    <3>3. P(k + 1) = P(k) + v[k + 1] /\ P((k + 1) + 1) = P(k + 1) + v[(k + 1) + 1]
      BY <1>0, <3>1
    <3>4. v[k + 1] = x /\ v[(k + 1) + 1] = y
      <4>1. v[a + (2 * (m + 1) - 1)] = x /\ v[a + 2 * (m + 1)] = y
        BY <3>1
      <4> QED
        BY <3>1, <4>1, Zenon
    <3>5. P(a) \in Nat
      BY <1>0, <3>1
    <3>6. m * x \in Nat /\ (m + 1) * x = m * x + x /\ m * y \in Nat /\ (m + 1) * y = m * y + y
      BY <3>1
    <3> DEFINE z == m * x
               w == m * y
    <3> HIDE DEF z, w
    <3>7. /\ P(a + 2 * (m + 1)) = ((P(a) + (z + w)) + x) + y /\ z \in Nat /\ w \in Nat
          /\ (m + 1) * x = z + x /\ (m + 1) * y = w + y
      BY <3>1, <3>2, <3>3, <3>4, <3>6, Zenon DEF z, w
    <3>8. ((P(a) + (z + w)) + x) + y = P(a) + ((z + x) + (w + y))
      BY <3>5, <3>7
    <3> QED
      BY <3>7, <3>8, Zenon
  <2>2. m + 1 \in Nat
    OBVIOUS
  <2> QED
    BY <2>1, <2>2
<1>3. \A m \in Nat : m \in Good
  <2>1. Good \in SUBSET Nat
    OBVIOUS
  <2> HIDE DEF Good
  <2> QED
    BY <1>1, <1>2, <2>1, NatInduct
<1>4. P(a + 2 * c) = P(a) + (c * x + c * y)
  BY <1>3
<1> QED
  BY <1>4 DEF P

(* Values that come in segments add up to the sum of the segments. *)
Segments(n, v, o, c) ==
    /\ n \in Nat /\ o \in [1 .. n + 1 -> Nat] /\ o[1] = 0
    /\ \A i \in 1 .. n : c[i] \in Nat
    /\ \A i \in 1 .. n : Sum(v, 1 .. o[i + 1]) = Sum(v, 1 .. o[i]) + c[i]

LEMMA SegmentsAddUp ==
  ASSUME NEW n, NEW v, NEW o, NEW c, Segments(n, v, o, c)
  PROVE  Sum(v, 1 .. o[n + 1]) = Sum(c, 1 .. n)
<1> SUFFICES ASSUME n \in Nat, o \in [1 .. n + 1 -> Nat], o[1] = 0,
                    \A i \in 1 .. n : c[i] \in Nat,
                    \A i \in 1 .. n : Sum(v, 1 .. o[i + 1]) = Sum(v, 1 .. o[i]) + c[i]
             PROVE  Sum(v, 1 .. o[n + 1]) = Sum(c, 1 .. n)
  BY Zenon DEF Segments
<1> DEFINE P(k) == Sum(v, 1 .. k)
           C(k) == Sum(c, 1 .. k)
           Good == {m \in Nat : m <= n => P(o[m + 1]) = C(m)}
<1>0. /\ C(0) = 0
      /\ \A k \in 0 .. n : k + 1 \in 1 .. n => C(k + 1) = C(k) + c[k + 1]
  BY PrefixSums
<1>p. P(0) = 0
  <2>1. \A i \in 1 .. 0 : v[i] \in Nat
    OBVIOUS
  <2>2. 0 \in Nat
    OBVIOUS
  <2> QED
    BY <2>1, <2>2, PrefixSums
<1>s. \A i \in 1 .. n : P(o[i + 1]) = P(o[i]) + c[i]
  OBVIOUS
<1> HIDE DEF P, C
<1>1. 0 \in Good
  <2>1. 0 + 1 = 1 /\ 0 \in Nat
    OBVIOUS
  <2>2. P(o[0 + 1]) = C(0)
    BY <1>0, <1>p, <2>1, Zenon
  <2> QED
    BY <2>1, <2>2
<1>2. ASSUME NEW m \in Good PROVE m + 1 \in Good
  <2>1. ASSUME m + 1 <= n PROVE P(o[(m + 1) + 1]) = C(m + 1)
    <3>1. m \in Nat /\ m \in 0 .. n /\ m + 1 \in 1 .. n
      BY <2>1
    <3>2. P(o[m + 1]) = C(m)
      BY <2>1, <3>1
    <3>3. P(o[(m + 1) + 1]) = P(o[m + 1]) + c[m + 1]
      BY <1>s, <3>1, Zenon
    <3>4. C(m + 1) = C(m) + c[m + 1]
      BY <1>0, <3>1, Zenon
    <3> QED
      BY <3>2, <3>3, <3>4, Zenon
  <2>2. m + 1 \in Nat
    OBVIOUS
  <2> QED
    BY <2>1, <2>2
<1>3. \A m \in Nat : m \in Good
  <2>1. Good \in SUBSET Nat
    OBVIOUS
  <2> HIDE DEF Good
  <2> QED
    BY <1>1, <1>2, <2>1, NatInduct
<1>4. P(o[n + 1]) = C(n)
  BY <1>3
<1> QED
  BY <1>4 DEF P, C

(* The sum does not depend on the order in which a list names the terms. *)
LEMMA SumReordered ==
  ASSUME NEW S, NEW q, Lists(S, q), NEW c, \A x \in S : c[x] \in Nat,
         NEW d, \A i \in 1 .. Len(q) : d[i] = c[q[i]]
  PROVE  Sum(d, 1 .. Len(q)) = Sum(c, S) /\ IsFiniteSet(S)
<1> DEFINE n == Len(q)
           T(k) == {q[i] : i \in 1 .. k}
           Good == {m \in Nat : m <= n => Sum(d, 1 .. m) = Sum(c, T(m))}
<1>0. /\ n \in Nat /\ \A i \in 1 .. n : q[i] \in S
      /\ \A x \in S : \E i \in 1 .. n : q[i] = x
      /\ \A i, j \in 1 .. n : q[i] = q[j] => i = j
  BY DEF Lists
<1>d. \A i \in 1 .. n : d[i] \in Nat /\ d[i] = c[q[i]]
  BY <1>0, Zenon
<1> HIDE DEF n
<1>f. \A k \in 0 .. n : IsFiniteSet(T(k)) /\ T(k) \in SUBSET S
  <2> TAKE k \in 0 .. n
  <2>1. IsFiniteSet(1 .. k)
    BY <1>0, FS_Interval
  <2>2. IsFiniteSet(T(k))
    BY <2>1, ImageIsFinite
  <2>3. T(k) \in SUBSET S
    BY <1>0
  <2> QED
    BY <2>2, <2>3
<1>1. 0 \in Good
  <2>1. T(0) = {}
    OBVIOUS
  <2>2. Sum(c, {}) = 0
    BY FS_EmptySet, SumFacts
  <2>3. Sum(d, 1 .. 0) = 0
    BY <1>0, <1>d, PrefixSums
  <2> HIDE DEF T
  <2>4. Sum(d, 1 .. 0) = Sum(c, T(0))
    BY <2>1, <2>2, <2>3, Zenon
  <2> QED
    BY <2>4
<1>2. ASSUME NEW m \in Good PROVE m + 1 \in Good
  <2>1. ASSUME m + 1 <= n PROVE Sum(d, 1 .. m + 1) = Sum(c, T(m + 1))
    <3>1. m \in Nat /\ m \in 0 .. n /\ m + 1 \in 1 .. n /\ m + 1 \in 0 .. n
      BY <1>0, <2>1
    <3> DEFINE x == q[m + 1]
               U == T(m + 1)
    <3>2. x \in U /\ U \ {x} = T(m)
      <4>1. \A i \in 1 .. m : i \in 1 .. n /\ i # m + 1 /\ i \in 1 .. m + 1
        BY <1>0, <3>1
      <4>2. \A i \in 1 .. m : q[i] # x
        BY <1>0, <3>1, <4>1, Zenon
      <4>3. \A i \in 1 .. m + 1 : i \in 1 .. m \/ i = m + 1
        BY <3>1
      <4>4. m + 1 \in 1 .. m + 1
        BY <3>1
      <4>5. x \in U
        BY <4>4
      <4>6. ASSUME NEW y \in U \ {x} PROVE y \in T(m)
        <5>1. PICK i \in 1 .. m + 1 : y = q[i]
          BY <4>6
        <5>2. i # m + 1
          BY <4>6, <5>1
        <5> QED
          BY <4>3, <5>1, <5>2
      <4>7. ASSUME NEW y \in T(m) PROVE y \in U \ {x}
        BY <4>1, <4>2, <4>7
      <4> HIDE DEF U, T
      <4> QED
        BY <4>5, <4>6, <4>7
    <3>3. IsFiniteSet(U) /\ U \in SUBSET S
      BY <1>f, <3>1
    <3>4. Sum(d, 1 .. m) = Sum(c, T(m))
      BY <1>0, <2>1, <3>1
    <3>5. Sum(d, 1 .. m + 1) = Sum(d, 1 .. m) + d[m + 1] /\ Sum(d, 1 .. m) \in Nat
      <4>1. n \in Nat /\ \A i \in 1 .. n : d[i] \in Nat
        BY <1>0, <1>d, Zenon
      <4>2. /\ \A k \in 0 .. n : Sum(d, 1 .. k) \in Nat
            /\ \A k \in 0 .. n : k + 1 \in 1 .. n =>
                 Sum(d, 1 .. k + 1) = Sum(d, 1 .. k) + d[k + 1]
        BY <4>1, PrefixSums
      <4> QED
        BY <3>1, <4>2, Zenon
    <3> HIDE DEF U, T, x
    <3>6. \A y \in U : c[y] \in Nat
      BY <3>3
    <3>7. Sum(c, U) = c[x] + Sum(c, U \ {x}) /\ Sum(c, U \ {x}) \in Nat
      BY <3>2, <3>3, <3>6, SumWithout
    <3>8. d[m + 1] = c[x] /\ d[m + 1] \in Nat
      BY <1>d, <3>1, Zenon DEF x
    <3>9. Sum(c, U) = d[m + 1] + Sum(d, 1 .. m)
      BY <3>2, <3>4, <3>7, <3>8, Zenon
    <3>10. Sum(d, 1 .. m + 1) = Sum(c, U)
      BY <3>5, <3>8, <3>9
    <3> QED
      BY <3>10 DEF U
  <2>2. m + 1 \in Nat
    OBVIOUS
  <2> HIDE DEF T
  <2> QED
    BY <2>1, <2>2
<1>3. \A m \in Nat : m \in Good
  <2>1. Good \in SUBSET Nat
    OBVIOUS
  <2> HIDE DEF Good
  <2> QED
    BY <1>1, <1>2, <2>1, NatInduct
<1>4. Sum(d, 1 .. n) = Sum(c, T(n))
  <2> HIDE DEF T
  <2> QED
    BY <1>0, <1>3
<1>5. T(n) = S
  BY <1>0
<1>6. IsFiniteSet(T(n))
  BY <1>0, <1>f
<1> HIDE DEF T
<1> QED
  BY <1>4, <1>5, <1>6, Zenon DEF n

(* Offsets are sums of lengths. *)
LEMMA OffsetsAddUp ==
  ASSUME NEW n \in Nat, NEW o \in [1 .. n + 1 -> Nat], o[1] = 0,
         NEW d, \A i \in 1 .. n : d[i] \in Nat /\ o[i + 1] = o[i] + d[i]
  PROVE  o[n + 1] = Sum(d, 1 .. n)
<1> DEFINE C(k) == Sum(d, 1 .. k)
           Good == {m \in Nat : m <= n => o[m + 1] = C(m)}
<1>0. /\ C(0) = 0
      /\ \A k \in 0 .. n : k + 1 \in 1 .. n => C(k + 1) = C(k) + d[k + 1]
  BY PrefixSums
<1> HIDE DEF C
<1>1. 0 \in Good
  <2>1. 0 + 1 = 1 /\ 0 \in Nat
    OBVIOUS
  <2>2. o[0 + 1] = C(0)
    BY <1>0, <2>1, Zenon
  <2> QED
    BY <2>1, <2>2
<1>2. ASSUME NEW m \in Good PROVE m + 1 \in Good
  <2>1. ASSUME m + 1 <= n PROVE o[(m + 1) + 1] = C(m + 1)
    <3>1. m \in Nat /\ m \in 0 .. n /\ m + 1 \in 1 .. n
      BY <2>1
    <3>2. o[m + 1] = C(m)
      BY <2>1, <3>1
    <3>3. o[(m + 1) + 1] = o[m + 1] + d[m + 1]
      BY <3>1, Zenon
    <3>4. C(m + 1) = C(m) + d[m + 1]
      BY <1>0, <3>1, Zenon
    <3> QED
      BY <3>2, <3>3, <3>4, Zenon
  <2>2. m + 1 \in Nat
    OBVIOUS
  <2> QED
    BY <2>1, <2>2
<1>3. \A m \in Nat : m \in Good
  <2>1. Good \in SUBSET Nat
    OBVIOUS
  <2> HIDE DEF Good
  <2> QED
    BY <1>1, <1>2, <2>1, NatInduct
<1>4. o[n + 1] = C(n)
  BY <1>3
<1> QED
  BY <1>4 DEF C

=============================================================================
