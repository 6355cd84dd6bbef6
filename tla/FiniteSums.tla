----------------------------- MODULE FiniteSums -----------------------------
(***************************************************************************)
(* Facts about sums over finite sets, for the invariants that add up rows  *)
(* and the handlers still to write them.  A sum is a fold, so each fact    *)
(* rests on the recursive function the fold chooses; induction over finite *)
(* sets is stated here for a set of sets, which the provers can            *)
(* instantiate.  The last part is about sums over intervals and sums whose *)
(* terms are grouped by value, for the averages of the games.              *)
(***************************************************************************)
EXTENDS Sums, FiniteSetTheorems, WellFoundedInduction, TLAPS

\* A set of natural numbers has a least element.
LEMMA LeastNatural ==
  ASSUME NEW S \in SUBSET Nat, S # {}
  PROVE  \E m \in S : \A k \in S : m <= k
<1> DEFINE R == {ss \in Nat \X Nat : ss[1] < ss[2]}
<1>1. IsWellFoundedOn(R, Nat)
  BY NatLessThanWellFounded, Zenon DEF OpToRel
<1>2. PICK x \in S : \A y \in S : <<y, x>> \notin R
  <2> HIDE DEF R
  <2> QED BY <1>1, WFMin, Zenon
<1>3. \A y \in S : x <= y
  <2> TAKE y \in S
  <2>1. x \in Nat /\ y \in Nat
    OBVIOUS
  <2>2. <<y, x>> \in R <=> y < x
    BY <2>1
  <2>3. <<y, x>> \notin R
    BY <1>2
  <2> HIDE DEF R
  <2> QED BY <2>1, <2>2, <2>3
<1> QED BY <1>3

\* Induction over the subsets of a finite set: what holds of a set whenever it
\* holds of the set less any one element holds of every subset.
LEMMA SubsetInduction ==
  ASSUME NEW S, IsFiniteSet(S), NEW Good \in SUBSET (SUBSET S),
         \A T \in SUBSET S : (\A x \in T : T \ {x} \in Good) => T \in Good
  PROVE  \A T \in SUBSET S : T \in Good
<1> DEFINE Bad == {T \in SUBSET S : T \notin Good}
           Sizes == {Cardinality(T) : T \in Bad}
<1>1. \A T \in SUBSET S : IsFiniteSet(T) /\ Cardinality(T) \in Nat
  BY FS_Subset, FS_CardinalityType
<1>2. Sizes \in SUBSET Nat
  BY <1>1
<1>3. SUFFICES ASSUME Bad # {} PROVE FALSE
  OBVIOUS
<1>4. Sizes # {}
  BY <1>3
<1>5. PICK m \in Sizes : \A k \in Sizes : m <= k
  <2> HIDE DEF Sizes
  <2> QED BY <1>2, <1>4, LeastNatural
<1>6. PICK T \in Bad : m = Cardinality(T)
  OBVIOUS
<1>7. ASSUME NEW x \in T
      PROVE  T \ {x} \in Good
  <2>1. Cardinality(T \ {x}) = m - 1 /\ m \in Nat
    BY <1>1, <1>6, FS_RemoveElement
  <2>2. T \ {x} \in SUBSET S
    OBVIOUS
  <2>3. CASE T \ {x} \in Bad
    <3>1. Cardinality(T \ {x}) \in Sizes
      BY <2>3
    <3>2. m <= Cardinality(T \ {x})
      BY <1>5, <3>1
    <3> HIDE DEF Sizes, Bad
    <3> QED BY <2>1, <3>2
  <2> QED BY <2>2, <2>3
<1> QED BY <1>6, <1>7

---------------------------------------------------------------------------
(* The fold behind a sum *)

Pick(s) == CHOOSE x \in s : TRUE

\* The recursion that sums f over the subsets of S.
Adds(h, f, S) ==
  h = [s \in SUBSET S |-> IF s = {} THEN 0 ELSE f[Pick(s)] + h[s \ {Pick(s)}]]

\* A non-empty set holds what is picked from it.
LEMMA PickIn == ASSUME NEW s, s # {} PROVE Pick(s) \in s
BY DEF Pick

\* The sum is the value at S of a function with that recursion.
LEMMA SumIsFold ==
  ASSUME NEW f, NEW S
  PROVE  SumOver(f, S) = (CHOOSE h : Adds(h, f, S))[S]
BY DEF SumOver, MapThenSumSet, MapThenFoldSet, Adds, Pick

\* One unfolding of the recursion.
LEMMA AddsStep ==
  ASSUME NEW f, NEW S, NEW h, Adds(h, f, S), NEW s \in SUBSET S
  PROVE  /\ s = {} => h[s] = 0
         /\ s # {} => h[s] = f[Pick(s)] + h[s \ {Pick(s)}]
BY DEF Adds

\* The same at the whole set.
LEMMA AddsTop ==
  ASSUME NEW f, NEW S, NEW h, Adds(h, f, S)
  PROVE  /\ S = {} => h[S] = 0
         /\ S # {} => h[S] = f[Pick(S)] + h[S \ {Pick(S)}]
<1>1. S \in SUBSET S
  OBVIOUS
<1>2. ASSUME NEW s \in SUBSET S
      PROVE  /\ s = {} => h[s] = 0
             /\ s # {} => h[s] = f[Pick(s)] + h[s \ {Pick(s)}]
  BY AddsStep
<1> QED BY <1>1, <1>2, Zenon

\* Two such functions agree on the sets both are defined on, when they sum functions
\* that agree there.
LEMMA AddsAgree ==
  ASSUME NEW f, NEW g, NEW A, NEW B, NEW h, NEW k, Adds(h, f, A), Adds(k, g, B),
         NEW S, IsFiniteSet(S), S \subseteq A, S \subseteq B, \A x \in S : f[x] = g[x]
  PROVE  h[S] = k[S]
<1> DEFINE Good == {T \in SUBSET S : h[T] = k[T]}
<1>1. ASSUME NEW T \in SUBSET S, \A x \in T : T \ {x} \in Good
      PROVE  T \in Good
  <2>1. CASE T = {}
    BY <2>1, AddsStep
  <2>2. CASE T # {}
    <3>1. Pick(T) \in T
      BY <2>2, PickIn
    <3>2. h[T] = f[Pick(T)] + h[T \ {Pick(T)}] /\ k[T] = g[Pick(T)] + k[T \ {Pick(T)}]
      BY <2>2, AddsStep
    <3>3. f[Pick(T)] = g[Pick(T)] /\ h[T \ {Pick(T)}] = k[T \ {Pick(T)}]
      BY <1>1, <3>1
    <3> QED BY <3>2, <3>3
  <2> QED BY <2>1, <2>2
<1>2. \A T \in SUBSET S : T \in Good
  <2> HIDE DEF Good
  <2>1. Good \in SUBSET (SUBSET S)
    BY DEF Good
  <2> QED BY <1>1, <2>1, SubsetInduction
<1> QED BY <1>2

\* A finite set has a function with the recursion.
LEMMA AddsExists ==
  ASSUME NEW f, NEW S, IsFiniteSet(S)
  PROVE  \E h : Adds(h, f, S)
<1> DEFINE Good == {T \in SUBSET S : \A s \in SUBSET T : \E h : Adds(h, f, s)}
           Fn(s) == CHOOSE h : Adds(h, f, s)
           Sum(s) == Fn(s)[s]
<1>1. ASSUME NEW T \in SUBSET S, \A x \in T : T \ {x} \in Good
      PROVE  T \in Good
  <2>1. ASSUME NEW s \in SUBSET T, s # T
        PROVE  Adds(Fn(s), f, s)
    <3>1. PICK x \in T : x \notin s
      BY <2>1
    <3>2. s \in SUBSET (T \ {x})
      BY <3>1
    <3>3. \E h : Adds(h, f, s)
      BY <1>1, <3>1, <3>2
    <3> QED BY <3>3
  <2> DEFINE H == [s \in SUBSET T |-> IF s = {} THEN 0 ELSE f[Pick(s)] + Sum(s \ {Pick(s)})]
  <2>2. ASSUME NEW s \in SUBSET T, s # T
        PROVE  H[s] = Sum(s)
    <3>1. CASE s = {}
      <4>1. Fn(s)[s] = 0
        <5>1. Adds(Fn(s), f, s)
          BY <2>1, <2>2
        <5> HIDE DEF Fn
        <5> QED BY <3>1, <5>1, AddsTop, Zenon
      <4>2. H[s] = 0
        BY <3>1
      <4> QED BY <4>1, <4>2
    <3>2. CASE s # {}
      <4> DEFINE t == s \ {Pick(s)}
      <4>1. t \in SUBSET T /\ t # T /\ t \subseteq s /\ IsFiniteSet(t)
        <5>1. t \subseteq s /\ s \subseteq S
          OBVIOUS
        <5>2. IsFiniteSet(t)
          BY <5>1, FS_Subset
        <5> QED BY <2>2, <3>2, <5>1, <5>2, PickIn
      <4>2. Adds(Fn(s), f, s) /\ Adds(Fn(t), f, t)
        BY <2>1, <2>2, <4>1
      <4>3. Fn(s)[t] = Fn(t)[t]
        BY <4>1, <4>2, AddsAgree
      <4>4. Fn(s)[s] = f[Pick(s)] + Fn(s)[t]
        BY <3>2, <4>2, AddsStep
      <4> QED BY <3>2, <4>3, <4>4
    <3> QED BY <3>1, <3>2
  <2>3. Adds(H, f, T)
    <3>1. ASSUME NEW s \in SUBSET T, s # {}
          PROVE  H[s \ {Pick(s)}] = Sum(s \ {Pick(s)})
      <4>1. s \ {Pick(s)} \in SUBSET T /\ s \ {Pick(s)} # T
        BY <3>1, PickIn
      <4> QED BY <2>2, <4>1
    <3> DEFINE K == [s \in SUBSET T |-> IF s = {} THEN 0 ELSE f[Pick(s)] + H[s \ {Pick(s)}]]
    <3>2. ASSUME NEW s \in SUBSET T
          PROVE  H[s] = K[s]
      <4>1. CASE s = {}
        BY <4>1
      <4>2. CASE s # {}
        <5>1. H[s] = f[Pick(s)] + Sum(s \ {Pick(s)})
          BY <4>2
        <5>2. K[s] = f[Pick(s)] + H[s \ {Pick(s)}]
          <6> HIDE DEF H
          <6> QED BY <4>2
        <5>3. H[s \ {Pick(s)}] = Sum(s \ {Pick(s)})
          BY <3>1, <4>2
        <5> HIDE DEF H, K, Sum
        <5> QED BY <5>1, <5>2, <5>3
      <4> QED BY <4>1, <4>2
    <3>3. H = K
      <4> HIDE DEF Sum
      <4> QED BY <3>2
    <3> HIDE DEF H
    <3> QED BY <3>3 DEF Adds
  <2>4. \A s \in SUBSET T : \E h : Adds(h, f, s)
    BY <2>1, <2>3
  <2> QED BY <2>4
<1>2. \A T \in SUBSET S : T \in Good
  <2> HIDE DEF Good
  <2>1. Good \in SUBSET (SUBSET S)
    BY DEF Good
  <2> QED BY <1>1, <2>1, SubsetInduction
<1> QED BY <1>2

---------------------------------------------------------------------------
(* Sums *)

\* The empty sum.
LEMMA SumEmpty == ASSUME NEW f PROVE SumOver(f, {}) = 0
<1> DEFINE h == CHOOSE k : Adds(k, f, {})
<1>1. IsFiniteSet({})
  BY FS_EmptySet
<1>2. Adds(h, f, {})
  BY <1>1, AddsExists
<1>3. SumOver(f, {}) = h[{}]
  BY SumIsFold
<1> HIDE DEF h
<1> QED BY <1>2, <1>3, AddsStep

\* Functions that agree on a set have the same sum over it.
LEMMA SumSame ==
  ASSUME NEW f, NEW g, NEW S, IsFiniteSet(S), \A x \in S : f[x] = g[x]
  PROVE  SumOver(f, S) = SumOver(g, S)
<1> DEFINE h == CHOOSE k : Adds(k, f, S)
           j == CHOOSE k : Adds(k, g, S)
<1>1. Adds(h, f, S) /\ Adds(j, g, S)
  BY AddsExists
<1>2. SumOver(f, S) = h[S] /\ SumOver(g, S) = j[S]
  BY SumIsFold
<1> HIDE DEF h, j
<1> QED BY <1>1, <1>2, AddsAgree

\* A sum is what is picked first and the sum of the rest.
LEMMA SumStep ==
  ASSUME NEW f, NEW S, IsFiniteSet(S), S # {}
  PROVE  SumOver(f, S) = f[Pick(S)] + SumOver(f, S \ {Pick(S)})
<1> DEFINE T == S \ {Pick(S)}
           h == CHOOSE k : Adds(k, f, S)
           j == CHOOSE k : Adds(k, f, T)
<1>1. IsFiniteSet(T) /\ T \in SUBSET S /\ T \subseteq T
  BY FS_Subset
<1>2. Adds(h, f, S) /\ Adds(j, f, T)
  BY <1>1, AddsExists
<1>3. SumOver(f, S) = h[S] /\ SumOver(f, T) = j[T]
  BY SumIsFold
<1>4. h[S] = f[Pick(S)] + h[T]
  <2> HIDE DEF h
  <2> QED BY <1>2, AddsTop, Zenon
<1>5. h[T] = j[T]
  <2> HIDE DEF h, j, T
  <2> QED BY <1>1, <1>2, AddsAgree
<1> QED BY <1>3, <1>4, <1>5

\* A sum of natural numbers is one.
LEMMA SumType ==
  ASSUME NEW f, NEW S, IsFiniteSet(S), \A x \in S : f[x] \in Nat
  PROVE  SumOver(f, S) \in Nat
<1> DEFINE Good == {T \in SUBSET S : SumOver(f, T) \in Nat}
<1>1. ASSUME NEW T \in SUBSET S, \A x \in T : T \ {x} \in Good
      PROVE  T \in Good
  <2>1. CASE T = {}
    BY <2>1, SumEmpty
  <2>2. CASE T # {}
    <3>1. Pick(T) \in T /\ IsFiniteSet(T)
      BY <2>2, PickIn, FS_Subset
    <3>2. SumOver(f, T) = f[Pick(T)] + SumOver(f, T \ {Pick(T)})
      BY <2>2, <3>1, SumStep
    <3>3. SumOver(f, T \ {Pick(T)}) \in Nat /\ f[Pick(T)] \in Nat
      BY <1>1, <3>1
    <3> QED BY <3>2, <3>3
  <2> QED BY <2>1, <2>2
<1>2. \A T \in SUBSET S : T \in Good
  <2> HIDE DEF Good
  <2>1. Good \in SUBSET (SUBSET S)
    BY DEF Good
  <2> QED BY <1>1, <2>1, SubsetInduction
<1> QED BY <1>2

\* Any element may be added last.
LEMMA SumRemove ==
  ASSUME NEW f, NEW S, IsFiniteSet(S), \A x \in S : f[x] \in Nat, NEW a \in S
  PROVE  SumOver(f, S) = f[a] + SumOver(f, S \ {a})
<1> DEFINE Good == {T \in SUBSET S :
                     \A x \in T : SumOver(f, T) = f[x] + SumOver(f, T \ {x})}
<1>1. ASSUME NEW T \in SUBSET S, \A x \in T : T \ {x} \in Good
      PROVE  T \in Good
  <2>1. SUFFICES ASSUME NEW x \in T
                 PROVE  SumOver(f, T) = f[x] + SumOver(f, T \ {x})
    OBVIOUS
  <2> DEFINE p == Pick(T)
             rest == (T \ {x}) \ {p}
  <2>2. p \in T /\ IsFiniteSet(T) /\ IsFiniteSet(T \ {x}) /\ IsFiniteSet(rest) /\ T # {}
    BY PickIn, FS_Subset
  <2>3. SumOver(f, T) = f[p] + SumOver(f, T \ {p})
    BY <2>2, SumStep
  <2>4. CASE x = p
    BY <2>3, <2>4
  <2>5. CASE x # p
    <3>1. T \ {p} \in Good /\ x \in T \ {p} /\ T \ {x} \in Good /\ p \in T \ {x}
      BY <1>1, <2>2, <2>5
    <3>2. SumOver(f, T \ {p}) = f[x] + SumOver(f, (T \ {p}) \ {x})
      BY <3>1
    <3>3. SumOver(f, T \ {x}) = f[p] + SumOver(f, rest)
      BY <3>1
    <3>4. (T \ {p}) \ {x} = rest
      OBVIOUS
    <3>5. f[x] \in Nat /\ f[p] \in Nat /\ SumOver(f, rest) \in Nat
      <4>1. \A y \in rest : f[y] \in Nat
        OBVIOUS
      <4> HIDE DEF rest
      <4> QED BY <2>2, <4>1, SumType
    <3> HIDE DEF rest, p
    <3> QED BY <2>3, <3>2, <3>3, <3>4, <3>5
  <2> QED BY <2>4, <2>5
<1>2. \A T \in SUBSET S : T \in Good
  <2> HIDE DEF Good
  <2>1. Good \in SUBSET (SUBSET S)
    BY DEF Good
  <2> QED BY <1>1, <2>1, SubsetInduction
<1>3. S \in Good
  BY <1>2
<1> QED BY <1>3

\* What an element adds to a sum.
Share(f, S, a) == IF a \in S THEN f[a] ELSE 0

\* The sum apart from one element, which may be absent.
LEMMA SumShare ==
  ASSUME NEW f, NEW S, IsFiniteSet(S), \A x \in S : f[x] \in Nat, NEW a
  PROVE  SumOver(f, S) = Share(f, S, a) + SumOver(f, S \ {a})
<1>1. CASE a \in S
  BY <1>1, SumRemove DEF Share
<1>2. CASE a \notin S
  <2>1. S \ {a} = S /\ SumOver(f, S) \in Nat
    BY <1>2, SumType
  <2> QED BY <1>2, <2>1 DEF Share
<1> QED BY <1>1, <1>2

\* When one element enters, leaves or changes, the sum changes by its shares.
LEMMA SumChange ==
  ASSUME NEW f, NEW g, NEW S, NEW T, NEW a, IsFiniteSet(S),
         S \ {a} = T \ {a}, \A x \in S \ {a} : f[x] = g[x],
         \A x \in S : f[x] \in Nat, \A x \in T : g[x] \in Nat
  PROVE  /\ IsFiniteSet(T)
         /\ SumOver(f, S) \in Nat /\ SumOver(g, T) \in Nat
         /\ SumOver(g, T) + Share(f, S, a) = SumOver(f, S) + Share(g, T, a)
<1>1. IsFiniteSet(S \ {a})
  BY FS_Subset
<1>2. IsFiniteSet(T)
  <2>1. IsFiniteSet((S \ {a}) \cup {a})
    BY <1>1, FS_AddElement
  <2>2. T \subseteq (S \ {a}) \cup {a}
    OBVIOUS
  <2> QED BY <2>1, <2>2, FS_Subset
<1>3. SumOver(f, S) = Share(f, S, a) + SumOver(f, S \ {a})
  BY SumShare
<1>4. SumOver(g, T) = Share(g, T, a) + SumOver(g, T \ {a})
  BY <1>2, SumShare
<1>5. SumOver(f, S \ {a}) = SumOver(g, T \ {a})
  BY <1>1, SumSame
<1>6. SumOver(f, S) \in Nat /\ SumOver(g, T) \in Nat
  BY <1>2, SumType
<1>7. SumOver(f, S \ {a}) \in Nat
  <2>1. \A x \in S \ {a} : f[x] \in Nat
    OBVIOUS
  <2> QED BY <1>1, <2>1, SumType
<1>8. Share(f, S, a) \in Nat /\ Share(g, T, a) \in Nat
  BY DEF Share
<1> QED BY <1>2, <1>3, <1>4, <1>5, <1>6, <1>7, <1>8

\* In particular, a share that grows by n makes the sum grow by n.
LEMMA SumAdds ==
  ASSUME NEW f, NEW g, NEW S, NEW T, NEW a, NEW n \in Nat, IsFiniteSet(S),
         S \ {a} = T \ {a}, \A x \in S \ {a} : f[x] = g[x],
         \A x \in S : f[x] \in Nat, \A x \in T : g[x] \in Nat,
         Share(g, T, a) = Share(f, S, a) + n
  PROVE  SumOver(g, T) = SumOver(f, S) + n
<1>1. /\ SumOver(f, S) \in Nat /\ SumOver(g, T) \in Nat
      /\ SumOver(g, T) + Share(f, S, a) = SumOver(f, S) + Share(g, T, a)
  BY SumChange
<1>2. Share(f, S, a) \in Nat
  BY DEF Share
<1> QED BY <1>1, <1>2

\* The sum over one element.
LEMMA SumOne ==
  ASSUME NEW f, NEW a, f[a] \in Nat
  PROVE  SumOver(f, {a}) = f[a]
<1>1. IsFiniteSet({a}) /\ {a} \ {a} = {}
  BY FS_Singleton
<1>2. SumOver(f, {a}) = f[a] + SumOver(f, {a} \ {a})
  BY <1>1, SumRemove
<1> QED BY <1>1, <1>2, SumEmpty

---------------------------------------------------------------------------
(* Induction, recursion and counting *)

\* Induction over the natural numbers, for a set of them.
LEMMA NaturalInduction ==
  ASSUME NEW G, 0 \in G, \A k \in Nat : k \in G => k + 1 \in G
  PROVE  \A k \in Nat : k \in G
<1> DEFINE Bad == {k \in Nat : k \notin G}
<1>1. SUFFICES ASSUME Bad # {} PROVE FALSE
  OBVIOUS
<1>2. PICK k \in Bad : \A j \in Bad : k <= j
  <2>1. Bad \in SUBSET Nat
    OBVIOUS
  <2> HIDE DEF Bad
  <2> QED BY <1>1, <2>1, LeastNatural
<1>3. k # 0 /\ k \in Nat
  OBVIOUS
<1>4. k - 1 \in Nat /\ (k - 1) + 1 = k
  BY <1>3
<1>5. k - 1 \in G
  BY <1>2, <1>4
<1> QED BY <1>4, <1>5

\* A function that takes its steps from a first value in V.
Steps(h, V, base, n, step) ==
  h \in [0..n -> V] /\ h[0] = base /\ \A k \in 1..n : h[k] = step[k][h[k - 1]]

\* There is one for every first value and every way to step.
LEMMA RecursionExists ==
  ASSUME NEW V, NEW base \in V, NEW n \in Nat, NEW step \in [Nat -> [V -> V]]
  PROVE  \E h : Steps(h, V, base, n, step)
<1> DEFINE Fits(h, m) == h[0] = base /\ \A k \in 1..m : h[k] = step[k][h[k - 1]]
           G == {m \in Nat : \E h \in [0..m -> V] : Fits(h, m)}
<1>1. 0 \in G
  <2> DEFINE h == [k \in 0..0 |-> base]
  <2>1. h \in [0..0 -> V] /\ h[0] = base
    OBVIOUS
  <2> HIDE DEF h
  <2>2. Fits(h, 0)
    BY <2>1
  <2> QED BY <2>1, <2>2
<1>2. ASSUME NEW m \in Nat, m \in G
      PROVE  m + 1 \in G
  <2>1. PICK h \in [0..m -> V] : Fits(h, m)
    BY <1>2
  <2> DEFINE next == step[m + 1][h[m]]
             H == [k \in 0..m + 1 |-> IF k = m + 1 THEN next ELSE h[k]]
  <2>2. next \in V
    OBVIOUS
  <2>3. H \in [0..m + 1 -> V]
    <3> HIDE DEF next
    <3> QED BY <2>2
  <2>4. H[m + 1] = next /\ \A k \in 0..m : H[k] = h[k]
    OBVIOUS
  <2> HIDE DEF H
  <2>5. H[0] = base
    BY <2>1, <2>4
  <2>6. ASSUME NEW k \in 1..m + 1
        PROVE  H[k] = step[k][H[k - 1]]
    <3>1. CASE k = m + 1
      <4>1. H[k - 1] = h[m]
        BY <2>4, <3>1
      <4> QED BY <2>4, <3>1, <4>1
    <3>2. CASE k # m + 1
      <4>1. k \in 1..m /\ k - 1 \in 0..m /\ k \in 0..m
        BY <3>2
      <4>2. h[k] = step[k][h[k - 1]]
        BY <2>1, <4>1
      <4> QED BY <2>4, <4>1, <4>2
    <3> QED BY <3>1, <3>2
  <2>7. Fits(H, m + 1)
    BY <2>5, <2>6
  <2> QED BY <2>3, <2>7
<1>3. \A m \in Nat : m \in G
  <2> HIDE DEF G
  <2> QED BY <1>1, <1>2, NaturalInduction
<1>4. PICK h \in [0..n -> V] : Fits(h, n)
  BY <1>3
<1> QED BY <1>4 DEF Steps

\* As many sets as there are in J, no two of which share a member and each of x members.
LEMMA EqualParts ==
  ASSUME NEW J, IsFiniteSet(J), NEW S, NEW x \in Nat,
         \A j \in J : IsFiniteSet(S[j]) /\ Cardinality(S[j]) = x,
         \A i, j \in J : i # j => S[i] \cap S[j] = {}
  PROVE  /\ IsFiniteSet(UNION {S[j] : j \in J})
         /\ Cardinality(UNION {S[j] : j \in J}) = Cardinality(J) * x
<1> DEFINE All(T) == UNION {S[j] : j \in T}
           Counted(T) == IsFiniteSet(All(T)) /\ Cardinality(All(T)) = Cardinality(T) * x
           Good == {T \in SUBSET J : Counted(T)}
<1>1. ASSUME NEW T \in SUBSET J, \A j \in T : T \ {j} \in Good
      PROVE  T \in Good
  <2>1. CASE T = {}
    <3>1. All(T) = {}
      BY <2>1
    <3>2. IsFiniteSet({}) /\ Cardinality({}) = 0 /\ 0 * x = 0
      BY FS_EmptySet
    <3> HIDE DEF All
    <3> QED BY <2>1, <3>1, <3>2
  <2>2. CASE T # {}
    <3>1. PICK j \in T : TRUE
      BY <2>2
    <3> DEFINE rest == T \ {j}
               a == Cardinality(All(rest))
               b == Cardinality(rest)
    <3>2. IsFiniteSet(All(rest)) /\ a = b * x
      BY <1>1, <3>1
    <3>3. IsFiniteSet(S[j]) /\ Cardinality(S[j]) = x
      BY <3>1
    <3>4. IsFiniteSet(T)
      BY FS_Subset
    <3>5. IsFiniteSet(rest) /\ b = Cardinality(T) - 1 /\ Cardinality(T) \in Nat /\ b \in Nat
      <4>1. IsFiniteSet(rest) /\ b = Cardinality(T) - 1
        BY <3>1, <3>4, FS_RemoveElement
      <4>2. Cardinality(T) \in Nat /\ b \in Nat
        BY <3>4, <4>1, FS_CardinalityType
      <4> QED BY <4>1, <4>2
    <3>6. All(T) = All(rest) \cup S[j]
      <4>1. T = rest \cup {j}
        BY <3>1
      <4> HIDE DEF rest
      <4> QED BY <4>1
    <3>7. All(rest) \cap S[j] = {}
      <4>1. \A i \in rest : i \in J /\ j \in J /\ i # j
        BY <3>1
      <4> HIDE DEF rest
      <4> QED BY <4>1
    <3> DEFINE U == All(rest)
    <3>8. IsFiniteSet(U \cup S[j])
          /\ Cardinality(U \cup S[j]) = Cardinality(U) + Cardinality(S[j]) - Cardinality(U \cap S[j])
      <4> HIDE DEF U
      <4>1. IsFiniteSet(U)
        BY <3>2 DEF U
      <4> QED BY <3>3, <4>1, FS_Union
    <3>9. Cardinality(U \cap S[j]) = 0
      BY <3>7, FS_EmptySet
    <3>10. Cardinality(U) = a /\ a \in Nat
      <4>1. Cardinality(U) = a
        OBVIOUS
      <4>2. a \in Nat
        BY <3>2, FS_CardinalityType
      <4> QED BY <4>1, <4>2
    <3> DEFINE c == Cardinality(T)
    <3> HIDE DEF a, b, rest, All, U, c
    <3>11. Cardinality(All(T)) = a + x
      BY <3>3, <3>6, <3>8, <3>9, <3>10 DEF U
    <3>12. b = c - 1 /\ c \in Nat /\ b \in Nat
      BY <3>5 DEF c
    <3>13. a + x = c * x
      <4>1. a = b * x
        BY <3>2
      <4>2. c = b + 1
        BY <3>12
      <4>3. (b + 1) * x = b * x + x
        BY <3>12
      <4> QED BY <4>1, <4>2, <4>3
    <3>14. IsFiniteSet(All(T))
      BY <3>6, <3>8 DEF U
    <3> QED BY <3>11, <3>13, <3>14 DEF c
  <2> QED BY <2>1, <2>2
<1>2. \A T \in SUBSET J : T \in Good
  <2>1. Good \in SUBSET (SUBSET J)
    OBVIOUS
  <2> HIDE DEF Good
  <2> QED BY <1>1, <2>1, SubsetInduction
<1>3. Counted(J)
  <2> HIDE DEF Counted
  <2>1. J \in SUBSET J
    OBVIOUS
  <2> QED BY <1>2, <2>1
<1> QED BY <1>3

---------------------------------------------------------------------------
(* Sums over intervals, and sums that are grouped *)

\* A sum over an interval that is one longer has one term more.
LEMMA SumNext ==
  ASSUME NEW a \in Nat, NEW n \in Nat, a <= n + 1, NEW f, \A i \in a..n + 1 : f[i] \in Nat
  PROVE  SumOver(f, a..n + 1) = SumOver(f, a..n) + f[n + 1] /\ SumOver(f, a..n) \in Nat
<1> DEFINE S == a..n + 1
           T == a..n
           x == n + 1
<1>1. IsFiniteSet(S) /\ IsFiniteSet(T)
  BY FS_Interval
<1>2. x \in S /\ S \ {x} = T
  OBVIOUS
<1>3. \A i \in S : f[i] \in Nat
  OBVIOUS
<1> HIDE DEF S, T, x
<1>4. f[x] \in Nat /\ \A i \in T : f[i] \in Nat
  BY <1>2, <1>3
<1>5. SumOver(f, S) = f[x] + SumOver(f, S \ {x})
  BY <1>1, <1>2, <1>3, SumRemove
<1>6. SumOver(f, T) \in Nat
  BY <1>1, <1>4, SumType
<1>7. SumOver(f, S) = SumOver(f, T) + f[x]
  BY <1>2, <1>4, <1>5, <1>6
<1> QED BY <1>6, <1>7 DEF S, T, x

\* A stretch of an interval on which a function stays between two bounds.
LEMMA SumStretch ==
  ASSUME NEW n \in Nat, NEW low \in Nat, NEW high \in Nat, NEW f,
         NEW k \in Nat, \A i \in 1..n + k : f[i] \in Nat,
         \A i \in n + 1..n + k : low <= f[i] /\ f[i] <= high
  PROVE  /\ SumOver(f, 1..n) \in Nat /\ SumOver(f, 1..n + k) \in Nat
         /\ SumOver(f, 1..n) + k * low <= SumOver(f, 1..n + k)
         /\ SumOver(f, 1..n + k) <= SumOver(f, 1..n) + k * high
<1> DEFINE Bound(j) == /\ SumOver(f, 1..n) \in Nat /\ SumOver(f, 1..n + j) \in Nat
                       /\ SumOver(f, 1..n) + j * low <= SumOver(f, 1..n + j)
                       /\ SumOver(f, 1..n + j) <= SumOver(f, 1..n) + j * high
           Good == {j \in Nat : j <= k => Bound(j)}
<1>1. 0 \in Good
  <2>1. SumOver(f, 1..n) \in Nat
    <3> DEFINE S == 1..n
    <3>1. IsFiniteSet(S) /\ \A i \in S : f[i] \in Nat
      BY FS_Interval
    <3> HIDE DEF S
    <3>2. SumOver(f, S) \in Nat
      BY <3>1, SumType
    <3> QED BY <3>2 DEF S
  <2>2. 1..n + 0 = 1..n /\ 0 * low = 0 /\ 0 * high = 0
    OBVIOUS
  <2> DEFINE a == SumOver(f, 1..n)
             b == SumOver(f, 1..n + 0)
  <2>3. a = b /\ a \in Nat
    BY <2>1, <2>2
  <2> HIDE DEF a, b
  <2>4. a \in Nat /\ b \in Nat /\ a + 0 * low <= b /\ b <= a + 0 * high
    BY <2>2, <2>3
  <2>5. Bound(0)
    BY <2>4 DEF a, b
  <2> QED BY <2>5
<1>2. \A j \in Nat : j \in Good => j + 1 \in Good
  <2> SUFFICES ASSUME NEW j \in Nat, j \in Good, j + 1 <= k PROVE Bound(j + 1)
    OBVIOUS
  <2> DEFINE a == SumOver(f, 1..n)
             b == SumOver(f, 1..n + j)
             c == SumOver(f, 1..n + (j + 1))
             m == n + j
             y == f[m + 1]
  <2>1. a \in Nat /\ b \in Nat /\ a + j * low <= b /\ b <= a + j * high
    OBVIOUS
  <2>2. m \in Nat /\ 1 <= m + 1 /\ m + 1 = n + (j + 1)
    OBVIOUS
  <2>3. \A i \in 1..m + 1 : f[i] \in Nat
    OBVIOUS
  <2>4. y \in Nat /\ low <= y /\ y <= high
    OBVIOUS
  <2>5. SumOver(f, 1..m + 1) = SumOver(f, 1..m) + f[m + 1]
    <3> HIDE DEF m
    <3> QED BY <2>2, <2>3, SumNext
  <2>6. c = b + y
    BY <2>2, <2>5
  <2> HIDE DEF a, b, c, m, y
  <2>7. (j + 1) * low = j * low + low /\ (j + 1) * high = j * high + high
        /\ j * low \in Nat /\ j * high \in Nat
    OBVIOUS
  <2> DEFINE p == j * low
             q == j * high
             p1 == (j + 1) * low
             q1 == (j + 1) * high
  <2>8. p \in Nat /\ q \in Nat /\ p1 = p + low /\ q1 = q + high /\ a + p <= b /\ b <= a + q
    BY <2>1, <2>7
  <2> HIDE DEF p, q, p1, q1
  <2>9. c \in Nat /\ a + p1 <= c /\ c <= a + q1
    BY <2>1, <2>4, <2>6, <2>8
  <2> QED BY <2>1, <2>9 DEF a, c, p1, q1
<1>3. \A j \in Nat : j \in Good
  <2> HIDE DEF Good
  <2> QED BY <1>1, <1>2, NaturalInduction
<1> QED BY <1>3

\* Terms may be grouped by what they are multiples of.
LEMMA GroupedSum ==
  ASSUME NEW D, IsFiniteSet(D), NEW M, IsFiniteSet(M), NEW f, NEW w,
         \A d \in D : f[d] \in M /\ w[d] \in Nat, \A m \in M : m \in Nat
  PROVE  SumOver([m \in M |-> m * SumOver(w, {d \in D : f[d] = m})], M)
           = SumOver([d \in D |-> f[d] * w[d]], D)
<1> DEFINE Of(T, m) == {d \in T : f[d] = m}
           groups(T) == [m \in M |-> m * SumOver(w, Of(T, m))]
           terms == [d \in D |-> f[d] * w[d]]
           Good == {T \in SUBSET D : SumOver(groups(T), M) = SumOver(terms, T)}
<1>1. \A d \in D : terms[d] = f[d] * w[d] /\ terms[d] \in Nat
  <2> SUFFICES ASSUME NEW d \in D PROVE terms[d] = f[d] * w[d] /\ terms[d] \in Nat
    OBVIOUS
  <2>1. f[d] \in Nat /\ w[d] \in Nat
    OBVIOUS
  <2> QED BY <2>1
<1>2. \A T \in SUBSET D, m \in M : IsFiniteSet(Of(T, m)) /\ SumOver(w, Of(T, m)) \in Nat
  <2> SUFFICES ASSUME NEW T \in SUBSET D, NEW m \in M
               PROVE  IsFiniteSet(Of(T, m)) /\ SumOver(w, Of(T, m)) \in Nat
    OBVIOUS
  <2>1. Of(T, m) \in SUBSET D /\ \A d \in Of(T, m) : w[d] \in Nat
    OBVIOUS
  <2> HIDE DEF Of
  <2>2. IsFiniteSet(Of(T, m))
    BY <2>1, FS_Subset
  <2> QED BY <2>1, <2>2, SumType
<1>3. \A T \in SUBSET D, m \in M : groups(T)[m] = m * SumOver(w, Of(T, m)) /\ groups(T)[m] \in Nat
  <2> SUFFICES ASSUME NEW T \in SUBSET D, NEW m \in M
               PROVE  groups(T)[m] = m * SumOver(w, Of(T, m)) /\ groups(T)[m] \in Nat
    OBVIOUS
  <2> HIDE DEF Of
  <2> QED BY <1>2
<1> HIDE DEF terms
<1>4. ASSUME NEW T \in SUBSET D, \A x \in T : T \ {x} \in Good
      PROVE  T \in Good
  <2>1. CASE T = {}
    <3>1. \A m \in M : groups(T)[m] = 0
      <4> SUFFICES ASSUME NEW m \in M PROVE groups(T)[m] = 0
        OBVIOUS
      <4>1. Of(T, m) = {}
        BY <2>1
      <4>2. m * 0 = 0
        OBVIOUS
      <4> HIDE DEF Of, groups
      <4> QED BY <1>3, <4>1, <4>2, SumEmpty
    <3>2. SumOver(groups(T), M) = 0
      <4> DEFINE g == groups(T)
                 Zero == {U \in SUBSET M : SumOver(g, U) = 0}
      <4>1. \A m \in M : g[m] = 0
        BY <3>1
      <4> HIDE DEF g
      <4>2. ASSUME NEW U \in SUBSET M, \A x \in U : U \ {x} \in Zero PROVE U \in Zero
        <5>1. CASE U = {}
          BY <5>1, SumEmpty
        <5>2. CASE U # {}
          <6>1. PICK x \in U : TRUE
            BY <5>2
          <6>2. IsFiniteSet(U) /\ (\A m \in U : g[m] \in Nat) /\ g[x] = 0
            BY <4>1, <6>1, FS_Subset
          <6>3. SumOver(g, U) = g[x] + SumOver(g, U \ {x})
            BY <6>1, <6>2, SumRemove
          <6>4. SumOver(g, U \ {x}) = 0
            BY <4>2, <6>1
          <6> QED BY <6>2, <6>3, <6>4
        <5> QED BY <5>1, <5>2
      <4>3. \A U \in SUBSET M : U \in Zero
        <5>1. Zero \in SUBSET (SUBSET M)
          OBVIOUS
        <5> HIDE DEF Zero
        <5> QED BY <4>2, <5>1, SubsetInduction
      <4>4. M \in Zero
        <5> HIDE DEF Zero
        <5> QED BY <4>3
      <4> QED BY <4>4 DEF g
    <3> HIDE DEF groups
    <3> QED BY <2>1, <3>2, SumEmpty
  <2>2. CASE T # {}
    <3>1. PICK x \in T : TRUE
      BY <2>2
    <3> DEFINE rest == T \ {x}
               a == f[x]
               n == a * w[x]
    <3>2. rest \in SUBSET D /\ x \in D /\ IsFiniteSet(T) /\ a \in M /\ a \in Nat /\ w[x] \in Nat
      BY FS_Subset
    <3>3. SumOver(groups(rest), M) = SumOver(terms, rest)
      <4> HIDE DEF groups
      <4> QED BY <1>4, <3>1
    <3>4. SumOver(terms, T) = n + SumOver(terms, rest)
      <4>1. \A d \in T : terms[d] \in Nat
        BY <1>1
      <4>2. SumOver(terms, T) = terms[x] + SumOver(terms, T \ {x})
        BY <3>1, <3>2, <4>1, SumRemove
      <4> QED BY <1>1, <3>2, <4>2
    <3> DEFINE g == groups(rest)
               h == groups(T)
    <3>5. n \in Nat
      <4> HIDE DEF a
      <4> QED BY <3>2
    <3>6. \A m \in M \ {a} : g[m] = h[m]
      <4> SUFFICES ASSUME NEW m \in M \ {a} PROVE g[m] = h[m]
        OBVIOUS
      <4>1. Of(rest, m) = Of(T, m)
        OBVIOUS
      <4> HIDE DEF Of, groups, rest, a
      <4>2. groups(rest)[m] = m * SumOver(w, Of(rest, m)) /\ groups(T)[m] = m * SumOver(w, Of(T, m))
        BY <1>3, <3>2
      <4> QED BY <4>1, <4>2
    <3>7. h[a] = g[a] + n
      <4> DEFINE u == SumOver(w, Of(rest, a))
                 v == SumOver(w, Of(T, a))
                 S == Of(T, a)
      <4>1. S \ {x} = Of(rest, a) /\ x \in S
        OBVIOUS
      <4>2. IsFiniteSet(S) /\ \A d \in S : w[d] \in Nat
        <5>1. \A d \in S : w[d] \in Nat
          OBVIOUS
        <5> HIDE DEF Of, a
        <5> QED BY <1>2, <3>2, <5>1
      <4>3. v = w[x] + u
        <5> HIDE DEF S
        <5>1. SumOver(w, S) = w[x] + SumOver(w, S \ {x})
          BY <4>1, <4>2, SumRemove
        <5> QED BY <4>1, <5>1 DEF S
      <4>4. u \in Nat /\ g[a] = a * u /\ h[a] = a * v
        <5> HIDE DEF Of, groups, rest, a
        <5> QED BY <1>2, <1>3, <3>2
      <4> DEFINE y == w[x]
                 g1 == g[a]
                 h1 == h[a]
      <4>5. v = y + u /\ y \in Nat /\ n = a * y /\ g1 = a * u /\ h1 = a * v
        BY <3>2, <4>3, <4>4
      <4> HIDE DEF u, v, a, n, y, g1, h1
      <4>6. a * (y + u) = a * y + a * u
        BY <3>2, <4>4, <4>5
      <4>7. a * y \in Nat /\ a * u \in Nat
        BY <3>2, <4>4, <4>5
      <4>8. h1 = g1 + n
        BY <4>5, <4>6, <4>7
      <4> QED BY <4>8 DEF g1, h1
    <3>8. \A m \in M : g[m] \in Nat /\ h[m] \in Nat
      <4> HIDE DEF groups, rest
      <4> QED BY <1>3, <3>2
    <3> HIDE DEF g, h, a, n
    <3>9. Share(h, M, a) = Share(g, M, a) + n
      BY <3>2, <3>7 DEF Share
    <3>10. SumOver(h, M) = SumOver(g, M) + n
      BY <3>5, <3>6, <3>8, <3>9, SumAdds
    <3>11. SumOver(g, M) \in Nat
      BY <3>8, SumType
    <3>12. SumOver(h, M) = SumOver(terms, T)
      <4>1. SumOver(g, M) = SumOver(terms, rest)
        BY <3>3 DEF g
      <4> QED BY <3>4, <3>5, <3>10, <3>11, <4>1
    <3> QED BY <3>12 DEF h
  <2> QED BY <2>1, <2>2
<1>5. \A T \in SUBSET D : T \in Good
  <2>1. Good \in SUBSET (SUBSET D)
    OBVIOUS
  <2> HIDE DEF Good
  <2> QED BY <1>4, <2>1, SubsetInduction
<1>6. SumOver(groups(D), M) = SumOver(terms, D)
  <2>1. D \in SUBSET D
    OBVIOUS
  <2>2. D \in Good
    <3> HIDE DEF Good
    <3> QED BY <1>5, <2>1
  <2> HIDE DEF groups
  <2> QED BY <2>2
<1> QED BY <1>6 DEF terms

\* A set has as many elements as it has ones.
LEMMA CountIsSum ==
  ASSUME NEW S, IsFiniteSet(S), NEW w, \A x \in S : w[x] = 1
  PROVE  SumOver(w, S) = Cardinality(S)
<1> DEFINE Good == {T \in SUBSET S : SumOver(w, T) = Cardinality(T)}
<1>1. ASSUME NEW T \in SUBSET S, \A x \in T : T \ {x} \in Good
      PROVE  T \in Good
  <2>1. IsFiniteSet(T) /\ \A x \in T : w[x] \in Nat
    BY FS_Subset
  <2>2. CASE T = {}
    BY <2>2, SumEmpty, FS_EmptySet
  <2>3. CASE T # {}
    <3>1. PICK x \in T : TRUE
      BY <2>3
    <3>2. SumOver(w, T) = w[x] + SumOver(w, T \ {x})
      BY <2>1, <3>1, SumRemove
    <3>3. SumOver(w, T \ {x}) = Cardinality(T \ {x})
      BY <1>1, <3>1
    <3>4. Cardinality(T \ {x}) = Cardinality(T) - 1 /\ Cardinality(T) \in Nat
      BY <2>1, <3>1, FS_RemoveElement, FS_CardinalityType
    <3> QED BY <3>1, <3>2, <3>3, <3>4
  <2> QED BY <2>2, <2>3
<1>2. \A T \in SUBSET S : T \in Good
  <2>1. Good \in SUBSET (SUBSET S)
    OBVIOUS
  <2> HIDE DEF Good
  <2> QED BY <1>1, <2>1, SubsetInduction
<1> QED BY <1>2
=============================================================================
