----------------------- MODULE AllocationSearchLemmas -----------------------
(***************************************************************************)
(* What the operators of AllocationSearch and PciTopology compute, for     *)
(* every argument: sorted lists of IDs, sums, distances in the PCI forest, *)
(* scores, the cheapest placements in the forest, and what a completion of *)
(* a set of devices scores at least.  They are recursive functions, sums   *)
(* and folds over sets, so the facts need induction; it is done by taking  *)
(* a least counterexample (LeastNumber, MinimalSet).                       *)
(***************************************************************************)
EXTENDS AllocationSearch, FiniteSetTheorems, WellFoundedInduction, TLAPS

-----------------------------------------------------------------------------
(* Induction *)

\* A set of subsets of a finite set has a minimal member.
LEMMA MinimalSet ==
    ASSUME NEW S, IsFiniteSet(S), NEW B, B \subseteq SUBSET S, B # {}
    PROVE  \E x \in B : \A y \in B : y \subseteq x => y = x
<1>1. B \subseteq FiniteSubsetsOf(S)
  BY FS_Subset DEF FiniteSubsetsOf
<1>2. IsWellFoundedOn(StrictSubsetOrdering(S), FiniteSubsetsOf(S))
  BY FS_StrictSubsetOrderingWellFounded
<1>3. PICK x \in B : \A y \in B : ~(<<y, x>> \in StrictSubsetOrdering(S))
  BY <1>1, <1>2, WFMin
<1> QED
  BY <1>1, <1>3 DEF StrictSubsetOrdering, FiniteSubsetsOf

\* A set of natural numbers has a least one: its initial segments are subsets
\* of a finite one.
LEMMA LeastNumber ==
    ASSUME NEW B, B \subseteq Nat, B # {}
    PROVE  \E n \in B : \A m \in B : n <= m
<1>1. PICK k \in B : TRUE
  OBVIOUS
<1> DEFINE Segments == {0 .. n : n \in {m \in B : m <= k}}
<1>2. IsFiniteSet(0 .. k)
  BY FS_Interval
<1>3. Segments \subseteq SUBSET (0 .. k) /\ Segments # {}
  <2>1. 0 .. k \in Segments
    BY <1>1
  <2>2. \A n \in B : n <= k => 0 .. n \subseteq 0 .. k
    OBVIOUS
  <2> QED BY <2>1, <2>2
<1>4. PICK x \in Segments : \A y \in Segments : y \subseteq x => y = x
  <2>1. PICK T, C : T = 0 .. k /\ C = Segments
    OBVIOUS
  <2>2. IsFiniteSet(T) /\ C \subseteq SUBSET T /\ C # {}
    BY <1>2, <1>3, <2>1
  <2>3. \E x \in C : \A y \in C : y \subseteq x => y = x
    BY <2>2, MinimalSet
  <2> QED BY <2>1, <2>3
<1>5. PICK n \in B : n <= k /\ x = 0 .. n
  OBVIOUS
<1>6. \A m \in B : n <= m
  <2>1. SUFFICES ASSUME NEW m \in B, m < n PROVE FALSE
    BY <1>5
  <2>2. 0 .. m \in Segments /\ 0 .. m \subseteq 0 .. n
    BY <1>5, <2>1
  <2>3. 0 .. m = 0 .. n
    BY <1>4, <1>5, <2>2
  <2>4. n \in 0 .. n /\ n \notin 0 .. m
    BY <2>1
  <2> QED BY <2>3, <2>4
<1> QED
  BY <1>5, <1>6
-----------------------------------------------------------------------------
(* Sums *)

\* A sum of natural numbers as the number of its units.
Units(f, T) == {u \in T \X Nat : u[2] \in 1 .. f[u[1]]}

\* One more summand.
LEMMA UnitsAdd ==
    ASSUME NEW T, NEW f, NEW x, x \notin T, f[x] \in Nat, IsFiniteSet(Units(f, T))
    PROVE  /\ IsFiniteSet(Units(f, T \cup {x}))
           /\ Cardinality(Units(f, T \cup {x})) = f[x] + Cardinality(Units(f, T))
<1> DEFINE X == {x} \X (1 .. f[x])
<1>1. IsFiniteSet(X) /\ Cardinality(X) = f[x]
  <2>1. IsFiniteSet({x}) /\ Cardinality({x}) = 1
    BY FS_Singleton
  <2>2. IsFiniteSet(1 .. f[x]) /\ Cardinality(1 .. f[x]) = f[x]
    BY FS_Interval
  <2>3. IsFiniteSet(X) /\ Cardinality(X) = Cardinality({x}) * Cardinality(1 .. f[x])
    BY <2>1, <2>2, FS_Product
  <2> QED BY <2>1, <2>2, <2>3
<1>2. Units(f, T \cup {x}) = X \cup Units(f, T)
  BY DEF Units
<1>3. X \cap Units(f, T) = {}
  BY DEF Units
<1>4. Cardinality(X \cap Units(f, T)) = 0
  BY <1>3, FS_EmptySet
<1>5. Cardinality(Units(f, T)) \in Nat
  BY FS_CardinalityType
<1> HIDE DEF X
<1>6. /\ IsFiniteSet(X \cup Units(f, T))
      /\ Cardinality(X \cup Units(f, T))
            = Cardinality(X) + Cardinality(Units(f, T)) - Cardinality(X \cap Units(f, T))
  BY <1>1, FS_Union
<1>7. Cardinality(X \cup Units(f, T)) = f[x] + Cardinality(Units(f, T))
  BY <1>1, <1>4, <1>5, <1>6
<1> QED
  BY <1>2, <1>6, <1>7

\* There are finitely many units.
LEMMA UnitsFinite ==
    ASSUME NEW S, IsFiniteSet(S), NEW f, \A x \in S : f[x] \in Nat
    PROVE  \A T \in SUBSET S : IsFiniteSet(Units(f, T)) /\ Cardinality(Units(f, T)) \in Nat
<1> DEFINE B == {T \in SUBSET S : ~IsFiniteSet(Units(f, T))}
<1>1. ASSUME B # {} PROVE FALSE
  <2>0. B \subseteq SUBSET S
    OBVIOUS
  <2>1. PICK T \in B : \A U \in B : U \subseteq T => U = T
    <3> HIDE DEF B
    <3> QED BY <1>1, <2>0, MinimalSet
  <2>2. CASE T = {}
    <3>1. Units(f, T) = {}
      BY <2>2 DEF Units
    <3> QED BY <3>1, FS_EmptySet
  <2>3. CASE T # {}
    <3>1. PICK x \in T : TRUE
      BY <2>3
    <3>2. IsFiniteSet(Units(f, T \ {x}))
      BY <2>1, <3>1
    <3>3. IsFiniteSet(Units(f, (T \ {x}) \cup {x}))
      BY <3>1, <3>2, UnitsAdd
    <3>4. (T \ {x}) \cup {x} = T
      BY <3>1
    <3> QED BY <3>3, <3>4
  <2> QED BY <2>2, <2>3
<1> QED
  BY <1>1, FS_CardinalityType

\* The recursion of SumFunctionOnSet.
SumStep(f, S, g) ==
    [T \in SUBSET S |->
        IF T = {} THEN 0
        ELSE f[CHOOSE x \in T : TRUE] + g[T \ {CHOOSE x \in T : TRUE}]]

\* SumFunctionOnSet adds up the values of a function on a finite set.
LEMMA SumIsCount ==
    ASSUME NEW S, IsFiniteSet(S), NEW f, \A x \in S : f[x] \in Nat
    PROVE  SumFunctionOnSet(f, S) = Cardinality(Units(f, S))
<1> DEFINE g == [T \in SUBSET S |-> Cardinality(Units(f, T))]
           h == CHOOSE r : r = SumStep(f, S, r)
<1>1. g = SumStep(f, S, g)
  <2>1. SUFFICES ASSUME NEW T \in SUBSET S PROVE g[T] = SumStep(f, S, g)[T]
    BY DEF SumStep
  <2>2. CASE T = {}
    <3>1. Units(f, T) = {}
      BY <2>2 DEF Units
    <3> QED BY <2>2, <3>1, FS_EmptySet DEF SumStep
  <2>3. CASE T # {}
    <3>1. PICK x \in T : x = CHOOSE y \in T : TRUE
      BY <2>3
    <3>2. IsFiniteSet(Units(f, T \ {x}))
      BY UnitsFinite
    <3>3. Cardinality(Units(f, (T \ {x}) \cup {x})) = f[x] + Cardinality(Units(f, T \ {x}))
      BY <3>1, <3>2, UnitsAdd
    <3>4. (T \ {x}) \cup {x} = T
      BY <3>1
    <3>5. T \ {x} \in SUBSET S
      OBVIOUS
    <3> QED BY <2>3, <3>1, <3>3, <3>4, <3>5 DEF SumStep
  <2> QED BY <2>2, <2>3
<1>2. h = SumStep(f, S, h)
  <2> HIDE DEF g
  <2> QED BY <1>1
<1>3. SumFunctionOnSet(f, S) = h[S]
  BY DEF SumFunctionOnSet, FoldFunctionOnSet, MapThenFoldSet, SumStep
<1>4. \A T \in SUBSET S : h[T] = g[T]
  <2> DEFINE B == {T \in SUBSET S : h[T] # g[T]}
  <2>1. SUFFICES ASSUME B # {} PROVE FALSE
    OBVIOUS
  <2> HIDE DEF g, h
  <2>6. B \subseteq SUBSET S
    OBVIOUS
  <2>2. PICK T \in B : \A U \in B : U \subseteq T => U = T
    <3> HIDE DEF B
    <3> QED BY <2>1, <2>6, MinimalSet
  <2>3. h[T] = SumStep(f, S, h)[T] /\ g[T] = SumStep(f, S, g)[T]
    BY <1>1, <1>2
  <2>4. CASE T = {}
    BY <2>3, <2>4 DEF SumStep
  <2>5. CASE T # {}
    <3>1. PICK x \in T : x = CHOOSE y \in T : TRUE
      BY <2>5
    <3>2. h[T \ {x}] = g[T \ {x}]
      BY <2>2, <3>1
    <3> QED BY <2>3, <2>5, <3>1, <3>2 DEF SumStep
  <2> QED BY <2>4, <2>5
<1> QED
  BY <1>3, <1>4
-----------------------------------------------------------------------------
(* Greatest and least elements *)

\* A finite set of integers that is not empty has a greatest element.
LEMMA MaxExists ==
    ASSUME NEW S, IsFiniteSet(S), S \subseteq Int, S # {}
    PROVE  Max(S) \in S /\ \A x \in S : x <= Max(S)
<1> DEFINE B == {T \in SUBSET S : T # {} /\ ~\E x \in T : \A y \in T : x >= y}
<1>1. ASSUME B # {} PROVE FALSE
  <2>1. B \subseteq SUBSET S
    OBVIOUS
  <2>2. PICK T \in B : \A U \in B : U \subseteq T => U = T
    <3> HIDE DEF B
    <3>1. IsFiniteSet(S) /\ B # {} /\ B \subseteq SUBSET S
      BY <1>1, <2>1
    <3> QED BY ONLY <3>1, MinimalSet
  <2>3. PICK x \in T : TRUE
    OBVIOUS
  <2>4. x \in Int
    OBVIOUS
  <2>5. CASE T = {x}
    BY <2>4, <2>5
  <2>6. CASE T # {x}
    <3>1. T \ {x} \in SUBSET S /\ T \ {x} # {} /\ T \ {x} # T
      BY <2>3, <2>6
    <3>2. PICK m \in T \ {x} : \A y \in T \ {x} : m >= y
      BY <2>2, <3>1
    <3>3. m \in Int /\ \A y \in T : y \in Int
      OBVIOUS
    <3>4. CASE m >= x
      BY <3>2, <3>3, <3>4
    <3>5. CASE x >= m
      BY <2>4, <3>2, <3>3, <3>5
    <3> QED BY <2>4, <3>3, <3>4, <3>5
  <2> QED BY <2>5, <2>6
<1>2. \E x \in S : \A y \in S : x >= y
  BY <1>1
<1>3. Max(S) \in S /\ \A y \in S : Max(S) >= y
  BY <1>2 DEF Max
<1> QED
  BY <1>3

\* Two sets of integers with the same bounds from above have the same maximum.
LEMMA MaxIs ==
    ASSUME NEW S \in SUBSET Int, NEW m \in S, \A x \in S : x <= m
    PROVE  Max(S) = m
<1>1. Max(S) \in S /\ \A y \in S : Max(S) >= y
  <2>1. \A y \in S : m >= y
    OBVIOUS
  <2> QED BY <2>1 DEF Max
<1>2. Max(S) \in Int /\ m \in Int
  BY <1>1
<1> QED
  BY <1>1, <1>2

-----------------------------------------------------------------------------
(* Sorted lists *)

\* q lists the elements of T in increasing order.
Enumerates(q, T) ==
    /\ q \in Seq(T)
    /\ \A i, j \in 1 .. Len(q) : i < j => q[i] < q[j]
    /\ \A x \in T : \E i \in 1 .. Len(q) : q[i] = x

\* One step of the recursion of Sorted.
SortedStep(S, n, g) ==
    [i \in 0 .. n |->
        IF i = 0 THEN <<>> ELSE IF i \in S THEN Append(g[i - 1], i) ELSE g[i - 1]]

LEMMA SortedDefined ==
    ASSUME NEW S, NEW n \in Nat
    PROVE  \E g : g = SortedStep(S, n, g)
<1> DEFINE B == {m \in Nat : ~\E g : g = SortedStep(S, m, g)}
<1>1. SUFFICES ASSUME B # {} PROVE FALSE
  OBVIOUS
<1>2. PICK m \in B : \A k \in B : m <= k
  <2>1. B \subseteq Nat
    OBVIOUS
  <2> HIDE DEF B
  <2> QED BY <1>1, <2>1, LeastNumber
<1>3. CASE m = 0
  <2> DEFINE g == [i \in 0 .. m |-> <<>>]
  <2>1. g = SortedStep(S, m, g)
    BY <1>3 DEF SortedStep
  <2> HIDE DEF g
  <2> QED BY <2>1
<1>4. CASE m # 0
  <2>1. m - 1 \in Nat /\ m - 1 \notin B
    BY <1>2, <1>4
  <2>2. PICK g : g = SortedStep(S, m - 1, g)
    BY <2>1
  <2> DEFINE h == [i \in 0 .. m |->
                     IF i < m THEN g[i]
                     ELSE IF m \in S THEN Append(g[m - 1], m) ELSE g[m - 1]]
  <2>3. h = SortedStep(S, m, h)
    <3>1. SUFFICES ASSUME NEW i \in 0 .. m PROVE h[i] = SortedStep(S, m, h)[i]
      BY DEF SortedStep
    <3>2. CASE i = m
      <4>1. m - 1 \in 0 .. m /\ m - 1 < m /\ m \in 0 .. m
        BY <1>4
      <4>2. h[m - 1] = g[m - 1]
        BY <4>1
      <4> QED BY <1>4, <3>2, <4>1, <4>2 DEF SortedStep
    <3>3. CASE i < m
      <4>1. g[i] = SortedStep(S, m - 1, g)[i]
        BY <2>2
      <4>2. i # 0 => i - 1 \in 0 .. m /\ i - 1 < m
        BY <3>3
      <4>3. i \in 0 .. m - 1
        BY <3>3
      <4> QED BY <3>3, <4>1, <4>2, <4>3 DEF SortedStep
    <3> QED BY <3>2, <3>3
  <2> HIDE DEF h
  <2> QED BY <2>3
<1> QED
  BY <1>3, <1>4

\* sortedDeviceIDs lists the IDs in increasing order.
LEMMA SortedEnumerates ==
    ASSUME NEW S, IsFiniteSet(S), S \subseteq Nat \ {0}
    PROVE  Enumerates(Sorted(S), S)
<1> DEFINE last == Max(S \cup {0})
           f == CHOOSE g : g = SortedStep(S, last, g)
<1>1. last \in Nat /\ \A x \in S : x <= last
  <2>1. IsFiniteSet(S \cup {0})
    BY FS_AddElement
  <2>2. S \cup {0} \subseteq Int /\ S \cup {0} # {}
    OBVIOUS
  <2>3. last \in S \cup {0} /\ \A x \in S \cup {0} : x <= last
    BY <2>1, <2>2, MaxExists
  <2> HIDE DEF last
  <2>4. \A x \in S \cup {0} : x \in Nat
    OBVIOUS
  <2> QED BY <2>3, <2>4
<1>2. Sorted(S) = f[last]
  BY DEF Sorted, SortedStep
<1> HIDE DEF last
<1>3. f = SortedStep(S, last, f)
  BY <1>1, SortedDefined
<1> HIDE DEF f
<1>4. \A n \in 0 .. last : Enumerates(f[n], S \cap 1 .. n)
  <2> DEFINE B == {n \in 0 .. last : ~Enumerates(f[n], S \cap 1 .. n)}
  <2>1. SUFFICES ASSUME B # {} PROVE FALSE
    OBVIOUS
  <2>2. PICK n \in B : \A k \in B : n <= k
    <3>1. B \subseteq Nat
      BY <1>1
    <3> HIDE DEF B
    <3> QED BY <2>1, <3>1, LeastNumber
  <2>3. f[n] = SortedStep(S, last, f)[n]
    BY <1>3
  <2>4. CASE n = 0
    <3>1. f[n] = <<>>
      BY <1>1, <2>3, <2>4 DEF SortedStep
    <3>2. S \cap 1 .. n = {}
      BY <2>4
    <3>3. <<>> \in Seq({}) /\ 1 .. Len(<<>>) = {}
      OBVIOUS
    <3> QED BY <3>1, <3>2, <3>3 DEF Enumerates
  <2>5. CASE n # 0
    <3>1. n \in Nat /\ n - 1 \in 0 .. last /\ n - 1 \notin B
      BY <1>1, <2>2, <2>5
    <3>2. Enumerates(f[n - 1], S \cap 1 .. n - 1)
      BY <3>1
    <3>3. CASE n \in S
      <4>1. f[n] = Append(f[n - 1], n)
        BY <2>3, <2>5, <3>3 DEF SortedStep
      <4> DEFINE q == f[n - 1]
                 r == f[n]
      <4>2. /\ q \in Seq(S \cap 1 .. n - 1)
            /\ \A i, j \in 1 .. Len(q) : i < j => q[i] < q[j]
            /\ \A x \in S \cap 1 .. n - 1 : \E i \in 1 .. Len(q) : q[i] = x
        BY <3>2 DEF Enumerates
      <4>3. Len(q) \in Nat /\ \A i \in 1 .. Len(q) : q[i] \in S \cap 1 .. n - 1
        BY <4>2
      <4>4. S \cap 1 .. n = (S \cap 1 .. n - 1) \cup {n}
        BY <3>1, <3>3
      <4>5. q \in Seq(S \cap 1 .. n) /\ n \in S \cap 1 .. n
        BY <4>2, <4>4
      <4> HIDE DEF q, r
      <4>6. r = Append(q, n)
        BY <4>1 DEF q, r
      <4>7. /\ r \in Seq(S \cap 1 .. n)
            /\ Len(r) = Len(q) + 1
            /\ \A i \in 1 .. Len(q) : r[i] = q[i]
            /\ r[Len(q) + 1] = n
        BY <4>5, <4>6
      <4>8. \A i, j \in 1 .. Len(r) : i < j => r[i] < r[j]
        <5>1. SUFFICES ASSUME NEW i \in 1 .. Len(r), NEW j \in 1 .. Len(r), i < j
                       PROVE  r[i] < r[j]
          OBVIOUS
        <5>2. i \in 1 .. Len(q) /\ r[i] = q[i] /\ q[i] \in 1 .. n - 1
          BY <4>3, <4>7, <5>1
        <5>3. CASE j = Len(q) + 1
          BY <3>1, <4>7, <5>2, <5>3
        <5>4. CASE j \in 1 .. Len(q)
          BY <4>2, <4>7, <5>1, <5>2, <5>4
        <5> QED BY <4>3, <4>7, <5>3, <5>4
      <4>9. \A x \in S \cap 1 .. n : \E i \in 1 .. Len(r) : r[i] = x
        <5>1. SUFFICES ASSUME NEW x \in S \cap 1 .. n PROVE \E i \in 1 .. Len(r) : r[i] = x
          OBVIOUS
        <5>2. CASE x = n
          <6>1. Len(q) + 1 \in 1 .. Len(r)
            BY <4>3, <4>7
          <6> QED BY <4>7, <5>2, <6>1
        <5>3. CASE x \in S \cap 1 .. n - 1
          <6>1. PICK i \in 1 .. Len(q) : q[i] = x
            BY <4>2, <5>3
          <6>2. i \in 1 .. Len(r)
            BY <4>3, <4>7
          <6> QED BY <4>7, <6>1, <6>2
        <5> QED BY <4>4, <5>2, <5>3
      <4>10. Enumerates(r, S \cap 1 .. n)
        BY <4>7, <4>8, <4>9 DEF Enumerates
      <4> QED BY <4>10 DEF r
    <3>4. CASE n \notin S
      <4>1. f[n] = f[n - 1]
        BY <2>3, <2>5, <3>4 DEF SortedStep
      <4>2. S \cap 1 .. n = S \cap 1 .. n - 1
        BY <3>1, <3>4
      <4> QED BY <3>2, <4>1, <4>2
    <3> QED BY <3>3, <3>4
  <2> QED BY <2>4, <2>5
<1>5. S \cap 1 .. last = S
  <2>1. \A x \in S : x \in Nat /\ x # 0
    OBVIOUS
  <2>2. \A x \in S : x \in 1 .. last
    BY <1>1, <2>1
  <2> QED BY <2>2
<1> QED
  BY <1>1, <1>2, <1>4, <1>5

LEMMA UpTo ==
    ASSUME NEW n \in Nat
    PROVE  IsFiniteSet(1 .. n) /\ Cardinality(1 .. n) = n
BY FS_Interval

\* A list without repetitions is as long as it has elements.
LEMMA LengthIsCardinality ==
    ASSUME NEW T, NEW q \in Seq(T),
           \A i, j \in 1 .. Len(q) : i # j => q[i] # q[j]
    PROVE  /\ ToSet(q) \subseteq T
           /\ IsFiniteSet(ToSet(q))
           /\ Cardinality(ToSet(q)) = Len(q)
<1>1. /\ Len(q) \in Nat
      /\ q \in [1 .. Len(q) -> ToSet(q)]
      /\ \A x \in ToSet(q) : \E i \in 1 .. Len(q) : q[i] = x
      /\ ToSet(q) \subseteq T
  BY DEF ToSet
<1>2. IsFiniteSet(1 .. Len(q)) /\ Cardinality(1 .. Len(q)) = Len(q)
  BY <1>1, UpTo
<1>3. q \in Bijection(1 .. Len(q), ToSet(q))
  BY <1>1 DEF Bijection, Injection, Surjection, IsInjective
<1>4. ExistsBijection(1 .. Len(q), ToSet(q))
  BY <1>3 DEF ExistsBijection
<1> QED
  BY <1>1, <1>2, <1>4, FS_Bijection

\* normalizeMustInclude keeps every mandatory device, once.
LEMMA NormalizedMust ==
    ASSUME NEW must \in Seq(Nat)
    PROVE  LET q == normalizeMustInclude(must)
           IN  /\ q \in Seq(ToSet(must))
               /\ ToSet(q) = ToSet(must)
               /\ \A i, j \in 1 .. Len(q) : i # j => q[i] # q[j]
<1> DEFINE P == {i \in DOMAIN must : \A j \in 1 .. i - 1 : must[j] # must[i]}
           first == Sorted(P)
           q == normalizeMustInclude(must)
<1>1. IsFiniteSet(P) /\ P \subseteq Nat \ {0} /\ DOMAIN must = 1 .. Len(must) /\ Len(must) \in Nat
  <2>1. DOMAIN must = 1 .. Len(must) /\ Len(must) \in Nat
    OBVIOUS
  <2>2. IsFiniteSet(1 .. Len(must))
    BY <2>1, UpTo
  <2>3. P \in SUBSET (1 .. Len(must))
    BY <2>1
  <2> HIDE DEF P
  <2>4. IsFiniteSet(P)
    BY <2>2, <2>3, FS_Subset
  <2> QED BY <2>1, <2>3, <2>4
<1>2. Enumerates(first, P)
  <2> HIDE DEF P
  <2> QED BY <1>1, SortedEnumerates
<1>3. q = [k \in DOMAIN first |-> must[first[k]]]
  BY DEF normalizeMustInclude
<1>4. \A x \in ToSet(must) : \E i \in P : must[i] = x
  <2>1. SUFFICES ASSUME NEW x \in ToSet(must) PROVE \E i \in P : must[i] = x
    OBVIOUS
  <2> DEFINE B == {i \in 1 .. Len(must) : must[i] = x}
  <2>2. B # {} /\ B \subseteq Nat
    BY <1>1 DEF ToSet
  <2>3. PICK i \in B : \A j \in B : i <= j
    <3> HIDE DEF B
    <3> QED BY <2>2, LeastNumber
  <2>4. i \in P
    BY <1>1, <2>3
  <2> QED BY <2>4
<1>5. \A i \in P, j \in P : i < j => must[i] # must[j]
  BY <1>1
<1>6. \A i \in P : i \in 1 .. Len(must)
  BY <1>1
<1> HIDE DEF P, first
<1>7. /\ first \in Seq(P) /\ Len(first) \in Nat /\ DOMAIN first = 1 .. Len(first)
      /\ \A k \in 1 .. Len(first) : first[k] \in P
      /\ \A k, l \in 1 .. Len(first) : k < l => first[k] < first[l]
      /\ \A i \in P : \E k \in 1 .. Len(first) : first[k] = i
  BY <1>2 DEF Enumerates
<1>8. q = [k \in 1 .. Len(first) |-> must[first[k]]]
  BY <1>3, <1>7
<1> HIDE DEF q
<1>9. \A k \in 1 .. Len(first) : q[k] \in ToSet(must)
  BY <1>1, <1>6, <1>7, <1>8 DEF ToSet
<1>10. q \in Seq(ToSet(must)) /\ Len(q) = Len(first) /\ DOMAIN q = 1 .. Len(first)
  BY <1>7, <1>8, <1>9
<1>11. \A x \in ToSet(must) : \E k \in 1 .. Len(first) : q[k] = x
  BY <1>4, <1>7, <1>8
<1>12. ToSet(q) = ToSet(must)
  BY <1>9, <1>10, <1>11 DEF ToSet
<1>13. \A k, l \in 1 .. Len(q) : k # l => q[k] # q[l]
  <2>1. \A k, l \in 1 .. Len(first) : k < l => q[k] # q[l]
    BY <1>5, <1>7, <1>8
  <2>2. \A k, l \in 1 .. Len(first) : k # l => k < l \/ l < k
    BY <1>7
  <2> QED BY <1>10, <2>1, <2>2
<1> QED
  BY <1>10, <1>12, <1>13 DEF q

-----------------------------------------------------------------------------
(* Distances in the PCI forest *)

\* v and w have their first n components in common.
Agree(v, w, n) == n <= Len(v) /\ n <= Len(w) /\ \A i \in 1 .. n : v[i] = w[i]

\* How many components they have in common, and the node these lead to.
Fork(v, w) == CHOOSE n \in Nat : Agree(v, w, n) /\ ~Agree(v, w, n + 1)
Meet(v, w) == SubSeq(v, 1, Fork(v, w))

LEMMA ForkExists ==
    ASSUME NEW v \in Seq(Nat), NEW w \in Seq(Nat)
    PROVE  /\ Fork(v, w) \in Nat
           /\ \A n \in Nat : Agree(v, w, n) <=> n <= Fork(v, w)
<1> DEFINE B == {n \in Nat : ~Agree(v, w, n)}
<1>1. Len(v) \in Nat /\ Len(w) \in Nat
  OBVIOUS
<1>2. Len(v) + 1 \in B /\ B \subseteq Nat
  BY <1>1 DEF Agree
<1>3. PICK m \in B : \A n \in B : m <= n
  <2> HIDE DEF B
  <2> QED BY <1>2, LeastNumber
<1>4. m # 0
  BY <1>1 DEF Agree
<1>5. m - 1 \in Nat /\ Agree(v, w, m - 1) /\ ~Agree(v, w, (m - 1) + 1)
  BY <1>3, <1>4
<1>6. Fork(v, w) \in Nat /\ Agree(v, w, Fork(v, w)) /\ ~Agree(v, w, Fork(v, w) + 1)
  BY <1>5 DEF Fork
<1>7. \A n, k \in Nat : Agree(v, w, n) /\ k <= n => Agree(v, w, k)
  BY <1>1 DEF Agree
<1>8. \A n \in Nat : n <= Fork(v, w) => Agree(v, w, n)
  BY <1>6, <1>7
<1>9. \A n \in Nat : ~(n <= Fork(v, w)) => ~Agree(v, w, n)
  <2>1. SUFFICES ASSUME NEW n \in Nat, ~(n <= Fork(v, w)), Agree(v, w, n) PROVE FALSE
    OBVIOUS
  <2>2. Fork(v, w) + 1 <= n /\ Fork(v, w) + 1 \in Nat
    BY <1>6, <2>1
  <2> QED BY <1>6, <1>7, <2>1, <2>2
<1> QED
  BY <1>6, <1>8, <1>9

\* Only the agreement decides where two paths meet.
LEMMA ForkIs ==
    ASSUME NEW v \in Seq(Nat), NEW w \in Seq(Nat), NEW k \in Nat,
           \A n \in Nat : Agree(v, w, n) <=> n <= k
    PROVE  Fork(v, w) = k
<1>1. /\ Fork(v, w) \in Nat
      /\ \A n \in Nat : Agree(v, w, n) <=> n <= Fork(v, w)
  BY ForkExists
<1>2. k <= Fork(v, w) /\ Fork(v, w) <= k
  BY <1>1
<1> QED
  BY <1>1, <1>2

\* The recursion of LCA.
LCAStep(g) ==
    [p \in Seq(Nat) \X Seq(Nat) |->
        CASE Depth(p[1]) > Depth(p[2]) -> g[<<Parent(p[1]), p[2]>>]
          [] Depth(p[2]) > Depth(p[1]) -> g[<<p[1], Parent(p[2])>>]
          [] Depth(p[1]) = Depth(p[2]) /\ p[1] # p[2] -> g[<<Parent(p[1]), Parent(p[2])>>]
          [] OTHER -> p[1]]

LEMMA LCADef == LCA = CHOOSE g : g = LCAStep(g)
BY DEF LCA, LCAStep

LEMMA ParentOf ==
    ASSUME NEW v \in Seq(Nat), Len(v) # 0
    PROVE  /\ Parent(v) \in Seq(Nat)
           /\ Len(Parent(v)) = Len(v) - 1
           /\ \A i \in 1 .. Len(v) - 1 : Parent(v)[i] = v[i]
<1>1. Len(v) \in Nat /\ Len(v) - 1 \in 0 .. Len(v)
  OBVIOUS
<1>2. \A i \in 1 .. Len(v) - 1 : v[i] \in Nat
  BY <1>1
<1>3. Parent(v) = [i \in 1 .. Len(v) - 1 |-> v[i]]
  BY <1>1 DEF Parent, Front
<1> QED
  BY <1>1, <1>2, <1>3

\* Agreement of a path with the parent of another.
LEMMA AgreeParent ==
    ASSUME NEW v \in Seq(Nat), NEW w \in Seq(Nat), Len(v) # 0, NEW n \in Nat
    PROVE  /\ Agree(Parent(v), w, n) <=> n < Len(v) /\ Agree(v, w, n)
           /\ Agree(w, Parent(v), n) <=> n < Len(v) /\ Agree(w, v, n)
<1>1. Len(v) \in Nat /\ Len(w) \in Nat
  OBVIOUS
<1>2. /\ Len(Parent(v)) = Len(v) - 1
      /\ \A i \in 1 .. Len(v) - 1 : Parent(v)[i] = v[i]
  BY ParentOf
<1>3. n <= Len(v) - 1 <=> n < Len(v)
  BY <1>1
<1>4. CASE n < Len(v)
  <2>1. \A i \in 1 .. n : Parent(v)[i] = v[i]
    BY <1>1, <1>2, <1>4
  <2>2. n <= Len(Parent(v)) /\ n <= Len(v)
    BY <1>1, <1>2, <1>4
  <2> DEFINE u == Parent(v)
  <2> HIDE DEF u
  <2>3. \A i \in 1 .. n : u[i] = v[i]
    BY <2>1 DEF u
  <2>4. n <= Len(u)
    BY <2>2 DEF u
  <2>5. Agree(u, w, n) <=> Agree(v, w, n)
    BY ONLY <2>2, <2>3, <2>4 DEF Agree
  <2>6. Agree(w, u, n) <=> Agree(w, v, n)
    BY ONLY <2>2, <2>3, <2>4 DEF Agree
  <2> QED BY <1>4, <2>5, <2>6 DEF u
<1>5. CASE ~(n < Len(v))
  BY <1>2, <1>3, <1>5 DEF Agree
<1> QED
  BY <1>4, <1>5

\* Below the depth of the parent, a path and its parent's have the same prefixes.
LEMMA ParentPrefix ==
    ASSUME NEW v \in Seq(Nat), NEW n \in Nat, n < Len(v)
    PROVE  SubSeq(Parent(v), 1, n) = SubSeq(v, 1, n)
<1>1. Len(v) \in Nat /\ Len(v) # 0
  OBVIOUS
<1>2. /\ Parent(v) \in Seq(Nat)
      /\ Len(Parent(v)) = Len(v) - 1
      /\ \A i \in 1 .. Len(v) - 1 : Parent(v)[i] = v[i]
  BY <1>1, ParentOf
<1>3. SubSeq(Parent(v), 1, n) = [i \in 1 .. n |-> Parent(v)[i]]
  BY <1>1, <1>2
<1>4. SubSeq(v, 1, n) = [i \in 1 .. n |-> v[i]]
  BY <1>1
<1> QED
  BY <1>1, <1>2, <1>3, <1>4

MeetAll == [p \in Seq(Nat) \X Seq(Nat) |-> Meet(p[1], p[2])]

\* Climbing as distance() does leads to the deepest node above both.
LEMMA MeetStep == MeetAll = LCAStep(MeetAll)
<1> DEFINE g == MeetAll
<1>0. \A x, y \in Seq(Nat) : g[<<x, y>>] = Meet(x, y)
  BY DEF MeetAll
<1> HIDE DEF g
<1>1. SUFFICES ASSUME NEW v \in Seq(Nat), NEW w \in Seq(Nat)
               PROVE  Meet(v, w) = LCAStep(g)[<<v, w>>]
  <2>1. \A p \in Seq(Nat) \X Seq(Nat) : p = <<p[1], p[2]>> /\ p[1] \in Seq(Nat) /\ p[2] \in Seq(Nat)
    OBVIOUS
  <2>2. SUFFICES ASSUME NEW p \in Seq(Nat) \X Seq(Nat) PROVE g[p] = LCAStep(g)[p]
    <3>1. g = [p \in Seq(Nat) \X Seq(Nat) |-> g[p]]
      BY DEF g, MeetAll
    <3>2. LCAStep(g) = [p \in Seq(Nat) \X Seq(Nat) |-> LCAStep(g)[p]]
      BY DEF LCAStep
    <3>3. g = LCAStep(g)
      BY <2>2, <3>1, <3>2
    <3> QED BY <3>3 DEF g
  <2> QED BY <1>0, <1>1, <2>1
<1>2. Len(v) \in Nat /\ Len(w) \in Nat
  OBVIOUS
<1>3. /\ Fork(v, w) \in Nat
      /\ \A n \in Nat : Agree(v, w, n) <=> n <= Fork(v, w)
  BY ForkExists
<1>4. CASE Depth(v) > Depth(w)
  <2>1. Len(v) > Len(w) /\ Len(v) # 0
    BY <1>2, <1>4 DEF Depth
  <2>2. /\ Parent(v) \in Seq(Nat)
        /\ Len(Parent(v)) = Len(v) - 1
        /\ \A i \in 1 .. Len(v) - 1 : Parent(v)[i] = v[i]
    BY <2>1, ParentOf
  <2>3. \A n \in Nat : Agree(Parent(v), w, n) <=> n <= Fork(v, w)
    <3>1. \A n \in Nat : Agree(Parent(v), w, n) <=> Agree(v, w, n)
      <4>1. \A n \in Nat : Agree(v, w, n) => n < Len(v)
        BY <1>2, <2>1 DEF Agree
      <4> QED BY <2>1, <4>1, AgreeParent
    <3> QED BY <1>3, <3>1
  <2>4. Fork(Parent(v), w) = Fork(v, w)
    BY <1>3, <2>2, <2>3, ForkIs
  <2>5. Fork(v, w) < Len(v)
    BY <1>2, <1>3, <2>1 DEF Agree
  <2>6. Meet(Parent(v), w) = Meet(v, w)
    BY <1>3, <2>4, <2>5, ParentPrefix DEF Meet
  <2>7. LCAStep(g)[<<v, w>>] = g[<<Parent(v), w>>]
    <3>1. ~(Depth(w) > Depth(v)) /\ Depth(v) # Depth(w)
      BY <1>2, <1>4 DEF Depth
    <3> QED BY <1>4, <3>1 DEF LCAStep
  <2> QED BY <1>0, <2>2, <2>6, <2>7
<1>5. CASE Depth(w) > Depth(v)
  <2>1. Len(w) > Len(v) /\ Len(w) # 0 /\ ~(Depth(v) > Depth(w)) /\ Depth(v) # Depth(w)
    BY <1>2, <1>5 DEF Depth
  <2>2. /\ Parent(w) \in Seq(Nat)
        /\ Len(Parent(w)) = Len(w) - 1
        /\ \A i \in 1 .. Len(w) - 1 : Parent(w)[i] = w[i]
    BY <2>1, ParentOf
  <2>3. \A n \in Nat : Agree(v, Parent(w), n) <=> n <= Fork(v, w)
    <3>1. \A n \in Nat : Agree(v, Parent(w), n) <=> Agree(v, w, n)
      <4>1. \A n \in Nat : Agree(v, w, n) => n < Len(w)
        BY <1>2, <2>1 DEF Agree
      <4> QED BY <2>1, <4>1, AgreeParent
    <3> QED BY <1>3, <3>1
  <2>4. Fork(v, Parent(w)) = Fork(v, w)
    BY <1>3, <2>2, <2>3, ForkIs
  <2>5. Meet(v, Parent(w)) = Meet(v, w)
    BY <2>4 DEF Meet
  <2>6. LCAStep(g)[<<v, w>>] = g[<<v, Parent(w)>>]
    BY <1>5, <2>1 DEF LCAStep
  <2> QED BY <1>0, <2>2, <2>5, <2>6
<1>6. CASE Depth(v) = Depth(w) /\ v # w
  <2>1. Len(v) = Len(w) /\ ~(Depth(v) > Depth(w)) /\ ~(Depth(w) > Depth(v))
    BY <1>2, <1>6 DEF Depth
  <2>2. Len(v) # 0
    BY <1>6, <2>1
  <2>3. /\ Parent(v) \in Seq(Nat)
        /\ Len(Parent(v)) = Len(v) - 1
        /\ \A i \in 1 .. Len(v) - 1 : Parent(v)[i] = v[i]
    BY <2>2, ParentOf
  <2>4. /\ Parent(w) \in Seq(Nat)
        /\ Len(Parent(w)) = Len(w) - 1
        /\ \A i \in 1 .. Len(w) - 1 : Parent(w)[i] = w[i]
    BY <2>1, <2>2, ParentOf
  <2>5. ~Agree(v, w, Len(v))
    BY <1>2, <1>6, <2>1 DEF Agree
  <2>6. \A n \in Nat : Agree(Parent(v), Parent(w), n) <=> n <= Fork(v, w)
    <3>1. \A n \in Nat : Agree(Parent(v), Parent(w), n) <=> n < Len(v) /\ Agree(v, Parent(w), n)
      BY <2>2, <2>4, AgreeParent
    <3>2. \A n \in Nat : Agree(v, Parent(w), n) <=> n < Len(v) /\ Agree(v, w, n)
      BY <2>1, <2>2, AgreeParent
    <3>3. Fork(v, w) < Len(v)
      BY <1>2, <1>3, <2>5
    <3>4. \A n \in Nat : n <= Fork(v, w) => n < Len(v)
      BY <1>2, <1>3, <3>3
    <3> QED BY <1>3, <3>1, <3>2, <3>4
  <2>7. Fork(Parent(v), Parent(w)) = Fork(v, w)
    BY <1>3, <2>3, <2>4, <2>6, ForkIs
  <2>8. Fork(v, w) < Len(v)
    BY <1>2, <1>3, <2>5
  <2>9. Meet(Parent(v), Parent(w)) = Meet(v, w)
    BY <1>3, <2>7, <2>8, ParentPrefix DEF Meet
  <2>10. LCAStep(g)[<<v, w>>] = g[<<Parent(v), Parent(w)>>]
    BY <1>6, <2>1 DEF LCAStep
  <2> QED BY <1>0, <2>3, <2>4, <2>9, <2>10
<1>7. CASE v = w
  <2>1. \A n \in Nat : Agree(v, w, n) <=> n <= Len(v)
    BY <1>2, <1>7 DEF Agree
  <2>2. Fork(v, w) = Len(v)
    BY <1>2, <2>1, ForkIs
  <2>3. Meet(v, w) = v
    BY <1>2, <2>2 DEF Meet
  <2>4. LCAStep(g)[<<v, w>>] = v
    BY <1>2, <1>7 DEF LCAStep, Depth
  <2> QED BY <2>3, <2>4
<1> QED
  BY <1>2, <1>4, <1>5, <1>6, <1>7 DEF Depth

LEMMA LCAIsMeet ==
    ASSUME NEW v \in Seq(Nat), NEW w \in Seq(Nat)
    PROVE  LCA[<<v, w>>] = Meet(v, w)
<1>1. LCA = LCAStep(LCA)
  BY MeetStep, LCADef
<1> DEFINE Wrong(n) == \E x, y \in Seq(Nat) : Len(x) + Len(y) = n /\ LCA[<<x, y>>] # Meet(x, y)
           B == {n \in Nat : Wrong(n)}
<1>2. SUFFICES ASSUME B # {} PROVE FALSE
  <2>1. Len(v) + Len(w) \in Nat
    OBVIOUS
  <2> QED BY <2>1
<1>3. PICK n \in B : \A m \in B : n <= m
  <2>1. B \subseteq Nat
    OBVIOUS
  <2> HIDE DEF B
  <2> QED BY <1>2, <2>1, LeastNumber
<1>4. PICK x \in Seq(Nat), y \in Seq(Nat) : Len(x) + Len(y) = n /\ LCA[<<x, y>>] # Meet(x, y)
  BY <1>3
<1>5. Len(x) \in Nat /\ Len(y) \in Nat
  OBVIOUS
<1>6. \A p, q \in Seq(Nat) : Len(p) + Len(q) < n => LCA[<<p, q>>] = Meet(p, q)
  <2>1. SUFFICES ASSUME NEW p \in Seq(Nat), NEW q \in Seq(Nat), Len(p) + Len(q) < n,
                        LCA[<<p, q>>] # Meet(p, q)
                 PROVE  FALSE
    OBVIOUS
  <2>2. Len(p) + Len(q) \in Nat
    OBVIOUS
  <2>3. Len(p) + Len(q) \in B
    BY <2>1, <2>2
  <2>4. n <= Len(p) + Len(q)
    BY <1>3, <2>3
  <2>5. n \in Nat
    OBVIOUS
  <2> QED BY <2>1, <2>2, <2>4, <2>5
<1>7. LCA[<<x, y>>] = LCAStep(LCA)[<<x, y>>] /\ Meet(x, y) = LCAStep(MeetAll)[<<x, y>>]
  <2>1. MeetAll[<<x, y>>] = Meet(x, y)
    BY DEF MeetAll
  <2> QED BY <1>1, <2>1, MeetStep
<1>8. \A p, q \in Seq(Nat) : Len(p) + Len(q) < n => LCA[<<p, q>>] = MeetAll[<<p, q>>]
  BY <1>6 DEF MeetAll
<1>9. CASE Len(x) > Len(y)
  <2>1. Parent(x) \in Seq(Nat) /\ Len(Parent(x)) = Len(x) - 1
    BY <1>5, <1>9, ParentOf
  <2>2. LCA[<<Parent(x), y>>] = MeetAll[<<Parent(x), y>>]
    BY <1>4, <1>5, <1>8, <2>1
  <2>3. Depth(x) > Depth(y) /\ ~(Depth(y) > Depth(x)) /\ Depth(x) # Depth(y)
    BY <1>5, <1>9 DEF Depth
  <2> QED BY <1>4, <1>7, <2>2, <2>3 DEF LCAStep
<1>10. CASE Len(y) > Len(x)
  <2>1. Parent(y) \in Seq(Nat) /\ Len(Parent(y)) = Len(y) - 1
    BY <1>5, <1>10, ParentOf
  <2>2. LCA[<<x, Parent(y)>>] = MeetAll[<<x, Parent(y)>>]
    BY <1>4, <1>5, <1>8, <2>1
  <2>3. Depth(y) > Depth(x) /\ ~(Depth(x) > Depth(y)) /\ Depth(x) # Depth(y)
    BY <1>5, <1>10 DEF Depth
  <2> QED BY <1>4, <1>7, <2>2, <2>3 DEF LCAStep
<1>11. CASE Len(x) = Len(y) /\ x # y
  <2>1. Len(x) # 0
    BY <1>5, <1>11
  <2>2. /\ Parent(x) \in Seq(Nat) /\ Len(Parent(x)) = Len(x) - 1
        /\ Parent(y) \in Seq(Nat) /\ Len(Parent(y)) = Len(y) - 1
    BY <1>5, <1>11, <2>1, ParentOf
  <2>3. LCA[<<Parent(x), Parent(y)>>] = MeetAll[<<Parent(x), Parent(y)>>]
    BY <1>4, <1>5, <1>8, <2>1, <2>2
  <2>4. Depth(y) = Depth(x) /\ ~(Depth(x) > Depth(y)) /\ ~(Depth(y) > Depth(x))
    BY <1>5, <1>11 DEF Depth
  <2> QED BY <1>4, <1>7, <1>11, <2>3, <2>4 DEF LCAStep
<1>12. CASE x = y
  BY <1>4, <1>5, <1>7, <1>12 DEF LCAStep, Depth
<1> QED
  BY <1>5, <1>9, <1>10, <1>11, <1>12

\* The prefixes of v that are none of w.
LEMMA OwnPrefixes ==
    ASSUME NEW v \in Seq(Nat), NEW w \in Seq(Nat)
    PROVE  /\ IsFiniteSet(Prefixes(v) \ Prefixes(w))
           /\ Cardinality(Prefixes(v) \ Prefixes(w)) = Len(v) - Fork(v, w)
<1> DEFINE F == Fork(v, w)
           I == F + 1 .. Len(v)
           D == Prefixes(v) \ Prefixes(w)
           up == [l \in I |-> SubSeq(v, 1, l)]
<1>1. Len(v) \in Nat /\ Len(w) \in Nat
  OBVIOUS
<1>2. F \in Nat /\ \A n \in Nat : Agree(v, w, n) <=> n <= F
  BY ForkExists
<1>3. F <= Len(v) /\ F <= Len(w)
  BY <1>2 DEF Agree
<1> HIDE DEF F
<1>4. \A l \in 0 .. Len(v) : Len(SubSeq(v, 1, l)) = l /\ \A i \in 1 .. l : SubSeq(v, 1, l)[i] = v[i]
  BY <1>1
<1>5. \A l \in 0 .. Len(w) : Len(SubSeq(w, 1, l)) = l /\ \A i \in 1 .. l : SubSeq(w, 1, l)[i] = w[i]
  BY <1>1
<1>6. \A l \in 0 .. Len(v) : SubSeq(v, 1, l) \in Prefixes(w) <=> l <= F
  <2>1. SUFFICES ASSUME NEW l \in 0 .. Len(v) PROVE SubSeq(v, 1, l) \in Prefixes(w) <=> l <= F
    OBVIOUS
  <2>2. ASSUME SubSeq(v, 1, l) \in Prefixes(w) PROVE l <= F
    <3>1. PICK m \in 0 .. Len(w) : SubSeq(v, 1, l) = SubSeq(w, 1, m)
      BY <2>2 DEF Prefixes
    <3>2. m = l
      BY <1>4, <1>5, <3>1
    <3>3. Agree(v, w, l)
      BY <1>1, <1>4, <1>5, <3>1, <3>2 DEF Agree
    <3> QED BY <1>1, <1>2, <3>3
  <2>3. ASSUME l <= F PROVE SubSeq(v, 1, l) \in Prefixes(w)
    <3>1. Agree(v, w, l) /\ l \in 0 .. Len(w)
      BY <1>1, <1>2, <1>3, <2>3
    <3>2. SubSeq(v, 1, l) = SubSeq(w, 1, l)
      <4>1. SubSeq(v, 1, l) = [i \in 1 .. l |-> v[i]]
        BY <1>1
      <4>2. SubSeq(w, 1, l) = [i \in 1 .. l |-> w[i]]
        BY <1>1, <3>1
      <4> QED BY <3>1, <4>1, <4>2 DEF Agree
    <3> QED BY <3>1, <3>2 DEF Prefixes
  <2> QED BY <2>2, <2>3
<1>7. D = {SubSeq(v, 1, l) : l \in I}
  <2>1. \A l \in 0 .. Len(v) : ~(l <= F) <=> l \in I
    BY <1>1, <1>2
  <2>2. \A l \in I : l \in 0 .. Len(v)
    BY <1>1, <1>2
  <2> QED BY <1>6, <2>1, <2>2 DEF Prefixes
<1>8. up \in Bijection(I, D)
  <2>1. \A l \in I : l \in 0 .. Len(v)
    BY <1>1, <1>2
  <2>2. \A k, l \in I : up[k] = up[l] => k = l
    BY <1>4, <2>1
  <2>3. up \in [I -> D] /\ \A d \in D : \E l \in I : up[l] = d
    BY <1>7
  <2> HIDE DEF up, D, I
  <2>4. DOMAIN up = I
    BY <2>3
  <2> QED BY <2>2, <2>3, <2>4 DEF Bijection, Injection, Surjection, IsInjective
<1>9. IsFiniteSet(I) /\ Cardinality(I) = Len(v) - F
  <2>1. F + 1 \in Int /\ Len(v) \in Int
    BY <1>1, <1>2
  <2>2. /\ IsFiniteSet(F + 1 .. Len(v))
        /\ Cardinality(F + 1 .. Len(v)) = IF F + 1 > Len(v) THEN 0 ELSE Len(v) - (F + 1) + 1
    BY <2>1, FS_Interval
  <2> QED BY <1>1, <1>2, <1>3, <2>2
<1>10. IsFiniteSet(D) /\ Cardinality(D) = Cardinality(I)
  <2> HIDE DEF up, D, I
  <2>1. ExistsBijection(I, D)
    BY <1>8 DEF ExistsBijection
  <2> QED BY <1>9, <2>1, FS_Bijection
<1> QED
  BY <1>9, <1>10 DEF F

\* The distance of two endpoints below one root is the number of nodes that are
\* above one and not the other.
LEMMA HopsIsDistance ==
    ASSUME NEW v \in Seq(Nat), NEW w \in Seq(Nat)
    PROVE  /\ Hops(v, w) = Depth(v) + Depth(w) - 2 * Depth(LCA[<<v, w>>])
           /\ Hops(v, w) \in Nat
<1> DEFINE A == Prefixes(v) \ Prefixes(w)
           B == Prefixes(w) \ Prefixes(v)
<1>1. IsFiniteSet(A) /\ Cardinality(A) = Len(v) - Fork(v, w)
  BY OwnPrefixes
<1>2. Fork(v, w) \in Nat /\ \A n \in Nat : Agree(v, w, n) <=> n <= Fork(v, w)
  BY ForkExists
<1>3. Fork(w, v) = Fork(v, w)
  <2>1. \A n \in Nat : Agree(w, v, n) <=> Agree(v, w, n)
    BY DEF Agree
  <2> QED BY <1>2, <2>1, ForkIs
<1>4. IsFiniteSet(B) /\ Cardinality(B) = Len(w) - Fork(v, w)
  BY <1>3, OwnPrefixes
<1>5. A \cap B = {}
  OBVIOUS
<1> HIDE DEF A, B
<1>6. Cardinality(A \cap B) = 0
  BY <1>5, FS_EmptySet
<1>7. IsFiniteSet(A \cup B) /\ Cardinality(A \cup B) = Cardinality(A) + Cardinality(B) - Cardinality(A \cap B)
  BY <1>1, <1>4, FS_Union
<1>8. Len(v) \in Nat /\ Len(w) \in Nat
  OBVIOUS
<1>9. Hops(v, w) = Len(v) + Len(w) - 2 * Fork(v, w)
  BY <1>1, <1>2, <1>4, <1>6, <1>7, <1>8 DEF Hops, SymDiff, A, B
<1>10. Len(LCA[<<v, w>>]) = Fork(v, w)
  <2>1. Fork(v, w) <= Len(v)
    BY <1>2 DEF Agree
  <2>2. \A l \in 0 .. Len(v) : Len(SubSeq(v, 1, l)) = l
    OBVIOUS
  <2>3. LCA[<<v, w>>] = SubSeq(v, 1, Fork(v, w))
    BY LCAIsMeet DEF Meet
  <2> QED BY <1>2, <1>8, <2>1, <2>2, <2>3
<1>11. Hops(v, w) \in Nat
  BY <1>7, FS_CardinalityType DEF Hops, SymDiff, A, B
<1> QED
  BY <1>2, <1>8, <1>9, <1>10, <1>11 DEF Depth

LEMMA SuffixOf ==
    ASSUME NEW q \in Seq(Nat), NEW l \in 1 .. Len(q)
    PROVE  /\ SubSeq(q, l, Len(q)) \in Seq(Nat)
           /\ Len(SubSeq(q, l, Len(q))) = Len(q) - l + 1
           /\ \A i \in 1 .. Len(q) - l + 1 : SubSeq(q, l, Len(q))[i] = q[l + i - 1]
<1>1. Len(q) \in Nat /\ Len(q) - l + 1 \in Nat
  OBVIOUS
<1>2. SubSeq(q, l, Len(q)) = [i \in 1 .. Len(q) - l + 1 |-> q[l + i - 1]]
  BY <1>1
<1>3. \A i \in 1 .. Len(q) - l + 1 : q[l + i - 1] \in Nat
  BY <1>1
<1> QED
  BY <1>1, <1>2, <1>3

\* The loop of pciDeviceAncestors finds what the README calls the PCI path.
LEMMA AncestorsIsUpstream ==
    ASSUME NEW link \in Seq(Nat)
    PROVE  pciDeviceAncestors(link) = Upstream(link) /\ Upstream(link) \in Seq(Nat)
<1> DEFINE n == Len(link)
           I == {i \in 1 .. n : HostBridge(link[i])}
           root == IF I # {} THEN Min(I) ELSE 0
           Good == root \in 1 .. n - 1 /\ \A i \in root + 1 .. n : PCIAddress(link[i])
           below == {t \in Suffixes(link) : Len(t) > 1 /\ HostBridge(t[1]) /\ \A i \in 2 .. Len(t) : PCIAddress(t[i])}
<1>1. n \in Nat /\ DOMAIN link = 1 .. n /\ \A i \in 1 .. n : link[i] \in Nat
  OBVIOUS
<1>2. pciDeviceAncestors(link) = IF Good THEN SubSeq(link, root, n) ELSE NoPath
  BY DEF pciDeviceAncestors, SelectInSeq
<1>3. Upstream(link) = IF Cardinality(I) = 1 /\ below # {} THEN CHOOSE t \in below : TRUE ELSE NoPath
  BY <1>1 DEF Upstream
<1>4. I \subseteq 1 .. n /\ IsFiniteSet(I)
  <2>1. I \in SUBSET (1 .. n) /\ IsFiniteSet(1 .. n)
    BY <1>1, UpTo
  <2> HIDE DEF I
  <2> QED BY <2>1, FS_Subset
<1>5. I # {} => Min(I) \in I /\ \A i \in I : Min(I) <= i
  <2>1. SUFFICES ASSUME I # {} PROVE Min(I) \in I /\ \A i \in I : Min(I) <= i
    OBVIOUS
  <2>2. I \subseteq Nat
    BY <1>1, <1>4
  <2> HIDE DEF I
  <2>3. \E x \in I : \A y \in I : x <= y
    BY <2>1, <2>2, LeastNumber
  <2> QED BY <2>3 DEF Min
<1>6. ASSUME NEW t \in below
      PROVE  \E l \in I : /\ l \in 1 .. n - 1 /\ t = SubSeq(link, l, n)
                          /\ \A i \in l + 1 .. n : PCIAddress(link[i])
  <2>1. t \in Suffixes(link) /\ Len(t) > 1 /\ HostBridge(t[1]) /\ \A i \in 2 .. Len(t) : PCIAddress(t[i])
    BY <1>6
  <2>2. t # <<>>
    BY <2>1
  <2>3. PICK l \in 1 .. n : t = SubSeq(link, l, n)
    BY <2>1, <2>2 DEF Suffixes
  <2>4. Len(t) = n - l + 1 /\ \A i \in 1 .. n - l + 1 : t[i] = link[l + i - 1]
    BY <2>3, SuffixOf
  <2>5. l \in 1 .. n - 1
    BY <1>1, <2>1, <2>4
  <2>6. t[1] = link[l]
    BY <1>1, <2>4, <2>5
  <2>7. ASSUME NEW i \in l + 1 .. n PROVE PCIAddress(link[i])
    <3>1. i - l + 1 \in 2 .. Len(t) /\ l + (i - l + 1) - 1 = i /\ i - l + 1 \in 1 .. n - l + 1
      BY <1>1, <2>4, <2>5
    <3> QED BY <2>1, <2>4, <3>1
  <2> QED BY <2>1, <2>3, <2>5, <2>6, <2>7
<1>7. CASE Good
  <2>1. I # {} /\ root \in I /\ root \in 1 .. n - 1
    BY <1>1, <1>5, <1>7
  <2>2. I = {root}
    <3>1. ASSUME NEW i \in I PROVE i = root
      <4>1. root <= i /\ i \in 1 .. n
        BY <1>5, <2>1
      <4>2. ~PCIAddress(link[i])
        BY <1>1 DEF HostBridge, PCIAddress
      <4> QED BY <1>1, <1>7, <2>1, <4>1, <4>2
    <3> QED BY <2>1, <3>1
  <2>3. Cardinality(I) = 1
    BY <2>2, FS_Singleton
  <2> DEFINE u == SubSeq(link, root, n)
  <2>4. u \in Seq(Nat) /\ Len(u) = n - root + 1 /\ \A i \in 1 .. n - root + 1 : u[i] = link[root + i - 1]
    <3>1. root \in 1 .. n
      BY <1>1, <2>1
    <3> HIDE DEF root
    <3> QED BY <3>1, SuffixOf
  <2>5. u \in below
    <3>1. u \in Suffixes(link)
      BY <1>1, <2>1 DEF Suffixes
    <3>2. Len(u) > 1 /\ u[1] = link[root]
      <4> HIDE DEF root, u, I, n
      <4>1. 1 \in 1 .. n - root + 1 /\ root + 1 - 1 = root /\ n - root + 1 > 1
        BY <1>1, <2>1
      <4> QED BY <2>4, <4>1
    <3>3. ASSUME NEW i \in 2 .. Len(u) PROVE PCIAddress(u[i])
      <4>1. i \in 1 .. n - root + 1 /\ root + i - 1 \in root + 1 .. n
        <5> HIDE DEF root, u, I, n
        <5> QED BY <1>1, <2>1, <2>4
      <4> QED BY <1>7, <2>4, <4>1
    <3>4. HostBridge(link[root])
      BY <2>1
    <3> QED BY <3>1, <3>2, <3>3, <3>4
  <2>6. \A t \in below : t = u
    BY <1>6, <2>2
  <2>7. Upstream(link) = u
    <3> HIDE DEF below, u, I
    <3>1. below = {u}
      BY <2>5, <2>6
    <3> QED BY <1>3, <2>3, <3>1
  <2>8. pciDeviceAncestors(link) = u
    BY <1>2, <1>7
  <2> HIDE DEF u
  <2> QED BY <2>4, <2>7, <2>8
<1>8. CASE ~Good
  <2>1. ~(Cardinality(I) = 1 /\ below # {})
    <3>1. SUFFICES ASSUME Cardinality(I) = 1, NEW t \in below PROVE FALSE
      OBVIOUS
    <3>2. PICK l \in I : l \in 1 .. n - 1 /\ \A i \in l + 1 .. n : PCIAddress(link[i])
      BY <1>6
    <3>3. PICK x : I = {x}
      <4> HIDE DEF I
      <4> QED BY <1>4, <3>1, FS_Singleton
    <3>4. I = {l}
      BY <3>2, <3>3
    <3>5. root = l
      BY <1>5, <3>4
    <3> QED BY <1>8, <3>2, <3>5
  <2>2. Upstream(link) = NoPath
    BY <1>3, <2>1
  <2>3. NoPath \in Seq(Nat)
    BY DEF NoPath
  <2> QED BY <1>2, <1>8, <2>2, <2>3
<1> QED
  BY <1>7, <1>8

\* pciTree.distance in terms of the paths.
LEMMA DistanceIs ==
    ASSUME NEW v \in Seq(Nat), NEW w \in Seq(Nat)
    PROVE  LET connected == v # NoPath /\ w # NoPath /\ v[1] = w[1]
           IN  /\ distance(v, w).separateRoots <=> v # NoPath /\ w # NoPath /\ v[1] # w[1]
               /\ distance(v, w).known <=> connected
               /\ distance(v, w).hops = IF connected THEN Hops(v, w) ELSE 0
<1>1. Root(v) = Root(w) <=> v[1] = w[1]
  BY DEF Root
<1>2. Hops(v, w) = Depth(v) + Depth(w) - 2 * Depth(LCA[<<v, w>>])
  BY HopsIsDistance
<1>3. CASE v = NoPath \/ w = NoPath
  <2>1. distance(v, w) = Unknown
    BY <1>3 DEF distance
  <2> QED BY <1>3, <2>1 DEF Unknown
<1>4. CASE v # NoPath /\ w # NoPath /\ v[1] # w[1]
  <2>1. distance(v, w) = Separate
    BY <1>1, <1>4 DEF distance
  <2> QED BY <1>4, <2>1 DEF Separate
<1>5. CASE v # NoPath /\ w # NoPath /\ v[1] = w[1]
  <2>1. distance(v, w) = [known |-> TRUE, separateRoots |-> FALSE,
                          hops |-> Depth(v) + Depth(w) - 2 * Depth(LCA[<<v, w>>])]
    BY <1>1, <1>5 DEF distance
  <2> QED BY <1>2, <1>5, <2>1
<1> QED
  BY <1>3, <1>4, <1>5

-----------------------------------------------------------------------------
(* Scores *)

\* The values of a function on a finite set are a finite set.
LEMMA ImageFinite ==
    ASSUME NEW S, IsFiniteSet(S), NEW f, f = [x \in S |-> f[x]]
    PROVE  IsFiniteSet({f[x] : x \in S})
<1> DEFINE R == {f[x] : x \in S}
<1>1. f \in [S -> R] /\ \A y \in R : \E x \in S : f[x] = y
  OBVIOUS
<1> HIDE DEF R
<1>2. f \in Surjection(S, R)
  BY <1>1 DEF Surjection
<1> QED
  BY <1>2, FS_Surjection DEF R

\* An injective image of a finite set has as many elements.
LEMMA ImageCardinality ==
    ASSUME NEW S, IsFiniteSet(S), NEW R, NEW f \in [S -> R],
           \A x, y \in S : f[x] = f[y] => x = y,
           \A y \in R : \E x \in S : f[x] = y
    PROVE  IsFiniteSet(R) /\ Cardinality(R) = Cardinality(S)
<1>1. f \in Bijection(S, R)
  BY DEF Bijection, Injection, Surjection, IsInjective
<1>2. ExistsBijection(S, R)
  BY <1>1 DEF ExistsBijection
<1> QED
  BY <1>2, FS_Bijection

\* Cardinalities of disjoint unions add up.
LEMMA DisjointUnion ==
    ASSUME NEW A, NEW B, IsFiniteSet(A), IsFiniteSet(B), A \cap B = {}
    PROVE  /\ IsFiniteSet(A \cup B)
           /\ Cardinality(A \cup B) = Cardinality(A) + Cardinality(B)
<1>1. Cardinality(A \cap B) = 0
  BY FS_EmptySet
<1>2. IsFiniteSet(A \cup B) /\ Cardinality(A \cup B) = Cardinality(A) + Cardinality(B) - Cardinality(A \cap B)
  BY FS_Union
<1>3. Cardinality(A) \in Nat /\ Cardinality(B) \in Nat
  BY FS_CardinalityType
<1> QED
  BY <1>1, <1>2, <1>3

Device == [pf : Nat, sid : Nat, numa : Nat \cup {-1}, link : Seq(Nat)]

\* The parts of Score.
Path(t, d) == Upstream(t[d].link)
Known(t, S) == {d \in S : Path(t, d) # NoPath}
Pairs(t, S) == {p \in Known(t, S) \X Known(t, S) : p[1] < p[2]}
Linked(t, S) == {p \in Pairs(t, S) : Path(t, p[1])[1] = Path(t, p[2])[1]}
HopsOf(t, p) == Hops(Path(t, p[1]), Path(t, p[2]))

LEMMA ScoreParts ==
    ASSUME NEW t, NEW S
    PROVE  Score(t, S) =
             [unknownNUMA |-> Cardinality({d \in S : t[d].numa < 0}),
              numaNodes |-> Cardinality({t[d].numa : d \in S} \ {-1}),
              sidGroups |-> Cardinality({sidKey(t, d) : d \in S}),
              unknownPCI |-> Cardinality(S \ Known(t, S)),
              separateRoots |-> Cardinality(Pairs(t, S) \ Linked(t, S)),
              maxDistance |-> Max({0} \cup {HopsOf(t, p) : p \in Linked(t, S)}),
              totalDistance |-> Sum([p \in Linked(t, S) |-> HopsOf(t, p)])]
<1> DEFINE path == [d \in S |-> Upstream(t[d].link)]
           known == {d \in S : path[d] # NoPath}
           pairs == {p \in known \X known : p[1] < p[2]}
           linked == {p \in pairs : path[p[1]][1] = path[p[2]][1]}
           hops(p) == Hops(path[p[1]], path[p[2]])
<1>1. \A d \in S : path[d] = Path(t, d)
  BY DEF Path
<1>2. known = Known(t, S)
  BY <1>1 DEF Known
<1>3. pairs = Pairs(t, S)
  BY <1>2 DEF Pairs
<1>4. \A p \in pairs : p[1] \in S /\ p[2] \in S
  BY <1>2, <1>3 DEF Pairs, Known
<1>5. linked = Linked(t, S)
  BY <1>1, <1>3, <1>4 DEF Linked
<1>6. \A p \in linked : hops(p) = HopsOf(t, p)
  BY <1>1, <1>4 DEF HopsOf
<1>7. {hops(p) : p \in linked} = {HopsOf(t, p) : p \in Linked(t, S)}
  <2> HIDE DEF path, known, pairs, linked, hops
  <2>1. {hops(p) : p \in linked} = {HopsOf(t, p) : p \in linked}
    BY <1>6
  <2> QED BY <1>5, <2>1
<1>8. [p \in linked |-> hops(p)] = [p \in Linked(t, S) |-> HopsOf(t, p)]
  <2> HIDE DEF path, known, pairs, linked, hops
  <2>1. [p \in linked |-> hops(p)] = [p \in linked |-> HopsOf(t, p)]
    BY <1>6
  <2> QED BY <1>5, <2>1
<1>9. Score(t, S) =
             [unknownNUMA |-> Cardinality({d \in S : t[d].numa < 0}),
              numaNodes |-> Cardinality({t[d].numa : d \in S} \ {-1}),
              sidGroups |-> Cardinality({sidKey(t, d) : d \in S}),
              unknownPCI |-> Cardinality(S \ known),
              separateRoots |-> Cardinality(pairs \ linked),
              maxDistance |-> Max({0} \cup {hops(p) : p \in linked}),
              totalDistance |-> Sum([p \in linked |-> hops(p)])]
  BY DEF Score
<1> HIDE DEF path, known, pairs, linked, hops
<1> QED
  BY <1>2, <1>3, <1>5, <1>7, <1>8, <1>9

LEMMA TableFacts ==
    ASSUME NEW t \in Seq(Device), NEW S \in SUBSET DOMAIN t
    PROVE  /\ IsFiniteSet(S)
           /\ DOMAIN t \subseteq Nat \ {0}
           /\ \A d \in DOMAIN t : t[d] \in Device
           /\ \A d \in DOMAIN t : Path(t, d) \in Seq(Nat) /\ Path(t, d) = pciDeviceAncestors(t[d].link)
<1>1. DOMAIN t = 1 .. Len(t) /\ Len(t) \in Nat /\ \A d \in DOMAIN t : t[d] \in Device
  OBVIOUS
<1>2. IsFiniteSet(S)
  BY <1>1, UpTo, FS_Subset
<1>3. \A d \in DOMAIN t : t[d].link \in Seq(Nat)
  BY <1>1 DEF Device
<1> QED
  BY <1>1, <1>2, <1>3, AncestorsIsUpstream DEF Path

\* The distance between two devices of a table.
Between(t, d, e) == distance(Path(t, d), Path(t, e))

LEMMA BetweenIs ==
    ASSUME NEW t \in Seq(Device), NEW d \in DOMAIN t, NEW e \in DOMAIN t
    PROVE  LET connected == Path(t, d) # NoPath /\ Path(t, e) # NoPath /\ Path(t, d)[1] = Path(t, e)[1]
           IN  /\ Between(t, d, e).separateRoots
                    <=> Path(t, d) # NoPath /\ Path(t, e) # NoPath /\ Path(t, d)[1] # Path(t, e)[1]
               /\ Between(t, d, e).known <=> connected
               /\ Between(t, d, e).hops = IF connected THEN Hops(Path(t, d), Path(t, e)) ELSE 0
               /\ Between(t, d, e).hops \in Nat
               /\ Hops(Path(t, d), Path(t, e)) = Hops(Path(t, e), Path(t, d))
<1>1. Path(t, d) \in Seq(Nat) /\ Path(t, e) \in Seq(Nat)
  BY TableFacts
<1>2. Hops(Path(t, d), Path(t, e)) \in Nat
  BY <1>1, HopsIsDistance
<1>3. Hops(Path(t, d), Path(t, e)) = Hops(Path(t, e), Path(t, d))
  BY DEF Hops, SymDiff
<1> QED
  BY <1>1, <1>2, <1>3, DistanceIs DEF Between

\* The pair of d with one of the others, in the order of IDs.
PairOf(d, e) == IF d < e THEN <<d, e>> ELSE <<e, d>>

LEMMA PairOfFacts ==
    ASSUME NEW S \in SUBSET Nat, NEW d \in Nat, d \notin S
    PROVE  /\ \A e, f \in S : PairOf(d, e) = PairOf(d, f) => e = f
           /\ \A e \in S : PairOf(d, e) \notin S \X S
           /\ \A e \in S : PairOf(d, e) \in Nat \X Nat /\ PairOf(d, e)[1] < PairOf(d, e)[2]
           /\ \A e \in S : PairOf(d, e) = <<d, e>> \/ PairOf(d, e) = <<e, d>>
BY DEF PairOf

PairsWith(d, E) == {PairOf(d, e) : e \in E}

\* The devices of S under another root than d, and under the same.
Apart(t, S, d) == {e \in S : Between(t, d, e).separateRoots}
Joined(t, S, d) == {e \in S : Between(t, d, e).known}

\* The pairs that one more device brings.
LEMMA NewPairs ==
    ASSUME NEW t \in Seq(Device), NEW S \in SUBSET DOMAIN t, NEW d \in DOMAIN t, d \notin S
    PROVE  /\ Pairs(t, S \cup {d}) \ Linked(t, S \cup {d}) =
                (Pairs(t, S) \ Linked(t, S)) \cup PairsWith(d, Apart(t, S, d))
           /\ Linked(t, S \cup {d}) = Linked(t, S) \cup PairsWith(d, Joined(t, S, d))
<1>1. DOMAIN t \subseteq Nat
  BY TableFacts
<1> DEFINE Q == S \cup {d}
           Sep(p) == Path(t, p[1])[1] # Path(t, p[2])[1]
           NewSep == PairsWith(d, Apart(t, S, d))
           NewCon == PairsWith(d, Joined(t, S, d))
<1>2. \A p : p \in Pairs(t, S) <=> p \in S \X S /\ p[1] < p[2] /\ Path(t, p[1]) # NoPath /\ Path(t, p[2]) # NoPath
  BY DEF Pairs, Known
<1>3. \A p : p \in Pairs(t, Q) <=> p \in Q \X Q /\ p[1] < p[2] /\ Path(t, p[1]) # NoPath /\ Path(t, p[2]) # NoPath
  BY DEF Pairs, Known
<1>4. \A e \in S : /\ Between(t, d, e).separateRoots
                        <=> Path(t, d) # NoPath /\ Path(t, e) # NoPath /\ Path(t, d)[1] # Path(t, e)[1]
                   /\ Between(t, d, e).known
                        <=> Path(t, d) # NoPath /\ Path(t, e) # NoPath /\ Path(t, d)[1] = Path(t, e)[1]
  BY BetweenIs
<1>5. \A p \in Pairs(t, Q) : p \in Pairs(t, S) \/ \E e \in S : p = PairOf(d, e)
  <2>1. SUFFICES ASSUME NEW p \in Pairs(t, Q) PROVE p \in Pairs(t, S) \/ \E e \in S : p = PairOf(d, e)
    OBVIOUS
  <2>2. p = <<p[1], p[2]>> /\ p[1] \in Q /\ p[2] \in Q /\ p[1] < p[2] /\ p[1] \in Nat /\ p[2] \in Nat
    <3>1. p \in Q \X Q /\ p[1] < p[2]
      BY <1>3
    <3>2. Q \subseteq Nat
      BY <1>1
    <3> HIDE DEF Q
    <3>3. p = <<p[1], p[2]>> /\ p[1] \in Q /\ p[2] \in Q
      BY <3>1
    <3>4. p[1] \in Nat /\ p[2] \in Nat
      BY <3>2, <3>3
    <3> QED BY <3>1, <3>3, <3>4
  <2>3. CASE p[1] \in S /\ p[2] \in S
    BY <1>2, <1>3, <2>2, <2>3
  <2>4. CASE p[1] = d
    <3>1. p[2] \in S
      BY <2>2, <2>4
    <3>2. p = PairOf(d, p[2])
      BY <2>2, <2>4 DEF PairOf
    <3> QED BY <3>1, <3>2
  <2>5. CASE p[2] = d
    <3>1. p[1] \in S
      BY <2>2, <2>5
    <3>2. p = PairOf(d, p[1])
      BY <2>2, <2>5 DEF PairOf
    <3> QED BY <3>1, <3>2
  <2> QED BY <2>2, <2>3, <2>4, <2>5
<1>6. Pairs(t, S) \subseteq Pairs(t, Q)
  <2>1. S \X S \subseteq Q \X Q
    OBVIOUS
  <2> HIDE DEF Q
  <2> QED BY <1>2, <1>3, <2>1
<1>7. ASSUME NEW e \in S
      PROVE  /\ PairOf(d, e) \in Pairs(t, Q) <=> Path(t, d) # NoPath /\ Path(t, e) # NoPath
             /\ Sep(PairOf(d, e)) <=> Path(t, d)[1] # Path(t, e)[1]
             /\ PairOf(d, e) \notin Pairs(t, S)
  <2>1. /\ d \in Nat /\ e \in Nat /\ PairOf(d, e) \in Q \X Q
        /\ PairOf(d, e)[1] < PairOf(d, e)[2]
        /\ PairOf(d, e) = <<d, e>> \/ PairOf(d, e) = <<e, d>>
        /\ PairOf(d, e) \notin S \X S
    BY <1>1 DEF PairOf
  <2> DEFINE p == PairOf(d, e)
  <2>2. p \in Pairs(t, Q) <=> Path(t, p[1]) # NoPath /\ Path(t, p[2]) # NoPath
    <3> HIDE DEF Q, p
    <3> QED BY <1>3, <2>1 DEF p
  <2>3. p \notin Pairs(t, S)
    <3> HIDE DEF p
    <3> QED BY <1>2, <2>1 DEF p
  <2>4. \/ p[1] = d /\ p[2] = e
        \/ p[1] = e /\ p[2] = d
    BY <2>1
  <2> HIDE DEF p
  <2>5. /\ p \in Pairs(t, Q) <=> Path(t, d) # NoPath /\ Path(t, e) # NoPath
        /\ Sep(p) <=> Path(t, d)[1] # Path(t, e)[1]
    BY <2>2, <2>4
  <2> QED BY <2>3, <2>5 DEF p
<1>8. \A p : p \in Linked(t, Q) <=> p \in Pairs(t, Q) /\ ~Sep(p)
  BY DEF Linked
<1>9. \A p : p \in Linked(t, S) <=> p \in Pairs(t, S) /\ ~Sep(p)
  BY DEF Linked
<1>10. \A e \in S : /\ PairOf(d, e) \in Pairs(t, Q) /\ Sep(PairOf(d, e)) <=> Between(t, d, e).separateRoots
                    /\ PairOf(d, e) \in Pairs(t, Q) /\ ~Sep(PairOf(d, e)) <=> Between(t, d, e).known
  BY <1>4, <1>7
<1> HIDE DEF Sep, Q
<1>11. Pairs(t, Q) \ Linked(t, Q) = (Pairs(t, S) \ Linked(t, S)) \cup NewSep
  <2>1. \A p \in Pairs(t, Q) \ Linked(t, Q) : p \in (Pairs(t, S) \ Linked(t, S)) \cup NewSep
    BY <1>5, <1>8, <1>9, <1>10 DEF PairsWith, Apart
  <2>2. \A p \in Pairs(t, S) \ Linked(t, S) : p \in Pairs(t, Q) \ Linked(t, Q)
    BY <1>6, <1>8, <1>9
  <2>3. \A p \in NewSep : p \in Pairs(t, Q) \ Linked(t, Q)
    BY <1>8, <1>10 DEF PairsWith, Apart
  <2> QED BY <2>1, <2>2, <2>3
<1>12. Linked(t, Q) = Linked(t, S) \cup NewCon
  <2>1. \A p \in Linked(t, Q) : p \in Linked(t, S) \cup NewCon
    BY <1>5, <1>8, <1>9, <1>10 DEF PairsWith, Joined
  <2>2. \A p \in Linked(t, S) : p \in Linked(t, Q)
    BY <1>6, <1>8, <1>9
  <2>3. \A p \in NewCon : p \in Linked(t, Q)
    BY <1>8, <1>10 DEF PairsWith, Joined
  <2> QED BY <2>1, <2>2, <2>3
<1> QED
  BY <1>11, <1>12 DEF Q

LEMMA PairsFinite ==
    ASSUME NEW t \in Seq(Device), NEW S \in SUBSET DOMAIN t
    PROVE  /\ Pairs(t, S) \subseteq S \X S /\ Linked(t, S) \subseteq S \X S
           /\ IsFiniteSet(Pairs(t, S)) /\ IsFiniteSet(Linked(t, S))
           /\ IsFiniteSet(Pairs(t, S) \ Linked(t, S))
           /\ \A p \in Linked(t, S) : HopsOf(t, p) \in Nat
<1>1. Pairs(t, S) \subseteq S \X S /\ Linked(t, S) \subseteq Pairs(t, S)
  BY DEF Pairs, Linked, Known
<1>2. IsFiniteSet(S) /\ \A d \in DOMAIN t : Path(t, d) \in Seq(Nat)
  BY TableFacts
<1>3. IsFiniteSet(S \X S)
  BY <1>2, FS_Product
<1>4. IsFiniteSet(Pairs(t, S))
  BY <1>1, <1>3, FS_Subset
<1>5. IsFiniteSet(Linked(t, S))
  BY <1>1, <1>4, FS_Subset
<1>6. IsFiniteSet(Pairs(t, S) \ Linked(t, S))
  BY <1>4, FS_Difference
<1>7. \A p \in Linked(t, S) : HopsOf(t, p) \in Nat
  <2>1. SUFFICES ASSUME NEW p \in Linked(t, S) PROVE HopsOf(t, p) \in Nat
    OBVIOUS
  <2>2. p[1] \in DOMAIN t /\ p[2] \in DOMAIN t
    BY <1>1
  <2> QED BY <1>2, <2>2, HopsIsDistance DEF HopsOf
<1> QED
  BY <1>1, <1>4, <1>5, <1>6, <1>7

\* The separated pairs of one more device.
LEMMA AddSeparateRoots ==
    ASSUME NEW t \in Seq(Device), NEW S \in SUBSET DOMAIN t, NEW d \in DOMAIN t, d \notin S
    PROVE  Cardinality(Pairs(t, S \cup {d}) \ Linked(t, S \cup {d})) =
                Cardinality(Pairs(t, S) \ Linked(t, S))
                  + Cardinality(Apart(t, S, d))
<1> DEFINE E == Apart(t, S, d)
           N == PairsWith(d, E)
           Old == Pairs(t, S) \ Linked(t, S)
           f == [e \in E |-> PairOf(d, e)]
<1>1. DOMAIN t \subseteq Nat /\ IsFiniteSet(S)
  BY TableFacts
<1>2. S \in SUBSET Nat /\ d \in Nat
  BY <1>1
<1>3. /\ \A e, g \in S : PairOf(d, e) = PairOf(d, g) => e = g
      /\ \A e \in S : PairOf(d, e) \notin S \X S
  BY <1>2, PairOfFacts
<1>4. IsFiniteSet(E)
  <2>1. E \subseteq S
    BY DEF Apart
  <2> QED BY <1>1, <2>1, FS_Subset
<1>5. f \in [E -> N] /\ (\A x, y \in E : f[x] = f[y] => x = y) /\ \A y \in N : \E x \in E : f[x] = y
  BY <1>3 DEF PairsWith, Apart
<1>6. IsFiniteSet(N) /\ Cardinality(N) = Cardinality(E)
  <2> HIDE DEF E, N, f
  <2> QED BY <1>4, <1>5, ImageCardinality
<1>7. IsFiniteSet(Old) /\ Old \subseteq S \X S
  BY PairsFinite
<1>8. Old \cap N = {}
  BY <1>3, <1>7 DEF PairsWith, Apart
<1>9. Pairs(t, S \cup {d}) \ Linked(t, S \cup {d}) = Old \cup N
  BY NewPairs
<1> HIDE DEF E, N, Old
<1>10. Cardinality(Old \cup N) = Cardinality(Old) + Cardinality(N)
  BY <1>6, <1>7, <1>8, DisjointUnion
<1> QED
  BY <1>6, <1>9, <1>10 DEF E, Old

\* The hops of the pairs that one more device brings.
LEMMA HopsOfNew ==
    ASSUME NEW t \in Seq(Device), NEW S \in SUBSET DOMAIN t, NEW d \in DOMAIN t, d \notin S,
           NEW e \in S
    PROVE  /\ Between(t, d, e).known => HopsOf(t, PairOf(d, e)) = Between(t, d, e).hops
           /\ ~Between(t, d, e).known => Between(t, d, e).hops = 0
           /\ Between(t, d, e).hops \in Nat
<1>1. e \in DOMAIN t
  OBVIOUS
<1>2. HopsOf(t, PairOf(d, e)) = Hops(Path(t, d), Path(t, e))
  <2>1. Hops(Path(t, d), Path(t, e)) = Hops(Path(t, e), Path(t, d))
    BY <1>1, BetweenIs
  <2>2. \/ PairOf(d, e)[1] = d /\ PairOf(d, e)[2] = e
        \/ PairOf(d, e)[1] = e /\ PairOf(d, e)[2] = d
    BY DEF PairOf
  <2> QED BY <2>1, <2>2 DEF HopsOf
<1> QED
  BY <1>1, <1>2, BetweenIs

\* The largest distance with one more device.
LEMMA AddMaxDistance ==
    ASSUME NEW t \in Seq(Device), NEW S \in SUBSET DOMAIN t, NEW d \in DOMAIN t, d \notin S
    PROVE  Max({0} \cup {HopsOf(t, p) : p \in Linked(t, S \cup {d})}) =
             Max({Max({0} \cup {HopsOf(t, p) : p \in Linked(t, S)})}
                    \cup {Between(t, d, e).hops : e \in S})
<1> DEFINE Old == {0} \cup {HopsOf(t, p) : p \in Linked(t, S)}
           H == {Between(t, d, e).hops : e \in S}
           New == {0} \cup {HopsOf(t, p) : p \in Linked(t, S \cup {d})}
           M == Max(Old)
           m == Max({M} \cup H)
<1>1. IsFiniteSet(S) /\ IsFiniteSet(Linked(t, S)) /\ \A p \in Linked(t, S) : HopsOf(t, p) \in Nat
  BY TableFacts, PairsFinite
<1>2. \A e \in S : /\ Between(t, d, e).known => HopsOf(t, PairOf(d, e)) = Between(t, d, e).hops
                   /\ ~Between(t, d, e).known => Between(t, d, e).hops = 0
                   /\ Between(t, d, e).hops \in Nat
  BY HopsOfNew
<1>3. IsFiniteSet(Old) /\ Old \subseteq Nat /\ 0 \in Old
  <2> DEFINE f == [p \in Linked(t, S) |-> HopsOf(t, p)]
  <2>1. IsFiniteSet({f[p] : p \in Linked(t, S)})
    <3>1. f = [p \in Linked(t, S) |-> f[p]]
      OBVIOUS
    <3> HIDE DEF f
    <3> QED BY <1>1, <3>1, ImageFinite
  <2>2. {f[p] : p \in Linked(t, S)} \cup {0} = Old
    OBVIOUS
  <2>3. IsFiniteSet({f[p] : p \in Linked(t, S)} \cup {0})
    BY <2>1, FS_AddElement
  <2>4. Old \subseteq Nat /\ 0 \in Old
    BY <1>1
  <2> HIDE DEF f, Old
  <2> QED BY <2>2, <2>3, <2>4
<1>4. IsFiniteSet(H) /\ H \subseteq Nat
  <2> DEFINE f == [e \in S |-> Between(t, d, e).hops]
  <2>1. IsFiniteSet({f[e] : e \in S})
    <3>1. f = [e \in S |-> f[e]]
      OBVIOUS
    <3> HIDE DEF f
    <3> QED BY <1>1, <3>1, ImageFinite
  <2>2. {f[e] : e \in S} = H
    OBVIOUS
  <2> QED BY <1>2, <2>1, <2>2
<1>5. M \in Old /\ \A x \in Old : x <= M
  <2> HIDE DEF Old
  <2>1. Old \subseteq Int /\ Old # {}
    BY <1>3
  <2> QED BY <1>3, <2>1, MaxExists
<1>6. M \in Nat
  BY <1>3, <1>5
<1>7. m \in {M} \cup H /\ \A x \in {M} \cup H : x <= m
  <2> HIDE DEF M, H
  <2>1. IsFiniteSet(H \cup {M}) /\ H \cup {M} = {M} \cup H
    BY <1>4, FS_AddElement
  <2>2. {M} \cup H \subseteq Int /\ {M} \cup H # {}
    BY <1>4, <1>6
  <2> QED BY <2>1, <2>2, MaxExists
<1>8. Linked(t, S \cup {d}) = Linked(t, S) \cup PairsWith(d, Joined(t, S, d))
  BY NewPairs
<1>9. \A e \in Joined(t, S, d) : HopsOf(t, PairOf(d, e)) = Between(t, d, e).hops /\ e \in S
  BY <1>2 DEF Joined
<1>10. Old \subseteq New /\ New \subseteq Old \cup H
  <2>1. Old \subseteq New
    BY <1>8
  <2>2. \A p \in PairsWith(d, Joined(t, S, d)) : HopsOf(t, p) \in H
    BY <1>9 DEF PairsWith
  <2>3. \A x \in New : x \in Old \cup H
    <3>1. SUFFICES ASSUME NEW x \in New, x \notin Old PROVE x \in H
      OBVIOUS
    <3>2. PICK p \in Linked(t, S \cup {d}) : x = HopsOf(t, p)
      BY <3>1
    <3>3. p \notin Linked(t, S)
      BY <3>1, <3>2
    <3> QED BY <1>8, <2>2, <3>2, <3>3
  <2> QED BY <2>1, <2>3
<1>11. H \subseteq New \cup {0} /\ 0 \in New
  <2>1. \A e \in S : Between(t, d, e).known => PairOf(d, e) \in Linked(t, S \cup {d})
    BY <1>8 DEF PairsWith, Joined
  <2> QED BY <1>2, <2>1
<1> HIDE DEF Old, H, New, M, m
<1>12. m \in New
  BY <1>5, <1>7, <1>10, <1>11
<1>13. New \subseteq Nat
  BY <1>3, <1>4, <1>10
<1>14. \A x \in New : x <= m
  <2>1. SUFFICES ASSUME NEW x \in New PROVE x <= m
    OBVIOUS
  <2>2. x \in Nat /\ m \in Nat
    BY <1>12, <1>13
  <2>3. CASE x \in H
    BY <1>7, <2>3
  <2>4. CASE x \in Old
    <3>1. x <= M /\ M <= m
      BY <1>5, <1>7, <2>4
    <3> QED BY <1>6, <2>2, <3>1
  <2> QED BY <1>10, <2>3, <2>4
<1>15. Max(New) = m
  <2>1. New \in SUBSET Int
    BY <1>13
  <2> QED BY <1>12, <1>14, <2>1, MaxIs
<1> QED
  BY <1>15 DEF Old, H, New, M, m

\* The sum of the distances with one more device.
LEMMA AddTotalDistance ==
    ASSUME NEW t \in Seq(Device), NEW S \in SUBSET DOMAIN t, NEW d \in DOMAIN t, d \notin S
    PROVE  Sum([p \in Linked(t, S \cup {d}) |-> HopsOf(t, p)]) =
             Sum([p \in Linked(t, S) |-> HopsOf(t, p)]) + Sum([e \in S |-> Between(t, d, e).hops])
<1> DEFINE L0 == Linked(t, S)
           L1 == Linked(t, S \cup {d})
           N == PairsWith(d, Joined(t, S, d))
           f0 == [p \in L0 |-> HopsOf(t, p)]
           f1 == [p \in L1 |-> HopsOf(t, p)]
           h == [e \in S |-> Between(t, d, e).hops]
           g == [u \in Units(h, S) |-> <<PairOf(d, u[1]), u[2]>>]
<1>1. /\ DOMAIN t \subseteq Nat /\ IsFiniteSet(S)
      /\ IsFiniteSet(L0) /\ L0 \subseteq S \X S /\ \A p \in L0 : HopsOf(t, p) \in Nat
  BY TableFacts, PairsFinite
<1>2. IsFiniteSet(L1) /\ \A p \in L1 : HopsOf(t, p) \in Nat
  <2>1. S \cup {d} \in SUBSET DOMAIN t
    OBVIOUS
  <2> QED BY <2>1, PairsFinite
<1>3. \A e \in S : /\ Between(t, d, e).known => HopsOf(t, PairOf(d, e)) = Between(t, d, e).hops
                   /\ ~Between(t, d, e).known => Between(t, d, e).hops = 0
                   /\ Between(t, d, e).hops \in Nat
  BY HopsOfNew
<1>4. /\ \A e, x \in S : PairOf(d, e) = PairOf(d, x) => e = x
      /\ \A e \in S : PairOf(d, e) \notin S \X S
  <2>1. S \in SUBSET Nat /\ d \in Nat
    BY <1>1
  <2> QED BY <2>1, PairOfFacts
<1>5. L1 = L0 \cup N
  BY NewPairs
<1>6. /\ Sum(f1) = Cardinality(Units(f1, L1))
      /\ Sum(f0) = Cardinality(Units(f0, L0))
      /\ Sum(h) = Cardinality(Units(h, S))
  <2>1. \A p \in L1 : f1[p] \in Nat
    BY <1>2
  <2>2. \A p \in L0 : f0[p] \in Nat
    BY <1>1
  <2>3. \A e \in S : h[e] \in Nat
    BY <1>3
  <2>4. DOMAIN f1 = L1 /\ DOMAIN f0 = L0 /\ DOMAIN h = S
    OBVIOUS
  <2> HIDE DEF f1, f0, h, L1, L0
  <2> QED BY <1>1, <1>2, <2>1, <2>2, <2>3, <2>4, SumIsCount DEF Sum
<1>7. N \cap L0 = {} /\ N \subseteq L1 /\ L0 \subseteq L1
  <2>1. N \cap L0 = {}
    BY <1>1, <1>4 DEF PairsWith, Joined
  <2> QED BY <1>5, <2>1
<1>8. Units(f1, L1) = Units(f0, L0) \cup Units(f1, N)
  <2>1. \A p \in L0 : f1[p] = f0[p]
    BY <1>7
  <2> HIDE DEF f1, f0, L0, L1, N
  <2>2. Units(f1, L0) = Units(f0, L0)
    BY <2>1 DEF Units
  <2>3. Units(f1, L1) = Units(f1, L0) \cup Units(f1, N)
    BY <1>5 DEF Units
  <2> QED BY <2>2, <2>3
<1>9. Units(f0, L0) \cap Units(f1, N) = {}
  <2> HIDE DEF f1, f0, L0, L1, N
  <2> QED BY <1>7 DEF Units
<1>10. /\ IsFiniteSet(Units(f0, L0)) /\ IsFiniteSet(Units(h, S))
  <2>1. \A p \in L0 : f0[p] \in Nat
    BY <1>1
  <2>2. \A e \in S : h[e] \in Nat
    BY <1>3
  <2> HIDE DEF f0, h, L0
  <2> QED BY <1>1, <2>1, <2>2, UnitsFinite
<1>11. \A e \in S : h[e] \in Nat /\ (h[e] > 0 => e \in Joined(t, S, d))
  BY <1>3 DEF Joined
<1>12. \A e \in Joined(t, S, d) : e \in S /\ PairOf(d, e) \in N /\ f1[PairOf(d, e)] = h[e]
  <2>1. \A e \in Joined(t, S, d) : e \in S /\ Between(t, d, e).known
    BY DEF Joined
  <2>2. \A e \in Joined(t, S, d) : PairOf(d, e) \in N
    BY DEF PairsWith
  <2> QED BY <1>3, <1>7, <2>1, <2>2
<1>13. \A p \in N : \E e \in Joined(t, S, d) : p = PairOf(d, e)
  BY DEF PairsWith
<1>14. Cardinality(Units(f1, N)) = Cardinality(Units(h, S)) /\ IsFiniteSet(Units(f1, N))
  <2> HIDE DEF f1, h, N
  <2>1. \A u \in Units(h, S) : u[1] \in Joined(t, S, d) /\ u[2] \in 1 .. h[u[1]] /\ u = <<u[1], u[2]>> /\ u[2] \in Nat
    <3>1. \A u \in Units(h, S) : u[1] \in S /\ u[2] \in 1 .. h[u[1]] /\ u = <<u[1], u[2]>> /\ u[2] \in Nat
      BY DEF Units
    <3>2. \A u \in Units(h, S) : h[u[1]] > 0
      BY <1>11, <3>1
    <3> QED BY <1>11, <3>1, <3>2
  <2>2. g \in [Units(h, S) -> Units(f1, N)]
    <3>1. ASSUME NEW u \in Units(h, S) PROVE <<PairOf(d, u[1]), u[2]>> \in Units(f1, N)
      BY <1>12, <2>1 DEF Units
    <3> QED BY <3>1
  <2>3. \A u, x \in Units(h, S) : g[u] = g[x] => u = x
    <3>1. SUFFICES ASSUME NEW u \in Units(h, S), NEW x \in Units(h, S), g[u] = g[x] PROVE u = x
      OBVIOUS
    <3>2. PairOf(d, u[1]) = PairOf(d, x[1]) /\ u[2] = x[2]
      BY <3>1
    <3>3. u[1] = x[1]
      BY <1>4, <1>12, <2>1, <3>2
    <3> QED BY <2>1, <3>2, <3>3
  <2>4. \A y \in Units(f1, N) : \E u \in Units(h, S) : g[u] = y
    <3>1. SUFFICES ASSUME NEW y \in Units(f1, N) PROVE \E u \in Units(h, S) : g[u] = y
      OBVIOUS
    <3>2. y[1] \in N /\ y[2] \in Nat /\ y[2] \in 1 .. f1[y[1]] /\ y = <<y[1], y[2]>>
      BY DEF Units
    <3>3. PICK e \in Joined(t, S, d) : y[1] = PairOf(d, e)
      BY <1>13, <3>2
    <3>4. <<e, y[2]>> \in Units(h, S)
      BY <1>12, <3>2, <3>3 DEF Units
    <3>5. g[<<e, y[2]>>] = y
      BY <3>2, <3>3, <3>4
    <3> QED BY <3>4, <3>5
  <2> HIDE DEF g
  <2> QED BY <1>10, <2>2, <2>3, <2>4, ImageCardinality
<1> HIDE DEF f0, f1, h, L0, L1, N
<1>15. Cardinality(Units(f1, L1)) = Cardinality(Units(f0, L0)) + Cardinality(Units(f1, N))
  BY <1>8, <1>9, <1>10, <1>14, DisjointUnion
<1>16. Sum(f1) = Sum(f0) + Sum(h)
  BY <1>6, <1>14, <1>15
<1> QED
  BY <1>16 DEF f0, f1, h, L0, L1

LEMMA OneMore ==
    ASSUME NEW A, IsFiniteSet(A), NEW x, NEW c \in BOOLEAN, c => x \notin A,
           NEW B, B = IF c THEN A \cup {x} ELSE A
    PROVE  Cardinality(B) = Cardinality(A) + One(c)
<1>1. Cardinality(A) \in Nat
  BY FS_CardinalityType
<1>2. CASE c
  BY <1>1, <1>2, FS_AddElement DEF One
<1>3. CASE ~c
  BY <1>1, <1>3 DEF One
<1> QED
  BY <1>2, <1>3

\* The number of devices of S with something in common is 0 if there is none.
LEMMA NoneCounted ==
    ASSUME NEW S, IsFiniteSet(S), NEW A \in SUBSET S
    PROVE  Cardinality(A) = 0 <=> A = {}
BY FS_Subset, FS_EmptySet

\* What the score of a set becomes with one more device.
LEMMA AddScore ==
    ASSUME NEW t \in Seq(Device), NEW S \in SUBSET DOMAIN t, NEW d \in DOMAIN t, d \notin S
    PROVE  Score(t, S \cup {d}) =
             [unknownNUMA |-> Score(t, S).unknownNUMA + One(t[d].numa < 0),
              numaNodes |-> Score(t, S).numaNodes
                  + One(t[d].numa >= 0 /\ Cardinality({e \in S : t[e].numa = t[d].numa}) = 0),
              sidGroups |-> Score(t, S).sidGroups
                  + One(Cardinality({e \in S : sidKey(t, e) = sidKey(t, d)}) = 0),
              unknownPCI |-> Score(t, S).unknownPCI + One(Path(t, d) = NoPath),
              separateRoots |-> Score(t, S).separateRoots + Cardinality(Apart(t, S, d)),
              maxDistance |-> Max({Score(t, S).maxDistance} \cup {Between(t, d, e).hops : e \in S}),
              totalDistance |-> Score(t, S).totalDistance + Sum([e \in S |-> Between(t, d, e).hops])]
<1> DEFINE Q == S \cup {d}
<1>1. IsFiniteSet(S) /\ \A e \in DOMAIN t : t[e] \in Device
  BY TableFacts
<1>2. \A e \in DOMAIN t : t[e].numa \in Int /\ (t[e].numa < 0 <=> t[e].numa = -1) /\ (t[e].numa >= 0 <=> t[e].numa # -1)
  <2>1. \A e \in DOMAIN t : t[e].numa \in Nat \cup {-1}
    BY <1>1 DEF Device
  <2>2. \A n \in Nat \cup {-1} : n \in Int /\ (n < 0 <=> n = -1) /\ (n >= 0 <=> n # -1)
    OBVIOUS
  <2> QED BY <2>1, <2>2
<1>3. Cardinality({e \in Q : t[e].numa < 0}) = Cardinality({e \in S : t[e].numa < 0}) + One(t[d].numa < 0)
  <2> DEFINE A == {e \in S : t[e].numa < 0}
             B == {e \in Q : t[e].numa < 0}
             c == t[d].numa < 0
  <2>1. IsFiniteSet(A) /\ d \notin A
    BY <1>1, FS_Subset
  <2>2. B = IF c THEN A \cup {d} ELSE A
    OBVIOUS
  <2>3. c \in BOOLEAN
    BY <1>2
  <2> HIDE DEF A, B, c
  <2>4. Cardinality(B) = Cardinality(A) + One(c)
    BY <2>1, <2>2, <2>3, OneMore
  <2> QED BY <2>4 DEF A, B, c
<1>4. Cardinality({t[e].numa : e \in Q} \ {-1}) = Cardinality({t[e].numa : e \in S} \ {-1})
         + One(t[d].numa >= 0 /\ Cardinality({e \in S : t[e].numa = t[d].numa}) = 0)
  <2> DEFINE A == {t[e].numa : e \in S} \ {-1}
             B == {t[e].numa : e \in Q} \ {-1}
             C == {e \in S : t[e].numa = t[d].numa}
             c == t[d].numa >= 0 /\ Cardinality(C) = 0
             f == [e \in S |-> t[e].numa]
  <2>1. IsFiniteSet(A)
    <3>1. f = [e \in S |-> f[e]]
      OBVIOUS
    <3>2. {f[e] : e \in S} = {t[e].numa : e \in S}
      OBVIOUS
    <3>3. IsFiniteSet({f[e] : e \in S})
      <4> HIDE DEF f
      <4> QED BY <1>1, <3>1, ImageFinite
    <3> QED BY <3>2, <3>3, FS_Difference
  <2>2. Cardinality(C) = 0 <=> C = {}
    BY <1>1, NoneCounted
  <2>3. c <=> t[d].numa # -1 /\ t[d].numa \notin A
    BY <1>2, <2>2
  <2>4. t[d].numa = -1 \/ t[d].numa \in A => B = A
    OBVIOUS
  <2>5. t[d].numa # -1 => B = A \cup {t[d].numa}
    OBVIOUS
  <2>6. c \in BOOLEAN
    BY <1>2
  <2> HIDE DEF A, B, c, C
  <2>7. Cardinality(B) = Cardinality(A) + One(c)
    BY <2>1, <2>3, <2>4, <2>5, <2>6, OneMore
  <2> QED BY <2>7 DEF A, B, c, C
<1>5. Cardinality({sidKey(t, e) : e \in Q}) = Cardinality({sidKey(t, e) : e \in S})
         + One(Cardinality({e \in S : sidKey(t, e) = sidKey(t, d)}) = 0)
  <2> DEFINE A == {sidKey(t, e) : e \in S}
             B == {sidKey(t, e) : e \in Q}
             C == {e \in S : sidKey(t, e) = sidKey(t, d)}
             c == Cardinality(C) = 0
             f == [e \in S |-> sidKey(t, e)]
  <2>1. IsFiniteSet(A)
    <3>1. f = [e \in S |-> f[e]]
      OBVIOUS
    <3>2. {f[e] : e \in S} = A
      OBVIOUS
    <3>3. IsFiniteSet({f[e] : e \in S})
      <4> HIDE DEF f
      <4> QED BY <1>1, <3>1, ImageFinite
    <3> QED BY <3>2, <3>3
  <2>2. Cardinality(C) = 0 <=> C = {}
    BY <1>1, NoneCounted
  <2>3. c <=> sidKey(t, d) \notin A
    BY <2>2
  <2>4. B = A \cup {sidKey(t, d)}
    OBVIOUS
  <2>5. c \in BOOLEAN
    OBVIOUS
  <2> HIDE DEF A, B, c, C
  <2>6. B = IF c THEN A \cup {sidKey(t, d)} ELSE A
    BY <2>3, <2>4
  <2>7. Cardinality(B) = Cardinality(A) + One(c)
    BY <2>1, <2>3, <2>5, <2>6, OneMore
  <2> QED BY <2>7 DEF A, B, c, C
<1>6. Cardinality(Q \ Known(t, Q)) = Cardinality(S \ Known(t, S)) + One(Path(t, d) = NoPath)
  <2> DEFINE A == S \ Known(t, S)
             B == Q \ Known(t, Q)
             c == Path(t, d) = NoPath
  <2>1. IsFiniteSet(A) /\ d \notin A
    BY <1>1, FS_Difference
  <2>2. B = IF c THEN A \cup {d} ELSE A
    BY DEF Known
  <2>3. c \in BOOLEAN
    OBVIOUS
  <2> HIDE DEF A, B, c
  <2>4. Cardinality(B) = Cardinality(A) + One(c)
    BY <2>1, <2>2, <2>3, OneMore
  <2> QED BY <2>4 DEF A, B, c
<1>7. /\ Cardinality(Pairs(t, Q) \ Linked(t, Q)) = Cardinality(Pairs(t, S) \ Linked(t, S)) + Cardinality(Apart(t, S, d))
      /\ Sum([p \in Linked(t, Q) |-> HopsOf(t, p)]) =
             Sum([p \in Linked(t, S) |-> HopsOf(t, p)]) + Sum([e \in S |-> Between(t, d, e).hops])
      /\ Max({0} \cup {HopsOf(t, p) : p \in Linked(t, Q)}) =
             Max({Max({0} \cup {HopsOf(t, p) : p \in Linked(t, S)})} \cup {Between(t, d, e).hops : e \in S})
  BY AddSeparateRoots, AddTotalDistance, AddMaxDistance
<1>8. Score(t, Q) =
        [unknownNUMA |-> Cardinality({e \in Q : t[e].numa < 0}),
         numaNodes |-> Cardinality({t[e].numa : e \in Q} \ {-1}),
         sidGroups |-> Cardinality({sidKey(t, e) : e \in Q}),
         unknownPCI |-> Cardinality(Q \ Known(t, Q)),
         separateRoots |-> Cardinality(Pairs(t, Q) \ Linked(t, Q)),
         maxDistance |-> Max({0} \cup {HopsOf(t, p) : p \in Linked(t, Q)}),
         totalDistance |-> Sum([p \in Linked(t, Q) |-> HopsOf(t, p)])]
  BY ScoreParts
<1>9. /\ Score(t, S).unknownNUMA = Cardinality({e \in S : t[e].numa < 0})
      /\ Score(t, S).numaNodes = Cardinality({t[e].numa : e \in S} \ {-1})
      /\ Score(t, S).sidGroups = Cardinality({sidKey(t, e) : e \in S})
      /\ Score(t, S).unknownPCI = Cardinality(S \ Known(t, S))
      /\ Score(t, S).separateRoots = Cardinality(Pairs(t, S) \ Linked(t, S))
      /\ Score(t, S).maxDistance = Max({0} \cup {HopsOf(t, p) : p \in Linked(t, S)})
      /\ Score(t, S).totalDistance = Sum([p \in Linked(t, S) |-> HopsOf(t, p)])
  BY ScoreParts
<1> HIDE DEF Q
<1>10. Score(t, Q) =
             [unknownNUMA |-> Score(t, S).unknownNUMA + One(t[d].numa < 0),
              numaNodes |-> Score(t, S).numaNodes
                  + One(t[d].numa >= 0 /\ Cardinality({e \in S : t[e].numa = t[d].numa}) = 0),
              sidGroups |-> Score(t, S).sidGroups
                  + One(Cardinality({e \in S : sidKey(t, e) = sidKey(t, d)}) = 0),
              unknownPCI |-> Score(t, S).unknownPCI + One(Path(t, d) = NoPath),
              separateRoots |-> Score(t, S).separateRoots + Cardinality(Apart(t, S, d)),
              maxDistance |-> Max({Score(t, S).maxDistance} \cup {Between(t, d, e).hops : e \in S}),
              totalDistance |-> Score(t, S).totalDistance + Sum([e \in S |-> Between(t, d, e).hops])]
  BY <1>3, <1>4, <1>5, <1>6, <1>7, <1>8, <1>9
<1> QED
  BY <1>10 DEF Q

-----------------------------------------------------------------------------
(***************************************************************************)
(* The order in which a depth-first search visits its picks.  p is what    *)
(* the open calls have picked, x the candidate that is next, k how many    *)
(* are picked of n.                                                        *)
(***************************************************************************)
Increasing(k, n) ==
    {c \in [1 .. k -> 1 .. n] : \A i, j \in 1 .. k : i < j => c[i] + (j - i) <= c[j]}

Precedes(p, c) == \E j \in 1 .. Len(p) : p[j] < c[j] /\ \A i \in 1 .. j - 1 : c[i] = p[i]

Extends(p, c) == \A i \in 1 .. Len(p) : c[i] = p[i]

\* c has not been visited yet.
Remains(k, p, x, c) == (Extends(p, c) /\ (Len(p) < k => x <= c[Len(p) + 1])) \/ Precedes(p, c)

LEMMA IncreasingFacts ==
    ASSUME NEW k \in Nat, NEW n \in Nat, NEW c \in Increasing(k, n)
    PROVE  /\ DOMAIN c = 1 .. k /\ \A i \in 1 .. k : c[i] \in 1 .. n
           /\ \A i, j \in 1 .. k : i < j => c[i] + (j - i) <= c[j]
BY DEF Increasing

\* Everything remains at first.
LEMMA RemainsAtFirst ==
    ASSUME NEW k \in Nat, k >= 1, NEW n \in Nat, NEW c \in Increasing(k, n)
    PROVE  Remains(k, <<>>, 1, c)
<1>1. c[1] \in 1 .. n
  BY IncreasingFacts
<1>2. Len(<<>>) = 0 /\ 1 .. 0 = {} /\ 0 + 1 = 1
  OBVIOUS
<1> QED
  BY <1>1, <1>2 DEF Remains, Extends

\* Picking x leaves what remains.
LEMMA RemainsPicking ==
    ASSUME NEW k \in Nat, NEW n \in Nat, NEW c \in Increasing(k, n),
           NEW p \in Seq(Nat), Len(p) < k, NEW x \in Nat
    PROVE  Remains(k, Append(p, x), x + 1, c) <=> Remains(k, p, x, c)
<1> DEFINE h == Len(p)
           q == Append(p, x)
<1>1. h \in Nat /\ h + 1 \in 1 .. k
  OBVIOUS
<1>2. Len(q) = h + 1 /\ q[h + 1] = x /\ \A i \in 1 .. h : q[i] = p[i]
  OBVIOUS
<1> HIDE DEF q
<1>3. c[h + 1] \in Nat /\ (\A i \in 1 .. k : c[i] \in Nat) /\ \A i, j \in 1 .. k : i < j => c[i] + (j - i) <= c[j]
  BY <1>1, IncreasingFacts
<1>4. \A i : i \in 1 .. h + 1 <=> i \in 1 .. h \/ i = h + 1
  BY <1>1
<1>5. Extends(q, c) <=> Extends(p, c) /\ c[h + 1] = x
  BY <1>2, <1>4 DEF Extends
<1>6. Precedes(q, c) <=> Precedes(p, c) \/ (Extends(p, c) /\ x < c[h + 1])
  <2>1. \A j \in 1 .. h : \A i \in 1 .. j - 1 : q[i] = p[i]
    BY <1>1, <1>2
  <2>2. (\A i \in 1 .. (h + 1) - 1 : c[i] = q[i]) <=> Extends(p, c)
    <3>1. 1 .. (h + 1) - 1 = 1 .. h
      BY <1>1
    <3> QED BY <1>2, <3>1 DEF Extends
  <2>3. ASSUME NEW j \in 1 .. h
        PROVE  (q[j] < c[j] /\ \A i \in 1 .. j - 1 : c[i] = q[i])
                 <=> (p[j] < c[j] /\ \A i \in 1 .. j - 1 : c[i] = p[i])
    BY <1>2, <2>1
  <2> QED BY <1>2, <1>4, <2>2, <2>3 DEF Precedes
<1>7. ASSUME c[h + 1] = x, h + 1 < k PROVE x + 1 <= c[h + 2]
  <2>1. h + 2 \in 1 .. k /\ h + 1 < h + 2 /\ (h + 2) - (h + 1) = 1
    BY <1>1, <1>7
  <2> QED BY <1>1, <1>3, <1>7, <2>1
<1>8. Remains(k, q, x + 1, c) <=> Extends(q, c) \/ Precedes(q, c)
  <2>1. Len(q) + 1 = h + 2
    BY <1>1, <1>2
  <2> QED BY <1>2, <1>5, <1>7, <2>1 DEF Remains
<1>9. Remains(k, p, x, c) <=> (Extends(p, c) /\ x <= c[h + 1]) \/ Precedes(p, c)
  BY DEF Remains
<1>10. x <= c[h + 1] <=> x = c[h + 1] \/ x < c[h + 1]
  BY <1>3
<1> QED
  BY <1>5, <1>6, <1>8, <1>9, <1>10 DEF q

\* After a return, what remains is what comes after the pick of an open call.
LEMMA RemainsReturning ==
    ASSUME NEW k \in Nat, NEW n \in Nat, NEW c \in Increasing(k, n),
           NEW p \in Seq(Nat), Len(p) >= 1, Len(p) <= k
    PROVE  Remains(k, SubSeq(p, 1, Len(p) - 1), p[Len(p)] + 1, c) <=> Precedes(p, c)
<1> DEFINE h == Len(p) - 1
           x == p[Len(p)]
           q == SubSeq(p, 1, h)
<1>1. h \in Nat /\ Len(p) = h + 1 /\ h + 1 \in 1 .. k /\ x \in Nat /\ h < k
  OBVIOUS
<1>2. q \in Seq(Nat) /\ Len(q) = h /\ \A i \in 1 .. h : q[i] = p[i]
  BY <1>1
<1>3. c[h + 1] \in Nat
  BY <1>1, IncreasingFacts
<1> HIDE DEF q, h, x
<1>4. \A i : i \in 1 .. h + 1 <=> i \in 1 .. h \/ i = h + 1
  BY <1>1
<1>5. Precedes(p, c) <=> Precedes(q, c) \/ (Extends(q, c) /\ x < c[h + 1])
  <2>1. \A j \in 1 .. h : \A i \in 1 .. j - 1 : q[i] = p[i]
    BY <1>1, <1>2
  <2>2. (\A i \in 1 .. (h + 1) - 1 : c[i] = p[i]) <=> Extends(q, c)
    <3>1. 1 .. (h + 1) - 1 = 1 .. h
      BY <1>1
    <3> QED BY <1>2, <3>1 DEF Extends
  <2>3. ASSUME NEW j \in 1 .. h
        PROVE  (q[j] < c[j] /\ \A i \in 1 .. j - 1 : c[i] = q[i])
                 <=> (p[j] < c[j] /\ \A i \in 1 .. j - 1 : c[i] = p[i])
    BY <1>2, <2>1
  <2>4. p[h + 1] = x
    BY <1>1 DEF x
  <2> QED BY <1>1, <1>2, <1>4, <2>2, <2>3, <2>4 DEF Precedes
<1>6. x + 1 <= c[h + 1] <=> x < c[h + 1]
  BY <1>1, <1>3
<1>7. Remains(k, q, x + 1, c) <=> Precedes(p, c)
  BY <1>1, <1>2, <1>5, <1>6 DEF Remains
<1> QED
  BY <1>7 DEF q, x, h

\* When a loop is over, only what comes after an earlier pick remains.
LEMMA RemainsExhausted ==
    ASSUME NEW k \in Nat, NEW n \in Nat, NEW c \in Increasing(k, n),
           NEW p \in Seq(Nat), Len(p) < k, NEW x \in Nat, x > n - (k - Len(p)) + 1
    PROVE  Remains(k, p, x, c) <=> Precedes(p, c)
<1> DEFINE h == Len(p)
<1>1. h \in Nat /\ h + 1 \in 1 .. k /\ k \in 1 .. k
  OBVIOUS
<1>2. /\ c[h + 1] \in 1 .. n /\ c[k] \in 1 .. n
      /\ h + 1 < k => c[h + 1] + (k - (h + 1)) <= c[k]
  BY <1>1, IncreasingFacts
<1>3. c[h + 1] + (k - (h + 1)) <= n
  <2>1. CASE h + 1 = k
    BY <1>1, <1>2, <2>1
  <2>2. CASE h + 1 < k
    BY <1>1, <1>2, <2>2
  <2> QED BY <1>1, <2>1, <2>2
<1>4. ~(x <= c[h + 1])
  BY <1>1, <1>2, <1>3
<1> QED
  BY <1>4 DEF Remains

\* When everything is picked, what remains is that and what comes after it.
LEMMA RemainsLeaf ==
    ASSUME NEW k \in Nat, NEW n \in Nat, NEW c \in Increasing(k, n),
           NEW p \in Seq(Nat), Len(p) = k, NEW x
    PROVE  Remains(k, p, x, c) <=> c = p \/ Precedes(p, c)
<1>1. DOMAIN c = 1 .. k /\ DOMAIN p = 1 .. k /\ c = [i \in 1 .. k |-> c[i]] /\ p = [i \in 1 .. k |-> p[i]]
  BY IncreasingFacts DEF Increasing
<1>2. Extends(p, c) <=> c = p
  BY <1>1 DEF Extends
<1> QED
  BY <1>2 DEF Remains

\* An increasing list of integers rises by at least one each time.
LEMMA Gaps ==
    ASSUME NEW k \in Nat, NEW n \in Nat, NEW c \in [1 .. k -> 1 .. n],
           \A i, j \in 1 .. k : i < j => c[i] < c[j]
    PROVE  c \in Increasing(k, n)
<1> DEFINE B == {j \in 1 .. k : \E i \in 1 .. k : i < j /\ ~(c[i] + (j - i) <= c[j])}
<1>1. SUFFICES ASSUME B # {} PROVE FALSE
  BY DEF Increasing
<1>2. PICK j \in B : \A m \in B : j <= m
  <2>1. B \subseteq Nat
    OBVIOUS
  <2> HIDE DEF B
  <2> QED BY ONLY <1>1, <2>1, LeastNumber
<1>3. PICK i \in 1 .. k : i < j /\ ~(c[i] + (j - i) <= c[j])
  OBVIOUS
<1>4. j \in 1 .. k /\ j - 1 \in 1 .. k /\ j - 1 < j /\ c[i] \in Nat /\ c[j] \in Nat /\ c[j - 1] \in Nat
  BY <1>3
<1>5. CASE i = j - 1
  BY <1>3, <1>4, <1>5
<1>6. CASE i < j - 1
  <2>1. j - 1 \notin B
    BY <1>2, <1>4
  <2>2. c[i] + ((j - 1) - i) <= c[j - 1]
    BY <1>4, <1>6, <2>1
  <2>3. c[j - 1] < c[j]
    BY <1>4
  <2> QED BY <1>3, <1>4, <2>2, <2>3
<1> QED
  BY <1>3, <1>4, <1>5, <1>6

\* M and what c picks from the list q.
Taken(M, q, k, c) == M \cup {q[c[i]] : i \in 1 .. k}

\* Of two sets picked from an increasing list, the one that is picked first has
\* the least element that they do not share.
LEMMA FirstDifference ==
    ASSUME NEW A \in SUBSET Nat, NEW q \in Seq(A), \A i, j \in 1 .. Len(q) : i < j => q[i] < q[j],
           NEW M, M \cap ToSet(q) = {}, NEW k \in Nat,
           NEW b \in Increasing(k, Len(q)), NEW c \in Increasing(k, Len(q)), Precedes(b, c)
    PROVE  Min(SymDiff(Taken(M, q, k, b), Taken(M, q, k, c))) \in Taken(M, q, k, b)
<1> DEFINE m == Len(q)
           S == M \cup {q[b[i]] : i \in 1 .. k}
           T == M \cup {q[c[i]] : i \in 1 .. k}
           D == SymDiff(S, T)
<1>1. PICK j \in 1 .. k : b[j] < c[j] /\ \A i \in 1 .. j - 1 : c[i] = b[i]
  <2>1. Len(b) = k
    BY DEF Increasing
  <2> QED BY <2>1 DEF Precedes
<1>2. /\ m \in Nat
      /\ \A i \in 1 .. k : b[i] \in 1 .. m /\ c[i] \in 1 .. m
      /\ \A i, l \in 1 .. k : i < l => b[i] + (l - i) <= b[l] /\ c[i] + (l - i) <= c[l]
  BY IncreasingFacts
<1>3. \A i \in 1 .. m : q[i] \in Nat /\ q[i] \notin M
  <2>1. \A i \in 1 .. m : q[i] \in A /\ q[i] \in ToSet(q)
    BY DEF ToSet
  <2> QED BY <2>1
<1> HIDE DEF m
<1>4. \A u, v \in 1 .. m : (u < v => q[u] < q[v]) /\ (q[u] = q[v] => u = v)
  <2>1. \A u, v \in 1 .. m : u < v => q[u] < q[v]
    BY DEF m
  <2> QED BY <1>2, <1>3, <2>1
<1> DEFINE d == q[b[j]]
<1>5. \A i \in 1 .. k : i < j => c[i] = b[i]
  BY <1>1
<1>6. \A i \in 1 .. k : j <= i => b[j] <= b[i] /\ b[j] < c[i]
  <2>1. SUFFICES ASSUME NEW i \in 1 .. k, j <= i PROVE b[j] <= b[i] /\ b[j] < c[i]
    OBVIOUS
  <2>2. CASE i = j
    BY <1>1, <1>2, <2>2
  <2>3. CASE j < i
    <3>1. b[j] + (i - j) <= b[i] /\ c[j] + (i - j) <= c[i]
      BY <1>2, <2>3
    <3>2. b[j] \in Nat /\ b[i] \in Nat /\ c[j] \in Nat /\ c[i] \in Nat
      BY <1>2
    <3> QED BY <1>1, <2>3, <3>1, <3>2
  <2> QED BY <2>1, <2>2, <2>3
<1>7. d \in S /\ d \notin T
  <2>1. d \in S
    OBVIOUS
  <2>2. \A i \in 1 .. k : c[i] # b[j]
    <3>1. SUFFICES ASSUME NEW i \in 1 .. k, c[i] = b[j] PROVE FALSE
      OBVIOUS
    <3>2. CASE i < j
      <4>1. b[i] + (j - i) <= b[j] /\ b[i] = b[j]
        BY <1>2, <1>5, <3>1, <3>2
      <4> QED BY <1>2, <3>2, <4>1
    <3>3. CASE j <= i
      BY <1>2, <1>6, <3>1, <3>3
    <3> QED BY <3>2, <3>3
  <2>3. \A i \in 1 .. k : q[c[i]] # q[b[j]]
    BY <1>2, <1>4, <2>2
  <2>4. d \notin M
    BY <1>2, <1>3
  <2> QED BY <2>1, <2>3, <2>4
<1>8. \A x \in D : x \in Nat /\ d <= x
  <2>1. SUFFICES ASSUME NEW x \in D PROVE x \in Nat /\ d <= x
    OBVIOUS
  <2>2. (x \in S /\ x \notin T) \/ (x \in T /\ x \notin S)
    BY DEF SymDiff
  <2>3. CASE x \in S /\ x \notin T
    <3>1. PICK i \in 1 .. k : x = q[b[i]]
      BY <2>3
    <3>2. j <= i
      <4>1. ~(i < j)
        BY <1>5, <2>3, <3>1
      <4> QED BY <4>1
    <3>3. b[j] = b[i] \/ b[j] < b[i]
      BY <1>2, <1>6, <3>2
    <3> QED BY <1>2, <1>3, <1>4, <3>1, <3>3
  <2>4. CASE x \in T /\ x \notin S
    <3>1. PICK i \in 1 .. k : x = q[c[i]]
      BY <2>4
    <3>2. j <= i
      <4>1. ~(i < j)
        BY <1>5, <2>4, <3>1
      <4> QED BY <4>1
    <3> QED BY <1>2, <1>3, <1>4, <1>6, <3>1, <3>2
  <2> QED BY <2>2, <2>3, <2>4
<1>9. d \in D
  BY <1>7 DEF SymDiff
<1>10. d \in Nat
  BY <1>2, <1>3
<1> HIDE DEF D, d
<1>11. Min(D) \in D /\ \A x \in D : Min(D) <= x
  BY <1>8, <1>9 DEF Min
<1>12. Min(D) = d
  <2> DEFINE x == Min(D)
  <2>1. x \in D /\ x <= d
    BY <1>9, <1>11
  <2> HIDE DEF x
  <2>2. x \in Nat /\ d <= x
    BY <1>8, <2>1
  <2>3. x = d
    BY <1>10, <2>1, <2>2
  <2> QED BY <2>3 DEF x
<1> QED
  BY <1>7, <1>12 DEF D, Taken

-----------------------------------------------------------------------------
(***************************************************************************)
(* What pciSubtreeCosts and pciLowerBound compute.  Both are folds over    *)
(* sets, the first inside a recursion over the nodes: that there are       *)
(* functions that satisfy them is proved first.  The cost of a placement   *)
(* is then counted: an edge of the tree splits a pair of devices if one of *)
(* them is below it and the other is not, the edge above c of K devices    *)
(* splits c * (K - c) pairs, and the splits of a pair are its hops.        *)
(***************************************************************************)
\* The element a fold takes first.
AnyOf(U) == CHOOSE x \in U : TRUE

\* The recursion of MergeChildren.
ChildrenStep(own, T, g, K, h) ==
    [U \in SUBSET T |->
        IF U = {} THEN own
        ELSE MergeChild(h[U \ {AnyOf(U)}], g[AnyOf(U)], K)]

LEMMA ChildrenDef ==
    ASSUME NEW own, NEW T, NEW g, NEW K
    PROVE  MergeChildren(own, T, g, K) = (CHOOSE h : h = ChildrenStep(own, T, g, K, h))[T]
BY DEF MergeChildren, FoldSet, MapThenFoldSet, ChildrenStep, AnyOf

\* Only the costs of the children count.
LEMMA ChildrenOnly ==
    ASSUME NEW own, NEW T, NEW g, NEW f, NEW K, \A w \in T : g[w] = f[w]
    PROVE  MergeChildren(own, T, g, K) = MergeChildren(own, T, f, K)
<1>1. ASSUME NEW h PROVE ChildrenStep(own, T, g, K, h) = ChildrenStep(own, T, f, K, h)
  <2>1. \A U \in SUBSET T : U # {} => AnyOf(U) \in T
    BY DEF AnyOf
  <2> QED BY <2>1 DEF ChildrenStep
<1>2. (CHOOSE h : h = ChildrenStep(own, T, g, K, h)) = (CHOOSE h : h = ChildrenStep(own, T, f, K, h))
  BY <1>1
<1> QED
  BY <1>2, ChildrenDef

\* h is a fold of f over the subsets of T, with values in A.
IsFold(T, A, own, f, h) ==
    /\ h \in [SUBSET T -> A]
    /\ \A U \in SUBSET T :
         h[U] = IF U = {} THEN own ELSE f[<<AnyOf(U), h[U \ {AnyOf(U)}]>>]

\* A fold over a finite set is defined: the recursion over its subsets has a
\* solution.  The accumulator is in A; f adds one element.
LEMMA FoldExists ==
    ASSUME NEW T, IsFiniteSet(T), NEW A, NEW own \in A, NEW f \in [T \X A -> A]
    PROVE  \E h : IsFold(T, A, own, f, h)
<1> DEFINE Small(n) == {U \in SUBSET T : Cardinality(U) <= n}
           x(U) == AnyOf(U)
           Solves(n, h) ==
             /\ h \in [Small(n) -> A]
             /\ \A U \in Small(n) : h[U] = IF U = {} THEN own ELSE f[<<x(U), h[U \ {x(U)}]>>]
           B == {n \in Nat : ~\E h : Solves(n, h)}
<1>1. \A U \in SUBSET T : IsFiniteSet(U) /\ Cardinality(U) \in Nat /\ Cardinality(U) <= Cardinality(T)
  BY FS_Subset, FS_CardinalityType
<1>2. \A U \in SUBSET T : U # {} => x(U) \in U /\ x(U) \in T /\ U \ {x(U)} \in SUBSET T
                                     /\ Cardinality(U \ {x(U)}) = Cardinality(U) - 1
  <2>1. SUFFICES ASSUME NEW U \in SUBSET T, U # {}
                 PROVE  x(U) \in U /\ x(U) \in T /\ U \ {x(U)} \in SUBSET T
                          /\ Cardinality(U \ {x(U)}) = Cardinality(U) - 1
    OBVIOUS
  <2>2. x(U) \in U
    BY <2>1 DEF AnyOf
  <2> QED BY <1>1, <2>2, FS_RemoveElement
<1>3. \A U \in SUBSET T : Cardinality(U) = 0 <=> U = {}
  BY <1>1, FS_EmptySet
<1> HIDE DEF x
<1>4. ASSUME B # {} PROVE FALSE
  <2>1. B \subseteq Nat
    OBVIOUS
  <2>2. PICK n \in B : \A m \in B : n <= m
    <3> HIDE DEF B
    <3> QED BY <1>4, <2>1, LeastNumber
  <2>3. CASE n = 0
    <3> DEFINE h == [U \in Small(0) |-> own]
    <3>1. \A U \in Small(0) : U = {}
      BY <1>1, <1>3
    <3>2. Solves(0, h)
      BY <3>1
    <3> HIDE DEF h, Solves
    <3> QED BY <2>2, <2>3, <3>2
  <2>4. CASE n # 0
    <3>1. n - 1 \in Nat /\ n - 1 \notin B
      <4> HIDE DEF B
      <4>1. n \in Nat
        BY <2>1
      <4> QED BY <2>2, <2>4, <4>1
    <3>2. PICK g : Solves(n - 1, g)
      BY <3>1
    <3> DEFINE h == [U \in Small(n) |->
                       IF Cardinality(U) <= n - 1 THEN g[U] ELSE f[<<x(U), g[U \ {x(U)}]>>]]
    <3>3. \A U \in Small(n) : U # {} => U \ {x(U)} \in Small(n - 1) /\ U \ {x(U)} \in Small(n)
      BY <1>1, <1>2, <3>1
    <3>4. \A U \in Small(n) : Cardinality(U) <= n - 1 => U \in Small(n - 1)
      OBVIOUS
    <3>5. \A U \in Small(n) : ~(Cardinality(U) <= n - 1) => U # {}
      BY <1>1, <1>3, <3>1
    <3>6. \A U \in Small(n - 1) : g[U] \in A /\ g[U] = IF U = {} THEN own ELSE f[<<x(U), g[U \ {x(U)}]>>]
      BY <3>2
    <3>7. \A U \in Small(n - 1) : U \in Small(n) /\ h[U] = g[U]
      BY <1>1, <3>1
    <3>8. \A U \in Small(n) : U # {} => x(U) \in T
      BY <1>2
    <3>9. h \in [Small(n) -> A]
      <4>1. \A U \in Small(n) : U # {} => f[<<x(U), g[U \ {x(U)}]>>] \in A
        <5> HIDE DEF Small
        <5>1. SUFFICES ASSUME NEW U \in Small(n), U # {} PROVE f[<<x(U), g[U \ {x(U)}]>>] \in A
          OBVIOUS
        <5>2. x(U) \in T /\ g[U \ {x(U)}] \in A
          BY <3>3, <3>6, <3>8, <5>1
        <5> QED BY <5>2
      <4> HIDE DEF Small
      <4> QED BY <3>4, <3>5, <3>6, <4>1
    <3>10. \A U \in Small(n) : h[U] = IF U = {} THEN own ELSE f[<<x(U), h[U \ {x(U)}]>>]
      <4>1. SUFFICES ASSUME NEW U \in Small(n)
                     PROVE  h[U] = IF U = {} THEN own ELSE f[<<x(U), h[U \ {x(U)}]>>]
        OBVIOUS
      <4>2. U # {} => h[U \ {x(U)}] = g[U \ {x(U)}]
        BY <3>3, <3>7
      <4>3. CASE Cardinality(U) <= n - 1
        <5>1. h[U] = g[U]
          BY <3>4, <3>7, <4>3
        <5> HIDE DEF h, Small
        <5> QED BY <3>4, <3>6, <4>2, <4>3, <5>1
      <4>4. CASE ~(Cardinality(U) <= n - 1)
        <5>1. h[U] = f[<<x(U), g[U \ {x(U)}]>>]
          BY <4>4
        <5> HIDE DEF h, Small
        <5> QED BY <3>5, <4>2, <4>4, <5>1
      <4> QED BY <4>3, <4>4
    <3>11. Solves(n, h)
      BY <3>9, <3>10
    <3> HIDE DEF h, Solves
    <3> QED BY <2>2, <3>11
  <2> QED BY <2>3, <2>4
<1>5. Cardinality(T) \in Nat /\ Small(Cardinality(T)) = SUBSET T
  <2>1. Cardinality(T) \in Nat
    BY FS_CardinalityType
  <2> QED BY <1>1, <2>1
<1>6. PICK h : Solves(Cardinality(T), h)
  BY <1>4, <1>5
<1>7. h \in [SUBSET T -> A]
  BY <1>5, <1>6
<1>8. \A U \in SUBSET T : h[U] = IF U = {} THEN own ELSE f[<<x(U), h[U \ {x(U)}]>>]
  <2> HIDE DEF Small
  <2> QED BY <1>5, <1>6
<1> QED
  BY <1>7, <1>8 DEF x, IsFold

\* h holds the costs after any of the children were merged.
IsMerge(T, A, own, g, K, h) ==
    /\ h[{}] = own
    /\ \A U \in SUBSET T : h[U] \in A
    /\ \A U \in SUBSET T : U # {} => \E x \in U : h[U] = MergeChild(h[U \ {x}], g[x], K)

\* The fold over the children: it has a value for every set of them, and one
\* more child is merged into what was merged before.
LEMMA ChildrenFold ==
    ASSUME NEW T, IsFiniteSet(T), NEW A, NEW own \in A, NEW g, NEW K,
           \A w \in T : \A c \in A : MergeChild(c, g[w], K) \in A
    PROVE  \E h : MergeChildren(own, T, g, K) = h[T] /\ IsMerge(T, A, own, g, K, h)
<1> DEFINE f == [p \in T \X A |-> MergeChild(p[2], g[p[1]], K)]
           h == CHOOSE k : k = ChildrenStep(own, T, g, K, k)
           x(U) == AnyOf(U)
<1>1. f \in [T \X A -> A] /\ \A w \in T : \A c \in A : f[<<w, c>>] = MergeChild(c, g[w], K)
  OBVIOUS
<1>2. \A U \in SUBSET T : U # {} => x(U) \in U /\ x(U) \in T /\ U \ {x(U)} \in SUBSET T
  BY DEF AnyOf
<1>3. PICK k : IsFold(T, A, own, f, k)
  <2> HIDE DEF f
  <2>1. IsFiniteSet(T) /\ own \in A /\ f \in [T \X A -> A]
    BY <1>1
  <2> QED BY ONLY <2>1, FoldExists
<1> HIDE DEF f
<1>4. k = ChildrenStep(own, T, g, K, k)
  <2>1. SUFFICES ASSUME NEW U \in SUBSET T PROVE k[U] = ChildrenStep(own, T, g, K, k)[U]
    BY <1>3 DEF ChildrenStep, IsFold
  <2>2. U # {} => f[<<x(U), k[U \ {x(U)}]>>] = MergeChild(k[U \ {x(U)}], g[x(U)], K)
    <3>1. U # {} => x(U) \in T /\ k[U \ {x(U)}] \in A
      BY <1>2, <1>3 DEF IsFold
    <3> QED BY <1>1, <3>1
  <2>3. k[U] = IF U = {} THEN own ELSE MergeChild(k[U \ {x(U)}], g[x(U)], K)
    BY <1>3, <2>2 DEF IsFold
  <2> QED BY <2>3 DEF ChildrenStep
<1>5. h = ChildrenStep(own, T, g, K, h)
  BY <1>4
<1>6. MergeChildren(own, T, g, K) = h[T]
  BY ChildrenDef
<1> HIDE DEF h
<1>7. \A U \in SUBSET T : h[U] = IF U = {} THEN own ELSE MergeChild(h[U \ {x(U)}], g[x(U)], K)
  <2>1. \A U \in SUBSET T : ChildrenStep(own, T, g, K, h)[U]
                              = IF U = {} THEN own ELSE MergeChild(h[U \ {x(U)}], g[x(U)], K)
    BY DEF ChildrenStep
  <2> QED BY <1>5, <2>1
<1> HIDE DEF x
<1>8. \A U \in SUBSET T : h[U] \in A
  <2> DEFINE B == {U \in SUBSET T : h[U] \notin A}
  <2>1. SUFFICES ASSUME B # {} PROVE FALSE
    OBVIOUS
  <2>2. B \subseteq SUBSET T
    OBVIOUS
  <2>3. PICK U \in B : \A V \in B : V \subseteq U => V = U
    <3> HIDE DEF B
    <3> QED BY ONLY IsFiniteSet(T), <2>1, <2>2, MinimalSet
  <2>4. CASE U = {}
    BY <1>7, <2>4
  <2>5. CASE U # {}
    <3>1. x(U) \in U /\ x(U) \in T /\ U \ {x(U)} \in SUBSET T
      BY <1>2, <2>5
    <3>2. h[U \ {x(U)}] \in A
      BY <2>3, <3>1
    <3>3. MergeChild(h[U \ {x(U)}], g[x(U)], K) \in A
      BY <3>1, <3>2
    <3> QED BY <1>7, <2>5, <3>3
  <2> QED BY <2>4, <2>5
<1>9. \A U \in SUBSET T : U # {} => \E y \in U : h[U] = MergeChild(h[U \ {y}], g[y], K)
  BY <1>2, <1>7
<1>10. h[{}] = own
  BY <1>7
<1> QED
  BY <1>6, <1>8, <1>9, <1>10 DEF IsMerge

-----------------------------------------------------------------------------
(* One merge *)

LEMMA MinNat ==
    ASSUME NEW S, S \subseteq Nat, S # {}
    PROVE  Min(S) \in S /\ \A x \in S : Min(S) <= x
BY LeastNumber DEF Min

LEMMA MinOfTwo ==
    ASSUME NEW m \in Nat, NEW n \in Nat
    PROVE  Min({m, n}) \in Nat /\ Min({m, n}) <= m /\ Min({m, n}) <= n /\ Min({m, n}) \in {m, n}
<1>1. {m, n} \subseteq Nat /\ {m, n} # {}
  OBVIOUS
<1>2. Min({m, n}) \in {m, n} /\ \A x \in {m, n} : Min({m, n}) <= x
  BY ONLY <1>1, MinNat
<1> QED
  BY <1>1, <1>2

\* A merged cost is a number, and at most that of any way to share n devices.
LEMMA MergeChildIs ==
    ASSUME NEW l \in Nat, NEW m \in Nat, NEW K \in Nat, m <= K,
           NEW costs \in [0 .. l -> Nat], NEW child \in [0 .. m -> Nat]
    PROVE  /\ MergeChild(costs, child, K) \in [0 .. l -> Nat]
           /\ \A n \in 0 .. l : \A c \in 0 .. m :
                c <= n /\ child[c] # impossiblePCICost /\ costs[n - c] # impossiblePCICost =>
                   MergeChild(costs, child, K)[n] <= costs[n - c] + child[c] + c * (K - c)
<1> DEFINE C(n) == {c \in DOMAIN child : c <= n /\ child[c] # impossiblePCICost
                                                /\ costs[n - c] # impossiblePCICost}
           V(n) == {impossiblePCICost} \cup {costs[n - c] + child[c] + c * (K - c) : c \in C(n)}
<1>1. ASSUME NEW n \in 0 .. l
      PROVE  V(n) \subseteq Nat /\ V(n) # {}
  <2>1. ASSUME NEW c \in C(n) PROVE costs[n - c] + child[c] + c * (K - c) \in Nat
    <3>1. c \in Nat /\ c <= n /\ c <= m /\ child[c] \in Nat
      OBVIOUS
    <3>2. n - c \in 0 .. l /\ K - c \in Nat
      BY <3>1
    <3>3. costs[n - c] \in Nat /\ c * (K - c) \in Nat
      BY <3>1, <3>2
    <3>4. \A x, y, z \in Nat : x + y + z \in Nat
      OBVIOUS
    <3> QED BY ONLY <3>1, <3>3, <3>4
  <2> QED BY <2>1, CostAssumption
<1>2. MergeChild(costs, child, K) = [n \in 0 .. l |-> Min(V(n))]
  BY DEF MergeChild
<1>3. \A n \in 0 .. l : Min(V(n)) \in Nat /\ \A x \in V(n) : Min(V(n)) <= x
  <2> HIDE DEF V
  <2> QED BY <1>1, MinNat
<1>4. \A n \in 0 .. l : \A c \in 0 .. m :
                c <= n /\ child[c] # impossiblePCICost /\ costs[n - c] # impossiblePCICost =>
                   costs[n - c] + child[c] + c * (K - c) \in V(n)
  OBVIOUS
<1> HIDE DEF V
<1> QED
  BY <1>2, <1>3, <1>4

-----------------------------------------------------------------------------
(* Nodes of the forest *)

LEMMA PrefixIs ==
    ASSUME NEW v \in Seq(Nat), NEW w \in Seq(Nat)
    PROVE  IsPrefix(w, v) <=> Len(w) <= Len(v) /\ \A i \in 1 .. Len(w) : w[i] = v[i]
<1>1. Len(v) \in Nat /\ Len(w) \in Nat
  OBVIOUS
<1>2. SubSeq(w, 1, Len(w)) = [i \in 1 .. Len(w) |-> w[i]]
  BY <1>1
<1>3. Len(w) <= Len(v) => SubSeq(v, 1, Len(w)) = [i \in 1 .. Len(w) |-> v[i]]
  BY <1>1
<1> QED
  BY <1>1, <1>2, <1>3 DEF IsPrefix

LEMMA PrefixOrder ==
    ASSUME NEW u \in Seq(Nat), NEW v \in Seq(Nat), NEW w \in Seq(Nat)
    PROVE  /\ IsPrefix(v, v)
           /\ IsPrefix(u, v) /\ IsPrefix(v, w) => IsPrefix(u, w)
           /\ IsPrefix(u, w) /\ IsPrefix(v, w) /\ Len(u) <= Len(v) => IsPrefix(u, v)
           /\ IsPrefix(u, v) /\ Len(u) = Len(v) => u = v
<1>1. Len(u) \in Nat /\ Len(v) \in Nat /\ Len(w) \in Nat
  OBVIOUS
<1>2. IsPrefix(u, v) <=> Len(u) <= Len(v) /\ \A i \in 1 .. Len(u) : u[i] = v[i]
  BY PrefixIs
<1>3. IsPrefix(v, w) <=> Len(v) <= Len(w) /\ \A i \in 1 .. Len(v) : v[i] = w[i]
  BY PrefixIs
<1>4. IsPrefix(u, w) <=> Len(u) <= Len(w) /\ \A i \in 1 .. Len(u) : u[i] = w[i]
  BY PrefixIs
<1>5. IsPrefix(v, v)
  BY PrefixIs
<1>6. IsPrefix(u, v) /\ Len(u) = Len(v) => u = v
  BY <1>2
<1> QED
  BY <1>1, <1>2, <1>3, <1>4, <1>5, <1>6

LEMMA PrefixesAre ==
    ASSUME NEW v \in Seq(Nat)
    PROVE  /\ \A w : w \in Prefixes(v) <=> w \in Seq(Nat) /\ IsPrefix(w, v)
           /\ IsFiniteSet(Prefixes(v))
           /\ \A l \in 0 .. Len(v) : SubSeq(v, 1, l) \in Prefixes(v) /\ Len(SubSeq(v, 1, l)) = l
<1>1. Len(v) \in Nat
  OBVIOUS
<1>2. \A l \in 0 .. Len(v) : /\ SubSeq(v, 1, l) \in Seq(Nat) /\ Len(SubSeq(v, 1, l)) = l
                             /\ \A i \in 1 .. l : SubSeq(v, 1, l)[i] = v[i]
  <2>1. SUFFICES ASSUME NEW l \in 0 .. Len(v)
                 PROVE  /\ SubSeq(v, 1, l) \in Seq(Nat) /\ Len(SubSeq(v, 1, l)) = l
                        /\ \A i \in 1 .. l : SubSeq(v, 1, l)[i] = v[i]
    OBVIOUS
  <2>2. SubSeq(v, 1, l) = [i \in 1 .. l |-> v[i]]
    BY <1>1
  <2>3. \A i \in 1 .. l : v[i] \in Nat
    BY <1>1
  <2> QED BY <2>2, <2>3
<1>3. \A w \in Prefixes(v) : w \in Seq(Nat) /\ IsPrefix(w, v)
  <2>1. SUFFICES ASSUME NEW w \in Prefixes(v) PROVE w \in Seq(Nat) /\ IsPrefix(w, v)
    OBVIOUS
  <2>2. PICK l \in 0 .. Len(v) : w = SubSeq(v, 1, l)
    BY DEF Prefixes
  <2>3. w \in Seq(Nat) /\ Len(w) = l /\ \A i \in 1 .. l : w[i] = v[i]
    BY <1>2, <2>2
  <2> QED BY <1>1, <2>3, PrefixIs
<1>4. \A w \in Seq(Nat) : IsPrefix(w, v) => w \in Prefixes(v)
  <2>1. SUFFICES ASSUME NEW w \in Seq(Nat), IsPrefix(w, v) PROVE w \in Prefixes(v)
    OBVIOUS
  <2>2. Len(w) \in 0 .. Len(v) /\ \A i \in 1 .. Len(w) : w[i] = v[i]
    BY <1>1, <2>1, PrefixIs
  <2>3. SubSeq(v, 1, Len(w)) = [i \in 1 .. Len(w) |-> v[i]]
    BY <1>1, <2>2
  <2>4. w = SubSeq(v, 1, Len(w))
    BY <2>2, <2>3
  <2> QED BY <2>2, <2>4 DEF Prefixes
<1>5. IsFiniteSet(Prefixes(v))
  <2> DEFINE f == [l \in 0 .. Len(v) |-> SubSeq(v, 1, l)]
  <2>1. IsFiniteSet(0 .. Len(v))
    BY <1>1, FS_Interval
  <2>2. f = [l \in 0 .. Len(v) |-> f[l]] /\ Prefixes(v) = {f[l] : l \in 0 .. Len(v)}
    BY DEF Prefixes
  <2> HIDE DEF f
  <2> QED BY <2>1, <2>2, ImageFinite
<1>6. \A l \in 0 .. Len(v) : SubSeq(v, 1, l) \in Prefixes(v)
  BY DEF Prefixes
<1> QED
  BY <1>2, <1>3, <1>4, <1>5, <1>6

\* A finite table of paths.
Forest(path) == IsFiniteSet(DOMAIN path) /\ \A d \in DOMAIN path : path[d] \in Seq(Nat)

LEMMA NodesAre ==
    ASSUME NEW path, Forest(path)
    PROVE  /\ \A v : v \in Nodes(path) <=> v \in Seq(Nat) /\ v # NoPath /\ \E d \in DOMAIN path : IsPrefix(v, path[d])
           /\ IsFiniteSet(Nodes(path))
           /\ \A v \in Nodes(path) : v \in Seq(Nat) /\ Len(v) \in Nat /\ Len(v) >= 1
<1> DEFINE f == [d \in DOMAIN path |-> Prefixes(path[d])]
           R == {f[d] : d \in DOMAIN path}
<1>1. \A d \in DOMAIN path : IsFiniteSet(Prefixes(path[d]))
                                /\ \A w : w \in Prefixes(path[d]) <=> w \in Seq(Nat) /\ IsPrefix(w, path[d])
  BY PrefixesAre DEF Forest
<1>2. IsFiniteSet(R)
  <2>1. f = [d \in DOMAIN path |-> f[d]]
    OBVIOUS
  <2> HIDE DEF f
  <2> QED BY <2>1, ImageFinite DEF Forest
<1>3. \A T \in R : IsFiniteSet(T)
  BY <1>1
<1>4. IsFiniteSet(UNION R)
  <2> HIDE DEF R
  <2> QED BY <1>2, <1>3, FS_UNION
<1>5. Nodes(path) = (UNION R) \ {NoPath}
  BY DEF Nodes
<1>6. IsFiniteSet(Nodes(path))
  <2>1. PICK U : U = UNION R
    OBVIOUS
  <2>2. IsFiniteSet(U) /\ Nodes(path) = U \ {NoPath}
    BY <1>4, <1>5, <2>1
  <2> QED BY ONLY <2>2, FS_Difference
<1>7. \A v : v \in Nodes(path) <=> v # NoPath /\ \E d \in DOMAIN path : v \in Prefixes(path[d])
  BY DEF Nodes
<1>8. \A v : v \in Nodes(path) <=> v \in Seq(Nat) /\ v # NoPath /\ \E d \in DOMAIN path : IsPrefix(v, path[d])
  <2> HIDE DEF R, f
  <2> QED BY <1>1, <1>7
<1>9. \A v \in Seq(Nat) : v # NoPath => Len(v) \in Nat /\ Len(v) >= 1
  BY DEF NoPath
<1> QED
  BY <1>6, <1>8, <1>9

\* The nodes of a path at least one longer than v's are below a child of v.
LEMMA ChildrenAre ==
    ASSUME NEW path, Forest(path), NEW v \in Nodes(path)
    PROVE  /\ IsFiniteSet(Children(path, v))
           /\ \A w \in Children(path, v) :
                w \in Nodes(path) /\ w \in Seq(Nat) /\ Len(w) = Len(v) + 1 /\ IsPrefix(v, w)
           /\ \A d \in DOMAIN path : IsPrefix(v, path[d]) /\ path[d] # v =>
                \E w \in Children(path, v) : IsPrefix(w, path[d])
<1>1. /\ \A w : w \in Nodes(path) <=> w \in Seq(Nat) /\ w # NoPath /\ \E d \in DOMAIN path : IsPrefix(w, path[d])
      /\ IsFiniteSet(Nodes(path))
      /\ \A w \in Nodes(path) : w \in Seq(Nat) /\ Len(w) \in Nat /\ Len(w) >= 1
  BY NodesAre
<1>2. Children(path, v) \subseteq Nodes(path)
  BY DEF Children
<1>3. ASSUME NEW w \in Children(path, v)
      PROVE  w \in Nodes(path) /\ w \in Seq(Nat) /\ Len(w) = Len(v) + 1 /\ IsPrefix(v, w)
  <2>1. w \in Nodes(path) /\ w \in Seq(Nat) /\ Len(w) = Len(v) + 1 /\ Parent(w) = v
    BY <1>1 DEF Children
  <2>2. Len(w) # 0 /\ v \in Seq(Nat) /\ Len(v) \in Nat
    BY <1>1, <2>1
  <2>3. \A i \in 1 .. Len(v) : v[i] = w[i]
    BY <2>1, <2>2, ParentOf
  <2>4. Len(v) <= Len(w)
    BY <2>1, <2>2
  <2> QED BY <2>1, <2>2, <2>3, <2>4, PrefixIs
<1>4. ASSUME NEW d \in DOMAIN path, IsPrefix(v, path[d]), path[d] # v
      PROVE  \E w \in Children(path, v) : IsPrefix(w, path[d])
  <2> DEFINE p == path[d]
             w == SubSeq(p, 1, Len(v) + 1)
  <2>1. p \in Seq(Nat) /\ Len(p) \in Nat /\ v \in Seq(Nat) /\ Len(v) \in Nat
    BY <1>1 DEF Forest
  <2>2. Len(v) <= Len(p) /\ (\A i \in 1 .. Len(v) : v[i] = p[i]) /\ Len(v) # Len(p)
    <3>1. Len(v) <= Len(p) /\ \A i \in 1 .. Len(v) : v[i] = p[i]
      BY <1>4, <2>1, PrefixIs
    <3>2. Len(v) = Len(p) => v = p
      BY <2>1, <3>1
    <3> QED BY <1>4, <3>1, <3>2
  <2>3. Len(v) + 1 \in 0 .. Len(p)
    BY <2>1, <2>2
  <2>4. w \in Prefixes(p) /\ Len(w) = Len(v) + 1
    BY <2>1, <2>3, PrefixesAre
  <2> HIDE DEF w
  <2>5. w \in Seq(Nat) /\ IsPrefix(w, p)
    BY <2>1, <2>4, PrefixesAre
  <2>6. Len(w) # 0
    BY <2>1, <2>4
  <2>7. \A i \in 1 .. Len(w) : w[i] = p[i]
    BY <2>1, <2>5, PrefixIs
  <2>8. Parent(w) = v
    <3> HIDE DEF p
    <3>0. /\ Parent(w) \in Seq(Nat) /\ Len(Parent(w)) = Len(w) - 1
          /\ \A i \in 1 .. Len(w) - 1 : Parent(w)[i] = w[i]
      BY <2>5, <2>6, ParentOf
    <3>1. Parent(w) \in Seq(Nat) /\ Len(Parent(w)) = Len(v) /\ \A i \in 1 .. Len(v) : Parent(w)[i] = w[i]
      <4>1. Len(w) - 1 = Len(v)
        BY <2>1, <2>4
      <4> QED BY <3>0, <4>1
    <3>2. \A i \in 1 .. Len(v) : Parent(w)[i] = v[i]
      <4>1. SUFFICES ASSUME NEW i \in 1 .. Len(v) PROVE Parent(w)[i] = v[i]
        OBVIOUS
      <4>2. i \in 1 .. Len(w)
        BY <2>1, <2>4
      <4>3. w[i] = p[i] /\ v[i] = p[i] /\ Parent(w)[i] = w[i]
        BY <2>2, <2>7, <3>1, <4>2
      <4> QED BY <4>3
    <3> HIDE DEF w
    <3>3. PICK q : q = Parent(w)
      OBVIOUS
    <3>4. q \in Seq(Nat) /\ Len(q) = Len(v) /\ \A i \in 1 .. Len(v) : q[i] = v[i]
      BY <3>1, <3>2, <3>3
    <3>5. q = v
      <4>1. IsPrefix(q, v)
        BY <2>1, <3>4, PrefixIs
      <4> QED BY <2>1, <3>4, <4>1, PrefixOrder
    <3> QED BY <3>3, <3>5
  <2>9. w # NoPath
    BY <2>6 DEF NoPath
  <2>10. w \in Nodes(path)
    BY <1>1, <2>5, <2>9
  <2> QED BY <2>4, <2>5, <2>8, <2>10 DEF Children
<1>5. IsFiniteSet(Children(path, v))
  BY <1>1, <1>2, FS_Subset
<1> QED
  BY <1>3, <1>4, <1>5

-----------------------------------------------------------------------------
(* pciSubtreeCosts *)

\* The children that hold a device.
Kids(path, forced, free, v) == {w \in Children(path, v) : Below(path, forced \cup free, w) # {}}

\* The costs of a node from those of its children.
NodeCosts(path, K, forced, free, v, g) ==
    MergeChildren(OwnCosts(path, v, K, forced, free), Kids(path, forced, free, v), g, K)

CostStep(path, K, forced, free, g) == [v \in Nodes(path) |-> NodeCosts(path, K, forced, free, v, g)]

LEMMA CostsDef ==
    ASSUME NEW path, NEW root, NEW K, NEW forced, NEW free
    PROVE  pciSubtreeCosts(path, root, K, forced, free)
             = (CHOOSE g : g = CostStep(path, K, forced, free, g))[root]
BY DEF pciSubtreeCosts, CostStep, NodeCosts, Kids

\* The recursion over the forest is defined, from the leaves up.
LEMMA CostsDefined ==
    ASSUME NEW path, Forest(path), NEW K, NEW forced, NEW free
    PROVE  \E g : g = CostStep(path, K, forced, free, g)
<1> DEFINE N == Nodes(path)
           C(v, g) == NodeCosts(path, K, forced, free, v, g)
<1>1. IsFiniteSet(N) /\ \A v \in N : Len(v) \in Nat
  BY NodesAre
<1>2. \A v \in N : \A w \in Kids(path, forced, free, v) : w \in N /\ Len(w) = Len(v) + 1
  BY ChildrenAre DEF Kids
<1>3. ASSUME NEW v, NEW f, NEW g, \A w \in Kids(path, forced, free, v) : f[w] = g[w]
      PROVE  C(v, f) = C(v, g)
  BY <1>3, ChildrenOnly DEF NodeCosts
<1>4. PICK L \in Nat : \A v \in N : Len(v) < L
  <2> DEFINE f == [v \in N |-> Len(v)]
             R == {f[v] : v \in N}
  <2>1. IsFiniteSet(R) /\ R \subseteq Int
    <3>1. f = [v \in N |-> f[v]] /\ R \subseteq Int
      BY <1>1
    <3> HIDE DEF f, N
    <3> QED BY <1>1, <3>1, ImageFinite
  <2>2. CASE R = {}
    <3>1. N = {}
      BY <2>2
    <3> QED BY <3>1
  <2>3. CASE R # {}
    <3>1. Max(R) \in R /\ \A x \in R : x <= Max(R)
      <4> HIDE DEF R
      <4> QED BY <2>1, <2>3, MaxExists
    <3>2. Max(R) \in Nat
      BY <1>1, <3>1
    <3>3. \A v \in N : Len(v) \in R
      OBVIOUS
    <3>4. \A v \in N : Len(v) < Max(R) + 1
      <4> HIDE DEF R
      <4> QED BY <1>1, <3>1, <3>2, <3>3
    <3>5. Max(R) + 1 \in Nat
      BY <3>2
    <3> HIDE DEF R
    <3> QED BY <3>4, <3>5
  <2> QED BY <2>2, <2>3
<1> DEFINE Deep(n) == {v \in N : Len(v) >= L - n}
           Solves(n, g) == \A v \in Deep(n) : g[v] = C(v, g)
           B == {n \in Nat : ~\E g : Solves(n, g)}
<1> HIDE DEF N, C
<1>5. ASSUME B # {} PROVE FALSE
  <2>1. B \subseteq Nat
    OBVIOUS
  <2>2. PICK n \in B : \A m \in B : n <= m
    <3> HIDE DEF B
    <3> QED BY <1>5, <2>1, LeastNumber
  <2>3. CASE n = 0
    <3>1. Deep(0) = {}
      BY <1>1, <1>4
    <3>2. Solves(0, <<>>)
      BY <3>1
    <3> HIDE DEF Solves
    <3> QED BY <2>2, <2>3, <3>2
  <2>4. CASE n # 0
    <3>1. n \in Nat /\ n - 1 \in Nat /\ n - 1 \notin B
      <4> HIDE DEF B
      <4>1. n \in Nat
        BY <2>1
      <4> QED BY <2>2, <2>4, <4>1
    <3>2. PICK g : Solves(n - 1, g)
      BY <3>1
    <3> DEFINE h == [v \in N |-> IF Len(v) >= L - (n - 1) THEN g[v] ELSE C(v, g)]
    <3>3. ASSUME NEW v \in Deep(n) PROVE h[v] = C(v, h)
      <4>1. \A w \in Kids(path, forced, free, v) : h[w] = g[w]
        <5>1. SUFFICES ASSUME NEW w \in Kids(path, forced, free, v) PROVE h[w] = g[w]
          OBVIOUS
        <5>2. w \in N /\ Len(w) = Len(v) + 1 /\ v \in N /\ Len(v) >= L - n /\ Len(v) \in Nat
          BY <1>1, <1>2
        <5>3. Len(w) >= L - (n - 1)
          BY <1>4, <3>1, <5>2
        <5> QED BY <5>2, <5>3
      <4>2. C(v, h) = C(v, g)
        BY <1>3, <4>1
      <4>3. CASE Len(v) >= L - (n - 1)
        <5>1. v \in Deep(n - 1)
          BY <4>3
        <5>2. g[v] = C(v, g)
          BY <3>2, <5>1
        <5>3. h[v] = g[v]
          BY <4>3
        <5> QED BY <4>2, <5>2, <5>3
      <4>4. CASE ~(Len(v) >= L - (n - 1))
        <5>1. h[v] = C(v, g)
          BY <4>4
        <5> QED BY <4>2, <5>1
      <4> QED BY <4>3, <4>4
    <3>4. Solves(n, h)
      BY <3>3
    <3> HIDE DEF h, Solves
    <3> QED BY <2>2, <3>4
  <2> QED BY <2>3, <2>4
<1>6. PICK g : Solves(L, g)
  BY <1>4, <1>5
<1>7. \A v \in N : g[v] = C(v, g)
  <2>1. \A v \in N : v \in Deep(L)
    BY <1>1, <1>4
  <2> QED BY <1>6, <2>1
<1> DEFINE h == [v \in N |-> g[v]]
<1>8. ASSUME NEW v \in N PROVE h[v] = C(v, h)
  <2>1. \A w \in Kids(path, forced, free, v) : h[w] = g[w]
    BY <1>2
  <2>2. C(v, h) = C(v, g)
    BY <1>3, <2>1
  <2> QED BY <1>7, <2>2
<1>9. h = [v \in N |-> C(v, h)]
  <2>1. DOMAIN h = N /\ h = [v \in N |-> h[v]]
    OBVIOUS
  <2> HIDE DEF h
  <2> QED BY <1>8, <2>1
<1> HIDE DEF h
<1>10. h = CostStep(path, K, forced, free, h)
  BY <1>9 DEF CostStep, N, C
<1> QED
  BY <1>10

\* Among some nodes there is one that is deepest.
LEMMA Deepest ==
    ASSUME NEW path, Forest(path), NEW B, B \subseteq Nodes(path), B # {}
    PROVE  \E v \in B : \A w \in B : Len(w) <= Len(v)
<1> DEFINE f == [v \in B |-> Len(v)]
           R == {f[v] : v \in B}
<1>1. IsFiniteSet(B) /\ \A v \in B : Len(v) \in Nat
  <2>1. IsFiniteSet(Nodes(path)) /\ \A v \in Nodes(path) : Len(v) \in Nat
    BY NodesAre
  <2> QED BY <2>1, FS_Subset
<1>2. IsFiniteSet(R) /\ R \subseteq Int /\ R # {}
  <2>0. \A v \in B : f[v] \in R /\ f[v] \in Int
    BY <1>1
  <2>1. f = [v \in B |-> f[v]] /\ R \subseteq Int /\ R # {}
    BY <2>0
  <2> HIDE DEF f
  <2> QED BY <1>1, <2>1, ImageFinite
<1>3. Max(R) \in R /\ \A x \in R : x <= Max(R)
  <2> HIDE DEF R
  <2> QED BY <1>2, MaxExists
<1>4. PICK v \in B : Len(v) = Max(R)
  BY <1>3
<1>5. \A w \in B : Len(w) \in R
  OBVIOUS
<1> HIDE DEF R
<1> QED
  BY <1>3, <1>4, <1>5

\* The most devices a node's costs speak of.
Limit(path, K, forced, free, v) == Min({Cardinality(Below(path, forced \cup free, v)), K})

LEMMA LimitIs ==
    ASSUME NEW path, Forest(path), NEW K \in Nat,
           NEW forced \in SUBSET DOMAIN path, NEW free \in SUBSET DOMAIN path, NEW v
    PROVE  LET l == Limit(path, K, forced, free, v)
               c == Cardinality(Below(path, forced \cup free, v))
           IN  /\ l \in Nat /\ c \in Nat /\ l <= K /\ l <= c
               /\ \A n \in Nat : n <= K /\ n <= c => n <= l
               /\ IsFiniteSet(Below(path, forced \cup free, v))
<1>1. IsFiniteSet(Below(path, forced \cup free, v))
  <2>1. Below(path, forced \cup free, v) \in SUBSET DOMAIN path
    BY DEF Below
  <2> QED BY <2>1, FS_Subset DEF Forest
<1>2. Cardinality(Below(path, forced \cup free, v)) \in Nat
  BY <1>1, FS_CardinalityType
<1> QED
  BY <1>1, <1>2, MinOfTwo DEF Limit

LEMMA OwnCostsType ==
    ASSUME NEW path, NEW K, NEW forced, NEW free, NEW v
    PROVE  OwnCosts(path, v, K, forced, free) \in [0 .. Limit(path, K, forced, free, v) -> Nat]
BY CostAssumption DEF OwnCosts, Limit

\* The costs of a node are numbers, for every number of devices up to its limit.
LEMMA CostsType ==
    ASSUME NEW path, Forest(path), NEW K \in Nat,
           NEW forced \in SUBSET DOMAIN path, NEW free \in SUBSET DOMAIN path,
           NEW g, g = CostStep(path, K, forced, free, g)
    PROVE  \A v \in Nodes(path) : g[v] \in [0 .. Limit(path, K, forced, free, v) -> Nat]
<1> DEFINE l(v) == Limit(path, K, forced, free, v)
           B == {v \in Nodes(path) : g[v] \notin [0 .. l(v) -> Nat]}
<1>1. SUFFICES ASSUME B # {} PROVE FALSE
  OBVIOUS
<1>2. PICK v \in B : \A w \in B : Len(w) <= Len(v)
  <2>1. B \subseteq Nodes(path)
    OBVIOUS
  <2> HIDE DEF B
  <2> QED BY <1>1, <2>1, Deepest
<1> DEFINE T == Kids(path, forced, free, v)
           own == OwnCosts(path, v, K, forced, free)
           A == [0 .. l(v) -> Nat]
<1>3. v \in Nodes(path) /\ Len(v) \in Nat
  BY NodesAre
<1>4. IsFiniteSet(T) /\ \A w \in T : w \in Nodes(path) /\ Len(w) = Len(v) + 1
  <2>1. T \in SUBSET Children(path, v)
    BY DEF Kids
  <2>2. IsFiniteSet(Children(path, v)) /\ \A w \in Children(path, v) : w \in Nodes(path) /\ Len(w) = Len(v) + 1
    BY <1>3, ChildrenAre
  <2> HIDE DEF T
  <2> QED BY <2>1, <2>2, FS_Subset
<1>5. ASSUME NEW w \in T PROVE g[w] \in [0 .. l(w) -> Nat]
  <2>1. w \in Nodes(path) /\ ~(Len(w) <= Len(v))
    BY <1>3, <1>4
  <2>2. w \notin B
    BY <1>2, <2>1
  <2> QED BY <2>1, <2>2
<1>6. own \in A
  BY OwnCostsType
<1>7. ASSUME NEW w \in T, NEW c \in A PROVE MergeChild(c, g[w], K) \in A
  <2>1. l(v) \in Nat /\ l(w) \in Nat /\ l(w) <= K
    BY LimitIs
  <2>2. g[w] \in [0 .. l(w) -> Nat] /\ c \in [0 .. l(v) -> Nat]
    BY <1>5
  <2> HIDE DEF l
  <2> QED BY <2>1, <2>2, MergeChildIs
<1>8. g[v] = MergeChildren(own, T, g, K)
  BY <1>3 DEF CostStep, NodeCosts
<1>9. MergeChildren(own, T, g, K) \in A
  <2> HIDE DEF own, T, A
  <2>1. \A w \in T : \A c \in A : MergeChild(c, g[w], K) \in A
    BY <1>7
  <2>2. PICK h : MergeChildren(own, T, g, K) = h[T] /\ IsMerge(T, A, own, g, K, h)
    BY ONLY <1>4, <1>6, <2>1, ChildrenFold
  <2> QED BY <2>2 DEF IsMerge
<1> QED
  BY <1>2, <1>8, <1>9

-----------------------------------------------------------------------------
(***************************************************************************)
(* The distances between the devices of Q, taken apart: w splits d from e  *)
(* if it is above d and not above e.                                       *)
(***************************************************************************)
Splits(path, Q, W) ==
    {x \in W \X (Q \X Q) : IsPrefix(x[1], path[x[2][1]]) /\ ~IsPrefix(x[1], path[x[2][2]])}

LEMMA SplitsFinite ==
    ASSUME NEW path, NEW Q, IsFiniteSet(Q), NEW W, IsFiniteSet(W)
    PROVE  IsFiniteSet(Splits(path, Q, W)) /\ Cardinality(Splits(path, Q, W)) \in Nat
<1>1. IsFiniteSet(W \X (Q \X Q))
  BY FS_Product
<1>2. Splits(path, Q, W) \in SUBSET (W \X (Q \X Q))
  BY DEF Splits
<1>3. PICK X : X = W \X (Q \X Q)
  OBVIOUS
<1>4. IsFiniteSet(X) /\ Splits(path, Q, W) \in SUBSET X
  BY <1>1, <1>2, <1>3
<1>5. IsFiniteSet(Splits(path, Q, W))
  BY ONLY <1>4, FS_Subset
<1> QED
  BY <1>5, FS_CardinalityType

LEMMA SplitsUnion ==
    ASSUME NEW path, NEW Q, IsFiniteSet(Q), NEW V, IsFiniteSet(V), NEW W, IsFiniteSet(W), V \cap W = {}
    PROVE  Cardinality(Splits(path, Q, V \cup W)) = Cardinality(Splits(path, Q, V)) + Cardinality(Splits(path, Q, W))
<1>1. IsFiniteSet(Splits(path, Q, V)) /\ IsFiniteSet(Splits(path, Q, W))
  BY SplitsFinite
<1>2. Splits(path, Q, V \cup W) = Splits(path, Q, V) \cup Splits(path, Q, W)
  BY DEF Splits
<1>3. Splits(path, Q, V) \cap Splits(path, Q, W) = {}
  BY DEF Splits
<1> QED
  BY <1>1, <1>2, <1>3, DisjointUnion

LEMMA SplitsMonotone ==
    ASSUME NEW path, NEW Q, IsFiniteSet(Q), NEW W, IsFiniteSet(W), NEW V \in SUBSET W
    PROVE  Cardinality(Splits(path, Q, V)) <= Cardinality(Splits(path, Q, W))
<1>1. Splits(path, Q, V) \in SUBSET Splits(path, Q, W)
  BY DEF Splits
<1> QED
  BY <1>1, SplitsFinite, FS_Subset

\* The edge above w lies on as many paths as there are pairs of a device below w
\* and one elsewhere.
LEMMA SplitsOf ==
    ASSUME NEW path, NEW Q, IsFiniteSet(Q), NEW w
    PROVE  LET c == Cardinality(Below(path, Q, w))
           IN  c \in Nat /\ c <= Cardinality(Q)
                 /\ Cardinality(Splits(path, Q, {w})) = c * (Cardinality(Q) - c)
<1> DEFINE D == Below(path, Q, w)
           E == Q \ D
           X == {w} \X (D \X E)
<1>1. D \in SUBSET Q
  BY DEF Below
<1>2. IsFiniteSet(D) /\ Cardinality(D) \in Nat /\ Cardinality(D) <= Cardinality(Q) /\ Cardinality(Q) \in Nat
  BY <1>1, FS_Subset, FS_CardinalityType
<1>3. IsFiniteSet(E) /\ Cardinality(E) = Cardinality(Q) - Cardinality(D)
  <2>1. Q \cap D = D
    BY <1>1
  <2> HIDE DEF D
  <2> QED BY <2>1, FS_Difference
<1>4. IsFiniteSet({w}) /\ Cardinality({w}) = 1
  BY FS_Singleton
<1>5. Cardinality(X) = 1 * (Cardinality(D) * Cardinality(E))
  <2> HIDE DEF D, E
  <2>1. PICK P : P = D \X E
    OBVIOUS
  <2>2. IsFiniteSet(P) /\ Cardinality(P) = Cardinality(D) * Cardinality(E)
    BY <1>2, <1>3, <2>1, FS_Product
  <2>3. Cardinality({w} \X P) = Cardinality({w}) * Cardinality(P)
    BY ONLY <1>4, <2>2, FS_Product
  <2> QED BY <1>4, <2>1, <2>2, <2>3
<1>6. Splits(path, Q, {w}) = X
  BY DEF Splits, Below
<1>7. \A x, y \in Int : 1 * (x * y) = x * y
  OBVIOUS
<1> HIDE DEF D, E, X
<1>8. Cardinality(E) \in Int
  BY <1>2, <1>3
<1>9. Cardinality(X) = Cardinality(D) * Cardinality(E)
  BY <1>2, <1>5, <1>7, <1>8
<1> QED
  BY <1>2, <1>3, <1>6, <1>9 DEF D

-----------------------------------------------------------------------------
(* No placement below a root costs less than pciSubtreeCosts says *)

\* Q are K devices that may be placed below root: all that are forced there, and
\* free ones; their distances are not out of range.
Placed(path, root, K, forced, free, Q) ==
    /\ Forest(path) /\ K \in Nat
    /\ forced \in SUBSET DOMAIN path /\ free \in SUBSET DOMAIN path
    /\ root \in Nodes(path)
    /\ Q \in SUBSET (forced \cup free) /\ Cardinality(Q) = K
    /\ \A d \in forced : IsPrefix(root, path[d]) => d \in Q
    /\ Cardinality(Splits(path, Q, Nodes(path))) < impossiblePCICost

Count(path, Q, v) == Cardinality(Below(path, Q, v))

\* The nodes below v; those below or among T.
Beneath(path, v) == {u \in Nodes(path) : IsPrefix(v, u) /\ u # v}
Covered(path, T) == {u \in Nodes(path) : \E w \in T : IsPrefix(w, u)}

\* The devices of Q at v and below some of its children.
Here(path, Q, v, U) == At(path, Q, v) \cup {d \in Q : \E w \in U : IsPrefix(w, path[d])}

LEMMA PlacedFacts ==
    ASSUME NEW path, NEW root, NEW K, NEW forced, NEW free, NEW Q, Placed(path, root, K, forced, free, Q)
    PROVE  /\ IsFiniteSet(Q) /\ Q \subseteq DOMAIN path /\ K \in Nat
           /\ \A d \in Q : path[d] \in Seq(Nat)
           /\ \A v : Count(path, Q, v) \in Nat /\ Count(path, Q, v) <= Limit(path, K, forced, free, v)
           /\ \A W \in SUBSET Nodes(path) :
                /\ IsFiniteSet(W)
                /\ Cardinality(Splits(path, Q, W)) \in Nat
                /\ Cardinality(Splits(path, Q, W)) < impossiblePCICost
<1>1. /\ Forest(path) /\ K \in Nat
      /\ forced \in SUBSET DOMAIN path /\ free \in SUBSET DOMAIN path
      /\ Q \in SUBSET (forced \cup free) /\ Cardinality(Q) = K
      /\ Cardinality(Splits(path, Q, Nodes(path))) < impossiblePCICost
  BY DEF Placed
<1>2. Q \subseteq DOMAIN path /\ IsFiniteSet(Q) /\ IsFiniteSet(Nodes(path))
  <2>1. Q \in SUBSET DOMAIN path
    BY <1>1
  <2>2. IsFiniteSet(Q)
    BY <1>1, <2>1, FS_Subset DEF Forest
  <2> QED BY <1>1, <2>1, <2>2, NodesAre
<1>3. \A d \in Q : path[d] \in Seq(Nat)
  BY <1>1, <1>2 DEF Forest
<1>4. ASSUME NEW v
      PROVE  Count(path, Q, v) \in Nat /\ Count(path, Q, v) <= Limit(path, K, forced, free, v)
  <2>1. Below(path, Q, v) \in SUBSET Q /\ Below(path, Q, v) \in SUBSET Below(path, forced \cup free, v)
    BY <1>1 DEF Below
  <2>2. IsFiniteSet(Below(path, forced \cup free, v))
    BY <1>1, LimitIs
  <2>3. Count(path, Q, v) \in Nat /\ Count(path, Q, v) <= K
    BY <1>1, <1>2, <2>1, FS_Subset, FS_CardinalityType DEF Count
  <2>4. Count(path, Q, v) <= Cardinality(Below(path, forced \cup free, v))
    BY <2>1, <2>2, FS_Subset DEF Count
  <2> QED BY <1>1, <2>3, <2>4, LimitIs
<1>5. ASSUME NEW W \in SUBSET Nodes(path)
      PROVE  /\ IsFiniteSet(W)
             /\ Cardinality(Splits(path, Q, W)) \in Nat
             /\ Cardinality(Splits(path, Q, W)) < impossiblePCICost
  <2>1. IsFiniteSet(W)
    BY <1>2, FS_Subset
  <2>2. Cardinality(Splits(path, Q, W)) \in Nat /\ Cardinality(Splits(path, Q, Nodes(path))) \in Nat
    BY <1>2, <2>1, SplitsFinite
  <2>3. Cardinality(Splits(path, Q, W)) <= Cardinality(Splits(path, Q, Nodes(path)))
    BY <1>2, SplitsMonotone
  <2> QED BY <1>1, <2>1, <2>2, <2>3, CostAssumption
<1> QED
  BY <1>1, <1>2, <1>3, <1>4, <1>5

\* One more child: what it holds was not counted before.
LEMMA OneMoreChild ==
    ASSUME NEW path, NEW root, NEW K, NEW forced, NEW free, NEW Q, Placed(path, root, K, forced, free, Q),
           NEW v \in Nodes(path), NEW U \in SUBSET Children(path, v), NEW w \in U
    PROVE  LET V == U \ {w}
           IN  /\ Cardinality(Here(path, Q, v, V)) \in Nat
               /\ Cardinality(Here(path, Q, v, U)) = Cardinality(Here(path, Q, v, V)) + Count(path, Q, w)
               /\ Cardinality(Here(path, Q, v, U)) <= Count(path, Q, v)
               /\ Cardinality(Splits(path, Q, Covered(path, U))) =
                     Cardinality(Splits(path, Q, Covered(path, V)))
                       + Count(path, Q, w) * (K - Count(path, Q, w))
                       + Cardinality(Splits(path, Q, Beneath(path, w)))
<1> DEFINE V == U \ {w}
<1>1. /\ IsFiniteSet(Q) /\ K \in Nat /\ \A d \in Q : path[d] \in Seq(Nat)
      /\ \A W \in SUBSET Nodes(path) : IsFiniteSet(W) /\ Cardinality(Splits(path, Q, W)) \in Nat
      /\ Forest(path) /\ Cardinality(Q) = K
  BY PlacedFacts DEF Placed
<1>2. \A u \in Nodes(path) : u \in Seq(Nat) /\ Len(u) \in Nat
  BY <1>1, NodesAre
<1>3. \A u \in Children(path, v) : u \in Nodes(path) /\ u \in Seq(Nat) /\ Len(u) = Len(v) + 1 /\ IsPrefix(v, u)
  BY <1>1, ChildrenAre
\* Two children have nothing below both.
<1>4. ASSUME NEW u \in Children(path, v), NEW x \in Children(path, v), NEW q \in Seq(Nat),
             IsPrefix(u, q), IsPrefix(x, q)
      PROVE  u = x
  <2>1. Len(u) = Len(x) /\ u \in Seq(Nat) /\ x \in Seq(Nat) /\ Len(u) <= Len(x)
    BY <1>2, <1>3
  <2>2. IsPrefix(u, x)
    BY <1>4, <2>1, PrefixOrder
  <2> QED BY <2>1, <2>2, PrefixOrder
<1>5. ASSUME NEW u \in Children(path, v) PROVE ~IsPrefix(u, v)
  <2>1. Len(u) = Len(v) + 1 /\ u \in Seq(Nat) /\ v \in Seq(Nat) /\ Len(v) \in Nat
    BY <1>2, <1>3
  <2>2. ~(Len(u) <= Len(v))
    BY <2>1
  <2> QED BY <2>1, <2>2, PrefixIs
<1>6. /\ Here(path, Q, v, U) = Here(path, Q, v, V) \cup Below(path, Q, w)
      /\ Here(path, Q, v, V) \cap Below(path, Q, w) = {}
      /\ Here(path, Q, v, V) \in SUBSET Q /\ Below(path, Q, w) \in SUBSET Q
      /\ Here(path, Q, v, U) \in SUBSET Below(path, Q, v)
  <2>1. Here(path, Q, v, U) = Here(path, Q, v, V) \cup Below(path, Q, w)
    BY DEF Here, Below
  <2>2. Here(path, Q, v, V) \in SUBSET Q /\ Below(path, Q, w) \in SUBSET Q
    BY DEF Here, Below, At
  <2>3. ASSUME NEW d \in Here(path, Q, v, V), IsPrefix(w, path[d]) PROVE FALSE
    <3>1. d \in Q /\ path[d] \in Seq(Nat)
      BY <1>1, <2>2
    <3>2. CASE path[d] = v
      BY <1>5, <2>3, <3>2
    <3>3. CASE path[d] # v
      <4>1. PICK u \in V : IsPrefix(u, path[d])
        BY <3>3 DEF Here, At
      <4>2. u = w
        BY <1>4, <2>3, <3>1, <4>1
      <4> QED BY <4>1, <4>2
    <3> QED BY <3>2, <3>3
  <2>4. Here(path, Q, v, V) \cap Below(path, Q, w) = {}
    BY <2>3 DEF Below
  <2>5. ASSUME NEW d \in Here(path, Q, v, U) PROVE d \in Below(path, Q, v)
    <3>1. d \in Q /\ path[d] \in Seq(Nat) /\ v \in Seq(Nat)
      BY <1>1, <1>2, <2>1, <2>2
    <3>2. CASE path[d] = v
      BY <3>1, <3>2, PrefixOrder DEF Below
    <3>3. CASE path[d] # v
      <4>1. PICK u \in U : IsPrefix(u, path[d])
        BY <3>3 DEF Here, At
      <4>2. u \in Seq(Nat) /\ IsPrefix(v, u)
        BY <1>3
      <4>3. IsPrefix(v, path[d])
        BY <3>1, <4>1, <4>2, PrefixOrder
      <4> QED BY <3>1, <4>3 DEF Below
    <3> QED BY <3>2, <3>3
  <2> QED BY <2>1, <2>2, <2>4, <2>5
<1>7. /\ Cardinality(Here(path, Q, v, V)) \in Nat
      /\ Cardinality(Here(path, Q, v, U)) = Cardinality(Here(path, Q, v, V)) + Count(path, Q, w)
      /\ Cardinality(Here(path, Q, v, U)) <= Count(path, Q, v)
  <2>1. IsFiniteSet(Here(path, Q, v, V)) /\ IsFiniteSet(Below(path, Q, w))
    BY <1>1, <1>6, FS_Subset
  <2>2. Below(path, Q, v) \in SUBSET Q
    BY DEF Below
  <2>3. IsFiniteSet(Below(path, Q, v))
    BY <1>1, <2>2, FS_Subset
  <2>4. Cardinality(Here(path, Q, v, U)) <= Count(path, Q, v)
    BY <1>6, <2>3, FS_Subset DEF Count
  <2>5. Cardinality(Here(path, Q, v, U)) = Cardinality(Here(path, Q, v, V)) + Count(path, Q, w)
    BY <1>6, <2>1, DisjointUnion DEF Count
  <2> QED BY <2>1, <2>4, <2>5, FS_CardinalityType
<1> DEFINE CV == Covered(path, V)
           W == {w} \cup Beneath(path, w)
<1>8. /\ Covered(path, U) = CV \cup W
      /\ CV \cap W = {} /\ {w} \cap Beneath(path, w) = {}
      /\ CV \in SUBSET Nodes(path) /\ W \in SUBSET Nodes(path) /\ {w} \in SUBSET Nodes(path)
      /\ Beneath(path, w) \in SUBSET Nodes(path)
  <2>1. w \in Nodes(path) /\ w \in Seq(Nat) /\ w \in Children(path, v)
    BY <1>3
  <2>2. IsPrefix(w, w)
    BY <2>1, PrefixOrder
  <2>3. W = {u \in Nodes(path) : IsPrefix(w, u)}
    BY <2>1, <2>2 DEF Beneath
  <2>4. ASSUME NEW u \in CV, u \in W PROVE FALSE
    <3>1. u \in Seq(Nat) /\ IsPrefix(w, u)
      BY <1>2, <2>3, <2>4
    <3>2. PICK x \in V : IsPrefix(x, u)
      BY DEF Covered
    <3>3. x = w
      BY <1>4, <2>1, <3>1, <3>2
    <3> QED BY <3>2, <3>3
  <2>5. Covered(path, U) = CV \cup W
    <3> HIDE DEF W
    <3> QED BY <2>3 DEF Covered
  <2>6. CV \cap W = {}
    <3> HIDE DEF CV, W
    <3> QED BY <2>4
  <2> QED BY <2>1, <2>5, <2>6 DEF Covered, Beneath
<1>9. Cardinality(Splits(path, Q, Covered(path, U))) = Cardinality(Splits(path, Q, CV)) + Cardinality(Splits(path, Q, W))
  <2> HIDE DEF CV, W
  <2> QED BY <1>1, <1>8, SplitsUnion
<1>10. Cardinality(Splits(path, Q, W)) = Cardinality(Splits(path, Q, {w})) + Cardinality(Splits(path, Q, Beneath(path, w)))
  BY <1>1, <1>8, SplitsUnion
<1>11. Cardinality(Splits(path, Q, {w})) = Count(path, Q, w) * (K - Count(path, Q, w))
  BY <1>1, SplitsOf DEF Count
<1>12. /\ Cardinality(Splits(path, Q, CV)) \in Nat /\ Cardinality(Splits(path, Q, {w})) \in Nat
       /\ Cardinality(Splits(path, Q, Beneath(path, w))) \in Nat
  <2> HIDE DEF CV, W
  <2> QED BY <1>1, <1>8
<1> HIDE DEF CV, W
<1>13. \A x, y, z \in Nat : x + (y + z) = x + y + z
  OBVIOUS
<1>14. Cardinality(Splits(path, Q, Covered(path, U))) =
         Cardinality(Splits(path, Q, CV)) + Cardinality(Splits(path, Q, {w}))
           + Cardinality(Splits(path, Q, Beneath(path, w)))
  BY ONLY <1>9, <1>10, <1>12, <1>13
<1> QED
  BY <1>7, <1>11, <1>14 DEF CV

-----------------------------------------------------------------------------
(* No placement below a root costs less than pciSubtreeCosts says *)

\* The devices at v itself cost nothing.
LEMMA OwnCostsNothing ==
    ASSUME NEW path, NEW root, NEW K, NEW forced, NEW free, NEW Q, Placed(path, root, K, forced, free, Q),
           NEW v \in Nodes(path), IsPrefix(root, v)
    PROVE  /\ Cardinality(At(path, Q, v)) \in 0 .. Limit(path, K, forced, free, v)
           /\ OwnCosts(path, v, K, forced, free)[Cardinality(At(path, Q, v))] = 0
<1>1. /\ Forest(path) /\ K \in Nat
      /\ forced \in SUBSET DOMAIN path /\ free \in SUBSET DOMAIN path
      /\ Q \in SUBSET (forced \cup free)
      /\ \A d \in forced : IsPrefix(root, path[d]) => d \in Q
  BY DEF Placed
<1>2. /\ IsFiniteSet(Q) /\ Count(path, Q, v) \in Nat /\ Count(path, Q, v) <= Limit(path, K, forced, free, v)
      /\ v \in Seq(Nat) /\ Limit(path, K, forced, free, v) \in Nat
  BY <1>1, PlacedFacts, NodesAre, LimitIs
<1> DEFINE F == At(path, forced, v)
           R == At(path, free, v)
           S == At(path, Q, v)
<1>3. F \in SUBSET S /\ S \in SUBSET (F \cup R) /\ S \in SUBSET Below(path, Q, v) /\ Below(path, Q, v) \in SUBSET Q
  <2>1. IsPrefix(v, v)
    BY <1>2, PrefixOrder
  <2> QED BY <1>1, <2>1 DEF At, Below
<1>4. F \in SUBSET DOMAIN path /\ R \in SUBSET DOMAIN path
  BY <1>1 DEF At
<1> HIDE DEF F, R, S
<1>5. IsFiniteSet(F) /\ IsFiniteSet(R) /\ IsFiniteSet(S) /\ IsFiniteSet(Below(path, Q, v))
  BY <1>1, <1>2, <1>3, <1>4, FS_Subset DEF Forest
<1>6. Cardinality(F) \in Nat /\ Cardinality(R) \in Nat /\ Cardinality(S) \in Nat
  BY <1>5, FS_CardinalityType
<1>7. Cardinality(F) <= Cardinality(S)
  BY <1>3, <1>5, FS_Subset
<1>8. Cardinality(S) <= Cardinality(F) + Cardinality(R)
  <2>1. IsFiniteSet(F \cup R) /\ Cardinality(F \cup R) = Cardinality(F) + Cardinality(R) - Cardinality(F \cap R)
    BY <1>5, FS_Union
  <2>2. Cardinality(F \cap R) \in Nat
    BY <1>5, FS_Intersection, FS_CardinalityType
  <2>3. PICK U : U = F \cup R
    OBVIOUS
  <2>4. IsFiniteSet(U) /\ S \in SUBSET U
    BY <1>3, <2>1, <2>3
  <2>5. Cardinality(S) <= Cardinality(U)
    BY ONLY <2>4, FS_Subset
  <2>6. \A x, y, z, n \in Nat : n <= x + y - z => n <= x + y
    OBVIOUS
  <2> QED BY <1>6, <2>1, <2>2, <2>3, <2>5, <2>6
<1>9. Cardinality(S) <= Count(path, Q, v)
  BY <1>3, <1>5, FS_Subset DEF Count
<1>10. Cardinality(S) \in 0 .. Limit(path, K, forced, free, v)
  BY <1>2, <1>6, <1>9
<1>11. Cardinality(S) \in Cardinality(F) .. Cardinality(F) + Cardinality(R)
  BY <1>6, <1>7, <1>8
<1> QED
  BY <1>10, <1>11 DEF OwnCosts, Limit, F, R, S

\* The costs of a node are at most the number of splits below it, if those of
\* its children are.
LEMMA NodeBound ==
    ASSUME NEW path, NEW root, NEW K, NEW forced, NEW free, NEW Q, Placed(path, root, K, forced, free, Q),
           NEW g, g = CostStep(path, K, forced, free, g),
           NEW v \in Nodes(path), IsPrefix(root, v),
           \A w \in Kids(path, forced, free, v) :
               g[w][Count(path, Q, w)] <= Cardinality(Splits(path, Q, Beneath(path, w)))
    PROVE  g[v][Count(path, Q, v)] <= Cardinality(Splits(path, Q, Beneath(path, v)))
<1> DEFINE T == Kids(path, forced, free, v)
           own == OwnCosts(path, v, K, forced, free)
           l(u) == Limit(path, K, forced, free, u)
           A == [0 .. l(v) -> Nat]
           H(U) == Cardinality(Here(path, Q, v, U))
           P(W) == Cardinality(Splits(path, Q, W))
           C(u) == Count(path, Q, u)
<1>1. /\ Forest(path) /\ K \in Nat
      /\ forced \in SUBSET DOMAIN path /\ free \in SUBSET DOMAIN path
      /\ Q \in SUBSET (forced \cup free)
  BY DEF Placed
<1>2. /\ IsFiniteSet(Q) /\ Q \subseteq DOMAIN path
      /\ \A d \in Q : path[d] \in Seq(Nat)
      /\ \A u : C(u) \in Nat /\ C(u) <= l(u)
      /\ \A W \in SUBSET Nodes(path) : IsFiniteSet(W) /\ P(W) \in Nat /\ P(W) < impossiblePCICost
  BY PlacedFacts
<1>3. \A u : l(u) \in Nat /\ l(u) <= K
  BY <1>1, LimitIs
<1>4. /\ IsFiniteSet(T) /\ T \in SUBSET Children(path, v)
      /\ \A w \in T : w \in Nodes(path) /\ w \in Seq(Nat) /\ Len(w) = Len(v) + 1 /\ IsPrefix(v, w)
      /\ \A d \in Q : IsPrefix(v, path[d]) /\ path[d] # v => \E w \in T : IsPrefix(w, path[d])
  <2>1. T \in SUBSET Children(path, v)
    BY DEF Kids
  <2>2. /\ IsFiniteSet(Children(path, v))
        /\ \A w \in Children(path, v) : w \in Nodes(path) /\ w \in Seq(Nat) /\ Len(w) = Len(v) + 1 /\ IsPrefix(v, w)
        /\ \A d \in DOMAIN path : IsPrefix(v, path[d]) /\ path[d] # v =>
                \E w \in Children(path, v) : IsPrefix(w, path[d])
    BY <1>1, ChildrenAre
  <2>3. ASSUME NEW d \in Q, IsPrefix(v, path[d]), path[d] # v
        PROVE  \E w \in T : IsPrefix(w, path[d])
    <3>1. PICK w \in Children(path, v) : IsPrefix(w, path[d])
      BY <1>2, <2>2, <2>3
    <3>2. d \in Below(path, forced \cup free, w)
      BY <1>1, <3>1 DEF Below
    <3> QED BY <3>1, <3>2 DEF Kids
  <2>4. IsFiniteSet(T)
    <3> HIDE DEF T
    <3> QED BY <2>1, <2>2, FS_Subset
  <2> HIDE DEF T
  <2> QED BY <2>1, <2>2, <2>3, <2>4
<1>5. \A u \in Nodes(path) : g[u] \in [0 .. l(u) -> Nat]
  BY <1>1, CostsType
<1>6. own \in A
  BY OwnCostsType
<1>7. ASSUME NEW w \in T, NEW c \in A PROVE MergeChild(c, g[w], K) \in A
  <2>1. l(v) \in Nat /\ l(w) \in Nat /\ l(w) <= K
    BY <1>3
  <2>2. g[w] \in [0 .. l(w) -> Nat] /\ c \in [0 .. l(v) -> Nat]
    BY <1>4, <1>5
  <2> HIDE DEF l
  <2> QED BY <1>1, <2>1, <2>2, MergeChildIs
<1>8. g[v] = MergeChildren(own, T, g, K)
  BY DEF CostStep, NodeCosts
<1>9. PICK h : MergeChildren(own, T, g, K) = h[T] /\ IsMerge(T, A, own, g, K, h)
  <2> HIDE DEF own, T, A
  <2>1. \A w \in T : \A c \in A : MergeChild(c, g[w], K) \in A
    BY <1>7
  <2> QED BY ONLY <1>4, <1>6, <2>1, ChildrenFold
<1> DEFINE Bad == {U \in SUBSET T : ~(h[U][H(U)] <= P(Covered(path, U)))}
<1>10. Bad = {}
  <2>1. SUFFICES ASSUME Bad # {} PROVE FALSE
    OBVIOUS
  <2>2. Bad \subseteq SUBSET T
    OBVIOUS
  <2>3. PICK U \in Bad : \A V \in Bad : V \subseteq U => V = U
    <3> HIDE DEF Bad, T
    <3> QED BY ONLY <1>4, <2>1, <2>2, MinimalSet
  <2>4. CASE U = {}
    <3>1. Here(path, Q, v, {}) = At(path, Q, v)
      BY DEF Here
    <3>2. own[H({})] = 0
      BY <3>1, OwnCostsNothing
    <3>3. Covered(path, {}) \in SUBSET Nodes(path)
      BY DEF Covered
    <3>4. P(Covered(path, {})) \in Nat
      <4> HIDE DEF P
      <4> QED BY <1>2, <3>3
    <3>5. h[{}] = own
      BY <1>9 DEF IsMerge
    <3>6. h[U][H(U)] <= P(Covered(path, U))
      <4> HIDE DEF own, H, P
      <4> QED BY <2>4, <3>2, <3>4, <3>5
    <3> QED BY <3>6
  <2>5. CASE U # {}
    <3>1. PICK w \in U : h[U] = MergeChild(h[U \ {w}], g[w], K)
      <4> HIDE DEF Bad
      <4> QED BY <1>9, <2>2, <2>5 DEF IsMerge
    <3> DEFINE V == U \ {w}
    <3>2. w \in T /\ U \in SUBSET T /\ V \in SUBSET T /\ U \in SUBSET Children(path, v) /\ w \in Nodes(path)
      <4> HIDE DEF T
      <4> QED BY <1>4
    <3>3. /\ H(V) \in Nat
          /\ H(U) = H(V) + C(w)
          /\ H(U) <= C(v)
          /\ P(Covered(path, U)) = P(Covered(path, V)) + C(w) * (K - C(w)) + P(Beneath(path, w))
      BY <3>2, OneMoreChild
    <3>4. h[V][H(V)] <= P(Covered(path, V))
      <4>1. V \notin Bad
        <5> HIDE DEF Bad
        <5> QED BY <2>3
      <4> HIDE DEF H, P
      <4> QED BY <3>2, <4>1
    <3>5. /\ P(Covered(path, V)) \in Nat /\ P(Covered(path, V)) < impossiblePCICost
          /\ P(Beneath(path, w)) \in Nat /\ P(Beneath(path, w)) < impossiblePCICost
      <4>1. Covered(path, V) \in SUBSET Nodes(path) /\ Beneath(path, w) \in SUBSET Nodes(path)
        BY DEF Covered, Beneath
      <4> HIDE DEF P, V
      <4> QED BY <1>2, <4>1
    <3>6. g[w][C(w)] <= P(Beneath(path, w))
      BY <3>2
    <3>7. /\ l(v) \in Nat /\ l(w) \in Nat /\ l(w) <= K /\ g[w] \in [0 .. l(w) -> Nat]
          /\ h[V] \in [0 .. l(v) -> Nat]
          /\ C(w) \in Nat /\ C(w) <= l(w) /\ C(v) \in Nat /\ C(v) <= l(v)
      <4> HIDE DEF l, C, T, V
      <4> QED BY <1>2, <1>3, <1>5, <1>9, <3>2 DEF IsMerge
    <3> DEFINE M == MergeChild(h[V], g[w], K)
    <3>8. /\ \A n \in 0 .. l(v) : M[n] \in Nat
          /\ \A n \in 0 .. l(v) : \A c \in 0 .. l(w) :
                c <= n /\ g[w][c] # impossiblePCICost /\ h[V][n - c] # impossiblePCICost =>
                   M[n] <= h[V][n - c] + g[w][c] + c * (K - c)
      <4>1. M \in [0 .. l(v) -> Nat] /\ \A n \in 0 .. l(v) : \A c \in 0 .. l(w) :
                c <= n /\ g[w][c] # impossiblePCICost /\ h[V][n - c] # impossiblePCICost =>
                   M[n] <= h[V][n - c] + g[w][c] + c * (K - c)
        <5> HIDE DEF l, V
        <5> QED BY <1>1, <3>7, MergeChildIs
      <4> HIDE DEF M
      <4> QED BY <4>1
    <3> HIDE DEF M, V, H, P, C, l, Bad
    <3>9. H(U) \in 0 .. l(v) /\ C(w) \in 0 .. l(w) /\ C(w) <= H(U) /\ H(U) - C(w) = H(V) /\ H(V) \in 0 .. l(v)
      BY <3>3, <3>7
    <3>10. g[w][C(w)] \in Nat /\ h[V][H(V)] \in Nat
      BY <3>7, <3>9
    <3>11. g[w][C(w)] # impossiblePCICost /\ h[V][H(V)] # impossiblePCICost
      BY <3>4, <3>5, <3>6, <3>10, CostAssumption
    <3>12. M[H(U)] <= h[V][H(V)] + g[w][C(w)] + C(w) * (K - C(w))
      BY <3>8, <3>9, <3>11
    <3>13. C(w) * (K - C(w)) \in Nat
      <4>1. K - C(w) \in Nat
        BY <1>1, <3>7
      <4> QED BY <3>7, <4>1
    <3>14. \A m, x, y, z, p, q, t \in Nat : m <= x + y + z /\ x <= p /\ y <= q /\ t = p + z + q => m <= t
      OBVIOUS
    <3>15. M[H(U)] \in Nat /\ P(Covered(path, U)) \in Nat
      BY <3>3, <3>5, <3>8, <3>9, <3>13
    <3>16. M[H(U)] <= P(Covered(path, U))
      BY ONLY <3>3, <3>4, <3>5, <3>6, <3>10, <3>12, <3>13, <3>14, <3>15
    <3>17. h[U][H(U)] <= P(Covered(path, U))
      BY <3>1, <3>16 DEF M, V
    <3> QED BY <3>17 DEF Bad
  <2> QED BY <2>4, <2>5
<1>11. h[T][H(T)] <= P(Covered(path, T))
  <2>1. T \in SUBSET T /\ T \notin Bad
    BY <1>10
  <2> HIDE DEF T, H, P
  <2> QED BY <2>1
<1>12. Here(path, Q, v, T) = Below(path, Q, v)
  <2>1. v \in Seq(Nat)
    BY <1>1, NodesAre
  <2>2. ASSUME NEW d \in Q PROVE d \in Here(path, Q, v, T) <=> IsPrefix(v, path[d])
    <3>1. path[d] = v => IsPrefix(v, path[d])
      BY <2>1, PrefixOrder
    <3>2. \A w \in T : IsPrefix(w, path[d]) => IsPrefix(v, path[d])
      <4> HIDE DEF T
      <4> QED BY <1>2, <1>4, <2>1, PrefixOrder
    <3> HIDE DEF T
    <3> QED BY <1>4, <3>1, <3>2 DEF Here, At
  <2>3. Here(path, Q, v, T) \subseteq Q
    BY DEF Here, At
  <2> HIDE DEF T
  <2> QED BY <2>2, <2>3 DEF Below
<1>13. Covered(path, T) \in SUBSET Beneath(path, v) /\ Beneath(path, v) \in SUBSET Nodes(path)
  <2>1. \A u \in Nodes(path) : u \in Seq(Nat) /\ Len(u) \in Nat
    BY <1>1, NodesAre
  <2>2. ASSUME NEW u \in Nodes(path), NEW w \in T, IsPrefix(w, u) PROVE IsPrefix(v, u) /\ u # v
    <3>1. w \in Seq(Nat) /\ Len(w) = Len(v) + 1 /\ IsPrefix(v, w)
      BY <1>4
    <3>2. IsPrefix(v, u)
      BY <2>1, <2>2, <3>1, PrefixOrder
    <3>3. Len(w) <= Len(u)
      BY <2>1, <2>2, <3>1, PrefixIs
    <3> QED BY <2>1, <3>1, <3>2, <3>3
  <2> HIDE DEF T
  <2> QED BY <2>2 DEF Covered, Beneath
<1>14. P(Covered(path, T)) <= P(Beneath(path, v)) /\ P(Covered(path, T)) \in Nat /\ P(Beneath(path, v)) \in Nat
  <2>1. IsFiniteSet(Beneath(path, v)) /\ P(Covered(path, T)) \in Nat /\ P(Beneath(path, v)) \in Nat
    <3> HIDE DEF P, T
    <3> QED BY <1>2, <1>13
  <2> HIDE DEF T
  <2> QED BY <1>2, <1>13, <2>1, SplitsMonotone
<1>15. H(T) = C(v) /\ h[T] = g[v]
  BY <1>8, <1>9, <1>12 DEF Count
<1>16. g[v][C(v)] \in Nat
  <2> HIDE DEF C, l
  <2>1. C(v) \in 0 .. l(v)
    BY <1>2, <1>3
  <2> QED BY <1>5, <2>1
<1> HIDE DEF H, P, C, T
<1>17. g[v][C(v)] <= P(Beneath(path, v))
  BY <1>11, <1>14, <1>15, <1>16
<1> QED
  BY <1>17 DEF C, P

\* No placement below root has fewer splits than pciSubtreeCosts says.
LEMMA SubtreeBound ==
    ASSUME NEW path, NEW root, NEW K, NEW forced, NEW free, NEW Q, Placed(path, root, K, forced, free, Q),
           \A d \in Q : IsPrefix(root, path[d])
    PROVE  pciSubtreeCosts(path, root, K, forced, free)[K] <= Cardinality(Splits(path, Q, Nodes(path)))
<1> DEFINE g == CHOOSE k : k = CostStep(path, K, forced, free, k)
           Good(v) == g[v][Count(path, Q, v)] <= Cardinality(Splits(path, Q, Beneath(path, v)))
           B == {v \in Nodes(path) : IsPrefix(root, v) /\ ~Good(v)}
<1>1. /\ Forest(path) /\ K \in Nat /\ root \in Nodes(path) /\ root \in Seq(Nat)
      /\ forced \in SUBSET DOMAIN path /\ free \in SUBSET DOMAIN path /\ Cardinality(Q) = K
  BY NodesAre DEF Placed
<1>2. g = CostStep(path, K, forced, free, g)
  BY <1>1, CostsDefined
<1>3. pciSubtreeCosts(path, root, K, forced, free) = g[root]
  BY CostsDef
<1> HIDE DEF g
<1>4. ASSUME B # {} PROVE FALSE
  <2>1. PICK v \in B : \A w \in B : Len(w) <= Len(v)
    <3>1. B \subseteq Nodes(path)
      OBVIOUS
    <3> HIDE DEF B
    <3> QED BY <1>1, <1>4, <3>1, Deepest
  <2>2. ASSUME NEW w \in Kids(path, forced, free, v) PROVE Good(w)
    <3>1. w \in Nodes(path) /\ w \in Seq(Nat) /\ Len(w) = Len(v) + 1 /\ IsPrefix(v, w)
      BY <1>1, ChildrenAre DEF Kids
    <3>2. v \in Seq(Nat) /\ Len(v) \in Nat
      BY <1>1, NodesAre
    <3>3. IsPrefix(root, w)
      BY <1>1, <3>1, <3>2, PrefixOrder
    <3>4. w \notin B
      BY <2>1, <3>1, <3>2
    <3> HIDE DEF Good
    <3> QED BY <3>1, <3>3, <3>4
  <2>3. Good(v)
    BY <1>2, <2>2, NodeBound
  <2> QED BY <2>3
<1>5. Good(root)
  <2>1. IsPrefix(root, root)
    BY <1>1, PrefixOrder
  <2> HIDE DEF Good
  <2> QED BY <1>1, <1>4, <2>1
<1>6. Count(path, Q, root) = K
  <2>1. Below(path, Q, root) = Q
    BY DEF Below
  <2> QED BY <1>1, <2>1 DEF Count
<1>7. Beneath(path, root) \in SUBSET Nodes(path)
  BY DEF Beneath
<1>8. IsFiniteSet(Q) /\ IsFiniteSet(Nodes(path))
  BY <1>1, PlacedFacts, NodesAre
<1>9. Cardinality(Splits(path, Q, Beneath(path, root))) <= Cardinality(Splits(path, Q, Nodes(path)))
  BY <1>7, <1>8, SplitsMonotone
<1>10. Cardinality(Splits(path, Q, Beneath(path, root))) \in Nat /\ Cardinality(Splits(path, Q, Nodes(path))) \in Nat
  BY <1>7, PlacedFacts
<1>11. g[root][K] \in Nat
  <2>1. g[root] \in [0 .. Limit(path, K, forced, free, root) -> Nat]
    BY <1>1, <1>2, CostsType
  <2>2. K <= Limit(path, K, forced, free, root)
    BY <1>6, PlacedFacts
  <2>3. Limit(path, K, forced, free, root) \in Nat
    BY <1>1, LimitIs
  <2>4. K \in 0 .. Limit(path, K, forced, free, root)
    BY <1>1, <2>2, <2>3
  <2> QED BY <2>1, <2>4
<1>12. g[root][K] <= Cardinality(Splits(path, Q, Beneath(path, root)))
  BY <1>5, <1>6
<1> QED
  BY <1>3, <1>9, <1>10, <1>11, <1>12

-----------------------------------------------------------------------------
(* Costs of a placement in the forest *)

Placement == [valid : BOOLEAN, separateRoots : Nat, totalDistance : Nat]

\* x is the cost of a placement, and not above m separate roots and distance n.
NotAbove(x, m, n) ==
    x.valid /\ (x.separateRoots < m \/ (x.separateRoots = m /\ x.totalDistance <= n))

LEMMA CheapestIs ==
    ASSUME NEW S, S \subseteq {r \in Placement : r.valid}
    PROVE  /\ Cheapest(S) \in Placement
           /\ \A x \in S : NotAbove(Cheapest(S), x.separateRoots, x.totalDistance)
<1>1. CASE S = {}
  BY <1>1 DEF Cheapest, Invalid, Placement
<1>2. CASE S # {}
  <2>0. \A x \in S : x.valid = TRUE /\ x.separateRoots \in Nat /\ x.totalDistance \in Nat /\ x \in Placement
    BY DEF Placement
  <2> DEFINE R == {x.separateRoots : x \in S}
  <2>1. PICK m \in R : \A y \in R : m <= y
    <3>1. R \subseteq Nat /\ R # {}
      BY <1>2, <2>0
    <3> HIDE DEF R
    <3> QED BY ONLY <3>1, LeastNumber
  <2> DEFINE S1 == {x \in S : x.separateRoots = m}
             D == {x.totalDistance : x \in S1}
  <2>2. PICK n \in D : \A y \in D : n <= y
    <3>1. D \subseteq Nat /\ D # {}
      BY <2>0, <2>1
    <3> HIDE DEF D
    <3> QED BY ONLY <3>1, LeastNumber
  <2>3. PICK z \in S : z.separateRoots = m /\ z.totalDistance = n
    BY <2>2
  <2>4. \A x \in S : x.separateRoots \in R
    OBVIOUS
  <2>5. \A x \in S : x.separateRoots = m => x.totalDistance \in D
    OBVIOUS
  <2> HIDE DEF R, D, S1
  <2>6. \A x \in S : ~placementLess(x, z)
    BY <2>0, <2>1, <2>2, <2>3, <2>4, <2>5 DEF placementLess
  <2>7. Cheapest(S) = CHOOSE x \in S : \A b \in S : ~placementLess(b, x)
    BY <1>2 DEF Cheapest
  <2>8. Cheapest(S) \in S /\ \A x \in S : ~placementLess(x, Cheapest(S))
    BY <2>6, <2>7
  <2>9. PICK c : c = Cheapest(S)
    OBVIOUS
  <2>10. c \in S /\ \A x \in S : ~placementLess(x, c)
    BY <2>8, <2>9
  <2>11. \A x \in S : NotAbove(c, x.separateRoots, x.totalDistance)
    BY <2>0, <2>10 DEF placementLess, NotAbove
  <2> QED BY <2>0, <2>9, <2>10, <2>11
<1> QED
  BY <1>1, <1>2

\* A merged cost is a cost, and not above that of any way to share n devices.
LEMMA MergeRootIs ==
    ASSUME NEW l \in Nat, NEW m \in Nat, NEW forest \in [0 .. l -> Placement], NEW rc \in [0 .. m -> Nat]
    PROVE  /\ MergeRoot(forest, rc) \in [0 .. l -> Placement]
           /\ \A n \in 0 .. l : \A c \in 0 .. m :
                c <= n /\ forest[n - c].valid /\ rc[c] # impossiblePCICost =>
                  NotAbove(MergeRoot(forest, rc)[n],
                           forest[n - c].separateRoots + (n - c) * c, forest[n - c].totalDistance + rc[c])
<1> DEFINE C(n) == {c \in DOMAIN rc : c <= n /\ forest[n - c].valid /\ rc[c] # impossiblePCICost}
           E(n, c) == [valid |-> TRUE,
                       separateRoots |-> forest[n - c].separateRoots + (n - c) * c,
                       totalDistance |-> forest[n - c].totalDistance + rc[c]]
           V(n) == {E(n, c) : c \in C(n)}
<1>1. MergeRoot(forest, rc) = [n \in 0 .. l |-> Cheapest(V(n))]
  BY DEF MergeRoot
<1>2. ASSUME NEW n \in 0 .. l, NEW c \in C(n) PROVE E(n, c) \in {r \in Placement : r.valid}
  <2>1. c \in 0 .. m /\ c <= n /\ n - c \in 0 .. l /\ n - c \in Nat /\ c \in Nat
    OBVIOUS
  <2>2. forest[n - c] \in Placement /\ rc[c] \in Nat
    BY <2>1
  <2>3. forest[n - c].separateRoots \in Nat /\ forest[n - c].totalDistance \in Nat
    BY <2>2 DEF Placement
  <2>4. (n - c) * c \in Nat
    BY <2>1
  <2>5. \A x, y \in Nat : x + y \in Nat
    OBVIOUS
  <2>6. forest[n - c].separateRoots + (n - c) * c \in Nat /\ forest[n - c].totalDistance + rc[c] \in Nat
    BY ONLY <2>2, <2>3, <2>4, <2>5
  <2> QED BY <2>6 DEF Placement
<1>3. \A n \in 0 .. l : /\ Cheapest(V(n)) \in Placement
                        /\ \A x \in V(n) : NotAbove(Cheapest(V(n)), x.separateRoots, x.totalDistance)
  <2>1. \A n \in 0 .. l : V(n) \subseteq {r \in Placement : r.valid}
    <3> HIDE DEF E, C
    <3> QED BY <1>2
  <2> HIDE DEF V
  <2> QED BY <2>1, CheapestIs
<1>4. ASSUME NEW n \in 0 .. l, NEW c \in 0 .. m, c <= n, forest[n - c].valid, rc[c] # impossiblePCICost
      PROVE  NotAbove(Cheapest(V(n)), forest[n - c].separateRoots + (n - c) * c, forest[n - c].totalDistance + rc[c])
  <2>1. c \in C(n)
    BY <1>4
  <2>2. E(n, c) \in V(n)
    BY <2>1
  <2>3. /\ E(n, c).separateRoots = forest[n - c].separateRoots + (n - c) * c
        /\ E(n, c).totalDistance = forest[n - c].totalDistance + rc[c]
    OBVIOUS
  <2> HIDE DEF E, V, C
  <2> QED BY <1>3, <2>2, <2>3
<1> HIDE DEF V
<1> QED
  BY <1>1, <1>3, <1>4

-----------------------------------------------------------------------------
(* The fold over the roots *)

Occupied(path, forced, free) == {r \in Roots(path) : Below(path, forced \cup free, r) # {}}
Unplaced(K) == [n \in 0 .. K |-> IF n = 0 THEN [Invalid EXCEPT !.valid = TRUE] ELSE Invalid]

\* The recursion of pciLowerBound.
RootsStep(path, K, forced, free, T, h) ==
    [U \in SUBSET T |->
        IF U = {} THEN Unplaced(K)
        ELSE MergeRoot(h[U \ {AnyOf(U)}], RootCosts(path, AnyOf(U), K, forced, free))]

LEMMA LowerBoundDef ==
    ASSUME NEW path, NEW K, NEW forced, NEW free
    PROVE  LET T == Occupied(path, forced, free)
           IN  pciLowerBound(path, K, forced, free) = (CHOOSE h : h = RootsStep(path, K, forced, free, T, h))[T][K]
BY DEF pciLowerBound, FoldSet, MapThenFoldSet, RootsStep, AnyOf, Occupied, Unplaced

\* h holds the costs after any of the roots were merged.
IsForest(path, K, forced, free, T, h) ==
    /\ h[{}] = Unplaced(K)
    /\ \A U \in SUBSET T : h[U] \in [0 .. K -> Placement]
    /\ \A U \in SUBSET T : U # {} => \E x \in U : h[U] = MergeRoot(h[U \ {x}], RootCosts(path, x, K, forced, free))

LEMMA RootCostsType ==
    ASSUME NEW path, Forest(path), NEW K \in Nat,
           NEW forced \in SUBSET DOMAIN path, NEW free \in SUBSET DOMAIN path, NEW r \in Nodes(path)
    PROVE  RootCosts(path, r, K, forced, free) \in [0 .. Limit(path, K, forced, free, r) -> Nat]
<1>1. ASSUME NEW n \in 0 .. Limit(path, K, forced, free, r)
      PROVE  pciSubtreeCosts(path, r, n, forced, free)[n] \in Nat
  <2> DEFINE g == CHOOSE k : k = CostStep(path, n, forced, free, k)
  <2>1. g = CostStep(path, n, forced, free, g)
    BY CostsDefined
  <2>2. pciSubtreeCosts(path, r, n, forced, free) = g[r]
    BY CostsDef
  <2> HIDE DEF g
  <2>3. n \in Nat
    OBVIOUS
  <2>4. g[r] \in [0 .. Limit(path, n, forced, free, r) -> Nat]
    BY <2>1, <2>3, CostsType
  <2>5. n <= Limit(path, n, forced, free, r) /\ Limit(path, n, forced, free, r) \in Nat
    <3>1. /\ Limit(path, K, forced, free, r) <= Cardinality(Below(path, forced \cup free, r))
          /\ Limit(path, K, forced, free, r) \in Nat /\ Cardinality(Below(path, forced \cup free, r)) \in Nat
      BY LimitIs
    <3>2. n <= Cardinality(Below(path, forced \cup free, r))
      BY <3>1
    <3>3. \A m \in Nat : m <= n /\ m <= Cardinality(Below(path, forced \cup free, r)) => m <= Limit(path, n, forced, free, r)
      BY <2>3, LimitIs
    <3>4. Limit(path, n, forced, free, r) \in Nat
      BY <2>3, LimitIs
    <3>5. n <= n
      BY <2>3
    <3> QED BY <2>3, <3>2, <3>3, <3>4, <3>5
  <2>6. n \in 0 .. Limit(path, n, forced, free, r)
    BY <2>3, <2>5
  <2> QED BY <2>2, <2>4, <2>6
<1> QED
  BY <1>1, CostAssumption DEF RootCosts, Limit

LEMMA RootsFold ==
    ASSUME NEW path, Forest(path), NEW K \in Nat,
           NEW forced \in SUBSET DOMAIN path, NEW free \in SUBSET DOMAIN path
    PROVE  LET T == Occupied(path, forced, free)
           IN  \E h : pciLowerBound(path, K, forced, free) = h[T][K] /\ IsForest(path, K, forced, free, T, h)
<1> DEFINE T == Occupied(path, forced, free)
           A == [0 .. K -> Placement]
           rc(r) == RootCosts(path, r, K, forced, free)
           f == [p \in T \X A |-> MergeRoot(p[2], rc(p[1]))]
           h == CHOOSE k : k = RootsStep(path, K, forced, free, T, k)
           x(U) == AnyOf(U)
           own == Unplaced(K)
<1>1. IsFiniteSet(T) /\ \A r \in T : r \in Nodes(path)
  <2>1. T \in SUBSET Nodes(path)
    BY DEF Occupied, Roots
  <2>2. IsFiniteSet(Nodes(path))
    BY NodesAre
  <2> HIDE DEF T
  <2> QED BY <2>1, <2>2, FS_Subset
<1>2. own \in A
  BY DEF Unplaced, Invalid, Placement
<1>3. ASSUME NEW r \in T, NEW c \in A PROVE MergeRoot(c, rc(r)) \in A
  <2>1. rc(r) \in [0 .. Limit(path, K, forced, free, r) -> Nat] /\ Limit(path, K, forced, free, r) \in Nat
    BY <1>1, RootCostsType, LimitIs
  <2> HIDE DEF rc
  <2> QED BY <2>1, MergeRootIs
<1>4. f \in [T \X A -> A] /\ \A w \in T : \A c \in A : f[<<w, c>>] = MergeRoot(c, rc(w))
  <2> HIDE DEF T, A, rc
  <2> QED BY <1>3
<1>5. \A U \in SUBSET T : U # {} => x(U) \in U /\ x(U) \in T /\ U \ {x(U)} \in SUBSET T
  BY DEF AnyOf
<1> HIDE DEF T, A
<1>6. PICK k : IsFold(T, A, own, f, k)
  <2> HIDE DEF f, own
  <2>1. IsFiniteSet(T) /\ own \in A /\ f \in [T \X A -> A]
    BY <1>1, <1>2, <1>4
  <2> QED BY ONLY <2>1, FoldExists
<1> HIDE DEF f
<1>7. k = RootsStep(path, K, forced, free, T, k)
  <2>1. SUFFICES ASSUME NEW U \in SUBSET T PROVE k[U] = RootsStep(path, K, forced, free, T, k)[U]
    BY <1>6 DEF RootsStep, IsFold
  <2>2. U # {} => f[<<x(U), k[U \ {x(U)}]>>] = MergeRoot(k[U \ {x(U)}], rc(x(U)))
    <3>1. U # {} => x(U) \in T /\ k[U \ {x(U)}] \in A
      BY <1>5, <1>6 DEF IsFold
    <3> HIDE DEF x, rc
    <3> QED BY <1>4, <3>1
  <2>3. k[U] = IF U = {} THEN own ELSE MergeRoot(k[U \ {x(U)}], rc(x(U)))
    BY <1>6, <2>2 DEF IsFold
  <2> QED BY <2>3 DEF RootsStep
<1>8. h = RootsStep(path, K, forced, free, T, h)
  BY <1>7
<1>9. pciLowerBound(path, K, forced, free) = h[T][K]
  BY LowerBoundDef DEF T
<1> HIDE DEF h
<1>10. \A U \in SUBSET T : h[U] = IF U = {} THEN own ELSE MergeRoot(h[U \ {x(U)}], rc(x(U)))
  <2>1. \A U \in SUBSET T : RootsStep(path, K, forced, free, T, h)[U]
                              = IF U = {} THEN own ELSE MergeRoot(h[U \ {x(U)}], rc(x(U)))
    BY DEF RootsStep
  <2> QED BY <1>8, <2>1
<1> HIDE DEF x, own, rc
<1>11. \A U \in SUBSET T : h[U] \in A
  <2> DEFINE B == {U \in SUBSET T : h[U] \notin A}
  <2>1. SUFFICES ASSUME B # {} PROVE FALSE
    OBVIOUS
  <2>2. B \subseteq SUBSET T
    OBVIOUS
  <2>3. PICK U \in B : \A V \in B : V \subseteq U => V = U
    <3> HIDE DEF B
    <3> QED BY ONLY <1>1, <2>1, <2>2, MinimalSet
  <2>4. CASE U = {}
    BY <1>2, <1>10, <2>4
  <2>5. CASE U # {}
    <3>1. x(U) \in U /\ x(U) \in T /\ U \ {x(U)} \in SUBSET T
      BY <1>5, <2>5
    <3>2. h[U \ {x(U)}] \in A
      BY <2>3, <3>1
    <3>3. MergeRoot(h[U \ {x(U)}], rc(x(U))) \in A
      BY <1>3, <3>1, <3>2
    <3> QED BY <1>10, <2>5, <3>3
  <2> QED BY <2>4, <2>5
<1>12. \A U \in SUBSET T : U # {} => \E y \in U : h[U] = MergeRoot(h[U \ {y}], rc(y))
  BY <1>5, <1>10
<1>13. h[{}] = own
  BY <1>10
<1>14. IsForest(path, K, forced, free, T, h)
  BY <1>11, <1>12, <1>13 DEF IsForest, A, own, rc
<1> QED
  BY <1>9, <1>14 DEF T

\* The bound is a cost whatever the devices are.
LEMMA LowerBoundType ==
    ASSUME NEW path, Forest(path), NEW K \in Nat,
           NEW forced \in SUBSET DOMAIN path, NEW free \in SUBSET DOMAIN path
    PROVE  pciLowerBound(path, K, forced, free) \in Placement
<1> DEFINE T == Occupied(path, forced, free)
<1>1. PICK h : pciLowerBound(path, K, forced, free) = h[T][K] /\ IsForest(path, K, forced, free, T, h)
  BY RootsFold
<1> HIDE DEF T
<1>2. h[T] \in [0 .. K -> Placement] /\ K \in 0 .. K
  BY <1>1 DEF IsForest
<1> QED
  BY <1>1, <1>2

-----------------------------------------------------------------------------
(* No placement in the forest costs less than pciLowerBound says *)

\* The pairs of Q under separate roots, and what splits the others.
Cross(path, Q) == {p \in Q \X Q : p[1] < p[2] /\ path[p[1]][1] # path[p[2]][1]}
Within(path, Q) == {x \in Splits(path, Q, Nodes(path)) : path[x[2][1]][1] = path[x[2][2]][1]}

\* The devices of Q under some of the roots.
Under(path, Q, U) == {d \in Q : \E r \in U : IsPrefix(r, path[d])}

\* P are K devices that may be chosen together: all that are forced, and free ones.
Placing(path, K, forced, free, P) ==
    /\ Forest(path) /\ DOMAIN path \subseteq Nat /\ K \in Nat
    /\ forced \in SUBSET DOMAIN path /\ free \in SUBSET DOMAIN path
    /\ \A d \in forced \cup free : path[d] # NoPath
    /\ forced \in SUBSET P /\ P \in SUBSET (forced \cup free) /\ Cardinality(P) = K
    /\ Cardinality(Within(path, P)) < impossiblePCICost

\* One pair for one element of each of two sets.
LEMMA PairsBetween ==
    ASSUME NEW A \in SUBSET Nat, IsFiniteSet(A), NEW B \in SUBSET Nat, IsFiniteSet(B), A \cap B = {}
    PROVE  LET R == {PairOf(p[1], p[2]) : p \in A \X B}
           IN  IsFiniteSet(R) /\ Cardinality(R) = Cardinality(A) * Cardinality(B)
<1> DEFINE X == A \X B
           f == [p \in X |-> PairOf(p[1], p[2])]
           R == {PairOf(p[1], p[2]) : p \in X}
<1>1. IsFiniteSet(X) /\ Cardinality(X) = Cardinality(A) * Cardinality(B)
  BY FS_Product
<1>2. f \in [X -> R] /\ \A y \in R : \E p \in X : f[p] = y
  OBVIOUS
<1>3. ASSUME NEW p \in X, NEW q \in X, f[p] = f[q] PROVE p = q
  <2>0. \A x \in X : x[1] \in A /\ x[2] \in B /\ x = <<x[1], x[2]>>
    OBVIOUS
  <2>1. PICK d \in A, e \in B : p = <<d, e>>
    BY <2>0
  <2>2. PICK d2 \in A, e2 \in B : q = <<d2, e2>>
    BY <2>0
  <2>3. PairOf(d, e) = PairOf(d2, e2)
    BY <1>3, <2>1, <2>2
  <2>4. PairOf(d, e) \in {<<d, e>>, <<e, d>>} /\ PairOf(d2, e2) \in {<<d2, e2>>, <<e2, d2>>}
    BY DEF PairOf
  <2>5. d # e2 /\ e # d2
    OBVIOUS
  <2> QED BY <2>1, <2>2, <2>3, <2>4, <2>5
<1> HIDE DEF X, f, R
<1>4. IsFiniteSet(R) /\ Cardinality(R) = Cardinality(X)
  BY <1>1, <1>2, <1>3, ImageCardinality
<1> QED
  BY <1>1, <1>4 DEF R, X

LEMMA RootIs ==
    ASSUME NEW path, Forest(path), NEW r \in Roots(path), NEW v \in Seq(Nat), v # NoPath
    PROVE  /\ r \in Nodes(path) /\ r \in Seq(Nat) /\ Len(r) = 1
           /\ IsPrefix(r, v) <=> v[1] = r[1]
<1>1. r \in Nodes(path) /\ r \in Seq(Nat) /\ Len(r) = 1
  BY NodesAre DEF Roots
<1>2. Len(v) >= 1 /\ Len(v) \in Nat
  BY DEF NoPath
<1>3. Len(r) <= Len(v) /\ 1 .. Len(r) = {1}
  BY <1>1, <1>2
<1>4. IsPrefix(r, v) <=> \A i \in {1} : r[i] = v[i]
  BY <1>1, <1>3, PrefixIs
<1> QED
  BY <1>1, <1>4

LEMMA SameRoot ==
    ASSUME NEW path, Forest(path), NEW r \in Roots(path), NEW q \in Roots(path), r[1] = q[1]
    PROVE  r = q
<1>1. r \in Seq(Nat) /\ Len(r) = 1 /\ q \in Seq(Nat) /\ Len(q) = 1 /\ q # NoPath
  BY NodesAre DEF Roots
<1>2. IsPrefix(r, q)
  BY <1>1, RootIs
<1> QED
  BY <1>1, <1>2, PrefixOrder

\* Every device has one root.
LEMMA HasRoot ==
    ASSUME NEW path, Forest(path), NEW d \in DOMAIN path, path[d] # NoPath
    PROVE  \E r \in Roots(path) : IsPrefix(r, path[d])
<1> DEFINE v == path[d]
           r == SubSeq(v, 1, 1)
<1>1. v \in Seq(Nat) /\ Len(v) \in Nat /\ Len(v) >= 1
  BY DEF Forest, NoPath
<1>2. 1 \in 0 .. Len(v)
  BY <1>1
<1>3. r \in Prefixes(v) /\ Len(r) = 1
  BY <1>1, <1>2, PrefixesAre
<1> HIDE DEF r
<1>4. r \in Seq(Nat) /\ IsPrefix(r, v)
  BY <1>1, <1>3, PrefixesAre
<1>5. r # NoPath
  BY <1>3 DEF NoPath
<1>6. r \in Nodes(path)
  BY <1>4, <1>5, NodesAre
<1> QED
  BY <1>3, <1>4, <1>6 DEF Roots

LEMMA PlacingFacts ==
    ASSUME NEW path, NEW K, NEW forced, NEW free, NEW P, Placing(path, K, forced, free, P)
    PROVE  /\ Forest(path) /\ DOMAIN path \subseteq Nat /\ K \in Nat
           /\ forced \in SUBSET DOMAIN path /\ free \in SUBSET DOMAIN path
           /\ forced \in SUBSET P /\ P \in SUBSET (forced \cup free) /\ Cardinality(P) = K
           /\ IsFiniteSet(P) /\ IsFiniteSet(forced) /\ IsFiniteSet(forced \cup free)
           /\ \A d \in forced \cup free : path[d] # NoPath /\ path[d] \in Seq(Nat) /\ d \in Nat
<1>1. /\ Forest(path) /\ DOMAIN path \subseteq Nat /\ K \in Nat
      /\ forced \in SUBSET DOMAIN path /\ free \in SUBSET DOMAIN path
      /\ \A d \in forced \cup free : path[d] # NoPath
      /\ forced \in SUBSET P /\ P \in SUBSET (forced \cup free) /\ Cardinality(P) = K
  BY DEF Placing
<1>2. P \in SUBSET DOMAIN path /\ forced \cup free \in SUBSET DOMAIN path
  BY <1>1
<1>3. IsFiniteSet(P) /\ IsFiniteSet(forced) /\ IsFiniteSet(forced \cup free)
  <2>1. PICK X : X = forced \cup free
    OBVIOUS
  <2>2. IsFiniteSet(X)
    BY <1>1, <1>2, <2>1, FS_Subset DEF Forest
  <2> QED BY <1>1, <1>2, <2>1, <2>2, FS_Subset DEF Forest
<1>4. \A d \in forced \cup free : path[d] # NoPath /\ path[d] \in Seq(Nat) /\ d \in Nat
  BY <1>1 DEF Forest
<1> QED
  BY <1>1, <1>3, <1>4

\* So much for some of the devices, too.
LEMMA PlacingPart ==
    ASSUME NEW path, NEW K, NEW forced, NEW free, NEW P, Placing(path, K, forced, free, P), NEW Q \in SUBSET P
    PROVE  /\ IsFiniteSet(Q) /\ Cardinality(Q) \in Nat /\ Cardinality(Q) <= K
           /\ IsFiniteSet(Within(path, Q)) /\ Cardinality(Within(path, Q)) \in Nat
           /\ Cardinality(Within(path, Q)) < impossiblePCICost
<1>1. Forest(path) /\ IsFiniteSet(P) /\ Cardinality(P) = K
  BY ONLY Placing(path, K, forced, free, P), PlacingFacts
<1>2. Cardinality(Within(path, P)) < impossiblePCICost
  BY DEF Placing
<1>3. IsFiniteSet(Q) /\ Cardinality(Q) \in Nat /\ Cardinality(Q) <= K
  BY <1>1, FS_Subset, FS_CardinalityType
<1>4. Within(path, Q) \in SUBSET Within(path, P) /\ Within(path, P) \in SUBSET Splits(path, P, Nodes(path))
  BY DEF Within, Splits
<1>5. IsFiniteSet(Splits(path, P, Nodes(path)))
  BY <1>1, NodesAre, SplitsFinite
<1>6. IsFiniteSet(Within(path, P))
  BY <1>4, <1>5, FS_Subset
<1>7. IsFiniteSet(Within(path, Q)) /\ Cardinality(Within(path, Q)) <= Cardinality(Within(path, P))
  BY <1>4, <1>6, FS_Subset
<1>8. Cardinality(Within(path, Q)) \in Nat /\ Cardinality(Within(path, P)) \in Nat
  BY <1>6, <1>7, FS_CardinalityType
<1> QED
  BY <1>2, <1>3, <1>7, <1>8, CostAssumption

\* One more root: its devices are apart from those before, and only they are
\* split from each other.
LEMMA OneMoreRoot ==
    ASSUME NEW path, NEW K, NEW forced, NEW free, NEW P, Placing(path, K, forced, free, P),
           NEW U \in SUBSET Roots(path), NEW r \in U
    PROVE  LET V == U \ {r}
               c == Cardinality(Below(path, P, r))
               n == Cardinality(Under(path, P, V))
           IN  /\ c \in Nat /\ n \in Nat
               /\ Cardinality(Under(path, P, U)) = n + c
               /\ Cardinality(Cross(path, Under(path, P, U))) = Cardinality(Cross(path, Under(path, P, V))) + n * c
               /\ Cardinality(Within(path, Under(path, P, U))) =
                     Cardinality(Within(path, Under(path, P, V)))
                       + Cardinality(Splits(path, Below(path, P, r), Nodes(path)))
               /\ Cardinality(Cross(path, Under(path, P, V))) \in Nat
               /\ Cardinality(Splits(path, Below(path, P, r), Nodes(path))) \in Nat
               /\ Cardinality(Splits(path, Below(path, P, r), Nodes(path))) < impossiblePCICost
<1> DEFINE V == U \ {r}
           A == Under(path, P, V)
           B == Below(path, P, r)
           C == Under(path, P, U)
<1>1. /\ Forest(path) /\ P \in SUBSET (forced \cup free) /\ P \in SUBSET Nat
      /\ \A d \in P : path[d] # NoPath /\ path[d] \in Seq(Nat) /\ d \in Nat
      /\ \A Q \in SUBSET P : /\ IsFiniteSet(Q) /\ Cardinality(Q) \in Nat
                             /\ IsFiniteSet(Within(path, Q)) /\ Cardinality(Within(path, Q)) \in Nat
                             /\ Cardinality(Within(path, Q)) < impossiblePCICost
  <2>1. Forest(path) /\ P \in SUBSET (forced \cup free)
    BY PlacingFacts
  <2>3. \A d \in forced \cup free : path[d] # NoPath /\ path[d] \in Seq(Nat) /\ d \in Nat
    BY PlacingFacts
  <2>2. \A Q \in SUBSET P : /\ IsFiniteSet(Q) /\ Cardinality(Q) \in Nat
                             /\ IsFiniteSet(Within(path, Q)) /\ Cardinality(Within(path, Q)) \in Nat
                             /\ Cardinality(Within(path, Q)) < impossiblePCICost
    BY PlacingPart
  <2> QED BY <2>1, <2>2, <2>3
<1>2. /\ \A d \in P : \A q \in Roots(path) : IsPrefix(q, path[d]) <=> path[d][1] = q[1]
      /\ \A q \in Roots(path) : q[1] = r[1] => q = r
  BY <1>1, RootIs, SameRoot
<1>3. /\ C = A \cup B /\ A \cap B = {} /\ A \in SUBSET P /\ B \in SUBSET P /\ C \in SUBSET P
      /\ \A d \in A : path[d][1] # r[1]
      /\ \A d \in B : path[d][1] = r[1]
  <2>1. \A d \in A : path[d][1] # r[1]
    BY <1>2 DEF Under
  <2>2. \A d \in B : path[d][1] = r[1]
    BY <1>2 DEF Below
  <2> QED BY <2>1, <2>2 DEF Under, Below
<1> HIDE DEF A, B, C, V
<1>4. Cardinality(A) \in Nat /\ Cardinality(B) \in Nat /\ Cardinality(C) = Cardinality(A) + Cardinality(B)
  <2>1. IsFiniteSet(A) /\ IsFiniteSet(B)
    BY <1>1, <1>3
  <2> QED BY <1>3, <2>1, DisjointUnion, FS_CardinalityType
<1>5. Cross(path, B) = {}
  BY <1>3 DEF Cross
<1> DEFINE R == {PairOf(p[1], p[2]) : p \in A \X B}
<1>6. Cross(path, C) = Cross(path, A) \cup R /\ Cross(path, A) \cap R = {}
  <2>1. \A d \in A, e \in B : d \in Nat /\ e \in Nat /\ d # e /\ path[d][1] # path[e][1]
    BY <1>1, <1>3
  <2>2. ASSUME NEW x \in R PROVE x \in Cross(path, C) /\ x \notin A \X A
    <3>1. PICK d \in A, e \in B : x = PairOf(d, e)
      OBVIOUS
    <3>2. d \in C /\ e \in C /\ e \notin A
      BY <1>3
    <3>3. CASE d < e
      BY <2>1, <3>1, <3>2, <3>3 DEF PairOf, Cross
    <3>4. CASE ~(d < e)
      <4>1. e < d
        BY <2>1, <3>4
      <4>2. path[e][1] # path[d][1]
        BY <2>1
      <4>3. x = <<e, d>>
        BY <3>1, <3>4 DEF PairOf
      <4> QED BY <3>2, <4>1, <4>2, <4>3 DEF Cross
    <3> QED BY <3>3, <3>4
  <2>3. ASSUME NEW x \in Cross(path, C), x \notin Cross(path, A) PROVE x \in R
    <3>1. PICK d \in C, e \in C : x = <<d, e>>
      BY DEF Cross
    <3>2. d < e /\ path[d][1] # path[e][1]
      BY <3>1 DEF Cross
    <3>3. ~(d \in A /\ e \in A)
      BY <2>3, <3>1, <3>2 DEF Cross
    <3>4. ~(d \in B /\ e \in B)
      BY <1>3, <3>2
    <3>5. CASE d \in A /\ e \in B
      <4>1. x = PairOf(d, e) /\ <<d, e>> \in A \X B
        BY <3>1, <3>2, <3>5 DEF PairOf
      <4> QED BY <4>1
    <3>6. CASE d \in B /\ e \in A
      <4>1. d \in Nat /\ e \in Nat
        BY <1>1, <1>3
      <4>2. ~(e < d)
        BY <3>2, <4>1
      <4>3. x = PairOf(e, d) /\ <<e, d>> \in A \X B
        BY <3>1, <3>6, <4>2 DEF PairOf
      <4> QED BY <4>3
    <3> QED BY <1>3, <3>3, <3>4, <3>5, <3>6
  <2>4. Cross(path, A) \subseteq Cross(path, C) /\ Cross(path, A) \subseteq A \X A
    BY <1>3 DEF Cross
  <2> HIDE DEF R
  <2> QED BY <2>2, <2>3, <2>4
<1>7. IsFiniteSet(R) /\ Cardinality(R) = Cardinality(A) * Cardinality(B)
  <2>1. A \in SUBSET Nat /\ B \in SUBSET Nat /\ IsFiniteSet(A) /\ IsFiniteSet(B) /\ A \cap B = {}
    BY <1>1, <1>3
  <2> QED BY ONLY <2>1, PairsBetween
<1>8. IsFiniteSet(Cross(path, A))
  <2>1. IsFiniteSet(A)
    BY <1>1, <1>3
  <2>2. PICK X : X = A \X A
    OBVIOUS
  <2>3. IsFiniteSet(X)
    BY <2>1, <2>2, FS_Product
  <2>4. Cross(path, A) \in SUBSET X
    BY <2>2 DEF Cross
  <2> QED BY <2>3, <2>4, FS_Subset
<1> HIDE DEF R
<1>9. Cardinality(Cross(path, C)) = Cardinality(Cross(path, A)) + Cardinality(A) * Cardinality(B)
  BY <1>6, <1>7, <1>8, DisjointUnion
<1>10. Within(path, B) = Splits(path, B, Nodes(path))
  BY <1>3 DEF Within, Splits
<1>11. Within(path, C) = Within(path, A) \cup Within(path, B) /\ Within(path, A) \cap Within(path, B) = {}
  <2>1. ASSUME NEW d \in C, NEW e \in C, path[d][1] = path[e][1]
        PROVE  (d \in A /\ e \in A) \/ (d \in B /\ e \in B)
    BY <1>3, <2>1
  <2>2. ASSUME NEW x \in Within(path, C) PROVE x \in Within(path, A) \cup Within(path, B)
    <3>1. PICK w \in Nodes(path), d \in C, e \in C : x = <<w, <<d, e>> >>
      BY DEF Within, Splits
    <3>2. path[d][1] = path[e][1] /\ IsPrefix(w, path[d]) /\ ~IsPrefix(w, path[e])
      BY <3>1 DEF Within, Splits
    <3> QED BY <2>1, <3>1, <3>2 DEF Within, Splits
  <2>3. Within(path, A) \subseteq Within(path, C) /\ Within(path, B) \subseteq Within(path, C)
    BY <1>3 DEF Within, Splits
  <2>4. Within(path, A) \cap Within(path, B) = {}
    BY <1>3 DEF Within, Splits
  <2> QED BY <2>2, <2>3, <2>4
<1>12. IsFiniteSet(Within(path, A)) /\ IsFiniteSet(Within(path, B))
  BY <1>1, <1>3
<1>13. Cardinality(Within(path, C)) = Cardinality(Within(path, A)) + Cardinality(Within(path, B))
  BY <1>11, <1>12, DisjointUnion
<1>14. Cardinality(Cross(path, A)) \in Nat
  BY <1>8, FS_CardinalityType
<1>15. Cardinality(Within(path, B)) \in Nat /\ Cardinality(Within(path, B)) < impossiblePCICost
  BY <1>1, <1>3
<1> QED
  BY <1>4, <1>9, <1>10, <1>13, <1>14, <1>15 DEF A, B, C, V

\* The number of devices a root holds is one its costs are computed for.
LEMMA CountOfRoot ==
    ASSUME NEW path, NEW K, NEW forced, NEW free, NEW P, Placing(path, K, forced, free, P), NEW r \in Roots(path)
    PROVE  LET c == Cardinality(Below(path, P, r))
           IN  /\ c \in RootCounts(path, r, K, forced, free)
               /\ c \in 0 .. Limit(path, K, forced, free, r)
<1> DEFINE F == Below(path, forced, r)
           B == Below(path, P, r)
           G == Below(path, forced \cup free, r)
           W == forced \cup free
<1>1. /\ Forest(path) /\ K \in Nat /\ forced \in SUBSET DOMAIN path /\ free \in SUBSET DOMAIN path
      /\ forced \in SUBSET P /\ P \in SUBSET W /\ Cardinality(P) = K
      /\ IsFiniteSet(P) /\ IsFiniteSet(forced) /\ IsFiniteSet(W)
  BY ONLY Placing(path, K, forced, free, P), PlacingFacts
<1>2. /\ F \in SUBSET B /\ B \in SUBSET G /\ F \in SUBSET forced /\ B \in SUBSET P /\ G \in SUBSET W
      /\ forced \ F \in SUBSET (P \ B) /\ P \ B \in SUBSET (W \ G)
  BY <1>1 DEF Below
<1> HIDE DEF F, B, G, W
<1>3. IsFiniteSet(F) /\ IsFiniteSet(B) /\ IsFiniteSet(G)
  BY <1>1, <1>2, FS_Subset
<1>4. /\ Cardinality(F) \in Nat /\ Cardinality(B) \in Nat /\ Cardinality(G) \in Nat
      /\ Cardinality(forced) \in Nat /\ Cardinality(W) \in Nat
  BY <1>1, <1>3, FS_CardinalityType
<1>5. Cardinality(F) <= Cardinality(B) /\ Cardinality(B) <= Cardinality(G) /\ Cardinality(B) <= K
  BY <1>1, <1>2, <1>3, FS_Subset
<1>6. /\ IsFiniteSet(P \ B) /\ Cardinality(P \ B) = K - Cardinality(B)
      /\ IsFiniteSet(W \ G) /\ Cardinality(W \ G) = Cardinality(W) - Cardinality(G)
      /\ Cardinality(forced \ F) = Cardinality(forced) - Cardinality(F)
  <2>1. P \cap B = B /\ W \cap G = G /\ forced \cap F = F
    BY <1>2
  <2>2. /\ IsFiniteSet(P \ B) /\ Cardinality(P \ B) = Cardinality(P) - Cardinality(P \cap B)
        /\ IsFiniteSet(W \ G) /\ Cardinality(W \ G) = Cardinality(W) - Cardinality(W \cap G)
        /\ Cardinality(forced \ F) = Cardinality(forced) - Cardinality(forced \cap F)
    BY <1>1, <1>3, FS_Difference
  <2> QED BY <1>1, <2>1, <2>2
<1>7. Cardinality(forced) - Cardinality(F) <= K - Cardinality(B)
  <2>1. PICK X : X = P \ B
    OBVIOUS
  <2>2. PICK Y : Y = forced \ F
    OBVIOUS
  <2>3. IsFiniteSet(X) /\ Y \in SUBSET X
    BY <1>2, <1>6, <2>1, <2>2
  <2>4. Cardinality(Y) <= Cardinality(X)
    BY ONLY <2>3, FS_Subset
  <2> QED BY <1>6, <2>1, <2>2, <2>4
<1>8. K - Cardinality(B) <= Cardinality(W) - Cardinality(G)
  <2>1. PICK X : X = W \ G
    OBVIOUS
  <2>2. PICK Y : Y = P \ B
    OBVIOUS
  <2>3. IsFiniteSet(X) /\ Y \in SUBSET X
    BY <1>2, <1>6, <2>1, <2>2
  <2>4. Cardinality(Y) <= Cardinality(X)
    BY ONLY <2>3, FS_Subset
  <2> QED BY <1>6, <2>1, <2>2, <2>4
<1> DEFINE lo == {Cardinality(F), K - (Cardinality(W) - Cardinality(G))}
           hi == {Cardinality(G), K - (Cardinality(forced) - Cardinality(F))}
<1>9. Max(lo) \in lo
  <2>1. lo \in SUBSET Int
    BY <1>1, <1>4
  <2>2. \E m \in lo : \A x \in lo : x <= m
    BY <1>1, <1>4
  <2> HIDE DEF lo
  <2>3. PICK m \in lo : \A x \in lo : x <= m
    BY <2>2
  <2> QED BY <2>1, <2>3, MaxIs
<1>10. Min(hi) \in hi
  <2>1. K - (Cardinality(forced) - Cardinality(F)) \in Nat
    BY <1>1, <1>4, <1>7
  <2> QED BY <1>4, <2>1, MinOfTwo
<1>11. Cardinality(B) \in Max(lo) .. Min(hi)
  <2>1. \A x \in lo : x \in Int /\ x <= Cardinality(B)
    BY <1>1, <1>4, <1>5, <1>8
  <2>2. \A x \in hi : x \in Int /\ Cardinality(B) <= x
    BY <1>1, <1>4, <1>5, <1>7
  <2> HIDE DEF lo, hi
  <2> QED BY <1>4, <1>9, <1>10, <2>1, <2>2
<1>12. RootCounts(path, r, K, forced, free) = Max(lo) .. Min(hi)
  BY DEF RootCounts, F, G, W
<1>13. /\ Limit(path, K, forced, free, r) \in Nat
       /\ \A n \in Nat : n <= K /\ n <= Cardinality(Below(path, forced \cup free, r)) => n <= Limit(path, K, forced, free, r)
  BY <1>1, LimitIs
<1>14. Cardinality(B) \in 0 .. Limit(path, K, forced, free, r)
  <2>1. Cardinality(B) <= Cardinality(Below(path, forced \cup free, r))
    BY <1>5 DEF G
  <2> QED BY <1>4, <1>5, <1>13, <2>1
<1> HIDE DEF lo, hi
<1> QED
  BY <1>11, <1>12, <1>14 DEF B

LEMMA RootBound ==
    ASSUME NEW path, NEW K, NEW forced, NEW free, NEW P, Placing(path, K, forced, free, P), NEW r \in Roots(path)
    PROVE  LET c == Cardinality(Below(path, P, r))
           IN  RootCosts(path, r, K, forced, free)[c] <= Cardinality(Splits(path, Below(path, P, r), Nodes(path)))
<1> DEFINE Q == Below(path, P, r)
           c == Cardinality(Q)
<1>1. /\ Forest(path) /\ K \in Nat /\ forced \in SUBSET DOMAIN path /\ free \in SUBSET DOMAIN path
      /\ forced \in SUBSET P /\ P \in SUBSET (forced \cup free)
  BY ONLY Placing(path, K, forced, free, P), PlacingFacts
<1>2. c \in RootCounts(path, r, K, forced, free) /\ c \in 0 .. Limit(path, K, forced, free, r)
  BY CountOfRoot
<1>3. /\ Q \in SUBSET (forced \cup free) /\ \A d \in Q : IsPrefix(r, path[d])
      /\ \A d \in forced : IsPrefix(r, path[d]) => d \in Q
  BY <1>1 DEF Below
<1>4. Cardinality(Splits(path, Q, Nodes(path))) < impossiblePCICost
  <2>1. {r} \in SUBSET Roots(path) /\ r \in {r}
    OBVIOUS
  <2> QED BY <2>1, OneMoreRoot
<1> HIDE DEF Q
<1>5. Placed(path, r, c, forced, free, Q)
  <2>1. c \in Nat
    BY <1>2
  <2>2. r \in Nodes(path)
    BY DEF Roots
  <2> QED BY <1>1, <1>3, <1>4, <2>1, <2>2 DEF Placed
<1>6. pciSubtreeCosts(path, r, c, forced, free)[c] <= Cardinality(Splits(path, Q, Nodes(path)))
  <2> HIDE DEF c
  <2> QED BY <1>3, <1>5, SubtreeBound
<1>7. RootCosts(path, r, K, forced, free)[c] = pciSubtreeCosts(path, r, c, forced, free)[c]
  <2> HIDE DEF c
  <2> QED BY <1>2 DEF RootCosts, Limit
<1> QED
  BY <1>6, <1>7 DEF Q

\* The cost of the forest is not above that of the devices chosen.
LEMMA ForestBound ==
    ASSUME NEW path, NEW K, NEW forced, NEW free, NEW P, Placing(path, K, forced, free, P)
    PROVE  /\ pciLowerBound(path, K, forced, free) \in Placement
           /\ NotAbove(pciLowerBound(path, K, forced, free), Cardinality(Cross(path, P)), Cardinality(Within(path, P)))
<1> DEFINE T == Occupied(path, forced, free)
           N(U) == Cardinality(Under(path, P, U))
           X(U) == Cardinality(Cross(path, Under(path, P, U)))
           W(U) == Cardinality(Within(path, Under(path, P, U)))
           c(r) == Cardinality(Below(path, P, r))
           S(r) == Cardinality(Splits(path, Below(path, P, r), Nodes(path)))
           rc(r) == RootCosts(path, r, K, forced, free)
           l(r) == Limit(path, K, forced, free, r)
<1>1. /\ Forest(path) /\ K \in Nat /\ forced \in SUBSET DOMAIN path /\ free \in SUBSET DOMAIN path
      /\ P \in SUBSET (forced \cup free) /\ Cardinality(P) = K /\ IsFiniteSet(P)
      /\ \A d \in forced \cup free : path[d] # NoPath /\ path[d] \in Seq(Nat)
      /\ \A Q \in SUBSET P : Cardinality(Q) \in Nat /\ Cardinality(Within(path, Q)) \in Nat
  <2>1. /\ Forest(path) /\ DOMAIN path \subseteq Nat /\ K \in Nat
        /\ forced \in SUBSET DOMAIN path /\ free \in SUBSET DOMAIN path
        /\ forced \in SUBSET P /\ P \in SUBSET (forced \cup free) /\ Cardinality(P) = K
        /\ IsFiniteSet(P) /\ \A d \in forced \cup free : path[d] # NoPath /\ path[d] \in Seq(Nat) /\ d \in Nat
    BY ONLY Placing(path, K, forced, free, P), PlacingFacts
  <2>2. \A Q \in SUBSET P : /\ IsFiniteSet(Q) /\ Cardinality(Q) \in Nat
                             /\ IsFiniteSet(Within(path, Q)) /\ Cardinality(Within(path, Q)) \in Nat
                             /\ Cardinality(Within(path, Q)) < impossiblePCICost
    BY PlacingPart
  <2> QED BY <2>1, <2>2
<1>2. PICK h : pciLowerBound(path, K, forced, free) = h[T][K] /\ IsForest(path, K, forced, free, T, h)
  BY <1>1, RootsFold
<1>3. IsFiniteSet(T) /\ T \in SUBSET Roots(path) /\ \A r \in T : r \in Nodes(path)
  <2>1. T \in SUBSET Nodes(path) /\ T \in SUBSET Roots(path)
    BY DEF Occupied, Roots
  <2>2. IsFiniteSet(Nodes(path))
    BY <1>1, NodesAre
  <2> HIDE DEF T
  <2> QED BY <2>1, <2>2, FS_Subset
<1>4. \A U \in SUBSET T : h[U] \in [0 .. K -> Placement]
  BY <1>2 DEF IsForest
<1>5. \A U : N(U) \in Nat /\ N(U) <= K /\ W(U) \in Nat
  <2>1. \A U : Under(path, P, U) \in SUBSET P
    BY DEF Under
  <2>2. \A U : N(U) <= K
    BY <1>1, <2>1, FS_Subset
  <2> QED BY <1>1, <2>1, <2>2
<1> DEFINE Bad == {U \in SUBSET T : ~NotAbove(h[U][N(U)], X(U), W(U))}
<1>6. Bad = {}
  <2>1. SUFFICES ASSUME Bad # {} PROVE FALSE
    OBVIOUS
  <2>2. Bad \subseteq SUBSET T
    OBVIOUS
  <2>3. PICK U \in Bad : \A V \in Bad : V \subseteq U => V = U
    <3> HIDE DEF Bad, T
    <3> QED BY ONLY <1>3, <2>1, <2>2, MinimalSet
  <2>4. CASE U = {}
    <3>1. Under(path, P, {}) = {} /\ Cross(path, {}) = {} /\ Within(path, {}) = {}
      BY DEF Under, Cross, Within, Splits
    <3>2. N({}) = 0 /\ X({}) = 0 /\ W({}) = 0
      BY <3>1, FS_EmptySet
    <3>3. h[{}] = Unplaced(K) /\ 0 \in 0 .. K
      BY <1>1, <1>2 DEF IsForest
    <3>4. Unplaced(K)[0] = [valid |-> TRUE, separateRoots |-> 0, totalDistance |-> 0]
      BY <3>3 DEF Unplaced, Invalid
    <3>5. NotAbove(Unplaced(K)[0], 0, 0)
      BY <3>4 DEF NotAbove
    <3>6. NotAbove(h[U][N(U)], X(U), W(U))
      <4> HIDE DEF N, X, W
      <4> QED BY <2>4, <3>2, <3>3, <3>5
    <3> QED BY <3>6
  <2>5. CASE U # {}
    <3>1. PICK r \in U : h[U] = MergeRoot(h[U \ {r}], rc(r))
      <4> HIDE DEF Bad
      <4> QED BY <1>2, <2>2, <2>5 DEF IsForest
    <3> DEFINE V == U \ {r}
    <3>2. r \in T /\ U \in SUBSET T /\ V \in SUBSET T /\ U \in SUBSET Roots(path) /\ r \in Roots(path) /\ r \in Nodes(path)
      <4> HIDE DEF T
      <4> QED BY <1>3
    <3>3. /\ c(r) \in Nat /\ N(V) \in Nat /\ N(U) = N(V) + c(r) /\ X(U) = X(V) + N(V) * c(r) /\ W(U) = W(V) + S(r)
          /\ X(V) \in Nat /\ S(r) \in Nat /\ S(r) < impossiblePCICost
      BY <3>2, OneMoreRoot
    <3>4. NotAbove(h[V][N(V)], X(V), W(V))
      <4>1. V \notin Bad
        <5> HIDE DEF Bad
        <5> QED BY <2>3
      <4> HIDE DEF N, X, W
      <4> QED BY <3>2, <4>1
    <3>5. rc(r)[c(r)] <= S(r) /\ c(r) \in 0 .. l(r)
      BY <3>2, RootBound, CountOfRoot
    <3>6. l(r) \in Nat /\ rc(r) \in [0 .. l(r) -> Nat] /\ h[V] \in [0 .. K -> Placement]
      <4>1. l(r) \in Nat /\ rc(r) \in [0 .. l(r) -> Nat]
        BY <1>1, <3>2, LimitIs, RootCostsType
      <4> HIDE DEF rc, l, V, T
      <4> QED BY <1>4, <3>2, <4>1
    <3> DEFINE M == MergeRoot(h[V], rc(r))
    <3>7. \A n \in 0 .. K : \A m \in 0 .. l(r) :
                m <= n /\ h[V][n - m].valid /\ rc(r)[m] # impossiblePCICost =>
                  NotAbove(M[n], h[V][n - m].separateRoots + (n - m) * m, h[V][n - m].totalDistance + rc(r)[m])
      <4> HIDE DEF l, rc, V
      <4> QED BY <1>1, <3>6, MergeRootIs
    <3>8. M \in [0 .. K -> Placement]
      <4> HIDE DEF l, rc, V
      <4> QED BY <1>1, <3>6, MergeRootIs
    <3>9. N(U) \in 0 .. K /\ N(V) \in 0 .. K
      <4> HIDE DEF N
      <4> QED BY <1>1, <1>5
    <3>10. W(V) \in Nat
      <4> HIDE DEF W
      <4> QED BY <1>5
    <3> HIDE DEF M, V, N, X, W, S, l, rc, c, Bad
    <3>11. c(r) <= N(U) /\ N(U) - c(r) = N(V)
      BY <3>3
    <3>12. rc(r)[c(r)] \in Nat /\ h[V][N(V)] \in Placement /\ M[N(U)] \in Placement
      BY <3>5, <3>6, <3>8, <3>9
    <3>13. rc(r)[c(r)] # impossiblePCICost
      BY <3>3, <3>5, <3>12, CostAssumption
    <3> DEFINE y == h[V][N(V)]
               z == M[N(U)]
    <3>14. NotAbove(z, y.separateRoots + N(V) * c(r), y.totalDistance + rc(r)[c(r)])
      <4>1. y.valid
        BY <3>4 DEF NotAbove
      <4>2. h[V][N(U) - c(r)].valid
        BY <3>11, <4>1
      <4>3. NotAbove(M[N(U)], h[V][N(U) - c(r)].separateRoots + (N(U) - c(r)) * c(r),
                     h[V][N(U) - c(r)].totalDistance + rc(r)[c(r)])
        BY <3>5, <3>7, <3>9, <3>11, <3>13, <4>2
      <4> QED BY <3>11, <4>3
    <3>15. N(V) * c(r) \in Nat
      BY <3>3
    <3>16. /\ y.separateRoots \in Nat /\ y.totalDistance \in Nat /\ z.separateRoots \in Nat /\ z.totalDistance \in Nat
      BY <3>12 DEF Placement
    <3>17. /\ z.valid
           /\ \/ z.separateRoots < y.separateRoots + N(V) * c(r)
              \/ z.separateRoots = y.separateRoots + N(V) * c(r) /\ z.totalDistance <= y.totalDistance + rc(r)[c(r)]
           /\ y.separateRoots < X(V) \/ (y.separateRoots = X(V) /\ y.totalDistance <= W(V))
      BY <3>4, <3>14 DEF NotAbove
    <3> HIDE DEF y, z
    <3>18. \A zs, zt, ys, yt, p, t, xv, wv, sr \in Nat :
             /\ zs < ys + p \/ (zs = ys + p /\ zt <= yt + t)
             /\ ys < xv \/ (ys = xv /\ yt <= wv)
             /\ t <= sr
             => zs < xv + p \/ (zs = xv + p /\ zt <= wv + sr)
      OBVIOUS
    <3>19. z.separateRoots < X(V) + N(V) * c(r) \/ (z.separateRoots = X(V) + N(V) * c(r) /\ z.totalDistance <= W(V) + S(r))
      BY ONLY <3>3, <3>5, <3>10, <3>12, <3>15, <3>16, <3>17, <3>18
    <3>20. NotAbove(z, X(U), W(U))
      BY <3>3, <3>17, <3>19 DEF NotAbove
    <3>21. NotAbove(h[U][N(U)], X(U), W(U))
      BY <3>1, <3>20 DEF z, M, V
    <3> QED BY <3>21 DEF Bad
  <2> QED BY <2>4, <2>5
<1>7. Under(path, P, T) = P
  <2>1. ASSUME NEW d \in P PROVE \E r \in T : IsPrefix(r, path[d])
    <3>1. d \in DOMAIN path /\ path[d] # NoPath /\ d \in forced \cup free
      BY <1>1
    <3>2. PICK r \in Roots(path) : IsPrefix(r, path[d])
      BY <1>1, <3>1, HasRoot
    <3>3. d \in Below(path, forced \cup free, r)
      BY <3>1, <3>2 DEF Below
    <3> QED BY <3>2, <3>3 DEF Occupied
  <2> HIDE DEF T
  <2> QED BY <2>1 DEF Under
<1>8. NotAbove(h[T][N(T)], X(T), W(T))
  <2>1. T \in SUBSET T /\ T \notin Bad
    BY <1>6
  <2> HIDE DEF T, N, X, W
  <2> QED BY <2>1
<1>9. pciLowerBound(path, K, forced, free) \in Placement
  BY <1>1, LowerBoundType
<1> QED
  BY <1>1, <1>2, <1>7, <1>8, <1>9

-----------------------------------------------------------------------------
(* The splits under the roots are the total distance *)

\* The endpoints of some devices of a table.
Endpoints(t, avail) == [d \in avail |-> Path(t, d)]

LEMMA EndpointsFacts ==
    ASSUME NEW t \in Seq(Device), NEW avail \in SUBSET DOMAIN t
    PROVE  /\ Forest(Endpoints(t, avail)) /\ DOMAIN Endpoints(t, avail) = avail
           /\ avail \in SUBSET Nat
           /\ \A d \in avail : Endpoints(t, avail)[d] = Path(t, d) /\ Path(t, d) \in Seq(Nat)
<1>1. IsFiniteSet(avail) /\ avail \in SUBSET Nat /\ \A d \in avail : Path(t, d) \in Seq(Nat)
  BY TableFacts
<1> QED
  BY <1>1 DEF Endpoints, Forest

\* What splits the devices of a linked pair, one from the other.
Fibre(path, Q, p) == {x \in Within(path, Q) : PairOf(x[2][1], x[2][2]) = p}

LEMMA FibreIsHops ==
    ASSUME NEW t \in Seq(Device), NEW avail \in SUBSET DOMAIN t, NEW S \in SUBSET avail, NEW p \in Linked(t, S)
    PROVE  LET F == Fibre(Endpoints(t, avail), Known(t, S), p)
           IN  IsFiniteSet(F) /\ Cardinality(F) = HopsOf(t, p)
<1> DEFINE path == Endpoints(t, avail)
           Q == Known(t, S)
           F == Fibre(path, Q, p)
<1>1. /\ Forest(path) /\ DOMAIN path = avail /\ avail \in SUBSET Nat
      /\ \A d \in avail : path[d] = Path(t, d) /\ Path(t, d) \in Seq(Nat)
  BY EndpointsFacts
<1>2. PICK d0 \in Q, e0 \in Q : p = <<d0, e0>> /\ d0 < e0 /\ Path(t, d0)[1] = Path(t, e0)[1]
  BY DEF Linked, Pairs
<1> DEFINE v == Path(t, d0)
           w == Path(t, e0)
           D == SymDiff(Prefixes(v), Prefixes(w))
<1>3. Q \in SUBSET avail /\ \A d \in Q : path[d] = Path(t, d) /\ path[d] \in Seq(Nat)
  BY <1>1 DEF Known
<1> HIDE DEF path, Q
<1>4. d0 \in Nat /\ e0 \in Nat /\ d0 # e0 /\ v \in Seq(Nat) /\ w \in Seq(Nat) /\ path[d0] = v /\ path[e0] = w
  BY <1>1, <1>2, <1>3
<1>5. IsFiniteSet(F)
  <2>1. F \in SUBSET Splits(path, Q, Nodes(path))
    BY DEF Fibre, Within
  <2>2. IsFiniteSet(Q) /\ IsFiniteSet(Nodes(path))
    BY <1>1, <1>3, FS_Subset, NodesAre DEF Forest
  <2> QED BY <2>1, <2>2, SplitsFinite, FS_Subset
<1>6. \A u : /\ u \in Prefixes(v) <=> u \in Seq(Nat) /\ IsPrefix(u, v)
             /\ u \in Prefixes(w) <=> u \in Seq(Nat) /\ IsPrefix(u, w)
  BY <1>4, PrefixesAre
<1> DEFINE x1(u) == <<u, <<d0, e0>> >>
           x2(u) == <<u, <<e0, d0>> >>
<1>7. ASSUME NEW x \in F
      PROVE  /\ x[1] \in Seq(Nat)
             /\ \/ x = x1(x[1]) /\ IsPrefix(x[1], v) /\ ~IsPrefix(x[1], w)
                \/ x = x2(x[1]) /\ IsPrefix(x[1], w) /\ ~IsPrefix(x[1], v)
  <2>0. x \in Splits(path, Q, Nodes(path)) /\ PairOf(x[2][1], x[2][2]) = p
    BY DEF Fibre, Within
  <2>1. PICK u \in Nodes(path), d \in Q, e \in Q : x = <<u, <<d, e>> >>
    BY <2>0 DEF Splits
  <2>2. IsPrefix(u, path[d]) /\ ~IsPrefix(u, path[e]) /\ PairOf(d, e) = <<d0, e0>>
    BY <1>2, <2>0, <2>1 DEF Splits
  <2>3. PairOf(d, e) \in {<<d, e>>, <<e, d>>}
    BY DEF PairOf
  <2>4. (d = d0 /\ e = e0) \/ (d = e0 /\ e = d0)
    BY <2>2, <2>3
  <2>5. u \in Seq(Nat)
    BY <1>1, NodesAre
  <2> QED BY <1>4, <2>1, <2>2, <2>4, <2>5
<1>8. ASSUME NEW u \in D
      PROVE  x1(u) \in F \/ x2(u) \in F
  <2>1. u \in Seq(Nat) /\ ((IsPrefix(u, v) /\ ~IsPrefix(u, w)) \/ (IsPrefix(u, w) /\ ~IsPrefix(u, v)))
    BY <1>6 DEF SymDiff
  <2>2. u # NoPath
    <3>1. <<>> \in Seq(Nat) /\ Len(<<>>) = 0
      OBVIOUS
    <3>2. IsPrefix(<<>>, v) /\ IsPrefix(<<>>, w)
      <4>1. PICK z : z = <<>>
        OBVIOUS
      <4>2. z \in Seq(Nat) /\ Len(z) = 0 /\ 1 .. Len(z) = {} /\ Len(z) <= Len(v) /\ Len(z) <= Len(w)
        BY <1>4, <3>1, <4>1
      <4>3. IsPrefix(z, v) /\ IsPrefix(z, w)
        BY <1>4, <4>2, PrefixIs
      <4> QED BY <4>1, <4>3
    <3> QED BY <2>1, <3>2 DEF NoPath
  <2>3. u \in Nodes(path)
    <3>1. d0 \in DOMAIN path /\ e0 \in DOMAIN path
      BY <1>1, <1>3
    <3> QED BY <1>1, <1>4, <2>1, <2>2, <3>1, NodesAre
  <2>4. PairOf(d0, e0) = p /\ PairOf(e0, d0) = p
    BY <1>2, <1>4 DEF PairOf
  <2>5. CASE IsPrefix(u, v) /\ ~IsPrefix(u, w)
    <3>1. x1(u) \in Splits(path, Q, Nodes(path))
      BY <1>4, <2>3, <2>5 DEF Splits
    <3>2. x1(u) \in Within(path, Q)
      BY <1>2, <1>4, <3>1 DEF Within
    <3> QED BY <2>4, <3>2 DEF Fibre
  <2>6. CASE IsPrefix(u, w) /\ ~IsPrefix(u, v)
    <3>1. x2(u) \in Splits(path, Q, Nodes(path))
      BY <1>4, <2>3, <2>6 DEF Splits
    <3>2. x2(u) \in Within(path, Q)
      BY <1>2, <1>4, <3>1 DEF Within
    <3> QED BY <2>4, <3>2 DEF Fibre
  <2> QED BY <2>1, <2>5, <2>6
<1> DEFINE f == [x \in F |-> x[1]]
<1>9. f \in [F -> D]
  <2>1. \A x \in F : x[1] \in D
    BY <1>6, <1>7 DEF SymDiff
  <2> HIDE DEF F, D
  <2> QED BY <2>1
<1>10. \A x, y \in F : f[x] = f[y] => x = y
  <2> HIDE DEF F, x1, x2
  <2> QED BY <1>7
<1>11. \A u \in D : \E x \in F : f[x] = u
  <2>1. SUFFICES ASSUME NEW u \in D PROVE \E x \in F : f[x] = u
    OBVIOUS
  <2>2. x1(u)[1] = u /\ x2(u)[1] = u
    OBVIOUS
  <2> HIDE DEF F, D, x1, x2
  <2> QED BY <1>8, <2>2
<1> HIDE DEF f, F, D
<1>12. IsFiniteSet(D) /\ Cardinality(D) = Cardinality(F)
  BY <1>5, <1>9, <1>10, <1>11, ImageCardinality
<1>13. HopsOf(t, p) = Cardinality(D)
  BY <1>2 DEF HopsOf, Hops, D
<1> QED
  BY <1>5, <1>12, <1>13 DEF F, Q, path

\* What splits the devices of S, one from another under the same root, is
\* counted by the total distance of S.
LEMMA WithinIsDistance ==
    ASSUME NEW t \in Seq(Device), NEW avail \in SUBSET DOMAIN t, NEW S \in SUBSET avail
    PROVE  LET path == Endpoints(t, avail)
           IN  /\ IsFiniteSet(Within(path, Known(t, S)))
               /\ Cardinality(Within(path, Known(t, S))) = Score(t, S).totalDistance
               /\ Cross(path, Known(t, S)) = Pairs(t, S) \ Linked(t, S)
<1> DEFINE path == Endpoints(t, avail)
           Q == Known(t, S)
           W == Within(path, Q)
           L == Linked(t, S)
           hop == [p \in L |-> HopsOf(t, p)]
           G(T) == {x \in W : PairOf(x[2][1], x[2][2]) \in T}
<1>1. /\ Forest(path) /\ DOMAIN path = avail /\ avail \in SUBSET Nat
      /\ \A d \in avail : path[d] = Path(t, d) /\ Path(t, d) \in Seq(Nat)
  BY EndpointsFacts
<1>2. Q \in SUBSET avail /\ \A d \in Q : path[d] = Path(t, d) /\ d \in Nat
  BY <1>1 DEF Known
<1>3. S \in SUBSET DOMAIN t
  OBVIOUS
<1>4. IsFiniteSet(L) /\ \A p \in L : hop[p] \in Nat
  BY <1>3, PairsFinite
<1>5. IsFiniteSet(W)
  <2> HIDE DEF path, Q
  <2>1. W \in SUBSET Splits(path, Q, Nodes(path))
    BY DEF Within
  <2>2. IsFiniteSet(Q) /\ IsFiniteSet(Nodes(path))
    BY <1>1, <1>2, FS_Subset, NodesAre DEF Forest
  <2> QED BY <2>1, <2>2, SplitsFinite, FS_Subset
<1>6. Cross(path, Q) = Pairs(t, S) \ L
  <2>1. \A d, e \in Q : path[d] = Path(t, d) /\ path[e] = Path(t, e)
    BY <1>2
  <2> HIDE DEF path
  <2> QED BY <2>1 DEF Cross, Pairs, Linked
<1>7. \A x \in W : PairOf(x[2][1], x[2][2]) \in L
  <2>1. SUFFICES ASSUME NEW x \in W PROVE PairOf(x[2][1], x[2][2]) \in L
    OBVIOUS
  <2> HIDE DEF path
  <2>2. PICK u \in Nodes(path), d \in Q, e \in Q : x = <<u, <<d, e>> >>
    BY DEF Within, Splits
  <2>3. path[d][1] = path[e][1] /\ IsPrefix(u, path[d]) /\ ~IsPrefix(u, path[e])
    BY <2>2 DEF Within, Splits
  <2>4. d # e /\ d \in Nat /\ e \in Nat /\ Path(t, d)[1] = Path(t, e)[1]
    BY <1>2, <2>3
  <2>5. d < e \/ e < d
    BY <2>4
  <2>6. PairOf(d, e) \in L
    BY <2>4, <2>5 DEF PairOf, Linked, Pairs
  <2> QED BY <2>2, <2>6
<1>8. ASSUME NEW p \in L
      PROVE  IsFiniteSet(G({p})) /\ Cardinality(G({p})) = hop[p]
  <2>1. G({p}) = Fibre(path, Q, p)
    BY DEF Fibre
  <2>2. IsFiniteSet(Fibre(path, Q, p)) /\ Cardinality(Fibre(path, Q, p)) = HopsOf(t, p)
    BY FibreIsHops
  <2> QED BY <2>1, <2>2
<1>9. \A T : IsFiniteSet(G(T))
  <2>1. \A T : G(T) \in SUBSET W
    OBVIOUS
  <2> HIDE DEF W, G
  <2> QED BY <1>5, <2>1, FS_Subset
<1>10. \A T, V : V \cap T = {} => G(V \cup T) = G(V) \cup G(T) /\ G(V) \cap G(T) = {}
  <2> HIDE DEF W
  <2> QED OBVIOUS
<1>11. G({}) = {}
  OBVIOUS
<1>12. G(L) = W
  <2> HIDE DEF W, L
  <2> QED BY <1>7
<1> HIDE DEF path, Q, W, G, L
<1> DEFINE B == {T \in SUBSET L : Cardinality(G(T)) # Cardinality(Units(hop, T))}
<1>13. B = {}
  <2> HIDE DEF hop
  <2>1. SUFFICES ASSUME B # {} PROVE FALSE
    OBVIOUS
  <2>2. B \subseteq SUBSET L
    OBVIOUS
  <2>3. PICK T \in B : \A V \in B : V \subseteq T => V = T
    <3> HIDE DEF B
    <3> QED BY ONLY <1>4, <2>1, <2>2, MinimalSet
  <2>4. CASE T = {}
    <3>1. Units(hop, {}) = {}
      BY DEF Units
    <3> QED BY <1>11, <2>4, <3>1
  <2>5. CASE T # {}
    <3>1. PICK p \in T : TRUE
      BY <2>5
    <3> DEFINE V == T \ {p}
    <3>2. p \in L /\ V \in SUBSET L /\ p \notin V /\ V \cup {p} = T /\ V \cap {p} = {}
      OBVIOUS
    <3>3. Cardinality(G(V)) = Cardinality(Units(hop, V))
      BY <2>3, <3>2
    <3>4. IsFiniteSet(Units(hop, V))
      BY <1>4, <3>2, UnitsFinite
    <3> HIDE DEF V
    <3>5. Cardinality(Units(hop, T)) = hop[p] + Cardinality(Units(hop, V))
      <4>1. hop[p] \in Nat
        BY <1>4, <3>2
      <4>2. Cardinality(Units(hop, V \cup {p})) = hop[p] + Cardinality(Units(hop, V))
        BY <3>2, <3>4, <4>1, UnitsAdd
      <4> QED BY <3>2, <4>2
    <3>6. G(T) = G(V) \cup G({p}) /\ G(V) \cap G({p}) = {}
      BY <1>10, <3>2
    <3>7. Cardinality(G(T)) = Cardinality(G(V)) + Cardinality(G({p}))
      BY <1>9, <3>6, DisjointUnion
    <3>8. Cardinality(G({p})) = hop[p]
      BY <1>8, <3>2
    <3>9. Cardinality(Units(hop, V)) \in Nat /\ hop[p] \in Nat
      BY <1>4, <3>2, UnitsFinite
    <3>10. Cardinality(G(T)) = Cardinality(Units(hop, T))
      BY <3>3, <3>5, <3>7, <3>8, <3>9
    <3> QED BY <3>10
  <2> QED BY <2>4, <2>5
<1>14. Cardinality(W) = Cardinality(Units(hop, L))
  <2>1. L \notin B /\ L \in SUBSET L
    BY <1>13
  <2> HIDE DEF hop
  <2> QED BY <1>12, <2>1
<1>15. Sum(hop) = Cardinality(Units(hop, L))
  <2>1. DOMAIN hop = L
    OBVIOUS
  <2> HIDE DEF hop
  <2> QED BY <1>4, <2>1, SumIsCount DEF Sum
<1>16. Score(t, S).totalDistance = Sum(hop)
  BY ScoreParts DEF L
<1> QED
  BY <1>5, <1>6, <1>14, <1>15, <1>16 DEF W, path, Q, L

\* Fewer devices, less distance.
LEMMA DistanceMonotone ==
    ASSUME NEW t \in Seq(Device), NEW avail \in SUBSET DOMAIN t, NEW S \in SUBSET avail
    PROVE  Score(t, S).totalDistance <= Score(t, avail).totalDistance
<1> DEFINE path == Endpoints(t, avail)
<1>1. /\ Cardinality(Within(path, Known(t, S))) = Score(t, S).totalDistance
      /\ IsFiniteSet(Within(path, Known(t, avail)))
      /\ Cardinality(Within(path, Known(t, avail))) = Score(t, avail).totalDistance
  <2>1. avail \in SUBSET avail
    OBVIOUS
  <2> QED BY <2>1, WithinIsDistance
<1> HIDE DEF path
<1>2. Within(path, Known(t, S)) \in SUBSET Within(path, Known(t, avail))
  BY DEF Within, Splits, Known
<1> QED
  BY <1>1, <1>2, FS_Subset

-----------------------------------------------------------------------------
(* The bounds of the fields, for the devices C and the completion R of them *)

\* The chosen devices C and some later candidates R.
Completion(t, avail, C, rest, R) ==
    /\ t \in Seq(Device) /\ avail \in SUBSET DOMAIN t
    /\ C \in SUBSET avail /\ rest \in SUBSET avail /\ C \cap rest = {}
    /\ R \in SUBSET rest /\ R # {}

LEMMA CompletionSizes ==
    ASSUME NEW t, NEW avail, NEW C, NEW rest, NEW R, Completion(t, avail, C, rest, R)
    PROVE  /\ IsFiniteSet(C) /\ IsFiniteSet(R) /\ IsFiniteSet(rest) /\ IsFiniteSet(C \cup R)
           /\ Cardinality(C) \in Nat /\ Cardinality(R) \in Nat /\ Cardinality(R) # 0
           /\ Cardinality(C \cup R) = Cardinality(C) + Cardinality(R)
<1>1. /\ t \in Seq(Device) /\ C \in SUBSET DOMAIN t /\ R \in SUBSET DOMAIN t /\ rest \in SUBSET DOMAIN t
      /\ C \cap R = {} /\ R # {}
  BY DEF Completion
<1>2. IsFiniteSet(C) /\ IsFiniteSet(R) /\ IsFiniteSet(rest)
  BY <1>1, TableFacts
<1>3. IsFiniteSet(C \cup R) /\ Cardinality(C \cup R) = Cardinality(C) + Cardinality(R)
  BY <1>1, <1>2, DisjointUnion
<1>4. Cardinality(C) \in Nat /\ Cardinality(R) \in Nat
  BY <1>2, FS_CardinalityType
<1>5. Cardinality(R) # 0
  BY <1>1, <1>2, FS_EmptySet
<1> QED
  BY <1>2, <1>3, <1>4, <1>5

LEMMA MaxOfTwo ==
    ASSUME NEW m \in Int, NEW n \in Int
    PROVE  /\ Max({m, n}) \in {m, n} /\ Max({m, n}) \in Int /\ m <= Max({m, n}) /\ n <= Max({m, n})
           /\ \A x \in Int : m <= x /\ n <= x => Max({m, n}) <= x
<1>1. CASE m <= n
  <2>1. {m, n} \in SUBSET Int /\ n \in {m, n} /\ \A x \in {m, n} : x <= n
    BY <1>1
  <2>2. Max({m, n}) = n
    BY <2>1, MaxIs
  <2> QED BY <1>1, <2>2
<1>2. CASE ~(m <= n)
  <2>1. {m, n} \in SUBSET Int /\ m \in {m, n} /\ \A x \in {m, n} : x <= m
    BY <1>2
  <2>2. Max({m, n}) = m
    BY <2>1, MaxIs
  <2> QED BY <1>2, <2>2
<1> QED
  BY <1>1, <1>2

\* When only the candidates K have what a device needs, the others of R lack it.
LEMMA MissingBound ==
    ASSUME NEW C, IsFiniteSet(C), NEW rest, IsFiniteSet(rest), NEW R \in SUBSET rest, C \cap R = {},
           NEW A \in SUBSET C, NEW K \in SUBSET rest
    PROVE  LET m == Max({0, Cardinality(R) - Cardinality(K)})
           IN  /\ m \in Nat /\ m <= Cardinality(R)
               /\ Cardinality(A) \in Nat
               /\ Cardinality(A) + m <= Cardinality(A \cup (R \ K))
<1>1. IsFiniteSet(R) /\ IsFiniteSet(K) /\ IsFiniteSet(A)
  BY FS_Subset
<1>2. Cardinality(R) \in Nat /\ Cardinality(K) \in Nat /\ Cardinality(A) \in Nat
  BY <1>1, FS_CardinalityType
<1>3. PICK U : U = R \ K
  OBVIOUS
<1>4. IsFiniteSet(U) /\ Cardinality(U) = Cardinality(R) - Cardinality(R \cap K) /\ Cardinality(U) \in Nat
  BY <1>1, <1>3, FS_Difference, FS_CardinalityType
<1>5. Cardinality(R \cap K) <= Cardinality(K) /\ Cardinality(R \cap K) \in Nat
  <2>1. PICK I : I = R \cap K
    OBVIOUS
  <2>2. I \in SUBSET K
    BY <2>1
  <2>3. IsFiniteSet(I) /\ Cardinality(I) <= Cardinality(K) /\ Cardinality(I) \in Nat
    BY <1>1, <2>2, FS_Subset, FS_CardinalityType
  <2> QED BY <2>1, <2>3
<1>6. A \cap U = {}
  BY <1>3
<1>7. Cardinality(A \cup U) = Cardinality(A) + Cardinality(U)
  BY <1>1, <1>4, <1>6, DisjointUnion
<1>8. Max({0, Cardinality(R) - Cardinality(K)}) \in {0, Cardinality(R) - Cardinality(K)} /\
      0 <= Max({0, Cardinality(R) - Cardinality(K)}) /\ Max({0, Cardinality(R) - Cardinality(K)}) \in Int
  <2>1. PICK z : z = Cardinality(R) - Cardinality(K)
    OBVIOUS
  <2>2. z \in Int /\ 0 \in Int
    BY <1>2, <2>1
  <2>3. Max({0, z}) \in {0, z} /\ 0 <= Max({0, z}) /\ Max({0, z}) \in Int
    BY ONLY <2>2, MaxOfTwo
  <2> QED BY <2>1, <2>3
<1> QED
  BY <1>2, <1>3, <1>4, <1>5, <1>7, <1>8

\* The unknown NUMA nodes and the unknown PCI paths.
\* The devices with a NUMA node.
Homed(t, S) == {d \in S : t[d].numa >= 0}

LEMMA UnknownBound ==
    ASSUME NEW t, NEW avail, NEW C, NEW rest, NEW R, Completion(t, avail, C, rest, R)
    PROVE  LET n == Max({0, Cardinality(R) - Cardinality(Homed(t, rest))})
               p == Max({0, Cardinality(R) - Cardinality(Known(t, rest))})
           IN  /\ n \in Nat /\ p \in Nat /\ p <= Cardinality(R)
               /\ Score(t, C).unknownNUMA + n <= Score(t, C \cup R).unknownNUMA
               /\ Score(t, C).unknownPCI + p <= Score(t, C \cup R).unknownPCI
<1> DEFINE n == Max({0, Cardinality(R) - Cardinality(Homed(t, rest))})
           p == Max({0, Cardinality(R) - Cardinality(Known(t, rest))})
<1>1. /\ t \in Seq(Device) /\ C \in SUBSET DOMAIN t /\ R \in SUBSET DOMAIN t
      /\ C \cup R \in SUBSET DOMAIN t /\ R \in SUBSET rest /\ C \cap R = {}
      /\ IsFiniteSet(C) /\ IsFiniteSet(rest) /\ rest \in SUBSET DOMAIN t
  BY CompletionSizes DEF Completion
<1>2. \A d \in DOMAIN t : t[d].numa \in Int
  BY <1>1, TableFacts DEF Device
<1> DEFINE A == {d \in C : t[d].numa < 0}
           K == Homed(t, rest)
           B == C \ Known(t, C)
           L == Known(t, rest)
<1>3. {d \in C \cup R : t[d].numa < 0} = A \cup (R \ K)
  <2>1. \A d \in R : d \in rest /\ (t[d].numa < 0 <=> ~(t[d].numa >= 0))
    BY <1>1, <1>2
  <2> QED BY <2>1 DEF Homed
<1>4. (C \cup R) \ Known(t, C \cup R) = B \cup (R \ L)
  BY <1>1 DEF Known
<1>5. A \in SUBSET C /\ B \in SUBSET C /\ K \in SUBSET rest /\ L \in SUBSET rest
  BY DEF Homed, Known
<1>6. n \in Nat /\ Cardinality(A) + n <= Cardinality(A \cup (R \ K))
  <2> HIDE DEF A, K
  <2> QED BY <1>1, <1>5, MissingBound DEF K
<1>7. p \in Nat /\ p <= Cardinality(R) /\ Cardinality(B) + p <= Cardinality(B \cup (R \ L))
  <2> HIDE DEF B, L
  <2> QED BY <1>1, <1>5, MissingBound DEF L
<1>8. Score(t, C).unknownNUMA = Cardinality(A) /\ Score(t, C \cup R).unknownNUMA = Cardinality(A \cup (R \ K))
  BY <1>3, ScoreParts
<1>9. Score(t, C).unknownPCI = Cardinality(B) /\ Score(t, C \cup R).unknownPCI = Cardinality(B \cup (R \ L))
  BY <1>4, ScoreParts
<1> QED
  BY <1>6, <1>7, <1>8, <1>9

LEMMA NumaBound ==
    ASSUME NEW t, NEW avail, NEW C, NEW rest, NEW R, Completion(t, avail, C, rest, R)
    PROVE  Score(t, C).numaNodes <= Score(t, C \cup R).numaNodes
<1> DEFINE S == C \cup R
           f == [d \in S |-> t[d].numa]
           X == {t[d].numa : d \in C} \ {-1}
           Y == {t[d].numa : d \in S} \ {-1}
<1>1. IsFiniteSet(S)
  BY CompletionSizes DEF Completion
<1>2. IsFiniteSet({f[d] : d \in S})
  <2>1. f = [d \in S |-> f[d]]
    OBVIOUS
  <2> HIDE DEF f, S
  <2> QED BY <1>1, <2>1, ImageFinite
<1>3. Y \in SUBSET {f[d] : d \in S} /\ X \in SUBSET Y
  OBVIOUS
<1> HIDE DEF X, Y
<1>4. Cardinality(X) <= Cardinality(Y)
  BY <1>2, <1>3, FS_Subset
<1> QED
  BY <1>4, ScoreParts DEF X, Y

\* A completion opens groups that have room for what the open ones do not hold.
\* The groups of devices, and the fewest of some open ones that hold as many of
\* rest as are needed.
Keys(t, S) == {sidKey(t, d) : d \in S}
Holding(t, S, H) == {d \in S : sidKey(t, d) \in H}
FewestGroups(t, rest, open, need) ==
    Min({Cardinality(G) : G \in {H \in SUBSET open : Cardinality(Holding(t, rest, H)) >= need}})

LEMMA GroupBound ==
    ASSUME NEW t, NEW avail, NEW C, NEW rest, NEW R, Completion(t, avail, C, rest, R),
           NEW open, open = Keys(t, rest) \ Keys(t, C),
           NEW need, need = Cardinality(R) - Cardinality(Holding(t, rest, Keys(t, C)))
    PROVE  /\ FewestGroups(t, rest, open, need) \in Nat
           /\ Score(t, C).sidGroups + FewestGroups(t, rest, open, need) <= Score(t, C \cup R).sidGroups
<1> DEFINE k(d) == sidKey(t, d)
           SC == {k(d) : d \in C}
           G0 == {k(d) : d \in R} \ SC
           cap(H) == Cardinality({d \in rest : k(d) \in H})
           V == {Cardinality(G) : G \in {H \in SUBSET open : cap(H) >= need}}
<1>1. /\ R \in SUBSET rest /\ IsFiniteSet(C) /\ IsFiniteSet(R) /\ IsFiniteSet(rest) /\ Cardinality(R) \in Nat
  BY CompletionSizes DEF Completion
<1> HIDE DEF k
<1>2. \A X : IsFiniteSet(X) => IsFiniteSet({k(d) : d \in X})
  <2>1. SUFFICES ASSUME NEW X, IsFiniteSet(X) PROVE IsFiniteSet({k(d) : d \in X})
    OBVIOUS
  <2> DEFINE f == [d \in X |-> k(d)]
  <2>2. f = [d \in X |-> f[d]] /\ {f[d] : d \in X} = {k(d) : d \in X}
    OBVIOUS
  <2> HIDE DEF f
  <2> QED BY <2>1, <2>2, ImageFinite
<1>3. open = {k(d) : d \in rest} \ SC
  BY DEF k, Keys
<1>4. IsFiniteSet(SC) /\ IsFiniteSet(G0) /\ IsFiniteSet(open)
  <2>1. IsFiniteSet({k(d) : d \in C}) /\ IsFiniteSet({k(d) : d \in R}) /\ IsFiniteSet({k(d) : d \in rest})
    BY <1>1, <1>2
  <2>2. IsFiniteSet({k(d) : d \in R} \ SC) /\ IsFiniteSet({k(d) : d \in rest} \ SC)
    <3> HIDE DEF SC
    <3> QED BY <2>1, FS_Difference
  <2> QED BY <1>3, <2>1, <2>2
<1>5. G0 \in SUBSET open
  BY <1>1, <1>3
<1>6. cap(G0) >= need
  <2> DEFINE A == {d \in R : k(d) \in G0}
             B == {d \in R : k(d) \in SC}
             A2 == {d \in rest : k(d) \in G0}
             B2 == {d \in rest : k(d) \in SC}
  <2>1. A \cup B = R /\ A \cap B = {} /\ A \in SUBSET R /\ B \in SUBSET R
    OBVIOUS
  <2>2. A \in SUBSET A2 /\ B \in SUBSET B2 /\ A2 \in SUBSET rest /\ B2 \in SUBSET rest
    BY <1>1
  <2>3. need = Cardinality(R) - Cardinality(B2)
    BY DEF k, Keys, Holding
  <2> HIDE DEF A, B, A2, B2
  <2>4. IsFiniteSet(A) /\ IsFiniteSet(B) /\ IsFiniteSet(A2) /\ IsFiniteSet(B2)
    BY <1>1, <2>1, <2>2, FS_Subset
  <2>5. Cardinality(R) = Cardinality(A) + Cardinality(B)
    BY <2>1, <2>4, DisjointUnion
  <2>6. Cardinality(A) <= Cardinality(A2) /\ Cardinality(B) <= Cardinality(B2)
    BY <2>2, <2>4, FS_Subset
  <2>7. Cardinality(A) \in Nat /\ Cardinality(A2) \in Nat /\ Cardinality(B) \in Nat /\ Cardinality(B2) \in Nat
    BY <2>4, FS_CardinalityType
  <2>8. Cardinality(A2) >= need
    BY <2>3, <2>5, <2>6, <2>7
  <2> QED BY <2>8 DEF A2
<1>7. V \subseteq Nat /\ Cardinality(G0) \in V
  <2>1. \A G \in SUBSET open : Cardinality(G) \in Nat
    BY <1>4, FS_Subset, FS_CardinalityType
  <2> HIDE DEF G0, cap
  <2> QED BY <1>5, <1>6, <2>1
<1>8. Min(V) \in V /\ \A x \in V : Min(V) <= x
  <2>1. V # {}
    BY <1>7
  <2> HIDE DEF V, G0
  <2> QED BY ONLY <1>7, <2>1, MinNat
<1>9. {k(d) : d \in C \cup R} = SC \cup G0 /\ SC \cap G0 = {}
  OBVIOUS
<1>10. Cardinality({k(d) : d \in C \cup R}) = Cardinality(SC) + Cardinality(G0)
  <2> HIDE DEF SC, G0
  <2> QED BY <1>4, <1>9, DisjointUnion
<1>11. Score(t, C).sidGroups = Cardinality(SC) /\ Score(t, C \cup R).sidGroups = Cardinality({k(d) : d \in C \cup R})
  BY ScoreParts DEF k
<1>12. Cardinality(SC) \in Nat
  BY <1>4, FS_CardinalityType
<1>13. Min(V) \in Nat /\ Min(V) <= Cardinality(G0) /\ Cardinality(G0) \in Nat
  <2> HIDE DEF V, G0
  <2> QED BY <1>7, <1>8
<1>14. Min(V) = FewestGroups(t, rest, open, need)
  BY DEF k, FewestGroups, Holding
<1> HIDE DEF V, G0, SC
<1>15. Score(t, C).sidGroups + Min(V) <= Score(t, C \cup R).sidGroups
  BY <1>10, <1>11, <1>12, <1>13
<1> QED
  BY <1>13, <1>14, <1>15

-----------------------------------------------------------------------------
(* Counting pairs *)

LEMMA Choose2Is ==
    ASSUME NEW n \in Nat
    PROVE  Choose2(n) \in Nat /\ 2 * Choose2(n) = n * (n - 1)
<1>1. \A m \in Int : (2 * m) \div 2 = m
  OBVIOUS
<1>2. PICK k \in Nat : n = 2 * k \/ n = 2 * k + 1
  <2>1. n \div 2 \in Nat /\ (n = 2 * (n \div 2) \/ n = 2 * (n \div 2) + 1)
    OBVIOUS
  <2> QED BY <2>1
<1>3. CASE n = 2 * k
  <2>1. n * (n - 1) = 2 * (k * (2 * k - 1))
    BY <1>3
  <2>2. k * (2 * k - 1) \in Nat
    <3>1. CASE k = 0
      BY <3>1
    <3>2. CASE k # 0
      <4>1. 2 * k - 1 \in Nat
        BY <3>2
      <4> QED BY <4>1
    <3> QED BY <3>1, <3>2
  <2>3. PICK m \in Nat : m = k * (2 * k - 1)
    BY <2>2
  <2>4. n * (n - 1) = 2 * m
    BY <2>1, <2>3
  <2>5. Choose2(n) = m
    BY <1>1, <2>4 DEF Choose2
  <2> QED BY <2>4, <2>5
<1>4. CASE n = 2 * k + 1
  <2>1. n * (n - 1) = 2 * (k * (2 * k + 1))
    BY <1>4
  <2>2. k * (2 * k + 1) \in Nat
    <3>1. 2 * k + 1 \in Nat
      OBVIOUS
    <3> QED BY <3>1
  <2>3. PICK m \in Nat : m = k * (2 * k + 1)
    BY <2>2
  <2>4. n * (n - 1) = 2 * m
    BY <2>1, <2>3
  <2>5. Choose2(n) = m
    BY <1>1, <2>4 DEF Choose2
  <2> QED BY <2>4, <2>5
<1> QED
  BY <1>2, <1>3, <1>4

LEMMA Choose2Sum ==
    ASSUME NEW h \in Nat, NEW r \in Nat
    PROVE  Choose2(h + r) = Choose2(h) + r * h + Choose2(r)
<1>1. h + r \in Nat /\ r * h \in Nat
  OBVIOUS
<1>2. /\ Choose2(h) \in Nat /\ 2 * Choose2(h) = h * (h - 1)
      /\ Choose2(r) \in Nat /\ 2 * Choose2(r) = r * (r - 1)
      /\ Choose2(h + r) \in Nat /\ 2 * Choose2(h + r) = (h + r) * (h + r - 1)
  BY <1>1, Choose2Is
<1>3. (h + r) * (h + r - 1) = h * (h - 1) + 2 * (r * h) + r * (r - 1)
  OBVIOUS
<1>4. \A x, y, z, p \in Nat : 2 * x = 2 * y + 2 * p + 2 * z => x = y + p + z
  OBVIOUS
<1>5. 2 * Choose2(h + r) = 2 * Choose2(h) + 2 * (r * h) + 2 * Choose2(r)
  BY ONLY <1>2, <1>3
<1>6. PICK p \in Nat : p = r * h
  BY <1>1
<1>7. PICK x \in Nat, y \in Nat, z \in Nat : x = Choose2(h + r) /\ y = Choose2(h) /\ z = Choose2(r)
  BY <1>2
<1>8. 2 * x = 2 * y + 2 * p + 2 * z
  BY ONLY <1>5, <1>6, <1>7
<1>9. x = y + p + z
  BY ONLY <1>4, <1>8
<1> QED
  BY <1>6, <1>7, <1>9

AllPairs(Q) == {p \in Q \X Q : p[1] < p[2]}

LEMMA PairCount ==
    ASSUME NEW Q \in SUBSET Nat, IsFiniteSet(Q)
    PROVE  IsFiniteSet(AllPairs(Q)) /\ Cardinality(AllPairs(Q)) = Choose2(Cardinality(Q))
<1> DEFINE Good(S) == Cardinality(AllPairs(S)) = Choose2(Cardinality(S))
           B == {S \in SUBSET Q : ~Good(S)}
<1>1. \A S \in SUBSET Q : IsFiniteSet(S) /\ Cardinality(S) \in Nat /\ IsFiniteSet(AllPairs(S))
  <2>1. SUFFICES ASSUME NEW S \in SUBSET Q PROVE IsFiniteSet(S) /\ Cardinality(S) \in Nat /\ IsFiniteSet(AllPairs(S))
    OBVIOUS
  <2>2. IsFiniteSet(S) /\ Cardinality(S) \in Nat
    BY FS_Subset, FS_CardinalityType
  <2>3. PICK X : X = S \X S
    OBVIOUS
  <2>4. IsFiniteSet(X) /\ AllPairs(S) \in SUBSET X
    BY <2>2, <2>3, FS_Product DEF AllPairs
  <2> QED BY <2>2, <2>4, FS_Subset
<1>2. ASSUME B # {} PROVE FALSE
  <2>1. B \subseteq SUBSET Q
    OBVIOUS
  <2>2. PICK S \in B : \A V \in B : V \subseteq S => V = S
    <3> HIDE DEF B
    <3>1. B # {} /\ IsFiniteSet(Q)
      BY <1>2
    <3>2. PICK X : X = Q
      OBVIOUS
    <3>3. B # {} /\ IsFiniteSet(X) /\ B \subseteq SUBSET X
      BY <2>1, <3>1, <3>2
    <3> QED BY ONLY <3>3, MinimalSet
  <2>3. CASE S = {}
    <3>1. AllPairs({}) = {} /\ Cardinality({}) = 0
      BY FS_EmptySet DEF AllPairs
    <3>2. Choose2(0) = 0
      BY DEF Choose2
    <3> QED BY <2>2, <2>3, <3>1, <3>2
  <2>4. CASE S # {}
    <3>1. PICK d \in S : TRUE
      BY <2>4
    <3> DEFINE V == S \ {d}
               D == {d}
               R == {PairOf(p[1], p[2]) : p \in V \X D}
    <3>2. V \in SUBSET Q /\ D \in SUBSET Q /\ V \cap D = {} /\ S = V \cup D /\ Good(V)
      BY <2>2
    <3>3. /\ IsFiniteSet(V) /\ IsFiniteSet(D) /\ IsFiniteSet(AllPairs(V)) /\ Cardinality(V) \in Nat
          /\ Cardinality(D) = 1 /\ V \in SUBSET Nat /\ D \in SUBSET Nat
      BY <1>1, <3>2, FS_Singleton
    <3>4. IsFiniteSet(R) /\ Cardinality(R) = Cardinality(V) * Cardinality(D)
      <4> HIDE DEF V, D
      <4> QED BY <3>2, <3>3, PairsBetween
    <3>5. \A e \in V : e \in Nat /\ e # d /\ d \in Nat
      OBVIOUS
    <3>6. AllPairs(S) = AllPairs(V) \cup R /\ AllPairs(V) \cap R = {}
      <4>1. ASSUME NEW x \in R PROVE x \in AllPairs(S) /\ x \notin V \X V
        <5>1. PICK e \in V : x = PairOf(e, d)
          OBVIOUS
        <5>2. x \in {<<e, d>>, <<d, e>>}
          BY <5>1 DEF PairOf
        <5>3. e \in S /\ d \in S
          OBVIOUS
        <5>4. CASE e < d
          BY <5>1, <5>3, <5>4 DEF PairOf, AllPairs
        <5>5. CASE ~(e < d)
          <6>1. d < e
            BY <3>5, <5>5
          <6> QED BY <5>1, <5>3, <5>5, <6>1 DEF PairOf, AllPairs
        <5> QED BY <5>4, <5>5
      <4>2. ASSUME NEW x \in AllPairs(S), x \notin AllPairs(V) PROVE x \in R
        <5>0. x \in S \X S /\ x[1] < x[2]
          BY DEF AllPairs
        <5>1. PICK e \in S, f \in S : x = <<e, f>> /\ e < f
          <6>1. x[1] \in S /\ x[2] \in S /\ x = <<x[1], x[2]>>
            BY ONLY <5>0
          <6> QED BY ONLY <5>0, <6>1
        <5>2. e = d \/ f = d
          BY <4>2, <5>1 DEF AllPairs
        <5>3. e # f
          <6>1. e \in Nat /\ f \in Nat
            BY <2>1
          <6> QED BY ONLY <5>1, <6>1
        <5>4. CASE f = d
          <6>1. e \in V /\ <<e, d>> \in V \X D /\ x = PairOf(e, d)
            BY <5>1, <5>3, <5>4 DEF PairOf
          <6> QED BY <6>1
        <5>5. CASE e = d
          <6>1. f \in V /\ <<f, d>> \in V \X D /\ ~(f < d)
            BY <5>1, <5>3, <5>5
          <6>2. x = PairOf(f, d)
            BY <5>1, <5>5, <6>1 DEF PairOf
          <6> QED BY <6>1, <6>2
        <5> QED BY <5>2, <5>4, <5>5
      <4>3. AllPairs(V) \subseteq AllPairs(S) /\ AllPairs(V) \subseteq V \X V
        BY DEF AllPairs
      <4> HIDE DEF R, V
      <4> QED BY <4>1, <4>2, <4>3
    <3> HIDE DEF V, D, R
    <3>7. Cardinality(AllPairs(S)) = Cardinality(AllPairs(V)) + Cardinality(R)
      BY <3>3, <3>4, <3>6, DisjointUnion
    <3>8. Cardinality(S) = Cardinality(V) + 1
      BY <3>2, <3>3, DisjointUnion
    <3>9. Choose2(Cardinality(V) + 1) = Choose2(Cardinality(V)) + 1 * Cardinality(V) + Choose2(1)
      BY <3>3, Choose2Sum
    <3>10. Choose2(1) = 0
      BY DEF Choose2
    <3>11. Choose2(Cardinality(V)) \in Nat
      BY <3>3, Choose2Is
    <3>12. Good(S)
      <4>1. \A x, y \in Nat : x + 1 * y + 0 = x + y * 1
        OBVIOUS
      <4> QED BY <3>2, <3>3, <3>4, <3>7, <3>8, <3>9, <3>10, <3>11, <4>1
    <3> QED BY <2>2, <3>12
  <2> QED BY <2>3, <2>4
<1>3. Q \in SUBSET Q /\ Q \notin B
  BY <1>2
<1> QED
  BY <1>1, <1>3

\* How many pairs of S are linked, from the fields of its score.
LEMMA LinkedCount ==
    ASSUME NEW t \in Seq(Device), NEW S \in SUBSET DOMAIN t
    PROVE  LET k == Cardinality(S) - Score(t, S).unknownPCI
           IN  /\ Cardinality(Linked(t, S)) \in Nat
               /\ k \in Nat /\ k = Cardinality(Known(t, S))
               /\ Choose2(k) \in Nat /\ Score(t, S).separateRoots \in Nat
               /\ Cardinality(Linked(t, S)) = Choose2(k) - Score(t, S).separateRoots
<1> DEFINE Q == Known(t, S)
<1>1. IsFiniteSet(S) /\ S \in SUBSET Nat
  BY TableFacts
<1>2. Q \in SUBSET S
  BY DEF Known
<1>3. IsFiniteSet(Q) /\ Cardinality(Q) \in Nat /\ Q \in SUBSET Nat
  BY <1>1, <1>2, FS_Subset, FS_CardinalityType
<1>4. Cardinality(S \ Q) = Cardinality(S) - Cardinality(Q) /\ Cardinality(S) \in Nat
  <2>1. S \cap Q = Q
    BY <1>2
  <2> HIDE DEF Q
  <2> QED BY <1>1, <2>1, FS_Difference, FS_CardinalityType
<1>5. Score(t, S).unknownPCI = Cardinality(S \ Q) /\ Score(t, S).separateRoots = Cardinality(Pairs(t, S) \ Linked(t, S))
  BY ScoreParts
<1>6. Pairs(t, S) = AllPairs(Q)
  BY DEF Pairs, AllPairs
<1>7. IsFiniteSet(Pairs(t, S)) /\ Cardinality(Pairs(t, S)) = Choose2(Cardinality(Q))
  BY <1>3, <1>6, PairCount
<1>8. Linked(t, S) \in SUBSET Pairs(t, S)
  BY DEF Linked
<1>9. Cardinality(Pairs(t, S) \ Linked(t, S)) = Cardinality(Pairs(t, S)) - Cardinality(Linked(t, S))
  <2>1. Pairs(t, S) \cap Linked(t, S) = Linked(t, S)
    BY <1>8
  <2>2. Cardinality(Pairs(t, S) \ Linked(t, S)) = Cardinality(Pairs(t, S)) - Cardinality(Pairs(t, S) \cap Linked(t, S))
    BY <1>7, FS_Difference
  <2> QED BY <2>1, <2>2
<1>10. IsFiniteSet(Linked(t, S)) /\ IsFiniteSet(Pairs(t, S) \ Linked(t, S))
  BY PairsFinite
<1>11. Cardinality(Linked(t, S)) \in Nat /\ Cardinality(Pairs(t, S) \ Linked(t, S)) \in Nat /\ Cardinality(Pairs(t, S)) \in Nat
  BY <1>7, <1>10, FS_CardinalityType
<1>12. Cardinality(S) - Score(t, S).unknownPCI = Cardinality(Q)
  BY <1>3, <1>4, <1>5
<1> HIDE DEF Q
<1>13. Cardinality(Linked(t, S)) = Choose2(Cardinality(Q)) - Score(t, S).separateRoots
  BY <1>5, <1>7, <1>9, <1>11
<1>14. Choose2(Cardinality(Q)) \in Nat
  BY <1>3, Choose2Is
<1> QED
  BY <1>3, <1>5, <1>11, <1>12, <1>13, <1>14 DEF Q

\* The pairs under separate roots; if all pairs are, m is 1.
LEMMA SeparateBound ==
    ASSUME NEW t, NEW avail, NEW C, NEW rest, NEW R, Completion(t, avail, C, rest, R), NEW m \in {0, 1},
           m = 1 => \A d, e \in avail : d < e => Between(t, d, e).separateRoots
    PROVE  /\ Cardinality(R) * Cardinality(C) + Choose2(Cardinality(R)) \in Nat
           /\ Score(t, C).separateRoots + (Cardinality(R) * Cardinality(C) + Choose2(Cardinality(R))) * m
                <= Score(t, C \cup R).separateRoots
<1> DEFINE S == C \cup R
           h == Cardinality(C)
           r == Cardinality(R)
           X(V) == Pairs(t, V) \ Linked(t, V)
<1>1. /\ t \in Seq(Device) /\ C \in SUBSET DOMAIN t /\ S \in SUBSET DOMAIN t /\ avail \in SUBSET DOMAIN t
      /\ C \in SUBSET S /\ C \in SUBSET avail /\ S \in SUBSET avail
  BY DEF Completion
<1>2. /\ IsFiniteSet(C) /\ IsFiniteSet(S) /\ h \in Nat /\ r \in Nat /\ Cardinality(S) = h + r
  BY ONLY Completion(t, avail, C, rest, R), CompletionSizes
<1>3. Score(t, C).separateRoots = Cardinality(X(C)) /\ Score(t, S).separateRoots = Cardinality(X(S))
  BY ScoreParts
<1>4. X(C) \in SUBSET X(S)
  BY <1>1 DEF Pairs, Linked, Known
<1>5. IsFiniteSet(X(S)) /\ IsFiniteSet(X(C))
  BY <1>1, PairsFinite
<1>6. Cardinality(X(C)) <= Cardinality(X(S)) /\ Cardinality(X(C)) \in Nat /\ Cardinality(X(S)) \in Nat
  <2> HIDE DEF X, S
  <2> QED BY <1>4, <1>5, FS_Subset, FS_CardinalityType
<1>7. Choose2(r) \in Nat /\ Choose2(h) \in Nat /\ r * h \in Nat
  <2> HIDE DEF r, h
  <2> QED BY <1>2, Choose2Is
<1>8. r * h + Choose2(r) \in Nat
  <2>1. \A x, y \in Nat : x + y \in Nat
    OBVIOUS
  <2> QED BY ONLY <1>7, <2>1
<1>9. CASE m = 0
  <2>1. \A x \in Nat : x * 0 = 0
    OBVIOUS
  <2>2. (r * h + Choose2(r)) * m = 0
    BY ONLY <1>8, <1>9, <2>1
  <2> HIDE DEF X, S, h, r
  <2>3. Score(t, C).separateRoots + (r * h + Choose2(r)) * m <= Score(t, S).separateRoots
    BY <1>3, <1>6, <2>2
  <2> QED BY <1>8, <2>3 DEF S, h, r
<1>10. CASE m = 1
  <2>1. ASSUME NEW V \in SUBSET avail PROVE X(V) = AllPairs(V)
    <3>1. ASSUME NEW d \in V, NEW e \in V, d < e
          PROVE  Path(t, d) # NoPath /\ Path(t, e) # NoPath /\ Path(t, d)[1] # Path(t, e)[1]
      <4>1. d \in DOMAIN t /\ e \in DOMAIN t /\ Between(t, d, e).separateRoots
        BY <1>1, <1>10, <3>1
      <4> QED BY <1>1, <4>1, BetweenIs
    <3>2. ASSUME NEW p \in AllPairs(V) PROVE p \in X(V)
      <4>1. PICK d \in V, e \in V : p = <<d, e>> /\ d < e
        BY DEF AllPairs
      <4> QED BY <3>1, <4>1 DEF Pairs, Linked, Known
    <3>3. X(V) \subseteq AllPairs(V)
      BY DEF Pairs, Known, AllPairs
    <3> HIDE DEF X
    <3> QED BY <3>2, <3>3
  <2>2. C \in SUBSET Nat /\ S \in SUBSET Nat
    BY <1>1, TableFacts
  <2>3. Cardinality(X(C)) = Choose2(h) /\ Cardinality(X(S)) = Choose2(h + r)
    <3> HIDE DEF X, S
    <3> QED BY <1>1, <1>2, <2>1, <2>2, PairCount
  <2>4. Choose2(h + r) = Choose2(h) + r * h + Choose2(r)
    BY <1>2, Choose2Sum
  <2>5. \A x \in Nat : x * 1 = x
    OBVIOUS
  <2>6. (r * h + Choose2(r)) * m = r * h + Choose2(r)
    BY ONLY <1>8, <1>10, <2>5
  <2>7. \A x, y, z \in Nat : x + (y + z) <= x + y + z
    OBVIOUS
  <2> HIDE DEF X, S, h, r
  <2>8. Score(t, C).separateRoots + (r * h + Choose2(r)) * m <= Score(t, S).separateRoots
    BY ONLY <1>3, <1>7, <2>3, <2>4, <2>6, <2>7
  <2> QED BY <1>8, <2>8 DEF S, h, r
<1> QED
  BY <1>9, <1>10

-----------------------------------------------------------------------------
(* Bounds on distances *)

\* The distances of a set of devices: the largest is one of them, or zero.
LEMMA MaxDistanceIs ==
    ASSUME NEW t \in Seq(Device), NEW S \in SUBSET DOMAIN t
    PROVE  /\ Score(t, S).maxDistance \in Nat
           /\ Score(t, S).maxDistance = 0 \/ \E p \in Linked(t, S) : Score(t, S).maxDistance = HopsOf(t, p)
           /\ \A p \in Linked(t, S) : HopsOf(t, p) <= Score(t, S).maxDistance
<1> DEFINE L == Linked(t, S)
           f == [p \in L |-> HopsOf(t, p)]
           I == {f[p] : p \in L}
           X == {0} \cup I
<1>1. IsFiniteSet(L) /\ \A p \in L : HopsOf(t, p) \in Nat
  BY PairsFinite
<1>2. IsFiniteSet(I)
  <2>1. f = [p \in L |-> f[p]]
    OBVIOUS
  <2> HIDE DEF f, L
  <2> QED BY <1>1, <2>1, ImageFinite
<1>3. X \subseteq Int /\ X # {} /\ X \subseteq Nat
  BY <1>1
<1>4. IsFiniteSet(X)
  <2> HIDE DEF I
  <2>1. IsFiniteSet({0})
    BY FS_Singleton
  <2> QED BY <1>2, <2>1, FS_Union
<1>5. Max(X) \in X /\ \A x \in X : x <= Max(X)
  <2> HIDE DEF X
  <2> QED BY <1>3, <1>4, MaxExists
<1>6. Score(t, S).maxDistance = Max(X)
  <2>1. I = {HopsOf(t, p) : p \in L}
    OBVIOUS
  <2> QED BY <2>1, ScoreParts
<1>7. \A p \in L : HopsOf(t, p) \in X
  OBVIOUS
<1>8. \A x \in X : x = 0 \/ \E p \in L : x = HopsOf(t, p)
  OBVIOUS
<1> HIDE DEF X, L
<1> QED
  BY <1>3, <1>5, <1>6, <1>7, <1>8 DEF L

LEMMA MaxBound ==
    ASSUME NEW t, NEW avail, NEW C, NEW rest, NEW R, Completion(t, avail, C, rest, R),
           NEW m \in Nat, \A p \in Linked(t, avail) : m <= HopsOf(t, p)
    PROVE  /\ Score(t, C).maxDistance \in Nat /\ Score(t, C \cup R).maxDistance \in Nat
           /\ Score(t, C).maxDistance <= Score(t, C \cup R).maxDistance
           /\ Linked(t, C \cup R) # {} => m <= Score(t, C \cup R).maxDistance
<1> DEFINE S == C \cup R
<1>1. t \in Seq(Device) /\ C \in SUBSET DOMAIN t /\ S \in SUBSET DOMAIN t /\ C \in SUBSET S /\ S \in SUBSET avail
  BY DEF Completion
<1>2. Linked(t, C) \subseteq Linked(t, S) /\ Linked(t, S) \subseteq Linked(t, avail)
  BY <1>1 DEF Linked, Pairs, Known
<1>3. \A p \in Linked(t, S) : HopsOf(t, p) \in Nat
  BY <1>1, PairsFinite
<1>4. /\ Score(t, C).maxDistance \in Nat
      /\ Score(t, C).maxDistance = 0 \/ \E p \in Linked(t, C) : Score(t, C).maxDistance = HopsOf(t, p)
  BY <1>1, MaxDistanceIs
<1>5. /\ Score(t, S).maxDistance \in Nat
      /\ \A p \in Linked(t, S) : HopsOf(t, p) <= Score(t, S).maxDistance
  BY <1>1, MaxDistanceIs
<1> HIDE DEF S
<1>6. Score(t, C).maxDistance <= Score(t, S).maxDistance
  BY <1>2, <1>4, <1>5
<1>7. Linked(t, S) # {} => m <= Score(t, S).maxDistance
  <2>1. SUFFICES ASSUME NEW p \in Linked(t, S) PROVE m <= Score(t, S).maxDistance
    OBVIOUS
  <2>2. m <= HopsOf(t, p) /\ HopsOf(t, p) <= Score(t, S).maxDistance /\ HopsOf(t, p) \in Nat
    BY <1>2, <1>3, <1>5
  <2> QED BY <1>5, <2>2
<1> QED
  BY <1>4, <1>5, <1>6, <1>7 DEF S

\* The new links are at least as long as the shortest one there is.
LEMMA TotalBound ==
    ASSUME NEW t, NEW avail, NEW C, NEW rest, NEW R, Completion(t, avail, C, rest, R),
           NEW m \in Nat, \A p \in Linked(t, avail) : m <= HopsOf(t, p)
    PROVE  LET new == Cardinality(Linked(t, C \cup R)) - Cardinality(Linked(t, C))
           IN  /\ new \in Nat /\ Score(t, C).totalDistance \in Nat
               /\ Score(t, C).totalDistance + new * m <= Score(t, C \cup R).totalDistance
<1> DEFINE S == C \cup R
           A == Linked(t, C)
           B == Linked(t, S)
           N == B \ A
           f == [p \in B |-> HopsOf(t, p)]
           g == [p \in A |-> HopsOf(t, p)]
<1>1. t \in Seq(Device) /\ C \in SUBSET DOMAIN t /\ S \in SUBSET DOMAIN t /\ C \in SUBSET S /\ S \in SUBSET avail
  BY DEF Completion
<1>2. A \in SUBSET B /\ B \subseteq Linked(t, avail)
  BY <1>1 DEF Linked, Pairs, Known
<1>3. /\ IsFiniteSet(A) /\ \A p \in A : HopsOf(t, p) \in Nat
      /\ IsFiniteSet(B) /\ \A p \in B : HopsOf(t, p) \in Nat
  BY <1>1, PairsFinite
<1>4. Score(t, C).totalDistance = Sum(g) /\ Score(t, S).totalDistance = Sum(f)
  BY ScoreParts
<1>5. DOMAIN f = B /\ DOMAIN g = A /\ (\A p \in B : f[p] \in Nat) /\ (\A p \in A : g[p] \in Nat /\ g[p] = f[p])
  BY <1>2, <1>3
<1> HIDE DEF f, g, A, B, S
<1>6. Sum(f) = Cardinality(Units(f, B)) /\ Sum(g) = Cardinality(Units(g, A))
  BY <1>3, <1>5, SumIsCount DEF Sum
<1>7. Units(g, A) = Units(f, A)
  BY <1>5 DEF Units
<1>8. IsFiniteSet(N) /\ N \in SUBSET B /\ Cardinality(N) = Cardinality(B) - Cardinality(A) /\ Cardinality(N) \in Nat
  <2>1. B \cap A = A
    BY <1>2
  <2>2. IsFiniteSet(N) /\ Cardinality(N) = Cardinality(B) - Cardinality(A)
    BY <1>3, <2>1, FS_Difference
  <2> HIDE DEF N
  <2>3. Cardinality(N) \in Nat
    BY <2>2, FS_CardinalityType
  <2> QED BY <2>2, <2>3 DEF N
<1>9. Units(f, B) = Units(f, A) \cup Units(f, N) /\ Units(f, A) \cap Units(f, N) = {}
  BY <1>2 DEF Units
<1> HIDE DEF N
<1>10. /\ IsFiniteSet(Units(f, A)) /\ Cardinality(Units(f, A)) \in Nat
       /\ IsFiniteSet(Units(f, N)) /\ Cardinality(Units(f, N)) \in Nat
  BY <1>2, <1>3, <1>5, <1>8, UnitsFinite
<1>11. Cardinality(Units(f, B)) = Cardinality(Units(f, A)) + Cardinality(Units(f, N))
  BY <1>9, <1>10, DisjointUnion
<1>12. Cardinality(N) * m <= Cardinality(Units(f, N))
  <2>1. IsFiniteSet(1 .. m) /\ Cardinality(1 .. m) = m
    BY UpTo
  <2>2. PICK I : I = 1 .. m
    OBVIOUS
  <2>3. PICK X : X = N \X I
    OBVIOUS
  <2>4. Cardinality(X) = Cardinality(N) * m
    BY <1>8, <2>1, <2>2, <2>3, FS_Product
  <2>5. \A p \in N : f[p] \in Nat /\ m <= f[p]
    <3>1. \A p \in B : f[p] = HopsOf(t, p)
      BY DEF f
    <3> QED BY <1>2, <1>5, <1>8, <3>1
  <2>6. X \in SUBSET Units(f, N)
    <3>1. ASSUME NEW p \in N, NEW n \in 1 .. m PROVE <<p, n>> \in Units(f, N)
      <4>1. n \in 1 .. f[p] /\ n \in Nat
        BY <2>5
      <4> QED BY <4>1 DEF Units
    <3> QED BY <2>2, <2>3, <3>1
  <2>7. Cardinality(X) <= Cardinality(Units(f, N))
    BY <1>10, <2>6, FS_Subset
  <2> QED BY <2>4, <2>7
<1>13. Cardinality(N) * m \in Nat
  BY <1>8
<1>14. \A x, y, z, q \in Nat : z <= y => x + z <= x + y
  OBVIOUS
<1>15. Sum(g) + Cardinality(N) * m <= Sum(f) /\ Sum(g) \in Nat
  BY ONLY <1>6, <1>7, <1>10, <1>11, <1>12, <1>13, <1>14
<1> QED
  BY <1>4, <1>8, <1>15 DEF S, A, B

\* The largest distance of d to the devices of C.
FarFrom(t, C, d) == Max({0} \cup {Between(t, d, e).hops : e \in C})

LEMMA FarFromIs ==
    ASSUME NEW t \in Seq(Device), NEW C \in SUBSET DOMAIN t, NEW d \in DOMAIN t
    PROVE  /\ FarFrom(t, C, d) \in Nat
           /\ FarFrom(t, C, d) = 0 \/ \E e \in C : FarFrom(t, C, d) = Between(t, d, e).hops
<1> DEFINE f == [e \in C |-> Between(t, d, e).hops]
           I == {f[e] : e \in C}
           X == {0} \cup I
<1>1. IsFiniteSet(C) /\ \A e \in C : Between(t, d, e).hops \in Nat
  BY TableFacts, BetweenIs
<1>2. IsFiniteSet(I)
  <2>1. f = [e \in C |-> f[e]]
    OBVIOUS
  <2> HIDE DEF f
  <2> QED BY <1>1, <2>1, ImageFinite
<1>3. X \subseteq Int /\ X # {} /\ X \subseteq Nat
  BY <1>1
<1>4. IsFiniteSet(X)
  <2> HIDE DEF I
  <2>1. IsFiniteSet({0})
    BY FS_Singleton
  <2> QED BY <1>2, <2>1, FS_Union
<1>5. Max(X) \in X
  <2> HIDE DEF X
  <2> QED BY <1>3, <1>4, MaxExists
<1>6. FarFrom(t, C, d) = Max(X)
  <2>1. I = {Between(t, d, e).hops : e \in C}
    OBVIOUS
  <2> QED BY <2>1 DEF FarFrom
<1>7. \A x \in X : x = 0 \/ \E e \in C : x = Between(t, d, e).hops
  OBVIOUS
<1> HIDE DEF X
<1> QED
  BY <1>3, <1>5, <1>6, <1>7

\* One of the devices of R is as far from C as the n-th nearest candidate.
\* The n-th least of the distances of rest to C.
LeastFar(t, C, rest, n) ==
    Min({w \in {FarFrom(t, C, d) : d \in rest} : Cardinality({d \in rest : FarFrom(t, C, d) <= w}) >= n})

LEMMA WorstBound ==
    ASSUME NEW t, NEW avail, NEW C, NEW rest, NEW R, Completion(t, avail, C, rest, R)
    PROVE  LET w == LeastFar(t, C, rest, Cardinality(R))
           IN  w \in Nat /\ w <= Score(t, C \cup R).maxDistance
<1> DEFINE far(d) == FarFrom(t, C, d)
           V == {w \in {far(d) : d \in rest} : Cardinality({d \in rest : far(d) <= w}) >= Cardinality(R)}
           S == C \cup R
<1>1. /\ t \in Seq(Device) /\ C \in SUBSET DOMAIN t /\ S \in SUBSET DOMAIN t /\ rest \in SUBSET DOMAIN t
      /\ R \in SUBSET rest /\ R # {} /\ C \cap R = {}
  BY DEF Completion
<1>2. IsFiniteSet(R) /\ IsFiniteSet(rest) /\ Cardinality(R) \in Nat
  BY CompletionSizes
<1>3. \A d \in rest : far(d) \in Nat /\ (far(d) = 0 \/ \E e \in C : far(d) = Between(t, d, e).hops)
  BY <1>1, FarFromIs
<1> HIDE DEF far
<1>4. PICK d0 \in R : \A d \in R : far(d) <= far(d0)
  <2> DEFINE f == [d \in R |-> far(d)]
             I == {f[d] : d \in R}
  <2>1. IsFiniteSet(I)
    <3>1. f = [d \in R |-> f[d]]
      OBVIOUS
    <3> HIDE DEF f
    <3> QED BY <1>2, <3>1, ImageFinite
  <2>2. I \subseteq Int /\ I # {} /\ \A d \in R : far(d) \in I
    BY <1>1, <1>3
  <2>3. Max(I) \in I /\ \A x \in I : x <= Max(I)
    <3> HIDE DEF I
    <3> QED BY <2>1, <2>2, MaxExists
  <2>4. PICK d0 \in R : far(d0) = Max(I)
    BY <2>3
  <2> HIDE DEF I
  <2> QED BY <2>2, <2>3, <2>4
<1>5. far(d0) \in V
  <2>1. R \in SUBSET {d \in rest : far(d) <= far(d0)}
    BY <1>1, <1>4
  <2>2. PICK X : X = {d \in rest : far(d) <= far(d0)}
    OBVIOUS
  <2>3. X \in SUBSET rest /\ R \in SUBSET X
    BY <2>1, <2>2
  <2>4. IsFiniteSet(X)
    BY <1>2, <2>3, FS_Subset
  <2>5. Cardinality(R) <= Cardinality(X) /\ Cardinality(X) \in Nat
    BY <2>3, <2>4, FS_Subset, FS_CardinalityType
  <2>6. Cardinality({d \in rest : far(d) <= far(d0)}) >= Cardinality(R)
    BY <1>2, <2>2, <2>5
  <2>7. far(d0) \in {far(d) : d \in rest}
    BY <1>1
  <2> QED BY <2>6, <2>7
<1>6. V \subseteq Nat
  BY <1>3
<1>7. Min(V) \in Nat /\ Min(V) <= far(d0)
  <2>1. V # {}
    BY <1>5
  <2> HIDE DEF V
  <2>2. Min(V) \in V /\ \A x \in V : Min(V) <= x
    BY ONLY <1>6, <2>1, MinNat
  <2> QED BY <1>5, <1>6, <2>2
<1>8. far(d0) <= Score(t, S).maxDistance /\ Score(t, S).maxDistance \in Nat
  <2>1. /\ Score(t, S).maxDistance \in Nat
        /\ \A p \in Linked(t, S) : HopsOf(t, p) <= Score(t, S).maxDistance
    BY <1>1, MaxDistanceIs
  <2>2. d0 \in rest /\ d0 \in DOMAIN t /\ d0 \in S /\ d0 \notin C
    BY <1>1
  <2>3. CASE far(d0) = 0
    BY <2>1, <2>3
  <2>4. CASE far(d0) # 0
    <3>1. PICK e \in C : far(d0) = Between(t, d0, e).hops
      BY <1>3, <2>2, <2>4
    <3>2. e \in DOMAIN t /\ e \in S
      BY <1>1
    <3>3. Between(t, d0, e).known /\ HopsOf(t, PairOf(d0, e)) = far(d0)
      BY <1>1, <2>2, <2>4, <3>1, HopsOfNew
    <3>4. Path(t, d0) # NoPath /\ Path(t, e) # NoPath /\ Path(t, d0)[1] = Path(t, e)[1]
      BY <1>1, <2>2, <3>2, <3>3, BetweenIs
    <3>5. d0 \in Nat /\ e \in Nat /\ d0 # e
      BY <1>1, <2>2, <3>2, TableFacts
    <3>6. d0 < e \/ e < d0
      BY <3>5
    <3> HIDE DEF S
    <3>7. PairOf(d0, e) \in Linked(t, S)
      BY <2>2, <3>2, <3>4, <3>5, <3>6 DEF PairOf, Linked, Pairs, Known
    <3> QED BY <2>1, <3>3, <3>7
  <2> QED BY <2>3, <2>4
<1>9. far(d0) \in Nat
  BY <1>1, <1>3
<1>10. Min(V) = LeastFar(t, C, rest, Cardinality(R))
  BY DEF far, LeastFar
<1> HIDE DEF V, S
<1>11. Min(V) <= Score(t, S).maxDistance
  BY <1>7, <1>8, <1>9
<1> QED
  BY <1>7, <1>10, <1>11 DEF S
=============================================================================
