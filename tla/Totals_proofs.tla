--------------------------- MODULE Totals_proofs ----------------------------
(***************************************************************************)
(* What the other proofs need of totals, of smallest and largest numbers,  *)
(* of functions that go on from step to step and of powers of two.  The    *)
(* library's induction theorems take operators, so these are derived from  *)
(* its facts about cardinalities and well-founded relations.               *)
(***************************************************************************)
EXTENDS Totals, FiniteSetTheorems, FunctionTheorems, TLAPS

-----------------------------------------------------------------------------
(* Smallest and largest numbers                                            *)

\* Every set of natural numbers that is not empty has a smallest element: of the
\* finite sets 0 .. n - 1, n in S, one has no other as a proper subset.
THEOREM SmallestExists ==
    ASSUME NEW S \in SUBSET Nat, S # {}
    PROVE  \E n \in S : \A m \in S : n <= m
  <1> DEFINE Below(n) == 0 .. n - 1
             T == {Below(n) : n \in S}
  <1>1. T \subseteq FiniteSubsetsOf(Nat)
    <2> SUFFICES ASSUME NEW n \in S PROVE Below(n) \in FiniteSubsetsOf(Nat)
      OBVIOUS
    <2>1. n \in Nat /\ 0 \in Int /\ n - 1 \in Int
      OBVIOUS
    <2>2. IsFiniteSet(0 .. n - 1)
      BY <2>1, FS_Interval
    <2>3. 0 .. n - 1 \in SUBSET Nat
      BY <2>1
    <2> QED
      BY <2>2, <2>3 DEF FiniteSubsetsOf
  <1>2. T # {}
    OBVIOUS
  <1>3. PICK X \in T : \A Y \in T : ~ (<<Y, X>> \in StrictSubsetOrdering(Nat))
    <2>1. IsWellFoundedOn(StrictSubsetOrdering(Nat), FiniteSubsetsOf(Nat))
      BY FS_StrictSubsetOrderingWellFounded
    <2> HIDE DEF T
    <2> QED
      BY <1>1, <1>2, <2>1, WFMin
  <1>4. PICK n \in S : X = Below(n)
    BY <1>3
  <1>5. ASSUME NEW m \in S, m < n PROVE FALSE
    <2>1. m \in Nat /\ n \in Nat
      OBVIOUS
    <2>2. Below(m) \in SUBSET Nat /\ Below(n) \in SUBSET Nat
      BY <2>1
    <2>3. Below(m) \subseteq Below(n) /\ Below(m) # Below(n)
      <3>1. m \in Below(n) /\ m \notin Below(m)
        BY <1>5, <2>1
      <3> QED
        BY <1>5, <2>1, <3>1
    <2>4. <<Below(m), Below(n)>> \in StrictSubsetOrdering(Nat)
      <3> HIDE DEF Below
      <3> QED
        BY <2>2, <2>3, Zenon DEF StrictSubsetOrdering
    <2> QED
      BY <1>3, <1>4, <2>4
  <1>6. \A m \in S : n <= m
    BY <1>5
  <1> QED
    BY <1>6

\* Every finite set of integers that is not empty has a largest element: of the numbers
\* of elements above an element, one is the smallest.
THEOREM LargestExists ==
    ASSUME NEW S \in SUBSET Int, IsFiniteSet(S), S # {}
    PROVE  \E n \in S : \A m \in S : m <= n
  <1> DEFINE Above(x) == {y \in S : y > x}
             counts == {Cardinality(Above(x)) : x \in S}
  <1>1. \A x \in S : IsFiniteSet(Above(x)) /\ Cardinality(Above(x)) \in Nat
    <2> TAKE x \in S
    <2>1. Above(x) \in SUBSET S
      OBVIOUS
    <2> QED
      BY <2>1, FS_Subset, FS_CardinalityType
  <1>2. counts \in SUBSET Nat /\ counts # {}
    BY <1>1
  <1>3. PICK n \in counts : \A m \in counts : n <= m
    BY <1>2, SmallestExists
  <1>4. PICK x \in S : n = Cardinality(Above(x))
    BY <1>3
  <1>5. ASSUME NEW y \in S, y > x PROVE FALSE
    <2>1. Above(y) \in SUBSET Above(x) /\ Above(y) # Above(x)
      <3>1. x \in Int /\ y \in Int /\ \A z \in S : z \in Int
        OBVIOUS
      <3>2. \A z \in S : z > y => z > x
        BY <1>5, <3>1
      <3>3. y \in Above(x) /\ y \notin Above(y)
        BY <1>5, <3>1
      <3> QED
        BY <3>2, <3>3
    <2>2. Cardinality(Above(y)) < Cardinality(Above(x))
      <3> HIDE DEF Above
      <3>1. Cardinality(Above(y)) <= Cardinality(Above(x))
        BY <1>1, <1>4, <2>1, FS_Subset
      <3>2. Cardinality(Above(y)) # Cardinality(Above(x))
        BY <1>1, <1>4, <2>1, FS_Subset
      <3> QED
        BY <1>1, <1>4, <1>5, <3>1, <3>2
    <2>3. Cardinality(Above(y)) \in counts
      BY <1>5
    <2> HIDE DEF Above, counts
    <2> QED
      BY <1>1, <1>3, <1>4, <1>5, <2>2, <2>3
  <1>6. \A y \in S : y <= x
    BY <1>5
  <1> QED
    BY <1>4, <1>6

-----------------------------------------------------------------------------
(* Functions that go on from step to step                                   *)

\* f begins with the first value and goes on by the moves, up to n.
Stepwise(f, X, first, move, n) ==
    /\ f \in [0..n -> X]
    /\ f[0] = first
    /\ \A i \in 1..n : f[i] = move[<<i, f[i - 1]>>]

\* There is such a function: of the lengths for which there is none, none is the smallest.
LEMMA StepwiseExists ==
    ASSUME NEW X, NEW first \in X, NEW move \in [Nat \X X -> X], NEW n \in Nat
    PROVE  \E f : Stepwise(f, X, first, move, n)
  <1> DEFINE Goes(f, k) == f[0] = first /\ \A i \in 1..k : f[i] = move[<<i, f[i - 1]>>]
             missing    == {k \in Nat : ~ \E f \in [0..k -> X] : Goes(f, k)}
  <1>1. SUFFICES ASSUME missing # {} PROVE FALSE
    BY DEF Stepwise
  <1>2. PICK k \in missing : \A m \in missing : k <= m
    BY <1>1, SmallestExists
  <1>3. k # 0
    <2> DEFINE f == [i \in 0..0 |-> first]
    <2>1. f \in [0..0 -> X] /\ Goes(f, 0)
      OBVIOUS
    <2> QED
      BY <1>2, <2>1
  <1>4. PICK f \in [0..(k - 1) -> X] : Goes(f, k - 1)
    <2>1. k - 1 \in Nat /\ ~(k <= k - 1)
      BY <1>2, <1>3
    <2> QED
      BY <1>2, <2>1
  <1> DEFINE g == [i \in 0..k |-> IF i = k THEN move[<<k, f[k - 1]>>] ELSE f[i]]
  <1>5. k \in Nat /\ k - 1 \in 0..(k - 1) /\ 0 \in 0..(k - 1)
    BY <1>3
  <1>6. g \in [0..k -> X]
    <2>1. move[<<k, f[k - 1]>>] \in X
      BY <1>5
    <2>2. \A i \in 0..k : i # k => f[i] \in X
      BY <1>5
    <2> QED
      BY <2>1, <2>2
  <1>7. Goes(g, k)
    <2>1. g[0] = first
      BY <1>3, <1>4, <1>5
    <2>2. ASSUME NEW i \in 1..k PROVE g[i] = move[<<i, g[i - 1]>>]
      <3>1. i - 1 \in 0..k /\ i - 1 # k /\ g[i - 1] = f[i - 1] /\ i \in 0..k
        BY <1>5
      <3>2. CASE i = k
        BY <3>1, <3>2
      <3>3. CASE i # k
        <4>1. i \in 1..(k - 1)
          BY <1>5, <3>3
        <4> QED
          BY <1>4, <3>1, <3>3, <4>1
      <3> QED
        BY <3>2, <3>3
    <2> QED
      BY <2>1, <2>2
  <1> QED
    BY <1>2, <1>6, <1>7

-----------------------------------------------------------------------------
(* Products and powers                                                     *)

LEMMA ProductIsNatural == ASSUME NEW m \in Nat, NEW n \in Nat PROVE m * n \in Nat
  OBVIOUS

LEMMA ProductsGrow ==
    ASSUME NEW m \in Nat, NEW k \in Nat, m <= k, NEW n \in Nat
    PROVE  m * n <= k * n /\ n * m <= n * k
  <1>1. (k - m) * n \in Nat
    BY ProductIsNatural
  <1>2. k * n = m * n + (k - m) * n /\ n * m = m * n /\ n * k = k * n
    OBVIOUS
  <1>3. m * n \in Nat /\ k * n \in Nat
    BY ProductIsNatural
  <1> QED
    BY <1>1, <1>2, <1>3

\* A set with one element more has twice the subsets.
LEMMA SubsetsDouble ==
    ASSUME NEW S, IsFiniteSet(S), NEW x, x \notin S
    PROVE  Cardinality(SUBSET (S \cup {x})) = 2 * Cardinality(SUBSET S)
  <1> DEFINE With == {A \cup {x} : A \in SUBSET S}
             f == [A \in SUBSET S |-> A \cup {x}]
  <1>1. IsFiniteSet(SUBSET S)
    BY FS_SUBSET
  <1>2. IsFiniteSet(With) /\ Cardinality(With) = Cardinality(SUBSET S)
    <2>1. f \in [SUBSET S -> With] /\ \A B \in With : \E A \in SUBSET S : f[A] = B
      OBVIOUS
    <2>2. ASSUME NEW A \in SUBSET S, NEW B \in SUBSET S, f[A] = f[B]
          PROVE  A = B
      <3>1. A \cup {x} = B \cup {x}
        BY <2>2
      <3> QED
        BY <3>1
    <2>3. IsInjective(f)
      BY <2>2 DEF IsInjective
    <2>4. f \in Bijection(SUBSET S, With)
      BY <2>1, <2>3 DEF Bijection, Injection, Surjection
    <2> HIDE DEF f, With
    <2> QED
      BY <1>1, <2>4, FS_Bijection DEF ExistsBijection
  <1>3. SUBSET (S \cup {x}) = (SUBSET S) \cup With
    <2>1. ASSUME NEW B \in SUBSET (S \cup {x}), x \in B
          PROVE  B \in With
      <3>1. B \ {x} \in SUBSET S /\ B = (B \ {x}) \cup {x}
        BY <2>1
      <3> QED
        BY <3>1
    <2> QED
      BY <2>1
  <1>4. (SUBSET S) \cap With = {}
    OBVIOUS
  <1> DEFINE Without == SUBSET S
  <1>5. Cardinality(Without) \in Nat /\ Cardinality(With) = Cardinality(Without)
    BY <1>1, <1>2, FS_CardinalityType
  <1>6. SUBSET (S \cup {x}) = Without \cup With /\ Without \cap With = {}
    BY <1>3, <1>4
  <1>7. IsFiniteSet(Without) /\ IsFiniteSet(With)
    BY <1>1, <1>2
  <1> HIDE DEF With, Without
  <1>8. Cardinality(Without \cup With)
          = Cardinality(Without) + Cardinality(With) - Cardinality(Without \cap With)
    BY <1>7, FS_Union
  <1>9. Cardinality(Without \cap With) = 0
    BY <1>6, FS_EmptySet
  <1>10. Cardinality(Without \cup With) = 2 * Cardinality(Without)
    BY <1>5, <1>8, <1>9
  <1> QED
    BY <1>6, <1>10 DEF Without

\* Powers of two, counted as subsets of an interval.
THEOREM PowerOfTwo ==
    ASSUME NEW n \in Nat
    PROVE  2 ^ 0 = 1 /\ 2 ^ n \in Nat /\ 2 ^ (n + 1) = 2 * (2 ^ n)
  <1>1. ASSUME NEW m \in Nat
        PROVE  /\ IsFiniteSet(1 .. m) /\ Cardinality(1 .. m) = m
               /\ Cardinality(SUBSET (1 .. m)) = 2 ^ m
    <2>1. IsFiniteSet(1 .. m) /\ Cardinality(1 .. m) = m
      BY FS_Interval
    <2> QED
      BY <2>1, FS_SUBSET
  <1>2. 1 .. (n + 1) = (1 .. n) \cup {n + 1} /\ n + 1 \notin 1 .. n /\ n + 1 \in Nat
    OBVIOUS
  <1>3. Cardinality(SUBSET (1 .. (n + 1))) = 2 * Cardinality(SUBSET (1 .. n))
    BY <1>1, <1>2, SubsetsDouble
  <1>4. Cardinality(SUBSET (1 .. (n + 1))) = 2 ^ (n + 1)
    BY <1>1, <1>2
  <1>5. 2 ^ n \in Nat
    BY <1>1, FS_SUBSET, FS_CardinalityType
  <1>6. 2 ^ 0 = 1
    <2>1. Cardinality(SUBSET (1 .. 0)) = 2 ^ 0
      BY <1>1
    <2>2. SUBSET (1 .. 0) = {{}}
      OBVIOUS
    <2> QED
      BY <2>1, <2>2, FS_Singleton
  <1> QED
    BY <1>1, <1>3, <1>4, <1>5, <1>6

-----------------------------------------------------------------------------
(* Totals                                                                  *)

LEMMA ImageIsFinite ==
    ASSUME NEW S, IsFiniteSet(S), NEW f, DOMAIN f = S, f = [x \in S |-> f[x]]
    PROVE  IsFiniteSet({f[x] : x \in S})
  <1> DEFINE T == {f[x] : x \in S}
  <1>1. f \in [S -> T]
    BY Zenon
  <1>2. \A t \in T : \E x \in S : f[x] = t
    OBVIOUS
  <1>3. f \in Surjection(S, T)
    BY <1>1, <1>2 DEF Surjection
  <1> QED
    BY <1>3, FS_Surjection

LEMMA UnitsOfOne ==
    ASSUME NEW x, NEW n \in Nat
    PROVE  /\ IsFiniteSet({x} \X (1 .. n))
           /\ Cardinality({x} \X (1 .. n)) = n
  <1>1. IsFiniteSet({x}) /\ Cardinality({x}) = 1
    BY FS_Singleton
  <1>2. IsFiniteSet(1 .. n) /\ Cardinality(1 .. n) = n
    BY FS_Interval
  <1>3. Cardinality({x} \X (1 .. n)) = 1 * n /\ IsFiniteSet({x} \X (1 .. n))
    <2>1. Cardinality({x} \X (1 .. n)) = Cardinality({x}) * Cardinality(1 .. n)
      BY <1>1, <1>2, FS_Product
    <2>2. IsFiniteSet({x} \X (1 .. n))
      BY <1>1, <1>2, FS_Product
    <2> QED
      BY <1>1, <1>2, <2>1, <2>2
  <1> QED
    BY <1>3

LEMMA UnitsAreFinite ==
    ASSUME NEW S, IsFiniteSet(S), NEW w, \A x \in S : w[x] \in Nat
    PROVE  IsFiniteSet(Units(w, S))
  <1> DEFINE f == [x \in S |-> {x} \X (1 .. w[x])]
             T == {f[x] : x \in S}
  <1>1. IsFiniteSet(T)
    <2>1. DOMAIN f = S /\ f = [x \in S |-> f[x]]
      OBVIOUS
    <2> HIDE DEF f
    <2> QED
      BY <2>1, ImageIsFinite
  <1>2. ASSUME NEW x \in S PROVE IsFiniteSet(f[x])
    <2>1. w[x] \in Nat
      OBVIOUS
    <2>2. IsFiniteSet({x} \X (1 .. w[x]))
      BY <2>1, UnitsOfOne, Zenon
    <2> QED
      BY <2>2
  <1>3. \A X \in T : IsFiniteSet(X)
    BY <1>2
  <1>4. Units(w, S) = UNION T
    BY DEF Units
  <1> QED
    BY <1>1, <1>3, <1>4, FS_UNION

\* No element has no units.
LEMMA TotalOfNone == ASSUME NEW w PROVE Total(w, {}) = 0
  <1>1. Units(w, {}) = {}
    BY DEF Units
  <1> QED
    BY <1>1, FS_EmptySet DEF Total

\* One element has its own.
LEMMA TotalOfOne ==
    ASSUME NEW x, NEW w, w[x] \in Nat
    PROVE  Total(w, {x}) = w[x]
  <1>1. Units(w, {x}) = {x} \X (1 .. w[x])
    BY DEF Units
  <1>2. Cardinality({x} \X (1 .. w[x])) = w[x]
    BY UnitsOfOne, Zenon
  <1> QED
    BY <1>1, <1>2, Zenon DEF Total

\* The total over two sets that do not meet is the sum of theirs.
THEOREM TotalOfUnion ==
    ASSUME NEW S, IsFiniteSet(S), NEW T, IsFiniteSet(T), S \cap T = {},
           NEW w, \A x \in S \cup T : w[x] \in Nat
    PROVE  /\ Total(w, S \cup T) = Total(w, S) + Total(w, T)
           /\ Total(w, S) \in Nat /\ Total(w, T) \in Nat
  <1>1. IsFiniteSet(Units(w, S)) /\ IsFiniteSet(Units(w, T))
    BY UnitsAreFinite
  <1>2. Units(w, S \cup T) = Units(w, S) \cup Units(w, T)
    BY DEF Units
  <1>3. Units(w, S) \cap Units(w, T) = {}
    BY DEF Units
  <1>4. Cardinality(Units(w, S)) \in Nat /\ Cardinality(Units(w, T)) \in Nat
    BY <1>1, FS_CardinalityType
  <1>5. /\ Cardinality(Units(w, S) \cup Units(w, T))
             = Cardinality(Units(w, S)) + Cardinality(Units(w, T))
                 - Cardinality(Units(w, S) \cap Units(w, T))
    BY <1>1, FS_Union
  <1>6. Cardinality(Units(w, S) \cap Units(w, T)) = 0
    BY <1>3, FS_EmptySet
  <1>7. Total(w, S \cup T) = Cardinality(Units(w, S) \cup Units(w, T))
    BY <1>2, Zenon DEF Total
  <1>8. Total(w, S) = Cardinality(Units(w, S)) /\ Total(w, T) = Cardinality(Units(w, T))
    BY Zenon DEF Total
  <1> QED
    BY <1>4, <1>5, <1>6, <1>7, <1>8

\* A total over a finite set is a number.
THEOREM TotalIsNatural ==
    ASSUME NEW S, IsFiniteSet(S), NEW w, \A x \in S : w[x] \in Nat
    PROVE  Total(w, S) \in Nat
  BY UnitsAreFinite, FS_CardinalityType DEF Total

\* One element more.
THEOREM TotalAdds ==
    ASSUME NEW S, IsFiniteSet(S), NEW w, NEW x, x \notin S,
           \A y \in S \cup {x} : w[y] \in Nat
    PROVE  Total(w, S \cup {x}) = Total(w, S) + w[x]
  <1>1. IsFiniteSet({x}) /\ S \cap {x} = {}
    BY FS_Singleton
  <1>2. Total(w, S \cup {x}) = Total(w, S) + Total(w, {x})
    BY <1>1, TotalOfUnion
  <1> QED
    BY <1>2, TotalOfOne

\* One element less.
THEOREM TotalRemoves ==
    ASSUME NEW S, IsFiniteSet(S), NEW w, NEW x \in S, \A y \in S : w[y] \in Nat
    PROVE  Total(w, S) = Total(w, S \ {x}) + w[x]
  <1>1. IsFiniteSet(S \ {x}) /\ x \notin S \ {x} /\ (S \ {x}) \cup {x} = S
    BY FS_RemoveElement
  <1> QED
    BY <1>1, TotalAdds

\* The total depends on the amounts over the set alone.
THEOREM TotalsAgree ==
    ASSUME NEW S, NEW v, NEW w, \A x \in S : v[x] = w[x]
    PROVE  Total(v, S) = Total(w, S)
  <1>1. Units(v, S) = Units(w, S)
    BY DEF Units
  <1> QED
    BY <1>1 DEF Total

\* The total grows with the set.
THEOREM TotalGrows ==
    ASSUME NEW S, IsFiniteSet(S), NEW T \in SUBSET S, NEW w, \A x \in S : w[x] \in Nat
    PROVE  Total(w, T) <= Total(w, S)
  <1>1. IsFiniteSet(Units(w, S))
    BY UnitsAreFinite
  <1>2. Units(w, T) \in SUBSET Units(w, S)
    BY DEF Units
  <1> QED
    BY <1>1, <1>2, FS_Subset DEF Total

\* The total is at most the largest amount for each element.
THEOREM TotalIsBounded ==
    ASSUME NEW S, IsFiniteSet(S), NEW n \in Nat, NEW w, \A x \in S : w[x] \in 0 .. n
    PROVE  Total(w, S) <= Cardinality(S) * n
  <1>1. IsFiniteSet(1 .. n) /\ Cardinality(1 .. n) = n
    BY FS_Interval
  <1>2. IsFiniteSet(S \X (1 .. n)) /\ Cardinality(S \X (1 .. n)) = Cardinality(S) * n
    BY <1>1, FS_Product
  <1>3. Units(w, S) \in SUBSET (S \X (1 .. n))
    BY DEF Units
  <1> QED
    BY <1>2, <1>3, FS_Subset DEF Total

\* A union of sets with so many elements each has no more than their total.
THEOREM UnionIsBounded ==
    ASSUME NEW D, IsFiniteSet(D), NEW F, NEW w,
           \A i \in D : w[i] \in Nat /\ IsFiniteSet(F[i]) /\ Cardinality(F[i]) <= w[i]
    PROVE  /\ IsFiniteSet(UNION {F[i] : i \in D})
           /\ Cardinality(UNION {F[i] : i \in D}) \in Nat
           /\ Cardinality(UNION {F[i] : i \in D}) <= Total(w, D)
  <1> DEFINE U == UNION {F[i] : i \in D}
             home == [x \in U |-> CHOOSE i \in D : x \in F[i]]
             count == [i \in D |-> CHOOSE f : f \in Injection(F[i], 1 .. w[i])]
             h == [x \in U |-> <<home[x], count[home[x]][x]>>]
  <1>1. \A x \in U : home[x] \in D /\ x \in F[home[x]]
    OBVIOUS
  <1>2. ASSUME NEW i \in D
        PROVE  count[i] \in Injection(F[i], 1 .. w[i])
    <2>1. PICK n \in Nat : n = Cardinality(F[i]) /\ n <= w[i] /\ ExistsBijection(1 .. n, F[i])
      BY FS_CardinalityType
    <2>2. ExistsBijection(F[i], 1 .. n)
      BY <2>1, Fun_ExistsBijSymmetric
    <2>3. PICK f : f \in Bijection(F[i], 1 .. n)
      BY <2>2 DEF ExistsBijection
    <2>4. f \in Injection(F[i], 1 .. n)
      BY <2>3 DEF Bijection
    <2>5. w[i] \in Nat
      OBVIOUS
    <2>6. 1 .. n \subseteq 1 .. w[i]
      BY <2>1, <2>5
    <2>7. f \in Injection(F[i], 1 .. w[i])
      BY <2>4, <2>6 DEF Injection, IsInjective
    <2>8. count[i] = CHOOSE g : g \in Injection(F[i], 1 .. w[i])
      OBVIOUS
    <2> QED
      BY <2>7, <2>8
  <1> HIDE DEF home, count
  <1>3. ASSUME NEW x \in U PROVE h[x] \in Units(w, D)
    <2>1. count[home[x]] \in [F[home[x]] -> 1 .. w[home[x]]]
      BY <1>1, <1>2 DEF Injection
    <2>2. count[home[x]][x] \in 1 .. w[home[x]]
      BY <1>1, <2>1
    <2> QED
      BY <1>1, <2>2 DEF Units
  <1>4. ASSUME NEW x \in U, NEW y \in U, h[x] = h[y] PROVE x = y
    <2>1. home[x] = home[y] /\ count[home[x]][x] = count[home[x]][y]
      BY <1>4
    <2>2. x \in F[home[x]] /\ y \in F[home[x]] /\ home[x] \in D
      BY <1>1, <2>1
    <2> QED
      BY <1>2, <2>1, <2>2 DEF Injection, IsInjective
  <1>5. h \in Injection(U, Units(w, D))
    BY <1>3, <1>4 DEF Injection, IsInjective
  <1>6. IsFiniteSet(Units(w, D))
    BY UnitsAreFinite
  <1> HIDE DEF U, h
  <1>7. IsFiniteSet(U) /\ Cardinality(U) <= Cardinality(Units(w, D))
    BY <1>5, <1>6, FS_Injection
  <1>8. Cardinality(U) \in Nat
    BY <1>7, FS_CardinalityType
  <1> QED
    BY <1>7, <1>8 DEF U, Total
=============================================================================
