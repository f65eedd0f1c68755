----------------------------- MODULE Clock_proofs -----------------------------
(***************************************************************************)
(* Proofs about the clock: whom the daemon believes (ClockSelect), how it  *)
(* moves its clock (ClockDiscipline), and how the drivers and the parsers  *)
(* read dates and times (Timecodes).                                       *)
(*                                                                         *)
(* First, for every number of associations, every offset and distance: the *)
(* selection finds the interval its definition says, follows servers that  *)
(* overlap it, drops none that agrees better than one it keeps, and        *)
(* combines to an offset near the interval.  What the code computes with a *)
(* sort, a scan and loops is computed here by a rank, a recursive function *)
(* and folds; induction goes over sets, by their least element or a        *)
(* smallest counterexample.                                                *)
(*                                                                         *)
(* Then, for every error, delay, period, limit and width of the reach      *)
(* register: the type invariant, a fresh step is exact, moves are bounded, *)
(* and the clock is moved only on a recent answer.                         *)
(*                                                                         *)
(* Last, for every date since the year 1, every time of day and every      *)
(* format (Timecodes): the routines that count days count alike and back,  *)
(* by counting from the first of March in eras of 400 years, and one       *)
(* invariant, that the date is valid and its number DayNumber; and the     *)
(* readers of sentences and of fixed-width lines read alike, by the        *)
(* groups each letter of a format has to itself.                           *)
(***************************************************************************)
EXTENDS ClockSelect, ClockDiscipline, Timecodes, TLAPS, FiniteSetTheorems, SequenceTheorems

------------------------------------------------------------------------------
(* Induction, iteration and folds. *)

\* Every nonempty set of naturals has a least element.
LEMMA LeastNat ==
  ASSUME NEW S \in SUBSET Nat, S # {}
  PROVE  \E k \in S : \A j \in S : k <= j
<1>1. PICK k \in S : \A j \in S : <<j, k>> \notin OpToRel(<, Nat)
  BY NatLessThanWellFounded, WFMin
<1>2. ASSUME NEW j \in S PROVE ~(j < k)
  <2>1. j < k => <<j, k>> \in OpToRel(<, Nat)
    BY DEF OpToRel
  <2>2. QED
    BY <1>1, <2>1
<1>3. QED
  BY <1>2

\* Induction from 0 to n, with a set for what holds.
LEMMA Climb ==
  ASSUME NEW n \in Nat, NEW S, 0 \in S, \A k \in 1..n : k - 1 \in S => k \in S
  PROVE  \A k \in 0..n : k \in S
<1> DEFINE bad == {k \in 0..n : k \notin S}
<1>1. ASSUME bad # {} PROVE FALSE
  <2>1. PICK k \in bad : \A j \in bad : k <= j
    <3>1. bad \in SUBSET Nat
      OBVIOUS
    <3> HIDE DEF bad
    <3>2. QED
      BY <1>1, <3>1, LeastNat
  <2>2. k \in 1..n /\ k - 1 \in 0..n /\ ~(k <= k - 1)
    BY <2>1
  <2>3. QED
    BY <2>1, <2>2
<1>2. QED
  BY <1>1

\* A step repeated n times: such a function exists.
IsIteration(g, b, F, n) == g = [k \in 0..n |-> IF k = 0 THEN b ELSE F[<<k, g[k - 1]>>]]

\* A step repeated n times: the recursive definition has a function that satisfies it.
LEMMA Iteration ==
  ASSUME NEW S, NEW b \in S, NEW n \in Nat, NEW F \in [(1..n) \X S -> S]
  PROVE  \E g \in [0..n -> S] : IsIteration(g, b, F, n)
<1> DEFINE Fits(g, m) == g[0] = b /\ \A k \in 1..m : g[k] = F[<<k, g[k - 1]>>]
           Good(m) == \E g \in [0..n -> S] : Fits(g, m)
           bad == {m \in 0..n : ~Good(m)}
<1> HIDE DEF Good
<1>1. ASSUME bad # {} PROVE FALSE
  <2>1. PICK m \in bad : \A k \in bad : m <= k
    <3> HIDE DEF bad
    <3>1. bad \in SUBSET Nat
      BY DEF bad
    <3>2. QED
      BY <1>1, <3>1, LeastNat
  <2>2. m # 0
    <3> DEFINE g == [k \in 0..n |-> b]
    <3>1. g \in [0..n -> S] /\ g[0] = b
      OBVIOUS
    <3>2. Fits(g, 0)
      BY <3>1
    <3> HIDE DEF g, Fits
    <3>3. Good(0)
      BY <3>1, <3>2 DEF Good
    <3>4. QED
      BY <2>1, <3>3
  <2>3. m \in 1..n /\ m - 1 \in 0..n /\ m - 1 \notin bad
    BY <2>1, <2>2
  <2>4. PICK g \in [0..n -> S] : Fits(g, m - 1)
    <3>1. Good(m - 1)
      BY <2>3
    <3>2. QED
      BY <3>1 DEF Good
  <2> DEFINE v == F[<<m, g[m - 1]>>]
             h == [g EXCEPT ![m] = v]
  <2>5. <<m, g[m - 1]>> \in (1..n) \X S
    BY <2>3
  <2>6. v \in S
    BY <2>5
  <2>7. h \in [0..n -> S] /\ h[m] = v /\ \A k \in 0..n : k # m => h[k] = g[k]
    <3> HIDE DEF v
    <3> QED BY <2>3, <2>6
  <2>8. h[0] = b
    BY <2>3, <2>4, <2>7
  <2> HIDE DEF h
  <2>9. ASSUME NEW k \in 1..m PROVE h[k] = F[<<k, h[k - 1]>>]
    <3>1. k - 1 \in 0..n /\ k - 1 # m /\ k \in 0..n
      BY <2>3
    <3>2. h[k - 1] = g[k - 1]
      BY <2>7, <3>1
    <3>3. CASE k = m
      BY <2>7, <3>2, <3>3
    <3>4. CASE k # m
      <4>1. h[k] = g[k] /\ k \in 1..(m - 1)
        BY <2>3, <2>7, <3>1, <3>4
      <4>2. QED
        BY <2>4, <3>2, <4>1
    <3>5. QED
      BY <3>3, <3>4
  <2>10. Good(m)
    BY <2>7, <2>8, <2>9 DEF Good
  <2>11. QED
    BY <2>1, <2>10
<1>2. Good(n)
  BY <1>1
<1>3. PICK g \in [0..n -> S] : Fits(g, n)
  BY <1>2 DEF Good
<1>4. \A k \in 0..n : g[k] = IF k = 0 THEN b ELSE F[<<k, g[k - 1]>>]
  BY <1>3
<1>5. QED
  BY <1>4 DEF IsIteration

------------------------------------------------------------------------------
(* Sums and products over finite sets.                                     *)

Some(s) == CHOOSE x \in s : TRUE

\* Some member of a nonempty set is a member.
LEMMA SomeIn == ASSUME NEW s, s # {} PROVE Some(s) \in s
BY DEF Some

\* A nonempty set of subsets of a finite set has a member that none is
\* smaller than.
LEMMA SmallestSet ==
  ASSUME NEW U, IsFiniteSet(U), NEW B \in SUBSET SUBSET U, B # {}
  PROVE  \E s \in B : /\ IsFiniteSet(s) /\ Cardinality(s) \in Nat
                      /\ \A r \in B : Cardinality(r) >= Cardinality(s)
                      /\ \A x \in s : s \ {x} \notin B
<1>0. \A s \in B : IsFiniteSet(s) /\ Cardinality(s) \in Nat
  BY FS_Subset, FS_CardinalityType
<1> DEFINE sizes == {Cardinality(s) : s \in B}
<1>1. sizes \in SUBSET Nat /\ sizes # {}
  BY <1>0
<1>2. PICK k \in sizes : \A j \in sizes : k <= j
  <2> HIDE DEF sizes
  <2> QED BY <1>1, LeastNat
<1>3. PICK s \in B : Cardinality(s) = k
  OBVIOUS
<1>4. \A r \in B : Cardinality(r) >= Cardinality(s)
  BY <1>2, <1>3, <1>0
<1>5. ASSUME NEW x \in s, s \ {x} \in B PROVE FALSE
  <2>1. Cardinality(s \ {x}) = Cardinality(s) - 1
    BY <1>0, FS_RemoveElement
  <2>2. QED
    BY <1>0, <1>4, <1>5, <2>1
<1>6. QED
  BY <1>0, <1>4, <1>5

\* Sum (times = FALSE) or product: the rest of the set and one element of it.
FoldBody(times, f, g, s) ==
  IF s = {} THEN (IF times THEN 1 ELSE 0)
  ELSE IF times THEN f[Some(s)] * g[s \ {Some(s)}] ELSE f[Some(s)] + g[s \ {Some(s)}]
IsFold(times, g, f, U) == g = [s \in SUBSET U |-> FoldBody(times, f, g, s)]

\* Over a finite set the recursive equation of a fold has a solution.
LEMMA FoldExists ==
  ASSUME NEW times \in BOOLEAN, NEW f, NEW U, IsFiniteSet(U)
  PROVE  \E g : IsFold(times, g, f, U)
<1> DEFINE Good(n) == \E g : \A s \in SUBSET U : Cardinality(s) <= n => g[s] = FoldBody(times, f, g, s)
           bad == {n \in Nat : ~Good(n)}
<1>0. ASSUME NEW s \in SUBSET U
      PROVE  /\ IsFiniteSet(s) /\ Cardinality(s) \in Nat /\ Cardinality(s) <= Cardinality(U)
             /\ s # {} => /\ s \ {Some(s)} \in SUBSET U
                          /\ Cardinality(s \ {Some(s)}) = Cardinality(s) - 1
             /\ Cardinality(s) = 0 => s = {}
  <2>1. IsFiniteSet(s) /\ Cardinality(s) \in Nat /\ Cardinality(s) <= Cardinality(U)
    BY FS_Subset, FS_CardinalityType
  <2>2. s # {} => Cardinality(s \ {Some(s)}) = Cardinality(s) - 1
    BY <2>1, FS_RemoveElement, SomeIn
  <2>3. QED
    BY <2>1, <2>2, FS_EmptySet
<1>1. ASSUME bad # {} PROVE FALSE
  <2>1. PICK n \in bad : \A k \in bad : n <= k
    <3> HIDE DEF bad
    <3>1. bad \in SUBSET Nat
      BY DEF bad
    <3>2. QED
      BY <1>1, <3>1, LeastNat
  <2>2. CASE n = 0
    <3> DEFINE g == [s \in SUBSET U |-> IF times THEN 1 ELSE 0]
    <3>1. ASSUME NEW s \in SUBSET U, Cardinality(s) <= 0 PROVE g[s] = FoldBody(times, f, g, s)
      <4>1. s = {}
        <5>1. Cardinality(s) \in Nat /\ (Cardinality(s) = 0 => s = {})
          BY <1>0
        <5>2. Cardinality(s) = 0
          BY <3>1, <5>1, SMT
        <5>3. QED
          BY <5>1, <5>2
      <4>2. FoldBody(times, f, g, s) = IF times THEN 1 ELSE 0
        BY <4>1 DEF FoldBody
      <4>3. QED
        BY <4>2
    <3> HIDE DEF g
    <3>2. QED
      BY <2>1, <2>2, <3>1
  <2>3. CASE n # 0
    <3>1. n \in Nat /\ n - 1 \in Nat /\ n - 1 \notin bad
      BY <2>1, <2>3
    <3>2. PICK g : \A s \in SUBSET U : Cardinality(s) <= n - 1 => g[s] = FoldBody(times, f, g, s)
      BY <3>1
    <3> DEFINE h == [s \in SUBSET U |-> IF Cardinality(s) <= n - 1 THEN g[s] ELSE FoldBody(times, f, g, s)]
    <3>3. ASSUME NEW s \in SUBSET U, Cardinality(s) <= n PROVE h[s] = FoldBody(times, f, h, s)
      <4>1. h[s] = FoldBody(times, f, g, s)
        BY <3>2
      <4>2. CASE s = {}
        BY <4>1, <4>2 DEF FoldBody
      <4>3. CASE s # {}
        <5>1. s \ {Some(s)} \in SUBSET U /\ Cardinality(s \ {Some(s)}) <= n - 1
          BY <1>0, <3>1, <3>3, <4>3
        <5>2. h[s \ {Some(s)}] = g[s \ {Some(s)}]
          BY <5>1
        <5> HIDE DEF h
        <5>3. QED
          BY <4>1, <4>3, <5>2, Zenon DEF FoldBody
      <4>4. QED
        BY <4>2, <4>3
    <3> HIDE DEF h
    <3>4. QED
      BY <2>1, <3>3
  <2>4. QED
    BY <2>2, <2>3
<1>2. Cardinality(U) \in Nat
  BY FS_CardinalityType
<1>3. PICK g : \A s \in SUBSET U : g[s] = FoldBody(times, f, g, s)
  <2>1. Good(Cardinality(U))
    BY <1>1, <1>2
  <2>2. QED
    BY <1>0, <2>1
<1> DEFINE h == [s \in SUBSET U |-> g[s]]
<1>4. ASSUME NEW s \in SUBSET U PROVE h[s] = FoldBody(times, f, h, s)
  <2>1. g[s] = FoldBody(times, f, g, s)
    BY <1>3
  <2>2. s # {} => h[s \ {Some(s)}] = g[s \ {Some(s)}]
    BY <1>0
  <2>3. h[s] = g[s]
    OBVIOUS
  <2> HIDE DEF h
  <2>4. QED
    BY <2>1, <2>2, <2>3, Zenon DEF FoldBody
<1>5. h = [s \in SUBSET U |-> FoldBody(times, f, h, s)]
  BY <1>4
<1>6. QED
  BY <1>5 DEF IsFold

\* Two such functions agree where both are defined and add the same.
LEMMA FoldUnique ==
  ASSUME NEW times \in BOOLEAN, NEW f, NEW e, NEW U, IsFiniteSet(U), NEW V \in SUBSET U,
         \A x \in V : f[x] = e[x],
         NEW g, IsFold(times, g, f, U), NEW h, IsFold(times, h, e, V)
  PROVE  \A s \in SUBSET V : g[s] = h[s]
<1> DEFINE bad == {s \in SUBSET V : g[s] # h[s]}
<1>1. ASSUME bad # {} PROVE FALSE
  <2>1. PICK s \in bad : \A x \in s : s \ {x} \notin bad
    <3>1. bad \in SUBSET SUBSET V /\ IsFiniteSet(V)
      BY FS_Subset
    <3> HIDE DEF bad
    <3>2. QED
      BY <1>1, <3>1, SmallestSet
  <2>2. s \in SUBSET U /\ s \in SUBSET V
    OBVIOUS
  <2>3. g[s] = FoldBody(times, f, g, s) /\ h[s] = FoldBody(times, e, h, s)
    BY <2>2 DEF IsFold
  <2>4. s # {}
    BY <2>1, <2>3 DEF FoldBody
  <2>5. Some(s) \in s /\ f[Some(s)] = e[Some(s)]
    BY <2>4, SomeIn
  <2>6. g[s \ {Some(s)}] = h[s \ {Some(s)}]
    BY <2>1, <2>5
  <2>7. FoldBody(times, f, g, s) = FoldBody(times, e, h, s)
    BY <2>5, <2>6, Zenon DEF FoldBody
  <2>8. QED
    BY <2>1, <2>3, <2>7
<1>2. QED
  BY <1>1

\* In particular the recursive equation has but one solution.
LEMMA FoldSame ==
  ASSUME NEW times \in BOOLEAN, NEW f, NEW U, IsFiniteSet(U),
         NEW g, IsFold(times, g, f, U), NEW h, IsFold(times, h, f, U)
  PROVE  \A s \in SUBSET U : g[s] = h[s]
<1>1. U \in SUBSET U /\ \A x \in U : f[x] = f[x]
  OBVIOUS
<1>2. QED
  BY <1>1, FoldUnique, SMTT(60)

\* The sum or the product of f over U.
FoldOf(times, f, U) == IF times THEN FoldFunctionOnSet(LAMBDA x, y : x * y, 1, f, U)
                       ELSE SumFunctionOnSet(f, U)

\* The fold of the library is that solution.
LEMMA FoldIs ==
  ASSUME NEW times \in BOOLEAN, NEW f, NEW U, IsFiniteSet(U), NEW g, IsFold(times, g, f, U)
  PROVE  FoldOf(times, f, U) = g[U]
<1> DEFINE iter == CHOOSE h : IsFold(times, h, f, U)
<1>1. IsFold(times, iter, f, U)
  BY Zenon
<1>2. CASE times = TRUE
  <2>1. FoldOf(TRUE, f, U) = (CHOOSE h : IsFold(TRUE, h, f, U))[U]
    BY DEF FoldOf, FoldFunctionOnSet, MapThenFoldSet, IsFold, FoldBody, Some
  <2>2. FoldOf(times, f, U) = iter[U]
    BY <1>2, <2>1
  <2> HIDE DEF iter
  <2>3. \A s \in SUBSET U : iter[s] = g[s]
    BY <1>1, FoldSame
  <2>4. QED
    BY <2>2, <2>3
<1>3. CASE times = FALSE
  <2>1. FoldOf(FALSE, f, U) = (CHOOSE h : IsFold(FALSE, h, f, U))[U]
    BY DEF FoldOf, SumFunctionOnSet, FoldFunctionOnSet, MapThenFoldSet, IsFold, FoldBody, Some
  <2>2. FoldOf(times, f, U) = iter[U]
    BY <1>3, <2>1
  <2> HIDE DEF iter
  <2>3. \A s \in SUBSET U : iter[s] = g[s]
    BY <1>1, FoldSame
  <2>4. QED
    BY <2>2, <2>3
<1>4. QED
  BY <1>2, <1>3


\* What the fold of a finite set is, one element at a time.
LEMMA FoldEmpty ==
  ASSUME NEW times \in BOOLEAN, NEW f
  PROVE  FoldOf(times, f, {}) = IF times THEN 1 ELSE 0
<1>1. IsFiniteSet({})
  BY FS_EmptySet
<1>2. PICK g : IsFold(times, g, f, {})
  BY <1>1, FoldExists
<1>3. FoldOf(times, f, {}) = g[{}]
  BY <1>1, <1>2, FoldIs
<1>4. g[{}] = FoldBody(times, f, g, {})
  BY <1>2 DEF IsFold
<1>5. QED
  BY <1>3, <1>4 DEF FoldBody

\* A fold takes some element first and then folds the rest.
LEMMA FoldStep ==
  ASSUME NEW times \in BOOLEAN, NEW f, NEW U, IsFiniteSet(U), U # {}
  PROVE  FoldOf(times, f, U) = IF times THEN f[Some(U)] * FoldOf(times, f, U \ {Some(U)})
                               ELSE f[Some(U)] + FoldOf(times, f, U \ {Some(U)})
<1> DEFINE V == U \ {Some(U)}
<1>1. IsFiniteSet(V) /\ V \in SUBSET U
  BY FS_Subset
<1>2. PICK g : IsFold(times, g, f, U)
  BY FoldExists
<1>3. PICK h : IsFold(times, h, f, V)
  BY <1>1, FoldExists
<1>4. FoldOf(times, f, U) = g[U] /\ FoldOf(times, f, V) = h[V]
  BY <1>1, <1>2, <1>3, FoldIs
<1>5. g[V] = h[V]
  <2> HIDE DEF V
  <2>1. \A s \in SUBSET V : g[s] = h[s]
    BY <1>1, <1>2, <1>3, FoldUnique, SMTT(60)
  <2>2. QED
    BY <2>1
<1>6. g[U] = FoldBody(times, f, g, U)
  BY <1>2 DEF IsFold
<1>7. QED
  BY <1>4, <1>5, <1>6, Zenon DEF FoldBody

\* A fold looks at the values of the function on the set only.
LEMMA FoldAgree ==
  ASSUME NEW times \in BOOLEAN, NEW f, NEW e, NEW U, IsFiniteSet(U), \A x \in U : f[x] = e[x]
  PROVE  FoldOf(times, f, U) = FoldOf(times, e, U)
<1>1. PICK g : IsFold(times, g, f, U)
  BY FoldExists
<1>2. PICK h : IsFold(times, h, e, U)
  BY FoldExists
<1>3. U \in SUBSET U
  OBVIOUS
<1>4. \A s \in SUBSET U : g[s] = h[s]
  BY <1>1, <1>2, <1>3, FoldUnique, SMTT(60)
<1>5. QED
  BY <1>1, <1>2, <1>3, <1>4, FoldIs

\* Integers have an integer for sum and product, naturals a natural, and it
\* is positive if they are and there are any.
LEMMA FoldType ==
  ASSUME NEW times \in BOOLEAN, NEW f, NEW U, IsFiniteSet(U), \A x \in U : f[x] \in Int
  PROVE  /\ FoldOf(times, f, U) \in Int
         /\ ((\A x \in U : f[x] > 0) /\ (times \/ U # {})) => FoldOf(times, f, U) > 0
<1> DEFINE P(s) == /\ FoldOf(times, f, s) \in Int
                   /\ (\A x \in U : f[x] > 0) =>
                        /\ FoldOf(times, f, s) >= 0
                        /\ (times \/ s # {}) => FoldOf(times, f, s) > 0
           bad == {s \in SUBSET U : ~P(s)}
<1> HIDE DEF P
<1>1. ASSUME bad # {} PROVE FALSE
  <2>1. PICK s \in bad : IsFiniteSet(s) /\ \A x \in s : s \ {x} \notin bad
    <3>1. bad \in SUBSET SUBSET U
      OBVIOUS
    <3> HIDE DEF bad
    <3>2. QED
      BY <1>1, <3>1, SmallestSet
  <2>2. CASE s = {}
    <3>1. P({})
      BY FoldEmpty DEF P
    <3>2. QED
      BY <2>1, <2>2, <3>1
  <2>3. CASE s # {}
    <3>1. Some(s) \in s /\ s \in SUBSET U
      BY <2>3, SomeIn
    <3>2. P(s \ {Some(s)})
      BY <2>1, <3>1
    <3> DEFINE a == f[Some(s)]
               r == FoldOf(times, f, s \ {Some(s)})
    <3>3. FoldOf(times, f, s) = IF times THEN a * r ELSE a + r
      BY <2>1, <2>3, FoldStep
    <3>4. a \in Int /\ r \in Int
      BY <3>1, <3>2 DEF P
    <3>5. ASSUME \A x \in U : f[x] > 0
          PROVE  a > 0 /\ r >= 0 /\ (times => r > 0)
      BY <3>1, <3>2, <3>5 DEF P
    <3> HIDE DEF a, r
    <3>6. \A x, y \in Int : /\ x * y \in Int /\ x + y \in Int
                            /\ x > 0 /\ y > 0 => x * y > 0
                            /\ x > 0 /\ y >= 0 => x + y > 0
      OBVIOUS
    <3>7. P(s)
      <4>1. CASE times
        <5> DEFINE p == a * r
        <5>1. FoldOf(times, f, s) = p
          BY <3>3, <4>1
        <5>2. p \in Int /\ (a > 0 /\ r > 0 => p > 0)
          BY <3>4, <3>6
        <5> HIDE DEF p
        <5>3. (\A x \in U : f[x] > 0) => p > 0
          BY <3>5, <4>1, <5>2
        <5>4. QED
          BY <5>1, <5>2, <5>3 DEF P
      <4>2. CASE ~times
        BY <3>3, <3>4, <3>5, <3>6, <4>2 DEF P
      <4>3. QED
        BY <4>1, <4>2
    <3>8. QED
      BY <2>1, <3>7
  <2>4. QED
    BY <2>2, <2>3
<1>2. P(U)
  BY <1>1
<1>3. QED
  BY <1>2 DEF P

Product(f, U) == FoldOf(TRUE, f, U)

\* Any element may be taken out of a product first.
LEMMA ProductOf ==
  ASSUME NEW f, NEW U, IsFiniteSet(U), \A x \in U : f[x] \in Int, NEW i \in U
  PROVE  Product(f, U) = f[i] * Product(f, U \ {i})
<1> DEFINE F(s) == FoldOf(TRUE, f, s)
           bad == {s \in SUBSET U : \E j \in s : F(s) # f[j] * F(s \ {j})}
<1> HIDE DEF F
<1>0. ASSUME NEW s \in SUBSET U PROVE IsFiniteSet(s) /\ F(s) \in Int
  <2>1. IsFiniteSet(s) /\ \A x \in s : f[x] \in Int
    BY FS_Subset
  <2>2. TRUE \in BOOLEAN
    OBVIOUS
  <2>3. QED
    BY <2>1, <2>2, FoldType DEF F
<1>1. ASSUME bad # {} PROVE FALSE
  <2>1. PICK s \in bad : IsFiniteSet(s) /\ \A x \in s : s \ {x} \notin bad
    <3>1. bad \in SUBSET SUBSET U
      OBVIOUS
    <3> HIDE DEF bad
    <3>2. QED
      BY <1>1, <3>1, SmallestSet
  <2>2. PICK j \in s : F(s) # f[j] * F(s \ {j})
    BY <2>1
  <2> DEFINE c == Some(s)
  <2>3. c \in s /\ F(s) = f[c] * F(s \ {c})
    BY <2>1, <2>2, SomeIn, FoldStep DEF F
  <2> HIDE DEF c
  <2>4. c # j
    BY <2>2, <2>3
  <2> DEFINE r == F(s \ {c, j})
  <2>5. F(s \ {c}) = f[j] * r
    <3>1. j \in s \ {c} /\ (s \ {c}) \ {j} = s \ {c, j} /\ s \ {c} \in SUBSET U
      BY <2>1, <2>2, <2>4
    <3>2. s \ {c} \notin bad
      BY <2>1, <2>3
    <3>3. QED
      BY <3>1, <3>2
  <2>6. F(s \ {j}) = f[c] * r
    <3>1. c \in s \ {j} /\ (s \ {j}) \ {c} = s \ {c, j} /\ s \ {j} \in SUBSET U
      BY <2>1, <2>3, <2>4
    <3>2. s \ {j} \notin bad
      BY <2>1, <2>2
    <3>3. QED
      BY <3>1, <3>2
  <2>7. r \in Int /\ f[c] \in Int /\ f[j] \in Int
    BY <1>0, <2>1, <2>2, <2>3
  <2> HIDE DEF r
  <2>8. \A x, y, z \in Int : x * (y * z) = y * (x * z)
    OBVIOUS
  <2>9. f[c] * (f[j] * r) = f[j] * (f[c] * r)
    BY <2>7, <2>8
  <2>10. QED
    BY <2>2, <2>3, <2>5, <2>6, <2>9
<1>2. QED
  BY <1>1 DEF F, Product

\* Any element may be taken out of a sum first.
LEMMA SumOf ==
  ASSUME NEW f, NEW U, IsFiniteSet(U), \A x \in U : f[x] \in Int, NEW i \in U
  PROVE  SumFunctionOnSet(f, U) = f[i] + SumFunctionOnSet(f, U \ {i})
<1> DEFINE F(s) == FoldOf(FALSE, f, s)
           bad == {s \in SUBSET U : \E j \in s : F(s) # f[j] + F(s \ {j})}
<1> HIDE DEF F
<1>0. ASSUME NEW s \in SUBSET U PROVE IsFiniteSet(s) /\ F(s) \in Int
  <2>1. IsFiniteSet(s) /\ \A x \in s : f[x] \in Int
    BY FS_Subset
  <2>2. FALSE \in BOOLEAN
    OBVIOUS
  <2>3. QED
    BY <2>1, <2>2, FoldType DEF F
<1>1. ASSUME bad # {} PROVE FALSE
  <2>1. PICK s \in bad : IsFiniteSet(s) /\ \A x \in s : s \ {x} \notin bad
    <3>1. bad \in SUBSET SUBSET U
      OBVIOUS
    <3> HIDE DEF bad
    <3>2. QED
      BY <1>1, <3>1, SmallestSet
  <2>2. PICK j \in s : F(s) # f[j] + F(s \ {j})
    BY <2>1
  <2> DEFINE c == Some(s)
  <2>3. c \in s /\ F(s) = f[c] + F(s \ {c})
    BY <2>1, <2>2, SomeIn, FoldStep DEF F
  <2> HIDE DEF c
  <2>4. c # j
    BY <2>2, <2>3
  <2> DEFINE r == F(s \ {c, j})
  <2>5. F(s \ {c}) = f[j] + r
    <3>1. j \in s \ {c} /\ (s \ {c}) \ {j} = s \ {c, j} /\ s \ {c} \in SUBSET U
      BY <2>1, <2>2, <2>4
    <3>2. s \ {c} \notin bad
      BY <2>1, <2>3
    <3>3. QED
      BY <3>1, <3>2
  <2>6. F(s \ {j}) = f[c] + r
    <3>1. c \in s \ {j} /\ (s \ {j}) \ {c} = s \ {c, j} /\ s \ {j} \in SUBSET U
      BY <2>1, <2>3, <2>4
    <3>2. s \ {j} \notin bad
      BY <2>1, <2>2
    <3>3. QED
      BY <3>1, <3>2
  <2>7. r \in Int /\ f[c] \in Int /\ f[j] \in Int
    BY <1>0, <2>1, <2>2, <2>3
  <2> HIDE DEF r
  <2>8. f[c] + (f[j] + r) = f[j] + (f[c] + r)
    BY <2>7
  <2>9. QED
    BY <2>2, <2>3, <2>5, <2>6, <2>8
<1>2. F(U) = f[i] + F(U \ {i})
  BY <1>1
<1>3. QED
  BY <1>2 DEF F, FoldOf

\* The sum over an interval, its last element taken out.
LEMMA SumUpTo ==
  ASSUME NEW f, NEW a \in Int, NEW b \in Int, a <= b, \A x \in a..b : f[x] \in Int
  PROVE  SumFunctionOnSet(f, a..b) = f[b] + SumFunctionOnSet(f, a..(b - 1))
<1>1. IsFiniteSet(a..b)
  BY FS_Interval
<1>2. b \in a..b /\ (a..b) \ {b} = a..(b - 1)
  OBVIOUS
<1>3. SumFunctionOnSet(f, a..b) = f[b] + SumFunctionOnSet(f, (a..b) \ {b})
  BY <1>1, <1>2, SumOf
<1>4. QED
  BY <1>2, <1>3

\* The sum over nothing.
LEMMA SumNone ==
  ASSUME NEW f
  PROVE  SumFunctionOnSet(f, {}) = 0
<1>1. FALSE \in BOOLEAN
  OBVIOUS
<1>2. FoldOf(FALSE, f, {}) = 0
  BY <1>1, FoldEmpty
<1>3. QED
  BY <1>2 DEF FoldOf

------------------------------------------------------------------------------
(* Clustering: what the two loops keep.                                    *)

Estimate == [offset : Int, dist : Nat \ {0}, reach : BOOLEAN,
             flash : SUBSET {"TEST5", "TEST9"}]

\* The table is finite, and so is every part of it.
LEMMA PeersFinite ==
  /\ IsFiniteSet(Peers) /\ Cardinality(Peers) = N /\ N \in Nat \ {0}
  /\ \A s \in SUBSET Peers : IsFiniteSet(s) /\ Cardinality(s) \in 0..N
<1>1. N \in Nat \ {0} /\ IsFiniteSet(Peers) /\ Cardinality(Peers) = N
  <2>1. N \in Nat \ {0} /\ 1 \in Int /\ N \in Int
    BY SelectAssumption
  <2>2. IsFiniteSet(1..N) /\ Cardinality(1..N) = IF 1 > N THEN 0 ELSE N - 1 + 1
    BY <2>1, FS_Interval
  <2>3. QED
    BY <2>1, <2>2 DEF Peers
<1>2. ASSUME NEW s \in SUBSET Peers PROVE IsFiniteSet(s) /\ Cardinality(s) \in 0..N
  BY <1>1, FS_Subset, FS_CardinalityType
<1>3. QED
  BY <1>1, <1>2

\* A sum of integers is an integer.
LEMMA SumType ==
  ASSUME NEW f, NEW U, IsFiniteSet(U), \A x \in U : f[x] \in Int
  PROVE  SumFunctionOnSet(f, U) \in Int
<1>1. FALSE \in BOOLEAN
  OBVIOUS
<1>2. FoldOf(FALSE, f, U) \in Int
  BY <1>1, FoldType
<1>3. QED
  BY <1>2 DEF FoldOf

\* A jitter is an integer.
LEMMA JitterType ==
  ASSUME NEW t \in [Peers -> Estimate], NEW cand \in SUBSET Peers, NEW i \in Peers
  PROVE  JitterOf(t, cand, i) \in Int
<1> DEFINE f == [j \in cand |-> Square(t[i].offset - t[j].offset)]
<1>1. ASSUME NEW j \in cand PROVE f[j] \in Int
  <2>1. t[i].offset \in Int /\ t[j].offset \in Int
    BY DEF Estimate
  <2>2. \A x \in Int : x * x \in Int
    OBVIOUS
  <2>3. t[i].offset - t[j].offset \in Int
    BY <2>1
  <2>4. QED
    BY <2>2, <2>3 DEF Square
<1>2. IsFiniteSet(cand)
  BY PeersFinite
<1> HIDE DEF f
<1>3. SumFunctionOnSet(f, cand) \in Int
  BY <1>1, <1>2, SumType
<1>4. QED
  BY <1>3 DEF JitterOf, f

\* Those kept agree with the candidates at least as well as those dropped.
KeepsTheBest(t, cand, from, kept) ==
  /\ kept \in SUBSET from
  /\ from # {} => kept # {}
  /\ \A i \in kept, j \in from \ kept : JitterOf(t, cand, i) <= JitterOf(t, cand, j)

\* One pass of pruning keeps the best: an outlier exceeds a mean that the kept do not.
LEMMA PruneOnceKeeps ==
  ASSUME NEW t \in [Peers -> Estimate], NEW cand \in SUBSET Peers, NEW kept \in SUBSET cand
  PROVE  KeepsTheBest(t, cand, kept, PruneOnce(t, cand, kept))
<1> DEFINE J(i) == JitterOf(t, cand, i)
           c == Cardinality(kept)
           total == SumFunctionOnSet([i \in kept |-> J(i)], kept)
           outliers == {i \in kept : J(i) * c * JitterDen > JitterNum * total}
<1>1. \A i \in kept : J(i) \in Int
  BY JitterType
<1>2. IsFiniteSet(kept) /\ c \in Nat
  BY PeersFinite
<1>3. total \in Int
  <2> DEFINE f == [i \in kept |-> J(i)]
  <2>1. \A i \in kept : f[i] \in Int
    BY <1>1
  <2> HIDE DEF f
  <2>2. SumFunctionOnSet(f, kept) \in Int
    BY <1>2, <2>1, SumType
  <2>3. QED
    BY <2>2 DEF f
<1>4. PruneOnce(t, cand, kept) = IF c > MinClock /\ outliers # kept THEN kept \ outliers ELSE kept
  BY DEF PruneOnce
<1> HIDE DEF J, c, total
<1>5. ASSUME NEW i \in kept \ outliers, NEW j \in outliers, c > MinClock PROVE J(i) <= J(j)
  <2>1. ~(J(i) * c * JitterDen > JitterNum * total) /\ J(j) * c * JitterDen > JitterNum * total
    OBVIOUS
  <2>2. J(i) \in Int /\ J(j) \in Int /\ c \in Nat \ {0} /\ JitterDen \in Nat \ {0}
        /\ JitterNum \in Nat /\ MinClock \in Nat
    BY <1>1, <1>2, <1>5, SelectAssumption
  <2>3. \A x, y, k \in Int : k > 0 /\ x >= y => x * k >= y * k
    OBVIOUS
  <2>4. \A x, y \in Int : x * y \in Int
    OBVIOUS
  <2> DEFINE m == JitterNum * total
             u == J(i) * c
             v == J(j) * c
             uu == u * JitterDen
             vv == v * JitterDen
  <2>5. m \in Int /\ u \in Int /\ v \in Int /\ uu \in Int /\ vv \in Int
    BY <1>3, <2>2, <2>4
  <2>6. J(i) >= J(j) => u >= v
    BY <2>2, <2>3
  <2>7. u >= v => uu >= vv
    <3> HIDE DEF u, v
    <3> QED BY <2>2, <2>3, <2>5
  <2>8. ~(uu > m) /\ vv > m
    BY <2>1
  <2> HIDE DEF m, u, v, uu, vv
  <2>9. QED
    BY <2>2, <2>5, <2>6, <2>7, <2>8
<1>6. QED
  BY <1>4, <1>5 DEF KeepsTheBest, J

\* Mutually comparable: the worse agreement, or the later in the table.
Worse(t, cand, j, i) ==
  \/ JitterOf(t, cand, j) < JitterOf(t, cand, i)
  \/ JitterOf(t, cand, j) = JitterOf(t, cand, i) /\ j < i

\* Of a nonempty part of the candidates one is the worst.
LEMMA WorstExists ==
  ASSUME NEW t \in [Peers -> Estimate], NEW cand \in SUBSET Peers,
         NEW kept \in SUBSET cand, kept # {}
  PROVE  /\ Worst(t, cand, kept) \in kept
         /\ \A j \in kept : JitterOf(t, cand, j) <= JitterOf(t, cand, Worst(t, cand, kept))
<1> DEFINE J(i) == JitterOf(t, cand, i)
           IsTop(s, i) == i \in s /\ \A j \in s \ {i} : Worse(t, cand, j, i)
           bad == {s \in SUBSET kept : s # {} /\ \A i \in s : ~IsTop(s, i)}
<1>1. \A i \in kept : J(i) \in Int /\ i \in Int
  BY JitterType DEF Peers
<1>2. ASSUME bad # {} PROVE FALSE
  <2>1. PICK s \in bad : IsFiniteSet(s) /\ \A x \in s : s \ {x} \notin bad
    <3>1. bad \in SUBSET SUBSET kept /\ IsFiniteSet(kept)
      BY PeersFinite
    <3> HIDE DEF bad
    <3>2. QED
      BY <1>2, <3>1, SmallestSet
  <2>2. PICK c \in s : TRUE
    BY <2>1
  <2>3. s # {c}
    <3>1. s = {c} => IsTop(s, c)
      OBVIOUS
    <3>2. QED
      BY <2>1, <2>2, <3>1
  <2>4. PICK i \in s \ {c} : IsTop(s \ {c}, i)
    BY <2>1, <2>2, <2>3
  <2>5. Worse(t, cand, c, i) => IsTop(s, i)
    BY <2>4
  <2>6. Worse(t, cand, i, c) => IsTop(s, c)
    <3>1. ASSUME Worse(t, cand, i, c), NEW j \in s \ {c} PROVE Worse(t, cand, j, c)
      <4>1. j = i \/ Worse(t, cand, j, i)
        BY <2>4
      <4>2. J(i) \in Int /\ J(j) \in Int /\ J(c) \in Int /\ i \in Int /\ j \in Int /\ c \in Int
        BY <1>1, <2>1, <2>2, <2>4
      <4>3. QED
        BY <3>1, <4>1, <4>2 DEF Worse
    <3>2. QED
      BY <2>2, <3>1
  <2>7. Worse(t, cand, c, i) \/ Worse(t, cand, i, c)
    <3>1. J(i) \in Int /\ J(c) \in Int /\ i \in Int /\ c \in Int /\ i # c
      BY <1>1, <2>1, <2>2, <2>4
    <3>2. QED
      BY <3>1 DEF Worse
  <2>8. QED
    BY <2>1, <2>2, <2>4, <2>5, <2>6, <2>7
<1>3. \E i \in kept : IsTop(kept, i)
  BY <1>2
<1>4. Worst(t, cand, kept) = CHOOSE i \in kept : \A j \in kept \ {i} : Worse(t, cand, j, i)
  BY DEF Worst, Worse
<1> DEFINE w == Worst(t, cand, kept)
<1>5. w \in kept /\ \A j \in kept \ {w} : Worse(t, cand, j, w)
  BY <1>3, <1>4
<1> HIDE DEF w
<1>6. \A j \in kept : J(j) <= J(w)
  BY <1>1, <1>5 DEF Worse
<1>7. QED
  BY <1>5, <1>6 DEF w

\* Dropping the worst keeps the best.
LEMMA DropWorstKeeps ==
  ASSUME NEW t \in [Peers -> Estimate], NEW cand \in SUBSET Peers, NEW kept \in SUBSET cand
  PROVE  /\ KeepsTheBest(t, cand, kept, DropWorst(t, cand, kept))
         /\ Cardinality(DropWorst(t, cand, kept))
              = IF Cardinality(kept) > MinClock THEN Cardinality(kept) - 1 ELSE Cardinality(kept)
<1> DEFINE w == Worst(t, cand, kept)
<1>1. IsFiniteSet(kept) /\ Cardinality(kept) \in Nat /\ MinClock \in Nat \ {0}
  BY PeersFinite, SelectAssumption
<1>2. CASE Cardinality(kept) > MinClock
  <2>1. kept # {}
    BY <1>1, <1>2, FS_EmptySet
  <2>2. w \in kept /\ \A j \in kept : JitterOf(t, cand, j) <= JitterOf(t, cand, w)
    BY <2>1, WorstExists
  <2>3. DropWorst(t, cand, kept) = kept \ {w}
    BY <1>2 DEF DropWorst
  <2> HIDE DEF w
  <2>4. Cardinality(kept \ {w}) = Cardinality(kept) - 1
    BY <1>1, <2>2, FS_RemoveElement
  <2>5. kept \ {w} # {}
    BY <1>1, <1>2, <2>4, FS_EmptySet
  <2>6. QED
    BY <1>2, <2>2, <2>3, <2>4, <2>5 DEF KeepsTheBest
<1>3. CASE ~(Cardinality(kept) > MinClock)
  <2>1. DropWorst(t, cand, kept) = kept
    BY <1>3 DEF DropWorst
  <2>2. QED
    BY <1>3, <2>1 DEF KeepsTheBest
<1>4. QED
  BY <1>2, <1>3

\* So do the repeated passes,
LEMMA PrunedKeeps ==
  ASSUME NEW t \in [Peers -> Estimate], NEW cand \in SUBSET Peers
  PROVE  KeepsTheBest(t, cand, cand, Pruned(t, cand))
<1> DEFINE F == [p \in (1..N) \X SUBSET cand |-> PruneOnce(t, cand, p[2])]
           Eq(g) == g = [k \in 0..N |-> IF k = 0 THEN cand ELSE PruneOnce(t, cand, g[k - 1])]
           kept == CHOOSE g : Eq(g)
<1>0. N \in Nat
  BY PeersFinite
<1>1. ASSUME NEW s \in SUBSET cand PROVE PruneOnce(t, cand, s) \in SUBSET cand
  BY PruneOnceKeeps DEF KeepsTheBest
<1>2. F \in [(1..N) \X SUBSET cand -> SUBSET cand] /\ cand \in SUBSET cand
  BY <1>1
<1>3. PICK g \in [0..N -> SUBSET cand] : IsIteration(g, cand, F, N)
  <2> HIDE DEF F
  <2> QED BY <1>0, <1>2, Iteration
<1>4. ASSUME NEW k \in 1..N PROVE F[<<k, g[k - 1]>>] = PruneOnce(t, cand, g[k - 1])
  <2>1. <<k, g[k - 1]>> \in (1..N) \X SUBSET cand
    BY <1>0
  <2>2. QED
    BY <2>1
<1>5. Eq(g)
  <2>1. \A k \in 0..N : k # 0 => k \in 1..N
    BY <1>0
  <2> HIDE DEF F
  <2>2. QED
    BY <1>3, <1>4, <2>1 DEF IsIteration
<1>6. Eq(kept)
  <2> HIDE DEF Eq
  <2> QED BY <1>5
<1>7. Pruned(t, cand) = kept[N]
  BY DEF Pruned
<1> HIDE DEF kept, F
<1>8. kept[0] = cand /\ \A k \in 1..N : kept[k] = PruneOnce(t, cand, kept[k - 1])
  BY <1>0, <1>6
<1> DEFINE S == {k \in 0..N : KeepsTheBest(t, cand, cand, kept[k])}
<1>9. 0 \in S
  BY <1>0, <1>8 DEF KeepsTheBest
<1>10. ASSUME NEW k \in 1..N, k - 1 \in S PROVE k \in S
  <2>1. KeepsTheBest(t, cand, cand, kept[k - 1])
    BY <1>10
  <2>2. kept[k - 1] \in SUBSET cand
    BY <2>1 DEF KeepsTheBest
  <2>3. KeepsTheBest(t, cand, kept[k - 1], kept[k])
    BY <1>8, <2>2, PruneOnceKeeps
  <2>4. KeepsTheBest(t, cand, cand, kept[k])
    BY <2>1, <2>3 DEF KeepsTheBest
  <2>5. QED
    BY <1>0, <2>4
<1> HIDE DEF S
<1>11. N \in S
  <2>1. \A k \in 1..N : k - 1 \in S => k \in S
    BY <1>10
  <2>2. \A k \in 0..N : k \in S
    BY <1>0, <1>9, <2>1, Climb
  <2>3. QED
    BY <1>0, <2>2
<1>12. QED
  BY <1>7, <1>11 DEF S

\* and the repeated drops, which end at no more than MinClock: each takes one away.
LEMMA ResizedKeeps ==
  ASSUME NEW t \in [Peers -> Estimate], NEW cand \in SUBSET Peers, NEW pruned \in SUBSET cand
  PROVE  /\ KeepsTheBest(t, cand, pruned, Resized(t, cand, pruned))
         /\ Cardinality(Resized(t, cand, pruned)) <= MinClock
<1> DEFINE F == [p \in (1..N) \X SUBSET cand |-> DropWorst(t, cand, p[2])]
           Eq(g) == g = [k \in 0..N |-> IF k = 0 THEN pruned ELSE DropWorst(t, cand, g[k - 1])]
           kept == CHOOSE g : Eq(g)
<1>0. N \in Nat /\ MinClock \in Nat \ {0}
  BY PeersFinite, SelectAssumption
<1>1. ASSUME NEW s \in SUBSET cand PROVE DropWorst(t, cand, s) \in SUBSET cand
  BY DropWorstKeeps DEF KeepsTheBest
<1>2. F \in [(1..N) \X SUBSET cand -> SUBSET cand]
  BY <1>1
<1>3. PICK g \in [0..N -> SUBSET cand] : IsIteration(g, pruned, F, N)
  <2> HIDE DEF F
  <2> QED BY <1>0, <1>2, Iteration
<1>4. ASSUME NEW k \in 1..N PROVE F[<<k, g[k - 1]>>] = DropWorst(t, cand, g[k - 1])
  <2>1. <<k, g[k - 1]>> \in (1..N) \X SUBSET cand
    BY <1>0
  <2>2. QED
    BY <2>1
<1>5. Eq(g)
  <2>1. \A k \in 0..N : k # 0 => k \in 1..N
    BY <1>0
  <2> HIDE DEF F
  <2>2. QED
    BY <1>3, <1>4, <2>1 DEF IsIteration
<1>6. Eq(kept)
  <2> HIDE DEF Eq
  <2> QED BY <1>5
<1>7. Resized(t, cand, pruned) = kept[N]
  BY DEF Resized
<1> HIDE DEF kept, F
<1>8. kept[0] = pruned /\ \A k \in 1..N : kept[k] = DropWorst(t, cand, kept[k - 1])
  BY <1>0, <1>6
<1> DEFINE Fits(k) == \/ Cardinality(kept[k]) <= MinClock
                      \/ Cardinality(kept[k]) <= N - k
           S == {k \in 0..N : KeepsTheBest(t, cand, pruned, kept[k]) /\ Fits(k)}
<1>9. 0 \in S
  <2>1. Cardinality(pruned) \in 0..N
    BY PeersFinite
  <2>2. Fits(0)
    BY <1>0, <1>8, <2>1
  <2>3. QED
    BY <1>0, <1>8, <2>2 DEF KeepsTheBest
<1>10. ASSUME NEW k \in 1..N, k - 1 \in S PROVE k \in S
  <2>1. KeepsTheBest(t, cand, pruned, kept[k - 1]) /\ Fits(k - 1)
    BY <1>10
  <2>2. kept[k - 1] \in SUBSET cand
    BY <2>1 DEF KeepsTheBest
  <2>3. KeepsTheBest(t, cand, kept[k - 1], kept[k])
        /\ Cardinality(kept[k]) = IF Cardinality(kept[k - 1]) > MinClock
                                  THEN Cardinality(kept[k - 1]) - 1 ELSE Cardinality(kept[k - 1])
    BY <1>8, <2>2, DropWorstKeeps
  <2>4. KeepsTheBest(t, cand, pruned, kept[k])
    BY <2>1, <2>3 DEF KeepsTheBest
  <2>5. Fits(k)
    <3>1. Cardinality(kept[k - 1]) \in Nat
      BY <2>2, PeersFinite
    <3>2. QED
      BY <1>0, <2>1, <2>3, <3>1
  <2>6. QED
    BY <1>0, <2>4, <2>5
<1> HIDE DEF S
<1>11. N \in S
  <2>1. \A k \in 1..N : k - 1 \in S => k \in S
    BY <1>10
  <2>2. \A k \in 0..N : k \in S
    BY <1>0, <1>9, <2>1, Climb
  <2>3. QED
    BY <1>0, <2>2
<1>12. KeepsTheBest(t, cand, pruned, kept[N]) /\ Fits(N)
  BY <1>11 DEF S
<1>13. Cardinality(kept[N]) \in Nat
  <2>1. kept[N] \in SUBSET Peers
    BY <1>12 DEF KeepsTheBest
  <2>2. QED
    BY <2>1, PeersFinite
<1>14. Cardinality(kept[N]) <= MinClock
  BY <1>0, <1>12, <1>13
<1>15. QED
  BY <1>7, <1>12, <1>14

\* Clustering keeps the best of the candidates, at least one if there are any
\* and at most MinClock.
LEMMA ClusterKeeps ==
  ASSUME NEW t \in [Peers -> Estimate]
  PROVE  /\ KeepsTheBest(t, Candidates(t), Candidates(t), Cluster(t))
         /\ Cardinality(Cluster(t)) <= MinClock
<1> DEFINE cand == Candidates(t)
<1>1. cand \in SUBSET Peers
  BY DEF Candidates
<1>2. CASE Cardinality(cand) <= 1
  <2>1. Cluster(t) = cand
    BY <1>2 DEF Cluster
  <2>2. Cardinality(cand) \in Nat /\ MinClock \in Nat \ {0}
    BY <1>1, PeersFinite, SelectAssumption
  <2>3. QED
    BY <1>2, <2>1, <2>2 DEF KeepsTheBest
<1>3. CASE ~(Cardinality(cand) <= 1)
  <2>1. Cluster(t) = Resized(t, cand, Pruned(t, cand))
    BY <1>3 DEF Cluster
  <2> HIDE DEF cand
  <2>2. KeepsTheBest(t, cand, cand, Pruned(t, cand))
    BY <1>1, PrunedKeeps
  <2>3. Pruned(t, cand) \in SUBSET cand
    BY <2>2 DEF KeepsTheBest
  <2>4. /\ KeepsTheBest(t, cand, Pruned(t, cand), Cluster(t))
        /\ Cardinality(Cluster(t)) <= MinClock
    BY <1>1, <2>1, <2>3, ResizedKeeps
  <2>5. KeepsTheBest(t, cand, cand, Cluster(t))
    BY <2>2, <2>4 DEF KeepsTheBest
  <2>6. QED
    BY <2>4, <2>5 DEF cand
<1>4. QED
  BY <1>2, <1>3

------------------------------------------------------------------------------
(* Combining: the weighted mean stays near the interval the survivors meet. *)

\* A product of distances is positive.
LEMMA ProductType ==
  ASSUME NEW t \in [Peers -> Estimate], NEW s \in SUBSET Peers
  PROVE  ProductOfDists(t, s) \in Nat \ {0}
<1> DEFINE f == [i \in s |-> t[i].dist]
<1>1. TRUE \in BOOLEAN /\ IsFiniteSet(s) /\ \A i \in s : f[i] \in Nat \ {0}
  BY PeersFinite DEF Estimate
<1>2. \A x \in Nat \ {0} : x \in Int /\ x > 0
  OBVIOUS
<1> HIDE DEF f
<1> DEFINE p == FoldOf(TRUE, f, s)
<1>3. p \in Int /\ p > 0
  BY <1>1, <1>2, FoldType
<1>4. ProductOfDists(t, s) = p
  BY DEF FoldOf, ProductOfDists, f
<1> HIDE DEF p
<1>5. QED
  BY <1>3, <1>4

\* Leaving one factor out of the product and multiplying by it again.
LEMMA ProductOfRest ==
  ASSUME NEW t \in [Peers -> Estimate], NEW s \in SUBSET Peers, NEW i \in s
  PROVE  ProductOfDists(t, s) = t[i].dist * ProductOfDists(t, s \ {i})
<1> DEFINE f == [j \in s |-> t[j].dist]
           e == [j \in s \ {i} |-> t[j].dist]
           r == s \ {i}
<1>1. TRUE \in BOOLEAN /\ IsFiniteSet(s) /\ IsFiniteSet(r)
      /\ (\A j \in s : f[j] \in Int) /\ (\A j \in r : f[j] = e[j]) /\ f[i] = t[i].dist
  BY PeersFinite DEF Estimate
<1>2. ProductOfDists(t, s) = FoldOf(TRUE, f, s) /\ ProductOfDists(t, r) = FoldOf(TRUE, e, r)
  BY DEF FoldOf, ProductOfDists
<1> HIDE DEF f, e
<1>3. Product(f, s) = f[i] * Product(f, s \ {i})
  <2>1. IsFiniteSet(s) /\ \A x \in s : f[x] \in Int
    BY <1>1
  <2>2. QED
    BY <2>1, ProductOf
<1> HIDE DEF r
<1>4. FoldOf(TRUE, f, r) = FoldOf(TRUE, e, r)
  BY <1>1, FoldAgree
<1>5. QED
  BY <1>1, <1>2, <1>3, <1>4 DEF r, Product

\* Every weighted offset is within its own distance of the interval, and the weight times the
\* distance is the same product for all.
LEMMA CombinedNear ==
  ASSUME NEW t \in [Peers -> Estimate], NEW s \in SUBSET Peers, s # {},
         NEW lo \in Int, NEW hi \in Int,
         \A i \in s : Upper(t[i]) >= lo /\ Lower(t[i]) <= hi
  PROVE  LET margin == Cardinality(s) * ProductOfDists(t, s)
             c == Combined(t, s)
         IN /\ c.sum \in Int /\ c.weight \in Nat \ {0}
            /\ c.sum <= hi * c.weight + margin
            /\ c.sum >= lo * c.weight - margin
<1> DEFINE w == [i \in s |-> ProductOfDists(t, s \ {i})]
           f == [i \in s |-> t[i].offset * ProductOfDists(t, s \ {i})]
           p == ProductOfDists(t, s)
           W(u) == FoldOf(FALSE, w, u)
           F(u) == FoldOf(FALSE, f, u)
           P(u) == /\ F(u) <= hi * W(u) + Cardinality(u) * p
                   /\ F(u) >= lo * W(u) - Cardinality(u) * p
           bad == {u \in SUBSET s : ~P(u)}
<1>1. Combined(t, s) = [sum |-> F(s), weight |-> W(s)]
  BY DEF Combined, FoldOf
<1>2. p \in Nat \ {0} /\ FALSE \in BOOLEAN
  BY ProductType
<1>3. ASSUME NEW i \in s
      PROVE  /\ w[i] \in Int /\ w[i] > 0 /\ f[i] \in Int
             /\ f[i] <= hi * w[i] + p /\ f[i] >= lo * w[i] - p
  <2> DEFINE o == t[i].offset
             d == t[i].dist
             v == ProductOfDists(t, s \ {i})
  <2>1. o \in Int /\ d \in Nat \ {0} /\ o + d >= lo /\ o - d <= hi
    BY DEF Estimate, Upper, Lower
  <2>2. v \in Nat \ {0} /\ p = d * v
    BY ProductType, ProductOfRest
  <2>3. w[i] = v /\ f[i] = o * v
    OBVIOUS
  <2> HIDE DEF o, d, v, w, f, p
  <2>4. \A x, y, z \in Int : x <= y /\ z > 0 => x * z <= y * z
    OBVIOUS
  <2>5. o * v \in Int /\ d * v \in Int /\ hi * v \in Int /\ lo * v \in Int
        /\ (hi + d) * v = hi * v + d * v /\ (lo - d) * v = lo * v - d * v
    BY <2>1, <2>2
  <2>6. o * v <= (hi + d) * v /\ (lo - d) * v <= o * v
    <3>1. o <= hi + d /\ lo - d <= o /\ v > 0 /\ v \in Int /\ hi + d \in Int /\ lo - d \in Int
      BY <2>1, <2>2
    <3>2. QED
      BY <2>1, <2>4, <3>1
  <2> DEFINE ov == o * v
             dv == d * v
             hv == hi * v
             lv == lo * v
  <2>7. ov <= hv + dv /\ lv - dv <= ov /\ ov \in Int /\ hv \in Int /\ lv \in Int /\ dv \in Int
    BY <2>5, <2>6
  <2>8. w[i] \in Int /\ w[i] > 0 /\ f[i] = ov /\ hi * w[i] = hv /\ lo * w[i] = lv /\ p = dv
    BY <2>2, <2>3
  <2> HIDE DEF ov, dv, hv, lv
  <2>9. QED
    BY <2>7, <2>8
<1> HIDE DEF w, f, p
<1>4. ASSUME NEW u \in SUBSET s
      PROVE IsFiniteSet(u) /\ Cardinality(u) \in Nat /\ W(u) \in Int /\ F(u) \in Int
            /\ (u # {} => W(u) > 0)
  <2>1. IsFiniteSet(u) /\ Cardinality(u) \in Nat
    BY PeersFinite
  <2>2. W(u) \in Int /\ F(u) \in Int /\ (u # {} => W(u) > 0)
    BY <1>2, <1>3, <2>1, FoldType
  <2>3. QED
    BY <2>1, <2>2
<1> HIDE DEF P, F, W
<1>5. ASSUME bad # {} PROVE FALSE
  <2>1. PICK u \in bad : \A x \in u : u \ {x} \notin bad
    <3>1. bad \in SUBSET SUBSET s /\ IsFiniteSet(s)
      BY <1>4
    <3> HIDE DEF bad
    <3>2. QED
      BY <1>5, <3>1, SmallestSet
  <2>2. CASE u = {}
    <3>1. F({}) = 0 /\ W({}) = 0 /\ Cardinality({}) = 0
      BY <1>2, FoldEmpty, FS_EmptySet DEF F, W
    <3>2. hi * 0 = 0 /\ lo * 0 = 0 /\ 0 * p = 0
      BY <1>2
    <3>3. P({})
      BY <3>1, <3>2 DEF P
    <3>4. QED
      BY <2>1, <2>2, <3>3
  <2>3. CASE u # {}
    <3> DEFINE i == Some(u)
               r == u \ {i}
    <3>1. i \in u /\ i \in s /\ r \in SUBSET s /\ u \in SUBSET s
      BY <2>1, <2>3, SomeIn
    <3>2. F(u) = f[i] + F(r) /\ W(u) = w[i] + W(r)
      BY <1>2, <1>4, <2>3, <3>1, FoldStep DEF F, W
    <3>3. Cardinality(r) = Cardinality(u) - 1
      BY <1>4, <3>1, FS_RemoveElement
    <3>4. P(r)
      BY <2>1, <3>1
    <3> HIDE DEF i, r
    <3>5. /\ F(r) <= hi * W(r) + Cardinality(r) * p
          /\ F(r) >= lo * W(r) - Cardinality(r) * p
      BY <3>4 DEF P
    <3>6. /\ w[i] \in Int /\ f[i] \in Int
          /\ f[i] <= hi * w[i] + p /\ f[i] >= lo * w[i] - p
      BY <1>3, <3>1
    <3>7. /\ W(r) \in Int /\ F(r) \in Int /\ Cardinality(r) \in Nat /\ Cardinality(u) \in Nat
      BY <1>4, <3>1
    <3> DEFINE n == Cardinality(r)
               x == W(r)
               y == w[i]
    <3>8. hi * (y + x) = hi * y + hi * x /\ lo * (y + x) = lo * y + lo * x /\ (n + 1) * p = n * p + p
          /\ hi * y \in Int /\ hi * x \in Int /\ lo * y \in Int /\ lo * x \in Int /\ n * p \in Int
          /\ p \in Int
      <4>1. x \in Int /\ y \in Int /\ n \in Int /\ p \in Int
        BY <1>2, <3>6, <3>7
      <4> HIDE DEF x, y, n
      <4>2. QED
        BY <4>1
    <3>9. W(u) = y + x /\ Cardinality(u) = n + 1
      BY <3>2, <3>3, <3>7
    <3>10. F(u) <= hi * (y + x) + (n + 1) * p /\ F(u) >= lo * (y + x) - (n + 1) * p
      <4> DEFINE hy == hi * y
                 hx == hi * x
                 ly == lo * y
                 lx == lo * x
                 np == n * p
                 a == f[i]
                 b == F(r)
                 c == F(u)
      <4>1. /\ c = a + b /\ a \in Int /\ b \in Int /\ p \in Int
            /\ hy \in Int /\ hx \in Int /\ ly \in Int /\ lx \in Int /\ np \in Int
            /\ a <= hy + p /\ a >= ly - p /\ b <= hx + np /\ b >= lx - np
            /\ hi * (y + x) = hy + hx /\ lo * (y + x) = ly + lx /\ (n + 1) * p = np + p
        BY <3>2, <3>5, <3>6, <3>7, <3>8
      <4> HIDE DEF a, b, c, hy, hx, ly, lx, np
      <4>2. c <= (hy + hx) + (np + p) /\ c >= (ly + lx) - (np + p)
        BY <4>1
      <4>3. QED
        BY <4>1, <4>2 DEF c
    <3> HIDE DEF x, y, n
    <3>11. P(u)
      BY <3>9, <3>10 DEF P
    <3>12. QED
      BY <2>1, <3>11
  <2>4. QED
    BY <2>2, <2>3
<1>6. P(s)
  BY <1>5
<1>7. W(s) \in Int /\ W(s) > 0 /\ F(s) \in Int
  BY <1>4
<1>8. QED
  BY <1>1, <1>6, <1>7 DEF P, p

------------------------------------------------------------------------------
(* The endpoints in order.                                                 *)

Kinds == {1, 0, -1}
Point(t, c, i) == IF c = 1 THEN Lower(t[i]) ELSE IF c = 0 THEN t[i].offset ELSE Upper(t[i])
End(t, c, i) == <<Point(t, c, i), c, i>>

\* Of one server the lower end comes before the midpoint, and that before the upper end.
LEMMA PointType ==
  ASSUME NEW t \in [Peers -> Estimate], NEW c \in Kinds, NEW i \in Peers
  PROVE  /\ Point(t, c, i) \in Int
         /\ Point(t, 1, i) < Point(t, 0, i) /\ Point(t, 0, i) < Point(t, -1, i)
<1>1. t[i].offset \in Int /\ t[i].dist \in Nat \ {0}
  BY DEF Estimate
<1>2. QED
  BY <1>1 DEF Point, Lower, Upper, Kinds

\* The endpoints are those of the three kinds of every server,
LEMMA EndpointForm ==
  ASSUME NEW t \in [Peers -> Estimate]
  PROVE  /\ \A c \in Kinds, i \in Peers : End(t, c, i) \in EndpointSet(t)
         /\ \A e \in EndpointSet(t) : /\ e[1] \in Int /\ e[2] \in Kinds /\ e[3] \in Peers
                                     /\ e = End(t, e[2], e[3])
<1>1. ASSUME NEW c \in Kinds, NEW i \in Peers PROVE End(t, c, i) \in EndpointSet(t)
  BY DEF Kinds, End, Point, EndpointSet
<1>2. ASSUME NEW e \in EndpointSet(t)
      PROVE  /\ e[1] \in Int /\ e[2] \in Kinds /\ e[3] \in Peers
             /\ e = End(t, e[2], e[3])
  <2>1. PICK i \in Peers : e \in {<<Lower(t[i]), 1, i>>, <<t[i].offset, 0, i>>, <<Upper(t[i]), -1, i>>}
    BY DEF EndpointSet
  <2>2. PICK c \in Kinds : e = End(t, c, i)
    <3>1. 1 \in Kinds /\ 0 \in Kinds /\ -1 \in Kinds
      BY DEF Kinds
    <3>2. e \in {End(t, 1, i), End(t, 0, i), End(t, -1, i)}
      BY <2>1 DEF End, Point
    <3>3. QED
      BY <3>1, <3>2
  <2>3. Point(t, c, i) \in Int
    BY PointType
  <2>4. QED
    BY <2>2, <2>3 DEF End
<1>3. QED
  BY <1>1, <1>2

\* and there are three to a server.
LEMMA EndpointCount ==
  ASSUME NEW t \in [Peers -> Estimate]
  PROVE  IsFiniteSet(EndpointSet(t)) /\ Cardinality(EndpointSet(t)) = 3 * N
<1> DEFINE E == EndpointSet(t)
           D == Kinds \X Peers
           f == [p \in D |-> End(t, p[1], p[2])]
<1>1. IsFiniteSet(Kinds) /\ Cardinality(Kinds) = 3
  <2>1. IsFiniteSet({1}) /\ Cardinality({1}) = 1
    BY FS_Singleton
  <2>a. 0 \notin {1} /\ -1 \notin {1} \cup {0}
    OBVIOUS
  <2>2. IsFiniteSet({1} \cup {0}) /\ Cardinality({1} \cup {0}) = 2
    BY ONLY <2>a, <2>1, FS_AddElement, SMTT(30)
  <2>3. IsFiniteSet({1} \cup {0} \cup {-1}) /\ Cardinality({1} \cup {0} \cup {-1}) = 3
    BY ONLY <2>a, <2>2, FS_AddElement, SMTT(30)
  <2>4. Kinds = {1} \cup {0} \cup {-1}
    BY DEF Kinds
  <2>5. QED
    BY <2>3, <2>4
<1>2. IsFiniteSet(D) /\ Cardinality(D) = 3 * N
  BY <1>1, PeersFinite, FS_Product
<1>3. f \in Bijection(D, E)
  <2>1. f \in [D -> E]
    BY EndpointForm
  <2>2. \A p, q \in D : f[p] = f[q] => p = q
    BY DEF End
  <2>3. ASSUME NEW e \in E PROVE \E p \in D : f[p] = e
    <3>1. <<e[2], e[3]>> \in D /\ e = End(t, e[2], e[3])
      BY EndpointForm
    <3>2. QED
      BY <3>1
  <2> HIDE DEF f, D, E
  <2>4. QED
    BY <2>1, <2>2, <2>3 DEF Bijection, Injection, Surjection, IsInjective
<1> HIDE DEF f, D, E
<1>4. IsFiniteSet(E) /\ Cardinality(E) = Cardinality(D)
  <2>1. ExistsBijection(D, E)
    BY <1>3 DEF ExistsBijection
  <2>2. QED
    BY <1>2, <2>1, FS_Bijection
<1>5. QED
  BY <1>2, <1>4 DEF E

\* The comparison of the sort is a strict total order on them.
LEMMA BeforeOrders ==
  ASSUME NEW t \in [Peers -> Estimate],
         NEW a \in EndpointSet(t), NEW b \in EndpointSet(t), NEW c \in EndpointSet(t)
  PROVE  /\ ~Before(a, a)
         /\ Before(a, b) /\ Before(b, c) => Before(a, c)
         /\ a = b \/ Before(a, b) \/ Before(b, a)
         /\ ~(Before(a, b) /\ Before(b, a))
<1>1. \A e \in {a, b, c} : e[1] \in Int /\ e[2] \in Int /\ e[3] \in Int /\ e = <<e[1], e[2], e[3]>>
  <2>1. \A e \in EndpointSet(t) : /\ e[1] \in Int /\ e[2] \in Kinds /\ e[3] \in Peers
                                  /\ e = End(t, e[2], e[3])
    BY EndpointForm
  <2>2. ASSUME NEW e \in EndpointSet(t)
        PROVE  e[1] \in Int /\ e[2] \in Int /\ e[3] \in Int /\ e = <<e[1], e[2], e[3]>>
    <3>1. e = End(t, e[2], e[3]) /\ e[1] \in Int /\ e[2] \in Int /\ e[3] \in Int
      BY <2>1, PeersFinite DEF Kinds, Peers
    <3>2. QED
      BY <3>1 DEF End
  <2>3. QED
    BY <2>2
<1>2. QED
  BY <1>1 DEF Before

\* The list of the endpoints holds each once, in the order of Before.
Sorted(t, s) ==
  /\ s \in [1..(3 * N) -> EndpointSet(t)]
  /\ \A e \in EndpointSet(t) : \E k \in 1..(3 * N) : s[k] = e
  /\ \A k, l \in 1..(3 * N) : k < l <=> Before(s[k], s[l])

\* Ranks put the endpoints in order.
LEMMA EndpointsSorted ==
  ASSUME NEW t \in [Peers -> Estimate]
  PROVE  Sorted(t, Endpoints(t))
<1> DEFINE E == EndpointSet(t)
           Pred(e) == {f \in E : Before(f, e)}
           rank == [e \in E |-> Cardinality(Pred(e)) + 1]
           s == Endpoints(t)
<1>0. IsFiniteSet(E) /\ Cardinality(E) = 3 * N /\ 3 * N \in Nat
  BY EndpointCount, PeersFinite
<1>1. s = [k \in 1..(3 * N) |-> CHOOSE e \in E : rank[e] = k]
  BY DEF Endpoints
<1> HIDE DEF s
<1>2. ASSUME NEW e \in E
      PROVE  IsFiniteSet(Pred(e)) /\ Cardinality(Pred(e)) \in Nat /\ rank[e] \in 1..(3 * N)
  <2>1. Pred(e) \in SUBSET (E \ {e})
    BY BeforeOrders
  <2>2. IsFiniteSet(E \ {e}) /\ Cardinality(E \ {e}) = 3 * N - 1
    BY <1>0, FS_RemoveElement
  <2> DEFINE p == Pred(e)
  <2> HIDE DEF p
  <2>3. IsFiniteSet(p) /\ Cardinality(p) \in Nat /\ Cardinality(p) <= 3 * N - 1
    BY <2>1, <2>2, FS_Subset, FS_CardinalityType DEF p
  <2>4. rank[e] = Cardinality(p) + 1
    BY DEF p
  <2>5. QED
    BY <1>0, <2>3, <2>4 DEF p
<1>3. ASSUME NEW e \in E, NEW f \in E, Before(f, e) PROVE rank[f] < rank[e]
  <2>1. Pred(f) \subseteq Pred(e) /\ f \in Pred(e) /\ f \notin Pred(f)
    BY <1>3, BeforeOrders
  <2> DEFINE p == Pred(e)
             q == Pred(f)
  <2>2. rank[e] = Cardinality(p) + 1 /\ rank[f] = Cardinality(q) + 1
    OBVIOUS
  <2>3. IsFiniteSet(p) /\ Cardinality(p) \in Nat /\ Cardinality(q) \in Nat
    BY <1>2
  <2> HIDE DEF p, q, rank
  <2>4. q \in SUBSET p /\ q # p
    BY <2>1 DEF p, q
  <2>5. Cardinality(q) <= Cardinality(p) /\ (Cardinality(p) = Cardinality(q) => p = q)
    BY <2>3, <2>4, FS_Subset
  <2>6. QED
    BY <2>2, <2>3, <2>4, <2>5
<1>4. rank \in Injection(E, 1..(3 * N))
  <2>1. rank \in [E -> 1..(3 * N)]
    BY <1>2
  <2>2. ASSUME NEW e \in E, NEW f \in E, rank[e] = rank[f] PROVE e = f
    <3>1. rank[e] \in Int /\ rank[f] \in Int
      BY <1>2
    <3>2. e = f \/ Before(e, f) \/ Before(f, e)
      BY BeforeOrders
    <3> HIDE DEF rank
    <3>3. QED
      BY <1>3, <2>2, <3>1, <3>2
  <2> HIDE DEF rank, E
  <2>3. QED
    BY <2>1, <2>2 DEF Injection, IsInjective
<1>5. rank \in Surjection(E, 1..(3 * N))
  <2>1. IsFiniteSet(1..(3 * N)) /\ Cardinality(1..(3 * N)) = 3 * N
    <3>1. 3 * N \in Int /\ 1 \in Int
      BY <1>0
    <3>2. Cardinality(1..(3 * N)) = IF 1 > 3 * N THEN 0 ELSE 3 * N - 1 + 1
      BY <3>1, FS_Interval
    <3>3. QED
      BY <1>0, <3>1, <3>2, FS_Interval
  <2> HIDE DEF rank, E
  <2>2. QED
    BY <1>0, <1>4, <2>1, FS_Injection
<1> HIDE DEF rank
<1>6. ASSUME NEW k \in 1..(3 * N) PROVE s[k] \in E /\ rank[s[k]] = k
  <2>1. \E e \in E : rank[e] = k
    BY <1>5 DEF Surjection
  <2>2. s[k] = CHOOSE e \in E : rank[e] = k
    BY <1>1
  <2>3. QED
    BY <2>1, <2>2
<1>7. ASSUME NEW e \in E PROVE \E k \in 1..(3 * N) : s[k] = e
  <2>1. rank[e] \in 1..(3 * N)
    BY <1>2
  <2>2. s[rank[e]] = e
    <3>1. s[rank[e]] \in E /\ rank[s[rank[e]]] = rank[e]
      BY <1>6, <2>1
    <3>2. QED
      BY <1>4, <3>1 DEF Injection, IsInjective
  <2>3. QED
    BY <2>1, <2>2
<1>8. ASSUME NEW k \in 1..(3 * N), NEW l \in 1..(3 * N) PROVE k < l <=> Before(s[k], s[l])
  <2>1. s[k] \in E /\ rank[s[k]] = k /\ s[l] \in E /\ rank[s[l]] = l
    BY <1>6
  <2>2. Before(s[k], s[l]) => k < l
    BY <1>3, <2>1
  <2>3. Before(s[l], s[k]) => l < k
    BY <1>3, <2>1
  <2>4. s[k] = s[l] \/ Before(s[k], s[l]) \/ Before(s[l], s[k])
    BY <2>1, BeforeOrders
  <2>5. k \in Int /\ l \in Int
    OBVIOUS
  <2>6. QED
    BY <2>1, <2>2, <2>3, <2>4, <2>5
<1>9. s \in [1..(3 * N) -> E]
  BY <1>1, <1>6
<1>10. QED
  BY <1>7, <1>8, <1>9 DEF Sorted, s

------------------------------------------------------------------------------
(* The scan: what is open after k endpoints.                               *)

\* Where the endpoint of a kind and a server stands in the list.
At(s, c, i) == CHOOSE k \in 1..(3 * N) : s[k][2] = c /\ s[k][3] = i

\* Every endpoint stands at one place, and the three of a server in order.
LEMMA AtIs ==
  ASSUME NEW t \in [Peers -> Estimate], NEW s, Sorted(t, s)
  PROVE  /\ 3 * N \in Nat
         /\ \A c \in Kinds, i \in Peers : At(s, c, i) \in 1..(3 * N) /\ s[At(s, c, i)] = End(t, c, i)
         /\ \A k \in 1..(3 * N) : /\ s[k][1] \in Int /\ s[k][2] \in Kinds /\ s[k][3] \in Peers
                                  /\ s[k] = End(t, s[k][2], s[k][3]) /\ At(s, s[k][2], s[k][3]) = k
         /\ \A i \in Peers : At(s, 1, i) < At(s, 0, i) /\ At(s, 0, i) < At(s, -1, i)
<1>0. 3 * N \in Nat /\ 1 \in Kinds /\ 0 \in Kinds /\ -1 \in Kinds
  BY PeersFinite DEF Kinds
<1>1. ASSUME NEW k \in 1..(3 * N)
      PROVE  /\ s[k] \in EndpointSet(t)
             /\ s[k][1] \in Int /\ s[k][2] \in Kinds /\ s[k][3] \in Peers
             /\ s[k] = End(t, s[k][2], s[k][3])
  <2>1. s[k] \in EndpointSet(t)
    BY DEF Sorted
  <2>2. QED
    BY <2>1, EndpointForm
<1>2. ASSUME NEW k \in 1..(3 * N), NEW l \in 1..(3 * N), s[k][2] = s[l][2], s[k][3] = s[l][3]
      PROVE  k = l
  <2>1. s[k] = s[l]
    BY <1>1, <1>2, Zenon
  <2>2. ~Before(s[k], s[l]) /\ ~Before(s[l], s[k])
    BY <1>1, <2>1, BeforeOrders
  <2>3. ~(k < l) /\ ~(l < k)
    BY <2>2 DEF Sorted
  <2>4. k \in Int /\ l \in Int
    OBVIOUS
  <2>5. QED
    BY <2>3, <2>4
<1>3. ASSUME NEW c \in Kinds, NEW i \in Peers
      PROVE  At(s, c, i) \in 1..(3 * N) /\ s[At(s, c, i)] = End(t, c, i)
  <2>1. End(t, c, i) \in EndpointSet(t)
    BY EndpointForm
  <2>2. PICK k \in 1..(3 * N) : s[k] = End(t, c, i)
    BY <2>1 DEF Sorted
  <2>3. s[k][2] = c /\ s[k][3] = i
    BY <2>2 DEF End
  <2>4. At(s, c, i) \in 1..(3 * N) /\ s[At(s, c, i)][2] = c /\ s[At(s, c, i)][3] = i
    BY <2>3 DEF At
  <2>5. QED
    BY <1>1, <2>4
<1>4. ASSUME NEW k \in 1..(3 * N) PROVE At(s, s[k][2], s[k][3]) = k
  <2> DEFINE l == At(s, s[k][2], s[k][3])
  <2>1. l \in 1..(3 * N) /\ s[l] = End(t, s[k][2], s[k][3])
    BY <1>1, <1>3
  <2>2. s[l][2] = s[k][2] /\ s[l][3] = s[k][3]
    BY <2>1 DEF End
  <2> HIDE DEF l
  <2>3. k = l
    BY <1>2, <2>1, <2>2
  <2>4. QED
    BY <2>3 DEF l
<1>5. ASSUME NEW i \in Peers PROVE At(s, 1, i) < At(s, 0, i) /\ At(s, 0, i) < At(s, -1, i)
  <2> DEFINE a == At(s, 1, i)
             b == At(s, 0, i)
             c == At(s, -1, i)
  <2>1. /\ a \in 1..(3 * N) /\ s[a] = End(t, 1, i) /\ b \in 1..(3 * N) /\ s[b] = End(t, 0, i)
        /\ c \in 1..(3 * N) /\ s[c] = End(t, -1, i)
    BY <1>0, <1>3
  <2>2. Before(s[a], s[b]) /\ Before(s[b], s[c])
    <3>1. Point(t, 1, i) < Point(t, 0, i) /\ Point(t, 0, i) < Point(t, -1, i)
      BY <1>0, PointType
    <3>2. QED
      BY <2>1, <3>1 DEF Before, End
  <2> HIDE DEF a, b, c
  <2>3. a < b /\ b < c
    BY <2>1, <2>2 DEF Sorted
  <2>4. QED
    BY <2>3 DEF a, b, c
<1>6. QED
  BY <1>0, <1>1, <1>3, <1>4, <1>5

\* The intervals entered and not left, and the midpoints from the a-th to the
\* b-th endpoint.
OpenAt(s, k) == {i \in Peers : At(s, 1, i) <= k /\ k < At(s, -1, i)}
Opens(s, k) == Cardinality(OpenAt(s, k))
MidsIn(s, a, b) == {i \in Peers : a <= At(s, 0, i) /\ At(s, 0, i) <= b}
Mids(s, a, b) == Cardinality(MidsIn(s, a, b))

\* Counts are naturals.
LEMMA CountTypes ==
  ASSUME NEW s, NEW a, NEW k
  PROVE  Opens(s, k) \in Nat /\ Opens(s, k) <= N /\ Mids(s, a, k) \in Nat
<1>1. OpenAt(s, k) \in SUBSET Peers /\ MidsIn(s, a, k) \in SUBSET Peers /\ N \in Nat
  BY PeersFinite DEF OpenAt, MidsIn
<1>2. QED
  BY <1>1, PeersFinite DEF Opens, Mids

\* Each endpoint opens one interval, closes one, or leaves them as they are,
LEMMA OpensStep ==
  ASSUME NEW t \in [Peers -> Estimate], NEW s, Sorted(t, s), NEW k \in 1..(3 * N)
  PROVE  Opens(s, k) = Opens(s, k - 1) + s[k][2]
<1> DEFINE c == s[k][2]
           i == s[k][3]
           old == OpenAt(s, k - 1)
           new == OpenAt(s, k)
<1>1. /\ c \in Kinds /\ i \in Peers /\ At(s, c, i) = k /\ k \in Int
      /\ \A d \in Kinds, j \in Peers : At(s, d, j) \in Int
      /\ At(s, 1, i) < At(s, -1, i)
      /\ 1 \in Kinds /\ 0 \in Kinds /\ -1 \in Kinds
  BY AtIs DEF Kinds
<1>2. ASSUME NEW d \in Kinds, NEW j \in Peers, At(s, d, j) = k PROVE d = c /\ j = i
  <2>1. s[k] = End(t, d, j)
    BY <1>2, AtIs
  <2>2. QED
    BY <2>1 DEF End
<1>3. IsFiniteSet(old) /\ Cardinality(old) \in Nat
  <2>1. old \in SUBSET Peers
    BY DEF OpenAt
  <2> HIDE DEF old
  <2>2. QED
    BY <2>1, PeersFinite
<1>4. Opens(s, k) = Cardinality(new) /\ Opens(s, k - 1) = Cardinality(old)
  BY DEF Opens
<1>5. CASE c = 1
  <2>1. new = old \cup {i} /\ i \notin old
    <3>1. ASSUME NEW j \in Peers, j # i PROVE j \in new <=> j \in old
      <4>1. At(s, 1, j) # k /\ At(s, -1, j) # k
        BY <1>1, <1>2, <3>1
      <4>2. QED
        BY <1>1, <4>1 DEF OpenAt
    <3>2. i \in new /\ i \notin old
      BY <1>1, <1>5 DEF OpenAt
    <3>3. new \subseteq Peers /\ old \subseteq Peers
      BY DEF OpenAt
    <3>4. QED
      BY <1>1, <3>1, <3>2, <3>3
  <2> HIDE DEF old, new, i, c
  <2>2. Cardinality(new) = Cardinality(old) + 1
    BY <1>3, <2>1, FS_AddElement
  <2>3. QED
    BY <1>4, <1>5, <2>2 DEF c
<1>6. CASE c = 0
  <2>1. new = old
    <3>1. ASSUME NEW j \in Peers PROVE j \in new <=> j \in old
      <4>1. At(s, 1, j) # k /\ At(s, -1, j) # k
        BY <1>1, <1>2, <1>6
      <4>2. QED
        BY <1>1, <4>1 DEF OpenAt
    <3>2. new \subseteq Peers /\ old \subseteq Peers
      BY DEF OpenAt
    <3>3. QED
      BY <3>1, <3>2
  <2> HIDE DEF old, new, i, c
  <2>2. QED
    BY <1>3, <1>4, <1>6, <2>1 DEF c
<1>7. CASE c = -1
  <2>1. new = old \ {i} /\ i \in old
    <3>1. ASSUME NEW j \in Peers, j # i PROVE j \in new <=> j \in old
      <4>1. At(s, 1, j) # k /\ At(s, -1, j) # k
        BY <1>1, <1>2, <3>1
      <4>2. QED
        BY <1>1, <4>1 DEF OpenAt
    <3>2. i \notin new /\ i \in old
      BY <1>1, <1>7 DEF OpenAt
    <3>3. new \subseteq Peers /\ old \subseteq Peers
      BY DEF OpenAt
    <3>4. QED
      BY <1>1, <3>1, <3>2, <3>3
  <2> HIDE DEF old, new, i, c
  <2>2. Cardinality(new) = Cardinality(old) - 1
    BY <1>3, <2>1, FS_RemoveElement
  <2>3. QED
    BY <1>3, <1>4, <1>7, <2>2 DEF c
<1>8. QED
  BY <1>1, <1>5, <1>6, <1>7 DEF Kinds

\* and adds a midpoint or none.
LEMMA MidsStep ==
  ASSUME NEW t \in [Peers -> Estimate], NEW s, Sorted(t, s), NEW k \in 1..(3 * N), NEW a \in 1..k
  PROVE  /\ Mids(s, a, k) = Mids(s, a, k - 1) + (IF s[k][2] = 0 THEN 1 ELSE 0)
         /\ Mids(s, k, k) = IF s[k][2] = 0 THEN 1 ELSE 0
<1> DEFINE c == s[k][2]
           i == s[k][3]
<1>1. /\ c \in Kinds /\ i \in Peers /\ At(s, c, i) = k /\ k \in Int /\ a \in Int /\ a <= k
      /\ \A d \in Kinds, j \in Peers : At(s, d, j) \in Int
      /\ 0 \in Kinds
  BY AtIs DEF Kinds
<1>2. ASSUME NEW j \in Peers, At(s, 0, j) = k PROVE c = 0 /\ j = i
  <2>1. s[k] = End(t, 0, j)
    BY <1>1, <1>2, AtIs
  <2>2. QED
    BY <2>1 DEF End
<1>3. ASSUME NEW b \in 1..k
      PROVE  Mids(s, b, k) = Mids(s, b, k - 1) + (IF c = 0 THEN 1 ELSE 0)
  <2> DEFINE old == MidsIn(s, b, k - 1)
             new == MidsIn(s, b, k)
  <2>1. old \in SUBSET Peers /\ new \in SUBSET Peers
    BY DEF MidsIn
  <2>2. IsFiniteSet(old) /\ Cardinality(old) \in Nat
    <3> HIDE DEF old
    <3> QED BY <2>1, PeersFinite
  <2>3. CASE c = 0
    <3>1. new = old \cup {i} /\ i \notin old
      <4>1. ASSUME NEW j \in Peers, j # i PROVE j \in new <=> j \in old
        <5>1. At(s, 0, j) # k
          BY <1>2, <4>1
        <5>2. QED
          BY <1>1, <5>1 DEF MidsIn
      <4>2. i \in new /\ i \notin old
        BY <1>1, <2>3 DEF MidsIn
      <4>3. QED
        BY <1>1, <2>1, <4>1, <4>2
    <3> HIDE DEF old, new, i, c
    <3>2. Cardinality(new) = Cardinality(old) + 1
      BY <2>2, <3>1, FS_AddElement
    <3>3. QED
      BY <2>3, <3>2 DEF Mids, old, new
  <2>4. CASE c # 0
    <3>1. ASSUME NEW j \in Peers PROVE j \in new <=> j \in old
      <4>1. At(s, 0, j) # k
        BY <1>2, <2>4
      <4>2. QED
        BY <1>1, <4>1 DEF MidsIn
    <3>2. new = old
      BY <2>1, <3>1
    <3> HIDE DEF old, new, i, c
    <3>3. Mids(s, b, k) = Cardinality(old) /\ Mids(s, b, k - 1) = Cardinality(old)
      BY <3>2 DEF Mids, old, new
    <3>4. QED
      BY <2>2, <2>4, <3>3
  <2>5. QED
    BY <2>3, <2>4
<1>4. Mids(s, k, k - 1) = 0
  <2>1. ASSUME NEW j \in Peers PROVE ~(k <= At(s, 0, j) /\ At(s, 0, j) <= k - 1)
    BY <1>1
  <2>2. MidsIn(s, k, k - 1) = {}
    BY <2>1 DEF MidsIn
  <2>3. QED
    BY <2>2, FS_EmptySet DEF Mids
<1>5. k \in 1..k
  OBVIOUS
<1>6. QED
  BY <1>3, <1>4, <1>5

\* A stretch on which at least m are open, from the a-th endpoint to the b-th,
\* which holds m midpoints; the first such.
StretchStarts(s, m, a, k) == /\ Opens(s, a - 1) < m
                      /\ \A l \in a..k : Opens(s, l) >= m
Qualifies(s, m, a, b) == /\ a < b /\ StretchStarts(s, m, a, b - 1) /\ Opens(s, b) < m
                         /\ Mids(s, a, b) >= m
First(s, m, a, b) == /\ a \in 1..b /\ Qualifies(s, m, a, b)
                     /\ \A d \in 1..(b - 1) : \A c \in 1..d : ~Qualifies(s, m, c, d)

ScanState == [count : Int, inside : BOOLEAN, mids : Nat, found : BOOLEAN, lo : Int, hi : Int]
ScanStart == [count |-> 0, inside |-> FALSE, mids |-> 0, found |-> FALSE, lo |-> 0, hi |-> 0]

\* One step of the scan, field by field.
LEMMA ScanStepIs ==
  ASSUME NEW st \in ScanState, NEW e, e[1] \in Int, e[2] \in Kinds, NEW m \in Nat
  PROVE  LET n == st.count + e[2]
             r == ScanStep(st, e, m)
             mid == IF e[2] = 0 THEN 1 ELSE 0
         IN /\ r \in ScanState
            /\ st.found => r = st
            /\ ~st.found /\ st.inside /\ n >= m =>
                 ~r.found /\ r.count = n /\ r.inside /\ r.mids = st.mids + mid /\ r.lo = st.lo
            /\ ~st.found /\ st.inside /\ n < m /\ st.mids + mid >= m =>
                 r.found /\ r.lo = st.lo /\ r.hi = e[1]
            /\ ~st.found /\ st.inside /\ n < m /\ st.mids + mid < m =>
                 ~r.found /\ r.count = n /\ ~r.inside
            /\ ~st.found /\ ~st.inside /\ n >= m =>
                 ~r.found /\ r.count = n /\ r.inside /\ r.mids = mid /\ r.lo = e[1]
            /\ ~st.found /\ ~st.inside /\ n < m =>
                 ~r.found /\ r.count = n /\ ~r.inside
<1> DEFINE n == st.count + e[2]
           r == ScanStep(st, e, m)
           mid == IF e[2] = 0 THEN 1 ELSE 0
<1>1. /\ st.count \in Int /\ st.mids \in Nat /\ st.inside \in BOOLEAN /\ st.found \in BOOLEAN
      /\ n \in Int /\ mid \in Nat /\ st.mids + mid \in Nat
      /\ (IF e[2] = 0 THEN st.mids + 1 ELSE st.mids) = st.mids + mid
  BY DEF ScanState, Kinds
<1> HIDE DEF n, mid
<1>2. CASE st.found
  <2>1. r = st
    BY <1>2 DEF ScanStep
  <2>2. QED
    BY <1>2, <2>1, Zenon DEF n, mid
<1>3. CASE ~st.found /\ st.inside /\ n >= m
  <2>1. r = [st EXCEPT !.count = n, !.mids = st.mids + mid]
    <3> DEFINE x == IF e[2] = 0 THEN st.mids + 1 ELSE st.mids
    <3>1. r = [st EXCEPT !.count = n, !.mids = x]
      BY <1>1, <1>3 DEF ScanStep, n
    <3>2. x = st.mids + mid
      BY <1>1
    <3> HIDE DEF x
    <3>3. QED
      BY <3>1, <3>2
  <2> DEFINE x == st.mids + mid
  <2>2. r \in ScanState /\ r.found = st.found /\ r.count = n /\ r.inside = st.inside
        /\ r.mids = x /\ r.lo = st.lo
    <3>1. r = [[st EXCEPT !.count = n] EXCEPT !.mids = x] /\ x \in Nat
      BY <1>1, <2>1
    <3> HIDE DEF x, r
    <3>2. QED
      BY <1>1, <3>1 DEF ScanState
  <2> HIDE DEF r
  <2>3. QED
    BY <1>1, <1>3, <2>2 DEF n, mid, r
<1>4. CASE ~st.found /\ st.inside /\ n < m /\ st.mids + mid >= m
  <2>1. r = [st EXCEPT !.found = TRUE, !.hi = e[1]]
    BY <1>1, <1>4 DEF ScanStep, n
  <2>2. r \in ScanState /\ r.found /\ r.lo = st.lo /\ r.hi = e[1]
    BY <1>1, <2>1 DEF ScanState
  <2> HIDE DEF r
  <2>3. QED
    BY <1>1, <1>4, <2>2 DEF n, mid, r
<1>5. CASE ~st.found /\ st.inside /\ n < m /\ st.mids + mid < m
  <2>1. r = [st EXCEPT !.count = n, !.inside = FALSE, !.mids = 0]
    BY <1>1, <1>5 DEF ScanStep, n
  <2>2. r \in ScanState /\ r.found = st.found /\ r.count = n /\ r.inside = FALSE
    <3>1. r = [[[st EXCEPT !.count = n] EXCEPT !.inside = FALSE] EXCEPT !.mids = 0]
      BY <2>1
    <3> HIDE DEF r
    <3>2. QED
      BY <1>1, <3>1 DEF ScanState
  <2> HIDE DEF r
  <2>3. QED
    BY <1>1, <1>5, <2>2 DEF n, mid, r
<1>6. CASE ~st.found /\ ~st.inside /\ n >= m
  <2>1. r = [st EXCEPT !.count = n, !.inside = TRUE, !.lo = e[1], !.mids = mid]
    BY <1>1, <1>6 DEF ScanStep, n, mid
  <2>2. r \in ScanState /\ r.found = st.found /\ r.count = n /\ r.inside /\ r.lo = e[1] /\ r.mids = mid
    BY <1>1, <2>1 DEF ScanState
  <2> HIDE DEF r
  <2>3. QED
    BY <1>1, <1>6, <2>2 DEF n, mid, r
<1>7. CASE ~st.found /\ ~st.inside /\ n < m
  <2>1. r = [st EXCEPT !.count = n]
    BY <1>1, <1>7 DEF ScanStep, n
  <2>2. r \in ScanState /\ r.found = st.found /\ r.count = n /\ r.inside = st.inside
    BY <1>1, <2>1 DEF ScanState
  <2> HIDE DEF r
  <2>3. QED
    BY <1>1, <1>7, <2>2 DEF n, mid, r
<1>8. QED
  BY <1>1, <1>2, <1>3, <1>4, <1>5, <1>6, <1>7

\* What the scan knows after k endpoints.
ScanInv(s, m, k, st) ==
  /\ st \in ScanState
  /\ ~st.found => /\ st.count = Opens(s, k)
                  /\ st.inside <=> Opens(s, k) >= m
                  /\ st.inside => \E a \in 1..k : /\ StretchStarts(s, m, a, k) /\ st.lo = s[a][1]
                                                  /\ st.mids = Mids(s, a, k)
                  /\ \A d \in 1..k : \A c \in 1..d : ~Qualifies(s, m, c, d)
  /\ st.found => \E b \in 1..k : \E a \in 1..b : First(s, m, a, b) /\ st.lo = s[a][1] /\ st.hi = s[b][1]

\* A stretch has one beginning.
LEMMA OneStart ==
  ASSUME NEW s, NEW m \in Nat, NEW k \in Int, NEW a \in Int, NEW c \in Int, a <= k, c <= k,
         StretchStarts(s, m, a, k), StretchStarts(s, m, c, k)
  PROVE  a = c
<1>1. ~(a < c)
  <2>1. ASSUME a < c PROVE FALSE
    <3>1. c - 1 \in a..k
      BY <2>1
    <3>2. Opens(s, c - 1) >= m /\ Opens(s, c - 1) < m /\ Opens(s, c - 1) \in Nat
      BY <3>1, CountTypes DEF StretchStarts
    <3>3. QED
      BY <3>2
  <2>2. QED
    BY <2>1
<1>2. ~(c < a)
  <2>1. ASSUME c < a PROVE FALSE
    <3>1. a - 1 \in c..k
      BY <2>1
    <3>2. Opens(s, a - 1) >= m /\ Opens(s, a - 1) < m /\ Opens(s, a - 1) \in Nat
      BY <3>1, CountTypes DEF StretchStarts
    <3>3. QED
      BY <3>2
  <2>2. QED
    BY <2>1
<1>3. QED
  BY <1>1, <1>2

\* One endpoint more keeps what the scan knows.
LEMMA ScanInvStep ==
  ASSUME NEW t \in [Peers -> Estimate], NEW s, Sorted(t, s), NEW m \in Nat \ {0},
         NEW k \in 1..(3 * N), NEW st, ScanInv(s, m, k - 1, st)
  PROVE  ScanInv(s, m, k, ScanStep(st, s[k], m))
<1> DEFINE e == s[k]
           n == st.count + e[2]
           r == ScanStep(st, e, m)
           mid == IF e[2] = 0 THEN 1 ELSE 0
           was == Opens(s, k - 1)
           is == Opens(s, k)
<1>0. /\ e[1] \in Int /\ e[2] \in Kinds /\ e[2] \in Int /\ k \in Int /\ m \in Nat /\ m \in Int
      /\ 1 \in 1..k /\ k \in 1..k
  BY AtIs DEF Kinds
<1>1. was \in Nat /\ is \in Nat /\ is = was + e[2]
  BY OpensStep, CountTypes
<1>2. st \in ScanState /\ st.inside \in BOOLEAN /\ st.found \in BOOLEAN /\ st.mids \in Nat /\ st.count \in Int
  BY DEF ScanInv, ScanState
<1>3. /\ r \in ScanState
      /\ st.found => r = st
      /\ ~st.found /\ st.inside /\ n >= m =>
           ~r.found /\ r.count = n /\ r.inside /\ r.mids = st.mids + mid /\ r.lo = st.lo
      /\ ~st.found /\ st.inside /\ n < m /\ st.mids + mid >= m =>
           r.found /\ r.lo = st.lo /\ r.hi = e[1]
      /\ ~st.found /\ st.inside /\ n < m /\ st.mids + mid < m =>
           ~r.found /\ r.count = n /\ ~r.inside
      /\ ~st.found /\ ~st.inside /\ n >= m =>
           ~r.found /\ r.count = n /\ r.inside /\ r.mids = mid /\ r.lo = e[1]
      /\ ~st.found /\ ~st.inside /\ n < m =>
           ~r.found /\ r.count = n /\ ~r.inside
  BY <1>0, <1>2, ScanStepIs
<1>4. ASSUME NEW a \in 1..k PROVE Mids(s, a, k) = Mids(s, a, k - 1) + mid
  BY <1>4, MidsStep
<1>5. Mids(s, k, k) = mid
  BY <1>0, MidsStep
<1> HIDE DEF e, n, r, mid, was, is
<1>6. CASE st.found
  <2>1. r = st
    BY <1>3, <1>6
  <2>2. \E b \in 1..(k - 1) : \E a \in 1..b : First(s, m, a, b) /\ st.lo = s[a][1] /\ st.hi = s[b][1]
    BY <1>6 DEF ScanInv
  <2>3. \A b \in 1..(k - 1) : b \in 1..k
    BY <1>0
  <2>4. QED
    BY <1>2, <1>6, <2>1, <2>2, <2>3 DEF ScanInv, r, e
<1>7. CASE ~st.found
  <2>0. st.count = was /\ n = is /\ (st.inside <=> was >= m)
        /\ (st.inside => \E a \in 1..(k - 1) : /\ StretchStarts(s, m, a, k - 1) /\ st.lo = s[a][1]
                                               /\ st.mids = Mids(s, a, k - 1))
        /\ \A d \in 1..(k - 1) : \A c \in 1..d : ~Qualifies(s, m, c, d)
    BY <1>1, <1>7 DEF ScanInv, was, n
  <2>1. CASE is >= m
    <3>1. ~r.found /\ r.count = is /\ r.inside
      BY <1>2, <1>3, <1>7, <2>0, <2>1
    <3>2. \A d \in 1..k : \A c \in 1..d : ~Qualifies(s, m, c, d)
      <4>1. \A c \in 1..k : ~Qualifies(s, m, c, k)
        BY <1>0, <1>1, <2>1 DEF Qualifies, is
      <4>2. \A d \in 1..k : d = k \/ d \in 1..(k - 1)
        BY <1>0
      <4>3. QED
        BY <2>0, <4>1, <4>2
    <3>3. \E a \in 1..k : StretchStarts(s, m, a, k) /\ r.lo = s[a][1] /\ r.mids = Mids(s, a, k)
      <4>1. CASE st.inside
        <5>1. PICK a \in 1..(k - 1) : /\ StretchStarts(s, m, a, k - 1) /\ st.lo = s[a][1]
                                      /\ st.mids = Mids(s, a, k - 1)
          BY <2>0, <4>1
        <5>2. a \in 1..k
          BY <1>0
        <5>3. r.lo = st.lo /\ r.mids = st.mids + mid
          BY <1>2, <1>3, <1>7, <2>0, <2>1, <4>1
        <5>4. StretchStarts(s, m, a, k)
          <6>1. \A l \in a..k : l = k \/ l \in a..(k - 1)
            BY <1>0
          <6>2. QED
            BY <2>1, <5>1, <6>1 DEF StretchStarts, is
        <5>5. Mids(s, a, k) = Mids(s, a, k - 1) + mid
          BY <1>4, <5>2
        <5>6. QED
          BY <5>1, <5>2, <5>3, <5>4, <5>5
      <4>2. CASE ~st.inside
        <5>1. r.lo = s[k][1] /\ r.mids = Mids(s, k, k)
          BY <1>2, <1>3, <1>5, <1>7, <2>0, <2>1, <4>2 DEF e
        <5>2. StretchStarts(s, m, k, k)
          <6>1. was < m
            BY <1>0, <1>1, <2>0, <4>2
          <6>2. \A l \in k..k : l = k
            BY <1>0
          <6>3. QED
            BY <2>1, <6>1, <6>2 DEF StretchStarts, was, is
        <5>3. QED
          BY <1>0, <5>1, <5>2
      <4>3. QED
        BY <1>2, <4>1, <4>2
    <3>4. QED
      BY <1>3, <2>1, <3>1, <3>2, <3>3 DEF ScanInv, r, e, is
  <2>2. CASE is < m /\ ~st.inside
    <3>1. ~r.found /\ r.count = is /\ ~r.inside
      BY <1>2, <1>3, <1>7, <2>0, <2>2
    <3>2. \A d \in 1..k : \A c \in 1..d : ~Qualifies(s, m, c, d)
      <4>1. ASSUME NEW c \in 1..k, Qualifies(s, m, c, k) PROVE FALSE
        <5>1. k - 1 \in c..(k - 1)
          BY <1>0, <4>1 DEF Qualifies
        <5>2. was >= m
          BY <4>1, <5>1 DEF Qualifies, StretchStarts, was
        <5>3. QED
          BY <1>0, <1>1, <2>0, <2>2, <5>2
      <4>2. \A d \in 1..k : d = k \/ d \in 1..(k - 1)
        BY <1>0
      <4>3. QED
        BY <2>0, <4>1, <4>2
    <3>3. ~(is >= m)
      BY <1>0, <1>1, <2>2
    <3>4. QED
      BY <1>3, <3>1, <3>2, <3>3 DEF ScanInv, r, e, is
  <2>3. CASE is < m /\ st.inside
    <3>1. PICK a \in 1..(k - 1) : /\ StretchStarts(s, m, a, k - 1) /\ st.lo = s[a][1]
                                  /\ st.mids = Mids(s, a, k - 1)
      BY <2>0, <2>3
    <3>2. a \in 1..k /\ a \in Int /\ a < k /\ a <= k - 1
      BY <1>0
    <3>3. Mids(s, a, k) = st.mids + mid
      BY <1>4, <3>1, <3>2
    <3>4. ASSUME NEW c \in 1..k, Qualifies(s, m, c, k) PROVE c = a
      <4>1. c < k /\ c <= k - 1 /\ c \in Int /\ StretchStarts(s, m, c, k - 1) /\ k - 1 \in Int
        BY <1>0, <3>4 DEF Qualifies
      <4>2. QED
        BY <1>0, <3>1, <3>2, <4>1, OneStart
    <3>5. st.mids + mid \in Nat
      BY <1>2 DEF mid
    <3>6. CASE st.mids + mid >= m
      <4>1. r.found /\ r.lo = st.lo /\ r.hi = s[k][1]
        BY <1>2, <1>3, <1>7, <2>0, <2>3, <3>6 DEF e
      <4>2. Qualifies(s, m, a, k)
        BY <2>3, <3>1, <3>2, <3>3, <3>6 DEF Qualifies, is
      <4>3. First(s, m, a, k)
        BY <2>0, <3>2, <4>2 DEF First
      <4>4. \E b \in 1..k : \E d \in 1..b : First(s, m, d, b) /\ r.lo = s[d][1] /\ r.hi = s[b][1]
        BY <1>0, <3>1, <3>2, <4>1, <4>3
      <4>5. QED
        BY <1>3, <4>1, <4>4 DEF ScanInv, r, e
    <3>7. CASE st.mids + mid < m
      <4>1. ~r.found /\ r.count = is /\ ~r.inside
        BY <1>2, <1>3, <1>7, <2>0, <2>3, <3>7
      <4>2. ~Qualifies(s, m, a, k)
        BY <1>0, <3>3, <3>5, <3>7 DEF Qualifies
      <4>3. \A d \in 1..k : \A c \in 1..d : ~Qualifies(s, m, c, d)
        <5>1. \A d \in 1..k : d = k \/ d \in 1..(k - 1)
          BY <1>0
        <5>2. QED
          BY <2>0, <3>4, <4>2, <5>1
      <4>4. ~(is >= m)
        BY <1>0, <1>1, <2>3
      <4>5. QED
        BY <1>3, <4>1, <4>3, <4>4 DEF ScanInv, r, e, is
    <3>8. QED
      BY <1>0, <3>5, <3>6, <3>7
  <2>4. QED
    BY <1>0, <1>1, <1>2, <2>1, <2>2, <2>3
<1>8. QED
  BY <1>2, <1>6, <1>7

\* The scan finds the first stretch that qualifies, if there is one.
LEMMA ScanFinds ==
  ASSUME NEW t \in [Peers -> Estimate], NEW m \in Nat \ {0}
  PROVE  ScanInv(Endpoints(t), m, 3 * N, Scan(Endpoints(t), m))
<1> DEFINE s == Endpoints(t)
           n == 3 * N
           F == [p \in (1..n) \X ScanState |-> ScanStep(p[2], s[p[1]], m)]
           Eq(g) == g = [k \in 0..n |-> IF k = 0 THEN ScanStart ELSE ScanStep(g[k - 1], s[k], m)]
           at == CHOOSE g : Eq(g)
<1>0. /\ Sorted(t, s) /\ n \in Nat /\ m \in Nat
      /\ s \in [1..n -> EndpointSet(t)]
      /\ \A k \in 1..n : s[k][1] \in Int /\ s[k][2] \in Kinds
  <2>1. Sorted(t, s)
    BY EndpointsSorted
  <2> HIDE DEF s
  <2>2. QED
    BY <2>1, AtIs DEF Sorted
<1>1. Len(s) = n
  <2> HIDE DEF s, n
  <2>1. DOMAIN s = 1..n
    BY <1>0
  <2>2. s \in Seq(EndpointSet(t))
    BY <1>0, <2>1
  <2>3. QED
    BY <1>0, <2>1, <2>2
<1>2. Scan(s, m) = at[n]
  <2> HIDE DEF s, n
  <2>1. Scan(s, m) = (CHOOSE g : g = [k \in 0..Len(s) |-> IF k = 0 THEN ScanStart
                                                        ELSE ScanStep(g[k - 1], s[k], m)])[Len(s)]
    BY DEF Scan, ScanStart
  <2>2. QED
    BY <1>1, <2>1
<1> HIDE DEF s, n
<1>3. ASSUME NEW k \in 1..n, NEW st \in ScanState PROVE ScanStep(st, s[k], m) \in ScanState
  BY <1>0, ScanStepIs
<1>4. F \in [(1..n) \X ScanState -> ScanState]
  BY <1>3
<1>5. ScanStart \in ScanState
  BY DEF ScanStart, ScanState
<1>6. PICK g \in [0..n -> ScanState] : IsIteration(g, ScanStart, F, n)
  <2> HIDE DEF F
  <2> QED BY <1>0, <1>4, <1>5, Iteration
<1>7. ASSUME NEW k \in 1..n PROVE F[<<k, g[k - 1]>>] = ScanStep(g[k - 1], s[k], m)
  <2>1. <<k, g[k - 1]>> \in (1..n) \X ScanState
    BY <1>0
  <2>2. QED
    BY <2>1
<1>8. Eq(g)
  <2>1. \A k \in 0..n : k # 0 => k \in 1..n
    BY <1>0
  <2> HIDE DEF F
  <2>2. QED
    BY <1>6, <1>7, <2>1 DEF IsIteration
<1>9. Eq(at)
  <2> HIDE DEF Eq
  <2> QED BY <1>8
<1> HIDE DEF at, F
<1>10. at[0] = ScanStart /\ \A k \in 1..n : at[k] = ScanStep(at[k - 1], s[k], m)
  BY <1>0, <1>9
<1> DEFINE S == {k \in 0..n : ScanInv(s, m, k, at[k])}
<1>11. 0 \in S
  <2>1. Opens(s, 0) = 0
    <3>1. ASSUME NEW i \in Peers PROVE ~(At(s, 1, i) <= 0)
      <4>1. At(s, 1, i) \in 1..n
        BY <1>0, AtIs DEF Kinds, n
      <4>2. QED
        BY <4>1
    <3>2. OpenAt(s, 0) = {}
      BY <3>1 DEF OpenAt
    <3>3. QED
      BY <3>2, FS_EmptySet DEF Opens
  <2>2. ~(0 >= m) /\ 1..0 = {}
    BY <1>0
  <2>3. ScanInv(s, m, 0, ScanStart)
    <3>1. ~ScanStart.found /\ ~ScanStart.inside /\ ScanStart.count = 0
      BY DEF ScanStart
    <3>2. QED
      BY <1>5, <2>1, <2>2, <3>1 DEF ScanInv
  <2>4. QED
    BY <1>0, <1>10, <2>3
<1>12. ASSUME NEW k \in 1..n, k - 1 \in S PROVE k \in S
  <2>1. ScanInv(s, m, k - 1, at[k - 1])
    BY <1>12
  <2>2. at[k] = ScanStep(at[k - 1], s[k], m)
    BY <1>10
  <2>3. k \in 1..(3 * N)
    BY <1>0 DEF n
  <2>4. ScanInv(s, m, k, ScanStep(at[k - 1], s[k], m))
    <3> HIDE DEF S, Eq
    <3> QED BY <1>0, <2>1, <2>3, ScanInvStep, SMTT(60)
  <2>5. QED
    BY <1>0, <2>2, <2>4
<1> HIDE DEF S
<1>13. n \in S
  <2>1. \A k \in 1..n : k - 1 \in S => k \in S
    BY <1>12
  <2>2. \A k \in 0..n : k \in S
    BY <1>0, <1>11, <2>1, Climb
  <2>3. QED
    BY <1>0, <2>2
<1>14. ScanInv(s, m, n, at[n])
  BY <1>13 DEF S
<1>15. QED
  BY <1>2, <1>14 DEF s, n

------------------------------------------------------------------------------
(* Stretches of the list are the intervals the endpoints bound.            *)

CoverOf(t, h) == {i \in Peers : 2 * Lower(t[i]) <= h /\ h <= 2 * Upper(t[i])}
CoveringOf(t, h) == Cardinality(CoverOf(t, h))
MidpointsOf(t, lo, hi) == Cardinality({i \in Peers : t[i].offset \in lo..hi})
AgreementsOf(t, m) ==
  {a \in {Lower(t[i]) : i \in Peers} \X {Upper(t[i]) : i \in Peers} :
     /\ a[1] <= a[2]
     /\ \A h \in (2 * a[1])..(2 * a[2]) : CoveringOf(t, h) >= m
     /\ CoveringOf(t, 2 * a[1] - 1) < m /\ CoveringOf(t, 2 * a[2] + 1) < m
     /\ MidpointsOf(t, a[1], a[2]) >= m}

\* At half the value of h, an interval that begins there is open, and one
\* that ends there is open still.
Passed(e, h) == 2 * e[1] < h \/ (2 * e[1] = h /\ e[2] >= 0)
Foremost(s, h, k) == k \in 0..(3 * N) /\ \A l \in 1..(3 * N) : l <= k <=> Passed(s[l], h)

\* For every point there is the last endpoint that lies before it,
LEMMA FrontExists ==
  ASSUME NEW t \in [Peers -> Estimate], NEW s, Sorted(t, s), NEW h \in Int
  PROVE  \E k \in 0..(3 * N) : Foremost(s, h, k)
<1> DEFINE n == 3 * N
           bad == {l \in 1..n : ~Passed(s[l], h)}
<1>0. n \in Nat
  BY AtIs
<1>1. ASSUME NEW k \in 1..n, NEW l \in 1..n, k < l, Passed(s[l], h) PROVE Passed(s[k], h)
  <2>1. Before(s[k], s[l])
    BY <1>1 DEF Sorted
  <2>2. /\ s[k][1] \in Int /\ s[k][2] \in Int /\ s[l][1] \in Int /\ s[l][2] \in Int
    BY AtIs DEF Kinds
  <2>3. s[k][1] < s[l][1] \/ (s[k][1] = s[l][1] /\ s[k][2] >= s[l][2])
    BY <2>1, <2>2 DEF Before
  <2>4. QED
    BY <1>1, <2>2, <2>3 DEF Passed
<1>2. CASE bad = {}
  <2>1. n \in 0..n /\ \A l \in 1..n : l <= n <=> Passed(s[l], h)
    BY <1>0, <1>2
  <2>2. QED
    BY <2>1 DEF Foremost
<1>3. CASE bad # {}
  <2>1. PICK j \in bad : \A l \in bad : j <= l
    <3>1. bad \in SUBSET Nat
      OBVIOUS
    <3> HIDE DEF bad
    <3>2. QED
      BY <1>3, <3>1, LeastNat
  <2>2. j \in 1..n /\ ~Passed(s[j], h) /\ j - 1 \in 0..n
    BY <1>0, <2>1
  <2>3. ASSUME NEW l \in 1..n PROVE l <= j - 1 <=> Passed(s[l], h)
    <3>1. l <= j - 1 => Passed(s[l], h)
      BY <2>1, <2>2
    <3>2. Passed(s[l], h) => l # j /\ ~(j < l)
      BY <1>1, <2>2
    <3>3. QED
      BY <2>2, <3>1, <3>2
  <2>4. Foremost(s, h, j - 1)
    BY <2>2, <2>3 DEF Foremost
  <2>5. QED
    BY <2>2, <2>4
<1>4. QED
  BY <1>2, <1>3

\* and what is open after that endpoint covers the point.
LEMMA FrontCovers ==
  ASSUME NEW t \in [Peers -> Estimate], NEW s, Sorted(t, s), NEW h \in Int, NEW k, Foremost(s, h, k)
  PROVE  Opens(s, k) = CoveringOf(t, h)
<1>1. 1 \in Kinds /\ -1 \in Kinds /\ k \in Int
  BY AtIs DEF Kinds, Foremost
<1>2. ASSUME NEW i \in Peers PROVE i \in OpenAt(s, k) <=> i \in CoverOf(t, h)
  <2> DEFINE a == At(s, 1, i)
             b == At(s, -1, i)
  <2>1. a \in 1..(3 * N) /\ s[a] = End(t, 1, i) /\ b \in 1..(3 * N) /\ s[b] = End(t, -1, i)
    BY <1>1, AtIs
  <2>2. s[a][1] = Lower(t[i]) /\ s[a][2] = 1 /\ s[b][1] = Upper(t[i]) /\ s[b][2] = -1
    BY <2>1 DEF End, Point
  <2>3. Lower(t[i]) \in Int /\ Upper(t[i]) \in Int
    <3>1. t[i].offset \in Int /\ t[i].dist \in Nat
      BY DEF Estimate
    <3>2. QED
      BY <3>1 DEF Lower, Upper
  <2> HIDE DEF a, b
  <2>4. a <= k <=> 2 * Lower(t[i]) <= h
    <3>1. a <= k <=> Passed(s[a], h)
      BY <2>1 DEF Foremost
    <3>2. QED
      BY <2>2, <2>3, <3>1 DEF Passed
  <2>5. b <= k <=> 2 * Upper(t[i]) < h
    <3>1. b <= k <=> Passed(s[b], h)
      BY <2>1 DEF Foremost
    <3>2. QED
      BY <2>2, <2>3, <3>1 DEF Passed
  <2>6. (k < b) <=> h <= 2 * Upper(t[i])
    BY <1>1, <2>1, <2>3, <2>5
  <2>7. QED
    BY <2>4, <2>6 DEF OpenAt, CoverOf, a, b
<1>3. OpenAt(s, k) = CoverOf(t, h)
  <2>1. OpenAt(s, k) \subseteq Peers /\ CoverOf(t, h) \subseteq Peers
    BY DEF OpenAt, CoverOf
  <2>2. QED
    BY <1>2, <2>1
<1>4. QED
  BY <1>3 DEF Opens, CoveringOf

\* What is open only grows over enters and only shrinks over leaves.
LEMMA OpensRise ==
  ASSUME NEW t \in [Peers -> Estimate], NEW s, Sorted(t, s),
         NEW j \in 0..(3 * N), NEW k \in j..(3 * N), \A l \in (j + 1)..k : s[l][2] >= 0
  PROVE  Opens(s, j) <= Opens(s, k)
<1> DEFINE n == k - j
           S == {d \in 0..n : Opens(s, j) <= Opens(s, j + d)}
<1>0. n \in Nat /\ j \in Int /\ k \in Int /\ 3 * N \in Int /\ j + 0 = j /\ j + n = k
  BY AtIs
<1>1. 0 \in S
  BY <1>0, CountTypes
<1>2. ASSUME NEW d \in 1..n, d - 1 \in S PROVE d \in S
  <2>1. /\ j + d \in 1..(3 * N) /\ j + d \in (j + 1)..k /\ (j + d) - 1 = j + (d - 1)
        /\ d \in 0..n
    BY <1>0
  <2>2. Opens(s, j + d) = Opens(s, (j + d) - 1) + s[j + d][2]
    BY <2>1, OpensStep
  <2>3. s[j + d][2] >= 0 /\ s[j + d][2] \in Int
    BY <2>1, AtIs DEF Kinds
  <2>4. Opens(s, j) <= Opens(s, j + (d - 1))
    BY <1>2
  <2>5. Opens(s, j) \in Nat /\ Opens(s, j + d) \in Nat /\ Opens(s, j + (d - 1)) \in Nat
    BY CountTypes
  <2> DEFINE x == Opens(s, j)
             y == Opens(s, j + (d - 1))
             z == Opens(s, j + d)
             e == s[j + d][2]
  <2>6. z = y + e /\ e >= 0 /\ e \in Int /\ x <= y /\ x \in Nat /\ y \in Nat /\ z \in Nat
    BY <2>1, <2>2, <2>3, <2>4, <2>5
  <2> HIDE DEF x, y, z, e
  <2>7. x <= z
    BY <2>6
  <2>8. QED
    BY <2>1, <2>7 DEF x, z
<1> HIDE DEF S, n
<1>3. n \in S
  <2>1. \A d \in 0..n : d \in S
    BY <1>0, <1>1, <1>2, Climb
  <2>2. QED
    BY <1>0, <2>1
<1>4. QED
  BY <1>0, <1>3 DEF S

\* It only shrinks over leaves.
LEMMA OpensFall ==
  ASSUME NEW t \in [Peers -> Estimate], NEW s, Sorted(t, s),
         NEW j \in 0..(3 * N), NEW k \in j..(3 * N), \A l \in (j + 1)..k : s[l][2] < 0
  PROVE  Opens(s, k) <= Opens(s, j)
<1> DEFINE n == k - j
           S == {d \in 0..n : Opens(s, j + d) <= Opens(s, j)}
<1>0. n \in Nat /\ j \in Int /\ k \in Int /\ 3 * N \in Int /\ j + 0 = j /\ j + n = k
  BY AtIs
<1>1. 0 \in S
  BY <1>0, CountTypes
<1>2. ASSUME NEW d \in 1..n, d - 1 \in S PROVE d \in S
  <2>1. /\ j + d \in 1..(3 * N) /\ j + d \in (j + 1)..k /\ (j + d) - 1 = j + (d - 1)
        /\ d \in 0..n
    BY <1>0
  <2>2. Opens(s, j + d) = Opens(s, (j + d) - 1) + s[j + d][2]
    BY <2>1, OpensStep
  <2>3. s[j + d][2] < 0 /\ s[j + d][2] \in Int
    BY <2>1, AtIs DEF Kinds
  <2>4. Opens(s, j + (d - 1)) <= Opens(s, j)
    BY <1>2
  <2>5. Opens(s, j) \in Nat /\ Opens(s, j + d) \in Nat /\ Opens(s, j + (d - 1)) \in Nat
    BY CountTypes
  <2> DEFINE x == Opens(s, j)
             y == Opens(s, j + (d - 1))
             z == Opens(s, j + d)
             e == s[j + d][2]
  <2>6. z = y + e /\ e < 0 /\ e \in Int /\ y <= x /\ x \in Nat /\ y \in Nat /\ z \in Nat
    BY <2>1, <2>2, <2>3, <2>4, <2>5
  <2> HIDE DEF x, y, z, e
  <2>7. z <= x
    BY <2>6
  <2>8. QED
    BY <2>1, <2>7 DEF x, z
<1> HIDE DEF S, n
<1>3. n \in S
  <2>1. \A d \in 0..n : d \in S
    BY <1>0, <1>1, <1>2, Climb
  <2>2. QED
    BY <1>0, <2>1
<1>4. QED
  BY <1>0, <1>3 DEF S

\* Between an enter and a leave of the list lie the midpoints whose values lie
\* between theirs.
LEMMA MidsAreBetween ==
  ASSUME NEW t \in [Peers -> Estimate], NEW s, Sorted(t, s),
         NEW a \in 1..(3 * N), NEW b \in 1..(3 * N), s[a][2] = 1, s[b][2] = -1
  PROVE  Mids(s, a, b) = MidpointsOf(t, s[a][1], s[b][1])
<1> DEFINE M == {i \in Peers : t[i].offset \in s[a][1]..s[b][1]}
<1>1. ASSUME NEW i \in Peers PROVE i \in MidsIn(s, a, b) <=> i \in M
  <2> DEFINE k == At(s, 0, i)
  <2>1. k \in 1..(3 * N) /\ s[k] = End(t, 0, i)
    BY AtIs DEF Kinds
  <2>2. s[k][1] = t[i].offset /\ s[k][2] = 0 /\ t[i].offset \in Int
    BY <2>1 DEF End, Point, Estimate
  <2>3. s[a][1] \in Int /\ s[b][1] \in Int
    BY AtIs
  <2>4. k # a /\ k # b /\ a \in Int /\ b \in Int /\ k \in Int
    BY <2>1, <2>2
  <2> HIDE DEF k
  <2>5. (a < k <=> Before(s[a], s[k])) /\ (k < a <=> Before(s[k], s[a]))
        /\ (b < k <=> Before(s[b], s[k])) /\ (k < b <=> Before(s[k], s[b]))
    BY <2>1 DEF Sorted
  <2>6. a <= k <=> s[a][1] <= t[i].offset
    <3>1. Before(s[a], s[k]) => s[a][1] <= t[i].offset
      BY <2>2, <2>3 DEF Before
    <3>2. Before(s[k], s[a]) => ~(s[a][1] <= t[i].offset)
      BY <2>2, <2>3 DEF Before
    <3>3. QED
      BY <2>4, <2>5, <3>1, <3>2
  <2>7. k <= b <=> t[i].offset <= s[b][1]
    <3>1. Before(s[k], s[b]) => t[i].offset <= s[b][1]
      BY <2>2, <2>3 DEF Before
    <3>2. Before(s[b], s[k]) => ~(t[i].offset <= s[b][1])
      BY <2>2, <2>3 DEF Before
    <3>3. QED
      BY <2>4, <2>5, <3>1, <3>2
  <2>8. i \in M <=> s[a][1] <= t[i].offset /\ t[i].offset <= s[b][1]
    BY <2>2, <2>3
  <2> HIDE DEF M
  <2>9. QED
    BY <2>6, <2>7, <2>8 DEF MidsIn, k
<1>2. MidsIn(s, a, b) = M
  <2>1. MidsIn(s, a, b) \subseteq Peers /\ M \subseteq Peers
    BY DEF MidsIn
  <2> HIDE DEF M
  <2>2. QED
    BY <1>1, <2>1
<1> HIDE DEF M
<1>3. QED
  BY <1>2 DEF Mids, MidpointsOf, M

\* A stretch begins with an enter and ends with a leave.
LEMMA StretchEnds ==
  ASSUME NEW t \in [Peers -> Estimate], NEW s, Sorted(t, s), NEW m \in Nat \ {0},
         NEW k \in 1..(3 * N)
  PROVE  /\ Opens(s, k - 1) < m /\ Opens(s, k) >= m => s[k][2] = 1
         /\ Opens(s, k - 1) >= m /\ Opens(s, k) < m => s[k][2] = -1
<1>1. Opens(s, k) = Opens(s, k - 1) + s[k][2]
  BY OpensStep
<1>2. s[k][2] \in {1, 0, -1}
  BY AtIs DEF Kinds
<1>3. Opens(s, k) \in Int /\ Opens(s, k - 1) \in Int
  BY CountTypes
<1> DEFINE x == Opens(s, k - 1)
           y == Opens(s, k)
           e == s[k][2]
<1>4. y = x + e /\ e \in {1, 0, -1} /\ x \in Int /\ y \in Int /\ m \in Int
  BY <1>1, <1>2, <1>3
<1> HIDE DEF x, y, e
<1>5. (x < m /\ y >= m => e = 1) /\ (x >= m /\ y < m => e = -1)
  BY <1>4
<1>6. QED
  BY <1>5 DEF x, y, e

\* A stretch that qualifies is an interval on which m servers agree.
LEMMA StretchAgrees ==
  ASSUME NEW t \in [Peers -> Estimate], NEW s, Sorted(t, s), NEW m \in Nat \ {0},
         NEW b \in 1..(3 * N), NEW a \in 1..b, Qualifies(s, m, a, b)
  PROVE  <<s[a][1], s[b][1]>> \in AgreementsOf(t, m)
<1> DEFINE n == 3 * N
           lo == s[a][1]
           hi == s[b][1]
<1>0. /\ n \in Nat /\ a \in 1..n /\ b \in 1..n /\ a < b /\ a \in Int /\ b \in Int
      /\ a - 1 \in 0..n /\ b - 1 \in a..(b - 1) /\ a \in a..(b - 1)
  BY AtIs DEF Qualifies
<1>1. /\ Opens(s, a - 1) < m /\ Opens(s, b) < m /\ Mids(s, a, b) >= m
      /\ \A l \in a..(b - 1) : Opens(s, l) >= m
  BY DEF Qualifies, StretchStarts
<1>2. s[a][2] = 1 /\ s[b][2] = -1
  <2>1. Opens(s, a) >= m /\ Opens(s, b - 1) >= m
    BY <1>0, <1>1
  <2>2. QED
    BY <1>0, <1>1, <2>1, StretchEnds
<1>3. /\ s[a][3] \in Peers /\ s[b][3] \in Peers /\ lo = Lower(t[s[a][3]]) /\ hi = Upper(t[s[b][3]])
      /\ lo \in Int /\ hi \in Int
  <2>1. /\ s[a] = End(t, s[a][2], s[a][3]) /\ s[b] = End(t, s[b][2], s[b][3])
        /\ s[a][3] \in Peers /\ s[b][3] \in Peers /\ lo \in Int /\ hi \in Int
    BY <1>0, AtIs
  <2>2. s[a][1] = Lower(t[s[a][3]])
    BY <1>2, <2>1 DEF End, Point
  <2>3. s[b][1] = Upper(t[s[b][3]])
    BY <1>2, <2>1 DEF End, Point
  <2>4. QED
    BY <2>1, <2>2, <2>3
<1>20. ASSUME NEW x PROVE Opens(s, x) \in Int
  BY CountTypes
<1>4. lo <= hi
  <2>1. Before(s[a], s[b])
    BY <1>0 DEF Sorted
  <2>2. QED
    BY <1>2, <1>3, <2>1 DEF Before
<1>5. ASSUME NEW h \in (2 * lo)..(2 * hi) PROVE CoveringOf(t, h) >= m
  <2>1. h \in Int /\ 2 * lo <= h /\ h <= 2 * hi
    BY <1>3
  <2>2. PICK k \in 0..n : Foremost(s, h, k)
    BY <2>1, FrontExists
  <2>3. Passed(s[a], h) /\ ~Passed(s[b], h)
    BY <1>2, <1>3, <2>1 DEF Passed
  <2>4. k \in a..(b - 1)
    BY <1>0, <2>2, <2>3 DEF Foremost
  <2>5. Opens(s, k) = CoveringOf(t, h)
    BY <2>1, <2>2, FrontCovers
  <2>6. QED
    BY <1>1, <2>4, <2>5
<1>6. CoveringOf(t, 2 * lo - 1) < m
  <2> DEFINE h == 2 * lo - 1
  <2>1. h \in Int
    BY <1>3
  <2>2. PICK k \in 0..n : Foremost(s, h, k)
    BY <2>1, FrontExists
  <2>3. ~Passed(s[a], h)
    BY <1>2, <1>3 DEF Passed
  <2>4. k \in 0..n /\ a - 1 \in k..n
    BY <1>0, <2>2, <2>3 DEF Foremost
  <2>5. ASSUME NEW l \in (k + 1)..(a - 1) PROVE s[l][2] >= 0
    <3>1. l \in 1..n /\ ~(l <= k) /\ l < a
      BY <1>0, <2>4
    <3>2. ~Passed(s[l], h) /\ Before(s[l], s[a])
      BY <1>0, <2>2, <3>1 DEF Foremost, Sorted
    <3>3. s[l][1] \in Int /\ s[l][2] \in {1, 0, -1}
      BY <3>1, AtIs DEF Kinds
    <3>4. s[l][1] >= lo
      BY <1>3, <3>2, <3>3 DEF Passed
    <3>5. QED
      BY <1>2, <1>3, <3>2, <3>3, <3>4 DEF Before
  <2>6. Opens(s, k) <= Opens(s, a - 1)
    BY <2>4, <2>5, OpensRise
  <2>7. Opens(s, k) = CoveringOf(t, h)
    BY <2>1, <2>2, FrontCovers
  <2>8. Opens(s, k) \in Int /\ Opens(s, a - 1) \in Int
    BY <1>20
  <2>9. QED
    BY <1>1, <2>6, <2>7, <2>8
<1>7. CoveringOf(t, 2 * hi + 1) < m
  <2> DEFINE h == 2 * hi + 1
  <2>1. h \in Int
    BY <1>3
  <2>2. PICK k \in 0..n : Foremost(s, h, k)
    BY <2>1, FrontExists
  <2>3. Passed(s[b], h)
    BY <1>2, <1>3 DEF Passed
  <2>4. k \in b..n /\ b \in 0..n
    BY <1>0, <2>2, <2>3 DEF Foremost
  <2>5. ASSUME NEW l \in (b + 1)..k PROVE s[l][2] < 0
    <3>1. l \in 1..n /\ l <= k /\ b < l
      BY <1>0, <2>4
    <3>2. Passed(s[l], h) /\ Before(s[b], s[l])
      BY <1>0, <2>2, <3>1 DEF Foremost, Sorted
    <3>3. s[l][1] \in Int /\ s[l][2] \in {1, 0, -1}
      BY <3>1, AtIs DEF Kinds
    <3>4. s[l][1] <= hi
      BY <1>3, <3>2, <3>3 DEF Passed
    <3>5. QED
      BY <1>2, <1>3, <3>2, <3>3, <3>4 DEF Before
  <2>6. Opens(s, k) <= Opens(s, b)
    BY <2>4, <2>5, OpensFall
  <2>7. Opens(s, k) = CoveringOf(t, h)
    BY <2>1, <2>2, FrontCovers
  <2>8. Opens(s, k) \in Int /\ Opens(s, b) \in Int
    BY <1>20
  <2>9. QED
    BY <1>1, <2>6, <2>7, <2>8
<1>8. MidpointsOf(t, lo, hi) >= m
  BY <1>0, <1>1, <1>2, MidsAreBetween
<1>9. QED
  <2> DEFINE p == <<lo, hi>>
  <2>1. p \in {Lower(t[i]) : i \in Peers} \X {Upper(t[i]) : i \in Peers} /\ p[1] = lo /\ p[2] = hi
    BY <1>3
  <2>2. /\ p[1] <= p[2]
        /\ \A h \in (2 * p[1])..(2 * p[2]) : CoveringOf(t, h) >= m
        /\ CoveringOf(t, 2 * p[1] - 1) < m /\ CoveringOf(t, 2 * p[2] + 1) < m
        /\ MidpointsOf(t, p[1], p[2]) >= m
    BY <1>4, <1>5, <1>6, <1>7, <1>8, <2>1
  <2>3. p \in AgreementsOf(t, m)
    <3> HIDE DEF p
    <3> QED BY <2>1, <2>2 DEF AgreementsOf
  <2>4. QED
    BY <2>3

\* An interval on which m servers agree is a stretch that qualifies.
LEMMA AgreementStretches ==
  ASSUME NEW t \in [Peers -> Estimate], NEW s, Sorted(t, s), NEW m \in Nat \ {0},
         NEW p \in AgreementsOf(t, m)
  PROVE  \E b \in 1..(3 * N) : \E a \in 1..b :
            Qualifies(s, m, a, b) /\ s[a][1] = p[1] /\ s[b][1] = p[2]
<1> DEFINE n == 3 * N
           lo == p[1]
           hi == p[2]
<1>0. n \in Nat /\ lo \in Int /\ hi \in Int
  <2>1. ASSUME NEW i \in Peers PROVE Lower(t[i]) \in Int /\ Upper(t[i]) \in Int
    <3>1. t[i].offset \in Int /\ t[i].dist \in Nat
      BY DEF Estimate
    <3>2. QED
      BY <3>1 DEF Lower, Upper
  <2>2. p \in {Lower(t[i]) : i \in Peers} \X {Upper(t[i]) : i \in Peers}
    BY DEF AgreementsOf
  <2>3. lo \in {Lower(t[i]) : i \in Peers} /\ hi \in {Upper(t[i]) : i \in Peers}
    BY <2>2
  <2>4. QED
    BY <2>1, <2>3, AtIs
<1>1. /\ lo <= hi
      /\ \A h \in (2 * lo)..(2 * hi) : CoveringOf(t, h) >= m
      /\ CoveringOf(t, 2 * lo - 1) < m /\ CoveringOf(t, 2 * hi + 1) < m
      /\ MidpointsOf(t, lo, hi) >= m
  BY DEF AgreementsOf
<1> HIDE DEF lo, hi
<1>2. /\ 2 * lo - 1 \in Int /\ 2 * lo \in Int /\ 2 * hi \in Int /\ 2 * hi + 1 \in Int
      /\ 2 * lo \in (2 * lo)..(2 * hi) /\ 2 * hi \in (2 * lo)..(2 * hi)
  BY <1>0, <1>1
<1>3. PICK f0 \in 0..n : Foremost(s, 2 * lo - 1, f0)
  BY <1>2, FrontExists
<1>4. PICK f1 \in 0..n : Foremost(s, 2 * lo, f1)
  BY <1>2, FrontExists
<1>5. PICK f2 \in 0..n : Foremost(s, 2 * hi, f2)
  BY <1>2, FrontExists
<1>6. PICK f3 \in 0..n : Foremost(s, 2 * hi + 1, f3)
  BY <1>2, FrontExists
<1>7. Opens(s, f0) < m /\ Opens(s, f1) >= m /\ Opens(s, f2) >= m /\ Opens(s, f3) < m
  <2>1. /\ Opens(s, f0) = CoveringOf(t, 2 * lo - 1) /\ Opens(s, f1) = CoveringOf(t, 2 * lo)
        /\ Opens(s, f2) = CoveringOf(t, 2 * hi) /\ Opens(s, f3) = CoveringOf(t, 2 * hi + 1)
    BY <1>2, <1>3, <1>4, <1>5, <1>6, FrontCovers
  <2>2. QED
    BY <1>1, <1>2, <2>1
<1>8. ASSUME NEW l \in 1..n PROVE s[l][1] \in Int /\ s[l][2] \in {1, 0, -1}
  BY AtIs DEF Kinds
<1>9. ASSUME NEW l \in 1..n
      PROVE  /\ l <= f0 <=> s[l][1] < lo
             /\ l <= f1 <=> s[l][1] < lo \/ (s[l][1] = lo /\ s[l][2] >= 0)
             /\ l <= f2 <=> s[l][1] < hi \/ (s[l][1] = hi /\ s[l][2] >= 0)
             /\ l <= f3 <=> s[l][1] <= hi
  <2>1. /\ l <= f0 <=> Passed(s[l], 2 * lo - 1) 
        /\ l <= f1 <=> Passed(s[l], 2 * lo) 
        /\ l <= f2 <=> Passed(s[l], 2 * hi) 
        /\ l <= f3 <=> Passed(s[l], 2 * hi + 1) 
    BY <1>3, <1>4, <1>5, <1>6 DEF Foremost
  <2>2. s[l][1] \in Int /\ s[l][2] \in {1, 0, -1}
    BY <1>8
  <2>3. Passed(s[l], 2 * lo - 1) <=> s[l][1] < lo
    BY <1>0, <2>2 DEF Passed
  <2>4. Passed(s[l], 2 * lo) <=> s[l][1] < lo \/ (s[l][1] = lo /\ s[l][2] >= 0)
    BY <1>0, <2>2 DEF Passed
  <2>5. Passed(s[l], 2 * hi) <=> s[l][1] < hi \/ (s[l][1] = hi /\ s[l][2] >= 0)
    BY <1>0, <2>2 DEF Passed
  <2>6. Passed(s[l], 2 * hi + 1) <=> s[l][1] <= hi
    BY <1>0, <2>2 DEF Passed
  <2>7. QED
    BY <2>1, <2>3, <2>4, <2>5, <2>6
<1>10. f0 < f1 /\ f1 <= f2 /\ f2 < f3
  <2>1. ASSUME f1 < f0 PROVE FALSE
    <3>1. f0 \in 1..n
      BY <1>3, <2>1
    <3>2. QED
      BY <1>9, <2>1, <3>1
  <2>2. ASSUME f2 < f1 PROVE FALSE
    <3>1. f1 \in 1..n
      BY <1>4, <2>2
    <3>2. QED
      BY <1>0, <1>1, <1>8, <1>9, <2>2, <3>1
  <2>3. ASSUME f3 < f2 PROVE FALSE
    <3>1. f2 \in 1..n
      BY <1>5, <2>3
    <3>2. QED
      BY <1>0, <1>8, <1>9, <2>3, <3>1
  <2>4. f0 # f1 /\ f2 # f3
    <3>1. Opens(s, f0) \in Int /\ Opens(s, f1) \in Int /\ Opens(s, f2) \in Int /\ Opens(s, f3) \in Int
      BY CountTypes
    <3>2. QED
      BY <1>7, <3>1
  <2>5. f0 \in Int /\ f1 \in Int /\ f2 \in Int /\ f3 \in Int
    OBVIOUS
  <2>6. QED
    BY <2>1, <2>2, <2>3, <2>4, <2>5
<1>11. PICK a \in (f0 + 1)..f1 : Opens(s, a) >= m /\ \A l \in (f0 + 1)..f1 : Opens(s, l) >= m => a <= l
  <2> DEFINE S == {l \in (f0 + 1)..f1 : Opens(s, l) >= m}
  <2>1. S \in SUBSET Nat /\ f1 \in S
    BY <1>7, <1>10
  <2>2. S # {}
    BY <2>1
  <2> HIDE DEF S
  <2>3. PICK a \in S : \A l \in S : a <= l
    BY <2>1, <2>2, LeastNat
  <2>4. QED
    BY <2>3 DEF S
<1>12. PICK b \in (f2 + 1)..f3 : Opens(s, b) < m /\ \A l \in (f2 + 1)..f3 : Opens(s, l) < m => b <= l
  <2> DEFINE S == {l \in (f2 + 1)..f3 : Opens(s, l) < m}
  <2>1. S \in SUBSET Nat /\ f3 \in S
    BY <1>7, <1>10
  <2>2. S # {}
    BY <2>1
  <2> HIDE DEF S
  <2>3. PICK b \in S : \A l \in S : b <= l
    BY <2>1, <2>2, LeastNat
  <2>4. QED
    BY <2>3 DEF S
<1>13. /\ a \in 1..n /\ b \in 1..n /\ a \in 1..b /\ a < b /\ a <= f1 /\ f2 < b
       /\ f0 < a /\ b <= f3 /\ a \in Int /\ b \in Int /\ a \in 0..n /\ a \in f0..n
  BY <1>0, <1>10, <1>11, <1>12
<1>14. ASSUME NEW l \in Nat PROVE Opens(s, l) \in Nat /\ Opens(s, l) \in Int
  BY CountTypes
<1>15. Opens(s, a - 1) < m
  <2>1. CASE a = f0 + 1
    <3>1. a - 1 = f0
      BY <2>1
    <3>2. QED
      BY <1>7, <3>1
  <2>2. CASE a # f0 + 1
    <3>1. a - 1 \in (f0 + 1)..f1 /\ ~(a <= a - 1) /\ a - 1 \in Nat
      BY <1>13, <2>2
    <3>2. ~(Opens(s, a - 1) >= m)
      BY <1>11, <3>1
    <3>3. QED
      BY <1>14, <3>1, <3>2
  <2>3. QED
    BY <2>1, <2>2
<1>16. s[a][2] = 1
  BY <1>11, <1>13, <1>15, StretchEnds
<1>17. ASSUME NEW l \in a..(b - 1) PROVE Opens(s, l) >= m
  <2>1. l \in 1..n /\ l \in Nat /\ l \in 0..n
    BY <1>0, <1>13
  <2>2. CASE l <= f1
    <3>1. l \in a..n /\ a \in 0..n
      BY <1>13, <2>1
    <3>2. ASSUME NEW j \in (a + 1)..l PROVE s[j][2] >= 0
      <4>1. j \in 1..n /\ ~(j <= f0) /\ j <= f1
        BY <1>0, <1>13, <2>1, <2>2
      <4>2. QED
        BY <1>0, <1>8, <1>9, <4>1
    <3>3. Opens(s, a) <= Opens(s, l)
      BY <3>1, <3>2, OpensRise
    <3>4. a \in Nat
      BY <1>13
    <3>5. Opens(s, a) \in Int /\ Opens(s, l) \in Int
      BY <1>14, <2>1, <3>4
    <3>6. QED
      BY <1>11, <3>3, <3>5
  <2>3. CASE f1 < l /\ l <= f2
    <3> DEFINE x == s[l][1]
               e == s[l][2]
    <3>1. x \in Int /\ e \in {1, 0, -1}
      BY <1>8, <2>1
    <3>2. ~(x < lo \/ (x = lo /\ e >= 0)) /\ (x < hi \/ (x = hi /\ e >= 0))
      BY <1>9, <2>1, <2>3
    <3>3. CASE e >= 0
      <4>1. x - 1 >= lo /\ x <= hi
        BY <1>0, <3>1, <3>2, <3>3
      <4> DEFINE h == 2 * x - 1
      <4>2. h \in Int /\ h \in (2 * lo)..(2 * hi)
        BY <1>0, <3>1, <4>1
      <4>3. PICK f \in 0..n : Foremost(s, h, f)
        BY <4>2, FrontExists
      <4>4. ~Passed(s[l], h)
        BY <3>1 DEF Passed
      <4>5. l \in f..n
        BY <2>1, <4>3, <4>4 DEF Foremost
      <4>6. ASSUME NEW j \in (f + 1)..l PROVE s[j][2] >= 0
        <5>1. j \in 1..n /\ ~(j <= f) /\ j <= l
          BY <1>0, <2>1, <4>3
        <5>2. ~Passed(s[j], h) /\ (j = l \/ Before(s[j], s[l]))
          <6>1. j = l \/ j < l
            BY <2>1, <5>1
          <6>2. QED
            BY <2>1, <4>3, <5>1, <6>1 DEF Foremost, Sorted
        <5>3. s[j][1] \in Int /\ s[j][2] \in {1, 0, -1}
          BY <1>8, <5>1
        <5>4. s[j][1] >= x
          BY <3>1, <5>2, <5>3 DEF Passed
        <5>5. CASE j = l
          BY <3>3, <5>5
        <5>6. CASE Before(s[j], s[l])
          BY <3>1, <3>3, <5>3, <5>4, <5>6 DEF Before
        <5>7. QED
          BY <5>2, <5>5, <5>6
      <4>7. Opens(s, f) <= Opens(s, l)
        BY <4>3, <4>5, <4>6, OpensRise
      <4>8. Opens(s, f) = CoveringOf(t, h)
        BY <4>2, <4>3, FrontCovers
      <4>9. f \in Nat
        OBVIOUS
      <4>10. QED
        BY <1>1, <1>14, <2>1, <4>2, <4>7, <4>8, <4>9
    <3>4. CASE e < 0
      <4>1. x >= lo /\ x + 1 <= hi
        BY <1>0, <3>1, <3>2, <3>4
      <4> DEFINE h == 2 * x + 1
      <4>2. h \in Int /\ h \in (2 * lo)..(2 * hi)
        BY <1>0, <3>1, <4>1
      <4>3. PICK f \in 0..n : Foremost(s, h, f)
        BY <4>2, FrontExists
      <4>4. Passed(s[l], h)
        BY <3>1 DEF Passed
      <4>5. f \in l..n
        BY <2>1, <4>3, <4>4 DEF Foremost
      <4>6. ASSUME NEW j \in (l + 1)..f PROVE s[j][2] < 0
        <5>1. j \in 1..n /\ j <= f /\ l < j
          BY <1>0, <2>1, <4>3
        <5>2. Passed(s[j], h) /\ Before(s[l], s[j])
          BY <2>1, <4>3, <5>1 DEF Foremost, Sorted
        <5>3. s[j][1] \in Int /\ s[j][2] \in {1, 0, -1}
          BY <1>8, <5>1
        <5>4. s[j][1] <= x
          BY <3>1, <5>2, <5>3 DEF Passed
        <5>5. QED
          BY <3>1, <3>4, <5>2, <5>3, <5>4 DEF Before
      <4>7. Opens(s, f) <= Opens(s, l)
        BY <2>1, <4>5, <4>6, OpensFall
      <4>8. Opens(s, f) = CoveringOf(t, h)
        BY <4>2, <4>3, FrontCovers
      <4>9. f \in Nat
        OBVIOUS
      <4>10. QED
        BY <1>1, <1>14, <2>1, <4>2, <4>7, <4>8, <4>9
    <3>5. QED
      BY <3>1, <3>3, <3>4
  <2>4. CASE f2 < l
    <3>1. l \in (f2 + 1)..f3 /\ ~(b <= l)
      BY <1>13, <2>4
    <3>2. ~(Opens(s, l) < m)
      BY <1>12, <3>1
    <3>3. QED
      BY <1>14, <2>1, <3>2
  <2>5. f1 \in Int /\ f2 \in Int /\ l \in Int
    OBVIOUS
  <2>6. QED
    BY <2>2, <2>3, <2>4, <2>5
<1>18. s[b][2] = -1
  <2>1. b - 1 \in a..(b - 1)
    BY <1>13
  <2>2. Opens(s, b - 1) >= m
    BY <1>17, <2>1
  <2>3. QED
    BY <1>12, <1>13, <2>2, StretchEnds
<1>19. s[a][1] = lo
  BY <1>0, <1>8, <1>9, <1>13
<1>20. s[b][1] = hi
  BY <1>0, <1>8, <1>9, <1>13
<1>21. Mids(s, a, b) >= m
  <2>1. Mids(s, a, b) = MidpointsOf(t, s[a][1], s[b][1])
    BY <1>13, <1>16, <1>18, MidsAreBetween
  <2>2. QED
    BY <1>1, <1>19, <1>20, <2>1
<1>22. Qualifies(s, m, a, b)
  BY <1>12, <1>13, <1>15, <1>17, <1>21 DEF Qualifies, StretchStarts
<1>23. QED
  BY <1>13, <1>19, <1>20, <1>22 DEF lo, hi

\* A nonempty set of numbers in 1..n has a greatest element.
LEMMA GreatestOf ==
  ASSUME NEW n \in Nat, NEW S \in SUBSET (1..n), S # {}
  PROVE  \E k \in S : \A j \in S : j <= k
<1> DEFINE D == {n - k : k \in S}
<1>1. D \in SUBSET Nat /\ D # {}
  <2>1. \A k \in S : n - k \in Nat
    OBVIOUS
  <2>2. QED
    BY <2>1
<1> HIDE DEF D
<1>2. PICK d \in D : \A e \in D : d <= e
  BY <1>1, LeastNat
<1>3. PICK k \in S : d = n - k
  BY <1>2 DEF D
<1>4. ASSUME NEW j \in S PROVE j <= k
  <2>1. n - j \in D
    BY DEF D
  <2>2. n - k <= n - j /\ k \in Int /\ j \in Int
    BY <1>2, <1>3, <2>1
  <2>3. QED
    BY <2>2
<1>5. QED
  BY <1>4

\* The first stretch that qualifies is the interval of agreement that begins
\* lowest, and there is one exactly when some interval is agreed on.
LEMMA ScanAgrees ==
  ASSUME NEW t \in [Peers -> Estimate], NEW m \in Nat \ {0}
  PROVE  LET r == Scan(Endpoints(t), m)
         IN /\ r \in ScanState
            /\ r.found <=> AgreementsOf(t, m) # {}
            /\ r.found => /\ <<r.lo, r.hi>> \in AgreementsOf(t, m)
                          /\ \A p \in AgreementsOf(t, m) : r.lo <= p[1]
<1> DEFINE s == Endpoints(t)
           n == 3 * N
           r == Scan(s, m)
<1>1. Sorted(t, s)
  BY EndpointsSorted
<1>2. ScanInv(s, m, n, r)
  BY ScanFinds
<1> HIDE DEF s, r
<1>3. r \in ScanState /\ n \in Nat
  BY <1>1, <1>2, AtIs DEF ScanInv
<1>4. ASSUME r.found
      PROVE  /\ <<r.lo, r.hi>> \in AgreementsOf(t, m)
             /\ \A p \in AgreementsOf(t, m) : r.lo <= p[1]
  <2>1. PICK b \in 1..n : \E a \in 1..b : First(s, m, a, b) /\ r.lo = s[a][1] /\ r.hi = s[b][1]
    BY <1>2, <1>4 DEF ScanInv
  <2>2. PICK a \in 1..b : First(s, m, a, b) /\ r.lo = s[a][1] /\ r.hi = s[b][1]
    BY <2>1
  <2>3. Qualifies(s, m, a, b)
    BY <2>2 DEF First
  <2>4. <<r.lo, r.hi>> \in AgreementsOf(t, m)
    BY <1>1, <2>1, <2>2, <2>3, StretchAgrees
  <2>5. ASSUME NEW p \in AgreementsOf(t, m) PROVE r.lo <= p[1]
    <3>1. PICK d \in 1..n : \E c \in 1..d :
             Qualifies(s, m, c, d) /\ s[c][1] = p[1] /\ s[d][1] = p[2]
      BY <1>1, AgreementStretches
    <3>2. PICK c \in 1..d : Qualifies(s, m, c, d) /\ s[c][1] = p[1] /\ s[d][1] = p[2]
      BY <3>1
    <3>3. a \in 1..n /\ c \in 1..n /\ a \in Int /\ b \in Int /\ c \in Int /\ d \in Int
      BY <1>3
    <3>4. ~(d < b)
      <4>1. ASSUME d < b PROVE FALSE
        <5>1. d \in 1..(b - 1)
          BY <3>3, <4>1
        <5>2. QED
          BY <2>2, <3>2, <5>1 DEF First
      <4>2. QED
        BY <4>1
    <3>5. ~(c < a)
      <4>1. ASSUME c < a PROVE FALSE
        <5>1. a - 1 \in c..(d - 1)
          BY <2>3, <3>3, <3>4, <4>1
        <5>2. Opens(s, a - 1) < m
          BY <2>3 DEF Qualifies, StretchStarts
        <5>3. Opens(s, a - 1) >= m
          BY <3>2, <5>1 DEF Qualifies, StretchStarts
        <5>4. Opens(s, a - 1) \in Nat
          BY CountTypes
        <5>5. QED
          BY <5>2, <5>3, <5>4
      <4>2. QED
        BY <4>1
    <3>6. a = c \/ a < c
      BY <3>3, <3>5
    <3>7. s[a][1] \in Int /\ s[c][1] \in Int
      BY <1>1, <3>3, AtIs
    <3>8. CASE a = c
      BY <2>2, <3>2, <3>7, <3>8
    <3>9. CASE a < c
      <4>1. Before(s[a], s[c])
        BY <1>1, <3>3, <3>9 DEF Sorted
      <4>2. s[a][1] <= s[c][1]
        BY <3>7, <4>1 DEF Before
      <4>3. QED
        BY <2>2, <3>2, <4>2
    <3>10. QED
      BY <3>6, <3>8, <3>9
  <2>6. QED
    BY <2>4, <2>5
<1>5. ASSUME ~r.found, NEW p \in AgreementsOf(t, m) PROVE FALSE
  <2>1. PICK d \in 1..n : \E c \in 1..d : Qualifies(s, m, c, d)
    BY <1>1, AgreementStretches
  <2>2. \A e \in 1..n : \A c \in 1..e : ~Qualifies(s, m, c, e)
    BY <1>2, <1>5 DEF ScanInv
  <2>3. QED
    BY <2>1, <2>2
<1>6. QED
  BY <1>3, <1>4, <1>5 DEF s, r

\* One server agrees with itself.
LEMMA OneAgrees ==
  ASSUME NEW t \in [Peers -> Estimate]
  PROVE  AgreementsOf(t, 1) # {}
<1> DEFINE s == Endpoints(t)
           n == 3 * N
           D == {k \in 2..n : Opens(s, k) < 1}
<1>1. Sorted(t, s)
  BY EndpointsSorted
<1> HIDE DEF s
<1>2. n \in Nat /\ n >= 3 /\ 1 \in 1..n /\ n \in 1..n /\ 1 \in Nat \ {0}
  BY PeersFinite
<1>3. \A c \in Kinds, i \in Peers : At(s, c, i) \in 1..n
  BY <1>1, AtIs
<1>4. 1 \in Kinds /\ 0 \in Kinds /\ -1 \in Kinds
  BY DEF Kinds
<1>5. Opens(s, 0) = 0
  <2>1. ASSUME NEW i \in Peers PROVE ~(At(s, 1, i) <= 0)
    BY <1>2, <1>3, <1>4
  <2>2. OpenAt(s, 0) = {}
    BY <2>1 DEF OpenAt
  <2>3. QED
    BY <2>2, FS_EmptySet DEF Opens
<1>6. Opens(s, n) = 0
  <2>1. ASSUME NEW i \in Peers PROVE ~(n < At(s, -1, i))
    BY <1>2, <1>3, <1>4
  <2>2. OpenAt(s, n) = {}
    BY <2>1 DEF OpenAt
  <2>3. QED
    BY <2>2, FS_EmptySet DEF Opens
<1>7. s[1][2] = 1 /\ s[1][3] \in Peers /\ At(s, 1, s[1][3]) = 1
  <2> DEFINE c == s[1][2]
             i == s[1][3]
  <2>1. c \in Kinds /\ i \in Peers /\ At(s, c, i) = 1
    BY <1>1, <1>2, AtIs
  <2>2. At(s, 1, i) < At(s, 0, i) /\ At(s, 0, i) < At(s, -1, i)
    BY <1>1, <2>1, AtIs
  <2>3. At(s, 1, i) \in Int /\ At(s, 1, i) >= 1 /\ At(s, 0, i) \in Int /\ At(s, -1, i) \in Int
    BY <1>2, <1>3, <1>4, <2>1
  <2> HIDE DEF c, i
  <2>4. c = 1 \/ c = 0 \/ c = -1
    BY <2>1 DEF Kinds
  <2>5. c # 0 /\ c # -1
    BY <2>1, <2>2, <2>3
  <2>6. c = 1
    BY <2>4, <2>5
  <2>7. QED
    BY <2>1, <2>6 DEF c, i
<1>8. Opens(s, 1) = 1
  <2>1. Opens(s, 1) = Opens(s, 1 - 1) + s[1][2]
    BY <1>1, <1>2, OpensStep
  <2>2. 1 - 1 = 0
    OBVIOUS
  <2>3. QED
    BY <1>5, <1>7, <2>1, <2>2
<1>9. PICK b \in D : \A k \in D : b <= k
  <2>1. n \in D
    BY <1>2, <1>6
  <2>2. D \in SUBSET Nat /\ D # {}
    BY <2>1
  <2> HIDE DEF D
  <2>3. QED
    BY <2>2, LeastNat
<1>10. b \in 2..n /\ b \in 1..n /\ 1 \in 1..b /\ 1 < b /\ Opens(s, b) < 1
  BY <1>2, <1>9
<1>11. StretchStarts(s, 1, 1, b - 1)
  <2>1. ASSUME NEW l \in 1..(b - 1) PROVE Opens(s, l) >= 1
    <3>1. CASE l = 1
      BY <1>8, <3>1
    <3>2. CASE l # 1
      <4>1. l \in 2..n /\ ~(b <= l)
        <5>1. l \in Int /\ b \in Int /\ n \in Int /\ l >= 2 /\ l <= b - 1 /\ b <= n
          BY <1>2, <1>10, <3>2
        <5> HIDE DEF n
        <5>2. QED
          BY <5>1
      <4>2. ~(Opens(s, l) < 1)
        BY <1>9, <4>1
      <4>3. Opens(s, l) \in Nat
        BY CountTypes
      <4>4. QED
        BY <4>2, <4>3
    <3>3. QED
      BY <3>1, <3>2
  <2>2. Opens(s, 1 - 1) < 1
    BY <1>5
  <2>3. QED
    BY <2>1, <2>2 DEF StretchStarts
<1>12. Mids(s, 1, b) >= 1
  <2> DEFINE i == s[1][3]
             M == MidsIn(s, 1, b)
  <2>1. OpenAt(s, b) = {}
    <3>1. Opens(s, b) = 0
      <4>1. Opens(s, b) \in Nat
        BY CountTypes
      <4>2. QED
        BY <1>10, <4>1
    <3>2. IsFiniteSet(OpenAt(s, b))
      <4>1. OpenAt(s, b) \in SUBSET Peers
        BY DEF OpenAt
      <4>2. QED
        BY <4>1, PeersFinite
    <3>3. QED
      BY <3>1, <3>2, FS_EmptySet DEF Opens
  <2>2. i \in Peers /\ At(s, 1, i) = 1
    BY <1>7
  <2>3. At(s, 1, i) < At(s, 0, i) /\ At(s, 0, i) < At(s, -1, i)
    BY <1>1, <2>2, AtIs
  <2>4. At(s, 0, i) \in Int /\ At(s, -1, i) \in Int
    BY <1>2, <1>3, <1>4, <2>2
  <2>5. ~(b < At(s, -1, i))
    BY <1>10, <2>1, <2>2 DEF OpenAt
  <2>6. i \in M
    BY <1>10, <2>2, <2>3, <2>4, <2>5 DEF MidsIn
  <2>7. M \in SUBSET Peers
    BY DEF MidsIn
  <2> HIDE DEF M, i
  <2>8. IsFiniteSet(M) /\ Cardinality(M) \in Nat
    BY <2>7, PeersFinite
  <2>9. Cardinality(M) # 0
    BY <2>6, <2>8, FS_EmptySet
  <2>10. Cardinality(M) >= 1
    BY <2>8, <2>9
  <2>11. QED
    BY <2>10 DEF Mids, M
<1>13. Qualifies(s, 1, 1, b)
  BY <1>10, <1>11, <1>12 DEF Qualifies
<1>14. QED
  BY <1>1, <1>2, <1>10, <1>13, StretchAgrees

\* The intersection is the lowest interval on which as many servers agree as
\* agree on any.
LEMMA IntersectionFinds ==
  ASSUME NEW t \in [Peers -> Estimate]
  PROVE  LET k == Intersection(t)
         IN /\ k \in [lo : Int, hi : Int, votes : Peers]
            /\ <<k.lo, k.hi>> \in AgreementsOf(t, k.votes)
            /\ \A p \in AgreementsOf(t, k.votes) : k.lo <= p[1]
            /\ \A j \in Peers : AgreementsOf(t, j) # {} => j <= k.votes
<1> DEFINE s == Endpoints(t)
           k == Intersection(t)
           P(m) == Scan(s, m).found /\ \A j \in (m + 1)..N : ~Scan(s, j).found
           Q(m) == AgreementsOf(t, m) # {} /\ \A j \in Peers : AgreementsOf(t, j) # {} => j <= m
<1>1. ASSUME NEW j \in Peers
      PROVE  /\ Scan(s, j).found <=> AgreementsOf(t, j) # {}
             /\ Scan(s, j) \in ScanState
             /\ Scan(s, j).found => /\ <<Scan(s, j).lo, Scan(s, j).hi>> \in AgreementsOf(t, j)
                                    /\ \A p \in AgreementsOf(t, j) : Scan(s, j).lo <= p[1]
  <2>1. j \in Nat \ {0}
    BY PeersFinite DEF Peers
  <2>2. QED
    BY <2>1, ScanAgrees
<1>2. N \in Nat \ {0} /\ Peers = 1..N
  BY PeersFinite DEF Peers
<1> HIDE DEF s
<1>3. ASSUME NEW m \in Peers PROVE P(m) <=> Q(m)
  <2>1. (\A j \in (m + 1)..N : ~Scan(s, j).found)
          <=> \A j \in Peers : AgreementsOf(t, j) # {} => j <= m
    <3>1. ASSUME NEW j \in Peers, j \notin (m + 1)..N PROVE j <= m
      BY <1>2, <3>1
    <3>2. ASSUME NEW j \in (m + 1)..N PROVE j \in Peers /\ ~(j <= m)
      BY <1>2
    <3>3. QED
      BY <1>1, <3>1, <3>2
  <2>2. QED
    BY <1>1, <2>1
<1>4. \E m \in Peers : P(m)
  <2> DEFINE D == {m \in Peers : AgreementsOf(t, m) # {}}
  <2>1. D \in SUBSET (1..N) /\ D # {}
    BY <1>2, OneAgrees
  <2> HIDE DEF D
  <2>2. PICK m \in D : \A j \in D : j <= m
    BY <1>2, <2>1, GreatestOf
  <2>3. m \in Peers /\ Q(m)
    BY <2>2 DEF D
  <2> HIDE DEF P, Q
  <2>4. QED
    BY <1>3, <2>3
<1> DEFINE m == CHOOSE j \in Peers : P(j)
<1>5. m \in Peers /\ P(m)
  <2> HIDE DEF P
  <2> QED BY <1>4
<1>6. k = [lo |-> Scan(s, m).lo, hi |-> Scan(s, m).hi, votes |-> m]
  BY DEF Intersection, s
<1> HIDE DEF m, k
<1>7. Q(m) /\ Scan(s, m).found
  <2>1. Scan(s, m).found
    BY <1>5
  <2> HIDE DEF P, Q
  <2>2. QED
    BY <1>3, <1>5, <2>1
<1>8. Scan(s, m).lo \in Int /\ Scan(s, m).hi \in Int
  BY <1>1, <1>5 DEF ScanState
<1>9. k.lo = Scan(s, m).lo /\ k.hi = Scan(s, m).hi /\ k.votes = m
      /\ k \in [lo : Int, hi : Int, votes : Peers]
  BY <1>5, <1>6, <1>8
<1>10. /\ <<k.lo, k.hi>> \in AgreementsOf(t, k.votes)
       /\ \A p \in AgreementsOf(t, k.votes) : k.lo <= p[1]
  BY <1>1, <1>5, <1>7, <1>9
<1>11. \A j \in Peers : AgreementsOf(t, j) # {} => j <= k.votes
  BY <1>7, <1>9
<1>12. QED
  BY <1>9, <1>10, <1>11 DEF k

------------------------------------------------------------------------------
(* What a selection leaves behind.                                         *)

\* Marking changes no offset and no distance, and a peer without a mark is
\* reachable and overlaps the agreed interval.
LEMMA MarkedIs ==
  ASSUME NEW t \in [Peers -> Estimate], NEW k
  PROVE  /\ Marked(t, k) \in [Peers -> Estimate]
         /\ \A m : AgreementsOf(Marked(t, k), m) = AgreementsOf(t, m)
         /\ Candidates(Marked(t, k)) =
              {i \in Peers : Marked(t, k)[i].reach /\ Overlaps(Marked(t, k)[i], k)}
<1> DEFINE u == Marked(t, k)
<1>1. ASSUME NEW i \in Peers
      PROVE  /\ u[i] \in Estimate
             /\ u[i].offset = t[i].offset /\ Lower(u[i]) = Lower(t[i]) /\ Upper(u[i]) = Upper(t[i])
             /\ u[i].flash = {} <=> u[i].reach /\ Overlaps(u[i], k)
  <2> DEFINE F == Flash(t[i], k)
  <2>1. F \in SUBSET {"TEST5", "TEST9"}
    BY DEF Flash
  <2>2. F = {} <=> t[i].reach /\ Overlaps(t[i], k)
    BY DEF Flash
  <2>3. u[i] = [t[i] EXCEPT !.flash = F] /\ t[i] \in Estimate
    BY DEF Marked
  <2> HIDE DEF F, u
  <2>4. /\ u[i] \in Estimate /\ u[i].offset = t[i].offset /\ u[i].dist = t[i].dist
        /\ u[i].reach = t[i].reach /\ u[i].flash = F
    BY <2>1, <2>3 DEF Estimate
  <2>5. Lower(u[i]) = Lower(t[i]) /\ Upper(u[i]) = Upper(t[i])
    BY <2>4 DEF Lower, Upper
  <2>6. Overlaps(u[i], k) <=> Overlaps(t[i], k)
    BY <2>5 DEF Overlaps
  <2>7. QED
    BY <2>2, <2>4, <2>5, <2>6
<1>2. u = [i \in Peers |-> u[i]]
  BY DEF Marked
<1> HIDE DEF u
<1>3. u \in [Peers -> Estimate]
  BY <1>1, <1>2
<1>4. \A h : CoveringOf(u, h) = CoveringOf(t, h)
  <2>1. ASSUME NEW h PROVE CoverOf(u, h) = CoverOf(t, h)
    BY <1>1 DEF CoverOf
  <2>2. QED
    BY <2>1 DEF CoveringOf
<1>5. \A lo, hi : MidpointsOf(u, lo, hi) = MidpointsOf(t, lo, hi)
  <2>1. ASSUME NEW lo, NEW hi
        PROVE  {i \in Peers : u[i].offset \in lo..hi} = {i \in Peers : t[i].offset \in lo..hi}
    BY <1>1
  <2>2. QED
    BY <2>1 DEF MidpointsOf
<1>6. ASSUME NEW m PROVE AgreementsOf(u, m) = AgreementsOf(t, m)
  <2> DEFINE X == {Lower(u[i]) : i \in Peers} \X {Upper(u[i]) : i \in Peers}
             Y == {Lower(t[i]) : i \in Peers} \X {Upper(t[i]) : i \in Peers}
  <2>1. X = Y
    BY <1>1
  <2> DEFINE P(a) == /\ a[1] <= a[2]
                     /\ \A h \in (2 * a[1])..(2 * a[2]) : CoveringOf(t, h) >= m
                     /\ CoveringOf(t, 2 * a[1] - 1) < m /\ CoveringOf(t, 2 * a[2] + 1) < m
                     /\ MidpointsOf(t, a[1], a[2]) >= m
             Q(a) == /\ a[1] <= a[2]
                     /\ \A h \in (2 * a[1])..(2 * a[2]) : CoveringOf(u, h) >= m
                     /\ CoveringOf(u, 2 * a[1] - 1) < m /\ CoveringOf(u, 2 * a[2] + 1) < m
                     /\ MidpointsOf(u, a[1], a[2]) >= m
  <2>2. \A a : P(a) <=> Q(a)
    BY <1>4, <1>5
  <2>3. AgreementsOf(t, m) = {a \in Y : P(a)} /\ AgreementsOf(u, m) = {a \in X : Q(a)}
    BY DEF AgreementsOf
  <2> HIDE DEF P, Q, X, Y
  <2>4. QED
    BY <2>1, <2>2, <2>3
<1>7. Candidates(u) = {i \in Peers : u[i].reach /\ Overlaps(u[i], k)}
  BY <1>1 DEF Candidates
<1>8. QED
  BY <1>3, <1>6, <1>7 DEF u

\* The least of a nonempty set of naturals is in it.
LEMMA MinIn ==
  ASSUME NEW S \in SUBSET Nat, S # {}
  PROVE  Min(S) \in S
<1>1. \E x \in S : \A y \in S : x <= y
  BY LeastNat
<1>2. QED
  BY <1>1 DEF Min

\* The system variables that a selection over marked peers sets.
LEMMA SystemForIs ==
  ASSUME NEW t \in [Peers -> Estimate], NEW k, k.lo \in Int, k.hi \in Int
  PROVE  LET u == Marked(t, k)
             y == SystemFor(u)
         IN /\ y.survivors = Cluster(u) /\ y.survivors \in SUBSET Candidates(u)
            /\ y.survivors = {} => Candidates(u) = {} /\ y = Nobody
            /\ y.survivors # {} =>
                 LET margin == Cardinality(y.survivors) * ProductOfDists(u, y.survivors)
                 IN /\ y.peer \in y.survivors
                    /\ y.sum \in Int /\ y.weight \in Nat \ {0}
                    /\ y.sum <= k.hi * y.weight + margin
                    /\ y.sum >= k.lo * y.weight - margin
<1> DEFINE u == Marked(t, k)
           y == SystemFor(u)
           s == Cluster(u)
           c == Combined(u, s)
<1>1. u \in [Peers -> Estimate]
  BY MarkedIs
<1>2. Candidates(u) = {i \in Peers : u[i].reach /\ Overlaps(u[i], k)}
  BY MarkedIs
<1> HIDE DEF u
<1>3. s \in SUBSET Candidates(u) /\ (Candidates(u) # {} => s # {})
  BY <1>1, ClusterKeeps DEF KeepsTheBest
<1>4. y = IF s = {} THEN Nobody
          ELSE [peer |-> Min(s), survivors |-> s, sum |-> c.sum, weight |-> c.weight]
  BY DEF SystemFor
<1> HIDE DEF y, s, c
<1>5. CASE s = {}
  <2>1. y = Nobody /\ y.survivors = {}
    BY <1>4, <1>5 DEF Nobody
  <2>2. QED
    BY <1>3, <1>5, <2>1 DEF u, y, s
<1>6. CASE s # {}
  <2>1. y.peer = Min(s) /\ y.survivors = s /\ y.sum = c.sum /\ y.weight = c.weight
    BY <1>4, <1>6
  <2>2. s \in SUBSET Peers /\ s \in SUBSET Nat
    BY <1>2, <1>3, PeersFinite DEF Peers
  <2>3. Min(s) \in s
    BY <1>6, <2>2, MinIn
  <2>4. \A i \in s : Upper(u[i]) >= k.lo /\ Lower(u[i]) <= k.hi
    BY <1>2, <1>3 DEF Overlaps
  <2> DEFINE margin == Cardinality(s) * ProductOfDists(u, s)
  <2>5. /\ c.sum \in Int /\ c.weight \in Nat \ {0}
        /\ c.sum <= k.hi * c.weight + margin
        /\ c.sum >= k.lo * c.weight - margin
    BY <1>1, <1>6, <2>2, <2>4, CombinedNear DEF c
  <2>6. QED
    BY <1>3, <1>6, <2>1, <2>3, <2>5, Zenon DEF u, y, s
<1>7. QED
  BY <1>5, <1>6

\* The inductive invariant: what a selection found, while nothing has changed.
Believed == \E t \in [Peers -> Estimate] : /\ agreed = Intersection(t)
                                           /\ peers = Marked(t, agreed)
                                           /\ system = SystemFor(peers)
SelectIInv == SelectTypeOK /\ (Selected => Believed)

\* The invariant holds from the start, before any selection, and every action keeps it.
LEMMA SelectInvariant == SelectSpec => []SelectIInv
<1>0. MaxChanges \in Nat /\ MinClock \in Nat \ {0} /\ Offsets \subseteq Int
      /\ Dists \subseteq Nat \ {0} /\ MaxDist \in Nat \ {0}
  BY SelectAssumption
<1>1. SelectInit => SelectIInv
  <2> SUFFICES ASSUME SelectInit PROVE SelectIInv
    OBVIOUS
  <2>1. ~Selected
    BY DEF SelectInit, Selected
  <2>2. peers \in [Peers -> [offset : Int, dist : Nat \ {0}, reach : BOOLEAN,
                             flash : SUBSET {"TEST5", "TEST9"}]]
    BY <1>0 DEF SelectInit
  <2>3. /\ system.peer \in 0..N /\ system.survivors \subseteq Peers
        /\ Cardinality(system.survivors) <= MinClock
        /\ system.sum \in Int /\ system.weight \in Nat \ {0}
    <3>1. system.peer = 0 /\ system.survivors = {} /\ system.sum = 0 /\ system.weight = 1
      BY DEF SelectInit, Nobody
    <3>2. 0 \in 0..N /\ Cardinality({}) <= MinClock
      BY <1>0, PeersFinite, FS_EmptySet
    <3>3. QED
      BY <3>1, <3>2
  <2>4. agreed.lo \in Int /\ agreed.hi \in Int /\ agreed.votes \in 0..N /\ changes \in 0..MaxChanges
    BY <1>0, PeersFinite DEF SelectInit
  <2>5. QED
    BY <2>1, <2>2, <2>3, <2>4 DEF SelectIInv, SelectTypeOK
<1>2. SelectIInv /\ [SelectNext]_selectVars => SelectIInv'
  <2> SUFFICES ASSUME SelectIInv, [SelectNext]_selectVars PROVE SelectIInv'
    OBVIOUS
  <2>1. SelectTypeOK /\ peers \in [Peers -> Estimate]
    BY DEF SelectIInv, SelectTypeOK, Estimate
  <2>2. ASSUME NEW i \in Peers, NEW o \in Offsets, NEW d \in Dists, NewEstimate(i, o, d)
        PROVE  SelectIInv'
    <3>1. changes' = changes + 1 /\ changes' \in 0..MaxChanges /\ changes' # 0
      BY <1>0, <2>1, <2>2 DEF NewEstimate, SelectTypeOK
    <3>2. peers' \in [Peers -> Estimate]
      <4>1. peers' = [peers EXCEPT ![i] = [[[@ EXCEPT !.offset = o] EXCEPT !.dist = d] EXCEPT !.reach = TRUE]]
        BY <2>2 DEF NewEstimate
      <4> DEFINE r == [[[peers[i] EXCEPT !.offset = o] EXCEPT !.dist = d] EXCEPT !.reach = TRUE]
      <4>2. r \in Estimate
        BY <1>0, <2>1 DEF Estimate
      <4>3. peers' = [peers EXCEPT ![i] = r]
        BY <4>1
      <4> HIDE DEF r
      <4>4. QED
        BY <2>1, <4>2, <4>3
    <3>3. QED
      BY <2>1, <2>2, <3>1, <3>2 DEF SelectIInv, SelectTypeOK, Selected, NewEstimate, Estimate
  <2>3. ASSUME NEW i \in Peers, FallSilent(i) PROVE SelectIInv'
    <3>1. changes' = changes + 1 /\ changes' \in 0..MaxChanges /\ changes' # 0
      BY <1>0, <2>1, <2>3 DEF FallSilent, SelectTypeOK
    <3>2. peers' \in [Peers -> Estimate]
      <4> DEFINE r == [peers[i] EXCEPT !.reach = FALSE]
      <4>1. r \in Estimate
        BY <2>1 DEF Estimate
      <4>2. peers' = [peers EXCEPT ![i] = r]
        BY <2>3 DEF FallSilent
      <4> HIDE DEF r
      <4>3. QED
        BY <2>1, <4>1, <4>2
    <3>3. QED
      BY <2>1, <2>3, <3>1, <3>2 DEF SelectIInv, SelectTypeOK, Selected, FallSilent, Estimate
  <2>4. CASE Select
    <3> DEFINE k == Intersection(peers)
               u == Marked(peers, k)
               y == SystemFor(u)
    <3>1. peers' = u /\ system' = y /\ agreed' = k /\ changes' = 0
      BY <2>4 DEF Select
    <3>2. k \in [lo : Int, hi : Int, votes : Peers]
      BY <2>1, IntersectionFinds
    <3>3. u \in [Peers -> Estimate]
      BY <2>1, MarkedIs
    <3>4. Believed'
      BY <2>1, <3>1 DEF Believed
    <3>5. k.lo \in Int /\ k.hi \in Int /\ k.votes \in 0..N
      BY <3>2, PeersFinite DEF Peers
    <3>6. /\ y.peer \in 0..N /\ y.survivors \subseteq Peers /\ Cardinality(y.survivors) <= MinClock
          /\ y.sum \in Int /\ y.weight \in Nat \ {0}
      <4>1. /\ y.survivors = Cluster(u) /\ y.survivors \in SUBSET Candidates(u)
            /\ y.survivors = {} => y = Nobody
            /\ y.survivors # {} => /\ y.peer \in y.survivors
                                   /\ y.sum \in Int /\ y.weight \in Nat \ {0}
        BY <2>1, <3>5, SystemForIs
      <4>2. Cardinality(Cluster(u)) <= MinClock
        BY <3>3, ClusterKeeps
      <4>3. Candidates(u) \in SUBSET Peers
        BY DEF Candidates
      <4>4. Nobody.peer = 0 /\ Nobody.sum = 0 /\ Nobody.weight = 1
        BY DEF Nobody
      <4> HIDE DEF y, u, k
      <4>5. y.survivors \in SUBSET Peers /\ Cardinality(y.survivors) <= MinClock
        BY <4>1, <4>2, <4>3
      <4>6. CASE y.survivors = {}
        <5>1. y.peer = 0 /\ y.sum = 0 /\ y.weight = 1
          BY <4>1, <4>4, <4>6
        <5>2. QED
          BY <4>5, <5>1, PeersFinite
      <4>7. CASE y.survivors # {}
        <5>1. y.peer \in Peers
          BY <4>1, <4>5, <4>7
        <5>2. y.peer \in 0..N
          BY <5>1, PeersFinite DEF Peers
        <5>3. QED
          BY <4>1, <4>5, <4>7, <5>2
      <4>8. QED
        BY <4>6, <4>7
    <3> HIDE DEF k, u, y
    <3>7. changes' \in 0..MaxChanges
      BY <1>0, <3>1
    <3>8. SelectTypeOK'
      BY <3>1, <3>3, <3>5, <3>6, <3>7 DEF SelectTypeOK, Estimate
    <3>9. QED
      BY <3>4, <3>8 DEF SelectIInv
  <2>5. CASE UNCHANGED selectVars
    BY <2>5 DEF selectVars, SelectIInv, SelectTypeOK, Selected, Believed
  <2>6. QED
    BY <2>2, <2>3, <2>4, <2>5 DEF SelectNext
<1>3. QED
  BY <1>1, <1>2, PTL DEF SelectSpec

\* The greatest and the least of a set of integers, when there is one.
LEMMA MaxIs ==
  ASSUME NEW S \in SUBSET Int, NEW v \in S, \A y \in S : v >= y
  PROVE  v = Max(S)
<1> DEFINE x == CHOOSE z \in S : \A y \in S : z >= y
<1>1. x \in S /\ \A y \in S : x >= y
  OBVIOUS
<1>2. x = Max(S)
  BY DEF Max
<1> HIDE DEF x
<1>3. x >= v /\ v >= x /\ x \in Int /\ v \in Int
  BY <1>1
<1>4. x = v
  BY <1>3
<1>5. QED
  BY <1>2, <1>4

\* The same for the least.
LEMMA MinIs ==
  ASSUME NEW S \in SUBSET Int, NEW v \in S, \A y \in S : v <= y
  PROVE  v = Min(S)
<1> DEFINE x == CHOOSE z \in S : \A y \in S : z <= y
<1>1. x \in S /\ \A y \in S : x <= y
  OBVIOUS
<1>2. x = Min(S)
  BY DEF Min
<1> HIDE DEF x
<1>3. x <= v /\ v <= x /\ x \in Int /\ v \in Int
  BY <1>1
<1>4. x = v
  BY <1>3
<1>5. QED
  BY <1>2, <1>4

\* Every value the selection keeps is of its type, and no more servers survive
\* than clustering keeps.
THEOREM SelectTypes == SelectSpec => []SelectTypeOK
<1>1. SelectIInv => SelectTypeOK
  BY DEF SelectIInv
<1>2. QED
  BY <1>1, SelectInvariant, PTL

\* The scan over the sorted endpoints finds the lowest interval on which as
\* many servers agree as can be made to, for every table of every size.
THEOREM SelectionFindsTheInterval == SelectSpec => []FindsReference
<1>1. SelectIInv => FindsReference
  <2> SUFFICES ASSUME SelectIInv, Selected
               PROVE  LET best == Max({m \in Peers : Agreements(m) # {}})
                          low  == Min({a[1] : a \in Agreements(best)})
                      IN /\ agreed.votes = best
                         /\ agreed.lo = low /\ <<low, agreed.hi>> \in Agreements(best)
    BY DEF FindsReference
  <2>1. PICK t \in [Peers -> Estimate] : agreed = Intersection(t) /\ peers = Marked(t, agreed)
    BY DEF SelectIInv, Believed
  <2>2. ASSUME NEW m PROVE Agreements(m) = AgreementsOf(t, m)
    <3>1. Agreements(m) = AgreementsOf(peers, m)
      BY DEF Agreements, AgreementsOf, Covering, CoveringOf, CoverOf, Midpoints, MidpointsOf
    <3>2. AgreementsOf(peers, m) = AgreementsOf(t, m)
      BY <2>1, MarkedIs
    <3>3. QED
      BY <3>1, <3>2
  <2> DEFINE v == agreed.votes
             D == {m \in Peers : Agreements(m) # {}}
             L == {a[1] : a \in Agreements(v)}
  <2>3. /\ v \in Peers /\ agreed.lo \in Int
        /\ <<agreed.lo, agreed.hi>> \in Agreements(v)
        /\ \A p \in Agreements(v) : agreed.lo <= p[1]
        /\ \A j \in D : j <= v
    <3>1. /\ agreed \in [lo : Int, hi : Int, votes : Peers]
          /\ <<agreed.lo, agreed.hi>> \in AgreementsOf(t, v)
          /\ \A p \in AgreementsOf(t, v) : agreed.lo <= p[1]
          /\ \A j \in Peers : AgreementsOf(t, j) # {} => j <= v
      BY <2>1, IntersectionFinds
    <3>2. QED
      BY <2>2, <3>1
  <2>4. D \in SUBSET Int /\ v \in D
    BY <2>3 DEF Peers
  <2>5. v = Max(D)
    <3>1. \A y \in D : v >= y
      BY <2>3, <2>4
    <3> HIDE DEF D, v
    <3>2. QED
      BY <2>4, <3>1, MaxIs
  <2>6. L \in SUBSET Int /\ agreed.lo \in L /\ \A y \in L : agreed.lo <= y
    <3>1. \A p \in Agreements(v) : p[1] \in Int
      <4>1. ASSUME NEW i \in Peers PROVE Lower(t[i]) \in Int
        <5>1. t[i].offset \in Int /\ t[i].dist \in Nat
          BY DEF Estimate
        <5>2. QED
          BY <5>1 DEF Lower
      <4>2. \A p \in AgreementsOf(t, v) : p[1] \in {Lower(t[i]) : i \in Peers}
        BY DEF AgreementsOf
      <4>3. QED
        BY <2>2, <4>1, <4>2
    <3>2. <<agreed.lo, agreed.hi>>[1] = agreed.lo
      OBVIOUS
    <3>3. QED
      BY <2>3, <3>1, <3>2
  <2>7. agreed.lo = Min(L)
    <3> HIDE DEF L
    <3>1. QED
      BY <2>6, MinIs
  <2>8. QED
    BY <2>3, <2>5, <2>7
<1>2. QED
  BY <1>1, SelectInvariant, PTL

\* After a selection the daemon follows reachable servers that overlap the
\* agreed interval, and somebody whenever there is one.
THEOREM SelectionSyncs == SelectSpec => []SyncsWithTheBelieved
<1>1. SelectIInv => SyncsWithTheBelieved
  <2> SUFFICES ASSUME SelectIInv, Selected
               PROVE  LET believed == {i \in Peers : peers[i].reach /\ Overlaps(peers[i], agreed)}
                      IN /\ system.survivors \subseteq believed
                         /\ (system.survivors = {}) <=> (believed = {})
                         /\ (system.peer = 0) <=> (believed = {})
                         /\ system.peer # 0 => system.peer \in system.survivors
    BY DEF SyncsWithTheBelieved
  <2>1. PICK t \in [Peers -> Estimate] :
           agreed = Intersection(t) /\ peers = Marked(t, agreed) /\ system = SystemFor(peers)
    BY DEF SelectIInv, Believed
  <2>2. agreed.lo \in Int /\ agreed.hi \in Int
    BY DEF SelectIInv, SelectTypeOK
  <2> DEFINE believed == {i \in Peers : peers[i].reach /\ Overlaps(peers[i], agreed)}
  <2>3. Candidates(peers) = believed
    BY <2>1, MarkedIs
  <2>4. /\ system.survivors \in SUBSET believed
        /\ system.survivors = {} => believed = {} /\ system = Nobody
        /\ system.survivors # {} => system.peer \in system.survivors
    BY <2>1, <2>2, <2>3, SystemForIs
  <2>5. \A i \in believed : i # 0
    BY DEF Peers
  <2>6. Nobody.peer = 0
    BY DEF Nobody
  <2> HIDE DEF believed
  <2>7. QED
    BY <2>4, <2>5, <2>6 DEF believed
<1>2. QED
  BY <1>1, SelectInvariant, PTL

\* Clustering drops no server that agrees better with the candidates than one
\* it keeps.
THEOREM ClusteringDropsTheWorst == SelectSpec => []DroppedAreWorst
<1>1. SelectIInv => DroppedAreWorst
  <2> SUFFICES ASSUME SelectIInv, Selected,
                      NEW i \in system.survivors,
                      NEW j \in Candidates(peers) \ system.survivors
               PROVE  JitterOf(peers, Candidates(peers), i) <= JitterOf(peers, Candidates(peers), j)
    BY DEF DroppedAreWorst
  <2>1. PICK t \in [Peers -> Estimate] :
           agreed = Intersection(t) /\ peers = Marked(t, agreed) /\ system = SystemFor(peers)
    BY DEF SelectIInv, Believed
  <2>2. agreed.lo \in Int /\ agreed.hi \in Int /\ peers \in [Peers -> Estimate]
    BY DEF SelectIInv, SelectTypeOK, Estimate
  <2>3. system.survivors = Cluster(peers)
    BY <2>1, <2>2, SystemForIs
  <2>4. KeepsTheBest(peers, Candidates(peers), Candidates(peers), Cluster(peers))
    BY <2>2, ClusterKeeps
  <2>5. QED
    BY <2>3, <2>4 DEF KeepsTheBest
<1>2. QED
  BY <1>1, SelectInvariant, PTL

\* The combined offset is no further from the agreed interval than the harmonic
\* mean of the survivors' distances.
THEOREM CombiningStaysNear == SelectSpec => []CombinedNearAgreement
<1>1. SelectIInv => CombinedNearAgreement
  <2> SUFFICES ASSUME SelectIInv, Selected, system.peer # 0
               PROVE  LET margin == Cardinality(system.survivors) * ProductOfDists(peers, system.survivors)
                      IN /\ system.sum <= agreed.hi * system.weight + margin
                         /\ system.sum >= agreed.lo * system.weight - margin
    BY DEF CombinedNearAgreement
  <2>1. PICK t \in [Peers -> Estimate] :
           agreed = Intersection(t) /\ peers = Marked(t, agreed) /\ system = SystemFor(peers)
    BY DEF SelectIInv, Believed
  <2>2. agreed.lo \in Int /\ agreed.hi \in Int
    BY DEF SelectIInv, SelectTypeOK
  <2>3. system.survivors # {}
    BY <2>1, <2>2, SystemForIs DEF Nobody
  <2>4. QED
    BY <2>1, <2>2, <2>3, SystemForIs
<1>2. QED
  BY <1>1, SelectInvariant, PTL

------------------------------------------------------------------------------
(* The clock discipline: the inductive invariant. *)

\* What was asked or measured since the clock last moved saw the error as it
\* still is; offsets are in half units.
FreshInv == /\ \A q \in flight : q.fresh => q.err = err
            /\ \A s \in inbox : s.fresh => s.off = 2 * err
            /\ \A k \in DOMAIN filter : filter[k].fresh => filter[k].off = 2 * err

\* A server in the reach register has samples in the filter.
ReachInv == reach # 0 => filter # <<>>

\* After "silence" failures the lowest "silence" bits of the register are 0:
\* it is a multiple of 2^silence, and so is its size.
SilenceInv ==
  reach # 0 => \E multiple, left \in Nat :
                  /\ reach = multiple * 2^silence /\ multiple < 2^left
                  /\ ReachSize = 2^left * 2^silence

IInv == TypeOK /\ FreshInv /\ ReachInv /\ SilenceInv
------------------------------------------------------------------------------
(* Lemmas about arithmetic and the operators. *)

\* Powers of two by counting subsets: the empty set has one, and one more
\* element doubles their number.
LEMMA PowerZero == 2^0 = 1
<1>1. SUBSET {} = {{}}
  OBVIOUS
<1>2. Cardinality(SUBSET {}) = 2^Cardinality({})
  BY FS_EmptySet, FS_SUBSET
<1>3. Cardinality({{}}) = 1
  BY FS_Singleton
<1>4. QED
  BY <1>1, <1>2, <1>3, FS_EmptySet

\* One more factor doubles the power, and it exceeds its exponent.
LEMMA PowerStep == ASSUME NEW n \in Nat PROVE 2^n \in Nat /\ 2^(n + 1) = 2 * 2^n /\ n + 1 <= 2^n
<1> DEFINE old == SUBSET (1..n)
           with == {T \cup {n + 1} : T \in old}
           f == [T \in old |-> T \cup {n + 1}]
           g == [k \in 0..n |-> 1..k]
<1>1. IsFiniteSet(1..n) /\ Cardinality(1..n) = n
  BY FS_Interval
<1>2. IsFiniteSet(1..(n + 1)) /\ Cardinality(1..(n + 1)) = n + 1
  <2>1. n + 1 \in Int /\ 1 \in Int /\ ~(1 > n + 1) /\ n + 1 - 1 + 1 = n + 1
    OBVIOUS
  <2>2. QED
    BY <2>1, FS_Interval
<1>3. IsFiniteSet(old) /\ Cardinality(old) = 2^n
  BY <1>1, FS_SUBSET
<1>4. Cardinality(SUBSET (1..(n + 1))) = 2^(n + 1)
  BY <1>2, FS_SUBSET
<1>5. SUBSET (1..(n + 1)) = old \cup with
  <2>1. 1..(n + 1) = (1..n) \cup {n + 1}
    OBVIOUS
  <2>2. \A T \in SUBSET (1..(n + 1)) : T \in old \cup with
    <3> TAKE T \in SUBSET (1..(n + 1))
    <3>1. CASE n + 1 \in T
      <4>1. T \ {n + 1} \in old /\ T = (T \ {n + 1}) \cup {n + 1}
        BY <2>1, <3>1
      <4>2. QED
        BY <4>1
    <3>2. CASE n + 1 \notin T
      BY <2>1, <3>2
    <3>3. QED
      BY <3>1, <3>2
  <2>3. \A T \in old \cup with : T \in SUBSET (1..(n + 1))
    BY <2>1
  <2> HIDE DEF old, with
  <2>4. QED
    BY <2>2, <2>3
<1>6. old \cap with = {}
  OBVIOUS
<1>7. IsFiniteSet(with) /\ Cardinality(with) = Cardinality(old)
  <2>1. f \in Bijection(old, with)
    <3>1. f \in [old -> with]
      OBVIOUS
    <3>2. \A S, T \in old : f[S] = f[T] => S = T
      <4> TAKE S, T \in old
      <4>1. n + 1 \notin S /\ n + 1 \notin T
        OBVIOUS
      <4>2. f[S] = S \cup {n + 1} /\ f[T] = T \cup {n + 1}
        OBVIOUS
      <4>3. QED
        BY <4>1, <4>2
    <3>3. \A U \in with : \E T \in old : f[T] = U
      OBVIOUS
    <3> HIDE DEF old, with, f
    <3>4. QED
      BY <3>1, <3>2, <3>3 DEF Bijection, Injection, Surjection, IsInjective
  <2> HIDE DEF f
  <2>2. QED
    BY <1>3, <2>1, FS_Bijection DEF ExistsBijection
<1>8. Cardinality(old \cup with) = 2^n + 2^n
  <2> HIDE DEF old, with
  <2>1. Cardinality(old \cap with) = 0
    BY <1>6, FS_EmptySet
  <2>2. Cardinality(old) \in Nat
    BY <1>3, FS_CardinalityType
  <2>3. Cardinality(old \cup with)
          = Cardinality(old) + Cardinality(with) - Cardinality(old \cap with)
    BY <1>3, <1>7, FS_Union
  <2>4. Cardinality(old \cup with) = Cardinality(old) + Cardinality(old)
    BY <1>7, <2>1, <2>2, <2>3
  <2>5. QED
    BY <1>3, <2>4
<1>9. n + 1 <= 2^n
  <2>1. g \in Injection(0..n, old)
    <3>1. g \in [0..n -> old]
      OBVIOUS
    <3>2. \A j, k \in 0..n : 1..j = 1..k => j = k
      OBVIOUS
    <3>3. QED
      BY <3>1, <3>2 DEF Injection, IsInjective
  <2>2. Cardinality(0..n) = n + 1
    <3>1. 0 \in Int /\ n \in Int /\ ~(0 > n) /\ n - 0 + 1 = n + 1
      OBVIOUS
    <3>2. QED
      BY <3>1, FS_Interval
  <2> HIDE DEF g, old
  <2>3. QED
    BY <1>3, <2>1, <2>2, FS_Injection
<1>10. 2^n \in Nat
  BY <1>3, FS_CardinalityType
<1> DEFINE p == 2^n
<1>11. 2^(n + 1) = p + p
  BY <1>4, <1>5, <1>8, Zenon
<1>12. p \in Nat /\ n + 1 <= p
  BY <1>9, <1>10
<1> HIDE DEF p
<1>13. 2^(n + 1) = 2 * p
  BY <1>11, <1>12
<1>14. QED
  BY <1>12, <1>13 DEF p
\* A register of some width has values.
LEMMA SizePositive == ReachSize \in Nat \ {0}
<1>1. PICK width \in Nat : ReachSize = 2^width
  BY DisciplineAssumption
<1> DEFINE size == 2^width
<1>2. size \in Nat /\ width + 1 <= size
  BY PowerStep
<1> HIDE DEF size
<1>3. size \in Nat \ {0}
  BY <1>2
<1>4. QED
  BY <1>1, <1>3 DEF size

\* The filter has a sample of least delay, newer than all others of it: what
\* Chosen denotes is in the filter.
LEMMA ChosenExists ==
  ASSUME TypeOK, filter # <<>>
  PROVE  \E k \in DOMAIN filter : Chosen = filter[k]
<1> DEFINE IsBest(k) == /\ \A j \in DOMAIN filter : filter[k].delay <= filter[j].delay
                        /\ \A j \in 1..(k - 1) : filter[k].delay < filter[j].delay
           delays == {filter[k].delay : k \in DOMAIN filter}
<1>1. /\ DOMAIN filter = 1..Len(filter) /\ Len(filter) \in Nat /\ DOMAIN filter # {}
      /\ \A k \in DOMAIN filter : filter[k] \in Sample
  <2>1. filter \in Seq(Sample)
    BY DEF TypeOK
  <2>2. QED
    BY <2>1, LenProperties, ElementOfSeq, EmptySeq
<1>2. delays \in SUBSET Nat /\ delays # {}
  BY <1>1 DEF Sample
<1>3. PICK d \in delays : \A e \in delays : d <= e
  BY <1>2, LeastNat
<1> DEFINE those == {k \in DOMAIN filter : filter[k].delay = d}
<1>4. those \in SUBSET Nat /\ those # {}
  BY <1>1
<1>5. PICK k \in those : \A j \in those : k <= j
  BY <1>4, LeastNat
<1>6. k \in DOMAIN filter /\ filter[k].delay = d
  OBVIOUS
<1>7. \A j \in DOMAIN filter : filter[k].delay <= filter[j].delay
  BY <1>3, <1>6
<1>8. ASSUME NEW j \in 1..(k - 1)
      PROVE  filter[k].delay < filter[j].delay
  <2>1. j \in DOMAIN filter /\ ~(k <= j)
    BY <1>1, <1>6
  <2>2. filter[j].delay # d
    BY <1>5, <2>1
  <2>3. filter[k].delay \in Nat /\ filter[j].delay \in Nat
    BY <1>1, <1>6, <2>1 DEF Sample
  <2>4. QED
    BY <1>6, <1>7, <2>1, <2>2, <2>3
<1>9. \E i \in DOMAIN filter : IsBest(i)
  BY <1>6, <1>7, <1>8
<1>10. (CHOOSE i \in DOMAIN filter : IsBest(i)) \in DOMAIN filter
  BY <1>9
<1>11. QED
  BY <1>10 DEF Chosen

\* Both timers move past the present by whole periods.
LEMMA DueType ==
  ASSUME TypeOK, due <= Local
  PROVE  due + ((Local - due) \div Period + 1) * Period \in Nat
<1>1. Local \in Int /\ Period \in Nat \ {0} /\ due \in Nat
  BY DisciplineAssumption DEF TypeOK, Local
<1>2. Local - due \in Nat
  BY <1>1
<1>3. (Local - due) \div Period \in Nat
  BY <1>1, <1>2
<1> DEFINE missed == (Local - due) \div Period + 1
<1>4. missed \in Nat
  BY <1>3
<1>5. missed * Period \in Nat
  BY <1>1, <1>4
<1>6. QED
  BY <1>1, <1>5

\* A failure shifts the register: a multiple of 2^silence becomes a multiple
\* of the next power, or 0.
LEMMA ShiftOut ==
  ASSUME TypeOK, SilenceInv, reach' = (2 * reach) % ReachSize,
         silence' = Least(silence + 1, ReachSize)
  PROVE  reach' \in 0..(ReachSize - 1) /\ silence' \in 0..ReachSize /\ SilenceInv'
<1>1. ReachSize \in Nat \ {0}
  BY DisciplineAssumption DEF TypeOK
<1>2. reach \in Nat /\ reach < ReachSize /\ silence \in Nat /\ silence <= ReachSize
  BY <1>1 DEF TypeOK
<1>3. 2 * reach \in Nat
  BY <1>2
<1>4. reach' \in 0..(ReachSize - 1)
  BY <1>1, <1>3
<1>5. silence' \in 0..ReachSize
  BY <1>1, <1>2 DEF Least
<1>6. ASSUME reach' # 0
      PROVE  \E multiple, left \in Nat : /\ reach' = multiple * 2^(silence')
                                         /\ multiple < 2^left
                                         /\ ReachSize = 2^left * 2^(silence')
  <2>1. reach # 0
    BY <1>1, <1>2, <1>6
  <2>2. PICK a, k \in Nat : /\ reach = a * 2^silence /\ a < 2^k
                            /\ ReachSize = 2^k * 2^silence
    BY <2>1 DEF SilenceInv
  <2>3. k # 0
    <3>1. SUFFICES ASSUME k = 0 PROVE FALSE
      OBVIOUS
    <3>2. a = 0
      BY <2>2, <3>1, PowerZero
    <3>3. 2^silence \in Nat
      BY <1>2, PowerStep
    <3>4. QED
      BY <2>1, <2>2, <3>2, <3>3
  <2>4. k - 1 \in Nat /\ (k - 1) + 1 = k
    BY <2>3
  <2> DEFINE half == 2^(k - 1)
             p == 2^silence
             q == 2^(silence + 1)
             b == IF a < half THEN a ELSE a - half
  <2>5. half \in Nat /\ 2^k = 2 * half
    BY <2>4, PowerStep
  <2>6. p \in Nat /\ q = 2 * p /\ silence + 1 <= p
    BY <1>2, PowerStep
  <2>7. /\ a \in Nat /\ reach = a * p /\ a < 2 * half /\ ReachSize = (2 * half) * p
        /\ silence' = Least(silence + 1, ReachSize)
    BY <2>2, <2>5
  <2> HIDE DEF half, p, q
  <2>8. half # 0
    BY <2>7
  <2>9. ReachSize = half * q /\ 2 * reach = a * q
    BY <2>5, <2>6, <2>7
  <2>10. b \in Nat /\ b < half
    BY <2>5, <2>7
  <2>11. reach' = b * q
    <3>1. CASE a < half
      <4>1. a * q < half * q
        BY <2>6, <2>7, <2>8, <3>1, <2>5, <1>1, <2>9
      <4>2. QED
        BY <1>1, <1>3, <2>9, <3>1, <4>1
    <3>2. CASE ~(a < half)
      <4>1. (a - half) * q = a * q - half * q
        BY <2>5, <2>6, <2>7
      <4>2. 2 * reach - ReachSize \in Nat /\ 2 * reach - ReachSize < ReachSize
        <5>1. (a - half) * q \in Nat
          BY <2>5, <2>6, <2>7, <3>2
        <5>2. QED
          BY <1>1, <1>2, <1>3, <2>9, <4>1, <5>1
      <4>3. (2 * reach) % ReachSize = 2 * reach - ReachSize
        BY <1>1, <1>3, <4>2
      <4>4. QED
        BY <2>9, <3>2, <4>1, <4>3
    <3>3. QED
      BY <3>1, <3>2
  <2>12. silence' = silence + 1
    <3>1. p <= ReachSize
      BY <2>5, <2>6, <2>7, <2>8
    <3>2. silence + 1 <= ReachSize
      BY <1>1, <1>2, <2>6, <3>1
    <3>3. QED
      BY <2>7, <3>2 DEF Least
  <2> HIDE DEF b
  <2>13. reach' = b * 2^(silence') /\ ReachSize = 2^(k - 1) * 2^(silence') /\ b < 2^(k - 1)
    BY <2>9, <2>10, <2>11, <2>12 DEF half, q
  <2>14. QED
    BY <2>4, <2>10, <2>13
<1>7. SilenceInv'
  BY <1>6 DEF SilenceInv
<1>8. QED
  BY <1>4, <1>5, <1>7

\* A success makes the register odd and ends the silence.
LEMMA ShiftIn ==
  ASSUME TypeOK, reach' = (2 * reach + 1) % ReachSize, silence' = 0
  PROVE  reach' \in 0..(ReachSize - 1) /\ silence' \in 0..ReachSize /\ SilenceInv'
<1>1. ReachSize \in Nat \ {0}
  BY DisciplineAssumption DEF TypeOK
<1>2. 2 * reach + 1 \in Nat
  BY <1>1 DEF TypeOK
<1>3. reach' \in Nat /\ reach' < ReachSize
  BY <1>1, <1>2
<1>4. PICK width \in 0..ReachSize : ReachSize = 2^width
  BY DisciplineAssumption
<1>5. width \in Nat
  BY <1>1
<1>6. reach' = reach' * 2^(silence') /\ ReachSize = 2^width * 2^(silence') /\ reach' < 2^width
  <2> DEFINE one == 2^0
             size == 2^width
  <2>1. one = 1 /\ size = ReachSize
    BY <1>4, PowerZero
  <2> HIDE DEF one, size
  <2>2. reach' = reach' * one /\ ReachSize = size * one /\ reach' < size
    BY <1>1, <1>3, <2>1
  <2>3. QED
    BY <2>2 DEF one, size
<1>7. SilenceInv'
  BY <1>3, <1>5, <1>6 DEF SilenceInv
<1>8. QED
  BY <1>1, <1>3, <1>7
------------------------------------------------------------------------------
(* One lemma per step. *)

\* What a housekeeping tick does to both timers, whatever it decides.
LEMMA TickTypes ==
  ASSUME IInv, HousekeepingDue
  PROVE  /\ elapsed' = elapsed /\ opts' = opts
         /\ due' \in Nat /\ reach' \in 0..(ReachSize - 1) /\ silence' \in 0..ReachSize
         /\ SilenceInv'
         /\ reach' # 0 => reach # 0
<1>1. due' \in Nat
  BY DueType DEF IInv, HousekeepingDue
<1>2. reach' \in 0..(ReachSize - 1) /\ silence' \in 0..ReachSize /\ SilenceInv'
  BY ShiftOut DEF IInv, HousekeepingDue
<1>3. reach' # 0 => reach # 0
  <2>1. reach = 0 => (2 * reach) % ReachSize = 0
    BY SizePositive
  <2>2. QED
    BY <2>1 DEF HousekeepingDue
<1>4. QED
  BY <1>1, <1>2, <1>3 DEF HousekeepingDue

\* A move leaves the types alone and nothing fresh behind.
LEMMA MovedStep ==
  ASSUME IInv, HousekeepingDue, NEW e, MovedTo(e)
  PROVE  IInv'
<1>1. /\ filter' = [k \in 1..Len(filter) |-> [filter[k] EXCEPT !.fresh = FALSE]]
      /\ Len(filter) \in Nat /\ DOMAIN filter = 1..Len(filter) /\ Len(filter) <= FilterSize
      /\ \A k \in 1..Len(filter) : filter[k] \in Sample
  BY LenProperties, ElementOfSeq DEF IInv, TypeOK, MovedTo
<1> DEFINE stale(k) == [filter[k] EXCEPT !.fresh = FALSE]
<1>2. \A k \in 1..Len(filter) : stale(k) \in Sample /\ ~stale(k).fresh
  BY <1>1 DEF Sample
<1>3. filter' = [k \in 1..Len(filter) |-> stale(k)]
  BY <1>1
<1> HIDE DEF stale
<1>4. filter' \in Seq(Sample) /\ Len(filter') = Len(filter) /\ DOMAIN filter' = 1..Len(filter)
  <2>1. [k \in 1..Len(filter) |-> stale(k)] \in Seq(Sample)
    BY <1>1, <1>2, IsASeq
  <2>2. DOMAIN filter' = 1..Len(filter)
    BY <1>3
  <2>3. filter' \in Seq(Sample)
    BY <1>3, <2>1
  <2>4. Len(filter') = Len(filter)
    BY <1>1, <2>2, <2>3, LenProperties
  <2>5. QED
    BY <2>2, <2>3, <2>4
<1>5. \A k \in DOMAIN filter' : ~filter'[k].fresh
  BY <1>2, <1>3, <1>4
<1>6. filter # <<>> => filter' # <<>>
  BY <1>1, <1>4, EmptySeq DEF IInv, TypeOK
<1>7. \A q \in flight' : q \in [err : -MaxErr..MaxErr, fresh : BOOLEAN] /\ ~q.fresh
  BY DEF MovedTo, IInv, TypeOK
<1>8. \A s \in inbox' : s \in Sample /\ ~s.fresh
  BY DEF MovedTo, IInv, TypeOK, Sample
<1>9. FreshInv'
  BY <1>5, <1>7, <1>8 DEF FreshInv
<1>10. ReachInv'
  BY <1>6, TickTypes DEF IInv, ReachInv
<1>11. TypeOK'
  <2>1. err' \in -MaxErr..MaxErr /\ set' \in BOOLEAN /\ halted' \in BOOLEAN
    BY DEF MovedTo, IInv, TypeOK
  <2>2. flight' \subseteq [err : -MaxErr..MaxErr, fresh : BOOLEAN] /\ inbox' \subseteq Sample
    BY <1>7, <1>8
  <2>3. QED
    BY <1>1, <1>4, <2>1, <2>2, TickTypes DEF IInv, TypeOK
<1>12. QED
  BY <1>9, <1>10, <1>11, TickTypes DEF IInv

\* Taking an answer keeps the invariant: the sample taken is as fresh as its request.
LEMMA AnswerStep == IInv /\ Answer => IInv'
<1> SUFFICES ASSUME IInv, Answer PROVE IInv'
  OBVIOUS
<1>1. PICK s \in inbox : filter' = FilterOf(<<s>> \o filter)
  BY DEF Answer
<1> DEFINE all == <<s>> \o filter
           n == Least(Len(all), FilterSize)
<1>2. s \in Sample /\ filter \in Seq(Sample) /\ <<s>> \in Seq(Sample) /\ Len(<<s>>) = 1
  BY DEF IInv, TypeOK
<1>3. /\ all \in Seq(Sample) /\ Len(all) = Len(filter) + 1 /\ Len(filter) \in Nat
      /\ \A k \in 1..Len(all) : all[k] = IF k = 1 THEN s ELSE filter[k - 1]
  BY <1>2, ConcatProperties, LenProperties
<1>4. FilterSize \in Nat \ {0}
  BY DisciplineAssumption
<1>5. n \in 1..Len(all) /\ n <= FilterSize /\ n \in Nat
  BY <1>3, <1>4 DEF Least
<1> HIDE DEF all
<1>6. filter' = SubSeq(all, 1, n)
  BY <1>1 DEF FilterOf, all
<1> HIDE DEF n
<1>7. /\ filter' \in Seq(Sample) /\ Len(filter') = n /\ DOMAIN filter' = 1..n
      /\ \A k \in 1..n : filter'[k] = all[k]
  BY <1>3, <1>5, <1>6, SubSeqProperties, LenProperties
<1>8. filter' # <<>>
  BY <1>5, <1>7, EmptySeq
<1>9. \A k \in 1..n : all[k].fresh => all[k].off = 2 * err
  <2>1. s.fresh => s.off = 2 * err
    BY DEF IInv, FreshInv
  <2>2. \A k \in 1..Len(filter) : filter[k].fresh => filter[k].off = 2 * err
    BY <1>2, LenProperties DEF IInv, FreshInv
  <2>3. ASSUME NEW k \in 1..n PROVE all[k].fresh => all[k].off = 2 * err
    <3>1. CASE k = 1
      BY <1>3, <1>5, <2>1, <3>1
    <3>2. CASE k # 1
      <4>1. all[k] = filter[k - 1] /\ k - 1 \in 1..Len(filter)
        BY <1>3, <1>5, <3>2
      <4>2. QED
        BY <2>2, <4>1
    <3>3. QED
      BY <3>1, <3>2
  <2>4. QED
    BY <2>3
<1>10. reach' \in 0..(ReachSize - 1) /\ silence' \in 0..ReachSize /\ SilenceInv'
  BY ShiftIn DEF IInv, Answer
<1>11. TypeOK'
  BY <1>5, <1>7, <1>10 DEF IInv, TypeOK, Answer
<1>12. FreshInv'
  BY <1>7, <1>9 DEF IInv, FreshInv, Answer
<1>13. QED
  BY <1>8, <1>10, <1>11, <1>12 DEF IInv, ReachInv

\* An answer that arrives is stamped with the error there is.
LEMMA ArriveStep == ASSUME IInv, NEW net \in Delays, Arrive(net) PROVE IInv'
<1>1. PICK q \in flight : inbox' = {[off |-> TwiceOffset(q), delay |-> DelayOf(q, net),
                                    fresh |-> q.fresh]}
  BY DEF Arrive
<1>2. q.err \in Int /\ err \in Int /\ q.fresh \in BOOLEAN /\ net \in Int
  BY DisciplineAssumption DEF IInv, TypeOK
<1>3. TwiceOffset(q) \in Int /\ DelayOf(q, net) \in Nat
  BY <1>2 DEF TwiceOffset, DelayOf
<1>4. q.fresh => TwiceOffset(q) = 2 * err
  BY <1>2 DEF IInv, FreshInv, TwiceOffset
<1>5. inbox' \subseteq Sample
  BY <1>1, <1>2, <1>3 DEF Sample
<1>6. TypeOK'
  BY <1>5 DEF IInv, TypeOK, Arrive
<1>7. FreshInv'
  <2>1. \A s \in inbox' : s.off = TwiceOffset(q) /\ s.fresh = q.fresh
    BY <1>1
  <2>2. \A s \in inbox' : s.fresh => s.off = 2 * err'
    BY <1>4, <2>1 DEF Arrive
  <2>3. QED
    BY <2>2 DEF IInv, FreshInv, Arrive
<1>8. QED
  BY <1>6, <1>7 DEF IInv, ReachInv, SilenceInv, Arrive

\* A request leaves with the error there is.
LEMMA AskStep == IInv /\ Ask => IInv'
<1> SUFFICES ASSUME IInv, Ask PROVE IInv'
  OBVIOUS
<1>1. flight' \subseteq [err : -MaxErr..MaxErr, fresh : BOOLEAN]
  BY DEF IInv, TypeOK, Ask
<1>2. TypeOK'
  BY <1>1 DEF IInv, TypeOK, Ask
<1>3. QED
  BY <1>2 DEF IInv, FreshInv, ReachInv, SilenceInv, Ask

\* A second that passes changes no error.
LEMMA SecondStep == IInv /\ Second => IInv'
BY DisciplineAssumption DEF IInv, TypeOK, FreshInv, ReachInv, SilenceInv, Second

\* A lost request leaves only fewer to answer.
LEMMA LoseStep == IInv /\ Lose => IInv'
BY DEF IInv, TypeOK, FreshInv, ReachInv, SilenceInv, Lose

\* A reload starts with an empty filter and register.
LEMMA ReloadStep == IInv /\ Reload => IInv'
<1> SUFFICES ASSUME IInv, Reload PROVE IInv'
  OBVIOUS
<1>1. filter' = <<>> /\ filter' \in Seq(Sample) /\ Len(filter') = 0 /\ DOMAIN filter' = {}
  BY DEF Reload
<1>2. 0 \in 0..(ReachSize - 1) /\ ReachSize \in 0..ReachSize /\ Period \in Nat /\ FilterSize \in Nat
  BY SizePositive, DisciplineAssumption
<1>3. TypeOK'
  <2>1. /\ flight' = {} /\ inbox' = {} /\ due' = Period /\ set' = FALSE /\ reach' = 0
        /\ silence' = ReachSize /\ elapsed' = elapsed /\ err' = err /\ halted' = halted
    BY DEF Reload
  <2>2. opts' = [slew |-> FALSE, gate |-> FALSE]
    BY DEF Reload
  <2>3. opts' \in [slew : BOOLEAN, gate : BOOLEAN]
    BY <2>2
  <2>4. /\ flight' \subseteq [err : -MaxErr..MaxErr, fresh : BOOLEAN]
        /\ inbox' \subseteq Sample
    BY <2>1
  <2>5. Len(filter') <= FilterSize
    BY <1>1, <1>2
  <2>6. elapsed' \in 0..MaxTime /\ err' \in -MaxErr..MaxErr /\ halted' \in BOOLEAN
    BY <2>1 DEF IInv, TypeOK
  <2>7. due' \in Nat /\ set' \in BOOLEAN /\ reach' \in 0..(ReachSize - 1)
        /\ silence' \in 0..ReachSize
    BY <2>1, <1>2
  <2>8. QED
    BY <1>1, <2>3, <2>4, <2>5, <2>6, <2>7 DEF TypeOK
<1>4. QED
  BY <1>1, <1>3 DEF IInv, FreshInv, ReachInv, SilenceInv, Reload

\* A tick that moves nothing: without a survivor, or the one that panics.
LEMMA StillStep ==
  ASSUME IInv, HousekeepingDue, UNCHANGED <<err, flight, inbox, filter, set>>,
         halted' \in BOOLEAN
  PROVE  IInv'
<1>1. TypeOK'
  BY TickTypes DEF IInv, TypeOK
<1>2. QED
  BY <1>1, TickTypes DEF IInv, FreshInv, ReachInv

\* The invariant holds in the initial states.
LEMMA InitStep == Init => IInv
<1> SUFFICES ASSUME Init PROVE IInv
  OBVIOUS
<1>1. TypeOK
  <2>1. filter = <<>> /\ filter \in Seq(Sample) /\ Len(filter) = 0
    BY DEF Init
  <2>2. /\ 0 \in 0..(ReachSize - 1) /\ ReachSize \in 0..ReachSize /\ Period \in Nat
        /\ FilterSize \in Nat /\ 0 \in 0..MaxTime /\ Errors \subseteq -MaxErr..MaxErr
    BY SizePositive, DisciplineAssumption
  <2>3. /\ elapsed = 0 /\ err \in Errors /\ due = Period /\ flight = {} /\ inbox = {}
        /\ reach = 0 /\ set = FALSE /\ halted = FALSE /\ silence = ReachSize
        /\ opts \in [slew : BOOLEAN, gate : BOOLEAN]
    BY DEF Init
  <2>4. /\ flight \subseteq [err : -MaxErr..MaxErr, fresh : BOOLEAN]
        /\ inbox \subseteq Sample
    BY <2>3
  <2>5. Len(filter) <= FilterSize
    BY <2>1, <2>2
  <2>6. elapsed \in 0..MaxTime /\ err \in -MaxErr..MaxErr /\ halted \in BOOLEAN
    BY <2>2, <2>3
  <2>7. due \in Nat /\ set \in BOOLEAN /\ reach \in 0..(ReachSize - 1)
        /\ silence \in 0..ReachSize
    BY <2>2, <2>3
  <2>8. QED
    BY <2>1, <2>3, <2>4, <2>5, <2>6, <2>7 DEF TypeOK
<1>2. QED
  BY <1>1 DEF Init, IInv, FreshInv, ReachInv, SilenceInv

\* It is inductive.
LEMMA Invariance == Spec => []IInv
<1>1. IInv /\ [Next]_vars => IInv'
  <2> SUFFICES ASSUME IInv, [Next]_vars PROVE IInv'
    OBVIOUS
  <2>1. CASE Unsynchronized \/ Panic
    BY <2>1, StillStep DEF Unsynchronized, Panic, IInv, TypeOK
  <2>2. CASE StepClock \/ SlewClock
    BY <2>2, MovedStep DEF StepClock, SlewClock
  <2>3. CASE UNCHANGED vars
    BY <2>3 DEF vars, IInv, TypeOK, FreshInv, ReachInv, SilenceInv
  <2>4. QED
    BY <2>1, <2>2, <2>3, SecondStep, AskStep, LoseStep, ReloadStep, AnswerStep, ArriveStep
       DEF Next
<1>2. QED
  BY <1>1, InitStep, PTL DEF Spec
------------------------------------------------------------------------------
(* The theorems. *)

\* The filter keeps to its places, the reach register to its width and the
\* timers to the naturals, whatever the clock is moved by.
THEOREM DisciplineTypes == Spec => []TypeOK
<1>1. IInv => TypeOK
  BY DEF IInv
<1>2. QED
  BY <1>1, Invariance, PTL

\* A step by a sample taken since the last move leaves no error at all
\* (compute_offsets, ClockFilter::filter, step_clock, SystemClock::step).
THEOREM FreshStepsExact == Spec => FreshStepIsExact
<1>1. IInv /\ [Next]_vars => [StepClock /\ Chosen.fresh => err' = 0]_vars
  <2> SUFFICES ASSUME IInv, StepClock, Chosen.fresh PROVE err' = 0
    OBVIOUS
  <2>1. filter # <<>>
    BY DEF IInv, ReachInv, StepClock, Reachable
  <2>2. PICK k \in DOMAIN filter : Chosen = filter[k]
    BY <2>1, ChosenExists DEF IInv
  <2>3. Chosen.off = 2 * err
    BY <2>2 DEF IInv, FreshInv
  <2>4. err \in Int
    BY DisciplineAssumption DEF IInv, TypeOK
  <2>5. err' = err - (2 * err) \div 2
    BY <2>3 DEF StepClock, MovedTo
  <2>6. QED
    BY <2>4, <2>5
<1>2. QED
  BY <1>1, Invariance, PTL DEF Spec, FreshStepIsExact

\* Only a tick moves the clock, and by what it chose.
LEMMA MoveIsTick ==
  ASSUME IInv, Next, err' # err
  PROVE  /\ HousekeepingDue /\ Reachable /\ ~Panics /\ Chosen.off \in Int /\ err \in Int
         /\ \/ Stepped /\ err' = err - Chosen.off \div 2
            \/ ~Stepped /\ \E part \in Between(Chosen.off \div 2) : err' = err - part
<1>1. StepClock \/ SlewClock
  BY DEF Next, Second, Ask, Lose, Reload, Answer, Arrive, Unsynchronized, Panic
<1>2. filter # <<>>
  BY <1>1 DEF IInv, ReachInv, StepClock, SlewClock, Reachable
<1>3. PICK k \in DOMAIN filter : Chosen = filter[k]
  BY <1>2, ChosenExists DEF IInv
<1>4. filter[k] \in Sample
  BY LenProperties, ElementOfSeq DEF IInv, TypeOK
<1>5. Chosen.off \in Int /\ err \in Int
  BY <1>3, <1>4, DisciplineAssumption DEF IInv, TypeOK, Sample
<1>6. QED
  BY <1>1, <1>5 DEF StepClock, SlewClock, MovedTo

\* Once set the clock is not moved beyond the panic limit at once unless -g
\* was given, and not stepped under -x (local_clock, execute_actions).
THEOREM MovesAreBounded == Spec => BoundedMoves
<1>1. IInv /\ [Next]_vars
        => [set /\ err' # err => /\ ~opts.gate => Abs(err' - err) <= PanicLimit
                                 /\ opts.slew => ~StepClock]_vars
  <2> SUFFICES ASSUME IInv, Next, set, err' # err
               PROVE  /\ ~opts.gate => Abs(err' - err) <= PanicLimit
                      /\ opts.slew => ~StepClock
    OBVIOUS
  <2>1. opts.slew => ~StepClock
    BY DEF StepClock, Stepped
  <2>2. ASSUME ~opts.gate PROVE Abs(err' - err) <= PanicLimit
    <3> DEFINE off == Chosen.off
               half == off \div 2
    <3>1. off \in Int /\ err \in Int /\ PanicLimit \in Nat
      BY MoveIsTick, DisciplineAssumption
    <3>2. Abs(off) <= 2 * PanicLimit
      BY <2>2, <3>1, MoveIsTick DEF Panics, TooLarge, Abs
    <3>3. \/ err' = err - half
          \/ \E part \in Between(half) : err' = err - part
      BY MoveIsTick
    <3> HIDE DEF off
    <3>4. half \in Int /\ -PanicLimit <= half /\ half <= PanicLimit
      BY <3>1, <3>2 DEF Abs
    <3> HIDE DEF half
    <3>5. PICK part \in Int : -PanicLimit <= part /\ part <= PanicLimit /\ err' = err - part
      BY <3>1, <3>3, <3>4 DEF Between
    <3>6. QED
      BY <3>1, <3>5 DEF Abs
  <2>3. QED
    BY <2>1, <2>2
<1>2. QED
  BY <1>1, Invariance, PTL DEF Spec, BoundedMoves

\* The clock moves only while the last answer lies within the register: after
\* as many reachability ticks as it has bits a silent server is out, however
\* many samples of it the filter holds (run_selection, the reach register).
THEOREM MovesNeedAnswers == Spec => MovedOnRecentAnswer
<1>1. IInv /\ [Next]_vars => [err' # err => 2^(silence + 1) <= ReachSize]_vars
  <2> SUFFICES ASSUME IInv, Next, err' # err PROVE 2^(silence + 1) <= ReachSize
    OBVIOUS
  <2>1. reach # 0 /\ reach \in Nat /\ silence \in Nat
    BY MoveIsTick, DisciplineAssumption DEF Reachable, IInv, TypeOK
  <2>2. PICK a, k \in Nat : /\ reach = a * 2^silence /\ a < 2^k
                            /\ ReachSize = 2^k * 2^silence
    BY <2>1 DEF IInv, SilenceInv
  <2> DEFINE p == 2^silence
             c == 2^k
             q == 2^(silence + 1)
  <2>3. p \in Nat /\ c \in Nat /\ q = 2 * p
    BY <2>1, <2>2, PowerStep
  <2>4. reach = a * p /\ a < c /\ ReachSize = c * p
    BY <2>2
  <2> HIDE DEF p, c, q
  <2>5. a # 0
    BY <2>1, <2>3, <2>4
  <2>6. c >= 2
    BY <2>2, <2>3, <2>4, <2>5
  <2>7. 2 * p <= c * p
    BY <2>3, <2>6
  <2>8. QED
    BY <2>3, <2>4, <2>7 DEF q
<1>2. QED
  BY <1>1, Invariance, PTL DEF Spec, MovedOnRecentAnswer

------------------------------------------------------------------------------
(* Leap years. *)

\* A leap year is one that LeapDays counts.
LEMMA LeapsStep ==
  ASSUME NEW y \in Nat \ {0}
  PROVE  /\ LeapDays(y) \in Nat /\ LeapDays(y - 1) \in Nat
         /\ LeapDays(y) = LeapDays(y - 1) + IF LeapYear(y) THEN 1 ELSE 0
BY SMTT(60) DEF LeapDays, LeapYear

\* The leap days of 1969 years.
LEMMA Leaps1969 == LeapDays(1969) = 477
BY SMTT(60) DEF LeapDays

\* The days of the years since 1970.
LEMMA YearDaysIs ==
  ASSUME NEW y \in Nat, y >= 1970
  PROVE  YearDays(y) = 365 * (y - 1970) + LeapDays(y - 1) - LeapDays(1969)
<1> DEFINE f == [k \in 1970..(y - 1) |-> IF LeapYear(k) THEN 366 ELSE 365]
           n == y - 1970
           S == {k \in 0..n : SumFunctionOnSet(f, 1970..(1969 + k)) = 365 * k + LeapDays(1969 + k) - LeapDays(1969)}
<1>1. n \in Nat /\ 1969 + n = y - 1
  BY SMT
<1>2. \A k \in 1970..(y - 1) : f[k] \in Int /\ f[k] = 365 + IF LeapYear(k) THEN 1 ELSE 0
  BY SMT
<1>3. DOMAIN f = 1970..(1969 + n)
  BY SMT
<1>4. YearDays(y) = SumFunctionOnSet(f, 1970..(1969 + n))
  BY <1>3, SMT DEF YearDays, SumFunction
<1> HIDE DEF f, n
<1>5. 0 \in S
  <2>1. 1970..(1969 + 0) = {}
    BY SMT
  <2>2. SumFunctionOnSet(f, 1970..(1969 + 0)) = 0
    BY <2>1, SumNone
  <2>3. QED
    BY <1>1, <2>2, Leaps1969, SMT
<1>6. ASSUME NEW k \in 1..n, k - 1 \in S PROVE k \in S
  <2> DEFINE z == 1969 + k
  <2>1. z \in 1970..(y - 1) /\ z - 1 = 1969 + (k - 1) /\ z \in Int /\ 1970 \in Int /\ 1970 <= z
    BY <1>1, SMT
  <2>2. \A x \in 1970..z : f[x] \in Int
    BY <1>2, <2>1, SMT
  <2>3. SumFunctionOnSet(f, 1970..z) = f[z] + SumFunctionOnSet(f, 1970..(z - 1))
    BY <2>1, <2>2, SumUpTo, SMT
  <2>4. SumFunctionOnSet(f, 1970..(z - 1)) = 365 * (k - 1) + LeapDays(z - 1) - LeapDays(1969)
    BY <1>6, <2>1, SMT
  <2>5. z \in Nat \ {0}
    BY <2>1, SMT
  <2>6. /\ LeapDays(z) \in Nat /\ LeapDays(z - 1) \in Nat
        /\ LeapDays(z) = LeapDays(z - 1) + IF LeapYear(z) THEN 1 ELSE 0
    BY ONLY <2>5, LeapsStep
  <2>7. f[z] = 365 + IF LeapYear(z) THEN 1 ELSE 0
    BY <1>2, <2>1
  <2>8. SumFunctionOnSet(f, 1970..z) = 365 * k + LeapDays(z) - LeapDays(1969)
    <3> HIDE DEF z
    <3> QED BY <2>3, <2>4, <2>6, <2>7, Leaps1969, SMT
  <2>9. QED
    BY <2>8, SMT
<1>7. n \in S
  <2> HIDE DEF S
  <2>1. \A k \in 0..n : k \in S
    BY <1>1, <1>5, <1>6, Climb
  <2>2. QED
    BY <1>1, <2>1, SMT
<1>8. QED
  BY <1>1, <1>4, <1>7, SMT DEF n

------------------------------------------------------------------------------
(* Months. *)

\* The days before a month, in a year that is none of leap.
LEMMA MonthSums ==
  ASSUME NEW f, NEW b \in {28, 29}, NEW m \in 1..12,
         \A k \in 1..12 : f[k] = IF k = 2 THEN b ELSE DaysInMonth[k]
  PROVE  SumFunctionOnSet(f, 1..(m - 1)) = MonthStart[m] + IF m > 2 THEN b - 28 ELSE 0
<1> DEFINE S(k) == SumFunctionOnSet(f, 1..k)
<1>1. /\ f[1] = 31 /\ f[2] = b /\ f[3] = 31 /\ f[4] = 30 /\ f[5] = 31 /\ f[6] = 30 
      /\ f[7] = 31 /\ f[8] = 31 /\ f[9] = 30 /\ f[10] = 31 /\ f[11] = 30 /\ f[12] = 31
  <2>1. \A k \in 1..12 : DaysInMonth[k] = IF k = 2 THEN 28 ELSE IF k \in {4, 6, 9, 11} THEN 30 ELSE 31
    BY SMT DEF DaysInMonth
  <2>2. QED
    BY <2>1, SMT
<1>2. S(0) = 0
  <2>1. 1..0 = {}
    BY SMT
  <2>2. QED
    BY <2>1, SumNone
<1>3. ASSUME NEW k \in 1..11 PROVE S(k) = f[k] + S(k - 1)
  <2>1. 1 \in Int /\ k \in Int /\ 1 <= k /\ \A x \in 1..k : f[x] \in Int
    <3>1. \A x \in 1..11 : f[x] \in Int
      <4>1. \A x \in 1..11 : x = 1 \/ x = 2 \/ x = 3 \/ x = 4 \/ x = 5 \/ x = 6 \/ x = 7 \/ x = 8
                             \/ x = 9 \/ x = 10 \/ x = 11
        BY SMT
      <4>2. QED
        BY <1>1, <4>1, SMT
    <3>2. QED
      BY <3>1, SMT
  <2>2. QED
    BY <2>1, SumUpTo
<1> HIDE DEF S
<1>4. /\ S(1) = 31 /\ S(2) = 31 + b /\ S(3) = 62 + b /\ S(4) = 92 + b /\ S(5) = 123 + b /\ S(6) = 153 + b
      /\ S(7) = 184 + b /\ S(8) = 215 + b /\ S(9) = 245 + b /\ S(10) = 276 + b /\ S(11) = 306 + b
  <2>1. S(1) = f[1] + S(0) /\ S(2) = f[2] + S(1) /\ S(3) = f[3] + S(2)
    BY <1>3, SMT
  <2>2. S(4) = f[4] + S(3) /\ S(5) = f[5] + S(4) /\ S(6) = f[6] + S(5)
    BY <1>3, SMT
  <2>3. S(7) = f[7] + S(6) /\ S(8) = f[8] + S(7) /\ S(9) = f[9] + S(8)
    BY <1>3, SMT
  <2>4. S(10) = f[10] + S(9) /\ S(11) = f[11] + S(10)
    BY <1>3, SMT
  <2>5. QED
    BY <1>1, <1>2, <2>1, <2>2, <2>3, <2>4, SMT
<1>5. S(m - 1) = MonthStart[m] + IF m > 2 THEN b - 28 ELSE 0
  <2>1. \E i \in 0..11 : m = i + 1 /\ m - 1 = i
    BY SMT
  <2>2. PICK i \in 0..11 : m = i + 1 /\ m - 1 = i
    BY <2>1
  <2>3. \/ i = 0 \/ i = 1 \/ i = 2 \/ i = 3 \/ i = 4 \/ i = 5
        \/ i = 6 \/ i = 7 \/ i = 8 \/ i = 9 \/ i = 10 \/ i = 11
    BY SMT
  <2>4. S(i) = MonthStart[i + 1] + IF i + 1 > 2 THEN b - 28 ELSE 0
    BY <1>2, <1>4, <2>3, SMT DEF MonthStart
  <2>5. QED
    BY <2>2, <2>4
<1>6. QED
  BY <1>5 DEF S

\* A date of the calendar; n is the days since 1970.
Dated(y, m, d, n) == /\ y \in Nat \ {0} /\ m \in 1..12 /\ d \in 1..31 /\ n \in Int
                     /\ d <= DaysOfMonth(y, m) /\ n = DayNumber(y, m, d)

\* Years are counted here from March: march years since the year 0, months since March.
MarchYear(y, m) == IF m <= 2 THEN y - 1 ELSE y
MarchMonth(m) == IF m > 2 THEN m - 3 ELSE m + 9
MarchDay(m, d) == (153 * MarchMonth(m) + 2) \div 5 + d - 1

\* The days of the months, of any year.
LEMMA MonthFacts ==
  ASSUME NEW y \in Nat \ {0}, NEW m \in 1..12
  PROVE  /\ DaysOfMonth(y, m) = IF m = 2 THEN (IF LeapYear(y) THEN 29 ELSE 28)
                                ELSE IF m \in {4, 6, 9, 11} THEN 30 ELSE 31
         /\ MonthStart[m] \in 0..334
         /\ (153 * MarchMonth(m) + 2) \div 5 = IF m > 2 THEN MonthStart[m] - 59 ELSE MonthStart[m] + 306
<1>1. DaysInMonth[m] = IF m = 2 THEN 28 ELSE IF m \in {4, 6, 9, 11} THEN 30 ELSE 31
  BY SMT DEF DaysInMonth
<1>2. \/ m = 1 \/ m = 2 \/ m = 3 \/ m = 4 \/ m = 5 \/ m = 6
      \/ m = 7 \/ m = 8 \/ m = 9 \/ m = 10 \/ m = 11 \/ m = 12
  BY SMT
<1>3. DaysOfMonth(y, m) = IF m = 2 THEN (IF LeapYear(y) THEN 29 ELSE 28)
                          ELSE IF m \in {4, 6, 9, 11} THEN 30 ELSE 31
  BY <1>1, SMT DEF DaysOfMonth
<1>4. MonthStart[m] \in 0..334
  BY <1>2, SMT DEF MonthStart
<1>5. (153 * MarchMonth(m) + 2) \div 5 = IF m > 2 THEN MonthStart[m] - 59 ELSE MonthStart[m] + 306
  BY <1>2, SMT DEF MonthStart, MarchMonth
<1>6. QED
  BY <1>3, <1>4, <1>5

FromMarch(yy, md) == 365 * yy + LeapDays(yy) + md - 719468

\* The day number, counted from March: what all the closed formulas compute.
LEMMA MarchCount ==
  ASSUME NEW y \in Nat \ {0}, NEW m \in 1..12, NEW d \in 1..31
  PROVE  /\ MarchYear(y, m) \in Nat /\ LeapDays(MarchYear(y, m)) \in Nat /\ MarchDay(m, d) \in Int
         /\ DayNumber(y, m, d) = FromMarch(MarchYear(y, m), MarchDay(m, d))
<1> DEFINE k == IF m > 2 THEN y ELSE y - 1
<1>1. MarchYear(y, m) = k /\ k \in Nat
  BY SMT DEF MarchYear
<1>2. LeapDays(k) \in Nat
  <2>1. LeapDays(y) \in Nat /\ LeapDays(y - 1) \in Nat
    BY LeapsStep
  <2>2. QED
    BY <2>1, SMT
<1>3. DayNumber(y, m, d) = 365 * (y - 1970) + LeapDays(k) - 477 + MonthStart[m] + d - 1
  BY Leaps1969 DEF DayNumber
<1>4. /\ MonthStart[m] \in 0..334
      /\ (153 * MarchMonth(m) + 2) \div 5 = IF m > 2 THEN MonthStart[m] - 59 ELSE MonthStart[m] + 306
  BY MonthFacts
<1>5. MarchDay(m, d) = (IF m > 2 THEN MonthStart[m] - 59 ELSE MonthStart[m] + 306) + d - 1
  BY <1>4 DEF MarchDay
<1>6. k = IF m > 2 THEN y ELSE y - 1
  OBVIOUS
<1> HIDE DEF k
<1>7. CASE m > 2
  <2>1. MarchDay(m, d) = MonthStart[m] - 59 + d - 1 /\ k = y
    BY <1>5, <1>6, <1>7, SMT
  <2>2. QED
    BY <1>1, <1>2, <1>3, <1>4, <2>1, SMT DEF FromMarch
<1>8. CASE ~(m > 2)
  <2>1. MarchDay(m, d) = MonthStart[m] + 306 + d - 1 /\ k = y - 1
    BY <1>5, <1>6, <1>8, SMT
  <2>2. QED
    BY <1>1, <1>2, <1>3, <1>4, <2>1, SMT DEF FromMarch
<1>9. QED
  BY <1>7, <1>8

Since1970(y) == y >= 1970

\* Dates before 1970, and only those, have a negative number.
LEMMA SinceTheEpoch ==
  ASSUME NEW y \in Nat \ {0}, NEW m \in 1..12, NEW d \in 1..31, d <= DaysOfMonth(y, m),
         DayNumber(y, m, d) >= 0
  PROVE  Since1970(y)
<1>1. /\ LeapDays(y) \in Nat /\ LeapDays(y - 1) \in Nat
      /\ LeapDays(y) = LeapDays(y - 1) + IF LeapYear(y) THEN 1 ELSE 0
  BY LeapsStep
<1>2. ASSUME y < 1970 PROVE LeapDays(y) <= 477
  BY <1>2, SMTT(60) DEF LeapDays
<1>3. DayNumber(y, m, d) = 365 * (y - 1970) + LeapDays(IF m > 2 THEN y ELSE y - 1) - 477 + MonthStart[m] + d - 1
  BY Leaps1969 DEF DayNumber
<1>4. MonthStart[m] + d <= IF m > 2 THEN 365 ELSE (365 + IF LeapYear(y) THEN 1 ELSE 0)
  <2>1. \/ m = 1 \/ m = 2 \/ m = 3 \/ m = 4 \/ m = 5 \/ m = 6
        \/ m = 7 \/ m = 8 \/ m = 9 \/ m = 10 \/ m = 11 \/ m = 12
    BY SMT
  <2>2. d <= IF m = 2 THEN (IF LeapYear(y) THEN 29 ELSE 28)
             ELSE IF m \in {4, 6, 9, 11} THEN 30 ELSE 31
    BY MonthFacts
  <2>3. QED
    BY <2>1, <2>2, SMT DEF MonthStart
<1>5. MonthStart[m] \in 0..334
  BY MonthFacts
<1>6. ASSUME m > 2 PROVE y >= 1970
  <2>1. DayNumber(y, m, d) = 365 * (y - 1970) + LeapDays(y) - 477 + MonthStart[m] + d - 1
    BY <1>3, <1>6
  <2>2. QED
    BY <1>1, <1>2, <2>1, <1>4, <1>5, <1>6, SMT
<1>7. ASSUME ~(m > 2) PROVE y >= 1970
  <2>1. DayNumber(y, m, d) = 365 * (y - 1970) + LeapDays(y - 1) - 477 + MonthStart[m] + d - 1
    BY <1>3, <1>7
  <2>2. QED
    BY <1>1, <1>2, <2>1, <1>4, <1>5, <1>7, SMT
<1>8. y >= 1970
  BY <1>6, <1>7
<1>9. QED
  BY <1>8, SMT DEF Since1970

------------------------------------------------------------------------------
(* The routines that count days. *)

\* Hinnant's routine counts by eras of 400 years.
LEMMA CivilCounts ==
  ASSUME NEW y \in Nat \ {0}, NEW m \in 1..12, NEW d \in 1..31
  PROVE  DaysFromCivil(y, m, d) = DayNumber(y, m, d)
<1> DEFINE yy == MarchYear(y, m)
           era == yy \div 400
           yoe == yy - era * 400
<1>1. /\ yy \in Nat /\ LeapDays(yy) \in Nat /\ MarchDay(m, d) \in Int
      /\ DayNumber(y, m, d) = FromMarch(yy, MarchDay(m, d))
  BY MarchCount
<1>2. DaysFromCivil(y, m, d) = era * 146097 + yoe * 365 + yoe \div 4 - yoe \div 100 + MarchDay(m, d) - 719468
  BY SMT DEF DaysFromCivil, MarchYear, MarchMonth, MarchDay
<1>3. era * 146097 + yoe * 365 + yoe \div 4 - yoe \div 100 = 365 * yy + LeapDays(yy)
  <2> HIDE DEF yy
  <2>1. QED BY <1>1, SMTT(60) DEF LeapDays
<1>4. era * 146097 + yoe * 365 + yoe \div 4 - yoe \div 100 \in Int
  BY <1>1, <1>3, SMT
<1> DEFINE e == era * 146097 + yoe * 365 + yoe \div 4 - yoe \div 100
<1>5. DaysFromCivil(y, m, d) = e + MarchDay(m, d) - 719468 /\ e = 365 * yy + LeapDays(yy)
  BY <1>2, <1>3, SMT
<1> HIDE DEF yy, e
<1>6. QED
  BY <1>1, <1>5, SMT DEF FromMarch

\* The engine's routine is Hinnant's without the eras and with another start.
Astray(y, m) == 59 + 146097 * ((IF m > 2 THEN y ELSE y - 1) \div 400 - 4)
LEMMA EngineCounts ==
  ASSUME NEW y \in Nat \ {0}, NEW m \in 1..12, NEW d \in 1..31
  PROVE  /\ TimecodeDays(y, m, d) = DayNumber(y, m, d) - Astray(y, m)
         /\ Astray(y, m) \in Int
<1> DEFINE yy == IF m > 2 THEN y ELSE y - 1
           era == yy \div 400
           yoe == yy - era * 400
           doy == (153 * (IF m > 2 THEN m - 3 ELSE m + 9) + 2) \div 5 + d - 1
           doe == yoe * 365 + yoe \div 4 - yoe \div 100
<1>1. yy \in Nat /\ era \in Int /\ doy \in Int /\ doe \in Int
  BY SMT
<1>2. DaysFromCivil(y, m, d) = era * 146097 + doe + doy - 719468
  BY SMT DEF DaysFromCivil
<1>3. TimecodeDays(y, m, d) = doe + doy - 135139
  BY SMT DEF TimecodeDays
<1>4. DaysFromCivil(y, m, d) = DayNumber(y, m, d)
  BY CivilCounts
<1>5. Astray(y, m) = 59 + 146097 * (era - 4)
  BY DEF Astray
<1> HIDE DEF era, doe, doy
<1>6. QED
  BY <1>1, <1>2, <1>3, <1>4, <1>5, SMT

\* The statistics files count by way of the Julian day number.
LEMMA JulianCounts ==
  ASSUME NEW y \in Nat \ {0}, NEW m \in 1..12, NEW d \in 1..31
  PROVE  JulianDays(y, m, d) = DayNumber(y, m, d)
<1> DEFINE yy == MarchYear(y, m)
           md == MarchDay(m, d)
<1>1. /\ yy \in Nat /\ LeapDays(yy) \in Nat /\ md \in Int
      /\ DayNumber(y, m, d) = FromMarch(yy, md)
  BY MarchCount
<1>2. y + 4800 - ((14 - m) \div 12) = yy + 4800 /\ m + 12 * ((14 - m) \div 12) - 3 = MarchMonth(m)
  <2>1. \/ m = 1 \/ m = 2 \/ m = 3 \/ m = 4 \/ m = 5 \/ m = 6
        \/ m = 7 \/ m = 8 \/ m = 9 \/ m = 10 \/ m = 11 \/ m = 12
    BY SMT
  <2>2. QED
    BY <2>1, SMT DEF MarchYear, MarchMonth
<1> DEFINE J(b, c) == d + (153 * c + 2) \div 5 + 365 * b + b \div 4 - b \div 100 + b \div 400
                      - 32045 - 2440588
<1>3. JulianDays(y, m, d) = J(y + 4800 - ((14 - m) \div 12), m + 12 * ((14 - m) \div 12) - 3)
  BY SMT DEF JulianDays
<1>4. JulianDays(y, m, d) = J(yy + 4800, MarchMonth(m))
  <2> HIDE DEF yy, J
  <2> QED BY <1>2, <1>3, SMT
<1>5. (yy + 4800) \div 4 - (yy + 4800) \div 100 + (yy + 4800) \div 400 = LeapDays(yy) + 1164
  <2> HIDE DEF yy
  <2> QED BY <1>1, SMTT(60) DEF LeapDays
<1>6. (153 * MarchMonth(m) + 2) \div 5 \in Int /\ md = (153 * MarchMonth(m) + 2) \div 5 + d - 1
  <2>1. MarchMonth(m) \in 0..11
    BY SMT DEF MarchMonth
  <2>2. QED
    BY <2>1, SMT DEF MarchDay
<1> DEFINE a == (153 * MarchMonth(m) + 2) \div 5
<1>7. JulianDays(y, m, d) = d + a + 365 * (yy + 4800)
        + (yy + 4800) \div 4 - (yy + 4800) \div 100 + (yy + 4800) \div 400 - 32045 - 2440588
  BY <1>4, SMT
<1>8. a \in Int /\ md = a + d - 1
  BY <1>6, SMT
<1> HIDE DEF yy, a, md, J
<1>9. JulianDays(y, m, d) = d + a + 365 * (yy + 4800) + (LeapDays(yy) + 1164) - 32045 - 2440588
  BY <1>1, <1>5, <1>7, <1>8, SMT
<1>10. QED
  BY <1>1, <1>8, <1>9, SMT DEF FromMarch

\* January 1 is a date of every year, day 0 that of 1970.
LEMMA Epoch == DayNumber(1970, 1, 1) = 0
<1>1. DayNumber(1970, 1, 1) = 365 * (1970 - 1970) + LeapDays(1970 - 1) - 477 + MonthStart[1] + 1 - 1
  BY Leaps1969, SMT DEF DayNumber
<1>2. 1970 - 1 = 1969 /\ MonthStart[1] = 0
  BY SMT DEF MonthStart
<1>3. LeapDays(1970 - 1) = 477
  BY <1>2, Leaps1969, SMT
<1>4. QED
  BY <1>1, <1>2, <1>3, SMT

\* A day number is an integer.
LEMMA DayNumberType ==
  ASSUME NEW y \in Nat \ {0}, NEW m \in 1..12, NEW d \in 1..31
  PROVE  DayNumber(y, m, d) \in Int
<1>1. /\ MarchYear(y, m) \in Nat /\ LeapDays(MarchYear(y, m)) \in Nat /\ MarchDay(m, d) \in Int
      /\ DayNumber(y, m, d) = FromMarch(MarchYear(y, m), MarchDay(m, d))
  BY MarchCount
<1>2. QED
  BY <1>1, SMT DEF FromMarch

\* The timecode parser takes the number of 1970-01-01 off.
LEMMA ParserCounts ==
  ASSUME NEW y \in Nat \ {0}, NEW m \in 1..12, NEW d \in 1..31
  PROVE  CivilDays(y, m, d) = DayNumber(y, m, d)
<1>1. DayNumber(y, m, d) \in Int
  BY DayNumberType
<1>2. DaysFromCivil(y, m, d) = DayNumber(y, m, d)
  BY CivilCounts, SMT
<1>3. DaysFromCivil(1970, 1, 1) = 0
  <2>1. 1970 \in Nat \ {0} /\ 1 \in 1..12 /\ 1 \in 1..31
    BY SMT
  <2>2. DaysFromCivil(1970, 1, 1) = DayNumber(1970, 1, 1)
    BY <2>1, CivilCounts, SMT
  <2>3. QED
    BY <2>2, Epoch, SMT
<1>4. QED
  BY <1>1, <1>2, <1>3, SMT DEF CivilDays

\* The days before a year, since 1970, and the days of a year before a month.
YearStart(y) == 365 * (y - 1970) + LeapDays(y - 1) - 477
MonthOf(y, m) == MonthStart[m] + IF m > 2 /\ LeapYear(y) THEN 1 ELSE 0

\* The day of the year, January 1 being 1.
LEMMA DayOfYear ==
  ASSUME NEW y \in Nat \ {0}, NEW m \in 1..12, NEW d \in 1..31
  PROVE  /\ YearStart(y) \in Int /\ MonthOf(y, m) \in Nat
         /\ DayNumber(y, m, d) = YearStart(y) + MonthOf(y, m) + d - 1
         /\ JulianDays(y, m, d) - JulianDays(y, 1, 1) + 1 = MonthOf(y, m) + d
<1>1. /\ LeapDays(y) \in Nat /\ LeapDays(y - 1) \in Nat
      /\ LeapDays(y) = LeapDays(y - 1) + IF LeapYear(y) THEN 1 ELSE 0
  BY LeapsStep, SMT
<1>2. MonthStart[m] \in 0..334
  BY MonthFacts, SMT
<1>3. DayNumber(y, m, d) = 365 * (y - 1970) + LeapDays(IF m > 2 THEN y ELSE y - 1) - 477
                           + MonthStart[m] + d - 1
  BY Leaps1969, SMT DEF DayNumber
<1>4. DayNumber(y, m, d) = 365 * (y - 1970) + LeapDays(y - 1) - 477
        + MonthStart[m] + (IF m > 2 /\ LeapYear(y) THEN 1 ELSE 0) + d - 1
  <2>1. CASE m > 2
    <3>1. DayNumber(y, m, d) = 365 * (y - 1970) + LeapDays(y) - 477 + MonthStart[m] + d - 1
      BY <1>3, <2>1, SMT
    <3>2. QED
      BY <1>1, <1>2, <2>1, <3>1, SMT
  <2>2. CASE ~(m > 2)
    <3>1. DayNumber(y, m, d) = 365 * (y - 1970) + LeapDays(y - 1) - 477 + MonthStart[m] + d - 1
      BY <1>3, <2>2, SMT
    <3>2. QED
      BY <1>1, <1>2, <2>2, <3>1, SMT
  <2>3. QED
    BY <2>1, <2>2, SMT
<1>5. DayNumber(y, 1, 1) = 365 * (y - 1970) + LeapDays(y - 1) - 477
  <2>1. DayNumber(y, 1, 1) = 365 * (y - 1970) + LeapDays(IF 1 > 2 THEN y ELSE y - 1) - 477
                             + MonthStart[1] + 1 - 1
    BY Leaps1969, SMT DEF DayNumber
  <2>2. ~(1 > 2) /\ MonthStart[1] = 0
    BY SMT DEF MonthStart
  <2>3. DayNumber(y, 1, 1) = 365 * (y - 1970) + LeapDays(y - 1) - 477 + 0 + 1 - 1
    BY <2>1, <2>2, SMT
  <2>4. QED
    BY <1>1, <2>3, SMT
<1>6. JulianDays(y, m, d) = DayNumber(y, m, d) /\ JulianDays(y, 1, 1) = DayNumber(y, 1, 1)
  <2>1. 1 \in 1..12 /\ 1 \in 1..31
    BY SMT
  <2>2. QED
    BY <2>1, JulianCounts, SMT
<1> DEFINE a == MonthStart[m]
           l == IF m > 2 /\ LeapYear(y) THEN 1 ELSE 0
           s == LeapDays(y - 1)
<1>7. /\ YearStart(y) = 365 * (y - 1970) + s - 477 /\ MonthOf(y, m) = a + l
      /\ a \in 0..334 /\ s \in Nat
  BY <1>1, <1>2, SMT DEF YearStart, MonthOf
<1>8. l \in {0, 1}
  BY SMT
<1>9. /\ DayNumber(y, m, d) = 365 * (y - 1970) + s - 477 + a + l + d - 1
      /\ DayNumber(y, 1, 1) = 365 * (y - 1970) + s - 477
  BY <1>4, <1>5, SMT
<1> HIDE DEF a, l, s
<1>10. QED
  BY <1>6, <1>7, <1>8, <1>9, SMT

\* The drivers add years and months, or years and the day of the year.
LEMMA DriversCount ==
  ASSUME NEW y \in Nat \ {0}, NEW m \in 1..12, NEW d \in 1..31, Since1970(y)
  PROVE  /\ DateDays(y, m, d) = DayNumber(y, m, d)
         /\ YdayDays(y, JulianDays(y, m, d) - JulianDays(y, 1, 1) + 1) = DayNumber(y, m, d)
<1>0. y \in Nat \ {0} /\ m \in 1..12 /\ d \in 1..31
  OBVIOUS
<1>1. YearDays(y) = YearStart(y)
  <2>1. y \in Nat /\ y >= 1970
    BY SMT DEF Since1970
  <2>2. QED
    BY <2>1, YearDaysIs, Leaps1969, SMT DEF YearStart
<1>2. /\ YearStart(y) \in Int /\ MonthOf(y, m) \in Nat
      /\ DayNumber(y, m, d) = YearStart(y) + MonthOf(y, m) + d - 1
      /\ JulianDays(y, m, d) - JulianDays(y, 1, 1) + 1 = MonthOf(y, m) + d
  BY ONLY <1>0, DayOfYear
<1>3. SumFunctionOnSet(DaysInMonth, 1..(m - 1)) = MonthStart[m]
  <2>1. \A k \in 1..12 : DaysInMonth[k] = IF k = 2 THEN 28 ELSE DaysInMonth[k]
    BY SMT DEF DaysInMonth
  <2>2. 28 \in {28, 29}
    BY SMT
  <2>3. SumFunctionOnSet(DaysInMonth, 1..(m - 1)) = MonthStart[m] + IF m > 2 THEN 28 - 28 ELSE 0
    BY ONLY <1>0, <2>1, <2>2, MonthSums
  <2>4. MonthStart[m] \in 0..334
    BY ONLY <1>0, MonthFacts
  <2>5. \A a \in 0..334 : a = a + IF m > 2 THEN 28 - 28 ELSE 0
    BY SMT
  <2>6. MonthStart[m] = MonthStart[m] + IF m > 2 THEN 28 - 28 ELSE 0
    BY <2>4, <2>5
  <2>7. QED
    BY ONLY <2>3, <2>6
<1>4. DateDays(y, m, d) = YearDays(y) + MonthOf(y, m) + d - 1
  <2>1. MonthStart[m] \in 0..334
    BY MonthFacts
  <2>2. DateDays(y, m, d) = YearDays(y) + MonthStart[m] + (IF m > 2 /\ LeapYear(y) THEN 1 ELSE 0) + d - 1
    BY <1>3 DEF DateDays
  <2>3. QED
    BY <1>1, <1>2, <2>1, <2>2, SMT DEF MonthOf
<1> DEFINE yday == JulianDays(y, m, d) - JulianDays(y, 1, 1) + 1
<1>5. YdayDays(y, yday) = YearDays(y) + yday - 1
  BY SMT DEF YdayDays
<1>6. yday = MonthOf(y, m) + d
  BY <1>2
<1> HIDE DEF yday
<1>7. YdayDays(y, yday) = DayNumber(y, m, d) /\ DateDays(y, m, d) = DayNumber(y, m, d)
  BY <1>1, <1>2, <1>4, <1>5, <1>6, SMT
<1>8. QED
  BY <1>7, SMT DEF yday

\* ntp_calendar's day of the year.
LEMMA YdCounts ==
  ASSUME NEW y \in Nat \ {0}, NEW m \in 1..12, NEW d \in Nat
  PROVE  /\ YmdToYd(y, m, d) = MonthOf(y, m) + d
         /\ MonthTable(y)[m] = DaysOfMonth(y, m)
<1> DEFINE b == IF LeapYear(y) THEN 29 ELSE 28
           f == MonthTable(y)
<1>1. b \in {28, 29}
  BY SMT
<1>2. \A k \in 1..12 : f[k] = IF k = 2 THEN b ELSE DaysInMonth[k]
  BY SMT DEF MonthTable, DaysInMonth
<1> HIDE DEF f
<1>3. SumFunctionOnSet(f, 1..(m - 1)) = MonthStart[m] + IF m > 2 THEN b - 28 ELSE 0
  <2> HIDE DEF b
  <2> QED BY <1>1, <1>2, MonthSums
<1>4. MonthStart[m] \in 0..334
  BY MonthFacts, SMT
<1>5. YmdToYd(y, m, d) = d + SumFunctionOnSet(f, 1..(m - 1))
  BY DEF YmdToYd, f
<1>6. YmdToYd(y, m, d) = MonthOf(y, m) + d
  <2> DEFINE a == MonthStart[m]
             t == SumFunctionOnSet(f, 1..(m - 1))
  <2>1. a \in Int /\ t = a + IF m > 2 THEN b - 28 ELSE 0
    <3>1. 0..334 \in SUBSET Int
      BY SMT
    <3> HIDE DEF b
    <3>2. t = a + IF m > 2 THEN b - 28 ELSE 0
      BY ONLY <1>3
    <3>3. QED
      BY <1>4, <3>1, <3>2, Zenon
  <2>2. YmdToYd(y, m, d) = d + t
    BY <1>5, SMT
  <2> HIDE DEF a, t
  <2>3. YmdToYd(y, m, d) = a + (IF m > 2 /\ LeapYear(y) THEN 1 ELSE 0) + d
    BY <2>1, <2>2, SMT
  <2>4. QED
    BY <2>1, <2>3, SMT DEF MonthOf, a
<1>7. f[m] = DaysOfMonth(y, m)
  <2>1. \A k \in 1..12 : DaysInMonth[k] = IF k = 2 THEN 28 ELSE IF k \in {4, 6, 9, 11} THEN 30 ELSE 31
    BY SMT DEF DaysInMonth
  <2>2. DaysOfMonth(y, m) = IF m = 2 THEN (IF LeapYear(y) THEN 29 ELSE 28)
                                ELSE IF m \in {4, 6, 9, 11} THEN 30 ELSE 31
    BY MonthFacts, SMT
  <2>3. QED
    BY <1>2, <2>1, <2>2, SMT
<1>8. QED
  BY <1>6, <1>7, SMT DEF f

------------------------------------------------------------------------------
(* From a day back to its date. *)

\* A month ends before the next ones begin.
LEMMA MonthEnds ==
  ASSUME NEW y \in Nat \ {0}, NEW m \in 1..12, NEW k \in 1..12, k < m
  PROVE  MonthOf(y, k) + DaysOfMonth(y, k) <= MonthOf(y, m)
<1> DEFINE l == IF LeapYear(y) THEN 1 ELSE 0
           M(i) == MonthOf(y, i)
<1>1. l \in {0, 1}
  BY SMT
<1>2. /\ M(1) = 0 /\ M(2) = 31 /\ M(3) = 59 + l /\ M(4) = 90 + l /\ M(5) = 120 + l /\ M(6) = 151 + l
      /\ M(7) = 181 + l /\ M(8) = 212 + l /\ M(9) = 243 + l /\ M(10) = 273 + l /\ M(11) = 304 + l
      /\ M(12) = 334 + l
  BY SMT DEF MonthOf, MonthStart
<1>3. DaysOfMonth(y, k) = IF k = 2 THEN 28 + l ELSE IF k \in {4, 6, 9, 11} THEN 30 ELSE 31
  <2>1. DaysOfMonth(y, k) = IF k = 2 THEN (IF LeapYear(y) THEN 29 ELSE 28)
                            ELSE IF k \in {4, 6, 9, 11} THEN 30 ELSE 31
    BY MonthFacts
  <2>2. QED
    BY <2>1, SMT
<1> HIDE DEF l, M
<1>4. /\ (m = 1 \/ m = 2 \/ m = 3 \/ m = 4 \/ m = 5 \/ m = 6 \/ m = 7 \/ m = 8 \/ m = 9
          \/ m = 10 \/ m = 11 \/ m = 12)
      /\ (k = 1 \/ k = 2 \/ k = 3 \/ k = 4 \/ k = 5 \/ k = 6 \/ k = 7 \/ k = 8 \/ k = 9
          \/ k = 10 \/ k = 11 \/ k = 12)
  BY SMT
<1>5. M(k) + (IF k = 2 THEN 28 + l ELSE IF k \in {4, 6, 9, 11} THEN 30 ELSE 31) <= M(m)
  BY <1>1, <1>2, <1>4, SMT
<1>6. M(k) + DaysOfMonth(y, k) <= M(m)
  BY <1>3, <1>5
<1>7. QED
  BY <1>6 DEF M

\* ntp_calendar finds month and day of a day of the year.
LEMMA YdBack ==
  ASSUME NEW y \in Nat \ {0}, NEW m \in 1..12, NEW d \in 1..31, d <= DaysOfMonth(y, m),
         NEW yday, yday = MonthOf(y, m) + d
  PROVE  YdToYmd(y, yday) = <<m, d>>
<1> DEFINE In == {k \in 1..12 : yday <= YmdToYd(y, k, MonthTable(y)[k])}
<1>1. ASSUME NEW k \in 1..12
      PROVE  /\ MonthOf(y, k) \in Nat /\ DaysOfMonth(y, k) \in Nat
             /\ YmdToYd(y, k, MonthTable(y)[k]) = MonthOf(y, k) + DaysOfMonth(y, k)
  <2>1. MonthStart[k] \in 0..334
    BY MonthFacts
  <2>2. MonthOf(y, k) \in Nat
    BY <2>1, SMT DEF MonthOf
  <2>3. DaysOfMonth(y, k) = IF k = 2 THEN (IF LeapYear(y) THEN 29 ELSE 28)
                            ELSE IF k \in {4, 6, 9, 11} THEN 30 ELSE 31
    BY MonthFacts
  <2>4. DaysOfMonth(y, k) \in Nat
    BY <2>3, SMT
  <2>5. 0 \in Nat
    BY SMT
  <2>6. MonthTable(y)[k] = DaysOfMonth(y, k)
    BY <2>5, YdCounts
  <2>7. YmdToYd(y, k, DaysOfMonth(y, k)) = MonthOf(y, k) + DaysOfMonth(y, k)
    BY <2>4, YdCounts
  <2>8. QED
    BY <2>2, <2>4, <2>6, <2>7
<1>2. m \in In
  BY <1>1, SMT
<1>3. ASSUME NEW k \in In PROVE m <= k
  <2>1. k \in 1..12 /\ yday <= MonthOf(y, k) + DaysOfMonth(y, k)
    BY <1>1
  <2>2. ASSUME k < m PROVE FALSE
    <3>1. MonthOf(y, k) + DaysOfMonth(y, k) <= MonthOf(y, m)
      BY <2>1, <2>2, MonthEnds
    <3>2. QED
      BY <1>1, <2>1, <3>1, SMT
  <2>3. QED
    BY <2>1, <2>2, SMT
<1> DEFINE x == Min(In)
<1>4. x = m
  <2>1. x \in In /\ \A j \in In : x <= j
    <3> HIDE DEF In
    <3>1. \E i \in In : \A j \in In : i <= j
      BY <1>2, <1>3
    <3>2. QED
      BY <3>1 DEF Min
  <2>2. In \in SUBSET (1..12)
    BY SMT
  <2> HIDE DEF In, x
  <2>3. x \in 1..12 /\ x <= m /\ m <= x
    BY <1>2, <1>3, <2>1, <2>2
  <2>4. QED
    BY <2>3, SMT
<1>5. YdToYmd(y, yday) = IF In = {} THEN <<12, 31>> ELSE <<x, yday - YmdToYd(y, x, 0)>>
  BY DEF YdToYmd
<1> HIDE DEF In, x
<1>6. YdToYmd(y, yday) = <<m, yday - YmdToYd(y, m, 0)>>
  BY <1>2, <1>4, <1>5
<1>7. yday - YmdToYd(y, m, 0) = d
  <2>1. 0 \in Nat
    BY SMT
  <2>2. YmdToYd(y, m, 0) = MonthOf(y, m) + 0
    BY <2>1, YdCounts
  <2>3. QED
    BY <1>1, <2>2, SMT
<1>8. QED
  BY <1>6, <1>7

\* civil_from_days in its steps: the era of a day counted from 0000-03-01, the
\* day of the era, its year, the day of that year, its month.
FromEra(n) == n + 719468
EraOf(z) == z \div 146097
EraDay(z) == z - EraOf(z) * 146097
EraYear(doe) == (doe - doe \div 1460 + doe \div 36524 - doe \div 146096) \div 365
YearDay(doe, yoe) == doe - (365 * yoe + yoe \div 4 - yoe \div 100)
MonthIn(doy) == (5 * doy + 2) \div 153
DayIn(doy, mp) == doy - (153 * mp + 2) \div 5 + 1
MonthNow(mp) == IF mp < 10 THEN mp + 3 ELSE mp - 9
DateOf(era, yoe, doy, mp) ==
  [y |-> yoe + era * 400 + (IF MonthNow(mp) <= 2 THEN 1 ELSE 0), m |-> MonthNow(mp), d |-> DayIn(doy, mp)]
ByYear(era, doe, yoe) == DateOf(era, yoe, YearDay(doe, yoe), MonthIn(YearDay(doe, yoe)))
ByEra(z) == ByYear(EraOf(z), EraDay(z), EraYear(EraDay(z)))

\* These are its steps.
LEMMA CivilSteps == ASSUME NEW n PROVE CivilFromDays(n) = ByEra(FromEra(n))
BY SMT DEF CivilFromDays, ByEra, ByYear, DateOf, DayIn, EraOf, EraDay, YearDay, MonthIn, MonthNow,
           EraYear, FromEra

\* A day of an era, and one of a year, by centuries c, spans a of four years and
\* years b before it.
EraStart(e) == 146097 * e
DayBy(c, a, b, doy) == 36524 * c + 1461 * a + 365 * b + doy
YearBy(c, a, b) == 100 * c + 4 * a + b
YearDays365 == 0..365
LeapDayOf(doy) == doy = 365

InEra(e, c, a, b, doy) ==
  /\ e \in Nat /\ c \in 0..3 /\ a \in 0..24 /\ b \in 0..3 /\ doy \in YearDays365
  /\ LeapDayOf(doy) => b = 3 /\ (a # 24 \/ c = 3)

\* The steps find era, year and day again.
LEMMA EraFound ==
  ASSUME NEW e, NEW c, NEW a, NEW b, NEW doy, InEra(e, c, a, b, doy),
         NEW z, z = EraStart(e) + DayBy(c, a, b, doy)
  PROVE  /\ EraOf(z) = e /\ EraDay(z) = DayBy(c, a, b, doy)
         /\ EraYear(DayBy(c, a, b, doy)) = YearBy(c, a, b)
         /\ YearDay(DayBy(c, a, b, doy), YearBy(c, a, b)) = doy
<1>0. /\ doy \in 0..365 /\ (doy = 365 => b = 3 /\ (a # 24 \/ c = 3))
      /\ e \in Nat /\ c \in 0..3 /\ a \in 0..24 /\ b \in 0..3
  BY SMT DEF YearDays365, LeapDayOf, InEra
<1> DEFINE doe == DayBy(c, a, b, doy)
           yoe == YearBy(c, a, b)
<1>1. /\ doe = 36524 * c + 1461 * a + 365 * b + doy
      /\ yoe = 100 * c + 4 * a + b
  BY <1>0, SMT DEF DayBy, YearBy
<1>2. z = 146097 * e + doe
  BY SMT DEF EraStart
<1> HIDE DEF doe, yoe
<1>3. doe \in Nat /\ doe <= 146096
  BY <1>0, <1>1, SMTT(60)
<1>4. EraOf(z) = e
  BY <1>0, <1>2, <1>3, SMTT(60) DEF EraOf
<1>5. EraDay(z) = doe
  <2>1. EraDay(z) = z - EraOf(z) * 146097
    BY SMT DEF EraDay
  <2>2. EraDay(z) = z - e * 146097
    BY <1>4, <2>1, SMT
  <2>3. QED
    BY <1>0, <1>2, <1>3, <2>2, SMT
<1>6. EraYear(doe) = yoe
  BY <1>0, <1>1, <1>3, SMTT(120) DEF EraYear
<1>7. YearDay(doe, yoe) = doy
  <2>1. yoe \div 4 = 25 * c + a /\ yoe \div 100 = c /\ yoe \in Nat
    BY <1>0, <1>1, SMTT(60)
  <2>2. 365 * yoe + (25 * c + a) - c + doy = doe /\ doy \in Int
    BY <1>0, <1>1, SMTT(60)
  <2>3. YearDay(doe, yoe) = doe - (365 * yoe + yoe \div 4 - yoe \div 100)
    BY SMT DEF YearDay
  <2>4. YearDay(doe, yoe) = doe - (365 * yoe + (25 * c + a) - c)
    BY <2>1, <2>3, SMT
  <2>5. QED
    BY <1>0, <1>3, <2>1, <2>2, <2>4, SMT
<1>8. QED
  BY <1>4, <1>5, <1>6, <1>7 DEF doe, yoe

\* The days of a year from March are 365, and one more if the next year is leap;
\* its months are found again.
LEMMA MarchDays ==
  ASSUME NEW y \in Nat \ {0}, NEW m \in 1..12, NEW d \in 1..31, d <= DaysOfMonth(y, m)
  PROVE  /\ MarchDay(m, d) \in YearDays365
         /\ LeapDayOf(MarchDay(m, d)) => LeapYear(MarchYear(y, m) + 1)
         /\ MonthIn(MarchDay(m, d)) = MarchMonth(m)
         /\ DayIn(MarchDay(m, d), MarchMonth(m)) = d
<1>1. d <= IF m = 2 THEN (IF LeapYear(y) THEN 29 ELSE 28)
           ELSE IF m \in {4, 6, 9, 11} THEN 30 ELSE 31
  BY MonthFacts
<1>2. \/ m = 1 \/ m = 2 \/ m = 3 \/ m = 4 \/ m = 5 \/ m = 6
      \/ m = 7 \/ m = 8 \/ m = 9 \/ m = 10 \/ m = 11 \/ m = 12
  BY SMT
<1>3. /\ MarchDay(m, d) \in YearDays365 /\ (LeapDayOf(MarchDay(m, d)) => m = 2 /\ LeapYear(y))
      /\ MonthIn(MarchDay(m, d)) = MarchMonth(m)
      /\ DayIn(MarchDay(m, d), MarchMonth(m)) = d
  BY <1>1, <1>2, SMTT(60) DEF MarchDay, MarchMonth, MonthIn, DayIn, YearDays365, LeapDayOf
<1>4. m = 2 => MarchYear(y, m) + 1 = y
  BY SMT DEF MarchYear
<1>5. QED
  BY <1>3, <1>4

\* The year before a leap year ends a span of four, and if it ends a century
\* then an era.
LEMMA BeforeLeap ==
  ASSUME NEW e \in Nat, NEW c \in 0..3, NEW a \in 0..24, NEW b \in 0..3,
         NEW yy \in Nat, yy = 400 * e + YearBy(c, a, b), LeapYear(yy + 1)
  PROVE  b = 3 /\ (a # 24 \/ c = 3)
<1> DEFINE t == YearBy(c, a, b)
<1>1. yy + 1 = 400 * e + t + 1 /\ t \in 0..399
  BY SMT DEF YearBy
<1> HIDE DEF t
<1>2. /\ (yy + 1) % 4 = 0 => (t + 1) % 4 = 0
      /\ (yy + 1) % 100 = 0 <=> (t + 1) % 100 = 0
      /\ (yy + 1) % 400 = 0 => t = 399
  BY <1>1, SMTT(60)
<1>3. \/ (t + 1) % 4 = 0 /\ (t + 1) % 100 # 0
      \/ t = 399
  BY <1>2, SMT DEF LeapYear
<1>4. t = 100 * c + 4 * a + b
  BY SMT DEF t, YearBy
<1>5. ASSUME t = 399 PROVE b = 3 /\ c = 3
  BY <1>4, <1>5, SMTT(60)
<1>6. ASSUME (t + 1) % 4 = 0 PROVE b = 3
  BY <1>4, <1>6, SMTT(60)
<1>7. ASSUME (t + 1) % 100 # 0, b = 3 PROVE a # 24
  BY <1>4, <1>7, SMTT(60)
<1>8. QED
  BY <1>3, <1>5, <1>6, <1>7

\* ntpdig finds the date of a day.
LEMMA CivilBack ==
  ASSUME NEW y \in Nat \ {0}, NEW m \in 1..12, NEW d \in 1..31, d <= DaysOfMonth(y, m)
  PROVE  CivilFromDays(DayNumber(y, m, d)) = [y |-> y, m |-> m, d |-> d]
<1> DEFINE n == DayNumber(y, m, d)
           yy == MarchYear(y, m)
           md == MarchDay(m, d)
           mp == MarchMonth(m)
<1>1. yy \in Nat /\ LeapDays(yy) \in Nat /\ n = FromMarch(yy, md)
  BY MarchCount
<1>2. /\ md \in YearDays365 /\ (LeapDayOf(md) => LeapYear(yy + 1))
      /\ MonthIn(md) = mp /\ DayIn(md, mp) = d
  BY MarchDays
<1>3. /\ mp = IF m > 2 THEN m - 3 ELSE m + 9
      /\ yy = IF m <= 2 THEN y - 1 ELSE y
  BY DEF MarchMonth, MarchYear
<1> HIDE DEF n, yy, md, mp
<1>4. PICK e \in Nat, c \in 0..3, a \in 0..24, b \in 0..3 : yy = 400 * e + YearBy(c, a, b)
  <2> DEFINE e == yy \div 400
             r == yy - 400 * e
             c == r \div 100
             q == r - 100 * c
             a == q \div 4
             b == q - 4 * a
  <2>1. e \in Nat /\ c \in 0..3 /\ a \in 0..24 /\ b \in 0..3
    BY <1>1, SMTT(60)
  <2>2. yy = 400 * e + (100 * c + 4 * a + b)
    BY <1>1, SMTT(60)
  <2> HIDE DEF e, c, a, b
  <2>3. yy = 400 * e + YearBy(c, a, b)
    BY <2>2, SMT DEF YearBy
  <2>4. QED
    BY <2>1, <2>3, SMT
<1>5. LeapDayOf(md) => b = 3 /\ (a # 24 \/ c = 3)
  BY <1>1, <1>2, <1>4, BeforeLeap, SMT
<1>6. FromEra(n) = EraStart(e) + DayBy(c, a, b, md)
  <2>1. yy = 400 * e + 100 * c + 4 * a + b
    BY <1>4, SMT DEF YearBy
  <2>2. LeapDays(yy) = 97 * e + 24 * c + a
    BY <2>1, SMTT(60) DEF LeapDays
  <2>3. md \in Int
    BY <1>2, SMT DEF YearDays365
  <2>4. QED
    BY <1>1, <2>1, <2>2, <2>3, SMTT(60) DEF FromMarch, FromEra, DayBy, EraStart
<1> DEFINE z == FromEra(n)
           doe == DayBy(c, a, b, md)
           yoe == YearBy(c, a, b)
<1>7. EraOf(z) = e /\ EraDay(z) = doe /\ EraYear(doe) = yoe /\ YearDay(doe, yoe) = md
  <2>1. InEra(e, c, a, b, md)
    BY <1>2, <1>5, SMT DEF InEra
  <2>2. QED
    BY ONLY <1>6, <2>1, EraFound
<1>8. CivilFromDays(n) = ByEra(z)
  BY CivilSteps
<1> HIDE DEF z, doe, yoe
<1>9. ByEra(z) = ByYear(e, doe, yoe)
  BY <1>7 DEF ByEra
<1>10. ByYear(e, doe, yoe) = DateOf(e, yoe, md, mp)
  BY <1>2, <1>7 DEF ByYear
<1>11. MonthNow(mp) = m
  BY <1>3, SMT DEF MonthNow
<1>12. yoe + e * 400 + (IF m <= 2 THEN 1 ELSE 0) = y
  BY <1>3, <1>4, SMTT(60) DEF yoe, YearBy
<1>13. DateOf(e, yoe, md, mp) = [y |-> y, m |-> m, d |-> d]
  BY <1>2, <1>11, <1>12, SMT DEF DateOf
<1>14. n = DayNumber(y, m, d)
  BY DEF n
<1>15. QED
  BY <1>8, <1>9, <1>10, <1>13, <1>14

\* The day of the week, counted and by Zeller's congruence.
LEMMA Weekdays ==
  ASSUME NEW y \in Nat \ {0}, NEW m \in 1..12, NEW d \in 1..31
  PROVE  (DayNumber(y, m, d) + 4) % 7 = Zeller(y, m, d)
<1> DEFINE n == DayNumber(y, m, d)
           yy == MarchYear(y, m)
           md == MarchDay(m, d)
           mp == MarchMonth(m)
           f == (153 * mp + 2) \div 5
           mm == IF m <= 2 THEN m + 12 ELSE m
           g == (13 * (mm + 1)) \div 5
           j == yy \div 100
           k == yy % 100
           sum == d + g + k + k \div 4 + j \div 4 + 5 * j + 6
<1>1. yy \in Nat /\ LeapDays(yy) \in Nat /\ n = FromMarch(yy, md)
  BY MarchCount
<1>2. Zeller(y, m, d) = sum % 7
  BY SMT DEF Zeller, MarchYear
<1>3. md = f + d - 1
  BY SMT DEF MarchDay
<1>4. f \in Int /\ g \in Int /\ mp \in Int /\ f = g + 28 * mp - 10
  <2>1. \/ m = 1 \/ m = 2 \/ m = 3 \/ m = 4 \/ m = 5 \/ m = 6
        \/ m = 7 \/ m = 8 \/ m = 9 \/ m = 10 \/ m = 11 \/ m = 12
    BY SMT
  <2>2. QED
    BY <2>1, SMTT(60) DEF MarchMonth
<1> HIDE DEF n, yy, md, mp, f, g
<1>5. /\ j \in Int /\ k \in Int /\ k \div 4 \in Int /\ j \div 4 \in Int /\ yy = 100 * j + k
      /\ LeapDays(yy) = 24 * j + k \div 4 + j \div 4
  BY <1>1, SMTT(60) DEF LeapDays
<1> DEFINE p == k \div 4
           q == j \div 4
<1>6. /\ j \in Int /\ k \in Int /\ p \in Int /\ q \in Int /\ yy = 100 * j + k
      /\ LeapDays(yy) = 24 * j + p + q /\ sum = d + g + k + p + q + 5 * j + 6
  BY <1>5, SMT
<1> HIDE DEF j, k, p, q, sum
<1> DEFINE v == 5217 * j + 52 * k + 4 * mp - 102783
<1>7. n + 4 = sum + 7 * v /\ sum \in Int /\ v \in Int
  BY <1>1, <1>3, <1>4, <1>6, SMTT(60) DEF FromMarch
<1> HIDE DEF v
<1>8. \A x, u \in Int : (x + 7 * u) % 7 = x % 7
  BY SMTT(60)
<1>9. (n + 4) % 7 = sum % 7
  BY <1>7, <1>8, SMT
<1>10. QED
  BY <1>2, <1>9 DEF n

------------------------------------------------------------------------------
(* The calendar of an NTP time. *)

OfADay(sec) == sec \in Nat /\ sec <= 86399

\* There and back again, an instant before 1970 has lost a second.
LEMMA ThereAndBack ==
  ASSUME NEW n \in Int, NEW sec, OfADay(sec),
         NEW i, i = IF n >= 0 \/ sec > 0 THEN [day |-> n, sec |-> IF n >= 0 THEN sec ELSE sec - 1]
                    ELSE [day |-> n - 1, sec |-> 86399]
  PROVE  FromNtp(TsToNtp([day |-> n, sec |-> sec])) =
           [day |-> CivilFromDays(i.day), time |-> Hms(i), weekday |-> (i.day + 4) % 7]
<1> DEFINE x == [day |-> n, sec |-> sec]
<1>1. sec \in Nat /\ sec <= 86399
  BY SMT DEF OfADay
<1>2. (IF x.day >= 0 THEN x ELSE SecondBefore(x)) = i
  <2>1. CASE n >= 0
    BY <2>1, <1>1, SMT
  <2>2. CASE n < 0 /\ sec > 0
    <3>1. x.sec = sec /\ x.sec # 0
      BY <1>1, <2>2, SMT
    <3>2. SecondBefore(x) = [x EXCEPT !.sec = @ - 1]
      <4> HIDE DEF x
      <4> QED BY <3>1, SMT DEF SecondBefore
    <3>5. [x EXCEPT !.sec = @ - 1] = [day |-> n, sec |-> sec - 1]
      BY SMT
    <3>3. i = [day |-> n, sec |-> sec - 1] /\ ~(x.day >= 0)
      BY <2>2, SMT
    <3>4. QED
      BY <3>2, <3>3, <3>5, SMT
  <2>3. CASE n < 0 /\ sec = 0
    <3>1. SecondBefore(x) = [day |-> n - 1, sec |-> 86399]
      BY <2>3, SMT DEF SecondBefore
    <3>2. i = [day |-> n - 1, sec |-> 86399] /\ ~(x.day >= 0)
      BY <2>3, SMT
    <3>3. QED
      BY <3>1, <3>2, SMT
  <2>4. QED
    BY <1>1, <2>1, <2>2, <2>3, SMT
<1>3. i.day \in Int /\ i = [day |-> i.day, sec |-> i.sec]
  BY SMT
<1>4. TsToNtp(x) = [day |-> i.day + 25567, sec |-> i.sec]
  BY <1>2, <1>3, SMT DEF TsToNtp, SinceNtpEpoch
<1>5. NtpToTs([day |-> i.day + 25567, sec |-> i.sec]) = [day |-> i.day, sec |-> i.sec]
  BY <1>3, SMT DEF NtpToTs
<1>6. NtpToTs(TsToNtp(x)) = i
  BY <1>3, <1>4, <1>5, SMT
<1> HIDE DEF x
<1>7. FromNtp(TsToNtp(x)) = [day |-> CivilFromDays(i.day), time |-> Hms(i), weekday |-> (i.day + 4) % 7]
  BY <1>6 DEF FromNtp, Ymd
<1>8. QED
  BY <1>7 DEF x

\* The time of day, of a day since 1970 or a second that is not its first.
LEMMA TimeOfDay ==
  ASSUME NEW n \in Int, NEW sec, OfADay(sec), n >= 0 \/ sec > 0
  PROVE  Hms([day |-> n, sec |-> sec]) = [h |-> sec \div 3600, mi |-> (sec % 3600) \div 60, s |-> sec % 60]
<1>1. sec \in Nat /\ sec <= 86399
  BY SMT DEF OfADay
<1>2. n < 0 => 86400 - ((86400 - sec) % 86400) = sec
  BY <1>1, SMTT(60)
<1>3. (IF n >= 0 THEN sec ELSE 86400 - ((86400 - sec) % 86400)) = sec
  BY <1>2, SMT
<1>4. QED
  BY <1>3, SMT DEF Hms

\* Before 1970 midnight is 24 o'clock.
LEMMA Midnight ==
  ASSUME NEW n \in Int, n < 0
  PROVE  Hms([day |-> n, sec |-> 0]).h = 24
<1>1. 86400 - ((86400 - 0) % 86400) = 86400 /\ 86400 \div 3600 = 24
  BY SMTT(60)
<1>2. Hms([day |-> n, sec |-> 0]).h = (86400 - ((86400 - 0) % 86400)) \div 3600
  BY SMT DEF Hms
<1>3. QED
  BY <1>1, <1>2, SMT

\* A date of the calendar, numbered right.
OnCalendar(t) == /\ t \in [y : Nat \ {0}, m : 1..12, d : 1..31, n : Int]
                 /\ t.d <= DaysOfMonth(t.y, t.m) /\ t.n = DayNumber(t.y, t.m, t.d)

\* The calendar of an NTP time of a date.
LEMMA NtpCalendar ==
  ASSUME NEW t, OnCalendar(t), NEW sec, OfADay(sec)
  PROVE  /\ t.n >= 0 => NtpDate(t, sec) = CalendarOf(t, sec)
         /\ t.n < 0 /\ sec > 1 => NtpDate(t, sec) = CalendarOf(t, sec - 1)
         /\ t.n < 0 /\ sec = 0 => NtpDate(t, sec).day = CivilFromDays(t.n - 1)
         /\ t.n < 0 /\ sec = 1 => NtpDate(t, sec).time.h = 24
<1> DEFINE y == t.y
           m == t.m
           d == t.d
           n == t.n
<1>0. /\ y \in Nat \ {0} /\ m \in 1..12 /\ d \in 1..31 /\ n \in Int
      /\ d <= DaysOfMonth(y, m) /\ n = DayNumber(y, m, d)
  BY SMT DEF OnCalendar
<1>3. t.n = n /\ t.y = y /\ t.m = m /\ t.d = d
  OBVIOUS
<1> HIDE DEF y, m, d, n
<1>1. n \in Int
  BY <1>0
<1>2. /\ CivilFromDays(n) = [y |-> y, m |-> m, d |-> d]
      /\ (n + 4) % 7 = Zeller(y, m, d)
  BY ONLY <1>0, CivilBack, Weekdays
<1>4. sec \in Nat /\ sec <= 86399
  BY SMT DEF OfADay
<1>5. \A k : CalendarOf(t, k) = [day |-> [y |-> y, m |-> m, d |-> d], weekday |-> Zeller(y, m, d),
                time |-> [h |-> k \div 3600, mi |-> (k % 3600) \div 60, s |-> k % 60]]
  BY <1>3, SMT DEF CalendarOf
<1>6. NtpDate(t, sec) = FromNtp(TsToNtp([day |-> n, sec |-> sec]))
  BY <1>3, Zenon DEF NtpDate
<1> DEFINE ToldAt(j) == [day |-> CivilFromDays(j.day), time |-> Hms(j), weekday |-> (j.day + 4) % 7]
<1>7. ASSUME NEW i, i = IF n >= 0 \/ sec > 0 THEN [day |-> n, sec |-> IF n >= 0 THEN sec ELSE sec - 1]
                        ELSE [day |-> n - 1, sec |-> 86399]
      PROVE  NtpDate(t, sec) = ToldAt(i)
  BY <1>1, <1>6, <1>7, ThereAndBack, SMT
<1>8. ASSUME NEW k, OfADay(k), n >= 0 \/ k > 0, NtpDate(t, sec) = ToldAt([day |-> n, sec |-> k])
      PROVE  NtpDate(t, sec) = CalendarOf(t, k)
  <2> DEFINE i == [day |-> n, sec |-> k]
  <2>1. Hms(i) = [h |-> k \div 3600, mi |-> (k % 3600) \div 60, s |-> k % 60]
    BY <1>1, <1>8, TimeOfDay, SMT
  <2>2. i.day = n
    OBVIOUS
  <2> HIDE DEF i
  <2>3. ToldAt(i) = [day |-> CivilFromDays(n), time |-> Hms(i), weekday |-> (n + 4) % 7]
    BY <2>2, SMT
  <2>4. ToldAt(i) = [day |-> [y |-> y, m |-> m, d |-> d], weekday |-> Zeller(y, m, d), time |-> Hms(i)]
    BY <1>2, <2>3, SMT
  <2> HIDE DEF ToldAt
  <2>5. NtpDate(t, sec) = ToldAt(i)
    BY <1>8 DEF i
  <2>6. QED
    BY <1>5, <2>1, <2>4, <2>5, SMT
<1> HIDE DEF ToldAt
<1>9. ASSUME n >= 0 PROVE NtpDate(t, sec) = CalendarOf(t, sec)
  <2>1. NtpDate(t, sec) = ToldAt([day |-> n, sec |-> sec])
    BY <1>1, <1>4, <1>7, <1>9, SMT
  <2>2. QED
    BY <1>8, <1>9, <2>1, SMT
<1>10. ASSUME n < 0, sec > 1 PROVE NtpDate(t, sec) = CalendarOf(t, sec - 1)
  <2>1. OfADay(sec - 1) /\ sec - 1 > 0
    BY <1>4, <1>10, SMT DEF OfADay
  <2>2. NtpDate(t, sec) = ToldAt([day |-> n, sec |-> sec - 1])
    BY <1>1, <1>4, <1>7, <1>10, SMT
  <2>3. QED
    BY <1>8, <2>1, <2>2, SMT
<1>11. ASSUME n < 0, sec = 0 PROVE NtpDate(t, sec).day = CivilFromDays(n - 1)
  <2>1. NtpDate(t, sec) = ToldAt([day |-> n - 1, sec |-> 86399])
    BY <1>1, <1>7, <1>11, SMT
  <2>2. QED
    BY <2>1, SMT DEF ToldAt
<1>12. ASSUME n < 0, sec = 1 PROVE NtpDate(t, sec).time.h = 24
  <2>1. NtpDate(t, sec) = ToldAt([day |-> n, sec |-> 0])
    BY <1>1, <1>7, <1>12, SMT
  <2>2. NtpDate(t, sec).time = Hms([day |-> n, sec |-> 0])
    BY <2>1, SMT DEF ToldAt
  <2>3. QED
    BY <1>1, <1>12, <2>2, Midnight, SMT
<1>13. QED
  BY <1>3, <1>9, <1>10, <1>11, <1>12, SMT

------------------------------------------------------------------------------
(* A walk through the calendar. *)

\* The day after a date of the calendar is one, and its number the next.
LEMMA NextDay ==
  ASSUME NEW t, OnCalendar(t)
  PROVE  OnCalendar(Tomorrow(t))
<1> DEFINE y == t.y
           m == t.m
           d == t.d
<1>1. /\ y \in Nat \ {0} /\ m \in 1..12 /\ d \in 1..31 /\ t.n \in Int
      /\ d <= DaysOfMonth(y, m) /\ t.n = DayNumber(y, m, d)
      /\ t = [y |-> y, m |-> m, d |-> d, n |-> t.n]
  BY SMT DEF OnCalendar
<1> HIDE DEF y, m, d
<1>2. /\ YearStart(y) \in Int /\ MonthOf(y, m) \in Nat
      /\ t.n = YearStart(y) + MonthOf(y, m) + d - 1
  BY ONLY <1>1, DayOfYear
<1>3. DaysOfMonth(y, m) = IF m = 2 THEN (IF LeapYear(y) THEN 29 ELSE 28)
                          ELSE IF m \in {4, 6, 9, 11} THEN 30 ELSE 31
  BY ONLY <1>1, MonthFacts
<1>4. ASSUME NEW z \in Nat \ {0}, NEW k \in 1..12, NEW u \in 1..31, u <= DaysOfMonth(z, k),
             YearStart(z) + MonthOf(z, k) + u = YearStart(y) + MonthOf(y, m) + d + 1,
             Tomorrow(t) = [y |-> z, m |-> k, d |-> u, n |-> t.n + 1]
      PROVE  OnCalendar(Tomorrow(t))
  <2>1. /\ YearStart(z) \in Int /\ MonthOf(z, k) \in Nat
        /\ DayNumber(z, k, u) = YearStart(z) + MonthOf(z, k) + u - 1
    BY DayOfYear
  <2>2. t.n + 1 = DayNumber(z, k, u) /\ t.n + 1 \in Int
    BY <1>1, <1>2, <1>4, <2>1, SMT
  <2>3. QED
    BY <1>4, <2>2, SMT DEF OnCalendar
<1>5. CASE d < DaysOfMonth(y, m)
  <2>1. Tomorrow(t) = [y |-> y, m |-> m, d |-> d + 1, n |-> t.n + 1]
    <3>1. t.d < DaysOfMonth(t.y, t.m) /\ t.d # DaysOfMonth(t.y, t.m)
      BY <1>1, <1>3, <1>5, SMT DEF y, m, d
    <3>2. QED
      BY <3>1, SMT DEF Tomorrow, y, m, d
  <2>2. d + 1 \in 1..31 /\ d + 1 <= DaysOfMonth(y, m) /\ m \in 1..12 /\ y \in Nat \ {0}
    BY <1>1, <1>3, <1>5, SMT
  <2>3. YearStart(y) + MonthOf(y, m) + (d + 1) = YearStart(y) + MonthOf(y, m) + d + 1
    BY <1>1, <1>2, SMT
  <2>4. QED
    BY ONLY <1>4, <2>1, <2>2, <2>3
<1>6. CASE d = DaysOfMonth(y, m) /\ m < 12
  <2>1. Tomorrow(t) = [y |-> y, m |-> m + 1, d |-> 1, n |-> t.n + 1]
    <3>1. ~(t.d < DaysOfMonth(t.y, t.m)) /\ t.m < 12 /\ t.d = DaysOfMonth(t.y, t.m)
      BY <1>1, <1>6, SMT DEF y, m, d
    <3>2. QED
      BY <3>1, SMT DEF Tomorrow, y, m
  <2>2. m + 1 \in 1..12 /\ 1 \in 1..31 /\ y \in Nat \ {0}
    BY <1>1, <1>6, SMT
  <2>3. 1 <= DaysOfMonth(y, m + 1) /\ MonthOf(y, m + 1) = MonthOf(y, m) + d
    <3>1. \/ m = 1 \/ m = 2 \/ m = 3 \/ m = 4 \/ m = 5 \/ m = 6
          \/ m = 7 \/ m = 8 \/ m = 9 \/ m = 10 \/ m = 11
      BY <1>1, <1>6, SMT
    <3>2. DaysOfMonth(y, m + 1) = IF m + 1 = 2 THEN (IF LeapYear(y) THEN 29 ELSE 28)
                                  ELSE IF m + 1 \in {4, 6, 9, 11} THEN 30 ELSE 31
      BY ONLY <1>1, <2>2, MonthFacts
    <3>3. MonthOf(y, m + 1) = MonthOf(y, m) + d
      BY <1>3, <1>6, <3>1, SMT DEF MonthOf, MonthStart
    <3>4. QED
      BY <3>2, <3>3, SMT
  <2>4. YearStart(y) + MonthOf(y, m + 1) + 1 = YearStart(y) + MonthOf(y, m) + d + 1
    BY <1>1, <1>2, <2>3, SMT
  <2>5. QED
    BY ONLY <1>4, <2>1, <2>2, <2>3, <2>4
<1>7. CASE d = DaysOfMonth(y, m) /\ m = 12
  <2>1. Tomorrow(t) = [y |-> y + 1, m |-> 1, d |-> 1, n |-> t.n + 1]
    <3>1. ~(t.d < DaysOfMonth(t.y, t.m)) /\ ~(t.m < 12) /\ t.d = DaysOfMonth(t.y, t.m)
      BY <1>1, <1>7, SMT DEF y, m, d
    <3>2. QED
      BY <3>1, SMT DEF Tomorrow, y
  <2>2. y + 1 \in Nat \ {0} /\ 1 \in 1..12 /\ 1 \in 1..31
    BY <1>1, SMT
  <2>3. 1 <= DaysOfMonth(y + 1, 1)
    <3>1. DaysOfMonth(y + 1, 1) = IF 1 = 2 THEN (IF LeapYear(y + 1) THEN 29 ELSE 28)
                                  ELSE IF 1 \in {4, 6, 9, 11} THEN 30 ELSE 31
      BY ONLY <2>2, MonthFacts
    <3>2. QED
      BY <3>1, SMT
  <2>4. YearStart(y + 1) + MonthOf(y + 1, 1) + 1 = YearStart(y) + MonthOf(y, m) + d + 1
    <3>1. /\ LeapDays(y) \in Nat /\ LeapDays(y - 1) \in Nat
          /\ LeapDays(y) = LeapDays(y - 1) + IF LeapYear(y) THEN 1 ELSE 0
      BY <1>1, LeapsStep
    <3>2. y + 1 - 1 = y
      BY <1>1, SMT
    <3>7. YearStart(y + 1) = 365 * (y + 1 - 1970) + LeapDays(y + 1 - 1) - 477
      BY <1>1, SMT DEF YearStart
    <3>8. LeapDays(y + 1 - 1) = LeapDays(y)
      BY ONLY <3>2
    <3>3. YearStart(y + 1) = 365 * (y + 1 - 1970) + LeapDays(y) - 477
      BY <3>7, <3>8, SMT
    <3>4. YearStart(y) = 365 * (y - 1970) + LeapDays(y - 1) - 477
      BY SMT DEF YearStart
    <3>5. MonthOf(y + 1, 1) = 0 /\ MonthOf(y, 12) = 334 + (IF LeapYear(y) THEN 1 ELSE 0) /\ d = 31
      BY <1>3, <1>7, SMT DEF MonthOf, MonthStart
    <3>6. YearStart(y + 1) + MonthOf(y + 1, 1) + 1 = YearStart(y) + MonthOf(y, 12) + d + 1
      BY <1>1, <3>1, <3>3, <3>4, <3>5, SMT
    <3>9. QED
      BY ONLY <1>7, <3>6
  <2>5. QED
    BY ONLY <1>4, <2>1, <2>2, <2>3, <2>4
<1>8. QED
  BY <1>1, <1>3, <1>5, <1>6, <1>7, SMT

\* On every date the routines agree.
LEMMA RoutinesAgree ==
  ASSUME NEW t, OnCalendar(t)
  PROVE  DaysAgree(t) /\ EngineStrays(t) /\ NtpDatesAgree(t)
<1> DEFINE y == t.y
           m == t.m
           d == t.d
           n == t.n
<1>1. /\ y \in Nat \ {0} /\ m \in 1..12 /\ d \in 1..31 /\ n \in Int
      /\ d <= DaysOfMonth(y, m) /\ n = DayNumber(y, m, d)
      /\ t = [y |-> y, m |-> m, d |-> d, n |-> n]
  BY SMT DEF OnCalendar
<1> HIDE DEF y, m, d, n
<1> DEFINE yday == JulianDays(y, m, d) - JulianDays(y, 1, 1) + 1
<1>2. DaysFromCivil(y, m, d) = n /\ CivilDays(y, m, d) = n /\ JulianDays(y, m, d) = n
  BY ONLY <1>1, CivilCounts, ParserCounts, JulianCounts
<1>3. n >= 0 => DateDays(y, m, d) = n /\ YdayDays(y, yday) = n
  <2>1. n >= 0 => Since1970(y)
    BY ONLY <1>1, SinceTheEpoch
  <2>2. Since1970(y) => DateDays(y, m, d) = n /\ YdayDays(y, yday) = n
    BY ONLY <1>1, DriversCount
  <2>3. QED
    BY <2>1, <2>2
<1>4. CivilFromDays(n) = [y |-> y, m |-> m, d |-> d]
  BY ONLY <1>1, CivilBack
<1>5. yday = MonthOf(y, m) + d
  BY ONLY <1>1, DayOfYear
<1> HIDE DEF yday
<1>6. YmdToYd(y, m, d) = yday
  <2>1. d \in Nat
    BY <1>1, SMT
  <2>2. QED
    BY <1>1, <1>5, <2>1, YdCounts
<1>7. YdToYmd(y, yday) = <<m, d>>
  BY ONLY <1>1, <1>5, YdBack
<1>8. DaysAgree(t)
  BY <1>2, <1>3, <1>4, <1>6, <1>7, Zenon DEF DaysAgree, y, m, d, n, yday
<1>9. ASSUME NEW sec, OfADay(sec)
      PROVE  /\ n >= 0 => NtpDate(t, sec) = CalendarOf(t, sec)
             /\ n < 0 /\ sec > 1 => NtpDate(t, sec) = CalendarOf(t, sec - 1)
             /\ n < 0 /\ sec = 0 => NtpDate(t, sec).day = CivilFromDays(n - 1)
             /\ n < 0 /\ sec = 1 => NtpDate(t, sec).time.h = 24
  <2>2. /\ t.n >= 0 => NtpDate(t, sec) = CalendarOf(t, sec)
        /\ t.n < 0 /\ sec > 1 => NtpDate(t, sec) = CalendarOf(t, sec - 1)
        /\ t.n < 0 /\ sec = 0 => NtpDate(t, sec).day = CivilFromDays(t.n - 1)
        /\ t.n < 0 /\ sec = 1 => NtpDate(t, sec).time.h = 24
    BY <1>9, NtpCalendar
  <2>3. QED
    BY <2>2 DEF n
<1>10. OfADay(0) /\ OfADay(1) /\ OfADay(2) /\ OfADay(43200) /\ OfADay(86399)
  BY SMT DEF OfADay
<1>11. n >= 0 \/ n < 0
  BY <1>1, SMT
<1>12. \A sec \in {2, 43200, 86399} : NtpDate(t, sec) = CalendarOf(t, IF n >= 0 THEN sec ELSE sec - 1)
  BY <1>9, <1>10, <1>11, SMT
<1>13. \A sec \in {0, 1} :
         IF n >= 0 THEN NtpDate(t, sec) = CalendarOf(t, sec)
         ELSE IF sec = 0 THEN NtpDate(t, sec).day = CivilFromDays(n - 1) ELSE NtpDate(t, sec).time.h = 24
  BY <1>1, <1>9, <1>10, SMT
<1>14. NtpDatesAgree(t)
  BY <1>12, <1>13, SMT DEF NtpDatesAgree, n
<1>15. TimecodeDays(y, m, d) = n - Astray(y, m)
  BY ONLY <1>1, EngineCounts
<1>16. EngineStrays(t)
  <2>1. (IF m > 2 THEN y ELSE y - 1) \div 400 \in Int
    BY <1>1, SMT
  <2>2. TimecodeDays(y, m, d) = n - 59 - 146097 * ((IF m > 2 THEN y ELSE y - 1) \div 400 - 4)
    BY <1>1, <1>15, <2>1, SMT DEF Astray
  <2>3. QED
    BY <2>2 DEF EngineStrays, y, m, d, n
<1>17. QED
  BY <1>8, <1>14, <1>16

(* Every routine but the engine's counts the days of a date right, and     *)
(* back, from any date of the calendar on, as far as the walk goes, and    *)
(* the engine's is as wrong as EngineStrays says: Hinnant's, the sum over  *)
(* years and months, the sum over years and the day of the year, the       *)
(* Julian day number; and NtpCalendar tells the date, the day of the week  *)
(* and, of an instant since 1970, the time (refclock drivers, parse,       *)
(* ntp_filegen, ntpdig, daemon_engine, ntp_calendar, ntp_fp).              *)
THEOREM CalendarsCountAlike == TimeSpec => []CalendarsAgree
<1>1. TimeInit => OnCalendar(date)
  BY TimeAssumption DEF TimeInit, OnCalendar
<1>2. OnCalendar(date) /\ [TimeNext]_timeVars => OnCalendar(date)'
  <2>1. SUFFICES ASSUME OnCalendar(date), [TimeNext]_timeVars PROVE OnCalendar(date)'
    OBVIOUS
  <2>2. CASE NextDate
    <3>1. OnCalendar(Tomorrow(date)) /\ date' = Tomorrow(date)
      BY <2>1, <2>2, NextDay DEF NextDate
    <3>2. QED
      BY <3>1 DEF OnCalendar
  <2>3. CASE Shows
    BY <2>1, <2>3 DEF Shows, OnCalendar
  <2>4. CASE UNCHANGED timeVars
    BY <2>1, <2>4 DEF timeVars, OnCalendar
  <2>5. QED
    BY <2>1, <2>2, <2>3, <2>4 DEF TimeNext
<1>3. OnCalendar(date) => CalendarsAgree
  BY RoutinesAgree DEF CalendarsAgree
<1>4. QED
  BY <1>1, <1>2, <1>3, PTL DEF TimeSpec

------------------------------------------------------------------------------
(* Fixed-width formats. *)

\* The letters and the fields they set.
LEMMA LetterFacts ==
  /\ DOMAIN Letters = {"Y", "y", "M", "D", "h", "m", "s"}
  /\ Letters["Y"] = "y" /\ Letters["y"] = "y" /\ Letters["M"] = "m" /\ Letters["D"] = "d"
  /\ Letters["h"] = "h" /\ Letters["m"] = "mi" /\ Letters["s"] = "s"
BY SMT DEF Letters

\* The groups of the letters, one letter at a time.
LEMMA WidthStep ==
  ASSUME NEW fmt \in Seq(DOMAIN Letters), NEW i \in DOMAIN fmt
  PROVE  /\ Widths(fmt, i - 1) \in Nat /\ Widths(fmt, i) \in Nat
         /\ Widths(fmt, i) = Widths(fmt, i - 1) + Groups(fmt[i])
         /\ Groups(fmt[i]) \in 1..2
<1> DEFINE f == [j \in DOMAIN fmt |-> Groups(fmt[j])]
           S == {k \in 0..Len(fmt) : SumFunctionOnSet(f, 1..k) \in Nat}
<1>1. /\ Len(fmt) \in Nat /\ DOMAIN fmt = 1..Len(fmt)
      /\ \A j \in DOMAIN fmt : f[j] \in Nat /\ Groups(fmt[j]) \in 1..2
  BY SMT DEF Groups
<1>2. f[i] = Groups(fmt[i]) /\ i \in 1..Len(fmt)
  BY <1>1
<1>3. \A k : Widths(fmt, k) = SumFunctionOnSet(f, 1..k)
  BY DEF Widths
<1> HIDE DEF f
<1>4. ASSUME NEW k \in 1..Len(fmt)
      PROVE  SumFunctionOnSet(f, 1..k) = f[k] + SumFunctionOnSet(f, 1..(k - 1))
  <2>1. 1 \in Int /\ k \in Int /\ 1 <= k /\ \A x \in 1..k : f[x] \in Int
    BY <1>1, SMT
  <2>2. QED
    BY <2>1, SumUpTo
<1>5. 0 \in S
  <2>1. 1..0 = {}
    BY SMT
  <2>2. SumFunctionOnSet(f, 1..0) = 0
    BY <2>1, SumNone
  <2>3. QED
    BY <1>1, <2>2, SMT
<1>6. ASSUME NEW k \in 1..Len(fmt), k - 1 \in S PROVE k \in S
  <2>1. f[k] \in Nat
    BY <1>1
  <2>2. QED
    BY <1>1, <1>4, <1>6, <2>1, SMT
<1>7. \A k \in 0..Len(fmt) : k \in S
  <2> HIDE DEF S
  <2> QED BY <1>1, <1>5, <1>6, Climb
<1>8. SumFunctionOnSet(f, 1..(i - 1)) \in Nat /\ SumFunctionOnSet(f, 1..i) \in Nat
  <2>1. i - 1 \in 0..Len(fmt) /\ i \in 0..Len(fmt)
    BY <1>1, <1>2, SMT
  <2>2. QED
    BY <1>7, <2>1
<1>9. SumFunctionOnSet(f, 1..i) = f[i] + SumFunctionOnSet(f, 1..(i - 1))
  BY <1>2, <1>4
<1>10. Widths(fmt, i - 1) = SumFunctionOnSet(f, 1..(i - 1)) /\ Widths(fmt, i) = SumFunctionOnSet(f, 1..i)
  BY <1>3
<1>11. Groups(fmt[i]) \in 1..2
  BY <1>1
<1> DEFINE p == Widths(fmt, i - 1)
           q == Widths(fmt, i)
           w == Groups(fmt[i])
<1>12. p \in Nat /\ q \in Nat /\ q = w + p /\ w \in 1..2
  BY <1>2, <1>8, <1>9, <1>10, <1>11
<1> HIDE DEF p, q, w
<1>13. q = p + w
  BY <1>12, SMT
<1>14. QED
  BY <1>12, <1>13 DEF p, q, w

\* A later letter has later groups.
LEMMA WidthsGrow ==
  ASSUME NEW fmt \in Seq(DOMAIN Letters), NEW i \in 0..Len(fmt), NEW j \in DOMAIN fmt, i < j
  PROVE  Widths(fmt, i) \in Nat /\ Widths(fmt, i) <= Widths(fmt, j - 1)
<1>1. Len(fmt) \in Nat /\ DOMAIN fmt = 1..Len(fmt)
  BY SMT
<1> DEFINE n == j - 1 - i
           W(k) == Widths(fmt, i + k)
           S == {k \in 0..n : W(k) \in Nat /\ W(0) <= W(k)}
<1>2. n \in Nat /\ \A k \in 1..n : i + k \in DOMAIN fmt /\ i + k - 1 = i + (k - 1)
  BY <1>1, SMT
<1>3. Widths(fmt, i) \in Nat
  <2>1. i + 1 \in DOMAIN fmt /\ i + 1 - 1 = i
    BY <1>1, SMT
  <2>2. Widths(fmt, i + 1 - 1) \in Nat
    BY <2>1, WidthStep
  <2>3. QED
    BY <2>1, <2>2
<1>4. W(0) = Widths(fmt, i) /\ W(n) = Widths(fmt, j - 1)
  <2>1. i + 0 = i /\ i + n = j - 1
    BY <1>1, SMT
  <2>2. QED
    BY <2>1
<1>5. \A k \in 1..n : /\ W(k - 1) \in Nat /\ W(k) \in Nat /\ W(k) = W(k - 1) + Groups(fmt[i + k])
                      /\ Groups(fmt[i + k]) \in 1..2
  <2>1. ASSUME NEW k \in 1..n
        PROVE  /\ W(k - 1) \in Nat /\ W(k) \in Nat /\ W(k) = W(k - 1) + Groups(fmt[i + k])
               /\ Groups(fmt[i + k]) \in 1..2
    <3> DEFINE h == i + k
    <3>1. h \in DOMAIN fmt /\ h - 1 = i + (k - 1)
      BY <1>2
    <3> HIDE DEF h
    <3>2. /\ Widths(fmt, h - 1) \in Nat /\ Widths(fmt, h) \in Nat
          /\ Widths(fmt, h) = Widths(fmt, h - 1) + Groups(fmt[h]) /\ Groups(fmt[h]) \in 1..2
      BY <3>1, WidthStep
    <3>3. Widths(fmt, h - 1) = W(k - 1)
      BY <3>1
    <3>4. QED
      BY <3>2, <3>3 DEF h
  <2>2. QED
    BY <2>1
<1> HIDE DEF W, n
<1>6. 0 \in S
  BY <1>2, <1>3, <1>4, SMT
<1>7. ASSUME NEW k \in 1..n, k - 1 \in S PROVE k \in S
  <2>1. /\ W(k - 1) \in Nat /\ W(k) \in Nat /\ W(k) = W(k - 1) + Groups(fmt[i + k])
        /\ Groups(fmt[i + k]) \in 1..2
    BY <1>5
  <2>2. QED
    BY <1>2, <1>3, <1>4, <1>7, <2>1, SMT
<1>8. \A k \in 0..n : k \in S
  <2> HIDE DEF S
  <2> QED BY <1>2, <1>6, <1>7, Climb
<1>9. n \in S
  BY <1>2, <1>8, SMT
<1>10. W(0) <= W(n)
  BY <1>9
<1>11. QED
  BY <1>3, <1>4, <1>10

\* What a clock prints for a letter is found in the groups of that letter.
LEMMA PrintedGroups ==
  ASSUME NEW fmt \in Seq(DOMAIN Letters), NEW t, NEW c, NEW i \in DOMAIN fmt, NEW k \in GroupsOf(fmt, i)
  PROVE  /\ k \in 1..Widths(fmt, Len(fmt)) /\ Widths(fmt, Len(fmt)) \in Nat
         /\ Printed(fmt, t, c)[k] = Digits(fmt[i], k = Widths(fmt, i - 1) + 1, t, c)
<1>1. Len(fmt) \in Nat /\ DOMAIN fmt = 1..Len(fmt) /\ i \in 1..Len(fmt)
  BY SMT
<1>2. \A j \in DOMAIN fmt : /\ Widths(fmt, j - 1) \in Nat /\ Widths(fmt, j) \in Nat
                            /\ Widths(fmt, j) = Widths(fmt, j - 1) + Groups(fmt[j]) /\ Groups(fmt[j]) \in 1..2
  BY WidthStep
<1>3. k \in Int /\ k >= Widths(fmt, i - 1) + 1 /\ k <= Widths(fmt, i)
  BY <1>2, SMT DEF GroupsOf
<1>4. k \in 1..Widths(fmt, Len(fmt)) /\ Widths(fmt, Len(fmt)) \in Nat
  <2> DEFINE n == Len(fmt)
  <2>1. n \in DOMAIN fmt
    BY <1>1, SMT
  <2>2. i < n => Widths(fmt, i) <= Widths(fmt, n - 1)
    <3>1. i \in 0..Len(fmt)
      BY <1>1, SMT
    <3> HIDE DEF n
    <3>2. QED
      BY <2>1, <3>1, WidthsGrow
  <2>3. i = n \/ i < n
    BY <1>1, SMT
  <2>4. /\ Widths(fmt, n - 1) \in Nat /\ Widths(fmt, n) \in Nat
        /\ Widths(fmt, n) = Widths(fmt, n - 1) + Groups(fmt[n]) /\ Groups(fmt[n]) \in 1..2
    BY <1>2, <2>1
  <2>5. Widths(fmt, i) \in Nat /\ Widths(fmt, i - 1) \in Nat
    BY <1>2
  <2> HIDE DEF n
  <2>6. k <= Widths(fmt, n) /\ k >= 1
    BY <1>3, <2>2, <2>3, <2>4, <2>5, SMT
  <2>7. k \in 1..Widths(fmt, n) /\ Widths(fmt, n) \in Nat
    BY <1>3, <2>4, <2>6, SMT
  <2>8. QED
    BY <2>7 DEF n
<1>5. ASSUME NEW j \in DOMAIN fmt, k \in GroupsOf(fmt, j) PROVE j = i
  <2>1. k >= Widths(fmt, j - 1) + 1 /\ k <= Widths(fmt, j)
    BY <1>2, <1>5, SMT DEF GroupsOf
  <2>2. i \in 0..Len(fmt) /\ j \in 0..Len(fmt) /\ j \in Int /\ i \in Int
    BY <1>1, SMT
  <2>3. i < j => Widths(fmt, i) <= Widths(fmt, j - 1)
    BY <2>2, WidthsGrow
  <2>4. j < i => Widths(fmt, j) <= Widths(fmt, i - 1)
    BY <2>2, WidthsGrow
  <2>5. /\ Widths(fmt, i) \in Nat /\ Widths(fmt, i - 1) \in Nat
        /\ Widths(fmt, j) \in Nat /\ Widths(fmt, j - 1) \in Nat
    BY <1>2
  <2>6. ~(i < j) /\ ~(j < i)
    BY <1>3, <2>1, <2>3, <2>4, <2>5, SMT
  <2>7. QED
    BY <2>2, <2>6, SMT
<1>6. (CHOOSE j \in DOMAIN fmt : k \in GroupsOf(fmt, j)) = i
  BY <1>5, Zenon
<1>7. Printed(fmt, t, c)[k] =
        Digits(fmt[CHOOSE j \in DOMAIN fmt : k \in GroupsOf(fmt, j)],
               k = Widths(fmt, (CHOOSE j \in DOMAIN fmt : k \in GroupsOf(fmt, j)) - 1) + 1, t, c)
  BY <1>4, Zenon DEF Printed
<1>8. QED
  BY <1>4, <1>6, <1>7

\* A number a clock prints for a letter is one.
Clocked(c) == c \in [h : 0..23, mi : 0..60, s : 0..60, digits : Seq(0..9)]
LEMMA DigitsAreNumbers ==
  ASSUME NEW t, OnCalendar(t), NEW c, Clocked(c), NEW l \in DOMAIN Letters, NEW first \in BOOLEAN
  PROVE  Digits(l, first, t, c) \in Int
<1>1. t.y \in Nat /\ t.m \in Int /\ t.d \in Int /\ c.h \in Int /\ c.mi \in Int /\ c.s \in Int
  <2>1. t.y \in Nat \ {0} /\ t.m \in 1..12 /\ t.d \in 1..31
    BY DEF OnCalendar
  <2>2. c.h \in 0..23 /\ c.mi \in 0..60 /\ c.s \in 0..60
    BY DEF Clocked
  <2>3. QED
    BY <2>1, <2>2, SMT
<1>2. t.y \div 100 \in Int /\ t.y % 100 \in Int
  BY <1>1, SMT
<1>3. QED
  BY <1>1, <1>2, LetterFacts, Zenon DEF Digits

\* The largest of one, and the least.
LEMMA MaxOfOne == ASSUME NEW i \in Int PROVE Max({i}) = i /\ Min({i}) = i
BY SMT DEF Max, Min

\* Of a sound format the letter of a field is read from its groups.
LEMMA FieldRead ==
  ASSUME NEW fmt, Sound(fmt), NEW t, NEW c, NEW i \in DOMAIN fmt
  PROVE  Value(fmt, Printed(fmt, t, c), Letters[fmt[i]]) =
           IF fmt[i] = "Y" THEN Digits("Y", TRUE, t, c) * 100 + Digits("Y", FALSE, t, c)
           ELSE IF fmt[i] = "y" THEN Year4At70(Digits("y", TRUE, t, c)) ELSE Digits(fmt[i], TRUE, t, c)
<1> DEFINE gs == Printed(fmt, t, c)
           p == Widths(fmt, i - 1) + 1
           f == Letters[fmt[i]]
           l == fmt[i]
<1>1. fmt \in Seq(DOMAIN Letters) /\ \A j \in DOMAIN fmt : Letters[fmt[j]] = Letters[fmt[i]] => j = i
  BY DEF Sound
<1>2. LettersFor(fmt, f) = {i}
  BY <1>1 DEF LettersFor
<1>3. i \in Int
  BY <1>1, SMT
<1>4. Max({i}) = i
  BY <1>3, MaxOfOne
<1>5. Value(fmt, gs, f) = FieldValue(l, gs, p)
  BY <1>2, <1>4, Zenon DEF Value
<1>6. /\ Widths(fmt, i - 1) \in Nat /\ Widths(fmt, i) = Widths(fmt, i - 1) + Groups(l)
  BY <1>1, WidthStep
<1>7. /\ p \in GroupsOf(fmt, i)
      /\ l = "Y" => p + 1 \in GroupsOf(fmt, i) /\ (p + 1 = Widths(fmt, i - 1) + 1) = FALSE
  BY <1>6, SMT DEF GroupsOf, Groups
<1>8. gs[p] = Digits(l, TRUE, t, c)
  <2>1. gs[p] = Digits(l, p = Widths(fmt, i - 1) + 1, t, c)
    <3> DEFINE k == p
    <3>1. k \in GroupsOf(fmt, i)
      BY <1>7
    <3> HIDE DEF k
    <3>2. Printed(fmt, t, c)[k] = Digits(fmt[i], k = Widths(fmt, i - 1) + 1, t, c)
      BY <1>1, <3>1, PrintedGroups
    <3>3. QED
      BY <3>2 DEF k
  <2>2. (p = Widths(fmt, i - 1) + 1) = TRUE
    OBVIOUS
  <2>3. QED
    BY <2>1, <2>2, Zenon
<1>9. l = "Y" => gs[p + 1] = Digits("Y", FALSE, t, c)
  <2>1. SUFFICES ASSUME l = "Y" PROVE gs[p + 1] = Digits("Y", FALSE, t, c)
    OBVIOUS
  <2> DEFINE k == p + 1
  <2>2. k \in GroupsOf(fmt, i) /\ (k = Widths(fmt, i - 1) + 1) = FALSE
    BY <1>7, <2>1
  <2> HIDE DEF k
  <2>3. Printed(fmt, t, c)[k] = Digits(fmt[i], k = Widths(fmt, i - 1) + 1, t, c)
    BY <1>1, <2>2, PrintedGroups
  <2>4. Printed(fmt, t, c)[k] = Digits("Y", FALSE, t, c)
    BY <2>1, <2>2, <2>3
  <2>5. QED
    BY <2>4 DEF k
<1> HIDE DEF gs, p, l
<1>10. l = "Y" \/ l = "y" \/ (l # "Y" /\ l # "y")
  OBVIOUS
<1>11. FieldValue(l, gs, p) =
           IF l = "Y" THEN gs[p] * 100 + gs[p + 1] ELSE IF l = "y" THEN Year4At70(gs[p]) ELSE gs[p]
  BY <1>10, SMT DEF FieldValue
<1>12. FieldValue(l, gs, p) =
           IF l = "Y" THEN Digits("Y", TRUE, t, c) * 100 + Digits("Y", FALSE, t, c)
           ELSE IF l = "y" THEN Year4At70(Digits("y", TRUE, t, c)) ELSE Digits(l, TRUE, t, c)
  BY <1>8, <1>9, <1>10, <1>11, Zenon
<1>13. QED
  BY <1>5, <1>12 DEF gs, p, l

\* A year of four digits is the year, one of two from 1970 to 2069.
LEMMA YearRead ==
  ASSUME NEW y \in Nat
  PROVE  /\ (y \div 100) * 100 + (y % 100) = y
         /\ y \in 1970..2069 => Year4At70(y % 100) = y
<1>1. (y \div 100) * 100 + (y % 100) = y
  <2> DEFINE q == y \div 100
             r == y % 100
  <2>1. q \in Int /\ r \in Int /\ y = 100 * q + r
    BY SMTT(60)
  <2> HIDE DEF q, r
  <2>2. q * 100 + r = y
    BY <2>1, SMT
  <2>3. QED
    BY <2>2 DEF q, r
<1>2. ASSUME y >= 1970, y <= 2069 PROVE Year4At70(y % 100) = y
  <2>1. y % 100 = IF y < 2000 THEN y - 1900 ELSE y - 2000
    BY <1>2, SMT
  <2>2. QED
    BY <1>2, <2>1, SMT DEF Year4At70
<1>3. QED
  BY <1>1, <1>2, SMT

\* A line has as many groups as its format.
LEMMA PrintedLength ==
  ASSUME NEW fmt \in Seq(DOMAIN Letters), NEW t, NEW c
  PROVE  Widths(fmt, Len(fmt)) \in Nat /\ Len(Printed(fmt, t, c)) = Widths(fmt, Len(fmt))
<1>1. Len(fmt) \in Nat /\ DOMAIN fmt = 1..Len(fmt)
  BY SMT
<1>2. Widths(fmt, Len(fmt)) \in Nat
  <2>1. CASE Len(fmt) = 0
    <3>1. 1..Len(fmt) = {}
      BY <2>1, SMT
    <3>2. Widths(fmt, Len(fmt)) = 0
      BY <3>1, SumNone DEF Widths
    <3>3. QED
      BY <3>2, SMT
  <2>2. CASE Len(fmt) # 0
    <3> DEFINE n == Len(fmt)
    <3>1. n \in DOMAIN fmt
      BY <1>1, <2>2, SMT
    <3> HIDE DEF n
    <3>2. Widths(fmt, n) \in Nat
      BY <3>1, WidthStep
    <3>3. QED
      BY <3>2 DEF n
  <2>3. QED
    BY <2>1, <2>2
<1> DEFINE n == Widths(fmt, Len(fmt))
           g(k) == LET i == CHOOSE i \in DOMAIN fmt : k \in GroupsOf(fmt, i)
                   IN  Digits(fmt[i], k = Widths(fmt, i - 1) + 1, t, c)
<1>3. Printed(fmt, t, c) = [k \in 1..n |-> g(k)]
  BY Zenon DEF Printed
<1>4. n \in Nat
  BY <1>2
<1> HIDE DEF n, g
<1>5. Len([k \in 1..n |-> g(k)]) = n
  BY <1>4, SMT
<1>6. QED
  BY <1>2, <1>3, <1>5 DEF n

\* What a format of one letter for each field reads of a line it wrote.
LEMMA FieldsRead ==
  ASSUME NEW fmt, Sound(fmt), NEW t, OnCalendar(t), NEW c, Clocked(c), c.mi <= 59
  PROVE  LET V(f) == Value(fmt, Printed(fmt, t, c), f) IN
         /\ V("m") \in 1..12 /\ V("d") \in 1..31 /\ V("h") <= 23 /\ V("mi") <= 59 /\ V("s") <= 60
         /\ \A i \in DOMAIN fmt : /\ fmt[i] = "D" => V("d") = t.d
                                  /\ fmt[i] = "s" => V("s") = c.s
                                  /\ fmt[i] = "Y" => V("y") = t.y
                                  /\ fmt[i] = "y" /\ t.y \in 1970..2069 => V("y") = t.y
<1> DEFINE V(f) == Value(fmt, Printed(fmt, t, c), f)
<1>1. /\ t.y \in Nat /\ t.m \in 1..12 /\ t.d \in 1..31
      /\ c.h \in 0..23 /\ c.mi \in 0..60 /\ c.s \in 0..60
  <2>1. t.y \in Nat /\ t.m \in 1..12 /\ t.d \in 1..31
    BY DEF OnCalendar
  <2>2. c.h \in 0..23 /\ c.mi \in 0..60 /\ c.s \in 0..60
    BY DEF Clocked
  <2>3. QED
    BY <2>1, <2>2
<1>2. \A i \in DOMAIN fmt : fmt[i] \in DOMAIN Letters
  BY SMT DEF Sound
<1>3. \A f : LettersFor(fmt, f) = {} => V(f) = IF f \in {"m", "d"} THEN 1 ELSE 0
  BY Zenon DEF Value
<1> HIDE DEF V
<1>4. ASSUME NEW i \in DOMAIN fmt
      PROVE  V(Letters[fmt[i]]) =
               IF fmt[i] = "Y" THEN Digits("Y", TRUE, t, c) * 100 + Digits("Y", FALSE, t, c)
               ELSE IF fmt[i] = "y" THEN Year4At70(Digits("y", TRUE, t, c)) ELSE Digits(fmt[i], TRUE, t, c)
  BY FieldRead DEF V
<1>5. ASSUME NEW i \in DOMAIN fmt
      PROVE  /\ fmt[i] = "M" => V("m") = t.m
             /\ fmt[i] = "D" => V("d") = t.d
             /\ fmt[i] = "h" => V("h") = c.h
             /\ fmt[i] = "m" => V("mi") = c.mi
             /\ fmt[i] = "s" => V("s") = c.s
             /\ fmt[i] = "Y" => V("y") = t.y
             /\ fmt[i] = "y" /\ t.y \in 1970..2069 => V("y") = t.y
  <2>1. CASE fmt[i] = "M"
    BY <1>4, <2>1, LetterFacts DEF Digits
  <2>2. CASE fmt[i] = "D"
    BY <1>4, <2>2, LetterFacts DEF Digits
  <2>3. CASE fmt[i] = "h"
    BY <1>4, <2>3, LetterFacts DEF Digits
  <2>4. CASE fmt[i] = "m"
    BY <1>4, <2>4, LetterFacts DEF Digits
  <2>5. CASE fmt[i] = "s"
    BY <1>4, <2>5, LetterFacts DEF Digits
  <2>6. CASE fmt[i] = "Y"
    <3>1. Digits("Y", TRUE, t, c) = t.y \div 100 /\ Digits("Y", FALSE, t, c) = t.y % 100
      BY DEF Digits
    <3>2. (t.y \div 100) * 100 + (t.y % 100) = t.y
      BY <1>1, YearRead
    <3>3. V("y") = Digits("Y", TRUE, t, c) * 100 + Digits("Y", FALSE, t, c)
      BY <1>4, <2>6, LetterFacts
    <3>4. V("y") = t.y
      BY <3>1, <3>2, <3>3
    <3>5. QED
      BY <2>6, <3>4
  <2>7. CASE fmt[i] = "y"
    <3>1. Digits("y", TRUE, t, c) = t.y % 100
      BY DEF Digits
    <3>2. t.y \in 1970..2069 => Year4At70(t.y % 100) = t.y
      BY <1>1, YearRead
    <3>3. V("y") = Year4At70(Digits("y", TRUE, t, c))
      BY <1>4, <2>7, LetterFacts
    <3>4. V("y") = Year4At70(t.y % 100)
      BY <3>1, <3>3, Zenon
    <3>5. t.y \in 1970..2069 => V("y") = t.y
      BY <3>2, <3>4, SMT
    <3>6. QED
      BY <2>7, <3>5
  <2>8. QED
    BY <2>1, <2>2, <2>3, <2>4, <2>5, <2>6, <2>7
<1>6. \A f : LettersFor(fmt, f) # {} => \E i \in DOMAIN fmt : Letters[fmt[i]] = f
  BY DEF LettersFor
<1>7. \A i \in DOMAIN fmt : /\ Letters[fmt[i]] = "m" => fmt[i] = "M"
                            /\ Letters[fmt[i]] = "d" => fmt[i] = "D"
                            /\ Letters[fmt[i]] = "h" => fmt[i] = "h"
                            /\ Letters[fmt[i]] = "mi" => fmt[i] = "m"
                            /\ Letters[fmt[i]] = "s" => fmt[i] = "s"
  BY <1>2, LetterFacts, SMT
<1>8. V("m") = 1 \/ V("m") = t.m
  BY <1>3, <1>5, <1>6, <1>7
<1>9. V("d") = 1 \/ V("d") = t.d
  BY <1>3, <1>5, <1>6, <1>7
<1>10. V("h") = 0 \/ V("h") = c.h
  BY <1>3, <1>5, <1>6, <1>7
<1>11. V("mi") = 0 \/ V("mi") = c.mi
  BY <1>3, <1>5, <1>6, <1>7
<1>12. V("s") = 0 \/ V("s") = c.s
  BY <1>3, <1>5, <1>6, <1>7
<1>13. V("m") \in 1..12 /\ V("d") \in 1..31 /\ V("h") <= 23 /\ V("mi") <= 59 /\ V("s") <= 60
  BY <1>1, <1>8, <1>9, <1>10, <1>11, <1>12, SMT
<1>14. QED
  BY <1>5, <1>13 DEF V

\* A line in the only format is read as it was written.
LEMMA LineRead ==
  ASSUME NEW l, OneReading(l), Sound(l.formats[1]), DOMAIN l.formats = {1}, OnCalendar(date), Clocked(l.c),
         l.groups = Printed(l.formats[1], date, l.c)
  PROVE  ReadAsPrinted(l)
<1> DEFINE fmt == l.formats[1]
           c == l.c
           gs == l.groups
           V(f) == Value(fmt, Printed(fmt, date, c), f)
           T == [f \in {"y", "m", "d", "h", "mi", "s"} |-> Value(fmt, gs, f)]
<1>1. /\ V("m") \in 1..12 /\ V("d") \in 1..31 /\ V("h") <= 23 /\ V("mi") <= 59 /\ V("s") <= 60
      /\ \A i \in DOMAIN fmt : /\ fmt[i] = "D" => V("d") = date.d
                               /\ fmt[i] = "s" => V("s") = c.s
                               /\ fmt[i] = "Y" => V("y") = date.y
                               /\ fmt[i] = "y" /\ date.y \in 1970..2069 => V("y") = date.y
  <2>1. c.mi <= 59
    BY DEF OneReading
  <2>2. Sound(fmt) /\ Clocked(c)
    OBVIOUS
  <2> HIDE DEF fmt, c
  <2>3. QED
    BY <2>1, <2>2, FieldsRead
<1>2. gs = Printed(fmt, date, c)
  OBVIOUS
<1>3. /\ T.y = V("y") /\ T.m = V("m") /\ T.d = V("d") /\ T.h = V("h") /\ T.mi = V("mi") /\ T.s = V("s")
      /\ DOMAIN T = {"y", "m", "d", "h", "mi", "s"}
  <2>1. \A f : Value(fmt, gs, f) = V(f)
    BY <1>2, Zenon
  <2> HIDE DEF fmt, gs, V
  <2>2. QED
    BY <2>1, SMT
<1>4. fmt \in Seq(DOMAIN Letters) /\ DOMAIN fmt = 1..Len(fmt)
  BY SMT DEF Sound
<1>5. Len(gs) = Widths(fmt, Len(fmt)) /\ Widths(fmt, Len(fmt)) \in Nat
  <2> HIDE DEF fmt, gs
  <2>1. QED
    BY <1>2, <1>4, PrintedLength
<1>6. \A j \in DOMAIN fmt : fmt[j] \in DOMAIN Letters /\ \A k \in 1..j : k \in DOMAIN fmt
  <2> HIDE DEF fmt
  <2>1. QED
    BY <1>4, SMT
<1>7. Known(fmt) = DOMAIN fmt
  <2> HIDE DEF fmt
  <2>1. QED
    BY <1>6, Zenon DEF Known
<1>8. ASSUME NEW i \in DOMAIN fmt, NEW k \in GroupsOf(fmt, i) PROVE gs[k] # Bad
  <2>1. gs[k] = Digits(fmt[i], k = Widths(fmt, i - 1) + 1, date, c)
    <3> HIDE DEF fmt, c, gs
    <3>1. QED
      BY <1>2, <1>4, <1>8, PrintedGroups
  <2> DEFINE first == k = Widths(fmt, i - 1) + 1
             a == fmt[i]
  <2>2. first \in BOOLEAN /\ a \in DOMAIN Letters /\ Clocked(c)
    BY <1>6
  <2> HIDE DEF fmt, c, gs, first, a
  <2>3. Digits(a, first, date, c) \in Int
    BY <2>2, DigitsAreNumbers
  <2>4. QED
    BY <2>1, <2>3, TimeAssumption DEF first, a
<1>9. Fill(fmt, gs) = [is |-> "read", tc |-> T]
  <2>1. ~(Len(gs) < Widths(fmt, Len(fmt)))
    <3> HIDE DEF fmt, gs
    <3>1. QED
      BY <1>5, SMT
  <2> HIDE DEF fmt, gs, V
  <2>2. QED
    BY <1>7, <1>8, <2>1, Zenon DEF Fill
<1>10. InRange(T)
  BY ONLY <1>1, <1>3, Zenon DEF InRange
<1> DEFINE r == [i \in DOMAIN l.formats |-> Fill(l.formats[i], gs)]
<1>11. r[1] = [is |-> "read", tc |-> T]
  BY <1>9
<1> DEFINE ends == {i \in DOMAIN l.formats : Ends(r[i])}
<1> HIDE DEF T, V, fmt, gs
<1>12. Ends(r[1]) /\ r[1].is # "bad" /\ r[1].tc = T
  <2> HIDE DEF r
  <2>1. r[1].is = "read" /\ r[1].tc = T
    BY <1>11
  <2>2. r[1].is # "bad"
    BY <2>1
  <2>3. QED
    BY <1>10, <2>1, <2>2 DEF Ends
<1>13. ends = {1}
  <2> HIDE DEF r
  <2>1. QED
    BY <1>12
<1>14. Min(ends) = 1
  <2> HIDE DEF ends
  <2>1. Min({1}) = 1
    BY MaxOfOne
  <2>2. QED
    BY <1>13, <2>1
<1>15. FixedWidth(gs, l.formats) = T
  <2> HIDE DEF r, ends
  <2>1. ends # {} /\ r[Min(ends)].is # "bad" /\ r[Min(ends)].tc = T
    BY <1>12, <1>13, <1>14
  <2>2. FixedWidth(gs, l.formats) = IF ends = {} \/ r[Min(ends)].is = "bad" THEN Unread ELSE r[Min(ends)].tc
    BY DEF FixedWidth, r, ends
  <2>3. QED
    BY <2>1, <2>2
<1>16. T # Unread
  <2>1. DOMAIN Unread = {"none"}
    BY DEF Unread
  <2>2. QED
    BY <1>3, <2>1
<1>17. \A x : Contains(fmt, x) => \E i \in DOMAIN fmt : fmt[i] = x
  BY <1>4, Zenon DEF Contains
<1>18. Contains(fmt, "y") => date.y \in 1970..2069
  BY DEF OneReading, fmt
<1>19. (Contains(fmt, "Y") \/ Contains(fmt, "y")) => T.y = date.y
  BY <1>1, <1>3, <1>17, <1>18
<1>20. (Contains(fmt, "D") => T.d = date.d) /\ (Contains(fmt, "s") => T.s = l.c.s)
  BY <1>1, <1>3, <1>17
<1>21. QED
  BY <1>15, <1>16, <1>19, <1>20, Zenon DEF ReadAsPrinted, fmt, gs

(* Sentences. *)

\* A sentence about the day t, whatever is wrong with it.
Heard(s, t) ==
  /\ s \in [kind : {"GGA", "RMC", "GLL", "ZDA", "TXT"}, sum : {"right", "wrong"}, n : Nat,
            time : Clocks \cup {Empty}, status : {"A", "V", Empty}, position : {"given", "missing"},
            quality : {1, Bad}, altitude : {Empty, Bad}, y : {t.y, Bad}, m : {t.m, Bad}, d : {t.d, 32},
            zone : Zones \cup {Empty, Bad}]
  /\ s.kind # "ZDA" => s.y = t.y

LEMMA SentencesAreHeard ==
  ASSUME NEW t, NEW s \in Sentences(t)
  PROVE  Heard(s, t)
<1>1. PICK k \in {"GGA", "RMC", "GLL", "ZDA", "TXT"}, c \in Clocks, st \in {"A", "V", Empty} :
        s \in Variants(Sentence(k, t, c, st))
  BY SMTT(60) DEF Sentences
<1> DEFINE r == Sentence(k, t, c, st)
<1>2. Heard(r, t) /\ r.kind = k /\ r.y = t.y
  BY SMT DEF Heard, Sentence
<1>3. s \in Variants(r)
  BY <1>1
<1> HIDE DEF r
<1>4. CASE s = r
  BY <1>2, <1>4
<1>5. ASSUME NEW n \in {5, 6, 7, 10, 12}, s = [r EXCEPT !.n = n] PROVE Heard(s, t)
  BY <1>2, <1>5, SMT DEF Heard
<1>6. CASE s = [r EXCEPT !.sum = "wrong"]
  BY <1>2, <1>6, SMT DEF Heard
<1>7. CASE s = [r EXCEPT !.position = "missing"]
  BY <1>2, <1>7, SMT DEF Heard
<1>8. CASE s = [r EXCEPT !.quality = Bad]
  BY <1>2, <1>8, SMT DEF Heard
<1>9. CASE s = [r EXCEPT !.altitude = Bad]
  BY <1>2, <1>9, SMT DEF Heard
<1>10. CASE s = [r EXCEPT !.time = Empty]
  BY <1>2, <1>10, SMT DEF Heard
<1>11. CASE s = [r EXCEPT !.d = 32]
  BY <1>2, <1>11, SMT DEF Heard
<1>12. CASE s = [r EXCEPT !.m = Bad]
  BY <1>2, <1>12, SMT DEF Heard
<1>13. CASE s = [r EXCEPT !.y = IF r.kind = "ZDA" THEN Bad ELSE @]
  BY <1>2, <1>13, SMT DEF Heard
<1>14. ASSUME NEW z \in Zones \cup {Bad}, s = [r EXCEPT !.zone = z] PROVE Heard(s, t)
  BY <1>2, <1>14, SMT DEF Heard
<1>15. \/ s = r
       \/ s \in {[r EXCEPT !.n = n] : n \in {5, 6, 7, 10, 12}}
       \/ s \in {[r EXCEPT !.sum = "wrong"], [r EXCEPT !.position = "missing"], [r EXCEPT !.quality = Bad],
                 [r EXCEPT !.altitude = Bad], [r EXCEPT !.time = Empty], [r EXCEPT !.d = 32],
                 [r EXCEPT !.m = Bad], [r EXCEPT !.y = IF r.kind = "ZDA" THEN Bad ELSE @]}
       \/ s \in {[r EXCEPT !.zone = z] : z \in Zones \cup {Bad}}
  BY <1>3, Zenon DEF Variants
<1>16. QED
  BY <1>4, <1>5, <1>6, <1>7, <1>8, <1>9, <1>10, <1>11, <1>12, <1>13, <1>14, <1>15

\* Of a date that is none nothing is taken; of the others the day is the day.
LEMMA DateHeard ==
  ASSUME NEW t, OnCalendar(t), NEW s, Heard(s, t), DateOk(s)
  PROVE  s.d = t.d /\ s.m = t.m
<1>1. s.d \in 1..31 /\ s.m # Bad
  BY DEF DateOk
<1>2. s.m \in {t.m, Bad} /\ s.d \in {t.d, 32}
  BY DEF Heard
<1>3. QED
  BY <1>1, <1>2, SMT

\* Two digits tell a year from 1980 to 2079.
LEMMA YearOfTwo ==
  ASSUME NEW y \in 1980..2079
  PROVE  Year4(y % 100) = y
<1>1. y % 100 = IF y < 2000 THEN y - 1900 ELSE y - 2000
  BY SMT
<1>2. QED
  BY <1>1, SMT DEF Year4

\* What a reader takes is no refusal.
LEMMA ReadingsAreNone ==
  ASSUME NEW s, NEW day, NEW x
  PROVE  WithTime(s, day, x) # Unread /\ Timecode(s, day, x) # Unread
<1>1. /\ DOMAIN WithTime(s, day, x) = {"time", "day", "status"}
      /\ DOMAIN Timecode(s, day, x) = {"time", "day", "offset"}
      /\ DOMAIN Unread = {"none"}
  BY DEF WithTime, Timecode, Unread
<1>2. QED
  BY <1>1

Compared(s) ==
  LET a == DriverReads(s)
      b == ParserReads(s)
  IN  /\ a # Unread /\ b # Unread => ReadAlike(s, a, b)
      /\ a # Unread /\ b = Unread => DriverOnly(s)
      /\ a = Unread /\ b # Unread => ParserOnly(s)

\* The two readers of a sentence, one kind after the other.
LEMMA ReadersCompared ==
  ASSUME OnCalendar(date), NEW s, Heard(s, date)
  PROVE  Compared(s)
<1> DEFINE a == DriverReads(s)
           b == ParserReads(s)
<1>1. /\ s.kind \in {"GGA", "RMC", "GLL", "ZDA", "TXT"} /\ s.n \in Nat /\ s.status \in {"A", "V", Empty}
      /\ s.y \in {date.y, Bad} /\ (s.kind # "ZDA" => s.y = date.y)
  BY DEF Heard
<1>2. CASE ~Intact(s) \/ ~TimeOk(s.time)
  <2>1. a = Unread /\ b = Unread
    BY <1>2 DEF DriverReads, ParserReads
  <2>2. QED
    BY <2>1, Zenon DEF Compared
<1>3. CASE Intact(s) /\ TimeOk(s.time) /\ s.kind = "GGA"
  <2>1. a = DriverGga(s) /\ b = ParserGga(s)
    BY <1>3 DEF DriverReads, ParserReads
  <2>2. a # Unread => a = WithTime(s, NoDay, s.quality) /\ s.n >= 15 /\ Position(s) /\ s.quality # Bad /\ s.altitude # Bad
    BY <2>1 DEF DriverGga
  <2>3. a = Unread => ~(s.n >= 15 /\ Position(s) /\ s.quality # Bad /\ s.altitude # Bad)
    BY <2>1, ReadingsAreNone, Zenon DEF DriverGga
  <2>4. b # Unread => b = Timecode(s, NoDay, 0)
    BY <2>1 DEF ParserGga
  <2>5. b = Unread => ~(s.n >= 6)
    BY <2>1, ReadingsAreNone, Zenon DEF ParserGga
  <2> HIDE DEF a, b
  <2>6. a # Unread /\ b # Unread => ReadAlike(s, a, b)
    BY <1>3, <2>2, <2>4, SMT DEF ReadAlike, WithTime, Timecode
  <2>7. ~(a # Unread /\ b = Unread)
    BY <1>1, <2>2, <2>5, SMT
  <2>8. a = Unread => ParserOnly(s)
    BY <1>1, <1>3, <2>3, SMT DEF ParserOnly
  <2>9. QED
    BY <2>6, <2>7, <2>8 DEF Compared, a, b
<1>4. CASE Intact(s) /\ TimeOk(s.time) /\ s.kind = "RMC"
  <2> DEFINE dayA == [y |-> s.y % 100, m |-> s.m, d |-> s.d]
             dayB == [y |-> Year4(s.y % 100), m |-> s.m, d |-> s.d]
  <2>1. a = DriverRmc(s) /\ b = ParserRmc(s)
    BY <1>4 DEF DriverReads, ParserReads
  <2>2. a # Unread => a = WithTime(s, dayA, s.status) /\ s.n >= 12 /\ Position(s) /\ s.status # Empty /\ DateOk(s)
    BY <2>1, Zenon DEF DriverRmc
  <2>3. a = Unread => ~(s.n >= 12 /\ Position(s) /\ s.status # Empty /\ DateOk(s))
    BY <2>1, ReadingsAreNone, Zenon DEF DriverRmc
  <2>4. b # Unread => b = Timecode(s, dayB, 0) /\ s.n >= 10 /\ s.status = "A" /\ DateOk(s)
    BY <2>1, Zenon DEF ParserRmc, ParserYear
  <2>5. b = Unread => ~(s.n >= 10 /\ s.status = "A" /\ DateOk(s))
    BY <2>1, ReadingsAreNone, Zenon DEF ParserRmc
  <2>6. [dayA EXCEPT !.y = Year4(@)] = dayB
    BY SMT
  <2>7. ASSUME DateOk(s), date.y \in 1980..2079 PROVE dayB = Shown
    <3>1. s.y = date.y /\ s.d = date.d /\ s.m = date.m
      BY <1>1, <1>4, <2>7, DateHeard
    <3>2. Year4(date.y % 100) = date.y
      BY <2>7, YearOfTwo
    <3>3. QED
      BY <3>1, <3>2, Zenon DEF Shown
  <2> HIDE DEF a, b, dayA, dayB
  <2>8. a # Unread /\ b # Unread => ReadAlike(s, a, b)
    <3>1. SUFFICES ASSUME a # Unread, b # Unread PROVE ReadAlike(s, a, b)
      OBVIOUS
    <3>2. a.time = TimeRead(s.time) /\ b.time = TimeRead(s.time) /\ a.day = dayA /\ b.day = dayB
      BY <2>2, <2>4, <3>1 DEF WithTime, Timecode
    <3>3. [a.day EXCEPT !.y = Year4(@)] = dayB
      BY <2>6, <3>2, Zenon
    <3>4. date.y \in 1980..2079 => dayB = Shown
      BY <2>2, <2>7, <3>1
    <3>5. s.kind = "RMC" /\ s.kind # "ZDA"
      BY <1>4
    <3> DEFINE day == IF s.kind = "RMC" THEN [a.day EXCEPT !.y = Year4(@)] ELSE a.day
    <3>6. day = dayB
      BY <3>3, <3>5, Zenon
    <3>7. ReadAlike(s, a, b) <=> /\ a.time = b.time /\ day = b.day
                                 /\ (s.kind = "ZDA" \/ (s.kind = "RMC" /\ date.y \in 1980 .. 2079)) => day = Shown
      BY DEF ReadAlike
    <3> HIDE DEF day
    <3>8. QED
      BY <3>2, <3>4, <3>5, <3>6, <3>7
  <2>9. a # Unread /\ b = Unread => DriverOnly(s)
    BY <1>1, <1>4, <2>2, <2>5, SMT DEF DriverOnly
  <2>10. a = Unread /\ b # Unread => ParserOnly(s)
    <3>1. "A" # Empty
      BY TimeAssumption
    <3>2. QED
      BY <1>1, <1>4, <2>3, <2>4, <3>1, SMT DEF ParserOnly
  <2>11. QED
    BY <2>8, <2>9, <2>10 DEF Compared, a, b
<1>5. CASE Intact(s) /\ TimeOk(s.time) /\ s.kind = "GLL"
  <2>1. b = Unread
    BY <1>5 DEF ParserReads
  <2>2. DriverOnly(s)
    BY <1>5 DEF DriverOnly
  <2>3. QED
    BY <2>1, <2>2, Zenon DEF Compared
<1>6. CASE Intact(s) /\ TimeOk(s.time) /\ s.kind = "ZDA"
  <2> DEFINE day == [y |-> s.y, m |-> s.m, d |-> s.d]
             good == DateOk(s) /\ s.y # Bad
             near == s.y \in 1900..2100
  <2>1. a = DriverZda(s) /\ b = ParserZda(s)
    BY <1>6 DEF DriverReads, ParserReads
  <2>2. DriverZda(s) = IF s.n >= 5 /\ good /\ near THEN WithTime(s, day, "A") ELSE Unread
    BY SMT DEF DriverZda
  <2>3. ParserZda(s) = IF s.n >= 7 /\ s.zone # Bad /\ good THEN Timecode(s, day, ZoneHours(s.zone)) ELSE Unread
    BY SMT DEF ParserZda
  <2>4. good => day = Shown
    <3>1. good => s.y = date.y /\ s.d = date.d /\ s.m = date.m
      BY <1>1, DateHeard
    <3>2. QED
      BY <3>1, Zenon DEF Shown
  <2>5. ReadAlike(s, a, b) <=> a.time = b.time /\ a.day = b.day /\ a.day = Shown
    BY <1>6, SMT DEF ReadAlike
  <2>6. DriverOnly(s) <=> s.n < 7 \/ s.zone = Bad
    BY <1>6, SMT DEF DriverOnly
  <2>7. ParserOnly(s) <=> ~near
    BY <1>6, SMT DEF ParserOnly
  <2> HIDE DEF day, good, near
  <2>8. a # Unread => a = WithTime(s, day, "A") /\ good
    BY <2>1, <2>2, Zenon
  <2>9. a = Unread => ~(s.n >= 5 /\ good /\ near)
    BY <2>1, <2>2, ReadingsAreNone, Zenon
  <2>10. b # Unread => b = Timecode(s, day, ZoneHours(s.zone)) /\ s.n >= 7 /\ good
    BY <2>1, <2>3, Zenon
  <2>11. b = Unread => ~(s.n >= 7 /\ s.zone # Bad /\ good)
    BY <2>1, <2>3, ReadingsAreNone, Zenon
  <2> HIDE DEF a, b
  <2>12. a # Unread /\ b # Unread => ReadAlike(s, a, b)
    BY <2>4, <2>5, <2>8, <2>10 DEF WithTime, Timecode
  <2>13. a # Unread /\ b = Unread => DriverOnly(s)
    BY <1>1, <2>6, <2>8, <2>11, SMT
  <2>14. a = Unread /\ b # Unread => ParserOnly(s)
    BY <1>1, <2>7, <2>9, <2>10, SMT
  <2>15. QED
    BY <2>12, <2>13, <2>14 DEF Compared, a, b
<1>7. CASE Intact(s) /\ TimeOk(s.time) /\ s.kind = "TXT"
  <2>1. a = Unread /\ b = Unread
    BY <1>7 DEF DriverReads, ParserReads
  <2>2. QED
    BY <2>1, Zenon DEF Compared
<1>8. QED
  BY <1>1, <1>2, <1>3, <1>4, <1>5, <1>6, <1>7

\* A line in one of several formats, as a clock wrote it this day.
Ruled(l, t) == /\ DOMAIN l = {"kind", "formats", "by", "c", "groups"}
               /\ l.formats \in Formats /\ l.by \in DOMAIN l.formats /\ l.c \in Clocks
               /\ l.groups = Printed(l.formats[l.by], t, l.c)

LineInv == line = Unread \/ Heard(line, date) \/ Ruled(line, date)

(* Of every date of the calendar: a sentence both readers accept they read *)
(* alike, and as it was meant as far as two digits tell the year; one that *)
(* only one of them accepts is of the kinds their rules set apart; and a   *)
(* line in the only format a clock is configured with is read as it was    *)
(* written (parse_nmea_sentence, parse_nmea_timecode,                      *)
(* parse_fixed_width_timecode).                                            *)
THEOREM ReceiversReadAlike == TimeSpec => []SentencesAgree
<1>1. TimeInit => OnCalendar(date) /\ LineInv
  BY TimeAssumption DEF TimeInit, OnCalendar, LineInv
<1>2. (OnCalendar(date) /\ LineInv) /\ [TimeNext]_timeVars => (OnCalendar(date) /\ LineInv)'
  <2>1. SUFFICES ASSUME OnCalendar(date), LineInv, [TimeNext]_timeVars PROVE OnCalendar(date') /\ LineInv'
    BY DEF OnCalendar
  <2>2. CASE NextDate
    <3>1. OnCalendar(Tomorrow(date)) /\ date' = Tomorrow(date) /\ line' = Unread
      BY <2>1, <2>2, NextDay DEF NextDate
    <3>2. QED
      BY <3>1 DEF LineInv
  <2>3. CASE Shows
    <3>1. date' = date
      BY <2>3 DEF Shows
    <3>2. CASE line' \in Sentences(date)
      <4>1. Heard(line', date)
        BY <3>2, SentencesAreHeard
      <4>2. QED
        BY <2>1, <3>1, <4>1 DEF LineInv
    <3>3. ASSUME NEW fs \in Formats, NEW c \in Clocks, NEW i \in DOMAIN fs,
                 line' = [kind |-> "fixed", formats |-> fs, by |-> i, c |-> c, groups |-> Printed(fs[i], date, c)]
          PROVE  LineInv'
      <4>1. Ruled(line', date)
        BY <3>3 DEF Ruled
      <4>2. QED
        BY <3>1, <4>1 DEF LineInv
    <3>4. QED
      BY <2>1, <2>3, <3>1, <3>2, <3>3 DEF Shows
  <2>4. CASE UNCHANGED timeVars
    BY <2>1, <2>4 DEF timeVars, LineInv
  <2>5. QED
    BY <2>1, <2>2, <2>3, <2>4 DEF TimeNext
<1>3. OnCalendar(date) /\ LineInv => SentencesAgree
  <2>1. SUFFICES ASSUME OnCalendar(date), LineInv PROVE SentencesAgree
    OBVIOUS
  <2>2. CASE line = Unread
    <3>1. "sum" \notin DOMAIN line /\ "groups" \notin DOMAIN line
      BY <2>2 DEF Unread
    <3>2. QED
      BY <3>1, Zenon DEF SentencesAgree
  <2>3. CASE Heard(line, date)
    <3>1. "groups" \notin DOMAIN line
      BY <2>3 DEF Heard
    <3>2. Compared(line)
      BY <2>1, <2>3, ReadersCompared
    <3> DEFINE a == DriverReads(line)
               b == ParserReads(line)
    <3>3. (CASE a # Unread /\ b # Unread -> ReadAlike(line, a, b)
             [] a # Unread /\ b = Unread -> DriverOnly(line)
             [] a = Unread /\ b # Unread -> ParserOnly(line)
             [] OTHER -> TRUE)
      <4>1. /\ a # Unread /\ b # Unread => ReadAlike(line, a, b)
            /\ a # Unread /\ b = Unread => DriverOnly(line)
            /\ a = Unread /\ b # Unread => ParserOnly(line)
        BY <3>2 DEF Compared
      <4> HIDE DEF a, b
      <4>2. QED
        BY <4>1
    <3>4. QED
      BY <3>1, <3>3, Zenon DEF SentencesAgree
  <2>4. CASE Ruled(line, date)
    <3>1. "sum" \notin DOMAIN line
      BY <2>4 DEF Ruled
    <3>2. ASSUME OneReading(line) PROVE ReadAsPrinted(line)
      <4>1. line.formats \in Formats /\ Len(line.formats) = 1
        BY <2>4, <3>2 DEF Ruled, OneReading
      <4>2. DOMAIN line.formats = {1} /\ Sound(line.formats[1])
        BY <4>1, TimeAssumption
      <4>3. Clocked(line.c)
        BY <2>4, TimeAssumption DEF Ruled, Clocked
      <4>4. line.by = 1 /\ line.groups = Printed(line.formats[1], date, line.c)
        BY <2>4, <4>2 DEF Ruled
      <4>5. QED
        BY <2>1, <3>2, <4>2, <4>3, <4>4, LineRead
    <3>3. QED
      BY <3>1, <3>2, Zenon DEF SentencesAgree
  <2>5. QED
    BY <2>1, <2>2, <2>3, <2>4 DEF LineInv
<1>4. QED
  BY <1>1, <1>2, <1>3, PTL DEF TimeSpec
=============================================================================
