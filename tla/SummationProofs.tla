-------------------------- MODULE SummationProofs --------------------------
(***************************************************************************)
(* What Total computes, for natural numbers.  The recursive function that  *)
(* defines it is found without induction over data: it counts units, so    *)
(* that every law of sums is a law of cardinalities.                       *)
(***************************************************************************)
EXTENDS Summation, Integers, Sequences, FiniteSetTheorems, FunctionTheorems,
        WellFoundedInduction, TLAPS

(* f[x] units for every x in s. *)
Units(f, s) == {w \in s \X Nat : w[2] < f[w[1]]}

(* The units of one element. *)
Row(f, x) == {x} \X (0..(f[x] - 1))

-----------------------------------------------------------------------------
(* Units *)

(* A row has as many units as its number says. *)
LEMMA RowSize ==
    ASSUME NEW f, NEW x, f[x] \in Nat
    PROVE  IsFiniteSet(Row(f, x)) /\ Cardinality(Row(f, x)) = f[x]
  <1>. DEFINE n == f[x]
  <1>1. 0 \in Int /\ n - 1 \in Int /\ n \in Nat
    OBVIOUS
  <1>. HIDE DEF n
  <1>2. /\ IsFiniteSet(0..(n - 1))
        /\ Cardinality(0..(n - 1)) = IF 0 > n - 1 THEN 0 ELSE (n - 1) - 0 + 1
    BY <1>1, FS_Interval, Zenon
  <1>3. Cardinality(0..(n - 1)) = n
    BY <1>1, <1>2
  <1>4. IsFiniteSet({x}) /\ Cardinality({x}) = 1
    BY FS_Singleton
  <1>5. /\ IsFiniteSet({x} \X (0..(n - 1)))
        /\ Cardinality({x} \X (0..(n - 1))) = Cardinality({x}) * Cardinality(0..(n - 1))
    BY <1>2, <1>4, FS_Product, Zenon
  <1>6. Cardinality({x} \X (0..(n - 1))) = 1 * n
    BY <1>3, <1>4, <1>5
  <1>. QED  BY <1>1, <1>5, <1>6 DEF Row, n

(* The units of a set are those of its elements. *)
LEMMA UnitsAreRows ==
    ASSUME NEW f, NEW s, \A x \in s : f[x] \in Nat
    PROVE  Units(f, s) = UNION {Row(f, x) : x \in s}
  <1>1. ASSUME NEW w \in Units(f, s) PROVE w \in UNION {Row(f, x) : x \in s}
    <2>1. PICK x \in s, k \in Nat : w = <<x, k>>
      BY DEF Units
    <2>2. k < f[x] /\ f[x] \in Nat
      BY <2>1 DEF Units
    <2>3. k \in 0..(f[x] - 1)
      BY <2>2
    <2>4. w \in Row(f, x)
      BY <2>1, <2>3 DEF Row
    <2>. QED  BY <2>4
  <1>2. ASSUME NEW x \in s, NEW w \in Row(f, x) PROVE w \in Units(f, s)
    <2>1. PICK k \in 0..(f[x] - 1) : w = <<x, k>>
      BY DEF Row
    <2>2. k \in Nat /\ k < f[x]
      BY <2>1
    <2>. QED  BY <2>1, <2>2 DEF Units
  <1>. QED  BY <1>1, <1>2

(* Finitely many elements have finitely many units. *)
LEMMA UnitsFinite ==
    ASSUME NEW f, NEW s, IsFiniteSet(s), \A x \in s : f[x] \in Nat
    PROVE  IsFiniteSet(Units(f, s))
  <1>. DEFINE T == {Row(f, x) : x \in s}
              r == [x \in s |-> Row(f, x)]
  <1>1. r \in Surjection(s, T)
    <2>1. r \in [s -> T] /\ \A t \in T : \E x \in s : r[x] = t
      OBVIOUS
    <2>. QED  BY <2>1, Fun_IsSurj
  <1>2. IsFiniteSet(T)
    BY <1>1, FS_Surjection
  <1>3. \A t \in T : IsFiniteSet(t)
    BY RowSize
  <1>4. IsFiniteSet(UNION T)
    BY <1>2, <1>3, FS_UNION
  <1>. QED  BY <1>4, UnitsAreRows

(* Taking an element out takes its row out. *)
LEMMA UnitsAdd ==
    ASSUME NEW f, NEW s, IsFiniteSet(s), \A x \in s : f[x] \in Nat, NEW x \in s
    PROVE  Cardinality(Units(f, s)) = f[x] + Cardinality(Units(f, s \ {x}))
  <1>. DEFINE A == Row(f, x)
              B == Units(f, s \ {x})
  <1>1. IsFiniteSet(s \ {x}) /\ \A y \in s \ {x} : f[y] \in Nat
    BY FS_RemoveElement
  <1>2. IsFiniteSet(A) /\ Cardinality(A) = f[x]
    BY RowSize
  <1>3. IsFiniteSet(B)
    BY <1>1, UnitsFinite
  <1>4. Units(f, s) = A \cup B
    <2>1. Units(f, s) = UNION {Row(f, y) : y \in s}
      BY UnitsAreRows
    <2>2. B = UNION {Row(f, y) : y \in s \ {x}}
      BY <1>1, UnitsAreRows
    <2>. HIDE DEF B
    <2>. QED  BY <2>1, <2>2
  <1>5. A \cap B = {}
    BY DEF Row, Units
  <1>6. Cardinality(A \cap B) = 0
    BY <1>5, FS_EmptySet
  <1>7. Cardinality(A \cup B) = Cardinality(A) + Cardinality(B) - Cardinality(A \cap B)
    BY <1>2, <1>3, FS_Union
  <1>8. Cardinality(B) \in Nat /\ f[x] \in Nat
    BY <1>3, FS_CardinalityType
  <1>. HIDE DEF A, B
  <1>9. Cardinality(A \cup B) = f[x] + Cardinality(B)
    BY <1>2, <1>6, <1>7, <1>8
  <1>. QED  BY <1>4, <1>9 DEF B

-----------------------------------------------------------------------------
(* Total *)

(* One turn of the recursion in MapThenSumSet. *)
Step(g, f) ==
    [s \in SUBSET DOMAIN f |->
        IF s = {} THEN 0
        ELSE f[CHOOSE x \in s : TRUE] + g[s \ {CHOOSE x \in s : TRUE}]]

(* Total is the recursive function of MapThenSumSet at the whole domain. *)
LEMMA TotalUnfolds ==
    ASSUME NEW f
    PROVE  Total(f) = (CHOOSE g : g = Step(g, f))[DOMAIN f]
  BY Zenon DEF Total, MapThenSumSet, MapThenFoldSet, Step

(* Counting units is a solution of the recursion. *)
LEMMA CountIsStep ==
    ASSUME NEW S, IsFiniteSet(S), NEW f \in [S -> Nat],
           NEW c, c = [s \in SUBSET S |-> Cardinality(Units(f, s))]
    PROVE  c = Step(c, f)
  <1>1. DOMAIN f = S
    OBVIOUS
  <1>2. ASSUME NEW s \in SUBSET S
        PROVE  c[s] = IF s = {} THEN 0
                      ELSE f[CHOOSE x \in s : TRUE] + c[s \ {CHOOSE x \in s : TRUE}]
    <2>. DEFINE y == CHOOSE x \in s : TRUE
    <2>1. c[s] = Cardinality(Units(f, s))
      OBVIOUS
    <2>2. CASE s = {}
      <3>1. Units(f, {}) = {}
        BY DEF Units
      <3>. QED  BY <2>1, <2>2, <3>1, FS_EmptySet
    <2>3. CASE s # {}
      <3>1. y \in s
        BY <2>3
      <3>2. IsFiniteSet(s) /\ \A x \in s : f[x] \in Nat
        BY FS_Subset
      <3>. HIDE DEF y
      <3>3. Cardinality(Units(f, s)) = f[y] + Cardinality(Units(f, s \ {y}))
        BY <3>1, <3>2, UnitsAdd
      <3>4. c[s \ {y}] = Cardinality(Units(f, s \ {y}))
        <4>1. s \ {y} \in SUBSET S
          OBVIOUS
        <4>. QED  BY <4>1
      <3>. QED  BY <2>1, <2>3, <3>3, <3>4 DEF y
    <2>. QED  BY <2>2, <2>3
  <1>. QED  BY <1>1, <1>2 DEF Step

(* The recursion has no other solution: take a least set where one differs. *)
LEMMA StepIsUnique ==
    ASSUME NEW S, IsFiniteSet(S), NEW f \in [S -> Nat],
           NEW g, g = Step(g, f), NEW h, h = Step(h, f)
    PROVE  g[S] = h[S]
  <1>. DEFINE bad == {s \in SUBSET S : g[s] # h[s]}
  <1>1. DOMAIN f = S
    OBVIOUS
  <1>2. \A s \in SUBSET S : s # {} =>
           /\ g[s] = f[CHOOSE x \in s : TRUE] + g[s \ {CHOOSE x \in s : TRUE}]
           /\ h[s] = f[CHOOSE x \in s : TRUE] + h[s \ {CHOOSE x \in s : TRUE}]
    BY <1>1 DEF Step
  <1>3. g[{}] = 0 /\ h[{}] = 0
    <2>1. {} \in SUBSET S
      OBVIOUS
    <2>. QED  BY <1>1, <2>1 DEF Step
  <1>4. SUFFICES ASSUME bad # {} PROVE FALSE
    OBVIOUS
  <1>5. IsWellFoundedOn(StrictSubsetOrdering(S), FiniteSubsetsOf(S))
    BY FS_StrictSubsetOrderingWellFounded
  <1>6. bad \subseteq FiniteSubsetsOf(S)
    BY FS_Subset DEF FiniteSubsetsOf
  <1>. HIDE DEF bad
  <1>7. PICK s \in bad : \A t \in bad : ~(<<t, s>> \in StrictSubsetOrdering(S))
    BY <1>4, <1>5, <1>6, WFMin
  <1>. DEFINE y == CHOOSE x \in s : TRUE
  <1>8. s \in SUBSET S /\ g[s] # h[s]
    BY DEF bad
  <1>9. s # {}
    BY <1>3, <1>8
  <1>10. y \in s
    BY <1>9
  <1>. HIDE DEF y
  <1>11. s \ {y} \notin bad
    <2>1. <<s \ {y}, s>> \in StrictSubsetOrdering(S)
      BY <1>8, <1>10 DEF StrictSubsetOrdering
    <2>. QED  BY <1>7, <2>1
  <1>12. g[s \ {y}] = h[s \ {y}]
    BY <1>8, <1>11 DEF bad
  <1>. QED  BY <1>2, <1>8, <1>9, <1>12 DEF y

(* Total counts units. *)
LEMMA TotalCounts ==
    ASSUME NEW S, IsFiniteSet(S), NEW f \in [S -> Nat]
    PROVE  Total(f) = Cardinality(Units(f, S)) /\ IsFiniteSet(Units(f, S))
  <1>. DEFINE c == [s \in SUBSET S |-> Cardinality(Units(f, s))]
              h == CHOOSE g : g = Step(g, f)
  <1>1. c = Step(c, f)
    BY CountIsStep
  <1>2. c[S] = Cardinality(Units(f, S))
    OBVIOUS
  <1>. HIDE DEF c
  <1>3. h = Step(h, f)
    BY <1>1
  <1>4. Total(f) = h[S]
    BY TotalUnfolds
  <1>. HIDE DEF h
  <1>5. h[S] = c[S]
    BY <1>1, <1>3, StepIsUnique
  <1>6. IsFiniteSet(Units(f, S))
    BY UnitsFinite
  <1>. QED  BY <1>2, <1>4, <1>5, <1>6

-----------------------------------------------------------------------------
(* Laws of sums *)

(* Finitely many natural numbers. *)
Summable(f, S) == IsFiniteSet(S) /\ f \in [S -> Nat]

Agree(f, g, S) == \A x \in S : f[x] = g[x]

(* A sum of natural numbers is one. *)
LEMMA TotalType ==
    ASSUME NEW S, NEW f, Summable(f, S)
    PROVE  Total(f) \in Nat
  BY TotalCounts, FS_CardinalityType DEF Summable

(* Nothing but zeros adds up to zero; so does nothing at all. *)
LEMMA TotalZero ==
    ASSUME NEW S, NEW f, Summable(f, S), \A x \in S : f[x] = 0
    PROVE  Total(f) = 0
  <1>1. Units(f, S) = {}
    BY DEF Units
  <1>. QED  BY <1>1, TotalCounts, FS_EmptySet DEF Summable

(* One element counts by itself. *)
LEMMA TotalRemove ==
    ASSUME NEW S, NEW f, Summable(f, S), NEW x \in S,
           NEW R, R = S \ {x}, NEW r, Summable(r, R), Agree(r, f, R)
    PROVE  Total(f) = f[x] + Total(r)
  <1>1. /\ IsFiniteSet(S) /\ f \in [S -> Nat] /\ IsFiniteSet(R) /\ r \in [R -> Nat]
        /\ \A y \in S : f[y] \in Nat
    BY DEF Summable
  <1>2. Units(r, R) = Units(f, R)
    BY DEF Units, Agree
  <1>3. Total(f) = Cardinality(Units(f, S))
    BY <1>1, TotalCounts
  <1>4. Total(r) = Cardinality(Units(r, R))
    BY <1>1, TotalCounts
  <1>5. Cardinality(Units(f, S)) = f[x] + Cardinality(Units(f, S \ {x}))
    BY <1>1, UnitsAdd
  <1>. QED  BY <1>2, <1>3, <1>4, <1>5

(* One element more. *)
LEMMA TotalAdd ==
    ASSUME NEW S, NEW f, Summable(f, S), NEW x, x \notin S,
           NEW g, Summable(g, S \cup {x}), Agree(f, g, S)
    PROVE  Total(g) = g[x] + Total(f)
  <1>1. x \in S \cup {x} /\ (S \cup {x}) \ {x} = S
    OBVIOUS
  <1>. QED  BY <1>1, TotalRemove

(* What is left of f when x is taken out. *)
LEMMA Rest ==
    ASSUME NEW S, NEW f, Summable(f, S), NEW x
    PROVE  LET r == [y \in S \ {x} |-> f[y]]
           IN  Summable(r, S \ {x}) /\ Agree(r, f, S \ {x})
  BY FS_RemoveElement DEF Summable, Agree

(* A sum covers each of its terms. *)
LEMMA TotalBound ==
    ASSUME NEW S, NEW f, Summable(f, S), NEW x \in S
    PROVE  f[x] <= Total(f) /\ f[x] \in Nat /\ Total(f) \in Nat
  <1>. DEFINE r == [y \in S \ {x} |-> f[y]]
  <1>1. Summable(r, S \ {x}) /\ Agree(r, f, S \ {x})
    BY Rest
  <1>. HIDE DEF r
  <1>2. Total(f) = f[x] + Total(r)
    BY <1>1, TotalRemove
  <1>3. Total(r) \in Nat /\ f[x] \in Nat
    BY <1>1, TotalType DEF Summable
  <1>. QED  BY <1>2, <1>3

(* Two functions that differ in one place have sums that differ by as much. *)
LEMMA TotalChange ==
    ASSUME NEW S, NEW f, NEW g, Summable(f, S), Summable(g, S),
           NEW x \in S, \A y \in S : y # x => g[y] = f[y]
    PROVE  Total(g) = Total(f) - f[x] + g[x]
  <1>. DEFINE r == [y \in S \ {x} |-> f[y]]
  <1>1. Summable(r, S \ {x}) /\ Agree(r, f, S \ {x})
    BY Rest
  <1>2. Agree(r, g, S \ {x})
    BY DEF Agree
  <1>. HIDE DEF r
  <1>3. Total(f) = f[x] + Total(r)
    BY <1>1, TotalRemove
  <1>4. Total(g) = g[x] + Total(r)
    BY <1>1, <1>2, TotalRemove
  <1>5. Total(r) \in Nat /\ f[x] \in Nat /\ g[x] \in Nat
    BY <1>1, TotalType DEF Summable
  <1>. QED  BY <1>3, <1>4, <1>5

(* The same for two places. *)
LEMMA TotalChangeTwo ==
    ASSUME NEW S, NEW f, NEW g, Summable(f, S), Summable(g, S),
           NEW x \in S, NEW z \in S, x # z,
           \A y \in S : (y # x /\ y # z) => g[y] = f[y]
    PROVE  Total(g) = Total(f) - f[x] + g[x] - f[z] + g[z]
  <1>. DEFINE h == [f EXCEPT ![x] = g[x]]
  <1>1. /\ Summable(h, S) /\ h[x] = g[x] /\ h[z] = f[z]
        /\ \A y \in S : y # x => h[y] = f[y]
        /\ \A y \in S : y # z => g[y] = h[y]
    BY DEF Summable
  <1>. HIDE DEF h
  <1>2. Total(h) = Total(f) - f[x] + h[x]
    BY <1>1, TotalChange
  <1>3. Total(g) = Total(h) - h[z] + g[z]
    BY <1>1, TotalChange
  <1>4. /\ Total(f) \in Nat /\ Total(h) \in Nat /\ Total(g) \in Nat
        /\ f[x] \in Nat /\ g[x] \in Nat /\ f[z] \in Nat /\ g[z] \in Nat
    BY <1>1, TotalType DEF Summable
  <1>. QED  BY <1>1, <1>2, <1>3, <1>4

(* Functions that agree everywhere have the same sum. *)
LEMMA TotalSame ==
    ASSUME NEW S, NEW f, NEW g, Summable(f, S), Summable(g, S), Agree(f, g, S)
    PROVE  Total(f) = Total(g)
  <1>1. f = g
    BY DEF Summable, Agree
  <1>. QED  BY <1>1

(* b takes the places of g to those of f. *)
Renames(b, g, S, f, T) == b \in Bijection(S, T) /\ \A x \in S : g[x] = f[b[x]]

(* Renaming the places changes nothing. *)
LEMMA TotalReindex ==
    ASSUME NEW S, NEW T, NEW f, NEW g, Summable(g, S), Summable(f, T),
           NEW b, Renames(b, g, S, f, T)
    PROVE  Total(g) = Total(f)
  <1>. DEFINE U == Units(g, S)
              V == Units(f, T)
              p == [w \in U |-> <<b[w[1]], w[2]>>]
  <1>0. /\ IsFiniteSet(S) /\ g \in [S -> Nat] /\ IsFiniteSet(T) /\ f \in [T -> Nat]
        /\ b \in Bijection(S, T) /\ \A x \in S : g[x] = f[b[x]]
    BY DEF Summable, Renames
  <1>1. /\ b \in [S -> T] /\ \A x, y \in S : b[x] = b[y] => x = y
        /\ \A t \in T : \E x \in S : b[x] = t
    BY <1>0 DEF Bijection, Injection, Surjection, IsInjective
  <1>4. p \in [U -> V]
    BY <1>0, <1>1 DEF Units
  <1>5. \A v, w \in U : p[v] = p[w] => v = w
    BY <1>1 DEF Units
  <1>6. ASSUME NEW v \in V PROVE \E w \in U : p[w] = v
    <2>1. PICK t \in T, k \in Nat : v = <<t, k>> /\ k < f[t]
      BY DEF Units
    <2>2. PICK x \in S : b[x] = t
      BY <1>1
    <2>3. <<x, k>> \in U
      BY <1>0, <2>1, <2>2 DEF Units
    <2>4. p[<<x, k>>] = v
      BY <2>1, <2>2, <2>3
    <2>. QED  BY <2>3, <2>4
  <1>7. p \in Bijection(U, V)
    <2>. HIDE DEF U, V, p
    <2>1. p \in Injection(U, V)
      BY <1>4, <1>5, Fun_IsInj
    <2>2. p \in Surjection(U, V)
      BY <1>4, <1>6, Fun_IsSurj
    <2>. QED  BY <2>1, <2>2 DEF Bijection
  <1>. HIDE DEF p
  <1>8. ExistsBijection(U, V)
    BY <1>7 DEF ExistsBijection
  <1>9. Total(g) = Cardinality(U) /\ IsFiniteSet(U)
    BY <1>0, TotalCounts
  <1>10. Total(f) = Cardinality(V)
    BY <1>0, TotalCounts
  <1>. HIDE DEF U, V
  <1>11. Cardinality(V) = Cardinality(U)
    BY <1>8, <1>9, FS_Bijection
  <1>. QED  BY <1>9, <1>10, <1>11

(* Fewer and smaller numbers add up to no more. *)
LEMMA TotalMonotone ==
    ASSUME NEW T, NEW S \in SUBSET T, NEW f, Summable(f, S), NEW g, Summable(g, T),
           \A x \in S : f[x] <= g[x]
    PROVE  Total(f) <= Total(g)
  <1>0. /\ IsFiniteSet(S) /\ f \in [S -> Nat] /\ IsFiniteSet(T) /\ g \in [T -> Nat]
    BY DEF Summable
  <1>1. Units(f, S) \in SUBSET Units(g, T)
    <2>1. ASSUME NEW w \in Units(f, S) PROVE w \in Units(g, T)
      <3>1. PICK x \in S, k \in Nat : w = <<x, k>> /\ k < f[x]
        BY DEF Units
      <3>2. f[x] \in Nat /\ g[x] \in Nat /\ f[x] <= g[x] /\ x \in T
        BY <1>0, <3>1
      <3>3. k < g[x]
        BY <3>1, <3>2
      <3>. QED  BY <3>1, <3>2, <3>3 DEF Units
    <2>. QED  BY <2>1
  <1>2. Total(f) = Cardinality(Units(f, S)) /\ Total(g) = Cardinality(Units(g, T))
    BY <1>0, TotalCounts
  <1>3. IsFiniteSet(Units(g, T))
    BY <1>0, UnitsFinite
  <1>. QED  BY <1>1, <1>2, <1>3, FS_Subset

(* What two disjoint sets of elements add up to. *)
LEMMA TotalSplit ==
    ASSUME NEW S, NEW T, S \cap T = {}, NEW f, Summable(f, S), NEW g, Summable(g, T),
           NEW h, Summable(h, S \cup T), Agree(f, h, S), Agree(g, h, T)
    PROVE  Total(h) = Total(f) + Total(g) /\ Total(f) \in Nat /\ Total(g) \in Nat
  <1>0. /\ IsFiniteSet(S) /\ f \in [S -> Nat] /\ IsFiniteSet(T) /\ g \in [T -> Nat]
        /\ IsFiniteSet(S \cup T) /\ h \in [S \cup T -> Nat]
    BY DEF Summable
  <1>. DEFINE A == Units(f, S)
              B == Units(g, T)
              C == Units(h, S \cup T)
  <1>1. C = A \cup B /\ A \cap B = {}
    BY DEF Units, Agree
  <1>2. Total(f) = Cardinality(A) /\ Total(g) = Cardinality(B) /\ Total(h) = Cardinality(C)
    BY <1>0, TotalCounts
  <1>3. IsFiniteSet(A) /\ IsFiniteSet(B)
    BY <1>0, UnitsFinite
  <1>. HIDE DEF A, B, C
  <1>4. Cardinality(C) = Cardinality(A) + Cardinality(B) - Cardinality(A \cap B)
    BY <1>1, <1>3, FS_Union
  <1>5. Cardinality(A \cap B) = 0
    BY <1>1, FS_EmptySet
  <1>6. Cardinality(A) \in Nat /\ Cardinality(B) \in Nat
    BY <1>3, FS_CardinalityType
  <1>. QED  BY <1>2, <1>4, <1>5, <1>6

-----------------------------------------------------------------------------
(* Sequences of natural numbers *)

(* The positions of a sequence are finitely many. *)
LEMMA PositionsFinite ==
    ASSUME NEW n \in Nat
    PROVE  IsFiniteSet(1..n)
  <1>1. 1 \in Int /\ n \in Int
    OBVIOUS
  <1>. QED  BY <1>1, FS_Interval, Zenon

(* One more number at the end. *)
LEMMA TotalLonger ==
    ASSUME NEW n \in Nat, NEW f, f \in [1..n -> Nat], NEW g, g \in [1..(n + 1) -> Nat],
           \A i \in 1..n : g[i] = f[i]
    PROVE  Total(g) = Total(f) + g[n + 1] /\ Total(f) \in Nat
  <1>. DEFINE D == 1..(n + 1)
              N == 1..n
              m == n + 1
  <1>1. m \in D /\ N = D \ {m} /\ m \in Nat /\ g[m] \in Nat
    OBVIOUS
  <1>2. Summable(f, N) /\ Summable(g, D) /\ Agree(f, g, N)
    BY <1>1, PositionsFinite DEF Summable, Agree
  <1>. HIDE DEF D, N, m
  <1>4. Total(g) = g[m] + Total(f)
    BY <1>1, <1>2, TotalRemove
  <1>5. Total(f) \in Nat
    BY <1>2, TotalType
  <1>. QED  BY <1>1, <1>4, <1>5 DEF m

(* g is f without its first number. *)
Shifted(g, f, n) ==
    n \in Nat /\ f \in [1..(n + 1) -> Nat] /\ g \in [1..n -> Nat]
      /\ \A i \in 1..n : g[i] = f[i + 1]

(* The first number taken off. *)
LEMMA TotalShorter ==
    ASSUME NEW n, NEW f, NEW g, Shifted(g, f, n)
    PROVE  Total(f) = f[1] + Total(g) /\ Total(g) \in Nat
  <1>. DEFINE D == 1..(n + 1)
              N == 1..n
              R == D \ {1}
              r == [y \in R |-> f[y]]
              b == [i \in N |-> i + 1]
  <1>0. /\ n \in Nat /\ f \in [D -> Nat] /\ g \in [N -> Nat]
        /\ \A i \in N : g[i] = f[i + 1]
    BY DEF Shifted
  <1>1. 1 \in D /\ n + 1 \in Nat /\ f[1] \in Nat
    BY <1>0
  <1>2. Summable(f, D) /\ Summable(g, N)
    BY <1>0,  <1>1, PositionsFinite DEF Summable
  <1>4. b \in Bijection(N, R)
    <2>1. b \in [N -> R] /\ \A i, j \in N : b[i] = b[j] => i = j
      BY <1>0
    <2>2. \A t \in R : t - 1 \in N /\ b[t - 1] = t
      BY <1>0
    <2>. HIDE DEF b, R, N
    <2>3. b \in Injection(N, R)
      BY <2>1, Fun_IsInj
    <2>4. b \in Surjection(N, R)
      BY <2>1, <2>2, Fun_IsSurj
    <2>. QED  BY <2>3, <2>4 DEF Bijection
  <1>5. \A i \in N : g[i] = r[b[i]]
    BY <1>0
  <1>6. Summable(r, R) /\ Agree(r, f, R)
    BY <1>2, Rest
  <1>. HIDE DEF r, b, D, N
  <1>7. Total(f) = f[1] + Total(r)
    BY <1>1, <1>2, <1>6, TotalRemove
  <1>. HIDE DEF R
  <1>8. Total(g) = Total(r)
    <2>1. Renames(b, g, N, r, R)
      BY <1>4, <1>5 DEF Renames
    <2>. QED  BY <1>2, <1>6, <2>1, TotalReindex
  <1>9. Total(g) \in Nat
    BY <1>2, TotalType
  <1>. QED  BY <1>1, <1>7, <1>8, <1>9
=============================================================================
