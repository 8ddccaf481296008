-------------------------- MODULE OrderBookProofs --------------------------
(***************************************************************************)
(* Proofs about OrderBook for any sets of orders, users, prices and        *)
(* quantities.  First the operators on slices and book sides, then three   *)
(* lemmas about steps that leave the book's structure alone, take an order *)
(* out of it or put one into it, then one lemma per operation of the code, *)
(* then the theorems, and last the sums: what Place's result and GET /book *)
(* add up to.                                                              *)
(***************************************************************************)
EXTENDS OrderBook, SequenceTheorems, SummationProofs

(* RemoveAt takes position i out of a sequence and keeps the order of the rest:
   what slicing a queue or the price slice around an index does. *)
LEMMA RemoveAtProperties ==
    ASSUME NEW S, NEW q \in Seq(S), NEW i \in 1..Len(q)
    PROVE  /\ RemoveAt(q, i) \in Seq(S)
           /\ Len(RemoveAt(q, i)) = Len(q) - 1
           /\ \A j \in 1..(Len(q) - 1) :
                RemoveAt(q, i)[j] = IF j < i THEN q[j] ELSE q[j + 1]
  <1>1. /\ SubSeq(q, 1, i - 1) \in Seq(S)
        /\ Len(SubSeq(q, 1, i - 1)) = i - 1
        /\ \A j \in 1..(i - 1) : SubSeq(q, 1, i - 1)[j] = q[j]
    OBVIOUS
  <1>2. /\ SubSeq(q, i + 1, Len(q)) \in Seq(S)
        /\ Len(SubSeq(q, i + 1, Len(q))) = Len(q) - i
        /\ \A j \in 1..(Len(q) - i) : SubSeq(q, i + 1, Len(q))[j] = q[i + j]
    OBVIOUS
  <1>. DEFINE a == SubSeq(q, 1, i - 1)
              b == SubSeq(q, i + 1, Len(q))
  <1>3. /\ a \o b \in Seq(S)
        /\ Len(a \o b) = Len(a) + Len(b)
        /\ \A j \in 1..(Len(a) + Len(b)) :
              (a \o b)[j] = IF j <= Len(a) THEN a[j] ELSE b[j - Len(a)]
    BY <1>1, <1>2, ConcatProperties
  <1>4. RemoveAt(q, i) = a \o b
    BY DEF RemoveAt
  <1>5. /\ Len(a) = i - 1
        /\ \A j \in 1..(i - 1) : a[j] = q[j]
        /\ Len(b) = Len(q) - i
        /\ \A j \in 1..(Len(q) - i) : b[j] = q[i + j]
    BY <1>1, <1>2
  <1>. HIDE DEF a, b
  <1>6. Len(a) + Len(b) = Len(q) - 1
    BY <1>5
  <1>7. ASSUME NEW j \in 1..(Len(q) - 1)
        PROVE  (a \o b)[j] = IF j < i THEN q[j] ELSE q[j + 1]
    <2>1. CASE j < i
      BY <1>3, <1>5, <1>6, <2>1
    <2>2. CASE ~(j < i)
      <3>1. (a \o b)[j] = b[j - (i - 1)]
        BY <1>3, <1>5, <1>6, <2>2
      <3>2. j - (i - 1) \in 1..(Len(q) - i)
        BY <2>2
      <3>3. b[j - (i - 1)] = q[i + (j - (i - 1))]
        BY <1>5, <3>2
      <3>. QED  BY <2>2, <3>1, <3>3
    <2>. QED  BY <2>1, <2>2
  <1>. QED  BY <1>3, <1>4, <1>6, <1>7

(* InsertAt puts e at position i and moves the rest up by one: what append and
   copy do in insertPrice. *)
LEMMA InsertAtProperties ==
    ASSUME NEW S, NEW q \in Seq(S), NEW i \in 1..(Len(q) + 1), NEW e \in S
    PROVE  /\ InsertAt(q, i, e) \in Seq(S)
           /\ Len(InsertAt(q, i, e)) = Len(q) + 1
           /\ \A j \in 1..(i - 1) : InsertAt(q, i, e)[j] = q[j]
           /\ InsertAt(q, i, e)[i] = e
           /\ \A j \in (i + 1)..(Len(q) + 1) : InsertAt(q, i, e)[j] = q[j - 1]
  <1>1. /\ SubSeq(q, 1, i - 1) \in Seq(S)
        /\ Len(SubSeq(q, 1, i - 1)) = i - 1
        /\ \A j \in 1..(i - 1) : SubSeq(q, 1, i - 1)[j] = q[j]
    OBVIOUS
  <1>2. /\ SubSeq(q, i, Len(q)) \in Seq(S)
        /\ Len(SubSeq(q, i, Len(q))) = Len(q) - i + 1
        /\ \A j \in 1..(Len(q) - i + 1) : SubSeq(q, i, Len(q))[j] = q[i + j - 1]
    OBVIOUS
  <1>. DEFINE a == SubSeq(q, 1, i - 1)
              b == SubSeq(q, i, Len(q))
              c == a \o <<e>>
  <1>3. /\ c \in Seq(S)
        /\ Len(c) = i
        /\ \A j \in 1..i : c[j] = IF j < i THEN q[j] ELSE e
    <2>1. a \in Seq(S) /\ Len(a) = i - 1 /\ \A j \in 1..(i - 1) : a[j] = q[j]
      BY <1>1
    <2>2. c = Append(a, e)
      BY <2>1
    <2>. HIDE DEF a, c
    <2>3. /\ c \in Seq(S) /\ Len(c) = Len(a) + 1
          /\ \A j \in 1..Len(a) : c[j] = a[j]
          /\ c[Len(a) + 1] = e
      BY <2>1, <2>2, AppendProperties
    <2>. QED  BY <2>1, <2>3
  <1>. HIDE DEF a, b, c
  <1>4. /\ c \o b \in Seq(S)
        /\ Len(c \o b) = Len(c) + Len(b)
        /\ \A j \in 1..(Len(c) + Len(b)) :
              (c \o b)[j] = IF j <= Len(c) THEN c[j] ELSE b[j - Len(c)]
    BY <1>2, <1>3, ConcatProperties DEF b
  <1>5. InsertAt(q, i, e) = c \o b
    BY DEF InsertAt, a, b, c
  <1>6. /\ Len(b) = Len(q) - i + 1
        /\ \A j \in 1..(Len(q) - i + 1) : b[j] = q[i + j - 1]
    BY <1>2 DEF b
  <1>. QED  BY <1>3, <1>4, <1>5, <1>6

(* A non-empty set of naturals has the minimum that sort.Search looks for. *)
LEMMA MinProperties ==
    ASSUME NEW T \in SUBSET Nat, T # {}
    PROVE  /\ Min(T) \in T
           /\ \A x \in T : Min(T) <= x
  <1>1. PICK x \in T : \A y \in T : ~ (<<y, x>> \in OpToRel(<, Nat))
    BY NatLessThanWellFounded, WFMin, Zenon
  <1>2. \A y \in T : x <= y
    <2>. SUFFICES ASSUME NEW y \in T, y < x PROVE FALSE
      OBVIOUS
    <2>1. <<y, x>> \in Nat \X Nat /\ <<y, x>>[1] < <<y, x>>[2]
      OBVIOUS
    <2>2. <<y, x>> \in OpToRel(<, Nat)
      BY <2>1, Zenon DEF OpToRel
    <2>. QED  BY <1>1, <2>2, Zenon
  <1>. QED  BY <1>2 DEF Min

(* RemoveFirst removes one position, the first that holds the element. *)
LEMMA RemoveFirstPosition ==
    ASSUME NEW S, NEW q \in Seq(S), NEW e, \E i \in 1..Len(q) : q[i] = e
    PROVE  \E i \in 1..Len(q) : /\ q[i] = e
                                /\ RemoveFirst(q, e) = RemoveAt(q, i)
  <1>. DEFINE I == {i \in 1..Len(q) : q[i] = e}
  <1>1. I \in SUBSET Nat /\ I # {}
    OBVIOUS
  <1>2. Min(I) \in I
    BY <1>1, MinProperties
  <1>3. SelectInSeq(q, LAMBDA v : v = e) = Min(I)
    BY <1>1 DEF SelectInSeq
  <1>4. RemoveFirst(q, e) = RemoveAt(q, Min(I))
    BY <1>3 DEF RemoveFirst
  <1>. QED  BY <1>2, <1>4

-----------------------------------------------------------------------------
(* One side of the book. *)

Sorted(s, prices) ==
    \A i, j \in 1..Len(prices) : i < j => Better(s, prices[i], prices[j])

(* What PricesSorted and LevelsMatchPrices say of one side. *)
SideOK(s, b) ==
    /\ b \in BookSide
    /\ Sorted(s, b.prices)
    /\ ToSet(b.prices) = Keys(b)
    /\ \A p \in Keys(b) : b.levels[p] # <<>>

(* The elements of a sequence are what its positions hold. *)
LEMMA ToSetMember ==
    ASSUME NEW S, NEW q \in Seq(S)
    PROVE  \A x : x \in ToSet(q) <=> \E i \in 1..Len(q) : q[i] = x
  <1>1. DOMAIN q = 1..Len(q)
    OBVIOUS
  <1>. QED  BY <1>1, Zenon DEF ToSet

(* insertPrice keeps the price slice strictly best-first and adds exactly the
   new price. *)
LEMMA InsertPriceOK ==
    ASSUME NEW s \in Side, NEW prices \in Seq(Price), Sorted(s, prices),
           NEW p \in Price, p \notin ToSet(prices)
    PROVE  /\ InsertPrice(s, prices, p) \in Seq(Price)
           /\ Sorted(s, InsertPrice(s, prices, p))
           /\ ToSet(InsertPrice(s, prices, p)) = ToSet(prices) \cup {p}
  <1>. DEFINE T == {i \in 1..Len(prices) : Better(s, p, prices[i])} \cup {Len(prices) + 1}
              k == SearchIndex(s, prices, p)
              r == InsertPrice(s, prices, p)
  <1>0. Len(prices) \in Nat
    OBVIOUS
  <1>1. T \in SUBSET Nat /\ T # {}
    OBVIOUS
  <1>2. k \in T /\ \A x \in T : k <= x
    BY <1>1, MinProperties DEF SearchIndex
  <1>3. k \in 1..(Len(prices) + 1)
    BY <1>2
  <1>4. \A i \in 1..Len(prices) : i < k => ~Better(s, p, prices[i])
    BY <1>2, <1>3
  <1>5. k <= Len(prices) => Better(s, p, prices[k])
    BY <1>2
  <1>6. r = InsertAt(prices, k, p)
    BY DEF InsertPrice
  <1>. HIDE DEF k, T, r
  <1>7. /\ r \in Seq(Price)
        /\ Len(r) = Len(prices) + 1
        /\ \A j \in 1..(k - 1) : r[j] = prices[j]
        /\ r[k] = p
        /\ \A j \in (k + 1)..(Len(prices) + 1) : r[j] = prices[j - 1]
    <2>1. r \in Seq(Price) /\ Len(r) = Len(prices) + 1
      BY <1>3, <1>6, InsertAtProperties
    <2>2. \A j \in 1..(k - 1) : r[j] = prices[j]
      BY <1>3, <1>6, InsertAtProperties
    <2>3. r[k] = p
      BY <1>3, <1>6, InsertAtProperties
    <2>4. \A j \in (k + 1)..(Len(prices) + 1) : r[j] = prices[j - 1]
      <3>1. \A j \in (k + 1)..(Len(prices) + 1) : InsertAt(prices, k, p)[j] = prices[j - 1]
        BY <1>3, InsertAtProperties
      <3>. QED  BY <1>6, <3>1
    <2>. QED  BY <2>1, <2>2, <2>3, <2>4
  <1>8. \A i \in 1..Len(prices) : prices[i] \in Price /\ prices[i] # p
    BY ToSetMember
  <1>9. p \in Nat /\ \A i \in 1..Len(prices) : prices[i] \in Nat
    BY <1>8, PriceAssumption
  <1>10. ASSUME NEW i \in 1..Len(prices), i < k PROVE Better(s, prices[i], p)
    <2>1. prices[i] \in Nat /\ p \in Nat /\ prices[i] # p /\ ~Better(s, p, prices[i])
      BY <1>4, <1>8, <1>9, <1>10
    <2>. QED  BY <2>1 DEF Better
  <1>11. ASSUME NEW i \in 1..Len(prices), i >= k PROVE Better(s, p, prices[i])
    <2>1. k \in 1..Len(prices)
      BY <1>3, <1>11
    <2>2. Better(s, p, prices[k])
      BY <1>5, <2>1
    <2>3. k # i => Better(s, prices[k], prices[i])
      BY <1>11, <2>1 DEF Sorted
    <2>4. prices[k] \in Nat /\ prices[i] \in Nat /\ p \in Nat
      BY <1>9, <2>1
    <2>. QED  BY <2>2, <2>3, <2>4 DEF Better
  <1>12. Sorted(s, r)
    <2>. SUFFICES ASSUME NEW i \in 1..Len(r), NEW j \in 1..Len(r), i < j
                  PROVE  Better(s, r[i], r[j])
      BY DEF Sorted
    <2>0. i \in 1..(Len(prices) + 1) /\ j \in 1..(Len(prices) + 1)
      BY <1>7
    <2>1. CASE j < k
      <3>1. r[i] = prices[i] /\ r[j] = prices[j] /\ i \in 1..Len(prices) /\ j \in 1..Len(prices)
        BY <1>3, <1>7, <2>0, <2>1
      <3>. QED  BY <3>1 DEF Sorted
    <2>2. CASE j = k
      <3>1. r[i] = prices[i] /\ r[j] = p /\ i \in 1..Len(prices) /\ i < k
        BY <1>3, <1>7, <2>0, <2>2
      <3>. QED  BY <1>10, <3>1
    <2>3. CASE j > k /\ i < k
      <3>1. r[i] = prices[i] /\ r[j] = prices[j - 1]
        BY <1>3, <1>7, <2>0, <2>3
      <3>2. i \in 1..Len(prices) /\ j - 1 \in 1..Len(prices) /\ i < j - 1
        BY <1>3, <2>0, <2>3
      <3>. QED  BY <3>1, <3>2 DEF Sorted
    <2>4. CASE j > k /\ i = k
      <3>1. r[i] = p /\ r[j] = prices[j - 1]
        BY <1>3, <1>7, <2>0, <2>4
      <3>2. j - 1 \in 1..Len(prices) /\ j - 1 >= k
        BY <1>3, <2>0, <2>4
      <3>. QED  BY <1>11, <3>1, <3>2
    <2>5. CASE j > k /\ i > k
      <3>1. r[i] = prices[i - 1] /\ r[j] = prices[j - 1]
        BY <1>3, <1>7, <2>0, <2>5
      <3>2. i - 1 \in 1..Len(prices) /\ j - 1 \in 1..Len(prices) /\ i - 1 < j - 1
        BY <1>3, <2>0, <2>5
      <3>. QED  BY <3>1, <3>2 DEF Sorted
    <2>. QED  BY <1>3, <2>0, <2>1, <2>2, <2>3, <2>4, <2>5
  <1>13. ToSet(r) = ToSet(prices) \cup {p}
    <2>1. ASSUME NEW j \in 1..Len(r) PROVE r[j] \in ToSet(prices) \cup {p}
      <3>0. j \in 1..(Len(prices) + 1)
        BY <1>7
      <3>1. CASE j = k
        BY <1>7, <3>0, <3>1
      <3>2. CASE j < k
        <4>1. j \in 1..Len(prices) /\ r[j] = prices[j]
          BY <1>3, <1>7, <3>0, <3>2
        <4>. QED  BY <4>1, ToSetMember
      <3>3. CASE j > k
        <4>1. j - 1 \in 1..Len(prices) /\ r[j] = prices[j - 1]
          BY <1>3, <1>7, <3>0, <3>3
        <4>. QED  BY <4>1, ToSetMember
      <3>. QED  BY <1>3, <3>0, <3>1, <3>2, <3>3
    <2>2. p \in ToSet(r)
      <3>1. k \in 1..Len(r) /\ r[k] = p
        BY <1>3, <1>7
      <3>. QED  BY <1>7, <3>1, ToSetMember
    <2>3. ASSUME NEW i \in 1..Len(prices) PROVE prices[i] \in ToSet(r)
      <3>1. CASE i < k
        <4>1. i \in 1..Len(r) /\ r[i] = prices[i]
          BY <1>3, <1>7, <3>1
        <4>. QED  BY <1>7, <4>1, ToSetMember
      <3>2. CASE ~(i < k)
        <4>1. PICK j \in (k + 1)..(Len(prices) + 1) : j - 1 = i
          <5>1. i + 1 \in (k + 1)..(Len(prices) + 1) /\ (i + 1) - 1 = i
            BY <1>3, <3>2
          <5>. QED  BY <5>1
        <4>2. r[j] = prices[i]
          BY <1>7, <4>1
        <4>3. j \in 1..Len(r)
          BY <1>3, <1>7
        <4>. QED  BY <1>7, <4>2, <4>3, ToSetMember
      <3>. QED  BY <3>1, <3>2
    <2>4. \A x : x \in ToSet(r) => x \in ToSet(prices) \cup {p}
      BY <1>7, <2>1, ToSetMember
    <2>5. \A x : x \in ToSet(prices) => x \in ToSet(r)
      BY <2>3, ToSetMember
    <2>. QED  BY <2>2, <2>4, <2>5
  <1>. QED  BY <1>7, <1>12, <1>13 DEF r

(* removePrice keeps the price slice strictly best-first and takes out exactly
   the price it is given. *)
LEMMA RemovePriceOK ==
    ASSUME NEW s \in Side, NEW prices \in Seq(Price), Sorted(s, prices),
           NEW p \in ToSet(prices)
    PROVE  /\ RemovePrice(prices, p) \in Seq(Price)
           /\ Sorted(s, RemovePrice(prices, p))
           /\ ToSet(RemovePrice(prices, p)) = ToSet(prices) \ {p}
  <1>. DEFINE r == RemovePrice(prices, p)
  <1>1. \E i \in 1..Len(prices) : prices[i] = p
    BY ToSetMember
  <1>2. PICK k \in 1..Len(prices) : prices[k] = p /\ r = RemoveAt(prices, k)
    BY <1>1, RemoveFirstPosition DEF RemovePrice
  <1>. HIDE DEF r
  <1>3. /\ r \in Seq(Price)
        /\ Len(r) = Len(prices) - 1
        /\ \A j \in 1..(Len(prices) - 1) : r[j] = IF j < k THEN prices[j] ELSE prices[j + 1]
    BY <1>2, RemoveAtProperties
  <1>4. \A i \in 1..Len(prices) : prices[i] \in Nat
    <2>1. \A i \in 1..Len(prices) : prices[i] \in Price
      OBVIOUS
    <2>. QED  BY <2>1, PriceAssumption
  <1>5. ASSUME NEW i \in 1..Len(prices), i # k PROVE prices[i] # p
    <2>1. Better(s, prices[i], prices[k]) \/ Better(s, prices[k], prices[i])
      BY <1>5 DEF Sorted
    <2>2. prices[i] \in Nat /\ prices[k] \in Nat
      BY <1>4
    <2>. QED  BY <1>2, <2>1, <2>2 DEF Better
  <1>6. Sorted(s, r)
    <2>. SUFFICES ASSUME NEW i \in 1..Len(r), NEW j \in 1..Len(r), i < j
                  PROVE  Better(s, r[i], r[j])
      BY DEF Sorted
    <2>0. i \in 1..(Len(prices) - 1) /\ j \in 1..(Len(prices) - 1)
      BY <1>3
    <2>1. CASE j < k
      <3>1. r[i] = prices[i] /\ r[j] = prices[j] /\ i \in 1..Len(prices) /\ j \in 1..Len(prices)
        BY <1>3, <2>0, <2>1
      <3>. QED  BY <3>1 DEF Sorted
    <2>2. CASE ~(j < k) /\ i < k
      <3>1. r[i] = prices[i] /\ r[j] = prices[j + 1]
        BY <1>3, <2>0, <2>2
      <3>2. i \in 1..Len(prices) /\ j + 1 \in 1..Len(prices) /\ i < j + 1
        BY <2>0, <2>2
      <3>. QED  BY <3>1, <3>2 DEF Sorted
    <2>3. CASE ~(j < k) /\ ~(i < k)
      <3>1. r[i] = prices[i + 1] /\ r[j] = prices[j + 1]
        BY <1>3, <2>0, <2>3
      <3>2. i + 1 \in 1..Len(prices) /\ j + 1 \in 1..Len(prices) /\ i + 1 < j + 1
        BY <2>0, <2>3
      <3>. QED  BY <3>1, <3>2 DEF Sorted
    <2>4. j < k => i < k
      BY <2>0
    <2>. QED  BY <2>1, <2>2, <2>3, <2>4
  <1>7. ASSUME NEW j \in 1..Len(r) PROVE r[j] \in ToSet(prices) \ {p}
    <2>0. j \in 1..(Len(prices) - 1)
      BY <1>3
    <2>1. CASE j < k
      <3>1. j \in 1..Len(prices) /\ j # k /\ r[j] = prices[j]
        BY <1>3, <2>0, <2>1
      <3>. QED  BY <1>5, <3>1, ToSetMember
    <2>2. CASE ~(j < k)
      <3>1. j + 1 \in 1..Len(prices) /\ j + 1 # k /\ r[j] = prices[j + 1]
        BY <1>3, <2>0, <2>2
      <3>. QED  BY <1>5, <3>1, ToSetMember
    <2>. QED  BY <2>1, <2>2
  <1>8. ASSUME NEW i \in 1..Len(prices), prices[i] # p PROVE prices[i] \in ToSet(r)
    <2>1. CASE i < k
      <3>1. i \in 1..Len(r) /\ r[i] = prices[i]
        BY <1>3, <2>1
      <3>. QED  BY <1>3, <3>1, ToSetMember
    <2>2. CASE ~(i < k)
      <3>1. i - 1 \in 1..(Len(prices) - 1) /\ ~(i - 1 < k) /\ (i - 1) + 1 = i
        BY <1>2, <1>8, <2>2
      <3>2. i - 1 \in 1..Len(r) /\ r[i - 1] = prices[i]
        BY <1>3, <3>1
      <3>. QED  BY <1>3, <3>2, ToSetMember
    <2>. QED  BY <2>1, <2>2
  <1>9. ToSet(r) = ToSet(prices) \ {p}
    <2>1. \A x : x \in ToSet(r) => x \in ToSet(prices) \ {p}
      BY <1>3, <1>7, ToSetMember
    <2>2. \A x : x \in ToSet(prices) \ {p} => x \in ToSet(r)
      BY <1>8, ToSetMember
    <2>. QED  BY <2>1, <2>2
  <1>. QED  BY <1>3, <1>6, <1>9 DEF r

(* The orders queued at p, none if there is no level. *)
QueueAt(b, p) == IF b.levels[p] = None THEN <<>> ELSE b.levels[p]

(* add, seen from the map: the order joins the back of the queue at p. *)
LEMMA AddOK ==
    ASSUME NEW s \in Side, NEW b, SideOK(s, b), NEW p \in Price, NEW id \in OrderID
    PROVE  /\ SideOK(s, Add(s, b, p, id))
           /\ Add(s, b, p, id).levels =
                [b.levels EXCEPT ![p] = Append(QueueAt(b, p), id)]
  <1>. DEFINE r == Add(s, b, p, id)
              old == QueueAt(b, p)
  <1>1. /\ b.levels \in [Price -> Seq(OrderID) \cup {None}]
        /\ b.prices \in Seq(Price)
        /\ b = [levels |-> b.levels, prices |-> b.prices]
    BY DEF SideOK, BookSide
  <1>2. r.levels = [b.levels EXCEPT ![p] = Append(old, id)]
    BY <1>1 DEF Add, NewLevel, QueueAt
  <1>3. r.prices = IF b.levels[p] = None THEN InsertPrice(s, b.prices, p) ELSE b.prices
    BY <1>1 DEF Add, NewLevel
  <1>4. r = [levels |-> r.levels, prices |-> r.prices]
    <2>. DEFINE c == IF b.levels[p] # None THEN b ELSE NewLevel(s, b, p)
    <2>1. c = [levels |-> c.levels, prices |-> c.prices]
      BY <1>1 DEF NewLevel
    <2>2. r = [c EXCEPT !.levels = [c.levels EXCEPT ![p] = Append(c.levels[p], id)]]
      BY DEF Add
    <2>. HIDE DEF c, r
    <2>. QED  BY <2>1, <2>2
  <1>5. old \in Seq(OrderID)
    BY <1>1 DEF QueueAt
  <1>6. Append(old, id) \in Seq(OrderID) /\ Append(old, id) # <<>>
    BY <1>5, AppendProperties
  <1>. HIDE DEF r, old
  <1>7. r.levels \in [Price -> Seq(OrderID) \cup {None}]
    BY <1>1, <1>2, <1>6
  <1>8. Keys(r) = Keys(b) \cup {p}
    BY <1>1, <1>2, <1>6, NoneIsNoQueue DEF Keys
  <1>9. \A x \in Keys(r) : r.levels[x] # <<>>
    BY <1>1, <1>2, <1>6 DEF Keys, SideOK
  <1>10. r.prices \in Seq(Price) /\ Sorted(s, r.prices) /\ ToSet(r.prices) = Keys(r)
    <2>1. CASE b.levels[p] = None
      <3>1. p \notin ToSet(b.prices)
        BY <2>1 DEF SideOK, Keys
      <3>. QED  BY <1>1, <1>3, <1>8, <2>1, <3>1, InsertPriceOK DEF SideOK
    <2>2. CASE b.levels[p] # None
      BY <1>1, <1>3, <1>8, <2>2 DEF SideOK, Keys
    <2>. QED  BY <2>1, <2>2
  <1>11. r \in BookSide
    BY <1>4, <1>7, <1>10 DEF BookSide
  <1>12. SideOK(s, r)
    BY <1>9, <1>10, <1>11 DEF SideOK
  <1>. QED  BY <1>2, <1>12 DEF r, old

(* popFront and remove, seen from the map: the queue at p is shortened, and
   its entry disappears when nothing is left of it. *)
LEMMA ShrinkLevelOK ==
    ASSUME NEW s \in Side, NEW b, SideOK(s, b), NEW p \in Keys(b), NEW queue \in Seq(OrderID)
    PROVE  /\ SideOK(s, ShrinkLevel(b, p, queue))
           /\ ShrinkLevel(b, p, queue).levels =
                [b.levels EXCEPT ![p] = IF queue = <<>> THEN None ELSE queue]
  <1>. DEFINE r == ShrinkLevel(b, p, queue)
  <1>1. /\ b.levels \in [Price -> Seq(OrderID) \cup {None}]
        /\ b.prices \in Seq(Price)
        /\ b = [levels |-> b.levels, prices |-> b.prices]
        /\ p \in Price
    BY DEF SideOK, BookSide, Keys
  <1>2. r.levels = [b.levels EXCEPT ![p] = IF queue = <<>> THEN None ELSE queue]
    BY <1>1 DEF ShrinkLevel
  <1>3. r.prices = IF queue = <<>> THEN RemovePrice(b.prices, p) ELSE b.prices
    BY <1>1 DEF ShrinkLevel
  <1>4. r = [levels |-> r.levels, prices |-> r.prices]
    BY <1>1 DEF ShrinkLevel
  <1>. HIDE DEF r
  <1>5. r.levels \in [Price -> Seq(OrderID) \cup {None}]
    BY <1>1, <1>2
  <1>6. Keys(r) = IF queue = <<>> THEN Keys(b) \ {p} ELSE Keys(b)
    BY <1>1, <1>2, NoneIsNoQueue DEF Keys
  <1>7. \A x \in Keys(r) : r.levels[x] # <<>>
    BY <1>1, <1>2 DEF Keys, SideOK
  <1>8. r.prices \in Seq(Price) /\ Sorted(s, r.prices) /\ ToSet(r.prices) = Keys(r)
    <2>1. CASE queue = <<>>
      <3>1. p \in ToSet(b.prices)
        BY DEF SideOK
      <3>. QED  BY <1>1, <1>3, <1>6, <2>1, <3>1, RemovePriceOK DEF SideOK
    <2>2. CASE queue # <<>>
      BY <1>1, <1>3, <1>6, <2>2 DEF SideOK
    <2>. QED  BY <2>1, <2>2
  <1>9. r \in BookSide
    BY <1>4, <1>5, <1>8 DEF BookSide
  <1>10. SideOK(s, r)
    BY <1>7, <1>8, <1>9 DEF SideOK
  <1>. QED  BY <1>2, <1>10 DEF r
-----------------------------------------------------------------------------
(* The inductive invariant of OrderBook: the safety invariants of the module
   together.  None is inductive alone.  Place finds its maker through prices,
   levels and queue at once; that a level's head is an indexed, unfilled order
   of that price needs IndexMatchesQueues and StatusMatchesFill; the order of
   acceptance in a queue needs that the taker holds the last number. *)

BookInv ==
    /\ TypeOK
    /\ PricesSorted
    /\ LevelsMatchPrices
    /\ IndexMatchesQueues
    /\ QueuesInTimeOrder
    /\ Uncrossed
    /\ StatusMatchesFill
    /\ SequencesUnique

(* The parts of it that speak of the two sides and the index. *)
StructureOK ==
    /\ book \in [Side -> BookSide]
    /\ orders \in SUBSET OrderID
    /\ PricesSorted
    /\ LevelsMatchPrices
    /\ IndexMatchesQueues
    /\ QueuesInTimeOrder
    /\ Uncrossed

(* A step keeps the attributes by which the orders of S are filed. *)
SameKeys(S) ==
    \A x \in S : /\ order'[x] # None
                 /\ order'[x].side = order[x].side
                 /\ order'[x].price = order[x].price
                 /\ order'[x].sequence = order[x].sequence

(* PricesSorted and LevelsMatchPrices, side by side. *)
LEMMA SidesOK ==
    ASSUME book \in [Side -> BookSide]
    PROVE  (PricesSorted /\ LevelsMatchPrices) <=> \A s \in Side : SideOK(s, book[s])
  BY DEF PricesSorted, LevelsMatchPrices, SideOK, Sorted

(* The same after a step. *)
LEMMA SidesOKPrime ==
    ASSUME book' \in [Side -> BookSide]
    PROVE  (PricesSorted' /\ LevelsMatchPrices') <=> \A s \in Side : SideOK(s, book'[s])
  BY DEF PricesSorted, LevelsMatchPrices, SideOK, Sorted, Keys

(* A step that leaves the sides and the index alone. *)
LEMMA StructureKept ==
    ASSUME StructureOK, book' = book, orders' = orders, SameKeys(orders)
    PROVE  StructureOK'
  <1>1. PricesSorted' /\ LevelsMatchPrices'
    BY DEF StructureOK, PricesSorted, LevelsMatchPrices, Keys
  <1>2. \A s \in Side : \A p \in Keys(book[s]) : \A i \in 1..Len(book[s].levels[p]) :
          /\ book[s].levels[p][i] \in orders
          /\ order[book[s].levels[p][i]].side = s
          /\ order[book[s].levels[p][i]].price = p
    BY DEF StructureOK, IndexMatchesQueues
  <1>3. IndexMatchesQueues'
    <2>1. \A id \in orders :
          /\ order'[id] # None
          /\ order'[id].price \in Keys(book[order'[id].side])
          /\ \E i \in 1..Len(book[order'[id].side].levels[order'[id].price]) :
               book[order'[id].side].levels[order'[id].price][i] = id
      BY DEF StructureOK, IndexMatchesQueues, SameKeys
    <2>2. \A s \in Side : \A p \in Keys(book[s]) : \A i \in 1..Len(book[s].levels[p]) :
          /\ book[s].levels[p][i] \in orders
          /\ order'[book[s].levels[p][i]].side = s
          /\ order'[book[s].levels[p][i]].price = p
      <3>1. \A x \in orders : order'[x].side = order[x].side /\ order'[x].price = order[x].price
        BY Zenon DEF SameKeys
      <3>2. ASSUME NEW s \in Side, NEW p \in Keys(book[s]), NEW i \in 1..Len(book[s].levels[p])
            PROVE  /\ book[s].levels[p][i] \in orders
                   /\ order'[book[s].levels[p][i]].side = s
                   /\ order'[book[s].levels[p][i]].price = p
        <4>1. /\ book[s].levels[p][i] \in orders
              /\ order[book[s].levels[p][i]].side = s
              /\ order[book[s].levels[p][i]].price = p
          BY <1>2, Zenon
        <4>2. /\ order'[book[s].levels[p][i]].side = order[book[s].levels[p][i]].side
              /\ order'[book[s].levels[p][i]].price = order[book[s].levels[p][i]].price
          BY <3>1, <4>1, Zenon
        <4>. QED  BY <4>1, <4>2, Zenon
      <3>. QED  BY <3>2, Zenon
    <2>. QED  BY <2>1, <2>2 DEF IndexMatchesQueues, Keys
  <1>4. QueuesInTimeOrder'
    <2>. SUFFICES ASSUME NEW s \in Side, NEW p \in Keys(book[s]),
                         NEW i \in 1..Len(book[s].levels[p]),
                         NEW j \in 1..Len(book[s].levels[p]), i < j
                  PROVE  order'[book[s].levels[p][i]].sequence
                           < order'[book[s].levels[p][j]].sequence
      BY DEF QueuesInTimeOrder, Keys
    <2>1. order[book[s].levels[p][i]].sequence < order[book[s].levels[p][j]].sequence
      BY DEF StructureOK, QueuesInTimeOrder
    <2>2. book[s].levels[p][i] \in orders /\ book[s].levels[p][j] \in orders
      BY <1>2
    <2>. QED  BY <2>1, <2>2 DEF SameKeys
  <1>5. Uncrossed'
    BY DEF StructureOK, Uncrossed, SameKeys
  <1>. QED  BY <1>1, <1>3, <1>4, <1>5 DEF StructureOK

(* IndexMatchesQueues after a step, from what it says of queues and index. *)
LEMMA IndexPrime ==
    ASSUME \A s \in Side : \A p \in Keys(book'[s]) : \A i \in 1..Len(book'[s].levels[p]) :
             /\ book'[s].levels[p][i] \in orders'
             /\ order'[book'[s].levels[p][i]].side = s
             /\ order'[book'[s].levels[p][i]].price = p,
           \A x \in orders' :
             /\ order'[x] # None
             /\ order'[x].price \in Keys(book'[order'[x].side])
             /\ \E i \in 1..Len(book'[order'[x].side].levels[order'[x].price]) :
                  book'[order'[x].side].levels[order'[x].price][i] = x
    PROVE  IndexMatchesQueues'
  BY DEF IndexMatchesQueues, Keys

(* A step that takes one order out of its queue and out of the index. *)
LEMMA OrderRemoved ==
    ASSUME StructureOK, order \in [OrderID -> Order \cup {None}],
           NEW d \in orders, NEW s, s = order[d].side, NEW p, p = order[d].price,
           NEW k \in 1..Len(book[s].levels[p]), book[s].levels[p][k] = d,
           book' = [book EXCEPT ![s] = ShrinkLevel(book[s], p, RemoveAt(book[s].levels[p], k))],
           orders' = orders \ {d},
           SameKeys(orders \ {d})
    PROVE  StructureOK'
  <1>. DEFINE Q == book[s].levels[p]
              R == RemoveAt(book[s].levels[p], k)
  <1>1. /\ d \in OrderID /\ order[d] \in Order
        /\ s \in Side /\ p \in Price /\ p \in Keys(book[s])
    BY DEF StructureOK, IndexMatchesQueues, Order
  <1>2. /\ book \in [Side -> BookSide]
        /\ \A s2 \in Side : book[s2].levels \in [Price -> Seq(OrderID) \cup {None}]
    BY DEF StructureOK, BookSide
  <1>3. Q \in Seq(OrderID)
    BY <1>1, <1>2 DEF Keys
  <1>4. /\ R \in Seq(OrderID)
        /\ Len(R) = Len(Q) - 1
        /\ \A j \in 1..(Len(Q) - 1) : R[j] = IF j < k THEN Q[j] ELSE Q[j + 1]
    BY <1>3, RemoveAtProperties
  <1>5. SideOK(s, book[s])
    BY <1>1, <1>2, SidesOK DEF StructureOK
  <1>6. /\ SideOK(s, ShrinkLevel(book[s], p, R))
        /\ ShrinkLevel(book[s], p, R).levels =
             [book[s].levels EXCEPT ![p] = IF R = <<>> THEN None ELSE R]
    <2>. HIDE DEF Q, R
    <2>. QED  BY <1>1, <1>4, <1>5, ShrinkLevelOK
  <1>0. k \in 1..Len(Q) /\ Q[k] = d
    OBVIOUS
  <1>. HIDE DEF Q, R
  <1>7. /\ book' \in [Side -> BookSide]
        /\ \A s2 \in Side : SideOK(s2, book'[s2])
    <2>1. ShrinkLevel(book[s], p, R) \in BookSide
      BY <1>6 DEF SideOK
    <2>2. \A s2 \in Side : SideOK(s2, book[s2])
      BY <1>2, SidesOK DEF StructureOK
    <2>. QED  BY <1>1, <1>2, <1>6, <2>1, <2>2 DEF R
  <1>8. PricesSorted' /\ LevelsMatchPrices'
    BY <1>7, SidesOKPrime
  <1>9. /\ book'[s].levels[p] = IF R = <<>> THEN None ELSE R
        /\ \A s2 \in Side, p2 \in Price :
             (s2 # s \/ p2 # p) => book'[s2].levels[p2] = book[s2].levels[p2]
    <2>1. book'[s].levels = [book[s].levels EXCEPT ![p] = IF R = <<>> THEN None ELSE R]
      BY <1>1, <1>2, <1>6 DEF R
    <2>2. \A s2 \in Side : s2 # s => book'[s2] = book[s2]
      BY <1>1, <1>2
    <2>3. p \in Price /\ book[s].levels \in [Price -> Seq(OrderID) \cup {None}]
      BY <1>1, <1>2
    <2>4. /\ book'[s].levels[p] = IF R = <<>> THEN None ELSE R
          /\ \A p2 \in Price : p2 # p => book'[s].levels[p2] = book[s].levels[p2]
      BY <2>1, <2>3
    <2>. QED  BY <2>2, <2>4, Zenon
  <1>10. \A s2 \in Side : \A p2 \in Keys(book[s2]) : \A i \in 1..Len(book[s2].levels[p2]) :
          /\ book[s2].levels[p2][i] \in orders
          /\ order[book[s2].levels[p2][i]].side = s2
          /\ order[book[s2].levels[p2][i]].price = p2
    BY DEF StructureOK, IndexMatchesQueues
  <1>11. \A i, j \in 1..Len(Q) : i < j => order[Q[i]].sequence < order[Q[j]].sequence
    BY <1>1 DEF StructureOK, QueuesInTimeOrder, Q
  <1>12. \A i \in 1..Len(Q) : order[Q[i]].sequence \in Nat
    <2>1. \A i \in 1..Len(Q) : Q[i] \in orders /\ order[Q[i]] # None
      BY <1>1, <1>10 DEF Q, StructureOK, IndexMatchesQueues
    <2>. QED  BY <2>1 DEF StructureOK, Order
  <1>13. ASSUME NEW i \in 1..Len(Q), i # k PROVE Q[i] # d
    <2>1. i < k \/ k < i
      BY <1>13, <1>3 DEF Q
    <2>2. order[Q[i]].sequence \in Nat /\ order[Q[k]].sequence \in Nat
      BY <1>0, <1>12
    <2>3. \/ order[Q[i]].sequence < order[Q[k]].sequence
          \/ order[Q[k]].sequence < order[Q[i]].sequence
      BY <1>0, <1>11, <2>1
    <2>4. order[Q[i]].sequence # order[Q[k]].sequence
      BY <2>2, <2>3
    <2>. QED  BY <1>0, <2>4
  \* What is left at position i of R stood at position pos(i) of Q.
  <1>. DEFINE pos(i) == IF i < k THEN i ELSE i + 1
  <1>14. /\ \A i \in 1..Len(R) : pos(i) \in 1..Len(Q) /\ pos(i) # k /\ R[i] = Q[pos(i)]
         /\ \A i, j \in 1..Len(R) : i < j => pos(i) < pos(j)
    BY <1>0, <1>3, <1>4
  <1>. HIDE DEF pos
  <1>15. \A i \in 1..Len(R) : /\ R[i] \in orders \ {d}
                              /\ order[R[i]].side = s /\ order[R[i]].price = p
    <2>1. \A i \in 1..Len(Q) : /\ Q[i] \in orders
                               /\ order[Q[i]].side = s /\ order[Q[i]].price = p
      BY <1>1, <1>10 DEF Q
    <2>. QED  BY <1>13, <1>14, <2>1
  <1>16. \A s2 \in Side : \A p2 \in Keys(book'[s2]) : \A i \in 1..Len(book'[s2].levels[p2]) :
          /\ book'[s2].levels[p2][i] \in orders'
          /\ order'[book'[s2].levels[p2][i]].side = s2
          /\ order'[book'[s2].levels[p2][i]].price = p2
    <2>. SUFFICES ASSUME NEW s2 \in Side, NEW p2 \in Keys(book'[s2]),
                         NEW i \in 1..Len(book'[s2].levels[p2])
                  PROVE  /\ book'[s2].levels[p2][i] \in orders'
                         /\ order'[book'[s2].levels[p2][i]].side = s2
                         /\ order'[book'[s2].levels[p2][i]].price = p2
      BY Zenon
    <2>. DEFINE L == book'[s2].levels[p2]
    <2>0. p2 \in Price /\ L # None /\ i \in 1..Len(L)
      BY DEF Keys
    <2>1. CASE s2 = s /\ p2 = p
      <3>1. L = R
        BY <1>9, <2>0, <2>1
      <3>. HIDE DEF L
      <3>2. L[i] \in orders \ {d} /\ order[L[i]].side = s2 /\ order[L[i]].price = p2
        BY <1>15, <2>0, <2>1, <3>1
      <3>. QED  BY <3>2 DEF SameKeys, L
    <2>2. CASE s2 # s \/ p2 # p
      <3>1. L = book[s2].levels[p2]
        BY <1>9, <2>0, <2>2
      <3>. HIDE DEF L
      <3>2. p2 \in Keys(book[s2])
        BY <2>0, <3>1 DEF Keys
      <3>3. L[i] \in orders /\ order[L[i]].side = s2 /\ order[L[i]].price = p2
        <4>1. i \in 1..Len(book[s2].levels[p2])
          BY <2>0, <3>1, Zenon
        <4>2. /\ book[s2].levels[p2][i] \in orders
              /\ order[book[s2].levels[p2][i]].side = s2
              /\ order[book[s2].levels[p2][i]].price = p2
          BY <1>10, <3>2, <4>1, Zenon
        <4>. QED  BY <3>1, <4>2, Zenon
      <3>4. L[i] # d
        BY <2>2, <3>3
      <3>5. L[i] \in orders'
        BY <3>3, <3>4
      <3>6. order'[L[i]].side = s2 /\ order'[L[i]].price = p2
        BY <3>3, <3>5 DEF SameKeys
      <3>. QED  BY <3>5, <3>6 DEF L
    <2>. QED  BY <2>1, <2>2
  <1>17. ASSUME NEW x \in orders'
         PROVE  /\ order'[x] # None
                /\ order'[x].price \in Keys(book'[order'[x].side])
                /\ \E i \in 1..Len(book'[order'[x].side].levels[order'[x].price]) :
                     book'[order'[x].side].levels[order'[x].price][i] = x
    <2>. DEFINE s2 == order[x].side
                p2 == order[x].price
    <2>1. x \in orders /\ x # d /\ order'[x] # None /\ order'[x].side = s2 /\ order'[x].price = p2
      BY DEF SameKeys
    <2>2. /\ order[x] \in Order /\ p2 \in Keys(book[s2])
          /\ \E i \in 1..Len(book[s2].levels[p2]) : book[s2].levels[p2][i] = x
      BY <2>1 DEF StructureOK, IndexMatchesQueues
    <2>3. s2 \in Side /\ p2 \in Price
      BY <2>2 DEF Order
    <2>. HIDE DEF s2, p2
    <2>4. CASE s2 = s /\ p2 = p
      <3>1. PICK i \in 1..Len(Q) : Q[i] = x
        BY <2>2, <2>4 DEF Q
      <3>2. i # k
        BY <1>0, <2>1, <3>1
      <3>. DEFINE j == IF i < k THEN i ELSE i - 1
      <3>3. j \in 1..Len(R) /\ pos(j) = i
        BY <1>0, <1>3, <1>4, <3>2 DEF pos
      <3>4. R[j] = x
        BY <1>14, <3>1, <3>3
      <3>. HIDE DEF j
      <3>5. R # <<>>
        BY <1>4, <3>3
      <3>6. book'[s2].levels[p2] = R
        BY <1>9, <2>4, <3>5
      <3>7. p2 \in Keys(book'[s2])
        BY <1>4, <2>3, <3>6, NoneIsNoQueue DEF Keys
      <3>. QED  BY <2>1, <3>3, <3>4, <3>6, <3>7
    <2>5. CASE s2 # s \/ p2 # p
      <3>1. book'[s2].levels[p2] = book[s2].levels[p2]
        BY <1>9, <2>3, <2>5
      <3>2. p2 \in Keys(book'[s2])
        BY <2>2, <3>1 DEF Keys
      <3>. QED  BY <2>1, <2>2, <3>1, <3>2
    <2>. QED  BY <2>4, <2>5
  <1>18. IndexMatchesQueues'
    BY <1>16, <1>17, IndexPrime
  <1>19. QueuesInTimeOrder'
    <2>. SUFFICES ASSUME NEW s2 \in Side, NEW p2 \in Keys(book'[s2]),
                         NEW i \in 1..Len(book'[s2].levels[p2]),
                         NEW j \in 1..Len(book'[s2].levels[p2]), i < j
                  PROVE  order'[book'[s2].levels[p2][i]].sequence
                           < order'[book'[s2].levels[p2][j]].sequence
      BY DEF QueuesInTimeOrder, Keys
    <2>0. /\ book'[s2].levels[p2][i] \in orders'
          /\ book'[s2].levels[p2][j] \in orders'
      BY <1>16
    <2>1. order[book'[s2].levels[p2][i]].sequence < order[book'[s2].levels[p2][j]].sequence
      <3>1. CASE s2 = s /\ p2 = p
        <4>1. book'[s2].levels[p2] = R
          BY <1>9, <3>1 DEF Keys
        <4>2. pos(i) \in 1..Len(Q) /\ pos(j) \in 1..Len(Q) /\ pos(i) < pos(j)
          BY <1>14, <4>1
        <4>3. order[Q[pos(i)]].sequence < order[Q[pos(j)]].sequence
          BY <1>11, <4>2
        <4>4. R[i] = Q[pos(i)] /\ R[j] = Q[pos(j)]
          BY <1>14, <4>1
        <4>. QED  BY <4>1, <4>3, <4>4
      <3>2. CASE s2 # s \/ p2 # p
        <4>1. p2 \in Price /\ book'[s2].levels[p2] = book[s2].levels[p2]
          BY <1>9, <3>2 DEF Keys
        <4>2. p2 \in Keys(book[s2])
          BY <4>1 DEF Keys
        <4>. QED  BY <4>1, <4>2 DEF StructureOK, QueuesInTimeOrder
      <3>. QED  BY <3>1, <3>2
    <2>. QED  BY <2>0, <2>1 DEF SameKeys
  <1>20. Uncrossed'
    BY DEF StructureOK, Uncrossed, SameKeys
  <1>. QED  BY <1>7, <1>8, <1>18, <1>19, <1>20 DEF StructureOK
(* A step that rests order t: it joins the back of its queue and the index. *)
LEMMA OrderRested ==
    ASSUME StructureOK, order \in [OrderID -> Order \cup {None}],
           NEW t \in OrderID, t \notin orders, order[t] \in Order,
           NEW s, s = order[t].side, NEW p, p = order[t].price,
           \A x \in orders : order[x].sequence < order[t].sequence,
           \A x \in orders : order[x].side # s => Better(Opposite(s), p, order[x].price),
           book' = [book EXCEPT ![s] = Add(s, book[s], p, t)],
           orders' = orders \cup {t},
           SameKeys(orders \cup {t})
    PROVE  StructureOK'
  <1>. DEFINE Q == QueueAt(book[s], p)
              R == Append(Q, t)
  <1>1. s \in Side /\ p \in Price
    BY DEF Order
  <1>2. /\ book \in [Side -> BookSide]
        /\ \A s2 \in Side : book[s2].levels \in [Price -> Seq(OrderID) \cup {None}]
    BY DEF StructureOK, BookSide
  <1>3. SideOK(s, book[s])
    BY <1>1, <1>2, SidesOK DEF StructureOK
  <1>4. /\ SideOK(s, Add(s, book[s], p, t))
        /\ Add(s, book[s], p, t).levels = [book[s].levels EXCEPT ![p] = R]
    BY <1>1, <1>3, AddOK
  <1>5. Q \in Seq(OrderID)
    BY <1>1, <1>2 DEF QueueAt
  <1>6. /\ R \in Seq(OrderID)
        /\ Len(R) = Len(Q) + 1
        /\ R[Len(Q) + 1] = t
        /\ \A i \in 1..Len(Q) : R[i] = Q[i]
    <2>. HIDE DEF Q
    <2>. QED  BY <1>5
  <1>7. \A i \in 1..Len(Q) : /\ p \in Keys(book[s])
                             /\ i \in 1..Len(book[s].levels[p])
                             /\ Q[i] = book[s].levels[p][i]
    BY <1>1 DEF Keys, QueueAt
  <1>8. book[s].levels[p] # None => Q = book[s].levels[p]
    BY DEF QueueAt
  <1>. HIDE DEF Q, R
  <1>9. /\ book' \in [Side -> BookSide]
        /\ \A s2 \in Side : SideOK(s2, book'[s2])
    <2>1. Add(s, book[s], p, t) \in BookSide
      BY <1>4 DEF SideOK
    <2>2. \A s2 \in Side : SideOK(s2, book[s2])
      BY <1>2, SidesOK DEF StructureOK
    <2>. QED  BY <1>1, <1>2, <1>4, <2>1, <2>2
  <1>10. PricesSorted' /\ LevelsMatchPrices'
    BY <1>9, SidesOKPrime
  <1>11. /\ book'[s].levels[p] = R
         /\ \A s2 \in Side, p2 \in Price :
              (s2 # s \/ p2 # p) => book'[s2].levels[p2] = book[s2].levels[p2]
    <2>1. book'[s].levels = [book[s].levels EXCEPT ![p] = R]
      BY <1>1, <1>2, <1>4
    <2>2. \A s2 \in Side : s2 # s => book'[s2] = book[s2]
      BY <1>1, <1>2
    <2>. QED  BY <1>1, <1>2, <2>1, <2>2
  <1>12. \A s2 \in Side : \A p2 \in Keys(book[s2]) : \A i \in 1..Len(book[s2].levels[p2]) :
          /\ book[s2].levels[p2][i] \in orders
          /\ order[book[s2].levels[p2][i]].side = s2
          /\ order[book[s2].levels[p2][i]].price = p2
    BY DEF StructureOK, IndexMatchesQueues
  <1>13. \A i \in 1..Len(Q) : /\ Q[i] \in orders
                              /\ order[Q[i]].side = s /\ order[Q[i]].price = p
    BY <1>1, <1>7, <1>12
  <1>14. \A i \in 1..Len(R) : /\ R[i] \in orders \cup {t}
                              /\ order[R[i]].side = s /\ order[R[i]].price = p
    <2>. SUFFICES ASSUME NEW i \in 1..Len(R)
                  PROVE  /\ R[i] \in orders \cup {t}
                         /\ order[R[i]].side = s /\ order[R[i]].price = p
      OBVIOUS
    <2>1. i \in 1..Len(Q) \/ i = Len(Q) + 1
      BY <1>5, <1>6
    <2>. QED  BY <1>6, <1>13, <2>1
  <1>15. \A i, j \in 1..Len(Q) : i < j => order[Q[i]].sequence < order[Q[j]].sequence
    <2>. SUFFICES ASSUME NEW i \in 1..Len(Q), NEW j \in 1..Len(Q), i < j
                  PROVE  order[Q[i]].sequence < order[Q[j]].sequence
      OBVIOUS
    <2>1. /\ p \in Keys(book[s])
          /\ i \in 1..Len(book[s].levels[p]) /\ Q[i] = book[s].levels[p][i]
          /\ j \in 1..Len(book[s].levels[p]) /\ Q[j] = book[s].levels[p][j]
      BY <1>7
    <2>2. order[book[s].levels[p][i]].sequence < order[book[s].levels[p][j]].sequence
      BY <1>1, <2>1 DEF StructureOK, QueuesInTimeOrder
    <2>. QED  BY <2>1, <2>2
  <1>16. \A i, j \in 1..Len(R) : i < j => order[R[i]].sequence < order[R[j]].sequence
    <2>. SUFFICES ASSUME NEW i \in 1..Len(R), NEW j \in 1..Len(R), i < j
                  PROVE  order[R[i]].sequence < order[R[j]].sequence
      OBVIOUS
    <2>1. i \in 1..Len(Q) /\ R[i] = Q[i]
      BY <1>5, <1>6
    <2>2. CASE j \in 1..Len(Q)
      BY <1>6, <1>15, <2>1, <2>2
    <2>3. CASE j = Len(Q) + 1
      <3>1. R[j] = t /\ Q[i] \in orders
        BY <1>6, <1>13, <2>1, <2>3
      <3>. QED  BY <2>1, <3>1
    <2>. QED  BY <1>5, <1>6, <2>2, <2>3
  <1>17. \A s2 \in Side : \A p2 \in Keys(book'[s2]) : \A i \in 1..Len(book'[s2].levels[p2]) :
          /\ book'[s2].levels[p2][i] \in orders'
          /\ order'[book'[s2].levels[p2][i]].side = s2
          /\ order'[book'[s2].levels[p2][i]].price = p2
    <2>. SUFFICES ASSUME NEW s2 \in Side, NEW p2 \in Keys(book'[s2]),
                         NEW i \in 1..Len(book'[s2].levels[p2])
                  PROVE  /\ book'[s2].levels[p2][i] \in orders'
                         /\ order'[book'[s2].levels[p2][i]].side = s2
                         /\ order'[book'[s2].levels[p2][i]].price = p2
      BY Zenon
    <2>. DEFINE L == book'[s2].levels[p2]
    <2>0. p2 \in Price /\ L # None /\ i \in 1..Len(L)
      BY DEF Keys
    <2>1. L[i] \in orders \cup {t} /\ order[L[i]].side = s2 /\ order[L[i]].price = p2
      <3>1. CASE s2 = s /\ p2 = p
        <4>1. L = R
          BY <1>11, <3>1
        <4>. HIDE DEF L
        <4>. QED  BY <1>14, <2>0, <3>1, <4>1
      <3>2. CASE s2 # s \/ p2 # p
        <4>1. L = book[s2].levels[p2]
          BY <1>11, <2>0, <3>2
        <4>. HIDE DEF L
        <4>2. p2 \in Keys(book[s2])
          BY <2>0, <4>1 DEF Keys
        <4>. QED  BY <1>12, <2>0, <4>1, <4>2
      <3>. QED  BY <3>1, <3>2
    <2>. HIDE DEF L
    <2>2. L[i] \in orders'
      BY <2>1
    <2>3. order'[L[i]].side = s2 /\ order'[L[i]].price = p2
      BY <2>1 DEF SameKeys
    <2>. QED  BY <2>2, <2>3 DEF L
  <1>18. ASSUME NEW x \in orders'
         PROVE  /\ order'[x] # None
                /\ order'[x].price \in Keys(book'[order'[x].side])
                /\ \E i \in 1..Len(book'[order'[x].side].levels[order'[x].price]) :
                     book'[order'[x].side].levels[order'[x].price][i] = x
    <2>. DEFINE s2 == order[x].side
                p2 == order[x].price
    <2>1. x \in orders \cup {t} /\ order'[x] # None /\ order'[x].side = s2 /\ order'[x].price = p2
      BY DEF SameKeys
    <2>2. s2 \in Side /\ p2 \in Price
      <3>1. order[x] # None /\ x \in OrderID
        BY <2>1, NoneIsNoOrder DEF StructureOK, IndexMatchesQueues
      <3>. QED  BY <3>1 DEF Order
    <2>3. x # t => /\ p2 \in Keys(book[s2])
                   /\ \E i \in 1..Len(book[s2].levels[p2]) : book[s2].levels[p2][i] = x
      BY <2>1 DEF StructureOK, IndexMatchesQueues
    <2>4. x = t => s2 = s /\ p2 = p
      OBVIOUS
    <2>. HIDE DEF s2, p2
    <2>5. CASE s2 = s /\ p2 = p
      <3>1. \E i \in 1..Len(R) : R[i] = x
        <4>1. CASE x = t
          <5>1. Len(Q) + 1 \in 1..Len(R)
            BY <1>5, <1>6
          <5>. QED  BY <1>6, <4>1, <5>1
        <4>2. CASE x # t
          <5>1. PICK i \in 1..Len(Q) : Q[i] = x
            BY <1>8, <2>3, <2>5, <4>2 DEF Keys
          <5>2. i \in 1..Len(R) /\ R[i] = x
            BY <1>5, <1>6, <5>1
          <5>. QED  BY <5>2
        <4>. QED  BY <4>1, <4>2
      <3>2. book'[s2].levels[p2] = R
        BY <1>11, <2>5
      <3>3. p2 \in Keys(book'[s2])
        BY <1>6, <2>2, <3>2, NoneIsNoQueue DEF Keys
      <3>. QED  BY <2>1, <3>1, <3>2, <3>3
    <2>6. CASE s2 # s \/ p2 # p
      <3>1. book'[s2].levels[p2] = book[s2].levels[p2]
        BY <1>11, <2>2, <2>6
      <3>2. p2 \in Keys(book'[s2])
        BY <2>3, <2>4, <2>6, <3>1 DEF Keys
      <3>. QED  BY <2>1, <2>3, <2>4, <2>6, <3>1, <3>2
    <2>. QED  BY <2>5, <2>6
  <1>19. IndexMatchesQueues'
    BY <1>17, <1>18, IndexPrime
  <1>20. QueuesInTimeOrder'
    <2>. SUFFICES ASSUME NEW s2 \in Side, NEW p2 \in Keys(book'[s2]),
                         NEW i \in 1..Len(book'[s2].levels[p2]),
                         NEW j \in 1..Len(book'[s2].levels[p2]), i < j
                  PROVE  order'[book'[s2].levels[p2][i]].sequence
                           < order'[book'[s2].levels[p2][j]].sequence
      BY DEF QueuesInTimeOrder, Keys
    <2>0. /\ book'[s2].levels[p2][i] \in orders'
          /\ book'[s2].levels[p2][j] \in orders'
      BY <1>17
    <2>1. order[book'[s2].levels[p2][i]].sequence < order[book'[s2].levels[p2][j]].sequence
      <3>1. CASE s2 = s /\ p2 = p
        <4>1. book'[s2].levels[p2] = R
          BY <1>11, <3>1
        <4>. QED  BY <1>16, <4>1
      <3>2. CASE s2 # s \/ p2 # p
        <4>1. p2 \in Price /\ book'[s2].levels[p2] = book[s2].levels[p2]
          BY <1>11, <3>2 DEF Keys
        <4>2. p2 \in Keys(book[s2])
          BY <4>1 DEF Keys
        <4>. QED  BY <4>1, <4>2 DEF StructureOK, QueuesInTimeOrder
      <3>. QED  BY <3>1, <3>2
    <2>. QED  BY <2>0, <2>1 DEF SameKeys
  <1>21. Uncrossed'
    <2>. SUFFICES ASSUME NEW b \in orders', NEW a \in orders',
                         order'[b].side = "BUY", order'[a].side = "SELL"
                  PROVE  order'[b].price < order'[a].price
      BY DEF Uncrossed
    <2>1. /\ order[b].side = "BUY" /\ order[a].side = "SELL"
          /\ order'[b].price = order[b].price /\ order'[a].price = order[a].price
      BY DEF SameKeys
    <2>2. b \in orders \cup {t} /\ a \in orders \cup {t}
      OBVIOUS
    <2>3. CASE b \in orders /\ a \in orders
      BY <2>1, <2>3 DEF StructureOK, Uncrossed
    <2>4. CASE b = t /\ a \in orders
      BY <2>1, <2>4 DEF Better, Opposite
    <2>5. CASE a = t /\ b \in orders
      BY <2>1, <2>5 DEF Better, Opposite
    <2>6. ~(a = t /\ b = t)
      BY <2>1
    <2>. QED  BY <2>2, <2>3, <2>4, <2>5, <2>6
  <1>. QED  BY <1>9, <1>10, <1>19, <1>20, <1>21 DEF StructureOK

(* The invariant implies its structural part. *)
LEMMA InvStructure == BookInv => StructureOK
  BY DEF BookInv, TypeOK, StructureOK

(* The parts of the invariant that are proved one by one after a step. *)
LEMMA InvParts ==
    ASSUME TypeOK', StructureOK', StatusMatchesFill', SequencesUnique'
    PROVE  BookInv'
  BY DEF BookInv, StructureOK

(* Numbers carried by an order. *)
LEMMA OrderNumbers ==
    ASSUME NEW o \in Order
    PROVE  /\ o.quantity \in Nat /\ o.quantity > 0 /\ o.filled \in Nat
           /\ o.price \in Nat /\ o.price > 0 /\ o.sequence \in Nat
           /\ o.side \in Side /\ o.price \in Price /\ o.userID \in UserID
           /\ o.status \in Status /\ o.quantity \in Quantity
  <1>1. /\ o.side \in Side /\ o.price \in Price /\ o.userID \in UserID
        /\ o.status \in Status /\ o.quantity \in Quantity
        /\ o.filled \in Nat /\ o.sequence \in Nat
    BY DEF Order
  <1>2. o.quantity \in Nat \ {0} /\ o.price \in Nat \ {0}
    BY <1>1, PriceAssumption, QuantityAssumption
  <1>. QED  BY <1>1, <1>2

(* The empty book that NewOrderBook returns satisfies the invariant. *)
LEMMA InitInv == OrderBookInit => BookInv
  <1>. SUFFICES ASSUME OrderBookInit PROVE BookInv
    OBVIOUS
  <1>1. \A s \in Side : book[s] = [levels |-> [p \in Price |-> None], prices |-> <<>>]
    BY DEF OrderBookInit
  <1>2. book \in [Side -> BookSide]
    BY <1>1 DEF OrderBookInit, BookSide
  <1>3. \A s \in Side : Keys(book[s]) = {} /\ Len(book[s].prices) = 0 /\ ToSet(book[s].prices) = {}
    BY <1>1 DEF Keys, ToSet
  <1>4. TypeOK
    BY <1>2 DEF OrderBookInit, TypeOK, PlaceResult
  <1>5. PricesSorted /\ LevelsMatchPrices /\ QueuesInTimeOrder
    <2>1. PricesSorted
      BY <1>3 DEF PricesSorted
    <2>2. LevelsMatchPrices /\ QueuesInTimeOrder
      BY <1>3, Zenon DEF LevelsMatchPrices, QueuesInTimeOrder
    <2>. QED  BY <2>1, <2>2
  <1>6. IndexMatchesQueues
    BY <1>3 DEF IndexMatchesQueues, OrderBookInit
  <1>7. Uncrossed /\ StatusMatchesFill /\ SequencesUnique
    BY DEF OrderBookInit, Uncrossed, StatusMatchesFill, SequencesUnique
  <1>. QED  BY <1>4, <1>5, <1>6, <1>7 DEF BookInv

(* The prologue of Place, which numbers the order, preserves the invariant. *)
LEMMA PlaceBeginInv ==
    ASSUME BookInv, NEW id \in OrderID, NEW r \in Request, PlaceBegin(id, r)
    PROVE  BookInv'
  <1>. DEFINE o == [userID |-> r.userID, side |-> r.side, price |-> r.price,
                    quantity |-> r.quantity, filled |-> 0, status |-> "OPEN",
                    sequence |-> orderSeq + 1]
  <1>1. /\ TypeOK /\ StatusMatchesFill /\ SequencesUnique /\ IndexMatchesQueues
    BY DEF BookInv
  <1>2. /\ order[id] = None /\ taker = None
        /\ order' = [order EXCEPT ![id] = o]
        /\ orderSeq' = orderSeq + 1 /\ taker' = id
        /\ res' = [fills |-> <<>>, takerReleaseCOP |-> 0]
        /\ book' = book /\ orders' = orders /\ tradeSeq' = tradeSeq
    BY DEF PlaceBegin
  <1>3. o \in Order /\ orderSeq \in Nat
    BY <1>1 DEF TypeOK, Order, Request, Status
  <1>4. o.filled = 0 /\ o.status = "OPEN" /\ o.sequence = orderSeq + 1
    OBVIOUS
  <1>. HIDE DEF o
  <1>5. /\ order'[id] = o
        /\ \A x \in OrderID : x # id => order'[x] = order[x]
    BY <1>1, <1>2 DEF TypeOK
  <1>6. id \notin orders
    BY <1>1, <1>2 DEF IndexMatchesQueues
  <1>7. TypeOK'
    <2>1. order' \in [OrderID -> Order \cup {None}]
      BY <1>1, <1>2, <1>3 DEF TypeOK
    <2>2. res' \in PlaceResult
      BY <1>2 DEF PlaceResult
    <2>. QED  BY <1>1, <1>2, <1>3, <2>1, <2>2 DEF TypeOK
  <1>8. StructureOK'
    <2>1. SameKeys(orders)
      BY <1>1, <1>5, <1>6 DEF SameKeys, IndexMatchesQueues, TypeOK
    <2>. QED  BY <1>2, <2>1, StructureKept, InvStructure
  <1>9. StatusMatchesFill'
    <2>. SUFFICES ASSUME NEW x \in OrderID, order'[x] # None
                  PROVE  /\ order'[x].filled <= order'[x].quantity
                         /\ x \in orders' =>
                              /\ order'[x].filled < order'[x].quantity
                              /\ order'[x].status =
                                    IF order'[x].filled = 0 THEN "OPEN" ELSE "PARTIALLY_FILLED"
                         /\ (x \notin orders' /\ x # taker') =>
                              IF order'[x].filled = order'[x].quantity
                              THEN order'[x].status = "FILLED"
                              ELSE order'[x].status = "CANCELLED"
      BY DEF StatusMatchesFill
    <2>1. CASE x = id
      BY <1>2, <1>3, <1>4, <1>5, <1>6, <2>1, OrderNumbers
    <2>2. CASE x # id
      BY <1>1, <1>2, <1>5, <2>2, NoneAssumption DEF StatusMatchesFill
    <2>. QED  BY <2>1, <2>2
  <1>10. SequencesUnique'
    <2>1. \A x \in OrderID : order'[x] # None =>
             IF x = id THEN order'[x].sequence = orderSeq + 1
                       ELSE /\ order[x] # None
                            /\ order'[x].sequence = order[x].sequence
                            /\ order[x].sequence \in 1..orderSeq
      BY <1>1, <1>4, <1>5 DEF SequencesUnique
    <2>2. \A x \in OrderID : order'[x] # None => order'[x].sequence \in 1..orderSeq'
      BY <1>2, <1>3, <2>1
    <2>3. \A x, y \in OrderID : (order'[x] # None /\ order'[y] # None /\ x # y)
                                   => order'[x].sequence # order'[y].sequence
      BY <1>1, <1>3, <2>1 DEF SequencesUnique
    <2>4. /\ order'[taker'] # None /\ taker' \notin orders'
          /\ order'[taker'].sequence = orderSeq' /\ order'[taker'].status = "OPEN"
      BY <1>2, <1>3, <1>4, <1>5, <1>6, NoneIsNoOrder
    <2>. QED  BY <2>2, <2>3, <2>4 DEF SequencesUnique
  <1>. QED  BY <1>7, <1>8, <1>9, <1>10, InvParts

(* What IndexMatchesQueues says of a queued and of an indexed order. *)
LEMMA IndexFacts ==
    ASSUME IndexMatchesQueues
    PROVE  /\ \A s \in Side : \A p \in Keys(book[s]) : \A i \in 1..Len(book[s].levels[p]) :
                /\ book[s].levels[p][i] \in orders
                /\ order[book[s].levels[p][i]].side = s
                /\ order[book[s].levels[p][i]].price = p
           /\ \A x \in orders : order[x] # None
  BY DEF IndexMatchesQueues

(* Facts about the head of the best opposite level, on which one iteration of
   Place's loop works. *)
LEMMA MakerFacts ==
    ASSUME BookInv, taker # None, Matchable(order[taker]),
           NEW s, s = Opposite(order[taker].side),
           NEW p, p = Best(book[s]),
           NEW mid, mid = Head(book[s].levels[p])
    PROVE  /\ taker \in OrderID /\ order[taker] \in Order /\ taker \notin orders
           /\ s \in Side /\ s # order[taker].side
           /\ book[s].prices \in Seq(Price) /\ book[s].prices # <<>>
           /\ p = book[s].prices[1] /\ p \in Keys(book[s])
           /\ book[s].levels[p] \in Seq(OrderID)
           /\ 1 \in 1..Len(book[s].levels[p]) /\ book[s].levels[p][1] = mid
           /\ mid \in orders /\ mid \in OrderID /\ mid # taker
           /\ order[mid] \in Order
           /\ order[mid].side = s /\ order[mid].price = p
           /\ order[mid].filled < order[mid].quantity
  <1>1. TypeOK /\ LevelsMatchPrices /\ IndexMatchesQueues /\ StatusMatchesFill /\ SequencesUnique
    BY DEF BookInv
  <1>2. taker \in OrderID /\ order[taker] \in Order /\ taker \notin orders
    BY <1>1 DEF TypeOK, SequencesUnique
  <1>3. s \in Side /\ s # order[taker].side
    BY <1>2, OrderNumbers DEF Opposite, Side
  <1>4. book[s].prices \in Seq(Price) /\ book[s].levels \in [Price -> Seq(OrderID) \cup {None}]
    BY <1>1, <1>3 DEF TypeOK, BookSide
  <1>5. book[s].prices # <<>>
    BY DEF Matchable
  <1>6. p = book[s].prices[1] /\ 1 \in 1..Len(book[s].prices)
    BY <1>4, <1>5 DEF Best
  <1>7. p \in Keys(book[s])
    <2>1. p \in ToSet(book[s].prices)
      BY <1>4, <1>6, ToSetMember
    <2>. QED  BY <1>1, <1>3, <2>1 DEF LevelsMatchPrices
  <1>8. book[s].levels[p] \in Seq(OrderID) /\ book[s].levels[p] # <<>>
    BY <1>1, <1>3, <1>4, <1>7 DEF Keys, LevelsMatchPrices
  <1>9. 1 \in 1..Len(book[s].levels[p]) /\ book[s].levels[p][1] = mid
    BY <1>8
  <1>10. mid \in orders /\ order[mid].side = s /\ order[mid].price = p
    <2>1. /\ book[s].levels[p][1] \in orders
          /\ order[book[s].levels[p][1]].side = s
          /\ order[book[s].levels[p][1]].price = p
      BY <1>1, <1>3, <1>7, <1>9, IndexFacts
    <2>. QED  BY <1>9, <2>1, Zenon
  <1>11. mid \in OrderID /\ order[mid] \in Order /\ mid # taker
    <2>1. order[mid] # None
      BY <1>1, <1>10, IndexFacts, Zenon
    <2>2. mid \in OrderID /\ mid # taker
      BY <1>1, <1>2, <1>10, Zenon DEF TypeOK
    <2>3. order[mid] \in Order \cup {None}
      BY <1>1, <2>2 DEF TypeOK
    <2>. QED  BY <2>1, <2>2, <2>3
  <1>12. order[mid].filled < order[mid].quantity
    BY <1>1, <1>10, <1>11, NoneIsNoOrder DEF StatusMatchesFill
  <1>. QED  BY <1>2, <1>3, <1>4, <1>5, <1>6, <1>7, <1>8, <1>9, <1>10, <1>11, <1>12

(* A fill of qty, 0 < qty <= what is left of the order. *)
LEMMA ExecutedFacts ==
    ASSUME NEW m \in Order, NEW qty \in Nat, qty > 0, qty <= Remaining(m)
    PROVE  /\ Executed(m, qty) \in Order
           /\ Executed(m, qty).filled = m.filled + qty
           /\ Executed(m, qty).quantity = m.quantity
           /\ Executed(m, qty).side = m.side
           /\ Executed(m, qty).price = m.price
           /\ Executed(m, qty).sequence = m.sequence
           /\ Executed(m, qty).status =
                IF Remaining(m) = qty THEN "FILLED" ELSE "PARTIALLY_FILLED"
           /\ (Remaining(Executed(m, qty)) = 0) <=> (Remaining(m) = qty)
  <1>. DEFINE n == m.filled + qty
              st == IF Remaining(m) = qty THEN "FILLED" ELSE "PARTIALLY_FILLED"
              e == Executed(m, qty)
  <1>1. m.filled \in Nat /\ m.quantity \in Nat /\ n \in Nat /\ st \in Status
    BY OrderNumbers DEF Status
  <1>2. e = [m EXCEPT !.filled = n, !.status = st]
    BY DEF Executed
  <1>. HIDE DEF n, st, e
  <1>3. /\ e \in Order /\ e.filled = n /\ e.status = st /\ e.quantity = m.quantity
        /\ e.side = m.side /\ e.price = m.price /\ e.sequence = m.sequence
    BY <1>1, <1>2 DEF Order
  <1>4. (Remaining(e) = 0) <=> (Remaining(m) = qty)
    BY <1>1, <1>3 DEF Remaining, n
  <1>. QED  BY <1>3, <1>4 DEF n, st, e

(* The quantity of one match is positive and within both remainders. *)
LEMMA MatchQuantity ==
    ASSUME NEW o \in Order, NEW m \in Order, Remaining(o) > 0, Remaining(m) > 0,
           NEW qty, qty = Min64(Remaining(o), Remaining(m))
    PROVE  qty \in Nat /\ qty > 0 /\ qty <= Remaining(o) /\ qty <= Remaining(m)
  BY OrderNumbers DEF Min64, Remaining

(* Tail removes position 1. *)
LEMMA TailIsRemoveAt ==
    ASSUME NEW S, NEW q \in Seq(S), 1 \in 1..Len(q)
    PROVE  Tail(q) = RemoveAt(q, 1)
  <1>1. /\ Tail(q) \in Seq(S) /\ Len(Tail(q)) = Len(q) - 1
        /\ \A j \in 1..(Len(q) - 1) : Tail(q)[j] = q[j + 1]
    OBVIOUS
  <1>2. /\ RemoveAt(q, 1) \in Seq(S) /\ Len(RemoveAt(q, 1)) = Len(q) - 1
        /\ \A j \in 1..(Len(q) - 1) : RemoveAt(q, 1)[j] = q[j + 1]
    BY RemoveAtProperties
  <1>3. \A j \in 1..Len(Tail(q)) : Tail(q)[j] = RemoveAt(q, 1)[j]
    BY <1>1, <1>2
  <1>. QED  BY <1>1, <1>2, <1>3, SeqEqual

(* One iteration of the matching loop preserves the invariant. *)
LEMMA MatchStepInv ==
    ASSUME BookInv, MatchStep
    PROVE  BookInv'
  <1>. DEFINE o == order[taker]
              s == Opposite(o.side)
              p == Best(book[s])
              mid == Head(book[s].levels[p])
              m == order[mid]
              qty == Min64(Remaining(o), Remaining(m))
              maker == Executed(m, qty)
              t == [o EXCEPT !.filled = o.filled + qty]
              fill == [trade |-> NewTrade(o, taker, m, mid, qty),
                       makerID |-> mid, maker |-> maker]
              done == Remaining(maker) = 0
  <1>1. TypeOK /\ StatusMatchesFill /\ SequencesUnique /\ StructureOK
    BY InvStructure DEF BookInv
  <1>2. taker # None /\ Matchable(o) /\ Remaining(o) > 0
    BY DEF MatchStep, Matchable
  <1>3. /\ order' = [order EXCEPT ![mid] = maker, ![taker].filled = @ + qty]
        /\ tradeSeq' = tradeSeq + 1
        /\ res' = [fills |-> Append(res.fills, fill),
                   takerReleaseCOP |-> res.takerReleaseCOP + PriceImprovement(o, m.price, qty)]
        /\ IF done THEN /\ book' = [book EXCEPT ![s] = PopFront(book[s], p)]
                        /\ orders' = orders \ {mid}
                   ELSE book' = book /\ orders' = orders
        /\ orderSeq' = orderSeq /\ taker' = taker
    BY DEF MatchStep
  <1>4. /\ taker \in OrderID /\ o \in Order /\ taker \notin orders
        /\ s \in Side /\ s # o.side
        /\ p \in Keys(book[s])
        /\ book[s].levels[p] \in Seq(OrderID)
        /\ 1 \in 1..Len(book[s].levels[p]) /\ book[s].levels[p][1] = mid
        /\ mid \in orders /\ mid \in OrderID /\ mid # taker
        /\ m \in Order /\ m.side = s /\ m.price = p
        /\ m.filled < m.quantity
    BY <1>2, MakerFacts
  <1>. HIDE DEF o, s, p, mid, m, qty, maker, t, fill, done
  <1>5. Remaining(m) > 0
    BY <1>4, OrderNumbers DEF Remaining
  <1>6. qty \in Nat /\ qty > 0 /\ qty <= Remaining(o) /\ qty <= Remaining(m)
    BY <1>2, <1>4, <1>5, MatchQuantity DEF qty
  <1>7. /\ maker \in Order /\ maker.filled = m.filled + qty /\ maker.quantity = m.quantity
        /\ maker.side = m.side /\ maker.price = m.price /\ maker.sequence = m.sequence
        /\ maker.status = IF Remaining(m) = qty THEN "FILLED" ELSE "PARTIALLY_FILLED"
        /\ done <=> (Remaining(m) = qty)
    BY <1>4, <1>6, ExecutedFacts DEF maker, done
  <1>8. /\ t \in Order /\ t.filled = o.filled + qty /\ t.status = o.status
        /\ t.quantity = o.quantity /\ t.sequence = o.sequence
        /\ t.side = o.side /\ t.price = o.price
    BY <1>4, <1>6, OrderNumbers DEF t, Order
  <1>9. order' = [order EXCEPT ![mid] = maker, ![taker] = t]
    BY <1>1, <1>3, <1>4 DEF TypeOK, t, o
  <1>10. /\ order'[mid] = maker /\ order'[taker] = t
         /\ \A x \in OrderID : (x # mid /\ x # taker) => order'[x] = order[x]
    BY <1>1, <1>4, <1>9 DEF TypeOK
  <1>11. order' \in [OrderID -> Order \cup {None}]
    BY <1>1, <1>4, <1>7, <1>8, <1>9 DEF TypeOK
  <1>12. /\ o.quantity \in Nat /\ o.filled \in Nat /\ m.quantity \in Nat /\ m.filled \in Nat
         /\ o.price \in Nat /\ m.price \in Nat
    BY <1>4, OrderNumbers
  <1>13. SameKeys(orders)
    <2>. SUFFICES ASSUME NEW x \in orders
                  PROVE  /\ order'[x] # None
                         /\ order'[x].side = order[x].side
                         /\ order'[x].price = order[x].price
                         /\ order'[x].sequence = order[x].sequence
      BY DEF SameKeys
    <2>1. CASE x = mid
      BY <1>7, <1>10, <2>1, NoneIsNoOrder DEF m
    <2>2. CASE x # mid
      <3>1. x \in OrderID /\ x # taker /\ order[x] # None
        BY <1>1, <1>4, IndexFacts DEF StructureOK
      <3>. QED  BY <1>10, <2>2, <3>1
    <2>. QED  BY <2>1, <2>2
  <1>14. StructureOK'
    <2>1. CASE done
      <3>1. PopFront(book[s], p) = ShrinkLevel(book[s], p, RemoveAt(book[s].levels[p], 1))
        BY <1>4, TailIsRemoveAt DEF PopFront
      <3>2. /\ book' = [book EXCEPT ![s] = ShrinkLevel(book[s], p, RemoveAt(book[s].levels[p], 1))]
            /\ orders' = orders \ {mid}
        BY <1>3, <2>1, <3>1
      <3>3. SameKeys(orders \ {mid})
        BY <1>13 DEF SameKeys
      <3>4. s = order[mid].side /\ p = order[mid].price /\ order \in [OrderID -> Order \cup {None}]
        BY <1>1, <1>4 DEF m, TypeOK
      <3>. QED  BY <1>1, <1>4, <3>2, <3>3, <3>4, OrderRemoved
    <2>2. CASE ~done
      BY <1>1, <1>3, <1>13, <2>2, StructureKept
    <2>. QED  BY <2>1, <2>2
  <1>15. TypeOK'
    <2>1. fill \in Fill
      <3>1. NewTrade(o, taker, m, mid, qty) \in Trade
        <4>1. tradeSeq + 1 \in Nat /\ m.price \in Price /\ o.userID \in UserID /\ m.userID \in UserID
          BY <1>1, <1>4, OrderNumbers DEF TypeOK
        <4>. QED  BY <1>4, <1>6, <4>1 DEF NewTrade, Trade
      <3>. QED  BY <1>4, <1>7, <3>1 DEF Fill, fill
    <2>2. res.fills \in Seq(Fill) /\ res.takerReleaseCOP \in Int
      BY <1>1 DEF TypeOK, PlaceResult
    <2>3. Append(res.fills, fill) \in Seq(Fill)
      BY <2>1, <2>2, AppendProperties
    <2>4. PriceImprovement(o, m.price, qty) \in Int
      BY <1>6, <1>12 DEF PriceImprovement
    <2>5. res' \in PlaceResult
      BY <1>3, <2>2, <2>3, <2>4 DEF PlaceResult
    <2>6. tradeSeq' \in Nat /\ orderSeq' \in Nat /\ taker' \in OrderID \cup {None}
      BY <1>1, <1>3 DEF TypeOK
    <2>. QED  BY <1>11, <1>14, <2>5, <2>6 DEF TypeOK, StructureOK
  <1>16. StatusMatchesFill'
    <2>. SUFFICES ASSUME NEW x \in OrderID, order'[x] # None
                  PROVE  /\ order'[x].filled <= order'[x].quantity
                         /\ x \in orders' =>
                              /\ order'[x].filled < order'[x].quantity
                              /\ order'[x].status =
                                    IF order'[x].filled = 0 THEN "OPEN" ELSE "PARTIALLY_FILLED"
                         /\ (x \notin orders' /\ x # taker') =>
                              IF order'[x].filled = order'[x].quantity
                              THEN order'[x].status = "FILLED"
                              ELSE order'[x].status = "CANCELLED"
      BY DEF StatusMatchesFill
    <2>1. CASE x = mid
      <3>1. done => /\ maker.filled = maker.quantity /\ maker.status = "FILLED"
        BY <1>6, <1>7, <1>12 DEF Remaining
      <3>2. ~done => /\ maker.filled < maker.quantity /\ maker.filled # 0
                     /\ maker.status = "PARTIALLY_FILLED"
        BY <1>6, <1>7, <1>12 DEF Remaining
      <3>3. (x \in orders') <=> ~done
        BY <1>3, <1>4, <2>1
      <3>4. maker.filled \in Nat /\ maker.quantity \in Nat
        BY <1>7, OrderNumbers
      <3>. QED  BY <1>10, <2>1, <3>1, <3>2, <3>3, <3>4
    <2>2. CASE x = taker
      <3>1. t.filled <= t.quantity
        BY <1>6, <1>8, <1>12 DEF Remaining
      <3>2. x \notin orders' /\ x = taker'
        BY <1>3, <1>4, <2>2
      <3>. QED  BY <1>10, <2>2, <3>1, <3>2
    <2>3. CASE x # mid /\ x # taker
      <3>1. order'[x] = order[x] /\ (x \in orders' <=> x \in orders) /\ taker' = taker
        BY <1>3, <1>10, <2>3
      <3>. QED  BY <1>1, <2>3, <3>1 DEF StatusMatchesFill
    <2>. QED  BY <2>1, <2>2, <2>3
  <1>17. SequencesUnique'
    <2>1. \A x \in OrderID : order'[x] # None =>
             order[x] # None /\ order'[x].sequence = order[x].sequence
      <3>. SUFFICES ASSUME NEW x \in OrderID, order'[x] # None
                    PROVE  order[x] # None /\ order'[x].sequence = order[x].sequence
        OBVIOUS
      <3>1. CASE x = mid
        BY <1>4, <1>7, <1>10, <3>1, NoneIsNoOrder DEF m
      <3>2. CASE x = taker
        BY <1>4, <1>8, <1>10, <3>2, NoneIsNoOrder DEF o
      <3>3. CASE x # mid /\ x # taker
        BY <1>10, <3>3
      <3>. QED  BY <3>1, <3>2, <3>3
    <2>2. /\ order'[taker'] # None /\ taker' \notin orders'
          /\ order'[taker'].sequence = orderSeq' /\ order'[taker'].status = "OPEN"
      <3>1. o.sequence = orderSeq /\ o.status = "OPEN"
        BY <1>1, <1>2 DEF SequencesUnique, o
      <3>. QED  BY <1>3, <1>4, <1>8, <1>10, <3>1, NoneIsNoOrder
    <2>3. \A x \in OrderID : order'[x] # None => order'[x].sequence \in 1..orderSeq'
      BY <1>1, <1>3, <2>1 DEF SequencesUnique
    <2>4. \A x, y \in OrderID : (order'[x] # None /\ order'[y] # None /\ x # y)
                                   => order'[x].sequence # order'[y].sequence
      BY <1>1, <2>1 DEF SequencesUnique
    <2>. QED  BY <2>2, <2>3, <2>4 DEF SequencesUnique
  <1>. QED  BY <1>14, <1>15, <1>16, <1>17, InvParts
(* A step that only gives the order `id' another status. *)
LEMMA StatusStep ==
    ASSUME BookInv, NEW id \in OrderID, order[id] \in Order, NEW st \in Status,
           order' = [order EXCEPT ![id].status = st]
    PROVE  /\ order' \in [OrderID -> Order \cup {None}]
           /\ order'[id] \in Order /\ order'[id].status = st
           /\ \A x \in OrderID : x # id => order'[x] = order[x]
           /\ \A x \in OrderID :
                /\ (order'[x] # None) <=> (order[x] # None)
                /\ order[x] # None =>
                     /\ order'[x].filled = order[x].filled
                     /\ order'[x].quantity = order[x].quantity
                     /\ order'[x].side = order[x].side
                     /\ order'[x].price = order[x].price
                     /\ order'[x].sequence = order[x].sequence
  <1>. DEFINE o == order[id]
              e == [o EXCEPT !.status = st]
  <1>1. order \in [OrderID -> Order \cup {None}]
    BY DEF BookInv, TypeOK
  <1>2. order' = [order EXCEPT ![id] = e]
    BY <1>1
  <1>3. o \in Order
    OBVIOUS
  <1>. HIDE DEF o
  <1>4. /\ e \in Order /\ e.status = st /\ e.filled = o.filled /\ e.quantity = o.quantity
        /\ e.side = o.side /\ e.price = o.price /\ e.sequence = o.sequence
    BY <1>3 DEF Order
  <1>. HIDE DEF e
  <1>5. order'[id] = e /\ \A x \in OrderID : x # id => order'[x] = order[x]
    BY <1>1, <1>2
  <1>6. order' \in [OrderID -> Order \cup {None}]
    BY <1>1, <1>2, <1>4
  <1>7. ASSUME NEW x \in OrderID
        PROVE  /\ (order'[x] # None) <=> (order[x] # None)
               /\ order[x] # None =>
                     /\ order'[x].filled = order[x].filled
                     /\ order'[x].quantity = order[x].quantity
                     /\ order'[x].side = order[x].side
                     /\ order'[x].price = order[x].price
                     /\ order'[x].sequence = order[x].sequence
    <2>1. CASE x = id
      BY <1>3, <1>4, <1>5, <2>1, NoneIsNoOrder DEF o
    <2>2. CASE x # id
      BY <1>5, <2>2
    <2>. QED  BY <2>1, <2>2
  <1>. QED  BY <1>4, <1>5, <1>6, <1>7

(* When the loop stops with something left, nothing on the other side
   crosses the taker: the best price does not, and the others are worse. *)
LEMMA NothingCrosses ==
    ASSUME BookInv, taker # None, ~Matchable(order[taker]), Remaining(order[taker]) > 0,
           NEW x \in orders, order[x].side # order[taker].side
    PROVE  ~Crosses(order[taker].side, order[taker].price, order[x].price)
  <1>. DEFINE o == order[taker]
              s == Opposite(o.side)
              ps == book[s].prices
              y == order[x]
  <1>1. TypeOK /\ PricesSorted /\ LevelsMatchPrices /\ IndexMatchesQueues /\ SequencesUnique
    BY DEF BookInv
  <1>2. o \in Order
    BY <1>1 DEF TypeOK, SequencesUnique
  <1>3. x \in OrderID /\ y \in Order
    <2>1. x \in OrderID /\ y # None
      BY <1>1, IndexFacts DEF TypeOK
    <2>. QED  BY <1>1, <2>1 DEF TypeOK
  <1>4. s \in Side /\ y.side = s
    BY <1>2, <1>3, OrderNumbers DEF Side, Opposite
  <1>5. ps \in Seq(Price)
    BY <1>1, <1>4 DEF TypeOK, BookSide
  <1>6. y.price \in Keys(book[s])
    BY <1>1, <1>4 DEF IndexMatchesQueues
  <1>7. y.price \in ToSet(ps)
    BY <1>1, <1>4, <1>6 DEF LevelsMatchPrices
  <1>8. PICK i \in 1..Len(ps) : ps[i] = y.price
    BY <1>5, <1>7, ToSetMember
  <1>9. ~Crosses(o.side, o.price, Best(book[s])) \/ ps = <<>>
    BY DEF Matchable
  <1>10. i = 1 \/ Better(s, ps[1], ps[i])
    <2>1. \A j, k \in 1..Len(ps) : j < k => Better(s, ps[j], ps[k])
      BY <1>1, <1>4 DEF PricesSorted
    <2>. HIDE DEF ps
    <2>2. 1 \in 1..Len(ps) /\ (i = 1 \/ 1 < i)
      BY <1>5
    <2>. QED  BY <2>1, <2>2
  <1>11. ~Crosses(o.side, o.price, ps[1])
    <2>1. ps # <<>> /\ Best(book[s]) = ps[1]
      BY <1>5, <1>8 DEF Best
    <2>. QED  BY <1>9, <2>1
  <1>. HIDE DEF ps, y, o
  <1>12. o.price \in Nat /\ o.side \in Side /\ y.price \in Nat /\ ps[1] \in Nat
    <2>1. ps[1] \in Price
      BY <1>5, <1>8
    <2>. QED  BY <1>2, <1>3, <2>1, OrderNumbers, PriceAssumption
  <1>13. ~Crosses(o.side, o.price, y.price)
    <2>1. CASE o.side = "BUY"
      <3>1. ps[1] > o.price /\ (i = 1 \/ ps[1] < ps[i])
        BY <1>10, <1>11, <1>12, <2>1 DEF Crosses, Better, Opposite
      <3>2. y.price > o.price
        BY <1>8, <1>12, <3>1
      <3>. QED  BY <1>12, <2>1, <3>2 DEF Crosses
    <2>2. CASE o.side = "SELL"
      <3>1. ps[1] < o.price /\ (i = 1 \/ ps[1] > ps[i])
        BY <1>10, <1>11, <1>12, <2>2 DEF Crosses, Better, Opposite
      <3>2. y.price < o.price
        BY <1>8, <1>12, <3>1
      <3>. QED  BY <1>12, <2>2, <3>2 DEF Crosses
    <2>. QED  BY <1>12, <2>1, <2>2 DEF Side
  <1>. QED  BY <1>13 DEF o, y

(* The end of Place, with the resting of the remainder, preserves the
   invariant. *)
LEMMA PlaceFinishInv ==
    ASSUME BookInv, PlaceFinish
    PROVE  BookInv'
  <1>. DEFINE o == order[taker]
              st == IF Remaining(o) = 0 THEN "FILLED"
                    ELSE IF o.filled > 0 THEN "PARTIALLY_FILLED" ELSE "OPEN"
  <1>1. TypeOK /\ StatusMatchesFill /\ SequencesUnique /\ StructureOK
    BY InvStructure DEF BookInv
  <1>2. /\ taker # None /\ ~Matchable(o) /\ taker' = None
        /\ orderSeq' = orderSeq /\ tradeSeq' = tradeSeq /\ res' = res
    BY DEF PlaceFinish
  <1>3. /\ taker \in OrderID /\ o \in Order /\ taker \notin orders /\ o.sequence = orderSeq
    BY <1>1, <1>2 DEF TypeOK, SequencesUnique
  <1>4. /\ order' = [order EXCEPT ![taker].status = st]
        /\ IF Remaining(o) = 0 THEN book' = book /\ orders' = orders
           ELSE /\ orders' = orders \cup {taker}
                /\ book' = [book EXCEPT ![o.side] = Add(o.side, book[o.side], o.price, taker)]
    BY DEF PlaceFinish
  <1>5. st \in Status
    BY DEF Status
  <1>. HIDE DEF st
  <1>6. /\ order' \in [OrderID -> Order \cup {None}]
        /\ order'[taker] \in Order /\ order'[taker].status = st
        /\ \A x \in OrderID : x # taker => order'[x] = order[x]
        /\ \A x \in OrderID :
             /\ (order'[x] # None) <=> (order[x] # None)
             /\ order[x] # None =>
                  /\ order'[x].filled = order[x].filled
                  /\ order'[x].quantity = order[x].quantity
                  /\ order'[x].side = order[x].side
                  /\ order'[x].price = order[x].price
                  /\ order'[x].sequence = order[x].sequence
    BY <1>3, <1>4, <1>5, StatusStep
  <1>7. SameKeys(orders \cup {taker})
    <2>1. \A x \in orders \cup {taker} : x \in OrderID /\ order[x] # None
      BY <1>1, <1>3, IndexFacts, NoneIsNoOrder DEF StructureOK
    <2>. QED  BY <1>6, <2>1 DEF SameKeys
  <1>8. o.filled \in Nat /\ o.quantity \in Nat /\ o.filled <= o.quantity
    BY <1>1, <1>3, OrderNumbers, NoneIsNoOrder DEF StatusMatchesFill
  <1>9. StructureOK'
    <2>1. CASE Remaining(o) = 0
      <3>1. SameKeys(orders)
        BY <1>7 DEF SameKeys
      <3>. QED  BY <1>1, <1>4, <2>1, <3>1, StructureKept
    <2>2. CASE Remaining(o) # 0
      <3>1. Remaining(o) > 0
        BY <1>8, <2>2 DEF Remaining
      <3>2. \A x \in orders : order[x].sequence < order[taker].sequence
        <4>. SUFFICES ASSUME NEW x \in orders PROVE order[x].sequence < o.sequence
          OBVIOUS
        <4>1. x \in OrderID /\ order[x] # None /\ x # taker /\ o # None
          BY <1>1, <1>3, IndexFacts, NoneIsNoOrder DEF StructureOK
        <4>2. order[x].sequence \in 1..orderSeq /\ order[x].sequence # o.sequence
          BY <1>1, <1>3, <4>1 DEF SequencesUnique
        <4>. HIDE DEF o
        <4>. QED  BY <1>1, <1>3, <4>2 DEF TypeOK
      <3>3. \A x \in orders : order[x].side # order[taker].side
               => Better(Opposite(order[taker].side), order[taker].price, order[x].price)
        <4>. SUFFICES ASSUME NEW x \in orders, order[x].side # o.side
                      PROVE  Better(Opposite(o.side), o.price, order[x].price)
          OBVIOUS
        <4>1. ~Crosses(o.side, o.price, order[x].price)
          BY <1>2, <3>1, NothingCrosses
        <4>2. order[x] \in Order
          BY <1>1, IndexFacts DEF StructureOK, TypeOK
        <4>3. o.price \in Nat /\ order[x].price \in Nat /\ o.side \in Side
          BY <1>3, <4>2, OrderNumbers
        <4>. HIDE DEF o
        <4>. QED  BY <4>1, <4>3 DEF Crosses, Better, Opposite, Side
      <3>4. /\ book' = [book EXCEPT ![o.side] = Add(o.side, book[o.side], o.price, taker)]
            /\ orders' = orders \cup {taker}
            /\ order \in [OrderID -> Order \cup {None}]
        BY <1>1, <1>4, <2>2 DEF TypeOK
      <3>. QED  BY <1>1, <1>3, <1>7, <3>2, <3>3, <3>4, OrderRested
    <2>. QED  BY <2>1, <2>2
  <1>10. TypeOK'
    BY <1>1, <1>2, <1>6, <1>9 DEF TypeOK, StructureOK
  <1>11. StatusMatchesFill'
    <2>. SUFFICES ASSUME NEW x \in OrderID, order'[x] # None
                  PROVE  /\ order'[x].filled <= order'[x].quantity
                         /\ x \in orders' =>
                              /\ order'[x].filled < order'[x].quantity
                              /\ order'[x].status =
                                    IF order'[x].filled = 0 THEN "OPEN" ELSE "PARTIALLY_FILLED"
                         /\ (x \notin orders' /\ x # taker') =>
                              IF order'[x].filled = order'[x].quantity
                              THEN order'[x].status = "FILLED"
                              ELSE order'[x].status = "CANCELLED"
      BY DEF StatusMatchesFill
    <2>1. CASE x = taker
      <3>1. order'[x].filled = o.filled /\ order'[x].quantity = o.quantity /\ order'[x].status = st
        BY <1>3, <1>6, <2>1, NoneIsNoOrder
      <3>2. CASE Remaining(o) = 0
        <4>1. o.filled = o.quantity /\ st = "FILLED" /\ x \notin orders'
          BY <1>3, <1>4, <1>8, <2>1, <3>2 DEF Remaining, st
        <4>. QED  BY <1>8, <3>1, <4>1
      <3>3. CASE Remaining(o) # 0
        <4>1. /\ o.filled < o.quantity /\ x \in orders'
              /\ st = IF o.filled = 0 THEN "OPEN" ELSE "PARTIALLY_FILLED"
          BY <1>4, <1>8, <2>1, <3>3 DEF Remaining, st
        <4>. QED  BY <1>8, <3>1, <4>1
      <3>. QED  BY <3>2, <3>3
    <2>2. CASE x # taker
      <3>1. order'[x] = order[x] /\ (x \in orders' <=> x \in orders)
        BY <1>4, <1>6, <2>2
      <3>. QED  BY <1>1, <2>2, <3>1 DEF StatusMatchesFill
    <2>. QED  BY <2>1, <2>2
  <1>12. SequencesUnique'
    BY <1>1, <1>2, <1>6 DEF SequencesUnique
  <1>. QED  BY <1>9, <1>10, <1>11, <1>12, InvParts

(* Cancel preserves the invariant. *)
LEMMA CancelInv ==
    ASSUME BookInv, NEW id \in OrderID, Cancel(id)
    PROVE  BookInv'
  <1>. DEFINE o == order[id]
              Q == book[o.side].levels[o.price]
  <1>1. TypeOK /\ StatusMatchesFill /\ SequencesUnique /\ StructureOK /\ IndexMatchesQueues
    BY InvStructure DEF BookInv
  <1>2. /\ taker = None /\ id \in orders
        /\ book' = [book EXCEPT ![o.side] = RemoveOrder(book[o.side], o.price, id)]
        /\ orders' = orders \ {id}
        /\ order' = [order EXCEPT ![id].status = "CANCELLED"]
        /\ orderSeq' = orderSeq /\ tradeSeq' = tradeSeq /\ taker' = taker /\ res' = res
    BY DEF Cancel
  <1>3. o \in Order /\ order \in [OrderID -> Order \cup {None}]
    BY <1>1, <1>2, IndexFacts DEF TypeOK
  <1>4. /\ o.price \in Keys(book[o.side])
        /\ \E i \in 1..Len(Q) : Q[i] = id
    BY <1>1, <1>2 DEF IndexMatchesQueues
  <1>5. o.side \in Side /\ o.price \in Price
    BY <1>3, OrderNumbers
  <1>6. Q \in Seq(OrderID) /\ Q # None
    BY <1>1, <1>4, <1>5 DEF TypeOK, BookSide, Keys
  <1>7. PICK k \in 1..Len(Q) : Q[k] = id /\ RemoveFirst(Q, id) = RemoveAt(Q, k)
    BY <1>4, <1>6, RemoveFirstPosition
  <1>8. Contains(Q, id)
    BY <1>4 DEF Contains
  <1>9. RemoveOrder(book[o.side], o.price, id) = ShrinkLevel(book[o.side], o.price, RemoveAt(Q, k))
    BY <1>6, <1>7, <1>8 DEF RemoveOrder
  <1>10. /\ order' \in [OrderID -> Order \cup {None}]
         /\ order'[id] \in Order /\ order'[id].status = "CANCELLED"
         /\ \A x \in OrderID : x # id => order'[x] = order[x]
         /\ \A x \in OrderID :
              /\ (order'[x] # None) <=> (order[x] # None)
              /\ order[x] # None =>
                   /\ order'[x].filled = order[x].filled
                   /\ order'[x].quantity = order[x].quantity
                   /\ order'[x].side = order[x].side
                   /\ order'[x].price = order[x].price
                   /\ order'[x].sequence = order[x].sequence
    BY <1>2, <1>3, StatusStep DEF Status
  <1>11. SameKeys(orders \ {id})
    <2>1. \A x \in orders : x \in OrderID /\ order[x] # None
      BY <1>1, IndexFacts DEF TypeOK
    <2>. QED  BY <1>10, <2>1 DEF SameKeys
  <1>12. StructureOK'
    <2>1. book' = [book EXCEPT ![o.side] = ShrinkLevel(book[o.side], o.price, RemoveAt(Q, k))]
      BY <1>2, <1>9
    <2>. QED  BY <1>1, <1>2, <1>3, <1>7, <1>11, <2>1, OrderRemoved
  <1>13. TypeOK'
    BY <1>1, <1>2, <1>10, <1>12 DEF TypeOK, StructureOK
  <1>14. StatusMatchesFill'
    <2>. SUFFICES ASSUME NEW x \in OrderID, order'[x] # None
                  PROVE  /\ order'[x].filled <= order'[x].quantity
                         /\ x \in orders' =>
                              /\ order'[x].filled < order'[x].quantity
                              /\ order'[x].status =
                                    IF order'[x].filled = 0 THEN "OPEN" ELSE "PARTIALLY_FILLED"
                         /\ (x \notin orders' /\ x # taker') =>
                              IF order'[x].filled = order'[x].quantity
                              THEN order'[x].status = "FILLED"
                              ELSE order'[x].status = "CANCELLED"
      BY DEF StatusMatchesFill
    <2>1. CASE x = id
      <3>1. o.filled < o.quantity /\ o.filled \in Nat /\ o.quantity \in Nat /\ o # None
        BY <1>1, <1>2, <1>3, OrderNumbers, NoneIsNoOrder DEF StatusMatchesFill
      <3>2. /\ order'[x].filled = o.filled /\ order'[x].quantity = o.quantity
            /\ order'[x].status = "CANCELLED" /\ x \notin orders'
        BY <1>2, <1>10, <2>1, <3>1
      <3>. HIDE DEF o
      <3>. QED  BY <3>1, <3>2
    <2>2. CASE x # id
      <3>1. order'[x] = order[x] /\ (x \in orders' <=> x \in orders) /\ taker' = taker
        BY <1>2, <1>10, <2>2
      <3>. QED  BY <1>1, <2>2, <3>1 DEF StatusMatchesFill
    <2>. QED  BY <2>1, <2>2
  <1>15. SequencesUnique'
    BY <1>1, <1>2, <1>10 DEF SequencesUnique
  <1>. QED  BY <1>12, <1>13, <1>14, <1>15, InvParts

-----------------------------------------------------------------------------
(* Every step of the book preserves the invariant. *)
LEMMA BookStepInv ==
    ASSUME BookInv, [OrderBookNext]_bookVars
    PROVE  BookInv'
  <1>1. ASSUME NEW id \in OrderID, NEW r \in Request, PlaceBegin(id, r) PROVE BookInv'
    BY <1>1, PlaceBeginInv
  <1>2. CASE MatchStep
    BY <1>2, MatchStepInv
  <1>3. CASE PlaceFinish
    BY <1>3, PlaceFinishInv
  <1>4. ASSUME NEW id \in OrderID, Cancel(id) PROVE BookInv'
    BY <1>4, CancelInv
  <1>5. CASE UNCHANGED bookVars
    BY <1>5 DEF bookVars, BookInv, TypeOK, PricesSorted, LevelsMatchPrices,
                IndexMatchesQueues, QueuesInTimeOrder, Uncrossed, StatusMatchesFill,
                SequencesUnique, Keys
  <1>. QED  BY <1>1, <1>2, <1>3, <1>4, <1>5 DEF OrderBookNext

(* The book's invariant holds in every behaviour, for any finite or infinite
   set of orders, prices and quantities.  It is the conjunction of the type
   invariant and of what the code relies on from one call to the next. *)
THEOREM BookInvariant == OrderBookSpec => []BookInv
  BY InitInv, BookStepInv, PTL DEF OrderBookSpec

(* Every structure of the book holds values of its type, in every behaviour. *)
THEOREM TypeCorrect == OrderBookSpec => []TypeOK
  BY BookInvariant, PTL DEF BookInv

(* The price slices of both sides are strictly best-first in every state, also
   inside Place. *)
THEOREM PricesStaySorted == OrderBookSpec => []PricesSorted
  BY BookInvariant, PTL DEF BookInv

(* The price slices and the level maps name the same prices and no level is
   empty, so best() and queue[0] always find an order. *)
THEOREM LevelsAreExact == OrderBookSpec => []LevelsMatchPrices
  BY BookInvariant, PTL DEF BookInv

(* The order index holds exactly what the queues hold. *)
THEOREM IndexIsExact == OrderBookSpec => []IndexMatchesQueues
  BY BookInvariant, PTL DEF BookInv

(* Within a level, queue positions follow the order of acceptance. *)
THEOREM QueuesKeepTime == OrderBookSpec => []QueuesInTimeOrder
  BY BookInvariant, PTL DEF BookInv

(* No bid ever rests at or above an ask. *)
THEOREM NeverCrossed == OrderBookSpec => []Uncrossed
  BY BookInvariant, PTL DEF BookInv

(* The status of an order always tells what was filled of it and whether it is
   in the book; nothing is filled beyond its quantity. *)
THEOREM StatusIsRight == OrderBookSpec => []StatusMatchesFill
  BY BookInvariant, PTL DEF BookInv

(* An order that the book has finished with is not in it. *)
LEMMA TerminalIsOut ==
    ASSUME BookInv, NEW id \in OrderID, order[id] # None, Terminal(order[id].status)
    PROVE  id \notin orders /\ id # taker
  <1>1. StatusMatchesFill /\ SequencesUnique
    BY DEF BookInv
  <1>2. id \in orders => order[id].status \in {"OPEN", "PARTIALLY_FILLED"}
    BY <1>1 DEF StatusMatchesFill
  <1>3. id = taker => order[id].status = "OPEN"
    BY <1>1, NoneAssumption DEF SequencesUnique
  <1>. QED  BY <1>2, <1>3 DEF Terminal

(* What OrdersOnlyAdvance says of one order in one step. *)
Advances(id) ==
    /\ Terminal(order[id].status) => order'[id] = order[id]
    /\ order'[id].filled >= order[id].filled
    /\ order'[id].sequence = order[id].sequence

(* An order that a step leaves alone advances trivially. *)
LEMMA UnchangedAdvances ==
    ASSUME BookInv, NEW x \in OrderID, order[x] # None, order'[x] = order[x]
    PROVE  Advances(x)
  <1>1. order[x] \in Order
    BY DEF BookInv, TypeOK
  <1>. QED  BY <1>1, OrderNumbers DEF Advances

(* An order that only changes status, and may, advances. *)
LEMMA StatusAdvances ==
    ASSUME BookInv, NEW id \in OrderID, order[id] \in Order, ~Terminal(order[id].status),
           NEW st \in Status, order' = [order EXCEPT ![id].status = st],
           NEW x \in OrderID, order[x] # None
    PROVE  Advances(x)
  <1>1. /\ x # id => order'[x] = order[x]
        /\ order'[x].filled = order[x].filled /\ order'[x].sequence = order[x].sequence
    BY StatusStep
  <1>2. order[x] \in Order
    BY DEF BookInv, TypeOK
  <1>3. order[x].filled \in Nat
    BY <1>2, OrderNumbers
  <1>. QED  BY <1>1, <1>3 DEF Advances

(* One iteration of the loop touches the taker and the maker, and both may. *)
LEMMA MatchAdvances ==
    ASSUME BookInv, MatchStep, NEW x \in OrderID, order[x] # None
    PROVE  Advances(x)
  <1>. DEFINE o == order[taker]
              s == Opposite(o.side)
              p == Best(book[s])
              mid == Head(book[s].levels[p])
              m == order[mid]
              qty == Min64(Remaining(o), Remaining(m))
              maker == Executed(m, qty)
              t == [o EXCEPT !.filled = o.filled + qty]
  <1>1. taker # None /\ Matchable(o) /\ Remaining(o) > 0
    BY DEF MatchStep, Matchable
  <1>2. order' = [order EXCEPT ![mid] = maker, ![taker].filled = @ + qty]
    BY DEF MatchStep
  <1>3. /\ taker \in OrderID /\ o \in Order
        /\ mid \in orders /\ mid \in OrderID /\ mid # taker
        /\ m \in Order /\ m.filled < m.quantity
    BY <1>1, MakerFacts
  <1>4. order \in [OrderID -> Order \cup {None}]
    BY DEF BookInv, TypeOK
  <1>. HIDE DEF o, s, p, mid, m, qty, maker, t
  <1>5. Remaining(m) > 0
    BY <1>3, OrderNumbers DEF Remaining
  <1>6. qty \in Nat /\ qty > 0 /\ qty <= Remaining(m)
    BY <1>1, <1>3, <1>5, MatchQuantity DEF qty
  <1>7. maker.filled = m.filled + qty /\ maker.sequence = m.sequence
    BY <1>3, <1>6, ExecutedFacts DEF maker
  <1>8. t.filled = o.filled + qty /\ t.sequence = o.sequence
    BY <1>3, <1>6, OrderNumbers DEF t, Order
  <1>9. order' = [order EXCEPT ![mid] = maker, ![taker] = t]
    BY <1>2, <1>3, <1>4 DEF t, o
  <1>10. m.filled \in Nat /\ o.filled \in Nat
    BY <1>3, OrderNumbers
  <1>11. CASE x = mid
    <2>1. order'[x] = maker /\ order[x] = m /\ ~Terminal(order[x].status)
      BY <1>3, <1>4, <1>9, <1>11, TerminalIsOut DEF m
    <2>. QED  BY <1>6, <1>7, <1>10, <2>1 DEF Advances
  <1>12. CASE x = taker
    <2>1. order'[x] = t /\ order[x] = o /\ ~Terminal(order[x].status)
      BY <1>3, <1>4, <1>9, <1>12, TerminalIsOut DEF o
    <2>. QED  BY <1>6, <1>8, <1>10, <2>1 DEF Advances
  <1>13. CASE x # mid /\ x # taker
    BY <1>3, <1>4, <1>9, <1>13, UnchangedAdvances
  <1>. QED  BY <1>11, <1>12, <1>13

(* Every step of the book lets every order advance. *)
LEMMA AdvancesStep ==
    ASSUME BookInv, [OrderBookNext]_bookVars, NEW x \in OrderID, order[x] # None
    PROVE  Advances(x)
  <1>1. ASSUME NEW id \in OrderID, NEW r \in Request, PlaceBegin(id, r) PROVE Advances(x)
    <2>1. order'[x] = order[x]
      BY <1>1 DEF PlaceBegin, BookInv, TypeOK
    <2>. QED  BY <2>1, UnchangedAdvances
  <1>2. CASE MatchStep
    BY <1>2, MatchAdvances
  <1>3. CASE PlaceFinish
    <2>. DEFINE st == IF Remaining(order[taker]) = 0 THEN "FILLED"
                      ELSE IF order[taker].filled > 0 THEN "PARTIALLY_FILLED" ELSE "OPEN"
    <2>1. taker # None /\ order' = [order EXCEPT ![taker].status = st]
      BY <1>3 DEF PlaceFinish
    <2>2. taker \in OrderID /\ order[taker] \in Order /\ order[taker] # None
      BY <2>1 DEF BookInv, TypeOK, SequencesUnique
    <2>3. ~Terminal(order[taker].status)
      BY <2>2, TerminalIsOut
    <2>4. st \in Status
      BY DEF Status
    <2>. HIDE DEF st
    <2>. QED  BY <2>1, <2>2, <2>3, <2>4, StatusAdvances
  <1>4. ASSUME NEW id \in OrderID, Cancel(id) PROVE Advances(x)
    <2>1. id \in orders /\ order' = [order EXCEPT ![id].status = "CANCELLED"]
      BY <1>4 DEF Cancel
    <2>2. order[id] \in Order /\ order[id] # None
      BY <1>4, <2>1, IndexFacts DEF BookInv, TypeOK
    <2>3. ~Terminal(order[id].status)
      BY <1>4, <2>1, <2>2, TerminalIsOut
    <2>4. "CANCELLED" \in Status
      BY DEF Status
    <2>. QED  BY <1>4, <2>1, <2>2, <2>3, <2>4, StatusAdvances
  <1>5. CASE UNCHANGED bookVars
    BY <1>5, UnchangedAdvances DEF bookVars
  <1>. QED  BY <1>1, <1>2, <1>3, <1>4, <1>5 DEF OrderBookNext

(* A filled or cancelled order is never touched again, and no order loses a
   fill or its place in time: Terminal in order.go promises as much. *)
THEOREM OrdersAdvance == OrderBookSpec => OrdersOnlyAdvance
  <1>1. BookInv /\ [OrderBookNext]_bookVars
          => [\A id \in OrderID : order[id] # None =>
                /\ Terminal(order[id].status) => order'[id] = order[id]
                /\ order'[id].filled >= order[id].filled
                /\ order'[id].sequence = order[id].sequence]_bookVars
    BY AdvancesStep DEF Advances
  <1>. QED  BY <1>1, BookInvariant, PTL DEF OrderBookSpec, OrdersOnlyAdvance

-----------------------------------------------------------------------------
(* What the result of Place adds up to. *)

(* The quantities and the costs of fills. *)
Quantities(fills) == [i \in 1..Len(fills) |-> fills[i].trade.quantity]
Costs(fills) == [i \in 1..Len(fills) |-> fills[i].trade.price * fills[i].trade.quantity]

(* Fills and a release account for what o has filled. *)
Accounts(fills, release, o) ==
    /\ Total(Quantities(fills)) = o.filled
    /\ o.side = "BUY" => Total(Costs(fills)) + release = o.price * o.filled

(* The trades of fills, as FillsAccountForTaker takes them out. *)
Trades(fills) == [i \in 1..Len(fills) |-> fills[i].trade]

(* The numbers read off the trades are those read off the fills. *)
LEMMA TradesOfFills ==
    ASSUME NEW fills \in Seq(Fill)
    PROVE  /\ [i \in 1..Len(Trades(fills)) |-> Trades(fills)[i].quantity] = Quantities(fills)
           /\ [i \in 1..Len(Trades(fills)) |-> Trades(fills)[i].price * Trades(fills)[i].quantity]
                = Costs(fills)
  <1>. DEFINE t == Trades(fills)
  <1>1. Len(t) = Len(fills) /\ \A i \in 1..Len(fills) : t[i] = fills[i].trade
    BY DEF Trades
  <1>. HIDE DEF t
  <1>2. /\ [i \in 1..Len(t) |-> t[i].quantity] = Quantities(fills)
        /\ [i \in 1..Len(t) |-> t[i].price * t[i].quantity] = Costs(fills)
    BY <1>1 DEF Quantities, Costs
  <1>. QED  BY <1>2 DEF t

(* FillsAccountForTaker in terms of them. *)
LEMMA AccountsUnfold ==
    ASSUME res.fills \in Seq(Fill)
    PROVE  FillsAccountForTaker <=>
             (taker # None => Accounts(res.fills, res.takerReleaseCOP, order[taker]))
  BY TradesOfFills, Zenon DEF FillsAccountForTaker, Accounts, Trades

(* The same after a step. *)
LEMMA AccountsUnfoldPrime ==
    ASSUME res'.fills \in Seq(Fill)
    PROVE  FillsAccountForTaker' <=>
             (taker' # None => Accounts(res'.fills, res'.takerReleaseCOP, order'[taker']))
  BY TradesOfFills, Zenon DEF FillsAccountForTaker, Accounts, Trades

(* No fills add up to nothing. *)
LEMMA NoFills ==
    ASSUME NEW o, o.filled = 0, o.price \in Nat
    PROVE  Accounts(<<>>, 0, o)
  <1>1. Summable(Quantities(<<>>), 1..0) /\ Summable(Costs(<<>>), 1..0)
    BY PositionsFinite DEF Summable, Quantities, Costs
  <1>2. Total(Quantities(<<>>)) = 0 /\ Total(Costs(<<>>)) = 0
    BY <1>1, TotalZero
  <1>. QED  BY <1>2 DEF Accounts

(* One more fill: what it costs plus the price improvement is what the taker
   had locked for it. *)
LEMMA OneMoreFill ==
    ASSUME NEW fills \in Seq(Fill), NEW fill \in Fill, NEW release \in Int,
           NEW o \in Order, NEW t \in Order, Accounts(fills, release, o),
           t.filled = o.filled + fill.trade.quantity, t.side = o.side, t.price = o.price
    PROVE  Accounts(Append(fills, fill),
                    release + PriceImprovement(o, fill.trade.price, fill.trade.quantity), t)
  <1>. DEFINE n == Len(fills)
              F == Append(fills, fill)
              q == fill.trade.quantity
              p == fill.trade.price
  <1>1. n \in Nat /\ \A i \in 1..n : fills[i] \in Fill
    OBVIOUS
  <1>2. /\ q \in Nat /\ p \in Nat
        /\ \A i \in 1..n : fills[i].trade.quantity \in Nat /\ fills[i].trade.price \in Nat
    BY <1>1, PriceAssumption DEF Fill, Trade
  <1>3. /\ Len(F) = n + 1 /\ \A i \in 1..n : F[i] = fills[i]
        /\ F[n + 1] = fill
    BY AppendProperties
  <1>. HIDE DEF F
  <1>4. \A i \in 1..(n + 1) : F[i].trade.quantity \in Nat /\ F[i].trade.price \in Nat
    <2>. SUFFICES ASSUME NEW i \in 1..(n + 1)
                  PROVE  F[i].trade.quantity \in Nat /\ F[i].trade.price \in Nat
      OBVIOUS
    <2>1. i \in 1..n \/ i = n + 1
      BY <1>1
    <2>. QED  BY <1>2, <1>3, <2>1
  <1>5. \A a, b \in Nat : a * b \in Nat
    OBVIOUS
  <1>6. /\ Quantities(fills) \in [1..n -> Nat] /\ Costs(fills) \in [1..n -> Nat]
        /\ Quantities(F) \in [1..(n + 1) -> Nat] /\ Costs(F) \in [1..(n + 1) -> Nat]
    BY <1>2, <1>3, <1>4, <1>5 DEF Quantities, Costs
  <1>7. /\ \A i \in 1..n : Quantities(F)[i] = Quantities(fills)[i]
        /\ \A i \in 1..n : Costs(F)[i] = Costs(fills)[i]
    BY <1>1, <1>3 DEF Quantities, Costs
  <1>8. Quantities(F)[n + 1] = q /\ Costs(F)[n + 1] = p * q
    BY <1>1, <1>3 DEF Quantities, Costs
  <1>. HIDE DEF n, p, q
  <1>9. /\ Total(Quantities(F)) = Total(Quantities(fills)) + q
        /\ Total(Quantities(fills)) \in Nat
    BY <1>1, <1>6, <1>7, <1>8, TotalLonger
  <1>10. /\ Total(Costs(F)) = Total(Costs(fills)) + p * q
         /\ Total(Costs(fills)) \in Nat
    <2>1. /\ Total(Costs(F)) = Total(Costs(fills)) + Costs(F)[n + 1]
          /\ Total(Costs(fills)) \in Nat
      BY <1>1, <1>6, <1>7, TotalLonger
    <2>. QED  BY <1>8, <2>1, Zenon
  <1>11. t.filled = o.filled + q /\ o.filled \in Nat /\ o.price \in Nat
    BY OrderNumbers DEF q
  <1>12. o.side = "BUY" =>
           Total(Costs(F)) + (release + PriceImprovement(o, p, q)) = t.price * t.filled
    <2>. SUFFICES ASSUME o.side = "BUY"
                  PROVE  Total(Costs(F)) + (release + PriceImprovement(o, p, q))
                           = t.price * t.filled
      OBVIOUS
    <2>1. PriceImprovement(o, p, q) = (o.price - p) * q
      BY DEF PriceImprovement
    <2>2. Total(Costs(fills)) + release = o.price * o.filled
      BY DEF Accounts
    <2>3. t.price * t.filled = o.price * (o.filled + q)
      BY <1>11
    <2>4. p \in Int /\ q \in Int /\ o.price \in Int /\ o.filled \in Int
          /\ Total(Costs(fills)) \in Int
      BY <1>2, <1>10, <1>11 DEF p, q
    <2>5. (Total(Costs(fills)) + p * q) + (release + (o.price - p) * q) = o.price * (o.filled + q)
      <3>. DEFINE C == Total(Costs(fills))
                  x == o.price
                  y == o.filled
      <3>1. C \in Int /\ x \in Int /\ y \in Int /\ p \in Int /\ q \in Int /\ C + release = x * y
        BY <2>2, <2>4
      <3>. HIDE DEF C, x, y
      <3>2. (C + p * q) + (release + (x - p) * q) = x * (y + q)
        BY <3>1
      <3>. QED  BY <3>2 DEF C, x, y
    <2>. QED  BY <1>10, <2>1, <2>3, <2>5, Zenon
  <1>. QED  BY <1>9, <1>11, <1>12 DEF Accounts, F, p, q

(* The effect of one iteration of the matching loop: the taker trades qty with
   the resting order mid. *)
Matches(mid, qty) ==
    LET o == order[taker]
        m == order[mid]
        fill == [trade |-> NewTrade(o, taker, m, mid, qty),
                 makerID |-> mid, maker |-> Executed(m, qty)]
    IN  /\ taker \in OrderID /\ o \in Order /\ taker \notin orders /\ taker' = taker
        /\ mid \in OrderID /\ m \in Order /\ mid \in orders /\ mid # taker
        /\ m.side = Opposite(o.side) /\ m.side # o.side /\ Crosses(o.side, o.price, m.price)
        /\ qty \in Nat /\ qty > 0 /\ qty <= Remaining(o) /\ qty <= Remaining(m)
        /\ order' = [order EXCEPT ![mid] = Executed(m, qty),
                                  ![taker] = [o EXCEPT !.filled = o.filled + qty]]
        /\ orders' = IF Remaining(m) = qty THEN orders \ {mid} ELSE orders
        /\ fill \in Fill
        /\ res' = [fills |-> Append(res.fills, fill),
                   takerReleaseCOP |-> res.takerReleaseCOP + PriceImprovement(o, m.price, qty)]

(* MatchStep has that effect for the order at the head of the best level. *)
LEMMA MatchEffect ==
    ASSUME BookInv, MatchStep
    PROVE  \E mid \in OrderID, qty \in Nat : Matches(mid, qty)
  <1>. DEFINE o == order[taker]
              s == Opposite(o.side)
              p == Best(book[s])
              mid == Head(book[s].levels[p])
              m == order[mid]
              qty == Min64(Remaining(o), Remaining(m))
              maker == Executed(m, qty)
              t == [o EXCEPT !.filled = o.filled + qty]
              fill == [trade |-> NewTrade(o, taker, m, mid, qty),
                       makerID |-> mid, maker |-> maker]
  <1>1. TypeOK
    BY DEF BookInv
  <1>2. taker # None /\ Matchable(o) /\ Remaining(o) > 0 /\ Crosses(o.side, o.price, p)
    BY DEF MatchStep, Matchable
  <1>3. /\ order' = [order EXCEPT ![mid] = maker, ![taker].filled = @ + qty]
        /\ res' = [fills |-> Append(res.fills, fill),
                   takerReleaseCOP |-> res.takerReleaseCOP + PriceImprovement(o, m.price, qty)]
        /\ orders' = IF Remaining(maker) = 0 THEN orders \ {mid} ELSE orders
        /\ taker' = taker
    BY DEF MatchStep
  <1>4. /\ taker \in OrderID /\ o \in Order /\ taker \notin orders
        /\ s # o.side
        /\ mid \in orders /\ mid \in OrderID /\ mid # taker
        /\ m \in Order /\ m.side = s /\ m.price = p
        /\ m.filled < m.quantity
    BY <1>2, MakerFacts
  <1>. HIDE DEF p, mid, qty, s
  <1>5. Remaining(m) > 0
    BY <1>4, OrderNumbers DEF Remaining
  <1>6. qty \in Nat /\ qty > 0 /\ qty <= Remaining(o) /\ qty <= Remaining(m)
    BY <1>2, <1>4, <1>5, MatchQuantity DEF qty
  <1>7. maker \in Order /\ ((Remaining(maker) = 0) <=> (Remaining(m) = qty))
    BY <1>4, <1>6, ExecutedFacts
  <1>8. order' = [order EXCEPT ![mid] = maker, ![taker] = t]
    BY <1>1, <1>3, <1>4 DEF TypeOK
  <1>9. fill \in Fill
    <2>1. tradeSeq + 1 \in Nat /\ m.price \in Price /\ o.userID \in UserID /\ m.userID \in UserID
      BY <1>1, <1>4, OrderNumbers DEF TypeOK
    <2>2. NewTrade(o, taker, m, mid, qty) \in Trade
      BY <1>4, <1>6, <2>1 DEF NewTrade, Trade
    <2>. QED  BY <1>4, <1>7, <2>2 DEF Fill
  <1>10. orders' = IF Remaining(m) = qty THEN orders \ {mid} ELSE orders
    BY <1>3, <1>7
  <1>11. m.side = Opposite(o.side) /\ m.side # o.side /\ Crosses(o.side, o.price, m.price)
    BY <1>2, <1>4 DEF s
  <1>12. Matches(mid, qty)
    BY <1>3, <1>4, <1>6, <1>8, <1>9, <1>10, <1>11, Zenon DEF Matches
  <1>. QED  BY <1>4, <1>6, <1>12

(* Every step keeps the account of the taker. *)
LEMMA AccountStep ==
    ASSUME BookInv, BookInv', FillsAccountForTaker, [OrderBookNext]_bookVars
    PROVE  FillsAccountForTaker'
  <1>0. /\ res.fills \in Seq(Fill) /\ res.takerReleaseCOP \in Int
        /\ res'.fills \in Seq(Fill) /\ NoneAssumption
    BY NoneAssumption DEF BookInv, TypeOK, PlaceResult
  <1>. SUFFICES ASSUME taker' # None
                PROVE  Accounts(res'.fills, res'.takerReleaseCOP, order'[taker'])
    BY <1>0, AccountsUnfoldPrime
  <1>1. ASSUME NEW id \in OrderID, NEW r \in Request, PlaceBegin(id, r)
        PROVE  Accounts(res'.fills, res'.takerReleaseCOP, order'[taker'])
    <2>1. order'[taker'].filled = 0 /\ order'[taker'].price \in Nat
      BY <1>1, PriceAssumption DEF PlaceBegin, BookInv, TypeOK, Request
    <2>2. res'.fills = <<>> /\ res'.takerReleaseCOP = 0
      BY <1>1 DEF PlaceBegin
    <2>. QED  BY <2>1, <2>2, NoFills
  <1>2. CASE MatchStep
    <2>1. PICK mid \in OrderID, qty \in Nat : Matches(mid, qty)
      BY <1>2, MatchEffect
    <2>. DEFINE o == order[taker]
                m == order[mid]
                t == [o EXCEPT !.filled = o.filled + qty]
                fill == [trade |-> NewTrade(o, taker, m, mid, qty),
                         makerID |-> mid, maker |-> Executed(m, qty)]
    <2>2. /\ taker \in OrderID /\ o \in Order /\ taker' = taker /\ taker # None
          /\ mid # taker /\ m \in Order /\ fill \in Fill
          /\ order' = [order EXCEPT ![mid] = Executed(m, qty), ![taker] = t]
          /\ res' = [fills |-> Append(res.fills, fill),
                     takerReleaseCOP |-> res.takerReleaseCOP + PriceImprovement(o, m.price, qty)]
      BY <2>1, NoneAssumption DEF Matches
    <2>3. order'[taker'] = t
      BY <2>2 DEF BookInv, TypeOK
    <2>4. /\ t \in Order /\ t.side = o.side /\ t.price = o.price
          /\ t.filled = o.filled + qty
      <3>1. o \in Order /\ o.filled + qty \in Nat
        BY <2>2, OrderNumbers
      <3>. HIDE DEF o
      <3>. QED  BY <3>1 DEF Order
    <2>5. fill.trade.quantity = qty /\ fill.trade.price = m.price
      BY DEF NewTrade
    <2>6. Accounts(res.fills, res.takerReleaseCOP, o)
      BY <1>0, <2>2, AccountsUnfold
    <2>7. /\ res'.fills = Append(res.fills, fill)
          /\ res'.takerReleaseCOP = res.takerReleaseCOP + PriceImprovement(o, m.price, qty)
      BY <2>2
    <2>. HIDE DEF o, t, fill, m
    <2>8. Accounts(Append(res.fills, fill),
                   res.takerReleaseCOP
                     + PriceImprovement(o, fill.trade.price, fill.trade.quantity), t)
      BY <1>0, <2>2, <2>4, <2>5, <2>6, OneMoreFill
    <2>. QED  BY <2>3, <2>5, <2>7, <2>8
  <1>3. CASE PlaceFinish
    BY <1>3 DEF PlaceFinish
  <1>4. ASSUME NEW id \in OrderID, Cancel(id)
        PROVE  Accounts(res'.fills, res'.takerReleaseCOP, order'[taker'])
    BY <1>4 DEF Cancel
  <1>5. CASE UNCHANGED bookVars
    BY <1>0, <1>5, AccountsUnfold DEF bookVars
  <1>. QED  BY <1>1, <1>2, <1>3, <1>4, <1>5 DEF OrderBookNext

(* The result of Place always accounts for the taker: the fills add up to what
   it has filled, and their cost plus the COP to be released is what the filled
   part had locked at the taker's limit. *)
THEOREM TakerIsAccountedFor == OrderBookSpec => []FillsAccountForTaker
  <1>1. OrderBookInit => FillsAccountForTaker
    BY DEF OrderBookInit, FillsAccountForTaker
  <1>2. BookInv /\ BookInv' /\ FillsAccountForTaker /\ [OrderBookNext]_bookVars
          => FillsAccountForTaker'
    BY AccountStep
  <1>. QED  BY <1>1, <1>2, BookInvariant, PTL DEF OrderBookSpec

-----------------------------------------------------------------------------
(* What GET /book shows. *)

(* The orders that rest on side s at price p. *)
RestingAt(s, p) == {id \in orders : order[id].side = s /\ order[id].price = p}

(* A level's queue lists the orders resting at its price, each once. *)
LEMMA QueueListsOrders ==
    ASSUME BookInv, NEW s \in Side, NEW p \in Keys(book[s]),
           NEW q, q = book[s].levels[p]
    PROVE  /\ q \in Seq(OrderID)
           /\ q \in Bijection(1..Len(q), RestingAt(s, p))
           /\ \A i \in 1..Len(q) : q[i] \in RestingAt(s, p) /\ order[q[i]] \in Order
           /\ \A id \in RestingAt(s, p) : order[id] \in Order
  <1>1. /\ TypeOK /\ IndexMatchesQueues /\ QueuesInTimeOrder
    BY DEF BookInv
  <1>2. q \in Seq(OrderID)
    BY <1>1 DEF TypeOK, BookSide, Keys
  <1>3. \A i \in 1..Len(q) : q[i] \in orders /\ order[q[i]].side = s /\ order[q[i]].price = p
    BY <1>1, IndexFacts
  <1>4. \A id \in orders : order[id] \in Order
    BY <1>1, IndexFacts DEF TypeOK
  <1>5. \A i, j \in 1..Len(q) : i < j => order[q[i]].sequence < order[q[j]].sequence
    BY <1>1 DEF QueuesInTimeOrder
  <1>6. \A id \in RestingAt(s, p) : \E i \in 1..Len(q) : q[i] = id
    BY <1>1 DEF IndexMatchesQueues, RestingAt
  <1>. HIDE DEF Keys
  <1>7. \A i \in 1..Len(q) : q[i] \in RestingAt(s, p)
    BY <1>3 DEF RestingAt
  <1>8. q \in [1..Len(q) -> RestingAt(s, p)]
    BY <1>2, <1>7
  <1>9. ASSUME NEW i \in 1..Len(q), NEW j \in 1..Len(q), q[i] = q[j] PROVE i = j
    <2>1. order[q[i]].sequence \in Nat
      BY <1>3, <1>4, OrderNumbers
    <2>2. i < j \/ j < i \/ i = j
      BY <1>2
    <2>. QED  BY <1>5, <1>9, <2>1, <2>2
  <1>10. q \in Injection(1..Len(q), RestingAt(s, p))
    BY <1>8, <1>9, Fun_IsInj
  <1>11. q \in Surjection(1..Len(q), RestingAt(s, p))
    BY <1>6, <1>8, Fun_IsSurj
  <1>12. q \in Bijection(1..Len(q), RestingAt(s, p))
    BY <1>10, <1>11 DEF Bijection
  <1>13. \A i \in 1..Len(q) : order[q[i]] \in Order
    BY <1>3, <1>4
  <1>14. \A id \in RestingAt(s, p) : order[id] \in Order
    BY <1>4 DEF RestingAt
  <1>. QED  BY <1>2, <1>7, <1>12, <1>13, <1>14

(* The numbers that levelsView gives for a level: how many orders rest at its
   price and what they offer together. *)
LEMMA LevelNumbers ==
    ASSUME BookInv, NEW s \in Side, NEW p \in Keys(book[s])
    PROVE  /\ Len(book[s].levels[p]) = Cardinality(RestingAt(s, p))
           /\ Depth(book[s].levels[p]) = Total([id \in RestingAt(s, p) |-> Remaining(order[id])])
  <1>. DEFINE q == book[s].levels[p]
              T == RestingAt(s, p)
              N == 1..Len(q)
              g == [i \in N |-> Remaining(order[q[i]])]
              f == [id \in T |-> Remaining(order[id])]
  <1>1. /\ q \in Seq(OrderID) /\ q \in Bijection(N, T)
        /\ \A i \in N : q[i] \in T /\ order[q[i]] \in Order
        /\ \A id \in T : order[id] \in Order /\ id \in orders /\ id \in OrderID
    <2>1. \A id \in T : id \in orders /\ id \in OrderID
      BY DEF RestingAt, BookInv, TypeOK
    <2>. QED  BY <2>1, QueueListsOrders
  <1>2. Len(q) \in Nat
    BY <1>1
  <1>3. IsFiniteSet(N) /\ Cardinality(N) = Len(q)
    <2>. HIDE DEF q
    <2>1. 1 \in Int /\ Len(q) \in Int
      BY <1>2
    <2>2. IsFiniteSet(N)
      BY <1>2, PositionsFinite
    <2>3. Cardinality(N) = IF 1 > Len(q) THEN 0 ELSE Len(q) - 1 + 1
      BY <2>1, FS_Interval, Zenon
    <2>. QED  BY <1>2, <2>2, <2>3
  <1>4. ExistsBijection(N, T)
    BY <1>1, Zenon DEF ExistsBijection
  <1>. HIDE DEF q, T, N
  <1>5. IsFiniteSet(T) /\ Cardinality(T) = Cardinality(N)
    BY <1>3, <1>4, FS_Bijection
  <1>6. \A id \in T : Remaining(order[id]) \in Nat
    <2>. SUFFICES ASSUME NEW id \in T PROVE Remaining(order[id]) \in Nat
      OBVIOUS
    <2>1. order[id].quantity \in Nat /\ order[id].filled \in Nat
      BY <1>1, OrderNumbers
    <2>2. order[id].filled <= order[id].quantity
      BY <1>1, NoneIsNoOrder DEF BookInv, StatusMatchesFill
    <2>. QED  BY <2>1, <2>2 DEF Remaining
  <1>7. Summable(f, T)
    BY <1>5, <1>6 DEF Summable
  <1>8. Summable(g, N) /\ \A i \in N : g[i] = f[q[i]]
    BY <1>1, <1>3, <1>6 DEF Summable
  <1>. HIDE DEF f, g
  <1>9. Total(g) = Total(f)
    <2>1. Renames(q, g, N, f, T)
      BY <1>1, <1>8 DEF Renames
    <2>. QED  BY <1>7, <1>8, <2>1, TotalReindex
  <1>. QED  BY <1>3, <1>5, <1>9 DEF q, T, N, f, g, Depth

(* The view of one side. *)
Shows(s, depth, view) ==
    LET offered == {p \in Price : RestingAt(s, p) # {}}
        shown == {view[i].price : i \in 1..Len(view)}
    IN  /\ \A i, j \in 1..Len(view) : i < j => Better(s, view[i].price, view[j].price)
        /\ shown \subseteq offered
        /\ \A p \in offered \ shown : /\ depth > 0 /\ Len(view) = depth
                                      /\ \A q \in shown : Better(s, q, p)
        /\ \A i \in 1..Len(view) :
              /\ view[i].orders = Cardinality(RestingAt(s, view[i].price))
              /\ view[i].quantity =
                    Total([id \in RestingAt(s, view[i].price) |-> Remaining(order[id])])

(* levelsView shows the truth about its side. *)
LEMMA ViewShows ==
    ASSUME BookInv, NEW s \in Side, NEW depth \in Nat
    PROVE  Shows(s, depth, LevelsView(book[s], depth))
  <1>. DEFINE P == book[s].prices
              n == IF depth > 0 THEN Min64(depth, Len(P)) ELSE Len(P)
              view == LevelsView(book[s], depth)
              offered == {p \in Price : RestingAt(s, p) # {}}
              shown == {view[i].price : i \in 1..Len(view)}
  <1>1. P \in Seq(Price) /\ Len(P) \in Nat
    BY DEF BookInv, TypeOK, BookSide
  <1>2. n \in Nat /\ n <= Len(P) /\ (n < Len(P) => depth > 0 /\ n = depth)
    BY <1>1 DEF Min64
  <1>3. view = [i \in 1..n |-> [price |-> P[i],
                                quantity |-> Depth(book[s].levels[P[i]]),
                                orders |-> Len(book[s].levels[P[i]])]]
    BY DEF LevelsView
  <1>. HIDE DEF n, view
  <1>4. /\ Len(view) = n
        /\ \A i \in 1..n : /\ view[i].price = P[i]
                           /\ view[i].quantity = Depth(book[s].levels[P[i]])
                           /\ view[i].orders = Len(book[s].levels[P[i]])
    BY <1>2, <1>3
  <1>5. \A i, j \in 1..Len(P) : i < j => Better(s, P[i], P[j])
    BY DEF BookInv, PricesSorted
  <1>6. /\ \A i \in 1..Len(P) : P[i] \in Keys(book[s])
        /\ \A p \in Keys(book[s]) : \E i \in 1..Len(P) : P[i] = p
    BY <1>1, ToSetMember DEF BookInv, LevelsMatchPrices
  <1>. HIDE DEF P
  <1>7. offered = Keys(book[s])
    <2>1. ASSUME NEW p \in Keys(book[s]) PROVE p \in offered
      <3>1. book[s].levels[p] # <<>> /\ p \in Price
        BY DEF BookInv, LevelsMatchPrices, Keys
      <3>2. /\ book[s].levels[p] \in Seq(OrderID)
            /\ \A i \in 1..Len(book[s].levels[p]) : book[s].levels[p][i] \in RestingAt(s, p)
        BY QueueListsOrders
      <3>3. 1 \in 1..Len(book[s].levels[p])
        BY <3>1, <3>2
      <3>. QED  BY <3>1, <3>2, <3>3
    <2>2. ASSUME NEW p \in offered PROVE p \in Keys(book[s])
      <3>1. PICK id \in orders : order[id].side = s /\ order[id].price = p
        BY DEF RestingAt
      <3>. QED  BY <3>1 DEF BookInv, IndexMatchesQueues
    <2>. QED  BY <2>1, <2>2
  <1>8. shown = {P[i] : i \in 1..n}
    BY <1>4
  <1>. HIDE DEF offered, shown
  <1>9. \A i \in 1..n : i \in 1..Len(P)
    BY <1>1, <1>2
  <1>10. \A i, j \in 1..n : i < j => Better(s, view[i].price, view[j].price)
    BY <1>4, <1>5, <1>9
  <1>11. shown \subseteq offered
    BY <1>6, <1>7, <1>8, <1>9
  <1>12. ASSUME NEW p \in offered \ shown
         PROVE  /\ depth > 0 /\ Len(view) = depth
                /\ \A q \in shown : Better(s, q, p)
    <2>1. PICK j \in 1..Len(P) : P[j] = p
      BY <1>6, <1>7
    <2>2. j \notin 1..n
      BY <1>8, <2>1
    <2>3. n < j /\ n < Len(P)
      BY <1>1, <1>2, <2>2
    <2>4. \A i \in 1..n : i \in 1..Len(P) /\ i < j
      BY <1>1, <1>2, <2>3
    <2>. QED  BY <1>2, <1>4, <1>5, <1>8, <2>1, <2>3, <2>4
  <1>13. ASSUME NEW i \in 1..n
         PROVE  /\ view[i].orders = Cardinality(RestingAt(s, view[i].price))
                /\ view[i].quantity =
                     Total([id \in RestingAt(s, view[i].price) |-> Remaining(order[id])])
    <2>1. view[i].price \in Keys(book[s]) /\ view[i].price = P[i]
      BY <1>4, <1>6, <1>9
    <2>. QED  BY <1>4, <2>1, LevelNumbers
  <1>14. \A i, j \in 1..Len(view) : i < j => Better(s, view[i].price, view[j].price)
    BY <1>4, <1>10
  <1>15. \A i \in 1..Len(view) :
           /\ view[i].orders = Cardinality(RestingAt(s, view[i].price))
           /\ view[i].quantity =
                Total([id \in RestingAt(s, view[i].price) |-> Remaining(order[id])])
    BY <1>4, <1>13, Zenon
  <1>16. Shows(s, depth, view)
    BY <1>11, <1>12, <1>14, <1>15, Zenon DEF Shows, offered, shown
  <1>. QED  BY <1>16 DEF view

(* What is shown of both sides. *)
LEMMA SnapshotShows == BookInv => SnapshotShowsRestingOrders
  <1>. SUFFICES ASSUME BookInv PROVE SnapshotShowsRestingOrders
    OBVIOUS
  <1>1. ASSUME NEW depth \in 0..Cardinality(Price), NEW s \in Side
        PROVE  Shows(s, depth, IF s = "BUY" THEN Snapshot(depth).bids ELSE Snapshot(depth).asks)
    <2>1. depth \in Nat
      OBVIOUS
    <2>2. LevelsView(book[s], depth)
            = IF s = "BUY" THEN Snapshot(depth).bids ELSE Snapshot(depth).asks
      BY DEF Snapshot, Side
    <2>3. Shows(s, depth, LevelsView(book[s], depth))
      BY <2>1, ViewShows
    <2>. QED  BY <2>2, <2>3, Zenon
  <1>. QED  BY <1>1, Zenon DEF SnapshotShowsRestingOrders, Shows, RestingAt

(* GET /book always shows the best levels first, leaves none out that is better
   than one it shows, and counts exactly the orders that rest at each price. *)
THEOREM SnapshotIsTrue == OrderBookSpec => []SnapshotShowsRestingOrders
  BY BookInvariant, SnapshotShows, PTL
=============================================================================
