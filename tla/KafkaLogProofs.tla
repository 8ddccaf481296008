-------------------------- MODULE KafkaLogProofs --------------------------
(***************************************************************************)
(* Proofs about KafkaLog: for any number of events and lives and any       *)
(* channel sizes, under every fault, what the event log keeps in order,    *)
(* what settlement applies and how much the end of a process can lose.     *)
(***************************************************************************)
EXTENDS KafkaLog, SequenceTheorems, FunctionTheorems, FiniteSetTheorems, TLAPS

Increasing(s) == \A i, j \in 1..Len(s) : i < j => s[i] < s[j]

(* Everything in s was published before everything in t. *)
Precedes(s, t) == \A i \in 1..Len(s), j \in 1..Len(t) : s[i] < t[j]

(* The events that are nowhere else and that the group will not see again, or
   that the journal holds: those that settlement does not apply any more.
   Unlike Lost they stay such when they are delivered once more. *)
Doomed ==
    {e \in Event :
        /\ applied[e] = 0 /\ e \notin skipped
        /\ \/ e \in journal /\ ~(settling = "apply" /\ e = hand)
           \/ /\ \E k \in 1..committed : topic[k] = e
              /\ e \notin ToSet(out) /\ e # hand}

OffsetsTypeOK ==
    /\ KafkaTypeOK
    /\ committed \in Nat /\ marked \in Nat /\ position \in Nat /\ fetched \in Nat

(* Publication order along the way to the partition. *)
PipelineOrdered ==
    /\ Increasing(topic) /\ Increasing(buffered) /\ Increasing(in)
    /\ Precedes(topic, buffered) /\ Precedes(buffered, in) /\ Precedes(topic, in)
    /\ \A i \in 1..Len(topic) : topic[i] <= published
    /\ \A i \in 1..Len(buffered) : buffered[i] <= published
    /\ \A i \in 1..Len(in) : in[i] <= published

(* The consumer's offsets, and what is between it and settlement. *)
OffsetsOrdered ==
    /\ committed <= marked /\ marked <= position
    /\ position <= fetched /\ fetched <= Len(topic)
    /\ Alive => /\ Len(out) <= position
                /\ \A i \in 1..Len(out) : out[i] = topic[position - Len(out) + i]

(* A process that is down has nothing in memory. *)
NothingInMemory ==
    ~Alive => in = <<>> /\ buffered = <<>> /\ out = <<>> /\ settling = "idle" /\ hand = 0

(* An event is in the journal before it is applied, and in hand while it is. *)
JournalFirst ==
    /\ (settling = "idle") <=> (hand = 0)
    /\ settling = "apply" => hand \in journal /\ applied[hand] = 0
    /\ \A e \in Event : applied[e] <= 1 /\ (applied[e] = 1 => e \in journal)

(* No event vanishes on its way to the broker, and Close lets go only of a
   queue that is empty. *)
NothingVanishes ==
    /\ \A e \in 1..published : e \in ToSet(topic) \cup dropped \cup ToSet(in) \cup ToSet(buffered)
    /\ (Alive /\ producer = "done") => InClosed /\ in = <<>>
    /\ closing \in {"flush", "stop", "commit", "closed"} => producer = "done"
    /\ closing = "closed" => buffered = <<>>

(* What the consumer has passed on is accounted for, and every life but this
   one has doomed at most a channel and the event in hand. *)
LossAccounted ==
    /\ Alive => \A k \in 1..position :
                  \/ topic[k] \in Doomed \/ applied[topic[k]] = 1 \/ topic[k] \in skipped
                  \/ topic[k] \in ToSet(out) \/ topic[k] = hand
    /\ Cardinality(Doomed) <= (IF Alive THEN life - 1 ELSE life) * (OutSize + 1)

(* The inductive invariant. *)
KafkaInv ==
    /\ OffsetsTypeOK
    /\ PipelineOrdered
    /\ OffsetsOrdered
    /\ NothingInMemory
    /\ JournalFirst
    /\ NothingVanishes
    /\ LossAccounted

-----------------------------------------------------------------------------
(* Sequences *)

(* The elements of a sequence are what its positions hold. *)
LEMMA MemberOfSeq ==
    ASSUME NEW S, NEW q \in Seq(S)
    PROVE  \A x : x \in ToSet(q) <=> \E i \in 1..Len(q) : q[i] = x
  <1>1. DOMAIN q = 1..Len(q)
    OBVIOUS
  <1>. QED  BY <1>1, Zenon DEF ToSet

(* One more element at the end. *)
LEMMA AppendFacts ==
    ASSUME NEW S, NEW q \in Seq(S), NEW x \in S
    PROVE  /\ Append(q, x) \in Seq(S) /\ Len(Append(q, x)) = Len(q) + 1
           /\ \A i \in 1..Len(q) : Append(q, x)[i] = q[i]
           /\ Append(q, x)[Len(q) + 1] = x
           /\ \A i \in 1..(Len(q) + 1) : i \in 1..Len(q) \/ i = Len(q) + 1
           /\ ToSet(Append(q, x)) = ToSet(q) \cup {x}
  <1>1. /\ Append(q, x) \in Seq(S) /\ Len(Append(q, x)) = Len(q) + 1
        /\ \A i \in 1..Len(q) : Append(q, x)[i] = q[i]
        /\ Append(q, x)[Len(q) + 1] = x
        /\ \A i \in 1..(Len(q) + 1) : i \in 1..Len(q) \/ i = Len(q) + 1
        /\ \A i \in 1..Len(q) : i \in 1..(Len(q) + 1)
        /\ Len(q) + 1 \in 1..(Len(q) + 1)
    OBVIOUS
  <1>2. \A y : y \in ToSet(q) <=> \E i \in 1..Len(q) : q[i] = y
    BY MemberOfSeq
  <1>3. \A y : y \in ToSet(Append(q, x)) <=> \E i \in 1..(Len(q) + 1) : Append(q, x)[i] = y
    <2>. DEFINE a == Append(q, x)
    <2>1. a \in Seq(S) /\ Len(a) = Len(q) + 1
      BY <1>1
    <2>. HIDE DEF a
    <2>2. \A y : y \in ToSet(a) <=> \E i \in 1..Len(a) : a[i] = y
      BY <2>1, MemberOfSeq, Zenon
    <2>3. \A y : y \in ToSet(a) <=> \E i \in 1..(Len(q) + 1) : a[i] = y
      BY <2>1, <2>2, Zenon
    <2>. QED  BY <2>3, Zenon DEF a
  <1>4. ASSUME NEW y PROVE y \in ToSet(Append(q, x)) <=> (y \in ToSet(q) \/ y = x)
    <2>1. ASSUME y \in ToSet(q) \/ y = x PROVE y \in ToSet(Append(q, x))
      BY <1>1, <1>2, <1>3, <2>1
    <2>2. ASSUME y \in ToSet(Append(q, x)) PROVE y \in ToSet(q) \/ y = x
      <3>1. PICK i \in 1..(Len(q) + 1) : Append(q, x)[i] = y
        BY <1>3, <2>2
      <3>. QED  BY <1>1, <1>2, <3>1
    <2>. QED  BY <2>1, <2>2
  <1>. QED  BY <1>1, <1>4

(* The first element taken off. *)
LEMMA TailFacts ==
    ASSUME NEW S, NEW q \in Seq(S), q # <<>>
    PROVE  /\ Head(q) = q[1] /\ Head(q) \in S /\ 1 \in 1..Len(q)
           /\ Tail(q) \in Seq(S) /\ Len(Tail(q)) = Len(q) - 1 /\ Len(q) \in Nat
           /\ \A i \in 1..Len(Tail(q)) : Tail(q)[i] = q[i + 1] /\ i + 1 \in 1..Len(q)
           /\ ToSet(q) = ToSet(Tail(q)) \cup {Head(q)}
  <1>1. /\ Head(q) = q[1] /\ Head(q) \in S /\ 1 \in 1..Len(q)
        /\ Tail(q) \in Seq(S) /\ Len(Tail(q)) = Len(q) - 1 /\ Len(q) \in Nat
        /\ \A i \in 1..Len(Tail(q)) : Tail(q)[i] = q[i + 1] /\ i + 1 \in 1..Len(q)
        /\ \A i \in 1..Len(q) : i = 1 \/ (i - 1 \in 1..Len(Tail(q)) /\ Tail(q)[i - 1] = q[i])
    OBVIOUS
  <1>2. \A y : y \in ToSet(q) <=> \E i \in 1..Len(q) : q[i] = y
    BY MemberOfSeq
  <1>3. \A y : y \in ToSet(Tail(q)) <=> \E i \in 1..Len(Tail(q)) : Tail(q)[i] = y
    BY <1>1, MemberOfSeq
  <1>4. ASSUME NEW y PROVE y \in ToSet(q) <=> (y \in ToSet(Tail(q)) \/ y = Head(q))
    <2>1. ASSUME y \in ToSet(q) PROVE y \in ToSet(Tail(q)) \/ y = Head(q)
      <3>1. PICK i \in 1..Len(q) : q[i] = y
        BY <1>2, <2>1
      <3>2. CASE i = 1
        BY <1>1, <3>1, <3>2
      <3>3. CASE i - 1 \in 1..Len(Tail(q)) /\ Tail(q)[i - 1] = q[i]
        BY <1>3, <3>1, <3>3
      <3>. QED  BY <1>1, <3>2, <3>3
    <2>2. ASSUME y \in ToSet(Tail(q)) PROVE y \in ToSet(q)
      <3>1. PICK i \in 1..Len(Tail(q)) : Tail(q)[i] = y
        BY <1>3, <2>2
      <3>. QED  BY <1>1, <1>2, <3>1
    <2>3. Head(q) \in ToSet(q)
      BY <1>1, <1>2
    <2>. QED  BY <2>1, <2>2, <2>3
  <1>. QED  BY <1>1, <1>4

(* The order of what is left when the first element goes. *)
LEMMA TailOrdered ==
    ASSUME NEW t \in Seq(Event), t # <<>>, Increasing(t)
    PROVE  /\ Increasing(Tail(t))
           /\ \A i \in 1..Len(Tail(t)) : Head(t) < Tail(t)[i]
           /\ \A s : Precedes(s, t) => Precedes(s, Tail(t))
           /\ \A s : Precedes(t, s) => Precedes(Tail(t), s)
  <1>1. /\ Head(t) = t[1] /\ 1 \in 1..Len(t) /\ Len(t) \in Nat
        /\ \A i \in 1..Len(Tail(t)) : Tail(t)[i] = t[i + 1] /\ i + 1 \in 1..Len(t)
    BY TailFacts
  <1>2. Increasing(Tail(t))
    BY <1>1 DEF Increasing
  <1>3. \A i \in 1..Len(Tail(t)) : Head(t) < Tail(t)[i]
    BY <1>1 DEF Increasing
  <1>. QED  BY <1>1, <1>2, <1>3 DEF Precedes

(* The first element of t moves to the end of s: order is kept, between the
   two and towards what comes before and after them. *)
LEMMA HeadMoves ==
    ASSUME NEW s \in Seq(Event), NEW t \in Seq(Event), t # <<>>,
           Increasing(s), Increasing(t), Precedes(s, t)
    PROVE  /\ Append(s, Head(t)) \in Seq(Event) /\ Tail(t) \in Seq(Event)
           /\ Increasing(Append(s, Head(t))) /\ Increasing(Tail(t))
           /\ Precedes(Append(s, Head(t)), Tail(t))
           /\ \A r : (Precedes(r, s) /\ Precedes(r, t))
                       => Precedes(r, Append(s, Head(t))) /\ Precedes(r, Tail(t))
           /\ \A r : (Precedes(s, r) /\ Precedes(t, r))
                       => Precedes(Append(s, Head(t)), r) /\ Precedes(Tail(t), r)
           /\ \A n : /\ \A i \in 1..Len(s) : s[i] <= n
                     /\ \A i \in 1..Len(t) : t[i] <= n
                     => /\ \A i \in 1..Len(Append(s, Head(t))) : Append(s, Head(t))[i] <= n
                        /\ \A i \in 1..Len(Tail(t)) : Tail(t)[i] <= n
  <1>. DEFINE h == Head(t)
              u == Append(s, h)
  <1>1. /\ h = t[1] /\ h \in Event /\ 1 \in 1..Len(t) /\ Tail(t) \in Seq(Event)
        /\ \A i \in 1..Len(Tail(t)) : Tail(t)[i] = t[i + 1] /\ i + 1 \in 1..Len(t)
    BY TailFacts
  <1>2. /\ Increasing(Tail(t)) /\ \A i \in 1..Len(Tail(t)) : h < Tail(t)[i]
        /\ \A r : Precedes(r, t) => Precedes(r, Tail(t))
        /\ \A r : Precedes(t, r) => Precedes(Tail(t), r)
    BY TailOrdered
  <1>. HIDE DEF h
  <1>3. /\ u \in Seq(Event) /\ Len(u) = Len(s) + 1 /\ Len(s) \in Nat
        /\ \A i \in 1..Len(s) : u[i] = s[i]
        /\ u[Len(s) + 1] = h
        /\ \A i \in 1..Len(u) : i \in 1..Len(s) \/ i = Len(s) + 1
    BY <1>1, AppendFacts
  <1>. HIDE DEF u
  <1>4. \A i \in 1..Len(s) : s[i] < h
    BY <1>1 DEF Precedes
  <1>5. Increasing(u)
    <2>. SUFFICES ASSUME NEW i \in 1..Len(u), NEW j \in 1..Len(u), i < j PROVE u[i] < u[j]
      BY DEF Increasing
    <2>1. i \in 1..Len(s)
      BY <1>3
    <2>2. CASE j \in 1..Len(s)
      BY <1>3, <2>1, <2>2 DEF Increasing
    <2>3. CASE j = Len(s) + 1
      BY <1>3, <1>4, <2>1, <2>3
    <2>. QED  BY <1>3, <2>2, <2>3
  <1>6. Precedes(u, Tail(t))
    <2>. SUFFICES ASSUME NEW i \in 1..Len(u), NEW j \in 1..Len(Tail(t)) PROVE u[i] < Tail(t)[j]
      BY DEF Precedes
    <2>1. CASE i \in 1..Len(s)
      BY <1>1, <1>3, <2>1 DEF Precedes
    <2>2. CASE i = Len(s) + 1
      BY <1>2, <1>3, <2>2
    <2>. QED  BY <1>3, <2>1, <2>2
  <1>7. ASSUME NEW r, Precedes(r, s), Precedes(r, t) PROVE Precedes(r, u)
    <2>. SUFFICES ASSUME NEW i \in 1..Len(r), NEW j \in 1..Len(u) PROVE r[i] < u[j]
      BY DEF Precedes
    <2>1. r[i] < h
      BY <1>1, <1>7 DEF Precedes
    <2>2. CASE j \in 1..Len(s)
      BY <1>3, <1>7, <2>2 DEF Precedes
    <2>. QED  BY <1>3, <2>1, <2>2
  <1>8. ASSUME NEW r, Precedes(s, r), Precedes(t, r) PROVE Precedes(u, r)
    <2>. SUFFICES ASSUME NEW i \in 1..Len(u), NEW j \in 1..Len(r) PROVE u[i] < r[j]
      BY DEF Precedes
    <2>1. h < r[j]
      BY <1>1, <1>8 DEF Precedes
    <2>2. CASE i \in 1..Len(s)
      BY <1>3, <1>8, <2>2 DEF Precedes
    <2>. QED  BY <1>3, <2>1, <2>2
  <1>9. ASSUME NEW n, \A i \in 1..Len(s) : s[i] <= n, \A i \in 1..Len(t) : t[i] <= n
        PROVE  /\ \A i \in 1..Len(u) : u[i] <= n
               /\ \A i \in 1..Len(Tail(t)) : Tail(t)[i] <= n
    <2>1. h <= n
      BY <1>1, <1>9
    <2>2. \A i \in 1..Len(u) : u[i] <= n
      BY <1>3, <1>9, <2>1
    <2>. QED  BY <1>1, <1>9, <2>2
  <1>. QED  BY <1>1, <1>2, <1>3, <1>5, <1>6, <1>7, <1>8, <1>9 DEF u, h

(* A channel holds no more events than its length says. *)
LEMMA ToSetSize ==
    ASSUME NEW q \in Seq(Event)
    PROVE  IsFiniteSet(ToSet(q)) /\ Cardinality(ToSet(q)) <= Len(q)
  <1>1. /\ Len(q) \in Nat /\ q \in [1..Len(q) -> ToSet(q)]
        /\ \A y \in ToSet(q) : \E i \in 1..Len(q) : q[i] = y
    <2>1. \A x : x \in ToSet(q) <=> \E i \in 1..Len(q) : q[i] = x
      BY MemberOfSeq
    <2>2. Len(q) \in Nat /\ q \in [1..Len(q) -> Event]
      OBVIOUS
    <2>3. \A i \in 1..Len(q) : q[i] \in ToSet(q)
      BY <2>1
    <2>. QED  BY <2>1, <2>2, <2>3
  <1>2. q \in Surjection(1..Len(q), ToSet(q))
    BY <1>1, Fun_IsSurj
  <1>3. IsFiniteSet(1..Len(q)) /\ Cardinality(1..Len(q)) = Len(q)
    <2>1. 1 \in Int /\ Len(q) \in Int
      BY <1>1
    <2>2. /\ IsFiniteSet(1..Len(q))
          /\ Cardinality(1..Len(q)) = IF 1 > Len(q) THEN 0 ELSE Len(q) - 1 + 1
      BY <2>1, FS_Interval, Zenon
    <2>. QED  BY <1>1, <2>2
  <1>. QED  BY <1>2, <1>3, FS_Surjection

-----------------------------------------------------------------------------
(* Frames *)

(* Numbers and sequences of a state that satisfies the invariant. *)
LEMMA TypeFacts ==
    ASSUME KafkaInv
    PROVE  /\ topic \in Seq(Event) /\ in \in Seq(Event) /\ buffered \in Seq(Event)
           /\ out \in Seq(Event) /\ Len(topic) \in Nat /\ Len(out) \in Nat
           /\ committed \in Nat /\ marked \in Nat /\ position \in Nat /\ fetched \in Nat
           /\ committed <= marked /\ marked <= position
           /\ position <= fetched /\ fetched <= Len(topic)
           /\ Len(out) <= OutSize /\ MaxEvent \in Nat /\ OutSize \in Nat
           /\ Len(buffered) \in Nat /\ Len(buffered) <= BufferSize + 1 /\ BufferSize \in Nat
           /\ life \in Nat /\ life >= 1 /\ applied \in [Event -> Nat]
           /\ 0 \notin Event /\ published \in Nat /\ published <= MaxEvent
  BY SizeAssumption DEF KafkaInv, OffsetsTypeOK, KafkaTypeOK, OffsetsOrdered, Event

(* What is doomed is finite. *)
LEMMA DoomedFinite ==
    /\ IsFiniteSet(Doomed) /\ Cardinality(Doomed) \in Nat
    /\ \A T \in SUBSET Doomed : IsFiniteSet(T) /\ Cardinality(T) <= Cardinality(Doomed)
  <1>1. IsFiniteSet(Event)
    <2>1. 1 \in Int /\ MaxEvent \in Int
      BY SizeAssumption
    <2>. QED  BY <2>1, FS_Interval, Zenon DEF Event
  <1>2. Doomed \in SUBSET Event
    BY DEF Doomed
  <1>3. IsFiniteSet(Doomed)
    BY <1>1, <1>2, FS_Subset
  <1>. QED  BY <1>3, FS_Subset, FS_CardinalityType

(* Steps before the partition leave the consumer and settlement alone. *)
LEMMA ConsumerSide ==
    ASSUME KafkaInv,
           UNCHANGED <<committed, fetched, position, marked, out,
                       settling, hand, journal, applied, skipped, life>>,
           (closing' = "down") <=> (closing = "down"),
           topic' = topic \/ \E x \in Event : topic' = Append(topic, x)
    PROVE  OffsetsOrdered' /\ JournalFirst' /\ LossAccounted'
  <1>1. /\ Len(topic) \in Nat /\ Len(topic') \in Nat /\ Len(topic) <= Len(topic')
        /\ \A i \in 1..Len(topic) : topic'[i] = topic[i]
    <2>1. CASE topic' = topic
      BY <2>1, TypeFacts
    <2>2. ASSUME NEW x \in Event, topic' = Append(topic, x)
          PROVE  /\ Len(topic) \in Nat /\ Len(topic') = Len(topic) + 1
                 /\ \A i \in 1..Len(topic) : topic'[i] = topic[i]
      <3>1. topic \in Seq(Event) /\ Len(topic) \in Nat
        BY TypeFacts
      <3>2. /\ Len(Append(topic, x)) = Len(topic) + 1
            /\ \A i \in 1..Len(topic) : Append(topic, x)[i] = topic[i]
        BY <3>1, AppendFacts
      <3>. QED  BY <2>2, <3>1, <3>2
    <2>3. CASE \E x \in Event : topic' = Append(topic, x)
      BY <2>2, <2>3
    <2>. QED  BY <2>1, <2>3
  <1>2. \A k \in 1..position : k \in 1..Len(topic)
    BY TypeFacts
  <1>3. \A k \in 1..committed : k \in 1..Len(topic)
    BY TypeFacts
  <1>4. OffsetsOrdered'
    <2>0. (Alive' <=> Alive)
      BY DEF Alive
    <2>1. Alive' => Len(out) <= position /\ \A i \in 1..Len(out) : out[i] = topic[position - Len(out) + i]
      <3>1. Alive => Len(out) <= position /\ \A i \in 1..Len(out) : out[i] = topic[position - Len(out) + i]
        BY DEF KafkaInv, OffsetsOrdered
      <3>. QED  BY <2>0, <3>1, Zenon
    <2>2. Alive' => \A i \in 1..Len(out) : position - Len(out) + i \in 1..Len(topic)
      <3>. SUFFICES ASSUME Alive', NEW i \in 1..Len(out)
                    PROVE  position - Len(out) + i \in 1..Len(topic)
        OBVIOUS
      <3>1. Len(out) <= position
        BY <2>1
      <3>2. position \in Nat /\ Len(out) \in Nat /\ Len(topic) \in Nat /\ position <= Len(topic)
        BY TypeFacts
      <3>. QED  BY <3>1, <3>2
    <2>3. Alive' => \A i \in 1..Len(out) : out[i] = topic'[position - Len(out) + i]
      BY <1>1, <2>1, <2>2
    <2>. QED  BY <1>1, <2>1, <2>3, TypeFacts DEF OffsetsOrdered
  <1>5. JournalFirst'
    BY DEF KafkaInv, JournalFirst
  <1>6. Doomed' = Doomed
    <2>1. \A e : (\E k \in 1..committed : topic'[k] = e) <=> (\E k \in 1..committed : topic[k] = e)
      BY <1>1, <1>3
    <2>. QED  BY <2>1 DEF Doomed
  <1>7. LossAccounted'
    <2>1. LossAccounted /\ (Alive' <=> Alive)
      BY DEF KafkaInv, Alive
    <2>2. Cardinality(Doomed') <= (IF Alive' THEN life' - 1 ELSE life') * (OutSize + 1)
      BY <1>6, <2>1 DEF LossAccounted
    <2>3. ASSUME Alive', NEW k \in 1..position
          PROVE  \/ topic'[k] \in Doomed' \/ applied'[topic'[k]] = 1 \/ topic'[k] \in skipped'
                 \/ topic'[k] \in ToSet(out') \/ topic'[k] = hand'
      BY <1>1, <1>2, <1>6, <2>1, <2>3 DEF LossAccounted
    <2>. QED  BY <2>2, <2>3 DEF LossAccounted
  <1>. QED  BY <1>4, <1>5, <1>7

(* Steps after it leave the way to the partition alone. *)
LEMMA ProducerSide ==
    ASSUME KafkaInv, UNCHANGED <<topic, published, in, buffered, producer, dropped, closing>>
    PROVE  PipelineOrdered' /\ NothingVanishes'
  BY DEF KafkaInv, PipelineOrdered, NothingVanishes, Alive, InClosed

(* Doomed events only leave: the bound stays. *)
LEMMA DoomedShrinks ==
    ASSUME KafkaInv, Doomed' \subseteq Doomed, life' = life,
           (closing' = "down") <=> (closing = "down")
    PROVE  Cardinality(Doomed') <= (IF Alive' THEN life' - 1 ELSE life') * (OutSize + 1)
  <1>1. Cardinality(Doomed) <= (IF Alive' THEN life' - 1 ELSE life') * (OutSize + 1)
    BY DEF KafkaInv, LossAccounted, Alive
  <1>2. (IF Alive' THEN life' - 1 ELSE life') * (OutSize + 1) \in Int
    BY TypeFacts
  <1>3. Cardinality(Doomed') <= Cardinality(Doomed) /\ Cardinality(Doomed) \in Nat
    BY DoomedFinite
  <1>4. Cardinality(Doomed') \in Nat
    BY DoomedFinite, FS_CardinalityType
  <1>. QED  BY <1>1, <1>2, <1>3, <1>4

-----------------------------------------------------------------------------
(* Engine, producer and broker *)

(* Publish numbers the event and queues it behind all others. *)
LEMMA PublishInv ==
    ASSUME KafkaInv, Publish
    PROVE  KafkaInv'
  <1>. DEFINE e == published + 1
  <1>1. /\ closing # "down" /\ ~InClosed /\ Len(in) < QueueSize /\ published < MaxEvent
        /\ published' = e /\ in' = Append(in, e)
        /\ UNCHANGED <<topic, committed, engine, buffered, producer, consumer, fetched, position,
                       marked, out, settling, hand, journal, applied, skipped, dropped, closing,
                       life>>
    BY DEF Publish, Alive, brokerVars, consumerVars, settlementVars
  <1>2. e \in Event /\ e \in Nat /\ published \in Nat /\ e <= MaxEvent
    BY <1>1, TypeFacts DEF Event
  <1>3. /\ in' \in Seq(Event) /\ Len(in') = Len(in) + 1 /\ Len(in) \in Nat
        /\ \A i \in 1..Len(in) : in'[i] = in[i]
        /\ in'[Len(in) + 1] = e
        /\ \A i \in 1..(Len(in) + 1) : i \in 1..Len(in) \/ i = Len(in) + 1
        /\ ToSet(in') = ToSet(in) \cup {e}
    <2>. HIDE DEF e
    <2>1. in \in Seq(Event) /\ e \in Event /\ in' = Append(in, e)
      BY <1>1, <1>2, TypeFacts
    <2>2. Len(in) \in Nat
      BY <2>1
    <2>3. /\ Append(in, e) \in Seq(Event) /\ Len(Append(in, e)) = Len(in) + 1
          /\ \A i \in 1..Len(in) : Append(in, e)[i] = in[i]
          /\ Append(in, e)[Len(in) + 1] = e
          /\ \A i \in 1..(Len(in) + 1) : i \in 1..Len(in) \/ i = Len(in) + 1
          /\ ToSet(Append(in, e)) = ToSet(in) \cup {e}
      BY <2>1, AppendFacts
    <2>. QED  BY <2>1, <2>2, <2>3
  <1>. HIDE DEF e
  <1>4. OffsetsTypeOK'
    <2>1. Len(in') <= QueueSize /\ published' \in 0..MaxEvent
      BY <1>1, <1>2, <1>3, SizeAssumption
    <2>. QED  BY <1>1, <1>3, <2>1 DEF KafkaInv, OffsetsTypeOK, KafkaTypeOK
  <1>5. PipelineOrdered'
    <2>1. PipelineOrdered
      BY DEF KafkaInv
    <2>2. /\ \A i \in 1..Len(topic) : topic[i] \in Nat /\ topic[i] <= published
          /\ \A i \in 1..Len(buffered) : buffered[i] \in Nat /\ buffered[i] <= published
          /\ \A i \in 1..Len(in) : in[i] \in Nat /\ in[i] <= published
      <3>1. topic \in Seq(Event) /\ buffered \in Seq(Event) /\ in \in Seq(Event)
        BY TypeFacts
      <3>2. \A x \in Event : x \in Nat
        BY DEF Event
      <3>3. /\ \A i \in 1..Len(topic) : topic[i] \in Event
            /\ \A i \in 1..Len(buffered) : buffered[i] \in Event
            /\ \A i \in 1..Len(in) : in[i] \in Event
        BY <3>1
      <3>. QED  BY <2>1, <3>2, <3>3, Zenon DEF PipelineOrdered
    <2>3. Increasing(in')
      <3>. SUFFICES ASSUME NEW i \in 1..Len(in'), NEW j \in 1..Len(in'), i < j
                    PROVE  in'[i] < in'[j]
        BY DEF Increasing
      <3>1. i \in 1..Len(in)
        BY <1>3
      <3>2. CASE j \in 1..Len(in)
        BY <1>3, <2>1, <3>1, <3>2 DEF PipelineOrdered, Increasing
      <3>3. CASE j = Len(in) + 1
        BY <1>2, <1>3, <2>2, <3>1, <3>3 DEF e
      <3>. QED  BY <1>3, <3>2, <3>3
    <2>4. Precedes(buffered, in') /\ Precedes(topic, in')
      <3>1. ASSUME NEW j \in 1..Len(in'), NEW i \in 1..Len(buffered) PROVE buffered[i] < in'[j]
        <4>1. CASE j \in 1..Len(in)
          BY <1>3, <2>1, <4>1 DEF PipelineOrdered, Precedes
        <4>2. CASE j = Len(in) + 1
          BY <1>2, <1>3, <2>2, <4>2 DEF e
        <4>. QED  BY <1>3, <4>1, <4>2
      <3>2. ASSUME NEW j \in 1..Len(in'), NEW i \in 1..Len(topic) PROVE topic[i] < in'[j]
        <4>1. CASE j \in 1..Len(in)
          BY <1>3, <2>1, <4>1 DEF PipelineOrdered, Precedes
        <4>2. CASE j = Len(in) + 1
          BY <1>2, <1>3, <2>2, <4>2 DEF e
        <4>. QED  BY <1>3, <4>1, <4>2
      <3>. QED  BY <3>1, <3>2 DEF Precedes
    <2>5. /\ \A i \in 1..Len(topic) : topic[i] <= e
          /\ \A i \in 1..Len(buffered) : buffered[i] <= e
          /\ \A i \in 1..Len(in') : in'[i] <= e
      <3>1. \A i \in 1..Len(topic) : topic[i] <= e
        BY <1>2, <2>2 DEF e
      <3>2. \A i \in 1..Len(buffered) : buffered[i] <= e
        BY <1>2, <2>2 DEF e
      <3>3. \A i \in 1..Len(in') : in'[i] <= e
        BY <1>2, <1>3, <2>2 DEF e
      <3>. QED  BY <3>1, <3>2, <3>3
    <2>. QED  BY <1>1, <2>1, <2>3, <2>4, <2>5 DEF PipelineOrdered
  <1>6. OffsetsOrdered' /\ JournalFirst' /\ LossAccounted'
    BY <1>1, ConsumerSide
  <1>7. NothingInMemory'
    BY <1>1 DEF NothingInMemory, Alive
  <1>8. NothingVanishes'
    <2>1. \A x \in 1..e : x \in 1..published \/ x = e
      BY <1>2 DEF e
    <2>. QED  BY <1>1, <1>3, <2>1 DEF KafkaInv, NothingVanishes, Alive, InClosed
  <1>. QED  BY <1>4, <1>5, <1>6, <1>7, <1>8 DEF KafkaInv

(* produceLoop takes events in the order in which they were queued. *)
LEMMA ProduceInv ==
    ASSUME KafkaInv, Produce
    PROVE  KafkaInv'
  <1>1. /\ in # <<>> /\ producer = "running" /\ ~HeldBack
        /\ in' = Tail(in) /\ buffered' = Append(buffered, Head(in))
        /\ UNCHANGED <<topic, committed, published, engine, producer, consumer, fetched, position,
                       marked, out, settling, hand, journal, applied, skipped, dropped, closing,
                       life>>
    BY DEF Produce, brokerVars, consumerVars, settlementVars
  <1>2. /\ in' \in Seq(Event) /\ buffered' \in Seq(Event) /\ Head(in) \in Event
        /\ Len(in') = Len(in) - 1 /\ Len(in) \in Nat
        /\ ToSet(in) = ToSet(in') \cup {Head(in)}
        /\ ToSet(buffered') = ToSet(buffered) \cup {Head(in)}
        /\ Len(buffered') = Len(buffered) + 1
    <2>1. in \in Seq(Event) /\ buffered \in Seq(Event)
      BY TypeFacts
    <2>2. /\ in' \in Seq(Event) /\ Head(in) \in Event
          /\ Len(in') = Len(in) - 1 /\ Len(in) \in Nat
          /\ ToSet(in) = ToSet(in') \cup {Head(in)}
      BY <1>1, <2>1, TailFacts
    <2>3. /\ buffered' \in Seq(Event) /\ ToSet(buffered') = ToSet(buffered) \cup {Head(in)}
          /\ Len(buffered') = Len(buffered) + 1
      BY <1>1, <2>1, <2>2, AppendFacts
    <2>. QED  BY <2>2, <2>3
  <1>3. OffsetsTypeOK'
    <2>1. Len(in') <= QueueSize
      BY <1>2, SizeAssumption DEF KafkaInv, OffsetsTypeOK, KafkaTypeOK
    <2>2. Len(buffered') <= BufferSize + 1
      BY <1>1, <1>2, TypeFacts DEF HeldBack
    <2>. QED  BY <1>1, <1>2, <2>1, <2>2 DEF KafkaInv, OffsetsTypeOK, KafkaTypeOK
  <1>4. PipelineOrdered'
    <2>1. PipelineOrdered /\ buffered \in Seq(Event) /\ in \in Seq(Event)
      BY TypeFacts DEF KafkaInv
    <2>. QED  BY <1>1, <2>1, HeadMoves DEF PipelineOrdered
  <1>5. OffsetsOrdered' /\ JournalFirst' /\ LossAccounted'
    BY <1>1, ConsumerSide
  <1>6. closing # "down"
    BY <1>1 DEF KafkaInv, NothingInMemory, Alive
  <1>7. NothingInMemory'
    BY <1>1, <1>6 DEF NothingInMemory, Alive
  <1>8. NothingVanishes'
    BY <1>1, <1>2, <1>6 DEF KafkaInv, NothingVanishes, Alive, InClosed
  <1>. QED  BY <1>3, <1>4, <1>5, <1>7, <1>8 DEF KafkaInv

(* produceLoop ends when the channel is closed and empty. *)
LEMMA ProducerEndsInv ==
    ASSUME KafkaInv, ProducerEnds
    PROVE  KafkaInv'
  <1>1. /\ closing # "down" /\ InClosed /\ in = <<>> /\ producer' = "done"
        /\ UNCHANGED <<topic, committed, published, engine, in, buffered, consumer, fetched,
                       position, marked, out, settling, hand, journal, applied, skipped, dropped,
                       closing, life>>
    BY DEF ProducerEnds, Alive, brokerVars, consumerVars, settlementVars
  <1>2. OffsetsTypeOK'
    BY <1>1 DEF KafkaInv, OffsetsTypeOK, KafkaTypeOK
  <1>3. PipelineOrdered'
    BY <1>1 DEF KafkaInv, PipelineOrdered
  <1>4. OffsetsOrdered' /\ JournalFirst' /\ LossAccounted'
    BY <1>1, ConsumerSide
  <1>5. NothingInMemory'
    BY <1>1 DEF NothingInMemory, Alive
  <1>6. NothingVanishes'
    BY <1>1 DEF KafkaInv, NothingVanishes, Alive, InClosed
  <1>. QED  BY <1>2, <1>3, <1>4, <1>5, <1>6 DEF KafkaInv

(* The broker appends what was produced first. *)
LEMMA AcknowledgeInv ==
    ASSUME KafkaInv, Acknowledge
    PROVE  KafkaInv'
  <1>1. /\ buffered # <<>> /\ topic' = Append(topic, Head(buffered)) /\ buffered' = Tail(buffered)
        /\ UNCHANGED <<committed, published, engine, in, producer, consumer, fetched, position,
                       marked, out, settling, hand, journal, applied, skipped, dropped, closing,
                       life>>
    BY DEF Acknowledge, consumerVars, settlementVars
  <1>2. /\ topic' \in Seq(Event) /\ buffered' \in Seq(Event) /\ Head(buffered) \in Event
        /\ ToSet(buffered) = ToSet(buffered') \cup {Head(buffered)}
        /\ Len(buffered') = Len(buffered) - 1
        /\ ToSet(topic') = ToSet(topic) \cup {Head(buffered)}
    <2>1. topic \in Seq(Event) /\ buffered \in Seq(Event)
      BY TypeFacts
    <2>2. /\ buffered' \in Seq(Event) /\ Head(buffered) \in Event
          /\ ToSet(buffered) = ToSet(buffered') \cup {Head(buffered)}
          /\ Len(buffered') = Len(buffered) - 1
      BY <1>1, <2>1, TailFacts
    <2>3. topic' \in Seq(Event) /\ ToSet(topic') = ToSet(topic) \cup {Head(buffered)}
      BY <1>1, <2>1, <2>2, AppendFacts
    <2>. QED  BY <2>2, <2>3
  <1>3. OffsetsTypeOK'
    <2>1. Len(buffered') <= BufferSize + 1
      BY <1>2, TypeFacts
    <2>. QED  BY <1>1, <1>2, <2>1 DEF KafkaInv, OffsetsTypeOK, KafkaTypeOK
  <1>4. PipelineOrdered'
    <2>1. PipelineOrdered /\ buffered \in Seq(Event) /\ topic \in Seq(Event)
      BY TypeFacts DEF KafkaInv
    <2>. QED  BY <1>1, <2>1, HeadMoves DEF PipelineOrdered
  <1>5. OffsetsOrdered' /\ JournalFirst' /\ LossAccounted'
    BY <1>1, <1>2, ConsumerSide
  <1>6. closing # "down" /\ closing # "closed"
    BY <1>1 DEF KafkaInv, NothingInMemory, NothingVanishes, Alive
  <1>7. NothingInMemory'
    BY <1>1, <1>6 DEF NothingInMemory, Alive
  <1>8. NothingVanishes'
    BY <1>1, <1>2, <1>6 DEF KafkaInv, NothingVanishes, Alive, InClosed
  <1>. QED  BY <1>3, <1>4, <1>5, <1>7, <1>8 DEF KafkaInv

(* A record that the broker did not take is reported as dropped. *)
LEMMA ProduceFailedInv ==
    ASSUME KafkaInv, ProduceFailed
    PROVE  KafkaInv'
  <1>1. /\ buffered # <<>> /\ dropped' = dropped \cup {Head(buffered)} /\ buffered' = Tail(buffered)
        /\ UNCHANGED <<topic, committed, published, engine, in, producer, consumer, fetched,
                       position, marked, out, settling, hand, journal, applied, skipped, closing,
                       life>>
    BY DEF ProduceFailed, brokerVars, consumerVars, settlementVars
  <1>2. /\ buffered' \in Seq(Event) /\ Head(buffered) \in Event
        /\ ToSet(buffered) = ToSet(buffered') \cup {Head(buffered)}
        /\ Len(buffered') = Len(buffered) - 1
    BY <1>1, TypeFacts, TailFacts
  <1>3. OffsetsTypeOK'
    <2>1. Len(buffered') <= BufferSize + 1
      BY <1>2, TypeFacts
    <2>. QED  BY <1>1, <1>2, <2>1 DEF KafkaInv, OffsetsTypeOK, KafkaTypeOK
  <1>4. PipelineOrdered'
    <2>1. PipelineOrdered /\ buffered \in Seq(Event)
      BY TypeFacts DEF KafkaInv
    <2>2. /\ Increasing(buffered') /\ Precedes(topic, buffered') /\ Precedes(buffered', in)
      BY <1>1, <2>1, TailOrdered DEF PipelineOrdered
    <2>3. \A i \in 1..Len(buffered') : buffered'[i] <= published
      BY <1>1, <2>1, TailFacts DEF PipelineOrdered
    <2>. QED  BY <1>1, <2>1, <2>2, <2>3 DEF PipelineOrdered
  <1>5. OffsetsOrdered' /\ JournalFirst' /\ LossAccounted'
    BY <1>1, ConsumerSide
  <1>6. closing # "down" /\ closing # "closed"
    BY <1>1 DEF KafkaInv, NothingInMemory, NothingVanishes, Alive
  <1>7. NothingInMemory'
    BY <1>1, <1>6 DEF NothingInMemory, Alive
  <1>8. NothingVanishes'
    BY <1>1, <1>2, <1>6 DEF KafkaInv, NothingVanishes, Alive, InClosed
  <1>. QED  BY <1>3, <1>4, <1>5, <1>7, <1>8 DEF KafkaInv

-----------------------------------------------------------------------------
(* Consumer *)

(* PollFetches never gets ahead of the partition. *)
LEMMA PollInv ==
    ASSUME KafkaInv, Poll
    PROVE  KafkaInv'
  <1>1. /\ closing # "down" /\ fetched' \in fetched..Len(topic)
        /\ UNCHANGED <<topic, committed, published, engine, in, buffered, producer, consumer,
                       position, marked, out, settling, hand, journal, applied, skipped, dropped,
                       closing, life>>
    BY DEF Poll, Alive, brokerVars, producerVars, settlementVars
  <1>2. fetched' \in Nat /\ position <= fetched' /\ fetched' <= Len(topic)
    BY <1>1, TypeFacts
  <1>3. OffsetsTypeOK'
    BY <1>1, <1>2 DEF KafkaInv, OffsetsTypeOK, KafkaTypeOK
  <1>4. PipelineOrdered' /\ NothingVanishes'
    BY <1>1, ProducerSide
  <1>5. OffsetsOrdered'
    BY <1>1, <1>2 DEF KafkaInv, OffsetsOrdered, Alive
  <1>6. NothingInMemory' /\ JournalFirst'
    BY <1>1 DEF KafkaInv, NothingInMemory, JournalFirst, Alive
  <1>7. LossAccounted'
    BY <1>1 DEF KafkaInv, LossAccounted, Doomed, Alive
  <1>. QED  BY <1>3, <1>4, <1>5, <1>6, <1>7 DEF KafkaInv

(* The consumer passes on the record that follows those it has passed on. *)
LEMMA HandOverInv ==
    ASSUME KafkaInv, HandOver
    PROVE  KafkaInv'
  <1>. DEFINE x == topic[position + 1]
  <1>1. /\ closing # "down" /\ position < fetched /\ Len(out) < OutSize
        /\ out' = Append(out, x) /\ position' = position + 1 /\ consumer' = "mark"
        /\ UNCHANGED <<topic, committed, published, engine, in, buffered, producer, fetched,
                       marked, settling, hand, journal, applied, skipped, dropped, closing, life>>
    BY DEF HandOver, Alive, brokerVars, producerVars, settlementVars
  <1>2. /\ position \in Nat /\ position + 1 \in 1..Len(topic) /\ x \in Event
        /\ position + 1 <= fetched /\ Len(out) \in Nat /\ out \in Seq(Event) /\ OutSize \in Nat
    <2>1. /\ topic \in Seq(Event) /\ out \in Seq(Event) /\ OutSize \in Nat
          /\ position \in Nat /\ fetched \in Nat /\ fetched <= Len(topic)
      BY TypeFacts
    <2>2. position + 1 \in 1..Len(topic)
      BY <1>1, <2>1
    <2>3. x \in Event
      BY <2>1, <2>2
    <2>. QED  BY <1>1, <2>1, <2>2, <2>3
  <1>. HIDE DEF x
  <1>3. /\ Append(out, x) \in Seq(Event) /\ Len(Append(out, x)) = Len(out) + 1
        /\ \A i \in 1..Len(out) : Append(out, x)[i] = out[i]
        /\ Append(out, x)[Len(out) + 1] = x
        /\ \A i \in 1..(Len(out) + 1) : i \in 1..Len(out) \/ i = Len(out) + 1
        /\ ToSet(Append(out, x)) = ToSet(out) \cup {x}
    BY <1>2, AppendFacts
  <1>4. OffsetsTypeOK'
    <2>1. out' \in Seq(Event) /\ Len(out') <= OutSize /\ position' \in Nat
      BY <1>1, <1>2, <1>3
    <2>. QED  BY <1>1, <2>1 DEF KafkaInv, OffsetsTypeOK, KafkaTypeOK
  <1>5. PipelineOrdered' /\ NothingVanishes'
    BY <1>1, ProducerSide
  <1>6. OffsetsOrdered'
    <2>1. Len(out) <= position /\ \A i \in 1..Len(out) : out[i] = topic[position - Len(out) + i]
      BY <1>1 DEF KafkaInv, OffsetsOrdered, Alive
    <2>2. Len(out') <= position' /\ Len(out') = Len(out) + 1
          /\ position' - Len(out') = position - Len(out)
      BY <1>1, <1>2, <1>3, <2>1
    <2>3. ASSUME NEW i \in 1..Len(out') PROVE out'[i] = topic'[position' - Len(out') + i]
      <3>1. CASE i \in 1..Len(out)
        BY <1>1, <1>3, <2>1, <2>2, <3>1
      <3>2. CASE i = Len(out) + 1
        <4>1. position' - Len(out') + i = position + 1
          BY <1>2, <2>2, <3>2
        <4>. QED  BY <1>1, <1>3, <3>2, <4>1 DEF x
      <3>. QED  BY <1>3, <2>2, <3>1, <3>2
    <2>4. marked' <= position' /\ committed' <= marked' /\ position' <= fetched' /\ fetched' <= Len(topic')
      BY <1>1, <1>2, TypeFacts
    <2>. QED  BY <2>2, <2>3, <2>4 DEF OffsetsOrdered
  <1>7. NothingInMemory' /\ JournalFirst'
    BY <1>1 DEF KafkaInv, NothingInMemory, JournalFirst, Alive
  <1>8. LossAccounted'
    <2>1. ToSet(out') = ToSet(out) \cup {x}
      BY <1>1, <1>3
    <2>2. Doomed' \subseteq Doomed /\ \A y \in Doomed : y \in Doomed' \/ y = x
      BY <1>1, <2>1 DEF Doomed
    <2>3. Cardinality(Doomed') <= (IF Alive' THEN life' - 1 ELSE life') * (OutSize + 1)
      BY <1>1, <2>2, DoomedShrinks
    <2>4. ASSUME NEW k \in 1..position'
          PROVE  \/ topic'[k] \in Doomed' \/ applied'[topic'[k]] = 1 \/ topic'[k] \in skipped'
                 \/ topic'[k] \in ToSet(out') \/ topic'[k] = hand'
      <3>1. k \in 1..position \/ k = position + 1
        BY <1>1, <1>2
      <3>2. CASE k \in 1..position
        BY <1>1, <2>1, <2>2, <3>2 DEF KafkaInv, LossAccounted, Alive
      <3>3. CASE k = position + 1
        BY <1>1, <2>1, <3>3 DEF x
      <3>. QED  BY <3>1, <3>2, <3>3
    <2>. QED  BY <2>3, <2>4 DEF LossAccounted
  <1>. QED  BY <1>4, <1>5, <1>6, <1>7, <1>8 DEF KafkaInv

(* A record is marked when it has been passed on. *)
LEMMA MarkInv ==
    ASSUME KafkaInv, Mark
    PROVE  KafkaInv'
  <1>1. /\ closing # "down" /\ marked' = position /\ consumer' = "poll"
        /\ UNCHANGED <<topic, committed, published, engine, in, buffered, producer, fetched,
                       position, out, settling, hand, journal, applied, skipped, dropped,
                       closing, life>>
    BY DEF Mark, Alive, brokerVars, producerVars, settlementVars
  <1>2. marked' \in Nat /\ committed <= position
    BY <1>1, TypeFacts
  <1>3. OffsetsTypeOK'
    BY <1>1, <1>2 DEF KafkaInv, OffsetsTypeOK, KafkaTypeOK
  <1>4. PipelineOrdered' /\ NothingVanishes'
    BY <1>1, ProducerSide
  <1>5. OffsetsOrdered'
    <2>1. committed' <= marked' /\ marked' <= position' /\ position' <= fetched' /\ fetched' <= Len(topic')
      BY <1>1, <1>2, TypeFacts
    <2>. QED  BY <1>1, <2>1 DEF KafkaInv, OffsetsOrdered, Alive
  <1>6. NothingInMemory' /\ JournalFirst'
    BY <1>1 DEF KafkaInv, NothingInMemory, JournalFirst, Alive
  <1>7. LossAccounted'
    BY <1>1 DEF KafkaInv, LossAccounted, Doomed, Alive
  <1>. QED  BY <1>3, <1>4, <1>5, <1>6, <1>7 DEF KafkaInv

(* A commit dooms nothing while the process lives: what it covers has been
   applied, skipped or passed on. *)
LEMMA CommitGrows ==
    ASSUME KafkaInv, Alive, committed' \in {committed, marked},
           UNCHANGED <<topic, out, settling, hand, journal, applied, skipped>>
    PROVE  Doomed' = Doomed
  <1>1. /\ committed \in Nat /\ marked \in Nat /\ position \in Nat
        /\ committed <= marked /\ marked <= position
    BY TypeFacts
  <1>2. \A k \in 1..committed : k \in 1..committed'
    BY <1>1
  <1>3. \A k \in 1..committed' : k \in 1..position
    BY <1>1
  <1>4. \A k \in 1..position : \/ topic[k] \in Doomed \/ applied[topic[k]] = 1
                               \/ topic[k] \in skipped \/ topic[k] \in ToSet(out) \/ topic[k] = hand
    BY DEF KafkaInv, LossAccounted
  <1>5. Doomed \subseteq Doomed'
    BY <1>2 DEF Doomed
  <1>6. ASSUME NEW e \in Doomed' PROVE e \in Doomed
    <2>1. e \in Event /\ applied[e] = 0 /\ e \notin skipped
      BY DEF Doomed
    <2>2. CASE e \in journal /\ ~(settling = "apply" /\ e = hand)
      BY <2>1, <2>2 DEF Doomed
    <2>3. CASE (\E k \in 1..committed' : topic[k] = e) /\ e \notin ToSet(out) /\ e # hand
      <3>1. PICK k \in 1..committed' : topic[k] = e
        BY <2>3
      <3>. QED  BY <1>3, <1>4, <2>1, <2>3, <3>1
    <2>. QED  BY <2>2, <2>3 DEF Doomed
  <1>. QED  BY <1>5, <1>6

(* The client commits what is marked. *)
LEMMA AutoCommitInv ==
    ASSUME KafkaInv, AutoCommit
    PROVE  KafkaInv'
  <1>1. /\ closing # "down" /\ committed' = marked
        /\ UNCHANGED <<topic, published, engine, in, buffered, producer, consumer, fetched,
                       position, marked, out, settling, hand, journal, applied, skipped, dropped,
                       closing, life>>
    BY DEF AutoCommit, producerVars, consumerVars, settlementVars
  <1>2. committed' \in Nat /\ committed' <= marked'
    BY <1>1, TypeFacts
  <1>3. OffsetsTypeOK'
    BY <1>1, <1>2 DEF KafkaInv, OffsetsTypeOK, KafkaTypeOK
  <1>4. PipelineOrdered' /\ NothingVanishes'
    BY <1>1, ProducerSide
  <1>5. OffsetsOrdered'
    BY <1>1, <1>2 DEF KafkaInv, OffsetsOrdered, Alive
  <1>6. NothingInMemory' /\ JournalFirst'
    BY <1>1 DEF KafkaInv, NothingInMemory, JournalFirst, Alive
  <1>7. LossAccounted'
    <2>1. Doomed' = Doomed
      BY <1>1, CommitGrows DEF Alive
    <2>. QED  BY <1>1, <2>1 DEF KafkaInv, LossAccounted, Alive
  <1>. QED  BY <1>3, <1>4, <1>5, <1>6, <1>7 DEF KafkaInv

(* consumeLoop ends where it stands. *)
LEMMA ConsumerEndsInv ==
    ASSUME KafkaInv, ConsumerEnds
    PROVE  KafkaInv'
  <1>1. /\ consumer' = "done"
        /\ UNCHANGED <<topic, committed, published, engine, in, buffered, producer, fetched,
                       position, marked, out, settling, hand, journal, applied, skipped, dropped,
                       closing, life>>
    BY DEF ConsumerEnds, brokerVars, producerVars, settlementVars
  <1>2. OffsetsTypeOK'
    BY <1>1 DEF KafkaInv, OffsetsTypeOK, KafkaTypeOK
  <1>3. PipelineOrdered' /\ NothingVanishes'
    BY <1>1, ProducerSide
  <1>4. OffsetsOrdered' /\ JournalFirst' /\ LossAccounted'
    BY <1>1, ConsumerSide
  <1>5. NothingInMemory'
    BY <1>1 DEF KafkaInv, NothingInMemory, Alive
  <1>. QED  BY <1>2, <1>3, <1>4, <1>5 DEF KafkaInv

-----------------------------------------------------------------------------
(* Settlement *)

(* The event in hand, and what JournalFirst says of it. *)
LEMMA HandFacts ==
    ASSUME KafkaInv, settling # "idle"
    PROVE  hand \in Event /\ hand # 0 /\ closing # "down"
  <1>1. hand # 0 /\ hand \in 0..MaxEvent /\ MaxEvent \in Nat
    BY SizeAssumption DEF KafkaInv, JournalFirst, OffsetsTypeOK, KafkaTypeOK
  <1>. QED  BY <1>1 DEF Event, KafkaInv, NothingInMemory, Alive

(* Settlement takes the event that was passed on first. *)
LEMMA ReceiveInv ==
    ASSUME KafkaInv, Receive
    PROVE  KafkaInv'
  <1>1. /\ settling = "idle" /\ out # <<>> /\ hand' = Head(out) /\ out' = Tail(out)
        /\ settling' = "mark"
        /\ UNCHANGED <<topic, committed, published, engine, in, buffered, producer, consumer,
                       fetched, position, marked, journal, applied, skipped, dropped, closing,
                       life>>
    BY DEF Receive, brokerVars, producerVars
  <1>2. closing # "down" /\ hand = 0
    BY <1>1 DEF KafkaInv, NothingInMemory, JournalFirst, Alive
  <1>3. /\ Head(out) \in Event /\ Tail(out) \in Seq(Event)
        /\ Len(Tail(out)) = Len(out) - 1 /\ Len(out) \in Nat
        /\ \A i \in 1..Len(Tail(out)) : Tail(out)[i] = out[i + 1] /\ i + 1 \in 1..Len(out)
        /\ ToSet(out) = ToSet(Tail(out)) \cup {Head(out)}
    BY <1>1, TypeFacts, TailFacts
  <1>4. hand' \in 0..MaxEvent /\ hand' # 0 /\ hand' \in Event
    BY <1>1, <1>3, SizeAssumption DEF Event
  <1>5. OffsetsTypeOK'
    <2>1. out' \in Seq(Event) /\ Len(out') <= OutSize
      BY <1>1, <1>3, TypeFacts
    <2>. QED  BY <1>1, <1>4, <2>1 DEF KafkaInv, OffsetsTypeOK, KafkaTypeOK
  <1>6. PipelineOrdered' /\ NothingVanishes'
    BY <1>1, ProducerSide
  <1>7. OffsetsOrdered'
    <2>1. Len(out) <= position /\ \A i \in 1..Len(out) : out[i] = topic[position - Len(out) + i]
      BY <1>2 DEF KafkaInv, OffsetsOrdered, Alive
    <2>2. Len(out') <= position' /\ Len(out') = Len(out) - 1 /\ position \in Nat
      BY <1>1, <1>3, <2>1, TypeFacts
    <2>3. ASSUME NEW i \in 1..Len(out') PROVE out'[i] = topic'[position' - Len(out') + i]
      <3>1. out'[i] = out[i + 1] /\ i + 1 \in 1..Len(out)
        BY <1>1, <1>3
      <3>2. out[i + 1] = topic[position - Len(out) + (i + 1)]
        BY <2>1, <3>1
      <3>3. position - Len(out) + (i + 1) = position - Len(out') + i
        BY <1>3, <2>2
      <3>. QED  BY <1>1, <3>1, <3>2, <3>3
    <2>. QED  BY <1>1, <2>2, <2>3 DEF KafkaInv, OffsetsOrdered
  <1>8. NothingInMemory'
    BY <1>1, <1>2 DEF NothingInMemory, Alive
  <1>9. JournalFirst'
    BY <1>1, <1>4 DEF KafkaInv, JournalFirst
  <1>10. LossAccounted'
    <2>1. \A y \in Event : (y \notin ToSet(out) /\ y # hand) <=> (y \notin ToSet(out') /\ y # hand')
      BY <1>1, <1>2, <1>3, TypeFacts
    <2>2. Doomed' = Doomed
      BY <1>1, <2>1 DEF Doomed
    <2>3. ASSUME NEW k \in 1..position
          PROVE  \/ topic[k] \in Doomed \/ applied[topic[k]] = 1 \/ topic[k] \in skipped
                 \/ topic[k] \in ToSet(out') \/ topic[k] = hand'
      <3>1. topic \in Seq(Event) /\ k \in 1..Len(topic)
        BY TypeFacts
      <3>2. topic[k] \in Event
        BY <3>1
      <3>. QED  BY <1>2, <2>1, <3>2 DEF KafkaInv, LossAccounted, Alive
    <2>. QED  BY <1>1, <2>2, <2>3 DEF KafkaInv, LossAccounted, Alive
  <1>. QED  BY <1>5, <1>6, <1>7, <1>8, <1>9, <1>10 DEF KafkaInv

(* What settlement does to the event in hand keeps the rest, if it keeps its
   account: the event is applied, skipped, doomed before, or still in hand. *)
LEMMA SettlementSide ==
    ASSUME KafkaInv, settling # "idle",
           UNCHANGED <<topic, committed, published, engine, in, buffered, producer, consumer,
                       fetched, position, marked, out, dropped, closing, life>>,
           settling' \in {"idle", "apply"}, hand' = (IF settling' = "idle" THEN 0 ELSE hand),
           journal' \subseteq Event, skipped' \subseteq Event, applied' \in [Event -> Nat],
           JournalFirst', skipped \subseteq skipped',
           \A e \in Event : e # hand => /\ applied'[e] = applied[e]
                                        /\ e \in journal' <=> e \in journal
                                        /\ e \in skipped' <=> e \in skipped,
           hand \in Doomed' => hand \in Doomed,
           \/ hand \in Doomed' \/ applied'[hand] = 1 \/ hand \in skipped' \/ hand' = hand
    PROVE  KafkaInv'
  <1>1. hand \in Event /\ hand # 0 /\ closing # "down" /\ 0 \notin Event
    BY HandFacts, TypeFacts
  <1>2. OffsetsTypeOK'
    <2>1. hand' \in 0..MaxEvent
      BY <1>1, SizeAssumption DEF KafkaInv, OffsetsTypeOK, KafkaTypeOK
    <2>. QED  BY <2>1 DEF KafkaInv, OffsetsTypeOK, KafkaTypeOK
  <1>3. PipelineOrdered' /\ NothingVanishes'
    BY ProducerSide
  <1>4. OffsetsOrdered'
    BY DEF KafkaInv, OffsetsOrdered, Alive
  <1>5. NothingInMemory'
    BY <1>1 DEF NothingInMemory, Alive
  <1>6. LossAccounted'
    <2>1. \A e \in Event : e # hand => (e \in Doomed' <=> e \in Doomed)
      BY <1>1 DEF Doomed
    <2>2. Doomed' \subseteq Doomed
      BY <2>1 DEF Doomed
    <2>3. Cardinality(Doomed') <= (IF Alive' THEN life' - 1 ELSE life') * (OutSize + 1)
      BY <2>2, DoomedShrinks
    <2>4. ASSUME NEW k \in 1..position
          PROVE  \/ topic[k] \in Doomed' \/ applied'[topic[k]] = 1 \/ topic[k] \in skipped'
                 \/ topic[k] \in ToSet(out) \/ topic[k] = hand'
      <3>1. topic \in Seq(Event) /\ k \in 1..Len(topic)
        BY TypeFacts
      <3>2. topic[k] \in Event
        BY <3>1
      <3>3. CASE topic[k] = hand
        BY <3>3
      <3>4. CASE topic[k] # hand
        <4>1. \/ topic[k] \in Doomed \/ applied[topic[k]] = 1 \/ topic[k] \in skipped
              \/ topic[k] \in ToSet(out)
          BY <1>1, <3>4 DEF KafkaInv, LossAccounted, Alive
        <4>. QED  BY <2>1, <3>2, <3>4, <4>1
      <3>. QED  BY <3>3, <3>4
    <2>. QED  BY <2>3, <2>4 DEF LossAccounted
  <1>. QED  BY <1>2, <1>3, <1>4, <1>5, <1>6 DEF KafkaInv

(* Settlement applies what the journal does not hold, and nothing else. *)
LEMMA MarkProcessedInv ==
    ASSUME KafkaInv, MarkProcessed
    PROVE  KafkaInv'
  <1>1. /\ settling = "mark" /\ hand' = (IF settling' = "idle" THEN 0 ELSE hand)
        /\ UNCHANGED <<topic, committed, published, engine, in, buffered, producer, consumer,
                       fetched, position, marked, out, applied, dropped, closing, life>>
    BY DEF MarkProcessed, brokerVars, producerVars, consumerVars
  <1>2. hand \in Event /\ hand # 0 /\ 0 \notin Event
    BY <1>1, HandFacts, TypeFacts
  <1>3. /\ JournalFirst /\ journal \subseteq Event /\ skipped \subseteq Event
        /\ applied \in [Event -> Nat]
    BY DEF KafkaInv, OffsetsTypeOK, KafkaTypeOK
  <1>4. applied[hand] = 0 \/ applied[hand] = 1
    BY <1>2, <1>3 DEF JournalFirst
  <1>5. CASE journal' = journal \cup {hand} /\ hand \in journal /\ settling' = "idle" /\ skipped' = skipped
    <2>1. JournalFirst'
      BY <1>1, <1>2, <1>3, <1>5 DEF JournalFirst
    <2>2. hand \in Doomed' <=> hand \in Doomed
      BY <1>1, <1>2, <1>5 DEF Doomed
    <2>3. hand \in Doomed' \/ applied'[hand] = 1 \/ hand \in skipped'
      BY <1>1, <1>2, <1>4, <1>5 DEF Doomed
    <2>. QED  BY <1>1, <1>2, <1>3, <1>5, <2>1, <2>2, <2>3, SettlementSide
  <1>6. CASE journal' = journal \cup {hand} /\ hand \notin journal /\ settling' = "apply" /\ skipped' = skipped
    <2>1. JournalFirst'
      BY <1>1, <1>2, <1>3, <1>4, <1>6 DEF JournalFirst
    <2>2. hand \notin Doomed' /\ hand' = hand
      BY <1>1, <1>6 DEF Doomed
    <2>. QED  BY <1>1, <1>2, <1>3, <1>6, <2>1, <2>2, SettlementSide
  <1>7. CASE /\ journal' \in {journal, journal \cup {hand}} /\ settling' = "idle"
             /\ skipped' = skipped \cup {hand}
    <2>1. JournalFirst'
      BY <1>1, <1>2, <1>3, <1>7 DEF JournalFirst
    <2>2. hand \notin Doomed' /\ hand \in skipped'
      BY <1>7 DEF Doomed
    <2>. QED  BY <1>1, <1>2, <1>3, <1>7, <2>1, <2>2, SettlementSide
  <1>. QED  BY <1>5, <1>6, <1>7 DEF MarkProcessed

(* The event that was entered in the journal is applied. *)
LEMMA ApplyInv ==
    ASSUME KafkaInv, Apply
    PROVE  KafkaInv'
  <1>1. /\ settling = "apply" /\ settling' = "idle" /\ hand' = 0
        /\ applied' = [applied EXCEPT ![hand] = @ + 1]
        /\ UNCHANGED <<topic, committed, published, engine, in, buffered, producer, consumer,
                       fetched, position, marked, out, journal, skipped, dropped, closing, life>>
    BY DEF Apply, brokerVars, producerVars, consumerVars
  <1>2. hand \in Event /\ hand # 0
    BY <1>1, HandFacts
  <1>3. /\ JournalFirst /\ journal \subseteq Event /\ skipped \subseteq Event
        /\ applied \in [Event -> Nat]
    BY DEF KafkaInv, OffsetsTypeOK, KafkaTypeOK
  <1>4. applied[hand] = 0 /\ hand \in journal
    BY <1>1, <1>3 DEF JournalFirst
  <1>5. applied' \in [Event -> Nat] /\ applied'[hand] = 1 /\ \A e \in Event : e # hand => applied'[e] = applied[e]
    BY <1>1, <1>2, <1>3, <1>4
  <1>6. JournalFirst'
    BY <1>1, <1>3, <1>4, <1>5 DEF JournalFirst
  <1>7. hand \notin Doomed'
    BY <1>5 DEF Doomed
  <1>. QED  BY <1>1, <1>3, <1>5, <1>6, <1>7, SettlementSide

-----------------------------------------------------------------------------
(* Shutdown, the end of a process and its next life *)

(* The engine may stop at any time. *)
LEMMA EngineStopsInv ==
    ASSUME KafkaInv, EngineStops
    PROVE  KafkaInv'
  <1>1. /\ engine' = "stopped"
        /\ UNCHANGED <<topic, committed, published, in, buffered, producer, consumer, fetched,
                       position, marked, out, settling, hand, journal, applied, skipped, dropped,
                       closing, life>>
    BY DEF EngineStops, brokerVars, consumerVars, settlementVars
  <1>2. OffsetsTypeOK'
    BY <1>1 DEF KafkaInv, OffsetsTypeOK, KafkaTypeOK
  <1>3. PipelineOrdered' /\ NothingVanishes'
    BY <1>1, ProducerSide
  <1>4. OffsetsOrdered' /\ JournalFirst' /\ LossAccounted'
    BY <1>1, ConsumerSide
  <1>5. NothingInMemory'
    BY <1>1 DEF KafkaInv, NothingInMemory, Alive
  <1>. QED  BY <1>2, <1>3, <1>4, <1>5 DEF KafkaInv

(* Close goes on only with the producer done, once it has waited for it. *)
LEMMA ProceedInv ==
    ASSUME KafkaInv,
           NEW from \in {"no", "stopping", "drain", "flush", "stop"},
           NEW to \in {"stopping", "drain", "flush", "stop", "commit"},
           Proceed(from, to), UNCHANGED <<committed, dropped>>,
           (from = "no") <=> (to = "stopping"),
           to \in {"flush", "stop", "commit"} => producer = "done"
    PROVE  KafkaInv'
  <1>1. /\ closing = from /\ closing' = to
        /\ UNCHANGED <<topic, committed, published, engine, in, buffered, producer, consumer,
                       fetched, position, marked, out, settling, hand, journal, applied, skipped,
                       dropped, life>>
    BY DEF Proceed, producerVars, consumerVars, settlementVars
  <1>2. OffsetsTypeOK'
    <2>1. closing' \in {"no", "stopping", "drain", "flush", "stop", "commit", "closed", "down"}
      BY <1>1
    <2>. QED  BY <1>1, <2>1 DEF KafkaInv, OffsetsTypeOK, KafkaTypeOK
  <1>3. PipelineOrdered'
    BY <1>1 DEF KafkaInv, PipelineOrdered
  <1>4. OffsetsOrdered' /\ JournalFirst' /\ LossAccounted'
    BY <1>1, ConsumerSide
  <1>5. NothingInMemory'
    BY <1>1 DEF KafkaInv, NothingInMemory, Alive
  <1>6. NothingVanishes'
    <2>1. NothingVanishes
      BY DEF KafkaInv
    <2>2. producer = "done" => closing \notin {"no", "stopping"} /\ in = <<>>
      BY <1>1, <2>1 DEF NothingVanishes, Alive, InClosed
    <2>3. producer' = "done" => closing' \notin {"no", "stopping"} /\ in' = <<>>
      BY <1>1, <2>2
    <2>. QED  BY <1>1, <2>1, <2>3 DEF NothingVanishes, Alive, InClosed
  <1>. QED  BY <1>2, <1>3, <1>4, <1>5, <1>6 DEF KafkaInv

(* Close, from the signal to the last commit. *)
LEMMA ShutdownInv ==
    ASSUME KafkaInv, StopEngine \/ CloseIn \/ CloseDrained \/ CloseFlush \/ CloseStopped
    PROVE  KafkaInv'
  <1>1. CASE StopEngine
    BY <1>1, ProceedInv DEF StopEngine
  <1>2. CASE CloseIn
    BY <1>2, ProceedInv DEF CloseIn
  <1>3. CASE CloseDrained
    BY <1>3, ProceedInv DEF CloseDrained
  <1>4. CASE CloseFlush
    <2>1. closing = "flush"
      BY <1>4 DEF CloseFlush, Proceed
    <2>2. producer = "done"
      BY <2>1 DEF KafkaInv, NothingVanishes
    <2>. QED  BY <1>4, <2>2, ProceedInv DEF CloseFlush
  <1>5. CASE CloseStopped
    <2>1. closing = "stop"
      BY <1>5 DEF CloseStopped, Proceed
    <2>2. producer = "done"
      BY <2>1 DEF KafkaInv, NothingVanishes
    <2>. QED  BY <1>5, <2>2, ProceedInv DEF CloseStopped
  <1>. QED  BY <1>1, <1>2, <1>3, <1>4, <1>5

(* The client reports what it still has as lost. *)
LEMMA CloseClientInv ==
    ASSUME KafkaInv, CloseClient
    PROVE  KafkaInv'
  <1>1. /\ closing = "commit" /\ closing' = "closed" /\ committed' \in {committed, marked}
        /\ dropped' = dropped \cup ToSet(buffered) /\ buffered' = <<>>
        /\ UNCHANGED <<topic, published, engine, in, producer, consumer, fetched, position, marked,
                       out, settling, hand, journal, applied, skipped, life>>
    BY DEF CloseClient, consumerVars, settlementVars
  <1>2. /\ committed' \in Nat /\ committed' <= marked /\ buffered \in Seq(Event)
        /\ buffered' \in Seq(Event) /\ Len(buffered') = 0 /\ 0 <= BufferSize + 1
    BY <1>1, TypeFacts
  <1>3. \A y : y \in ToSet(buffered) => y \in Event
    <2>1. \A x : x \in ToSet(buffered) <=> \E i \in 1..Len(buffered) : buffered[i] = x
      BY <1>2, MemberOfSeq
    <2>. QED  BY <1>2, <2>1
  <1>4. OffsetsTypeOK'
    BY <1>1, <1>2, <1>3 DEF KafkaInv, OffsetsTypeOK, KafkaTypeOK
  <1>5. PipelineOrdered'
    BY <1>1, <1>2 DEF KafkaInv, PipelineOrdered, Increasing, Precedes
  <1>6. OffsetsOrdered'
    BY <1>1, <1>2 DEF KafkaInv, OffsetsOrdered, Alive
  <1>7. NothingInMemory' /\ JournalFirst'
    BY <1>1 DEF KafkaInv, NothingInMemory, JournalFirst, Alive
  <1>8. NothingVanishes'
    BY <1>1 DEF KafkaInv, NothingVanishes, Alive, InClosed
  <1>9. LossAccounted'
    <2>1. Doomed' = Doomed
      BY <1>1, CommitGrows DEF Alive
    <2>. QED  BY <1>1, <2>1 DEF KafkaInv, LossAccounted, Alive
  <1>. QED  BY <1>4, <1>5, <1>6, <1>7, <1>8, <1>9 DEF KafkaInv

(* The end of a process dooms at most a full channel and the event in hand. *)
LEMMA DieInv ==
    ASSUME KafkaInv, Alive, Die
    PROVE  KafkaInv'
  <1>1. /\ closing' = "down" /\ dropped' = dropped \cup ToSet(in) \cup ToSet(buffered)
        /\ in' = <<>> /\ buffered' = <<>> /\ out' = <<>> /\ settling' = "idle" /\ hand' = 0
        /\ UNCHANGED <<topic, committed, published, engine, producer, consumer, fetched, position,
                       marked, journal, applied, skipped, life>>
    BY DEF Die, brokerVars
  <1>2. /\ in \in Seq(Event) /\ buffered \in Seq(Event) /\ out \in Seq(Event)
        /\ 0 \in 0..MaxEvent /\ 0 <= QueueSize /\ 0 <= OutSize /\ 0 <= BufferSize + 1
        /\ <<>> \in Seq(Event) /\ Len(<<>>) = 0
    BY TypeFacts, SizeAssumption
  <1>3. ToSet(in) \subseteq Event /\ ToSet(buffered) \subseteq Event
    <2>1. /\ \A x : x \in ToSet(in) <=> \E i \in 1..Len(in) : in[i] = x
          /\ \A x : x \in ToSet(buffered) <=> \E i \in 1..Len(buffered) : buffered[i] = x
      BY <1>2, MemberOfSeq
    <2>. QED  BY <1>2, <2>1
  <1>4. OffsetsTypeOK'
    BY <1>1, <1>2, <1>3 DEF KafkaInv, OffsetsTypeOK, KafkaTypeOK
  <1>5. PipelineOrdered'
    BY <1>1, <1>2 DEF KafkaInv, PipelineOrdered, Increasing, Precedes
  <1>6. OffsetsOrdered'
    BY <1>1 DEF KafkaInv, OffsetsOrdered, Alive
  <1>7. NothingInMemory' /\ JournalFirst'
    BY <1>1 DEF KafkaInv, NothingInMemory, JournalFirst, Alive
  <1>8. NothingVanishes'
    BY <1>1 DEF KafkaInv, NothingVanishes, Alive, InClosed
  <1>9. LossAccounted'
    <2>. DEFINE D == Doomed
                Q == ToSet(out)
                n == Cardinality(D)
                m == Cardinality(Q)
                k == Cardinality((D \cup Q) \cup {hand})
    <2>1. Doomed' \subseteq (D \cup Q) \cup {hand}
      BY <1>1 DEF Doomed
    <2>2. IsFiniteSet(D) /\ IsFiniteSet(Q) /\ m <= Len(out)
      BY <1>2, DoomedFinite, ToSetSize
    <2>3. n <= (life - 1) * (OutSize + 1)
      BY DEF KafkaInv, LossAccounted
    <2>4. /\ IsFiniteSet(D \cup Q) /\ Cardinality(D \cup Q) \in Nat /\ n \in Nat /\ m \in Nat
          /\ Cardinality(D \cup Q) <= n + m
      <3>. HIDE DEF D, Q
      <3>1. /\ IsFiniteSet(D \cup Q) /\ IsFiniteSet(D \cap Q)
            /\ Cardinality(D \cup Q) = n + m - Cardinality(D \cap Q)
        BY <2>2, FS_Union, FS_Intersection
      <3>2. /\ n \in Nat /\ m \in Nat /\ Cardinality(D \cap Q) \in Nat
            /\ Cardinality(D \cup Q) \in Nat
        BY <2>2, <3>1, FS_CardinalityType
      <3>. HIDE DEF n, m
      <3>. QED  BY <3>1, <3>2
    <2>5. IsFiniteSet((D \cup Q) \cup {hand}) /\ k \in Nat /\ k <= Cardinality(D \cup Q) + 1
      <3>1. /\ IsFiniteSet((D \cup Q) \cup {hand})
            /\ \/ k = Cardinality(D \cup Q)
               \/ k = Cardinality(D \cup Q) + 1
        BY <2>4, FS_AddElement
      <3>. QED  BY <2>4, <3>1
    <2>6. Cardinality(Doomed') <= k /\ Cardinality(Doomed') \in Nat
      BY <2>1, <2>5, FS_Subset, FS_CardinalityType
    <2>. HIDE DEF k, n, m, D, Q
    <2>7. /\ life \in Nat /\ OutSize \in Nat /\ Len(out) \in Nat /\ Len(out) <= OutSize
          /\ life >= 1
      BY TypeFacts
    <2>8. (life - 1) * (OutSize + 1) + (OutSize + 1) = life * (OutSize + 1)
      BY <2>7
    <2>9. (life - 1) * (OutSize + 1) \in Int /\ life * (OutSize + 1) \in Int
      BY <2>7
    <2>10. Cardinality(Doomed') <= life * (OutSize + 1)
      BY <2>2, <2>3, <2>4, <2>5, <2>6, <2>7, <2>8, <2>9
    <2>. QED  BY <1>1, <2>10 DEF LossAccounted, Alive
  <1>. QED  BY <1>4, <1>5, <1>6, <1>7, <1>8, <1>9 DEF KafkaInv

(* The next process reads on from the last commit. *)
LEMMA StartInv ==
    ASSUME KafkaInv, Start
    PROVE  KafkaInv'
  <1>1. /\ closing = "down" /\ life < MaxLife /\ life' = life + 1 /\ closing' = "no"
        /\ engine' = "running" /\ producer' = "running" /\ consumer' = "poll"
        /\ fetched' = committed /\ position' = committed /\ marked' = committed
        /\ UNCHANGED <<topic, committed, published, in, buffered, out, settling, hand, journal,
                       applied, skipped, dropped>>
    BY DEF Start, brokerVars, settlementVars
  <1>2. in = <<>> /\ buffered = <<>> /\ out = <<>> /\ settling = "idle" /\ hand = 0
    BY <1>1 DEF KafkaInv, NothingInMemory, Alive
  <1>3. /\ committed \in Nat /\ committed <= Len(topic) /\ life' \in 1..MaxLife /\ life \in Nat
        /\ topic \in Seq(Event) /\ 0 \notin Event
    BY <1>1, TypeFacts, SizeAssumption
  <1>4. OffsetsTypeOK'
    BY <1>1, <1>3 DEF KafkaInv, OffsetsTypeOK, KafkaTypeOK
  <1>5. PipelineOrdered'
    BY <1>1 DEF KafkaInv, PipelineOrdered
  <1>6. OffsetsOrdered'
    <2>1. Len(out) = 0
      BY <1>2
    <2>2. Len(out) <= committed /\ \A i \in 1..Len(out) : out[i] = topic[committed - Len(out) + i]
      BY <1>3, <2>1
    <2>. QED  BY <1>1, <1>3, <2>2 DEF OffsetsOrdered
  <1>7. NothingInMemory'
    BY <1>1 DEF NothingInMemory, Alive
  <1>8. JournalFirst'
    BY <1>1 DEF KafkaInv, JournalFirst
  <1>9. NothingVanishes'
    BY <1>1 DEF KafkaInv, NothingVanishes, Alive, InClosed
  <1>10. LossAccounted'
    <2>1. Doomed' = Doomed
      BY <1>1 DEF Doomed
    <2>2. Cardinality(Doomed) <= life * (OutSize + 1)
      BY <1>1 DEF KafkaInv, LossAccounted, Alive
    <2>3. life' - 1 = life
      BY <1>1, <1>3
    <2>4. \A y : y \notin ToSet(out)
      <3>1. ToSet(<<>>) = {}
        BY DEF ToSet
      <3>. QED  BY <1>2, <3>1
    <2>5. ASSUME NEW j \in 1..committed
          PROVE  \/ topic[j] \in Doomed \/ applied[topic[j]] = 1 \/ topic[j] \in skipped
      <3>1. j \in 1..Len(topic)
        BY <1>3
      <3>2. topic[j] \in Event /\ topic[j] # 0
        BY <1>3, <3>1
      <3>3. applied[topic[j]] = 0 \/ applied[topic[j]] = 1
        <4>1. \A y \in Event : applied[y] \in Nat /\ applied[y] <= 1
          BY TypeFacts DEF KafkaInv, JournalFirst
        <4>2. applied[topic[j]] \in Nat /\ applied[topic[j]] <= 1
          BY <3>2, <4>1
        <4>. QED  BY <4>2
      <3>. QED  BY <1>2, <2>4, <3>2, <3>3 DEF Doomed
    <2>. QED  BY <1>1, <2>1, <2>2, <2>3, <2>5 DEF LossAccounted, Alive
  <1>. QED  BY <1>4, <1>5, <1>6, <1>7, <1>8, <1>9, <1>10 DEF KafkaInv

-----------------------------------------------------------------------------
(* Theorems *)

(* A log that was never used satisfies the invariant. *)
LEMMA InitInv ==
    ASSUME Init
    PROVE  KafkaInv
  <1>1. <<>> \in Seq(Event) /\ Len(<<>>) = 0 /\ ToSet(<<>>) = {}
    BY DEF ToSet
  <1>2. applied \in [Event -> Nat] /\ \A e \in Event : applied[e] = 0
    BY DEF Init
  <1>3. OffsetsTypeOK
    <2>1. 0 \in 0..MaxEvent /\ 1 \in 1..MaxLife /\ 0 <= QueueSize /\ 0 <= OutSize
          /\ 0 <= BufferSize + 1
      BY SizeAssumption
    <2>. QED  BY <1>1, <1>2, <2>1 DEF Init, OffsetsTypeOK, KafkaTypeOK
  <1>4. PipelineOrdered
    BY <1>1 DEF Init, PipelineOrdered, Increasing, Precedes
  <1>5. OffsetsOrdered
    BY <1>1 DEF Init, OffsetsOrdered
  <1>6. NothingInMemory /\ JournalFirst
    BY <1>2 DEF Init, NothingInMemory, JournalFirst, Alive
  <1>7. NothingVanishes
    BY DEF Init, NothingVanishes, Alive, InClosed
  <1>8. LossAccounted
    <2>1. Doomed = {}
      BY DEF Init, Doomed
    <2>2. Cardinality({}) = 0
      BY FS_EmptySet
    <2>3. (life - 1) * (OutSize + 1) = 0
      BY SizeAssumption DEF Init
    <2>4. \A k \in 1..position : FALSE
      BY DEF Init
    <2>5. Alive
      BY DEF Init, Alive
    <2>. QED  BY <2>1, <2>2, <2>3, <2>4, <2>5 DEF LossAccounted
  <1>. QED  BY <1>3, <1>4, <1>5, <1>6, <1>7, <1>8 DEF KafkaInv

(* Every step of the engine, the log, settlement and the process keeps it. *)
LEMMA StepInv ==
    ASSUME KafkaInv, [Next]_vars
    PROVE  KafkaInv'
  <1>1. CASE Publish \/ Produce \/ ProducerEnds \/ Acknowledge \/ ProduceFailed
    BY <1>1, PublishInv, ProduceInv, ProducerEndsInv, AcknowledgeInv, ProduceFailedInv
  <1>2. CASE Poll \/ HandOver \/ Mark \/ AutoCommit \/ ConsumerEnds
    BY <1>2, PollInv, HandOverInv, MarkInv, AutoCommitInv, ConsumerEndsInv
  <1>3. CASE Receive \/ MarkProcessed \/ Apply
    BY <1>3, ReceiveInv, MarkProcessedInv, ApplyInv
  <1>4. CASE \/ EngineStops \/ StopEngine \/ CloseIn \/ CloseDrained \/ CloseFlush \/ CloseStopped
             \/ CloseClient \/ Start
    BY <1>4, EngineStopsInv, ShutdownInv, CloseClientInv, StartInv
  <1>5. CASE Crash \/ PublishPanics \/ Exit
    <2>1. Alive /\ Die
      BY <1>5 DEF Crash, PublishPanics, Exit, Alive
    <2>. QED  BY <2>1, DieInv
  <1>6. CASE UNCHANGED vars
    <2>1. UNCHANGED <<topic, committed, published, engine, in, buffered, producer, consumer, fetched,
                      position, marked, out, settling, hand, journal, applied, skipped, dropped,
                      closing, life>>
      BY <1>6 DEF vars, brokerVars, producerVars, consumerVars, settlementVars
    <2>2. OffsetsTypeOK'
      BY <2>1 DEF KafkaInv, OffsetsTypeOK, KafkaTypeOK
    <2>3. PipelineOrdered' /\ NothingVanishes'
      BY <2>1, ProducerSide
    <2>4. OffsetsOrdered' /\ JournalFirst' /\ LossAccounted'
      BY <2>1, ConsumerSide
    <2>5. NothingInMemory'
      BY <2>1 DEF KafkaInv, NothingInMemory, Alive
    <2>. QED  BY <2>2, <2>3, <2>4, <2>5 DEF KafkaInv
  <1>. QED  BY <1>1, <1>2, <1>3, <1>4, <1>5, <1>6
            DEF Next, Producer, Consumer, Settlement, Close

(* The invariant holds in every life of the process, whatever fails. *)
THEOREM KafkaInvariant == Spec => []KafkaInv
  <1>1. Init => KafkaInv
    BY InitInv
  <1>2. KafkaInv /\ [Next]_vars => KafkaInv'
    BY StepInv
  <1>. QED  BY <1>1, <1>2, PTL DEF Spec

(* The channels never hold more than their capacity, nor the client more than
   its own and the event that waits in Produce, and every variable keeps to its
   values. *)
THEOREM ChannelsAreBounded == Spec => []KafkaTypeOK
  <1>1. KafkaInv => KafkaTypeOK
    BY DEF KafkaInv, OffsetsTypeOK
  <1>. QED  BY <1>1, KafkaInvariant, PTL

(* Order survives the queues, the broker and the restarts, and what is on its
   way to settlement is a gapless stretch of the partition. *)
THEOREM OrderSurvives == Spec => []DeliveryInOrder
  <1>1. ASSUME KafkaInv PROVE DeliveryInOrder
    <2>1. \A i, j \in 1..Len(topic) : i < j => topic[i] < topic[j]
      BY <1>1 DEF KafkaInv, PipelineOrdered, Increasing
    <2>2. /\ committed <= marked /\ marked <= position
          /\ position <= fetched /\ fetched <= Len(topic)
      BY <1>1, TypeFacts
    <2>3. ASSUME Alive PROVE out = SubSeq(topic, position - Len(out) + 1, position)
      <3>. DEFINE lo == position - Len(out) + 1
      <3>1. Len(out) <= position /\ \A i \in 1..Len(out) : out[i] = topic[position - Len(out) + i]
        BY <1>1, <2>3 DEF KafkaInv, OffsetsOrdered
      <3>2. /\ topic \in Seq(Event) /\ out \in Seq(Event) /\ position \in Nat /\ Len(out) \in Nat
            /\ position <= Len(topic) /\ Len(topic) \in Nat
        BY <1>1, TypeFacts
      <3>3. /\ lo \in 1..(Len(topic) + 1) /\ position \in (lo - 1)..Len(topic)
            /\ position - lo + 1 = Len(out)
        BY <3>1, <3>2
      <3>4. /\ SubSeq(topic, lo, position) \in Seq(Event)
            /\ Len(SubSeq(topic, lo, position)) = Len(out)
            /\ \A i \in 1..Len(out) : SubSeq(topic, lo, position)[i] = topic[lo + i - 1]
        BY <3>2, <3>3
      <3>5. \A i \in 1..Len(out) : lo + i - 1 = position - Len(out) + i
        BY <3>2
      <3>6. \A i \in 1..Len(out) : out[i] = SubSeq(topic, lo, position)[i]
        BY <3>1, <3>4, <3>5
      <3>. HIDE DEF lo
      <3>. QED  BY <3>2, <3>4, <3>6, SeqEqual DEF lo
    <2>. QED  BY <2>1, <2>2, <2>3 DEF DeliveryInOrder
  <1>. QED  BY <1>1, KafkaInvariant, PTL

(* An event is applied at most once over all lives of the process. *)
THEOREM AppliesOnce == Spec => []AppliedAtMostOnce
  <1>1. KafkaInv => AppliedAtMostOnce
    BY DEF KafkaInv, JournalFirst, AppliedAtMostOnce
  <1>. QED  BY <1>1, KafkaInvariant, PTL

(* The end of a process loses at most a full channel and the event in hand. *)
THEOREM LossIsBounded == Spec => []LossBounded
  <1>1. ASSUME KafkaInv PROVE LossBounded
    <2>1. Lost \in SUBSET Doomed
      <3>. SUFFICES ASSUME NEW k \in 1..committed, applied[topic[k]] = 0, topic[k] \notin skipped,
                           topic[k] \notin ToSet(out), topic[k] # hand
                    PROVE  topic[k] \in Doomed
        BY DEF Lost
      <3>1. topic \in Seq(Event) /\ k \in 1..Len(topic)
        BY <1>1, TypeFacts
      <3>2. topic[k] \in Event
        BY <3>1
      <3>. QED  BY <3>2 DEF Doomed
    <2>2. /\ Cardinality(Lost) <= Cardinality(Doomed) /\ Cardinality(Doomed) \in Nat
          /\ Cardinality(Lost) \in Nat
      BY <2>1, DoomedFinite, FS_CardinalityType
    <2>3. Cardinality(Doomed) <= (IF Alive THEN life - 1 ELSE life) * (OutSize + 1)
      BY <1>1 DEF KafkaInv, LossAccounted
    <2>4. life \in Nat /\ life >= 1 /\ OutSize \in Nat
      BY <1>1, TypeFacts
    <2>5. (life - 1) * (OutSize + 1) + (OutSize + 1) = life * (OutSize + 1)
      BY <2>4
    <2>6. (life - 1) * (OutSize + 1) \in Int /\ life * (OutSize + 1) \in Int
      BY <2>4
    <2>7. Cardinality(Lost) <= life * (OutSize + 1)
      <3>1. CASE Alive
        BY <2>2, <2>3, <2>4, <2>5, <2>6, <3>1
      <3>2. CASE ~Alive
        BY <2>2, <2>3, <2>4, <2>6, <3>2
      <3>. QED  BY <3>1, <3>2
    <2>. QED  BY <2>7 DEF LossBounded
  <1>. QED  BY <1>1, KafkaInvariant, PTL

(* Once the log is closed, every published event is in the broker or reported
   as lost. *)
THEOREM CloseIsComplete == Spec => []CloseKeepsEvents
  <1>1. ASSUME KafkaInv PROVE CloseKeepsEvents
    <2>. SUFFICES ASSUME closing = "closed", NEW e \in 1..published
                  PROVE  e \in ToSet(topic) \cup dropped
      BY DEF CloseKeepsEvents
    <2>1. in = <<>> /\ buffered = <<>>
      BY <1>1 DEF KafkaInv, NothingVanishes, Alive
    <2>2. ToSet(<<>>) = {}
      BY DEF ToSet
    <2>. QED  BY <1>1, <2>1, <2>2 DEF KafkaInv, NothingVanishes
  <1>. QED  BY <1>1, KafkaInvariant, PTL
=============================================================================
