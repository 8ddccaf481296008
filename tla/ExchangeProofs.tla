--------------------------- MODULE ExchangeProofs ---------------------------
(***************************************************************************)
(* Proofs about Exchange, for any finite sets of orders and users: clients *)
(* that never abandon a command they have sent use the order book as it    *)
(* expects, no interleaving overdraws a wallet, locked funds are exactly   *)
(* what they have to back, and money is conserved.                         *)
(***************************************************************************)
EXTENDS Exchange, OrderBookProofs

-----------------------------------------------------------------------------
(* The inductive invariant *)

(* Wallets without debts. *)
NatWallet == [COPAvailable: Nat, COPLocked: Nat, VibraniumAvailable: Nat, VibraniumLocked: Nat]

Positive == Nat \ {0}

(* The trades the engine makes, and the events and writes that come of them. *)
MadeTrade == [sequence: Nat, price: Price, quantity: Positive,
              buyOrder: OrderID, buyer: UserID, sellOrder: OrderID, seller: UserID]

Event == [type: {"TRADE"}, trade: MadeTrade]
           \cup [type: {"ORDER_UPDATED"}, id: OrderID, order: Order,
                 releaseCOP: Nat, releaseVibranium: Nat]

WalletWrite ==
    [write: {"SettleBuy", "SettleSell"}, user: UserID, COP: Positive, Vibranium: Positive]
      \cup [write: {"ReleaseCOP"}, user: UserID, COP: Positive, Vibranium: {0}]
      \cup [write: {"ReleaseVibranium"}, user: UserID, COP: {0}, Vibranium: Positive]

Write == WalletWrite
           \cup [write: {"UpsertOrder"}, id: OrderID, order: Order]
           \cup [write: {"AppendTrade"}, trade: MadeTrade]

(* A call that has reserved funds has a valid request. *)
CallsOK ==
    /\ call \in [OrderID -> {"idle", "rejected", "submit", "waiting",
                             "replied", "placed", "releasing", "failed", "cut"}]
    /\ request \in [OrderID -> PlaceOrderCommand \cup {None}]
    /\ cancelCall \in [OrderID -> {"idle", "waiting", "abandoned", "not_found", "cancelled"}]
    /\ \A id \in OrderID : call[id] \notin {"idle", "rejected"} => request[id] \in Request
    /\ \A id \in OrderID : order[id] # None => call[id] \in {"waiting", "replied", "placed"}

(* A place command waits in the channel once, for a call that waits and has no
   order yet; the command being served has its order. *)
CommandsOK ==
    /\ in \in Seq(Command) /\ Len(in) <= EngineBuffer
    /\ serving \in Command \cup {None}
    /\ \A i \in 1..Len(in) : in[i].kind = "place" =>
          call[in[i].id] = "waiting" /\ order[in[i].id] = None
    /\ \A i, j \in 1..Len(in) :
          (in[i].kind = "place" /\ in[j].kind = "place" /\ in[i].id = in[j].id) => i = j
    /\ (serving # None /\ serving.kind = "place") =>
          call[serving.id] = "waiting" /\ order[serving.id] # None

(* The engine publishes once the book is done with the command. *)
PhasesOK ==
    /\ taker # None => serving # None /\ outbox = <<>>
    /\ serving = None => taker = None /\ outbox = <<>>
    /\ \A i \in 1..Len(res.fills) : res.fills[i].trade \in MadeTrade
    /\ res.takerReleaseCOP \in Nat

(* Only events that were published are delivered and marked. *)
LogOK ==
    /\ outbox \in Seq(Event)
    /\ log \in Seq(Event)
    /\ pos \in 0..Len(log)
    /\ journal \in SUBSET (1..Len(log))

(* The buyer's leg is followed by the seller's leg of the same trade, and
   nothing else is. *)
Paired(q) ==
    /\ \A i \in 1..Len(q) : q[i].write = "SettleBuy" =>
          /\ i + 1 \in 1..Len(q) /\ q[i + 1].write = "SettleSell"
          /\ q[i + 1].COP = q[i].COP /\ q[i + 1].Vibranium = q[i].Vibranium
    /\ \A i \in 1..Len(q) : (i # 1 /\ q[i].write = "SettleSell") => q[i - 1].write = "SettleBuy"

JobOK == job \in Seq(Write) /\ Paired(job)

StoresOK ==
    /\ wallets \in [UserID -> NatWallet \cup {None}]
    /\ projection \in [OrderID -> Order \cup {None}]
    /\ trades \in Seq(Trade)

(* The part of the invariant that is about control and types.  It holds when
   processes die and events come again, too: see DurableExchangeProofs. *)
ControlInv == BookInv /\ CallsOK /\ CommandsOK /\ PhasesOK /\ LogOK /\ JobOK /\ StoresOK

(* In a process that never dies, events are delivered in order and marked as
   they are delivered, and no call is cut off. *)
DeliveryOK ==
    /\ journal = 1..pos
    /\ Len(log) - pos <= LogBuffer
    /\ \A id \in OrderID : call[id] # "cut"

(* The funds user u has locked; none without a wallet. *)
LockedBy(u, a) == IF wallets[u] = None THEN 0 ELSE Locked(wallets[u], a)

(* LockedBacksObligations, and a user without a wallet owes nothing. *)
Backed == \A u \in UserID, a \in Asset : LockedBy(u, a) = Owed(u, a)

(* What is enough for every write to apply, and what is left when faults have
   stranded funds: as much is locked as is owed, or more. *)
Covered == \A u \in UserID, a \in Asset : LockedBy(u, a) >= Owed(u, a)

(* The funds that are locked and back nothing. *)
Surplus(u, a) == LockedBy(u, a) - Owed(u, a)

-----------------------------------------------------------------------------
(* Wallets and requests *)

(* What a valid request reserves: a positive amount of one asset. *)
LEMMA ReservedFacts ==
    ASSUME NEW c \in Request
    PROVE  /\ c.userID \in UserID /\ c.side \in Side
           /\ c.price \in Positive /\ c.quantity \in Positive /\ c.price * c.quantity \in Positive
           /\ ReservedCOP(c) = IF c.side = "BUY" THEN c.price * c.quantity ELSE 0
           /\ ReservedVibranium(c) = IF c.side = "SELL" THEN c.quantity ELSE 0
           /\ \A a \in Asset : Reserved(c, a) \in Nat
  <1>1. /\ c.userID \in UserID /\ c.side \in Side
        /\ c.price \in Positive /\ c.quantity \in Positive
    BY PriceAssumption, QuantityAssumption DEF Request, Positive
  <1>2. \A x, y \in Positive : x * y \in Positive
    BY DEF Positive
  <1>3. c.price * c.quantity \in Positive
    BY <1>1, <1>2
  <1>4. /\ ReservedCOP(c) = IF c.side = "BUY" THEN c.price * c.quantity ELSE 0
        /\ ReservedVibranium(c) = IF c.side = "SELL" THEN c.quantity ELSE 0
    BY DEF ReservedCOP, ReservedVibranium
  <1>5. \A a \in Asset : Reserved(c, a) \in Nat
    BY <1>1, <1>3, <1>4 DEF Reserved, Positive
  <1>. QED  BY <1>1, <1>3, <1>4, <1>5

(* The four balances of a wallet. *)
Balances(w, ca, cl, va, vl) ==
    /\ w \in NatWallet
    /\ w.COPAvailable = ca /\ w.COPLocked = cl
    /\ w.VibraniumAvailable = va /\ w.VibraniumLocked = vl

(* What the operations of wallet.go that move COP do when they apply. *)
LEMMA MoveCOP ==
    ASSUME NEW w \in NatWallet, NEW x \in Nat
    PROVE  /\ CanReserveCOP(w, x) =>
                Balances(ReserveCOP(w, x), w.COPAvailable - x, w.COPLocked + x,
                         w.VibraniumAvailable, w.VibraniumLocked)
           /\ CanReleaseCOP(w, x) =>
                Balances(ReleaseCOP(w, x), w.COPAvailable + x, w.COPLocked - x,
                         w.VibraniumAvailable, w.VibraniumLocked)
           /\ CanReserveCOP(w, x) <=> w.COPAvailable >= x
           /\ CanReleaseCOP(w, x) <=> w.COPLocked >= x
           /\ ~CanReleaseCOP(w, x) => ReleaseCOP(w, x) = w
  <1>1. /\ w.COPAvailable \in Nat /\ w.COPLocked \in Nat
        /\ w.VibraniumAvailable \in Nat /\ w.VibraniumLocked \in Nat
    BY DEF NatWallet
  <1>2. /\ CanReserveCOP(w, x) <=> w.COPAvailable >= x
        /\ CanReleaseCOP(w, x) <=> w.COPLocked >= x
        /\ ~CanReleaseCOP(w, x) => ReleaseCOP(w, x) = w
    BY DEF CanReserveCOP, CanReleaseCOP, ReleaseCOP
  <1>3. ASSUME CanReserveCOP(w, x)
        PROVE  Balances(ReserveCOP(w, x), w.COPAvailable - x, w.COPLocked + x,
                        w.VibraniumAvailable, w.VibraniumLocked)
    <2>1. w.COPAvailable - x \in Nat /\ w.COPLocked + x \in Nat
      BY <1>1, <1>2, <1>3
    <2>2. ReserveCOP(w, x) = [w EXCEPT !.COPAvailable = w.COPAvailable - x,
                                       !.COPLocked = w.COPLocked + x]
      BY <1>3 DEF ReserveCOP, NatWallet
    <2>. QED  BY <2>1, <2>2 DEF Balances, NatWallet
  <1>4. ASSUME CanReleaseCOP(w, x)
        PROVE  Balances(ReleaseCOP(w, x), w.COPAvailable + x, w.COPLocked - x,
                        w.VibraniumAvailable, w.VibraniumLocked)
    <2>1. w.COPAvailable + x \in Nat /\ w.COPLocked - x \in Nat
      BY <1>1, <1>2, <1>4
    <2>2. ReleaseCOP(w, x) = [w EXCEPT !.COPLocked = w.COPLocked - x,
                                       !.COPAvailable = w.COPAvailable + x]
      BY <1>4 DEF ReleaseCOP, NatWallet
    <2>. QED  BY <2>1, <2>2 DEF Balances, NatWallet
  <1>. QED  BY <1>2, <1>3, <1>4

(* The same for Vibranium. *)
LEMMA MoveVibranium ==
    ASSUME NEW w \in NatWallet, NEW x \in Nat
    PROVE  /\ CanReserveVibranium(w, x) =>
                Balances(ReserveVibranium(w, x), w.COPAvailable, w.COPLocked,
                         w.VibraniumAvailable - x, w.VibraniumLocked + x)
           /\ CanReleaseVibranium(w, x) =>
                Balances(ReleaseVibranium(w, x), w.COPAvailable, w.COPLocked,
                         w.VibraniumAvailable + x, w.VibraniumLocked - x)
           /\ CanReserveVibranium(w, x) <=> w.VibraniumAvailable >= x
           /\ CanReleaseVibranium(w, x) <=> w.VibraniumLocked >= x
           /\ ~CanReleaseVibranium(w, x) => ReleaseVibranium(w, x) = w
  <1>1. /\ w.COPAvailable \in Nat /\ w.COPLocked \in Nat
        /\ w.VibraniumAvailable \in Nat /\ w.VibraniumLocked \in Nat
    BY DEF NatWallet
  <1>2. /\ CanReserveVibranium(w, x) <=> w.VibraniumAvailable >= x
        /\ CanReleaseVibranium(w, x) <=> w.VibraniumLocked >= x
        /\ ~CanReleaseVibranium(w, x) => ReleaseVibranium(w, x) = w
    BY DEF CanReserveVibranium, CanReleaseVibranium, ReleaseVibranium
  <1>3. ASSUME CanReserveVibranium(w, x)
        PROVE  Balances(ReserveVibranium(w, x), w.COPAvailable, w.COPLocked,
                        w.VibraniumAvailable - x, w.VibraniumLocked + x)
    <2>1. w.VibraniumAvailable - x \in Nat /\ w.VibraniumLocked + x \in Nat
      BY <1>1, <1>2, <1>3
    <2>2. ReserveVibranium(w, x) = [w EXCEPT !.VibraniumAvailable = w.VibraniumAvailable - x,
                                             !.VibraniumLocked = w.VibraniumLocked + x]
      BY <1>3 DEF ReserveVibranium, NatWallet
    <2>. QED  BY <2>1, <2>2 DEF Balances, NatWallet
  <1>4. ASSUME CanReleaseVibranium(w, x)
        PROVE  Balances(ReleaseVibranium(w, x), w.COPAvailable, w.COPLocked,
                        w.VibraniumAvailable + x, w.VibraniumLocked - x)
    <2>1. w.VibraniumAvailable + x \in Nat /\ w.VibraniumLocked - x \in Nat
      BY <1>1, <1>2, <1>4
    <2>2. ReleaseVibranium(w, x) = [w EXCEPT !.VibraniumLocked = w.VibraniumLocked - x,
                                             !.VibraniumAvailable = w.VibraniumAvailable + x]
      BY <1>4 DEF ReleaseVibranium, NatWallet
    <2>. QED  BY <2>1, <2>2 DEF Balances, NatWallet
  <1>. QED  BY <1>2, <1>3, <1>4

(* The two legs of a trade. *)
LEMMA SettleLegs ==
    ASSUME NEW w \in NatWallet, NEW x \in Nat, NEW y \in Nat
    PROVE  /\ CanSettleBuy(w, x, y) =>
                Balances(SettleBuy(w, x, y), w.COPAvailable, w.COPLocked - x,
                         w.VibraniumAvailable + y, w.VibraniumLocked)
           /\ CanSettleSell(w, y, x) =>
                Balances(SettleSell(w, y, x), w.COPAvailable + x, w.COPLocked,
                         w.VibraniumAvailable, w.VibraniumLocked - y)
           /\ CanSettleBuy(w, x, y) <=> w.COPLocked >= x
           /\ CanSettleSell(w, y, x) <=> w.VibraniumLocked >= y
           /\ ~CanSettleBuy(w, x, y) => SettleBuy(w, x, y) = w
           /\ ~CanSettleSell(w, y, x) => SettleSell(w, y, x) = w
  <1>1. /\ w.COPAvailable \in Nat /\ w.COPLocked \in Nat
        /\ w.VibraniumAvailable \in Nat /\ w.VibraniumLocked \in Nat
    BY DEF NatWallet
  <1>2. /\ CanSettleBuy(w, x, y) <=> w.COPLocked >= x
        /\ CanSettleSell(w, y, x) <=> w.VibraniumLocked >= y
        /\ ~CanSettleBuy(w, x, y) => SettleBuy(w, x, y) = w
        /\ ~CanSettleSell(w, y, x) => SettleSell(w, y, x) = w
    BY DEF CanSettleBuy, SettleBuy, CanSettleSell, SettleSell
  <1>3. ASSUME CanSettleBuy(w, x, y)
        PROVE  Balances(SettleBuy(w, x, y), w.COPAvailable, w.COPLocked - x,
                        w.VibraniumAvailable + y, w.VibraniumLocked)
    <2>1. w.COPLocked - x \in Nat /\ w.VibraniumAvailable + y \in Nat
      BY <1>1, <1>2, <1>3
    <2>2. SettleBuy(w, x, y) = [w EXCEPT !.COPLocked = w.COPLocked - x,
                                         !.VibraniumAvailable = w.VibraniumAvailable + y]
      BY <1>3 DEF SettleBuy, NatWallet
    <2>. QED  BY <2>1, <2>2 DEF Balances, NatWallet
  <1>4. ASSUME CanSettleSell(w, y, x)
        PROVE  Balances(SettleSell(w, y, x), w.COPAvailable + x, w.COPLocked,
                        w.VibraniumAvailable, w.VibraniumLocked - y)
    <2>1. w.COPAvailable + x \in Nat /\ w.VibraniumLocked - y \in Nat
      BY <1>1, <1>2, <1>4
    <2>2. SettleSell(w, y, x) = [w EXCEPT !.VibraniumLocked = w.VibraniumLocked - y,
                                          !.COPAvailable = w.COPAvailable + x]
      BY <1>4 DEF SettleSell, NatWallet
    <2>. QED  BY <2>1, <2>2 DEF Balances, NatWallet
  <1>. QED  BY <1>2, <1>3, <1>4

(* The balances of a wallet are natural numbers. *)
LEMMA WalletNumbers ==
    ASSUME NEW w \in NatWallet
    PROVE  /\ w.COPAvailable \in Nat /\ w.COPLocked \in Nat
           /\ w.VibraniumAvailable \in Nat /\ w.VibraniumLocked \in Nat
           /\ Locked(w, "COP") = w.COPLocked /\ Locked(w, "Vibranium") = w.VibraniumLocked
  BY DEF NatWallet, Locked

(* Reserving moves funds from available to locked. *)
LEMMA ReserveFacts ==
    ASSUME NEW c \in Request, NEW w \in NatWallet, CanReserve(w, c)
    PROVE  /\ Reserve(w, c) \in NatWallet
           /\ \A a \in Asset : Locked(Reserve(w, c), a) = Locked(w, a) + Reserved(c, a)
           /\ TotalCOP(Reserve(w, c)) = TotalCOP(w)
           /\ TotalVibranium(Reserve(w, c)) = TotalVibranium(w)
  <1>. DEFINE r == Reserve(w, c)
  <1>1. CASE c.side = "BUY"
    <2>1. ReservedCOP(c) \in Nat /\ ReservedVibranium(c) = 0
      BY <1>1, ReservedFacts DEF Positive
    <2>2. r = ReserveCOP(w, ReservedCOP(c)) /\ CanReserveCOP(w, ReservedCOP(c))
      BY <1>1 DEF Reserve, CanReserve
    <2>3. Balances(r, w.COPAvailable - ReservedCOP(c), w.COPLocked + ReservedCOP(c),
                   w.VibraniumAvailable, w.VibraniumLocked)
      BY <2>1, <2>2, MoveCOP
    <2>. HIDE DEF r
    <2>. QED  BY <2>1, <2>3, WalletNumbers DEF Balances, Locked, Reserved, Asset, TotalCOP,
                TotalVibranium, r
  <1>2. CASE c.side # "BUY"
    <2>1. ReservedVibranium(c) \in Nat /\ ReservedCOP(c) = 0
      BY <1>2, ReservedFacts DEF Positive, Side
    <2>2. r = ReserveVibranium(w, ReservedVibranium(c))
          /\ CanReserveVibranium(w, ReservedVibranium(c))
      BY <1>2 DEF Reserve, CanReserve
    <2>3. Balances(r, w.COPAvailable, w.COPLocked, w.VibraniumAvailable - ReservedVibranium(c),
                   w.VibraniumLocked + ReservedVibranium(c))
      BY <2>1, <2>2, MoveVibranium
    <2>. HIDE DEF r
    <2>. QED  BY <2>1, <2>3, WalletNumbers DEF Balances, Locked, Reserved, Asset, TotalCOP,
                TotalVibranium, r
  <1>. QED  BY <1>1, <1>2

(* Unreserving moves them back, if so much is locked. *)
LEMMA UnreserveFacts ==
    ASSUME NEW c \in Request, NEW w \in NatWallet
    PROVE  /\ Unreserve(w, c) \in NatWallet
           /\ CanUnreserve(w, c) <=> \A a \in Asset : Locked(w, a) >= Reserved(c, a)
           /\ CanUnreserve(w, c) =>
                \A a \in Asset : Locked(Unreserve(w, c), a) = Locked(w, a) - Reserved(c, a)
           /\ TotalCOP(Unreserve(w, c)) = TotalCOP(w)
           /\ TotalVibranium(Unreserve(w, c)) = TotalVibranium(w)
  <1>. DEFINE r == Unreserve(w, c)
              can == CanUnreserve(w, c)
  <1>1. CASE c.side = "BUY"
    <2>1. ReservedCOP(c) \in Nat /\ ReservedVibranium(c) = 0
      BY <1>1, ReservedFacts DEF Positive
    <2>2. r = ReleaseCOP(w, ReservedCOP(c)) /\ (can <=> CanReleaseCOP(w, ReservedCOP(c)))
      BY <1>1 DEF Unreserve, CanUnreserve
    <2>3. /\ can => Balances(r, w.COPAvailable + ReservedCOP(c), w.COPLocked - ReservedCOP(c),
                             w.VibraniumAvailable, w.VibraniumLocked)
          /\ can <=> w.COPLocked >= ReservedCOP(c)
          /\ ~can => r = w
      BY <2>1, <2>2, MoveCOP
    <2>. HIDE DEF r, can
    <2>. QED  BY <2>1, <2>3, WalletNumbers DEF Balances, Locked, Reserved, Asset, TotalCOP,
                TotalVibranium, r, can
  <1>2. CASE c.side # "BUY"
    <2>1. ReservedVibranium(c) \in Nat /\ ReservedCOP(c) = 0
      BY <1>2, ReservedFacts DEF Positive, Side
    <2>2. /\ r = ReleaseVibranium(w, ReservedVibranium(c))
          /\ can <=> CanReleaseVibranium(w, ReservedVibranium(c))
      BY <1>2 DEF Unreserve, CanUnreserve
    <2>3. /\ can => Balances(r, w.COPAvailable, w.COPLocked,
                             w.VibraniumAvailable + ReservedVibranium(c),
                             w.VibraniumLocked - ReservedVibranium(c))
          /\ can <=> w.VibraniumLocked >= ReservedVibranium(c)
          /\ ~can => r = w
      BY <2>1, <2>2, MoveVibranium
    <2>. HIDE DEF r, can
    <2>. QED  BY <2>1, <2>3, WalletNumbers DEF Balances, Locked, Reserved, Asset, TotalCOP,
                TotalVibranium, r, can
  <1>. QED  BY <1>1, <1>2

(* What a write of settlement takes from the locked funds of its user. *)
LEMMA DebitFacts ==
    ASSUME NEW j \in WalletWrite
    PROVE  /\ j.user \in UserID /\ j.COP \in Nat /\ j.Vibranium \in Nat
           /\ j.write \in WalletWrites
           /\ Debit(j, j.user, "COP") =
                IF j.write \in {"SettleBuy", "ReleaseCOP"} THEN j.COP ELSE 0
           /\ Debit(j, j.user, "Vibranium") =
                IF j.write \in {"SettleSell", "ReleaseVibranium"} THEN j.Vibranium ELSE 0
           /\ Debit(j, j.user, "COP") # 0 \/ Debit(j, j.user, "Vibranium") # 0
           /\ \A u, a : u # j.user => Debit(j, u, a) = 0
  BY DEF WalletWrite, WalletWrites, Debit, Takes, Amount, Positive

(* The write applies when so much is locked, and then moves its amounts. *)
LEMMA ApplyMoves ==
    ASSUME NEW j \in WalletWrite, NEW w \in NatWallet
    PROVE  /\ Apply(w, j) \in NatWallet
           /\ CanApply(w, j) <=> \A a \in Asset : Locked(w, a) >= Debit(j, j.user, a)
           /\ CanApply(w, j) =>
                /\ \A a \in Asset : Locked(Apply(w, j), a) = Locked(w, a) - Debit(j, j.user, a)
                /\ TotalCOP(Apply(w, j)) = TotalCOP(w)
                     - (IF j.write = "SettleBuy" THEN j.COP ELSE 0)
                     + (IF j.write = "SettleSell" THEN j.COP ELSE 0)
                /\ TotalVibranium(Apply(w, j)) = TotalVibranium(w)
                     + (IF j.write = "SettleBuy" THEN j.Vibranium ELSE 0)
                     - (IF j.write = "SettleSell" THEN j.Vibranium ELSE 0)
  <1>. DEFINE r == Apply(w, j)
              can == CanApply(w, j)
  <1>0. /\ j.COP \in Nat /\ j.Vibranium \in Nat
        /\ Debit(j, j.user, "COP") =
                IF j.write \in {"SettleBuy", "ReleaseCOP"} THEN j.COP ELSE 0
        /\ Debit(j, j.user, "Vibranium") =
                IF j.write \in {"SettleSell", "ReleaseVibranium"} THEN j.Vibranium ELSE 0
    BY DebitFacts
  <1>1. CASE j.write = "SettleBuy"
    <2>1. r = SettleBuy(w, j.COP, j.Vibranium) /\ (can <=> CanSettleBuy(w, j.COP, j.Vibranium))
      BY <1>1 DEF Apply, CanApply
    <2>2. /\ can => Balances(r, w.COPAvailable, w.COPLocked - j.COP,
                             w.VibraniumAvailable + j.Vibranium, w.VibraniumLocked)
          /\ can <=> w.COPLocked >= j.COP
          /\ ~can => r = w
      BY <1>0, <2>1, SettleLegs
    <2>. HIDE DEF r, can
    <2>. QED  BY <1>0, <1>1, <2>2, WalletNumbers DEF Balances, Locked, Asset, TotalCOP,
                TotalVibranium, r, can
  <1>2. CASE j.write = "SettleSell"
    <2>1. r = SettleSell(w, j.Vibranium, j.COP) /\ (can <=> CanSettleSell(w, j.Vibranium, j.COP))
      BY <1>2 DEF Apply, CanApply
    <2>2. /\ can => Balances(r, w.COPAvailable + j.COP, w.COPLocked,
                             w.VibraniumAvailable, w.VibraniumLocked - j.Vibranium)
          /\ can <=> w.VibraniumLocked >= j.Vibranium
          /\ ~can => r = w
      BY <1>0, <2>1, SettleLegs
    <2>. HIDE DEF r, can
    <2>. QED  BY <1>0, <1>2, <2>2, WalletNumbers DEF Balances, Locked, Asset, TotalCOP,
                TotalVibranium, r, can
  <1>3. CASE j.write = "ReleaseCOP"
    <2>1. r = ReleaseCOP(w, j.COP) /\ (can <=> CanReleaseCOP(w, j.COP))
      BY <1>3 DEF Apply, CanApply
    <2>2. /\ can => Balances(r, w.COPAvailable + j.COP, w.COPLocked - j.COP,
                             w.VibraniumAvailable, w.VibraniumLocked)
          /\ can <=> w.COPLocked >= j.COP
          /\ ~can => r = w
      BY <1>0, <2>1, MoveCOP
    <2>. HIDE DEF r, can
    <2>. QED  BY <1>0, <1>3, <2>2, WalletNumbers DEF Balances, Locked, Asset, TotalCOP,
                TotalVibranium, r, can
  <1>4. CASE j.write = "ReleaseVibranium"
    <2>1. r = ReleaseVibranium(w, j.Vibranium) /\ (can <=> CanReleaseVibranium(w, j.Vibranium))
      BY <1>4 DEF Apply, CanApply
    <2>2. /\ can => Balances(r, w.COPAvailable, w.COPLocked,
                             w.VibraniumAvailable + j.Vibranium, w.VibraniumLocked - j.Vibranium)
          /\ can <=> w.VibraniumLocked >= j.Vibranium
          /\ ~can => r = w
      BY <1>0, <2>1, MoveVibranium
    <2>. HIDE DEF r, can
    <2>. QED  BY <1>0, <1>4, <2>2, WalletNumbers DEF Balances, Locked, Asset, TotalCOP,
                TotalVibranium, r, can
  <1>. QED  BY <1>1, <1>2, <1>3, <1>4, DebitFacts DEF WalletWrites

-----------------------------------------------------------------------------
(* The events of a Place call *)

(* One turn of the recursion in FlattenSeq. *)
Flatten(g, seqs) ==
    [i \in 1..Len(seqs) |-> IF i = 1 THEN seqs[i] ELSE g[i - 1] \o seqs[i]]

(* FlattenSeq is that recursive function at the last position. *)
LEMMA FlattenUnfolds ==
    ASSUME NEW seqs, Len(seqs) # 0
    PROVE  FlattenSeq(seqs) = (CHOOSE g : g = Flatten(g, seqs))[Len(seqs)]
  BY Zenon DEF FlattenSeq, Flatten

(* The pairs <<x[k], y[k]>> for k up to i, one after the other. *)
Interleaved(x, y, i) ==
    [k \in 1..(2 * i) |-> IF k % 2 = 1 THEN x[(k + 1) \div 2] ELSE y[k \div 2]]

(* Two rows of n elements of S. *)
Rows(x, y, n, S) == n \in Nat /\ x \in [1..n -> S] /\ y \in [1..n -> S]

(* Where the elements of x and y are. *)
LEMMA InterleavedFacts ==
    ASSUME NEW S, NEW n, NEW x, NEW y, Rows(x, y, n, S), NEW i \in 0..n
    PROVE  /\ Interleaved(x, y, i) \in Seq(S)
           /\ Len(Interleaved(x, y, i)) = 2 * i
           /\ \A k \in 1..i : /\ Interleaved(x, y, i)[2 * k - 1] = x[k]
                              /\ Interleaved(x, y, i)[2 * k] = y[k]
  <1>0. n \in Nat /\ x \in [1..n -> S] /\ y \in [1..n -> S]
    BY DEF Rows
  <1>1. \A k \in 1..(2 * i) : IF k % 2 = 1 THEN (k + 1) \div 2 \in 1..n ELSE k \div 2 \in 1..n
    BY <1>0
  <1>2. \A k \in 1..(2 * i) : (IF k % 2 = 1 THEN x[(k + 1) \div 2] ELSE y[k \div 2]) \in S
    BY <1>0, <1>1
  <1>3. Interleaved(x, y, i) \in [1..(2 * i) -> S] /\ 2 * i \in Nat
    BY <1>0, <1>2 DEF Interleaved
  <1>4. Interleaved(x, y, i) \in Seq(S) /\ Len(Interleaved(x, y, i)) = 2 * i
    BY <1>3, IsASeq, LenProperties
  <1>5. \A k \in 1..i : /\ 2 * k - 1 \in 1..(2 * i) /\ (2 * k - 1) % 2 = 1
                        /\ ((2 * k - 1) + 1) \div 2 = k
                        /\ 2 * k \in 1..(2 * i) /\ (2 * k) % 2 # 1 /\ (2 * k) \div 2 = k
    BY <1>0
  <1>. QED  BY <1>4, <1>5 DEF Interleaved

(* The pairs put one after the other solve the recursion. *)
LEMMA InterleavedStep ==
    ASSUME NEW S, NEW n, NEW x, NEW y, Rows(x, y, n, S), NEW i \in 1..n
    PROVE  Interleaved(x, y, i) = Interleaved(x, y, i - 1) \o <<x[i], y[i]>>
  <1>. DEFINE a == Interleaved(x, y, i)
              b == Interleaved(x, y, i - 1)
              p == <<x[i], y[i]>>
  <1>1. i \in 0..n /\ i - 1 \in 0..n /\ x[i] \in S /\ y[i] \in S /\ n \in Nat
    BY DEF Rows
  <1>2. a \in Seq(S) /\ Len(a) = 2 * i /\ b \in Seq(S) /\ Len(b) = 2 * (i - 1)
    BY <1>1, InterleavedFacts
  <1>3. p \in Seq(S) /\ Len(p) = 2 /\ p[1] = x[i] /\ p[2] = y[i]
    BY <1>1
  <1>4. \A k \in 1..(2 * (i - 1)) : a[k] = b[k]
    BY DEF Interleaved
  <1>5. a[2 * i - 1] = x[i] /\ a[2 * i] = y[i]
    <2>. HIDE DEF a, b, p
    <2>1. a = Interleaved(x, y, i) /\ i \in 1..i
      BY <1>1 DEF a
    <2>2. Interleaved(x, y, i)[2 * i - 1] = x[i] /\ Interleaved(x, y, i)[2 * i] = y[i]
      BY <1>1, <2>1, InterleavedFacts
    <2>. QED  BY <2>1, <2>2
  <1>. HIDE DEF a, b, p
  <1>6. /\ b \o p \in Seq(S) /\ Len(b \o p) = Len(b) + Len(p)
        /\ \A k \in 1..(Len(b) + Len(p)) :
              (b \o p)[k] = IF k <= Len(b) THEN b[k] ELSE p[k - Len(b)]
    BY <1>2, <1>3, ConcatProperties
  <1>7. Len(b \o p) = 2 * i
    BY <1>2, <1>3, <1>6
  <1>8. ASSUME NEW k \in 1..(2 * i) PROVE (b \o p)[k] = a[k]
    <2>1. k \in 1..(2 * (i - 1)) \/ k = 2 * i - 1 \/ k = 2 * i
      BY <1>1
    <2>2. CASE k \in 1..(2 * (i - 1))
      BY <1>2, <1>3, <1>4, <1>6, <2>2
    <2>3. CASE k = 2 * i - 1
      BY <1>2, <1>3, <1>5, <1>6, <2>3
    <2>4. CASE k = 2 * i
      BY <1>2, <1>3, <1>5, <1>6, <2>4
    <2>. QED  BY <2>1, <2>2, <2>3, <2>4
  <1>9. a = b \o p
    BY <1>2, <1>6, <1>7, <1>8, SeqEqual
  <1>. QED  BY <1>9 DEF a, b, p

(* FlattenSeq of pairs. *)
LEMMA FlattenPairs ==
    ASSUME NEW S, NEW n, NEW x, NEW y, Rows(x, y, n, S),
           NEW ss, ss = [i \in 1..n |-> <<x[i], y[i]>>]
    PROVE  FlattenSeq(ss) = Interleaved(x, y, n)
  <1>. DEFINE c == [i \in 1..n |-> Interleaved(x, y, i)]
              h == CHOOSE g : g = Flatten(g, ss)
  <1>1. Len(ss) = n /\ n \in Nat
    BY DEF Rows
  <1>2. CASE n = 0
    <2>1. FlattenSeq(ss) = ss
      BY <1>1, <1>2 DEF FlattenSeq
    <2>2. ss = <<>>
      BY <1>2
    <2>3. Interleaved(x, y, 0) = <<>>
      BY DEF Interleaved
    <2>. QED  BY <1>2, <2>1, <2>2, <2>3
  <1>3. CASE n # 0
    <2>1. Interleaved(x, y, 0) = <<>>
      BY DEF Interleaved
    <2>2. ASSUME NEW i \in 1..n
          PROVE  Interleaved(x, y, i) = IF i = 1 THEN ss[i] ELSE c[i - 1] \o ss[i]
      <3>1. Interleaved(x, y, i) = Interleaved(x, y, i - 1) \o <<x[i], y[i]>>
        BY InterleavedStep
      <3>2. ss[i] = <<x[i], y[i]>>
        OBVIOUS
      <3>3. CASE i = 1
        <4>0. i - 1 = 0
          BY <3>3
        <4>1. Interleaved(x, y, i) = <<>> \o <<x[i], y[i]>>
          BY <2>1, <3>1, <4>0, Zenon
        <4>2. <<>> \o <<x[i], y[i]>> = <<x[i], y[i]>>
          OBVIOUS
        <4>. QED  BY <3>2, <3>3, <4>1, <4>2
      <3>4. CASE i # 1
        <4>1. c[i - 1] = Interleaved(x, y, i - 1)
          BY <1>1, <3>4
        <4>. QED  BY <3>1, <3>2, <3>4, <4>1
      <3>. QED  BY <3>3, <3>4
    <2>3. c = Flatten(c, ss)
      BY <1>1, <2>2 DEF Flatten
    <2>4. c[n] = Interleaved(x, y, n) /\ n \in 1..n
      BY <1>1, <1>3
    <2>. HIDE DEF c
    <2>5. h = Flatten(h, ss)
      BY <2>3
    <2>6. FlattenSeq(ss) = h[n]
      BY <1>1, <1>3, FlattenUnfolds
    <2>. HIDE DEF h
    <2>7. ASSUME NEW g, g = Flatten(g, ss)
          PROVE  /\ g[1] = ss[1]
                 /\ \A i \in 1..n : i # 1 => g[i] = g[i - 1] \o ss[i]
      <3>1. \A i \in 1..n : g[i] = IF i = 1 THEN ss[i] ELSE g[i - 1] \o ss[i]
        BY <1>1, <2>7 DEF Flatten
      <3>2. 1 \in 1..n
        BY <1>1, <1>3
      <3>. QED  BY <3>1, <3>2, Zenon
    <2>8. \A i \in 1..n : h[i] = c[i]
      <3>. DEFINE bad == {i \in 1..n : h[i] # c[i]}
      <3>. SUFFICES ASSUME bad # {} PROVE FALSE
        OBVIOUS
      <3>1. bad \in SUBSET Nat
        OBVIOUS
      <3>. DEFINE k == Min(bad)
      <3>2. k \in bad /\ \A i \in bad : k <= i
        BY <3>1, MinProperties
      <3>. HIDE DEF k
      <3>3. k # 1
        BY <2>3, <2>5, <2>7, <3>2
      <3>4. k - 1 \in 1..n /\ k - 1 \notin bad
        BY <1>1, <3>2, <3>3
      <3>5. h[k - 1] = c[k - 1]
        BY <3>4
      <3>6. h[k] = h[k - 1] \o ss[k] /\ c[k] = c[k - 1] \o ss[k]
        BY <2>3, <2>5, <2>7, <3>2, <3>3
      <3>. QED  BY <3>2, <3>5, <3>6
    <2>. QED  BY <1>3, <2>4, <2>6, <2>8
  <1>. QED  BY <1>2, <1>3


(* Fills of the matching loop. *)
Made(fills) == fills \in Seq(Fill) /\ \A i \in 1..Len(fills) : fills[i].trade \in MadeTrade

(* The two events of each fill. *)
MakerUpdated(f) == OrderUpdated(f.makerID, f.maker, 0, 0)
FillEvents(fills) ==
    FlattenSeq([i \in 1..Len(fills) |-> <<TradeEvent(fills[i]), MakerUpdated(fills[i])>>])

(* Events are of their types. *)
LEMMA EventTypes ==
    /\ \A f : f.trade \in MadeTrade => TradeEvent(f) \in Event
    /\ \A id \in OrderID, o \in Order, x \in Nat, y \in Nat : OrderUpdated(id, o, x, y) \in Event
    /\ \A f \in Fill : MakerUpdated(f) \in Event
  BY DEF TradeEvent, OrderUpdated, MakerUpdated, Event, Fill

(* FillEvents as interleaved rows. *)
LEMMA FillEventsRows ==
    ASSUME NEW fills, Made(fills),
           NEW x, x = [i \in 1..Len(fills) |-> TradeEvent(fills[i])],
           NEW y, y = [i \in 1..Len(fills) |-> MakerUpdated(fills[i])]
    PROVE  /\ Rows(x, y, Len(fills), Event)
           /\ FillEvents(fills) = Interleaved(x, y, Len(fills))
  <1>1. /\ Len(fills) \in Nat
        /\ \A i \in 1..Len(fills) : fills[i] \in Fill /\ fills[i].trade \in MadeTrade
    BY DEF Made
  <1>2. Rows(x, y, Len(fills), Event)
    BY <1>1, EventTypes DEF Rows
  <1>. DEFINE ss == [i \in 1..Len(fills) |-> <<x[i], y[i]>>]
  <1>3. FillEvents(fills) = FlattenSeq(ss)
    BY DEF FillEvents
  <1>. HIDE DEF ss
  <1>4. FlattenSeq(ss) = Interleaved(x, y, Len(fills))
    BY <1>2, FlattenPairs DEF ss
  <1>. QED  BY <1>2, <1>3, <1>4

(* What handlePlace publishes for the fills grows by two events per fill. *)
LEMMA FillEventsFacts ==
    ASSUME NEW fills, Made(fills)
    PROVE  /\ FillEvents(fills) \in Seq(Event)
           /\ fills = <<>> => FillEvents(fills) = <<>>
           /\ \A f \in Fill : f.trade \in MadeTrade =>
                /\ Made(Append(fills, f))
                /\ FillEvents(Append(fills, f))
                     = Append(Append(FillEvents(fills), TradeEvent(f)), MakerUpdated(f))
  <1>. DEFINE n == Len(fills)
              x == [i \in 1..n |-> TradeEvent(fills[i])]
              y == [i \in 1..n |-> MakerUpdated(fills[i])]
  <1>1. Rows(x, y, n, Event) /\ FillEvents(fills) = Interleaved(x, y, n)
    BY FillEventsRows
  <1>2. n \in Nat /\ fills \in Seq(Fill) /\ \A i \in 1..n : fills[i].trade \in MadeTrade
    BY DEF Made
  <1>3. FillEvents(fills) \in Seq(Event) /\ Len(FillEvents(fills)) = 2 * n
    <2>1. n \in 0..n
      BY <1>2
    <2>. HIDE DEF n, x, y
    <2>. QED  BY <1>1, <2>1, InterleavedFacts
  <1>4. fills = <<>> => FillEvents(fills) = <<>>
    BY <1>3
  <1>5. ASSUME NEW f \in Fill, f.trade \in MadeTrade
        PROVE  /\ Made(Append(fills, f))
               /\ FillEvents(Append(fills, f))
                    = Append(Append(FillEvents(fills), TradeEvent(f)), MakerUpdated(f))
    <2>. DEFINE F == Append(fills, f)
                m == Len(F)
                X == [i \in 1..m |-> TradeEvent(F[i])]
                Y == [i \in 1..m |-> MakerUpdated(F[i])]
    <2>1. /\ F \in Seq(Fill) /\ m = n + 1 /\ \A i \in 1..n : F[i] = fills[i]
          /\ F[n + 1] = f
      BY <1>2, AppendProperties
    <2>. HIDE DEF F, n
    <2>2. Made(F)
      <3>. SUFFICES ASSUME NEW i \in 1..m PROVE F[i].trade \in MadeTrade
        BY <2>1 DEF Made
      <3>1. i \in 1..n \/ i = n + 1
        BY <1>2, <2>1
      <3>. QED  BY <1>2, <1>5, <2>1, <3>1
    <2>3. Rows(X, Y, m, Event) /\ FillEvents(F) = Interleaved(X, Y, m)
      BY <2>2, FillEventsRows
    <2>4. m \in 1..m /\ m - 1 = n /\ X[m] = TradeEvent(f) /\ Y[m] = MakerUpdated(f)
      BY <1>2, <2>1
    <2>5. Interleaved(X, Y, n) = Interleaved(x, y, n)
      <3>1. \A k \in 1..n : X[k] = x[k] /\ Y[k] = y[k]
        BY <1>2, <2>1
      <3>. HIDE DEF X, Y, x, y
      <3>2. \A k \in 1..(2 * n) : IF k % 2 = 1 THEN (k + 1) \div 2 \in 1..n
                                              ELSE k \div 2 \in 1..n
        BY <1>2
      <3>3. \A k \in 1..(2 * n) : (IF k % 2 = 1 THEN X[(k + 1) \div 2] ELSE Y[k \div 2])
                                = (IF k % 2 = 1 THEN x[(k + 1) \div 2] ELSE y[k \div 2])
        BY <3>1, <3>2
      <3>. QED  BY <3>3 DEF Interleaved
    <2>. HIDE DEF m, X, Y, x, y
    <2>6. Interleaved(X, Y, m) = Interleaved(X, Y, m - 1) \o <<X[m], Y[m]>>
      BY <2>3, <2>4, InterleavedStep
    <2>7. FillEvents(F) = FillEvents(fills) \o <<TradeEvent(f), MakerUpdated(f)>>
      BY <1>1, <2>3, <2>4, <2>5, <2>6
    <2>8. TradeEvent(f) \in Event /\ MakerUpdated(f) \in Event
      BY <1>5, EventTypes
    <2>9. \A q \in Seq(Event), e1, e2 \in Event : q \o <<e1, e2>> = Append(Append(q, e1), e2)
      OBVIOUS
    <2>. QED  BY <1>3, <2>2, <2>7, <2>8, <2>9 DEF F
  <1>. QED  BY <1>3, <1>4, <1>5

(* The events of a Place call: those of its fills, and the taker's last. *)
LEMMA PlaceEventsFacts ==
    ASSUME NEW R, Made(R.fills), R.takerReleaseCOP \in Nat, NEW id \in OrderID, NEW o \in Order
    PROVE  /\ PlaceEvents(R, id, o)
                = Append(FillEvents(R.fills), OrderUpdated(id, o, R.takerReleaseCOP, 0))
           /\ PlaceEvents(R, id, o) \in Seq(Event)
  <1>. DEFINE e == OrderUpdated(id, o, R.takerReleaseCOP, 0)
  <1>1. PlaceEvents(R, id, o) = FillEvents(R.fills) \o <<e>>
    BY Zenon DEF PlaceEvents, FillEvents, MakerUpdated
  <1>2. FillEvents(R.fills) \in Seq(Event) /\ e \in Event
    BY FillEventsFacts, EventTypes
  <1>. HIDE DEF e
  <1>3. FillEvents(R.fills) \o <<e>> = Append(FillEvents(R.fills), e)
    BY <1>2
  <1>4. Append(FillEvents(R.fills), e) \in Seq(Event)
    BY <1>2, AppendProperties
  <1>. QED  BY <1>1, <1>3, <1>4 DEF e

-----------------------------------------------------------------------------
(* The writes of an event *)

(* A write debits a natural number. *)
LEMMA DebitType ==
    ASSUME NEW j \in Write, NEW u, NEW a
    PROVE  Debit(j, u, a) \in Nat
  BY DEF Write, WalletWrite, Debit, Takes, Amount, Positive

(* Which writes are wallet writes. *)
LEMMA WriteKinds ==
    ASSUME NEW j \in Write
    PROVE  /\ j.write \in WalletWrites <=> j \in WalletWrite
           /\ j.write \notin WalletWrites => \A u, a : Debit(j, u, a) = 0
           /\ j.write = "UpsertOrder" => j.id \in OrderID /\ j.order \in Order
           /\ j.write = "AppendTrade" => j.trade \in Trade
           /\ j.write \in WalletWrites \cup {"UpsertOrder", "AppendTrade"}
  BY DEF Write, WalletWrite, WalletWrites, Debit, Takes, Positive, MadeTrade, Trade

(* No writes, no debit. *)
LEMMA DebitOfNone ==
    ASSUME NEW u, NEW a
    PROVE  DebitOf(<<>>, u, a) = 0
  <1>. DEFINE f == [i \in 1..Len(<<>>) |-> Debit(<<>>[i], u, a)]
  <1>1. Summable(f, 1..0) /\ \A x \in 1..0 : f[x] = 0
    BY PositionsFinite DEF Summable
  <1>. HIDE DEF f
  <1>2. Total(f) = 0
    BY <1>1, TotalZero
  <1>. QED  BY <1>2 DEF DebitOf, f

(* The first write is debited, then the rest. *)
LEMMA DebitOfHead ==
    ASSUME NEW q \in Seq(Write), NEW u, NEW a
    PROVE  /\ DebitOf(q, u, a) \in Nat
           /\ q # <<>> => DebitOf(q, u, a) = Debit(Head(q), u, a) + DebitOf(Tail(q), u, a)
  <1>. DEFINE f == [i \in 1..Len(q) |-> Debit(q[i], u, a)]
              g == [i \in 1..Len(Tail(q)) |-> Debit(Tail(q)[i], u, a)]
  <1>1. Len(q) \in Nat /\ \A i \in 1..Len(q) : q[i] \in Write
    OBVIOUS
  <1>2. Summable(f, 1..Len(q))
    BY <1>1, PositionsFinite, DebitType DEF Summable
  <1>3. DebitOf(q, u, a) \in Nat
    BY <1>2, TotalType DEF DebitOf
  <1>4. ASSUME q # <<>>
        PROVE  DebitOf(q, u, a) = Debit(Head(q), u, a) + DebitOf(Tail(q), u, a)
    <2>. DEFINE n == Len(Tail(q))
    <2>1. /\ n \in Nat /\ Len(q) = n + 1 /\ Head(q) = q[1]
          /\ \A i \in 1..n : Tail(q)[i] = q[i + 1] /\ i + 1 \in 1..Len(q)
      BY <1>4
    <2>2. Shifted(g, f, n)
      BY <1>1, <2>1, DebitType DEF Shifted
    <2>3. f[1] = Debit(Head(q), u, a)
      BY <2>1
    <2>. HIDE DEF f, g, n
    <2>4. Total(f) = f[1] + Total(g)
      BY <2>2, TotalShorter
    <2>. QED  BY <2>3, <2>4 DEF DebitOf, f, g
  <1>. QED  BY <1>3, <1>4

(* One, two or three writes. *)
LEMMA DebitOfOne ==
    ASSUME NEW j \in Write, NEW q, q = <<j>>, NEW u, NEW a
    PROVE  DebitOf(q, u, a) = Debit(j, u, a) /\ q \in Seq(Write)
  <1>. DEFINE p == <<j>>
              e == <<>>
  <1>1. p \in Seq(Write) /\ p # <<>> /\ Head(p) = j /\ Tail(p) = e
    OBVIOUS
  <1>2. q = p
    OBVIOUS
  <1>3. DebitOf(e, u, a) = 0
    BY DebitOfNone
  <1>. HIDE DEF p, e
  <1>4. DebitOf(p, u, a) = Debit(j, u, a) + DebitOf(e, u, a)
    BY <1>1, DebitOfHead
  <1>5. Debit(j, u, a) \in Nat
    BY DebitType
  <1>6. DebitOf(p, u, a) = Debit(j, u, a)
    BY <1>3, <1>4, <1>5
  <1>. QED  BY <1>1, <1>2, <1>6, Zenon

(* Two writes. *)
LEMMA DebitOfTwo ==
    ASSUME NEW j \in Write, NEW k \in Write, NEW q, q = <<j, k>>, NEW u, NEW a
    PROVE  DebitOf(q, u, a) = Debit(j, u, a) + Debit(k, u, a) /\ q \in Seq(Write)
  <1>. DEFINE p == <<j, k>>
              r == <<k>>
  <1>1. p \in Seq(Write) /\ p # <<>> /\ Head(p) = j /\ Tail(p) = r
    OBVIOUS
  <1>2. q = p
    OBVIOUS
  <1>3. DebitOf(r, u, a) = Debit(k, u, a)
    BY DebitOfOne
  <1>. HIDE DEF p, r
  <1>4. DebitOf(p, u, a) = Debit(j, u, a) + DebitOf(r, u, a)
    BY <1>1, DebitOfHead
  <1>. QED  BY <1>1, <1>2, <1>3, <1>4, Zenon

(* Three writes. *)
LEMMA DebitOfThree ==
    ASSUME NEW j \in Write, NEW k \in Write, NEW l \in Write, NEW q, q = <<j, k, l>>,
           NEW u, NEW a
    PROVE  DebitOf(q, u, a) = Debit(j, u, a) + Debit(k, u, a) + Debit(l, u, a) /\ q \in Seq(Write)
  <1>. DEFINE p == <<j, k, l>>
              r == <<k, l>>
  <1>1. p \in Seq(Write) /\ p # <<>> /\ Head(p) = j /\ Tail(p) = r
    OBVIOUS
  <1>2. q = p
    OBVIOUS
  <1>3. DebitOf(r, u, a) = Debit(k, u, a) + Debit(l, u, a)
    BY DebitOfTwo
  <1>. HIDE DEF p, r
  <1>4. DebitOf(p, u, a) = Debit(j, u, a) + DebitOf(r, u, a)
    BY <1>1, DebitOfHead
  <1>5. Debit(j, u, a) \in Nat /\ Debit(k, u, a) \in Nat /\ Debit(l, u, a) \in Nat
    BY DebitType
  <1>6. DebitOf(p, u, a) = Debit(j, u, a) + Debit(k, u, a) + Debit(l, u, a)
    BY <1>3, <1>4, <1>5
  <1>. QED  BY <1>1, <1>2, <1>6, Zenon

(* The first write is not the second leg of a trade. *)
Whole(q) == q # <<>> /\ q[1].write # "SettleSell"

(* What a trade, or a release, takes of asset a from user u. *)
TradeDebit(t, u, a) ==
    IF a = "COP" THEN (IF t.buyer = u THEN t.price * t.quantity ELSE 0)
                 ELSE (IF t.seller = u THEN t.quantity ELSE 0)
ReleaseDebit(o, x, y, u, a) == IF o.userID = u THEN (IF a = "COP" THEN x ELSE y) ELSE 0

(* The writes of a trade: its legs and its record. *)
LEMMA TradeWritesFacts ==
    ASSUME NEW t \in MadeTrade
    PROVE  /\ TradeWrites(t) \in Seq(Write) /\ Paired(TradeWrites(t))
           /\ Whole(TradeWrites(t))
           /\ \A u, a : DebitOf(TradeWrites(t), u, a) = TradeDebit(t, u, a)
  <1>. DEFINE b == [write |-> "SettleBuy", user |-> t.buyer, COP |-> Notional(t),
                    Vibranium |-> t.quantity]
              s == [write |-> "SettleSell", user |-> t.seller, COP |-> Notional(t),
                    Vibranium |-> t.quantity]
              r == [write |-> "AppendTrade", trade |-> t]
  <1>1. TradeWrites(t) = <<b, s, r>>
    BY DEF TradeWrites
  <1>2. /\ t.buyer \in UserID /\ t.seller \in UserID /\ t.quantity \in Positive
        /\ t.price \in Positive
    BY PriceAssumption DEF MadeTrade, Positive
  <1>3. Notional(t) = t.price * t.quantity /\ Notional(t) \in Positive
    <2>1. \A x, y \in Positive : x * y \in Positive
      BY DEF Positive
    <2>. QED  BY <1>2, <2>1 DEF Notional
  <1>4. b \in Write /\ s \in Write /\ r \in Write
    BY <1>2, <1>3 DEF Write, WalletWrite
  <1>5. /\ b.write = "SettleBuy" /\ s.write = "SettleSell" /\ r.write = "AppendTrade"
        /\ s.COP = b.COP /\ s.Vibranium = b.Vibranium
    OBVIOUS
  <1>6. /\ \A u, a : Debit(b, u, a) = IF a = "COP" /\ t.buyer = u THEN Notional(t) ELSE 0
        /\ \A u, a : Debit(s, u, a) = IF a # "COP" /\ t.seller = u THEN t.quantity ELSE 0
        /\ \A u, a : Debit(r, u, a) = 0
    BY DEF Debit, Takes, Amount
  <1>. HIDE DEF b, s, r
  <1>7. <<b, s, r>> \in Seq(Write) /\ Paired(<<b, s, r>>) /\ Whole(<<b, s, r>>)
    <2>1. <<b, s, r>> \in Seq(Write)
      BY <1>4
    <2>2. /\ Len(<<b, s, r>>) = 3
          /\ <<b, s, r>>[1] = b /\ <<b, s, r>>[2] = s /\ <<b, s, r>>[3] = r
      OBVIOUS
    <2>3. \A i \in 1..3 : i = 1 \/ i = 2 \/ i = 3
      OBVIOUS
    <2>. DEFINE q == <<b, s, r>>
    <2>. HIDE DEF q
    <2>4. Paired(q)
      BY <1>5, <2>2, <2>3 DEF Paired, q
    <2>5. <<b, s, r>> # <<>>
      OBVIOUS
    <2>. QED  BY <1>5, <2>1, <2>2, <2>4, <2>5 DEF q, Whole
  <1>8. ASSUME NEW u, NEW a
        PROVE  DebitOf(<<b, s, r>>, u, a) = TradeDebit(t, u, a)
    <2>1. DebitOf(<<b, s, r>>, u, a) = Debit(b, u, a) + Debit(s, u, a) + Debit(r, u, a)
      BY <1>4, DebitOfThree
    <2>2. t.price * t.quantity \in Nat /\ t.quantity \in Nat
      BY <1>2, <1>3 DEF Positive
    <2>. QED  BY <1>3, <1>6, <2>1, <2>2 DEF TradeDebit
  <1>. QED  BY <1>1, <1>7, <1>8

(* What Append leaves and adds. *)
LEMMA Appended ==
    ASSUME NEW T, NEW q \in Seq(T), NEW e \in T
    PROVE  /\ Append(q, e) \in Seq(T) /\ Len(Append(q, e)) = Len(q) + 1
           /\ \A i \in 1..Len(q) : Append(q, e)[i] = q[i]
           /\ Append(q, e)[Len(q) + 1] = e
  BY AppendProperties

(* Tuples are built by appending. *)
LEMMA AppendTuples ==
    ASSUME NEW T, NEW x \in T, NEW y \in T, NEW z \in T
    PROVE  /\ Append(<<x>>, y) = <<x, y>>
           /\ Append(<<x, y>>, z) = <<x, y, z>>
  <1>1. Append(<<x>>, y) = <<x, y>>
    <2>. DEFINE q == <<x>>
                p == <<x, y>>
    <2>1. q \in Seq(T) /\ Len(q) = 1 /\ q[1] = x
      OBVIOUS
    <2>2. p \in Seq(T) /\ Len(p) = 2 /\ p[1] = x /\ p[2] = y
      OBVIOUS
    <2>. HIDE DEF p, q
    <2>3. /\ Append(q, y) \in Seq(T) /\ Len(Append(q, y)) = 2
          /\ Append(q, y)[1] = x /\ Append(q, y)[2] = y
      <3>1. /\ Append(q, y) \in Seq(T) /\ Len(Append(q, y)) = Len(q) + 1
            /\ \A i \in 1..Len(q) : Append(q, y)[i] = q[i]
            /\ Append(q, y)[Len(q) + 1] = y
        BY <2>1, Appended
      <3>2. 1 \in 1..Len(q) /\ Len(q) + 1 = 2
        BY <2>1
      <3>. QED  BY <2>1, <3>1, <3>2, Zenon
    <2>4. \A i \in 1..2 : Append(q, y)[i] = p[i]
      <3>1. \A i \in 1..2 : i = 1 \/ i = 2
        OBVIOUS
      <3>. QED  BY <2>2, <2>3, <3>1, Zenon
    <2>5. Append(q, y) = p
      BY <2>2, <2>3, <2>4, SeqEqual
    <2>. QED  BY <2>5 DEF p, q
  <1>2. Append(<<x, y>>, z) = <<x, y, z>>
    <2>. DEFINE q == <<x, y>>
                p == <<x, y, z>>
    <2>1. q \in Seq(T) /\ Len(q) = 2 /\ q[1] = x /\ q[2] = y
      OBVIOUS
    <2>2. p \in Seq(T) /\ Len(p) = 3 /\ p[1] = x /\ p[2] = y /\ p[3] = z
      OBVIOUS
    <2>. HIDE DEF p, q
    <2>3. /\ Append(q, z) \in Seq(T) /\ Len(Append(q, z)) = 3
          /\ Append(q, z)[1] = x /\ Append(q, z)[2] = y /\ Append(q, z)[3] = z
      <3>1. /\ Append(q, z) \in Seq(T) /\ Len(Append(q, z)) = Len(q) + 1
            /\ \A i \in 1..Len(q) : Append(q, z)[i] = q[i]
            /\ Append(q, z)[Len(q) + 1] = z
        BY <2>1, Appended
      <3>2. 1 \in 1..Len(q) /\ 2 \in 1..Len(q) /\ Len(q) + 1 = 3
        BY <2>1
      <3>. QED  BY <2>1, <3>1, <3>2, Zenon
    <2>4. \A i \in 1..3 : Append(q, z)[i] = p[i]
      <3>1. \A i \in 1..3 : i = 1 \/ i = 2 \/ i = 3
        OBVIOUS
      <3>. QED  BY <2>2, <2>3, <3>1, Zenon
    <2>5. Append(q, z) = p
      BY <2>2, <2>3, <2>4, SeqEqual
    <2>. QED  BY <2>5 DEF p, q
  <1>. QED  BY <1>1, <1>2

(* The writes of an order update: the snapshot and the releases. *)
LEMMA OrderWritesFacts ==
    ASSUME NEW id \in OrderID, NEW o \in Order, NEW x \in Nat, NEW y \in Nat,
           NEW ev, ev = OrderUpdated(id, o, x, y)
    PROVE  /\ OrderUpdateWrites(ev) \in Seq(Write) /\ Paired(OrderUpdateWrites(ev))
           /\ Whole(OrderUpdateWrites(ev))
           /\ \A u, a : DebitOf(OrderUpdateWrites(ev), u, a) = ReleaseDebit(o, x, y, u, a)
  <1>. DEFINE w == [write |-> "UpsertOrder", id |-> id, order |-> o]
              c == [write |-> "ReleaseCOP", user |-> o.userID, COP |-> x, Vibranium |-> 0]
              v == [write |-> "ReleaseVibranium", user |-> o.userID, COP |-> 0, Vibranium |-> y]
              W == OrderUpdateWrites(ev)
  <1>1. /\ x > 0 /\ y > 0 => W = <<w, c, v>>
        /\ x > 0 /\ ~(y > 0) => W = <<w, c>>
        /\ ~(x > 0) /\ y > 0 => W = <<w, v>>
        /\ ~(x > 0) /\ ~(y > 0) => W = <<w>>
    <2>1. /\ ev.id = id /\ ev.order = o /\ ev.releaseCOP = x /\ ev.releaseVibranium = y
      BY DEF OrderUpdated
    <2>2. W = (<<w>> \o (IF x > 0 THEN <<c>> ELSE <<>>)) \o (IF y > 0 THEN <<v>> ELSE <<>>)
      BY <2>1 DEF OrderUpdateWrites
    <2>. HIDE DEF w, c, v, W
    <2>3. /\ (<<w>> \o <<c>>) \o <<v>> = <<w, c, v>>
          /\ (<<w>> \o <<c>>) \o <<>> = <<w, c>>
          /\ (<<w>> \o <<>>) \o <<v>> = <<w, v>>
          /\ (<<w>> \o <<>>) \o <<>> = <<w>>
      <3>. DEFINE T == {w, c, v}
      <3>1. <<w>> \in Seq(T) /\ <<w, c>> \in Seq(T) /\ w \in T /\ c \in T /\ v \in T
        OBVIOUS
      <3>2. /\ Append(<<w>>, c) = <<w, c>> /\ Append(<<w>>, v) = <<w, v>>
            /\ Append(<<w, c>>, v) = <<w, c, v>>
        BY <3>1, AppendTuples
      <3>. HIDE DEF T
      <3>3. /\ \A q \in Seq(T), e \in T : q \o <<e>> = Append(q, e)
            /\ \A q \in Seq(T) : q \o <<>> = q
        OBVIOUS
      <3>. QED  BY <3>1, <3>2, <3>3, Zenon
    <2>. QED  BY <2>2, <2>3
  <1>2. w \in Write /\ (x > 0 => c \in Write) /\ (y > 0 => v \in Write)
    BY OrderNumbers DEF Write, WalletWrite, Positive
  <1>3. w.write = "UpsertOrder" /\ c.write = "ReleaseCOP" /\ v.write = "ReleaseVibranium"
    OBVIOUS
  <1>4. /\ \A u, a : Debit(w, u, a) = 0
        /\ \A u, a : Debit(c, u, a) = IF a = "COP" /\ o.userID = u THEN x ELSE 0
        /\ \A u, a : Debit(v, u, a) = IF a # "COP" /\ o.userID = u THEN y ELSE 0
    BY DEF Debit, Takes, Amount
  <1>. HIDE DEF w, c, v, W
  <1>5. /\ W \in Seq(Write) /\ W # <<>> /\ W[1].write # "SettleSell"
        /\ \A i \in 1..Len(W) : W[i].write \notin {"SettleBuy", "SettleSell"}
    <2>1. CASE x > 0 /\ y > 0
      <3>1. W = <<w, c, v>>
        BY <1>1, <2>1
      <3>2. W \in Seq(Write)
        BY <1>2, <2>1, <3>1, DebitOfThree
      <3>3. Len(W) = 3 /\ W[1] = w /\ W[2] = c /\ W[3] = v
        BY <3>1
      <3>4. \A i \in 1..3 : i = 1 \/ i = 2 \/ i = 3
        OBVIOUS
      <3>5. \A i \in 1..Len(W) : W[i].write \notin {"SettleBuy", "SettleSell"}
        BY <1>3, <3>3, <3>4
      <3>6. W # <<>>
        BY <3>3
      <3>7. W[1].write # "SettleSell"
        <4>1. "UpsertOrder" # "SettleSell"
          OBVIOUS
        <4>. QED  BY <1>3, <3>3, <4>1, Zenon
      <3>. QED  BY <3>2, <3>5, <3>6, <3>7, Zenon
    <2>2. CASE x > 0 /\ ~(y > 0)
      <3>1. W = <<w, c>>
        BY <1>1, <2>2
      <3>2. W \in Seq(Write)
        BY <1>2, <2>2, <3>1, DebitOfTwo
      <3>3. Len(W) = 2 /\ W[1] = w /\ W[2] = c
        BY <3>1
      <3>4. \A i \in 1..2 : i = 1 \/ i = 2
        OBVIOUS
      <3>5. \A i \in 1..Len(W) : W[i].write \notin {"SettleBuy", "SettleSell"}
        BY <1>3, <3>3, <3>4
      <3>6. W # <<>>
        BY <3>3
      <3>7. W[1].write # "SettleSell"
        <4>1. "UpsertOrder" # "SettleSell"
          OBVIOUS
        <4>. QED  BY <1>3, <3>3, <4>1, Zenon
      <3>. QED  BY <3>2, <3>5, <3>6, <3>7, Zenon
    <2>3. CASE ~(x > 0) /\ y > 0
      <3>1. W = <<w, v>>
        BY <1>1, <2>3
      <3>2. W \in Seq(Write)
        BY <1>2, <2>3, <3>1, DebitOfTwo
      <3>3. Len(W) = 2 /\ W[1] = w /\ W[2] = v
        BY <3>1
      <3>4. \A i \in 1..2 : i = 1 \/ i = 2
        OBVIOUS
      <3>5. \A i \in 1..Len(W) : W[i].write \notin {"SettleBuy", "SettleSell"}
        BY <1>3, <3>3, <3>4
      <3>6. W # <<>>
        BY <3>3
      <3>7. W[1].write # "SettleSell"
        <4>1. "UpsertOrder" # "SettleSell"
          OBVIOUS
        <4>. QED  BY <1>3, <3>3, <4>1, Zenon
      <3>. QED  BY <3>2, <3>5, <3>6, <3>7, Zenon
    <2>4. CASE ~(x > 0) /\ ~(y > 0)
      <3>1. W = <<w>>
        BY <1>1, <2>4
      <3>2. W \in Seq(Write)
        BY <1>2, <2>4, <3>1, DebitOfOne
      <3>3. Len(W) = 1 /\ W[1] = w
        BY <3>1
      <3>4. \A i \in 1..1 : i = 1
        OBVIOUS
      <3>5. \A i \in 1..Len(W) : W[i].write \notin {"SettleBuy", "SettleSell"}
        BY <1>3, <3>3, <3>4
      <3>6. W # <<>>
        BY <3>3
      <3>7. W[1].write # "SettleSell"
        <4>1. "UpsertOrder" # "SettleSell"
          OBVIOUS
        <4>. QED  BY <1>3, <3>3, <4>1, Zenon
      <3>. QED  BY <3>2, <3>5, <3>6, <3>7, Zenon
    <2>. QED  BY <2>1, <2>2, <2>3, <2>4
  <1>6. Paired(W)
    BY <1>5 DEF Paired
  <1>7. ASSUME NEW u, NEW a
        PROVE  DebitOf(W, u, a) = ReleaseDebit(o, x, y, u, a)
    <2>1. CASE x > 0 /\ y > 0
      <3>1. DebitOf(W, u, a) = Debit(w, u, a) + Debit(c, u, a) + Debit(v, u, a)
        BY <1>1, <1>2, <2>1, DebitOfThree
      <3>. QED  BY <1>4, <3>1 DEF ReleaseDebit
    <2>2. CASE x > 0 /\ ~(y > 0)
      <3>1. DebitOf(W, u, a) = Debit(w, u, a) + Debit(c, u, a)
        BY <1>1, <1>2, <2>2, DebitOfTwo
      <3>. QED  BY <1>4, <2>2, <3>1 DEF ReleaseDebit
    <2>3. CASE ~(x > 0) /\ y > 0
      <3>1. DebitOf(W, u, a) = Debit(w, u, a) + Debit(v, u, a)
        BY <1>1, <1>2, <2>3, DebitOfTwo
      <3>. QED  BY <1>4, <2>3, <3>1 DEF ReleaseDebit
    <2>4. CASE ~(x > 0) /\ ~(y > 0)
      <3>1. DebitOf(W, u, a) = Debit(w, u, a)
        BY <1>1, <1>2, <2>4, DebitOfOne
      <3>. QED  BY <1>4, <2>4, <3>1 DEF ReleaseDebit
    <2>. QED  BY <2>1, <2>2, <2>3, <2>4
  <1>8. Whole(W)
    BY <1>5 DEF Whole
  <1>. QED  BY <1>5, <1>6, <1>7, <1>8 DEF W

(* The rest of a job is paired too. *)
LEMMA PairedTail ==
    ASSUME NEW q \in Seq(Write), Paired(q), q # <<>>
    PROVE  /\ Tail(q) \in Seq(Write) /\ Paired(Tail(q))
           /\ Head(q) \in Write /\ Head(q) = q[1]
           /\ Tail(q) # <<>> => Head(Tail(q)) = q[2] /\ 2 \in 1..Len(q)
  <1>. DEFINE r == Tail(q)
  <1>1. /\ r \in Seq(Write) /\ Len(r) = Len(q) - 1 /\ Len(q) \in Nat /\ Len(q) # 0
        /\ \A i \in 1..Len(r) : r[i] = q[i + 1] /\ i + 1 \in 1..Len(q)
    OBVIOUS
  <1>2. Head(q) \in Write /\ Head(q) = q[1]
    OBVIOUS
  <1>3. r # <<>> => Head(r) = q[2] /\ 2 \in 1..Len(q)
    OBVIOUS
  <1>. HIDE DEF r
  <1>4. ASSUME NEW i \in 1..Len(r), r[i].write = "SettleBuy"
        PROVE  /\ i + 1 \in 1..Len(r) /\ r[i + 1].write = "SettleSell"
               /\ r[i + 1].COP = r[i].COP /\ r[i + 1].Vibranium = r[i].Vibranium
    <2>1. i + 1 \in 1..Len(q) /\ q[i + 1].write = "SettleBuy" /\ r[i] = q[i + 1]
      BY <1>1, <1>4
    <2>2. /\ (i + 1) + 1 \in 1..Len(q) /\ q[(i + 1) + 1].write = "SettleSell"
          /\ q[(i + 1) + 1].COP = q[i + 1].COP /\ q[(i + 1) + 1].Vibranium = q[i + 1].Vibranium
      BY <2>1 DEF Paired
    <2>3. i + 1 \in 1..Len(r)
      BY <1>1, <2>2
    <2>4. r[i + 1] = q[(i + 1) + 1]
      BY <1>1, <2>3
    <2>. QED  BY <2>1, <2>2, <2>3, <2>4
  <1>5. ASSUME NEW i \in 1..Len(r), i # 1, r[i].write = "SettleSell"
        PROVE  r[i - 1].write = "SettleBuy"
    <2>1. i + 1 \in 1..Len(q) /\ q[i + 1].write = "SettleSell" /\ i + 1 # 1
      BY <1>1, <1>5
    <2>2. q[(i + 1) - 1].write = "SettleBuy"
      BY <2>1 DEF Paired
    <2>3. i - 1 \in 1..Len(r) /\ (i + 1) - 1 = (i - 1) + 1
      BY <1>1, <1>5
    <2>4. r[i - 1] = q[(i - 1) + 1]
      BY <1>1, <2>3
    <2>. QED  BY <2>2, <2>3, <2>4
  <1>6. Paired(r)
    BY <1>4, <1>5 DEF Paired
  <1>. QED  BY <1>1, <1>2, <1>3, <1>6 DEF r

-----------------------------------------------------------------------------
(* What events debit *)

(* The writes settlement makes for an event. *)
LEMMA EventWrites ==
    ASSUME NEW ev \in Event
    PROVE  /\ Writes(ev) \in Seq(Write) /\ Paired(Writes(ev)) /\ Whole(Writes(ev))
           /\ \A u, a : DebitOf(Writes(ev), u, a) \in Nat
  <1>1. CASE ev.type = "TRADE"
    <2>1. ev.trade \in MadeTrade /\ Writes(ev) = TradeWrites(ev.trade)
      BY <1>1 DEF Event, Writes
    <2>. QED  BY <2>1, TradeWritesFacts, DebitOfHead
  <1>2. CASE ev.type # "TRADE"
    <2>. DEFINE x == ev.releaseCOP
                y == ev.releaseVibranium
                o == ev.order
                id == ev.id
    <2>1. /\ id \in OrderID /\ o \in Order /\ x \in Nat /\ y \in Nat
          /\ ev = OrderUpdated(id, o, x, y) /\ Writes(ev) = OrderUpdateWrites(ev)
      BY <1>2 DEF Event, Writes, OrderUpdated
    <2>. HIDE DEF x, y, o, id
    <2>. QED  BY <2>1, OrderWritesFacts, DebitOfHead
  <1>. QED  BY <1>1, <1>2

(* The debits of the two kinds of events. *)
LEMMA EventDebits ==
    /\ \A f, u, a : f.trade \in MadeTrade =>
          DebitOf(Writes(TradeEvent(f)), u, a) = TradeDebit(f.trade, u, a)
    /\ \A id \in OrderID, o \in Order, x \in Nat, y \in Nat : \A u, a :
          DebitOf(Writes(OrderUpdated(id, o, x, y)), u, a) = ReleaseDebit(o, x, y, u, a)
  <1>1. ASSUME NEW f, NEW u, NEW a, f.trade \in MadeTrade
        PROVE  DebitOf(Writes(TradeEvent(f)), u, a) = TradeDebit(f.trade, u, a)
    <2>1. Writes(TradeEvent(f)) = TradeWrites(f.trade)
      BY DEF Writes, TradeEvent
    <2>. QED  BY <1>1, <2>1, TradeWritesFacts
  <1>2. ASSUME NEW id \in OrderID, NEW o \in Order, NEW x \in Nat, NEW y \in Nat, NEW u, NEW a
        PROVE  DebitOf(Writes(OrderUpdated(id, o, x, y)), u, a) = ReleaseDebit(o, x, y, u, a)
    <2>1. Writes(OrderUpdated(id, o, x, y)) = OrderUpdateWrites(OrderUpdated(id, o, x, y))
      BY DEF Writes, OrderUpdated
    <2>. QED  BY <2>1, OrderWritesFacts
  <1>. QED  BY <1>1, <1>2

(* Events are debited one by one. *)
LEMMA EventsDebit ==
    ASSUME NEW q \in Seq(Event), NEW u, NEW a
    PROVE  /\ DebitOfEvents(q, u, a) \in Nat
           /\ q = <<>> => DebitOfEvents(q, u, a) = 0
           /\ q # <<>> => DebitOfEvents(q, u, a)
                            = DebitOf(Writes(Head(q)), u, a) + DebitOfEvents(Tail(q), u, a)
           /\ \A e \in Event : DebitOfEvents(Append(q, e), u, a)
                                 = DebitOfEvents(q, u, a) + DebitOf(Writes(e), u, a)
  <1>. DEFINE F(r) == [i \in 1..Len(r) |-> DebitOf(Writes(r[i]), u, a)]
  <1>1. ASSUME NEW r \in Seq(Event)
        PROVE  Len(r) \in Nat /\ F(r) \in [1..Len(r) -> Nat] /\ Summable(F(r), 1..Len(r))
    <2>1. Len(r) \in Nat /\ \A i \in 1..Len(r) : r[i] \in Event
      OBVIOUS
    <2>. QED  BY <2>1, EventWrites, PositionsFinite DEF Summable
  <1>2. \A r : DebitOfEvents(r, u, a) = Total(F(r))
    BY DEF DebitOfEvents
  <1>3. DebitOfEvents(q, u, a) \in Nat
    <2>. HIDE DEF F
    <2>. QED  BY <1>1, <1>2, TotalType
  <1>4. q = <<>> => DebitOfEvents(q, u, a) = 0
    <2>. HAVE q = <<>>
    <2>1. \A i \in 1..Len(q) : F(q)[i] = 0
      OBVIOUS
    <2>. HIDE DEF F
    <2>. QED  BY <1>1, <1>2, <2>1, TotalZero
  <1>5. ASSUME q # <<>>
        PROVE  DebitOfEvents(q, u, a)
                 = DebitOf(Writes(Head(q)), u, a) + DebitOfEvents(Tail(q), u, a)
    <2>. DEFINE r == Tail(q)
                n == Len(r)
    <2>1. r \in Seq(Event) /\ Len(q) = n + 1 /\ Head(q) = q[1] /\ 1 \in 1..Len(q)
          /\ \A i \in 1..n : r[i] = q[i + 1] /\ i + 1 \in 1..Len(q)
      BY <1>5
    <2>. DEFINE f == F(q)
                g == F(r)
    <2>2. f[1] = DebitOf(Writes(Head(q)), u, a)
      BY <2>1
    <2>3. Shifted(g, f, n)
      BY <1>1, <2>1 DEF Shifted
    <2>. HIDE DEF F, f, g, r, n
    <2>4. Total(f) = f[1] + Total(g)
      BY <2>3, TotalShorter
    <2>. QED  BY <1>2, <2>2, <2>4 DEF r, f, g
  <1>6. ASSUME NEW e \in Event
        PROVE  DebitOfEvents(Append(q, e), u, a)
                 = DebitOfEvents(q, u, a) + DebitOf(Writes(e), u, a)
    <2>. DEFINE r == Append(q, e)
                n == Len(q)
    <2>1. /\ n \in Nat /\ r \in Seq(Event) /\ Len(r) = n + 1 /\ r[n + 1] = e
          /\ \A i \in 1..n : r[i] = q[i]
      BY AppendProperties
    <2>. HIDE DEF r
    <2>2. \A i \in 1..n : F(r)[i] = F(q)[i]
      BY <2>1
    <2>3. F(r)[n + 1] = DebitOf(Writes(e), u, a)
      <3>. DEFINE k == n + 1
      <3>1. k \in 1..Len(r) /\ r[k] = e
        BY <2>1
      <3>. HIDE DEF k
      <3>2. F(r)[k] = DebitOf(Writes(r[k]), u, a)
        BY <3>1
      <3>. QED  BY <3>1, <3>2 DEF k
    <2>. HIDE DEF F
    <2>4. F(r) \in [1..(n + 1) -> Nat] /\ F(q) \in [1..n -> Nat]
      BY <1>1, <2>1
    <2>. HIDE DEF n
    <2>5. Total(F(r)) = Total(F(q)) + F(r)[n + 1]
      BY <2>1, <2>2, <2>4, TotalLonger
    <2>. QED  BY <1>2, <2>3, <2>5 DEF r
  <1>. QED  BY <1>3, <1>4, <1>5, <1>6

(* What the events of a log l that are not in the journal j debit. *)
Unmarked(l, j, u, a) ==
    [i \in 1..Len(l) |-> IF i \in j THEN 0 ELSE DebitOf(Writes(l[i]), u, a)]

(* A published event is to be debited. *)
LEMMA LogDebit ==
    ASSUME NEW l \in Seq(Event), NEW j \in SUBSET (1..Len(l)), NEW u, NEW a
    PROVE  /\ Total(Unmarked(l, j, u, a)) \in Nat
           /\ l = <<>> => Total(Unmarked(l, j, u, a)) = 0
           /\ \A e \in Event : Total(Unmarked(Append(l, e), j, u, a))
                                 = Total(Unmarked(l, j, u, a)) + DebitOf(Writes(e), u, a)
  <1>1. ASSUME NEW r \in Seq(Event), NEW k
        PROVE  /\ Len(r) \in Nat /\ Unmarked(r, k, u, a) \in [1..Len(r) -> Nat]
               /\ Summable(Unmarked(r, k, u, a), 1..Len(r))
    <2>1. Len(r) \in Nat /\ \A i \in 1..Len(r) : r[i] \in Event
      OBVIOUS
    <2>. QED  BY <2>1, EventWrites, PositionsFinite DEF Summable, Unmarked
  <1>2. Total(Unmarked(l, j, u, a)) \in Nat
    BY <1>1, TotalType
  <1>3. l = <<>> => Total(Unmarked(l, j, u, a)) = 0
    <2>. HAVE l = <<>>
    <2>1. \A i \in 1..Len(l) : Unmarked(l, j, u, a)[i] = 0
      OBVIOUS
    <2>. QED  BY <1>1, <2>1, TotalZero
  <1>4. ASSUME NEW e \in Event
        PROVE  Total(Unmarked(Append(l, e), j, u, a))
                 = Total(Unmarked(l, j, u, a)) + DebitOf(Writes(e), u, a)
    <2>. DEFINE r == Append(l, e)
                n == Len(l)
                f == Unmarked(l, j, u, a)
                g == Unmarked(r, j, u, a)
    <2>1. /\ n \in Nat /\ r \in Seq(Event) /\ Len(r) = n + 1 /\ r[n + 1] = e
          /\ \A i \in 1..n : r[i] = l[i]
      BY AppendProperties
    <2>. HIDE DEF r
    <2>2. \A i \in 1..n : g[i] = f[i]
      BY <2>1 DEF Unmarked
    <2>3. g[n + 1] = DebitOf(Writes(e), u, a)
      <3>. DEFINE k == n + 1
      <3>1. k \in 1..Len(r) /\ r[k] = e /\ k \notin j
        BY <2>1
      <3>. HIDE DEF k
      <3>2. g[k] = DebitOf(Writes(r[k]), u, a)
        BY <3>1 DEF Unmarked
      <3>. QED  BY <3>1, <3>2 DEF k
    <2>4. g \in [1..(n + 1) -> Nat] /\ f \in [1..n -> Nat]
      BY <1>1, <2>1
    <2>. HIDE DEF n, f, g
    <2>5. Total(g) = Total(f) + g[n + 1]
      BY <2>1, <2>2, <2>4, TotalLonger
    <2>. QED  BY <2>3, <2>5 DEF r, f, g
  <1>. QED  BY <1>2, <1>3, <1>4

(* Event p of log l is to be marked in journal j. *)
Marks(l, j, p) == l \in Seq(Event) /\ j \in SUBSET (1..Len(l)) /\ p \in 1..Len(l) /\ p \notin j

(* A marked event is no longer to be debited. *)
LEMMA LogMarked ==
    ASSUME NEW l, NEW j, NEW p, Marks(l, j, p), NEW u, NEW a
    PROVE  Total(Unmarked(l, j \cup {p}, u, a))
             = Total(Unmarked(l, j, u, a)) - DebitOf(Writes(l[p]), u, a)
  <1>. DEFINE S == 1..Len(l)
              f == Unmarked(l, j, u, a)
              g == Unmarked(l, j \cup {p}, u, a)
  <1>1. Len(l) \in Nat /\ (\A i \in 1..Len(l) : l[i] \in Event) /\ p \in S /\ p \notin j
    BY DEF Marks
  <1>2. f[p] = DebitOf(Writes(l[p]), u, a) /\ g[p] = 0
    BY <1>1 DEF Unmarked
  <1>3. Summable(f, S) /\ Summable(g, S)
    BY <1>1, EventWrites, PositionsFinite DEF Summable, Unmarked
  <1>4. \A y \in S : y # p => g[y] = f[y]
    BY DEF Unmarked
  <1>. HIDE DEF f, g, S
  <1>5. Total(g) = Total(f) - f[p] + g[p]
    BY <1>1, <1>3, <1>4, TotalChange
  <1>6. Total(f) \in Nat /\ f[p] \in Nat
    BY <1>1, <1>3, TotalBound
  <1>. QED  BY <1>2, <1>5, <1>6 DEF f, g

-----------------------------------------------------------------------------
(* Control *)

(* Head and tail of the engine's channel. *)
LEMMA ChannelFacts ==
    ASSUME CommandsOK, in # <<>>
    PROVE  /\ Head(in) \in Command /\ Head(in) = in[1] /\ 1 \in 1..Len(in)
           /\ Head(in).id \in OrderID /\ Head(in).kind \in {"place", "cancel"}
           /\ Tail(in) \in Seq(Command) /\ Len(Tail(in)) = Len(in) - 1
           /\ \A i \in 1..Len(Tail(in)) : Tail(in)[i] = in[i + 1] /\ i + 1 \in 1..Len(in)
           /\ Head(in) # None
  <1>1. in \in Seq(Command)
    BY DEF CommandsOK
  <1>2. Head(in) \in Command /\ Head(in) = in[1] /\ 1 \in 1..Len(in)
    BY <1>1
  <1>3. Head(in).id \in OrderID /\ Head(in).kind \in {"place", "cancel"}
    BY <1>2 DEF Command
  <1>. QED  BY <1>1, <1>2, <1>3, NoneIsNothing

(* The request of a command that waits in the channel is valid, and the book
   has no order for it. *)
LEMMA PlaceIsFresh ==
    ASSUME ControlInv, in # <<>>, Head(in).kind = "place"
    PROVE  /\ call[Head(in).id] = "waiting" /\ order[Head(in).id] = None
           /\ request[Head(in).id] \in Request
  <1>1. call[Head(in).id] = "waiting" /\ order[Head(in).id] = None
    BY ChannelFacts DEF ControlInv, CommandsOK
  <1>. QED  BY <1>1, ChannelFacts DEF ControlInv, CallsOK

(* The engine uses the book as OrderBook expects. *)
LEMMA BookStep ==
    ASSUME ControlInv, [Next]_vars
    PROVE  [OrderBookNext]_bookVars
  <1>1. CASE EnginePlace
    <2>1. /\ PlaceBegin(Head(in).id, request[Head(in).id]) /\ in # <<>>
          /\ Head(in).kind = "place"
      BY <1>1 DEF EnginePlace
    <2>2. Head(in).id \in OrderID /\ request[Head(in).id] \in Request
      BY <2>1, PlaceIsFresh, ChannelFacts DEF ControlInv
    <2>. QED  BY <2>1, <2>2 DEF OrderBookNext
  <1>2. CASE EngineMatch
    BY <1>2 DEF EngineMatch, OrderBookNext
  <1>3. CASE EngineFinish
    BY <1>3 DEF EngineFinish, OrderBookNext
  <1>4. CASE EngineCancel
    <2>1. Cancel(Head(in).id) /\ in # <<>>
      BY <1>4 DEF EngineCancel
    <2>2. Head(in).id \in OrderID
      BY <2>1, ChannelFacts DEF ControlInv
    <2>. QED  BY <2>1, <2>2 DEF OrderBookNext
  <1>5. CASE UNCHANGED bookVars
    BY <1>5
  <1>6. EnginePlace \/ EngineMatch \/ EngineFinish \/ EngineCancel \/ UNCHANGED bookVars
    BY DEF Next, ClientNext, EngineNext, SettlementNext, Idle, vars, Seed, PlaceOrder, Submit,
           AbandonSubmit, Return, Release, CancelOrder, AbandonCancel, EngineCancelUnknown,
           EnginePublish, EngineReply, SettlementReceive, SettlementWallet, SettlementUpsert,
           SettlementAppend
  <1>. QED  BY <1>1, <1>2, <1>3, <1>4, <1>5, <1>6

(* Orders appear when they are placed, and never disappear. *)
LEMMA OrdersAppear ==
    ASSUME ControlInv
    PROVE  /\ (EngineMatch \/ EngineFinish \/ EngineCancel) =>
                \A x \in OrderID : order'[x] # None <=> order[x] # None
           /\ EnginePlace =>
                \A x \in OrderID : order'[x] # None <=> (order[x] # None \/ x = Head(in).id)
  <1>0. BookInv /\ TypeOK /\ CommandsOK
    BY DEF ControlInv, BookInv
  <1>1. ASSUME EngineMatch
        PROVE  \A x \in OrderID : order'[x] # None <=> order[x] # None
    <2>1. PICK mid \in OrderID, qty \in Nat : Matches(mid, qty)
      BY <1>0, <1>1, MatchEffect DEF EngineMatch
    <2>2. /\ order[taker] \in Order /\ taker \in OrderID
          /\ order[mid] \in Order
          /\ qty > 0 /\ qty <= Remaining(order[mid])
          /\ order' = [order EXCEPT ![mid] = Executed(order[mid], qty),
                        ![taker] = [order[taker] EXCEPT !.filled = order[taker].filled + qty]]
      BY <2>1 DEF Matches
    <2>3. Executed(order[mid], qty) \in Order
      BY <2>2, ExecutedFacts
    <2>4. [order[taker] EXCEPT !.filled = order[taker].filled + qty] \in Order
      BY <2>2, OrderNumbers DEF Order
    <2>. QED  BY <1>0, <2>2, <2>3, <2>4, NoneIsNoOrder DEF TypeOK
  <1>2. ASSUME EngineFinish
        PROVE  \A x \in OrderID : order'[x] # None <=> order[x] # None
    <2>1. PICK st \in Status : order' = [order EXCEPT ![taker].status = st]
      BY <1>2 DEF EngineFinish, PlaceFinish, Status
    <2>2. taker \in OrderID /\ order[taker] \in Order
      BY <1>0, <1>2 DEF EngineFinish, PlaceFinish, BookInv, TypeOK, SequencesUnique
    <2>. QED  BY <1>0, <2>1, <2>2, StatusStep
  <1>3. ASSUME EngineCancel
        PROVE  \A x \in OrderID : order'[x] # None <=> order[x] # None
    <2>. DEFINE id == Head(in).id
    <2>1. id \in orders /\ order' = [order EXCEPT ![id].status = "CANCELLED"]
      BY <1>3 DEF EngineCancel, Cancel
    <2>2. id \in OrderID /\ order[id] \in Order
      BY <1>0, <2>1, IndexFacts DEF TypeOK, BookInv
    <2>. HIDE DEF id
    <2>3. "CANCELLED" \in Status
      BY DEF Status
    <2>. QED  BY <1>0, <2>1, <2>2, <2>3, StatusStep
  <1>4. ASSUME EnginePlace
        PROVE  \A x \in OrderID : order'[x] # None <=> (order[x] # None \/ x = Head(in).id)
    <2>1. PlaceBegin(Head(in).id, request[Head(in).id])
      BY <1>4 DEF EnginePlace
    <2>2. Head(in).id \in OrderID /\ request[Head(in).id] \in Request
      BY <1>0, <1>4, PlaceIsFresh, ChannelFacts DEF EnginePlace
    <2>. DEFINE r == request[Head(in).id]
                o == [userID |-> r.userID, side |-> r.side, price |-> r.price,
                      quantity |-> r.quantity, filled |-> 0, status |-> "OPEN",
                      sequence |-> orderSeq + 1]
    <2>3. order' = [order EXCEPT ![Head(in).id] = o]
      BY <2>1 DEF PlaceBegin
    <2>4. o \in Order
      BY <1>0, <2>2 DEF Order, Request, TypeOK, Status
    <2>. HIDE DEF o
    <2>. QED  BY <1>0, <2>2, <2>3, <2>4, NoneIsNoOrder DEF TypeOK
  <1>. QED  BY <1>1, <1>2, <1>3, <1>4

(* CallsOK is kept by a step that changes one call and no order. *)
LEMMA OneCall ==
    ASSUME CallsOK, NEW id \in OrderID, NEW st,
           st \in {"rejected", "submit", "waiting", "replied", "placed", "releasing", "failed"},
           call' = [call EXCEPT ![id] = st], UNCHANGED <<order, cancelCall>>,
           request' \in [OrderID -> PlaceOrderCommand \cup {None}],
           \A x \in OrderID : x # id => request'[x] = request[x],
           st # "rejected" => request'[id] \in Request,
           order[id] # None => st \in {"waiting", "replied", "placed"}
    PROVE  CallsOK'
  BY DEF CallsOK

(* Calls and requests. *)
LEMMA CallsStep ==
    ASSUME ControlInv, [Next]_vars
    PROVE  CallsOK'
  <1>0. CallsOK /\ CommandsOK
    BY DEF ControlInv
  <1>1. ASSUME NEW id \in OrderID, NEW c \in PlaceOrderCommand, PlaceOrder(id, c)
        PROVE  CallsOK'
    <2>1. /\ call[id] = "idle" /\ request' = [request EXCEPT ![id] = c]
          /\ UNCHANGED <<order, cancelCall>>
      BY <1>1 DEF PlaceOrder, bookVars
    <2>2. /\ request' \in [OrderID -> PlaceOrderCommand \cup {None}] /\ request'[id] = c
          /\ \A x \in OrderID : x # id => request'[x] = request[x]
          /\ order[id] = None
      BY <1>0, <2>1 DEF CallsOK
    <2>3. CASE call' = [call EXCEPT ![id] = "rejected"]
      BY <1>0, <2>1, <2>2, <2>3, OneCall
    <2>4. CASE Valid(c) /\ call' = [call EXCEPT ![id] = "submit"]
      <3>1. c \in Request
        BY <2>4, CommandAssumption DEF Valid
      <3>. QED  BY <1>0, <2>1, <2>2, <2>4, <3>1, OneCall
    <2>. QED  BY <1>1, <2>3, <2>4 DEF PlaceOrder
  <1>2. ASSUME NEW id \in OrderID, Submit(id) \/ AbandonSubmit(id) \/ Return(id) \/ Release(id)
        PROVE  CallsOK'
    <2>1. /\ call[id] \in {"submit", "replied", "releasing"}
          /\ UNCHANGED <<order, request, cancelCall>>
          /\ \/ call[id] = "submit" /\ call' = [call EXCEPT ![id] = "waiting"]
             \/ call[id] = "submit" /\ call' = [call EXCEPT ![id] = "releasing"]
             \/ call[id] = "replied" /\ call' = [call EXCEPT ![id] = "placed"]
             \/ call[id] = "releasing" /\ call' = [call EXCEPT ![id] = "failed"]
      BY <1>2 DEF Submit, AbandonSubmit, Return, Release, bookVars, clientVars
    <2>. QED  BY <1>0, <2>1 DEF CallsOK
  <1>3. ASSUME NEW id \in OrderID, CancelOrder(id) \/ AbandonCancel(id)
        PROVE  CallsOK'
    BY <1>0, <1>3 DEF CancelOrder, AbandonCancel, bookVars, CallsOK
  <1>4. CASE EnginePlace
    <2>1. /\ \A x \in OrderID : order'[x] # None <=> (order[x] # None \/ x = Head(in).id)
          /\ UNCHANGED clientVars /\ call[Head(in).id] = "waiting"
      BY <1>4, OrdersAppear, PlaceIsFresh DEF EnginePlace
    <2>. QED  BY <1>0, <2>1 DEF CallsOK, clientVars
  <1>5. CASE EngineMatch \/ EngineFinish \/ EngineCancel
    <2>1. /\ \A x \in OrderID : order'[x] # None <=> order[x] # None
          /\ UNCHANGED clientVars
      BY <1>5, OrdersAppear DEF EngineMatch, EngineFinish, EngineCancel
    <2>. QED  BY <1>0, <2>1 DEF CallsOK, clientVars
  <1>6. CASE EngineCancelUnknown
    <2>1. /\ cancelCall' = ReplyTo(cancelCall, Head(in).id, "not_found")
          /\ UNCHANGED <<order, call, request>>
      BY <1>6 DEF EngineCancelUnknown, bookVars
    <2>. QED  BY <1>0, <2>1 DEF CallsOK, ReplyTo
  <1>7. CASE EngineReply
    <2>1. /\ \/ call' = ReplyTo(call, serving.id, "replied") /\ UNCHANGED cancelCall
             \/ cancelCall' = ReplyTo(cancelCall, serving.id, "cancelled") /\ UNCHANGED call
          /\ UNCHANGED <<order, request>>
      BY <1>7 DEF EngineReply, bookVars
    <2>. QED  BY <1>0, <2>1 DEF CallsOK, ReplyTo
  <1>8. CASE UNCHANGED <<order, call, request, cancelCall>>
    BY <1>0, <1>8 DEF CallsOK
  <1>9. \/ \E id \in OrderID : \E c \in PlaceOrderCommand : PlaceOrder(id, c)
        \/ \E id \in OrderID : Submit(id) \/ AbandonSubmit(id) \/ Return(id) \/ Release(id)
        \/ \E id \in OrderID : CancelOrder(id) \/ AbandonCancel(id)
        \/ EnginePlace \/ EngineMatch \/ EngineFinish \/ EngineCancel
        \/ EngineCancelUnknown \/ EngineReply
        \/ UNCHANGED <<order, call, request, cancelCall>>
    BY DEF Next, ClientNext, EngineNext, SettlementNext, Idle, vars, bookVars, clientVars, Seed,
           EnginePublish, SettlementReceive, SettlementWallet, SettlementUpsert,
           SettlementAppend
  <1>. QED  BY <1>1, <1>2, <1>3, <1>4, <1>5, <1>6, <1>7, <1>8, <1>9

(* The place commands among some that wait: each once, for a call that waits
   and has no order. *)
Placeable(q) ==
    /\ \A i \in 1..Len(q) : q[i].kind = "place" =>
          call[q[i].id] = "waiting" /\ order[q[i].id] = None
    /\ \A i, j \in 1..Len(q) :
          (q[i].kind = "place" /\ q[j].kind = "place" /\ q[i].id = q[j].id) => i = j

(* Taking the first command out leaves the others placeable, and apart from it. *)
LEMMA PlaceableTail ==
    ASSUME CommandsOK, in # <<>>
    PROVE  /\ Placeable(Tail(in))
           /\ \A i \in 1..Len(Tail(in)) :
                (Head(in).kind = "place" /\ Tail(in)[i].kind = "place")
                   => Tail(in)[i].id # Head(in).id
  <1>. DEFINE q == Tail(in)
  <1>1. /\ Head(in) = in[1] /\ 1 \in 1..Len(in) /\ Len(in) \in Nat /\ Len(q) \in Nat
        /\ \A i \in 1..Len(q) : q[i] = in[i + 1] /\ i + 1 \in 1..Len(in) /\ i \in Nat
    BY ChannelFacts DEF CommandsOK
  <1>. HIDE DEF q
  <1>2. \A i \in 1..Len(q) : q[i].kind = "place" =>
          call[q[i].id] = "waiting" /\ order[q[i].id] = None
    BY <1>1 DEF CommandsOK
  <1>3. ASSUME NEW i \in 1..Len(q), NEW j \in 1..Len(q),
               q[i].kind = "place", q[j].kind = "place", q[i].id = q[j].id
        PROVE  i = j
    <2>1. q[i] = in[i + 1] /\ q[j] = in[j + 1] /\ i + 1 \in 1..Len(in) /\ j + 1 \in 1..Len(in)
      BY <1>1
    <2>2. in[i + 1].kind = "place" /\ in[j + 1].kind = "place" /\ in[i + 1].id = in[j + 1].id
      BY <1>3, <2>1, Zenon
    <2>3. i + 1 = j + 1
      BY <2>1, <2>2, Zenon DEF CommandsOK
    <2>. QED  BY <1>1, <2>3
  <1>4. ASSUME NEW i \in 1..Len(q), Head(in).kind = "place", q[i].kind = "place",
               q[i].id = Head(in).id
        PROVE  FALSE
    <2>1. i + 1 = 1
      BY <1>1, <1>4 DEF CommandsOK
    <2>. QED  BY <1>1, <2>1
  <1>. QED  BY <1>2, <1>3, <1>4 DEF Placeable, q

(* Commands name orders. *)
LEMMA CommandIDs ==
    /\ \A c \in Command : c.id \in OrderID
    /\ \A q \in Seq(Command) : \A i \in 1..Len(q) : q[i] \in Command /\ q[i].id \in OrderID
  <1>1. \A c \in Command : c.id \in OrderID
    BY DEF Command
  <1>2. \A q \in Seq(Command) : \A i \in 1..Len(q) : q[i] \in Command
    OBVIOUS
  <1>. QED  BY <1>1, <1>2, Zenon

(* Commands. *)
LEMMA CommandsStep ==
    ASSUME ControlInv, [Next]_vars
    PROVE  CommandsOK'
  <1>0. CallsOK /\ CommandsOK /\ in \in Seq(Command) /\ Len(in) \in Nat
    BY DEF ControlInv, CommandsOK
  <1>1. ASSUME NEW id \in OrderID, NEW st, call' = [call EXCEPT ![id] = st], call[id] # "waiting",
               UNCHANGED <<order, in, serving>>
        PROVE  CommandsOK'
    <2>1. \A i \in 1..Len(in) : in[i] \in Command /\ in[i].id \in OrderID
      BY <1>0, CommandIDs
    <2>2. serving # None => serving.id \in OrderID
      BY <1>0 DEF CommandsOK, Command
    <2>3. \A x \in OrderID : call[x] = "waiting" => call'[x] = "waiting"
      BY <1>0, <1>1 DEF CallsOK
    <2>. QED  BY <1>0, <1>1, <2>1, <2>2, <2>3 DEF CommandsOK
  <1>2. ASSUME NEW id \in OrderID, NEW c \in PlaceOrderCommand, PlaceOrder(id, c)
        PROVE  CommandsOK'
    <2>1. /\ call[id] = "idle" /\ UNCHANGED <<order, in, serving>>
          /\ \E st : call' = [call EXCEPT ![id] = st]
      BY <1>2 DEF PlaceOrder, bookVars, engineVars
    <2>. QED  BY <1>1, <2>1
  <1>3. ASSUME NEW id \in OrderID, AbandonSubmit(id) \/ Return(id) \/ Release(id)
        PROVE  CommandsOK'
    <2>1. /\ call[id] # "waiting" /\ UNCHANGED <<order, in, serving>>
          /\ \E st : call' = [call EXCEPT ![id] = st]
      BY <1>3 DEF AbandonSubmit, Return, Release, bookVars, engineVars
    <2>. QED  BY <1>1, <2>1
  <1>4. ASSUME NEW id \in OrderID, Submit(id)
        PROVE  CommandsOK'
    <2>. DEFINE c == [kind |-> "place", id |-> id]
    <2>1. /\ call[id] = "submit" /\ Len(in) < EngineBuffer /\ in' = Append(in, c)
          /\ call' = [call EXCEPT ![id] = "waiting"] /\ UNCHANGED <<order, serving>>
      BY <1>4 DEF Submit, bookVars
    <2>2. c \in Command /\ c.kind = "place" /\ c.id = id
      BY DEF Command
    <2>3. order[id] = None
      BY <1>0, <2>1 DEF CallsOK
    <2>. HIDE DEF c
    <2>4. /\ in' \in Seq(Command) /\ Len(in') = Len(in) + 1
          /\ \A i \in 1..Len(in) : in'[i] = in[i]
          /\ in'[Len(in) + 1] = c
      BY <1>0, <2>1, <2>2, AppendProperties
    <2>5. Len(in') <= EngineBuffer
      BY <1>0, <2>1, <2>4, BufferAssumption
    <2>6. \A i \in 1..Len(in') : i \in 1..Len(in) \/ i = Len(in) + 1
      BY <1>0, <2>4
    <2>7. /\ \A x \in OrderID : call[x] = "waiting" => call'[x] = "waiting" /\ x # id
          /\ call'[id] = "waiting"
      BY <1>0, <2>1 DEF CallsOK
    <2>8. \A i \in 1..Len(in) : in[i].id \in OrderID
      BY <1>0, CommandIDs
    <2>9. \A i \in 1..Len(in) : in[i].kind = "place" =>
            in[i].id # id /\ call'[in[i].id] = "waiting" /\ order'[in[i].id] = None
      BY <1>0, <2>1, <2>7, <2>8 DEF CommandsOK
    <2>10. ASSUME NEW i \in 1..Len(in'), in'[i].kind = "place"
           PROVE  call'[in'[i].id] = "waiting" /\ order'[in'[i].id] = None
      BY <2>1, <2>2, <2>3, <2>4, <2>6, <2>7, <2>9, <2>10
    <2>11. ASSUME NEW i \in 1..Len(in'), NEW j \in 1..Len(in'), in'[i].kind = "place",
                  in'[j].kind = "place", in'[i].id = in'[j].id
           PROVE  i = j
      <3>1. CASE i \in 1..Len(in) /\ j \in 1..Len(in)
        BY <1>0, <2>4, <2>11, <3>1 DEF CommandsOK
      <3>2. CASE i = Len(in) + 1 /\ j \in 1..Len(in)
        BY <2>2, <2>4, <2>9, <2>11, <3>2
      <3>3. CASE i \in 1..Len(in) /\ j = Len(in) + 1
        BY <2>2, <2>4, <2>9, <2>11, <3>3
      <3>. QED  BY <2>6, <3>1, <3>2, <3>3
    <2>12. /\ serving' \in Command \cup {None}
           /\ (serving' # None /\ serving'.kind = "place") =>
                 call'[serving'.id] = "waiting" /\ order'[serving'.id] # None
      BY <1>0, <2>1, <2>7 DEF CommandsOK, Command
    <2>. QED  BY <2>4, <2>5, <2>10, <2>11, <2>12 DEF CommandsOK
  <1>5. ASSUME NEW id \in OrderID, CancelOrder(id)
        PROVE  CommandsOK'
    <2>. DEFINE c == [kind |-> "cancel", id |-> id]
    <2>1. /\ Len(in) < EngineBuffer /\ in' = Append(in, c)
          /\ UNCHANGED <<call, order, serving>>
      BY <1>5 DEF CancelOrder, bookVars
    <2>2. c \in Command /\ c.kind = "cancel"
      BY DEF Command
    <2>. HIDE DEF c
    <2>3. /\ in' \in Seq(Command) /\ Len(in') = Len(in) + 1
          /\ \A i \in 1..Len(in) : in'[i] = in[i]
          /\ in'[Len(in) + 1] = c
      BY <1>0, <2>1, <2>2, AppendProperties
    <2>4. Len(in') <= EngineBuffer
      BY <1>0, <2>1, <2>3, BufferAssumption
    <2>5. \A i \in 1..Len(in') : in'[i].kind = "place" => i \in 1..Len(in) /\ in'[i] = in[i]
      <3>1. \A i \in 1..Len(in') : i \in 1..Len(in) \/ i = Len(in) + 1
        BY <1>0, <2>3
      <3>. QED  BY <2>2, <2>3, <3>1
    <2>. QED  BY <1>0, <2>1, <2>3, <2>4, <2>5 DEF CommandsOK
  <1>6. CASE EnginePlace
    <2>1. /\ in # <<>> /\ Head(in).kind = "place" /\ serving' = Head(in) /\ in' = Tail(in)
          /\ UNCHANGED call
      BY <1>6 DEF EnginePlace, clientVars
    <2>2. \A x \in OrderID : order'[x] # None <=> (order[x] # None \/ x = Head(in).id)
      BY <1>6, OrdersAppear
    <2>3. call[Head(in).id] = "waiting" /\ Head(in).id \in OrderID /\ Head(in) \in Command
      BY <1>0, <2>1, PlaceIsFresh, ChannelFacts
    <2>4. /\ in' \in Seq(Command) /\ Len(in') <= EngineBuffer
          /\ \A i \in 1..Len(in') : in'[i].id \in OrderID
      <3>1. in' \in Seq(Command) /\ Len(in') = Len(in) - 1
        BY <1>0, <2>1, ChannelFacts
      <3>. QED  BY <1>0, <3>1, BufferAssumption, CommandIDs DEF CommandsOK
    <2>5. Placeable(in') /\ \A i \in 1..Len(in') : in'[i].kind = "place" => in'[i].id # Head(in).id
      BY <1>0, <2>1, PlaceableTail
    <2>. QED  BY <2>1, <2>2, <2>3, <2>4, <2>5 DEF CommandsOK, Placeable
  <1>7. CASE EngineCancel
    <2>1. /\ in # <<>> /\ Head(in).kind = "cancel" /\ serving' = Head(in) /\ in' = Tail(in)
          /\ UNCHANGED call
      BY <1>7 DEF EngineCancel, clientVars
    <2>2. \A x \in OrderID : order'[x] # None <=> order[x] # None
      BY <1>7, OrdersAppear
    <2>3. Head(in) \in Command
      BY <1>0, <2>1, ChannelFacts
    <2>4. /\ in' \in Seq(Command) /\ Len(in') <= EngineBuffer
          /\ \A i \in 1..Len(in') : in'[i].id \in OrderID
      <3>1. in' \in Seq(Command) /\ Len(in') = Len(in) - 1
        BY <1>0, <2>1, ChannelFacts
      <3>. QED  BY <1>0, <3>1, BufferAssumption, CommandIDs DEF CommandsOK
    <2>5. Placeable(in')
      BY <1>0, <2>1, PlaceableTail
    <2>. QED  BY <2>1, <2>2, <2>3, <2>4, <2>5 DEF CommandsOK, Placeable
  <1>8. CASE EngineCancelUnknown
    <2>1. in # <<>> /\ in' = Tail(in) /\ UNCHANGED <<call, order, serving>>
      BY <1>8 DEF EngineCancelUnknown, bookVars
    <2>2. in' \in Seq(Command) /\ Len(in') <= EngineBuffer
      <3>1. in' \in Seq(Command) /\ Len(in') = Len(in) - 1
        BY <1>0, <2>1, ChannelFacts
      <3>. QED  BY <1>0, <3>1, BufferAssumption DEF CommandsOK
    <2>3. Placeable(in')
      BY <1>0, <2>1, PlaceableTail
    <2>. QED  BY <1>0, <2>1, <2>2, <2>3 DEF CommandsOK, Placeable
  <1>9. CASE EngineMatch \/ EngineFinish
    <2>1. /\ \A x \in OrderID : order'[x] # None <=> order[x] # None
          /\ UNCHANGED <<call, in, serving>>
      BY <1>9, OrdersAppear DEF EngineMatch, EngineFinish, clientVars, engineVars
    <2>2. /\ \A i \in 1..Len(in) : in[i].id \in OrderID
          /\ serving # None => serving.id \in OrderID
      BY <1>0, CommandIDs DEF CommandsOK
    <2>. QED  BY <1>0, <2>1, <2>2 DEF CommandsOK
  <1>10. CASE EngineReply
    <2>1. /\ serving # None /\ serving' = None /\ UNCHANGED <<order, in>>
          /\ \/ serving.kind = "place" /\ call' = ReplyTo(call, serving.id, "replied")
             \/ UNCHANGED call
      BY <1>10 DEF EngineReply, bookVars
    <2>2. \A i \in 1..Len(in) : in[i].id \in OrderID
      BY <1>0, CommandIDs
    <2>3. \A i \in 1..Len(in) : in[i].kind = "place" => call'[in[i].id] = "waiting"
      <3>1. CASE UNCHANGED call
        BY <1>0, <3>1 DEF CommandsOK
      <3>2. CASE serving.kind = "place" /\ call' = ReplyTo(call, serving.id, "replied")
        <4>1. order[serving.id] # None
          BY <1>0, <2>1, <3>2 DEF CommandsOK
        <4>2. \A x \in OrderID : x # serving.id => call'[x] = call[x]
          BY <1>0, <3>2 DEF ReplyTo, CallsOK
        <4>. QED  BY <1>0, <2>2, <4>1, <4>2 DEF CommandsOK
      <3>. QED  BY <2>1, <3>1, <3>2
    <2>. QED  BY <1>0, <2>1, <2>3 DEF CommandsOK
  <1>11. CASE UNCHANGED <<order, call, in, serving>>
    BY <1>0, <1>11 DEF CommandsOK
  <1>12. \/ \E id \in OrderID : \E c \in PlaceOrderCommand : PlaceOrder(id, c)
         \/ \E id \in OrderID : Submit(id)
         \/ \E id \in OrderID : AbandonSubmit(id) \/ Return(id) \/ Release(id)
         \/ \E id \in OrderID : CancelOrder(id)
         \/ EnginePlace \/ EngineMatch \/ EngineFinish \/ EngineCancel
         \/ EngineCancelUnknown \/ EngineReply
         \/ UNCHANGED <<order, call, in, serving>>
    BY DEF Next, ClientNext, EngineNext, SettlementNext, Idle, vars, bookVars, clientVars,
           engineVars, Seed, AbandonCancel, EnginePublish, SettlementReceive, SettlementWallet,
           SettlementUpsert, SettlementAppend
  <1>. QED  BY <1>2, <1>3, <1>4, <1>5, <1>6, <1>7, <1>8, <1>9, <1>10, <1>11, <1>12

(* What a resting order releases when it is cancelled, or holds. *)
LEMMA UnfilledFacts ==
    ASSUME NEW o \in Order, o.filled <= o.quantity
    PROVE  /\ Remaining(o) \in Nat /\ Remaining(o) * o.price \in Nat
           /\ CancelRelease(o).COP = IF o.side = "BUY" THEN Remaining(o) * o.price ELSE 0
           /\ CancelRelease(o).Vibranium = IF o.side = "SELL" THEN Remaining(o) ELSE 0
           /\ CancelRelease(o).COP \in Nat /\ CancelRelease(o).Vibranium \in Nat
           /\ \A a \in Asset : Unfilled(o, a) \in Nat
  <1>1. Remaining(o) \in Nat /\ o.price \in Nat
    BY OrderNumbers DEF Remaining
  <1>2. \A x, y \in Nat : x * y \in Nat
    OBVIOUS
  <1>3. Remaining(o) * o.price \in Nat
    BY <1>1, <1>2
  <1>4. /\ CancelRelease(o).COP = IF o.side = "BUY" THEN Remaining(o) * o.price ELSE 0
        /\ CancelRelease(o).Vibranium = IF o.side = "SELL" THEN Remaining(o) ELSE 0
    BY DEF CancelRelease
  <1>. QED  BY <1>1, <1>3, <1>4 DEF Unfilled

(* The trade of a match is one the engine makes, at a price within the limit
   of the taker. *)
LEMMA MatchMakes ==
    ASSUME BookInv, NEW mid, NEW qty, Matches(mid, qty)
    PROVE  /\ NewTrade(order[taker], taker, order[mid], mid, qty) \in MadeTrade
           /\ PriceImprovement(order[taker], order[mid].price, qty) \in Nat
  <1>. DEFINE o == order[taker]
              m == order[mid]
  <1>1. /\ taker \in OrderID /\ o \in Order /\ mid \in OrderID /\ m \in Order
        /\ Crosses(o.side, o.price, m.price) /\ qty \in Positive /\ qty \in Nat
    BY DEF Matches, Positive
  <1>. HIDE DEF o, m
  <1>2. /\ o.userID \in UserID /\ m.userID \in UserID /\ m.price \in Price
        /\ o.price \in Nat /\ m.price \in Nat
    BY <1>1, OrderNumbers
  <1>3. tradeSeq + 1 \in Nat
    BY DEF BookInv, TypeOK
  <1>4. NewTrade(o, taker, m, mid, qty) \in MadeTrade
    BY <1>1, <1>2, <1>3 DEF NewTrade, MadeTrade
  <1>5. o.side = "BUY" => o.price - m.price \in Nat
    BY <1>1, <1>2 DEF Crosses
  <1>6. \A x, y \in Nat : x * y \in Nat
    OBVIOUS
  <1>7. PriceImprovement(o, m.price, qty) \in Nat
    BY <1>1, <1>5, <1>6 DEF PriceImprovement
  <1>. QED  BY <1>4, <1>7 DEF o, m

(* The taker's fills are made by the matching loop. *)
LEMMA FillsMade ==
    ASSUME ControlInv
    PROVE  Made(res.fills) /\ res.takerReleaseCOP \in Nat
  BY DEF ControlInv, BookInv, TypeOK, PlaceResult, PhasesOK, Made

(* The phases of a command. *)
LEMMA PhasesStep ==
    ASSUME ControlInv, [Next]_vars
    PROVE  PhasesOK'
  <1>0. PhasesOK /\ CommandsOK /\ BookInv
    BY DEF ControlInv
  <1>1. CASE EnginePlace
    <2>1. /\ serving = None /\ in # <<>> /\ serving' = Head(in) /\ UNCHANGED outbox
          /\ res' = [fills |-> <<>>, takerReleaseCOP |-> 0]
      BY <1>1 DEF EnginePlace, EngineIdle, PlaceBegin
    <2>2. serving' # None
      BY <1>0, <2>1, ChannelFacts
    <2>3. res'.fills = <<>> /\ res'.takerReleaseCOP = 0
      BY <2>1
    <2>. QED  BY <1>0, <2>1, <2>2, <2>3 DEF PhasesOK
  <1>2. CASE EngineMatch
    <2>1. PICK mid \in OrderID, qty \in Nat : Matches(mid, qty)
      BY <1>0, <1>2, MatchEffect DEF EngineMatch
    <2>. DEFINE o == order[taker]
                m == order[mid]
                t == NewTrade(o, taker, m, mid, qty)
                x == PriceImprovement(o, m.price, qty)
                f == [trade |-> t, makerID |-> mid, maker |-> Executed(m, qty)]
    <2>2. t \in MadeTrade /\ x \in Nat
      BY <1>0, <2>1, MatchMakes
    <2>3. /\ f \in Fill /\ taker' = taker /\ taker \in OrderID
          /\ res' = [fills |-> Append(res.fills, f), takerReleaseCOP |-> res.takerReleaseCOP + x]
      BY <2>1 DEF Matches
    <2>4. f.trade = t
      OBVIOUS
    <2>. HIDE DEF o, m, t, x, f
    <2>5. Made(Append(res.fills, f))
      BY <2>2, <2>3, <2>4, FillsMade, FillEventsFacts
    <2>6. res'.fills = Append(res.fills, f) /\ res'.takerReleaseCOP \in Nat
      BY <2>2, <2>3, FillsMade
    <2>7. UNCHANGED <<serving, outbox>>
      BY <1>2 DEF EngineMatch, engineVars
    <2>. QED  BY <1>0, <2>3, <2>5, <2>6, <2>7 DEF PhasesOK, Made
  <1>3. CASE EngineFinish
    <2>1. taker # None /\ taker' = None /\ UNCHANGED <<serving, res>>
      BY <1>3 DEF EngineFinish, PlaceFinish
    <2>. QED  BY <1>0, <2>1 DEF PhasesOK
  <1>4. CASE EngineCancel
    <2>1. /\ in # <<>> /\ serving' = Head(in) /\ taker' = taker /\ taker = None /\ UNCHANGED res
      BY <1>4 DEF EngineCancel, Cancel
    <2>2. serving' # None
      BY <1>0, <2>1, ChannelFacts
    <2>. QED  BY <1>0, <2>1, <2>2 DEF PhasesOK
  <1>5. CASE EnginePublish
    BY <1>0, <1>5 DEF EnginePublish, PhasesOK, bookVars
  <1>6. CASE EngineReply
    BY <1>0, <1>6 DEF EngineReply, PhasesOK, bookVars
  <1>7. CASE UNCHANGED <<taker, res, serving, outbox>>
    BY <1>0, <1>7 DEF PhasesOK
  <1>8. \/ EnginePlace \/ EngineMatch \/ EngineFinish \/ EngineCancel
        \/ EnginePublish \/ EngineReply
        \/ UNCHANGED <<taker, res, serving, outbox>>
    BY DEF Next, ClientNext, EngineNext, SettlementNext, Idle, vars, bookVars, clientVars,
           engineVars, Seed, PlaceOrder, Submit, AbandonSubmit, Return, Release, CancelOrder,
           AbandonCancel, EngineCancelUnknown, SettlementReceive, SettlementWallet,
           SettlementUpsert, SettlementAppend
  <1>. QED  BY <1>1, <1>2, <1>3, <1>4, <1>5, <1>6, <1>7, <1>8

(* The positions of the log. *)
LEMMA LogFacts ==
    ASSUME LogOK
    PROVE  /\ Len(log) \in Nat /\ pos \in Nat /\ pos <= Len(log)
           /\ log \in Seq(Event) /\ outbox \in Seq(Event)
           /\ journal \in SUBSET (1..Len(log))
  <1>1. log \in Seq(Event) /\ pos \in 0..Len(log)
    BY DEF LogOK
  <1>. QED  BY <1>1 DEF LogOK

(* With the journal complete up to pos, what is after pos is undelivered. *)
LEMMA UndeliveredIs ==
    ASSUME LogOK, DeliveryOK
    PROVE  Undelivered = Len(log) - pos
  <1>1. Len(log) \in Nat /\ pos \in Nat /\ pos <= Len(log) /\ journal = 1..pos
    BY LogFacts DEF DeliveryOK
  <1>. DEFINE S == {pos} \cup journal
  <1>2. pos \in S /\ \A y \in S : y \in Nat /\ pos >= y
    BY <1>1
  <1>3. Max(S) = pos
    <2>. DEFINE M == CHOOSE x \in S : \A y \in S : x >= y
    <2>. HIDE DEF S
    <2>1. M \in S /\ \A y \in S : M >= y
      BY <1>2
    <2>. HIDE DEF M
    <2>2. M \in Nat /\ pos >= M /\ M >= pos
      BY <1>2, <2>1
    <2>3. M = pos
      BY <1>1, <2>2
    <2>. QED  BY <2>3 DEF Max, M
  <1>. QED  BY <1>3 DEF Undelivered

(* The order whose Place call ends is an order. *)
LEMMA FinishedOrder ==
    ASSUME BookInv, PlaceFinish
    PROVE  /\ taker \in OrderID /\ order[taker] \in Order /\ order'[taker] \in Order
           /\ taker \notin orders
           /\ \A x \in OrderID : x # taker => order'[x] = order[x]
           /\ order'[taker].userID = order[taker].userID
           /\ order'[taker].filled = order[taker].filled
           /\ order'[taker].quantity = order[taker].quantity
           /\ order'[taker].side = order[taker].side
           /\ order'[taker].price = order[taker].price
  <1>1. PICK st \in Status : order' = [order EXCEPT ![taker].status = st]
    BY DEF PlaceFinish, Status
  <1>2. taker \in OrderID /\ order[taker] \in Order /\ taker \notin orders
    BY DEF PlaceFinish, BookInv, TypeOK, SequencesUnique
  <1>3. order \in [OrderID -> Order \cup {None}]
    BY DEF BookInv, TypeOK
  <1>4. order'[taker] = [order[taker] EXCEPT !.status = st]
    BY <1>1, <1>2, <1>3
  <1>5. \A x \in OrderID : x # taker => order'[x] = order[x]
    BY <1>1, <1>3
  <1>. QED  BY <1>2, <1>4, <1>5 DEF Order

(* The order that is cancelled was resting. *)
LEMMA CancelledOrder ==
    ASSUME BookInv, NEW id, Cancel(id)
    PROVE  /\ id \in OrderID /\ order[id] \in Order /\ order'[id] \in Order
           /\ id \in orders /\ orders' = orders \ {id} /\ taker = None /\ taker' = None
           /\ \A x \in OrderID : x # id => order'[x] = order[x]
           /\ order'[id].userID = order[id].userID
           /\ order[id].filled <= order[id].quantity
  <1>1. /\ id \in orders /\ order' = [order EXCEPT ![id].status = "CANCELLED"]
        /\ orders' = orders \ {id} /\ taker = None /\ taker' = None
    BY DEF Cancel
  <1>2. order \in [OrderID -> Order \cup {None}]
    BY DEF BookInv, TypeOK
  <1>3. id \in OrderID /\ order[id] \in Order
    BY <1>1, <1>2, IndexFacts DEF BookInv, TypeOK
  <1>4. order[id].filled <= order[id].quantity
    BY <1>3, NoneIsNoOrder DEF BookInv, StatusMatchesFill
  <1>5. order'[id] = [order[id] EXCEPT !.status = "CANCELLED"]
    BY <1>1, <1>2, <1>3
  <1>6. \A x \in OrderID : x # id => order'[x] = order[x]
    BY <1>1, <1>2
  <1>. QED  BY <1>1, <1>3, <1>4, <1>5, <1>6 DEF Order, Status

(* The outbox and the log. *)
LEMMA LogStep ==
    ASSUME ControlInv, [Next]_vars
    PROVE  LogOK'
  <1>0. LogOK /\ BookInv
    BY DEF ControlInv
  <1>1. CASE EngineFinish
    <2>1. /\ PlaceFinish /\ outbox' = PlaceEvents(res, taker, order'[taker])
          /\ UNCHANGED <<log, pos, journal>>
      BY <1>1 DEF EngineFinish, logVars, settlementVars
    <2>2. taker \in OrderID /\ order'[taker] \in Order
      BY <1>0, <2>1, FinishedOrder
    <2>3. outbox' \in Seq(Event)
      BY <2>1, <2>2, FillsMade, PlaceEventsFacts
    <2>. QED  BY <1>0, <2>1, <2>3 DEF LogOK
  <1>2. CASE EngineCancel
    <2>. DEFINE id == Head(in).id
                x == CancelRelease(order[id]).COP
                y == CancelRelease(order[id]).Vibranium
                e == OrderUpdated(id, order'[id], x, y)
    <2>1. Cancel(id) /\ outbox' = <<e>> /\ UNCHANGED <<log, pos, journal>>
      BY <1>2 DEF EngineCancel, logVars, settlementVars
    <2>2. /\ id \in OrderID /\ order'[id] \in Order /\ order[id] \in Order
          /\ order[id].filled <= order[id].quantity
      BY <1>0, <2>1, CancelledOrder
    <2>3. x \in Nat /\ y \in Nat
      BY <2>2, UnfilledFacts
    <2>4. e \in Event
      BY <2>2, <2>3, EventTypes
    <2>. HIDE DEF e
    <2>5. outbox' \in Seq(Event)
      BY <2>1, <2>4
    <2>. QED  BY <1>0, <2>1, <2>5 DEF LogOK
  <1>3. CASE EnginePublish
    <2>1. /\ outbox # <<>> /\ log' = Append(log, Head(outbox))
          /\ outbox' = Tail(outbox) /\ UNCHANGED <<pos, journal>>
      BY <1>3 DEF EnginePublish, settlementVars
    <2>2. /\ outbox \in Seq(Event) /\ log \in Seq(Event) /\ pos \in 0..Len(log)
          /\ journal \in SUBSET (1..Len(log))
      BY <1>0 DEF LogOK
    <2>3. Head(outbox) \in Event /\ Tail(outbox) \in Seq(Event)
      BY <2>1, <2>2
    <2>. DEFINE e == Head(outbox)
    <2>. HIDE DEF e
    <2>4. log' \in Seq(Event) /\ Len(log') = Len(log) + 1
      BY <2>1, <2>2, <2>3, AppendProperties DEF e
    <2>5. pos \in 0..Len(log') /\ journal \in SUBSET (1..Len(log'))
      BY <2>2, <2>4
    <2>. QED  BY <2>1, <2>3, <2>4, <2>5 DEF LogOK
  <1>4. CASE SettlementReceive
    <2>1. /\ pos < Len(log) /\ pos' = pos + 1 /\ journal' = journal \cup {pos + 1}
          /\ UNCHANGED <<outbox, log>>
      BY <1>4 DEF SettlementReceive, MarkProcessed, engineVars
    <2>2. pos' \in 0..Len(log) /\ pos + 1 \in 1..Len(log)
      BY <1>0, <2>1, LogFacts
    <2>. QED  BY <1>0, <2>1, <2>2 DEF LogOK
  <1>5. CASE UNCHANGED <<outbox, log, pos, journal>>
    BY <1>0, <1>5 DEF LogOK
  <1>6. \/ EngineFinish \/ EngineCancel \/ EnginePublish \/ SettlementReceive
        \/ UNCHANGED <<outbox, log, pos, journal>>
    BY DEF Next, ClientNext, EngineNext, SettlementNext, Idle, vars, bookVars, clientVars,
           engineVars, logVars, settlementVars, Seed, PlaceOrder, Submit, AbandonSubmit, Return,
           Release, CancelOrder, AbandonCancel, EnginePlace, EngineMatch, EngineCancelUnknown,
           EngineReply, SettlementWallet, SettlementUpsert, SettlementAppend
  <1>. QED  BY <1>1, <1>2, <1>3, <1>4, <1>5, <1>6

(* Settlement's job. *)
LEMMA JobStep ==
    ASSUME ControlInv, [Next]_vars
    PROVE  JobOK'
  <1>0. JobOK /\ LogOK
    BY DEF ControlInv
  <1>1. CASE SettlementReceive
    <2>1. pos < Len(log) /\ job' = IF Fresh(pos + 1) THEN Writes(log[pos + 1]) ELSE <<>>
      BY <1>1 DEF SettlementReceive
    <2>2. log \in Seq(Event) /\ pos + 1 \in 1..Len(log)
      BY <1>0, <2>1, LogFacts
    <2>3. log[pos + 1] \in Event
      BY <2>2
    <2>4. CASE job' = Writes(log[pos + 1])
      BY <2>3, <2>4, EventWrites DEF JobOK
    <2>5. CASE job' = <<>>
      BY <2>5 DEF JobOK, Paired
    <2>. QED  BY <2>1, <2>4, <2>5
  <1>2. CASE SettlementWallet \/ SettlementUpsert \/ SettlementAppend
    <2>1. job # <<>> /\ job' = Tail(job)
      BY <1>2 DEF SettlementWallet, SettlementUpsert, SettlementAppend
    <2>. QED  BY <1>0, <2>1, PairedTail DEF JobOK
  <1>3. CASE UNCHANGED job
    BY <1>0, <1>3 DEF JobOK
  <1>4. \/ SettlementReceive \/ SettlementWallet \/ SettlementUpsert \/ SettlementAppend
        \/ UNCHANGED job
    BY DEF Next, ClientNext, EngineNext, SettlementNext, Idle, vars, bookVars, clientVars,
           engineVars, logVars, settlementVars, Seed, PlaceOrder, Submit, AbandonSubmit, Return,
           Release, CancelOrder, AbandonCancel, EnginePlace, EngineMatch, EngineFinish,
           EngineCancel, EngineCancelUnknown, EnginePublish, EngineReply
  <1>. QED  BY <1>1, <1>2, <1>3, <1>4

(* The first write of the job. *)
LEMMA JobHead ==
    ASSUME JobOK, job # <<>>
    PROVE  /\ Head(job) \in Write /\ Tail(job) \in Seq(Write)
           /\ Head(job).write \in WalletWrites => Head(job) \in WalletWrite /\ Head(job).user \in UserID
           /\ Head(job).write \notin WalletWrites => \A u, a : Debit(Head(job), u, a) = 0
  <1>1. Head(job) \in Write /\ Tail(job) \in Seq(Write)
    BY PairedTail DEF JobOK
  <1>2. \A j \in WalletWrite : j.user \in UserID
    BY DEF WalletWrite
  <1>. QED  BY <1>1, <1>2, WriteKinds

(* A wallet that is updated is of natural numbers if the new one is. *)
LEMMA UpdateKeepsType ==
    ASSUME StoresOK, NEW u \in UserID, NEW w, UpdateWallet(u, w),
           wallets[u] # None => w \in NatWallet
    PROVE  wallets' \in [UserID -> NatWallet \cup {None}]
  BY DEF StoresOK, UpdateWallet

(* A call that may be released has a wallet's request. *)
LEMMA CallRequest ==
    ASSUME CallsOK, NEW id \in OrderID, call[id] \notin {"idle", "rejected"}
    PROVE  request[id] \in Request /\ request[id].userID \in UserID
  BY ReservedFacts DEF CallsOK

(* None is no wallet. *)
LEMMA NoneIsNoWallet ==
    /\ NatWallet \subseteq Wallet
    /\ None \notin NatWallet
  <1>1. NatWallet \subseteq Wallet
    BY DEF NatWallet, Wallet
  <1>. QED  BY <1>1, NoneIsNothing

(* The repositories. *)
LEMMA StoresStep ==
    ASSUME ControlInv, [Next]_vars
    PROVE  StoresOK'
  <1>0. StoresOK /\ CallsOK /\ JobOK
    BY DEF ControlInv
  <1>1. ASSUME NEW u \in UserID, Seed(u)
        PROVE  StoresOK'
    <2>1. SeededWallet(Deposit[u].COP, Deposit[u].Vibranium) \in NatWallet
      BY DepositAssumption DEF SeededWallet, NatWallet
    <2>. QED  BY <1>0, <1>1, <2>1 DEF Seed, UpsertWallet, settlementVars, StoresOK
  <1>2. ASSUME NEW id \in OrderID, NEW c \in PlaceOrderCommand, PlaceOrder(id, c)
        PROVE  StoresOK'
    <2>1. UNCHANGED <<projection, trades>>
      BY <1>2 DEF PlaceOrder, settlementVars
    <2>2. CASE UNCHANGED wallets
      BY <1>0, <2>1, <2>2 DEF StoresOK
    <2>3. CASE /\ Valid(c) /\ wallets[c.userID] # None /\ CanReserve(wallets[c.userID], c)
               /\ UpdateWallet(c.userID, Reserve(wallets[c.userID], c))
      <3>1. c \in Request /\ c.userID \in UserID
        BY <2>3, CommandAssumption, ReservedFacts DEF Valid
      <3>2. wallets[c.userID] \in NatWallet
        BY <1>0, <2>3, <3>1 DEF StoresOK
      <3>3. Reserve(wallets[c.userID], c) \in NatWallet
        BY <2>3, <3>1, <3>2, ReserveFacts
      <3>. QED  BY <1>0, <2>1, <2>3, <3>1, <3>3, UpdateKeepsType DEF StoresOK
    <2>. QED  BY <1>2, <2>2, <2>3 DEF PlaceOrder
  <1>3. ASSUME NEW id \in OrderID, Release(id)
        PROVE  StoresOK'
    <2>. DEFINE c == request[id]
                u == c.userID
    <2>1. /\ call[id] = "releasing" /\ UpdateWallet(u, Unreserve(wallets[u], c))
          /\ UNCHANGED <<projection, trades>>
      BY <1>3 DEF Release, settlementVars
    <2>2. c \in Request /\ u \in UserID
      BY <1>0, <2>1, CallRequest
    <2>3. wallets[u] # None => wallets[u] \in NatWallet
      BY <1>0, <2>2 DEF StoresOK
    <2>4. wallets[u] # None => Unreserve(wallets[u], c) \in NatWallet
      BY <2>2, <2>3, UnreserveFacts
    <2>. QED  BY <1>0, <2>1, <2>2, <2>4, UpdateKeepsType DEF StoresOK
  <1>4. CASE SettlementWallet
    <2>. DEFINE j == Head(job)
                u == j.user
    <2>1. /\ job # <<>> /\ j.write \in WalletWrites /\ UpdateWallet(u, Apply(wallets[u], j))
          /\ UNCHANGED <<projection, trades>>
      BY <1>4 DEF SettlementWallet
    <2>2. j \in WalletWrite /\ u \in UserID
      BY <1>0, <2>1, JobHead
    <2>3. wallets[u] # None => wallets[u] \in NatWallet
      BY <1>0, <2>2 DEF StoresOK
    <2>4. wallets[u] # None => Apply(wallets[u], j) \in NatWallet
      BY <2>2, <2>3, ApplyMoves
    <2>. QED  BY <1>0, <2>1, <2>2, <2>4, UpdateKeepsType DEF StoresOK
  <1>5. CASE SettlementUpsert
    <2>1. Head(job).id \in OrderID /\ Head(job).order \in Order
      BY <1>0, <1>5, JobHead, WriteKinds DEF SettlementUpsert
    <2>. QED  BY <1>0, <1>5, <2>1 DEF SettlementUpsert, UpsertOrder, StoresOK
  <1>6. CASE SettlementAppend
    <2>. DEFINE t == Head(job).trade
    <2>1. t \in Trade
      BY <1>0, <1>6, JobHead, WriteKinds DEF SettlementAppend
    <2>2. trades' = Append(trades, t) /\ UNCHANGED <<projection, wallets>>
      BY <1>6 DEF SettlementAppend, AppendTrade
    <2>. HIDE DEF t
    <2>. QED  BY <1>0, <2>1, <2>2 DEF StoresOK
  <1>7. CASE UNCHANGED <<wallets, projection, trades>>
    BY <1>0, <1>7 DEF StoresOK
  <1>8. \/ \E u \in UserID : Seed(u)
        \/ \E id \in OrderID : \E c \in PlaceOrderCommand : PlaceOrder(id, c)
        \/ \E id \in OrderID : Release(id)
        \/ SettlementWallet \/ SettlementUpsert \/ SettlementAppend
        \/ UNCHANGED <<wallets, projection, trades>>
    BY DEF Next, ClientNext, EngineNext, SettlementNext, Idle, vars, bookVars, clientVars,
           engineVars, logVars, settlementVars, Submit, AbandonSubmit, Return,
           CancelOrder, AbandonCancel, EnginePlace, EngineMatch, EngineFinish,
           EngineCancel, EngineCancelUnknown, EnginePublish, EngineReply, SettlementReceive
  <1>. QED  BY <1>1, <1>2, <1>3, <1>4, <1>5, <1>6, <1>7, <1>8

(* A step keeps the control invariant. *)
LEMMA ControlStep ==
    ASSUME ControlInv, [Next]_vars
    PROVE  ControlInv'
  <1>1. BookInv'
    <2>1. [OrderBookNext]_bookVars
      BY BookStep
    <2>. QED  BY <2>1, BookStepInv DEF ControlInv
  <1>. QED  BY <1>1, CallsStep, CommandsStep, PhasesStep, LogStep, JobStep, StoresStep
            DEF ControlInv

(* It holds when the process starts. *)
LEMMA ControlInit ==
    ASSUME Init
    PROVE  ControlInv
  <1>. USE DEF Init, Started, Untouched
  <1>1. BookInv
    BY InitInv
  <1>2. CallsOK
    BY DEF CallsOK, OrderBookInit
  <1>3. CommandsOK
    BY BufferAssumption DEF CommandsOK
  <1>4. PhasesOK
    BY DEF PhasesOK, OrderBookInit
  <1>5. LogOK
    BY BufferAssumption DEF LogOK
  <1>6. JobOK
    BY DEF JobOK, Paired
  <1>7. StoresOK
    BY DEF StoresOK
  <1>. QED  BY <1>1, <1>2, <1>3, <1>4, <1>5, <1>6, <1>7 DEF ControlInv

(* Control flow and types of the whole exchange, for any number of users,
   orders, requests and any buffer sizes. *)
THEOREM ControlInvariant == Spec => []ControlInv
  <1>1. Init => ControlInv
    BY ControlInit
  <1>2. ControlInv /\ [Next]_vars => ControlInv'
    BY ControlStep
  <1>. QED  BY <1>1, <1>2, PTL DEF Spec

(* Every event is delivered once, and marked as it is delivered. *)
LEMMA DeliveryStep ==
    ASSUME ControlInv, DeliveryOK, [Next]_vars
    PROVE  DeliveryOK'
  <1>0. LogOK /\ CallsOK /\ LogBuffer \in Nat
    BY BufferAssumption DEF ControlInv
  <1>1. \A id \in OrderID : call'[id] # "cut"
    <2>1. \/ UNCHANGED call
          \/ \E id \in OrderID :
                \E st \in {"rejected", "submit", "waiting", "placed", "releasing", "failed"} :
                   call' = [call EXCEPT ![id] = st]
          \/ call' = ReplyTo(call, serving.id, "replied")
      BY DEF Next, ClientNext, EngineNext, SettlementNext, Idle, vars, clientVars, Seed,
             PlaceOrder, Submit, AbandonSubmit, Return, Release, CancelOrder, AbandonCancel,
             EnginePlace, EngineMatch, EngineFinish, EngineCancel, EngineCancelUnknown,
             EnginePublish, EngineReply, SettlementReceive, SettlementWallet, SettlementUpsert,
             SettlementAppend
    <2>. QED  BY <1>0, <2>1 DEF CallsOK, DeliveryOK, ReplyTo
  <1>2. CASE EnginePublish
    <2>1. /\ Undelivered < LogBuffer /\ log' = Append(log, Head(outbox)) /\ outbox # <<>>
          /\ UNCHANGED <<pos, journal>>
      BY <1>2 DEF EnginePublish, settlementVars
    <2>2. Len(log') = Len(log) + 1
      <3>1. Head(outbox) \in Event /\ log \in Seq(Event)
        BY <1>0, <2>1, LogFacts
      <3>. QED  BY <2>1, <3>1, AppendProperties
    <2>3. Len(log') - pos <= LogBuffer
      BY <1>0, <2>1, <2>2, UndeliveredIs, LogFacts
    <2>. QED  BY <1>1, <2>1, <2>3 DEF DeliveryOK
  <1>3. CASE SettlementReceive
    <2>1. /\ pos < Len(log) /\ pos' = pos + 1 /\ journal' = journal \cup {pos + 1}
          /\ UNCHANGED log
      BY <1>3 DEF SettlementReceive, MarkProcessed
    <2>2. journal' = 1..pos' /\ Len(log) - pos' <= LogBuffer
      BY <1>0, <2>1, LogFacts DEF DeliveryOK
    <2>. QED  BY <1>1, <2>1, <2>2 DEF DeliveryOK
  <1>4. CASE UNCHANGED <<log, pos, journal>>
    BY <1>1, <1>4 DEF DeliveryOK
  <1>5. EnginePublish \/ SettlementReceive \/ UNCHANGED <<log, pos, journal>>
    BY DEF Next, ClientNext, EngineNext, SettlementNext, Idle, vars, logVars, settlementVars,
           Seed, PlaceOrder, Submit, AbandonSubmit, Return, Release, CancelOrder, AbandonCancel,
           EnginePlace, EngineMatch, EngineFinish, EngineCancel, EngineCancelUnknown,
           EngineReply, SettlementWallet, SettlementUpsert, SettlementAppend
  <1>. QED  BY <1>2, <1>3, <1>4, <1>5

(* The log of a process that never dies delivers every event once, in order,
   and has no more of them waiting than its buffer holds. *)
THEOREM DeliveryInvariant == Spec => []DeliveryOK
  <1>1. Init => DeliveryOK
    BY BufferAssumption DEF Init, Untouched, DeliveryOK
  <1>2. ControlInv /\ DeliveryOK /\ [Next]_vars => DeliveryOK'
    BY DeliveryStep
  <1>. QED  BY <1>1, <1>2, ControlInvariant, PTL DEF Spec

(* Every variable of the exchange keeps its type and every channel its bound. *)
THEOREM ExchangeTypes == Spec => []ExchangeTypeOK
  <1>1. ASSUME ControlInv, DeliveryOK
        PROVE  ExchangeTypeOK
    <2>0. BookInv /\ CallsOK /\ CommandsOK /\ LogOK /\ StoresOK
      BY <1>1 DEF ControlInv
    <2>1. TypeOK
      BY <2>0 DEF BookInv
    <2>2. /\ pos \in 0..Len(log) /\ Undelivered <= LogBuffer
          /\ journal \in SUBSET (1..Len(log))
      BY <1>1, <2>0, UndeliveredIs DEF LogOK, DeliveryOK
    <2>3. wallets \in [UserID -> Wallet \cup {None}]
      BY <2>0, NoneIsNoWallet DEF StoresOK
    <2>4. call \in [OrderID -> {"idle", "rejected", "submit", "waiting",
                                "replied", "placed", "releasing", "failed"}]
      BY <1>1, <2>0 DEF CallsOK, DeliveryOK
    <2>. QED  BY <2>0, <2>1, <2>2, <2>3, <2>4 DEF ExchangeTypeOK, CallsOK, CommandsOK, StoresOK
  <1>. QED  BY <1>1, ControlInvariant, DeliveryInvariant, PTL

(* The single engine goroutine, validation and unique identifiers give the book
   only calls that OrderBook allows: all that is proved of OrderBookSpec holds
   of the book inside the exchange. *)
THEOREM BookInsideExchange == Spec => UsesOrderBook
  <1>1. Init => OrderBookInit
    BY DEF Init, Started
  <1>2. ControlInv /\ [Next]_vars => [OrderBookNext]_bookVars
    BY BookStep
  <1>. QED  BY <1>1, <1>2, ControlInvariant, PTL DEF Spec, UsesOrderBook, OrderBookSpec

(* No interleaving of reservations, releases and settlement makes a balance
   negative. *)
THEOREM NeverOverdrawn == Spec => []NoOverdraft
  <1>1. ASSUME ControlInv
        PROVE  NoOverdraft
    <2>1. ASSUME NEW u \in Wallets
          PROVE  /\ wallets[u].COPAvailable >= 0 /\ wallets[u].COPLocked >= 0
                 /\ wallets[u].VibraniumAvailable >= 0 /\ wallets[u].VibraniumLocked >= 0
      <3>1. wallets[u] \in NatWallet
        BY <1>1, <2>1 DEF Wallets, ControlInv, StoresOK
      <3>. QED  BY <3>1, WalletNumbers
    <2>. QED  BY <2>1 DEF NoOverdraft
  <1>. QED  BY <1>1, ControlInvariant, PTL

-----------------------------------------------------------------------------
(* What is owed *)

(* What one identifier holds: the reservation of a request c whose call is in
   state k while there is no order o, the open part of an order that is. *)
Hold(o, k, c, open, u, a) ==
    IF o = None /\ k \in {"submit", "waiting", "releasing"} /\ c.userID = u THEN Reserved(c, a)
    ELSE IF open /\ o.userID = u THEN Unfilled(o, a) ELSE 0

Open(id) == id \in orders \/ id = taker

HeldIsHold ==
    \A u, a : \A id \in OrderID :
        Held(u, a)[id] = Hold(order[id], call[id], request[id], Open(id), u, a)

(* Held, identifier by identifier. *)
LEMMA HeldById == ControlInv => HeldIsHold
  <1>. SUFFICES ASSUME NEW u, NEW a, NEW id \in OrderID
                PROVE  Held(u, a)[id] = Hold(order[id], call[id], request[id], Open(id), u, a)
    BY DEF HeldIsHold
  <1>1. id # None
    BY NoneAssumption
  <1>2. id \in Reservations(u) <=> (/\ order[id] = None
                                    /\ call[id] \in {"submit", "waiting", "releasing"}
                                    /\ request[id].userID = u)
    BY DEF Reservations
  <1>3. id \in OpenOrders(u) <=> (Open(id) /\ order[id].userID = u)
    BY <1>1 DEF OpenOrders, Open
  <1>4. Held(u, a)[id] = IF id \in Reservations(u) THEN Reserved(request[id], a)
                         ELSE IF id \in OpenOrders(u) THEN Unfilled(order[id], a) ELSE 0
    BY DEF Held
  <1>. QED  BY <1>2, <1>3, <1>4 DEF Hold

(* An order that may still trade has not traded more than it asked for. *)
OpenIsOrder ==
    \A id \in OrderID : Open(id) =>
        order[id] \in Order /\ order[id] # None /\ order[id].filled <= order[id].quantity

(* The book keeps orders of that kind. *)
LEMMA OpenOrdersAreOrders == ControlInv => OpenIsOrder
  <1>. SUFFICES ASSUME ControlInv, NEW id \in OrderID, Open(id)
                PROVE  order[id] \in Order /\ order[id] # None
                       /\ order[id].filled <= order[id].quantity
    BY DEF OpenIsOrder
  <1>1. BookInv /\ TypeOK
    BY DEF ControlInv, BookInv
  <1>2. order[id] # None
    BY <1>1, NoneAssumption, IndexFacts DEF Open, BookInv, SequencesUnique
  <1>3. order[id] \in Order
    BY <1>1, <1>2 DEF TypeOK
  <1>. QED  BY <1>1, <1>2, <1>3 DEF BookInv, StatusMatchesFill

(* A request with a reservation is valid. *)
ReservedIsRequest ==
    \A id \in OrderID : call[id] \in {"submit", "waiting", "releasing"} => request[id] \in Request

(* The calls keep it so. *)
LEMMA ReservedAreRequests == ControlInv => ReservedIsRequest
  BY DEF ControlInv, CallsOK, ReservedIsRequest

(* What is held, owed and locked are natural numbers. *)
Amounts ==
    \A u \in UserID, a \in Asset :
        /\ Summable(Held(u, a), OrderID)
        /\ Total(Held(u, a)) \in Nat
        /\ DebitOf(job, u, a) \in Nat
        /\ DebitOfLog(u, a) = Total(Unmarked(log, journal, u, a))
        /\ DebitOfLog(u, a) \in Nat
        /\ DebitOfEvents(outbox, u, a) \in Nat
        /\ DebitOfEvents(Placing, u, a) \in Nat
        /\ LockedBy(u, a) \in Nat

(* The events of the Place call in progress. *)
LEMMA PlacingType ==
    ASSUME ControlInv
    PROVE  /\ Placing \in Seq(Event)
           /\ taker = None => Placing = <<>>
           /\ taker # None => /\ taker \in OrderID /\ order[taker] \in Order
                              /\ Placing = PlaceEvents(res, taker, order[taker])
  <1>1. taker = None => Placing = <<>>
    BY DEF Placing
  <1>2. ASSUME taker # None
        PROVE  /\ taker \in OrderID /\ order[taker] \in Order
               /\ Placing = PlaceEvents(res, taker, order[taker]) /\ Placing \in Seq(Event)
    <2>1. taker \in OrderID /\ Open(taker)
      BY <1>2 DEF ControlInv, BookInv, TypeOK, Open
    <2>2. order[taker] \in Order
      BY <2>1, OpenOrdersAreOrders DEF OpenIsOrder
    <2>3. Placing = PlaceEvents(res, taker, order[taker])
      BY <1>2 DEF Placing
    <2>. QED  BY <2>1, <2>2, <2>3, FillsMade, PlaceEventsFacts
  <1>3. <<>> \in Seq(Event)
    OBVIOUS
  <1>. QED  BY <1>1, <1>2, <1>3

(* They are. *)
LEMMA AmountsAreNat == ControlInv => Amounts
  <1>. SUFFICES ASSUME ControlInv, NEW u \in UserID, NEW a \in Asset
                PROVE  /\ Summable(Held(u, a), OrderID)
                       /\ Total(Held(u, a)) \in Nat
                       /\ DebitOf(job, u, a) \in Nat
                       /\ DebitOfLog(u, a) = Total(Unmarked(log, journal, u, a))
                       /\ DebitOfLog(u, a) \in Nat
                       /\ DebitOfEvents(outbox, u, a) \in Nat
                       /\ DebitOfEvents(Placing, u, a) \in Nat
                       /\ LockedBy(u, a) \in Nat
    BY DEF Amounts
  <1>1. Summable(Held(u, a), OrderID)
    <2>1. ASSUME NEW id \in OrderID
          PROVE  Held(u, a)[id] \in Nat
      <3>1. Held(u, a)[id] = Hold(order[id], call[id], request[id], Open(id), u, a)
        BY HeldById DEF HeldIsHold
      <3>2. call[id] \in {"submit", "waiting", "releasing"} => Reserved(request[id], a) \in Nat
        BY ReservedAreRequests, ReservedFacts DEF ReservedIsRequest
      <3>3. Open(id) => Unfilled(order[id], a) \in Nat
        BY OpenOrdersAreOrders, UnfilledFacts DEF OpenIsOrder
      <3>. QED  BY <3>1, <3>2, <3>3 DEF Hold
    <2>2. Held(u, a) \in [OrderID -> Nat]
      <3>. DEFINE f == Held(u, a)
      <3>1. f = [id \in OrderID |-> f[id]]
        BY DEF Held
      <3>. HIDE DEF f
      <3>2. \A id \in OrderID : f[id] \in Nat
        BY <2>1 DEF f
      <3>3. f \in [OrderID -> Nat]
        BY <3>1, <3>2
      <3>. QED  BY <3>3 DEF f
    <2>. QED  BY <2>2, FiniteAssumption DEF Summable
  <1>2. Total(Held(u, a)) \in Nat
    BY <1>1, TotalType
  <1>3. DebitOf(job, u, a) \in Nat
    BY DebitOfHead DEF ControlInv, JobOK
  <1>4. DebitOfLog(u, a) = Total(Unmarked(log, journal, u, a))
    BY DEF DebitOfLog, Unmarked
  <1>5. DebitOfLog(u, a) \in Nat
    <2>1. LogOK /\ log \in Seq(Event)
      BY DEF ControlInv, LogOK
    <2>2. journal \in SUBSET (1..Len(log))
      BY <2>1, LogFacts
    <2>3. Total(Unmarked(log, journal, u, a)) \in Nat
      BY <2>1, <2>2, LogDebit, Zenon
    <2>. QED  BY <1>4, <2>3
  <1>6. DebitOfEvents(outbox, u, a) \in Nat
    BY EventsDebit DEF ControlInv, LogOK
  <1>7. DebitOfEvents(Placing, u, a) \in Nat
    BY PlacingType, EventsDebit
  <1>8. LockedBy(u, a) \in Nat
    <2>1. wallets[u] # None => wallets[u] \in NatWallet
      BY DEF ControlInv, StoresOK
    <2>. QED  BY <2>1, WalletNumbers DEF LockedBy, Asset
  <1>. QED  BY <1>1, <1>2, <1>3, <1>4, <1>5, <1>6, <1>7, <1>8

(* The same after a step. *)
LEMMA AfterStep ==
    ASSUME ControlInv'
    PROVE  HeldIsHold' /\ OpenIsOrder' /\ ReservedIsRequest' /\ Amounts'
  <1>1. ControlInv' => HeldIsHold'
    BY HeldById, PTL
  <1>2. ControlInv' => OpenIsOrder'
    BY OpenOrdersAreOrders, PTL
  <1>3. ControlInv' => ReservedIsRequest'
    BY ReservedAreRequests, PTL
  <1>4. ControlInv' => Amounts'
    BY AmountsAreNat, PTL
  <1>. QED  BY <1>1, <1>2, <1>3, <1>4

(* What identifier id holds now. *)
HoldNow(id, u, a) == Hold(order[id], call[id], request[id], Open(id), u, a)

(* The total held changes with what the identifiers hold. *)
LEMMA HeldSame ==
    ASSUME ControlInv, ControlInv', NEW u \in UserID, NEW a \in Asset,
           \A id \in OrderID : HoldNow(id, u, a)' = HoldNow(id, u, a)
    PROVE  Total(Held(u, a))' = Total(Held(u, a))
  <1>. DEFINE f == Held(u, a)
              g == Held(u, a)'
  <1>1. Summable(f, OrderID) /\ \A id \in OrderID : f[id] = HoldNow(id, u, a)
    BY AmountsAreNat, HeldById DEF Amounts, HeldIsHold, HoldNow
  <1>2. Summable(g, OrderID) /\ \A id \in OrderID : g[id] = HoldNow(id, u, a)'
    BY AfterStep DEF Amounts, HeldIsHold, HoldNow
  <1>. HIDE DEF f, g
  <1>3. Agree(g, f, OrderID)
    BY <1>1, <1>2 DEF Agree
  <1>4. Total(g) = Total(f)
    BY <1>1, <1>2, <1>3, TotalSame
  <1>. QED  BY <1>4 DEF f, g

(* Only id changes what it holds. *)
LEMMA HeldOne ==
    ASSUME ControlInv, ControlInv', NEW u \in UserID, NEW a \in Asset, NEW id \in OrderID,
           \A x \in OrderID : x # id => HoldNow(x, u, a)' = HoldNow(x, u, a)
    PROVE  /\ Total(Held(u, a))' = Total(Held(u, a)) - HoldNow(id, u, a) + HoldNow(id, u, a)'
           /\ HoldNow(id, u, a) \in Nat /\ HoldNow(id, u, a) <= Total(Held(u, a))
           /\ HoldNow(id, u, a)' \in Nat
  <1>. DEFINE f == Held(u, a)
              g == Held(u, a)'
  <1>1. Summable(f, OrderID) /\ \A x \in OrderID : f[x] = HoldNow(x, u, a)
    BY AmountsAreNat, HeldById DEF Amounts, HeldIsHold, HoldNow
  <1>2. Summable(g, OrderID) /\ \A x \in OrderID : g[x] = HoldNow(x, u, a)'
    BY AfterStep DEF Amounts, HeldIsHold, HoldNow
  <1>. HIDE DEF f, g
  <1>3. \A x \in OrderID : x # id => g[x] = f[x]
    BY <1>1, <1>2
  <1>4. Total(g) = Total(f) - f[id] + g[id]
    BY <1>1, <1>2, <1>3, TotalChange
  <1>5. f[id] <= Total(f) /\ f[id] \in Nat /\ g[id] \in Nat
    BY <1>1, <1>2, TotalBound
  <1>6. f[id] = HoldNow(id, u, a) /\ g[id] = HoldNow(id, u, a)'
    BY <1>1, <1>2
  <1>. QED  BY <1>4, <1>5, <1>6 DEF f, g

(* Only id and z change what they hold. *)
LEMMA HeldTwo ==
    ASSUME ControlInv, ControlInv', NEW u \in UserID, NEW a \in Asset,
           NEW id \in OrderID, NEW z \in OrderID, id # z,
           \A x \in OrderID : (x # id /\ x # z) => HoldNow(x, u, a)' = HoldNow(x, u, a)
    PROVE  Total(Held(u, a))' = Total(Held(u, a)) - HoldNow(id, u, a) + HoldNow(id, u, a)'
                                  - HoldNow(z, u, a) + HoldNow(z, u, a)'
  <1>. DEFINE f == Held(u, a)
              g == Held(u, a)'
  <1>1. Summable(f, OrderID) /\ \A x \in OrderID : f[x] = HoldNow(x, u, a)
    BY AmountsAreNat, HeldById DEF Amounts, HeldIsHold, HoldNow
  <1>2. Summable(g, OrderID) /\ \A x \in OrderID : g[x] = HoldNow(x, u, a)'
    BY AfterStep DEF Amounts, HeldIsHold, HoldNow
  <1>. HIDE DEF f, g
  <1>3. \A x \in OrderID : (x # id /\ x # z) => g[x] = f[x]
    BY <1>1, <1>2
  <1>4. Total(g) = Total(f) - f[id] + g[id] - f[z] + g[z]
    BY <1>1, <1>2, <1>3, TotalChangeTwo
  <1>6. /\ f[id] = HoldNow(id, u, a) /\ g[id] = HoldNow(id, u, a)'
        /\ f[z] = HoldNow(z, u, a) /\ g[z] = HoldNow(z, u, a)'
    BY <1>1, <1>2
  <1>. QED  BY <1>4, <1>6 DEF f, g

(* A step that strands no funds and uncovers no obligation. *)
SurplusKept == \A u \in UserID, a \in Asset : Surplus(u, a)' = Surplus(u, a)

(* The surplus stays when locked funds and obligations change alike. *)
LEMMA SameSurplus ==
    ASSUME ControlInv, ControlInv', Covered, NEW u \in UserID, NEW a \in Asset,
           LockedBy(u, a)' - LockedBy(u, a)
             = (Total(Held(u, a))' - Total(Held(u, a)))
                 + (DebitOf(job, u, a)' - DebitOf(job, u, a))
                 + (DebitOfLog(u, a)' - DebitOfLog(u, a))
                 + (DebitOfEvents(outbox, u, a)' - DebitOfEvents(outbox, u, a))
                 + (DebitOfEvents(Placing, u, a)' - DebitOfEvents(Placing, u, a))
    PROVE  Surplus(u, a)' = Surplus(u, a)
  <1>2. Owed(u, a) = Total(Held(u, a)) + (DebitOf(job, u, a) + DebitOfLog(u, a)
                       + DebitOfEvents(outbox, u, a) + DebitOfEvents(Placing, u, a))
    BY DEF Owed, Pending
  <1>3. Owed(u, a)' = Total(Held(u, a))' + (DebitOf(job, u, a)' + DebitOfLog(u, a)'
                        + DebitOfEvents(outbox, u, a)' + DebitOfEvents(Placing, u, a)')
    BY DEF Owed, Pending
  <1>4. /\ Total(Held(u, a)) \in Nat /\ DebitOf(job, u, a) \in Nat /\ DebitOfLog(u, a) \in Nat
        /\ DebitOfEvents(outbox, u, a) \in Nat /\ DebitOfEvents(Placing, u, a) \in Nat
        /\ LockedBy(u, a) \in Nat
    BY AmountsAreNat DEF Amounts
  <1>5. /\ Total(Held(u, a))' \in Nat /\ DebitOf(job, u, a)' \in Nat
        /\ DebitOfLog(u, a)' \in Nat /\ DebitOfEvents(outbox, u, a)' \in Nat
        /\ DebitOfEvents(Placing, u, a)' \in Nat /\ LockedBy(u, a)' \in Nat
    BY AfterStep DEF Amounts
  <1>. DEFINE h == Total(Held(u, a))
              d == DebitOf(job, u, a)
              l == DebitOfLog(u, a)
              o == DebitOfEvents(outbox, u, a)
              p == DebitOfEvents(Placing, u, a)
              k == LockedBy(u, a)
              w == Owed(u, a)
              h2 == Total(Held(u, a))'
              d2 == DebitOf(job, u, a)'
              l2 == DebitOfLog(u, a)'
              o2 == DebitOfEvents(outbox, u, a)'
              p2 == DebitOfEvents(Placing, u, a)'
              k2 == LockedBy(u, a)'
              w2 == Owed(u, a)'
  <1>6. k2 - k = (h2 - h) + (d2 - d) + (l2 - l) + (o2 - o) + (p2 - p)
    OBVIOUS
  <1>7. /\ w = h + (d + l + o + p) /\ w2 = h2 + (d2 + l2 + o2 + p2)
        /\ h \in Nat /\ d \in Nat /\ l \in Nat /\ o \in Nat /\ p \in Nat /\ k \in Nat
        /\ h2 \in Nat /\ d2 \in Nat /\ l2 \in Nat /\ o2 \in Nat /\ p2 \in Nat /\ k2 \in Nat
    BY <1>2, <1>3, <1>4, <1>5
  <1>. HIDE DEF h, d, l, o, p, k, w, h2, d2, l2, o2, p2, k2, w2
  <1>8. k2 - w2 = k - w
    BY <1>6, <1>7
  <1>. QED  BY <1>8 DEF Surplus, k, w, k2, w2

(* What steps that touch neither book nor events nor writes have to show. *)
LEMMA ClientSurplus ==
    ASSUME ControlInv, ControlInv', Covered, UNCHANGED <<bookVars, job, log, journal, outbox>>,
           NEW u \in UserID, NEW a \in Asset,
           LockedBy(u, a)' - LockedBy(u, a) = Total(Held(u, a))' - Total(Held(u, a))
    PROVE  Surplus(u, a)' = Surplus(u, a)
  <1>1. /\ DebitOf(job, u, a)' = DebitOf(job, u, a)
        /\ DebitOfLog(u, a)' = DebitOfLog(u, a)
        /\ DebitOfEvents(outbox, u, a)' = DebitOfEvents(outbox, u, a)
    BY DEF DebitOf, DebitOfLog, DebitOfEvents
  <1>2. Placing' = Placing
    BY DEF bookVars, Placing
  <1>3. DebitOfEvents(Placing, u, a)' = DebitOfEvents(Placing, u, a)
    BY <1>2 DEF DebitOfEvents
  <1>4. /\ DebitOf(job, u, a) \in Nat /\ DebitOfLog(u, a) \in Nat
        /\ DebitOfEvents(outbox, u, a) \in Nat /\ DebitOfEvents(Placing, u, a) \in Nat
        /\ Total(Held(u, a)) \in Nat /\ Total(Held(u, a))' \in Nat
    BY AmountsAreNat, AfterStep DEF Amounts
  <1>5. LockedBy(u, a)' - LockedBy(u, a)
             = (Total(Held(u, a))' - Total(Held(u, a)))
                 + (DebitOf(job, u, a)' - DebitOf(job, u, a))
                 + (DebitOfLog(u, a)' - DebitOfLog(u, a))
                 + (DebitOfEvents(outbox, u, a)' - DebitOfEvents(outbox, u, a))
                 + (DebitOfEvents(Placing, u, a)' - DebitOfEvents(Placing, u, a))
    BY <1>1, <1>3, <1>4
  <1>. QED  BY <1>5, SameSurplus

(* What an identifier holds is owed, and so is what the writes of the job take. *)
LEMMA OwedBounds ==
    ASSUME ControlInv, NEW u \in UserID, NEW a \in Asset
    PROVE  /\ \A id \in OrderID : HoldNow(id, u, a) \in Nat /\ HoldNow(id, u, a) <= Owed(u, a)
           /\ DebitOf(job, u, a) <= Owed(u, a) /\ Owed(u, a) \in Nat
  <1>1. Owed(u, a) = Total(Held(u, a)) + (DebitOf(job, u, a) + DebitOfLog(u, a)
                       + DebitOfEvents(outbox, u, a) + DebitOfEvents(Placing, u, a))
    BY DEF Owed, Pending
  <1>2. /\ Total(Held(u, a)) \in Nat /\ DebitOf(job, u, a) \in Nat /\ DebitOfLog(u, a) \in Nat
        /\ DebitOfEvents(outbox, u, a) \in Nat /\ DebitOfEvents(Placing, u, a) \in Nat
        /\ Summable(Held(u, a), OrderID)
    BY AmountsAreNat DEF Amounts
  <1>3. ASSUME NEW id \in OrderID
        PROVE  HoldNow(id, u, a) \in Nat /\ HoldNow(id, u, a) <= Total(Held(u, a))
    <2>1. Held(u, a)[id] = HoldNow(id, u, a)
      BY HeldById DEF HeldIsHold, HoldNow
    <2>. QED  BY <1>2, <2>1, TotalBound
  <1>4. Total(Held(u, a)) <= Owed(u, a) /\ DebitOf(job, u, a) <= Owed(u, a) /\ Owed(u, a) \in Nat
    BY <1>1, <1>2
  <1>. QED  BY <1>2, <1>3, <1>4

OwedIsNat == \A u \in UserID, a \in Asset : Owed(u, a) \in Nat

(* What is owed is a natural number. *)
LEMMA OwedNumbers == ControlInv => OwedIsNat
  BY OwedBounds DEF OwedIsNat

(* What is backed is covered. *)
LEMMA BackedCovers ==
    ASSUME ControlInv, Backed
    PROVE  Covered
  <1>. SUFFICES ASSUME NEW u \in UserID, NEW a \in Asset
                PROVE  LockedBy(u, a) >= Owed(u, a)
    BY DEF Covered
  <1>1. LockedBy(u, a) = Owed(u, a) /\ Owed(u, a) \in Nat
    BY OwedBounds DEF Backed
  <1>. QED  BY <1>1

(* Who owes something has a wallet with so much locked in it, or more. *)
LEMMA OwedIsLocked ==
    ASSUME ControlInv, Covered, NEW u \in UserID
    PROVE  /\ wallets[u] # None => wallets[u] \in NatWallet
           /\ wallets[u] # None => \A a \in Asset : Locked(wallets[u], a) \in Nat
           /\ wallets[u] # None => \A a \in Asset : Locked(wallets[u], a) >= Owed(u, a)
           /\ (\E a \in Asset : Owed(u, a) # 0) => wallets[u] # None
  <1>1. wallets[u] # None => wallets[u] \in NatWallet
    BY DEF ControlInv, StoresOK
  <1>2. wallets[u] # None => \A a \in Asset : Locked(wallets[u], a) >= Owed(u, a)
    BY DEF Covered, LockedBy
  <1>3. wallets[u] # None => \A a \in Asset : Locked(wallets[u], a) \in Nat
    BY <1>1, WalletNumbers DEF Asset
  <1>4. ASSUME wallets[u] = None, NEW a \in Asset
        PROVE  Owed(u, a) = 0
    <2>1. 0 >= Owed(u, a) /\ Owed(u, a) \in Nat
      BY <1>4, OwedBounds DEF Covered, LockedBy
    <2>. QED  BY <2>1
  <1>. QED  BY <1>1, <1>2, <1>3, <1>4

(* The compensating release always has its funds: nothing but the release
   takes the reservation of a call that was never sent. *)
LEMMA ReleaseCovered ==
    ASSUME ControlInv, Covered, NEW id \in OrderID, call[id] = "releasing"
    PROVE  /\ request[id] \in Request /\ request[id].userID \in UserID
           /\ wallets[request[id].userID] \in NatWallet
           /\ wallets[request[id].userID] # None
           /\ CanUnreserve(wallets[request[id].userID], request[id])
           /\ order[id] = None /\ ~Open(id)
  <1>. DEFINE c == request[id]
              u == c.userID
              w == wallets[u]
  <1>1. c \in Request /\ u \in UserID
    BY CallRequest DEF ControlInv
  <1>2. order[id] = None
    BY DEF ControlInv, CallsOK
  <1>3. \A a \in Asset : HoldNow(id, u, a) = Reserved(c, a)
    BY <1>2 DEF HoldNow, Hold
  <1>4. \A a \in Asset : Reserved(c, a) \in Nat /\ Reserved(c, a) <= Owed(u, a) /\ Owed(u, a) \in Nat
    BY <1>1, <1>3, OwedBounds
  <1>5. \E a \in Asset : Reserved(c, a) # 0
    <2>1. CASE c.side = "BUY"
      BY <1>1, <2>1, ReservedFacts DEF Reserved, Asset, Positive
    <2>2. CASE c.side = "SELL"
      BY <1>1, <2>2, ReservedFacts DEF Reserved, Asset, Positive
    <2>. QED  BY <1>1, <2>1, <2>2, ReservedFacts DEF Side
  <1>6. \E a \in Asset : Owed(u, a) # 0
    BY <1>4, <1>5
  <1>7. /\ w # None /\ w \in NatWallet
        /\ \A a \in Asset : Locked(w, a) >= Owed(u, a) /\ Locked(w, a) \in Nat
    BY <1>1, <1>6, OwedIsLocked
  <1>8. CanUnreserve(w, c)
    <2>1. \A a \in Asset : Locked(w, a) >= Reserved(c, a)
      BY <1>4, <1>7
    <2>. QED  BY <1>1, <1>7, <2>1, UnreserveFacts
  <1>9. ~Open(id)
    BY <1>2, OpenOrdersAreOrders DEF OpenIsOrder
  <1>. QED  BY <1>1, <1>2, <1>7, <1>8, <1>9

(* An update of a wallet that exists. *)
LEMMA WalletUpdated ==
    ASSUME StoresOK, NEW v \in UserID, wallets[v] # None, NEW w \in NatWallet, UpdateWallet(v, w)
    PROVE  /\ \A u \in UserID, a \in Asset :
                LockedBy(u, a)' = IF u = v THEN Locked(w, a) ELSE LockedBy(u, a)
           /\ \A u \in UserID : wallets'[u] = IF u = v THEN w ELSE wallets[u]
  <1>1. \A u \in UserID : wallets'[u] = IF u = v THEN w ELSE wallets[u]
    BY DEF StoresOK, UpdateWallet
  <1>2. w # None
    BY NoneIsNoWallet
  <1>. QED  BY <1>1, <1>2 DEF LockedBy

(* Client steps. *)
LEMMA ClientStep ==
    ASSUME ControlInv, ControlInv', Covered, ClientNext
    PROVE  SurplusKept
  <1>. SUFFICES ASSUME NEW u \in UserID, NEW a \in Asset
                PROVE  Surplus(u, a)' = Surplus(u, a)
    BY DEF SurplusKept
  <1>0. /\ CallsOK /\ StoresOK /\ LockedBy(u, a) \in Nat
        /\ Total(Held(u, a)) \in Nat /\ Total(Held(u, a))' \in Nat
    BY AmountsAreNat, AfterStep DEF ControlInv, Amounts
  <1>1. ASSUME UNCHANGED <<bookVars, job, log, journal, outbox>>,
               LockedBy(u, a)' = LockedBy(u, a),
               \A x \in OrderID : HoldNow(x, u, a)' = HoldNow(x, u, a)
        PROVE  Surplus(u, a)' = Surplus(u, a)
    <2>1. Total(Held(u, a))' = Total(Held(u, a))
      BY <1>1, HeldSame
    <2>2. LockedBy(u, a)' - LockedBy(u, a) = Total(Held(u, a))' - Total(Held(u, a))
      BY <1>0, <1>1, <2>1
    <2>. QED  BY <1>1, <2>2, ClientSurplus
  <1>2. ASSUME NEW v \in UserID, wallets[v] = None, Seed(v)
        PROVE  Surplus(u, a)' = Surplus(u, a)
    <2>1. /\ wallets' = [wallets EXCEPT ![v] = SeededWallet(Deposit[v].COP, Deposit[v].Vibranium)]
          /\ UNCHANGED <<bookVars, job, log, journal, outbox, call, request>>
      BY <1>2 DEF Seed, UpsertWallet, clientVars, engineVars, logVars, settlementVars
    <2>2. SeededWallet(Deposit[v].COP, Deposit[v].Vibranium) \in NatWallet
      BY DepositAssumption DEF SeededWallet, NatWallet
    <2>3. Locked(SeededWallet(Deposit[v].COP, Deposit[v].Vibranium), a) = 0
      BY DEF Locked, SeededWallet
    <2>4. LockedBy(u, a)' = LockedBy(u, a)
      BY <1>0, <1>2, <2>1, <2>2, <2>3, NoneIsNoWallet DEF LockedBy, StoresOK
    <2>5. \A x \in OrderID : HoldNow(x, u, a)' = HoldNow(x, u, a)
      BY <2>1 DEF HoldNow, Open, bookVars
    <2>. QED  BY <1>1, <2>1, <2>4, <2>5
  <1>3. ASSUME NEW id \in OrderID, NEW c \in PlaceOrderCommand, PlaceOrder(id, c)
        PROVE  Surplus(u, a)' = Surplus(u, a)
    <2>1. /\ call[id] = "idle" /\ request' = [request EXCEPT ![id] = c]
          /\ UNCHANGED <<bookVars, job, log, journal, outbox>>
          /\ \E st \in {"rejected", "submit"} : call' = [call EXCEPT ![id] = st]
      BY <1>3 DEF PlaceOrder, engineVars, logVars, settlementVars
    <2>2. order[id] = None /\ ~Open(id)
      <3>1. order[id] = None
        BY <1>0, <2>1 DEF CallsOK
      <3>. QED  BY <3>1, OpenOrdersAreOrders DEF OpenIsOrder
    <2>3. \A x \in OrderID : x # id => HoldNow(x, u, a)' = HoldNow(x, u, a)
      BY <1>0, <2>1 DEF HoldNow, Open, bookVars, CallsOK
    <2>4. HoldNow(id, u, a) = 0
      BY <2>1, <2>2 DEF HoldNow, Hold
    <2>5. CASE call' = [call EXCEPT ![id] = "rejected"] /\ UNCHANGED wallets
      <3>1. call'[id] = "rejected" /\ ~Open(id)' /\ order'[id] = None
        BY <1>0, <2>1, <2>2, <2>5 DEF CallsOK, Open, bookVars
      <3>2. HoldNow(id, u, a)' = 0
        BY <3>1 DEF HoldNow, Hold
      <3>3. LockedBy(u, a)' = LockedBy(u, a)
        BY <2>5 DEF LockedBy
      <3>. QED  BY <1>1, <2>1, <2>3, <2>4, <3>2, <3>3
    <2>6. CASE /\ Valid(c) /\ wallets[c.userID] # None /\ CanReserve(wallets[c.userID], c)
               /\ UpdateWallet(c.userID, Reserve(wallets[c.userID], c))
               /\ call' = [call EXCEPT ![id] = "submit"]
      <3>. DEFINE w == wallets[c.userID]
                  n == Reserve(w, c)
      <3>1. c \in Request /\ c.userID \in UserID /\ Reserved(c, a) \in Nat
        BY <2>6, CommandAssumption, ReservedFacts DEF Valid
      <3>2. w \in NatWallet
        BY <1>0, <2>6, <3>1 DEF StoresOK
      <3>3. n \in NatWallet /\ Locked(n, a) = Locked(w, a) + Reserved(c, a)
        BY <2>6, <3>1, <3>2, ReserveFacts
      <3>4. LockedBy(u, a)' = IF u = c.userID THEN Locked(n, a) ELSE LockedBy(u, a)
        BY <1>0, <2>6, <3>1, <3>3, WalletUpdated
      <3>5. u = c.userID => LockedBy(u, a) = Locked(w, a)
        BY <2>6 DEF LockedBy
      <3>6. /\ call'[id] = "submit" /\ ~Open(id)' /\ order'[id] = None /\ request'[id] = c
        BY <1>0, <2>1, <2>2, <2>6 DEF CallsOK, Open, bookVars
      <3>7. HoldNow(id, u, a)' = IF u = c.userID THEN Reserved(c, a) ELSE 0
        BY <3>6 DEF HoldNow, Hold
      <3>8. Total(Held(u, a))' = Total(Held(u, a)) - HoldNow(id, u, a) + HoldNow(id, u, a)'
        BY <2>3, HeldOne
      <3>. HIDE DEF n, w
      <3>9. LockedBy(u, a)' - LockedBy(u, a) = Total(Held(u, a))' - Total(Held(u, a))
        BY <1>0, <2>4, <3>1, <3>3, <3>4, <3>5, <3>7, <3>8
      <3>. QED  BY <2>1, <3>9, ClientSurplus
    <2>. QED  BY <1>3, <2>5, <2>6 DEF PlaceOrder
  <1>4. ASSUME NEW id \in OrderID, Submit(id) \/ AbandonSubmit(id) \/ Return(id)
        PROVE  Surplus(u, a)' = Surplus(u, a)
    <2>1. /\ UNCHANGED <<bookVars, request, job, log, journal, outbox, wallets>>
          /\ \/ call[id] = "submit" /\ call' = [call EXCEPT ![id] = "waiting"]
             \/ call[id] = "submit" /\ call' = [call EXCEPT ![id] = "releasing"]
             \/ call[id] = "replied" /\ call' = [call EXCEPT ![id] = "placed"]
      BY <1>4 DEF Submit, AbandonSubmit, Return, engineVars, logVars, settlementVars
    <2>2. LockedBy(u, a)' = LockedBy(u, a)
      BY <2>1 DEF LockedBy
    <2>3. \A x \in OrderID : HoldNow(x, u, a)' = HoldNow(x, u, a)
      BY <1>0, <2>1 DEF HoldNow, Hold, Open, bookVars, CallsOK
    <2>. QED  BY <1>1, <2>1, <2>2, <2>3
  <1>5. ASSUME NEW id \in OrderID, Release(id)
        PROVE  Surplus(u, a)' = Surplus(u, a)
    <2>. DEFINE c == request[id]
                v == c.userID
                w == wallets[v]
                n == Unreserve(w, c)
    <2>1. /\ call[id] = "releasing" /\ UpdateWallet(v, n)
          /\ call' = [call EXCEPT ![id] = "failed"]
          /\ UNCHANGED <<bookVars, request, job, log, journal, outbox>>
      BY <1>5 DEF Release, engineVars, logVars, settlementVars
    <2>2. /\ c \in Request /\ v \in UserID /\ w \in NatWallet /\ w # None /\ CanUnreserve(w, c)
          /\ order[id] = None /\ ~Open(id)
      BY <2>1, ReleaseCovered
    <2>3. n \in NatWallet /\ Locked(n, a) = Locked(w, a) - Reserved(c, a) /\ Reserved(c, a) \in Nat
      BY <2>2, UnreserveFacts, ReservedFacts
    <2>4. LockedBy(u, a)' = IF u = v THEN Locked(n, a) ELSE LockedBy(u, a)
      BY <1>0, <2>1, <2>2, <2>3, WalletUpdated
    <2>5. u = v => LockedBy(u, a) = Locked(w, a)
      BY <2>2 DEF LockedBy
    <2>6. HoldNow(id, u, a) = IF u = v THEN Reserved(c, a) ELSE 0
      BY <2>1, <2>2 DEF HoldNow, Hold
    <2>7. call'[id] = "failed" /\ ~Open(id)'
      BY <1>0, <2>1, <2>2 DEF CallsOK, Open, bookVars
    <2>8. HoldNow(id, u, a)' = 0
      BY <2>7 DEF HoldNow, Hold
    <2>9. \A x \in OrderID : x # id => HoldNow(x, u, a)' = HoldNow(x, u, a)
      BY <1>0, <2>1 DEF HoldNow, Open, bookVars, CallsOK
    <2>10. Total(Held(u, a))' = Total(Held(u, a)) - HoldNow(id, u, a) + HoldNow(id, u, a)'
      BY <2>9, HeldOne
    <2>. HIDE DEF n, w, v, c
    <2>11. LockedBy(u, a)' - LockedBy(u, a) = Total(Held(u, a))' - Total(Held(u, a))
      BY <1>0, <2>3, <2>4, <2>5, <2>6, <2>8, <2>10
    <2>. QED  BY <2>1, <2>11, ClientSurplus
  <1>6. ASSUME NEW id \in OrderID, CancelOrder(id) \/ AbandonCancel(id)
        PROVE  Surplus(u, a)' = Surplus(u, a)
    <2>1. UNCHANGED <<bookVars, call, request, job, log, journal, outbox, wallets>>
      BY <1>6 DEF CancelOrder, AbandonCancel, engineVars, logVars, settlementVars
    <2>2. LockedBy(u, a)' = LockedBy(u, a)
      BY <2>1 DEF LockedBy
    <2>3. \A x \in OrderID : HoldNow(x, u, a)' = HoldNow(x, u, a)
      BY <2>1 DEF HoldNow, Open, bookVars
    <2>. QED  BY <1>1, <2>1, <2>2, <2>3
  <1>. QED  BY <1>2, <1>3, <1>4, <1>5, <1>6 DEF ClientNext

(* What the Place call in progress will debit: its fills, then what its taker
   gets back. *)
PlacingIs ==
    \A u \in UserID, a \in Asset :
        /\ taker = None => DebitOfEvents(Placing, u, a) = 0
        /\ taker # None =>
              /\ DebitOfEvents(FillEvents(res.fills), u, a) \in Nat
              /\ DebitOfEvents(Placing, u, a)
                   = DebitOfEvents(FillEvents(res.fills), u, a)
                       + ReleaseDebit(order[taker], res.takerReleaseCOP, 0, u, a)

(* By the events of a Place call. *)
LEMMA PlacingDebit == ControlInv => PlacingIs
  <1>. SUFFICES ASSUME ControlInv, NEW u \in UserID, NEW a \in Asset
                PROVE  /\ taker = None => DebitOfEvents(Placing, u, a) = 0
                       /\ taker # None =>
                            /\ DebitOfEvents(FillEvents(res.fills), u, a) \in Nat
                            /\ DebitOfEvents(Placing, u, a)
                                 = DebitOfEvents(FillEvents(res.fills), u, a)
                                     + ReleaseDebit(order[taker], res.takerReleaseCOP, 0, u, a)
    BY DEF PlacingIs
  <1>1. taker = None => DebitOfEvents(Placing, u, a) = 0
    BY PlacingType, EventsDebit
  <1>2. ASSUME taker # None
        PROVE  /\ DebitOfEvents(FillEvents(res.fills), u, a) \in Nat
               /\ DebitOfEvents(Placing, u, a)
                    = DebitOfEvents(FillEvents(res.fills), u, a)
                        + ReleaseDebit(order[taker], res.takerReleaseCOP, 0, u, a)
    <2>. DEFINE q == FillEvents(res.fills)
                o == order[taker]
                x == res.takerReleaseCOP
                e == OrderUpdated(taker, o, x, 0)
    <2>1. /\ taker \in OrderID /\ o \in Order /\ x \in Nat /\ Made(res.fills)
          /\ Placing = PlaceEvents(res, taker, o)
      BY <1>2, PlacingType, FillsMade
    <2>2. Placing = Append(q, e)
      BY <2>1, PlaceEventsFacts
    <2>3. q \in Seq(Event) /\ e \in Event
      BY <2>1, FillEventsFacts, EventTypes
    <2>4. DebitOf(Writes(e), u, a) = ReleaseDebit(o, x, 0, u, a)
      BY <2>1, EventDebits
    <2>. HIDE DEF q, e
    <2>5. DebitOfEvents(q, u, a) \in Nat
      BY <2>3, EventsDebit
    <2>6. DebitOfEvents(Append(q, e), u, a) = DebitOfEvents(q, u, a) + DebitOf(Writes(e), u, a)
      BY <2>3, EventsDebit
    <2>. QED  BY <2>2, <2>4, <2>5, <2>6 DEF q
  <1>. QED  BY <1>1, <1>2

(* Steps that leave wallets and settlement's job alone move obligations between
   what is held and what is pending. *)
LEMMA EngineSurplus ==
    ASSUME ControlInv, ControlInv', Covered, UNCHANGED <<job, wallets>>,
           NEW u \in UserID, NEW a \in Asset,
           Total(Held(u, a)) + DebitOfLog(u, a) + DebitOfEvents(outbox, u, a)
               + DebitOfEvents(Placing, u, a)
             = Total(Held(u, a))' + DebitOfLog(u, a)' + DebitOfEvents(outbox, u, a)'
               + DebitOfEvents(Placing, u, a)'
    PROVE  Surplus(u, a)' = Surplus(u, a)
  <1>1. LockedBy(u, a)' = LockedBy(u, a) /\ DebitOf(job, u, a)' = DebitOf(job, u, a)
    BY DEF LockedBy, DebitOf
  <1>. DEFINE h == Total(Held(u, a))
              d == DebitOf(job, u, a)
              l == DebitOfLog(u, a)
              o == DebitOfEvents(outbox, u, a)
              p == DebitOfEvents(Placing, u, a)
              w == Owed(u, a)
              h2 == Total(Held(u, a))'
              l2 == DebitOfLog(u, a)'
              o2 == DebitOfEvents(outbox, u, a)'
              p2 == DebitOfEvents(Placing, u, a)'
              w2 == Owed(u, a)'
  <1>2. /\ h \in Nat /\ d \in Nat /\ l \in Nat /\ o \in Nat /\ p \in Nat
    BY AmountsAreNat DEF Amounts
  <1>3. /\ h2 \in Nat /\ l2 \in Nat /\ o2 \in Nat /\ p2 \in Nat
    BY AfterStep DEF Amounts
  <1>4. w = h + (d + l + o + p) /\ w2 = h2 + (d + l2 + o2 + p2)
    BY <1>1 DEF Owed, Pending
  <1>5. h + l + o + p = h2 + l2 + o2 + p2
    OBVIOUS
  <1>. HIDE DEF h, d, l, o, p, w, h2, l2, o2, p2, w2
  <1>6. w = w2
    BY <1>2, <1>3, <1>4, <1>5
  <1>. QED  BY <1>1, <1>6 DEF Surplus, w, w2

(* The order of a request holds what the request had reserved. *)
LEMMA PlaceKeepsHold ==
    ASSUME NEW c \in Request, NEW o, NEW n \in Nat,
           o = [userID |-> c.userID, side |-> c.side, price |-> c.price,
                quantity |-> c.quantity, filled |-> 0, status |-> "OPEN", sequence |-> n]
    PROVE  /\ o \in Order /\ o.userID = c.userID
           /\ \A a \in Asset : Unfilled(o, a) = Reserved(c, a)
  <1>1. o \in Order /\ o.userID = c.userID /\ o.side = c.side /\ o.price = c.price
        /\ o.quantity = c.quantity /\ o.filled = 0
    BY DEF Order, Request, Status
  <1>2. c.price \in Nat /\ c.quantity \in Nat /\ c.side \in Side
    BY ReservedFacts DEF Positive
  <1>3. Remaining(o) = c.quantity /\ o.filled <= o.quantity
    BY <1>1, <1>2 DEF Remaining
  <1>4. /\ CancelRelease(o).COP = IF c.side = "BUY" THEN c.quantity * c.price ELSE 0
        /\ CancelRelease(o).Vibranium = IF c.side = "SELL" THEN c.quantity ELSE 0
    BY <1>1, <1>3, UnfilledFacts
  <1>5. /\ ReservedCOP(c) = IF c.side = "BUY" THEN c.price * c.quantity ELSE 0
        /\ ReservedVibranium(c) = IF c.side = "SELL" THEN c.quantity ELSE 0
    BY ReservedFacts
  <1>6. c.quantity * c.price = c.price * c.quantity
    BY <1>2
  <1>. QED  BY <1>1, <1>4, <1>5, <1>6 DEF Unfilled, Reserved

(* The command is received: the reservation becomes the open order. *)
LEMMA EnginePlaceSurplus ==
    ASSUME ControlInv, ControlInv', Covered, EnginePlace, NEW u \in UserID, NEW a \in Asset
    PROVE  Surplus(u, a)' = Surplus(u, a)
  <1>0. PICK id \in OrderID : id = Head(in).id
    BY ChannelFacts DEF ControlInv, EnginePlace
  <1>. DEFINE c == request[id]
              o == order'[id]
  <1>1. /\ in # <<>> /\ Head(in).kind = "place" /\ PlaceBegin(id, c)
        /\ UNCHANGED <<call, request, outbox, log, pos, job, journal, wallets>>
    BY <1>0 DEF EnginePlace, clientVars, logVars, settlementVars
  <1>2. /\ id \in OrderID /\ call[id] = "waiting" /\ order[id] = None /\ c \in Request
    <2>1. CommandsOK /\ CallsOK
      BY DEF ControlInv
    <2>2. Head(in) = in[1] /\ 1 \in 1..Len(in)
      BY <1>1, <2>1, ChannelFacts
    <2>3. in[1].kind = "place" /\ in[1].id = id
      BY <1>0, <1>1, <2>2
    <2>4. call[id] = "waiting" /\ order[id] = None
      BY <2>1, <2>2, <2>3 DEF CommandsOK
    <2>. QED  BY <2>1, <2>2, <2>4, CallRequest
  <1>3. /\ order \in [OrderID -> Order \cup {None}] /\ orderSeq + 1 \in Nat
    BY DEF ControlInv, BookInv, TypeOK
  <1>4. /\ o = [userID |-> c.userID, side |-> c.side, price |-> c.price,
                quantity |-> c.quantity, filled |-> 0, status |-> "OPEN",
                sequence |-> orderSeq + 1]
        /\ \A x \in OrderID : x # id => order'[x] = order[x]
        /\ taker = None /\ taker' = id /\ orders' = orders
        /\ res' = [fills |-> <<>>, takerReleaseCOP |-> 0]
    BY <1>1, <1>2, <1>3 DEF PlaceBegin
  <1>5. o \in Order /\ o.userID = c.userID /\ Unfilled(o, a) = Reserved(c, a)
    BY <1>2, <1>3, <1>4, PlaceKeepsHold
  <1>6. ~Open(id)
    BY <1>2, OpenOrdersAreOrders DEF OpenIsOrder
  <1>. HIDE DEF c, o
  <1>7. HoldNow(id, u, a) = IF c.userID = u THEN Reserved(c, a) ELSE 0
    BY <1>2, <1>6 DEF HoldNow, Hold, c
  <1>8. HoldNow(id, u, a)' = IF c.userID = u THEN Reserved(c, a) ELSE 0
    <2>1. Open(id)' /\ o # None
      BY <1>4, <1>5, NoneIsNoOrder DEF Open
    <2>. QED  BY <1>5, <2>1 DEF HoldNow, Hold, o
  <1>9. ASSUME NEW x \in OrderID, x # id
        PROVE  HoldNow(x, u, a)' = HoldNow(x, u, a)
    <2>1. order'[x] = order[x] /\ call'[x] = call[x] /\ request'[x] = request[x]
      BY <1>1, <1>4, <1>9
    <2>2. x # None
      BY NoneAssumption
    <2>3. Open(x)' <=> Open(x)
      BY <1>4, <1>9, <2>2 DEF Open
    <2>. QED  BY <2>1, <2>3 DEF HoldNow, Hold
  <1>10. \A x \in OrderID : HoldNow(x, u, a)' = HoldNow(x, u, a)
    BY <1>7, <1>8, <1>9
  <1>11. Total(Held(u, a))' = Total(Held(u, a))
    BY <1>10, HeldSame
  <1>12. DebitOfEvents(Placing, u, a) = 0
    BY <1>4, PlacingDebit DEF PlacingIs
  <1>13. DebitOfEvents(Placing, u, a)' = 0
    <2>1. PlacingIs'
      BY PlacingDebit, PTL
    <2>2. taker' # None /\ order'[taker'] = o
      BY <1>2, <1>4, NoneAssumption DEF o
    <2>3. res'.fills = <<>> /\ res'.takerReleaseCOP = 0
      BY <1>4
    <2>4. DebitOfEvents(FillEvents(<<>>), u, a) = 0
      <3>1. Made(<<>>)
        BY DEF Made
      <3>. QED  BY <3>1, FillEventsFacts, EventsDebit
    <2>5. ReleaseDebit(o, 0, 0, u, a) = 0
      BY DEF ReleaseDebit
    <2>6. DebitOfEvents(FillEvents(res.fills), u, a)' = 0
      BY <2>3, <2>4
    <2>7. ReleaseDebit(order[taker], res.takerReleaseCOP, 0, u, a)' = 0
      BY <2>2, <2>3, <2>5
    <2>8. DebitOfEvents(Placing, u, a)' = DebitOfEvents(FillEvents(res.fills), u, a)'
            + ReleaseDebit(order[taker], res.takerReleaseCOP, 0, u, a)'
      BY <2>1, <2>2 DEF PlacingIs
    <2>. QED  BY <2>6, <2>7, <2>8
  <1>14. DebitOfLog(u, a)' = DebitOfLog(u, a)
         /\ DebitOfEvents(outbox, u, a)' = DebitOfEvents(outbox, u, a)
    BY <1>1 DEF DebitOfLog, DebitOfEvents
  <1>. QED  BY <1>1, <1>11, <1>12, <1>13, <1>14, EngineSurplus

(* What qty units of order o are worth of the asset it pays with, at its own
   limit. *)
Worth(o, qty, a) ==
    IF a = "COP" THEN (IF o.side = "BUY" THEN qty * o.price ELSE 0)
                 ELSE (IF o.side = "SELL" THEN qty ELSE 0)

(* A fill of qty takes so much from what the order holds. *)
LEMMA FillTakes ==
    ASSUME NEW o \in Order, NEW n \in Order, NEW qty \in Nat, qty <= Remaining(o),
           o.filled <= o.quantity, n.filled = o.filled + qty, n.quantity = o.quantity,
           n.side = o.side, n.price = o.price, NEW a \in Asset
    PROVE  /\ Unfilled(o, a) = Unfilled(n, a) + Worth(o, qty, a)
           /\ Unfilled(n, a) \in Nat /\ Worth(o, qty, a) \in Nat
           /\ Remaining(o) = qty => Unfilled(n, a) = 0
  <1>. DEFINE r == Remaining(o)
              s == Remaining(n)
              p == o.price
  <1>1. o.filled \in Nat /\ o.quantity \in Nat /\ p \in Nat /\ o.side \in Side
    BY OrderNumbers
  <1>2. r = o.quantity - o.filled /\ s = n.quantity - n.filled
    BY DEF Remaining
  <1>. HIDE DEF r, s, p
  <1>3. r \in Nat /\ s \in Nat /\ r = s + qty /\ n.filled <= n.quantity /\ qty <= r
    BY <1>1, <1>2 DEF r
  <1>4. r * p = s * p + qty * p /\ s * p \in Nat /\ qty * p \in Nat
    <2>1. \A x, y, z \in Nat : (x + y) * z = x * z + y * z /\ x * z \in Nat
      OBVIOUS
    <2>. QED  BY <1>1, <1>3, <2>1
  <1>5. /\ CancelRelease(o).COP = IF o.side = "BUY" THEN r * p ELSE 0
        /\ CancelRelease(o).Vibranium = IF o.side = "SELL" THEN r ELSE 0
    BY UnfilledFacts DEF r, p
  <1>6. /\ CancelRelease(n).COP = IF o.side = "BUY" THEN s * p ELSE 0
        /\ CancelRelease(n).Vibranium = IF o.side = "SELL" THEN s ELSE 0
    BY <1>3, UnfilledFacts DEF s, p
  <1>7. Worth(o, qty, a) = IF a = "COP" THEN (IF o.side = "BUY" THEN qty * p ELSE 0)
                                        ELSE (IF o.side = "SELL" THEN qty ELSE 0)
    BY DEF Worth, p
  <1>8. r = qty => s = 0 /\ s * p = 0
    <2>1. r = qty => s = 0
      BY <1>3
    <2>2. 0 * p = 0
      BY <1>1
    <2>. QED  BY <2>1, <2>2
  <1>. DEFINE A == r * p
              B == s * p
              C == qty * p
  <1>9. /\ A = B + C /\ B \in Nat /\ C \in Nat /\ (r = qty => s = 0 /\ B = 0)
        /\ CancelRelease(o).COP = IF o.side = "BUY" THEN A ELSE 0
        /\ CancelRelease(n).COP = IF o.side = "BUY" THEN B ELSE 0
        /\ Worth(o, qty, a) = IF a = "COP" THEN (IF o.side = "BUY" THEN C ELSE 0)
                                           ELSE (IF o.side = "SELL" THEN qty ELSE 0)
    BY <1>4, <1>5, <1>6, <1>7, <1>8
  <1>. HIDE DEF A, B, C
  <1>. QED  BY <1>3, <1>5, <1>6, <1>9 DEF Unfilled, r

(* A trade takes from its two parties what the filled parts of their orders
   were worth; the buying taker gets its price improvement back on top. *)
LEMMA TradeTakes ==
    ASSUME NEW o \in Order, NEW m \in Order, NEW qty \in Nat, NEW id, NEW mid,
           m.side = Opposite(o.side), o.side \in Side,
           NEW x, x = PriceImprovement(o, m.price, qty), NEW t, t = NewTrade(o, id, m, mid, qty),
           NEW u, NEW a \in Asset
    PROVE  TradeDebit(t, u, a) + ReleaseDebit(o, x, 0, u, a)
             = (IF o.userID = u THEN Worth(o, qty, a) ELSE 0)
                 + (IF m.userID = u THEN Worth(m, qty, a) ELSE 0)
  <1>. DEFINE p == o.price
              e == m.price
              A == qty * p
              B == e * qty
              C == (p - e) * qty
              D == qty * e
  <1>1. p \in Nat /\ e \in Nat
    BY OrderNumbers
  <1>2. /\ A = B + C /\ D = B /\ A \in Int /\ B \in Int /\ C \in Int
    <2>. HIDE DEF p, e
    <2>. QED  BY <1>1
  <1>3. /\ t.price = e /\ t.quantity = qty
        /\ t.buyer = IF o.side = "BUY" THEN o.userID ELSE m.userID
        /\ t.seller = IF o.side = "BUY" THEN m.userID ELSE o.userID
    BY DEF NewTrade
  <1>4. x = IF o.side = "BUY" THEN C ELSE 0
    BY DEF PriceImprovement
  <1>5. TradeDebit(t, u, a) = IF a = "COP" THEN (IF t.buyer = u THEN B ELSE 0)
                                           ELSE (IF t.seller = u THEN qty ELSE 0)
    BY <1>3 DEF TradeDebit
  <1>6. ReleaseDebit(o, x, 0, u, a) = IF o.userID = u /\ a = "COP" THEN x ELSE 0
    BY DEF ReleaseDebit
  <1>7. Worth(o, qty, a) = IF a = "COP" THEN (IF o.side = "BUY" THEN A ELSE 0)
                                        ELSE (IF o.side = "SELL" THEN qty ELSE 0)
    BY DEF Worth
  <1>8. Worth(m, qty, a) = IF a = "COP" THEN (IF m.side = "BUY" THEN B ELSE 0)
                                        ELSE (IF m.side = "SELL" THEN qty ELSE 0)
    BY <1>2 DEF Worth
  <1>. HIDE DEF A, B, C, D
  <1>9. CASE o.side = "BUY"
    BY <1>2, <1>3, <1>4, <1>5, <1>6, <1>7, <1>8, <1>9 DEF Opposite
  <1>10. CASE o.side = "SELL"
    BY <1>2, <1>3, <1>4, <1>5, <1>6, <1>7, <1>8, <1>10 DEF Opposite
  <1>. QED  BY <1>9, <1>10 DEF Side

(* What the two orders of a match hold afterwards. *)
LEMMA MatchHolds ==
    ASSUME ControlInv, ControlInv', UNCHANGED <<call, request>>,
           NEW mid \in OrderID, NEW qty \in Nat, Matches(mid, qty),
           NEW u \in UserID, NEW a \in Asset
    PROVE  Total(Held(u, a))
             = Total(Held(u, a))'
                 + (IF order[taker].userID = u THEN Worth(order[taker], qty, a) ELSE 0)
                 + (IF order[mid].userID = u THEN Worth(order[mid], qty, a) ELSE 0)
  <1>0. PICK id \in OrderID : id = taker
    BY DEF Matches
  <1>. DEFINE o == order[id]
              m == order[mid]
              n == [o EXCEPT !.filled = o.filled + qty]
              e == Executed(m, qty)
  <1>1. /\ o \in Order /\ id \notin orders /\ taker' = id /\ taker = id
        /\ m \in Order /\ mid \in orders /\ mid # id
        /\ qty > 0 /\ qty <= Remaining(o) /\ qty <= Remaining(m)
        /\ order' = [order EXCEPT ![mid] = e, ![id] = n]
        /\ orders' = IF Remaining(m) = qty THEN orders \ {mid} ELSE orders
    BY <1>0, Zenon DEF Matches
  <1>2. o # None /\ m # None /\ o.filled <= o.quantity /\ m.filled <= m.quantity
    BY <1>1, OpenOrdersAreOrders DEF OpenIsOrder, Open
  <1>3. /\ n \in Order /\ n.filled = o.filled + qty /\ n.quantity = o.quantity
        /\ n.side = o.side /\ n.price = o.price /\ n.userID = o.userID
    BY <1>1, OrderNumbers DEF Order
  <1>4. /\ e \in Order /\ e.filled = m.filled + qty /\ e.quantity = m.quantity
        /\ e.side = m.side /\ e.price = m.price
    BY <1>1, ExecutedFacts
  <1>5. e.userID = m.userID
    BY <1>1 DEF Executed, Order
  <1>6. /\ order'[id] = n /\ order'[mid] = e
        /\ \A x \in OrderID : (x # id /\ x # mid) => order'[x] = order[x]
    <2>1. order \in [OrderID -> Order \cup {None}]
      BY DEF ControlInv, BookInv, TypeOK
    <2>. HIDE DEF n, e
    <2>. QED  BY <1>1, <2>1
  <1>7. /\ Unfilled(o, a) = Unfilled(n, a) + Worth(o, qty, a)
        /\ Unfilled(n, a) \in Nat /\ Worth(o, qty, a) \in Nat
    <2>. HIDE DEF n, o
    <2>. QED  BY <1>1, <1>2, <1>3, FillTakes
  <1>8. /\ Unfilled(m, a) = Unfilled(e, a) + Worth(m, qty, a)
        /\ Unfilled(e, a) \in Nat /\ Worth(m, qty, a) \in Nat
        /\ Remaining(m) = qty => Unfilled(e, a) = 0
    <2>. HIDE DEF e, m
    <2>. QED  BY <1>1, <1>2, <1>4, FillTakes
  <1>9. n # None /\ e # None
    BY <1>3, <1>4, NoneIsNoOrder
  <1>. HIDE DEF o, m, n, e
  <1>10. HoldNow(id, u, a) = IF o.userID = u THEN Unfilled(o, a) ELSE 0
    BY <1>1, <1>2 DEF HoldNow, Hold, Open, o
  <1>11. HoldNow(id, u, a)' = IF o.userID = u THEN Unfilled(n, a) ELSE 0
    BY <1>1, <1>3, <1>6, <1>9 DEF HoldNow, Hold, Open
  <1>12. HoldNow(mid, u, a) = IF m.userID = u THEN Unfilled(m, a) ELSE 0
    BY <1>1, <1>2 DEF HoldNow, Hold, Open, m
  <1>13. HoldNow(mid, u, a)' = IF m.userID = u THEN Unfilled(e, a) ELSE 0
    <2>1. CASE Remaining(m) = qty
      <3>1. ~Open(mid)'
        BY <1>1, <2>1 DEF Open
      <3>. QED  BY <1>5, <1>6, <1>8, <1>9, <2>1, <3>1 DEF HoldNow, Hold
    <2>2. CASE Remaining(m) # qty
      <3>1. Open(mid)'
        BY <1>1, <2>2 DEF Open
      <3>. QED  BY <1>5, <1>6, <1>9, <3>1 DEF HoldNow, Hold
    <2>. QED  BY <2>1, <2>2
  <1>14. ASSUME NEW x \in OrderID, x # id, x # mid
         PROVE  HoldNow(x, u, a)' = HoldNow(x, u, a)
    <2>1. order'[x] = order[x] /\ call'[x] = call[x] /\ request'[x] = request[x]
      BY <1>6, <1>14
    <2>2. Open(x)' <=> Open(x)
      BY <1>1, <1>14 DEF Open
    <2>. QED  BY <2>1, <2>2 DEF HoldNow, Hold
  <1>15. Total(Held(u, a))' = Total(Held(u, a)) - HoldNow(id, u, a) + HoldNow(id, u, a)'
                                - HoldNow(mid, u, a) + HoldNow(mid, u, a)'
    BY <1>1, <1>14, HeldTwo
  <1>16. Total(Held(u, a)) \in Nat /\ Total(Held(u, a))' \in Nat
    BY AmountsAreNat, AfterStep DEF Amounts
  <1>17. Total(Held(u, a)) = Total(Held(u, a))'
                    + (IF o.userID = u THEN Worth(o, qty, a) ELSE 0)
                    + (IF m.userID = u THEN Worth(m, qty, a) ELSE 0)
    BY <1>7, <1>8, <1>10, <1>11, <1>12, <1>13, <1>15, <1>16
  <1>. QED  BY <1>0, <1>17 DEF o, m

(* One more iteration of the matching loop moves what the two orders held to
   the events of the call. *)
LEMMA EngineMatchSurplus ==
    ASSUME ControlInv, ControlInv', Covered, EngineMatch, NEW u \in UserID, NEW a \in Asset
    PROVE  Surplus(u, a)' = Surplus(u, a)
  <1>1. BookInv /\ MatchStep /\ UNCHANGED <<call, request, outbox, log, job, journal, wallets>>
    BY DEF ControlInv, EngineMatch, clientVars, engineVars, logVars, settlementVars
  <1>2. PICK mid \in OrderID, qty \in Nat : Matches(mid, qty)
    BY <1>1, MatchEffect
  <1>. DEFINE o == order[taker]
              m == order[mid]
              n == [o EXCEPT !.filled = o.filled + qty]
              t == NewTrade(o, taker, m, mid, qty)
              f == [trade |-> t, makerID |-> mid, maker |-> Executed(m, qty)]
              x == PriceImprovement(o, m.price, qty)
              r == res.takerReleaseCOP
              q == FillEvents(res.fills)
  <1>3. /\ taker \in OrderID /\ o \in Order /\ taker' = taker /\ mid # taker
        /\ m \in Order /\ m.side = Opposite(o.side) /\ o.side \in Side
        /\ order' = [order EXCEPT ![mid] = Executed(m, qty), ![taker] = n]
        /\ f \in Fill
        /\ res' = [fills |-> Append(res.fills, f), takerReleaseCOP |-> r + x]
    BY <1>2, OrderNumbers, Zenon DEF Matches
  <1>4. t \in MadeTrade /\ x \in Nat
    BY <1>1, <1>2, MatchMakes
  <1>5. f.trade = t
    OBVIOUS
  <1>6. Made(res.fills) /\ r \in Nat
    BY FillsMade
  <1>7. order'[taker'] = n /\ n.userID = o.userID
    <2>1. order \in [OrderID -> Order \cup {None}]
      BY DEF ControlInv, BookInv, TypeOK
    <2>2. n.userID = o.userID
      BY <1>3 DEF Order
    <2>. HIDE DEF n
    <2>. QED  BY <1>3, <2>1, <2>2
  <1>8. res'.fills = Append(res.fills, f) /\ res'.takerReleaseCOP = r + x
    BY <1>3
  <1>9. taker # None
    BY <1>3, NoneAssumption
  <1>. HIDE DEF o, m, n, t, f, x, r, q
  <1>10. /\ q \in Seq(Event) /\ TradeEvent(f) \in Event /\ MakerUpdated(f) \in Event
         /\ FillEvents(Append(res.fills, f)) = Append(Append(q, TradeEvent(f)), MakerUpdated(f))
    BY <1>3, <1>4, <1>5, <1>6, FillEventsFacts, EventTypes DEF q
  <1>11. DebitOfEvents(FillEvents(Append(res.fills, f)), u, a)
           = DebitOfEvents(q, u, a) + TradeDebit(t, u, a)
    <2>. DEFINE g == TradeEvent(f)
                e == MakerUpdated(f)
                p == Append(q, g)
    <2>1. p \in Seq(Event)
      BY <1>10, AppendProperties
    <2>2. DebitOf(Writes(g), u, a) = TradeDebit(t, u, a)
      BY <1>4, <1>5, EventDebits
    <2>3. DebitOf(Writes(e), u, a) = 0
      <3>1. f.makerID \in OrderID /\ f.maker \in Order
        BY <1>3 DEF Fill
      <3>2. DebitOf(Writes(e), u, a) = ReleaseDebit(f.maker, 0, 0, u, a)
        BY <3>1, EventDebits DEF MakerUpdated
      <3>. QED  BY <3>2 DEF ReleaseDebit
    <2>4. DebitOfEvents(q, u, a) \in Nat /\ DebitOf(Writes(g), u, a) \in Nat
      BY <1>10, EventsDebit, EventWrites
    <2>. HIDE DEF g, e
    <2>5. DebitOfEvents(p, u, a) = DebitOfEvents(q, u, a) + DebitOf(Writes(g), u, a)
      BY <1>10, EventsDebit DEF g
    <2>. HIDE DEF p
    <2>6. DebitOfEvents(Append(p, e), u, a) = DebitOfEvents(p, u, a) + DebitOf(Writes(e), u, a)
      BY <1>10, <2>1, EventsDebit DEF e
    <2>. QED  BY <1>10, <2>2, <2>3, <2>4, <2>5, <2>6 DEF p, g, e
  <1>12. DebitOfEvents(Placing, u, a)
           = DebitOfEvents(q, u, a) + ReleaseDebit(o, r, 0, u, a) /\ DebitOfEvents(q, u, a) \in Nat
    BY <1>9, PlacingDebit DEF PlacingIs, q, o, r
  <1>13. DebitOfEvents(Placing, u, a)'
           = DebitOfEvents(q, u, a) + TradeDebit(t, u, a) + ReleaseDebit(n, r + x, 0, u, a)
    <2>1. PlacingIs'
      BY PlacingDebit, PTL
    <2>2. DebitOfEvents(FillEvents(res.fills), u, a)'
            = DebitOfEvents(FillEvents(Append(res.fills, f)), u, a)
      BY <1>8
    <2>3. ReleaseDebit(order[taker], res.takerReleaseCOP, 0, u, a)'
            = ReleaseDebit(n, r + x, 0, u, a)
      BY <1>7, <1>8
    <2>4. DebitOfEvents(Placing, u, a)' = DebitOfEvents(FillEvents(res.fills), u, a)'
            + ReleaseDebit(order[taker], res.takerReleaseCOP, 0, u, a)'
      BY <1>3, <1>9, <2>1 DEF PlacingIs
    <2>. QED  BY <1>11, <2>2, <2>3, <2>4
  <1>14. /\ ReleaseDebit(n, r + x, 0, u, a)
              = ReleaseDebit(o, r, 0, u, a) + ReleaseDebit(o, x, 0, u, a)
         /\ ReleaseDebit(o, r, 0, u, a) \in Nat /\ ReleaseDebit(o, x, 0, u, a) \in Nat
    BY <1>4, <1>6, <1>7 DEF ReleaseDebit
  <1>15. TradeDebit(t, u, a) \in Nat
    <2>1. DebitOf(Writes(TradeEvent(f)), u, a) = TradeDebit(t, u, a)
      BY <1>4, <1>5, EventDebits
    <2>. QED  BY <1>10, <2>1, EventWrites
  <1>. DEFINE d == (IF o.userID = u THEN Worth(o, qty, a) ELSE 0)
              k == (IF m.userID = u THEN Worth(m, qty, a) ELSE 0)
  <1>16. TradeDebit(t, u, a) + ReleaseDebit(o, x, 0, u, a) = d + k
    BY <1>3, TradeTakes DEF t, x
  <1>17. Total(Held(u, a)) = Total(Held(u, a))' + d + k
    BY <1>1, <1>2, MatchHolds DEF o, m
  <1>18. d \in Nat /\ k \in Nat
    <2>1. \A w \in Order : Worth(w, qty, a) \in Nat
      <3>. TAKE w \in Order
      <3>1. w.price \in Nat
        BY OrderNumbers
      <3>2. \A i, j \in Nat : i * j \in Nat
        OBVIOUS
      <3>. QED  BY <3>1, <3>2 DEF Worth
    <2>. QED  BY <1>3, <2>1
  <1>. HIDE DEF d, k
  <1>19. /\ DebitOfLog(u, a)' = DebitOfLog(u, a)
         /\ DebitOfEvents(outbox, u, a)' = DebitOfEvents(outbox, u, a)
    BY <1>1 DEF DebitOfLog, DebitOfEvents
  <1>20. /\ Total(Held(u, a))' \in Nat /\ DebitOfLog(u, a) \in Nat
         /\ DebitOfEvents(outbox, u, a) \in Nat
    BY AmountsAreNat, AfterStep DEF Amounts
  <1>. DEFINE h == Total(Held(u, a))
              H == Total(Held(u, a))'
              l == DebitOfLog(u, a)
              b == DebitOfEvents(outbox, u, a)
              p == DebitOfEvents(Placing, u, a)
              P == DebitOfEvents(Placing, u, a)'
              A == DebitOfEvents(q, u, a)
              T == TradeDebit(t, u, a)
              R == ReleaseDebit(o, r, 0, u, a)
              X == ReleaseDebit(o, x, 0, u, a)
  <1>21. /\ p = A + R /\ P = A + T + (R + X) /\ T + X = d + k /\ h = H + d + k
         /\ A \in Nat /\ T \in Nat /\ R \in Nat /\ X \in Nat /\ H \in Nat
         /\ l \in Nat /\ b \in Nat
    BY <1>12, <1>13, <1>14, <1>15, <1>16, <1>17, <1>20
  <1>22. h + l + b + p = H + l + b + P
    <2>. HIDE DEF h, H, l, b, p, P, A, T, R, X
    <2>. QED  BY <1>18, <1>21
  <1>23. Total(Held(u, a)) + DebitOfLog(u, a) + DebitOfEvents(outbox, u, a)
               + DebitOfEvents(Placing, u, a)
             = Total(Held(u, a))' + DebitOfLog(u, a)' + DebitOfEvents(outbox, u, a)'
               + DebitOfEvents(Placing, u, a)'
    BY <1>19, <1>22
  <1>. QED  BY <1>1, <1>23, EngineSurplus

(* The call ends: its events wait to be published, and what is left of the
   order rests. *)
LEMMA EngineFinishSurplus ==
    ASSUME ControlInv, ControlInv', Covered, EngineFinish, NEW u \in UserID, NEW a \in Asset
    PROVE  Surplus(u, a)' = Surplus(u, a)
  <1>1. /\ BookInv /\ PlaceFinish /\ outbox' = PlaceEvents(res, taker, order'[taker])
        /\ UNCHANGED <<call, request, log, job, journal, wallets>>
    BY DEF ControlInv, EngineFinish, clientVars, logVars, settlementVars
  <1>0. PICK id \in OrderID : id = taker
    BY <1>1, FinishedOrder
  <1>. DEFINE o == order[id]
              n == order'[id]
              r == res.takerReleaseCOP
              q == FillEvents(res.fills)
              e == OrderUpdated(id, n, r, 0)
  <1>2. /\ o \in Order /\ n \in Order /\ id \notin orders /\ taker' = None
        /\ \A x \in OrderID : x # id => order'[x] = order[x]
        /\ n.userID = o.userID /\ n.filled = o.filled /\ n.quantity = o.quantity
        /\ n.side = o.side /\ n.price = o.price
        /\ orders' = IF Remaining(o) = 0 THEN orders ELSE orders \cup {id}
    BY <1>0, <1>1, FinishedOrder DEF PlaceFinish
  <1>3. Made(res.fills) /\ r \in Nat /\ id # None /\ outbox = <<>>
    BY <1>0, FillsMade, NoneAssumption DEF ControlInv, PhasesOK
  <1>. HIDE DEF o, n, r, q
  <1>4. /\ outbox' = Append(q, e) /\ q \in Seq(Event) /\ e \in Event
    BY <1>0, <1>1, <1>2, <1>3, PlaceEventsFacts, FillEventsFacts, EventTypes DEF n, q, r
  <1>5. DebitOf(Writes(e), u, a) = ReleaseDebit(o, r, 0, u, a)
    <2>1. DebitOf(Writes(e), u, a) = ReleaseDebit(n, r, 0, u, a)
      BY <1>2, <1>3, EventDebits
    <2>. QED  BY <1>2, <2>1 DEF ReleaseDebit
  <1>. HIDE DEF e
  <1>6. DebitOfEvents(Append(q, e), u, a) = DebitOfEvents(q, u, a) + ReleaseDebit(o, r, 0, u, a)
    BY <1>4, <1>5, EventsDebit
  <1>7. DebitOfEvents(Placing, u, a) = DebitOfEvents(q, u, a) + ReleaseDebit(o, r, 0, u, a)
    BY <1>0, <1>3, PlacingDebit DEF PlacingIs, q, o, r
  <1>8. DebitOfEvents(Placing, u, a)' = 0
    <2>1. PlacingIs'
      BY PlacingDebit, PTL
    <2>. QED  BY <1>2, <2>1 DEF PlacingIs
  <1>9. DebitOfEvents(outbox, u, a) = 0
    <2>1. <<>> \in Seq(Event)
      OBVIOUS
    <2>. QED  BY <1>3, <2>1, EventsDebit
  <1>10. DebitOfEvents(outbox, u, a)' = DebitOfEvents(Placing, u, a)
    BY <1>4, <1>6, <1>7
  <1>11. DebitOfLog(u, a)' = DebitOfLog(u, a)
    BY <1>1 DEF DebitOfLog
  <1>12. Unfilled(n, a) = Unfilled(o, a) /\ (Remaining(o) = 0 => Unfilled(o, a) = 0)
         /\ o # None /\ n # None
    <2>1. o # None /\ n # None
      BY <1>2, NoneIsNoOrder
    <2>2. Unfilled(n, a) = Unfilled(o, a)
      BY <1>2 DEF Unfilled, CancelRelease, Remaining
    <2>3. Remaining(o) = 0 => Unfilled(o, a) = 0
      <3>1. o.price \in Nat
        BY <1>2, OrderNumbers
      <3>2. 0 * o.price = 0
        BY <3>1
      <3>. QED  BY <3>2 DEF Unfilled, CancelRelease
    <2>. QED  BY <2>1, <2>2, <2>3
  <1>13. HoldNow(id, u, a) = IF o.userID = u THEN Unfilled(o, a) ELSE 0
    BY <1>0, <1>12 DEF HoldNow, Hold, Open, o
  <1>14. HoldNow(id, u, a)' = IF o.userID = u THEN Unfilled(o, a) ELSE 0
    <2>1. Open(id)' <=> Remaining(o) # 0
      BY <1>2, <1>3 DEF Open
    <2>2. HoldNow(id, u, a)' = Hold(n, call'[id], request'[id], Open(id)', u, a)
      BY DEF HoldNow, n
    <2>. QED  BY <1>2, <1>12, <2>1, <2>2 DEF Hold
  <1>15. ASSUME NEW x \in OrderID, x # id
         PROVE  HoldNow(x, u, a)' = HoldNow(x, u, a)
    <2>1. order'[x] = order[x] /\ call'[x] = call[x] /\ request'[x] = request[x]
      BY <1>1, <1>2, <1>15
    <2>2. x # None
      BY NoneAssumption
    <2>3. Open(x)' <=> Open(x)
      BY <1>0, <1>2, <1>15, <2>2 DEF Open
    <2>. QED  BY <2>1, <2>3 DEF HoldNow, Hold
  <1>16. \A x \in OrderID : HoldNow(x, u, a)' = HoldNow(x, u, a)
    BY <1>13, <1>14, <1>15
  <1>17. Total(Held(u, a))' = Total(Held(u, a))
    BY <1>16, HeldSame
  <1>18. /\ Total(Held(u, a)) \in Nat /\ DebitOfLog(u, a) \in Nat
         /\ DebitOfEvents(Placing, u, a) \in Nat
    BY AmountsAreNat DEF Amounts
  <1>19. Total(Held(u, a)) + DebitOfLog(u, a) + DebitOfEvents(outbox, u, a)
               + DebitOfEvents(Placing, u, a)
             = Total(Held(u, a))' + DebitOfLog(u, a)' + DebitOfEvents(outbox, u, a)'
               + DebitOfEvents(Placing, u, a)'
    BY <1>8, <1>9, <1>10, <1>11, <1>17, <1>18
  <1>. QED  BY <1>1, <1>19, EngineSurplus

(* A cancel turns what the order still holds into a release on its way. *)
LEMMA EngineCancelSurplus ==
    ASSUME ControlInv, ControlInv', Covered, EngineCancel, NEW u \in UserID, NEW a \in Asset
    PROVE  Surplus(u, a)' = Surplus(u, a)
  <1>0. PICK id \in OrderID : id = Head(in).id
    BY ChannelFacts DEF ControlInv, EngineCancel
  <1>. DEFINE o == order[id]
              n == order'[id]
              x == CancelRelease(o).COP
              y == CancelRelease(o).Vibranium
              e == OrderUpdated(id, n, x, y)
  <1>1. /\ BookInv /\ Cancel(id) /\ outbox' = <<e>> /\ serving = None
        /\ UNCHANGED <<call, request, log, job, journal, wallets>>
    BY <1>0 DEF ControlInv, EngineCancel, EngineIdle, clientVars, logVars, settlementVars
  <1>2. /\ o \in Order /\ n \in Order /\ id \in orders /\ orders' = orders \ {id}
        /\ taker = None /\ taker' = None /\ n.userID = o.userID /\ o.filled <= o.quantity
        /\ \A z \in OrderID : z # id => order'[z] = order[z]
    BY <1>1, CancelledOrder
  <1>3. outbox = <<>> /\ id # None
    BY <1>1, NoneAssumption DEF ControlInv, PhasesOK
  <1>4. x \in Nat /\ y \in Nat
    BY <1>2, UnfilledFacts
  <1>5. Unfilled(o, a) = IF a = "COP" THEN x ELSE y
    BY DEF Unfilled
  <1>. HIDE DEF o, n, x, y
  <1>6. e \in Event /\ DebitOf(Writes(e), u, a) = ReleaseDebit(n, x, y, u, a)
    BY <1>2, <1>4, EventTypes, EventDebits
  <1>. HIDE DEF e
  <1>7. ReleaseDebit(n, x, y, u, a) = IF o.userID = u THEN Unfilled(o, a) ELSE 0
    BY <1>2, <1>5 DEF ReleaseDebit
  <1>8. DebitOfEvents(outbox, u, a)' = IF o.userID = u THEN Unfilled(o, a) ELSE 0
    <2>1. <<>> \in Seq(Event) /\ Append(<<>>, e) = <<e>>
      BY <1>6
    <2>2. DebitOfEvents(<<>>, u, a) = 0
      BY <2>1, EventsDebit
    <2>3. DebitOfEvents(Append(<<>>, e), u, a) = DebitOfEvents(<<>>, u, a) + DebitOf(Writes(e), u, a)
      BY <1>6, <2>1, EventsDebit
    <2>4. DebitOf(Writes(e), u, a) \in Nat
      BY <1>6, EventWrites
    <2>. QED  BY <1>1, <1>6, <1>7, <2>1, <2>2, <2>3, <2>4
  <1>9. DebitOfEvents(outbox, u, a) = 0
    <2>1. <<>> \in Seq(Event)
      OBVIOUS
    <2>. QED  BY <1>3, <2>1, EventsDebit
  <1>10. o # None /\ n # None
    BY <1>2, NoneIsNoOrder
  <1>11. HoldNow(id, u, a) = IF o.userID = u THEN Unfilled(o, a) ELSE 0
    BY <1>2, <1>10 DEF HoldNow, Hold, Open, o
  <1>12. HoldNow(id, u, a)' = 0
    <2>1. ~Open(id)'
      BY <1>2, <1>3 DEF Open
    <2>. QED  BY <1>10, <2>1 DEF HoldNow, Hold, n
  <1>13. ASSUME NEW z \in OrderID, z # id
         PROVE  HoldNow(z, u, a)' = HoldNow(z, u, a)
    <2>1. order'[z] = order[z] /\ call'[z] = call[z] /\ request'[z] = request[z]
      BY <1>1, <1>2, <1>13
    <2>2. Open(z)' <=> Open(z)
      BY <1>2, <1>13 DEF Open
    <2>. QED  BY <2>1, <2>2 DEF HoldNow, Hold
  <1>14. /\ Total(Held(u, a))' = Total(Held(u, a)) - HoldNow(id, u, a) + HoldNow(id, u, a)'
         /\ HoldNow(id, u, a) \in Nat /\ HoldNow(id, u, a) <= Total(Held(u, a))
    BY <1>13, HeldOne
  <1>15. DebitOfLog(u, a)' = DebitOfLog(u, a)
    BY <1>1 DEF DebitOfLog
  <1>16. DebitOfEvents(Placing, u, a) = 0 /\ DebitOfEvents(Placing, u, a)' = 0
    <2>1. PlacingIs'
      BY PlacingDebit, PTL
    <2>. QED  BY <1>2, <2>1, PlacingDebit DEF PlacingIs
  <1>17. Total(Held(u, a)) \in Nat /\ DebitOfLog(u, a) \in Nat
    BY AmountsAreNat DEF Amounts
  <1>18. Total(Held(u, a)) + DebitOfLog(u, a) + DebitOfEvents(outbox, u, a)
               + DebitOfEvents(Placing, u, a)
             = Total(Held(u, a))' + DebitOfLog(u, a)' + DebitOfEvents(outbox, u, a)'
               + DebitOfEvents(Placing, u, a)'
    BY <1>8, <1>9, <1>11, <1>12, <1>14, <1>15, <1>16, <1>17
  <1>. QED  BY <1>1, <1>18, EngineSurplus

(* A published event leaves the outbox for the log. *)
LEMMA EnginePublishSurplus ==
    ASSUME ControlInv, ControlInv', Covered, EnginePublish, NEW u \in UserID, NEW a \in Asset
    PROVE  Surplus(u, a)' = Surplus(u, a)
  <1>. DEFINE e == Head(outbox)
              q == Tail(outbox)
  <1>1. /\ outbox # <<>> /\ log' = Append(log, e) /\ outbox' = q
        /\ UNCHANGED <<bookVars, call, request, job, journal, wallets>>
    BY DEF EnginePublish, clientVars, settlementVars
  <1>2. outbox \in Seq(Event) /\ log \in Seq(Event) /\ journal \in SUBSET (1..Len(log))
    BY LogFacts DEF ControlInv
  <1>3. e \in Event /\ q \in Seq(Event)
    BY <1>1, <1>2
  <1>4. DebitOfEvents(outbox, u, a) = DebitOf(Writes(e), u, a) + DebitOfEvents(q, u, a)
    BY <1>1, <1>2, EventsDebit
  <1>. HIDE DEF e, q
  <1>5. Total(Unmarked(Append(log, e), journal, u, a))
          = Total(Unmarked(log, journal, u, a)) + DebitOf(Writes(e), u, a)
    BY <1>2, <1>3, LogDebit
  <1>6. /\ DebitOfLog(u, a) = Total(Unmarked(log, journal, u, a))
        /\ DebitOfLog(u, a)' = Total(Unmarked(Append(log, e), journal, u, a))
    BY <1>1 DEF DebitOfLog, Unmarked
  <1>7. DebitOfEvents(outbox, u, a)' = DebitOfEvents(q, u, a)
    BY <1>1
  <1>8. \A x \in OrderID : HoldNow(x, u, a)' = HoldNow(x, u, a)
    BY <1>1 DEF HoldNow, Hold, Open, bookVars
  <1>9. Total(Held(u, a))' = Total(Held(u, a))
    BY <1>8, HeldSame
  <1>10. DebitOfEvents(Placing, u, a)' = DebitOfEvents(Placing, u, a)
    <2>1. Placing' = Placing
      BY <1>1 DEF Placing, bookVars
    <2>. QED  BY <2>1
  <1>11. /\ DebitOfLog(u, a) \in Nat /\ DebitOfEvents(q, u, a) \in Nat
         /\ DebitOf(Writes(e), u, a) \in Nat /\ Total(Held(u, a)) \in Nat
         /\ DebitOfEvents(Placing, u, a) \in Nat
    BY <1>3, AmountsAreNat, EventsDebit, EventWrites DEF Amounts
  <1>. DEFINE A == DebitOfLog(u, a)
              B == DebitOfLog(u, a)'
              E == DebitOf(Writes(e), u, a)
              O == DebitOfEvents(outbox, u, a)
              Q == DebitOfEvents(q, u, a)
              h == Total(Held(u, a))
              p == DebitOfEvents(Placing, u, a)
  <1>12. B = A + E /\ O = E + Q /\ A \in Nat /\ E \in Nat /\ Q \in Nat /\ h \in Nat /\ p \in Nat
    BY <1>4, <1>5, <1>6, <1>11
  <1>13. h + A + O + p = h + B + Q + p
    <2>. HIDE DEF A, B, E, O, Q, h, p
    <2>. QED  BY <1>12
  <1>14. Total(Held(u, a)) + DebitOfLog(u, a) + DebitOfEvents(outbox, u, a)
               + DebitOfEvents(Placing, u, a)
             = Total(Held(u, a))' + DebitOfLog(u, a)' + DebitOfEvents(outbox, u, a)'
               + DebitOfEvents(Placing, u, a)'
    BY <1>7, <1>9, <1>10, <1>13
  <1>. QED  BY <1>1, <1>14, EngineSurplus

(* A reply, or a cancel of an order that is gone, moves no obligation. *)
LEMMA EngineReplySurplus ==
    ASSUME ControlInv, ControlInv', Covered, EngineReply \/ EngineCancelUnknown,
           NEW u \in UserID, NEW a \in Asset
    PROVE  Surplus(u, a)' = Surplus(u, a)
  <1>1. UNCHANGED <<bookVars, request, job, log, journal, outbox, wallets>>
    BY DEF EngineReply, EngineCancelUnknown, logVars, settlementVars
  <1>2. CallsOK /\ CommandsOK
    BY DEF ControlInv
  <1>3. \A x \in OrderID : order[x] = None => call'[x] = call[x]
    <2>1. CASE UNCHANGED call
      BY <2>1
    <2>2. CASE /\ serving # None /\ serving.kind = "place"
               /\ call' = ReplyTo(call, serving.id, "replied")
      <3>1. order[serving.id] # None
        BY <1>2, <2>2 DEF CommandsOK
      <3>. QED  BY <1>2, <2>2, <3>1 DEF ReplyTo, CallsOK
    <2>. QED  BY <2>1, <2>2 DEF EngineReply, EngineCancelUnknown
  <1>4. ASSUME NEW x \in OrderID
        PROVE  HoldNow(x, u, a)' = HoldNow(x, u, a)
    <2>1. order'[x] = order[x] /\ request'[x] = request[x] /\ (Open(x)' <=> Open(x))
      BY <1>1 DEF bookVars, Open
    <2>. QED  BY <1>3, <2>1 DEF HoldNow, Hold
  <1>5. Total(Held(u, a))' = Total(Held(u, a))
    BY <1>4, HeldSame
  <1>6. LockedBy(u, a)' = LockedBy(u, a) /\ LockedBy(u, a) \in Nat /\ Total(Held(u, a)) \in Nat
    BY <1>1, AmountsAreNat DEF LockedBy, Amounts
  <1>7. LockedBy(u, a)' - LockedBy(u, a) = Total(Held(u, a))' - Total(Held(u, a))
    BY <1>5, <1>6
  <1>. QED  BY <1>1, <1>7, ClientSurplus

(* Engine steps. *)
LEMMA EngineStep ==
    ASSUME ControlInv, ControlInv', Covered, EngineNext
    PROVE  SurplusKept
  <1>. SUFFICES ASSUME NEW u \in UserID, NEW a \in Asset
                PROVE  Surplus(u, a)' = Surplus(u, a)
    BY DEF SurplusKept
  <1>. QED  BY EnginePlaceSurplus, EngineMatchSurplus, EngineFinishSurplus, EngineCancelSurplus,
               EnginePublishSurplus, EngineReplySurplus DEF EngineNext

(* Steps of settlement leave the book, the clients and the engine alone. *)
LEMMA SettlementSurplus ==
    ASSUME ControlInv, ControlInv', Covered, UNCHANGED <<bookVars, call, request, outbox>>,
           NEW u \in UserID, NEW a \in Asset,
           LockedBy(u, a)' + DebitOf(job, u, a) + DebitOfLog(u, a)
             = LockedBy(u, a) + DebitOf(job, u, a)' + DebitOfLog(u, a)'
    PROVE  Surplus(u, a)' = Surplus(u, a)
  <1>1. \A x \in OrderID : HoldNow(x, u, a)' = HoldNow(x, u, a)
    BY DEF HoldNow, Hold, Open, bookVars
  <1>2. Total(Held(u, a))' = Total(Held(u, a))
    BY <1>1, HeldSame
  <1>3. Placing' = Placing
    BY DEF Placing, bookVars
  <1>4. /\ DebitOfEvents(Placing, u, a)' = DebitOfEvents(Placing, u, a)
        /\ DebitOfEvents(outbox, u, a)' = DebitOfEvents(outbox, u, a)
    BY <1>3
  <1>. DEFINE h == Total(Held(u, a))
              d == DebitOf(job, u, a)
              l == DebitOfLog(u, a)
              o == DebitOfEvents(outbox, u, a)
              p == DebitOfEvents(Placing, u, a)
              k == LockedBy(u, a)
              w == Owed(u, a)
              d2 == DebitOf(job, u, a)'
              l2 == DebitOfLog(u, a)'
              k2 == LockedBy(u, a)'
              w2 == Owed(u, a)'
  <1>5. /\ h \in Nat /\ d \in Nat /\ l \in Nat /\ o \in Nat /\ p \in Nat
        /\ d2 \in Nat /\ l2 \in Nat /\ k2 \in Nat /\ k \in Nat
    BY AmountsAreNat, AfterStep DEF Amounts
  <1>6. w = h + (d + l + o + p) /\ w2 = h + (d2 + l2 + o + p)
    BY <1>2, <1>4 DEF Owed, Pending
  <1>7. k2 + d + l = k + d2 + l2
    OBVIOUS
  <1>. HIDE DEF h, d, l, o, p, k, w, d2, l2, k2, w2
  <1>8. k2 - w2 = k - w
    BY <1>5, <1>6, <1>7
  <1>. QED  BY <1>8 DEF Surplus, k, w, k2, w2

(* A received event leaves the log for the job. *)
LEMMA ReceiveSurplus ==
    ASSUME ControlInv, ControlInv', Covered, SettlementReceive, NEW u \in UserID, NEW a \in Asset
    PROVE  Surplus(u, a)' = Surplus(u, a)
  <1>. DEFINE k == pos + 1
              e == log[k]
  <1>1. /\ LogOK /\ job = <<>> /\ pos < Len(log) /\ journal' = journal \cup {k}
        /\ job' = IF Fresh(k) THEN Writes(e) ELSE <<>>
        /\ UNCHANGED <<bookVars, call, request, outbox, log, wallets>>
    BY DEF ControlInv, SettlementReceive, MarkProcessed, clientVars, engineVars
  <1>2. log \in Seq(Event) /\ k \in 1..Len(log) /\ journal \in SUBSET (1..Len(log)) /\ e \in Event
    BY <1>1, LogFacts
  <1>. HIDE DEF k
  <1>3. CASE Fresh(k)
    <2>1. k \notin journal /\ job' = Writes(e)
      BY <1>1, <1>3 DEF Fresh
    <2>2. Total(Unmarked(log, journal \cup {k}, u, a))
            = Total(Unmarked(log, journal, u, a)) - DebitOf(Writes(e), u, a)
      <3>1. Marks(log, journal, k)
        BY <1>2, <2>1 DEF Marks
      <3>. QED  BY <3>1, LogMarked
    <2>3. /\ DebitOfLog(u, a) = Total(Unmarked(log, journal, u, a))
          /\ DebitOfLog(u, a)' = Total(Unmarked(log, journal \cup {k}, u, a))
      BY <1>1 DEF DebitOfLog, Unmarked
    <2>. HIDE DEF e
    <2>4. DebitOf(job, u, a) = 0 /\ DebitOf(job, u, a)' = DebitOf(Writes(e), u, a)
      BY <1>1, <2>1, DebitOfNone
    <2>5. /\ DebitOf(Writes(e), u, a) \in Nat /\ DebitOfLog(u, a) \in Nat
          /\ LockedBy(u, a) \in Nat
      BY <1>2, EventWrites, AmountsAreNat DEF Amounts
    <2>6. LockedBy(u, a)' = LockedBy(u, a)
      BY <1>1 DEF LockedBy
    <2>7. LockedBy(u, a)' + DebitOf(job, u, a) + DebitOfLog(u, a)
               = LockedBy(u, a) + DebitOf(job, u, a)' + DebitOfLog(u, a)'
      BY <2>2, <2>3, <2>4, <2>5, <2>6
    <2>. QED  BY <1>1, <2>7, SettlementSurplus
  <1>4. CASE ~Fresh(k)
    <2>1. journal' = journal /\ job' = job
      BY <1>1, <1>4 DEF Fresh
    <2>2. /\ DebitOf(job, u, a)' = DebitOf(job, u, a) /\ LockedBy(u, a)' = LockedBy(u, a)
          /\ DebitOfLog(u, a)' = DebitOfLog(u, a)
      BY <1>1, <2>1 DEF LockedBy, DebitOfLog
    <2>3. DebitOf(job, u, a) \in Nat /\ DebitOfLog(u, a) \in Nat /\ LockedBy(u, a) \in Nat
      BY AmountsAreNat DEF Amounts
    <2>4. LockedBy(u, a)' + DebitOf(job, u, a) + DebitOfLog(u, a)
               = LockedBy(u, a) + DebitOf(job, u, a)' + DebitOfLog(u, a)'
      BY <2>2, <2>3
    <2>. QED  BY <1>1, <2>4, SettlementSurplus
  <1>. QED  BY <1>3, <1>4

(* The wallet write in hand always applies: what it takes is owed, hence
   locked in a wallet that exists. *)
LEMMA WriteCovered ==
    ASSUME ControlInv, Covered, job # <<>>, Head(job).write \in WalletWrites
    PROVE  /\ Head(job) \in WalletWrite /\ Head(job).user \in UserID
           /\ wallets[Head(job).user] # None
           /\ wallets[Head(job).user] \in NatWallet
           /\ CanApply(wallets[Head(job).user], Head(job))
  <1>. DEFINE j == Head(job)
              u == j.user
              w == wallets[u]
  <1>1. JobOK /\ job \in Seq(Write)
    BY DEF ControlInv, JobOK
  <1>2. j \in WalletWrite /\ u \in UserID /\ j \in Write /\ Tail(job) \in Seq(Write)
    BY <1>1, JobHead
  <1>3. ASSUME NEW a \in Asset
        PROVE  Debit(j, u, a) \in Nat /\ Debit(j, u, a) <= Owed(u, a) /\ Owed(u, a) \in Nat
    <2>1. DebitOf(job, u, a) = Debit(j, u, a) + DebitOf(Tail(job), u, a)
      BY <1>1, DebitOfHead
    <2>2. DebitOf(Tail(job), u, a) \in Nat
      BY <1>2, DebitOfHead
    <2>3. Debit(j, u, a) \in Nat
      BY <1>2, DebitType
    <2>4. DebitOf(job, u, a) <= Owed(u, a) /\ Owed(u, a) \in Nat
      BY <1>2, OwedBounds
    <2>. QED  BY <2>1, <2>2, <2>3, <2>4
  <1>. HIDE DEF j
  <1>4. Debit(j, u, "COP") # 0 \/ Debit(j, u, "Vibranium") # 0
    BY <1>2, DebitFacts
  <1>5. \E a \in Asset : Owed(u, a) # 0
    <2>1. "COP" \in Asset /\ "Vibranium" \in Asset
      BY DEF Asset
    <2>2. PICK a \in Asset : Debit(j, u, a) # 0
      BY <1>4, <2>1
    <2>3. Owed(u, a) # 0
      BY <1>3, <2>2
    <2>. QED  BY <2>3
  <1>6. /\ w # None /\ w \in NatWallet
        /\ \A a \in Asset : Locked(w, a) >= Owed(u, a) /\ Locked(w, a) \in Nat
    BY <1>2, <1>5, OwedIsLocked
  <1>7. \A a \in Asset : Locked(w, a) >= Debit(j, u, a)
    BY <1>3, <1>6
  <1>8. CanApply(w, j)
    BY <1>2, <1>6, <1>7, ApplyMoves
  <1>. QED  BY <1>2, <1>6, <1>8 DEF j

(* A wallet write takes from the locked funds what it was owed. *)
LEMMA WalletSurplus ==
    ASSUME ControlInv, ControlInv', Covered, SettlementWallet, NEW u \in UserID, NEW a \in Asset
    PROVE  Surplus(u, a)' = Surplus(u, a)
  <1>. DEFINE j == Head(job)
              v == j.user
              w == wallets[v]
              n == Apply(w, j)
  <1>1. /\ StoresOK /\ job \in Seq(Write) /\ job # <<>> /\ j.write \in WalletWrites
        /\ UpdateWallet(v, n) /\ job' = Tail(job)
        /\ UNCHANGED <<bookVars, call, request, outbox, log, journal>>
    BY DEF ControlInv, JobOK, SettlementWallet, clientVars, engineVars, logVars
  <1>2. j \in WalletWrite /\ v \in UserID /\ w # None /\ w \in NatWallet /\ CanApply(w, j)
    BY <1>1, WriteCovered
  <1>3. n \in NatWallet /\ Locked(n, a) = Locked(w, a) - Debit(j, v, a)
    BY <1>2, ApplyMoves
  <1>4. LockedBy(u, a)' = IF u = v THEN Locked(n, a) ELSE LockedBy(u, a)
    BY <1>1, <1>2, <1>3, WalletUpdated
  <1>5. u = v => LockedBy(u, a) = Locked(w, a)
    BY <1>2 DEF LockedBy
  <1>6. u # v => Debit(j, u, a) = 0
    BY <1>2, DebitFacts
  <1>7. DebitOf(job, u, a) = Debit(j, u, a) + DebitOf(Tail(job), u, a)
    BY <1>1, DebitOfHead
  <1>8. DebitOf(job, u, a)' = DebitOf(Tail(job), u, a)
    BY <1>1
  <1>9. DebitOfLog(u, a)' = DebitOfLog(u, a)
    BY <1>1 DEF DebitOfLog
  <1>10. /\ LockedBy(u, a) \in Nat /\ LockedBy(u, a)' \in Nat /\ DebitOfLog(u, a) \in Nat
         /\ DebitOf(job, u, a)' \in Nat
    BY AmountsAreNat, AfterStep DEF Amounts
  <1>11. Debit(j, u, a) \in Nat
    BY <1>1, <1>2, DebitType DEF Write
  <1>. HIDE DEF j, v, w, n
  <1>12. LockedBy(u, a)' = LockedBy(u, a) - Debit(j, u, a)
    <2>1. CASE u = v
      BY <1>3, <1>4, <1>5, <2>1
    <2>2. CASE u # v
      BY <1>4, <1>6, <1>10, <2>2
    <2>. QED  BY <2>1, <2>2
  <1>13. LockedBy(u, a)' + DebitOf(job, u, a) + DebitOfLog(u, a)
             = LockedBy(u, a) + DebitOf(job, u, a)' + DebitOfLog(u, a)'
    BY <1>7, <1>8, <1>9, <1>10, <1>11, <1>12
  <1>. QED  BY <1>1, <1>13, SettlementSurplus

(* The other writes take nothing. *)
LEMMA RecordSurplus ==
    ASSUME ControlInv, ControlInv', Covered, SettlementUpsert \/ SettlementAppend,
           NEW u \in UserID, NEW a \in Asset
    PROVE  Surplus(u, a)' = Surplus(u, a)
  <1>1. /\ JobOK /\ job \in Seq(Write) /\ job # <<>> /\ Head(job).write \notin WalletWrites
        /\ job' = Tail(job)
        /\ UNCHANGED <<bookVars, call, request, outbox, log, journal, wallets>>
    BY DEF ControlInv, JobOK, SettlementUpsert, SettlementAppend, WalletWrites, clientVars,
           engineVars, logVars
  <1>2. Debit(Head(job), u, a) = 0
    BY <1>1, JobHead
  <1>3. DebitOf(job, u, a) = Debit(Head(job), u, a) + DebitOf(Tail(job), u, a)
    BY <1>1, DebitOfHead
  <1>4. /\ DebitOf(job, u, a)' = DebitOf(Tail(job), u, a)
        /\ DebitOfLog(u, a)' = DebitOfLog(u, a) /\ LockedBy(u, a)' = LockedBy(u, a)
    BY <1>1 DEF DebitOfLog, LockedBy
  <1>5. DebitOf(job, u, a)' \in Nat /\ DebitOfLog(u, a) \in Nat /\ LockedBy(u, a) \in Nat
    BY AmountsAreNat, AfterStep DEF Amounts
  <1>6. LockedBy(u, a)' + DebitOf(job, u, a) + DebitOfLog(u, a)
             = LockedBy(u, a) + DebitOf(job, u, a)' + DebitOfLog(u, a)'
    BY <1>2, <1>3, <1>4, <1>5
  <1>. QED  BY <1>1, <1>6, SettlementSurplus

(* Settlement steps. *)
LEMMA SettlementStep ==
    ASSUME ControlInv, ControlInv', Covered, SettlementNext
    PROVE  SurplusKept
  <1>. SUFFICES ASSUME NEW u \in UserID, NEW a \in Asset
                PROVE  Surplus(u, a)' = Surplus(u, a)
    BY DEF SurplusKept
  <1>. QED  BY ReceiveSurplus, WalletSurplus, RecordSurplus DEF SettlementNext

(* Nothing is locked and nothing owed when the process starts. *)
LEMMA BackedInit ==
    ASSUME Init
    PROVE  Backed
  <1>. SUFFICES ASSUME NEW u \in UserID, NEW a \in Asset
                PROVE  LockedBy(u, a) = Owed(u, a)
    BY DEF Backed
  <1>0. ControlInv
    BY ControlInit
  <1>1. /\ wallets[u] = None /\ taker = None /\ orders = {} /\ job = <<>> /\ log = <<>>
        /\ outbox = <<>> /\ call = [x \in OrderID |-> "idle"]
    BY DEF Init, Started, Untouched, OrderBookInit
  <1>2. LockedBy(u, a) = 0
    BY <1>1 DEF LockedBy
  <1>3. Total(Held(u, a)) = 0
    <2>. DEFINE f == Held(u, a)
    <2>1. Summable(f, OrderID)
      BY <1>0, AmountsAreNat DEF Amounts
    <2>2. ASSUME NEW x \in OrderID PROVE f[x] = 0
      <3>1. f[x] = HoldNow(x, u, a)
        BY <1>0, HeldById DEF HeldIsHold, HoldNow
      <3>2. ~Open(x) /\ call[x] = "idle"
        BY <1>1, NoneAssumption DEF Open
      <3>. QED  BY <3>1, <3>2 DEF HoldNow, Hold
    <2>. HIDE DEF f
    <2>3. Total(f) = 0
      BY <2>1, <2>2, TotalZero
    <2>. QED  BY <2>3 DEF f
  <1>4. DebitOf(job, u, a) = 0
    BY <1>1, DebitOfNone
  <1>5. DebitOfEvents(outbox, u, a) = 0 /\ DebitOfEvents(Placing, u, a) = 0
    <2>1. <<>> \in Seq(Event)
      OBVIOUS
    <2>2. DebitOfEvents(<<>>, u, a) = 0
      BY <2>1, EventsDebit
    <2>3. Placing = <<>>
      BY <1>0, <1>1, PlacingType
    <2>. QED  BY <1>1, <2>2, <2>3
  <1>6. DebitOfLog(u, a) = 0
    <2>. DEFINE f == Unmarked(log, journal, u, a)
    <2>1. Summable(f, 1..0) /\ \A i \in 1..0 : f[i] = 0
      BY <1>1, PositionsFinite DEF Summable, Unmarked
    <2>. HIDE DEF f
    <2>2. Total(f) = 0
      BY <2>1, TotalZero
    <2>. QED  BY <1>0, <2>2, AmountsAreNat DEF Amounts, f
  <1>. QED  BY <1>2, <1>3, <1>4, <1>5, <1>6 DEF Owed, Pending

(* Whoever takes a step of the exchange leaves the surplus alone. *)
LEMMA SurplusStep ==
    ASSUME ControlInv, ControlInv', Covered, [Next]_vars
    PROVE  SurplusKept
  <1>1. CASE UNCHANGED vars
    <2>1. UNCHANGED <<bookVars, job, log, journal, outbox, wallets, call, request>>
      BY <1>1 DEF vars, clientVars, engineVars, logVars, settlementVars
    <2>. SUFFICES ASSUME NEW u \in UserID, NEW a \in Asset
                  PROVE  Surplus(u, a)' = Surplus(u, a)
      BY DEF SurplusKept
    <2>2. /\ LockedBy(u, a)' = LockedBy(u, a) /\ DebitOf(job, u, a)' = DebitOf(job, u, a)
          /\ DebitOfLog(u, a)' = DebitOfLog(u, a)
      BY <2>1 DEF LockedBy, DebitOfLog
    <2>3. LockedBy(u, a) \in Nat /\ DebitOf(job, u, a) \in Nat /\ DebitOfLog(u, a) \in Nat
      BY AmountsAreNat DEF Amounts
    <2>4. LockedBy(u, a)' + DebitOf(job, u, a) + DebitOfLog(u, a)
             = LockedBy(u, a) + DebitOf(job, u, a)' + DebitOfLog(u, a)'
      BY <2>2, <2>3
    <2>. QED  BY <2>1, <2>4, SettlementSurplus
  <1>. QED  BY <1>1, ClientStep, EngineStep, SettlementStep DEF Next, Idle

(* What is locked and owed are numbers, so a surplus that stays keeps every
   obligation backed, or covered. *)
LEMMA SurplusFacts ==
    ASSUME ControlInv, ControlInv', SurplusKept, NEW u \in UserID, NEW a \in Asset
    PROVE  /\ LockedBy(u, a) = Owed(u, a) => LockedBy(u, a)' = Owed(u, a)'
           /\ LockedBy(u, a) >= Owed(u, a) => LockedBy(u, a)' >= Owed(u, a)'
  <1>1. LockedBy(u, a) \in Nat /\ Owed(u, a) \in Nat
    BY AmountsAreNat, OwedBounds DEF Amounts
  <1>2. LockedBy(u, a)' \in Nat /\ Owed(u, a)' \in Nat
    <2>1. OwedIsNat'
      BY OwedNumbers, PTL
    <2>. QED  BY <2>1, AfterStep DEF Amounts, OwedIsNat
  <1>. DEFINE k == LockedBy(u, a)
              w == Owed(u, a)
              k2 == LockedBy(u, a)'
              w2 == Owed(u, a)'
  <1>3. k2 - w2 = k - w
    BY DEF SurplusKept, Surplus
  <1>. HIDE DEF k, w, k2, w2
  <1>4. (k = w => k2 = w2) /\ (k >= w => k2 >= w2)
    BY <1>1, <1>2, <1>3 DEF k, w, k2, w2
  <1>. QED  BY <1>4 DEF k, w, k2, w2

(* Every step keeps locked funds and obligations equal. *)
LEMMA BackedStep ==
    ASSUME ControlInv, ControlInv', Backed, [Next]_vars
    PROVE  Backed'
  <1>1. Covered
    BY BackedCovers
  <1>2. SurplusKept
    BY <1>1, SurplusStep
  <1>. QED  BY <1>2, SurplusFacts DEF Backed

(* Locked funds are what is owed, for every user, at every moment. *)
THEOREM BackedInvariant == Spec => []Backed
  <1>1. Init => Backed
    BY BackedInit
  <1>2. ControlInv /\ ControlInv' /\ Backed /\ [Next]_vars => Backed'
    BY BackedStep
  <1>. QED  BY <1>1, <1>2, ControlInvariant, PTL DEF Spec

(* The locked funds of a wallet are exactly the reservations on their way, the
   open part of orders and what settlement has still to take: no interleaving
   strands funds or leaves an order without collateral. *)
THEOREM LockedFundsAreOwed == Spec => []LockedBacksObligations
  <1>1. ASSUME Backed
        PROVE  LockedBacksObligations
    BY <1>1 DEF Backed, LockedBy, LockedBacksObligations, Wallets
  <1>. QED  BY <1>1, BackedInvariant, PTL

(* No settlement of a trade, no release of a cancel and no compensating release
   of PlaceOrder ever finds its wallet missing or its funds short. *)
THEOREM SettlementNeverFails == Spec => []SettlementCollateralised
  <1>1. ASSUME ControlInv, Backed
        PROVE  SettlementCollateralised
    <2>0. Covered
      BY <1>1, BackedCovers
    <2>1. (job # <<>> /\ Head(job).write \in WalletWrites) =>
            wallets[Head(job).user] # None /\ CanApply(wallets[Head(job).user], Head(job))
      BY <1>1, <2>0, WriteCovered
    <2>2. \A id \in OrderID : call[id] = "releasing" =>
            CanUnreserve(wallets[request[id].userID], request[id])
      BY <1>1, <2>0, ReleaseCovered
    <2>. QED  BY <2>1, <2>2 DEF SettlementCollateralised
  <1>. QED  BY <1>1, ControlInvariant, BackedInvariant, PTL

-----------------------------------------------------------------------------
(* What all users own together *)

(* The users that have a wallet in ws, and what each owns in all. *)
Owners(ws) == {u \in UserID : ws[u] # None}
COPs(ws) == [u \in Owners(ws) |-> TotalCOP(ws[u])]
Vibraniums(ws) == [u \in Owners(ws) |-> TotalVibranium(ws[u])]

NatWallets == [UserID -> NatWallet \cup {None}]

(* Two natural numbers of each owner. *)
LEMMA OwnersSummable ==
    ASSUME NEW ws \in NatWallets
    PROVE  /\ Summable(COPs(ws), Owners(ws)) /\ Summable(Vibraniums(ws), Owners(ws))
           /\ \A u \in Owners(ws) : u \in UserID /\ ws[u] \in NatWallet
           /\ Total(COPs(ws)) \in Nat /\ Total(Vibraniums(ws)) \in Nat
  <1>1. \A u \in Owners(ws) : u \in UserID /\ ws[u] \in NatWallet
    BY DEF Owners, NatWallets
  <1>2. IsFiniteSet(Owners(ws))
    <2>1. Owners(ws) \subseteq UserID
      BY DEF Owners
    <2>. QED  BY <2>1, FiniteAssumption, FS_Subset
  <1>3. \A w \in NatWallet : TotalCOP(w) \in Nat /\ TotalVibranium(w) \in Nat
    BY WalletNumbers DEF TotalCOP, TotalVibranium
  <1>4. Summable(COPs(ws), Owners(ws)) /\ Summable(Vibraniums(ws), Owners(ws))
    BY <1>1, <1>2, <1>3 DEF Summable, COPs, Vibraniums
  <1>. QED  BY <1>1, <1>4, TotalType

(* The wallet of an owner is replaced. *)
LEMMA OwnerChanges ==
    ASSUME NEW ws \in NatWallets, NEW v \in Owners(ws), NEW n \in NatWallet,
           NEW xs, xs = [ws EXCEPT ![v] = n]
    PROVE  /\ Owners(xs) = Owners(ws)
           /\ Total(COPs(xs)) = Total(COPs(ws)) - TotalCOP(ws[v]) + TotalCOP(n)
           /\ Total(Vibraniums(xs))
                = Total(Vibraniums(ws)) - TotalVibranium(ws[v]) + TotalVibranium(n)
  <1>1. /\ v \in UserID /\ xs \in NatWallets /\ xs[v] = n
        /\ \A u \in UserID : u # v => xs[u] = ws[u]
    BY DEF NatWallets, Owners
  <1>2. Owners(xs) = Owners(ws)
    BY <1>1, NoneIsNoWallet DEF Owners
  <1>. DEFINE S == Owners(ws)
              f == COPs(ws)
              g == COPs(xs)
              h == Vibraniums(ws)
              k == Vibraniums(xs)
  <1>3. Summable(f, S) /\ Summable(g, S) /\ Summable(h, S) /\ Summable(k, S)
    BY <1>1, <1>2, OwnersSummable
  <1>4. /\ f[v] = TotalCOP(ws[v]) /\ g[v] = TotalCOP(n)
        /\ h[v] = TotalVibranium(ws[v]) /\ k[v] = TotalVibranium(n)
    BY <1>1, <1>2 DEF COPs, Vibraniums
  <1>5. \A u \in S : u # v => g[u] = f[u] /\ k[u] = h[u]
    BY <1>1, <1>2 DEF COPs, Vibraniums, Owners
  <1>. HIDE DEF S, f, g, h, k
  <1>6. v \in S
    BY DEF S
  <1>7. Total(g) = Total(f) - f[v] + g[v]
    BY <1>3, <1>5, <1>6, TotalChange
  <1>8. Total(k) = Total(h) - h[v] + k[v]
    BY <1>3, <1>5, <1>6, TotalChange
  <1>. QED  BY <1>2, <1>4, <1>7, <1>8 DEF f, g, h, k

(* User v has no wallet in ws and gets n. *)
Seeds(ws, v, n, xs) ==
    /\ ws \in NatWallets /\ v \in UserID /\ ws[v] = None
    /\ n \in NatWallet /\ xs = [ws EXCEPT ![v] = n]

(* The user becomes an owner. *)
LEMMA OwnerAppears ==
    ASSUME NEW ws, NEW v, NEW n, NEW xs, Seeds(ws, v, n, xs)
    PROVE  /\ Owners(xs) = Owners(ws) \cup {v} /\ v \notin Owners(ws)
           /\ Total(COPs(xs)) = TotalCOP(n) + Total(COPs(ws))
           /\ Total(Vibraniums(xs)) = TotalVibranium(n) + Total(Vibraniums(ws))
  <1>1. /\ ws \in NatWallets /\ v \in UserID /\ ws[v] = None /\ n \in NatWallet
        /\ xs \in NatWallets /\ xs[v] = n
        /\ \A u \in UserID : u # v => xs[u] = ws[u]
    BY DEF Seeds, NatWallets
  <1>2. Owners(xs) = Owners(ws) \cup {v} /\ v \notin Owners(ws)
    BY <1>1, NoneIsNoWallet DEF Owners
  <1>. DEFINE S == Owners(ws)
              f == COPs(ws)
              g == COPs(xs)
              h == Vibraniums(ws)
              k == Vibraniums(xs)
  <1>3. /\ Summable(f, S) /\ Summable(g, S \cup {v}) /\ Summable(h, S) /\ Summable(k, S \cup {v})
    BY <1>1, <1>2, OwnersSummable
  <1>4. g[v] = TotalCOP(n) /\ k[v] = TotalVibranium(n)
    BY <1>1, <1>2 DEF COPs, Vibraniums
  <1>5. Agree(f, g, S) /\ Agree(h, k, S)
    BY <1>1, <1>2 DEF COPs, Vibraniums, Owners, Agree
  <1>. HIDE DEF S, f, g, h, k
  <1>6. v \notin S
    BY <1>2 DEF S
  <1>7. Total(g) = g[v] + Total(f)
    BY <1>3, <1>5, <1>6, TotalAdd
  <1>8. Total(k) = k[v] + Total(h)
    BY <1>3, <1>5, <1>6, TotalAdd
  <1>. QED  BY <1>2, <1>4, <1>7, <1>8 DEF f, g, h, k

(* What the users of a set have deposited. *)
DepositsCOP(S) == Total([u \in S |-> Deposit[u].COP])
DepositsVibranium(S) == Total([u \in S |-> Deposit[u].Vibranium])

(* They are natural numbers. *)
LEMMA DepositsNat ==
    ASSUME NEW S \in SUBSET UserID
    PROVE  DepositsCOP(S) \in Nat /\ DepositsVibranium(S) \in Nat
  <1>. DEFINE f == [u \in S |-> Deposit[u].COP]
              g == [u \in S |-> Deposit[u].Vibranium]
  <1>1. IsFiniteSet(S)
    BY FiniteAssumption, FS_Subset
  <1>2. Summable(f, S) /\ Summable(g, S)
    BY <1>1, DepositAssumption DEF Summable
  <1>. HIDE DEF f, g
  <1>3. Total(f) \in Nat /\ Total(g) \in Nat
    BY <1>2, TotalType
  <1>. QED  BY <1>3 DEF DepositsCOP, DepositsVibranium, f, g

(* One user more deposits. *)
LEMMA DepositAppears ==
    ASSUME NEW S \in SUBSET UserID, NEW v \in UserID, v \notin S
    PROVE  /\ DepositsCOP(S \cup {v}) = Deposit[v].COP + DepositsCOP(S)
           /\ DepositsVibranium(S \cup {v}) = Deposit[v].Vibranium + DepositsVibranium(S)
  <1>. DEFINE T == S \cup {v}
              f == [u \in S |-> Deposit[u].COP]
              g == [u \in T |-> Deposit[u].COP]
              h == [u \in S |-> Deposit[u].Vibranium]
              k == [u \in T |-> Deposit[u].Vibranium]
  <1>1. IsFiniteSet(S) /\ IsFiniteSet(T)
    BY FiniteAssumption, FS_Subset
  <1>2. \A u \in UserID : Deposit[u].COP \in Nat /\ Deposit[u].Vibranium \in Nat
    BY DepositAssumption
  <1>3. Summable(f, S) /\ Summable(g, T) /\ Summable(h, S) /\ Summable(k, T)
    BY <1>1, <1>2 DEF Summable
  <1>4. Agree(f, g, S) /\ Agree(h, k, S) /\ g[v] = Deposit[v].COP /\ k[v] = Deposit[v].Vibranium
    BY DEF Agree
  <1>. HIDE DEF f, g, h, k
  <1>5. Total(g) = g[v] + Total(f)
    BY <1>3, <1>4, TotalAdd
  <1>6. Total(k) = k[v] + Total(h)
    BY <1>3, <1>4, TotalAdd
  <1>. QED  BY <1>4, <1>5, <1>6 DEF f, g, h, k, DepositsCOP, DepositsVibranium

(* The second leg of a trade at the head of a job. *)
HalfCOP(q) == IF q # <<>> /\ q[1].write = "SettleSell" THEN q[1].COP ELSE 0
HalfVibranium(q) == IF q # <<>> /\ q[1].write = "SettleSell" THEN q[1].Vibranium ELSE 0

(* All users own dc COP and dv Vibranium more than they deposited. *)
OffBy(dc, dv) ==
    /\ Total(COPs(wallets)) + HalfCOP(job) = DepositsCOP(Owners(wallets)) + dc
    /\ Total(Vibraniums(wallets)) - HalfVibranium(job) = DepositsVibranium(Owners(wallets)) + dv

(* The supply and the deposits in these terms. *)
LEMMA SupplyIs ==
    ASSUME JobOK
    PROVE  /\ SupplyCOP = Total(COPs(wallets)) + HalfCOP(job)
           /\ SupplyVibranium = Total(Vibraniums(wallets)) - HalfVibranium(job)
           /\ DepositedCOP = DepositsCOP(Owners(wallets))
           /\ DepositedVibranium = DepositsVibranium(Owners(wallets))
           /\ DepositedCOP \in Nat /\ DepositedVibranium \in Nat
  <1>1. job # <<>> => Head(job) = job[1]
    BY PairedTail DEF JobOK
  <1>2. HalfTrade.COP = HalfCOP(job) /\ HalfTrade.Vibranium = HalfVibranium(job)
    BY <1>1 DEF HalfTrade, HalfCOP, HalfVibranium
  <1>3. /\ SupplyCOP = Total(COPs(wallets)) + HalfTrade.COP
        /\ SupplyVibranium = Total(Vibraniums(wallets)) - HalfTrade.Vibranium
        /\ DepositedCOP = DepositsCOP(Owners(wallets))
        /\ DepositedVibranium = DepositsVibranium(Owners(wallets))
    BY DEF SupplyCOP, SupplyVibranium, DepositedCOP, DepositedVibranium,
           COPs, Vibraniums, DepositsCOP, DepositsVibranium, Owners, Wallets
  <1>4. DepositedCOP \in Nat /\ DepositedVibranium \in Nat
    <2>1. Owners(wallets) \in SUBSET UserID
      BY DEF Owners
    <2>. QED  BY <1>3, <2>1, DepositsNat
  <1>. QED  BY <1>2, <1>3, <1>4

(* How the leg on its way changes as the job proceeds. *)
LEMMA HalfTail ==
    ASSUME NEW q \in Seq(Write), Paired(q), q # <<>>, NEW j, j = Head(q), NEW r, r = Tail(q)
    PROVE  /\ j.write = "SettleBuy" =>
                /\ HalfCOP(q) = 0 /\ HalfVibranium(q) = 0
                /\ HalfCOP(r) = j.COP /\ HalfVibranium(r) = j.Vibranium
           /\ j.write = "SettleSell" =>
                /\ HalfCOP(q) = j.COP /\ HalfVibranium(q) = j.Vibranium
                /\ HalfCOP(r) = 0 /\ HalfVibranium(r) = 0
           /\ j.write \notin {"SettleBuy", "SettleSell"} =>
                /\ HalfCOP(q) = 0 /\ HalfVibranium(q) = 0
                /\ HalfCOP(r) = 0 /\ HalfVibranium(r) = 0
  <1>1. /\ r \in Seq(Write) /\ j = q[1] /\ 1 \in 1..Len(q)
        /\ r # <<>> => r[1] = q[2] /\ 2 \in 1..Len(q)
        /\ 2 \in 1..Len(q) => r # <<>>
    OBVIOUS
  <1>2. j.write = "SettleBuy" =>
          /\ 2 \in 1..Len(q) /\ q[2].write = "SettleSell"
          /\ q[2].COP = j.COP /\ q[2].Vibranium = j.Vibranium
    <2>. HAVE j.write = "SettleBuy"
    <2>1. /\ 1 + 1 \in 1..Len(q) /\ q[1 + 1].write = "SettleSell"
          /\ q[1 + 1].COP = q[1].COP /\ q[1 + 1].Vibranium = q[1].Vibranium
      BY <1>1 DEF Paired
    <2>. QED  BY <1>1, <2>1
  <1>3. ASSUME j.write # "SettleBuy", r # <<>>
        PROVE  r[1].write # "SettleSell"
    <2>1. (2 # 1 /\ q[2].write = "SettleSell") => q[2 - 1].write = "SettleBuy"
      BY <1>1, <1>3 DEF Paired
    <2>. QED  BY <1>1, <1>3, <2>1
  <1>4. CASE j.write = "SettleBuy"
    BY <1>1, <1>2, <1>4 DEF HalfCOP, HalfVibranium
  <1>5. CASE j.write # "SettleBuy"
    <2>1. HalfCOP(r) = 0 /\ HalfVibranium(r) = 0
      BY <1>3, <1>5 DEF HalfCOP, HalfVibranium
    <2>2. j.write = "SettleSell" => HalfCOP(q) = j.COP /\ HalfVibranium(q) = j.Vibranium
      BY <1>1 DEF HalfCOP, HalfVibranium
    <2>3. j.write # "SettleSell" => HalfCOP(q) = 0 /\ HalfVibranium(q) = 0
      BY <1>1 DEF HalfCOP, HalfVibranium
    <2>. QED  BY <1>5, <2>1, <2>2, <2>3
  <1>. QED  BY <1>4, <1>5

(* Whatever is on its way is a natural number. *)
LEMMA HalfNat ==
    ASSUME JobOK
    PROVE  HalfCOP(job) \in Nat /\ HalfVibranium(job) \in Nat
  <1>1. CASE job = <<>>
    BY <1>1 DEF HalfCOP, HalfVibranium
  <1>2. CASE job # <<>>
    <2>1. job[1] \in Write
      BY <1>2, PairedTail DEF JobOK
    <2>2. job[1].write = "SettleSell" => job[1].COP \in Nat /\ job[1].Vibranium \in Nat
      <3>1. "SettleSell" \in WalletWrites
        BY DEF WalletWrites
      <3>. QED  BY <2>1, <3>1, WriteKinds, DebitFacts
    <2>. QED  BY <2>2 DEF HalfCOP, HalfVibranium
  <1>. QED  BY <1>1, <1>2

(* A wallet that is replaced by one that owns as much keeps the sums. *)
LEMMA SameOwned ==
    ASSUME ControlInv, NEW dc \in Int, NEW dv \in Int, OffBy(dc, dv), UNCHANGED job,
           NEW v \in UserID, wallets[v] # None,
           NEW n \in NatWallet, UpdateWallet(v, n),
           TotalCOP(n) = TotalCOP(wallets[v]), TotalVibranium(n) = TotalVibranium(wallets[v])
    PROVE  OffBy(dc, dv)'
  <1>1. wallets \in NatWallets /\ v \in Owners(wallets) /\ wallets' = [wallets EXCEPT ![v] = n]
    BY DEF ControlInv, StoresOK, NatWallets, Owners, UpdateWallet
  <1>. DEFINE ws == wallets
              xs == wallets'
              x == TotalCOP(n)
              y == TotalVibranium(n)
  <1>2. /\ Owners(xs) = Owners(ws)
        /\ Total(COPs(xs)) = Total(COPs(ws)) - x + x
        /\ Total(Vibraniums(xs)) = Total(Vibraniums(ws)) - y + y
    <2>1. /\ Owners(xs) = Owners(ws)
          /\ Total(COPs(xs)) = Total(COPs(ws)) - TotalCOP(ws[v]) + x
          /\ Total(Vibraniums(xs)) = Total(Vibraniums(ws)) - TotalVibranium(ws[v]) + y
      <3>. HIDE DEF xs
      <3>1. xs = [ws EXCEPT ![v] = n]
        BY <1>1, Zenon DEF xs
      <3>. QED  BY <1>1, <3>1, OwnerChanges
    <2>2. TotalCOP(ws[v]) = x /\ TotalVibranium(ws[v]) = y
      OBVIOUS
    <2>. QED  BY <2>1, <2>2, Zenon
  <1>3. Total(COPs(ws)) \in Nat /\ Total(Vibraniums(ws)) \in Nat /\ x \in Nat /\ y \in Nat
    BY <1>1, OwnersSummable, WalletNumbers DEF TotalCOP, TotalVibranium
  <1>. HIDE DEF x, y
  <1>4. Total(COPs(xs)) = Total(COPs(ws)) /\ Total(Vibraniums(xs)) = Total(Vibraniums(ws))
    BY <1>2, <1>3
  <1>5. /\ Total(COPs(xs)) + HalfCOP(job) = DepositsCOP(Owners(xs)) + dc
        /\ Total(Vibraniums(xs)) - HalfVibranium(job) = DepositsVibranium(Owners(xs)) + dv
    BY <1>2, <1>4 DEF OffBy
  <1>. QED  BY <1>5 DEF OffBy

(* A step of settlement that applies a wallet write. *)
LEMMA WalletConserves ==
    ASSUME ControlInv, ControlInv', Covered, SettlementWallet,
           NEW dc \in Int, NEW dv \in Int, OffBy(dc, dv)
    PROVE  OffBy(dc, dv)'
  <1>. DEFINE j == Head(job)
              v == j.user
              ws == wallets
              w == ws[v]
              n == Apply(w, j)
              xs == wallets'
              r == Tail(job)
  <1>1. /\ job \in Seq(Write) /\ Paired(job) /\ job # <<>> /\ j.write \in WalletWrites
        /\ UpdateWallet(v, n) /\ job' = r /\ ws \in NatWallets
    BY DEF ControlInv, JobOK, StoresOK, NatWallets, SettlementWallet
  <1>2. j \in WalletWrite /\ v \in UserID /\ w # None /\ w \in NatWallet /\ CanApply(w, j)
    BY <1>1, WriteCovered
  <1>3. v \in Owners(ws) /\ xs = [ws EXCEPT ![v] = n] /\ w = ws[v]
    BY <1>1, <1>2 DEF Owners, UpdateWallet
  <1>4. /\ n \in NatWallet
        /\ TotalCOP(n) = TotalCOP(w) - (IF j.write = "SettleBuy" THEN j.COP ELSE 0)
                                     + (IF j.write = "SettleSell" THEN j.COP ELSE 0)
        /\ TotalVibranium(n) = TotalVibranium(w)
                                     + (IF j.write = "SettleBuy" THEN j.Vibranium ELSE 0)
                                     - (IF j.write = "SettleSell" THEN j.Vibranium ELSE 0)
    BY <1>2, ApplyMoves
  <1>5. j.COP \in Nat /\ j.Vibranium \in Nat
    BY <1>2, DebitFacts
  <1>6. /\ j.write = "SettleBuy" =>
                /\ HalfCOP(job) = 0 /\ HalfVibranium(job) = 0
                /\ HalfCOP(r) = j.COP /\ HalfVibranium(r) = j.Vibranium
        /\ j.write = "SettleSell" =>
                /\ HalfCOP(job) = j.COP /\ HalfVibranium(job) = j.Vibranium
                /\ HalfCOP(r) = 0 /\ HalfVibranium(r) = 0
        /\ j.write \notin {"SettleBuy", "SettleSell"} =>
                /\ HalfCOP(job) = 0 /\ HalfVibranium(job) = 0
                /\ HalfCOP(r) = 0 /\ HalfVibranium(r) = 0
    BY <1>1, HalfTail
  <1>. HIDE DEF j, v, w, n, xs, ws
  <1>7. /\ Owners(xs) = Owners(ws)
        /\ Total(COPs(xs)) = Total(COPs(ws)) - TotalCOP(w) + TotalCOP(n)
        /\ Total(Vibraniums(xs)) = Total(Vibraniums(ws)) - TotalVibranium(w) + TotalVibranium(n)
    BY <1>1, <1>3, <1>4, OwnerChanges
  <1>8. /\ Total(COPs(ws)) \in Nat /\ Total(Vibraniums(ws)) \in Nat
        /\ TotalCOP(w) \in Nat /\ TotalVibranium(w) \in Nat
    <2>1. Total(COPs(ws)) \in Nat /\ Total(Vibraniums(ws)) \in Nat
      BY <1>1, OwnersSummable
    <2>2. TotalCOP(w) \in Nat /\ TotalVibranium(w) \in Nat
      BY <1>2, WalletNumbers DEF TotalCOP, TotalVibranium
    <2>. QED  BY <2>1, <2>2
  <1>. DEFINE C == Total(COPs(ws))
              V == Total(Vibraniums(ws))
              c == TotalCOP(w)
              d == TotalVibranium(w)
  <1>9. /\ Total(COPs(xs)) + HalfCOP(r) = C + HalfCOP(job)
        /\ Total(Vibraniums(xs)) - HalfVibranium(r) = V - HalfVibranium(job)
    <2>1. /\ Total(COPs(xs)) = C - c + TotalCOP(n)
          /\ Total(Vibraniums(xs)) = V - d + TotalVibranium(n)
          /\ TotalCOP(n) = c - (IF j.write = "SettleBuy" THEN j.COP ELSE 0)
                             + (IF j.write = "SettleSell" THEN j.COP ELSE 0)
          /\ TotalVibranium(n) = d + (IF j.write = "SettleBuy" THEN j.Vibranium ELSE 0)
                                   - (IF j.write = "SettleSell" THEN j.Vibranium ELSE 0)
          /\ C \in Nat /\ V \in Nat /\ c \in Nat /\ d \in Nat
      BY <1>4, <1>7, <1>8
    <2>. HIDE DEF C, V, c, d, r
    <2>2. CASE j.write = "SettleBuy"
      BY <1>5, <1>6, <2>1, <2>2
    <2>3. CASE j.write = "SettleSell"
      BY <1>5, <1>6, <2>1, <2>3
    <2>4. CASE j.write \notin {"SettleBuy", "SettleSell"}
      BY <1>6, <2>1, <2>4
    <2>. QED  BY <2>2, <2>3, <2>4
  <1>10. C + HalfCOP(job) = DepositsCOP(Owners(ws)) + dc
         /\ V - HalfVibranium(job) = DepositsVibranium(Owners(ws)) + dv
    BY DEF OffBy, ws
  <1>. QED  BY <1>1, <1>7, <1>9, <1>10 DEF OffBy, xs

(* No step of the exchange makes money or loses it. *)
LEMMA SupplyStep ==
    ASSUME ControlInv, ControlInv', Covered, [Next]_vars,
           NEW dc \in Int, NEW dv \in Int, OffBy(dc, dv)
    PROVE  OffBy(dc, dv)'
  <1>0. StoresOK /\ CallsOK /\ JobOK /\ LogOK /\ wallets \in NatWallets
    BY DEF ControlInv, StoresOK, NatWallets
  <1>1. ASSUME NEW v \in UserID, wallets[v] = None, Seed(v)
        PROVE  OffBy(dc, dv)'
    <2>. DEFINE n == SeededWallet(Deposit[v].COP, Deposit[v].Vibranium)
                ws == wallets
                xs == wallets'
                S == Owners(ws)
                x == Deposit[v].COP
                y == Deposit[v].Vibranium
    <2>1. xs = [ws EXCEPT ![v] = n] /\ ws \in NatWallets /\ ws[v] = None /\ UNCHANGED job
      BY <1>0, <1>1 DEF Seed, UpsertWallet, settlementVars
    <2>2. /\ n \in NatWallet /\ TotalCOP(n) = x /\ TotalVibranium(n) = y
          /\ x \in Nat /\ y \in Nat
      BY DepositAssumption DEF SeededWallet, NatWallet, TotalCOP, TotalVibranium
    <2>. HIDE DEF n, ws, xs
    <2>3. /\ Owners(xs) = S \cup {v} /\ v \notin S
          /\ Total(COPs(xs)) = TotalCOP(n) + Total(COPs(ws))
          /\ Total(Vibraniums(xs)) = TotalVibranium(n) + Total(Vibraniums(ws))
      <3>1. Seeds(ws, v, n, xs)
        BY <2>1, <2>2 DEF Seeds
      <3>. QED  BY <3>1, OwnerAppears
    <2>4. /\ DepositsCOP(S \cup {v}) = x + DepositsCOP(S)
          /\ DepositsVibranium(S \cup {v}) = y + DepositsVibranium(S)
          /\ DepositsCOP(S) \in Nat /\ DepositsVibranium(S) \in Nat
      <3>1. S \in SUBSET UserID
        BY DEF Owners
      <3>. HIDE DEF S
      <3>. QED  BY <2>3, <3>1, DepositAppears, DepositsNat
    <2>5. /\ Total(COPs(ws)) \in Nat /\ Total(Vibraniums(ws)) \in Nat
          /\ HalfCOP(job) \in Nat /\ HalfVibranium(job) \in Nat
      BY <1>0, <2>1, OwnersSummable, HalfNat
    <2>6. /\ Total(COPs(ws)) + HalfCOP(job) = DepositsCOP(S) + dc
          /\ Total(Vibraniums(ws)) - HalfVibranium(job) = DepositsVibranium(S) + dv
      BY DEF OffBy, ws
    <2>. HIDE DEF S, x, y
    <2>7. /\ Total(COPs(xs)) + HalfCOP(job) = DepositsCOP(Owners(xs)) + dc
          /\ Total(Vibraniums(xs)) - HalfVibranium(job) = DepositsVibranium(Owners(xs)) + dv
      BY <2>2, <2>3, <2>4, <2>5, <2>6
    <2>. QED  BY <2>1, <2>7 DEF OffBy, xs
  <1>2. ASSUME NEW id \in OrderID, NEW c \in PlaceOrderCommand, PlaceOrder(id, c)
        PROVE  OffBy(dc, dv)'
    <2>1. UNCHANGED job
      BY <1>2 DEF PlaceOrder, settlementVars
    <2>2. CASE UNCHANGED wallets
      BY <2>1, <2>2 DEF OffBy
    <2>3. CASE /\ Valid(c) /\ wallets[c.userID] # None /\ CanReserve(wallets[c.userID], c)
               /\ UpdateWallet(c.userID, Reserve(wallets[c.userID], c))
      <3>. DEFINE v == c.userID
                  n == Reserve(wallets[v], c)
      <3>1. c \in Request /\ v \in UserID
        BY <2>3, CommandAssumption, ReservedFacts DEF Valid
      <3>2. wallets[v] \in NatWallet
        BY <1>0, <2>3, <3>1 DEF StoresOK
      <3>3. /\ n \in NatWallet /\ TotalCOP(n) = TotalCOP(wallets[v])
            /\ TotalVibranium(n) = TotalVibranium(wallets[v])
        BY <2>3, <3>1, <3>2, ReserveFacts
      <3>4. wallets[v] # None /\ UpdateWallet(v, n)
        BY <2>3
      <3>. HIDE DEF v, n
      <3>. QED  BY <2>1, <3>1, <3>3, <3>4, SameOwned
    <2>. QED  BY <1>2, <2>2, <2>3 DEF PlaceOrder
  <1>3. ASSUME NEW id \in OrderID, Release(id)
        PROVE  OffBy(dc, dv)'
    <2>. DEFINE c == request[id]
                v == c.userID
                n == Unreserve(wallets[v], c)
    <2>1. call[id] = "releasing" /\ UpdateWallet(v, n) /\ UNCHANGED job
      BY <1>3 DEF Release, settlementVars
    <2>2. c \in Request /\ v \in UserID /\ wallets[v] # None /\ wallets[v] \in NatWallet
      BY <2>1, ReleaseCovered
    <2>3. /\ n \in NatWallet /\ TotalCOP(n) = TotalCOP(wallets[v])
          /\ TotalVibranium(n) = TotalVibranium(wallets[v])
      BY <2>2, UnreserveFacts
    <2>. HIDE DEF v, n
    <2>. QED  BY <2>1, <2>2, <2>3, SameOwned
  <1>4. CASE SettlementReceive
    <2>. DEFINE e == log[pos + 1]
    <2>1. /\ job = <<>> /\ pos < Len(log) /\ UNCHANGED wallets
          /\ job' = IF Fresh(pos + 1) THEN Writes(e) ELSE <<>>
      BY <1>4 DEF SettlementReceive
    <2>2. e \in Event
      BY <1>0, <2>1, LogFacts
    <2>. HIDE DEF e
    <2>3. job' = <<>> \/ Whole(job')
      BY <2>1, <2>2, EventWrites
    <2>4. /\ HalfCOP(job) = 0 /\ HalfCOP(job') = 0
          /\ HalfVibranium(job) = 0 /\ HalfVibranium(job') = 0
      BY <2>1, <2>3 DEF HalfCOP, HalfVibranium, Whole
    <2>. QED  BY <2>1, <2>4 DEF OffBy
  <1>5. CASE SettlementUpsert \/ SettlementAppend
    <2>. DEFINE j == Head(job)
    <2>1. /\ job # <<>> /\ j.write \notin {"SettleBuy", "SettleSell"} /\ job' = Tail(job)
          /\ UNCHANGED wallets
      BY <1>5 DEF SettlementUpsert, SettlementAppend
    <2>2. /\ HalfCOP(job) = 0 /\ HalfVibranium(job) = 0
          /\ HalfCOP(Tail(job)) = 0 /\ HalfVibranium(Tail(job)) = 0
      BY <1>0, <2>1, HalfTail DEF JobOK
    <2>3. HalfCOP(job') = HalfCOP(job) /\ HalfVibranium(job') = HalfVibranium(job)
      BY <2>1, <2>2
    <2>. QED  BY <2>1, <2>3 DEF OffBy
  <1>6. CASE UNCHANGED <<wallets, job>>
    BY <1>6 DEF OffBy
  <1>7. \/ \E u \in UserID : wallets[u] = None /\ Seed(u)
        \/ \E id \in OrderID : \E c \in PlaceOrderCommand : PlaceOrder(id, c)
        \/ \E id \in OrderID : Release(id)
        \/ SettlementWallet \/ SettlementReceive \/ SettlementUpsert \/ SettlementAppend
        \/ UNCHANGED <<wallets, job>>
    BY DEF Next, ClientNext, EngineNext, SettlementNext, Idle, vars, bookVars, clientVars,
           engineVars, logVars, settlementVars, Submit, AbandonSubmit, Return,
           CancelOrder, AbandonCancel, EnginePlace, EngineMatch, EngineFinish,
           EngineCancel, EngineCancelUnknown, EnginePublish, EngineReply
  <1>. QED  BY <1>1, <1>2, <1>3, <1>4, <1>5, <1>6, <1>7, WalletConserves

(* Nobody owns and nobody has deposited when the process starts. *)
LEMMA SupplyInit ==
    ASSUME Init
    PROVE  OffBy(0, 0)
  <1>1. job = <<>> /\ wallets = [u \in UserID |-> None]
    BY DEF Init, Started
  <1>2. Owners(wallets) = {}
    BY <1>1 DEF Owners
  <1>. DEFINE S == Owners(wallets)
              f == COPs(wallets)
              g == Vibraniums(wallets)
              h == [u \in S |-> Deposit[u].COP]
              k == [u \in S |-> Deposit[u].Vibranium]
  <1>3. /\ Summable(f, S) /\ Summable(g, S) /\ Summable(h, S) /\ Summable(k, S)
    BY <1>2, FS_EmptySet DEF Summable, COPs, Vibraniums
  <1>4. /\ \A u \in S : f[u] = 0
        /\ \A u \in S : g[u] = 0
        /\ \A u \in S : h[u] = 0
        /\ \A u \in S : k[u] = 0
    BY <1>2
  <1>. HIDE DEF S, f, g, h, k
  <1>5. Total(f) = 0 /\ Total(g) = 0 /\ Total(h) = 0 /\ Total(k) = 0
    BY <1>3, <1>4, TotalZero
  <1>6. HalfCOP(job) = 0 /\ HalfVibranium(job) = 0
    BY <1>1 DEF HalfCOP, HalfVibranium
  <1>. QED  BY <1>5, <1>6 DEF OffBy, S, f, g, h, k, DepositsCOP, DepositsVibranium

(* What all users own together is what was deposited, whatever the
   interleaving of clients, engine and settlement; the second leg of a trade
   is on its way only right after its first. *)
THEOREM MoneyIsConserved == Spec => []MoneyConserved
  <1>1. Init => OffBy(0, 0)
    BY SupplyInit
  <1>2. ControlInv /\ ControlInv' /\ Backed /\ OffBy(0, 0) /\ [Next]_vars => OffBy(0, 0)'
    BY BackedCovers, SupplyStep
  <1>3. ControlInv /\ OffBy(0, 0) => MoneyConserved
    BY SupplyIs DEF ControlInv, OffBy, MoneyConserved
  <1>. QED  BY <1>1, <1>2, <1>3, ControlInvariant, BackedInvariant, PTL DEF Spec
=============================================================================
