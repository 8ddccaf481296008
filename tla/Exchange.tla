------------------------------ MODULE Exchange ------------------------------
(***************************************************************************)
(* The running exchange: clients in Trading.PlaceOrder and CancelOrder     *)
(* (internal/core/service/trading.go), the engine goroutine that owns the  *)
(* order book (internal/adapter/driven/matching/engine.go), the event log, *)
(* and the settlement goroutine (internal/core/service/settlement.go) that *)
(* moves money between the wallets.  They share two bounded channels and   *)
(* the wallet store; every step below is one atomic access to those.       *)
(*                                                                         *)
(* An order identifier stands for the one PlaceOrder call that drew it.    *)
(***************************************************************************)
EXTENDS OrderBook, Wallet

CONSTANTS
    PlaceOrderCommand,  \* the requests clients send, invalid ones included
    Deposit,            \* user -> the balances its wallet is seeded with
    EngineBuffer,       \* capacity of the engine's input channel
    LogBuffer           \* capacity of the event log's channel

ASSUME BufferAssumption == EngineBuffer \in Nat \ {0} /\ LogBuffer \in Nat \ {0}
ASSUME DepositAssumption ==
    Deposit \in [UserID -> [COP: Nat, Vibranium: Nat]]
ASSUME FiniteAssumption == IsFiniteSet(OrderID) /\ IsFiniteSet(UserID)

(* With a side and positive numbers a request is one the order book may be
   given; whether a call is rejected without them is up to Valid. *)
ASSUME CommandAssumption ==
    /\ \A c \in PlaceOrderCommand :
          (c.side \in Side /\ c.price > 0 /\ c.quantity > 0) => c \in Request
    /\ None \notin PlaceOrderCommand

VARIABLES
    call,        \* where the PlaceOrder call of an order stands
    request,     \* the command of that call, None before it
    cancelCall,  \* where the CancelOrder call for an order stands
    in,          \* Engine.in: commands waiting for the engine
    outbox,      \* events the engine's current command has yet to publish
    serving,     \* the command being handled, None when the engine is idle
    log,         \* every event published; position i is the event's ID
    pos,         \* how far the log has been delivered to settlement
    journal,     \* SettlementJournal: the event IDs marked processed
    job,         \* what settlement has yet to do for the event in hand
    wallets,     \* WalletRepository, None where there is no wallet
    projection,  \* OrderRepository: the last snapshot stored of an order
    trades       \* TradeRepository: the history, oldest first

clientVars == <<call, request, cancelCall>>
engineVars == <<in, outbox, serving>>
logVars == <<log, pos>>
settlementVars == <<journal, job, projection, trades>>
vars == <<bookVars, clientVars, engineVars, logVars, settlementVars, wallets>>

-----------------------------------------------------------------------------
(* Orders and money *)

(* Mutant of Valid: the quantity is not checked. *)
ValidAnyQuantity(c) == c.side \in Side /\ c.price > 0

(* Order.Validate: the sides, prices and quantities the book accepts. *)
Valid(c) ==
    /\ c.side \in Side
    /\ c.price > 0
    /\ c.quantity > 0

ReservedCOP(c) == IF c.side = "BUY" THEN c.price * c.quantity ELSE 0
ReservedVibranium(c) == IF c.side = "SELL" THEN c.quantity ELSE 0

CanReserve(w, c) == IF c.side = "BUY" THEN CanReserveCOP(w, ReservedCOP(c))
                                      ELSE CanReserveVibranium(w, ReservedVibranium(c))
Reserve(w, c) == IF c.side = "BUY" THEN ReserveCOP(w, ReservedCOP(c))
                                   ELSE ReserveVibranium(w, ReservedVibranium(c))
CanUnreserve(w, c) == IF c.side = "BUY" THEN CanReleaseCOP(w, ReservedCOP(c))
                                        ELSE CanReleaseVibranium(w, ReservedVibranium(c))
Unreserve(w, c) == IF c.side = "BUY" THEN ReleaseCOP(w, ReservedCOP(c))
                                     ELSE ReleaseVibranium(w, ReservedVibranium(c))

-----------------------------------------------------------------------------
(* The repositories.  Each operation is one access under the store's lock. *)

(* WalletRepository.Upsert, and Update of a wallet that the operation in hand
   turns into w; a wallet that does not exist is not created. *)
UpsertWallet(u, w) == wallets' = [wallets EXCEPT ![u] = w]
UpdateWallet(u, w) == wallets' = [wallets EXCEPT ![u] = IF @ = None THEN None ELSE w]

(* OrderRepository.Upsert and TradeRepository.Append. *)
UpsertOrder(id, o) == projection' = [projection EXCEPT ![id] = o]
AppendTrade(t) == trades' = Append(trades, t)

(* SettlementJournal.MarkProcessed: Fresh is its answer. *)
Fresh(eventID) == eventID \notin journal
MarkProcessed(eventID) == journal' = journal \cup {eventID}

-----------------------------------------------------------------------------
(* Clients *)

(* Wallets.Seed: the wallet is created, or replaced, by one upsert. *)
Seed(u) ==
    /\ UpsertWallet(u, SeededWallet(Deposit[u].COP, Deposit[u].Vibranium))
    /\ UNCHANGED <<bookVars, clientVars, engineVars, logVars, settlementVars>>

(* PlaceOrder up to the reservation: validation, then one wallet update.  The
   four ways to fail differ in what the client and the metrics are told. *)
PlaceOrder(id, c) ==
    /\ call[id] = "idle"
    /\ request' = [request EXCEPT ![id] = c]
    /\ \/ /\ \/ ~Valid(c)
             \/ Valid(c) /\ wallets[c.userID] = None
             \/ Valid(c) /\ wallets[c.userID] # None /\ ~CanReserve(wallets[c.userID], c)
             \/ Valid(c)  \* the wallet store does not answer
          /\ call' = [call EXCEPT ![id] = "rejected"]
          /\ UNCHANGED wallets
       \/ /\ Valid(c)
          /\ wallets[c.userID] # None
          /\ CanReserve(wallets[c.userID], c)
          /\ UpdateWallet(c.userID, Reserve(wallets[c.userID], c))
          /\ call' = [call EXCEPT ![id] = "submit"]
    /\ UNCHANGED <<bookVars, cancelCall, engineVars, logVars, settlementVars>>

(* Engine.Place, first select: the command is sent. *)
Submit(id) ==
    /\ call[id] = "submit"
    /\ Len(in) < EngineBuffer
    /\ in' = Append(in, [kind |-> "place", id |-> id])
    /\ call' = [call EXCEPT ![id] = "waiting"]
    /\ UNCHANGED <<bookVars, request, cancelCall, outbox, serving, logVars, settlementVars,
                   wallets>>

(* Engine.Place, first select: the client's context ends before the send. *)
AbandonSubmit(id) ==
    /\ call[id] = "submit"
    /\ call' = [call EXCEPT ![id] = "releasing"]
    /\ UNCHANGED <<bookVars, request, cancelCall, engineVars, logVars, settlementVars, wallets>>

(* Engine.Place, second select: the client's context ends before the reply is
   taken, whether or not the engine has got to the command. *)
AbandonWait(id) ==
    /\ call[id] \in {"waiting", "replied"}
    /\ call' = [call EXCEPT ![id] = "releasing"]
    /\ UNCHANGED <<bookVars, request, cancelCall, engineVars, logVars, settlementVars, wallets>>

(* Engine.Place, second select: the reply is taken and PlaceOrder returns. *)
Return(id) ==
    /\ call[id] = "replied"
    /\ call' = [call EXCEPT ![id] = "placed"]
    /\ UNCHANGED <<bookVars, request, cancelCall, engineVars, logVars, settlementVars, wallets>>

(* Trading.release after Engine.Place failed; its error is dropped. *)
Release(id) ==
    /\ call[id] = "releasing"
    /\ UpdateWallet(request[id].userID, Unreserve(wallets[request[id].userID], request[id]))
    /\ call' = [call EXCEPT ![id] = "failed"]
    /\ UNCHANGED <<bookVars, request, cancelCall, engineVars, logVars, settlementVars>>

(* The identifier has reached a client: in the answer to PlaceOrder or in the
   trade history. *)
Known(id) ==
    \/ call[id] = "placed"
    \/ \E i \in 1..Len(trades) : id \in {trades[i].buyOrder, trades[i].sellOrder}

(* Engine.Cancel for CancelOrder: the command is sent. *)
CancelOrder(id) ==
    /\ Known(id)
    /\ cancelCall[id] = "idle"
    /\ Len(in) < EngineBuffer
    /\ in' = Append(in, [kind |-> "cancel", id |-> id])
    /\ cancelCall' = [cancelCall EXCEPT ![id] = "waiting"]
    /\ UNCHANGED <<bookVars, call, request, outbox, serving, logVars, settlementVars, wallets>>

(* Engine.Cancel gives up waiting for the reply: nothing is undone. *)
AbandonCancel(id) ==
    /\ cancelCall[id] = "waiting"
    /\ cancelCall' = [cancelCall EXCEPT ![id] = "abandoned"]
    /\ UNCHANGED <<bookVars, call, request, engineVars, logVars, settlementVars, wallets>>

-----------------------------------------------------------------------------
(* The engine goroutine *)

TradeEvent(f) == [type |-> "TRADE", trade |-> f.trade]

OrderUpdated(id, o, releaseCOP, releaseVibranium) ==
    [type |-> "ORDER_UPDATED", id |-> id, order |-> o,
     releaseCOP |-> releaseCOP, releaseVibranium |-> releaseVibranium]

(* Mutants of PlaceEvents: no refund of the price improvement, and no update for
   a taker that has nothing to release. *)
PlaceEventsNoRefund(result, id, o) ==
    FlattenSeq([i \in 1..Len(result.fills) |->
                  <<TradeEvent(result.fills[i]),
                    OrderUpdated(result.fills[i].makerID, result.fills[i].maker, 0, 0)>>])
        \o <<OrderUpdated(id, o, 0, 0)>>
PlaceEventsNoTaker(result, id, o) ==
    FlattenSeq([i \in 1..Len(result.fills) |->
                  <<TradeEvent(result.fills[i]),
                    OrderUpdated(result.fills[i].makerID, result.fills[i].maker, 0, 0)>>])
        \o (IF result.takerReleaseCOP > 0
            THEN <<OrderUpdated(id, o, result.takerReleaseCOP, 0)>> ELSE <<>>)

(* What handlePlace publishes for a PlaceResult, in its order. *)
PlaceEvents(result, id, o) ==
    FlattenSeq([i \in 1..Len(result.fills) |->
                  <<TradeEvent(result.fills[i]),
                    OrderUpdated(result.fills[i].makerID, result.fills[i].maker, 0, 0)>>])
        \o <<OrderUpdated(id, o, result.takerReleaseCOP, 0)>>

EngineIdle == serving = None

(* handlePlace: the command is received and book.Place is entered. *)
EnginePlace ==
    /\ EngineIdle
    /\ in # <<>>
    /\ Head(in).kind = "place"
    /\ serving' = Head(in)
    /\ in' = Tail(in)
    /\ PlaceBegin(Head(in).id, request[Head(in).id])
    /\ UNCHANGED <<clientVars, outbox, logVars, settlementVars, wallets>>

EngineMatch ==
    /\ MatchStep
    /\ UNCHANGED <<clientVars, engineVars, logVars, settlementVars, wallets>>

(* book.Place returns. *)
EngineFinish ==
    /\ PlaceFinish
    /\ outbox' = PlaceEvents(res, taker, order'[taker])
    /\ UNCHANGED <<clientVars, in, serving, logVars, settlementVars, wallets>>

(* Mutant of EngineCancel: the order is marked without a call of book.Cancel. *)
EngineCancelMarks ==
    /\ EngineIdle
    /\ in # <<>>
    /\ Head(in).kind = "cancel" /\ Head(in).id \in orders
    /\ order' = [order EXCEPT ![Head(in).id].status = "CANCELLED"]
    /\ outbox' = <<OrderUpdated(Head(in).id, order'[Head(in).id], 0, 0)>>
    /\ serving' = Head(in)
    /\ in' = Tail(in)
    /\ UNCHANGED <<book, orders, orderSeq, tradeSeq, taker, res, clientVars, logVars,
                   settlementVars, wallets>>

(* handleCancel of a resting order. *)
EngineCancel ==
    /\ EngineIdle
    /\ in # <<>>
    /\ Head(in).kind = "cancel"
    /\ LET id == Head(in).id
       IN  /\ Cancel(id)
           /\ outbox' = <<OrderUpdated(id, order'[id], CancelRelease(order[id]).COP,
                                       CancelRelease(order[id]).Vibranium)>>
    /\ serving' = Head(in)
    /\ in' = Tail(in)
    /\ UNCHANGED <<clientVars, logVars, settlementVars, wallets>>

(* Mutant of ReplyTo: the reply is never sent. *)
ReplyToNobody(calls, id, reply) == calls

(* A reply goes into the call's own channel; nobody reads it once the call
   was abandoned. *)
ReplyTo(calls, id, reply) == [calls EXCEPT ![id] = IF @ = "waiting" THEN reply ELSE @]

(* handleCancel of an order that is not, or no longer, in the book. *)
EngineCancelUnknown ==
    /\ EngineIdle
    /\ in # <<>>
    /\ Head(in).kind = "cancel"
    /\ Head(in).id \notin orders
    /\ cancelCall' = ReplyTo(cancelCall, Head(in).id, "not_found")
    /\ in' = Tail(in)
    /\ UNCHANGED <<bookVars, call, request, outbox, serving, logVars, settlementVars, wallets>>

(* Events that were published and never delivered.  A redelivery takes no room
   from the publisher. *)
Undelivered == Len(log) - Max({pos} \cup journal)

(* publish: blocks while the log's buffer is full. *)
EnginePublish ==
    /\ outbox # <<>>
    /\ Undelivered < LogBuffer
    /\ log' = Append(log, Head(outbox))
    /\ outbox' = Tail(outbox)
    /\ UNCHANGED <<bookVars, clientVars, in, serving, pos, settlementVars, wallets>>

(* All events are out: the reply is sent and the engine is free again. *)
EngineReply ==
    /\ serving # None
    /\ taker = None
    /\ outbox = <<>>
    /\ IF serving.kind = "place"
       THEN call' = ReplyTo(call, serving.id, "replied") /\ UNCHANGED cancelCall
       ELSE cancelCall' = ReplyTo(cancelCall, serving.id, "cancelled") /\ UNCHANGED call
    /\ serving' = None
    /\ UNCHANGED <<bookVars, request, in, outbox, logVars, settlementVars, wallets>>

-----------------------------------------------------------------------------
(* The event log and the settlement goroutine *)

(* The writes that Settlement.apply makes for an event, in order. *)
Notional(t) == t.price * t.quantity

TradeWrites(t) ==
    <<[write |-> "SettleBuy", user |-> t.buyer, COP |-> Notional(t), Vibranium |-> t.quantity],
      [write |-> "SettleSell", user |-> t.seller, COP |-> Notional(t), Vibranium |-> t.quantity],
      [write |-> "AppendTrade", trade |-> t]>>

OrderUpdateWrites(ev) ==
    <<[write |-> "UpsertOrder", id |-> ev.id, order |-> ev.order]>>
    \o (IF ev.releaseCOP > 0
        THEN <<[write |-> "ReleaseCOP", user |-> ev.order.userID,
                COP |-> ev.releaseCOP, Vibranium |-> 0]>> ELSE <<>>)
    \o (IF ev.releaseVibranium > 0
        THEN <<[write |-> "ReleaseVibranium", user |-> ev.order.userID,
                COP |-> 0, Vibranium |-> ev.releaseVibranium]>> ELSE <<>>)

Writes(ev) == IF ev.type = "TRADE" THEN TradeWrites(ev.trade) ELSE OrderUpdateWrites(ev)

(* Mutant of SettlementReceive: the journal's answer is ignored. *)
SettlementReceiveAlways ==
    /\ job = <<>>
    /\ pos < Len(log)
    /\ pos' = pos + 1
    /\ MarkProcessed(pos + 1)
    /\ job' = Writes(log[pos + 1])
    /\ UNCHANGED <<bookVars, clientVars, engineVars, log, projection, trades, wallets>>

(* Settlement.handle: the journal is marked before anything is applied, and
   an event it already holds is dropped. *)
SettlementReceive ==
    /\ job = <<>>
    /\ pos < Len(log)
    /\ pos' = pos + 1
    /\ MarkProcessed(pos + 1)
    /\ job' = IF Fresh(pos + 1) THEN Writes(log[pos + 1]) ELSE <<>>
    /\ UNCHANGED <<bookVars, clientVars, engineVars, log, projection, trades, wallets>>

WalletWrites == {"SettleBuy", "SettleSell", "ReleaseCOP", "ReleaseVibranium"}

(* Mutant of Apply: the seller's two amounts are swapped. *)
ApplySwapped(w, j) ==
    CASE j.write = "SettleBuy" -> SettleBuy(w, j.COP, j.Vibranium)
      [] j.write = "SettleSell" -> SettleSell(w, j.COP, j.Vibranium)
      [] j.write = "ReleaseCOP" -> ReleaseCOP(w, j.COP)
      [] j.write = "ReleaseVibranium" -> ReleaseVibranium(w, j.Vibranium)

(* The wallet operation of a write, and whether the wallet accepts it. *)
Apply(w, j) ==
    CASE j.write = "SettleBuy" -> SettleBuy(w, j.COP, j.Vibranium)
      [] j.write = "SettleSell" -> SettleSell(w, j.Vibranium, j.COP)
      [] j.write = "ReleaseCOP" -> ReleaseCOP(w, j.COP)
      [] j.write = "ReleaseVibranium" -> ReleaseVibranium(w, j.Vibranium)

CanApply(w, j) ==
    CASE j.write = "SettleBuy" -> CanSettleBuy(w, j.COP, j.Vibranium)
      [] j.write = "SettleSell" -> CanSettleSell(w, j.Vibranium, j.COP)
      [] j.write = "ReleaseCOP" -> CanReleaseCOP(w, j.COP)
      [] j.write = "ReleaseVibranium" -> CanReleaseVibranium(w, j.Vibranium)

(* One wallet update of applyTrade or applyOrderUpdate.  An error is logged
   and settlement goes on to the next write. *)
SettlementWallet ==
    /\ job # <<>>
    /\ Head(job).write \in WalletWrites
    /\ UpdateWallet(Head(job).user, Apply(wallets[Head(job).user], Head(job)))
    /\ job' = Tail(job)
    /\ UNCHANGED <<bookVars, clientVars, engineVars, logVars, journal, projection, trades>>

SettlementUpsert ==
    /\ job # <<>>
    /\ Head(job).write = "UpsertOrder"
    /\ UpsertOrder(Head(job).id, Head(job).order)
    /\ job' = Tail(job)
    /\ UNCHANGED <<bookVars, clientVars, engineVars, logVars, journal, trades, wallets>>

SettlementAppend ==
    /\ job # <<>>
    /\ Head(job).write = "AppendTrade"
    /\ AppendTrade(Head(job).trade)
    /\ job' = Tail(job)
    /\ UNCHANGED <<bookVars, clientVars, engineVars, logVars, journal, projection, wallets>>

-----------------------------------------------------------------------------
(* What a process starts with: an empty book, empty channels, idle goroutines. *)
Started ==
    /\ OrderBookInit
    /\ in = <<>>
    /\ outbox = <<>>
    /\ serving = None
    /\ job = <<>>

(* The clients have called nothing, and the log and its journal are empty. *)
Untouched ==
    /\ call = [id \in OrderID |-> "idle"]
    /\ request = [id \in OrderID |-> None]
    /\ cancelCall = [id \in OrderID |-> "idle"]
    /\ log = <<>>
    /\ pos = 0
    /\ journal = {}
    /\ projection = [id \in OrderID |-> None]
    /\ trades = <<>>

Init == Started /\ Untouched /\ wallets = [u \in UserID |-> None]

ClientNext ==
    \/ \E u \in UserID : wallets[u] = None /\ Seed(u)
    \/ \E id \in OrderID :
         \/ \E c \in PlaceOrderCommand : PlaceOrder(id, c)
         \/ Submit(id)
         \/ AbandonSubmit(id)
         \/ Return(id)
         \/ Release(id)
         \/ CancelOrder(id)
         \/ AbandonCancel(id)

EngineNext ==
    \/ EnginePlace \/ EngineMatch \/ EngineFinish
    \/ EngineCancel \/ EngineCancelUnknown
    \/ EnginePublish \/ EngineReply

SettlementNext ==
    \/ SettlementReceive
    \/ SettlementWallet \/ SettlementUpsert \/ SettlementAppend

(* Nothing is under way: no call, command, event or write is pending. *)
Quiescent ==
    /\ \A id \in OrderID : /\ call[id] \notin {"submit", "waiting", "replied", "releasing"}
                           /\ cancelCall[id] # "waiting"
    /\ in = <<>> /\ EngineIdle
    /\ pos = Len(log) /\ job = <<>>

(* The server waits for clients that send nothing more. *)
Idle == Quiescent /\ UNCHANGED vars

Next == ClientNext \/ EngineNext \/ SettlementNext \/ Idle

(* Clients that seed each wallet once and whose context never ends between
   the send of a command and its reply. *)
Spec == Init /\ [][Next]_vars

(* Clients whose context may end at any time, as Engine.Place allows. *)
AbandonSpec == Init /\ [][Next \/ \E id \in OrderID : AbandonWait(id)]_vars

-----------------------------------------------------------------------------
(* What is owed *)

Asset == {"COP", "Vibranium"}

(* What a write takes from the locked funds of user u. *)
Takes(a) == IF a = "COP" THEN {"SettleBuy", "ReleaseCOP"}
                         ELSE {"SettleSell", "ReleaseVibranium"}
Amount(j, a) == IF a = "COP" THEN j.COP ELSE j.Vibranium
Debit(j, u, a) == IF j.write \in Takes(a) /\ j.user = u THEN Amount(j, a) ELSE 0

(* What the writes of a job, or of events, will take. *)
DebitOf(writes, u, a) == Total([i \in 1..Len(writes) |-> Debit(writes[i], u, a)])
DebitOfEvents(events, u, a) ==
    Total([i \in 1..Len(events) |-> DebitOf(Writes(events[i]), u, a)])
DebitOfLog(u, a) ==
    Total([i \in 1..Len(log) |-> IF i \in journal THEN 0 ELSE DebitOf(Writes(log[i]), u, a)])

(* The events that the Place call in progress would publish if it ended. *)
Placing == IF taker = None THEN <<>> ELSE PlaceEvents(res, taker, order[taker])

(* What settlement has still to take from the locked funds of u: for the event
   in hand, for the events it has not marked, for those the engine has not
   published and for the Place call in progress. *)
Pending(u, a) ==
    DebitOf(job, u, a) + DebitOfLog(u, a) + DebitOfEvents(outbox, u, a)
      + DebitOfEvents(Placing, u, a)

(* Requests of u whose funds are reserved and that are no orders yet. *)
Reservations(u) ==
    {id \in OrderID : /\ order[id] = None
                      /\ call[id] \in {"submit", "waiting", "releasing"}
                      /\ request[id].userID = u}

(* Orders of u that may still trade. *)
OpenOrders(u) == {id \in orders \cup ({taker} \ {None}) : order[id].userID = u}

(* What an order, or a request that may become one, holds of them. *)
Reserved(c, a) == IF a = "COP" THEN ReservedCOP(c) ELSE ReservedVibranium(c)
Unfilled(o, a) == IF a = "COP" THEN CancelRelease(o).COP ELSE CancelRelease(o).Vibranium
Held(u, a) ==
    [id \in OrderID |-> IF id \in Reservations(u) THEN Reserved(request[id], a)
                        ELSE IF id \in OpenOrders(u) THEN Unfilled(order[id], a) ELSE 0]

(* What the locked funds of u have to back. *)
Owed(u, a) == Total(Held(u, a)) + Pending(u, a)
Locked(w, a) == IF a = "COP" THEN w.COPLocked ELSE w.VibraniumLocked

(* The second leg of a trade whose first leg has been written. *)
HalfTrade == IF job # <<>> /\ Head(job).write = "SettleSell"
             THEN [COP |-> Head(job).COP, Vibranium |-> Head(job).Vibranium]
             ELSE [COP |-> 0, Vibranium |-> 0]

Wallets == {u \in UserID : wallets[u] # None}
SupplyCOP == Total([u \in Wallets |-> TotalCOP(wallets[u])]) + HalfTrade.COP
SupplyVibranium ==
    Total([u \in Wallets |-> TotalVibranium(wallets[u])]) - HalfTrade.Vibranium

DepositedCOP == Total([u \in Wallets |-> Deposit[u].COP])
DepositedVibranium == Total([u \in Wallets |-> Deposit[u].Vibranium])

-----------------------------------------------------------------------------
(* Properties *)

Command == [kind: {"place", "cancel"}, id: OrderID]

ASSUME NoneIsNothing == None \notin Command /\ None \notin Wallet

(* Every variable holds values of the Go type it models. *)
ExchangeTypeOK ==
    /\ TypeOK
    /\ call \in [OrderID -> {"idle", "rejected", "submit", "waiting",
                             "replied", "placed", "releasing", "failed"}]
    /\ request \in [OrderID -> PlaceOrderCommand \cup {None}]
    /\ cancelCall \in [OrderID -> {"idle", "waiting", "abandoned", "not_found", "cancelled"}]
    /\ in \in Seq(Command) /\ Len(in) <= EngineBuffer
    /\ serving \in Command \cup {None}
    /\ pos \in 0..Len(log) /\ Undelivered <= LogBuffer
    /\ journal \in SUBSET (1..Len(log))
    /\ wallets \in [UserID -> Wallet \cup {None}]
    /\ projection \in [OrderID -> Order \cup {None}]
    /\ trades \in Seq(Trade)

(* The money invariant of the README: what all users own together is what was
   deposited, whatever the interleaving.  Only between the two legs of one
   trade is the second leg on its way. *)
MoneyConserved ==
    /\ SupplyCOP = DepositedCOP
    /\ SupplyVibranium = DepositedVibranium

(* Reservations serialise on the wallet, so no interleaving of PlaceOrder calls
   and settlement spends the same funds twice: no balance is ever negative. *)
NoOverdraft ==
    \A u \in Wallets : /\ wallets[u].COPAvailable >= 0 /\ wallets[u].COPLocked >= 0
                       /\ wallets[u].VibraniumAvailable >= 0 /\ wallets[u].VibraniumLocked >= 0

(* Locked funds are exactly what they back: reservations on their way to the
   engine, the open remainder of orders, and debits and releases the engine
   has decided and settlement has not yet applied.  More would be funds
   stranded for ever, less an order without collateral. *)
LockedBacksObligations ==
    \A u \in Wallets : \A a \in Asset : Locked(wallets[u], a) = Owed(u, a)

(* No wallet write of settlement and no compensating release ever fails:
   applyTrade says that a failure means a reservation invariant was violated
   upstream. *)
SettlementCollateralised ==
    /\ (job # <<>> /\ Head(job).write \in WalletWrites) =>
          wallets[Head(job).user] # None /\ CanApply(wallets[Head(job).user], Head(job))
    /\ \A id \in OrderID : call[id] = "releasing" =>
          CanUnreserve(wallets[request[id].userID], request[id])

(* Validation, unique identifiers and the single engine goroutine give the
   book only what OrderBook expects, so what holds of OrderBookSpec holds of
   the book inside the exchange. *)
UsesOrderBook == OrderBookSpec
=============================================================================
