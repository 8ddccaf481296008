-------------------------- MODULE DurableExchange --------------------------
(***************************************************************************)
(* The exchange on the durable stores (internal/adapter/driven/postgres)   *)
(* and a durable log: the process dies and is started again, the log       *)
(* delivers events again, and a store fails in the middle of an event.     *)
(* The reconciliation job (internal/core/service/reconciliation.go) looks  *)
(* at the wallets meanwhile.                                               *)
(*                                                                         *)
(* Wallets, orders, trades, the journal and the log outlive a process; the *)
(* book, the queues, the calls and the baseline do not.  The first process *)
(* finds every wallet seeded.                                              *)
(***************************************************************************)
EXTENDS Exchange

CONSTANTS
    Faults,     \* the faults that may happen: see Fault
    MaxFaults   \* bound on how often faults happen

Fault == {"crash", "rewind", "journal", "write", "reserve", "release"}

ASSUME FaultsAssumption == Faults \subseteq Fault /\ MaxFaults \in Nat

VARIABLES
    faults,    \* the faults that have happened
    count,     \* how many times one did
    resumed,   \* the committed offset from which this process consumes
    lost,      \* auxiliary: writes of journalled events that were never made
    baseline   \* Reconciliation's baseline, None before the first sample

faultVars == <<faults, count>>
durableVars == <<faultVars, resumed, lost, baseline>>
allVars == <<vars, durableVars>>

DurableInit ==
    /\ Started
    /\ Untouched
    /\ wallets = [u \in UserID |-> SeededWallet(Deposit[u].COP, Deposit[u].Vibranium)]
    /\ faults = {} /\ count = 0
    /\ resumed = 0
    /\ lost = <<>>
    /\ baseline = None

Happens(f) ==
    /\ f \in Faults
    /\ count < MaxFaults
    /\ faults' = faults \cup {f}
    /\ count' = count + 1

-----------------------------------------------------------------------------
(* The Postgres order and trade stores *)

(* Mutant of NotNewer: an update of an order that is there is refused. *)
NeverNewer(id, o) == projection[id] = None

(* WHERE orders.sequence <= EXCLUDED.sequence *)
NotNewer(id, o) == projection[id] = None \/ projection[id].sequence <= o.sequence

(* OrderStore.Upsert *)
PostgresUpsert ==
    /\ job # <<>>
    /\ Head(job).write = "UpsertOrder"
    /\ IF NotNewer(Head(job).id, Head(job).order)
       THEN UpsertOrder(Head(job).id, Head(job).order)
       ELSE UNCHANGED projection
    /\ job' = Tail(job)
    /\ UNCHANGED <<bookVars, clientVars, engineVars, logVars, journal, trades, wallets>>

(* A trade's identifier is made of the symbol and its sequence number. *)
SameTradeID(t, u) == t.sequence = u.sequence

Recorded(t) == \E i \in 1..Len(trades) : SameTradeID(trades[i], t)

(* TradeStore.Append: ON CONFLICT (id) DO NOTHING *)
PostgresAppend ==
    /\ job # <<>>
    /\ Head(job).write = "AppendTrade"
    /\ IF Recorded(Head(job).trade) THEN UNCHANGED trades ELSE AppendTrade(Head(job).trade)
    /\ job' = Tail(job)
    /\ UNCHANGED <<bookVars, clientVars, engineVars, logVars, journal, projection, wallets>>

-----------------------------------------------------------------------------
(* Reconciliation *)

Totals == [COP |-> Total([u \in Wallets |-> TotalCOP(wallets[u])]),
           Vibranium |-> Total([u \in Wallets |-> TotalVibranium(wallets[u])])]

(* Mutant of Sample: the first baseline stays. *)
SampleFirst ==
    /\ baseline' = IF baseline = None THEN Totals ELSE baseline
    /\ UNCHANGED <<vars, faultVars, resumed, lost>>

(* One query reads all wallets; the baseline moves with what it finds. *)
Sample ==
    /\ baseline' = Totals
    /\ UNCHANGED <<vars, faultVars, resumed, lost>>

-----------------------------------------------------------------------------
(* Faults *)

(* Mutants of PostgresKeeps: the journal is the one in memory, and the locked
   funds are freed because the book is empty. *)
PostgresForgets == journal' = {} /\ UNCHANGED <<wallets, projection, trades>>
PostgresUnlocks ==
    /\ wallets' = [u \in UserID |-> [wallets[u] EXCEPT !.COPAvailable = @ + wallets[u].COPLocked,
                                                       !.COPLocked = 0]]
    /\ UNCHANGED <<journal, projection, trades>>

(* What is in Postgres outlives the process: the journal too, always. *)
PostgresKeeps == UNCHANGED <<journal, wallets, projection, trades>>

(* The process starts with an empty book and empty channels. *)
Restart ==
    /\ order' = [id \in OrderID |-> None]
    /\ book' = [s \in Side |-> [levels |-> [p \in Price |-> None], prices |-> <<>>]]
    /\ orders' = {} /\ orderSeq' = 0 /\ tradeSeq' = 0
    /\ taker' = None /\ res' = [fills |-> <<>>, takerReleaseCOP |-> 0]
    /\ in' = <<>> /\ outbox' = <<>> /\ serving' = None
    /\ job' = <<>>
    /\ baseline' = None

(* The process ends and the next one starts.  The clients in a call get no
   answer; the writes left to make for the event in hand are never made, as it
   is in the journal; events that had not got to the broker are gone.  The log
   goes on from the committed offset, which never goes back: before the last
   event delivered if that was not yet committed, after it if more was
   committed than settlement received (see KafkaLog). *)
Crash ==
    /\ Happens("crash")
    /\ Restart
    /\ PostgresKeeps
    /\ lost' = lost \o job
    /\ \E kept \in Max({pos} \cup journal)..Len(log) :
          log' = SubSeq(log, 1, kept) /\ pos' \in resumed..kept
    /\ resumed' = pos'
    /\ call' = [id \in OrderID |-> IF call[id] \in {"submit", "waiting", "replied", "releasing"}
                                   THEN "cut" ELSE call[id]]
    /\ cancelCall' = [id \in OrderID |-> IF cancelCall[id] = "waiting"
                                         THEN "abandoned" ELSE cancelCall[id]]
    /\ UNCHANGED request

(* The consumer group is rebalanced: what was not committed comes again. *)
Rewind ==
    /\ Happens("rewind")
    /\ pos' \in resumed..(pos - 1)
    /\ UNCHANGED <<bookVars, clientVars, engineVars, log, settlementVars, wallets,
                   resumed, lost, baseline>>

(* MarkProcessed fails, with its row written or not: the event is skipped. *)
JournalFails ==
    /\ Happens("journal")
    /\ job = <<>>
    /\ pos < Len(log)
    /\ pos' = pos + 1
    /\ \/ UNCHANGED <<journal, lost>>
       \/ /\ MarkProcessed(pos + 1)
          /\ lost' = IF Fresh(pos + 1) THEN lost \o Writes(log[pos + 1]) ELSE lost
    /\ UNCHANGED <<bookVars, clientVars, engineVars, log, job, projection, trades, wallets,
                   resumed, baseline>>

(* Mutant of WriteFails: settlement gives up the rest of the event. *)
WriteFailsForGood ==
    /\ Happens("write")
    /\ job # <<>>
    /\ lost' = Append(lost, Head(job))
    /\ job' = <<>>
    /\ UNCHANGED <<bookVars, clientVars, engineVars, logVars, journal, projection, trades,
                   wallets, resumed, baseline>>

(* A wallet, order or trade write of settlement fails and is rolled back; the
   error is logged and settlement goes on.  If only the answer to the commit
   was lost, the step is that of a write that succeeds. *)
WriteFails ==
    /\ Happens("write")
    /\ job # <<>>
    /\ lost' = Append(lost, Head(job))
    /\ job' = Tail(job)
    /\ UNCHANGED <<bookVars, clientVars, engineVars, logVars, journal, projection, trades,
                   wallets, resumed, baseline>>

(* The reservation is committed and its answer lost: PlaceOrder reports that
   the wallet store is unavailable. *)
ReserveUnanswered(id, c) ==
    /\ Happens("reserve")
    /\ call[id] = "idle"
    /\ Valid(c)
    /\ wallets[c.userID] # None
    /\ CanReserve(wallets[c.userID], c)
    /\ UpdateWallet(c.userID, Reserve(wallets[c.userID], c))
    /\ request' = [request EXCEPT ![id] = c]
    /\ call' = [call EXCEPT ![id] = "rejected"]
    /\ UNCHANGED <<bookVars, cancelCall, engineVars, logVars, settlementVars,
                   resumed, lost, baseline>>

(* The compensating release fails; PlaceOrder drops its error. *)
ReleaseFails(id) ==
    /\ Happens("release")
    /\ call[id] = "releasing"
    /\ call' = [call EXCEPT ![id] = "failed"]
    /\ UNCHANGED <<bookVars, request, cancelCall, engineVars, logVars, settlementVars,
                   wallets, resumed, lost, baseline>>

-----------------------------------------------------------------------------
DurableClientNext ==
    \E id \in OrderID :
         \/ \E c \in PlaceOrderCommand : PlaceOrder(id, c)
         \/ Submit(id)
         \/ AbandonSubmit(id)
         \/ Return(id)
         \/ Release(id)
         \/ CancelOrder(id)
         \/ AbandonCancel(id)

DurableSettlementNext ==
    \/ SettlementReceive
    \/ SettlementWallet \/ PostgresUpsert \/ PostgresAppend

FaultNext ==
    \/ Crash \/ Rewind \/ JournalFails \/ WriteFails
    \/ \E id \in OrderID :
         \/ \E c \in PlaceOrderCommand : ReserveUnanswered(id, c)
         \/ ReleaseFails(id)

DurableNext ==
    \/ DurableClientNext /\ UNCHANGED durableVars
    \/ EngineNext /\ UNCHANGED durableVars
    \/ DurableSettlementNext /\ UNCHANGED durableVars
    \/ FaultNext
    \/ Idle /\ UNCHANGED durableVars

(* RECONCILE_INTERVAL is zero, which disables the reconciliation job. *)
DurableSpec == DurableInit /\ [][DurableNext]_allVars

(* The goroutines that are never parked while they can go on: the engine, the
   settlement loop, a client inside a call, and the reconciliation's ticker.
   Nothing makes a client call, cancel or give up, and no fault has to happen. *)
DurableFairness ==
    /\ WF_allVars(EngineNext /\ UNCHANGED durableVars)
    /\ WF_allVars(DurableSettlementNext /\ UNCHANGED durableVars)
    /\ WF_allVars(Sample)
    /\ \A id \in OrderID :
          /\ WF_allVars(Submit(id) /\ UNCHANGED durableVars)
          /\ WF_allVars(Return(id) /\ UNCHANGED durableVars)
          /\ WF_allVars(Release(id) /\ UNCHANGED durableVars)

(* With the reconciliation job. *)
ReconciledSpec == DurableInit /\ [][DurableNext \/ Sample]_allVars /\ DurableFairness

-----------------------------------------------------------------------------
(* Properties *)

(* What the lost writes have taken from the buyers' and the sellers' legs. *)
LostLeg(write) ==
    LET legs == {i \in 1..Len(lost) : lost[i].write = write}
    IN  [COP |-> Total([i \in legs |-> lost[i].COP]),
         Vibranium |-> Total([i \in legs |-> lost[i].Vibranium])]

(* Whatever fails, the supply is off by exactly the legs that settlement did
   not write for an event it had marked.  A crash, a redelivery, a journal
   that errs, a lost answer and a failed release move no money. *)
DiscrepancyIsLostLegs ==
    /\ SupplyCOP = DepositedCOP + LostLeg("SettleBuy").COP - LostLeg("SettleSell").COP
    /\ SupplyVibranium =
         DepositedVibranium + LostLeg("SettleSell").Vibranium - LostLeg("SettleBuy").Vibranium

(* Faults may strand locked funds and never uncover an order: what a user has
   locked is at least what reservations, open orders and events that may still
   be delivered will take. *)
ObligationsCovered ==
    \A u \in UserID : \A a \in Asset : Locked(wallets[u], a) >= Owed(u, a)

(* As the README says of a crash or restart, Postgres keeps the full trade
   history: every trade that was settled is in it, unless its write failed. *)
FullTradeHistory ==
    \A i \in journal : log[i].type = "TRADE" =>
        \/ \E k \in 1..Len(trades) : trades[k] = log[i].trade
        \/ \E k \in 1..Len(job) : job[k] = [write |-> "AppendTrade", trade |-> log[i].trade]
        \/ \E k \in 1..Len(lost) : lost[k] = [write |-> "AppendTrade", trade |-> log[i].trade]

(* Within the life of a process the history is full, and repeats no trade. *)
TradeHistoryExact ==
    "crash" \notin faults =>
        /\ FullTradeHistory
        /\ \A i, k \in 1..Len(trades) : trades[i] = trades[k] => i = k

(* A redelivery leaves no trace: once everything has been delivered, GetOrder
   and the trade history agree with the book. *)
ConvergedWhenQuiescent ==
    (Quiescent /\ faults \subseteq {"rewind"}) => projection = order /\ Len(trades) = tradeSeq

(* As OrderStore.Upsert says: an out-of-order or redelivered update never
   overwrites newer state with older state. *)
ProjectionMonotonic ==
    [][\A id \in OrderID : projection[id] # None =>
          /\ Terminal(projection[id].status) => projection'[id] = projection[id]
          /\ projection'[id].filled >= projection[id].filled]_allVars

(* As long as the journal answers, GetOrder never goes back: a snapshot is
   never replaced by an older one, through redeliveries, crashes and writes
   that fail. *)
ProjectionOnlyAdvances ==
    [][\A id \in OrderID : ("journal" \notin faults /\ projection[id] # None) =>
          /\ Terminal(projection[id].status) => projection'[id] = projection[id]
          /\ projection'[id].filled >= projection[id].filled]_allVars

(* A PlaceOrder call that has reserved funds comes to an end, even with a full
   engine queue and a full log, unless the process ends first. *)
PlaceOrderEnds ==
    \A id \in OrderID : call[id] = "submit" ~> call[id] \in {"placed", "failed", "cut"}

(* What the book has decided about an order that is filled or cancelled is
   eventually what GetOrder shows, also when the log delivers events again. *)
ProjectionCatchesUp ==
    \A id \in OrderID :
        (order[id] # None /\ Terminal(order[id].status))
            ~> (projection[id] = order[id] \/ ~(faults \subseteq {"rewind"}))

(* The alert on the money supply needs a discrepancy that persists.  What
   persists in the samples is a lost leg and nothing else: a sample taken
   between the two legs of a trade leaves no lasting mark. *)
DiscrepancyPersistsIfReal ==
    <>[](baseline # None /\ ((baseline = [COP |-> DepositedCOP, Vibranium |-> DepositedVibranium])
                                <=> LostLeg("SettleBuy") = LostLeg("SettleSell")))
=============================================================================
