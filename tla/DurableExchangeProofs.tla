----------------------- MODULE DurableExchangeProofs -----------------------
(***************************************************************************)
(* Proofs about DurableExchange, for any finite sets of orders and users,  *)
(* any requests, any buffers and any number of faults of any kind.         *)
(***************************************************************************)
EXTENDS DurableExchange, ExchangeProofs

-----------------------------------------------------------------------------
(* The steps *)

(* A step of the exchange in which no fault happens. *)
Plain == [Next]_vars /\ UNCHANGED durableVars

(* The next write of the job is not made: nothing but the job changes. *)
JobOnly ==
    /\ job # <<>>
    /\ job' = Tail(job)
    /\ UNCHANGED <<bookVars, clientVars, engineVars, logVars, journal, projection, trades, wallets>>

(* The store finds that it has the row already, or a newer one. *)
Refused ==
    /\ JobOnly
    /\ Head(job).write \in {"UpsertOrder", "AppendTrade"}
    /\ UNCHANGED durableVars

(* Every step is one of the exchange, a row that is refused, or a fault. *)
LEMMA DurableSteps ==
    ASSUME [DurableNext]_allVars
    PROVE  Plain \/ Refused \/ FaultNext
  <1>1. CASE DurableClientNext /\ UNCHANGED durableVars
    BY <1>1 DEF DurableClientNext, Plain, Next, ClientNext
  <1>2. CASE EngineNext /\ UNCHANGED durableVars
    BY <1>2 DEF Plain, Next
  <1>3. CASE Idle /\ UNCHANGED durableVars
    BY <1>3 DEF Plain, Next
  <1>4. CASE (SettlementReceive \/ SettlementWallet) /\ UNCHANGED durableVars
    BY <1>4 DEF Plain, Next, SettlementNext
  <1>5. CASE PostgresUpsert /\ UNCHANGED durableVars
    <2>1. CASE NotNewer(Head(job).id, Head(job).order)
      BY <1>5, <2>1 DEF PostgresUpsert, SettlementUpsert, Plain, Next, SettlementNext
    <2>2. CASE ~NotNewer(Head(job).id, Head(job).order)
      BY <1>5, <2>2 DEF PostgresUpsert, Refused, JobOnly
    <2>. QED  BY <2>1, <2>2
  <1>6. CASE PostgresAppend /\ UNCHANGED durableVars
    <2>1. CASE ~Recorded(Head(job).trade)
      BY <1>6, <2>1 DEF PostgresAppend, SettlementAppend, Plain, Next, SettlementNext
    <2>2. CASE Recorded(Head(job).trade)
      BY <1>6, <2>2 DEF PostgresAppend, Refused, JobOnly
    <2>. QED  BY <2>1, <2>2
  <1>7. CASE UNCHANGED allVars
    BY <1>7 DEF allVars, Plain
  <1>. QED  BY <1>1, <1>2, <1>3, <1>4, <1>5, <1>6, <1>7 DEF DurableNext, DurableSettlementNext

-----------------------------------------------------------------------------
(* Control flow through faults *)

(* What ControlInv says holds through every fault; the wallets stay, and the
   committed offset is not ahead of what was delivered. *)
DurableInv ==
    /\ ControlInv
    /\ \A u \in UserID : wallets[u] # None
    /\ lost \in Seq(Write)
    /\ resumed \in 0..pos

(* The largest of a set of naturals with an upper bound. *)
LEMMA MaxProperties ==
    ASSUME NEW n \in Nat, NEW T \in SUBSET (0..n), T # {}
    PROVE  /\ Max(T) \in T
           /\ \A x \in T : x <= Max(T)
  <1>. DEFINE B == {m \in 0..n : \A x \in T : x <= m}
              m == Min(B)
  <1>1. n \in B /\ B \in SUBSET Nat /\ B # {}
    OBVIOUS
  <1>2. m \in B /\ \A x \in B : m <= x
    <2>. HIDE DEF B
    <2>. QED  BY <1>1, MinProperties
  <1>. HIDE DEF m
  <1>3. m \in 0..n /\ \A x \in T : x <= m
    BY <1>2
  <1>4. m \in T
    <2>. SUFFICES ASSUME m \notin T PROVE FALSE
      OBVIOUS
    <2>1. \A x \in T : x <= m - 1 /\ x \in 0..n
      BY <1>3
    <2>2. m - 1 \in 0..n
      <3>1. PICK x \in T : TRUE
        OBVIOUS
      <3>. HIDE DEF B
      <3>. QED  BY <1>3, <2>1, <3>1
    <2>3. m - 1 \in B
      BY <2>1, <2>2
    <2>. QED  BY <1>2, <1>3, <2>3
  <1>5. \E x \in T : \A y \in T : x >= y
    BY <1>3, <1>4
  <1>. DEFINE M == CHOOSE x \in T : \A y \in T : x >= y
  <1>6. M \in T /\ \A y \in T : M >= y
    BY <1>5
  <1>7. Max(T) = M
    BY DEF Max
  <1>. HIDE DEF M
  <1>. QED  BY <1>6, <1>7

(* What a crash leaves of the log: all that was delivered or marked. *)
Truncated(kept) ==
    /\ kept \in Nat /\ kept <= Len(log)
    /\ pos <= kept /\ \A i \in journal : i <= kept
    /\ log' = SubSeq(log, 1, kept)
    /\ log' \in Seq(Event) /\ Len(log') = kept
    /\ \A i \in 1..kept : log'[i] = log[i]

(* The journal and the committed offset stay within what the crash keeps. *)
LEMMA CrashTruncates ==
    ASSUME LogOK, Crash
    PROVE  \E kept \in Nat : Truncated(kept) /\ pos' \in resumed..kept
  <1>0. /\ Len(log) \in Nat /\ pos \in Nat /\ pos <= Len(log) /\ log \in Seq(Event)
        /\ journal \in SUBSET (1..Len(log))
    BY LogFacts
  <1>. DEFINE T == {pos} \cup journal
              n == Len(log)
  <1>1. PICK kept \in Max(T)..Len(log) : log' = SubSeq(log, 1, kept) /\ pos' \in resumed..kept
    BY DEF Crash
  <1>2. T \in SUBSET (0..n) /\ T # {} /\ n \in Nat
    BY <1>0
  <1>3. Max(T) \in T /\ \A x \in T : x <= Max(T)
    <2>. HIDE DEF T, n
    <2>. QED  BY <1>2, MaxProperties
  <1>. DEFINE m == Max(T)
  <1>4. kept \in m..n /\ m \in T /\ \A x \in T : x <= m
    BY <1>1, <1>3
  <1>. HIDE DEF m
  <1>5. kept \in Nat /\ kept <= Len(log) /\ pos <= kept /\ \A i \in journal : i <= kept
    BY <1>0, <1>4
  <1>6. /\ SubSeq(log, 1, kept) \in Seq(Event) /\ Len(SubSeq(log, 1, kept)) = kept
        /\ \A i \in 1..kept : SubSeq(log, 1, kept)[i] = log[i]
    BY <1>0, <1>5
  <1>. QED  BY <1>1, <1>5, <1>6 DEF Truncated

(* Each part of ControlInv stays as long as what it speaks of does. *)
LEMMA PartsStay ==
    ASSUME ControlInv
    PROVE  /\ UNCHANGED bookVars => BookInv'
           /\ UNCHANGED <<order, clientVars>> => CallsOK'
           /\ UNCHANGED <<order, call, in, serving>> => CommandsOK'
           /\ UNCHANGED <<taker, res, engineVars>> => PhasesOK'
           /\ UNCHANGED job => JobOK'
           /\ UNCHANGED <<wallets, projection, trades>> => StoresOK'
  <1>0. BookInv /\ CallsOK /\ CommandsOK /\ PhasesOK /\ JobOK /\ StoresOK
    BY DEF ControlInv
  <1>1. UNCHANGED bookVars => BookInv'
    BY <1>0, BookStepInv
  <1>2. UNCHANGED <<order, clientVars>> => CallsOK'
    BY <1>0 DEF clientVars, CallsOK
  <1>3. UNCHANGED <<order, call, in, serving>> => CommandsOK'
    BY <1>0 DEF CommandsOK
  <1>4. UNCHANGED <<taker, res, engineVars>> => PhasesOK'
    BY <1>0 DEF engineVars, PhasesOK
  <1>5. UNCHANGED job => JobOK'
    BY <1>0 DEF JobOK
  <1>6. UNCHANGED <<wallets, projection, trades>> => StoresOK'
    BY <1>0 DEF StoresOK
  <1>. QED  BY <1>1, <1>2, <1>3, <1>4, <1>5, <1>6

(* The next process finds what the first one found, but for what outlives it. *)
LEMMA CrashControl ==
    ASSUME DurableInv, Crash
    PROVE  DurableInv'
  <1>0. /\ ControlInv /\ CallsOK /\ CommandsOK /\ LogOK /\ JobOK
        /\ lost \in Seq(Write) /\ job \in Seq(Write)
    BY DEF DurableInv, ControlInv, JobOK
  <1>1. /\ Restart /\ UNCHANGED <<journal, wallets, projection, trades, request>>
        /\ lost' = lost \o job /\ resumed' = pos'
        /\ call' = [id \in OrderID |-> IF call[id] \in {"submit", "waiting", "replied", "releasing"}
                                       THEN "cut" ELSE call[id]]
        /\ cancelCall' = [id \in OrderID |-> IF cancelCall[id] = "waiting"
                                             THEN "abandoned" ELSE cancelCall[id]]
    BY DEF Crash, PostgresKeeps
  <1>2. BookInv'
    <2>1. OrderBookInit'
      BY <1>1 DEF Restart, OrderBookInit
    <2>2. OrderBookInit' => BookInv'
      BY InitInv, PTL
    <2>. QED  BY <2>1, <2>2
  <1>3. CallsOK'
    <2>1. \A id \in OrderID : order'[id] = None
      BY <1>1 DEF Restart
    <2>. QED  BY <1>0, <1>1, <2>1 DEF CallsOK
  <1>4. CommandsOK'
    BY <1>1, BufferAssumption DEF Restart, CommandsOK
  <1>5. PhasesOK'
    BY <1>1 DEF Restart, PhasesOK
  <1>6. PICK kept \in Nat : Truncated(kept) /\ pos' \in resumed..kept
    BY <1>0, CrashTruncates
  <1>7. LogOK' /\ resumed' \in 0..pos'
    <2>1. /\ log' \in Seq(Event) /\ Len(log') = kept /\ \A i \in journal : i <= kept
          /\ journal \in SUBSET (1..Len(log)) /\ Len(log) \in Nat
      BY <1>0, <1>6, LogFacts DEF Truncated
    <2>2. journal' \in SUBSET (1..kept)
      BY <1>1, <2>1
    <2>3. resumed \in Nat
      BY <1>0, LogFacts DEF DurableInv
    <2>4. pos' \in 0..kept /\ resumed' \in 0..pos'
      BY <1>1, <1>6, <2>3
    <2>5. outbox' = <<>>
      BY <1>1 DEF Restart
    <2>. QED  BY <2>1, <2>2, <2>4, <2>5 DEF LogOK
  <1>8. JobOK'
    BY <1>1 DEF Restart, JobOK, Paired
  <1>9. StoresOK' /\ \A u \in UserID : wallets'[u] # None
    BY <1>0, <1>1, PartsStay DEF DurableInv
  <1>10. lost' \in Seq(Write)
    BY <1>0, <1>1
  <1>. QED  BY <1>2, <1>3, <1>4, <1>5, <1>7, <1>8, <1>9, <1>10 DEF DurableInv, ControlInv

(* A step that makes no call, and moves no command and no order. *)
Aside == UNCHANGED <<bookVars, clientVars, engineVars>>

(* A step aside of the engine and the callers has the stores and the log to check. *)
LEMMA AsideControl ==
    ASSUME DurableInv, Aside, LogOK', JobOK', StoresOK'
    PROVE  ControlInv'
  <1>1. ControlInv /\ UNCHANGED <<bookVars, order, call, taker, res, clientVars, in, serving, engineVars>>
    BY DEF DurableInv, Aside, bookVars, clientVars, engineVars
  <1>2. BookInv' /\ CallsOK' /\ CommandsOK' /\ PhasesOK'
    BY <1>1, PartsStay
  <1>. QED  BY <1>2 DEF ControlInv

(* The consumer is sent back: the log and the journal stay. *)
LEMMA RewindControl ==
    ASSUME DurableInv, Rewind
    PROVE  DurableInv'
  <1>0. ControlInv /\ LogOK
    BY DEF DurableInv, ControlInv
  <1>1. /\ Aside /\ UNCHANGED <<log, journal, job, outbox, wallets, projection, trades, resumed, lost>>
        /\ pos' \in resumed..(pos - 1)
    BY DEF Rewind, Aside, settlementVars, engineVars
  <1>2. LogOK' /\ resumed' \in 0..pos'
    <2>1. pos \in Nat /\ pos <= Len(log) /\ Len(log) \in Nat /\ resumed \in 0..pos
      BY <1>0, LogFacts DEF DurableInv
    <2>2. pos' \in 0..Len(log) /\ resumed \in 0..pos'
      BY <1>1, <2>1
    <2>. QED  BY <1>0, <1>1, <2>2 DEF LogOK
  <1>3. JobOK' /\ StoresOK'
    BY <1>0, <1>1, PartsStay
  <1>4. ControlInv'
    BY <1>1, <1>2, <1>3, AsideControl
  <1>. QED  BY <1>1, <1>2, <1>4 DEF DurableInv

(* The journal does not answer, and the event is passed over. *)
LEMMA JournalControl ==
    ASSUME DurableInv, JournalFails
    PROVE  DurableInv'
  <1>0. ControlInv /\ LogOK
    BY DEF DurableInv, ControlInv
  <1>1. /\ Aside /\ UNCHANGED <<log, outbox, job, wallets, projection, trades, resumed>>
        /\ pos < Len(log) /\ pos' = pos + 1
        /\ journal' = journal \/ journal' = journal \cup {pos + 1}
        /\ lost' = lost \/ lost' = lost \o Writes(log[pos + 1])
    BY DEF JournalFails, Aside, engineVars, MarkProcessed
  <1>2. /\ pos \in Nat /\ pos <= Len(log) /\ Len(log) \in Nat /\ resumed \in 0..pos
        /\ journal \in SUBSET (1..Len(log)) /\ log[pos + 1] \in Event
    BY <1>0, <1>1, LogFacts DEF DurableInv
  <1>3. LogOK' /\ resumed' \in 0..pos'
    <2>. DEFINE n == Len(log)
    <2>0. n \in Nat /\ pos \in Nat /\ pos < n /\ pos' = pos + 1 /\ resumed \in 0..pos
      BY <1>1, <1>2
    <2>. HIDE DEF n
    <2>1. pos' \in 0..n /\ resumed \in 0..pos' /\ pos + 1 \in 1..n
      BY <2>0
    <2>2. journal' \in SUBSET (1..n)
      BY <1>1, <1>2, <2>1 DEF n
    <2>. QED  BY <1>0, <1>1, <2>1, <2>2 DEF LogOK, n
  <1>4. JobOK' /\ StoresOK'
    BY <1>0, <1>1, PartsStay
  <1>5. ControlInv'
    BY <1>1, <1>3, <1>4, AsideControl
  <1>6. lost' \in Seq(Write)
    <2>. DEFINE w == Writes(log[pos + 1])
    <2>1. w \in Seq(Write) /\ lost \in Seq(Write) /\ (lost' = lost \/ lost' = lost \o w)
      BY <1>1, <1>2, EventWrites DEF DurableInv
    <2>. HIDE DEF w
    <2>. QED  BY <2>1, ConcatProperties
  <1>. QED  BY <1>1, <1>3, <1>5, <1>6 DEF DurableInv

(* A write that is not made leaves a job that may follow it. *)
LEMMA JobOnlyControl ==
    ASSUME ControlInv, JobOnly
    PROVE  ControlInv'
  <1>0. LogOK /\ JobOK /\ job \in Seq(Write) /\ Paired(job)
    BY DEF ControlInv, JobOK
  <1>1. /\ job # <<>> /\ job' = Tail(job)
        /\ UNCHANGED <<bookVars, order, call, taker, res, clientVars, in, serving, engineVars,
                       log, pos, outbox, journal, wallets, projection, trades>>
    BY DEF JobOnly, bookVars, clientVars, engineVars, logVars
  <1>2. BookInv' /\ CallsOK' /\ CommandsOK' /\ PhasesOK' /\ StoresOK'
    BY <1>1, PartsStay
  <1>3. JobOK'
    BY <1>0, <1>1, PairedTail DEF JobOK
  <1>4. LogOK'
    BY <1>0, <1>1 DEF LogOK
  <1>. QED  BY <1>2, <1>3, <1>4 DEF ControlInv

(* A store does not answer, and the write is counted lost. *)
LEMMA WriteControl ==
    ASSUME DurableInv, WriteFails
    PROVE  JobOnly /\ lost' = Append(lost, Head(job)) /\ DurableInv'
  <1>1. /\ JobOnly /\ lost' = Append(lost, Head(job)) /\ UNCHANGED <<resumed, pos, wallets>>
    BY DEF WriteFails, JobOnly, logVars
  <1>2. ControlInv'
    BY <1>1, JobOnlyControl DEF DurableInv
  <1>3. Head(job) \in Write
    BY <1>1, JobHead DEF DurableInv, ControlInv, JobOnly
  <1>4. lost' \in Seq(Write)
    BY <1>1, <1>3, AppendProperties DEF DurableInv
  <1>. QED  BY <1>1, <1>2, <1>4 DEF DurableInv

(* A call that no command refers to ends. *)
LEMMA OneCallCommands ==
    ASSUME CallsOK, CommandsOK, NEW id \in OrderID, call[id] # "waiting",
           NEW st, call' = [call EXCEPT ![id] = st], UNCHANGED <<order, in, serving>>
    PROVE  CommandsOK'
  <1>1. \A x \in OrderID : call[x] = "waiting" => call'[x] = "waiting"
    BY DEF CallsOK
  <1>2. \A i \in 1..Len(in) : in[i].id \in OrderID
    BY CommandIDs DEF CommandsOK
  <1>3. serving # None => serving.id \in OrderID
    BY CommandIDs DEF CommandsOK
  <1>. QED  BY <1>1, <1>2, <1>3 DEF CommandsOK

(* What ReserveUnanswered does: a reservation nobody knows of. *)
LEMMA ReserveMakes ==
    ASSUME DurableInv, NEW id \in OrderID, NEW c \in PlaceOrderCommand, ReserveUnanswered(id, c)
    PROVE  LET v == c.userID
               n == Reserve(wallets[v], c)
           IN  /\ c \in Request /\ v \in UserID /\ wallets[v] # None /\ wallets[v] \in NatWallet
               /\ n \in NatWallet /\ UpdateWallet(v, n)
               /\ TotalCOP(n) = TotalCOP(wallets[v]) /\ TotalVibranium(n) = TotalVibranium(wallets[v])
               /\ \A a \in Asset : Locked(n, a) = Locked(wallets[v], a) + Reserved(c, a)
               /\ \A a \in Asset : Reserved(c, a) \in Nat
  <1>1. /\ Valid(c) /\ wallets[c.userID] # None /\ CanReserve(wallets[c.userID], c)
        /\ UpdateWallet(c.userID, Reserve(wallets[c.userID], c))
    BY DEF ReserveUnanswered
  <1>2. c \in Request
    BY <1>1, CommandAssumption DEF Valid
  <1>3. c.userID \in UserID /\ \A a \in Asset : Reserved(c, a) \in Nat
    BY <1>2, ReservedFacts
  <1>4. wallets[c.userID] \in NatWallet
    BY <1>1, <1>3 DEF DurableInv, ControlInv, StoresOK
  <1>. QED  BY <1>1, <1>2, <1>3, <1>4, ReserveFacts

(* A reservation that may have been made, of an order nobody will hear of. *)
LEMMA ReserveControl ==
    ASSUME DurableInv, NEW id \in OrderID, NEW c \in PlaceOrderCommand, ReserveUnanswered(id, c)
    PROVE  DurableInv'
  <1>0. ControlInv /\ CallsOK /\ CommandsOK /\ LogOK /\ StoresOK
    BY DEF DurableInv, ControlInv
  <1>1. /\ call[id] = "idle" /\ request' = [request EXCEPT ![id] = c]
        /\ call' = [call EXCEPT ![id] = "rejected"]
        /\ UNCHANGED <<bookVars, order, taker, res, cancelCall, in, serving, engineVars, log, pos,
                       outbox, journal, job, projection, trades, resumed, lost>>
    BY DEF ReserveUnanswered, bookVars, engineVars, logVars, settlementVars
  <1>. DEFINE v == c.userID
              n == Reserve(wallets[v], c)
  <1>2. v \in UserID /\ wallets[v] # None /\ n \in NatWallet /\ UpdateWallet(v, n)
    BY ReserveMakes
  <1>. HIDE DEF v, n
  <1>3. CallsOK'
    <2>1. request' \in [OrderID -> PlaceOrderCommand \cup {None}]
      BY <1>0, <1>1 DEF CallsOK
    <2>2. \A x \in OrderID : x # id => request'[x] = request[x]
      BY <1>0, <1>1 DEF CallsOK
    <2>3. order[id] = None
      BY <1>0, <1>1 DEF CallsOK
    <2>. QED  BY <1>0, <1>1, <2>1, <2>2, <2>3, OneCall
  <1>4. CommandsOK'
    BY <1>0, <1>1, OneCallCommands
  <1>5. BookInv' /\ PhasesOK' /\ JobOK'
    BY <1>0, <1>1, PartsStay
  <1>6. LogOK'
    BY <1>0, <1>1 DEF LogOK
  <1>7. StoresOK'
    BY <1>0, <1>1, <1>2, UpdateKeepsType DEF StoresOK
  <1>8. \A u \in UserID : wallets'[u] # None
    BY <1>0, <1>2, WalletUpdated, NoneIsNoWallet DEF DurableInv
  <1>. QED  BY <1>1, <1>3, <1>4, <1>5, <1>6, <1>7, <1>8 DEF DurableInv, ControlInv

(* A release that is not made: the funds stay locked. *)
LEMMA ReleaseControl ==
    ASSUME DurableInv, NEW id \in OrderID, ReleaseFails(id)
    PROVE  DurableInv'
  <1>0. ControlInv /\ CallsOK /\ CommandsOK /\ LogOK
    BY DEF DurableInv, ControlInv
  <1>1. /\ call[id] = "releasing"
        /\ call' = [call EXCEPT ![id] = "failed"]
        /\ UNCHANGED <<bookVars, order, taker, res, request, cancelCall, in, serving, engineVars, log,
                       pos, outbox, journal, job, wallets, projection, trades, resumed, lost>>
    BY DEF ReleaseFails, bookVars, engineVars, logVars, settlementVars
  <1>2. CallsOK'
    <2>1. request[id] \in Request /\ order[id] = None
      BY <1>0, <1>1 DEF CallsOK
    <2>2. request' \in [OrderID -> PlaceOrderCommand \cup {None}]
      BY <1>0, <1>1 DEF CallsOK
    <2>. QED  BY <1>0, <1>1, <2>1, <2>2, OneCall
  <1>3. CommandsOK'
    BY <1>0, <1>1, OneCallCommands
  <1>4. BookInv' /\ PhasesOK' /\ JobOK' /\ StoresOK'
    BY <1>0, <1>1, PartsStay
  <1>5. LogOK'
    BY <1>0, <1>1 DEF LogOK
  <1>. QED  BY <1>1, <1>2, <1>3, <1>4, <1>5 DEF DurableInv, ControlInv

(* No step of the exchange takes a wallet away or moves pos back. *)
LEMMA PlainControl ==
    ASSUME DurableInv, Plain
    PROVE  DurableInv'
  <1>1. ControlInv /\ [Next]_vars /\ UNCHANGED <<resumed, lost>>
    BY DEF DurableInv, Plain, durableVars
  <1>2. ControlInv'
    BY <1>1, ControlStep
  <1>3. \A u \in UserID : wallets'[u] # None
    <2>1. StoresOK /\ StoresOK' /\ CallsOK /\ JobOK
      BY <1>1, <1>2 DEF ControlInv
    <2>2. ASSUME NEW u \in UserID, NEW w \in NatWallet, wallets' = [wallets EXCEPT ![u] = w]
          PROVE  \A x \in UserID : wallets'[x] # None
      BY <2>1, <2>2, NoneIsNoWallet DEF DurableInv, StoresOK
    <2>3. ASSUME NEW id \in OrderID, NEW c \in PlaceOrderCommand, PlaceOrder(id, c)
          PROVE  \A x \in UserID : wallets'[x] # None
      <3>1. CASE UNCHANGED wallets
        BY <3>1 DEF DurableInv
      <3>2. CASE /\ Valid(c) /\ CanReserve(wallets[c.userID], c)
                 /\ UpdateWallet(c.userID, Reserve(wallets[c.userID], c))
        <4>1. c \in Request /\ c.userID \in UserID
          BY <3>2, CommandAssumption, ReservedFacts DEF Valid
        <4>2. wallets[c.userID] # None /\ wallets[c.userID] \in NatWallet
          BY <2>1, <4>1 DEF DurableInv, StoresOK
        <4>3. Reserve(wallets[c.userID], c) \in NatWallet
          BY <3>2, <4>1, <4>2, ReserveFacts
        <4>. QED  BY <2>2, <3>2, <4>1, <4>2, <4>3 DEF UpdateWallet
      <3>. QED  BY <2>3, <3>1, <3>2 DEF PlaceOrder
    <2>4. ASSUME NEW id \in OrderID, Release(id)
          PROVE  \A x \in UserID : wallets'[x] # None
      <3>1. request[id] \in Request /\ request[id].userID \in UserID
        BY <2>1, <2>4, CallRequest DEF Release
      <3>2. wallets[request[id].userID] # None /\ wallets[request[id].userID] \in NatWallet
        BY <2>1, <3>1 DEF DurableInv, StoresOK
      <3>3. Unreserve(wallets[request[id].userID], request[id]) \in NatWallet
        BY <3>1, <3>2, UnreserveFacts
      <3>. QED  BY <2>2, <2>4, <3>1, <3>2, <3>3 DEF Release, UpdateWallet
    <2>5. ASSUME SettlementWallet
          PROVE  \A x \in UserID : wallets'[x] # None
      <3>. DEFINE j == Head(job)
      <3>1. j \in WalletWrite /\ j.user \in UserID
        BY <2>1, <2>5, JobHead DEF SettlementWallet
      <3>2. wallets[j.user] # None /\ wallets[j.user] \in NatWallet
        BY <2>1, <3>1 DEF DurableInv, StoresOK
      <3>3. Apply(wallets[j.user], j) \in NatWallet
        BY <3>1, <3>2, ApplyMoves
      <3>. QED  BY <2>2, <2>5, <3>1, <3>2, <3>3 DEF SettlementWallet, UpdateWallet
    <2>6. \/ \E u \in UserID : wallets[u] = None /\ Seed(u)
          \/ \E id \in OrderID : \E c \in PlaceOrderCommand : PlaceOrder(id, c)
          \/ \E id \in OrderID : Release(id)
          \/ SettlementWallet
          \/ UNCHANGED wallets
      BY <1>1 DEF Next, ClientNext, EngineNext, SettlementNext, Idle, vars, Submit, AbandonSubmit,
             Return, CancelOrder, AbandonCancel, EnginePlace, EngineMatch, EngineFinish,
             EngineCancel, EngineCancelUnknown, EnginePublish, EngineReply, SettlementReceive,
             SettlementUpsert, SettlementAppend
    <2>. QED  BY <2>3, <2>4, <2>5, <2>6 DEF DurableInv
  <1>4. pos' = pos \/ pos' = pos + 1
    BY <1>1 DEF Next, ClientNext, EngineNext, SettlementNext, Idle, vars, logVars, Seed, PlaceOrder,
           Submit, AbandonSubmit, Return, Release, CancelOrder, AbandonCancel, EnginePlace,
           EngineMatch, EngineFinish, EngineCancel, EngineCancelUnknown, EnginePublish, EngineReply,
           SettlementReceive, SettlementWallet, SettlementUpsert, SettlementAppend
  <1>5. resumed' \in 0..pos'
    <2>1. pos \in Nat /\ resumed \in 0..pos
      BY LogFacts DEF DurableInv, ControlInv
    <2>. QED  BY <1>1, <1>4, <2>1
  <1>. QED  BY <1>1, <1>2, <1>3, <1>5 DEF DurableInv

(* DurableInv is inductive. *)
LEMMA DurableStep ==
    ASSUME DurableInv, [DurableNext]_allVars
    PROVE  DurableInv'
  <1>1. CASE Refused
    <2>1. JobOnly /\ UNCHANGED <<resumed, lost, pos, wallets>>
      BY <1>1 DEF Refused, JobOnly, durableVars, logVars
    <2>2. ControlInv'
      BY <2>1, JobOnlyControl DEF DurableInv
    <2>. QED  BY <2>1, <2>2 DEF DurableInv
  <1>2. CASE FaultNext
    BY <1>2, CrashControl, RewindControl, JournalControl, WriteControl, ReserveControl,
       ReleaseControl DEF FaultNext
  <1>. QED  BY <1>1, <1>2, PlainControl, DurableSteps

(* It holds of the first process. *)
LEMMA DurableStart ==
    ASSUME DurableInit
    PROVE  DurableInv
  <1>. USE DEF DurableInit, Started, Untouched
  <1>1. BookInv
    BY InitInv
  <1>2. CallsOK
    BY DEF CallsOK, OrderBookInit
  <1>3. CommandsOK
    BY BufferAssumption DEF CommandsOK
  <1>4. PhasesOK
    BY DEF PhasesOK, OrderBookInit
  <1>5. LogOK
    BY BufferAssumption DEF LogOK
  <1>6. JobOK
    BY DEF JobOK, Paired
  <1>7. \A u \in UserID : SeededWallet(Deposit[u].COP, Deposit[u].Vibranium) \in NatWallet
    BY DepositAssumption DEF SeededWallet, NatWallet
  <1>8. StoresOK /\ \A u \in UserID : wallets[u] # None
    BY <1>7, NoneIsNoWallet DEF StoresOK
  <1>. QED  BY <1>1, <1>2, <1>3, <1>4, <1>5, <1>6, <1>8 DEF ControlInv, DurableInv

(* Control flow and types hold through crashes, redeliveries and stores that
   fail, however many of them there are. *)
THEOREM DurableControl == DurableSpec => []DurableInv
  <1>1. DurableInit => DurableInv
    BY DurableStart
  <1>2. DurableInv /\ [DurableNext]_allVars => DurableInv'
    BY DurableStep
  <1>. QED  BY <1>1, <1>2, PTL DEF DurableSpec

(* No fault makes a balance negative. *)
THEOREM NeverOverdrawnByFaults == DurableSpec => []NoOverdraft
  <1>1. ASSUME DurableInv
        PROVE  NoOverdraft
    <2>1. ASSUME NEW u \in Wallets
          PROVE  /\ wallets[u].COPAvailable >= 0 /\ wallets[u].COPLocked >= 0
                 /\ wallets[u].VibraniumAvailable >= 0 /\ wallets[u].VibraniumLocked >= 0
      <3>1. wallets[u] \in NatWallet
        BY <1>1, <2>1 DEF Wallets, DurableInv, ControlInv, StoresOK
      <3>. QED  BY <3>1, WalletNumbers
    <2>. QED  BY <2>1 DEF NoOverdraft
  <1>. QED  BY <1>1, DurableControl, PTL

-----------------------------------------------------------------------------
(* Obligations stay covered *)

(* Locked funds that do not fall cover obligations that do not grow. *)
LEMMA StillCovered ==
    ASSUME ControlInv, ControlInv', Covered, NEW u \in UserID, NEW a \in Asset,
           LockedBy(u, a)' >= LockedBy(u, a),
           Total(Held(u, a))' <= Total(Held(u, a)),
           DebitOf(job, u, a)' <= DebitOf(job, u, a),
           DebitOfLog(u, a)' <= DebitOfLog(u, a),
           DebitOfEvents(outbox, u, a)' <= DebitOfEvents(outbox, u, a),
           DebitOfEvents(Placing, u, a)' <= DebitOfEvents(Placing, u, a)
    PROVE  LockedBy(u, a)' >= Owed(u, a)'
  <1>1. Owed(u, a) = Total(Held(u, a)) + (DebitOf(job, u, a) + DebitOfLog(u, a)
                       + DebitOfEvents(outbox, u, a) + DebitOfEvents(Placing, u, a))
    BY DEF Owed, Pending
  <1>2. Owed(u, a)' = Total(Held(u, a))' + (DebitOf(job, u, a)' + DebitOfLog(u, a)'
                        + DebitOfEvents(outbox, u, a)' + DebitOfEvents(Placing, u, a)')
    BY DEF Owed, Pending
  <1>3. /\ Total(Held(u, a)) \in Nat /\ DebitOf(job, u, a) \in Nat /\ DebitOfLog(u, a) \in Nat
        /\ DebitOfEvents(outbox, u, a) \in Nat /\ DebitOfEvents(Placing, u, a) \in Nat
        /\ LockedBy(u, a) \in Nat
    BY AmountsAreNat DEF Amounts
  <1>4. /\ Total(Held(u, a))' \in Nat /\ DebitOf(job, u, a)' \in Nat
        /\ DebitOfLog(u, a)' \in Nat /\ DebitOfEvents(outbox, u, a)' \in Nat
        /\ DebitOfEvents(Placing, u, a)' \in Nat /\ LockedBy(u, a)' \in Nat
    BY AfterStep DEF Amounts
  <1>. DEFINE h == Total(Held(u, a))
              d == DebitOf(job, u, a)
              l == DebitOfLog(u, a)
              o == DebitOfEvents(outbox, u, a)
              p == DebitOfEvents(Placing, u, a)
              k == LockedBy(u, a)
              w == Owed(u, a)
              h2 == Total(Held(u, a))'
              d2 == DebitOf(job, u, a)'
              l2 == DebitOfLog(u, a)'
              o2 == DebitOfEvents(outbox, u, a)'
              p2 == DebitOfEvents(Placing, u, a)'
              k2 == LockedBy(u, a)'
              w2 == Owed(u, a)'
  <1>5. k2 >= k /\ h2 <= h /\ d2 <= d /\ l2 <= l /\ o2 <= o /\ p2 <= p /\ k >= w
    BY DEF Covered
  <1>6. /\ w = h + (d + l + o + p) /\ w2 = h2 + (d2 + l2 + o2 + p2)
        /\ h \in Nat /\ d \in Nat /\ l \in Nat /\ o \in Nat /\ p \in Nat /\ k \in Nat
        /\ h2 \in Nat /\ d2 \in Nat /\ l2 \in Nat /\ o2 \in Nat /\ p2 \in Nat /\ k2 \in Nat
    BY <1>1, <1>2, <1>3, <1>4
  <1>. HIDE DEF h, d, l, o, p, k, w, h2, d2, l2, o2, p2, k2, w2
  <1>7. k2 >= w2
    BY <1>5, <1>6
  <1>. QED  BY <1>7 DEF k2, w2

(* The same where book, calls and engine stay as they are. *)
LEMMA AsideCovered ==
    ASSUME ControlInv, ControlInv', Covered, Aside, UNCHANGED wallets,
           NEW u \in UserID, NEW a \in Asset,
           DebitOf(job, u, a)' <= DebitOf(job, u, a),
           DebitOfLog(u, a)' <= DebitOfLog(u, a)
    PROVE  LockedBy(u, a)' >= Owed(u, a)'
  <1>1. UNCHANGED <<bookVars, call, request, outbox>>
    BY DEF Aside, clientVars, engineVars
  <1>2. LockedBy(u, a)' = LockedBy(u, a)
    BY DEF LockedBy
  <1>3. Total(Held(u, a))' = Total(Held(u, a))
    <2>1. \A id \in OrderID : HoldNow(id, u, a)' = HoldNow(id, u, a)
      BY <1>1 DEF HoldNow, Open, bookVars
    <2>. QED  BY <2>1, HeldSame
  <1>4. DebitOfEvents(outbox, u, a)' = DebitOfEvents(outbox, u, a)
    BY <1>1 DEF DebitOfEvents
  <1>5. DebitOfEvents(Placing, u, a)' = DebitOfEvents(Placing, u, a)
    <2>1. Placing' = Placing
      BY <1>1 DEF bookVars, Placing
    <2>. QED  BY <2>1 DEF DebitOfEvents
  <1>6. /\ LockedBy(u, a) \in Nat /\ Total(Held(u, a)) \in Nat
        /\ DebitOfEvents(outbox, u, a) \in Nat /\ DebitOfEvents(Placing, u, a) \in Nat
    BY AmountsAreNat DEF Amounts
  <1>7. /\ LockedBy(u, a)' >= LockedBy(u, a) /\ Total(Held(u, a))' <= Total(Held(u, a))
        /\ DebitOfEvents(outbox, u, a)' <= DebitOfEvents(outbox, u, a)
        /\ DebitOfEvents(Placing, u, a)' <= DebitOfEvents(Placing, u, a)
    BY <1>2, <1>3, <1>4, <1>5, <1>6
  <1>. QED  BY <1>7, StillCovered

(* A write that is not made takes nothing. *)
LEMMA JobOnlyCovered ==
    ASSUME ControlInv, ControlInv', Covered, JobOnly
    PROVE  Covered'
  <1>1. /\ job # <<>> /\ job' = Tail(job) /\ Aside /\ UNCHANGED <<wallets, log, journal>>
    BY DEF JobOnly, Aside, logVars
  <1>2. job \in Seq(Write) /\ Head(job) \in Write /\ Tail(job) \in Seq(Write)
    BY <1>1, JobHead DEF ControlInv, JobOK
  <1>3. ASSUME NEW u \in UserID, NEW a \in Asset
        PROVE  LockedBy(u, a)' >= Owed(u, a)'
    <2>1. DebitOf(job, u, a) = Debit(Head(job), u, a) + DebitOf(Tail(job), u, a)
      BY <1>1, <1>2, DebitOfHead
    <2>2. Debit(Head(job), u, a) \in Nat /\ DebitOf(Tail(job), u, a) \in Nat
      BY <1>2, DebitOfHead, DebitType
    <2>3. DebitOf(job, u, a)' = DebitOf(Tail(job), u, a)
      BY <1>1 DEF DebitOf
    <2>4. DebitOf(job, u, a)' <= DebitOf(job, u, a)
      BY <2>1, <2>2, <2>3
    <2>5. DebitOfLog(u, a)' <= DebitOfLog(u, a)
      <3>1. DebitOfLog(u, a)' = DebitOfLog(u, a)
        BY <1>1 DEF DebitOfLog
      <3>2. DebitOfLog(u, a) \in Nat
        BY AmountsAreNat DEF Amounts
      <3>. QED  BY <3>1, <3>2
    <2>. QED  BY <1>1, <2>4, <2>5, AsideCovered
  <1>. QED  BY <1>3 DEF Covered

(* Marking more events, and fewer events, leave less to take. *)
LEMMA UnmarkedFalls ==
    ASSUME NEW l \in Seq(Event), NEW m \in Seq(Event), NEW i, NEW j, i \subseteq j,
           Len(m) <= Len(l), \A x \in 1..Len(m) : m[x] = l[x], NEW u, NEW a
    PROVE  Total(Unmarked(m, j, u, a)) <= Total(Unmarked(l, i, u, a))
  <1>. DEFINE S == 1..Len(m)
              T == 1..Len(l)
              f == Unmarked(m, j, u, a)
              g == Unmarked(l, i, u, a)
  <1>1. /\ Len(l) \in Nat /\ Len(m) \in Nat /\ S \in SUBSET T
        /\ \A x \in S : m[x] = l[x] /\ m[x] \in Event
        /\ \A x \in T : l[x] \in Event
    OBVIOUS
  <1>2. Summable(f, S) /\ Summable(g, T)
    BY <1>1, EventWrites, PositionsFinite DEF Summable, Unmarked
  <1>3. \A x \in S : f[x] <= g[x]
    <2>. TAKE x \in S
    <2>. DEFINE d == DebitOf(Writes(l[x]), u, a)
    <2>1. d \in Nat
      BY <1>1, EventWrites
    <2>2. f[x] = (IF x \in j THEN 0 ELSE d) /\ g[x] = (IF x \in i THEN 0 ELSE d)
      BY <1>1 DEF Unmarked
    <2>. HIDE DEF d, f, g
    <2>. QED  BY <2>1, <2>2
  <1>. HIDE DEF S, T, f, g
  <1>4. Total(f) <= Total(g)
    BY <1>1, <1>2, <1>3, TotalMonotone
  <1>. QED  BY <1>4 DEF f, g

(* What the log still has to take falls with it. *)
LEMMA LogFalls ==
    ASSUME ControlInv, ControlInv', journal \subseteq journal',
           Len(log') <= Len(log), \A i \in 1..Len(log') : log'[i] = log[i],
           NEW u \in UserID, NEW a \in Asset
    PROVE  DebitOfLog(u, a)' <= DebitOfLog(u, a)
  <1>1. log \in Seq(Event) /\ log' \in Seq(Event)
    BY DEF ControlInv, LogOK
  <1>2. Total(Unmarked(log', journal', u, a)) <= Total(Unmarked(log, journal, u, a))
    BY <1>1, UnmarkedFalls
  <1>3. DebitOfLog(u, a) = Total(Unmarked(log, journal, u, a))
    BY AmountsAreNat DEF Amounts
  <1>4. DebitOfLog(u, a)' = Total(Unmarked(log', journal', u, a))
    BY AfterStep DEF Amounts
  <1>. QED  BY <1>2, <1>3, <1>4

(* An empty book and empty channels owe nothing but what the log holds. *)
LEMMA CrashCovered ==
    ASSUME DurableInv, DurableInv', Covered, Crash
    PROVE  Covered'
  <1>0. ControlInv /\ ControlInv' /\ LogOK
    BY DEF DurableInv, ControlInv
  <1>1. /\ \A id \in OrderID : order'[id] = None
        /\ orders' = {} /\ taker' = None /\ outbox' = <<>> /\ job' = <<>>
        /\ UNCHANGED <<journal, wallets>>
        /\ call' = [id \in OrderID |-> IF call[id] \in {"submit", "waiting", "replied", "releasing"}
                                       THEN "cut" ELSE call[id]]
    BY DEF Crash, Restart, PostgresKeeps
  <1>2. PICK kept \in Nat : Truncated(kept)
    BY <1>0, CrashTruncates
  <1>3. ASSUME NEW u \in UserID, NEW a \in Asset
        PROVE  LockedBy(u, a)' >= Owed(u, a)'
    <2>1. /\ LockedBy(u, a) \in Nat /\ Total(Held(u, a)) \in Nat /\ DebitOf(job, u, a) \in Nat
          /\ DebitOfEvents(outbox, u, a) \in Nat /\ DebitOfEvents(Placing, u, a) \in Nat
      BY <1>0, AmountsAreNat DEF Amounts
    <2>2. LockedBy(u, a)' >= LockedBy(u, a)
      <3>1. LockedBy(u, a)' = LockedBy(u, a)
        BY <1>1 DEF LockedBy
      <3>. QED  BY <2>1, <3>1
    <2>3. Total(Held(u, a))' <= Total(Held(u, a))
      <3>. DEFINE g == Held(u, a)'
      <3>1. Summable(g, OrderID) /\ \A x \in OrderID : g[x] = HoldNow(x, u, a)'
        BY <1>0, AfterStep DEF Amounts, HeldIsHold, HoldNow
      <3>2. \A x \in OrderID : ~Open(x)'
        BY <1>1, NoneAssumption DEF Open
      <3>3. \A x \in OrderID : call'[x] \notin {"submit", "waiting", "releasing"}
        BY <1>1
      <3>4. \A x \in OrderID : HoldNow(x, u, a)' = 0
        BY <3>2, <3>3 DEF HoldNow, Hold
      <3>. HIDE DEF g
      <3>5. Total(g) = 0
        BY <3>1, <3>4, TotalZero
      <3>. QED  BY <2>1, <3>5 DEF g
    <2>4. DebitOf(job, u, a)' <= DebitOf(job, u, a)
      <3>1. DebitOf(<<>>, u, a) = 0
        BY DebitOfNone
      <3>2. DebitOf(job, u, a)' = DebitOf(<<>>, u, a)
        BY <1>1 DEF DebitOf
      <3>. QED  BY <2>1, <3>1, <3>2
    <2>5. DebitOfEvents(<<>>, u, a) = 0
      <3>1. <<>> \in Seq(Event)
        OBVIOUS
      <3>. QED  BY <3>1, EventsDebit
    <2>6. DebitOfEvents(outbox, u, a)' <= DebitOfEvents(outbox, u, a)
      <3>1. DebitOfEvents(outbox, u, a)' = DebitOfEvents(<<>>, u, a)
        BY <1>1 DEF DebitOfEvents
      <3>. QED  BY <2>1, <2>5, <3>1
    <2>7. DebitOfEvents(Placing, u, a)' <= DebitOfEvents(Placing, u, a)
      <3>1. Placing' = <<>>
        BY <1>1 DEF Placing
      <3>2. DebitOfEvents(Placing, u, a)' = DebitOfEvents(<<>>, u, a)
        BY <3>1 DEF DebitOfEvents
      <3>. QED  BY <2>1, <2>5, <3>2
    <2>8. DebitOfLog(u, a)' <= DebitOfLog(u, a)
      BY <1>0, <1>1, <1>2, LogFalls DEF Truncated
    <2>. QED  BY <1>0, <2>2, <2>3, <2>4, <2>6, <2>7, <2>8, StillCovered
  <1>. QED  BY <1>3 DEF Covered

(* An event that comes again, or is skipped, takes nothing more. *)
LEMMA DeliveryCovered ==
    ASSUME DurableInv, DurableInv', Covered, Rewind \/ JournalFails
    PROVE  Covered'
  <1>0. ControlInv /\ ControlInv' /\ LogOK /\ log \in Seq(Event)
    BY DEF DurableInv, ControlInv, LogOK
  <1>1. /\ Aside /\ UNCHANGED <<log, job, wallets>>
        /\ journal \subseteq journal'
    BY DEF Rewind, JournalFails, Aside, settlementVars, MarkProcessed
  <1>2. ASSUME NEW u \in UserID, NEW a \in Asset
        PROVE  LockedBy(u, a)' >= Owed(u, a)'
    <2>1. DebitOf(job, u, a)' <= DebitOf(job, u, a)
      <3>1. DebitOf(job, u, a)' = DebitOf(job, u, a)
        BY <1>1 DEF DebitOf
      <3>2. DebitOf(job, u, a) \in Nat
        BY <1>0, AmountsAreNat DEF Amounts
      <3>. QED  BY <3>1, <3>2
    <2>2. DebitOfLog(u, a)' <= DebitOfLog(u, a)
      <3>1. Len(log') <= Len(log) /\ \A i \in 1..Len(log') : log'[i] = log[i]
        BY <1>0, <1>1
      <3>. QED  BY <1>0, <1>1, <3>1, LogFalls
    <2>. QED  BY <1>0, <1>1, <2>1, <2>2, AsideCovered
  <1>. QED  BY <1>2 DEF Covered

(* A call that ends with its reservation still made strands the funds. *)
LEMMA CallEndsCovered ==
    ASSUME ControlInv, ControlInv', Covered,
           UNCHANGED <<bookVars, job, log, journal, outbox>>,
           NEW id \in OrderID, \A x \in OrderID : x # id => request'[x] = request[x],
           NEW st, call' = [call EXCEPT ![id] = st],
           st \in {"rejected", "failed"}, order[id] = None,
           \A u \in UserID, a \in Asset : LockedBy(u, a)' >= LockedBy(u, a)
    PROVE  Covered'
  <1>1. ASSUME NEW u \in UserID, NEW a \in Asset
        PROVE  LockedBy(u, a)' >= Owed(u, a)'
    <2>1. /\ DebitOf(job, u, a)' = DebitOf(job, u, a)
          /\ DebitOfLog(u, a)' = DebitOfLog(u, a)
          /\ DebitOfEvents(outbox, u, a)' = DebitOfEvents(outbox, u, a)
      BY DEF DebitOf, DebitOfLog, DebitOfEvents
    <2>2. DebitOfEvents(Placing, u, a)' = DebitOfEvents(Placing, u, a)
      <3>1. Placing' = Placing
        BY DEF bookVars, Placing
      <3>. QED  BY <3>1 DEF DebitOfEvents
    <2>3. /\ DebitOf(job, u, a) \in Nat /\ DebitOfLog(u, a) \in Nat /\ Total(Held(u, a)) \in Nat
          /\ DebitOfEvents(outbox, u, a) \in Nat /\ DebitOfEvents(Placing, u, a) \in Nat
      BY AmountsAreNat DEF Amounts
    <2>4. Total(Held(u, a))' <= Total(Held(u, a))
      <3>1. CallsOK /\ UNCHANGED <<order, orders, taker>>
        BY DEF ControlInv, bookVars
      <3>2. \A x \in OrderID : x # id => HoldNow(x, u, a)' = HoldNow(x, u, a)
        BY <3>1 DEF HoldNow, Open, CallsOK
      <3>3. call'[id] = st
        BY <3>1 DEF CallsOK
      <3>4. HoldNow(id, u, a)' = 0
        <4>1. ~Open(id)
          BY OpenOrdersAreOrders DEF OpenIsOrder
        <4>2. ~Open(id)'
          BY <3>1, <4>1 DEF Open
        <4>. QED  BY <3>3, <4>2 DEF HoldNow, Hold
      <3>5. /\ Total(Held(u, a))' = Total(Held(u, a)) - HoldNow(id, u, a) + HoldNow(id, u, a)'
            /\ HoldNow(id, u, a) \in Nat /\ HoldNow(id, u, a) <= Total(Held(u, a))
        BY <3>2, HeldOne
      <3>. QED  BY <2>3, <3>4, <3>5
    <2>5. /\ DebitOf(job, u, a)' <= DebitOf(job, u, a)
          /\ DebitOfLog(u, a)' <= DebitOfLog(u, a)
          /\ DebitOfEvents(outbox, u, a)' <= DebitOfEvents(outbox, u, a)
          /\ DebitOfEvents(Placing, u, a)' <= DebitOfEvents(Placing, u, a)
      BY <2>1, <2>2, <2>3
    <2>. QED  BY <2>4, <2>5, StillCovered
  <1>. QED  BY <1>1 DEF Covered

(* Funds locked for an order that is rejected cover nothing and take nothing. *)
LEMMA ReserveCovered ==
    ASSUME DurableInv, DurableInv', Covered,
           NEW id \in OrderID, NEW c \in PlaceOrderCommand, ReserveUnanswered(id, c)
    PROVE  Covered'
  <1>0. ControlInv /\ ControlInv' /\ CallsOK /\ StoresOK
    BY DEF DurableInv, ControlInv
  <1>1. /\ call[id] = "idle" /\ request' = [request EXCEPT ![id] = c]
        /\ call' = [call EXCEPT ![id] = "rejected"]
        /\ UNCHANGED <<bookVars, job, log, journal, outbox>>
    BY DEF ReserveUnanswered, engineVars, logVars, settlementVars
  <1>2. order[id] = None /\ \A x \in OrderID : x # id => request'[x] = request[x]
    BY <1>0, <1>1 DEF CallsOK
  <1>3. \A u \in UserID, a \in Asset : LockedBy(u, a)' >= LockedBy(u, a)
    <2>. DEFINE v == c.userID
                n == Reserve(wallets[v], c)
    <2>1. /\ v \in UserID /\ wallets[v] # None /\ wallets[v] \in NatWallet
          /\ n \in NatWallet /\ UpdateWallet(v, n)
          /\ \A a \in Asset : Locked(n, a) = Locked(wallets[v], a) + Reserved(c, a)
          /\ \A a \in Asset : Reserved(c, a) \in Nat
      BY ReserveMakes
    <2>. HIDE DEF v, n
    <2>2. \A u \in UserID, a \in Asset :
                LockedBy(u, a)' = IF u = v THEN Locked(n, a) ELSE LockedBy(u, a)
      BY <1>0, <2>1, WalletUpdated
    <2>. TAKE u \in UserID, a \in Asset
    <2>3. LockedBy(u, a) \in Nat /\ LockedBy(v, a) \in Nat
      BY <1>0, <2>1, AmountsAreNat DEF Amounts
    <2>4. LockedBy(v, a) = Locked(wallets[v], a)
      BY <2>1 DEF LockedBy
    <2>. QED  BY <2>1, <2>2, <2>3, <2>4
  <1>. QED  BY <1>0, <1>1, <1>2, <1>3, CallEndsCovered

(* Funds that are not released still cover what is owed. *)
LEMMA ReleaseFailsCovered ==
    ASSUME DurableInv, DurableInv', Covered, NEW id \in OrderID, ReleaseFails(id)
    PROVE  Covered'
  <1>0. ControlInv /\ ControlInv' /\ CallsOK
    BY DEF DurableInv, ControlInv
  <1>1. /\ call[id] = "releasing" /\ call' = [call EXCEPT ![id] = "failed"]
        /\ UNCHANGED <<request, wallets, bookVars, job, log, journal, outbox>>
    BY DEF ReleaseFails, engineVars, logVars, settlementVars
  <1>2. order[id] = None
    BY <1>0, <1>1 DEF CallsOK
  <1>3. \A u \in UserID, a \in Asset : LockedBy(u, a)' >= LockedBy(u, a)
    <2>. TAKE u \in UserID, a \in Asset
    <2>1. LockedBy(u, a) \in Nat
      BY <1>0, AmountsAreNat DEF Amounts
    <2>2. LockedBy(u, a)' = LockedBy(u, a)
      BY <1>1 DEF LockedBy
    <2>. QED  BY <2>1, <2>2
  <1>. QED  BY <1>0, <1>1, <1>2, <1>3, CallEndsCovered

(* No step, and no fault, uncovers an obligation. *)
LEMMA CoveredStep ==
    ASSUME DurableInv, DurableInv', Covered, [DurableNext]_allVars
    PROVE  Covered'
  <1>0. ControlInv /\ ControlInv'
    BY DEF DurableInv
  <1>1. CASE Plain
    <2>1. SurplusKept
      BY <1>0, <1>1, SurplusStep DEF Plain
    <2>. QED  BY <1>0, <2>1, SurplusFacts DEF Covered
  <1>2. CASE Refused
    BY <1>0, <1>2, JobOnlyCovered DEF Refused
  <1>3. CASE WriteFails
    BY <1>0, <1>3, WriteControl, JobOnlyCovered
  <1>. QED  BY <1>1, <1>2, <1>3, DurableSteps, CrashCovered, DeliveryCovered, ReserveCovered,
               ReleaseFailsCovered DEF FaultNext

(* The seeded wallets have nothing locked and back nothing. *)
LEMMA CoveredStart ==
    ASSUME DurableInit
    PROVE  Covered
  <1>0. DurableInv /\ ControlInv
    BY DurableStart DEF DurableInv
  <1>1. /\ call = [id \in OrderID |-> "idle"] /\ orders = {} /\ taker = None
        /\ job = <<>> /\ log = <<>> /\ outbox = <<>>
    BY DEF DurableInit, Started, Untouched, OrderBookInit
  <1>2. ASSUME NEW u \in UserID, NEW a \in Asset
        PROVE  LockedBy(u, a) >= Owed(u, a)
    <2>1. LockedBy(u, a) \in Nat /\ Summable(Held(u, a), OrderID)
      BY <1>0, AmountsAreNat DEF Amounts
    <2>2. Total(Held(u, a)) = 0
      <3>1. \A x \in OrderID : Held(u, a)[x] = 0
        BY <1>0, <1>1, HeldById, NoneAssumption DEF HeldIsHold, Hold, Open
      <3>. QED  BY <2>1, <3>1, TotalZero
    <2>3. DebitOf(job, u, a) = 0
      BY <1>1, DebitOfNone
    <2>4. DebitOfLog(u, a) = 0
      <3>. DEFINE f == Unmarked(log, journal, u, a)
      <3>1. Summable(f, 1..0) /\ \A i \in 1..0 : f[i] = 0
        BY <1>1, PositionsFinite DEF Summable, Unmarked
      <3>. HIDE DEF f
      <3>2. Total(f) = 0
        BY <3>1, TotalZero
      <3>. QED  BY <1>0, <3>2, AmountsAreNat DEF Amounts, f
    <2>5. DebitOfEvents(outbox, u, a) = 0 /\ DebitOfEvents(Placing, u, a) = 0
      <3>1. Placing = <<>> /\ outbox = <<>> /\ <<>> \in Seq(Event)
        BY <1>1 DEF Placing
      <3>2. DebitOfEvents(<<>>, u, a) = 0
        BY <3>1, EventsDebit
      <3>. QED  BY <3>1, <3>2
    <2>6. Owed(u, a) = 0
      BY <2>2, <2>3, <2>4, <2>5 DEF Owed, Pending
    <2>. QED  BY <2>1, <2>6
  <1>. QED  BY <1>2 DEF Covered

(* Locked funds cover what they have to back, through every fault. *)
THEOREM CoveredInvariant == DurableSpec => []Covered
  <1>1. DurableInit => Covered
    BY CoveredStart
  <1>2. DurableInv /\ DurableInv' /\ Covered /\ [DurableNext]_allVars => Covered'
    BY CoveredStep
  <1>. QED  BY <1>1, <1>2, DurableControl, PTL DEF DurableSpec

(* Faults may strand locked funds and never uncover an order. *)
THEOREM FaultsUncoverNothing == DurableSpec => []ObligationsCovered
  <1>1. DurableInv /\ Covered => ObligationsCovered
    BY DEF DurableInv, Covered, ObligationsCovered, LockedBy
  <1>. QED  BY <1>1, DurableControl, CoveredInvariant, PTL

(* Whatever has failed before, no wallet write of settlement and no
   compensating release is refused for lack of funds. *)
THEOREM FaultsRefuseNoWrite == DurableSpec => []SettlementCollateralised
  <1>1. ASSUME DurableInv, Covered
        PROVE  SettlementCollateralised
    <2>1. ControlInv
      BY <1>1 DEF DurableInv
    <2>2. (job # <<>> /\ Head(job).write \in WalletWrites) =>
             wallets[Head(job).user] # None /\ CanApply(wallets[Head(job).user], Head(job))
      BY <1>1, <2>1, WriteCovered
    <2>3. \A id \in OrderID : call[id] = "releasing" =>
             CanUnreserve(wallets[request[id].userID], request[id])
      BY <1>1, <2>1, ReleaseCovered
    <2>. QED  BY <2>2, <2>3 DEF SettlementCollateralised
  <1>. QED  BY <1>1, DurableControl, CoveredInvariant, PTL

-----------------------------------------------------------------------------
(* Lost legs *)

(* Where the writes of one kind are in a sequence of writes, what they move of
   one asset, and what that adds up to. *)
Places(q, w) == {i \in 1..Len(q) : q[i].write = w}
Moved(q, w, a) == [i \in Places(q, w) |-> Amount(q[i], a)]
Leg(q, w, a) == Total(Moved(q, w, a))

LegWrites == {"SettleBuy", "SettleSell"}

(* A leg moves a natural number of each asset. *)
LEMMA LegAmounts ==
    ASSUME NEW j \in Write, j.write \in LegWrites, NEW a
    PROVE  Amount(j, a) \in Nat
  BY DEF LegWrites, Write, WalletWrite, Amount, Positive

(* A leg is an amount. *)
LEMMA LegType ==
    ASSUME NEW q \in Seq(Write), NEW w \in LegWrites, NEW a
    PROVE  /\ Summable(Moved(q, w, a), Places(q, w))
           /\ Leg(q, w, a) \in Nat
  <1>. DEFINE f == Moved(q, w, a)
              S == Places(q, w)
  <1>1. IsFiniteSet(S)
    <2>1. S \in SUBSET (1..Len(q)) /\ Len(q) \in Nat
      BY DEF Places
    <2>. HIDE DEF S
    <2>. QED  BY <2>1, PositionsFinite, FS_Subset
  <1>2. f \in [S -> Nat]
    <2>1. \A i \in S : q[i] \in Write /\ q[i].write \in LegWrites
      BY DEF Places
    <2>. QED  BY <2>1, LegAmounts DEF Moved
  <1>3. Summable(f, S)
    BY <1>1, <1>2 DEF Summable
  <1>4. Total(f) \in Nat
    <2>. HIDE DEF f, S
    <2>. QED  BY <1>3, TotalType
  <1>. QED  BY <1>3, <1>4 DEF Leg

(* Shifted places are as many and move as much. *)
LEMMA LegConcat ==
    ASSUME NEW q \in Seq(Write), NEW r \in Seq(Write), NEW w \in LegWrites, NEW a
    PROVE  /\ Leg(q \o r, w, a) = Leg(q, w, a) + Leg(r, w, a)
           /\ Leg(q, w, a) \in Nat /\ Leg(r, w, a) \in Nat
  <1>. DEFINE c == q \o r
              n == Len(q)
              S == Places(q, w)
              R == Places(r, w)
              T == {i + n : i \in R}
              f == Moved(q, w, a)
              k == Moved(r, w, a)
              h == Moved(c, w, a)
              g == [i \in T |-> Amount(c[i], a)]
              b == [i \in R |-> i + n]
  <1>1. /\ c \in Seq(Write) /\ Len(c) = n + Len(r) /\ n \in Nat /\ Len(r) \in Nat
        /\ \A i \in 1..n : c[i] = q[i] /\ i \in 1..Len(c)
        /\ \A i \in 1..Len(r) : c[i + n] = r[i] /\ i + n \in 1..Len(c) /\ i + n \notin 1..n
        /\ \A i \in 1..Len(c) : i \in 1..n \/ i - n \in 1..Len(r)
    BY ConcatProperties
  <1>. HIDE DEF c, n
  <1>2. Summable(f, S) /\ Summable(k, R) /\ Summable(h, Places(c, w))
    BY <1>1, LegType
  <1>3. S \subseteq 1..n /\ R \subseteq 1..Len(r)
    BY DEF Places, n
  <1>4. Places(c, w) = S \cup T
    <2>1. ASSUME NEW i \in Places(c, w), i \notin 1..n PROVE i \in T
      <3>1. i \in 1..Len(c) /\ c[i].write = w /\ i - n \in 1..Len(r) /\ i = (i - n) + n
        BY <1>1, <2>1 DEF Places
      <3>2. c[(i - n) + n] = r[i - n]
        BY <1>1, <3>1
      <3>3. i - n \in R
        BY <3>1, <3>2 DEF Places
      <3>. QED  BY <3>1, <3>3
    <2>2. \A i \in Places(c, w) : i \in 1..n => i \in S
      BY <1>1 DEF Places, n
    <2>3. \A i \in S : i \in Places(c, w)
      BY <1>1 DEF Places, n
    <2>4. \A i \in R : i + n \in Places(c, w)
      BY <1>1 DEF Places
    <2>. QED  BY <2>1, <2>2, <2>3, <2>4
  <1>5. S \cap T = {}
    BY <1>1, <1>3
  <1>6. Agree(f, h, S) /\ Agree(g, h, T)
    BY <1>1, <1>3, <1>4 DEF Agree, Moved
  <1>7. Summable(g, T)
    <2>1. T \in SUBSET Places(c, w)
      BY <1>4
    <2>2. IsFiniteSet(T)
      <3>. HIDE DEF T
      <3>. QED  BY <1>2, <2>1, FS_Subset DEF Summable
    <2>3. \A i \in T : g[i] = h[i] /\ h[i] \in Nat
      BY <1>2, <1>6, <2>1 DEF Agree, Summable
    <2>. QED  BY <2>2, <2>3 DEF Summable
  <1>8. Renames(b, k, R, g, T)
    <2>1. b \in [R -> T] /\ (\A i, j \in R : b[i] = b[j] => i = j) /\ \A t \in T : \E i \in R : b[i] = t
      BY <1>1, <1>3
    <2>2. \A i \in R : k[i] = g[b[i]]
      BY <1>1, <1>3 DEF Moved
    <2>. HIDE DEF b, R, T, k, g
    <2>3. b \in Injection(R, T)
      BY <2>1, Fun_IsInj
    <2>4. b \in Surjection(R, T)
      BY <2>1, Fun_IsSurj
    <2>. QED  BY <2>2, <2>3, <2>4 DEF Bijection, Renames
  <1>. HIDE DEF S, T, R, f, g, h, k, b
  <1>9. Total(k) = Total(g)
    BY <1>2, <1>7, <1>8, TotalReindex
  <1>10. Total(h) = Total(f) + Total(g) /\ Total(f) \in Nat /\ Total(g) \in Nat
    BY <1>2, <1>4, <1>5, <1>6, <1>7, TotalSplit
  <1>. QED  BY <1>9, <1>10 DEF Leg, c, f, h, k

(* No writes. *)
LEMMA LegNone ==
    ASSUME NEW w \in LegWrites, NEW a
    PROVE  Leg(<<>>, w, a) = 0
  <1>. DEFINE q == <<>>
              m == Moved(q, w, a)
  <1>1. q \in Seq(Write) /\ Len(q) = 0
    OBVIOUS
  <1>. HIDE DEF q
  <1>2. Summable(m, Places(q, w))
    BY <1>1, LegType
  <1>3. Places(q, w) = {}
    BY <1>1 DEF Places
  <1>. HIDE DEF m
  <1>4. Total(m) = 0
    BY <1>2, <1>3, TotalZero
  <1>. QED  BY <1>4 DEF Leg, m, q

(* A single write. *)
LEMMA LegOne ==
    ASSUME NEW j \in Write, NEW w \in LegWrites, NEW a
    PROVE  Leg(<<j>>, w, a) = IF j.write = w THEN Amount(j, a) ELSE 0
  <1>. DEFINE q == <<j>>
              g == Moved(q, w, a)
  <1>1. q \in Seq(Write) /\ Len(q) = 1 /\ q[1] = j
    OBVIOUS
  <1>. HIDE DEF q
  <1>2. Summable(g, Places(q, w))
    BY <1>1, LegType
  <1>3. CASE j.write # w
    <2>1. Places(q, w) = {}
      BY <1>1, <1>3 DEF Places
    <2>2. Total(g) = 0
      <3>. HIDE DEF g
      <3>. QED  BY <1>2, <2>1, TotalZero
    <2>. QED  BY <1>3, <2>2 DEF Leg, q
  <1>4. CASE j.write = w
    <2>. DEFINE f == [i \in {} |-> 0]
    <2>1. Places(q, w) = {} \cup {1} /\ g[1] = Amount(j, a)
      BY <1>1, <1>4 DEF Places, Moved
    <2>2. Summable(f, {}) /\ Agree(f, g, {})
      BY FS_EmptySet DEF Summable, Agree
    <2>. HIDE DEF f, g
    <2>3. Total(f) = 0
      BY <2>2, TotalZero
    <2>4. Total(g) = g[1] + Total(f)
      BY <1>2, <2>1, <2>2, TotalAdd
    <2>5. Amount(j, a) \in Nat
      BY <1>4, LegAmounts
    <2>. QED  BY <1>4, <2>1, <2>3, <2>4, <2>5 DEF Leg, g, q
  <1>. QED  BY <1>3, <1>4

HalfOf(q, a) == IF a = "COP" THEN HalfCOP(q) ELSE HalfVibranium(q)

(* In the writes of an event every buyer's leg is followed by the seller's of
   the same amounts: they differ by the leg that comes first without one. *)
LEMMA LegPaired ==
    ASSUME NEW q \in Seq(Write), Paired(q), NEW a \in Asset
    PROVE  /\ Leg(q, "SettleSell", a) = Leg(q, "SettleBuy", a) + HalfOf(q, a)
           /\ HalfOf(q, a) \in Nat
  <1>. DEFINE B == Places(q, "SettleBuy")
              S == Places(q, "SettleSell")
              R == S \ {1}
              f == Moved(q, "SettleBuy", a)
              g == Moved(q, "SettleSell", a)
              r == [i \in R |-> g[i]]
              b == [i \in B |-> i + 1]
  <1>1. "SettleBuy" \in LegWrites /\ "SettleSell" \in LegWrites /\ Len(q) \in Nat
    BY DEF LegWrites
  <1>2. Summable(f, B) /\ Summable(g, S) /\ Total(f) \in Nat /\ Total(g) \in Nat
    BY <1>1, LegType DEF Leg
  <1>3. Summable(r, R) /\ Agree(r, g, R)
    BY <1>2, Rest
  <1>4. /\ \A i \in B : i \in 1..Len(q) /\ i + 1 \in R /\ Amount(q[i + 1], a) = Amount(q[i], a)
        /\ \A i \in R : i - 1 \in B /\ (i - 1) + 1 = i
    <2>1. ASSUME NEW i \in B PROVE i + 1 \in R /\ Amount(q[i + 1], a) = Amount(q[i], a)
      <3>1. /\ i \in 1..Len(q) /\ i + 1 \in 1..Len(q) /\ q[i + 1].write = "SettleSell"
            /\ q[i + 1].COP = q[i].COP /\ q[i + 1].Vibranium = q[i].Vibranium
        BY <2>1 DEF Places, Paired
      <3>. QED  BY <3>1 DEF Places, Amount
    <2>2. ASSUME NEW i \in R PROVE i - 1 \in B /\ (i - 1) + 1 = i
      <3>1. i \in 1..Len(q) /\ i # 1 /\ q[i].write = "SettleSell"
        BY <2>2 DEF Places
      <3>2. q[i - 1].write = "SettleBuy"
        BY <3>1 DEF Paired
      <3>3. i - 1 \in 1..Len(q) /\ (i - 1) + 1 = i
        BY <1>1, <3>1
      <3>. QED  BY <3>2, <3>3 DEF Places
    <2>. QED  BY <2>1, <2>2 DEF Places
  <1>5. Renames(b, f, B, r, R)
    <2>1. b \in [B -> R] /\ (\A i, k \in B : b[i] = b[k] => i = k) /\ \A t \in R : \E i \in B : b[i] = t
      BY <1>1, <1>4
    <2>2. \A i \in B : f[i] = r[b[i]]
      BY <1>4 DEF Moved
    <2>. HIDE DEF b, B, R, f, r
    <2>3. b \in Injection(B, R)
      BY <2>1, Fun_IsInj
    <2>4. b \in Surjection(B, R)
      BY <2>1, Fun_IsSurj
    <2>. QED  BY <2>2, <2>3, <2>4 DEF Bijection, Renames
  <1>6. Total(f) = Total(r)
    <2>. HIDE DEF b, B, R, f, r
    <2>. QED  BY <1>2, <1>3, <1>5, TotalReindex
  <1>7. CASE 1 \in S
    <2>1. q # <<>> /\ q[1].write = "SettleSell" /\ g[1] = Amount(q[1], a)
      BY <1>7 DEF Places, Moved
    <2>2. HalfOf(q, a) = g[1]
      BY <2>1 DEF HalfOf, HalfCOP, HalfVibranium, Amount, Asset
    <2>3. g[1] \in Nat
      BY <1>2, <1>7 DEF Summable
    <2>. HIDE DEF S, R, f, g, r
    <2>4. Total(g) = g[1] + Total(r)
      BY <1>2, <1>3, <1>7, TotalRemove DEF R
    <2>. QED  BY <1>2, <1>6, <2>2, <2>3, <2>4 DEF Leg, f, g
  <1>8. CASE 1 \notin S
    <2>1. q = <<>> \/ q[1].write # "SettleSell"
      BY <1>1, <1>8 DEF Places
    <2>2. HalfOf(q, a) = 0
      BY <2>1 DEF HalfOf, HalfCOP, HalfVibranium
    <2>3. R = S
      BY <1>8
    <2>. HIDE DEF S, R, f, g, r
    <2>4. Total(r) = Total(g)
      BY <1>2, <1>3, <2>3, TotalSame
    <2>. QED  BY <1>2, <1>6, <2>2, <2>4 DEF Leg, f, g
  <1>. QED  BY <1>7, <1>8

(* What writes that are not made leave too much of in the wallets, or too
   little: COP that buyers keep and sellers do not get, Vibranium the other
   way round. *)
ExcessCOP(q) == Leg(q, "SettleBuy", "COP") - Leg(q, "SettleSell", "COP")
ExcessVibranium(q) == Leg(q, "SettleSell", "Vibranium") - Leg(q, "SettleBuy", "Vibranium")

(* More lost writes: the excess adds up; whole trades have none. *)
LEMMA ExcessAdds ==
    ASSUME NEW q \in Seq(Write), NEW r \in Seq(Write), Paired(r)
    PROVE  /\ ExcessCOP(q) \in Int /\ ExcessVibranium(q) \in Int
           /\ HalfCOP(r) \in Nat /\ HalfVibranium(r) \in Nat
           /\ ExcessCOP(q \o r) = ExcessCOP(q) - HalfCOP(r)
           /\ ExcessVibranium(q \o r) = ExcessVibranium(q) + HalfVibranium(r)
  <1>1. /\ "SettleBuy" \in LegWrites /\ "SettleSell" \in LegWrites
        /\ "COP" \in Asset /\ "Vibranium" \in Asset
    BY DEF LegWrites, Asset
  <1>2. \A w \in LegWrites, a \in Asset :
           /\ Leg(q \o r, w, a) = Leg(q, w, a) + Leg(r, w, a)
           /\ Leg(q, w, a) \in Nat /\ Leg(r, w, a) \in Nat
    BY LegConcat
  <1>3. \A a \in Asset : /\ Leg(r, "SettleSell", a) = Leg(r, "SettleBuy", a) + HalfOf(r, a)
                         /\ HalfOf(r, a) \in Nat
    BY LegPaired
  <1>4. HalfOf(r, "COP") = HalfCOP(r) /\ HalfOf(r, "Vibranium") = HalfVibranium(r)
    BY DEF HalfOf
  <1>5. /\ Leg(r, "SettleSell", "COP") = Leg(r, "SettleBuy", "COP") + HalfCOP(r)
        /\ Leg(r, "SettleSell", "Vibranium") = Leg(r, "SettleBuy", "Vibranium") + HalfVibranium(r)
        /\ HalfCOP(r) \in Nat /\ HalfVibranium(r) \in Nat
    BY <1>1, <1>3, <1>4
  <1>6. /\ Leg(q \o r, "SettleBuy", "COP") = Leg(q, "SettleBuy", "COP") + Leg(r, "SettleBuy", "COP")
        /\ Leg(q \o r, "SettleSell", "COP") = Leg(q, "SettleSell", "COP") + Leg(r, "SettleSell", "COP")
        /\ Leg(q, "SettleBuy", "COP") \in Nat /\ Leg(r, "SettleBuy", "COP") \in Nat
        /\ Leg(q, "SettleSell", "COP") \in Nat /\ Leg(r, "SettleSell", "COP") \in Nat
    BY <1>1, <1>2
  <1>7. /\ Leg(q \o r, "SettleBuy", "Vibranium")
             = Leg(q, "SettleBuy", "Vibranium") + Leg(r, "SettleBuy", "Vibranium")
        /\ Leg(q \o r, "SettleSell", "Vibranium")
             = Leg(q, "SettleSell", "Vibranium") + Leg(r, "SettleSell", "Vibranium")
        /\ Leg(q, "SettleBuy", "Vibranium") \in Nat /\ Leg(r, "SettleBuy", "Vibranium") \in Nat
        /\ Leg(q, "SettleSell", "Vibranium") \in Nat /\ Leg(r, "SettleSell", "Vibranium") \in Nat
    BY <1>1, <1>2
  <1>8. /\ ExcessCOP(q) \in Int /\ ExcessCOP(q \o r) = ExcessCOP(q) - HalfCOP(r)
    BY <1>5, <1>6 DEF ExcessCOP
  <1>9. /\ ExcessVibranium(q) \in Int
        /\ ExcessVibranium(q \o r) = ExcessVibranium(q) + HalfVibranium(r)
    BY <1>5, <1>7 DEF ExcessVibranium
  <1>. QED  BY <1>5, <1>8, <1>9

(* One more lost write. *)
LEMMA ExcessOne ==
    ASSUME NEW q \in Seq(Write), NEW j \in Write
    PROVE  /\ ExcessCOP(Append(q, j)) = ExcessCOP(q)
                + (IF j.write = "SettleBuy" THEN j.COP ELSE 0)
                - (IF j.write = "SettleSell" THEN j.COP ELSE 0)
           /\ ExcessVibranium(Append(q, j)) = ExcessVibranium(q)
                + (IF j.write = "SettleSell" THEN j.Vibranium ELSE 0)
                - (IF j.write = "SettleBuy" THEN j.Vibranium ELSE 0)
           /\ j.write \in LegWrites => j.COP \in Nat /\ j.Vibranium \in Nat
  <1>. DEFINE r == <<j>>
  <1>1. "SettleBuy" \in LegWrites /\ "SettleSell" \in LegWrites
    BY DEF LegWrites
  <1>2. Append(q, j) = q \o r /\ r \in Seq(Write)
    BY AppendIsConcat
  <1>3. \A w \in LegWrites, a \in Asset : Leg(r, w, a) = IF j.write = w THEN Amount(j, a) ELSE 0
    BY LegOne
  <1>4. j.write \in LegWrites => j.COP \in Nat /\ j.Vibranium \in Nat
    <2>1. j.write \in LegWrites => Amount(j, "COP") \in Nat /\ Amount(j, "Vibranium") \in Nat
      BY LegAmounts
    <2>. QED  BY <2>1 DEF Amount
  <1>. HIDE DEF r
  <1>5. \A w \in LegWrites, a \in Asset :
           /\ Leg(q \o r, w, a) = Leg(q, w, a) + Leg(r, w, a)
           /\ Leg(q, w, a) \in Nat /\ Leg(r, w, a) \in Nat
    BY <1>2, LegConcat
  <1>6. \A w \in LegWrites :
           /\ Leg(q \o r, w, "COP") = Leg(q, w, "COP") + (IF j.write = w THEN j.COP ELSE 0)
           /\ Leg(q \o r, w, "Vibranium")
                = Leg(q, w, "Vibranium") + (IF j.write = w THEN j.Vibranium ELSE 0)
           /\ Leg(q, w, "COP") \in Nat /\ Leg(q, w, "Vibranium") \in Nat
    <2>. TAKE w \in LegWrites
    <2>1. "COP" \in Asset /\ "Vibranium" \in Asset
      BY DEF Asset
    <2>2. Amount(j, "COP") = j.COP /\ Amount(j, "Vibranium") = j.Vibranium
      BY DEF Amount
    <2>. QED  BY <1>3, <1>5, <2>1, <2>2
  <1>7. /\ Leg(q \o r, "SettleBuy", "COP")
             = Leg(q, "SettleBuy", "COP") + (IF j.write = "SettleBuy" THEN j.COP ELSE 0)
        /\ Leg(q \o r, "SettleSell", "COP")
             = Leg(q, "SettleSell", "COP") + (IF j.write = "SettleSell" THEN j.COP ELSE 0)
        /\ Leg(q, "SettleBuy", "COP") \in Nat /\ Leg(q, "SettleSell", "COP") \in Nat
    BY <1>1, <1>6
  <1>8. /\ Leg(q \o r, "SettleBuy", "Vibranium")
             = Leg(q, "SettleBuy", "Vibranium") + (IF j.write = "SettleBuy" THEN j.Vibranium ELSE 0)
        /\ Leg(q \o r, "SettleSell", "Vibranium")
             = Leg(q, "SettleSell", "Vibranium") + (IF j.write = "SettleSell" THEN j.Vibranium ELSE 0)
        /\ Leg(q, "SettleBuy", "Vibranium") \in Nat /\ Leg(q, "SettleSell", "Vibranium") \in Nat
    BY <1>1, <1>6
  <1>9. ExcessCOP(q \o r) = ExcessCOP(q) + (IF j.write = "SettleBuy" THEN j.COP ELSE 0)
                              - (IF j.write = "SettleSell" THEN j.COP ELSE 0)
    BY <1>1, <1>4, <1>7 DEF ExcessCOP
  <1>10. ExcessVibranium(q \o r) = ExcessVibranium(q)
                              + (IF j.write = "SettleSell" THEN j.Vibranium ELSE 0)
                              - (IF j.write = "SettleBuy" THEN j.Vibranium ELSE 0)
    BY <1>1, <1>4, <1>8 DEF ExcessVibranium
  <1>. QED  BY <1>2, <1>4, <1>9, <1>10

(* The supply is off by what the lost writes leave. *)
SupplyOff == OffBy(ExcessCOP(lost), ExcessVibranium(lost))

(* Wallets as they were: what the job and the lost writes owe must balance. *)
LEMMA OffMoves ==
    ASSUME DurableInv, DurableInv', SupplyOff, UNCHANGED wallets,
           ExcessCOP(lost') - ExcessCOP(lost) = HalfCOP(job') - HalfCOP(job),
           ExcessVibranium(lost') - ExcessVibranium(lost) = HalfVibranium(job) - HalfVibranium(job')
    PROVE  SupplyOff'
  <1>1. /\ lost \in Seq(Write) /\ job \in Seq(Write) /\ Paired(job)
        /\ lost' \in Seq(Write) /\ job' \in Seq(Write) /\ Paired(job')
        /\ wallets \in NatWallets
    BY DEF DurableInv, ControlInv, JobOK, StoresOK, NatWallets
  <1>2. /\ ExcessCOP(lost) \in Int /\ ExcessVibranium(lost) \in Int
        /\ HalfCOP(job) \in Nat /\ HalfVibranium(job) \in Nat
    BY <1>1, ExcessAdds
  <1>3. /\ ExcessCOP(lost') \in Int /\ ExcessVibranium(lost') \in Int
        /\ HalfCOP(job') \in Nat /\ HalfVibranium(job') \in Nat
    BY <1>1, ExcessAdds
  <1>4. Total(COPs(wallets)) \in Nat /\ Total(Vibraniums(wallets)) \in Nat
    BY <1>1, OwnersSummable
  <1>5. DepositsCOP(Owners(wallets)) \in Nat /\ DepositsVibranium(Owners(wallets)) \in Nat
    <2>1. Owners(wallets) \in SUBSET UserID
      BY DEF Owners
    <2>. QED  BY <2>1, DepositsNat
  <1>. DEFINE x == ExcessCOP(lost)
              y == ExcessVibranium(lost)
              x2 == ExcessCOP(lost')
              y2 == ExcessVibranium(lost')
              h == HalfCOP(job)
              k == HalfVibranium(job)
              h2 == HalfCOP(job')
              k2 == HalfVibranium(job')
              c == Total(COPs(wallets))
              v == Total(Vibraniums(wallets))
              d == DepositsCOP(Owners(wallets))
              e == DepositsVibranium(Owners(wallets))
  <1>6. c + h = d + x /\ v - k = e + y /\ x2 - x = h2 - h /\ y2 - y = k - k2
    BY DEF SupplyOff, OffBy
  <1>7. c + h2 = d + x2 /\ v - k2 = e + y2
    <2>. HIDE DEF x, y, x2, y2, h, k, h2, k2, c, v, d, e
    <2>. QED  BY <1>2, <1>3, <1>4, <1>5, <1>6 DEF x, y, x2, y2, h, k, h2, k2, c, v, d, e
  <1>. QED  BY <1>7 DEF SupplyOff, OffBy

(* Nothing that the supply depends on changes. *)
LEMMA OffStays ==
    ASSUME SupplyOff, UNCHANGED <<wallets, job, lost>>
    PROVE  SupplyOff'
  BY DEF SupplyOff, OffBy, ExcessCOP, ExcessVibranium, Leg, Moved, Places

(* A fault moves into the excess what it takes from the stores. *)
LEMMA FaultOff ==
    ASSUME DurableInv, DurableInv', Covered, SupplyOff, FaultNext
    PROVE  SupplyOff'
  <1>0. /\ ControlInv /\ lost \in Seq(Write) /\ job \in Seq(Write) /\ Paired(job) /\ JobOK /\ LogOK
    BY DEF DurableInv, ControlInv, JobOK
  <1>1. CASE Crash
    <2>1. lost' = lost \o job /\ job' = <<>> /\ UNCHANGED wallets
      BY <1>1 DEF Crash, Restart, PostgresKeeps
    <2>2. /\ ExcessCOP(lost \o job) = ExcessCOP(lost) - HalfCOP(job)
          /\ ExcessVibranium(lost \o job) = ExcessVibranium(lost) + HalfVibranium(job)
          /\ ExcessCOP(lost) \in Int /\ ExcessVibranium(lost) \in Int
          /\ HalfCOP(job) \in Nat /\ HalfVibranium(job) \in Nat
      BY <1>0, ExcessAdds
    <2>3. HalfCOP(job') = 0 /\ HalfVibranium(job') = 0
      BY <2>1 DEF HalfCOP, HalfVibranium
    <2>4. /\ ExcessCOP(lost') - ExcessCOP(lost) = HalfCOP(job') - HalfCOP(job)
          /\ ExcessVibranium(lost') - ExcessVibranium(lost) = HalfVibranium(job) - HalfVibranium(job')
      BY <2>1, <2>2, <2>3
    <2>. QED  BY <2>1, <2>4, OffMoves
  <1>2. CASE Rewind
    BY <1>2, OffStays DEF Rewind, settlementVars
  <1>3. CASE JournalFails
    <2>. DEFINE r == Writes(log[pos + 1])
    <2>1. /\ UNCHANGED <<wallets, job>> /\ pos < Len(log)
          /\ lost' = lost \/ lost' = lost \o r
      BY <1>3 DEF JournalFails
    <2>2. log[pos + 1] \in Event
      BY <1>0, <2>1, LogFacts
    <2>3. r \in Seq(Write) /\ Paired(r) /\ Whole(r)
      BY <2>2, EventWrites
    <2>4. HalfCOP(r) = 0 /\ HalfVibranium(r) = 0
      BY <2>3 DEF Whole, HalfCOP, HalfVibranium
    <2>. HIDE DEF r
    <2>5. CASE lost' = lost
      BY <2>1, <2>5, OffStays
    <2>6. CASE lost' = lost \o r
      <3>1. /\ ExcessCOP(lost \o r) = ExcessCOP(lost) - HalfCOP(r)
            /\ ExcessVibranium(lost \o r) = ExcessVibranium(lost) + HalfVibranium(r)
            /\ ExcessCOP(lost) \in Int /\ ExcessVibranium(lost) \in Int
        BY <1>0, <2>3, ExcessAdds
      <3>2. HalfCOP(job) \in Nat /\ HalfVibranium(job) \in Nat
        BY <1>0, HalfNat
      <3>3. /\ ExcessCOP(lost') - ExcessCOP(lost) = HalfCOP(job') - HalfCOP(job)
            /\ ExcessVibranium(lost') - ExcessVibranium(lost) = HalfVibranium(job) - HalfVibranium(job')
        BY <2>1, <2>4, <2>6, <3>1, <3>2
      <3>. QED  BY <2>1, <3>3, OffMoves
    <2>. QED  BY <2>1, <2>5, <2>6
  <1>4. CASE WriteFails
    <2>. DEFINE j == Head(job)
                r == Tail(job)
    <2>1. /\ job # <<>> /\ lost' = Append(lost, j) /\ job' = r /\ UNCHANGED wallets
      BY <1>4 DEF WriteFails
    <2>2. j \in Write
      BY <1>0, <2>1, JobHead
    <2>3. /\ j.write = "SettleBuy" =>
                /\ HalfCOP(job) = 0 /\ HalfVibranium(job) = 0
                /\ HalfCOP(r) = j.COP /\ HalfVibranium(r) = j.Vibranium
          /\ j.write = "SettleSell" =>
                /\ HalfCOP(job) = j.COP /\ HalfVibranium(job) = j.Vibranium
                /\ HalfCOP(r) = 0 /\ HalfVibranium(r) = 0
          /\ j.write \notin {"SettleBuy", "SettleSell"} =>
                /\ HalfCOP(job) = 0 /\ HalfVibranium(job) = 0
                /\ HalfCOP(r) = 0 /\ HalfVibranium(r) = 0
      BY <1>0, <2>1, HalfTail
    <2>4. /\ ExcessCOP(Append(lost, j)) = ExcessCOP(lost)
                + (IF j.write = "SettleBuy" THEN j.COP ELSE 0)
                - (IF j.write = "SettleSell" THEN j.COP ELSE 0)
          /\ ExcessVibranium(Append(lost, j)) = ExcessVibranium(lost)
                + (IF j.write = "SettleSell" THEN j.Vibranium ELSE 0)
                - (IF j.write = "SettleBuy" THEN j.Vibranium ELSE 0)
          /\ j.write \in LegWrites => j.COP \in Nat /\ j.Vibranium \in Nat
      BY <1>0, <2>2, ExcessOne
    <2>5. ExcessCOP(lost) \in Int /\ ExcessVibranium(lost) \in Int
      BY <1>0, ExcessAdds
    <2>. HIDE DEF j, r
    <2>6. /\ ExcessCOP(lost') - ExcessCOP(lost) = HalfCOP(job') - HalfCOP(job)
          /\ ExcessVibranium(lost') - ExcessVibranium(lost) = HalfVibranium(job) - HalfVibranium(job')
      BY <2>1, <2>3, <2>4, <2>5 DEF LegWrites
    <2>. QED  BY <2>1, <2>6, OffMoves
  <1>5. ASSUME NEW id \in OrderID, NEW c \in PlaceOrderCommand, ReserveUnanswered(id, c)
        PROVE  SupplyOff'
    <2>1. UNCHANGED <<job, lost>>
      BY <1>5 DEF ReserveUnanswered, settlementVars
    <2>2. ExcessCOP(lost) \in Int /\ ExcessVibranium(lost) \in Int
      BY <1>0, ExcessAdds
    <2>3. PICK dc \in Int, dv \in Int : dc = ExcessCOP(lost) /\ dv = ExcessVibranium(lost)
      BY <2>2
    <2>4. OffBy(dc, dv)
      BY <2>3 DEF SupplyOff
    <2>. DEFINE v == c.userID
                n == Reserve(wallets[v], c)
    <2>5. /\ v \in UserID /\ wallets[v] # None /\ n \in NatWallet /\ UpdateWallet(v, n)
          /\ TotalCOP(n) = TotalCOP(wallets[v]) /\ TotalVibranium(n) = TotalVibranium(wallets[v])
      BY <1>5, ReserveMakes
    <2>. HIDE DEF v, n
    <2>6. OffBy(dc, dv)'
      BY <1>0, <2>1, <2>4, <2>5, SameOwned
    <2>7. ExcessCOP(lost') = dc /\ ExcessVibranium(lost') = dv
      BY <2>1, <2>3
    <2>. QED  BY <2>6, <2>7 DEF SupplyOff, OffBy
  <1>6. ASSUME NEW id \in OrderID, ReleaseFails(id)
        PROVE  SupplyOff'
    BY <1>6, OffStays DEF ReleaseFails, settlementVars
  <1>. QED  BY <1>1, <1>2, <1>3, <1>4, <1>5, <1>6 DEF FaultNext

(* SupplyOff is inductive. *)
LEMMA OffStep ==
    ASSUME DurableInv, DurableInv', Covered, SupplyOff, [DurableNext]_allVars
    PROVE  SupplyOff'
  <1>0. /\ ControlInv /\ ControlInv' /\ lost \in Seq(Write) /\ job \in Seq(Write) /\ Paired(job)
        /\ JobOK
    BY DEF DurableInv, ControlInv, JobOK
  <1>1. ExcessCOP(lost) \in Int /\ ExcessVibranium(lost) \in Int
    BY <1>0, ExcessAdds
  <1>2. CASE Plain
    <2>1. [Next]_vars /\ UNCHANGED lost
      BY <1>2 DEF Plain, durableVars
    <2>2. PICK dc \in Int, dv \in Int : dc = ExcessCOP(lost) /\ dv = ExcessVibranium(lost)
      BY <1>1
    <2>3. OffBy(dc, dv)
      BY <2>2 DEF SupplyOff
    <2>4. OffBy(dc, dv)'
      BY <1>0, <2>1, <2>3, SupplyStep
    <2>5. ExcessCOP(lost') = dc /\ ExcessVibranium(lost') = dv
      BY <2>1, <2>2
    <2>. QED  BY <2>4, <2>5 DEF SupplyOff, OffBy
  <1>3. CASE Refused
    <2>1. /\ job # <<>> /\ job' = Tail(job) /\ Head(job).write \notin {"SettleBuy", "SettleSell"}
          /\ UNCHANGED <<wallets, lost>>
      BY <1>3 DEF Refused, JobOnly, durableVars
    <2>2. /\ HalfCOP(job) = 0 /\ HalfVibranium(job) = 0
          /\ HalfCOP(Tail(job)) = 0 /\ HalfVibranium(Tail(job)) = 0
      BY <1>0, <2>1, HalfTail
    <2>3. /\ ExcessCOP(lost') - ExcessCOP(lost) = HalfCOP(job') - HalfCOP(job)
          /\ ExcessVibranium(lost') - ExcessVibranium(lost) = HalfVibranium(job) - HalfVibranium(job')
      BY <1>1, <2>1, <2>2
    <2>. QED  BY <2>1, <2>3, OffMoves
  <1>. QED  BY <1>2, <1>3, FaultOff, DurableSteps

(* At the start everybody owns what was deposited, and nothing is lost. *)
LEMMA OffStart ==
    ASSUME DurableInit
    PROVE  SupplyOff
  <1>. DEFINE ws == wallets
              S == Owners(ws)
              f == COPs(ws)
              g == Vibraniums(ws)
              h == [u \in S |-> Deposit[u].COP]
              k == [u \in S |-> Deposit[u].Vibranium]
  <1>0. /\ job = <<>> /\ lost = <<>> /\ ws \in NatWallets
        /\ ws = [u \in UserID |-> SeededWallet(Deposit[u].COP, Deposit[u].Vibranium)]
    BY DurableStart DEF DurableInit, Started, DurableInv, ControlInv, StoresOK, NatWallets
  <1>1. /\ Summable(f, S) /\ Summable(g, S) /\ Total(f) \in Nat /\ Total(g) \in Nat
        /\ \A u \in S : u \in UserID
    BY <1>0, OwnersSummable
  <1>2. \A u \in S : /\ f[u] = h[u] /\ g[u] = k[u] /\ h[u] \in Nat /\ k[u] \in Nat
    <2>. TAKE u \in S
    <2>1. u \in UserID /\ Deposit[u].COP \in Nat /\ Deposit[u].Vibranium \in Nat
      BY <1>1, DepositAssumption
    <2>2. /\ TotalCOP(ws[u]) = Deposit[u].COP /\ TotalVibranium(ws[u]) = Deposit[u].Vibranium
      BY <1>0, <2>1 DEF SeededWallet, TotalCOP, TotalVibranium
    <2>. QED  BY <2>1, <2>2 DEF COPs, Vibraniums
  <1>3. f = h /\ g = k
    BY <1>1, <1>2 DEF COPs, Vibraniums
  <1>4. ExcessCOP(lost) = 0 /\ ExcessVibranium(lost) = 0
    <2>1. ASSUME NEW w \in LegWrites, NEW a PROVE Leg(lost, w, a) = 0
      BY <1>0, LegNone
    <2>. QED  BY <2>1 DEF ExcessCOP, ExcessVibranium, LegWrites
  <1>5. HalfCOP(job) = 0 /\ HalfVibranium(job) = 0
    BY <1>0 DEF HalfCOP, HalfVibranium
  <1>6. DepositsCOP(S) = Total(f) /\ DepositsVibranium(S) = Total(g)
    BY <1>3 DEF DepositsCOP, DepositsVibranium
  <1>. HIDE DEF S, f, g, h, k
  <1>. QED  BY <1>1, <1>4, <1>5, <1>6 DEF SupplyOff, OffBy, S, f, g

(* The lost legs of the property are the sums of the proof. *)
LEMMA LostLegs ==
    /\ LostLeg("SettleBuy").COP = Leg(lost, "SettleBuy", "COP")
    /\ LostLeg("SettleSell").COP = Leg(lost, "SettleSell", "COP")
    /\ LostLeg("SettleBuy").Vibranium = Leg(lost, "SettleBuy", "Vibranium")
    /\ LostLeg("SettleSell").Vibranium = Leg(lost, "SettleSell", "Vibranium")
  <1>1. ASSUME NEW w
        PROVE  /\ Moved(lost, w, "COP") = [i \in Places(lost, w) |-> lost[i].COP]
               /\ Moved(lost, w, "Vibranium") = [i \in Places(lost, w) |-> lost[i].Vibranium]
    BY DEF Moved, Amount
  <1>. QED  BY <1>1 DEF LostLeg, Leg, Places

(* What all users own is off by what the lost writes leave, at any moment. *)
THEOREM SupplyOffInvariant == DurableSpec => []SupplyOff
  <1>1. DurableInit => SupplyOff
    BY OffStart
  <1>2. DurableInv /\ DurableInv' /\ Covered /\ SupplyOff /\ [DurableNext]_allVars => SupplyOff'
    BY OffStep
  <1>. QED  BY <1>1, <1>2, DurableControl, CoveredInvariant, PTL DEF DurableSpec

(* Whatever fails, the supply is off by exactly the legs that settlement did
   not write for an event it had marked. *)
THEOREM LostLegsAreTheDiscrepancy == DurableSpec => []DiscrepancyIsLostLegs
  <1>1. ASSUME DurableInv, SupplyOff
        PROVE  DiscrepancyIsLostLegs
    <2>0. JobOK /\ lost \in Seq(Write)
      BY <1>1 DEF DurableInv, ControlInv
    <2>1. /\ SupplyCOP = Total(COPs(wallets)) + HalfCOP(job)
          /\ SupplyVibranium = Total(Vibraniums(wallets)) - HalfVibranium(job)
          /\ DepositedCOP = DepositsCOP(Owners(wallets))
          /\ DepositedVibranium = DepositsVibranium(Owners(wallets))
          /\ DepositedCOP \in Nat /\ DepositedVibranium \in Nat
      BY <2>0, SupplyIs
    <2>2. /\ SupplyCOP = DepositedCOP + ExcessCOP(lost)
          /\ SupplyVibranium = DepositedVibranium + ExcessVibranium(lost)
      BY <1>1, <2>1 DEF SupplyOff, OffBy
    <2>3. /\ Leg(lost, "SettleBuy", "COP") \in Nat /\ Leg(lost, "SettleSell", "COP") \in Nat
          /\ Leg(lost, "SettleBuy", "Vibranium") \in Nat /\ Leg(lost, "SettleSell", "Vibranium") \in Nat
      BY <2>0, LegType DEF LegWrites
    <2>4. /\ SupplyCOP = DepositedCOP + Leg(lost, "SettleBuy", "COP") - Leg(lost, "SettleSell", "COP")
          /\ SupplyVibranium = DepositedVibranium + Leg(lost, "SettleSell", "Vibranium")
                                 - Leg(lost, "SettleBuy", "Vibranium")
      BY <2>1, <2>2, <2>3 DEF ExcessCOP, ExcessVibranium
    <2>. QED  BY <2>4, LostLegs DEF DiscrepancyIsLostLegs
  <1>. QED  BY <1>1, DurableControl, SupplyOffInvariant, PTL

(* Until a write of settlement is lost, money is conserved through every
   other fault: crashes between events, redeliveries, lost answers. *)
THEOREM ConservedUntilWritesAreLost == DurableSpec => [](lost = <<>> => MoneyConserved)
  <1>1. ASSUME DurableInv, DiscrepancyIsLostLegs, lost = <<>>
        PROVE  MoneyConserved
    <2>1. \A w \in LegWrites, a \in Asset : Leg(lost, w, a) = 0
      BY <1>1, LegNone
    <2>2. /\ LostLeg("SettleBuy").COP = 0 /\ LostLeg("SettleSell").COP = 0
          /\ LostLeg("SettleBuy").Vibranium = 0 /\ LostLeg("SettleSell").Vibranium = 0
      BY <2>1, LostLegs DEF LegWrites, Asset
    <2>3. DepositedCOP \in Nat /\ DepositedVibranium \in Nat
      BY <1>1, SupplyIs DEF DurableInv, ControlInv
    <2>. QED  BY <1>1, <2>2, <2>3 DEF DiscrepancyIsLostLegs, MoneyConserved
  <1>. QED  BY <1>1, DurableControl, LostLegsAreTheDiscrepancy, PTL

-----------------------------------------------------------------------------
(* What the engine says of its orders and trades, in the order it says it. *)

(* Every event that is published, to be published, or decided by the Place call
   in progress. *)
Stream == log \o outbox \o (IF taker = None THEN <<>> ELSE FillEvents(res.fills))

Updates(e, id) == e.type = "ORDER_UPDATED" /\ e.id = id
IsTrade(e) == e.type = "TRADE"

(* p is the same order as o, at the same time or later. *)
Older(o, p) ==
    /\ Terminal(o.status) => p = o
    /\ p.filled >= o.filled
    /\ p.sequence = o.sequence

(* The snapshots of an order only get newer along s. *)
Ordered(s) ==
    \A i, k \in 1..Len(s) : \A id \in OrderID :
        (i < k /\ Updates(s[i], id) /\ Updates(s[k], id)) => Older(s[i].order, s[k].order)

(* No snapshot is newer than the order in the book.  An order that the book has
   no longer belonged to a process that died: its identifier is not used again. *)
Behind(s, o, c) ==
    \A i \in 1..Len(s) : \A id \in OrderID : Updates(s[i], id) =>
        IF o[id] = None THEN c[id] \in {"cut", "placed"} ELSE Older(s[i].order, o[id])

(* In the first process the book has every order of which s speaks. *)
Alive(s, o) == \A i \in 1..Len(s) : \A id \in OrderID : Updates(s[i], id) => o[id] # None

(* The last snapshot of every order that is not being placed is current. *)
Latest(s, o, t) ==
    \A id \in OrderID : (o[id] # None /\ id # t) =>
        \E i \in 1..Len(s) : /\ Updates(s[i], id) /\ s[i].order = o[id]
                             /\ \A k \in 1..Len(s) : k > i => ~Updates(s[k], id)

(* s has one trade for every trade sequence number drawn. *)
Numbered(s, n) ==
    /\ \A i \in 1..Len(s) : IsTrade(s[i]) => s[i].trade.sequence \in 1..n
    /\ \A i, k \in 1..Len(s) :
          (IsTrade(s[i]) /\ IsTrade(s[k]) /\ s[i].trade.sequence = s[k].trade.sequence) => i = k
    /\ \A m \in 1..n : \E i \in 1..Len(s) : IsTrade(s[i]) /\ s[i].trade.sequence = m

(* What a step adds to the stream, given the orders o and calls c before it and
   o2 and c2 after it: snapshots of orders that were there, as they are now. *)
Reports(q, o, o2) ==
    \A k \in 1..Len(q) : \A id \in OrderID :
        Updates(q[k], id) => o[id] # None /\ q[k].order = o2[id]
Matures(o, c, o2, c2) ==
    \A id \in OrderID :
        IF o[id] = None THEN c[id] \in {"cut", "placed"} => o2[id] = None /\ c2[id] = c[id]
                        ELSE o2[id] # None /\ Older(o[id], o2[id])

(* Every order that changed, and the one whose Place call ended, is the subject
   of the last event added. *)
Tells(q, o, o2, t, t2) ==
    \A id \in OrderID : (o2[id] # None /\ id # t2) =>
        \/ o2[id] = o[id] /\ id # t /\ \A k \in 1..Len(q) : ~Updates(q[k], id)
        \/ q # <<>> /\ Updates(q[Len(q)], id)

(* The event of a trade is added when its sequence number is drawn. *)
Counts(q, n, n2) ==
    /\ \A k \in 1..Len(q) : IsTrade(q[k]) => k = 1 /\ q[k].trade.sequence = n2 /\ n2 = n + 1
    /\ n2 = n \/ (n2 = n + 1 /\ q # <<>> /\ IsTrade(q[1]))

(* Being older is a preorder on the states of orders. *)
LEMMA OlderIsPreorder ==
    ASSUME NEW o \in Order, NEW p \in Order, NEW r \in Order
    PROVE  /\ Older(o, o)
           /\ Older(o, p) /\ Older(p, r) => Older(o, r)
  <1>1. o.filled \in Nat /\ p.filled \in Nat /\ r.filled \in Nat
    BY DEF Order
  <1>. QED  BY <1>1 DEF Older

(* An order update speaks of an order. *)
LEMMA UpdateFacts ==
    ASSUME NEW e \in Event, NEW id, Updates(e, id)
    PROVE  id \in OrderID /\ e.order \in Order /\ e.id = id /\ ~IsTrade(e)
  BY DEF Event, Updates, IsTrade

(* Sequences of events are put together in any grouping. *)
LEMMA EventsAssociate ==
    ASSUME NEW s \in Seq(Event), NEW d \in Seq(Event), NEW q \in Seq(Event)
    PROVE  (s \o d) \o q = s \o (d \o q)
  BY ConcatAssociative, SMTT(20)

(* The events of a stream that grew are old ones or new ones. *)
LEMMA GrownParts ==
    ASSUME NEW s \in Seq(Event), NEW q \in Seq(Event), NEW z, z = s \o q
    PROVE  /\ z \in Seq(Event) /\ Len(z) = Len(s) + Len(q) /\ Len(s) \in Nat /\ Len(q) \in Nat
           /\ \A i \in 1..Len(s) : z[i] = s[i] /\ i \in 1..Len(z)
           /\ \A k \in 1..Len(q) : z[Len(s) + k] = q[k] /\ Len(s) + k \in 1..Len(z)
           /\ \A i \in 1..Len(z) :
                \/ i \in 1..Len(s) /\ z[i] = s[i] /\ z[i] \in Event
                \/ /\ i > Len(s) /\ i - Len(s) \in 1..Len(q) /\ z[i] = q[i - Len(s)]
                   /\ z[i] \in Event
  <1>1. /\ z \in Seq(Event) /\ Len(z) = Len(s) + Len(q)
        /\ \A i \in 1..Len(s) + Len(q) : z[i] = IF i <= Len(s) THEN s[i] ELSE q[i - Len(s)]
    BY ConcatProperties
  <1>2. Len(s) \in Nat /\ Len(q) \in Nat
    BY LenProperties
  <1>3. \A i \in 1..Len(z) : z[i] \in Event
    BY <1>1
  <1>. QED  BY <1>1, <1>2, <1>3

(* Snapshots stay in order when the new ones are current. *)
LEMMA OrderedGrows ==
    ASSUME NEW s \in Seq(Event), NEW q \in Seq(Event), NEW z, z = s \o q,
           NEW o \in [OrderID -> Order \cup {None}], NEW o2 \in [OrderID -> Order \cup {None}],
           NEW c, NEW c2, Ordered(s), Behind(s, o, c), Reports(q, o, o2), Matures(o, c, o2, c2)
    PROVE  Ordered(z)
  <1>1. SUFFICES ASSUME NEW i \in 1..Len(z), NEW k \in 1..Len(z), NEW id \in OrderID,
                        i < k, Updates(z[i], id), Updates(z[k], id)
                 PROVE  Older(z[i].order, z[k].order)
    BY DEF Ordered
  <1>2. /\ z[i] \in Event /\ z[k] \in Event /\ Len(s) \in Nat
        /\ z[i].order \in Order /\ z[k].order \in Order
    BY <1>1, GrownParts, UpdateFacts
  <1>3. CASE i \in 1..Len(s) /\ k \in 1..Len(s)
    <2>1. z[i] = s[i] /\ z[k] = s[k]
      BY <1>3, GrownParts
    <2>. QED  BY <1>1, <1>3, <2>1 DEF Ordered
  <1>4. CASE i \in 1..Len(s) /\ k > Len(s)
    <2>1. k - Len(s) \in 1..Len(q) /\ z[k] = q[k - Len(s)] /\ z[i] = s[i]
      BY <1>2, <1>4, GrownParts
    <2>2. o[id] # None /\ z[k].order = o2[id]
      BY <1>1, <2>1 DEF Reports
    <2>3. Older(z[i].order, o[id]) /\ Older(o[id], o2[id]) /\ o[id] \in Order
      BY <1>1, <1>4, <2>1, <2>2 DEF Behind, Matures
    <2>. QED  BY <1>2, <2>2, <2>3, OlderIsPreorder
  <1>5. CASE i > Len(s) /\ k > Len(s)
    <2>1. /\ k - Len(s) \in 1..Len(q) /\ z[k] = q[k - Len(s)]
          /\ i - Len(s) \in 1..Len(q) /\ z[i] = q[i - Len(s)]
      BY <1>2, <1>5, GrownParts
    <2>2. z[i].order = o2[id] /\ z[k].order = o2[id]
      BY <1>1, <2>1 DEF Reports
    <2>. QED  BY <1>2, <2>2, OlderIsPreorder
  <1>. QED  BY <1>1, <1>2, <1>3, <1>4, <1>5

(* No snapshot overtakes the book. *)
LEMMA BehindGrows ==
    ASSUME NEW s \in Seq(Event), NEW q \in Seq(Event), NEW z, z = s \o q,
           NEW o \in [OrderID -> Order \cup {None}], NEW o2 \in [OrderID -> Order \cup {None}],
           NEW c, NEW c2, Behind(s, o, c), Reports(q, o, o2), Matures(o, c, o2, c2)
    PROVE  Behind(z, o2, c2)
  <1>1. SUFFICES ASSUME NEW i \in 1..Len(z), NEW id \in OrderID, Updates(z[i], id)
                 PROVE  IF o2[id] = None THEN c2[id] \in {"cut", "placed"}
                                         ELSE Older(z[i].order, o2[id])
    BY DEF Behind
  <1>2. z[i] \in Event /\ Len(s) \in Nat /\ z[i].order \in Order
    BY <1>1, GrownParts, UpdateFacts
  <1>3. CASE i \in 1..Len(s) /\ o[id] = None
    <2>0. z[i] = s[i]
      BY <1>3, GrownParts
    <2>1. c[id] \in {"cut", "placed"}
      BY <1>1, <1>3, <2>0 DEF Behind
    <2>. QED  BY <1>3, <2>1 DEF Matures
  <1>4. CASE i \in 1..Len(s) /\ o[id] # None
    <2>0. z[i] = s[i]
      BY <1>4, GrownParts
    <2>1. Older(z[i].order, o[id])
      BY <1>1, <1>4, <2>0 DEF Behind
    <2>2. o2[id] # None /\ Older(o[id], o2[id])
      BY <1>4 DEF Matures
    <2>3. o[id] \in Order /\ o2[id] \in Order
      BY <1>4, <2>2
    <2>. QED  BY <1>2, <2>1, <2>2, <2>3, OlderIsPreorder
  <1>5. CASE i > Len(s)
    <2>1. i - Len(s) \in 1..Len(q) /\ z[i] = q[i - Len(s)]
      BY <1>2, <1>5, GrownParts
    <2>2. o[id] # None /\ z[i].order = o2[id]
      BY <1>1, <2>1 DEF Reports
    <2>3. o2[id] # None
      BY <2>2 DEF Matures
    <2>. QED  BY <1>2, <2>2, <2>3, OlderIsPreorder
  <1>. QED  BY <1>2, <1>3, <1>4, <1>5

(* In the first process the stream stays complete and current. *)
LEMMA CurrentGrows ==
    ASSUME NEW s \in Seq(Event), NEW q \in Seq(Event), NEW z, z = s \o q,
           NEW o, NEW o2, NEW c, NEW c2, NEW t, NEW t2,
           Alive(s, o), Latest(s, o, t), Reports(q, o, o2), Matures(o, c, o2, c2),
           Tells(q, o, o2, t, t2)
    PROVE  Alive(z, o2) /\ Latest(z, o2, t2)
  <1>1. ASSUME NEW i \in 1..Len(z), NEW id \in OrderID, Updates(z[i], id)
        PROVE  o2[id] # None
    <2>1. CASE i \in 1..Len(s)
      <3>1. z[i] = s[i]
        BY <2>1, GrownParts
      <3>. QED  BY <1>1, <2>1, <3>1 DEF Alive, Matures
    <2>2. CASE i > Len(s)
      <3>1. i - Len(s) \in 1..Len(q) /\ z[i] = q[i - Len(s)]
        BY <2>2, GrownParts
      <3>. QED  BY <1>1, <3>1 DEF Reports, Matures
    <2>. QED  BY <2>1, <2>2, GrownParts
  <1>2. ASSUME NEW id \in OrderID, o2[id] # None, id # t2
        PROVE  \E i \in 1..Len(z) : /\ Updates(z[i], id) /\ z[i].order = o2[id]
                                    /\ \A k \in 1..Len(z) : k > i => ~Updates(z[k], id)
    <2>1. CASE o2[id] = o[id] /\ id # t /\ \A k \in 1..Len(q) : ~Updates(q[k], id)
      <3>1. PICK i \in 1..Len(s) : /\ Updates(s[i], id) /\ s[i].order = o[id]
                                   /\ \A k \in 1..Len(s) : k > i => ~Updates(s[k], id)
        BY <1>2, <2>1 DEF Latest
      <3>2. i \in 1..Len(z) /\ z[i] = s[i]
        BY GrownParts
      <3>3. \A k \in 1..Len(z) : k > i => ~Updates(z[k], id)
        BY <2>1, <3>1, GrownParts
      <3>. QED  BY <2>1, <3>1, <3>2, <3>3
    <2>2. CASE q # <<>> /\ Updates(q[Len(q)], id)
      <3>1. Len(q) \in Nat /\ Len(q) # 0 /\ Len(s) \in Nat /\ Len(z) = Len(s) + Len(q)
        BY <2>2, GrownParts, EmptySeq
      <3>2. Len(q) \in 1..Len(q) /\ Len(z) \in 1..Len(z)
        BY <3>1
      <3>3. z[Len(z)] = q[Len(q)]
        BY <3>1, <3>2, GrownParts
      <3>4. q[Len(q)].order = o2[id]
        BY <2>2, <3>2 DEF Reports
      <3>5. \A k \in 1..Len(z) : ~(k > Len(z))
        BY <3>1
      <3>. QED  BY <2>2, <3>2, <3>3, <3>4, <3>5
    <2>. QED  BY <1>2, <2>1, <2>2 DEF Tells
  <1>. QED  BY <1>1, <1>2 DEF Alive, Latest

(* Every sequence number drawn still has its one trade. *)
LEMMA NumberedGrows ==
    ASSUME NEW s \in Seq(Event), NEW q \in Seq(Event), NEW z, z = s \o q,
           NEW n \in Nat, NEW n2, Numbered(s, n), Counts(q, n, n2)
    PROVE  Numbered(z, n2)
  <1>1. n2 \in Nat /\ n2 >= n /\ Len(s) \in Nat
    BY GrownParts DEF Counts
  <1>2. ASSUME NEW i \in 1..Len(z), IsTrade(z[i])
        PROVE  \/ i \in 1..Len(s) /\ z[i] = s[i] /\ z[i].trade.sequence \in 1..n
               \/ i = Len(s) + 1 /\ z[i].trade.sequence = n2 /\ n2 = n + 1
    <2>1. CASE i \in 1..Len(s)
      <3>1. z[i] = s[i]
        BY <2>1, GrownParts
      <3>. QED  BY <1>2, <2>1, <3>1 DEF Numbered
    <2>2. CASE i > Len(s)
      <3>1. i - Len(s) \in 1..Len(q) /\ z[i] = q[i - Len(s)]
        BY <2>2, GrownParts
      <3>2. i - Len(s) = 1 /\ z[i].trade.sequence = n2 /\ n2 = n + 1
        BY <1>2, <3>1 DEF Counts
      <3>. QED  BY <1>1, <3>2
    <2>. QED  BY <1>1, <2>1, <2>2
  <1>3. \A i \in 1..Len(z) : IsTrade(z[i]) => z[i].trade.sequence \in 1..n2
    BY <1>1, <1>2
  <1>4. ASSUME NEW i \in 1..Len(z), NEW k \in 1..Len(z), IsTrade(z[i]), IsTrade(z[k]),
               z[i].trade.sequence = z[k].trade.sequence
        PROVE  i = k
    <2>1. CASE i \in 1..Len(s) /\ k \in 1..Len(s)
      <3>1. z[i] = s[i] /\ z[k] = s[k]
        BY <2>1, GrownParts
      <3>. QED  BY <1>4, <2>1, <3>1 DEF Numbered
    <2>2. CASE i \notin 1..Len(s)
      <3>1. i = Len(s) + 1 /\ z[i].trade.sequence = n + 1
        BY <1>2, <1>4, <2>2
      <3>2. k \notin 1..Len(s)
        <4>1. ASSUME k \in 1..Len(s) PROVE z[k].trade.sequence \in 1..n
          <5>1. z[k] = s[k]
            BY <4>1, GrownParts
          <5>. QED  BY <1>4, <4>1, <5>1 DEF Numbered
        <4>2. n \in Nat /\ n + 1 \notin 1..n
          OBVIOUS
        <4>. QED  BY <1>4, <3>1, <4>1, <4>2
      <3>. QED  BY <1>2, <1>4, <3>1, <3>2
    <2>3. CASE k \notin 1..Len(s)
      <3>1. k = Len(s) + 1 /\ z[k].trade.sequence = n + 1
        BY <1>2, <1>4, <2>3
      <3>2. i \notin 1..Len(s)
        <4>1. ASSUME i \in 1..Len(s) PROVE z[i].trade.sequence \in 1..n
          <5>1. z[i] = s[i]
            BY <4>1, GrownParts
          <5>. QED  BY <1>4, <4>1, <5>1 DEF Numbered
        <4>2. n \in Nat /\ n + 1 \notin 1..n
          OBVIOUS
        <4>. QED  BY <1>4, <3>1, <4>1, <4>2
      <3>. QED  BY <1>2, <1>4, <3>1, <3>2
    <2>. QED  BY <2>1, <2>2, <2>3
  <1>5. ASSUME NEW m \in 1..n2
        PROVE  \E i \in 1..Len(z) : IsTrade(z[i]) /\ z[i].trade.sequence = m
    <2>1. CASE m \in 1..n
      BY <2>1, GrownParts DEF Numbered
    <2>2. CASE m \notin 1..n
      <3>1. n2 = n + 1 /\ q # <<>> /\ IsTrade(q[1]) /\ m = n2
        BY <1>1, <2>2 DEF Counts
      <3>2. 1 \in 1..Len(q)
        BY <3>1, GrownParts, EmptySeq
      <3>3. q[1].trade.sequence = n2
        BY <3>1, <3>2 DEF Counts
      <3>4. z[Len(s) + 1] = q[1] /\ Len(s) + 1 \in 1..Len(z)
        BY <3>2, GrownParts
      <3>. QED  BY <3>1, <3>3, <3>4
    <2>. QED  BY <2>1, <2>2
  <1>. QED  BY <1>3, <1>4, <1>5 DEF Numbered

-----------------------------------------------------------------------------
(* How the steps of the exchange grow the stream. *)

(* A step that adds q to the stream, and does to the book what q tells. *)
Grown(q) ==
    /\ Stream' = Stream \o q
    /\ Reports(q, order, order')
    /\ Matures(order, call, order', call')
    /\ Tells(q, order, order', taker, taker')
    /\ Counts(q, tradeSeq, tradeSeq')

(* The events that the Place call in progress has decided. *)
Deciding == IF taker = None THEN <<>> ELSE FillEvents(res.fills)

(* The stream is the log, the outbox and these. *)
LEMMA StreamType ==
    ASSUME ControlInv
    PROVE  /\ log \in Seq(Event) /\ outbox \in Seq(Event) /\ Deciding \in Seq(Event)
           /\ Stream = (log \o outbox) \o Deciding
           /\ Stream \in Seq(Event)
           /\ order \in [OrderID -> Order \cup {None}] /\ tradeSeq \in Nat
  <1>1. log \in Seq(Event) /\ outbox \in Seq(Event)
    BY LogFacts DEF ControlInv
  <1>2. FillEvents(res.fills) \in Seq(Event) /\ <<>> \in Seq(Event)
    BY FillsMade, FillEventsFacts, EmptySeq
  <1>3. Deciding \in Seq(Event)
    BY <1>2 DEF Deciding
  <1>4. Stream = (log \o outbox) \o Deciding
    BY DEF Stream, Deciding
  <1>5. Stream \in Seq(Event)
    BY <1>1, <1>3, <1>4, ConcatProperties
  <1>6. order \in [OrderID -> Order \cup {None}] /\ tradeSeq \in Nat
    BY DEF ControlInv, BookInv, TypeOK
  <1>. QED  BY <1>1, <1>3, <1>4, <1>5, <1>6

(* The log is the beginning of the stream. *)
LEMMA LogLeads ==
    ASSUME ControlInv
    PROVE  /\ Len(log) \in Nat /\ Len(Stream) \in Nat /\ Len(log) <= Len(Stream)
           /\ \A i \in 1..Len(log) : Stream[i] = log[i] /\ i \in 1..Len(Stream)
  <1>. DEFINE rest == outbox \o Deciding
  <1>1. rest \in Seq(Event) /\ Stream = log \o rest
    <2>1. log \in Seq(Event) /\ outbox \in Seq(Event) /\ Deciding \in Seq(Event)
      BY StreamType
    <2>2. (log \o outbox) \o Deciding = log \o (outbox \o Deciding)
      BY <2>1, EventsAssociate
    <2>3. outbox \o Deciding \in Seq(Event)
      BY <2>1, ConcatProperties
    <2>. QED  BY <2>2, <2>3, StreamType
  <1>. HIDE DEF rest
  <1>. QED  BY <1>1, StreamType, GrownParts

(* A step that leaves the stream and the book alone adds nothing. *)
LEMMA QuietGrown ==
    ASSUME ControlInv, Stream' = Stream, UNCHANGED <<order, taker, tradeSeq>>,
           \A id \in OrderID : (order[id] = None /\ call[id] \in {"cut", "placed"})
                                  => call'[id] = call[id]
    PROVE  Grown(<<>>)
  <1>1. Stream \in Seq(Event) /\ order \in [OrderID -> Order \cup {None}]
    BY StreamType
  <1>2. Stream' = Stream \o <<>>
    BY <1>1, ConcatEmptySeq
  <1>3. Len(<<>>) = 0 /\ ~\E k \in 1..Len(<<>>) : TRUE
    BY EmptySeq
  <1>4. Reports(<<>>, order, order') /\ Counts(<<>>, tradeSeq, tradeSeq')
    BY <1>3 DEF Reports, Counts
  <1>5. \A id \in OrderID : order[id] # None => Older(order[id], order[id])
    BY <1>1, OlderIsPreorder
  <1>6. Matures(order, call, order', call')
    BY <1>5 DEF Matures
  <1>7. ASSUME NEW id \in OrderID, order'[id] # None, id # taker'
        PROVE  /\ order'[id] = order[id] /\ id # taker
               /\ \A k \in 1..Len(<<>>) : ~Updates(<<>>[k], id)
    BY <1>3, <1>7
  <1>8. Tells(<<>>, order, order', taker, taker')
    BY <1>7 DEF Tells
  <1>. QED  BY <1>2, <1>4, <1>6, <1>8 DEF Grown

(* The orders mature in every step of the engine on the book. *)
LEMMA EngineMatures ==
    ASSUME ControlInv, EnginePlace \/ EngineMatch \/ EngineFinish \/ EngineCancel
    PROVE  Matures(order, call, order', call')
  <1>1. [Next]_vars
    BY DEF Next, EngineNext
  <1>2. UNCHANGED call
    BY DEF EnginePlace, EngineMatch, EngineFinish, EngineCancel, clientVars
  <1>3. ASSUME NEW id \in OrderID, order[id] # None
        PROVE  order'[id] # None /\ Older(order[id], order'[id])
    <2>1. Advances(id)
      BY <1>1, <1>3, BookStep, AdvancesStep DEF ControlInv
    <2>2. order'[id] # None
      BY <1>3, OrdersAppear
    <2>. QED  BY <2>1, <2>2 DEF Advances, Older
  <1>4. ASSUME NEW id \in OrderID, order[id] = None, call[id] \in {"cut", "placed"}
        PROVE  order'[id] = None
    <2>1. EnginePlace => in # <<>> /\ Head(in).kind = "place"
      BY DEF EnginePlace
    <2>2. EnginePlace => id # Head(in).id
      BY <1>4, <2>1, PlaceIsFresh
    <2>. QED  BY <1>4, <2>2, OrdersAppear
  <1>. QED  BY <1>2, <1>3, <1>4 DEF Matures

(* Place is entered: there is nothing to tell yet. *)
LEMMA PlaceGrows ==
    ASSUME ControlInv, EnginePlace
    PROVE  Grown(<<>>)
  <1>. DEFINE id == Head(in).id
  <1>1. /\ in # <<>> /\ Head(in).kind = "place" /\ taker = None /\ taker' = id
        /\ UNCHANGED <<log, outbox, tradeSeq>> /\ res'.fills = <<>>
    BY DEF EnginePlace, PlaceBegin, logVars
  <1>2. id \in OrderID
    BY <1>1, ChannelFacts DEF ControlInv
  <1>3. \A x \in OrderID : x # id => order'[x] = order[x]
    BY StreamType DEF EnginePlace, PlaceBegin
  <1>. HIDE DEF id
  <1>4. Made(<<>>)
    BY EmptySeq DEF Made
  <1>5. Deciding = <<>> /\ Deciding' = <<>>
    BY <1>1, <1>4, FillEventsFacts DEF Deciding
  <1>6. Stream' = Stream
    BY <1>1, <1>5 DEF Stream, Deciding
  <1>7. Stream' = Stream \o <<>>
    BY <1>6, StreamType, ConcatEmptySeq
  <1>8. Len(<<>>) = 0 /\ ~\E k \in 1..Len(<<>>) : TRUE
    BY EmptySeq
  <1>9. Reports(<<>>, order, order') /\ Counts(<<>>, tradeSeq, tradeSeq')
    BY <1>1, <1>8 DEF Reports, Counts
  <1>10. ASSUME NEW x \in OrderID, order'[x] # None, x # taker'
         PROVE  /\ order'[x] = order[x] /\ x # taker
                /\ \A k \in 1..Len(<<>>) : ~Updates(<<>>[k], x)
    BY <1>1, <1>3, <1>8, <1>10, NoneAssumption
  <1>11. Tells(<<>>, order, order', taker, taker')
    BY <1>10 DEF Tells
  <1>. QED  BY <1>7, <1>9, <1>11, EngineMatures DEF Grown

(* A trade is decided: its event and the maker's snapshot are added. *)
LEMMA MatchGrows ==
    ASSUME ControlInv, EngineMatch
    PROVE  \E q \in Seq(Event) : Grown(q)
  <1>0. BookInv
    BY DEF ControlInv
  <1>1. MatchStep /\ taker # None /\ tradeSeq' = tradeSeq + 1 /\ UNCHANGED <<log, outbox, taker>>
    BY Zenon DEF EngineMatch, MatchStep, logVars, engineVars
  <1>2. PICK mid \in OrderID, qty \in Nat : Matches(mid, qty)
    BY <1>0, <1>1, MatchEffect
  <1>. DEFINE f == [trade |-> NewTrade(order[taker], taker, order[mid], mid, qty),
                    makerID |-> mid, maker |-> Executed(order[mid], qty)]
              q == <<TradeEvent(f), MakerUpdated(f)>>
  <1>3. /\ f \in Fill /\ res'.fills = Append(res.fills, f)
        /\ mid \in OrderID /\ taker \in OrderID /\ mid # taker
        /\ order[mid] \in Order
        /\ order' = [order EXCEPT ![mid] = Executed(order[mid], qty),
                       ![taker] = [order[taker] EXCEPT !.filled = order[taker].filled + qty]]
    BY <1>2 DEF Matches
  <1>4. f.trade \in MadeTrade /\ f.makerID = mid /\ f.maker = Executed(order[mid], qty)
    BY <1>0, <1>2, MatchMakes
  <1>5. f.trade.sequence = tradeSeq + 1
    BY DEF NewTrade
  <1>6. /\ order'[mid] = f.maker
        /\ \A x \in OrderID : (x # mid /\ x # taker) => order'[x] = order[x]
    BY <1>3, <1>4, StreamType
  <1>. HIDE DEF f
  <1>7. TradeEvent(f) \in Event /\ MakerUpdated(f) \in Event
    BY <1>3, <1>4, EventTypes
  <1>8. q \in Seq(Event) /\ Len(q) = 2 /\ q[1] = TradeEvent(f) /\ q[2] = MakerUpdated(f) /\ q # <<>>
    BY <1>7
  <1>9. Deciding' = Deciding \o q
    <2>1. Deciding = FillEvents(res.fills) /\ Deciding' = FillEvents(Append(res.fills, f))
      BY <1>1, <1>3 DEF Deciding
    <2>2. Deciding' = Append(Append(Deciding, TradeEvent(f)), MakerUpdated(f))
      BY <1>3, <1>4, <2>1, FillsMade, FillEventsFacts
    <2>. DEFINE d == Deciding
    <2>3. d \in Seq(Event)
      BY StreamType
    <2>. HIDE DEF d
    <2>4. Append(Append(d, TradeEvent(f)), MakerUpdated(f)) = d \o q
      BY <1>7, <2>3
    <2>. QED  BY <2>2, <2>4 DEF d
  <1>. HIDE DEF q
  <1>10. Stream' = Stream \o q
    <2>1. Stream' = (log \o outbox) \o Deciding'
      BY <1>1 DEF Stream, Deciding
    <2>2. log \o outbox \in Seq(Event) /\ Deciding \in Seq(Event)
      BY StreamType, ConcatProperties
    <2>3. ((log \o outbox) \o Deciding) \o q = (log \o outbox) \o (Deciding \o q)
      BY <1>8, <2>2, EventsAssociate
    <2>. QED  BY <1>9, <2>1, <2>3, StreamType
  <1>11. \A x : ~Updates(q[1], x) /\ (Updates(q[2], x) <=> x = mid)
    BY <1>4, <1>8 DEF Updates, TradeEvent, MakerUpdated, OrderUpdated
  <1>12. IsTrade(q[1]) /\ ~IsTrade(q[2]) /\ q[1].trade = f.trade /\ q[2].order = f.maker
    BY <1>8 DEF IsTrade, TradeEvent, MakerUpdated, OrderUpdated
  <1>13. \A k \in 1..Len(q) : k = 1 \/ k = 2
    BY <1>8
  <1>14. Reports(q, order, order')
    BY <1>3, <1>6, <1>11, <1>12, <1>13, NoneIsNoOrder DEF Reports
  <1>15. Counts(q, tradeSeq, tradeSeq')
    BY <1>1, <1>5, <1>8, <1>12, <1>13 DEF Counts
  <1>16. Tells(q, order, order', taker, taker')
    <2>1. ASSUME NEW x \in OrderID, order'[x] # None, x # taker'
          PROVE  \/ order'[x] = order[x] /\ x # taker /\ \A k \in 1..Len(q) : ~Updates(q[k], x)
                 \/ q # <<>> /\ Updates(q[Len(q)], x)
      <3>1. CASE x = mid
        BY <1>8, <1>11, <3>1
      <3>2. CASE x # mid
        BY <1>1, <1>6, <1>11, <1>13, <2>1, <3>2
      <3>. QED  BY <3>1, <3>2
    <2>. QED  BY <2>1 DEF Tells
  <1>. QED  BY <1>8, <1>10, <1>14, <1>15, <1>16, EngineMatures DEF Grown

(* One event at the end of the stream tells of one order. *)
LEMMA OneTold ==
    ASSUME ControlInv, EngineFinish \/ EngineCancel, taker' = None, tradeSeq' = tradeSeq,
           NEW id \in OrderID, order[id] # None, NEW e \in Event, Updates(e, id),
           e.order = order'[id], Stream' = Stream \o <<e>>,
           \A x \in OrderID : x # id => order'[x] = order[x] /\ x # taker
    PROVE  \E q \in Seq(Event) : Grown(q)
  <1>. DEFINE q == <<e>>
  <1>1. q \in Seq(Event) /\ Len(q) = 1 /\ q[1] = e /\ q # <<>>
    OBVIOUS
  <1>2. Stream' = Stream \o q
    OBVIOUS
  <1>. HIDE DEF q
  <1>3. \A k \in 1..Len(q) : k = 1
    BY <1>1
  <1>4. \A x : Updates(e, x) => x = id
    BY DEF Updates
  <1>5. ~IsTrade(e)
    BY UpdateFacts
  <1>6. Reports(q, order, order')
    BY <1>1, <1>3, <1>4 DEF Reports
  <1>7. Counts(q, tradeSeq, tradeSeq')
    BY <1>1, <1>3, <1>5 DEF Counts
  <1>8. ASSUME NEW x \in OrderID, order'[x] # None, x # taker'
        PROVE  \/ order'[x] = order[x] /\ x # taker /\ \A k \in 1..Len(q) : ~Updates(q[k], x)
               \/ q # <<>> /\ Updates(q[Len(q)], x)
    <2>1. CASE x = id
      BY <1>1, <2>1
    <2>2. CASE x # id
      BY <1>1, <1>3, <1>4, <2>2
    <2>. QED  BY <2>1, <2>2
  <1>9. Tells(q, order, order', taker, taker')
    BY <1>8 DEF Tells
  <1>. QED  BY <1>1, <1>2, <1>6, <1>7, <1>9, EngineMatures DEF Grown

(* Place returns: the taker's snapshot is added. *)
LEMMA FinishGrows ==
    ASSUME ControlInv, EngineFinish
    PROVE  \E q \in Seq(Event) : Grown(q)
  <1>1. /\ PlaceFinish /\ taker # None /\ taker' = None /\ UNCHANGED <<log, tradeSeq>>
        /\ outbox' = PlaceEvents(res, taker, order'[taker])
    BY DEF EngineFinish, PlaceFinish, logVars
  <1>2. /\ taker \in OrderID /\ order[taker] \in Order /\ order'[taker] \in Order
        /\ \A x \in OrderID : x # taker => order'[x] = order[x]
    BY <1>1, FinishedOrder DEF ControlInv
  <1>3. outbox = <<>>
    BY <1>1 DEF ControlInv, PhasesOK
  <1>4. Made(res.fills) /\ res.takerReleaseCOP \in Nat
    BY FillsMade
  <1>. DEFINE e == OrderUpdated(taker, order'[taker], res.takerReleaseCOP, 0)
  <1>5. e \in Event
    BY <1>2, <1>4, EventTypes
  <1>6. Updates(e, taker) /\ e.order = order'[taker]
    BY DEF Updates, OrderUpdated
  <1>7. outbox' = Append(FillEvents(res.fills), e)
    BY <1>1, <1>2, <1>4, PlaceEventsFacts
  <1>. HIDE DEF e
  <1>8. Stream' = Stream \o <<e>>
    <2>. DEFINE d == Deciding
    <2>1. d \in Seq(Event) /\ <<e>> \in Seq(Event) /\ log \in Seq(Event)
      BY <1>5, StreamType
    <2>2. d = FillEvents(res.fills)
      BY <1>1 DEF Deciding
    <2>. HIDE DEF d
    <2>3. Append(d, e) = d \o <<e>>
      BY <1>5, <2>1
    <2>4. outbox' = d \o <<e>>
      BY <1>7, <2>2, <2>3
    <2>5. Stream = log \o d
      <3>1. Stream = (log \o <<>>) \o d
        BY <1>3, StreamType DEF d
      <3>. QED  BY <2>1, <3>1, ConcatEmptySeq
    <2>6. Stream' = log \o (d \o <<e>>)
      <3>1. Stream' = (log \o outbox') \o <<>>
        BY <1>1 DEF Stream
      <3>2. log \o outbox' \in Seq(Event)
        BY <2>1, <2>4, ConcatProperties
      <3>. QED  BY <2>4, <3>1, <3>2, ConcatEmptySeq
    <2>. QED  BY <2>1, <2>5, <2>6, EventsAssociate
  <1>. QED  BY <1>1, <1>2, <1>5, <1>6, <1>8, NoneIsNoOrder, OneTold

(* An order is cancelled: its last snapshot is added. *)
LEMMA CancelGrows ==
    ASSUME ControlInv, EngineCancel
    PROVE  \E q \in Seq(Event) : Grown(q)
  <1>. DEFINE id == Head(in).id
              e == OrderUpdated(id, order'[id], CancelRelease(order[id]).COP,
                                CancelRelease(order[id]).Vibranium)
  <1>1. /\ Cancel(id) /\ outbox' = <<e>> /\ serving = None /\ UNCHANGED <<log, tradeSeq>>
    BY DEF EngineCancel, EngineIdle, Cancel, logVars
  <1>2. /\ id \in OrderID /\ order[id] \in Order /\ order'[id] \in Order
        /\ taker = None /\ taker' = None
        /\ \A x \in OrderID : x # id => order'[x] = order[x]
        /\ order[id].filled <= order[id].quantity
    BY <1>1, CancelledOrder DEF ControlInv
  <1>3. outbox = <<>>
    BY <1>1 DEF ControlInv, PhasesOK
  <1>4. e \in Event
    BY <1>2, UnfilledFacts, EventTypes
  <1>5. Updates(e, id) /\ e.order = order'[id]
    BY DEF Updates, OrderUpdated
  <1>. HIDE DEF id, e
  <1>6. Stream' = Stream \o <<e>>
    <2>1. log \in Seq(Event) /\ <<e>> \in Seq(Event)
      BY <1>4, StreamType
    <2>2. Stream = (log \o <<>>) \o <<>> /\ Stream' = (log \o <<e>>) \o <<>>
      BY <1>1, <1>2, <1>3 DEF Stream
    <2>3. log \o <<e>> \in Seq(Event)
      BY <2>1, ConcatProperties
    <2>. QED  BY <2>1, <2>2, <2>3, ConcatEmptySeq
  <1>. QED  BY <1>1, <1>2, <1>4, <1>5, <1>6, NoneIsNoOrder, NoneAssumption, OneTold

(* An event that is published stays where it is in the stream. *)
LEMMA PublishGrows ==
    ASSUME ControlInv, EnginePublish
    PROVE  Grown(<<>>)
  <1>1. /\ outbox # <<>> /\ log' = Append(log, Head(outbox)) /\ outbox' = Tail(outbox)
        /\ UNCHANGED <<order, taker, tradeSeq, res, call>>
    BY DEF EnginePublish, bookVars, clientVars
  <1>2. log \in Seq(Event) /\ outbox \in Seq(Event)
    BY StreamType
  <1>3. /\ Head(outbox) \in Event /\ Tail(outbox) \in Seq(Event)
        /\ <<Head(outbox)>> \in Seq(Event)
    BY <1>1, <1>2
  <1>4. outbox = <<Head(outbox)>> \o Tail(outbox)
    BY <1>1, <1>2
  <1>5. log' = log \o <<Head(outbox)>>
    BY <1>1, <1>2, <1>3
  <1>6. log' \o outbox' = log \o outbox
    BY <1>1, <1>2, <1>3, <1>4, <1>5, EventsAssociate
  <1>7. Stream' = Stream
    BY <1>1, <1>6 DEF Stream
  <1>. QED  BY <1>1, <1>7, QuietGrown

(* Every step of the exchange grows the stream by what it decides. *)
LEMMA StreamGrows ==
    ASSUME ControlInv, [Next]_vars
    PROVE  \E q \in Seq(Event) : Grown(q)
  <1>1. CASE EnginePlace
    BY <1>1, PlaceGrows, EmptySeq
  <1>2. CASE EngineMatch
    BY <1>2, MatchGrows
  <1>3. CASE EngineFinish
    BY <1>3, FinishGrows
  <1>4. CASE EngineCancel
    BY <1>4, CancelGrows
  <1>5. CASE EnginePublish
    BY <1>5, PublishGrows, EmptySeq
  <1>6. CASE UNCHANGED <<bookVars, log, outbox>>
    <2>1. Stream' = Stream /\ UNCHANGED <<order, taker, tradeSeq>>
      BY <1>6 DEF Stream, bookVars
    <2>2. call \in [OrderID -> {"idle", "rejected", "submit", "waiting",
                                "replied", "placed", "releasing", "failed", "cut"}]
      BY DEF ControlInv, CallsOK
    <2>3. ASSUME NEW id \in OrderID, call[id] \in {"cut", "placed"}
          PROVE  call'[id] = call[id]
      <3>1. CASE \E x \in OrderID : \/ \E c \in PlaceOrderCommand : PlaceOrder(x, c)
                                    \/ Submit(x) \/ AbandonSubmit(x) \/ Return(x) \/ Release(x)
        BY <2>2, <2>3, <3>1 DEF PlaceOrder, Submit, AbandonSubmit, Return, Release
      <3>2. CASE EngineReply
        BY <2>2, <2>3, <3>2 DEF EngineReply, ReplyTo
      <3>3. CASE UNCHANGED call
        BY <3>3
      <3>. QED
        BY <3>1, <3>2, <3>3, <1>1, <1>2, <1>3, <1>4, <1>5
           DEF Next, ClientNext, EngineNext, SettlementNext, Idle, vars, clientVars, Seed,
               CancelOrder, AbandonCancel, EngineCancelUnknown, EnginePlace, EngineMatch,
               EngineFinish, EngineCancel, EnginePublish, SettlementReceive, SettlementWallet,
               SettlementUpsert, SettlementAppend
    <2>. QED  BY <2>1, <2>3, QuietGrown, EmptySeq
  <1>7. \/ EnginePlace \/ EngineMatch \/ EngineFinish \/ EngineCancel \/ EnginePublish
        \/ UNCHANGED <<bookVars, log, outbox>>
    BY DEF Next, ClientNext, EngineNext, SettlementNext, Idle, vars, engineVars, logVars, Seed,
           PlaceOrder, Submit, AbandonSubmit, Return, Release, CancelOrder, AbandonCancel,
           EngineCancelUnknown, EngineReply, SettlementReceive, SettlementWallet,
           SettlementUpsert, SettlementAppend
  <1>. QED  BY <1>1, <1>2, <1>3, <1>4, <1>5, <1>6, <1>7

-----------------------------------------------------------------------------
(* The stream, through faults. *)

(* Along the stream the snapshots of an order only get newer, and none is ahead
   of the book.  Until a process dies the last one is current, and there is one
   event for each trade. *)
StreamInv ==
    /\ Ordered(Stream)
    /\ Behind(Stream, order, call)
    /\ "crash" \notin faults =>
          Alive(Stream, order) /\ Latest(Stream, order, taker) /\ Numbered(Stream, tradeSeq)

(* A fault that happened stays one that has. *)
LEMMA FaultsStay ==
    ASSUME [DurableNext]_allVars
    PROVE  /\ faults \subseteq faults'
           /\ Crash => "crash" \in faults'
           /\ WriteFails => "write" \in faults'
           /\ JournalFails => "journal" \in faults'
  <1>1. CASE UNCHANGED durableVars
    BY <1>1 DEF durableVars, faultVars, Crash, WriteFails, JournalFails, Happens
  <1>2. CASE FaultNext
    BY <1>2 DEF FaultNext, Crash, Rewind, JournalFails, WriteFails, ReserveUnanswered,
                ReleaseFails, Happens
  <1>. QED  BY <1>1, <1>2 DEF DurableNext, allVars

(* Faults other than the death of the process leave the stream alone. *)
LEMMA FaultGrows ==
    ASSUME DurableInv, FaultNext, ~Crash
    PROVE  Grown(<<>>)
  <1>0. ControlInv
    BY DEF DurableInv
  <1>1. Stream' = Stream /\ UNCHANGED <<order, taker, tradeSeq>>
    BY DEF FaultNext, Rewind, JournalFails, WriteFails, ReserveUnanswered, ReleaseFails,
           Stream, bookVars, engineVars, logVars
  <1>2. call \in [OrderID -> {"idle", "rejected", "submit", "waiting",
                              "replied", "placed", "releasing", "failed", "cut"}]
    BY <1>0 DEF ControlInv, CallsOK
  <1>3. ASSUME NEW id \in OrderID, call[id] \in {"cut", "placed"}
        PROVE  call'[id] = call[id]
    BY <1>2, <1>3 DEF FaultNext, Rewind, JournalFails, WriteFails, ReserveUnanswered,
                      ReleaseFails, clientVars
  <1>. QED  BY <1>0, <1>1, <1>3, QuietGrown

(* A refused write too. *)
LEMMA RefusedGrows ==
    ASSUME DurableInv, Refused
    PROVE  Grown(<<>>)
  <1>0. ControlInv
    BY DEF DurableInv
  <1>1. Stream' = Stream /\ UNCHANGED <<order, taker, tradeSeq, call>>
    BY DEF Refused, JobOnly, Stream, bookVars, engineVars, logVars, clientVars
  <1>. QED  BY <1>0, <1>1, QuietGrown

(* The next process starts with what the log has kept of the stream. *)
LEMMA CrashStream ==
    ASSUME DurableInv, StreamInv, Crash
    PROVE  Ordered(Stream') /\ Behind(Stream', order', call')
  <1>0. ControlInv /\ LogOK /\ CallsOK
    BY DEF DurableInv, ControlInv
  <1>1. PICK kept \in Nat : Truncated(kept) /\ pos' \in resumed..kept
    BY <1>0, CrashTruncates
  <1>2. Restart /\ call' = [id \in OrderID |->
           IF call[id] \in {"submit", "waiting", "replied", "releasing"} THEN "cut" ELSE call[id]]
    BY DEF Crash
  <1>3. Stream' = log'
    <2>1. Stream' = (log' \o <<>>) \o <<>>
      BY <1>2 DEF Stream, Restart
    <2>2. log' \in Seq(Event)
      BY <1>1 DEF Truncated
    <2>. QED  BY <2>1, <2>2, ConcatEmptySeq
  <1>4. Len(Stream') = kept /\ \A i \in 1..kept : Stream'[i] = Stream[i] /\ i \in 1..Len(Stream)
    BY <1>0, <1>1, <1>3, LogLeads DEF Truncated
  <1>. DEFINE z == Stream'
  <1>5. Len(z) = kept /\ \A i \in 1..kept : z[i] = Stream[i] /\ i \in 1..Len(Stream)
    BY <1>4
  <1>. HIDE DEF z
  <1>6. Ordered(z)
    BY <1>5 DEF StreamInv, Ordered
  <1>7. ASSUME NEW i \in 1..Len(z), NEW id \in OrderID, Updates(z[i], id)
        PROVE  order'[id] = None /\ call'[id] \in {"cut", "placed"}
    <2>1. order'[id] = None
      BY <1>2 DEF Restart
    <2>2. order[id] = None => call[id] \in {"cut", "placed"}
      BY <1>5, <1>7 DEF StreamInv, Behind
    <2>3. order[id] # None => call[id] \in {"waiting", "replied", "placed"}
      BY <1>0 DEF CallsOK
    <2>. QED  BY <1>2, <2>1, <2>2, <2>3
  <1>8. Behind(z, order', call')
    BY <1>7 DEF Behind
  <1>. QED  BY <1>6, <1>8 DEF z

(* What a step that grows the stream keeps. *)
LEMMA GrownKeeps ==
    ASSUME ControlInv, ControlInv', StreamInv, faults \subseteq faults',
           NEW q \in Seq(Event), Grown(q)
    PROVE  StreamInv'
  <1>. DEFINE z == Stream'
              o2 == order'
              c2 == call'
              t2 == taker'
              n2 == tradeSeq'
  <1>1. Stream \in Seq(Event) /\ order \in [OrderID -> Order \cup {None}] /\ tradeSeq \in Nat
    BY StreamType
  <1>2. o2 \in [OrderID -> Order \cup {None}]
    BY DEF ControlInv, BookInv, TypeOK
  <1>3. /\ z = Stream \o q /\ Reports(q, order, o2) /\ Matures(order, call, o2, c2)
        /\ Tells(q, order, o2, taker, t2) /\ Counts(q, tradeSeq, n2)
    BY DEF Grown
  <1>. HIDE DEF z, o2, c2, t2, n2
  <1>4. Ordered(z) /\ Behind(z, o2, c2)
    BY <1>1, <1>2, <1>3, OrderedGrows, BehindGrows DEF StreamInv
  <1>5. ASSUME "crash" \notin faults'
        PROVE  Alive(z, o2) /\ Latest(z, o2, t2) /\ Numbered(z, n2)
    <2>1. Alive(Stream, order) /\ Latest(Stream, order, taker) /\ Numbered(Stream, tradeSeq)
      BY <1>5 DEF StreamInv
    <2>2. Alive(z, o2) /\ Latest(z, o2, t2)
      BY <1>1, <1>3, <2>1, CurrentGrows
    <2>3. Numbered(z, n2)
      BY <1>1, <1>3, <2>1, NumberedGrows
    <2>. QED  BY <2>2, <2>3
  <1>. QED  BY <1>4, <1>5 DEF StreamInv, z, o2, c2, t2, n2

(* StreamInv is inductive. *)
LEMMA StreamStep ==
    ASSUME DurableInv, DurableInv', StreamInv, [DurableNext]_allVars
    PROVE  StreamInv'
  <1>0. ControlInv /\ ControlInv' /\ faults \subseteq faults'
    BY FaultsStay DEF DurableInv
  <1>1. CASE Crash
    <2>1. "crash" \in faults'
      BY <1>1, FaultsStay
    <2>. QED  BY <1>1, <2>1, CrashStream DEF StreamInv
  <1>2. CASE ~Crash
    <2>1. \E q \in Seq(Event) : Grown(q)
      BY <1>0, <1>2, DurableSteps, StreamGrows, RefusedGrows, FaultGrows, EmptySeq DEF Plain
    <2>. QED  BY <1>0, <2>1, GrownKeeps
  <1>. QED  BY <1>1, <1>2

(* The stream starts empty. *)
LEMMA StreamStart ==
    ASSUME DurableInit
    PROVE  StreamInv
  <1>1. log = <<>> /\ outbox = <<>> /\ taker = None /\ tradeSeq = 0
    BY DEF DurableInit, Started, Untouched, OrderBookInit
  <1>2. \A id \in OrderID : order[id] = None
    BY DEF DurableInit, Started, OrderBookInit
  <1>3. Stream = <<>>
    BY <1>1, EmptySeq, ConcatEmptySeq DEF Stream
  <1>4. Len(Stream) = 0 /\ ~\E i \in 1..Len(Stream) : TRUE
    BY <1>3
  <1>. QED  BY <1>1, <1>2, <1>4 DEF StreamInv, Ordered, Behind, Alive, Latest, Numbered

(* Whatever fails, what the log says of an order never goes back. *)
THEOREM StreamInvariant == DurableSpec => []StreamInv
  <1>1. DurableInit => StreamInv
    BY StreamStart
  <1>2. DurableInv /\ DurableInv' /\ StreamInv /\ [DurableNext]_allVars => StreamInv'
    BY StreamStep
  <1>. QED  BY <1>1, <1>2, DurableControl, PTL DEF DurableSpec

-----------------------------------------------------------------------------
(* What settlement makes of the events. *)

(* A step in which settlement has no part: the log at most grows. *)
Elsewhere ==
    /\ UNCHANGED <<pos, journal, job, projection, trades, resumed, lost>>
    /\ Len(log) <= Len(log') /\ \A i \in 1..Len(log) : log'[i] = log[i]

(* The steps, as settlement and its stores see them. *)
LEMMA SettlementViews ==
    ASSUME DurableInv, [DurableNext]_allVars
    PROVE  \/ Elsewhere
           \/ /\ SettlementReceive \/ SettlementWallet \/ PostgresUpsert \/ PostgresAppend
              /\ UNCHANGED durableVars
           \/ Crash \/ Rewind \/ JournalFails \/ WriteFails
  <1>0. log \in Seq(Event) /\ outbox \in Seq(Event) /\ Len(log) \in Nat
    BY LogFacts DEF DurableInv, ControlInv
  <1>1. CASE UNCHANGED <<logVars, settlementVars, resumed, lost>>
    BY <1>0, <1>1 DEF Elsewhere, logVars, settlementVars
  <1>2. CASE EnginePublish /\ UNCHANGED durableVars
    <2>1. /\ outbox # <<>> /\ log' = Append(log, Head(outbox))
          /\ UNCHANGED <<pos, journal, job, projection, trades, resumed, lost>>
      BY <1>2 DEF EnginePublish, settlementVars, durableVars
    <2>2. Len(log') = Len(log) + 1 /\ \A i \in 1..Len(log) : log'[i] = log[i]
      BY <1>0, <2>1
    <2>. QED  BY <1>0, <2>1, <2>2 DEF Elsewhere
  <1>3. CASE DurableClientNext /\ UNCHANGED durableVars
    <2>1. UNCHANGED <<logVars, settlementVars, resumed, lost>>
      BY <1>3 DEF DurableClientNext, PlaceOrder, Submit, AbandonSubmit, Return, Release,
                  CancelOrder, AbandonCancel, durableVars
    <2>. QED  BY <1>1, <2>1
  <1>4. CASE EngineNext /\ ~EnginePublish /\ UNCHANGED durableVars
    <2>1. UNCHANGED <<logVars, settlementVars, resumed, lost>>
      BY <1>4 DEF EngineNext, EnginePlace, EngineMatch, EngineFinish, EngineCancel,
                  EngineCancelUnknown, EngineReply, durableVars
    <2>. QED  BY <1>1, <2>1
  <1>5. CASE (Idle /\ UNCHANGED durableVars) \/ UNCHANGED allVars
    <2>1. UNCHANGED <<logVars, settlementVars, resumed, lost>>
      BY <1>5 DEF Idle, vars, durableVars, allVars
    <2>. QED  BY <1>1, <2>1
  <1>6. CASE \E id \in OrderID : \/ \E c \in PlaceOrderCommand : ReserveUnanswered(id, c)
                                 \/ ReleaseFails(id)
    <2>1. UNCHANGED <<logVars, settlementVars, resumed, lost>>
      BY <1>6 DEF ReserveUnanswered, ReleaseFails
    <2>. QED  BY <1>1, <2>1
  <1>. QED
    BY <1>2, <1>3, <1>4, <1>5, <1>6 DEF DurableNext, DurableSettlementNext, FaultNext

(* The order and trade writes in q are those of the order or the trade that ev
   is about. *)
Settles(q, ev) ==
    /\ \A k \in 1..Len(q) :
         /\ q[k].write = "UpsertOrder" => Updates(ev, q[k].id) /\ ev.order = q[k].order
         /\ q[k].write = "AppendTrade" => IsTrade(ev) /\ q[k].trade = ev.trade
    /\ \A id : Updates(ev, id) =>
         \E k \in 1..Len(q) :
             q[k].write = "UpsertOrder" /\ q[k].id = id /\ q[k].order = ev.order
    /\ IsTrade(ev) =>
         \E k \in 1..Len(q) : q[k] = [write |-> "AppendTrade", trade |-> ev.trade]

(* The writes of an event are such. *)
LEMMA WritesTell ==
    ASSUME NEW ev \in Event
    PROVE  Writes(ev) \in Seq(Write) /\ Settles(Writes(ev), ev)
  <1>. DEFINE q == Writes(ev)
  <1>0. q \in Seq(Write)
    BY EventWrites
  <1>1. ASSUME IsTrade(ev) PROVE Settles(q, ev)
    <2>. DEFINE t == ev.trade
                a == [write |-> "SettleBuy", user |-> t.buyer, COP |-> Notional(t), Vibranium |-> t.quantity]
                b == [write |-> "SettleSell", user |-> t.seller, COP |-> Notional(t), Vibranium |-> t.quantity]
                c == [write |-> "AppendTrade", trade |-> t]
    <2>1. q = <<a, b, c>>
      BY <1>1 DEF Writes, TradeWrites, IsTrade
    <2>2. /\ a.write = "SettleBuy" /\ b.write = "SettleSell"
          /\ c.write = "AppendTrade" /\ c.trade = ev.trade
      OBVIOUS
    <2>3. c = [write |-> "AppendTrade", trade |-> ev.trade]
      OBVIOUS
    <2>4. \A id : ~Updates(ev, id)
      BY <1>1 DEF Updates, IsTrade
    <2>. HIDE DEF a, b, c
    <2>5. Len(q) = 3 /\ q[1] = a /\ q[2] = b /\ q[3] = c
      BY <2>1
    <2>6. \A k \in 1..Len(q) : k = 1 \/ k = 2 \/ k = 3
      BY <2>5
    <2>. HIDE DEF q
    <2>. QED  BY <1>1, <2>2, <2>3, <2>4, <2>5, <2>6 DEF Settles
  <1>2. ASSUME ~IsTrade(ev) PROVE Settles(q, ev)
    <2>. DEFINE w == [write |-> "UpsertOrder", id |-> ev.id, order |-> ev.order]
                a == [write |-> "ReleaseCOP", user |-> ev.order.userID,
                      COP |-> ev.releaseCOP, Vibranium |-> 0]
                b == [write |-> "ReleaseVibranium", user |-> ev.order.userID,
                      COP |-> 0, Vibranium |-> ev.releaseVibranium]
                x == IF ev.releaseCOP > 0 THEN <<a>> ELSE <<>>
                y == IF ev.releaseVibranium > 0 THEN <<b>> ELSE <<>>
    <2>1. q = (<<w>> \o x) \o y
      BY <1>2 DEF Writes, OrderUpdateWrites, IsTrade
    <2>2. /\ ev.type = "ORDER_UPDATED" /\ ev.id \in OrderID /\ ev.order \in Order
          /\ ev.releaseCOP \in Nat /\ ev.releaseVibranium \in Nat /\ ev.order.userID \in UserID
      BY <1>2 DEF Event, IsTrade, Order
    <2>3. /\ w \in Write /\ w.write = "UpsertOrder" /\ w.id = ev.id /\ w.order = ev.order
      BY <2>2 DEF Write
    <2>31. ev.releaseCOP > 0 => a \in Write
      BY <2>2 DEF Write, WalletWrite, Positive
    <2>32. ev.releaseVibranium > 0 => b \in Write
      BY <2>2 DEF Write, WalletWrite, Positive
    <2>33. a.write = "ReleaseCOP" /\ b.write = "ReleaseVibranium"
      OBVIOUS
    <2>. HIDE DEF w, a, b
    <2>4. x \in Seq(Write) /\ \A k \in 1..Len(x) : x[k].write = "ReleaseCOP"
      BY <2>31, <2>33
    <2>5. y \in Seq(Write) /\ \A k \in 1..Len(y) : y[k].write = "ReleaseVibranium"
      BY <2>32, <2>33
    <2>. HIDE DEF x, y
    <2>6. <<w>> \in Seq(Write) /\ Len(<<w>>) = 1 /\ <<w>>[1] = w
      BY <2>3
    <2>. DEFINE v == <<w>> \o x
    <2>7. /\ v \in Seq(Write) /\ Len(v) = 1 + Len(x)
          /\ \A i \in 1..(1 + Len(x)) : v[i] = IF i <= 1 THEN <<w>>[i] ELSE x[i - 1]
      BY <2>4, <2>6, ConcatProperties
    <2>8. Len(x) \in Nat /\ Len(y) \in Nat
      BY <2>4, <2>5, LenProperties
    <2>9. v[1] = w /\ \A i \in 1..Len(v) : i = 1 \/ v[i].write = "ReleaseCOP"
      BY <2>4, <2>6, <2>7, <2>8
    <2>. HIDE DEF v
    <2>10. /\ Len(q) = Len(v) + Len(y)
           /\ \A i \in 1..(Len(v) + Len(y)) : q[i] = IF i <= Len(v) THEN v[i] ELSE y[i - Len(v)]
      BY <2>1, <2>5, <2>7, ConcatProperties DEF v
    <2>11. /\ 1 \in 1..Len(q) /\ q[1] = w
           /\ \A i \in 1..Len(q) : i = 1 \/ q[i].write \in {"ReleaseCOP", "ReleaseVibranium"}
      <3>1. Len(v) \in Nat /\ Len(v) >= 1
        BY <2>7, <2>8
      <3>2. 1 \in 1..Len(q) /\ q[1] = w
        BY <2>8, <2>9, <2>10, <3>1
      <3>3. ASSUME NEW i \in 1..Len(q), i # 1
            PROVE  q[i].write \in {"ReleaseCOP", "ReleaseVibranium"}
        <4>1. CASE i <= Len(v)
          BY <2>8, <2>9, <2>10, <3>1, <3>3, <4>1
        <4>2. CASE i > Len(v)
          <5>1. i - Len(v) \in 1..Len(y) /\ q[i] = y[i - Len(v)]
            BY <2>8, <2>10, <3>1, <4>2
          <5>. QED  BY <2>5, <5>1
        <4>. QED  BY <3>1, <4>1, <4>2
      <3>. QED  BY <3>2, <3>3
    <2>12. \A i \in 1..Len(q) : q[i].write = "UpsertOrder" => q[i] = w
      BY <2>11
    <2>13. \A i \in 1..Len(q) : q[i].write # "AppendTrade"
      BY <2>3, <2>11
    <2>14. \A id : Updates(ev, id) <=> id = ev.id
      BY <2>2 DEF Updates
    <2>. HIDE DEF q
    <2>. QED  BY <1>2, <2>3, <2>11, <2>12, <2>13, <2>14 DEF Settles
  <1>. QED  BY <1>0, <1>1, <1>2

-----------------------------------------------------------------------------
(* The journal and GetOrder's snapshots, while the journal answers. *)

(* What this process has received is marked, and what is not marked comes after
   all that is: an event that is fresh is the last one marked. *)
InOrder ==
    /\ \A i \in (resumed + 1)..pos : i \in journal
    /\ \A i \in Nat : (i > resumed /\ i \notin journal) => \A m \in journal : m < i

(* A snapshot that is shown comes from a marked event. *)
Shown(pr, j, l) ==
    \A id \in OrderID : pr[id] # None =>
        \E i \in j : Updates(l[i], id) /\ l[i].order = pr[id]

(* A snapshot that is about to be stored comes from the last marked event. *)
FromLast(q, j, l) ==
    \A k \in 1..Len(q) : q[k].write = "UpsertOrder" =>
        \E i \in j : /\ Updates(l[i], q[k].id) /\ l[i].order = q[k].order
                     /\ \A m \in j : m <= i

JournalInv ==
    "journal" \notin faults =>
        InOrder /\ Shown(projection, journal, log) /\ FromLast(job, journal, log)

(* The elements of a sequence of writes, and those of its tail. *)
LEMMA TailElements ==
    ASSUME NEW q \in Seq(Write), q # <<>>
    PROVE  /\ Head(q) = q[1] /\ 1 \in 1..Len(q) /\ Head(q) \in Write /\ Tail(q) \in Seq(Write)
           /\ \A k \in 1..Len(Tail(q)) : Tail(q)[k] = q[k + 1] /\ k + 1 \in 1..Len(q)
           /\ \A k \in 1..Len(q) :
                k = 1 \/ (k - 1 \in 1..Len(Tail(q)) /\ Tail(q)[k - 1] = q[k])
  <1>1. Len(q) \in Nat /\ Len(q) # 0
    BY EmptySeq, LenProperties
  <1>2. Len(Tail(q)) = Len(q) - 1 /\ \A k \in 1..(Len(q) - 1) : Tail(q)[k] = q[k + 1]
    BY <1>1
  <1>3. Head(q) = q[1] /\ Head(q) \in Write /\ Tail(q) \in Seq(Write)
    BY <1>1
  <1>. QED  BY <1>1, <1>2, <1>3

(* The stores find the events in the log as they were marked. *)
LEMMA LogKeeps ==
    ASSUME NEW j, NEW l, NEW l2, \A i \in j : l2[i] = l[i], NEW pr, NEW q
    PROVE  /\ Shown(pr, j, l) => Shown(pr, j, l2)
           /\ FromLast(q, j, l) => FromLast(q, j, l2)
  BY DEF Shown, FromLast

(* A write that is done, refused or lost leaves the others. *)
LEMMA LastTail ==
    ASSUME NEW q \in Seq(Write), q # <<>>, NEW j, NEW l, FromLast(q, j, l)
    PROVE  FromLast(Tail(q), j, l)
  BY TailElements DEF FromLast

(* The write at the head of the job is newer than what it replaces. *)
LEMMA UpsertAdvances ==
    ASSUME DurableInv, StreamInv, Shown(projection, journal, log), FromLast(job, journal, log),
           job # <<>>, Head(job).write = "UpsertOrder"
    PROVE  LET id == Head(job).id
           IN  /\ id \in OrderID /\ Head(job).order \in Order
               /\ projection[id] # None => Older(projection[id], Head(job).order)
               /\ \E i \in journal : Updates(log[i], id) /\ log[i].order = Head(job).order
                                     /\ \A m \in journal : m <= i
  <1>. DEFINE id == Head(job).id
              o == Head(job).order
  <1>0. /\ ControlInv /\ journal \in SUBSET (1..Len(log)) /\ log \in Seq(Event)
        /\ job \in Seq(Write) /\ Len(log) \in Nat
    BY LogFacts DEF DurableInv, ControlInv, JobOK
  <1>1. Head(job) = job[1] /\ 1 \in 1..Len(job) /\ Head(job) \in Write
    BY <1>0, TailElements
  <1>2. id \in OrderID /\ o \in Order
    BY <1>1, WriteKinds
  <1>3. PICK i \in journal : /\ Updates(log[i], id) /\ log[i].order = o
                             /\ \A m \in journal : m <= i
    BY <1>1 DEF FromLast
  <1>. HIDE DEF id, o
  <1>4. ASSUME projection[id] # None
        PROVE  Older(projection[id], o)
    <2>1. PICK k \in journal : Updates(log[k], id) /\ log[k].order = projection[id]
      BY <1>2, <1>4 DEF Shown
    <2>2. CASE k = i
      BY <1>2, <1>3, <2>1, <2>2, OlderIsPreorder
    <2>3. CASE k # i
      <3>1. k < i /\ k \in 1..Len(log) /\ i \in 1..Len(log)
        BY <1>0, <1>3, <2>3
      <3>2. /\ Stream[k] = log[k] /\ Stream[i] = log[i]
            /\ k \in 1..Len(Stream) /\ i \in 1..Len(Stream)
        BY <1>0, <3>1, LogLeads
      <3>3. Older(Stream[k].order, Stream[i].order)
        BY <1>2, <1>3, <2>1, <3>1, <3>2 DEF StreamInv, Ordered
      <3>. QED  BY <1>3, <2>1, <3>2, <3>3
    <2>. QED  BY <2>2, <2>3
  <1>. QED  BY <1>2, <1>3, <1>4 DEF id, o

(* The event that is received, as the journal takes it. *)
LEMMA ReceiveInOrder ==
    ASSUME DurableInv, InOrder, SettlementReceive, UNCHANGED resumed
    PROVE  /\ InOrder'
           /\ pos + 1 \notin journal => \A m \in journal' : m <= pos + 1
           /\ pos + 1 \in journal => journal' = journal
           /\ pos + 1 \in 1..Len(log) /\ pos + 1 \in journal'
  <1>0. /\ Len(log) \in Nat /\ pos \in Nat /\ journal \in SUBSET (1..Len(log))
        /\ resumed \in 0..pos
    BY LogFacts DEF DurableInv, ControlInv
  <1>1. pos < Len(log) /\ pos' = pos + 1 /\ journal' = journal \cup {pos + 1}
    BY DEF SettlementReceive, MarkProcessed
  <1>2. \A m \in journal : m \in Nat
    BY <1>0
  <1>3. pos + 1 \notin journal => \A m \in journal : m < pos + 1
    BY <1>0 DEF InOrder
  <1>4. \A i \in (resumed + 1)..pos' : i \in journal'
    BY <1>0, <1>1 DEF InOrder
  <1>5. ASSUME NEW i \in Nat, i > resumed, i \notin journal', NEW m \in journal'
        PROVE  m < i
    <2>1. i \notin journal /\ i # pos + 1
      BY <1>1, <1>5
    <2>2. i > pos + 1
      BY <1>0, <1>5, <2>1 DEF InOrder
    <2>. QED  BY <1>1, <1>5, <2>1, <2>2 DEF InOrder
  <1>6. InOrder'
    BY <1>4, <1>5 DEF InOrder
  <1>. QED  BY <1>0, <1>1, <1>2, <1>3, <1>6

(* JournalInv is inductive. *)
LEMMA JournalStep ==
    ASSUME DurableInv, StreamInv, JournalInv, [DurableNext]_allVars
    PROVE  JournalInv'
  <1>1. SUFFICES ASSUME "journal" \notin faults'
                 PROVE  /\ InOrder' /\ Shown(projection', journal', log')
                        /\ FromLast(job', journal', log')
    BY DEF JournalInv
  <1>2. InOrder /\ Shown(projection, journal, log) /\ FromLast(job, journal, log)
    BY <1>1, FaultsStay DEF JournalInv
  <1>3. /\ Len(log) \in Nat /\ pos \in Nat /\ pos <= Len(log) /\ log \in Seq(Event)
        /\ journal \in SUBSET (1..Len(log)) /\ job \in Seq(Write) /\ resumed \in 0..pos
        /\ projection \in [OrderID -> Order \cup {None}]
    BY LogFacts DEF DurableInv, ControlInv, JobOK, StoresOK
  <1>4. CASE Elsewhere
    <2>1. InOrder'
      BY <1>2, <1>4 DEF Elsewhere, InOrder
    <2>2. \A i \in journal : log'[i] = log[i]
      BY <1>3, <1>4 DEF Elsewhere
    <2>3. Shown(projection, journal, log') /\ FromLast(job, journal, log')
      BY <1>2, <2>2, LogKeeps
    <2>. QED  BY <1>4, <2>1, <2>3 DEF Elsewhere
  <1>5. CASE SettlementReceive /\ UNCHANGED durableVars
    <2>1. /\ job = <<>> /\ UNCHANGED <<log, projection, resumed>>
          /\ job' = IF pos + 1 \notin journal THEN Writes(log[pos + 1]) ELSE <<>>
          /\ journal \subseteq journal'
      BY <1>5 DEF SettlementReceive, Fresh, MarkProcessed, durableVars
    <2>2. /\ InOrder' /\ pos + 1 \in 1..Len(log) /\ pos + 1 \in journal'
          /\ pos + 1 \notin journal => \A m \in journal' : m <= pos + 1
      BY <1>2, <1>5, <2>1, ReceiveInOrder
    <2>3. Shown(projection, journal', log)
      BY <1>2, <2>1 DEF Shown
    <2>4. CASE pos + 1 \notin journal
      <3>. DEFINE e == log[pos + 1]
                  q == Writes(e)
      <3>1. e \in Event
        BY <1>3, <2>2
      <3>2. job' = q /\ q = Writes(e)
        BY <2>1, <2>4
      <3>. HIDE DEF e, q
      <3>3. \A k \in 1..Len(q) : q[k].write = "UpsertOrder" =>
               Updates(e, q[k].id) /\ e.order = q[k].order
        BY <3>1, <3>2, WritesTell DEF Settles
      <3>4. FromLast(q, journal', log)
        BY <2>2, <2>4, <3>3 DEF FromLast, e
      <3>. QED  BY <2>1, <2>2, <2>3, <3>2, <3>4
    <2>5. CASE pos + 1 \in journal
      <3>1. job' = <<>>
        BY <2>1, <2>5
      <3>2. FromLast(<<>>, journal', log)
        BY DEF FromLast
      <3>. QED  BY <2>1, <2>2, <2>3, <3>1, <3>2
    <2>. QED  BY <2>4, <2>5
  <1>6. ASSUME job # <<>>, job' = Tail(job), UNCHANGED <<log, pos, journal, resumed>>
        PROVE  InOrder' /\ FromLast(job', journal', log')
    <2>1. InOrder'
      BY <1>2, <1>6 DEF InOrder
    <2>2. FromLast(Tail(job), journal, log)
      BY <1>2, <1>3, <1>6, LastTail
    <2>. QED  BY <1>6, <2>1, <2>2
  <1>7. CASE ((SettlementWallet \/ PostgresAppend) /\ UNCHANGED durableVars) \/ WriteFails
    <2>1. /\ job # <<>> /\ job' = Tail(job)
          /\ UNCHANGED <<log, pos, journal, resumed, projection>>
      BY <1>7 DEF SettlementWallet, PostgresAppend, WriteFails, logVars, durableVars
    <2>. QED  BY <1>2, <1>6, <2>1
  <1>8. CASE PostgresUpsert /\ UNCHANGED durableVars
    <2>. DEFINE id == Head(job).id
                o == Head(job).order
    <2>1. /\ job # <<>> /\ job' = Tail(job) /\ Head(job).write = "UpsertOrder"
          /\ UNCHANGED <<log, pos, journal, resumed>>
          /\ projection' = [projection EXCEPT ![id] = o] \/ projection' = projection
      BY <1>8 DEF PostgresUpsert, UpsertOrder, logVars, durableVars
    <2>2. /\ id \in OrderID
          /\ \E i \in journal : Updates(log[i], id) /\ log[i].order = o
      BY <1>2, <2>1, UpsertAdvances
    <2>. HIDE DEF id, o
    <2>3. Shown(projection', journal, log)
      BY <1>2, <1>3, <2>1, <2>2 DEF Shown
    <2>. QED  BY <1>6, <2>1, <2>3
  <1>9. CASE Crash
    <2>1. job' = <<>> /\ UNCHANGED <<journal, projection>> /\ resumed' = pos'
      BY <1>9 DEF Crash, Restart, PostgresKeeps
    <2>2. PICK kept \in Nat : Truncated(kept) /\ pos' \in resumed..kept
      BY <1>9, CrashTruncates DEF DurableInv, ControlInv
    <2>3. \A i \in journal : log'[i] = log[i]
      BY <1>3, <2>2 DEF Truncated
    <2>4. resumed \in Nat /\ pos' \in Nat /\ resumed <= pos'
      BY <1>3, <2>2
    <2>5. InOrder'
      <3>1. \A i \in (resumed' + 1)..pos' : i \in journal'
        <4>. DEFINE n == pos'
        <4>1. n \in Nat /\ resumed' = n
          BY <2>1, <2>4
        <4>. HIDE DEF n
        <4>2. \A i \in (n + 1)..n : FALSE
          BY <4>1
        <4>. QED  BY <4>1, <4>2 DEF n
      <3>2. ASSUME NEW i \in Nat, i > resumed', i \notin journal', NEW m \in journal'
            PROVE  m < i
        BY <1>2, <2>1, <2>4, <3>2 DEF InOrder
      <3>. QED  BY <3>1, <3>2 DEF InOrder
    <2>6. Shown(projection, journal, log')
      BY <1>2, <2>3, LogKeeps
    <2>7. FromLast(<<>>, journal, log')
      BY DEF FromLast
    <2>. QED  BY <2>1, <2>5, <2>6, <2>7
  <1>10. CASE Rewind
    <2>1. UNCHANGED <<log, journal, job, projection, resumed>> /\ pos' \in resumed..(pos - 1)
      BY <1>10 DEF Rewind, settlementVars
    <2>2. InOrder'
      BY <1>2, <1>3, <2>1 DEF InOrder
    <2>. QED  BY <1>2, <2>1, <2>2
  <1>11. CASE JournalFails
    BY <1>1, <1>11, FaultsStay
  <1>. QED  BY <1>4, <1>5, <1>7, <1>8, <1>9, <1>10, <1>11, SettlementViews

(* It holds of the first process. *)
LEMMA JournalStart ==
    ASSUME DurableInit
    PROVE  JournalInv
  <1>1. /\ log = <<>> /\ pos = 0 /\ resumed = 0 /\ journal = {} /\ job = <<>>
        /\ projection = [id \in OrderID |-> None]
    BY DEF DurableInit, Started, Untouched
  <1>. QED  BY <1>1 DEF JournalInv, InOrder, Shown, FromLast

(* While the journal answers, an event that is fresh is later than all that
   were settled, whatever was delivered again and whenever the process died. *)
THEOREM JournalInvariant == DurableSpec => []JournalInv
  <1>1. DurableInit => JournalInv
    BY JournalStart
  <1>2. DurableInv /\ StreamInv /\ JournalInv /\ [DurableNext]_allVars => JournalInv'
    BY JournalStep
  <1>. QED  BY <1>1, <1>2, DurableControl, StreamInvariant, PTL DEF DurableSpec

(* GetOrder never goes back as long as the journal answers: a snapshot is never
   replaced by an older one, however often events are delivered again, writes
   fail or the process dies. *)
THEOREM GetOrderNeverGoesBack == DurableSpec => ProjectionOnlyAdvances
  <1>1. ASSUME DurableInv, StreamInv, JournalInv, [DurableNext]_allVars,
               NEW id \in OrderID, "journal" \notin faults, projection[id] # None
        PROVE  /\ Terminal(projection[id].status) => projection'[id] = projection[id]
               /\ projection'[id].filled >= projection[id].filled
    <2>1. /\ projection \in [OrderID -> Order \cup {None}]
          /\ Shown(projection, journal, log) /\ FromLast(job, journal, log)
      BY <1>1 DEF DurableInv, ControlInv, StoresOK, JournalInv
    <2>2. projection[id] \in Order
      BY <1>1, <2>1
    <2>3. CASE projection'[id] = projection[id]
      <3>1. Older(projection[id], projection[id])
        BY <2>2, OlderIsPreorder
      <3>. QED  BY <2>3, <3>1 DEF Older
    <2>4. CASE projection'[id] # projection[id]
      <3>1. PostgresUpsert
        BY <1>1, <2>4, SettlementViews
           DEF Elsewhere, SettlementReceive, SettlementWallet, PostgresAppend, Crash,
               PostgresKeeps, Rewind, settlementVars, JournalFails, WriteFails
      <3>2. /\ job # <<>> /\ Head(job).write = "UpsertOrder"
            /\ projection' = [projection EXCEPT ![Head(job).id] = Head(job).order]
        BY <2>4, <3>1 DEF PostgresUpsert, UpsertOrder
      <3>3. id = Head(job).id /\ projection'[id] = Head(job).order
        BY <1>1, <2>1, <2>4, <3>2
      <3>4. Older(projection[id], projection'[id])
        BY <1>1, <2>1, <3>2, <3>3, UpsertAdvances
      <3>. QED  BY <3>4 DEF Older
    <2>. QED  BY <2>3, <2>4
  <1>2. DurableInv /\ StreamInv /\ JournalInv /\ [DurableNext]_allVars
          => [\A id \in OrderID : ("journal" \notin faults /\ projection[id] # None) =>
                /\ Terminal(projection[id].status) => projection'[id] = projection[id]
                /\ projection'[id].filled >= projection[id].filled]_allVars
    BY <1>1
  <1>. QED
    BY <1>2, DurableControl, StreamInvariant, JournalInvariant, PTL
       DEF DurableSpec, ProjectionOnlyAdvances

-----------------------------------------------------------------------------
(* The trade history of the first process. *)

AppendOf(t) == [write |-> "AppendTrade", trade |-> t]

(* t is in the history, about to be written to it, or its write was lost. *)
Somewhere(t, ts, q, r) ==
    \/ \E k \in 1..Len(ts) : ts[k] = t
    \/ \E k \in 1..Len(q) : q[k] = AppendOf(t)
    \/ \E k \in 1..Len(r) : r[k] = AppendOf(t)

(* All that is in s is in r. *)
Within(s, r) == \A k \in 1..Len(s) : \E m \in 1..Len(r) : r[m] = s[k]

(* t is the trade of a marked event. *)
Traded(t, j, l) == \E i \in j : IsTrade(l[i]) /\ l[i].trade = t

(* The history has the trades of the marked events and no others, each once:
   no two of them carry the same identifier. *)
Exact(j, l, ts, q, r) ==
    /\ \A i \in j : IsTrade(l[i]) => Somewhere(l[i].trade, ts, q, r)
    /\ \A k \in 1..Len(ts) : Traded(ts[k], j, l)
    /\ \A k \in 1..Len(q) : q[k].write = "AppendTrade" => Traded(q[k].trade, j, l)
    /\ \A i, k \in 1..Len(ts) : ts[i].sequence = ts[k].sequence => i = k

HistoryInv == "crash" \notin faults => Exact(journal, log, trades, job, lost)

(* The identifier of a trade is the trade's alone. *)
LEMMA OneTradePerID ==
    ASSUME ControlInv, Numbered(Stream, tradeSeq),
           NEW t, NEW u, Traded(t, journal, log), Traded(u, journal, log),
           t.sequence = u.sequence
    PROVE  t = u
  <1>1. journal \in SUBSET (1..Len(log))
    BY LogFacts DEF ControlInv
  <1>2. PICK i \in journal : IsTrade(log[i]) /\ log[i].trade = t
    BY DEF Traded
  <1>3. PICK k \in journal : IsTrade(log[k]) /\ log[k].trade = u
    BY DEF Traded
  <1>4. /\ Stream[i] = log[i] /\ i \in 1..Len(Stream)
        /\ Stream[k] = log[k] /\ k \in 1..Len(Stream)
    BY <1>1, LogLeads
  <1>5. i = k
    BY <1>2, <1>3, <1>4 DEF Numbered
  <1>. QED  BY <1>2, <1>3, <1>5

(* The log has the marked events as they were. *)
LEMMA ExactLog ==
    ASSUME NEW j, NEW l, NEW l2, \A i \in j : l2[i] = l[i], NEW ts, NEW q, NEW r,
           Exact(j, l, ts, q, r)
    PROVE  Exact(j, l2, ts, q, r)
  BY DEF Exact, Traded

(* An event is marked and its writes become the job, or are lost at once. *)
LEMMA ExactMarked ==
    ASSUME NEW j, NEW l, NEW ts, NEW r, Exact(j, l, ts, <<>>, r),
           NEW p, NEW w, Settles(w, l[p]), NEW q2, NEW r2,
           \/ q2 = w /\ r2 = r
           \/ q2 = <<>> /\ Within(r, r2) /\ Within(w, r2)
    PROVE  Exact(j \cup {p}, l, ts, q2, r2)
  <1>. DEFINE j2 == j \cup {p}
  <1>1. \A t : Traded(t, j, l) => Traded(t, j2, l)
    BY DEF Traded
  <1>2. IsTrade(l[p]) => Traded(l[p].trade, j2, l)
    BY DEF Traded
  <1>3. ASSUME NEW i \in j2, IsTrade(l[i])
        PROVE  Somewhere(l[i].trade, ts, q2, r2)
    <2>1. CASE i \in j
      <3>1. Somewhere(l[i].trade, ts, <<>>, r)
        BY <1>3, <2>1 DEF Exact
      <3>2. CASE \E k \in 1..Len(ts) : ts[k] = l[i].trade
        BY <3>2 DEF Somewhere
      <3>3. CASE \E k \in 1..Len(r) : r[k] = AppendOf(l[i].trade)
        BY <3>3 DEF Somewhere, Within
      <3>4. ~\E k \in 1..Len(<<>>) : TRUE
        BY EmptySeq
      <3>. QED  BY <3>1, <3>2, <3>3, <3>4 DEF Somewhere
    <2>2. CASE i = p
      <3>1. \E k \in 1..Len(w) : w[k] = AppendOf(l[i].trade)
        BY <1>3, <2>2 DEF Settles, AppendOf
      <3>. QED  BY <3>1 DEF Somewhere, Within
    <2>. QED  BY <2>1, <2>2
  <1>4. \A k \in 1..Len(ts) : Traded(ts[k], j2, l)
    BY <1>1 DEF Exact
  <1>5. ASSUME NEW k \in 1..Len(q2), q2[k].write = "AppendTrade"
        PROVE  Traded(q2[k].trade, j2, l)
    <2>1. q2 # <<>>
      BY <1>5, EmptySeq
    <2>2. q2 = w
      BY <2>1
    <2>. QED  BY <1>2, <1>5, <2>2 DEF Settles
  <1>6. \A i, k \in 1..Len(ts) : ts[i].sequence = ts[k].sequence => i = k
    BY DEF Exact
  <1>. HIDE DEF j2
  <1>7. Exact(j2, l, ts, q2, r2)
    BY <1>3, <1>4, <1>5, <1>6 DEF Exact
  <1>. QED  BY <1>7 DEF j2

(* A write leaves the job: it was no trade, or its trade is in the history or
   among the lost writes now. *)
LEMMA ExactTail ==
    ASSUME NEW j, NEW l, NEW ts, NEW q \in Seq(Write), q # <<>>, NEW r, Exact(j, l, ts, q, r),
           NEW ts2, NEW r2,
           \A k \in 1..Len(ts2) : Traded(ts2[k], j, l),
           \A i, k \in 1..Len(ts2) : ts2[i].sequence = ts2[k].sequence => i = k,
           Within(ts, ts2), Within(r, r2),
           \/ Head(q).write # "AppendTrade"
           \/ \E m \in 1..Len(ts2) : ts2[m] = Head(q).trade
           \/ \E m \in 1..Len(r2) : r2[m] = Head(q)
    PROVE  Exact(j, l, ts2, Tail(q), r2)
  <1>. DEFINE q2 == Tail(q)
  <1>0. /\ Head(q) = q[1]
        /\ \A k \in 1..Len(q2) : q2[k] = q[k + 1] /\ k + 1 \in 1..Len(q)
        /\ \A k \in 1..Len(q) : k = 1 \/ (k - 1 \in 1..Len(q2) /\ q2[k - 1] = q[k])
    BY TailElements
  <1>. HIDE DEF q2
  <1>1. ASSUME NEW i \in j, IsTrade(l[i])
        PROVE  Somewhere(l[i].trade, ts2, q2, r2)
    <2>. DEFINE t == l[i].trade
    <2>0. Somewhere(t, ts, q, r)
      BY <1>1 DEF Exact
    <2>. SUFFICES Somewhere(t, ts2, q2, r2)
      OBVIOUS
    <2>. HIDE DEF t
    <2>1. CASE \E k \in 1..Len(ts) : ts[k] = t
      BY <2>1 DEF Somewhere, Within
    <2>2. CASE \E k \in 1..Len(r) : r[k] = AppendOf(t)
      BY <2>2 DEF Somewhere, Within
    <2>3. CASE \E k \in 1..Len(q) : q[k] = AppendOf(t)
      <3>1. PICK k \in 1..Len(q) : q[k] = AppendOf(t)
        BY <2>3
      <3>2. CASE k = 1
        <4>1. Head(q) = AppendOf(t) /\ Head(q).write = "AppendTrade" /\ Head(q).trade = t
          BY <1>0, <3>1, <3>2 DEF AppendOf
        <4>. QED  BY <4>1 DEF Somewhere
      <3>3. CASE k # 1
        <4>1. k - 1 \in 1..Len(q2) /\ q2[k - 1] = AppendOf(t)
          BY <1>0, <3>1, <3>3
        <4>2. \E m \in 1..Len(q2) : q2[m] = AppendOf(t)
          BY <4>1
        <4>. QED  BY <4>2 DEF Somewhere
      <3>. QED  BY <3>2, <3>3
    <2>. QED  BY <2>0, <2>1, <2>2, <2>3 DEF Somewhere
  <1>2. \A k \in 1..Len(q2) : q2[k].write = "AppendTrade" => Traded(q2[k].trade, j, l)
    <2>1. \A k \in 1..Len(q) : q[k].write = "AppendTrade" => Traded(q[k].trade, j, l)
      BY DEF Exact
    <2>. QED  BY <1>0, <2>1
  <1>3. Exact(j, l, ts2, q2, r2)
    BY <1>1, <1>2 DEF Exact
  <1>. QED  BY <1>3 DEF q2

(* Settlement writes a trade, or finds it there. *)
LEMMA AppendExact ==
    ASSUME DurableInv, Numbered(Stream, tradeSeq), PostgresAppend,
           Exact(journal, log, trades, job, lost)
    PROVE  Exact(journal, log, trades', Tail(job), lost)
  <1>. DEFINE t == Head(job).trade
  <1>0. ControlInv /\ job \in Seq(Write) /\ trades \in Seq(Trade)
    BY DEF DurableInv, ControlInv, JobOK, StoresOK
  <1>1. /\ job # <<>> /\ Head(job).write = "AppendTrade"
        /\ trades' = IF Recorded(t) THEN trades ELSE Append(trades, t)
    BY DEF PostgresAppend, AppendTrade
  <1>2. Traded(t, journal, log)
    BY <1>0, <1>1, TailElements DEF Exact
  <1>3. t \in Trade
    BY <1>0, <1>1, TailElements, WriteKinds
  <1>4. Within(lost, lost)
    BY DEF Within
  <1>5. /\ \A k \in 1..Len(trades) : Traded(trades[k], journal, log)
        /\ \A i, k \in 1..Len(trades) : trades[i].sequence = trades[k].sequence => i = k
    BY DEF Exact
  <1>6. CASE Recorded(t)
    <2>1. PICK k \in 1..Len(trades) : trades[k].sequence = t.sequence
      BY <1>6 DEF Recorded, SameTradeID
    <2>2. trades[k] = t
      BY <1>0, <1>2, <1>5, <2>1, OneTradePerID
    <2>3. trades' = trades
      BY <1>1, <1>6
    <2>4. Within(trades, trades)
      BY DEF Within
    <2>5. \E m \in 1..Len(trades) : trades[m] = Head(job).trade
      BY <2>2
    <2>6. Exact(journal, log, trades, Tail(job), lost)
      BY <1>0, <1>1, <1>4, <1>5, <2>4, <2>5, ExactTail
    <2>. QED  BY <2>3, <2>6
  <1>7. CASE ~Recorded(t)
    <2>. DEFINE ts == Append(trades, t)
    <2>1. trades' = ts
      BY <1>1, <1>7
    <2>2. /\ Len(trades) \in Nat /\ Len(ts) = Len(trades) + 1 /\ ts[Len(trades) + 1] = t
          /\ \A k \in 1..Len(trades) : ts[k] = trades[k]
      BY <1>0, <1>3
    <2>3. \A k \in 1..Len(trades) : trades[k].sequence # t.sequence
      BY <1>7 DEF Recorded, SameTradeID
    <2>. HIDE DEF ts
    <2>4. \A k \in 1..Len(ts) : k \in 1..Len(trades) \/ k = Len(trades) + 1
      BY <2>2
    <2>5. \A k \in 1..Len(ts) : Traded(ts[k], journal, log)
      BY <1>2, <1>5, <2>2, <2>4
    <2>6. \A i, k \in 1..Len(ts) : ts[i].sequence = ts[k].sequence => i = k
      BY <1>5, <2>2, <2>3, <2>4
    <2>7. Within(trades, ts) /\ \E m \in 1..Len(ts) : ts[m] = Head(job).trade
      BY <2>2 DEF Within
    <2>8. Exact(journal, log, ts, Tail(job), lost)
      BY <1>0, <1>1, <1>4, <2>5, <2>6, <2>7, ExactTail
    <2>. QED  BY <2>1, <2>8
  <1>. QED  BY <1>6, <1>7

(* HistoryInv is inductive. *)
LEMMA HistoryStep ==
    ASSUME DurableInv, StreamInv, HistoryInv, [DurableNext]_allVars
    PROVE  HistoryInv'
  <1>1. SUFFICES ASSUME "crash" \notin faults'
                 PROVE  Exact(journal', log', trades', job', lost')
    BY DEF HistoryInv
  <1>2. Exact(journal, log, trades, job, lost) /\ Numbered(Stream, tradeSeq)
    BY <1>1, FaultsStay DEF HistoryInv, StreamInv
  <1>3. /\ Len(log) \in Nat /\ pos \in Nat /\ log \in Seq(Event)
        /\ journal \in SUBSET (1..Len(log)) /\ job \in Seq(Write) /\ lost \in Seq(Write)
    BY LogFacts DEF DurableInv, ControlInv, JobOK
  <1>4. CASE Elsewhere
    <2>1. \A i \in journal : log'[i] = log[i]
      BY <1>3, <1>4 DEF Elsewhere
    <2>2. Exact(journal, log', trades, job, lost)
      BY <1>2, <2>1, ExactLog
    <2>. QED  BY <1>4, <2>2 DEF Elsewhere
  <1>5. ASSUME pos < Len(log)
        PROVE  /\ log[pos + 1] \in Event /\ Writes(log[pos + 1]) \in Seq(Write)
               /\ Settles(Writes(log[pos + 1]), log[pos + 1])
    <2>1. log[pos + 1] \in Event
      BY <1>3, <1>5
    <2>. QED  BY <2>1, WritesTell
  <1>6. CASE SettlementReceive /\ UNCHANGED durableVars
    <2>1. /\ job = <<>> /\ UNCHANGED <<log, trades, lost>> /\ pos < Len(log)
          /\ job' = IF pos + 1 \notin journal THEN Writes(log[pos + 1]) ELSE <<>>
          /\ journal' = journal \cup {pos + 1}
      BY <1>6 DEF SettlementReceive, Fresh, MarkProcessed, durableVars
    <2>2. CASE pos + 1 \notin journal
      <3>. DEFINE w == Writes(log[pos + 1])
                  p == pos + 1
      <3>1. Settles(w, log[p]) /\ job' = w /\ journal' = journal \cup {p}
        BY <1>5, <2>1, <2>2
      <3>. HIDE DEF w, p
      <3>2. Exact(journal \cup {p}, log, trades, w, lost)
        BY <1>2, <2>1, <3>1, ExactMarked
      <3>. QED  BY <2>1, <3>1, <3>2
    <2>3. CASE pos + 1 \in journal
      <3>1. journal' = journal /\ job' = job
        BY <2>1, <2>3
      <3>. QED  BY <1>2, <2>1, <3>1
    <2>. QED  BY <2>2, <2>3
  <1>7. CASE (SettlementWallet \/ PostgresUpsert) /\ UNCHANGED durableVars
    <2>1. /\ job # <<>> /\ job' = Tail(job) /\ Head(job).write # "AppendTrade"
          /\ UNCHANGED <<log, journal, trades, lost>>
      BY <1>7 DEF SettlementWallet, PostgresUpsert, WalletWrites, logVars, durableVars
    <2>2. /\ \A k \in 1..Len(trades) : Traded(trades[k], journal, log)
          /\ \A i, k \in 1..Len(trades) : trades[i].sequence = trades[k].sequence => i = k
      BY <1>2 DEF Exact
    <2>3. Within(trades, trades) /\ Within(lost, lost)
      BY DEF Within
    <2>4. Exact(journal, log, trades, Tail(job), lost)
      BY <1>2, <1>3, <2>1, <2>2, <2>3, ExactTail
    <2>. QED  BY <2>1, <2>4
  <1>8. CASE PostgresAppend /\ UNCHANGED durableVars
    <2>1. job' = Tail(job) /\ UNCHANGED <<log, journal, lost>>
      BY <1>8 DEF PostgresAppend, logVars, durableVars
    <2>2. Exact(journal, log, trades', Tail(job), lost)
      BY <1>2, <1>8, AppendExact
    <2>. QED  BY <2>1, <2>2
  <1>9. CASE WriteFails
    <2>1. /\ job # <<>> /\ job' = Tail(job) /\ lost' = Append(lost, Head(job))
          /\ UNCHANGED <<log, journal, trades>>
      BY <1>9 DEF WriteFails, logVars
    <2>. DEFINE r == Append(lost, Head(job))
    <2>2. Head(job) \in Write
      BY <1>3, <2>1, TailElements
    <2>3. /\ Len(lost) \in Nat /\ Len(r) = Len(lost) + 1 /\ r[Len(lost) + 1] = Head(job)
          /\ \A k \in 1..Len(lost) : r[k] = lost[k]
      BY <1>3, <2>2
    <2>. HIDE DEF r
    <2>4. Within(lost, r) /\ \E m \in 1..Len(r) : r[m] = Head(job)
      BY <2>3 DEF Within
    <2>5. /\ \A k \in 1..Len(trades) : Traded(trades[k], journal, log)
          /\ \A i, k \in 1..Len(trades) : trades[i].sequence = trades[k].sequence => i = k
      BY <1>2 DEF Exact
    <2>6. Within(trades, trades)
      BY DEF Within
    <2>7. Exact(journal, log, trades, Tail(job), r)
      BY <1>2, <1>3, <2>1, <2>4, <2>5, <2>6, ExactTail
    <2>. QED  BY <2>1, <2>7 DEF r
  <1>10. CASE JournalFails
    <2>1. /\ job = <<>> /\ UNCHANGED <<log, trades, job>> /\ pos < Len(log)
          /\ \/ UNCHANGED <<journal, lost>>
             \/ /\ journal' = journal \cup {pos + 1}
                /\ lost' = IF pos + 1 \notin journal THEN lost \o Writes(log[pos + 1]) ELSE lost
      BY <1>10 DEF JournalFails, MarkProcessed, Fresh
    <2>2. CASE UNCHANGED <<journal, lost>>
      BY <1>2, <2>1, <2>2
    <2>3. CASE pos + 1 \in journal /\ journal' = journal \cup {pos + 1}
      <3>1. journal' = journal /\ lost' = lost
        BY <2>1, <2>3
      <3>. QED  BY <2>2, <3>1
    <2>4. CASE /\ pos + 1 \notin journal /\ journal' = journal \cup {pos + 1}
               /\ lost' = lost \o Writes(log[pos + 1])
      <3>. DEFINE w == Writes(log[pos + 1])
                  p == pos + 1
      <3>1. /\ Settles(w, log[p]) /\ journal' = journal \cup {p} /\ w \in Seq(Write)
            /\ lost' = lost \o w
        BY <1>5, <2>1, <2>4
      <3>. HIDE DEF w, p
      <3>. DEFINE r == lost \o w
      <3>2. /\ Len(r) = Len(lost) + Len(w) /\ Len(lost) \in Nat /\ Len(w) \in Nat
            /\ \A i \in 1..(Len(lost) + Len(w)) :
                 r[i] = IF i <= Len(lost) THEN lost[i] ELSE w[i - Len(lost)]
        <4>1. Len(lost) \in Nat /\ Len(w) \in Nat
          BY <1>3, <3>1, LenProperties
        <4>. QED  BY <1>3, <3>1, <4>1, ConcatProperties
      <3>. HIDE DEF r
      <3>3. \A k \in 1..Len(lost) : k \in 1..Len(r) /\ r[k] = lost[k]
        BY <3>2
      <3>4. ASSUME NEW k \in 1..Len(w)
            PROVE  Len(lost) + k \in 1..Len(r) /\ r[Len(lost) + k] = w[k]
        <4>1. /\ Len(lost) + k \in 1..(Len(lost) + Len(w)) /\ ~(Len(lost) + k <= Len(lost))
              /\ (Len(lost) + k) - Len(lost) = k
          BY <3>2
        <4>. QED  BY <3>2, <4>1
      <3>5. Within(lost, r) /\ Within(w, r)
        BY <3>3, <3>4 DEF Within
      <3>6. Exact(journal, log, trades, <<>>, lost)
        BY <1>2, <2>1
      <3>7. Exact(journal \cup {p}, log, trades, <<>>, r)
        BY <3>1, <3>5, <3>6, ExactMarked
      <3>. QED  BY <2>1, <3>1, <3>7 DEF r
    <2>. QED  BY <2>1, <2>2, <2>3, <2>4
  <1>11. CASE Rewind
    <2>1. UNCHANGED <<log, journal, job, trades, lost>>
      BY <1>11 DEF Rewind, settlementVars
    <2>. QED  BY <1>2, <2>1
  <1>12. CASE Crash
    BY <1>1, <1>12, FaultsStay
  <1>. QED  BY <1>4, <1>6, <1>7, <1>8, <1>9, <1>10, <1>11, <1>12, SettlementViews

(* The history starts empty. *)
LEMMA HistoryStart ==
    ASSUME DurableInit
    PROVE  HistoryInv
  <1>1. journal = {} /\ job = <<>> /\ trades = <<>>
    BY DEF DurableInit, Started, Untouched
  <1>2. Len(trades) = 0 /\ Len(job) = 0
    BY <1>1, EmptySeq
  <1>. QED  BY <1>1, <1>2 DEF HistoryInv, Exact

(* Until a process dies, the history has exactly the trades of the events that
   were settled. *)
THEOREM HistoryInvariant == DurableSpec => []HistoryInv
  <1>1. DurableInit => HistoryInv
    BY HistoryStart
  <1>2. DurableInv /\ StreamInv /\ HistoryInv /\ [DurableNext]_allVars => HistoryInv'
    BY HistoryStep
  <1>. QED  BY <1>1, <1>2, DurableControl, StreamInvariant, PTL DEF DurableSpec

(* Within the life of a process the trade history is full and repeats no trade,
   through redeliveries, a journal that errs and writes that fail: what is
   missing is among the writes that settlement lost. *)
THEOREM TradeHistoryIsExact == DurableSpec => []TradeHistoryExact
  <1>1. ASSUME HistoryInv
        PROVE  TradeHistoryExact
    <2>1. ASSUME "crash" \notin faults
          PROVE  FullTradeHistory
      <3>1. Exact(journal, log, trades, job, lost)
        BY <1>1, <2>1 DEF HistoryInv
      <3>. QED  BY <3>1 DEF Exact, FullTradeHistory, IsTrade, Somewhere, AppendOf
    <2>2. ASSUME "crash" \notin faults,
                 NEW i \in 1..Len(trades), NEW k \in 1..Len(trades), trades[i] = trades[k]
          PROVE  i = k
      BY <1>1, <2>2 DEF HistoryInv, Exact
    <2>. QED  BY <2>1, <2>2 DEF TradeHistoryExact
  <1>. QED  BY <1>1, HistoryInvariant, PTL

-----------------------------------------------------------------------------
(* Redelivery alone *)

(* The last snapshot marked of an order is shown, or about to be. *)
Current(pr, q, j, l) ==
    \A id \in OrderID : \A i \in j :
        (Updates(l[i], id) /\ \A k \in j : k > i => ~Updates(l[k], id)) =>
            \/ pr[id] = l[i].order
            \/ \E k \in 1..Len(q) :
                  q[k].write = "UpsertOrder" /\ q[k].id = id /\ q[k].order = l[i].order

(* The store differs at most in x's snapshot, which is the last one marked. *)
Refreshed(x, pr, pr2, j, l) ==
    /\ \A id \in OrderID \ {x} : pr2[id] = pr[id]
    /\ x \in OrderID =>
          \A i \in j : (Updates(l[i], x) /\ \A k \in j : k > i => ~Updates(l[k], x))
                          => pr2[x] = l[i].order

(* The first write can only be an upsert of x. *)
HeadOf(q, x) == Head(q).write = "UpsertOrder" => Head(q).id = x

(* Nothing has been lost, and the stores keep up with the journal. *)
RedeliveryInv ==
    faults \subseteq {"rewind"} =>
        resumed = 0 /\ lost = <<>> /\ Current(projection, job, journal, log)

(* The log has the marked events as they were. *)
LEMMA CurrentLog ==
    ASSUME NEW j, NEW l, NEW l2, \A i \in j : l2[i] = l[i], NEW pr, NEW q, Current(pr, q, j, l)
    PROVE  Current(pr, q, j, l2)
  BY DEF Current

(* A fresh event, marked last, supersedes the snapshots of its order. *)
LEMMA CurrentMarked ==
    ASSUME NEW pr, NEW j, NEW l, Current(pr, <<>>, j, l), NEW p, p \notin j,
           NEW w, Settles(w, l[p])
    PROVE  Current(pr, w, j \cup {p}, l)
  <1>. DEFINE j2 == j \cup {p}
  <1>1. ASSUME NEW id \in OrderID, NEW i \in j2, Updates(l[i], id),
               \A k \in j2 : k > i => ~Updates(l[k], id)
        PROVE  \/ pr[id] = l[i].order
               \/ \E k \in 1..Len(w) :
                     w[k].write = "UpsertOrder" /\ w[k].id = id /\ w[k].order = l[i].order
    <2>1. CASE i = p
      BY <1>1, <2>1 DEF Settles
    <2>2. CASE i \in j
      <3>1. \A k \in j : k > i => ~Updates(l[k], id)
        BY <1>1
      <3>2. ~\E k \in 1..Len(<<>>) : TRUE
        BY EmptySeq
      <3>3. pr[id] = l[i].order
        BY <1>1, <2>2, <3>1, <3>2 DEF Current
      <3>. QED  BY <3>3
    <2>. QED  BY <1>1, <2>1, <2>2
  <1>2. Current(pr, w, j2, l)
    BY <1>1 DEF Current
  <1>. QED  BY <1>2

(* A write that is none of an order's leaves the others. *)
LEMMA CurrentTail ==
    ASSUME NEW pr, NEW j, NEW l, NEW q \in Seq(Write), q # <<>>, Current(pr, q, j, l),
           NEW pr2, NEW x, Refreshed(x, pr, pr2, j, l), HeadOf(q, x)
    PROVE  Current(pr2, Tail(q), j, l)
  <1>1. ASSUME NEW id \in OrderID, NEW i \in j, Updates(l[i], id),
               \A k \in j : k > i => ~Updates(l[k], id)
        PROVE  \/ pr2[id] = l[i].order
               \/ \E k \in 1..Len(Tail(q)) :
                     /\ Tail(q)[k].write = "UpsertOrder" /\ Tail(q)[k].id = id
                     /\ Tail(q)[k].order = l[i].order
    <2>1. CASE id = x
      BY <1>1, <2>1 DEF Refreshed
    <2>2. CASE id # x /\ pr[id] = l[i].order
      BY <2>2 DEF Refreshed
    <2>3. CASE id # x /\ pr[id] # l[i].order
      <3>1. PICK k \in 1..Len(q) :
               q[k].write = "UpsertOrder" /\ q[k].id = id /\ q[k].order = l[i].order
        BY <1>1, <2>3 DEF Current
      <3>2. k # 1
        BY <2>3, <3>1, TailElements DEF HeadOf
      <3>3. k - 1 \in 1..Len(Tail(q)) /\ Tail(q)[k - 1] = q[k]
        BY <3>2, TailElements
      <3>. QED  BY <3>1, <3>3
    <2>. QED  BY <2>1, <2>2, <2>3
  <1>. QED  BY <1>1 DEF Current

(* The store takes the snapshot that settlement brings. *)
LEMMA UpsertCurrent ==
    ASSUME DurableInv, StreamInv, Shown(projection, journal, log), FromLast(job, journal, log),
           PostgresUpsert, Current(projection, job, journal, log)
    PROVE  Current(projection', Tail(job), journal, log)
  <1>. DEFINE id == Head(job).id
              o == Head(job).order
  <1>0. /\ job \in Seq(Write) /\ projection \in [OrderID -> Order \cup {None}]
        /\ journal \in SUBSET (1..Len(log)) /\ Len(log) \in Nat
    BY LogFacts DEF DurableInv, ControlInv, JobOK, StoresOK
  <1>1. /\ job # <<>> /\ Head(job).write = "UpsertOrder"
        /\ NotNewer(id, o) => projection' = [projection EXCEPT ![id] = o]
    BY DEF PostgresUpsert, UpsertOrder
  <1>2. /\ id \in OrderID /\ o \in Order
        /\ projection[id] # None => Older(projection[id], o)
        /\ \E i \in journal : Updates(log[i], id) /\ log[i].order = o
                              /\ \A m \in journal : m <= i
    BY <1>1, UpsertAdvances
  <1>3. PICK m \in journal : /\ Updates(log[m], id) /\ log[m].order = o
                             /\ \A k \in journal : k <= m
    BY <1>2
  <1>4. Head(job).id = id
    OBVIOUS
  <1>. HIDE DEF id, o
  <1>5. NotNewer(id, o)
    <2>1. projection[id] # None => projection[id].sequence = o.sequence
      BY <1>2 DEF Older
    <2>2. o.sequence \in Nat
      BY <1>2 DEF Order
    <2>. QED  BY <2>1, <2>2 DEF NotNewer
  <1>6. projection'[id] = o /\ \A x \in OrderID : x # id => projection'[x] = projection[x]
    BY <1>0, <1>1, <1>2, <1>5
  <1>7. ASSUME NEW i \in journal, Updates(log[i], id),
               \A k \in journal : k > i => ~Updates(log[k], id)
        PROVE  projection'[id] = log[i].order
    <2>1. i = m
      BY <1>0, <1>3, <1>7
    <2>. QED  BY <1>3, <1>6, <2>1
  <1>8. Refreshed(id, projection, projection', journal, log)
    BY <1>6, <1>7 DEF Refreshed
  <1>9. HeadOf(job, id)
    BY <1>4 DEF HeadOf
  <1>. QED  BY <1>0, <1>1, <1>8, <1>9, CurrentTail

(* RedeliveryInv is inductive. *)
LEMMA RedeliveryStep ==
    ASSUME DurableInv, StreamInv, JournalInv, RedeliveryInv, [DurableNext]_allVars
    PROVE  RedeliveryInv'
  <1>1. SUFFICES ASSUME faults' \subseteq {"rewind"}
                 PROVE  /\ resumed' = 0 /\ lost' = <<>>
                        /\ Current(projection', job', journal', log')
    BY DEF RedeliveryInv
  <1>2. faults \subseteq {"rewind"} /\ "journal" \notin faults /\ "crash" \notin faults'
        /\ "write" \notin faults' /\ "journal" \notin faults'
    BY <1>1, FaultsStay
  <1>3. /\ resumed = 0 /\ lost = <<>> /\ Current(projection, job, journal, log)
        /\ InOrder /\ Shown(projection, journal, log) /\ FromLast(job, journal, log)
    BY <1>2 DEF RedeliveryInv, JournalInv
  <1>4. /\ Len(log) \in Nat /\ pos \in Nat /\ log \in Seq(Event)
        /\ journal \in SUBSET (1..Len(log)) /\ job \in Seq(Write)
    BY LogFacts DEF DurableInv, ControlInv, JobOK
  <1>5. CASE Elsewhere
    <2>1. \A i \in journal : log'[i] = log[i]
      BY <1>4, <1>5 DEF Elsewhere
    <2>2. Current(projection, job, journal, log')
      BY <1>3, <2>1, CurrentLog
    <2>. QED  BY <1>3, <1>5, <2>2 DEF Elsewhere
  <1>6. CASE SettlementReceive /\ UNCHANGED durableVars
    <2>1. /\ job = <<>> /\ UNCHANGED <<log, projection, lost, resumed>> /\ pos < Len(log)
          /\ job' = IF pos + 1 \notin journal THEN Writes(log[pos + 1]) ELSE <<>>
          /\ journal' = journal \cup {pos + 1}
      BY <1>6 DEF SettlementReceive, Fresh, MarkProcessed, durableVars
    <2>2. CASE pos + 1 \notin journal
      <3>. DEFINE p == pos + 1
                  e == log[p]
                  w == Writes(e)
      <3>1. e \in Event
        BY <1>4, <2>1
      <3>2. job' = w /\ journal' = journal \cup {p} /\ p \notin journal /\ log[p] = e /\ w = Writes(e)
        BY <2>1, <2>2
      <3>. HIDE DEF p, e, w
      <3>3. Settles(w, log[p])
        BY <3>1, <3>2, WritesTell
      <3>4. Current(projection, w, journal \cup {p}, log)
        BY <1>3, <2>1, <3>2, <3>3, CurrentMarked
      <3>. QED  BY <1>3, <2>1, <3>2, <3>4
    <2>3. CASE pos + 1 \in journal
      <3>1. journal' = journal /\ job' = job
        BY <2>1, <2>3
      <3>. QED  BY <1>3, <2>1, <3>1
    <2>. QED  BY <2>2, <2>3
  <1>7. CASE (SettlementWallet \/ PostgresAppend) /\ UNCHANGED durableVars
    <2>1. /\ job # <<>> /\ job' = Tail(job) /\ Head(job).write # "UpsertOrder"
          /\ UNCHANGED <<log, journal, projection, lost, resumed>>
      BY <1>7 DEF SettlementWallet, PostgresAppend, WalletWrites, logVars, durableVars
    <2>2. Refreshed(None, projection, projection, journal, log) /\ HeadOf(job, None)
      BY <2>1, NoneAssumption DEF Refreshed, HeadOf
    <2>3. Current(projection, Tail(job), journal, log)
      BY <1>3, <1>4, <2>1, <2>2, CurrentTail
    <2>. QED  BY <1>3, <2>1, <2>3
  <1>8. CASE PostgresUpsert /\ UNCHANGED durableVars
    <2>1. job' = Tail(job) /\ UNCHANGED <<log, journal, lost, resumed>>
      BY <1>8 DEF PostgresUpsert, logVars, durableVars
    <2>2. Current(projection', Tail(job), journal, log)
      BY <1>3, <1>8, UpsertCurrent
    <2>. QED  BY <1>3, <2>1, <2>2
  <1>9. CASE Rewind
    <2>1. UNCHANGED <<log, journal, job, projection, lost, resumed>>
      BY <1>9 DEF Rewind, settlementVars
    <2>. QED  BY <1>3, <2>1
  <1>10. CASE Crash \/ JournalFails \/ WriteFails
    BY <1>2, <1>10, FaultsStay
  <1>. QED  BY <1>5, <1>6, <1>7, <1>8, <1>9, <1>10, SettlementViews

(* It holds of the first process. *)
LEMMA RedeliveryStart ==
    ASSUME DurableInit
    PROVE  RedeliveryInv
  <1>1. journal = {} /\ resumed = 0 /\ lost = <<>>
    BY DEF DurableInit, Untouched
  <1>. QED  BY <1>1 DEF RedeliveryInv, Current

(* Redeliveries lose nothing and leave no order behind. *)
THEOREM RedeliveryInvariant == DurableSpec => []RedeliveryInv
  <1>1. DurableInit => RedeliveryInv
    BY RedeliveryStart
  <1>2. /\ DurableInv /\ StreamInv /\ JournalInv /\ RedeliveryInv
        /\ [DurableNext]_allVars
        => RedeliveryInv'
    BY RedeliveryStep
  <1>. QED
    BY <1>1, <1>2, DurableControl, StreamInvariant, JournalInvariant, PTL DEF DurableSpec

(* f numbers m things from 1 to n, each number given once. *)
Numbering(f, m, n) ==
    /\ f \in [1..m -> 1..n]
    /\ \A i, k \in 1..m : f[i] = f[k] => i = k
    /\ \A x \in 1..n : \E i \in 1..m : f[i] = x

(* A numbering from 1 counts. *)
LEMMA NumberingCounts ==
    ASSUME NEW m \in Nat, NEW n \in Nat, NEW f, Numbering(f, m, n)
    PROVE  m = n
  <1>. DEFINE S == 1..m
              T == 1..n
  <1>1. f \in Injection(S, T) /\ f \in Surjection(S, T)
    BY Fun_IsInj, Fun_IsSurj DEF Numbering
  <1>2. f \in Bijection(S, T)
    BY <1>1 DEF Bijection
  <1>3. ExistsBijection(S, T)
    BY <1>2, Zenon DEF ExistsBijection
  <1>4. 1 \in Int /\ m \in Int /\ n \in Int
    OBVIOUS
  <1>5. IsFiniteSet(S) /\ Cardinality(S) = IF 1 > m THEN 0 ELSE m - 1 + 1
    BY <1>4, FS_Interval, Zenon
  <1>6. Cardinality(T) = IF 1 > n THEN 0 ELSE n - 1 + 1
    BY <1>4, FS_Interval, Zenon
  <1>. HIDE DEF S, T
  <1>7. Cardinality(T) = Cardinality(S)
    BY <1>3, <1>5, FS_Bijection
  <1>. QED  BY <1>5, <1>6, <1>7

(* When nothing is under way, every event of the stream is in the log, marked
   and settled. *)
LEMMA QuietStream ==
    ASSUME DurableInv, InOrder, resumed = 0, Quiescent
    PROVE  /\ taker = None /\ job = <<>> /\ Len(log) \in Nat
           /\ journal = 1..Len(log)
           /\ Len(Stream) = Len(log) /\ \A i \in 1..Len(log) : Stream[i] = log[i]
  <1>0. ControlInv /\ PhasesOK
    BY DEF DurableInv, ControlInv
  <1>1. taker = None /\ outbox = <<>> /\ job = <<>> /\ pos = Len(log)
    BY <1>0 DEF Quiescent, EngineIdle, PhasesOK
  <1>2. log \in Seq(Event) /\ Len(log) \in Nat /\ journal \in SUBSET (1..Len(log))
    BY <1>0, LogFacts DEF ControlInv
  <1>3. Stream = log
    <2>1. Stream = (log \o <<>>) \o <<>>
      BY <1>1 DEF Stream
    <2>. QED  BY <1>2, <2>1, ConcatEmptySeq
  <1>4. \A i \in 1..Len(log) : i \in journal
    BY <1>1, <1>2 DEF InOrder
  <1>. QED  BY <1>1, <1>2, <1>3, <1>4

(* A redelivery leaves no trace: once everything has been delivered, every
   snapshot that GetOrder shows is the order in the book and the history has a
   trade for every trade made. *)
THEOREM RedeliveryLeavesNoTrace == DurableSpec => []ConvergedWhenQuiescent
  <1>1. ASSUME DurableInv, StreamInv, JournalInv, HistoryInv, RedeliveryInv,
               Quiescent, faults \subseteq {"rewind"}
        PROVE  projection = order /\ Len(trades) = tradeSeq
    <2>1. /\ Alive(Stream, order) /\ Latest(Stream, order, taker) /\ Numbered(Stream, tradeSeq)
          /\ InOrder /\ Shown(projection, journal, log)
          /\ Exact(journal, log, trades, job, lost)
          /\ resumed = 0 /\ lost = <<>> /\ Current(projection, job, journal, log)
      BY <1>1 DEF StreamInv, JournalInv, HistoryInv, RedeliveryInv
    <2>2. /\ taker = None /\ job = <<>> /\ Len(log) \in Nat /\ journal = 1..Len(log)
          /\ Len(Stream) = Len(log) /\ \A i \in 1..Len(log) : Stream[i] = log[i]
      BY <1>1, <2>1, QuietStream
    <2>3. /\ projection \in [OrderID -> Order \cup {None}]
          /\ order \in [OrderID -> Order \cup {None}]
          /\ trades \in Seq(Trade) /\ Len(trades) \in Nat /\ tradeSeq \in Nat
      BY <1>1, LenProperties DEF DurableInv, ControlInv, StoresOK, BookInv, TypeOK
    <2>4. ~(\E k \in 1..Len(job) : TRUE) /\ ~(\E k \in 1..Len(lost) : TRUE)
      BY <2>1, <2>2, EmptySeq
    <2>5. ASSUME NEW id \in OrderID
          PROVE  projection[id] = order[id]
      <3>1. CASE order[id] = None
        <4>1. \A i \in journal : ~Updates(log[i], id)
          BY <2>1, <2>2, <3>1 DEF Alive
        <4>. QED  BY <2>1, <3>1, <4>1 DEF Shown
      <3>2. CASE order[id] # None
        <4>1. id # taker
          BY <2>2, NoneAssumption
        <4>2. PICK i \in 1..Len(Stream) : /\ Updates(Stream[i], id) /\ Stream[i].order = order[id]
                                          /\ \A k \in 1..Len(Stream) : k > i => ~Updates(Stream[k], id)
          BY <2>1, <3>2, <4>1 DEF Latest
        <4>3. /\ i \in journal /\ Updates(log[i], id) /\ log[i].order = order[id]
              /\ \A k \in journal : k > i => ~Updates(log[k], id)
          BY <2>2, <4>2
        <4>. QED  BY <2>1, <2>4, <4>3 DEF Current
      <3>. QED  BY <3>1, <3>2
    <2>6. projection = order
      BY <2>3, <2>5
    <2>. DEFINE m == Len(trades)
                f == [k \in 1..m |-> trades[k].sequence]
    <2>7. ASSUME NEW k \in 1..m
          PROVE  trades[k].sequence \in 1..tradeSeq
      <3>1. PICK i \in journal : IsTrade(log[i]) /\ log[i].trade = trades[k]
        BY <2>1 DEF Exact, Traded
      <3>. QED  BY <2>1, <2>2, <3>1 DEF Numbered
    <2>8. ASSUME NEW x \in 1..tradeSeq
          PROVE  \E k \in 1..m : trades[k].sequence = x
      <3>1. PICK i \in 1..Len(Stream) : IsTrade(Stream[i]) /\ Stream[i].trade.sequence = x
        BY <2>1 DEF Numbered
      <3>2. i \in journal /\ IsTrade(log[i]) /\ log[i].trade.sequence = x
        BY <2>2, <3>1
      <3>3. Somewhere(log[i].trade, trades, job, lost)
        BY <2>1, <3>2 DEF Exact
      <3>. QED  BY <2>4, <3>2, <3>3 DEF Somewhere
    <2>9. \A i, k \in 1..m : trades[i].sequence = trades[k].sequence => i = k
      BY <2>1 DEF Exact
    <2>10. m \in Nat
      BY <2>3
    <2>. HIDE DEF m
    <2>11. f \in [1..m -> 1..tradeSeq]
      BY <2>7
    <2>12. /\ \A i, k \in 1..m : f[i] = f[k] => i = k
           /\ \A x \in 1..tradeSeq : \E k \in 1..m : f[k] = x
      BY <2>8, <2>9
    <2>. HIDE DEF f
    <2>13. Numbering(f, m, tradeSeq)
      BY <2>11, <2>12 DEF Numbering
    <2>14. m = tradeSeq
      BY <2>3, <2>10, <2>13, NumberingCounts
    <2>. QED  BY <2>6, <2>14 DEF m
  <1>2. ASSUME DurableInv, StreamInv, JournalInv, HistoryInv, RedeliveryInv
        PROVE  ConvergedWhenQuiescent
    BY <1>1, <1>2 DEF ConvergedWhenQuiescent
  <1>. QED
    BY <1>2, DurableControl, StreamInvariant, JournalInvariant, HistoryInvariant,
       RedeliveryInvariant, PTL
=============================================================================
