------------------------------ MODULE Startup ------------------------------
(***************************************************************************)
(* How a process starts and stops: the configuration (internal/config),    *)
(* bootstrap.Build with the retry loops of the three adapters that connect *)
(* to a service, telemetry, and the end of main (cmd/orderbook).           *)
(*                                                                         *)
(* Time is counted in pauses of a retry loop.  A service is down until the *)
(* moment it comes up, and from then on answers within the time of a ping. *)
(***************************************************************************)
EXTENDS Integers

CONSTANTS
    Env,               \* the environments: settings -> values, "" if not set
    ComeUp,            \* when a service may come up
    InfraWaitTimeout,  \* how long an adapter waits for its service
    Slack,             \* what the startup context adds to that
    PingTimeout        \* how long one ping may take

Service == {"postgres", "redis", "kafka"}
Setting == {"wallets", "trades", "orders", "eventLog", "cache", "telemetry"}

ASSUME TimesAssumption ==
    /\ InfraWaitTimeout \in Nat /\ PingTimeout \in Nat /\ Slack \in Nat \ {0}
    /\ ComeUp \subseteq Nat

VARIABLES
    env,       \* the environment of this process
    upAt,      \* when each service comes up
    now,       \* the clock
    stage,     \* where main and Build stand
    deadline,  \* when the wait of the adapter in hand ends
    open,      \* what the process has to close: clients and "otel"
    built,     \* the adapter chosen for each part
    failure    \* why the start failed, "" if it did not

vars == <<env, upAt, now, stage, deadline, open, built, failure>>

(* The startup context, which all adapters share, ends here. *)
Budget == InfraWaitTimeout + Slack

Unbuilt == [p \in Setting \cup {"journal"} |-> ""]

-----------------------------------------------------------------------------
(* Configuration *)

Default == [s \in Setting |-> CASE s = "cache" -> "none"
                                  [] s = "telemetry" -> "true"
                                  [] OTHER -> "memory"]

(* The values getEnv and getEnvBool accept: any but "", and only a Boolean. *)
Accepts(s, v) == IF s = "telemetry" THEN v \in {"true", "false"} ELSE v # ""

(* Load: what is not set, empty or not accepted has its default. *)
Load(e) == [s \in Setting |-> IF Accepts(s, e[s]) THEN e[s] ELSE Default[s]]

cfg == Load(env)

UsesPostgres == "postgres" \in {cfg.wallets, cfg.trades, cfg.orders}
UsesRedis == cfg.cache = "redis"
UsesKafka == cfg.eventLog = "kafka"

Init ==
    /\ env \in Env
    /\ upAt \in [Service -> ComeUp]
    /\ now = 0
    /\ stage = "postgres" /\ deadline = 0
    /\ open = {}
    /\ built = Unbuilt
    /\ failure = ""

Fail(why) == stage' = "failed" /\ failure' = why

(* A call that succeeds within the startup context, and one that fails, at the
   latest because the context has ended. *)
InTime == now' \in now..(Budget - 1)
AtLast == now' \in now..Budget

(* Infrastructure.Close: what it closes of the given clients. *)
InfraClose(clients) == clients \ {"redis", "postgres"}

(* Mutant of Release: Build forgets infra.Close. *)
ReleaseOwn(s) == open' = open \ {s}

(* The adapter closes its own client, if it has one, and after any adapter but
   the first Build calls infra.Close. *)
Release(s) == open' = IF s = "postgres" THEN open \ {s} ELSE InfraClose(open \ {s})

-----------------------------------------------------------------------------
(* The loop of an adapter *)

(* Its client is made, and its wait begins. *)
Dial(s) ==
    /\ s \notin open
    /\ open' = open \cup {s}
    /\ deadline' = now + InfraWaitTimeout
    /\ UNCHANGED <<env, upAt, now, stage, built, failure>>

(* An address that does not parse, or a client that cannot be made. *)
Unusable(s) ==
    /\ s \notin open
    /\ Release(s) /\ Fail("address")
    /\ UNCHANGED <<env, upAt, now, deadline, built>>

(* A ping that is answered, within its own time and the startup context. *)
Connected(s, next) ==
    /\ s \in open
    /\ now' \in now..(now + PingTimeout) /\ upAt[s] <= now' /\ InTime
    /\ stage' = next
    /\ UNCHANGED <<env, upAt, deadline, open, built, failure>>

(* Mutant of Expired: the first failed ping ends the loop. *)
ExpiredOnce(t) == TRUE

(* What the loop asks after a ping that failed at time t. *)
Expired(t) == t > deadline \/ t >= Budget

(* Mutant of Until: the pause does not look at the context. *)
UntilAnyTime(t) == t

(* Every ping and every pause ends with the startup context. *)
Until(t) == IF t < Budget THEN t ELSE Budget

(* Mutant of Retry: the loop never gives up. *)
RetryForever(s) ==
    /\ s \in open /\ upAt[s] > now
    /\ now' = Until(now + 1)
    /\ UNCHANGED <<env, upAt, stage, deadline, open, built, failure>>

(* A ping that failed, because the service was down or the context has ended.
   The loop gives up at once or pauses, and gives up if the context ends in
   the pause. *)
Retry(s) ==
    /\ s \in open
    /\ \E d \in 0..PingTimeout :
         LET t == Until(now + d)
         IN  /\ upAt[s] > now \/ t = Budget
             /\ now' = IF Expired(t) THEN t ELSE Until(t + 1)
             /\ IF Expired(t) \/ now' = Budget
                THEN Release(s) /\ Fail(s)
                ELSE UNCHANGED <<open, stage, failure>>
    /\ UNCHANGED <<env, upAt, deadline, built>>

Connect(s, next) == Dial(s) \/ Unusable(s) \/ Connected(s, next) \/ Retry(s)

-----------------------------------------------------------------------------
(* Steps of Build *)

(* postgres.Connect *)
ConnectPostgres ==
    /\ stage = "postgres" /\ UsesPostgres
    /\ Connect("postgres", "migrate")

SkipPostgres ==
    /\ stage = "postgres" /\ ~UsesPostgres
    /\ stage' = "stores"
    /\ UNCHANGED <<env, upAt, now, deadline, open, built, failure>>

(* postgres.Migrate succeeds or fails, and takes its time out of the startup
   context. *)
Migrate ==
    /\ stage = "migrate"
    /\ \/ InTime /\ stage' = "stores" /\ UNCHANGED <<open, failure>>
       \/ AtLast /\ Release("postgres") /\ Fail("schema")
    /\ UNCHANGED <<env, upAt, deadline, built>>

(* Mutant of Known: a name that is not known stands for memory. *)
KnownAny(d, names) == TRUE

Known(d, names) == d \in names
Store(d) == IF d = "postgres" THEN "postgres" ELSE "memory"

(* The switches over the three store drivers, and the choice of the journal.
   A driver that is not known ends Build without infra.Close. *)
ChooseStores ==
    /\ stage = "stores"
    /\ IF \A s \in {"wallets", "trades", "orders"} : Known(cfg[s], {"memory", "postgres"})
       THEN /\ built' = [built EXCEPT !.wallets = Store(cfg.wallets), !.trades = Store(cfg.trades),
                                      !.orders = Store(cfg.orders),
                                      !.journal = IF "postgres" \in open THEN "postgres"
                                                                         ELSE "memory"]
            /\ stage' = "redis" /\ UNCHANGED failure
       ELSE Fail("driver") /\ UNCHANGED built
    /\ UNCHANGED <<env, upAt, now, deadline, open>>

(* rediscache.Connect *)
ConnectRedis ==
    /\ stage = "redis" /\ UsesRedis
    /\ Connect("redis", "cache")

(* The wallet store is wrapped by the cache, or is not. *)
ChooseCache ==
    /\ stage = "cache" \/ (stage = "redis" /\ ~UsesRedis)
    /\ built' = [built EXCEPT !.cache = IF stage = "cache" THEN "redis" ELSE "none"]
    /\ stage' = "log"
    /\ UNCHANGED <<env, upAt, now, deadline, open, failure>>

(* waitForBrokers *)
WaitForBrokers ==
    /\ stage = "log" /\ UsesKafka
    /\ Connect("kafka", "topic")

(* ensureTopic succeeds, also if the topic is there, or fails; it has what is
   left of the startup context. *)
EnsureTopic ==
    /\ stage = "topic"
    /\ \/ /\ InTime
          /\ built' = [built EXCEPT !.eventLog = "kafka"]
          /\ stage' = "telemetry" /\ UNCHANGED <<open, failure>>
       \/ AtLast /\ Release("kafka") /\ Fail("topic") /\ UNCHANGED built
    /\ UNCHANGED <<env, upAt, deadline>>

(* The in-memory log, or a driver that is not known: then infra.Close. *)
ChooseLog ==
    /\ stage = "log" /\ ~UsesKafka
    /\ IF Known(cfg.eventLog, {"memory"})
       THEN /\ built' = [built EXCEPT !.eventLog = "memory"]
            /\ stage' = "telemetry" /\ UNCHANGED <<open, failure>>
       ELSE open' = InfraClose(open) /\ Fail("driver") /\ UNCHANGED built
    /\ UNCHANGED <<env, upAt, now, deadline>>

(* buildTelemetry: disabled, or with a New that fails, it is a sink that does
   nothing and has nothing to close. *)
BuildTelemetry ==
    /\ stage = "telemetry"
    /\ \/ /\ cfg.telemetry = "true"
          /\ built' = [built EXCEPT !.telemetry = "otel"] /\ open' = open \cup {"otel"}
       \/ built' = [built EXCEPT !.telemetry = "noop"] /\ UNCHANGED open
    /\ stage' = "running"
    /\ UNCHANGED <<env, upAt, now, deadline, failure>>

(* ListenAndServe fails: os.Exit, and no deferred call runs. *)
ListenFails ==
    /\ stage = "running"
    /\ Fail("listen")
    /\ UNCHANGED <<env, upAt, now, deadline, open, built>>

-----------------------------------------------------------------------------
(* The end of main *)

Close(from, rest, next) ==
    /\ stage = from /\ stage' = next
    /\ open' = rest
    /\ UNCHANGED <<env, upAt, now, deadline, built, failure>>

(* A signal: the log is closed by main, then the deferred calls run, the last
   one first. *)
CloseLog == Close("running", open \ {"kafka"}, "flushing")
FlushTelemetry == Close("flushing", open \ {"otel"}, "closing")
CloseInfra == Close("closing", InfraClose(open), "stopped")

Start ==
    \/ ConnectPostgres \/ SkipPostgres \/ Migrate \/ ChooseStores
    \/ ConnectRedis \/ ChooseCache
    \/ WaitForBrokers \/ EnsureTopic \/ ChooseLog
    \/ BuildTelemetry

Stop == ListenFails \/ CloseLog \/ FlushTelemetry \/ CloseInfra

(* main goes on while it can; a signal may never come. *)
Spec == Init /\ [][Start \/ Stop]_vars /\ WF_vars(Start)

-----------------------------------------------------------------------------
(* Properties *)

(* Every variable has its values, and no start takes longer than the startup
   context lasts, whatever the three loops, the schema and the topic do in a
   row. *)
StartupTypeOK ==
    /\ env \in Env /\ upAt \in [Service -> ComeUp]
    /\ now \in 0..Budget /\ deadline \in 0..(Budget + InfraWaitTimeout)
    /\ stage \in {"postgres", "migrate", "stores", "redis", "cache", "log", "topic",
                  "telemetry", "running", "flushing", "closing", "stopped", "failed"}
    /\ open \subseteq Service \cup {"otel"}
    /\ failure \in Service \cup {"", "address", "schema", "topic", "driver", "listen"}

(* No silent fallback, as Build promises: a process that runs has the stores,
   the log and the cache its environment names and is connected to what they
   need, its journal is durable if any store is, and it has metrics only if
   they were not turned off. *)
RunsAsConfigured ==
    stage = "running" =>
        /\ \A p \in {"wallets", "trades", "orders", "eventLog"} :
               built[p] = IF env[p] = "" THEN "memory" ELSE env[p]
        /\ (built.cache = "redis") = (env.cache = "redis")
        /\ built.journal = IF "postgres" \in {built.wallets, built.trades, built.orders}
                           THEN "postgres" ELSE "memory"
        /\ open \cap Service = {s \in Service : \E p \in Setting : built[p] = s}
        /\ ("otel" \in open) = (built.telemetry = "otel")
        /\ env.telemetry = "false" => built.telemetry = "noop"

(* The wait of the adapter in hand. *)
WaitBegan == deadline - InfraWaitTimeout
WaitEnds == IF deadline < Budget THEN deadline ELSE Budget

(* A start fails for want of a service only if that service came up in the last
   two pings of its adapter's wait, or of the startup context if that ends
   first, or later.  The exception is an adapter to which those before it have
   left no more than a ping of the context: it may refuse a service that is
   up. *)
GivesUpOnLateService ==
    failure \in Service =>
        \/ upAt[failure] >= WaitEnds - 2 * PingTimeout
        \/ WaitBegan >= Budget - PingTimeout

(* A start that a service, an address, the schema or the topic makes fail has
   closed what it had opened before, and so has a process that stops, where
   Log.Close, the deferred calls of main and infra.Close each do a part. *)
NothingLeftOpen ==
    (stage = "stopped" \/ (stage = "failed" /\ failure \notin {"driver", "listen"}))
        => open = {}

(* A start ends: the process runs or refuses to. *)
StartEnds == <>(stage \in {"running", "failed"})
=============================================================================
