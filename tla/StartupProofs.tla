--------------------------- MODULE StartupProofs ---------------------------
(***************************************************************************)
(* Proofs about Startup: for any environment, any time at which a service  *)
(* comes up and any timeouts, what Build and main open, choose and close.  *)
(***************************************************************************)
EXTENDS Startup, TLAPS

Part == Setting \cup {"journal"}
Choice == {"", "memory", "postgres", "redis", "none", "kafka", "otel", "noop"}

(* The connections that the configuration calls for. *)
Postgres == IF UsesPostgres THEN {"postgres"} ELSE {}
Redis == IF UsesRedis THEN {"redis"} ELSE {}
Kafka == IF UsesKafka THEN {"kafka"} ELSE {}

(* What Build has chosen once the stores, the cache and the log are there. *)
StoresBuilt ==
    /\ \A p \in {"wallets", "trades", "orders"} :
          cfg[p] \in {"memory", "postgres"} /\ built[p] = cfg[p]
    /\ built["journal"] = IF UsesPostgres THEN "postgres" ELSE "memory"
CacheBuilt == built["cache"] = IF UsesRedis THEN "redis" ELSE "none"
LogBuilt == cfg["eventLog"] \in {"memory", "kafka"} /\ built["eventLog"] = cfg["eventLog"]
TelemetryBuilt ==
    /\ built["telemetry"] \in {"otel", "noop"}
    /\ built["telemetry"] = "otel" => cfg["telemetry"] = "true"

(* What is open and chosen at each stage of Build and of the end of main. *)
StageOK ==
    /\ stage = "postgres" => open = {} \/ (open = {"postgres"} /\ UsesPostgres)
    /\ stage = "migrate" => open = Postgres /\ UsesPostgres
    /\ stage = "stores" => open = Postgres
    /\ stage = "redis" => /\ \/ open = Postgres
                             \/ open = Postgres \cup {"redis"} /\ UsesRedis
                          /\ StoresBuilt
    /\ stage = "cache" => open = Postgres \cup {"redis"} /\ UsesRedis /\ StoresBuilt
    /\ stage = "log" => /\ \/ open = Postgres \cup Redis
                           \/ open = Postgres \cup Redis \cup {"kafka"} /\ UsesKafka
                        /\ StoresBuilt /\ CacheBuilt
    /\ stage = "topic" => /\ open = Postgres \cup Redis \cup {"kafka"} /\ UsesKafka
                          /\ StoresBuilt /\ CacheBuilt
    /\ stage = "telemetry" => /\ open = Postgres \cup Redis \cup Kafka
                              /\ StoresBuilt /\ CacheBuilt /\ LogBuilt
    /\ stage = "running" =>
          /\ open = Postgres \cup Redis \cup Kafka
                      \cup (IF built["telemetry"] = "otel" THEN {"otel"} ELSE {})
          /\ StoresBuilt /\ CacheBuilt /\ LogBuilt /\ TelemetryBuilt
    /\ stage = "flushing" => open \subseteq {"otel", "redis", "postgres"}
    /\ stage = "closing" => open \subseteq {"redis", "postgres"}

(* The adapter of service s is in hand, and then waits for it. *)
At(s) ==
    \/ s = "postgres" /\ stage = "postgres" /\ UsesPostgres
    \/ s = "redis" /\ stage = "redis" /\ UsesRedis
    \/ s = "kafka" /\ stage = "log" /\ UsesKafka
Waiting(s) == s \in open /\ stage = IF s = "kafka" THEN "log" ELSE s

(* What makes a failure justified: see GivesUpOnLateService. *)
Late(s) ==
    \/ upAt[s] >= WaitEnds - 2 * PingTimeout
    \/ WaitBegan >= Budget - PingTimeout

(* Build goes on only within the startup context.  A loop that has not just
   begun has seen the service down one ping and one pause ago. *)
ClockOK ==
    /\ stage # "failed" => now < Budget /\ failure = ""
    /\ \A s \in Service :
          Waiting(s) => \/ deadline = now + InfraWaitTimeout
                        \/ upAt[s] >= now - PingTimeout

(* The inductive invariant. *)
StartInv ==
    /\ StartupTypeOK
    /\ built \in [Part -> Choice]
    /\ StageOK
    /\ ClockOK
    /\ GivesUpOnLateService
    /\ NothingLeftOpen

-----------------------------------------------------------------------------
(* The configuration is read once: it does not change while the process runs. *)
LEMMA SameConfiguration ==
    ASSUME env' = env
    PROVE  /\ cfg' = cfg /\ Postgres' = Postgres /\ Redis' = Redis /\ Kafka' = Kafka
           /\ UsesPostgres' = UsesPostgres /\ UsesRedis' = UsesRedis /\ UsesKafka' = UsesKafka
  BY DEF cfg, Postgres, Redis, Kafka, UsesPostgres, UsesRedis, UsesKafka

(* What was chosen stays chosen while the parts it names are not touched. *)
LEMMA SameChoice ==
    ASSUME env' = env,
           NEW T, \A p \in T : built'[p] = built[p]
    PROVE  /\ {"wallets", "trades", "orders", "journal"} \subseteq T => StoresBuilt' = StoresBuilt
           /\ "cache" \in T => CacheBuilt' = CacheBuilt
           /\ "eventLog" \in T => LogBuilt' = LogBuilt
           /\ "telemetry" \in T => TelemetryBuilt' = TelemetryBuilt
  <1>1. cfg' = cfg /\ UsesPostgres' = UsesPostgres /\ UsesRedis' = UsesRedis
    BY SameConfiguration
  <1>2. ASSUME {"wallets", "trades", "orders", "journal"} \subseteq T
        PROVE  StoresBuilt' = StoresBuilt
    BY <1>1, <1>2 DEF StoresBuilt
  <1>3. ASSUME "cache" \in T PROVE CacheBuilt' = CacheBuilt
    BY <1>1, <1>3 DEF CacheBuilt
  <1>4. ASSUME "eventLog" \in T PROVE LogBuilt' = LogBuilt
    BY <1>1, <1>4 DEF LogBuilt
  <1>5. ASSUME "telemetry" \in T PROVE TelemetryBuilt' = TelemetryBuilt
    BY <1>1, <1>5 DEF TelemetryBuilt
  <1>. QED  BY <1>2, <1>3, <1>4, <1>5

(* The same for every choice at once. *)
LEMMA SameEnv ==
    ASSUME env' = env, built' = built
    PROVE  /\ Postgres' = Postgres /\ Redis' = Redis /\ Kafka' = Kafka
           /\ UsesPostgres' = UsesPostgres /\ UsesRedis' = UsesRedis /\ UsesKafka' = UsesKafka
           /\ StoresBuilt' = StoresBuilt /\ CacheBuilt' = CacheBuilt
           /\ LogBuilt' = LogBuilt /\ TelemetryBuilt' = TelemetryBuilt
  <1>1. \A p \in Part : built'[p] = built[p]
    OBVIOUS
  <1>2. /\ {"wallets", "trades", "orders", "journal"} \subseteq Part
        /\ "cache" \in Part /\ "eventLog" \in Part /\ "telemetry" \in Part
    BY DEF Part, Setting
  <1>. QED  BY <1>1, <1>2, SameConfiguration, SameChoice

(* Numbers: the context lasts at least one pause longer than an adapter's wait. *)
LEMMA Times ==
    /\ InfraWaitTimeout \in Nat /\ PingTimeout \in Nat /\ Budget \in Nat
    /\ Budget >= InfraWaitTimeout + 1
  BY TimesAssumption DEF Budget

(* The clock of a state that satisfies the invariant. *)
LEMMA ClockFacts ==
    ASSUME StartInv
    PROVE  /\ now \in Nat /\ now <= Budget
           /\ deadline \in Nat /\ deadline <= Budget + InfraWaitTimeout
           /\ \A s \in Service : upAt[s] \in Nat
           /\ stage # "failed" => now < Budget
  <1>1. now \in 0..Budget /\ deadline \in 0..(Budget + InfraWaitTimeout)
        /\ upAt \in [Service -> ComeUp]
    BY DEF StartInv, StartupTypeOK
  <1>2. \A s \in Service : upAt[s] \in Nat
    BY <1>1, TimesAssumption
  <1>3. stage # "failed" => now < Budget
    BY DEF StartInv, ClockOK
  <1>4. now \in Nat /\ now <= Budget
    BY <1>1, Times
  <1>5. deadline \in Nat /\ deadline <= Budget + InfraWaitTimeout
    BY <1>1, Times
  <1>. QED  BY <1>2, <1>3, <1>4, <1>5

(* Only a start that has failed has a reason for it. *)
LEMMA NoFailure ==
    ASSUME StartInv, stage # "failed"
    PROVE  failure = ""
  BY DEF StartInv, ClockOK

(* Every part of the invariant but the stages, after a step of Build or of main
   that is neither a failure nor a step of a loop. *)
LEMMA StepKeeps ==
    ASSUME StartInv, NEW next, stage' = next, now' \in now..(Budget - 1),
           env' = env, upAt' = upAt, deadline' = deadline, failure' = failure,
           next \in {"migrate", "stores", "redis", "cache", "log", "topic", "telemetry",
                     "running", "flushing", "closing", "stopped"},
           open' \subseteq Service \cup {"otel"},
           stage # "failed",
           next = "redis" => "redis" \notin open',
           next = "log" => "kafka" \notin open',
           next = "stopped" => open' = {}
    PROVE  StartupTypeOK' /\ ClockOK' /\ GivesUpOnLateService' /\ NothingLeftOpen'
  <1>1. now' \in 0..Budget /\ now' < Budget
    BY ClockFacts, Times
  <1>a. failure' = ""
    BY NoFailure
  <1>2. StartupTypeOK'
    BY <1>1 DEF StartInv, StartupTypeOK, Budget
  <1>3. ClockOK'
    <2>1. \A s \in Service : ~(s \in open' /\ next = IF s = "kafka" THEN "log" ELSE s)
      BY DEF Service
    <2>. QED  BY <1>a, <1>1, <2>1 DEF ClockOK, Waiting, Budget
  <1>4. GivesUpOnLateService'
    BY <1>a DEF GivesUpOnLateService, Service
  <1>5. NothingLeftOpen'
    BY DEF NothingLeftOpen
  <1>. QED  BY <1>2, <1>3, <1>4, <1>5

(* A failure, and when it is that of a service the reason for it. *)
LEMMA FailKeeps ==
    ASSUME StartInv, NEW why, Fail(why), now' \in now..Budget,
           env' = env, upAt' = upAt, deadline' = deadline, built' = built,
           why \in Service \cup {"address", "schema", "topic", "driver", "listen"},
           open' \subseteq Service \cup {"otel"},
           why \notin {"driver", "listen"} => open' = {},
           why \in Service => Late(why)
    PROVE  StartInv'
  <1>0. now' \in 0..Budget
    BY ClockFacts, Times
  <1>1. stage' = "failed" /\ failure' = why
    BY DEF Fail
  <1>2. StartupTypeOK' /\ (built \in [Part -> Choice])'
    BY <1>0, <1>1 DEF StartInv, StartupTypeOK, Budget
  <1>3. StageOK'
    BY <1>1 DEF StageOK
  <1>4. ClockOK'
    <2>1. \A s \in Service : stage' # IF s = "kafka" THEN "log" ELSE s
      BY <1>1 DEF Service
    <2>. QED  BY <1>1, <2>1 DEF ClockOK, Waiting
  <1>5. GivesUpOnLateService'
    BY <1>1 DEF GivesUpOnLateService, Late, WaitEnds, WaitBegan, Budget
  <1>6. NothingLeftOpen'
    BY <1>1 DEF NothingLeftOpen
  <1>. QED  BY <1>2, <1>3, <1>4, <1>5, <1>6 DEF StartInv

(* The client of the adapter that fails and those that Infrastructure has are
   all that is open. *)
LEMMA ReleaseAll ==
    ASSUME StartInv, NEW s, Release(s),
           \/ s = "postgres" /\ stage \in {"postgres", "migrate"}
           \/ s = "redis" /\ stage = "redis"
           \/ s = "kafka" /\ stage \in {"log", "topic"}
    PROVE  open' = {}
  <1>1. StageOK
    BY DEF StartInv
  <1>2. Postgres \subseteq {"postgres"} /\ Redis \subseteq {"redis"}
    BY DEF Postgres, Redis
  <1>3. CASE s = "postgres" /\ stage \in {"postgres", "migrate"}
    <2>1. open \subseteq {"postgres"}
      BY <1>1, <1>2, <1>3 DEF StageOK
    <2>. QED  BY <1>3, <2>1 DEF Release
  <1>4. CASE s = "redis" /\ stage = "redis"
    <2>1. open \subseteq {"postgres", "redis"}
      BY <1>1, <1>2, <1>4 DEF StageOK
    <2>. QED  BY <1>4, <2>1 DEF Release, InfraClose
  <1>5. CASE s = "kafka" /\ stage \in {"log", "topic"}
    <2>1. open \subseteq {"postgres", "redis", "kafka"}
      BY <1>1, <1>2, <1>5 DEF StageOK
    <2>. QED  BY <1>5, <2>1 DEF Release, InfraClose
  <1>. QED  BY <1>3, <1>4, <1>5

(* The wait of an adapter begins. *)
LEMMA DialKeeps ==
    ASSUME StartInv, NEW s \in Service, Dial(s), At(s)
    PROVE  StartInv'
  <1>1. /\ s \notin open /\ open' = open \cup {s} /\ deadline' = now + InfraWaitTimeout
        /\ UNCHANGED <<env, upAt, now, stage, built, failure>>
    BY DEF Dial
  <1>2. StartupTypeOK' /\ (built \in [Part -> Choice])'
    <2>1. deadline' = now + InfraWaitTimeout
      BY <1>1
    <2>2. deadline' \in 0..(Budget + InfraWaitTimeout)
      BY <2>1, ClockFacts, Times
    <2>. QED  BY <1>1, <2>2 DEF StartInv, StartupTypeOK, Budget
  <1>3. stage # "failed" /\ stage # "stopped"
    BY DEF At
  <1>4. ClockOK'
    <2>1. now < Budget /\ failure = ""
      BY <1>3, ClockFacts, NoFailure
    <2>. QED  BY <1>1, <2>1 DEF ClockOK, Budget
  <1>5. GivesUpOnLateService' /\ NothingLeftOpen'
    <2>1. failure' \notin Service
      BY <1>1, <1>3, NoFailure DEF Service
    <2>. QED  BY <1>1, <1>3, <2>1 DEF GivesUpOnLateService, NothingLeftOpen
  <1>6. StageOK'
    <2>1. /\ Postgres' = Postgres /\ Redis' = Redis /\ Kafka' = Kafka
          /\ UsesPostgres' = UsesPostgres /\ UsesRedis' = UsesRedis /\ UsesKafka' = UsesKafka
          /\ StoresBuilt' = StoresBuilt /\ CacheBuilt' = CacheBuilt
      BY <1>1, SameEnv
    <2>2. StageOK
      BY DEF StartInv
    <2>3. CASE s = "postgres" /\ stage = "postgres" /\ UsesPostgres
      BY <1>1, <2>1, <2>2, <2>3 DEF StageOK
    <2>4. CASE s = "redis" /\ stage = "redis" /\ UsesRedis
      BY <1>1, <2>1, <2>2, <2>4 DEF StageOK
    <2>5. CASE s = "kafka" /\ stage = "log" /\ UsesKafka
      BY <1>1, <2>1, <2>2, <2>5 DEF StageOK
    <2>. QED  BY <2>3, <2>4, <2>5 DEF At
  <1>. QED  BY <1>2, <1>4, <1>5, <1>6 DEF StartInv

(* A ping that failed: the loop goes on, having seen the service down, or gives
   up, and gives up only on a service that is late. *)
LEMMA RetryKeeps ==
    ASSUME StartInv, NEW s \in Service, Retry(s), At(s)
    PROVE  StartInv'
  <1>1. PICK d \in 0..PingTimeout :
          LET t == Until(now + d)
          IN  /\ upAt[s] > now \/ t = Budget
              /\ now' = IF Expired(t) THEN t ELSE Until(t + 1)
              /\ IF Expired(t) \/ now' = Budget
                 THEN Release(s) /\ Fail(s)
                 ELSE UNCHANGED <<open, stage, failure>>
    BY DEF Retry
  <1>. DEFINE t == Until(now + d)
  <1>2. s \in open /\ UNCHANGED <<env, upAt, deadline, built>>
    BY DEF Retry
  <1>3. /\ upAt[s] > now \/ t = Budget
        /\ now' = IF Expired(t) THEN t ELSE Until(t + 1)
        /\ Expired(t) \/ now' = Budget => Release(s) /\ Fail(s)
        /\ ~(Expired(t) \/ now' = Budget) => UNCHANGED <<open, stage, failure>>
    BY <1>1
  <1>4. /\ stage # "failed" /\ stage # "stopped" /\ Waiting(s)
        /\ \A x \in Service : Waiting(x) => x = s
    BY <1>2 DEF At, Waiting, Service
  <1>5. /\ now \in Nat /\ now < Budget /\ deadline \in Nat /\ upAt[s] \in Nat
        /\ d \in Nat /\ d <= PingTimeout
    <2>1. d \in 0..PingTimeout /\ s \in Service /\ now < Budget
      BY <1>4, ClockFacts
    <2>. QED  BY <2>1, ClockFacts, Times
  <1>a. failure = "" /\ StageOK
    BY <1>4, NoFailure DEF StartInv
  <1>b. deadline = now + InfraWaitTimeout \/ upAt[s] >= now - PingTimeout
    BY <1>4 DEF StartInv, ClockOK
  <1>6. t \in Nat /\ t <= Budget /\ t <= now + d /\ now <= t
    BY <1>5, Times DEF Until
  <1>. HIDE DEF t
  <1>7. /\ now' \in now..Budget /\ now' <= t + 1
        /\ Expired(t) \/ now' = Budget => t > deadline \/ t + 1 >= Budget
        /\ ~Expired(t) => t < Budget
    BY <1>3, <1>5, <1>6, Times DEF Until, Expired
  <1>8. CASE Expired(t) \/ now' = Budget
    <2>1. Release(s) /\ Fail(s)
      BY <1>3, <1>8
    <2>2. open' = {}
      BY <2>1, ReleaseAll DEF At
    <2>3. Late(s)
      <3>1. /\ WaitEnds <= deadline /\ WaitEnds <= Budget /\ WaitEnds \in Nat
            /\ WaitBegan = deadline - InfraWaitTimeout
        BY <1>5, Times DEF WaitEnds, WaitBegan
      <3>2. ASSUME upAt[s] > now PROVE upAt[s] >= WaitEnds - 2 * PingTimeout
        BY <1>5, <1>6, <1>7, <1>8, <3>1, <3>2, Times
      <3>3. ASSUME upAt[s] <= now PROVE Late(s)
        <4>1. now >= Budget - PingTimeout
          BY <1>3, <1>5, <1>6, <3>3, Times
        <4>2. deadline = now + InfraWaitTimeout => WaitBegan >= Budget - PingTimeout
          BY <1>5, <3>1, <4>1, Times
        <4>3. upAt[s] >= now - PingTimeout => upAt[s] >= WaitEnds - 2 * PingTimeout
          BY <1>5, <3>1, <4>1, Times
        <4>. QED  BY <1>b, <4>2, <4>3 DEF Late
      <3>4. upAt[s] > now \/ upAt[s] <= now
        BY <1>5
      <3>. QED  BY <3>2, <3>3, <3>4 DEF Late
    <2>4. s \notin {"driver", "listen"}
      BY DEF Service
    <2>. QED  BY <1>2, <1>7, <2>1, <2>2, <2>3, <2>4, FailKeeps
  <1>9. CASE ~(Expired(t) \/ now' = Budget)
    <2>1. UNCHANGED <<open, stage, failure>> /\ now' < Budget /\ now' \in 0..Budget
      BY <1>3, <1>5, <1>7, <1>9, Times
    <2>2. StartupTypeOK' /\ (built \in [Part -> Choice])'
      BY <1>2, <2>1 DEF StartInv, StartupTypeOK, Budget
    <2>3. StageOK'
      BY <1>2, <1>a, <2>1, SameEnv DEF StageOK
    <2>4. ClockOK'
      <3>1. upAt[s] >= now' - PingTimeout
        BY <1>3, <1>5, <1>6, <1>7, <1>9, <2>1, Times
      <3>2. \A x \in Service : Waiting(x)' => x = s
        BY <1>4, <2>1 DEF Waiting
      <3>. QED  BY <1>2, <1>a, <2>1, <3>1, <3>2 DEF ClockOK, Budget
    <2>5. GivesUpOnLateService'
      BY <1>a, <2>1 DEF GivesUpOnLateService, Service
    <2>6. NothingLeftOpen'
      BY <1>4, <2>1 DEF NothingLeftOpen
    <2>. QED  BY <2>2, <2>3, <2>4, <2>5, <2>6 DEF StartInv
  <1>. QED  BY <1>8, <1>9

(* An address that cannot be used. *)
LEMMA UnusableKeeps ==
    ASSUME StartInv, NEW s \in Service, Unusable(s), At(s)
    PROVE  StartInv'
  <1>1. /\ Release(s) /\ Fail("address") /\ "address" \notin Service
        /\ UNCHANGED <<env, upAt, now, deadline, built>>
    BY DEF Unusable, Service
  <1>2. open' = {}
    BY <1>1, ReleaseAll DEF At
  <1>3. now' = now /\ now' \in now..Budget
    <2>1. now' = now
      BY <1>1
    <2>. QED  BY <2>1, ClockFacts, Times
  <1>. QED  BY <1>1, <1>2, <1>3, FailKeeps

(* A service that answered: the next stage has its connection. *)
LEMMA ConnectedKeeps ==
    ASSUME StartInv, NEW s \in Service, NEW next, Connected(s, next), At(s),
           \/ s = "postgres" /\ next = "migrate"
           \/ s = "redis" /\ next = "cache"
           \/ s = "kafka" /\ next = "topic"
    PROVE  StartInv'
  <1>1. /\ s \in open /\ now' \in now..(Budget - 1) /\ stage' = next
        /\ UNCHANGED <<env, upAt, deadline, open, built, failure>>
    BY DEF Connected, InTime
  <1>2. StageOK /\ open' \subseteq Service \cup {"otel"} /\ stage # "failed"
    BY <1>1 DEF StartInv, StartupTypeOK, At
  <1>3. StartupTypeOK' /\ ClockOK' /\ GivesUpOnLateService' /\ NothingLeftOpen'
    BY <1>1, <1>2, StepKeeps
  <1>4. /\ Postgres' = Postgres /\ Redis' = Redis /\ Kafka' = Kafka
        /\ UsesPostgres' = UsesPostgres /\ UsesRedis' = UsesRedis /\ UsesKafka' = UsesKafka
        /\ StoresBuilt' = StoresBuilt /\ CacheBuilt' = CacheBuilt
    BY <1>1, SameEnv
  <1>5. StageOK'
    <2>1. CASE s = "postgres" /\ stage = "postgres" /\ UsesPostgres
      BY <1>1, <1>2, <1>4, <2>1 DEF StageOK, Postgres
    <2>2. CASE s = "redis" /\ stage = "redis" /\ UsesRedis
      BY <1>1, <1>2, <1>4, <2>2 DEF StageOK, Postgres
    <2>3. CASE s = "kafka" /\ stage = "log" /\ UsesKafka
      BY <1>1, <1>2, <1>4, <2>3 DEF StageOK, Postgres, Redis
    <2>. QED  BY <2>1, <2>2, <2>3 DEF At
  <1>. QED  BY <1>1, <1>3, <1>5 DEF StartInv

(* A step that takes no time. *)
LEMMA NoTimePasses ==
    ASSUME StartInv, stage # "failed", now' = now
    PROVE  now' \in now..(Budget - 1)
  BY ClockFacts, Times

(* No store asks for Postgres: nothing is opened. *)
LEMMA SkipPostgresInv ==
    ASSUME StartInv, SkipPostgres
    PROVE  StartInv'
  <1>1. /\ stage = "postgres" /\ ~UsesPostgres /\ stage' = "stores"
        /\ UNCHANGED <<env, upAt, now, deadline, open, built, failure>>
    BY DEF SkipPostgres
  <1>2. StartupTypeOK' /\ ClockOK' /\ GivesUpOnLateService' /\ NothingLeftOpen'
    <2>1. open' \subseteq Service \cup {"otel"}
      BY <1>1 DEF StartInv, StartupTypeOK
    <2>. QED  BY <1>1, <2>1, NoTimePasses, StepKeeps
  <1>3. StageOK'
    BY <1>1, SameEnv DEF StartInv, StageOK, Postgres
  <1>. QED  BY <1>1, <1>2, <1>3 DEF StartInv

(* The schema is there, or Build ends with Postgres closed. *)
LEMMA MigrateInv ==
    ASSUME StartInv, Migrate
    PROVE  StartInv'
  <1>1. stage = "migrate" /\ UNCHANGED <<env, upAt, deadline, built>>
    BY DEF Migrate
  <1>2. CASE InTime /\ stage' = "stores" /\ UNCHANGED <<open, failure>>
    <2>1. StartupTypeOK' /\ ClockOK' /\ GivesUpOnLateService' /\ NothingLeftOpen'
      <3>1. open' \subseteq Service \cup {"otel"} /\ now' \in now..(Budget - 1)
        BY <1>2 DEF StartInv, StartupTypeOK, InTime
      <3>. QED  BY <1>1, <1>2, <3>1, StepKeeps
    <2>2. StageOK'
      BY <1>1, <1>2, SameEnv DEF StartInv, StageOK
    <2>. QED  BY <1>1, <2>1, <2>2 DEF StartInv
  <1>3. CASE AtLast /\ Release("postgres") /\ Fail("schema")
    <2>1. open' = {} /\ "schema" \notin Service /\ now' \in now..Budget
      BY <1>1, <1>3, ReleaseAll DEF Service, AtLast
    <2>. QED  BY <1>1, <1>3, <2>1, FailKeeps
  <1>. QED  BY <1>2, <1>3 DEF Migrate

(* The three switches and the journal: an unknown name is refused, and the
   journal is durable exactly if a store is, since Postgres is then open. *)
LEMMA ChooseStoresInv ==
    ASSUME StartInv, ChooseStores
    PROVE  StartInv'
  <1>. DEFINE known == \A x \in {"wallets", "trades", "orders"} :
                          Known(cfg[x], {"memory", "postgres"})
  <1>1. /\ stage = "stores" /\ UNCHANGED <<env, upAt, now, deadline, open>>
        /\ open \subseteq Service \cup {"otel"} /\ open = Postgres
    BY DEF ChooseStores, StartInv, StartupTypeOK, StageOK
  <1>2. CASE known
    <2>. DEFINE j == IF "postgres" \in open THEN "postgres" ELSE "memory"
    <2>1. /\ built' = [built EXCEPT !["wallets"] = Store(cfg["wallets"]),
                                    !["trades"] = Store(cfg["trades"]),
                                    !["orders"] = Store(cfg["orders"]), !["journal"] = j]
          /\ stage' = "redis" /\ UNCHANGED failure
      BY <1>2 DEF ChooseStores
    <2>2. built \in [Part -> Choice]
      BY DEF StartInv
    <2>3. \A x \in {"wallets", "trades", "orders"} : /\ cfg[x] \in {"memory", "postgres"}
                                                     /\ Store(cfg[x]) = cfg[x]
                                                     /\ Store(cfg[x]) \in Choice
      BY <1>2 DEF Known, Store, Choice
    <2>4. j \in Choice /\ j = IF UsesPostgres THEN "postgres" ELSE "memory"
      BY <1>1 DEF Postgres, Choice
    <2>. HIDE DEF j
    <2>5. /\ built' \in [Part -> Choice]
          /\ built'["wallets"] = cfg["wallets"] /\ built'["trades"] = cfg["trades"]
          /\ built'["orders"] = cfg["orders"] /\ built'["journal"] = j
      BY <2>1, <2>2, <2>3, <2>4 DEF Part, Setting
    <2>6. StoresBuilt'
      <3>1. cfg' = cfg /\ UsesPostgres' = UsesPostgres
        BY <1>1, SameConfiguration
      <3>. QED  BY <2>3, <2>4, <2>5, <3>1 DEF StoresBuilt
    <2>7. StartupTypeOK' /\ ClockOK' /\ GivesUpOnLateService' /\ NothingLeftOpen'
      <3>1. "redis" \notin open'
        BY <1>1 DEF Postgres
      <3>. QED  BY <1>1, <2>1, <3>1, NoTimePasses, StepKeeps
    <2>8. StageOK'
      BY <1>1, <2>1, <2>6, SameConfiguration DEF StageOK
    <2>. QED  BY <2>5, <2>7, <2>8 DEF StartInv
  <1>3. CASE ~known
    <2>1. Fail("driver") /\ UNCHANGED built
      BY <1>3 DEF ChooseStores
    <2>2. "driver" \notin Service /\ now' \in now..Budget
      <3>1. now' = now
        BY <1>1
      <3>2. now' \in now..Budget
        BY <3>1, ClockFacts, Times
      <3>. QED  BY <3>2 DEF Service
    <2>. QED  BY <1>1, <2>1, <2>2, FailKeeps
  <1>. QED  BY <1>2, <1>3

(* The wallet store is wrapped by the cache exactly if Redis is configured. *)
LEMMA ChooseCacheInv ==
    ASSUME StartInv, ChooseCache
    PROVE  StartInv'
  <1>. DEFINE c == IF stage = "cache" THEN "redis" ELSE "none"
  <1>1. /\ stage = "cache" \/ (stage = "redis" /\ ~UsesRedis)
        /\ built' = [built EXCEPT !["cache"] = c]
        /\ stage' = "log" /\ UNCHANGED <<env, upAt, now, deadline, open, failure>>
    BY DEF ChooseCache
  <1>2. built \in [Part -> Choice] /\ open \subseteq Service \cup {"otel"} /\ StageOK
    BY DEF StartInv, StartupTypeOK
  <1>3. c \in Choice /\ c = (IF UsesRedis THEN "redis" ELSE "none")
    BY <1>1, <1>2 DEF StageOK, Choice
  <1>. HIDE DEF c
  <1>4. /\ built' \in [Part -> Choice] /\ built'["cache"] = c
        /\ \A x \in Part \ {"cache"} : built'[x] = built[x]
    BY <1>1, <1>2, <1>3 DEF Part, Setting
  <1>5. CacheBuilt'
    BY <1>1, <1>3, <1>4, SameConfiguration DEF CacheBuilt
  <1>6. StoresBuilt' = StoresBuilt
    <2>1. {"wallets", "trades", "orders", "journal"} \subseteq Part \ {"cache"}
      BY DEF Part, Setting
    <2>. QED  BY <1>1, <1>4, <2>1, SameChoice
  <1>7. StoresBuilt /\ open = Postgres \cup Redis
    BY <1>1, <1>2 DEF StageOK, Redis
  <1>8. StartupTypeOK' /\ ClockOK' /\ GivesUpOnLateService' /\ NothingLeftOpen'
    <2>1. "kafka" \notin open'
      BY <1>1, <1>7 DEF Postgres, Redis
    <2>. QED  BY <1>1, <1>2, <2>1, NoTimePasses, StepKeeps
  <1>9. StageOK'
    <2>1. Postgres' = Postgres /\ Redis' = Redis
      BY <1>1, SameConfiguration
    <2>. QED  BY <1>1, <1>5, <1>6, <1>7, <2>1 DEF StageOK
  <1>. QED  BY <1>4, <1>8, <1>9 DEF StartInv

(* The log is chosen, by the topic or in memory: what follows either. *)
LEMMA LogChosen ==
    ASSUME StartInv, NEW l \in {"kafka", "memory"}, cfg["eventLog"] = l,
           stage \in {"log", "topic"}, stage = "log" => ~UsesKafka,
           built' = [built EXCEPT !["eventLog"] = l], now' \in now..(Budget - 1),
           stage' = "telemetry", UNCHANGED <<env, upAt, deadline, open, failure>>
    PROVE  StartInv'
  <1>1. built \in [Part -> Choice] /\ open \subseteq Service \cup {"otel"} /\ StageOK
    BY DEF StartInv, StartupTypeOK
  <1>2. /\ built' \in [Part -> Choice] /\ built'["eventLog"] = l
        /\ \A x \in Part \ {"eventLog"} : built'[x] = built[x]
    BY <1>1 DEF Part, Setting, Choice
  <1>3. LogBuilt'
    <2>1. cfg' = cfg
      BY SameConfiguration
    <2>. QED  BY <1>2, <2>1 DEF LogBuilt
  <1>4. StoresBuilt' = StoresBuilt /\ CacheBuilt' = CacheBuilt
    <2>1. /\ {"wallets", "trades", "orders", "journal"} \subseteq Part \ {"eventLog"}
          /\ "cache" \in Part \ {"eventLog"}
      BY DEF Part, Setting
    <2>. QED  BY <1>2, <2>1, SameChoice
  <1>5. StartupTypeOK' /\ ClockOK' /\ GivesUpOnLateService' /\ NothingLeftOpen'
    BY <1>1, StepKeeps
  <1>6. StageOK'
    <2>1. Postgres' = Postgres /\ Redis' = Redis /\ Kafka' = Kafka
      BY SameConfiguration
    <2>2. StoresBuilt /\ CacheBuilt /\ open = Postgres \cup Redis \cup Kafka
      BY <1>1 DEF StageOK, Kafka
    <2>. QED  BY <1>3, <1>4, <2>1, <2>2 DEF StageOK
  <1>. QED  BY <1>2, <1>5, <1>6 DEF StartInv

(* The topic is there, or Build ends with everything closed. *)
LEMMA EnsureTopicInv ==
    ASSUME StartInv, EnsureTopic
    PROVE  StartInv'
  <1>1. stage = "topic" /\ UNCHANGED <<env, upAt, deadline>> /\ UsesKafka
    BY DEF EnsureTopic, StartInv, StageOK
  <1>2. CASE /\ InTime
             /\ built' = [built EXCEPT !["eventLog"] = "kafka"]
             /\ stage' = "telemetry" /\ UNCHANGED <<open, failure>>
    <2>1. cfg["eventLog"] = "kafka" /\ now' \in now..(Budget - 1)
      BY <1>1, <1>2 DEF UsesKafka, InTime
    <2>. QED  BY <1>1, <1>2, <2>1, LogChosen
  <1>3. CASE AtLast /\ Release("kafka") /\ Fail("topic") /\ UNCHANGED built
    <2>1. open' = {} /\ "topic" \notin Service /\ now' \in now..Budget
      BY <1>1, <1>3, ReleaseAll DEF Service, AtLast
    <2>. QED  BY <1>1, <1>3, <2>1, FailKeeps
  <1>. QED  BY <1>2, <1>3 DEF EnsureTopic

(* The in-memory log is chosen by its name; any other name is refused. *)
LEMMA ChooseLogInv ==
    ASSUME StartInv, ChooseLog
    PROVE  StartInv'
  <1>1. /\ stage = "log" /\ ~UsesKafka /\ UNCHANGED <<env, upAt, now, deadline>>
        /\ StageOK /\ open \subseteq Service \cup {"otel"}
    BY DEF ChooseLog, StartInv, StartupTypeOK
  <1>2. CASE cfg["eventLog"] = "memory"
    <2>1. /\ built' = [built EXCEPT !["eventLog"] = "memory"]
          /\ stage' = "telemetry" /\ UNCHANGED <<open, failure>>
      BY <1>2 DEF ChooseLog, Known
    <2>. QED  BY <1>1, <1>2, <2>1, NoTimePasses, LogChosen
  <1>3. CASE cfg["eventLog"] # "memory"
    <2>1. open' = InfraClose(open) /\ Fail("driver") /\ UNCHANGED built
      BY <1>3 DEF ChooseLog, Known
    <2>2. "driver" \notin Service /\ now' \in now..Budget
      <3>1. now' = now
        BY <1>1
      <3>2. now' \in now..Budget
        BY <3>1, ClockFacts, Times
      <3>. QED  BY <3>2 DEF Service
    <2>3. open' \subseteq Service \cup {"otel"}
      BY <1>1, <2>1 DEF InfraClose
    <2>. QED  BY <1>1, <2>1, <2>2, <2>3, FailKeeps
  <1>. QED  BY <1>2, <1>3

(* Telemetry is built only if it was not turned off, and then has to be closed. *)
LEMMA BuildTelemetryInv ==
    ASSUME StartInv, BuildTelemetry
    PROVE  StartInv'
  <1>1. /\ stage = "telemetry" /\ stage' = "running"
        /\ UNCHANGED <<env, upAt, now, deadline, failure>>
        /\ built \in [Part -> Choice] /\ open \subseteq Service \cup {"otel"} /\ StageOK
    BY DEF BuildTelemetry, StartInv, StartupTypeOK
  <1>2. PICK m \in {"otel", "noop"} :
          /\ built' = [built EXCEPT !["telemetry"] = m]
          /\ open' = open \cup (IF m = "otel" THEN {"otel"} ELSE {})
          /\ m = "otel" => cfg["telemetry"] = "true"
    BY DEF BuildTelemetry
  <1>3. /\ built' \in [Part -> Choice] /\ built'["telemetry"] = m
        /\ \A x \in Part \ {"telemetry"} : built'[x] = built[x]
    BY <1>1, <1>2 DEF Part, Setting, Choice
  <1>4. TelemetryBuilt'
    <2>1. cfg' = cfg
      BY <1>1, SameConfiguration
    <2>. QED  BY <1>2, <1>3, <2>1 DEF TelemetryBuilt
  <1>5. StoresBuilt' = StoresBuilt /\ CacheBuilt' = CacheBuilt /\ LogBuilt' = LogBuilt
    <2>1. /\ {"wallets", "trades", "orders", "journal"} \subseteq Part \ {"telemetry"}
          /\ "cache" \in Part \ {"telemetry"} /\ "eventLog" \in Part \ {"telemetry"}
      BY DEF Part, Setting
    <2>. QED  BY <1>1, <1>3, <2>1, SameChoice
  <1>6. StartupTypeOK' /\ ClockOK' /\ GivesUpOnLateService' /\ NothingLeftOpen'
    <2>1. open' \subseteq Service \cup {"otel"}
      BY <1>1, <1>2
    <2>. QED  BY <1>1, <2>1, NoTimePasses, StepKeeps
  <1>7. StageOK'
    <2>1. Postgres' = Postgres /\ Redis' = Redis /\ Kafka' = Kafka
      BY <1>1, SameConfiguration
    <2>2. StoresBuilt /\ CacheBuilt /\ LogBuilt /\ open = Postgres \cup Redis \cup Kafka
      BY <1>1 DEF StageOK
    <2>. QED  BY <1>1, <1>2, <1>3, <1>4, <1>5, <2>1, <2>2 DEF StageOK
  <1>. QED  BY <1>3, <1>6, <1>7 DEF StartInv

(* A port that is taken ends the process with its connections open. *)
LEMMA ListenFailsInv ==
    ASSUME StartInv, ListenFails
    PROVE  StartInv'
  <1>1. /\ open \subseteq Service \cup {"otel"} /\ "listen" \notin Service
        /\ Fail("listen") /\ UNCHANGED <<env, upAt, now, deadline, open, built>>
    BY DEF StartInv, StartupTypeOK, ListenFails, Service
  <1>2. now' \in now..Budget
    <2>1. now' = now
      BY <1>1
    <2>. QED  BY <2>1, ClockFacts, Times
  <1>. QED  BY <1>1, <1>2, FailKeeps

(* The end of main: each part closes its own, and nothing else is open. *)
LEMMA CloseInv ==
    ASSUME StartInv, CloseLog \/ FlushTelemetry \/ CloseInfra
    PROVE  StartInv'
  <1>1. /\ UNCHANGED <<env, upAt, now, deadline, built, failure>> /\ open' \subseteq open
        /\ StageOK /\ open \subseteq Service \cup {"otel"} /\ built \in [Part -> Choice]
    BY DEF CloseLog, FlushTelemetry, CloseInfra, Close, InfraClose, StartInv, StartupTypeOK
  <1>2. PICK next \in {"flushing", "closing", "stopped"} :
          /\ stage' = next /\ stage \in {"running", "flushing", "closing"}
          /\ next = "flushing" => stage = "running" /\ open' = open \ {"kafka"}
          /\ next = "closing" => stage = "flushing" /\ open' = open \ {"otel"}
          /\ next = "stopped" => stage = "closing" /\ open' = open \ {"redis", "postgres"}
    BY DEF CloseLog, FlushTelemetry, CloseInfra, Close, InfraClose
  <1>3. /\ next = "flushing" => open' \subseteq {"otel", "redis", "postgres"}
        /\ next = "closing" => open' \subseteq {"redis", "postgres"}
        /\ next = "stopped" => open' = {}
    BY <1>1, <1>2 DEF StageOK, Postgres, Redis, Kafka
  <1>4. StartupTypeOK' /\ ClockOK' /\ GivesUpOnLateService' /\ NothingLeftOpen'
    BY <1>1, <1>2, <1>3, NoTimePasses, StepKeeps
  <1>5. StageOK'
    BY <1>2, <1>3 DEF StageOK
  <1>. QED  BY <1>1, <1>4, <1>5 DEF StartInv

(* A process that has done nothing yet. *)
LEMMA StartInitInv == Init => StartInv
  <1>. SUFFICES ASSUME Init PROVE StartInv
    OBVIOUS
  <1>1. now = 0 /\ stage = "postgres" /\ deadline = 0 /\ open = {} /\ failure = ""
    BY DEF Init
  <1>2. StartupTypeOK
    <2>1. now = 0 /\ deadline = 0
      BY <1>1
    <2>2. now \in 0..Budget /\ deadline \in 0..(Budget + InfraWaitTimeout)
      BY <2>1, Times
    <2>. QED  BY <1>1, <2>2 DEF Init, StartupTypeOK
  <1>3. built \in [Part -> Choice]
    BY DEF Init, Unbuilt, Part, Choice
  <1>4. StageOK /\ NothingLeftOpen
    BY <1>1 DEF StageOK, NothingLeftOpen
  <1>5. ClockOK
    <2>1. now = 0
      BY <1>1
    <2>2. now < Budget
      BY <2>1, Times
    <2>. QED  BY <1>1, <2>2 DEF ClockOK, Waiting
  <1>6. GivesUpOnLateService
    BY <1>1 DEF GivesUpOnLateService, Service
  <1>. QED  BY <1>2, <1>3, <1>4, <1>5, <1>6 DEF StartInv

-----------------------------------------------------------------------------
(* The invariant holds in every behaviour. *)
THEOREM StartInvariant == Spec => []StartInv
  <1>1. Init => StartInv
    BY StartInitInv
  <1>2. StartInv /\ [Start \/ Stop]_vars => StartInv'
    <2>. SUFFICES ASSUME StartInv, [Start \/ Stop]_vars PROVE StartInv'
      OBVIOUS
    <2>. "postgres" \in Service /\ "redis" \in Service /\ "kafka" \in Service
      BY DEF Service
    <2>1. CASE ConnectPostgres
      <3>1. At("postgres") /\ Connect("postgres", "migrate")
        BY <2>1 DEF ConnectPostgres, At
      <3>. QED  BY <3>1, DialKeeps, UnusableKeeps, ConnectedKeeps, RetryKeeps DEF Connect
    <2>2. CASE ConnectRedis
      <3>1. At("redis") /\ Connect("redis", "cache")
        BY <2>2 DEF ConnectRedis, At
      <3>. QED  BY <3>1, DialKeeps, UnusableKeeps, ConnectedKeeps, RetryKeeps DEF Connect
    <2>3. CASE WaitForBrokers
      <3>1. At("kafka") /\ Connect("kafka", "topic")
        BY <2>3 DEF WaitForBrokers, At
      <3>. QED  BY <3>1, DialKeeps, UnusableKeeps, ConnectedKeeps, RetryKeeps DEF Connect
    <2>4. CASE SkipPostgres \/ Migrate \/ ChooseStores
      BY <2>4, SkipPostgresInv, MigrateInv, ChooseStoresInv
    <2>5. CASE ChooseCache \/ EnsureTopic \/ ChooseLog \/ BuildTelemetry
      BY <2>5, ChooseCacheInv, EnsureTopicInv, ChooseLogInv, BuildTelemetryInv
    <2>6. CASE Stop
      BY <2>6, ListenFailsInv, CloseInv DEF Stop
    <2>7. CASE UNCHANGED vars
      <3>1. UNCHANGED <<env, upAt, now, stage, deadline, open, built, failure>>
        BY <2>7 DEF vars
      <3>2. StageOK'
        BY <3>1, SameEnv DEF StartInv, StageOK
      <3>3. ClockOK'
        BY <3>1 DEF StartInv, ClockOK, Waiting, Budget
      <3>4. GivesUpOnLateService'
        BY <3>1 DEF StartInv, GivesUpOnLateService, WaitEnds, WaitBegan, Budget
      <3>. QED  BY <3>1, <3>2, <3>3, <3>4
                DEF StartInv, StartupTypeOK, NothingLeftOpen, Budget
    <2>. QED  BY <2>1, <2>2, <2>3, <2>4, <2>5, <2>6, <2>7 DEF Start
  <1>. QED  BY <1>1, <1>2, PTL DEF Spec

(* No start takes longer than the startup context of main lasts, whatever the
   three retry loops, the schema and the topic do one after another. *)
THEOREM StartIsBounded == Spec => []StartupTypeOK
  BY StartInvariant, PTL DEF StartInv

(* A start fails for want of a service only if that service came up in the last
   two pings of its adapter's own wait or of the startup context, whichever ends
   first, or later, or if the adapter was left no more than a ping of the
   context. *)
THEOREM OnlyLateServicesFail == Spec => []GivesUpOnLateService
  BY StartInvariant, PTL DEF StartInv

(* infra.Close, Log.Close and the deferred calls of main together close all
   that was opened. *)
THEOREM AllIsClosed == Spec => []NothingLeftOpen
  BY StartInvariant, PTL DEF StartInv

(* No silent fallback: a process that runs has exactly the adapters that its
   environment names, for every environment. *)
THEOREM NoSilentFallback == Spec => []RunsAsConfigured
  <1>1. StartInv => RunsAsConfigured
    <2>. SUFFICES ASSUME StartInv, stage = "running" PROVE RunsAsConfigured
      BY DEF RunsAsConfigured
    <2>1. /\ open = Postgres \cup Redis \cup Kafka
                      \cup (IF built["telemetry"] = "otel" THEN {"otel"} ELSE {})
          /\ StoresBuilt /\ CacheBuilt /\ LogBuilt /\ TelemetryBuilt
      BY DEF StartInv, StageOK
    <2>2. /\ cfg["wallets"] = IF env["wallets"] = "" THEN "memory" ELSE env["wallets"]
          /\ cfg["trades"] = IF env["trades"] = "" THEN "memory" ELSE env["trades"]
          /\ cfg["orders"] = IF env["orders"] = "" THEN "memory" ELSE env["orders"]
          /\ cfg["eventLog"] = IF env["eventLog"] = "" THEN "memory" ELSE env["eventLog"]
          /\ cfg["cache"] = IF env["cache"] = "" THEN "none" ELSE env["cache"]
          /\ env["telemetry"] = "false" => cfg["telemetry"] = "false"
      BY DEF cfg, Load, Accepts, Default, Setting
    <2>3. \A p \in {"wallets", "trades", "orders", "eventLog"} :
            built[p] = IF env[p] = "" THEN "memory" ELSE env[p]
      BY <2>1, <2>2 DEF StoresBuilt, LogBuilt
    <2>4. (built["cache"] = "redis") = (env["cache"] = "redis")
      BY <2>1, <2>2 DEF CacheBuilt, UsesRedis
    <2>5. UsesPostgres <=> "postgres" \in {built["wallets"], built["trades"], built["orders"]}
      BY <2>1 DEF StoresBuilt, UsesPostgres
    <2>6. built["journal"] = IF "postgres" \in {built["wallets"], built["trades"], built["orders"]}
                             THEN "postgres" ELSE "memory"
      BY <2>1, <2>5 DEF StoresBuilt
    <2>7. open \cap Service = {s \in Service : \E p \in Setting : built[p] = s}
      <3>1. open \cap Service = Postgres \cup Redis \cup Kafka
        BY <2>1 DEF Postgres, Redis, Kafka, Service
      <3>2. /\ \A p \in {"wallets", "trades", "orders"} : built[p] \in {"memory", "postgres"}
            /\ built["cache"] \in {"redis", "none"} /\ built["eventLog"] \in {"memory", "kafka"}
            /\ built["telemetry"] \in {"otel", "noop"}
        BY <2>1 DEF StoresBuilt, CacheBuilt, LogBuilt, TelemetryBuilt
      <3>3. "postgres" \in Postgres <=> \E p \in Setting : built[p] = "postgres"
        BY <2>5, <3>2 DEF Postgres, Setting
      <3>4. "redis" \in Redis <=> \E p \in Setting : built[p] = "redis"
        BY <2>1, <3>2 DEF Redis, CacheBuilt, Setting
      <3>5. "kafka" \in Kafka <=> \E p \in Setting : built[p] = "kafka"
        BY <2>1, <3>2 DEF Kafka, LogBuilt, UsesKafka, Setting
      <3>6. \A s : s \in Postgres \cup Redis \cup Kafka <=>
                     \/ s = "postgres" /\ "postgres" \in Postgres
                     \/ s = "redis" /\ "redis" \in Redis
                     \/ s = "kafka" /\ "kafka" \in Kafka
        BY DEF Postgres, Redis, Kafka
      <3>7. \A s : s \in {x \in Service : \E p \in Setting : built[p] = x} <=>
                     \/ s = "postgres" /\ \E p \in Setting : built[p] = "postgres"
                     \/ s = "redis" /\ \E p \in Setting : built[p] = "redis"
                     \/ s = "kafka" /\ \E p \in Setting : built[p] = "kafka"
        BY DEF Service
      <3>. QED  BY <3>1, <3>3, <3>4, <3>5, <3>6, <3>7
    <2>8. ("otel" \in open) = (built["telemetry"] = "otel")
      BY <2>1 DEF Postgres, Redis, Kafka
    <2>9. env["telemetry"] = "false" => built["telemetry"] = "noop"
      BY <2>1, <2>2 DEF TelemetryBuilt
    <2>. QED  BY <2>3, <2>4, <2>6, <2>7, <2>8, <2>9 DEF RunsAsConfigured
  <1>. QED  BY <1>1, StartInvariant, PTL
=============================================================================
