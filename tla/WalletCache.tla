---------------------------- MODULE WalletCache ----------------------------
(***************************************************************************)
(* One wallet in Postgres (internal/adapter/driven/postgres/wallet.go)     *)
(* behind the Redis read cache (internal/adapter/driven/rediscache):       *)
(* readers look in the cache, then in the database, and fill the cache;    *)
(* writers lock the row, change it, commit, and then delete the cached     *)
(* entry.  Keys are independent, so one wallet stands for all.             *)
(*                                                                         *)
(* A writer reserves one unit of COP, as Trading.reserve does.  The        *)
(* database may fail a statement, and may lose the answer to a commit.     *)
(***************************************************************************)
EXTENDS Wallet, FiniteSets

CONSTANTS
    Reader,      \* callers of Get; each may call again and again
    Writer,      \* callers of Update, one call each
    Balance,     \* what the wallet is seeded with
    RedisFails,  \* whether operations on the cache may fail
    None

ASSUME BalanceAssumption == Balance \in Nat
ASSUME RedisFailsAssumption == RedisFails \in BOOLEAN
ASSUME WriterAssumption == IsFiniteSet(Writer)
ASSUME NoneIsNoWallet == None \notin Wallet /\ None \notin Writer
ASSUME NoneIsNoOutcome == None \notin {"ok", "not_found", "insufficient", "error"}

VARIABLES
    db,       \* the committed row, None before it exists
    lock,     \* the transaction that holds the row lock, or None
    cache,    \* the entry in Redis, or None
    reading,  \* where a Get stands
    read,     \* the row a Get has read from the database
    answer,   \* what the last Get of a reader returned
    writing,  \* where an Update stands
    tx,       \* the row as the transaction has changed it
    outcome,  \* what an Update returned
    seeding   \* where the Upsert that creates the wallet stands

readerVars == <<reading, read, answer>>
writerVars == <<writing, tx, outcome>>
vars == <<db, lock, cache, readerVars, writerVars, seeding>>

-----------------------------------------------------------------------------
(* Get *)

(* The cache has an entry and answers. *)
GetHit(r) ==
    /\ reading[r] = "idle"
    /\ cache # None
    /\ answer' = [answer EXCEPT ![r] = cache]
    /\ UNCHANGED <<db, lock, cache, reading, read, writerVars, seeding>>

(* No entry, or no answer from Redis: the database is asked.  (An entry that
   does not unmarshal cannot be met: every entry was written by GetFill.) *)
GetMiss(r) ==
    /\ reading[r] = "idle"
    /\ cache = None \/ RedisFails
    /\ reading' = [reading EXCEPT ![r] = "query"]
    /\ UNCHANGED <<db, lock, cache, read, answer, writerVars, seeding>>

(* Mutant of GetQuery: a row that was read once is used again. *)
GetQueryOnce(r) ==
    /\ reading[r] = "query"
    /\ IF db = None
       THEN reading' = [reading EXCEPT ![r] = "idle"] /\ UNCHANGED read
       ELSE /\ reading' = [reading EXCEPT ![r] = "fill"]
            /\ read' = [read EXCEPT ![r] = IF @ = None THEN db ELSE @]
    /\ UNCHANGED <<db, lock, cache, answer, writerVars, seeding>>

(* WalletStore.Get: a row that does not exist is an error, as is a database
   that does not answer. *)
GetQuery(r) ==
    /\ reading[r] = "query"
    /\ \/ /\ reading' = [reading EXCEPT ![r] = "idle"]
          /\ UNCHANGED read
       \/ /\ db # None
          /\ reading' = [reading EXCEPT ![r] = "fill"]
          /\ read' = [read EXCEPT ![r] = db]
    /\ UNCHANGED <<db, lock, cache, answer, writerVars, seeding>>

(* The row goes into the cache, if Redis takes it, and to the caller. *)
GetFill(r) ==
    /\ reading[r] = "fill"
    /\ \/ cache' = read[r]
       \/ RedisFails /\ UNCHANGED cache
    /\ answer' = [answer EXCEPT ![r] = read[r]]
    /\ reading' = [reading EXCEPT ![r] = "idle"]
    /\ UNCHANGED <<db, lock, read, writerVars, seeding>>

-----------------------------------------------------------------------------
(* Update and Upsert *)

(* Mutant of UpdateLock: the row is read without FOR UPDATE. *)
UpdateNoLock(w) ==
    /\ writing[w] = "idle"
    /\ db # None
    /\ tx' = [tx EXCEPT ![w] = db]
    /\ writing' = [writing EXCEPT ![w] = "locked"]
    /\ UNCHANGED <<db, lock, cache, readerVars, outcome, seeding>>

(* BEGIN; SELECT ... FOR UPDATE waits for the row lock and takes it. *)
UpdateLock(w) ==
    /\ writing[w] = "idle"
    /\ lock = None
    /\ db # None
    /\ lock' = w
    /\ tx' = [tx EXCEPT ![w] = db]
    /\ writing' = [writing EXCEPT ![w] = "locked"]
    /\ UNCHANGED <<db, cache, readerVars, outcome, seeding>>

(* An Update ends without a commit: the transaction is rolled back. *)
GiveUp(w, why) ==
    /\ outcome' = [outcome EXCEPT ![w] = why]
    /\ writing' = [writing EXCEPT ![w] = "invalidate"]
    /\ lock' = IF lock = w THEN None ELSE lock
    /\ UNCHANGED <<db, cache, readerVars, tx, seeding>>

(* There is no such row, or the domain rule refuses, or a statement fails. *)
UpdateNotFound(w) == writing[w] = "idle" /\ db = None /\ GiveUp(w, "not_found")
UpdateRefused(w) ==
    writing[w] = "locked" /\ ~CanReserveCOP(tx[w], 1) /\ GiveUp(w, "insufficient")
UpdateFailed(w) == writing[w] \in {"idle", "locked", "commit"} /\ GiveUp(w, "error")

(* Mutant of UpdateApply: the new row is put in the cache before the commit. *)
UpdateWritesThrough(w) ==
    /\ writing[w] = "locked"
    /\ CanReserveCOP(tx[w], 1)
    /\ tx' = [tx EXCEPT ![w] = ReserveCOP(@, 1)]
    /\ cache' = ReserveCOP(tx[w], 1)
    /\ writing' = [writing EXCEPT ![w] = "commit"]
    /\ UNCHANGED <<db, lock, readerVars, outcome, seeding>>

(* fn changes the copy and UPDATE stores it inside the transaction. *)
UpdateApply(w) ==
    /\ writing[w] = "locked"
    /\ CanReserveCOP(tx[w], 1)
    /\ tx' = [tx EXCEPT ![w] = ReserveCOP(@, 1)]
    /\ writing' = [writing EXCEPT ![w] = "commit"]
    /\ UNCHANGED <<db, lock, cache, readerVars, outcome, seeding>>

(* COMMIT succeeds; its answer may be lost on the way back. *)
UpdateCommit(w) ==
    /\ writing[w] = "commit"
    /\ db' = tx[w]
    /\ lock' = IF lock = w THEN None ELSE lock
    /\ \E o \in {"ok", "error"} : outcome' = [outcome EXCEPT ![w] = o]
    /\ writing' = [writing EXCEPT ![w] = "invalidate"]
    /\ UNCHANGED <<cache, readerVars, tx, seeding>>

(* invalidate: the entry is deleted, unless Redis fails, which is ignored. *)
Invalidated == cache' = None \/ (RedisFails /\ UNCHANGED cache)

(* WalletCache.Update deletes the entry whatever the outcome was. *)
UpdateInvalidate(w) ==
    /\ writing[w] = "invalidate"
    /\ Invalidated
    /\ writing' = [writing EXCEPT ![w] = "done"]
    /\ UNCHANGED <<db, lock, readerVars, tx, outcome, seeding>>

(* WalletCache.Upsert: the row is created, then the entry is deleted; after an
   error, with the row created or not, the entry stays. *)
Upsert ==
    /\ seeding = "idle"
    /\ \/ db' = SeededWallet(Balance, 0) /\ seeding' = "invalidate"
       \/ db' \in {db, SeededWallet(Balance, 0)} /\ seeding' = "done"
    /\ UNCHANGED <<lock, cache, readerVars, writerVars>>

UpsertInvalidate ==
    /\ seeding = "invalidate"
    /\ Invalidated
    /\ seeding' = "done"
    /\ UNCHANGED <<db, lock, readerVars, writerVars>>

(* Redis drops the entry when its TTL is over. *)
Expire ==
    /\ cache # None
    /\ cache' = None
    /\ UNCHANGED <<db, lock, readerVars, writerVars, seeding>>

-----------------------------------------------------------------------------
Init ==
    /\ db = None
    /\ lock = None
    /\ cache = None
    /\ reading = [r \in Reader |-> "idle"]
    /\ read = [r \in Reader |-> None]
    /\ answer = [r \in Reader |-> None]
    /\ writing = [w \in Writer |-> "idle"]
    /\ tx = [w \in Writer |-> None]
    /\ outcome = [w \in Writer |-> None]
    /\ seeding = "idle"

Get(r) == GetHit(r) \/ GetMiss(r) \/ GetQuery(r) \/ GetFill(r)

Update(w) ==
    \/ UpdateLock(w) \/ UpdateNotFound(w) \/ UpdateRefused(w) \/ UpdateFailed(w)
    \/ UpdateApply(w) \/ UpdateCommit(w) \/ UpdateInvalidate(w)

Next ==
    \/ \E r \in Reader : Get(r)
    \/ \E w \in Writer : Update(w)
    \/ Upsert \/ UpsertInvalidate
    \/ Expire

Spec == Init /\ [][Next]_vars

(* An entry does not outlive its TTL. *)
FairSpec == Spec /\ WF_vars(Expire)

-----------------------------------------------------------------------------
(* Properties *)

(* No update is lost: FOR UPDATE serialises the read and the write of Update,
   so every reservation that was confirmed is in the row, and nothing is there
   that was neither confirmed nor left open by a failed commit. *)
NoLostUpdate ==
    db # None =>
        LET With(o) == Cardinality({w \in Writer : outcome[w] = o})
        IN  /\ db.COPLocked >= With("ok")
            /\ db.COPLocked <= With("ok") + With("error")
            /\ TotalCOP(db) = Balance
            /\ db.COPAvailable >= 0

(* Whatever Get returns, from the cache or not, was the committed wallet at
   some time: never a change that was rolled back, never a future one. *)
ReadsCommitted ==
    \A r \in Reader : answer[r] # None =>
        /\ db # None
        /\ answer[r].COPLocked <= db.COPLocked
        /\ TotalCOP(answer[r]) = Balance

(* A stale entry does not last: once the writers have stopped, the TTL leaves
   the cache empty or right for ever, also when Redis lost invalidations. *)
StalenessEnds == <>[](cache \in {None, db})
=============================================================================
