------------------------- MODULE WalletCacheProofs -------------------------
(***************************************************************************)
(* Proofs about WalletCache: for any number of readers and writers and any *)
(* balance, with Redis failing or not, no reservation is lost and no       *)
(* reader gets a wallet that was never committed.                          *)
(***************************************************************************)
EXTENDS WalletCache, FiniteSetTheorems, TLAPS

Outcome == {"ok", "not_found", "insufficient", "error"}

(* The writers whose Update returned o. *)
Returned(o) == {w \in Writer : outcome[w] = o}

CacheTypeOK ==
    /\ db \in Wallet \cup {None}
    /\ lock \in Writer \cup {None}
    /\ cache \in Wallet \cup {None}
    /\ reading \in [Reader -> {"idle", "query", "fill"}]
    /\ read \in [Reader -> Wallet \cup {None}]
    /\ answer \in [Reader -> Wallet \cup {None}]
    /\ writing \in [Writer -> {"idle", "locked", "commit", "invalidate", "done"}]
    /\ tx \in [Writer -> Wallet \cup {None}]
    /\ outcome \in [Writer -> Outcome \cup {None}]
    /\ seeding \in {"idle", "invalidate", "done"}

(* The row lock is held exactly while a transaction is between its SELECT and
   its end, and meanwhile the row is the one that the transaction read: what
   it will commit is that row with its own reservation. *)
LockProtectsRow ==
    \A w \in Writer :
        /\ writing[w] \in {"locked", "commit"} <=> lock = w
        /\ writing[w] = "locked" => db # None /\ tx[w] = db
        /\ writing[w] = "commit" =>
              db # None /\ CanReserveCOP(db, 1) /\ tx[w] = ReserveCOP(db, 1)

(* An Update has an outcome once its transaction is over, and before the row
   exists none is good. *)
OutcomesFollow ==
    /\ \A w \in Writer : outcome[w] # None <=> writing[w] \in {"invalidate", "done"}
    /\ db = None => Returned("ok") = {}
    /\ seeding = "idle" => db = None

(* The reservations in the row: all the confirmed ones, none that is neither
   confirmed nor unknown. *)
ReservationsCounted ==
    db # None =>
        /\ Cardinality(Returned("ok")) <= db.COPLocked
        /\ db.COPLocked <= Cardinality(Returned("ok")) + Cardinality(Returned("error"))
        /\ TotalCOP(db) = Balance
        /\ db.COPAvailable >= 0

(* A wallet that may have been the committed row at some time. *)
Past(x) == x # None => /\ db # None
                       /\ x.COPLocked <= db.COPLocked
                       /\ TotalCOP(x) = Balance

CopiesArePast ==
    /\ Past(cache)
    /\ \A r \in Reader : Past(read[r]) /\ Past(answer[r])

(* The inductive invariant. *)
CacheInv ==
    /\ CacheTypeOK
    /\ LockProtectsRow
    /\ OutcomesFollow
    /\ ReservationsCounted
    /\ CopiesArePast

-----------------------------------------------------------------------------
(* One unit reserved: the total stays, the balance does not become negative. *)
LEMMA ReserveOne ==
    ASSUME NEW x \in Wallet, CanReserveCOP(x, 1)
    PROVE  /\ ReserveCOP(x, 1) \in Wallet
           /\ ReserveCOP(x, 1).COPLocked = x.COPLocked + 1
           /\ ReserveCOP(x, 1).COPAvailable >= 0
           /\ TotalCOP(ReserveCOP(x, 1)) = TotalCOP(x)
  <1>. DEFINE available == x.COPAvailable - 1
              locked == x.COPLocked + 1
              y == [x EXCEPT !.COPAvailable = available, !.COPLocked = locked]
  <1>1. /\ x.COPAvailable \in Int /\ x.COPLocked \in Int /\ x.COPAvailable >= 1
        /\ available \in Int /\ locked \in Int
    BY DEF Wallet, CanReserveCOP
  <1>2. ReserveCOP(x, 1) = y
    BY DEF ReserveCOP
  <1>. HIDE DEF available, locked
  <1>3. y \in Wallet /\ y.COPLocked = locked /\ y.COPAvailable = available
    BY <1>1 DEF Wallet
  <1>. HIDE DEF y
  <1>. QED  BY <1>1, <1>2, <1>3 DEF TotalCOP, available, locked

(* The wallet that Upsert creates. *)
LEMMA SeedFacts ==
    /\ SeededWallet(Balance, 0) \in Wallet
    /\ SeededWallet(Balance, 0).COPLocked = 0
    /\ SeededWallet(Balance, 0).COPAvailable >= 0
    /\ TotalCOP(SeededWallet(Balance, 0)) = Balance
  BY BalanceAssumption DEF SeededWallet, Wallet, TotalCOP

(* A row that only gains reservations keeps every copy a past row. *)
LEMMA PastStays ==
    ASSUME NEW x \in Wallet \cup {None}, Past(x),
           db \in Wallet \cup {None}, db' \in Wallet \cup {None},
           db # None => db' # None /\ db.COPLocked <= db'.COPLocked
    PROVE  x # None => /\ db' # None
                       /\ x.COPLocked <= db'.COPLocked
                       /\ TotalCOP(x) = Balance
  <1>. SUFFICES ASSUME x # None
                PROVE  /\ db' # None
                       /\ x.COPLocked <= db'.COPLocked
                       /\ TotalCOP(x) = Balance
    OBVIOUS
  <1>1. db # None /\ x.COPLocked <= db.COPLocked /\ TotalCOP(x) = Balance
    BY DEF Past
  <1>2. x.COPLocked \in Int /\ db.COPLocked \in Int /\ db'.COPLocked \in Int
    BY <1>1, NoneIsNoWallet DEF Wallet
  <1>. QED  BY <1>1, <1>2

(* The same for all the copies, when a step changes none of them but may
   empty the cache. *)
LEMMA CopiesStay ==
    ASSUME CacheTypeOK, CopiesArePast, db' \in Wallet \cup {None},
           db # None => db' # None /\ db.COPLocked <= db'.COPLocked,
           cache' \in {cache, None}, read' = read, answer' = answer
    PROVE  CopiesArePast'
  <1>1. ASSUME NEW x \in Wallet \cup {None}, Past(x)
        PROVE  x # None => /\ db' # None
                           /\ x.COPLocked <= db'.COPLocked
                           /\ TotalCOP(x) = Balance
    BY <1>1, PastStays DEF CacheTypeOK
  <1>2. Past(cache)'
    BY <1>1 DEF CacheTypeOK, CopiesArePast, Past
  <1>3. ASSUME NEW r \in Reader PROVE Past(read[r])' /\ Past(answer[r])'
    <2>1. read[r] \in Wallet \cup {None} /\ answer[r] \in Wallet \cup {None}
      BY DEF CacheTypeOK
    <2>2. Past(read[r]) /\ Past(answer[r])
      BY DEF CopiesArePast
    <2>. QED  BY <1>1, <2>1, <2>2 DEF Past
  <1>. QED  BY <1>2, <1>3 DEF CopiesArePast

(* Steps that leave the row, the lock, the writers and the seeding alone. *)
LEMMA WritersStay ==
    ASSUME LockProtectsRow, OutcomesFollow, ReservationsCounted,
           UNCHANGED <<db, lock, writing, tx, outcome>>, 
           seeding' = seeding \/ seeding' # "idle"
    PROVE  LockProtectsRow' /\ OutcomesFollow' /\ ReservationsCounted'
  BY DEF LockProtectsRow, OutcomesFollow, ReservationsCounted, Returned

(* A writer's outcome, set once, adds the writer to one of the sets. *)
LEMMA OutcomeSet ==
    ASSUME CacheTypeOK, NEW w \in Writer, outcome[w] = None,
           NEW o \in Outcome, outcome' = [outcome EXCEPT ![w] = o]
    PROVE  /\ outcome' \in [Writer -> Outcome \cup {None}]
           /\ outcome'[w] = o /\ \A v \in Writer : v # w => outcome'[v] = outcome[v]
           /\ \A c \in Outcome : /\ IsFiniteSet(Returned(c)) /\ Cardinality(Returned(c)) \in Nat
                                 /\ Cardinality(Returned(c)') = Cardinality(Returned(c))
                                                    + (IF c = o THEN 1 ELSE 0)
                                 /\ Returned(c)' = IF c = o THEN Returned(c) \cup {w} ELSE Returned(c)
  <1>1. /\ outcome' \in [Writer -> Outcome \cup {None}]
        /\ outcome'[w] = o /\ \A v \in Writer : v # w => outcome'[v] = outcome[v]
    BY DEF CacheTypeOK
  <1>2. ASSUME NEW c \in Outcome
        PROVE  /\ IsFiniteSet(Returned(c)) /\ Cardinality(Returned(c)) \in Nat
               /\ Cardinality(Returned(c)') = Cardinality(Returned(c)) + (IF c = o THEN 1 ELSE 0)
               /\ Returned(c)' = IF c = o THEN Returned(c) \cup {w} ELSE Returned(c)
    <2>1. Returned(c) \in SUBSET Writer
      BY DEF Returned
    <2>2. IsFiniteSet(Returned(c)) /\ Cardinality(Returned(c)) \in Nat
      BY <2>1, WriterAssumption, FS_Subset, FS_CardinalityType
    <2>3. w \notin Returned(c)
      BY NoneIsNoOutcome DEF Returned, Outcome
    <2>4. Returned(c)' = IF c = o THEN Returned(c) \cup {w} ELSE Returned(c)
      BY <1>1, <2>3 DEF Returned
    <2>5. Cardinality(Returned(c) \cup {w}) = Cardinality(Returned(c)) + 1
      BY <2>2, <2>3, FS_AddElement
    <2>. QED  BY <2>2, <2>4, <2>5
  <1>. QED  BY <1>1, <1>2

-----------------------------------------------------------------------------
(* The empty system. *)
LEMMA CacheInitInv == Init => CacheInv
  <1>. SUFFICES ASSUME Init PROVE CacheInv
    OBVIOUS
  <1>1. CacheTypeOK
    BY DEF Init, CacheTypeOK
  <1>2. LockProtectsRow
    BY NoneIsNoWallet DEF Init, LockProtectsRow
  <1>3. OutcomesFollow
    BY NoneIsNoOutcome DEF Init, OutcomesFollow, Returned
  <1>4. ReservationsCounted
    BY DEF Init, ReservationsCounted
  <1>5. CopiesArePast
    BY DEF Init, CopiesArePast, Past
  <1>. QED  BY <1>1, <1>2, <1>3, <1>4, <1>5 DEF CacheInv

(* A Get only copies the row or an earlier copy of it. *)
LEMMA GetInv ==
    ASSUME CacheInv, NEW r \in Reader, Get(r)
    PROVE  CacheInv'
  <1>1. CacheTypeOK /\ LockProtectsRow /\ OutcomesFollow /\ ReservationsCounted /\ CopiesArePast
    BY DEF CacheInv
  <1>2. UNCHANGED <<db, lock, writing, tx, outcome, seeding>>
    BY DEF Get, GetHit, GetMiss, GetQuery, GetFill, writerVars
  <1>3. CacheTypeOK'
    <2>1. CASE GetHit(r)
      BY <1>1, <2>1 DEF CacheTypeOK, GetHit, writerVars
    <2>2. CASE GetMiss(r)
      BY <1>1, <2>2 DEF CacheTypeOK, GetMiss, writerVars
    <2>3. CASE GetQuery(r)
      BY <1>1, <2>3 DEF CacheTypeOK, GetQuery, writerVars
    <2>4. CASE GetFill(r)
      BY <1>1, <2>4 DEF CacheTypeOK, GetFill, writerVars
    <2>. QED  BY <2>1, <2>2, <2>3, <2>4 DEF Get
  <1>4. LockProtectsRow' /\ OutcomesFollow' /\ ReservationsCounted'
    BY <1>1, <1>2, WritersStay
  <1>5. CopiesArePast'
    <2>1. Past(cache) /\ Past(read[r]) /\ Past(db)
      <3>1. db # None => db.COPLocked <= db.COPLocked
        BY <1>1, NoneIsNoWallet DEF CacheTypeOK, Wallet
      <3>. QED  BY <1>1, <3>1 DEF CopiesArePast, Past, ReservationsCounted
    <2>2. CASE GetHit(r)
      BY <1>1, <2>1, <2>2 DEF CacheTypeOK, GetHit, CopiesArePast, Past
    <2>3. CASE GetMiss(r)
      BY <1>1, <2>3 DEF CacheTypeOK, GetMiss, CopiesArePast, Past
    <2>4. CASE GetQuery(r)
      BY <1>1, <2>1, <2>4 DEF CacheTypeOK, GetQuery, CopiesArePast, Past
    <2>5. CASE GetFill(r)
      BY <1>1, <2>1, <2>5 DEF CacheTypeOK, GetFill, CopiesArePast, Past
    <2>. QED  BY <2>2, <2>3, <2>4, <2>5 DEF Get
  <1>. QED  BY <1>3, <1>4, <1>5 DEF CacheInv

(* The row lock is taken when it is free, so nobody else is in the middle. *)
LEMMA UpdateLockInv ==
    ASSUME CacheInv, NEW w \in Writer, UpdateLock(w)
    PROVE  CacheInv'
  <1>1. CacheTypeOK /\ LockProtectsRow /\ OutcomesFollow /\ ReservationsCounted /\ CopiesArePast
    BY DEF CacheInv
  <1>2. CacheTypeOK'
    BY <1>1 DEF CacheTypeOK, UpdateLock, readerVars
  <1>3. LockProtectsRow'
    BY <1>1, NoneIsNoWallet DEF CacheTypeOK, LockProtectsRow, UpdateLock
  <1>4. OutcomesFollow'
    BY <1>1 DEF CacheTypeOK, OutcomesFollow, UpdateLock, Returned
  <1>5. ReservationsCounted'
    BY <1>1 DEF ReservationsCounted, UpdateLock, Returned
  <1>6. CopiesArePast'
    BY <1>1 DEF CopiesArePast, Past, UpdateLock, readerVars
  <1>. QED  BY <1>2, <1>3, <1>4, <1>5, <1>6 DEF CacheInv

(* fn works on the transaction's own copy. *)
LEMMA UpdateApplyInv ==
    ASSUME CacheInv, NEW w \in Writer, UpdateApply(w)
    PROVE  CacheInv'
  <1>1. CacheTypeOK /\ LockProtectsRow /\ OutcomesFollow /\ ReservationsCounted /\ CopiesArePast
    BY DEF CacheInv
  <1>2. /\ writing[w] = "locked" /\ db # None /\ tx[w] = db /\ db \in Wallet
        /\ CanReserveCOP(db, 1) /\ tx' = [tx EXCEPT ![w] = ReserveCOP(db, 1)]
        /\ writing' = [writing EXCEPT ![w] = "commit"]
        /\ UNCHANGED <<db, lock, cache, reading, read, answer, outcome, seeding>>
    BY <1>1 DEF LockProtectsRow, CacheTypeOK, UpdateApply, readerVars
  <1>3. ReserveCOP(db, 1) \in Wallet
    BY <1>2, ReserveOne
  <1>4. CacheTypeOK'
    BY <1>1, <1>2, <1>3 DEF CacheTypeOK
  <1>5. LockProtectsRow'
    BY <1>1, <1>2 DEF CacheTypeOK, LockProtectsRow
  <1>6. OutcomesFollow'
    BY <1>1, <1>2 DEF CacheTypeOK, OutcomesFollow, Returned
  <1>7. ReservationsCounted'
    BY <1>1, <1>2 DEF ReservationsCounted, Returned
  <1>8. CopiesArePast'
    BY <1>1, <1>2 DEF CopiesArePast, Past
  <1>. QED  BY <1>4, <1>5, <1>6, <1>7, <1>8 DEF CacheInv

(* An Update that ends without a commit changes nothing but its own state; an
   outcome other than ok only widens what the row may hold. *)
LEMMA GiveUpInv ==
    ASSUME CacheInv, NEW w \in Writer, NEW why \in Outcome \ {"ok"},
           writing[w] \in {"idle", "locked", "commit"}, GiveUp(w, why)
    PROVE  CacheInv'
  <1>1. CacheTypeOK /\ LockProtectsRow /\ OutcomesFollow /\ ReservationsCounted /\ CopiesArePast
    BY DEF CacheInv
  <1>2. /\ outcome' = [outcome EXCEPT ![w] = why]
        /\ writing' = [writing EXCEPT ![w] = "invalidate"]
        /\ lock' = IF lock = w THEN None ELSE lock
        /\ UNCHANGED <<db, cache, reading, read, answer, tx, seeding>>
    BY DEF GiveUp, readerVars
  <1>3. outcome[w] = None
    BY <1>1 DEF OutcomesFollow
  <1>4. /\ outcome' \in [Writer -> Outcome \cup {None}]
        /\ outcome'[w] = why /\ \A v \in Writer : v # w => outcome'[v] = outcome[v]
        /\ Returned("ok")' = Returned("ok")
        /\ Cardinality(Returned("ok")) \in Nat /\ Cardinality(Returned("error")) \in Nat
        /\ \/ Cardinality(Returned("error")') = Cardinality(Returned("error"))
           \/ Cardinality(Returned("error")') = Cardinality(Returned("error")) + 1
    <2>1. "ok" \in Outcome /\ "error" \in Outcome
      BY DEF Outcome
    <2>. QED  BY <1>1, <1>2, <1>3, <2>1, OutcomeSet
  <1>5. CacheTypeOK'
    BY <1>1, <1>2, <1>4 DEF CacheTypeOK
  <1>6. LockProtectsRow'
    BY <1>1, <1>2, NoneIsNoWallet DEF CacheTypeOK, LockProtectsRow
  <1>7. OutcomesFollow'
    <2>1. why # None
      BY NoneIsNoOutcome DEF Outcome
    <2>. QED  BY <1>1, <1>2, <1>4, <2>1 DEF CacheTypeOK, OutcomesFollow
  <1>8. ReservationsCounted'
    <2>. SUFFICES ASSUME db # None
                  PROVE  /\ Cardinality(Returned("ok")') <= db.COPLocked
                         /\ db.COPLocked <= Cardinality(Returned("ok")')
                                              + Cardinality(Returned("error")')
                         /\ TotalCOP(db) = Balance
                         /\ db.COPAvailable >= 0
      BY <1>2 DEF ReservationsCounted
    <2>1. db.COPLocked \in Int
      BY <1>1 DEF CacheTypeOK, Wallet
    <2>. QED  BY <1>1, <1>4, <2>1 DEF ReservationsCounted
  <1>9. CopiesArePast'
    BY <1>1, <1>2 DEF CopiesArePast, Past
  <1>. QED  BY <1>5, <1>6, <1>7, <1>8, <1>9 DEF CacheInv

(* A commit adds one reservation to the row that every other caller sees, and
   its writer is counted as ok or, when the answer is lost, as error. *)
LEMMA UpdateCommitInv ==
    ASSUME CacheInv, NEW w \in Writer, UpdateCommit(w)
    PROVE  CacheInv'
  <1>1. CacheTypeOK /\ LockProtectsRow /\ OutcomesFollow /\ ReservationsCounted /\ CopiesArePast
    BY DEF CacheInv
  <1>2. PICK o \in {"ok", "error"} : outcome' = [outcome EXCEPT ![w] = o]
    BY DEF UpdateCommit
  <1>3. /\ writing[w] = "commit" /\ lock = w /\ lock' = None /\ db' = tx[w]
        /\ db # None /\ db \in Wallet /\ CanReserveCOP(db, 1)
        /\ tx[w] = ReserveCOP(db, 1)
        /\ writing' = [writing EXCEPT ![w] = "invalidate"]
        /\ UNCHANGED <<cache, reading, read, answer, tx, seeding>>
    BY <1>1 DEF LockProtectsRow, CacheTypeOK, UpdateCommit, readerVars
  <1>4. /\ db' \in Wallet /\ db' # None
        /\ db'.COPLocked = db.COPLocked + 1
        /\ db'.COPAvailable >= 0
        /\ TotalCOP(db') = TotalCOP(db)
    BY <1>3, ReserveOne, NoneIsNoWallet
  <1>5. outcome[w] = None
    BY <1>1, <1>3 DEF OutcomesFollow
  <1>6. /\ outcome' \in [Writer -> Outcome \cup {None}]
        /\ outcome'[w] = o /\ \A v \in Writer : v # w => outcome'[v] = outcome[v]
        /\ Cardinality(Returned("ok")) \in Nat /\ Cardinality(Returned("error")) \in Nat
        /\ Cardinality(Returned("ok")') = Cardinality(Returned("ok"))
                                            + (IF "ok" = o THEN 1 ELSE 0)
        /\ Cardinality(Returned("error")') = Cardinality(Returned("error"))
                                            + (IF "error" = o THEN 1 ELSE 0)
    <2>1. "ok" \in Outcome /\ "error" \in Outcome /\ o \in Outcome
      BY DEF Outcome
    <2>. QED  BY <1>1, <1>2, <1>5, <2>1, OutcomeSet
  <1>7. CacheTypeOK'
    BY <1>1, <1>3, <1>4, <1>6 DEF CacheTypeOK
  <1>8. LockProtectsRow'
    BY <1>1, <1>3, NoneIsNoWallet DEF CacheTypeOK, LockProtectsRow
  <1>9. OutcomesFollow'
    <2>1. o # None
      BY NoneIsNoOutcome
    <2>2. \A v \in Writer : outcome'[v] # None <=> writing'[v] \in {"invalidate", "done"}
      BY <1>1, <1>3, <1>6, <2>1 DEF CacheTypeOK, OutcomesFollow
    <2>3. seeding' # "idle"
      BY <1>1, <1>3 DEF OutcomesFollow
    <2>. QED  BY <1>4, <2>2, <2>3 DEF OutcomesFollow
  <1>10. ReservationsCounted'
    <2>. SUFFICES /\ Cardinality(Returned("ok")') <= db'.COPLocked
                  /\ db'.COPLocked <= Cardinality(Returned("ok")')
                                        + Cardinality(Returned("error")')
                  /\ TotalCOP(db') = Balance
                  /\ db'.COPAvailable >= 0
      BY DEF ReservationsCounted
    <2>1. db.COPLocked \in Int
      BY <1>3 DEF Wallet
    <2>2. /\ Cardinality(Returned("ok")) <= db.COPLocked
          /\ db.COPLocked <= Cardinality(Returned("ok")) + Cardinality(Returned("error"))
          /\ TotalCOP(db) = Balance
      BY <1>1, <1>3 DEF ReservationsCounted
    <2>3. (o = "ok" /\ "error" # o) \/ (o = "error" /\ "ok" # o)
      OBVIOUS
    <2>. QED  BY <1>4, <1>6, <2>1, <2>2, <2>3
  <1>11. CopiesArePast'
    <2>1. db.COPLocked <= db'.COPLocked
      <3>1. db.COPLocked \in Int
        BY <1>3 DEF Wallet
      <3>. QED  BY <1>4, <3>1
    <2>. QED  BY <1>1, <1>3, <1>4, <2>1, CopiesStay
  <1>. QED  BY <1>7, <1>8, <1>9, <1>10, <1>11 DEF CacheInv

(* Deleting the entry, or failing to, leaves a past row or nothing. *)
LEMMA UpdateInvalidateInv ==
    ASSUME CacheInv, NEW w \in Writer, UpdateInvalidate(w)
    PROVE  CacheInv'
  <1>1. CacheTypeOK /\ LockProtectsRow /\ OutcomesFollow /\ ReservationsCounted /\ CopiesArePast
    BY DEF CacheInv
  <1>2. /\ writing[w] = "invalidate" /\ cache' \in {cache, None}
        /\ writing' = [writing EXCEPT ![w] = "done"]
        /\ UNCHANGED <<db, lock, reading, read, answer, tx, outcome, seeding>>
    BY DEF UpdateInvalidate, Invalidated, readerVars
  <1>3. CacheTypeOK'
    BY <1>1, <1>2 DEF CacheTypeOK
  <1>4. LockProtectsRow'
    BY <1>1, <1>2 DEF CacheTypeOK, LockProtectsRow
  <1>5. OutcomesFollow'
    BY <1>1, <1>2 DEF CacheTypeOK, OutcomesFollow, Returned
  <1>6. ReservationsCounted'
    BY <1>1, <1>2 DEF ReservationsCounted, Returned
  <1>7. CopiesArePast'
    BY <1>1, <1>2 DEF CopiesArePast, Past
  <1>. QED  BY <1>3, <1>4, <1>5, <1>6, <1>7 DEF CacheInv

(* The wallet is created before any reservation can have been confirmed. *)
LEMMA UpsertInv ==
    ASSUME CacheInv, Upsert
    PROVE  CacheInv'
  <1>. DEFINE seed == SeededWallet(Balance, 0)
  <1>1. CacheTypeOK /\ LockProtectsRow /\ OutcomesFollow /\ ReservationsCounted /\ CopiesArePast
    BY DEF CacheInv
  <1>2. /\ db = None /\ db' \in {db, seed} /\ seeding' \in {"invalidate", "done"}
        /\ UNCHANGED <<lock, cache, reading, read, answer, writing, tx, outcome>>
    BY <1>1 DEF Upsert, OutcomesFollow, readerVars, writerVars
  <1>3. seed \in Wallet /\ seed.COPLocked = 0 /\ seed.COPAvailable >= 0 /\ TotalCOP(seed) = Balance
    BY SeedFacts
  <1>. HIDE DEF seed
  <1>4. CacheTypeOK'
    BY <1>1, <1>2, <1>3 DEF CacheTypeOK
  <1>5. LockProtectsRow'
    <2>1. \A w \in Writer : writing[w] \notin {"locked", "commit"}
      BY <1>1, <1>2 DEF LockProtectsRow
    <2>. QED  BY <1>1, <1>2, <2>1 DEF LockProtectsRow
  <1>6. Returned("ok") = {} /\ Returned("ok")' = {} /\ Returned("error")' = Returned("error")
    BY <1>1, <1>2 DEF OutcomesFollow, Returned
  <1>7. OutcomesFollow'
    BY <1>1, <1>2, <1>6 DEF OutcomesFollow
  <1>8. ReservationsCounted'
    <2>. SUFFICES ASSUME db' # None
                  PROVE  /\ Cardinality(Returned("ok")') <= db'.COPLocked
                         /\ db'.COPLocked <= Cardinality(Returned("ok")')
                                               + Cardinality(Returned("error")')
                         /\ TotalCOP(db') = Balance
                         /\ db'.COPAvailable >= 0
      BY DEF ReservationsCounted
    <2>1. db' = seed
      BY <1>2
    <2>2. Cardinality(Returned("ok")') = 0
      BY <1>6, FS_EmptySet
    <2>3. Cardinality(Returned("error")') \in Nat
      <3>1. Returned("error") \in SUBSET Writer
        BY DEF Returned
      <3>. QED  BY <1>6, <3>1, WriterAssumption, FS_Subset, FS_CardinalityType
    <2>. QED  BY <1>3, <2>1, <2>2, <2>3
  <1>9. CopiesArePast'
    BY <1>1, <1>2 DEF CopiesArePast, Past
  <1>. QED  BY <1>4, <1>5, <1>7, <1>8, <1>9 DEF CacheInv

(* The entry goes, by an invalidation or by its TTL. *)
LEMMA EntryGoesInv ==
    ASSUME CacheInv, cache' \in {cache, None}, seeding' \in {seeding, "done"},
           UNCHANGED <<db, lock, reading, read, answer, writing, tx, outcome>>
    PROVE  CacheInv'
  <1>1. CacheTypeOK /\ LockProtectsRow /\ OutcomesFollow /\ ReservationsCounted /\ CopiesArePast
    BY DEF CacheInv
  <1>2. CacheTypeOK'
    BY <1>1 DEF CacheTypeOK
  <1>3. LockProtectsRow' /\ OutcomesFollow' /\ ReservationsCounted'
    BY <1>1, WritersStay
  <1>4. CopiesArePast'
    BY <1>1 DEF CopiesArePast, Past
  <1>. QED  BY <1>2, <1>3, <1>4 DEF CacheInv

-----------------------------------------------------------------------------
(* The invariant holds in every behaviour, for any set of readers and any
   finite set of writers. *)
THEOREM CacheInvariant == Spec => []CacheInv
  <1>1. Init => CacheInv
    BY CacheInitInv
  <1>2. CacheInv /\ [Next]_vars => CacheInv'
    <2>. SUFFICES ASSUME CacheInv, [Next]_vars PROVE CacheInv'
      OBVIOUS
    <2>1. ASSUME NEW r \in Reader, Get(r) PROVE CacheInv'
      BY <2>1, GetInv
    <2>2. ASSUME NEW w \in Writer, Update(w) PROVE CacheInv'
      <3>1. CASE UpdateLock(w)
        BY <2>2, <3>1, UpdateLockInv
      <3>2. CASE UpdateNotFound(w)
        BY <2>2, <3>2, GiveUpInv DEF UpdateNotFound, Outcome
      <3>3. CASE UpdateRefused(w)
        BY <2>2, <3>3, GiveUpInv DEF UpdateRefused, Outcome
      <3>4. CASE UpdateFailed(w)
        BY <2>2, <3>4, GiveUpInv DEF UpdateFailed, Outcome
      <3>5. CASE UpdateApply(w)
        BY <2>2, <3>5, UpdateApplyInv
      <3>6. CASE UpdateCommit(w)
        BY <2>2, <3>6, UpdateCommitInv
      <3>7. CASE UpdateInvalidate(w)
        BY <2>2, <3>7, UpdateInvalidateInv
      <3>. QED  BY <2>2, <3>1, <3>2, <3>3, <3>4, <3>5, <3>6, <3>7 DEF Update
    <2>3. CASE Upsert
      BY <2>3, UpsertInv
    <2>4. CASE UpsertInvalidate
      BY <2>4, EntryGoesInv DEF UpsertInvalidate, Invalidated, readerVars, writerVars
    <2>5. CASE Expire
      BY <2>5, EntryGoesInv DEF Expire, readerVars, writerVars
    <2>6. CASE UNCHANGED vars
      BY <2>6, EntryGoesInv DEF vars, readerVars, writerVars
    <2>. QED  BY <2>1, <2>2, <2>3, <2>4, <2>5, <2>6 DEF Next
  <1>. QED  BY <1>1, <1>2, PTL DEF Spec

(* No update is lost: postgres/wallet.go's FOR UPDATE serialises the read and
   the write of every Update, however many run at once and whichever commits
   lose their answer. *)
THEOREM UpdatesAreKept == Spec => []NoLostUpdate
  <1>1. CacheInv => NoLostUpdate
    <2>. SUFFICES ASSUME CacheInv, db # None PROVE NoLostUpdate
      BY DEF NoLostUpdate
    <2>1. /\ Cardinality(Returned("ok")) <= db.COPLocked
          /\ db.COPLocked <= Cardinality(Returned("ok")) + Cardinality(Returned("error"))
          /\ TotalCOP(db) = Balance
          /\ db.COPAvailable >= 0
      BY DEF CacheInv, ReservationsCounted
    <2>2. db.COPLocked \in Int
      BY DEF CacheInv, CacheTypeOK, Wallet
    <2>3. Cardinality(Returned("ok")) \in Nat
      <3>1. Returned("ok") \in SUBSET Writer
        BY DEF Returned
      <3>. QED  BY <3>1, WriterAssumption, FS_Subset, FS_CardinalityType
    <2>4. db.COPLocked >= Cardinality(Returned("ok"))
      BY <2>1, <2>2, <2>3
    <2>. QED  BY <2>1, <2>4, Zenon DEF NoLostUpdate, Returned
  <1>. QED  BY <1>1, CacheInvariant, PTL

(* Every wallet that a Get returns, from the cache of rediscache or from the
   database, was the committed row at some time. *)
THEOREM ReadersSeeCommitted == Spec => []ReadsCommitted
  <1>1. CacheInv => ReadsCommitted
    BY DEF CacheInv, CopiesArePast, Past, ReadsCommitted
  <1>. QED  BY <1>1, CacheInvariant, PTL
=============================================================================
