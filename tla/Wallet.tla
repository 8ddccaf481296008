------------------------------- MODULE Wallet -------------------------------
(***************************************************************************)
(* The wallet entity of internal/core/domain/wallet.go: two assets, each   *)
(* split into what the user may spend and what backs open orders.  Every   *)
(* operation either applies or, where the Go method returns an error,      *)
(* leaves the wallet as it was.  Amounts are taken not to overflow int64.  *)
(***************************************************************************)
EXTENDS Integers

Wallet == [COPAvailable: Int, COPLocked: Int,
           VibraniumAvailable: Int, VibraniumLocked: Int]

(* The wallet that Wallets.Seed stores: nothing locked. *)
SeededWallet(cop, vibranium) ==
    [COPAvailable |-> cop, COPLocked |-> 0,
     VibraniumAvailable |-> vibranium, VibraniumLocked |-> 0]

(* Mutant of CanReserveCOP: the balance is not looked at. *)
CanReserveAnyCOP(w, amount) == amount >= 0

CanReserveCOP(w, amount) == amount >= 0 /\ w.COPAvailable >= amount

ReserveCOP(w, amount) ==
    IF CanReserveCOP(w, amount)
    THEN [w EXCEPT !.COPAvailable = @ - amount, !.COPLocked = @ + amount]
    ELSE w

CanReserveVibranium(w, amount) == amount >= 0 /\ w.VibraniumAvailable >= amount

ReserveVibranium(w, amount) ==
    IF CanReserveVibranium(w, amount)
    THEN [w EXCEPT !.VibraniumAvailable = @ - amount, !.VibraniumLocked = @ + amount]
    ELSE w

CanReleaseCOP(w, amount) == amount >= 0 /\ w.COPLocked >= amount

ReleaseCOP(w, amount) ==
    IF CanReleaseCOP(w, amount)
    THEN [w EXCEPT !.COPLocked = @ - amount, !.COPAvailable = @ + amount]
    ELSE w

CanReleaseVibranium(w, amount) == amount >= 0 /\ w.VibraniumLocked >= amount

ReleaseVibranium(w, amount) ==
    IF CanReleaseVibranium(w, amount)
    THEN [w EXCEPT !.VibraniumLocked = @ - amount, !.VibraniumAvailable = @ + amount]
    ELSE w

(* The buyer's leg of a trade: locked COP is spent, Vibranium is credited. *)
CanSettleBuy(w, spent, vibranium) ==
    spent >= 0 /\ vibranium >= 0 /\ w.COPLocked >= spent

SettleBuy(w, spent, vibranium) ==
    IF CanSettleBuy(w, spent, vibranium)
    THEN [w EXCEPT !.COPLocked = @ - spent, !.VibraniumAvailable = @ + vibranium]
    ELSE w

(* The seller's leg: locked Vibranium is delivered, COP is credited. *)
CanSettleSell(w, vibranium, received) ==
    vibranium >= 0 /\ received >= 0 /\ w.VibraniumLocked >= vibranium

SettleSell(w, vibranium, received) ==
    IF CanSettleSell(w, vibranium, received)
    THEN [w EXCEPT !.VibraniumLocked = @ - vibranium, !.COPAvailable = @ + received]
    ELSE w

TotalCOP(w) == w.COPAvailable + w.COPLocked
TotalVibranium(w) == w.VibraniumAvailable + w.VibraniumLocked
=============================================================================
