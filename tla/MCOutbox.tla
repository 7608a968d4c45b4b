------------------------------ MODULE MCOutbox ------------------------------
(***************************************************************************)
(* Instances of Outbox for TLC: two registrations that race for one        *)
(* address, and a reset of its password.                                   *)
(***************************************************************************)
EXTENDS Outbox, TLC

CONSTANTS r1, r2, r3, e1, e2

(* Three calls on one address: a registration race and a reset.            *)
RaceKind == r1 :> "register" @@ r2 :> "register" @@ r3 :> "reset"
RaceEmail == r1 :> e1 @@ r2 :> e1 @@ r3 :> e1

BudgetOf(crash, abort, lost, smtp) ==
  "crash" :> crash @@ "abort" :> abort @@ "lost_enqueue" :> lost @@ "smtp" :> smtp

AllFaults == BudgetOf(1, 1, 1, 1)
Recoverable == BudgetOf(1, 0, 0, 1)
LostEnqueue == BudgetOf(0, 0, 1, 0)
=============================================================================
