--------------------------- MODULE MCHirePurchase ---------------------------
(* HirePurchase on small instances; the README says why they are enough.   *)
EXTENDS HirePurchase, TLC

CONSTANTS d1, d2, v1, v2

Terms(daily, count, down, start, weekdays) ==
  [daily |-> daily, count |-> count, down |-> down, handling |-> "APPLIED",
   start |-> start, weekdays |-> weekdays]
EveryDay == 0..6
AllButSunday == 1..6

Nothing == {}
Cancelling == {"CANCELLED"}
Completing == {"ACTIVE", "COMPLETED"}

(* One plan of two instalments, made before the behaviour starts.          *)
OnePlan == {<<PlanFrom(Terms(2, 2, 0, 0, EveryDay), d1, v1)>>}
NoPlan == {<<>>}

(* A plan of two days paid for by its deposit, and one of one day that     *)
(* starts on an inactive day, whose deposit the owner holds.               *)
TwoDays == {Terms(1, 2, 2, 0, EveryDay)}
TwoOffers ==
  TwoDays \cup {[Terms(1, 1, 1, 0, AllButSunday) EXCEPT
                   !.handling = "HELD_REFUNDABLE"]}

Renegotiation == {[daily |-> 1, count |-> 1, weekdays |-> AllButSunday]}
MoreOrFewerDays ==
  Renegotiation \cup {[daily |-> 1, count |-> 3, weekdays |-> EveryDay]}

MoneyOps == {"pay", "reconcile", "generate", "assign", "delete", "update", "crash"}
ContractOps ==
  {"plan", "pay", "reconcile", "generate", "assign", "delete", "update"}
ConcurrentOps == {"plan", "pay", "generate", "assign", "delete", "update", "crash"}
PayOps == {"pay", "generate"}
CloseOps == {"pay", "reconcile", "generate", "update"}

Symmetry == Permutations(Drivers) \cup Permutations(Vehicles)
              \cup Permutations(Clients)

(* The first plan's numbers, as PlanLedger promises them.                  *)
Ledger == INSTANCE PlanLedger WITH
  owed <- Owed(plans[1]), billed <- Billed(1), reserved <- Reserved(1),
  paid <- Paid(1), status <- plans[1].status
KeepsLedger == Ledger!LedgerSpec
=============================================================================
