--------------------------- MODULE PaymentService ---------------------------
(***************************************************************************)
(* payment.service.ts: recording a payment against an assignment, with the *)
(* oldest-first cascade of a hire-purchase plan, and reconciling it.       *)
(***************************************************************************)
EXTENDS PlanTables

PlanOf(terms) == [daily |-> terms.daily, count |-> terms.count]

(* What payments take of a plan's price: a PENDING one reserves its space  *)
(* until it fails.                                                         *)
AmountReserved(p) == Reserved(p)

RemainingUnreserved(terms, reserved) == Owed(terms) - reserved

(***************************************************************************)
(* The cascade over the plan's rows R: each row, in date order, takes what *)
(* it still needs from what the earlier rows left of `amount`; what no row *)
(* needs is surplus on the latest one.                                     *)
(***************************************************************************)
Needs(r) ==
  Max({0, r.target - SumAmounts(PaymentsOn({r}, Reserving))})
NeedsOf(R) == Total(R, Needs)
Earlier_NewestFirst(R, r) == {q \in R : q.day > r.day}
Earlier(R, r) == {q \in R : q.day < r.day}
Latest(R) == CHOOSE r \in R : \A q \in R : q.day <= r.day

Takes(R, r, amount) ==
  Min({Needs(r), Max({0, amount - NeedsOf(Earlier(R, r))})})
Surplus(R, amount) == Max({0, amount - NeedsOf(R)})
Share(R, r, amount) ==
  Takes(R, r, amount) + (IF r = Latest(R) THEN Surplus(R, amount) ELSE 0)

Cascade_KeepsEmptyShares(R, amount) ==
  {[row |-> r, amount |-> Share(R, r, amount)] : r \in R}
Cascade(R, amount) ==
  {[row |-> r, amount |-> Share(R, r, amount)] :
      r \in {q \in R : Share(R, q, amount) > 0}}

-----------------------------------------------------------------------------
(* createPlanPayment up to its first read: the typo cap of CapDays days.   *)
CapRefuses(daily, amount, confirm) == amount > CapDays * daily /\ ~confirm

PlanPayment(r, amount, deposit) ==
  [pc |-> "payLedger", row |-> r, amount |-> amount, deposit |-> deposit,
   terms |-> PlanOf(plans[r.plan])]

RentalPayment(r, amount) ==
  [pc |-> "payInsert", row |-> r, deposit |-> FALSE,
   allocations |-> {[row |-> r, amount |-> amount]}]

(***************************************************************************)
(* POST /payments, up to the read of the plan.  A rental keeps the cap of  *)
(* one and a half targets; a plan payment goes on to the ledger.           *)
(***************************************************************************)
CreatePayment(c) ==
  /\ "pay" \in Operations
  /\ call[c].pc = "idle"
  /\ Cardinality(payments) < MaxPayments
  /\ \E r \in rows, amount \in Amounts, confirm \in BOOLEAN :
       \/ /\ r.plan = Manual
          /\ 2 * amount <= 3 * r.target
          /\ call' = [call EXCEPT ![c] = RentalPayment(r, amount)]
       \/ /\ r.plan # Manual
          /\ ~CapRefuses(plans[r.plan].daily, amount, confirm)
          /\ call' = [call EXCEPT ![c] = PlanPayment(r, amount, FALSE)]
  /\ UNCHANGED <<tables, today, run>>

(***************************************************************************)
(* The one query of the plan's rows and their non-FAILED payments, the two *)
(* overpayment guards on it, and the cascade.  A plan whose rows have all  *)
(* been deleted fails in the surplus branch.                               *)
(***************************************************************************)
ReadLedger(c) ==
  /\ call[c].pc = "payLedger"
  /\ LET q == call[c]
         R == PlanRows(q.row.plan)
         unreserved == RemainingUnreserved(q.terms, AmountReserved(q.row.plan))
     IN  IF unreserved <= 0 \/ q.amount > unreserved \/ R = {}
           THEN Answer(c)
           ELSE call' = [call EXCEPT ![c] =
                  [pc |-> "payInsert", row |-> q.row, deposit |-> q.deposit,
                   allocations |-> Cascade(R, q.amount)]]
  /\ UNCHANGED <<tables, today, run>>

(* Payments are numbered in the order the transaction inserts them.        *)
Inserted(q) ==
  {[id |-> Cardinality(payments)
             + Cardinality({b \in q.allocations : b.row.day <= a.row.day}),
    row |-> a.row, driver |-> q.row.driver, amount |-> a.amount,
    status |-> "PENDING"] : a \in q.allocations}

(* The row of the request when it got a share, else the oldest one.        *)
Primary(q, created) ==
  IF \E x \in created : x.row = q.row
    THEN CHOOSE x \in created : x.row = q.row
    ELSE CHOOSE x \in created : \A y \in created : x.id <= y.id

(***************************************************************************)
(* The transaction: all the allocations or none, the foreign key refusing  *)
(* an allocation whose assignment is gone.  A deposit goes on to be        *)
(* reconciled by its primary payment.                                      *)
(***************************************************************************)
InsertPayments(c) ==
  /\ call[c].pc = "payInsert"
  /\ LET q == call[c]
         created == Inserted(q)
     IN  IF \A a \in q.allocations : a.row \in rows
           THEN /\ payments' = payments \cup created
                /\ IF q.deposit
                     THEN call' = [call EXCEPT ![c] =
                            [pc |-> "depositPaid", plan |-> q.row.plan,
                             payment |-> Primary(q, created).id]]
                     ELSE Answer(c)
           ELSE Answer(c) /\ UNCHANGED payments
  /\ UNCHANGED <<plans, rows, deletions, today, run>>

-----------------------------------------------------------------------------
(* updatePaymentStatus, the read: only a PENDING payment may be moved.     *)
Reconcilable(x) == x.status = "PENDING"

Settlement(id, to, plan) ==
  [pc |-> "settle", payment |-> id, to |-> to, plan |-> plan]

ReconcilePayment(c) ==
  /\ "reconcile" \in Operations
  /\ call[c].pc = "idle"
  /\ \E x \in payments, to \in {"COMPLETED", "FAILED"} :
       /\ Reconcilable(x)
       /\ call' = [call EXCEPT ![c] = Settlement(x.id, to, Manual)]
  /\ UNCHANGED <<tables, today, run>>

(* The same handler called by allocateAppliedDeposit.                      *)
ReconcileDeposit(c) ==
  /\ call[c].pc = "depositPaid"
  /\ IF \E x \in payments : x.id = call[c].payment /\ Reconcilable(x)
       THEN call' = [call EXCEPT ![c] =
              Settlement(@.payment, "COMPLETED", @.plan)]
       ELSE Answer(c)
  /\ UNCHANGED <<tables, today, run>>

(* updatePaymentStatus, the write: by id, whatever the status is by now.   *)
SettlePayment(c) ==
  /\ call[c].pc = "settle"
  /\ payments' = {IF x.id = call[c].payment
                    THEN [x EXCEPT !.status = call[c].to] ELSE x :
                    x \in payments}
  /\ Answer(c)
  /\ UNCHANGED <<plans, rows, deletions, today, run>>

PaymentStep(c) ==
  \/ CreatePayment(c) \/ ReadLedger(c) \/ InsertPayments(c)
  \/ ReconcilePayment(c) \/ ReconcileDeposit(c) \/ SettlePayment(c)
=============================================================================
