----------------------------- MODULE PlanTables -----------------------------
(***************************************************************************)
(* The part of the BongoFleet database that hire purchase lives in, for    *)
(* one tenant: ownership_plans, daily_assignments and daily_payments, with *)
(* the requests and the generator runs that are in flight against it.      *)
(*                                                                         *)
(* Every awaited Prisma call is one autocommitted statement, so a request  *)
(* is a record with a control state `pc` and the values it has read so     *)
(* far, and each of its steps reads or writes the tables once.             *)
(***************************************************************************)
EXTENDS Integers, Sequences, FiniteSets, FiniteSetsExt

CONSTANTS
  Drivers, Vehicles,    \* active, mutually compatible drivers and vehicles
  Clients,              \* HTTP requests that can be in flight together
  Runs,                 \* generator runs that can be in flight together
  Seed,                 \* plan tables a behaviour may start from
  Offers,               \* terms an owner may type into the create form
  Edits,                \* terms an owner may type into the edit form
  Closings,             \* statuses an owner may ask for in the edit form
  Amounts,              \* payment amounts, in whole shillings
  Targets,              \* target amounts of manual assignments
  BookableDays,         \* days a manual assignment may be made for
  Operations,           \* which operations the environment performs
  CapDays,              \* PLAN_PAYMENT_CAP_DAYS
  Lookback,             \* OWNERSHIP_PLAN_BACKFILL_LOOKBACK_DAYS
  MaxDay,               \* bound: the last day of a behaviour
  MaxPlans,             \* bound: plans ever created
  MaxPayments,          \* bound: payments before a new request is made
  MaxDeletions          \* bound: assignments deleted

VARIABLES
  plans,        \* ownership_plans, in order of creation; the index is the id
  rows,         \* daily_assignments
  payments,     \* daily_payments
  deletions,    \* how many assignments were deleted so far
  today,        \* dateOnly(now), the server's UTC calendar date
  call,         \* call[c]: the request in flight in slot c
  run           \* run[g]: the generator run in flight in slot g

tables == <<plans, rows, payments, deletions>>
vars == <<plans, rows, payments, deletions, today, call, run>>

Days == 0..MaxDay

(* ownershipPlanId is null on a manual assignment; plan ids start at 1.    *)
Manual == 0

PlanStatus == {"ACTIVE", "COMPLETED", "DEFAULTED", "CANCELLED"}
PaymentStatus == {"PENDING", "COMPLETED", "FAILED"}
DepositHandling == {"APPLIED", "HELD_REFUNDABLE"}

Positive == Nat \ {0}
Weekdays == {W \in SUBSET (0..6) : W # {}}

(* A row of ownership_plans, and what the forms accept for one.            *)
Plan ==
  [driver : Drivers, vehicle : Vehicles, daily : Positive, count : Positive,
   down : Nat, handling : DepositHandling, start : Int, weekdays : Weekdays,
   status : PlanStatus]
Offer ==
  [daily : Positive, count : Positive, down : Nat,
   handling : DepositHandling, start : Int, weekdays : Weekdays]
Edit == [daily : Positive, count : Positive, weekdays : Weekdays]

(* The DTOs' validation, the constant the generator looks back by, and the  *)
(* partial unique index on what is seeded.                                 *)
ASSUME InputsAssumption ==
  /\ Lookback \in Nat
  /\ Amounts \subseteq Positive /\ Targets \subseteq Positive
  /\ BookableDays \subseteq Int /\ MaxDay \in Nat
  /\ Offers \subseteq Offer /\ Edits \subseteq Edit
  /\ Closings \subseteq PlanStatus

ASSUME SeedAssumption ==
  \A s \in Seed :
    /\ s \in Seq(Plan)
    /\ \A p, q \in DOMAIN s :
         (s[p].status = "ACTIVE" /\ s[q].status = "ACTIVE"
            /\ s[p].vehicle = s[q].vehicle) => p = q

Idle == [pc |-> "idle"]
Answer(c) == call' = [call EXCEPT ![c] = Idle]

(***************************************************************************)
(* A row of daily_assignments.  No field of it is ever updated.  `epoch`   *)
(* stands for the generated id: a row made again after a deletion is       *)
(* another row.                                                            *)
(***************************************************************************)
Row(driver, vehicle, day, target, plan) ==
  [driver |-> driver, vehicle |-> vehicle, day |-> day, target |-> target,
   plan |-> plan, epoch |-> deletions]
Stamped(r) == Row(r.driver, r.vehicle, r.day, r.target, r.plan)

(* The unique indexes (tenant, driver, date) and (tenant, vehicle, date).  *)
Clashes(r, q) ==
  r.day = q.day /\ (r.driver = q.driver \/ r.vehicle = q.vehicle)
Insertable(r) == \A q \in rows : ~Clashes(r, q)

(***************************************************************************)
(* Sums the services compute over the tables they have just read.          *)
(***************************************************************************)
Lesser(a, b) == IF a <= b THEN a ELSE b
Total(S, Amount(_)) == MapThenSumSet(Amount, S)
SumTargets(R) == Total(R, LAMBDA r : r.target)
SumAmounts(P) == Total(P, LAMBDA p : p.amount)

PlanRows(p) == {r \in rows : r.plan = p}
PaymentsOn(R, statuses) ==
  {x \in payments : x.row \in R /\ x.status \in statuses}

Reserving == {"PENDING", "COMPLETED"}       \* everything but FAILED

Owed(plan) == plan.daily * plan.count
Billed(p) == SumTargets(PlanRows(p))
Reserved(p) == SumAmounts(PaymentsOn(PlanRows(p), Reserving))
Paid(p) == SumAmounts(PaymentsOn(PlanRows(p), {"COMPLETED"}))

(* getUTCDay() of a day, days being counted from a Sunday.                 *)
ActiveOn(weekdays, day) == (day % 7) \in weekdays

ActivePlans == {p \in DOMAIN plans : plans[p].status = "ACTIVE"}
=============================================================================
