---------------------------- MODULE HirePurchase ----------------------------
(***************************************************************************)
(* The hire-purchase side of BongoFleet: the four services over their      *)
(* shared tables, the passing of days, and the process going down.         *)
(***************************************************************************)
EXTENDS PaymentService, AssignmentService, OwnershipPlanGenerator,
        OwnershipPlanService

Init ==
  /\ plans \in Seed
  /\ rows = {} /\ payments = {} /\ deletions = 0
  /\ today = 0
  /\ call = [c \in Clients |-> Idle]
  /\ run = [g \in Runs |-> Idle]

(* Midnight UTC.                                                           *)
NextDay ==
  /\ today < MaxDay
  /\ today' = today + 1
  /\ UNCHANGED <<tables, call, run>>

(***************************************************************************)
(* The Node process stops: what was in flight is lost, nothing resumes it. *)
(***************************************************************************)
Crash ==
  /\ "crash" \in Operations
  /\ call' = [c \in Clients |-> Idle]
  /\ run' = [g \in Runs |-> Idle]
  /\ UNCHANGED <<tables, today>>

RequestStep(c) == PaymentStep(c) \/ AssignmentStep(c) \/ PlanStep(c)

Next ==
  \/ \E c \in Clients : RequestStep(c)
  \/ \E g \in Runs : GeneratorStep(g)
  \/ NextDay
  \/ Crash

Spec == Init /\ [][Next]_vars

(***************************************************************************)
(* The event loop goes on with every request in flight, and the generator  *)
(* is run again and again: by cron every night, by an owner at any time.   *)
(***************************************************************************)
Fairness ==
  /\ \A c \in Clients : WF_vars(call[c].pc # "idle" /\ RequestStep(c))
  /\ \A g \in Runs : WF_vars(GeneratorStep(g))

FairSpec == Spec /\ Fairness

-----------------------------------------------------------------------------
(***************************************************************************)
(* Types.                                                                  *)
(***************************************************************************)
PlanIds == DOMAIN plans

RowOK(r) ==
  /\ r.driver \in Drivers /\ r.vehicle \in Vehicles
  /\ r.plan = Manual \/ r.plan \in PlanIds
  /\ r.target > 0

PaymentOK(x) ==
  x.status \in PaymentStatus /\ x.amount > 0 /\ RowOK(x.row)

PlanOK(plan) ==
  /\ plan.driver \in Drivers /\ plan.vehicle \in Vehicles
  /\ plan.status \in PlanStatus

RequestStates ==
  {"idle", "payLedger", "payInsert", "settle", "assign", "planInsert",
   "depositRow", "depositPay", "depositPaid", "updateStatus", "updateTerms"}
RunStates ==
  {"idle", "readRows", "readPaid", "readCalendar", "plans", "create",
   "complete"}

(* What the tables and the requests in flight are made of: every row asks  *)
(* for something, and every payment is of something.                       *)
TypeOK ==
  /\ \A p \in PlanIds : PlanOK(plans[p])
  /\ \A r \in rows : RowOK(r)
  /\ \A x \in payments : PaymentOK(x)
  /\ today \in Days
  /\ \A c \in Clients : call[c].pc \in RequestStates
  /\ \A g \in Runs : run[g].pc \in RunStates

(***************************************************************************)
(* Integrity, whatever runs together with whatever.                        *)
(***************************************************************************)
(* The three tables agree on who drives what.  The cascade records one     *)
(* driver's money against rows the request never named, and the generator  *)
(* and the deposit write rows from a plan read several statements earlier: *)
(* every payment is against a row that exists and is of that row's driver, *)
(* and every row of a plan is of the plan's driver and vehicle.            *)
PaymentsAreTheDriversOwn ==
  \A x \in payments : x.row \in rows /\ x.driver = x.row.driver

PlanRowsFollowThePlan ==
  \A r \in rows : r.plan # Manual =>
     /\ r.plan \in PlanIds
     /\ r.driver = plans[r.plan].driver
     /\ r.vehicle = plans[r.plan].vehicle

(* schema.prisma: a vehicle is on at most one ACTIVE plan, however the     *)
(* creates, the owner's edits and the generator's completions interleave.  *)
OneActivePlanPerVehicle ==
  \A p, q \in ActivePlans : plans[p].vehicle = plans[q].vehicle => p = q

(* A plan that was closed, by the owner or by the generator, is never      *)
(* ACTIVE again, though both write its status from a read they did before. *)
NeverReopened ==
  [][\A p \in PlanIds :
       plans[p].status # "ACTIVE" => plans'[p].status # "ACTIVE"]_vars

(***************************************************************************)
(* The money, with one request at a time beside the generator.             *)
(***************************************************************************)
(* The cascade clears older days first: when a payment is recorded against *)
(* a day of a plan, every older day of it is fully covered.                *)
OldestDayFirst ==
  [][\A x \in payments' :
       (x.row.plan # Manual /\ \A y \in payments : y.id # x.id) =>
          \A r \in PlanRows(x.row.plan) :
             r.day < x.row.day => Needs(r)' = 0]_vars

(* No driver is asked for more than the vehicle's price: what PENDING and  *)
(* COMPLETED payments take of a plan never exceeds it.                     *)
ReservedWithinPrice == \A p \in PlanIds : Reserved(p) <= Owed(plans[p])

(* A plan the owner closed keeps the status the owner gave it.             *)
ClosedPlansKeepTheirStatus ==
  [][\A p \in PlanIds :
       plans[p].status # "ACTIVE" => plans'[p].status = plans[p].status]_vars

-----------------------------------------------------------------------------
(***************************************************************************)
(* Liveness.                                                               *)
(***************************************************************************)
(* No plan stays ACTIVE for ever while it is paid for: nothing but a run   *)
(* sees that it is, a run that is under way may have read too early, and   *)
(* the owner may yet raise the price.                                      *)
PaidFor(p) == p \in ActivePlans /\ Paid(p) >= Owed(plans[p])
PaidPlansLeaveActive == \A p \in 1..MaxPlans : []<>(~PaidFor(p))

(* An active day of an ACTIVE plan that is ahead of everything billed, no  *)
(* run being under way, gets billed: unless the driver has something else  *)
(* on it, the price is fully billed, the vehicle is booked under another   *)
(* driver in the schedule so far (such a day the insert drops, and with it *)
(* a place in what is left to bill), or it falls out of the lookback while *)
(* no run gets to it.  The code never comes back to a day behind the last  *)
(* one billed: not to one whose row was deleted, nor to one that the owner *)
(* made active since, nor to one that changed under a run.                 *)
Due(p, d) ==
  /\ p \in ActivePlans
  /\ d >= plans[p].start /\ d <= today
  /\ ActiveOn(plans[p].weekdays, d)
Ahead(p, d) ==
  /\ \A r \in PlanRows(p) : r.day < d
  /\ \A g \in Runs : run[g] = Idle
Answered(p, d) ==
  \/ ~Due(p, d)
  \/ d < WindowStart(today)
  \/ \E r \in rows : r.day = d /\ r.driver = plans[p].driver
  \/ \E r \in rows : /\ r.day \in plans[p].start..d
                     /\ r.vehicle = plans[p].vehicle
                     /\ r.driver # plans[p].driver
  \/ Billed(p) >= Owed(plans[p])
DueDaysAreBilled ==
  \A p \in 1..MaxPlans, d \in Days :
    Due(p, d) /\ Ahead(p, d) ~> Answered(p, d)
=============================================================================
