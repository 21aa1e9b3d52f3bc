-------------------------- MODULE HirePurchaseProofs -------------------------
(***************************************************************************)
(* Theorems about HirePurchase, for any number of drivers, vehicles,       *)
(* requests and generator runs in flight, any offers and edits, and        *)
(* behaviours of any length, crashes included.                             *)
(*                                                                         *)
(* What the tables promise cannot be proved from the tables alone: most of *)
(* the writes come from what a request or a run read several statements    *)
(* earlier.  The inductive invariant says that what they carry still fits  *)
(* the plans as they are now.  It is kept because a plan's driver and      *)
(* vehicle are never updated, so that what fitted fits (FittingIsStable).  *)
(***************************************************************************)
EXTENDS HirePurchase, ProofLemmas, TLAPS

(* Of `ps`, plans that only grew and kept their drivers and vehicles.      *)
Grown(ps, qs) ==
  \A p \in DOMAIN ps :
    p \in DOMAIN qs /\ qs[p].driver = ps[p].driver
                    /\ qs[p].vehicle = ps[p].vehicle

RowFits(ps, r) ==
  /\ r.driver \in Drivers /\ r.vehicle \in Vehicles /\ r.target > 0
  /\ r.plan # Manual =>
       /\ r.plan \in DOMAIN ps
       /\ r.driver = ps[r.plan].driver /\ r.vehicle = ps[r.plan].vehicle

PaymentFits(x) ==
  /\ DOMAIN x = {"id", "row", "driver", "amount", "status"}
  /\ x.row \in rows /\ x.driver = x.row.driver
  /\ x.status \in PaymentStatus /\ x.amount > 0

(* A plan as it was read or inserted earlier.                              *)
PlanFits(ps, p, plan) ==
  /\ p \in DOMAIN ps /\ plan \in Plan
  /\ plan.driver = ps[p].driver /\ plan.vehicle = ps[p].vehicle

RequestFits(ps, q) ==
  /\ q.pc \in RequestStates
  /\ q.pc \in {"payLedger", "depositPay"} =>
       RowFits(ps, q.row) /\ q.row.plan # Manual
  /\ q.pc = "payInsert" =>
       \A a \in q.allocations : a.amount > 0 /\ a.row.driver = q.row.driver
  /\ q.pc = "settle" => q.to \in PaymentStatus
  /\ q.pc = "assign" => RowFits(ps, q.row)
  /\ q.pc = "planInsert" => q.plan \in Plan
  /\ q.pc = "depositRow" => PlanFits(ps, q.id, q.plan)
  /\ q.pc = "updateStatus" =>
       q.plan \in DOMAIN ps /\ q.to \in PlanStatus \ {"ACTIVE"}
  /\ q.pc = "updateTerms" => q.plan \in DOMAIN ps /\ q.terms \in Edit

RunFits(ps, q) ==
  /\ q.pc \in RunStates
  /\ q.pc \in {"readRows", "readPaid", "readCalendar", "plans"} =>
       \A p \in DOMAIN q.plans : PlanFits(ps, p, q.plans[p])
  /\ q.pc = "plans" => q.todo \subseteq DOMAIN q.plans
  /\ q.pc \in {"plans", "create"} =>
       \A r \in q.create : RowFits(ps, r) /\ r.plan # Manual
  /\ q.pc \in {"plans", "create", "complete"} =>
       q.completed \subseteq DOMAIN ps

PlansOK == plans \in Seq(Plan) /\ OneActivePlanPerVehicle
RowsOK == \A r \in rows : RowFits(plans, r)
PaymentsOK == \A x \in payments : PaymentFits(x)
CallsOK == DOMAIN call = Clients /\ \A c \in Clients : RequestFits(plans, call[c])
RunsOK == DOMAIN run = Runs /\ \A g \in Runs : RunFits(plans, run[g])

IInv == PlansOK /\ RowsOK /\ PaymentsOK /\ CallsOK /\ RunsOK /\ today \in Days

-----------------------------------------------------------------------------
(* What fitted the plans fits them when they have grown.                   *)
LEMMA FittingIsStable ==
  ASSUME NEW ps, NEW qs, Grown(ps, qs)
  PROVE  /\ \A r : RowFits(ps, r) => RowFits(qs, r)
         /\ \A q : RequestFits(ps, q) => RequestFits(qs, q)
         /\ \A q : RunFits(ps, q) => RunFits(qs, q)
<1>1. \A r : RowFits(ps, r) => RowFits(qs, r)
  BY DEF Grown, RowFits
<1>2. \A p, plan : PlanFits(ps, p, plan) => PlanFits(qs, p, plan)
  BY DEF Grown, PlanFits
<1>3. \A p \in DOMAIN ps : p \in DOMAIN qs
  BY DEF Grown
<1>4. \A q : RequestFits(ps, q) => RequestFits(qs, q)
  BY <1>1, <1>2, <1>3 DEF RequestFits
<1>5. \A q : RunFits(ps, q) => RunFits(qs, q)
  BY <1>1, <1>2, <1>3 DEF RunFits
<1> QED BY <1>1, <1>4, <1>5

LEMMA IdleFits == \A ps : RequestFits(ps, Idle) /\ RunFits(ps, Idle)
BY DEF RequestFits, RunFits, Idle, RequestStates, RunStates

(* Everything fits in the initial states: only the seeded plans exist.     *)
LEMMA InitFits == Init => IInv
<1> SUFFICES ASSUME Init PROVE IInv
  OBVIOUS
<1>1. PlansOK
  BY SeedAssumption DEF Init, PlansOK, OneActivePlanPerVehicle, ActivePlans
<1>2. RowsOK /\ PaymentsOK
  BY DEF Init, RowsOK, PaymentsOK
<1>3. CallsOK /\ RunsOK
  BY IdleFits DEF Init, CallsOK, RunsOK
<1>4. today \in Days
  BY InputsAssumption DEF Init, Days
<1> QED BY <1>1, <1>2, <1>3, <1>4 DEF IInv

-----------------------------------------------------------------------------
(***************************************************************************)
(* The plans: they only grow, keep their drivers and vehicles, and are     *)
(* never reopened, so that no vehicle comes to be on two ACTIVE ones.      *)
(***************************************************************************)
NoneReopened(ps, qs) ==
  \A p \in DOMAIN ps : ps[p].status # "ACTIVE" => qs[p].status # "ACTIVE"

(* An update of plans in place that reopens none keeps all of that.        *)
LEMMA UpdatedPlans ==
  ASSUME PlansOK, plans' \in Seq(Plan), DOMAIN plans' = DOMAIN plans,
         NoneReopened(plans, plans'),
         \A p \in DOMAIN plans : /\ plans'[p].driver = plans[p].driver
                                /\ plans'[p].vehicle = plans[p].vehicle
  PROVE  PlansOK' /\ Grown(plans, plans')
<1>1. Grown(plans, plans')
  BY DEF Grown
<1>2. OneActivePlanPerVehicle'
  BY DEF PlansOK, OneActivePlanPerVehicle, ActivePlans, NoneReopened
<1> QED BY <1>1, <1>2 DEF PlansOK

LEMMA InsertedPlan ==
  ASSUME IInv, NEW c \in Clients, InsertPlan(c)
  PROVE  PlansOK' /\ Grown(plans, plans') /\ NoneReopened(plans, plans')
<1> DEFINE new == call[c].plan
<1>1. plans \in Seq(Plan) /\ OneActivePlanPerVehicle /\ new \in Plan
  BY DEF IInv, PlansOK, CallsOK, RequestFits, InsertPlan
<1>2. CASE IndexAdmits(new)
  <2>1. plans' = Append(plans, new)
    BY <1>2 DEF InsertPlan
  <2>2. plans' \in Seq(Plan) /\ DOMAIN plans' = 1..(Len(plans) + 1)
    BY <1>1, <2>1
  <2>3. \A p \in DOMAIN plans : p \in DOMAIN plans' /\ plans'[p] = plans[p]
    BY <1>1, <2>1, <2>2
  <2>4. plans'[Len(plans) + 1] = new
    BY <1>1, <2>1
  <2>5. \A p \in DOMAIN plans' : p \in DOMAIN plans \/ p = Len(plans) + 1
    BY <1>1, <2>2
  <2>6. \A p \in DOMAIN plans :
          plans[p].status = "ACTIVE" => plans[p].vehicle # new.vehicle
    BY <1>2 DEF IndexAdmits, VehicleFree, ActivePlans
  <2>7. OneActivePlanPerVehicle'
    BY <1>1, <2>3, <2>4, <2>5, <2>6 DEF OneActivePlanPerVehicle, ActivePlans
  <2> QED BY <2>2, <2>3, <2>7 DEF PlansOK, Grown, NoneReopened
<1>3. CASE ~IndexAdmits(new)
  <2>1. plans' = plans
    BY <1>3 DEF InsertPlan
  <2> QED BY <1>1, <2>1
       DEF PlansOK, OneActivePlanPerVehicle, ActivePlans, Grown, NoneReopened
<1> QED BY <1>2, <1>3

LEMMA WrittenPlan ==
  ASSUME IInv, NEW c \in Clients, WriteStatus(c) \/ WriteTerms(c)
  PROVE  PlansOK' /\ Grown(plans, plans') /\ NoneReopened(plans, plans')
<1>1. plans \in Seq(Plan) /\ PlansOK /\ RequestFits(plans, call[c])
  BY DEF IInv, PlansOK, CallsOK
<1> DEFINE p == call[c].plan
<1>2. \A i \in DOMAIN plans : plans[i] \in Plan
  BY <1>1
<1>3. CASE WriteStatus(c)
  <2>1. /\ p \in DOMAIN plans /\ call[c].to \in PlanStatus \ {"ACTIVE"}
        /\ plans' = [plans EXCEPT ![p].status = call[c].to]
    BY <1>1, <1>3 DEF WriteStatus, RequestFits
  <2>2. [plans[p] EXCEPT !.status = call[c].to] \in Plan
    BY <1>2, <2>1 DEF Plan
  <2>3. plans' \in Seq(Plan) /\ DOMAIN plans' = DOMAIN plans
    BY <1>1, <2>1, <2>2
  <2>4. NoneReopened(plans, plans')
    BY <1>2, <2>1 DEF NoneReopened, Plan
  <2>5. \A i \in DOMAIN plans : /\ plans'[i].driver = plans[i].driver
                               /\ plans'[i].vehicle = plans[i].vehicle
    BY <1>2, <2>1 DEF Plan
  <2> QED BY <1>1, <2>3, <2>4, <2>5, UpdatedPlans
<1>4. CASE WriteTerms(c)
  <2> DEFINE t == call[c].terms
             edited == [plans[p] EXCEPT !.daily = t.daily, !.count = t.count,
                                        !.weekdays = t.weekdays]
  <2>1. p \in DOMAIN plans /\ t \in Edit /\ plans' = [plans EXCEPT ![p] = edited]
    BY <1>1, <1>4 DEF WriteTerms, RequestFits
  <2>2. /\ edited \in Plan /\ edited.driver = plans[p].driver
        /\ edited.vehicle = plans[p].vehicle /\ edited.status = plans[p].status
    BY <1>2, <2>1 DEF Plan, Edit
  <2> HIDE DEF edited
  <2>3. plans' \in Seq(Plan) /\ DOMAIN plans' = DOMAIN plans
    BY <1>1, <2>1, <2>2
  <2>4. NoneReopened(plans, plans')
    BY <2>1, <2>2 DEF NoneReopened
  <2>5. \A i \in DOMAIN plans : /\ plans'[i].driver = plans[i].driver
                               /\ plans'[i].vehicle = plans[i].vehicle
    BY <2>1, <2>2
  <2> QED BY <1>1, <2>3, <2>4, <2>5, UpdatedPlans
<1> QED BY <1>3, <1>4

LEMMA CompletedPlans ==
  ASSUME IInv, NEW g \in Runs, CompletePlans(g)
  PROVE  PlansOK' /\ Grown(plans, plans') /\ NoneReopened(plans, plans')
<1>1. plans \in Seq(Plan) /\ PlansOK
  BY DEF IInv, PlansOK
<1>2. \A i \in DOMAIN plans : plans[i] \in Plan
  BY <1>1
<1> DEFINE Done(i) == IF i \in run[g].completed
                        THEN [plans[i] EXCEPT !.status = "COMPLETED"]
                        ELSE plans[i]
<1>3. plans' = [i \in DOMAIN plans |-> Done(i)]
  BY DEF CompletePlans
<1>4. \A i \in DOMAIN plans :
        /\ Done(i) \in Plan /\ Done(i).driver = plans[i].driver
        /\ Done(i).vehicle = plans[i].vehicle
        /\ plans[i].status # "ACTIVE" => Done(i).status # "ACTIVE"
  BY <1>2 DEF Plan, PlanStatus
<1> HIDE DEF Done
<1>5. plans' \in Seq(Plan) /\ DOMAIN plans' = DOMAIN plans
  BY <1>1, <1>3, <1>4
<1>6. NoneReopened(plans, plans')
  BY <1>3, <1>4 DEF NoneReopened
<1> QED BY <1>1, <1>3, <1>4, <1>5, <1>6, UpdatedPlans

LEMMA PlansKept ==
  ASSUME IInv, [Next]_vars
  PROVE  PlansOK' /\ Grown(plans, plans') /\ NoneReopened(plans, plans')
<1>1. CASE plans' = plans
  BY <1>1 DEF IInv, PlansOK, OneActivePlanPerVehicle, ActivePlans, Grown,
              NoneReopened
<1>2. CASE plans' # plans
  <2>1. \/ \E c \in Clients : InsertPlan(c) \/ WriteStatus(c) \/ WriteTerms(c)
        \/ \E g \in Runs : CompletePlans(g)
    <3>1. Next
      BY <1>2 DEF vars
    <3>2. CASE \E c \in Clients : PaymentStep(c)
      BY <1>2, <3>2 DEF PaymentStep, CreatePayment, ReadLedger, InsertPayments,
         ReconcilePayment, ReconcileDeposit, SettlePayment, tables
    <3>3. CASE \E c \in Clients : AssignmentStep(c)
      BY <1>2, <3>3 DEF AssignmentStep, CreateAssignment, InsertAssignment,
         DeleteAssignment, tables
    <3>4. CASE \E c \in Clients : PlanStep(c)
      BY <1>2, <3>4 DEF PlanStep, CreatePlan, InsertDepositRow, PayDeposit,
         UpdatePlan, tables
    <3>5. CASE \E g \in Runs : GeneratorStep(g)
      BY <1>2, <3>5 DEF GeneratorStep, ScanPlans, ReadPlanRows, ReadPaid,
         ReadCalendar, PlanTurn, CreateRows, tables
    <3>6. CASE NextDay \/ Crash
      BY <1>2, <3>6 DEF NextDay, Crash, tables
    <3> QED BY <3>1, <3>2, <3>3, <3>4, <3>5, <3>6 DEF Next, RequestStep
  <2> QED BY <2>1, InsertedPlan, WrittenPlan, CompletedPlans
<1> QED BY <1>1, <1>2

-----------------------------------------------------------------------------
(***************************************************************************)
(* The rows: whoever makes one, a form, a deposit or a run, it fits.       *)
(***************************************************************************)
LEMMA LesserIsOneOf == \A a, b : Lesser(a, b) = a \/ Lesser(a, b) = b
BY DEF Lesser

LEMMA StampedFits == \A r : RowFits(plans, r) => RowFits(plans, Stamped(r))
BY DEF RowFits, Stamped, Row

LEMMA DepositRowFits ==
  ASSUME NEW p, NEW plan, PlanFits(plans, p, plan), p # Manual
  PROVE  /\ RowFits(plans, DepositRow(p, plan))
         /\ DepositRow(p, plan).plan = p
<1>1. plan.daily \in Positive /\ plan.count \in Positive
  BY DEF PlanFits, Plan
<1>2. Owed(plan) > 0 /\ plan.daily > 0
  BY <1>1 DEF Owed, Positive
<1>3. Lesser(plan.daily, Owed(plan)) > 0
  BY <1>2, LesserIsOneOf
<1>4. plan.driver \in Drivers /\ plan.vehicle \in Vehicles
  BY DEF PlanFits, Plan
<1> QED BY <1>3, <1>4 DEF PlanFits, RowFits, DepositRow, Row

(* Every row a run makes in its loop fits the plan it is for.              *)
LEMMA InstalmentsFit ==
  ASSUME NEW g, NEW p, PlanFits(plans, p, run[g].plans[p]), p # Manual
  PROVE  \A r \in Instalments(g, p) : RowFits(plans, r) /\ r.plan # Manual
<1> DEFINE plan == run[g].plans[p]
<1> SUFFICES ASSUME NEW r \in Instalments(g, p)
             PROVE  RowFits(plans, r) /\ r.plan # Manual
  OBVIOUS
<1>1. PICK d : /\ LeftToBill(g, p, d) > 0
               /\ r = InstalmentRow(p, plan, d, LeftToBill(g, p, d))
  BY DEF Instalments
<1>2. plan.daily > 0
  BY DEF PlanFits, Plan, Positive
<1>3. Lesser(plan.daily, LeftToBill(g, p, d)) > 0
  BY <1>1, <1>2, LesserIsOneOf
<1>4. plan.driver \in Drivers /\ plan.vehicle \in Vehicles
  BY DEF PlanFits, Plan
<1> QED BY <1>1, <1>3, <1>4 DEF PlanFits, RowFits, InstalmentRow, Row

LEMMA NewRowsFit ==
  ASSUME IInv, [Next]_vars
  PROVE  \A r \in rows' : RowFits(plans, r)
<1> SUFFICES ASSUME NEW r \in rows', r \notin rows
             PROVE  RowFits(plans, r)
  BY DEF IInv, RowsOK
<1>1. \/ \E c \in Clients : InsertAssignment(c) \/ InsertDepositRow(c)
      \/ \E g \in Runs : CreateRows(g)
  <2>1. Next
    BY DEF vars
  <2>2. CASE \E c \in Clients : PaymentStep(c)
    BY <2>2 DEF PaymentStep, CreatePayment, ReadLedger, InsertPayments,
       ReconcilePayment, ReconcileDeposit, SettlePayment, tables
  <2>3. CASE \E c \in Clients : AssignmentStep(c)
    BY <2>3 DEF AssignmentStep, CreateAssignment, DeleteAssignment, tables
  <2>4. CASE \E c \in Clients : PlanStep(c)
    BY <2>4 DEF PlanStep, CreatePlan, InsertPlan, PayDeposit, UpdatePlan,
       WriteStatus, WriteTerms, tables
  <2>5. CASE \E g \in Runs : GeneratorStep(g)
    BY <2>5 DEF GeneratorStep, ScanPlans, ReadPlanRows, ReadPaid,
       ReadCalendar, PlanTurn, CompletePlans, tables
  <2>6. CASE NextDay \/ Crash
    BY <2>6 DEF NextDay, Crash, tables
  <2> QED BY <2>1, <2>2, <2>3, <2>4, <2>5, <2>6 DEF Next, RequestStep
<1>2. ASSUME NEW c \in Clients, InsertAssignment(c)
      PROVE  RowFits(plans, r)
  <2>1. RowFits(plans, call[c].row)
    BY <1>2 DEF InsertAssignment, IInv, CallsOK, RequestFits
  <2>2. r = Stamped(call[c].row)
    BY <1>2 DEF InsertAssignment
  <2> QED BY <2>1, <2>2, StampedFits
<1>3. ASSUME NEW c \in Clients, InsertDepositRow(c)
      PROVE  RowFits(plans, r)
  <2>1. PlanFits(plans, call[c].id, call[c].plan)
    BY <1>3 DEF InsertDepositRow, IInv, CallsOK, RequestFits
  <2>2. call[c].id # Manual
    BY <2>1 DEF IInv, PlansOK, PlanFits, Manual
  <2>3. r = DepositRow(call[c].id, call[c].plan)
    BY <1>3 DEF InsertDepositRow
  <2> QED BY <2>1, <2>2, <2>3, DepositRowFits
<1>4. ASSUME NEW g \in Runs, CreateRows(g)
      PROVE  RowFits(plans, r)
  <2>1. \A q \in run[g].create : RowFits(plans, q)
    BY <1>4 DEF CreateRows, IInv, RunsOK, RunFits
  <2>2. PICK q \in run[g].create : r = Stamped(q)
    BY <1>4 DEF CreateRows, Created
  <2> QED BY <2>1, <2>2, StampedFits
<1> QED BY <1>1, <1>2, <1>3, <1>4

LEMMA RowsKept ==
  ASSUME IInv, [Next]_vars
  PROVE  RowsOK'
BY NewRowsFit, PlansKept, FittingIsStable DEF RowsOK

-----------------------------------------------------------------------------
(***************************************************************************)
(* The payments: inserted only against rows that are there, and no row     *)
(* with one is deleted.                                                    *)
(***************************************************************************)
LEMMA InsertedPaymentsFit ==
  ASSUME IInv, NEW c \in Clients, InsertPayments(c)
  PROVE  PaymentsOK'
<1>1. rows' = rows /\ PaymentsOK
  BY DEF InsertPayments, IInv
<1>2. \A a \in call[c].allocations :
        a.amount > 0 /\ a.row.driver = call[c].row.driver
  BY DEF InsertPayments, IInv, CallsOK, RequestFits
<1>3. CASE \A a \in call[c].allocations : a.row \in rows
  <2>1. payments' = payments \cup Inserted(call[c])
    BY <1>3 DEF InsertPayments
  <2>2. ASSUME NEW x \in Inserted(call[c])
        PROVE  PaymentFits(x)
    <3>1. PICK a \in call[c].allocations : \E id :
            x = [id |-> id, row |-> a.row, driver |-> call[c].row.driver,
                 amount |-> a.amount, status |-> "PENDING"]
      BY DEF Inserted
    <3>2. /\ x.row = a.row /\ x.driver = call[c].row.driver
          /\ x.amount = a.amount /\ x.status = "PENDING"
          /\ DOMAIN x = {"id", "row", "driver", "amount", "status"}
      BY <3>1
    <3> QED BY <1>2, <1>3, <3>2 DEF PaymentFits, PaymentStatus
  <2> QED BY <1>1, <2>1, <2>2 DEF PaymentsOK, PaymentFits
<1>4. CASE ~(\A a \in call[c].allocations : a.row \in rows)
  BY <1>1, <1>4 DEF InsertPayments, PaymentsOK, PaymentFits
<1> QED BY <1>3, <1>4

LEMMA SettledPaymentsFit ==
  ASSUME IInv, NEW c \in Clients, SettlePayment(c)
  PROVE  PaymentsOK'
<1>1. rows' = rows /\ call[c].to \in PaymentStatus
  BY DEF SettlePayment, IInv, CallsOK, RequestFits
<1> SUFFICES ASSUME NEW y \in payments' PROVE PaymentFits(y)'
  BY DEF PaymentsOK
<1>2. PICK x \in payments :
        y = IF x.id = call[c].payment THEN [x EXCEPT !.status = call[c].to]
            ELSE x
  BY DEF SettlePayment
<1>3. PaymentFits(x)
  BY DEF IInv, PaymentsOK
<1> QED BY <1>1, <1>2, <1>3 DEF PaymentFits

LEMMA PaymentsKept ==
  ASSUME IInv, [Next]_vars
  PROVE  PaymentsOK'
<1>1. CASE payments' = payments /\ rows \subseteq rows'
  BY <1>1 DEF IInv, PaymentsOK, PaymentFits
<1>2. ASSUME NEW c \in Clients, DeleteAssignment(c)
      PROVE  PaymentsOK'
  <2>1. PICK r \in rows : Deletable(r) /\ rows' = rows \ {r}
    BY <1>2 DEF DeleteAssignment
  <2> QED BY <1>2, <2>1 DEF DeleteAssignment, Deletable, IInv, PaymentsOK,
                            PaymentFits
<1>3. \/ payments' = payments /\ rows \subseteq rows'
      \/ \E c \in Clients : \/ InsertPayments(c) \/ SettlePayment(c)
                            \/ DeleteAssignment(c)
  <2>1. CASE UNCHANGED vars
    BY <2>1 DEF vars
  <2>2. CASE \E c \in Clients : PaymentStep(c)
    BY <2>2 DEF PaymentStep, CreatePayment, ReadLedger, ReconcilePayment,
       ReconcileDeposit, tables
  <2>3. CASE \E c \in Clients : AssignmentStep(c)
    BY <2>3 DEF AssignmentStep, CreateAssignment, InsertAssignment, tables
  <2>4. CASE \E c \in Clients : PlanStep(c)
    BY <2>4 DEF PlanStep, CreatePlan, InsertPlan, InsertDepositRow,
       PayDeposit, UpdatePlan, WriteStatus, WriteTerms, tables
  <2>5. CASE \E g \in Runs : GeneratorStep(g)
    BY <2>5 DEF GeneratorStep, ScanPlans, ReadPlanRows, ReadPaid,
       ReadCalendar, PlanTurn, CreateRows, CompletePlans, tables
  <2>6. CASE NextDay \/ Crash
    BY <2>6 DEF NextDay, Crash, tables
  <2> QED BY <2>1, <2>2, <2>3, <2>4, <2>5, <2>6 DEF Next, RequestStep
<1> QED BY <1>1, <1>2, <1>3, InsertedPaymentsFit, SettledPaymentsFit

-----------------------------------------------------------------------------
(***************************************************************************)
(* The requests in flight: each step of one leaves it with what fits.      *)
(***************************************************************************)
(* Request c goes on with q.                                               *)
GoesOn(c, q) == RequestFits(plans, q) /\ call' = [call EXCEPT ![c] = q]

LEMMA AnsweredFits ==
  ASSUME NEW c, Answer(c)
  PROVE  \E q : GoesOn(c, q)
BY IdleFits DEF Answer, GoesOn

LEMMA PaymentRequestsFit ==
  ASSUME IInv, NEW c \in Clients, PaymentStep(c)
  PROVE  \E q : GoesOn(c, q)
<1>0. RequestFits(plans, call[c]) /\ RowsOK
  BY DEF IInv, CallsOK
<1>1. ASSUME CreatePayment(c) PROVE \E q : GoesOn(c, q)
  <2>1. PICK r \in rows, amount \in Amounts :
          \/ /\ r.plan = Manual
             /\ call' = [call EXCEPT ![c] = RentalPayment(r, amount)]
          \/ /\ r.plan # Manual
             /\ call' = [call EXCEPT ![c] = PlanPayment(r, amount, FALSE)]
    BY <1>1 DEF CreatePayment
  <2>2. RowFits(plans, r) /\ amount > 0
    BY <1>0, InputsAssumption DEF RowsOK, Positive
  <2>3. RequestFits(plans, RentalPayment(r, amount))
    BY <2>2 DEF RentalPayment, RequestFits, RequestStates
  <2>4. r.plan # Manual => RequestFits(plans, PlanPayment(r, amount, FALSE))
    BY <2>2 DEF PlanPayment, RequestFits, RequestStates
  <2> QED BY <2>1, <2>3, <2>4 DEF GoesOn
<1>2. ASSUME ReadLedger(c) PROVE \E q : GoesOn(c, q)
  <2> DEFINE q == call[c]
             R == PlanRows(q.row.plan)
             next == [pc |-> "payInsert", row |-> q.row, deposit |-> q.deposit,
                      allocations |-> Cascade(R, q.amount)]
  <2>1. Answer(c) \/ call' = [call EXCEPT ![c] = next]
    BY <1>2 DEF ReadLedger
  <2>2. RowFits(plans, q.row) /\ q.row.plan # Manual
    BY <1>0, <1>2 DEF ReadLedger, RequestFits
  <2>3. \A a \in Cascade(R, q.amount) : a.amount > 0 /\ a.row \in R
    BY DEF Cascade
  <2>4. \A r \in R : r.driver = q.row.driver
    BY <1>0, <2>2 DEF PlanRows, RowsOK, RowFits
  <2>5. RequestFits(plans, next)
    BY <2>3, <2>4 DEF RequestFits, RequestStates
  <2> QED BY <2>1, <2>5, AnsweredFits DEF GoesOn
<1>3. ASSUME InsertPayments(c) PROVE \E q : GoesOn(c, q)
  <2>1. \/ Answer(c)
        \/ \E p, id : call' = [call EXCEPT ![c] =
                        [pc |-> "depositPaid", plan |-> p, payment |-> id]]
    BY <1>3 DEF InsertPayments
  <2>2. \A p, id : RequestFits(plans,
                     [pc |-> "depositPaid", plan |-> p, payment |-> id])
    BY DEF RequestFits, RequestStates
  <2> QED BY <2>1, <2>2, AnsweredFits DEF GoesOn
<1>4. \A id, p : \A to \in PaymentStatus :
        RequestFits(plans, Settlement(id, to, p))
  BY DEF Settlement, RequestFits, RequestStates
<1>5. ASSUME ReconcilePayment(c) PROVE \E q : GoesOn(c, q)
  BY <1>4, <1>5 DEF ReconcilePayment, GoesOn, PaymentStatus
<1>6. ASSUME ReconcileDeposit(c) PROVE \E q : GoesOn(c, q)
  <2>1. \/ Answer(c)
        \/ call' = [call EXCEPT ![c] =
             Settlement(call[c].payment, "COMPLETED", call[c].plan)]
    BY <1>6 DEF ReconcileDeposit
  <2> QED BY <1>4, <2>1, AnsweredFits DEF GoesOn, PaymentStatus
<1>7. ASSUME SettlePayment(c) PROVE \E q : GoesOn(c, q)
  BY <1>7, AnsweredFits DEF SettlePayment
<1> QED BY <1>1, <1>2, <1>3, <1>5, <1>6, <1>7 DEF PaymentStep

LEMMA AssignmentRequestsFit ==
  ASSUME IInv, NEW c \in Clients, AssignmentStep(c)
  PROVE  call' = call \/ \E q : GoesOn(c, q)
<1>1. ASSUME CreateAssignment(c) PROVE \E q : GoesOn(c, q)
  <2>1. PICK d \in Drivers, v \in Vehicles, day \in BookableDays, t \in Targets :
          call' = [call EXCEPT ![c] =
                     [pc |-> "assign", row |-> Row(d, v, day, t, Manual)]]
    BY <1>1 DEF CreateAssignment
  <2>2. RowFits(plans, Row(d, v, day, t, Manual))
    BY InputsAssumption DEF RowFits, Row, Positive
  <2>3. RequestFits(plans, [pc |-> "assign", row |-> Row(d, v, day, t, Manual)])
    BY <2>2 DEF RequestFits, RequestStates
  <2> QED BY <2>1, <2>3 DEF GoesOn
<1>2. ASSUME InsertAssignment(c) PROVE \E q : GoesOn(c, q)
  BY <1>2, AnsweredFits DEF InsertAssignment
<1>3. ASSUME DeleteAssignment(c) PROVE call' = call
  BY <1>3 DEF DeleteAssignment
<1> QED BY <1>1, <1>2, <1>3 DEF AssignmentStep

LEMMA PlanRequestsFit ==
  ASSUME IInv, NEW c \in Clients, PlanStep(c)
  PROVE  \E q : RequestFits(plans', q) /\ call' = [call EXCEPT ![c] = q]
<1>0. RequestFits(plans, call[c]) /\ plans \in Seq(Plan)
  BY DEF IInv, CallsOK, PlansOK
<1>1. ASSUME Answer(c)
      PROVE  \E q : RequestFits(plans', q) /\ call' = [call EXCEPT ![c] = q]
  BY <1>1, IdleFits DEF Answer
<1>2. ASSUME CreatePlan(c) PROVE \E q : GoesOn(c, q)
  <2>1. PICK d \in Drivers, v \in Vehicles, offer \in Offers :
          call' = [call EXCEPT ![c] =
                     [pc |-> "planInsert", plan |-> PlanFrom(offer, d, v)]]
    BY <1>2 DEF CreatePlan
  <2>2. PlanFrom(offer, d, v) \in Plan
    BY InputsAssumption DEF PlanFrom, Plan, Offer, PlanStatus
  <2>3. RequestFits(plans, [pc |-> "planInsert", plan |-> PlanFrom(offer, d, v)])
    BY <2>2 DEF RequestFits, RequestStates
  <2> QED BY <2>1, <2>3 DEF GoesOn
<1>3. ASSUME InsertPlan(c)
      PROVE  \E q : RequestFits(plans', q) /\ call' = [call EXCEPT ![c] = q]
  <2> DEFINE plan == call[c].plan
             next == [pc |-> "depositRow", id |-> Len(plans) + 1, plan |-> plan]
  <2>1. plan \in Plan
    BY <1>0, <1>3 DEF InsertPlan, RequestFits
  <2>2. \/ Answer(c)
        \/ /\ plans' = Append(plans, plan)
           /\ call' = [call EXCEPT ![c] = next]
    BY <1>3 DEF InsertPlan
  <2>3. ASSUME plans' = Append(plans, plan)
        PROVE  RequestFits(plans', next)
    <3>1. Len(plans) + 1 \in DOMAIN plans' /\ plans'[Len(plans) + 1] = plan
      BY <1>0, <2>1, <2>3
    <3> QED BY <2>1, <3>1 DEF PlanFits, RequestFits, RequestStates
  <2> QED BY <1>1, <2>2, <2>3
<1>4. ASSUME InsertDepositRow(c)
      PROVE  \E q : RequestFits(plans', q) /\ call' = [call EXCEPT ![c] = q]
  <2> DEFINE r == DepositRow(call[c].id, call[c].plan)
             next == [pc |-> "depositPay", row |-> r, down |-> call[c].plan.down]
  <2>1. PlanFits(plans, call[c].id, call[c].plan)
    BY <1>0, <1>4 DEF InsertDepositRow, RequestFits
  <2>2. call[c].id # Manual
    BY <1>0, <2>1 DEF PlanFits, Manual
  <2>3. RowFits(plans, r) /\ r.plan # Manual
    BY <2>1, <2>2, DepositRowFits
  <2>4. RequestFits(plans, next)
    BY <2>3 DEF RequestFits, RequestStates
  <2>5. plans' = plans /\ (Answer(c) \/ call' = [call EXCEPT ![c] = next])
    BY <1>4 DEF InsertDepositRow
  <2> QED BY <1>1, <2>4, <2>5
<1>5. ASSUME PayDeposit(c)
      PROVE  \E q : RequestFits(plans', q) /\ call' = [call EXCEPT ![c] = q]
  <2> DEFINE next == PlanPayment(call[c].row, call[c].down, TRUE)
  <2>1. RowFits(plans, call[c].row) /\ call[c].row.plan # Manual
    BY <1>0, <1>5 DEF PayDeposit, RequestFits
  <2>2. RequestFits(plans, next)
    BY <2>1 DEF PlanPayment, RequestFits, RequestStates
  <2>3. plans' = plans /\ (Answer(c) \/ call' = [call EXCEPT ![c] = next])
    BY <1>5 DEF PayDeposit, tables
  <2> QED BY <1>1, <2>2, <2>3
<1>6. ASSUME UpdatePlan(c) PROVE \E q : GoesOn(c, q)
  <2>1. PICK p \in DOMAIN plans :
          \/ \E to \in Closings :
               /\ Transition(plans[p], to)
               /\ call' = [call EXCEPT ![c] =
                    [pc |-> "updateStatus", plan |-> p, to |-> to]]
          \/ \E edit \in Edits :
               call' = [call EXCEPT ![c] =
                 [pc |-> "updateTerms", plan |-> p, terms |-> edit]]
    BY <1>6 DEF UpdatePlan
  <2>2. \A to \in Closings : Transition(plans[p], to) =>
          RequestFits(plans, [pc |-> "updateStatus", plan |-> p, to |-> to])
    BY InputsAssumption DEF Transition, RequestFits, RequestStates
  <2>3. \A edit \in Edits :
          RequestFits(plans, [pc |-> "updateTerms", plan |-> p, terms |-> edit])
    BY InputsAssumption DEF RequestFits, RequestStates
  <2> QED BY <2>1, <2>2, <2>3 DEF GoesOn
<1>7. CASE CreatePlan(c) \/ UpdatePlan(c)
  <2>1. plans' = plans
    BY <1>7 DEF CreatePlan, UpdatePlan, tables
  <2> QED BY <1>2, <1>6, <1>7, <2>1 DEF GoesOn
<1>8. CASE WriteStatus(c) \/ WriteTerms(c)
  BY <1>1, <1>8 DEF WriteStatus, WriteTerms
<1> QED BY <1>3, <1>4, <1>5, <1>7, <1>8 DEF PlanStep

LEMMA CallsKept ==
  ASSUME IInv, [Next]_vars
  PROVE  CallsOK'
<1>1. Grown(plans, plans') /\ CallsOK
  BY PlansKept DEF IInv
<1>2. \A q : RequestFits(plans, q) => RequestFits(plans', q)
  BY <1>1, FittingIsStable
<1>3. CASE call' = call
  BY <1>1, <1>2, <1>3 DEF CallsOK
<1>4. ASSUME NEW c \in Clients, NEW q, RequestFits(plans', q),
             call' = [call EXCEPT ![c] = q]
      PROVE  CallsOK'
  BY <1>1, <1>2, <1>4 DEF CallsOK
<1>5. CASE Crash
  BY <1>5, IdleFits DEF Crash, CallsOK
<1>6. \/ call' = call \/ Crash
      \/ \E c \in Clients : RequestStep(c)
  BY DEF Next, vars, NextDay, GeneratorStep, ScanPlans, ReadPlanRows, ReadPaid,
         ReadCalendar, PlanTurn, CreateRows, CompletePlans
<1>7. ASSUME NEW c \in Clients, RequestStep(c)
      PROVE  CallsOK'
  BY <1>2, <1>3, <1>4, <1>7, PaymentRequestsFit, AssignmentRequestsFit,
     PlanRequestsFit DEF RequestStep, GoesOn
<1> QED BY <1>3, <1>5, <1>6, <1>7

-----------------------------------------------------------------------------
(***************************************************************************)
(* The runs in flight: what one read, and what it is about to write, fits. *)
(***************************************************************************)
RunGoesOn(g, q) == RunFits(plans, q) /\ run' = [run EXCEPT ![g] = q]

LEMMA WritesFit ==
  ASSUME NEW create, \A r \in create : RowFits(plans, r) /\ r.plan # Manual,
         NEW completed, completed \subseteq DOMAIN plans
  PROVE  RunFits(plans, Writes(create, completed))
<1>1. RunFits(plans, [pc |-> "create", create |-> create,
                      completed |-> completed])
  BY DEF RunFits, RunStates
<1>2. RunFits(plans, [pc |-> "complete", completed |-> completed])
  BY DEF RunFits, RunStates
<1> QED BY <1>1, <1>2, IdleFits DEF Writes

LEMMA TurnsFit ==
  ASSUME IInv, NEW g \in Runs, PlanTurn(g)
  PROVE  \E q : RunGoesOn(g, q)
<1>1. run[g].pc = "plans" /\ RunFits(plans, run[g])
  BY DEF PlanTurn, IInv, RunsOK
<1>2. PICK p \in run[g].todo :
        LET new == IF FullyPaid(g, p) THEN {} ELSE Instalments(g, p)
            create == run[g].create \cup new
            completed == run[g].completed
                           \cup (IF FullyPaid(g, p) THEN {p} ELSE {})
        IN  run' = [run EXCEPT ![g] =
              IF run[g].todo = {p} THEN Writes(create, completed)
              ELSE [pc |-> "plans", today |-> run[g].today,
                    plans |-> run[g].plans, rows |-> run[g].rows,
                    paid |-> run[g].paid, todo |-> run[g].todo \ {p},
                    taken |-> run[g].taken
                                \cup {<<r.driver, r.day>> : r \in new},
                    create |-> create, completed |-> completed]]
  <2>1. g \in DOMAIN run
    BY DEF IInv, RunsOK
  <2> QED BY <2>1 DEF PlanTurn
<1> DEFINE new == IF FullyPaid(g, p) THEN {} ELSE Instalments(g, p)
           create == run[g].create \cup new
           completed == run[g].completed
                          \cup (IF FullyPaid(g, p) THEN {p} ELSE {})
           next == [pc |-> "plans", today |-> run[g].today,
                    plans |-> run[g].plans, rows |-> run[g].rows,
                    paid |-> run[g].paid, todo |-> run[g].todo \ {p},
                    taken |-> run[g].taken
                                \cup {<<r.driver, r.day>> : r \in new},
                    create |-> create, completed |-> completed]
<1>3. \A i \in DOMAIN run[g].plans : PlanFits(plans, i, run[g].plans[i])
  BY <1>1 DEF RunFits
<1>4. PlanFits(plans, p, run[g].plans[p]) /\ p # Manual
  <2>1. PlanFits(plans, p, run[g].plans[p])
    BY <1>1, <1>3 DEF RunFits
  <2> QED BY <2>1 DEF IInv, PlansOK, PlanFits, Manual
<1>5. \A r \in create : RowFits(plans, r) /\ r.plan # Manual
  BY <1>1, <1>4, InstalmentsFit DEF RunFits
<1>6. completed \subseteq DOMAIN plans
  BY <1>1, <1>4 DEF RunFits, PlanFits
<1>7. run[g].todo \ {p} \subseteq DOMAIN run[g].plans
  BY <1>1 DEF RunFits
<1> HIDE DEF create, completed, new
<1>8. RunFits(plans, next)
  BY <1>3, <1>5, <1>6, <1>7 DEF RunFits, RunStates
<1>9. RunFits(plans, Writes(create, completed))
  BY <1>5, <1>6, WritesFit
<1>10. \/ run' = [run EXCEPT ![g] = Writes(create, completed)]
       \/ run' = [run EXCEPT ![g] = next]
  BY <1>2 DEF create, completed, new
<1> QED BY <1>8, <1>9, <1>10 DEF RunGoesOn

LEMMA RunStepsFit ==
  ASSUME IInv, NEW g \in Runs, GeneratorStep(g)
  PROVE  \E q : RunFits(plans', q) /\ run' = [run EXCEPT ![g] = q]
<1>0. RunFits(plans, run[g]) /\ g \in DOMAIN run /\ plans \in Seq(Plan)
  BY DEF IInv, RunsOK, PlansOK
<1>1. ASSUME ScanPlans(g) PROVE \E q : RunGoesOn(g, q)
  <2> DEFINE next == [pc |-> "readRows", today |-> today,
                      plans |-> [p \in ActivePlans |-> plans[p]]]
  <2>1. \A p \in ActivePlans : PlanFits(plans, p, plans[p])
    BY <1>0 DEF ActivePlans, PlanFits
  <2>2. RunFits(plans, next)
    BY <2>1 DEF RunFits, RunStates
  <2>3. run' = [run EXCEPT ![g] = next]
    BY <1>1 DEF ScanPlans
  <2> QED BY <2>2, <2>3 DEF RunGoesOn
<1>2. ASSUME ReadPlanRows(g) PROVE \E q : RunGoesOn(g, q)
  <2>1. PICK R : run' = [run EXCEPT ![g] =
          [pc |-> "readPaid", today |-> run[g].today,
           plans |-> run[g].plans, rows |-> R]]
    BY <1>0, <1>2 DEF ReadPlanRows
  <2>2. RunFits(plans, [pc |-> "readPaid", today |-> run[g].today,
                        plans |-> run[g].plans, rows |-> R])
    BY <1>0, <1>2 DEF ReadPlanRows, RunFits, RunStates
  <2> QED BY <2>1, <2>2 DEF RunGoesOn
<1>3. ASSUME ReadPaid(g) PROVE \E q : RunGoesOn(g, q)
  <2>1. PICK paid : run' = [run EXCEPT ![g] =
          [pc |-> "readCalendar", today |-> run[g].today,
           plans |-> run[g].plans, rows |-> run[g].rows, paid |-> paid]]
    BY <1>0, <1>3 DEF ReadPaid
  <2>2. RunFits(plans, [pc |-> "readCalendar", today |-> run[g].today,
                        plans |-> run[g].plans, rows |-> run[g].rows,
                        paid |-> paid])
    BY <1>0, <1>3 DEF ReadPaid, RunFits, RunStates
  <2> QED BY <2>1, <2>2 DEF RunGoesOn
<1>4. ASSUME ReadCalendar(g) PROVE \E q : RunGoesOn(g, q)
  <2>1. PICK taken : run' = [run EXCEPT ![g] =
          [pc |-> "plans", today |-> run[g].today,
           plans |-> run[g].plans, rows |-> run[g].rows,
           paid |-> run[g].paid, todo |-> DOMAIN run[g].plans,
           taken |-> taken, create |-> {}, completed |-> {}]]
    BY <1>0, <1>4 DEF ReadCalendar
  <2>2. RunFits(plans, [pc |-> "plans", today |-> run[g].today,
           plans |-> run[g].plans, rows |-> run[g].rows,
           paid |-> run[g].paid, todo |-> DOMAIN run[g].plans,
           taken |-> taken, create |-> {}, completed |-> {}])
    BY <1>0, <1>4 DEF ReadCalendar, RunFits, RunStates
  <2> QED BY <2>1, <2>2 DEF RunGoesOn
<1>5. ASSUME PlanTurn(g) PROVE \E q : RunGoesOn(g, q)
  BY <1>5, TurnsFit
<1>6. ASSUME CreateRows(g) PROVE \E q : RunGoesOn(g, q)
  <2>1. run' = [run EXCEPT ![g] = Writes({}, run[g].completed)]
    BY <1>0, <1>6 DEF CreateRows
  <2>2. run[g].completed \subseteq DOMAIN plans
    BY <1>0, <1>6 DEF CreateRows, RunFits
  <2>3. RunFits(plans, Writes({}, run[g].completed))
    BY <2>2, WritesFit
  <2> QED BY <2>1, <2>3 DEF RunGoesOn
<1>7. CASE CompletePlans(g)
  BY <1>7, IdleFits DEF CompletePlans
<1>8. CASE \/ ScanPlans(g) \/ ReadPlanRows(g) \/ ReadPaid(g)
           \/ ReadCalendar(g) \/ PlanTurn(g) \/ CreateRows(g)
  <2>1. plans' = plans
    BY <1>8 DEF ScanPlans, ReadPlanRows, ReadPaid, ReadCalendar, PlanTurn,
                CreateRows, tables
  <2>2. \E q : RunGoesOn(g, q)
    BY <1>1, <1>2, <1>3, <1>4, <1>5, <1>6, <1>8
  <2> QED BY <2>1, <2>2 DEF RunGoesOn
<1> QED BY <1>7, <1>8 DEF GeneratorStep

LEMMA RunsKept ==
  ASSUME IInv, [Next]_vars
  PROVE  RunsOK'
<1>1. Grown(plans, plans') /\ RunsOK
  BY PlansKept DEF IInv
<1>2. \A q : RunFits(plans, q) => RunFits(plans', q)
  BY <1>1, FittingIsStable
<1>3. CASE run' = run
  BY <1>1, <1>2, <1>3 DEF RunsOK
<1>4. ASSUME NEW g \in Runs, NEW q, RunFits(plans', q),
             run' = [run EXCEPT ![g] = q]
      PROVE  RunsOK'
  BY <1>1, <1>2, <1>4 DEF RunsOK
<1>5. CASE Crash
  BY <1>5, IdleFits DEF Crash, RunsOK
<1>6. run' = run \/ Crash \/ \E g \in Runs : GeneratorStep(g)
  BY DEF Next, vars, NextDay, RequestStep, PaymentStep, CreatePayment,
     ReadLedger, InsertPayments, ReconcilePayment, ReconcileDeposit,
     SettlePayment, AssignmentStep, CreateAssignment, InsertAssignment,
     DeleteAssignment, PlanStep, CreatePlan, InsertPlan, InsertDepositRow,
     PayDeposit, UpdatePlan, WriteStatus, WriteTerms
<1> QED BY <1>3, <1>4, <1>5, <1>6, RunStepsFit

-----------------------------------------------------------------------------
(* The invariant is inductive.                                             *)
LEMMA NextKeepsIInv == IInv /\ [Next]_vars => IInv'
<1> SUFFICES ASSUME IInv, [Next]_vars PROVE IInv'
  OBVIOUS
<1>1. (today \in Days)'
  <2>1. today' = today \/ NextDay
    BY DEF Next, vars, RequestStep, PaymentStep, CreatePayment,
       ReadLedger, InsertPayments, ReconcilePayment, ReconcileDeposit,
       SettlePayment, AssignmentStep, CreateAssignment, InsertAssignment,
       DeleteAssignment, PlanStep, CreatePlan, InsertPlan, InsertDepositRow,
       PayDeposit, UpdatePlan, WriteStatus, WriteTerms, GeneratorStep,
       ScanPlans, ReadPlanRows, ReadPaid, ReadCalendar, PlanTurn, CreateRows,
       CompletePlans, Crash
  <2> QED BY <2>1, InputsAssumption DEF IInv, Days, NextDay
<1> QED BY <1>1, PlansKept, RowsKept, PaymentsKept, CallsKept, RunsKept
       DEF IInv

(* The tables and what is in flight are what they should be, whatever runs *)
(* together and wherever the process stops: every row asks for something,  *)
(* every payment is of something.                                          *)
THEOREM TypeCorrect == Spec => []TypeOK
<1>1. IInv => TypeOK
  <2> SUFFICES ASSUME IInv PROVE TypeOK
    OBVIOUS
  <2>0. \A p \in PlanIds : plans[p] \in Plan
    BY DEF IInv, PlansOK, PlanIds
  <2>1. \A p \in PlanIds : PlanOK(plans[p])
    BY <2>0 DEF PlanOK, Plan
  <2>2. \A r \in rows : RowOK(r)
    BY DEF IInv, RowsOK, RowFits, RowOK, PlanIds
  <2>3. \A x \in payments : PaymentOK(x)
    BY <2>2 DEF IInv, PaymentsOK, PaymentFits, PaymentOK
  <2> QED BY <2>1, <2>2, <2>3
       DEF IInv, CallsOK, RunsOK, RequestFits, RunFits, TypeOK
<1> QED BY <1>1, InitFits, NextKeepsIInv, PTL DEF Spec

(* A payment is against a row that exists, and of that row's driver, in    *)
(* every interleaving of payments, cascades, deposits and deletions.       *)
THEOREM PaymentsBelong == Spec => []PaymentsAreTheDriversOwn
<1>1. IInv => PaymentsAreTheDriversOwn
  BY DEF IInv, PaymentsOK, PaymentFits, PaymentsAreTheDriversOwn
<1> QED BY <1>1, InitFits, NextKeepsIInv, PTL DEF Spec

(* Every row that a run, a deposit or a form made for a plan is of that    *)
(* plan's driver and vehicle, however stale the plan was that it was made  *)
(* from.                                                                   *)
THEOREM RowsFollowPlans == Spec => []PlanRowsFollowThePlan
<1>1. IInv => PlanRowsFollowThePlan
  BY DEF IInv, RowsOK, RowFits, PlanRowsFollowThePlan, PlanIds
<1> QED BY <1>1, InitFits, NextKeepsIInv, PTL DEF Spec

(* The partial unique index is enough: no vehicle is ever on two ACTIVE    *)
(* plans, for any number of creates, closings and completions in flight.   *)
THEOREM VehiclesOnOnePlan == Spec => []OneActivePlanPerVehicle
<1>1. IInv => OneActivePlanPerVehicle
  BY DEF IInv, PlansOK
<1> QED BY <1>1, InitFits, NextKeepsIInv, PTL DEF Spec

(* No stale write of a status ever makes a closed plan ACTIVE again.       *)
THEOREM ClosedForGood == Spec => NeverReopened
<1>1. IInv /\ [Next]_vars =>
        [\A p \in PlanIds :
           plans[p].status # "ACTIVE" => plans'[p].status # "ACTIVE"]_vars
  BY PlansKept DEF NoneReopened, PlanIds
<1> QED BY <1>1, InitFits, NextKeepsIInv, PTL DEF Spec, NeverReopened

-----------------------------------------------------------------------------
(* Who puts a row into the table.                                          *)
LEMMA WhoInserts ==
  ASSUME [Next]_vars, NEW r \in rows' \ rows
  PROVE  \/ \E c \in Clients : InsertAssignment(c) \/ InsertDepositRow(c)
         \/ \E g \in Runs : CreateRows(g)
<1>1. Next
  BY DEF vars
<1>2. CASE \E c \in Clients : PaymentStep(c)
  BY <1>2 DEF PaymentStep, CreatePayment, ReadLedger, InsertPayments,
     ReconcilePayment, ReconcileDeposit, SettlePayment, tables
<1>3. CASE \E c \in Clients : AssignmentStep(c)
  BY <1>3 DEF AssignmentStep, CreateAssignment, DeleteAssignment, tables
<1>4. CASE \E c \in Clients : PlanStep(c)
  BY <1>4 DEF PlanStep, CreatePlan, InsertPlan, PayDeposit, UpdatePlan,
     WriteStatus, WriteTerms, tables
<1>5. CASE \E g \in Runs : GeneratorStep(g)
  BY <1>5 DEF GeneratorStep, ScanPlans, ReadPlanRows, ReadPaid,
     ReadCalendar, PlanTurn, CompletePlans, tables
<1>6. CASE NextDay \/ Crash
  BY <1>6 DEF NextDay, Crash, tables
<1> QED BY <1>1, <1>2, <1>3, <1>4, <1>5, <1>6 DEF Next, RequestStep

(***************************************************************************)
(* What tells two rows, and two payments, apart.                           *)
(***************************************************************************)
Apart(R) == \A r, q \in R : Clashes(r, q) => r = q
Dated(R) == IsFiniteSet(R) /\ \A r \in R : r.day \in Int

(* At most one share is of a day, so that the transaction numbers them     *)
(* one after the other.                                                    *)
SharesApart(A) ==
  /\ IsFiniteSet(A)
  /\ \A a \in A : a.row.day \in Int
  /\ \A a, b \in A : a.row.day = b.row.day => a = b

CallTidy(q) ==
  /\ q.pc = "payInsert" => SharesApart(q.allocations)
  /\ q.pc = "assign" => q.row.day \in Int

(* The rows a run makes are of different plans' vehicles, or of one plan   *)
(* and of different days; and no driver gets a second one on a day.        *)
MadeByTurns(q) ==
  \A r \in q.create :
    /\ <<r.driver, r.day>> \in q.taken
    /\ r.plan \in DOMAIN q.plans \ q.todo
    /\ r.vehicle = q.plans[r.plan].vehicle

RunTidy(q) ==
  /\ q.pc \in {"readRows", "readPaid", "readCalendar", "plans"} =>
       /\ q.today \in Int
       /\ \A i, j \in DOMAIN q.plans :
            q.plans[i].vehicle = q.plans[j].vehicle => i = j
  /\ q.pc \in {"readPaid", "readCalendar", "plans"} => Dated(q.rows)
  /\ q.pc \in {"plans", "create"} => Dated(q.create) /\ Apart(q.create)
  /\ q.pc = "plans" => MadeByTurns(q)

RowsTidy == Dated(rows) /\ Apart(rows)
PaymentsTidy ==
  /\ IsFiniteSet(payments)
  /\ \A x \in payments : x.id \in 1 .. Cardinality(payments)
  /\ \A x, y \in payments : x.id = y.id => x = y
CallsTidy == \A c \in Clients : CallTidy(call[c])
RunsTidy == \A g \in Runs : RunTidy(run[g])

Tidy == RowsTidy /\ PaymentsTidy /\ CallsTidy /\ RunsTidy

LEMMA InitTidy == Init => Tidy
<1> SUFFICES ASSUME Init PROVE Tidy
  OBVIOUS
<1>1. IsFiniteSet({})
  BY FS_EmptySet
<1>2. RowsTidy
  BY <1>1 DEF Init, RowsTidy, Dated, Apart
<1>3. PaymentsTidy
  BY <1>1 DEF Init, PaymentsTidy
<1>4. CallsTidy /\ RunsTidy
  BY DEF Init, CallsTidy, RunsTidy, CallTidy, RunTidy, Idle
<1> QED BY <1>2, <1>3, <1>4 DEF Tidy

-----------------------------------------------------------------------------
(***************************************************************************)
(* The days that are computed are days.                                    *)
(***************************************************************************)
(* Some day of a week is of the plan's weekdays.                           *)
LEMMA DepositDay ==
  ASSUME NEW plan \in Plan
  PROVE  FirstActiveDay(plan) \in Int
<1> DEFINE s == plan.start
           S == {d \in s .. (s + 6) : ActiveOn(plan.weekdays, d)}
<1>1. s \in Int /\ plan.weekdays # {} /\ plan.weekdays \subseteq 0 .. 6
  BY DEF Plan, Weekdays
<1>2. PICK w \in plan.weekdays : w \in 0 .. 6
  BY <1>1
<1>3. S # {}
  <2> DEFINE d == s + ((w - s) % 7)
  <2>1. d \in s .. (s + 6) /\ d % 7 = w
    BY <1>1, <1>2
  <2> QED BY <1>2, <2>1 DEF ActiveOn
<1>4. IsFiniteSet(S) /\ S \subseteq Int
  <2>1. IsFiniteSet(s .. (s + 6))
    BY <1>1, FS_Interval
  <2>2. S \in SUBSET (s .. (s + 6)) /\ S \subseteq Int
    BY <1>1
  <2> HIDE DEF S
  <2> QED BY <2>1, <2>2, FS_Subset
<1> HIDE DEF S
<1>5. Min(S) \in Int
  BY <1>3, <1>4, MinMember
<1> QED BY <1>5 DEF S, FirstActiveDay

LEMMA BackfillDay ==
  ASSUME NEW g, NEW p, run[g].today \in Int, run[g].plans[p].start \in Int,
         Dated(run[g].rows)
  PROVE  BackfillStart(g, p) \in Int
<1> DEFINE R == RowsRead(g, p)
           D == {r.day : r \in R}
<1>1. IsFiniteSet(R) /\ \A r \in R : r.day \in Int
  BY FS_Subset DEF RowsRead, Dated
<1>2. IsFiniteSet(D) /\ D \subseteq Int /\ (R # {} => D # {})
  <2> DEFINE f == [r \in R |-> r.day]
  <2> HIDE DEF R
  <2>1. f \in [R -> D] /\ \A y \in D : \E r \in R : y = f[r]
    BY <1>1
  <2> HIDE DEF f
  <2>2. IsFiniteSet(D)
    BY <1>1, <2>1, ImageOfFinite
  <2> QED BY <1>1, <2>2
<1>3. NaturalStart(g, p) \in Int
  <2>1. CASE R = {}
    BY <2>1 DEF NaturalStart
  <2>2. CASE R # {}
    <3> HIDE DEF D
    <3>1. Max(D) \in Int
      BY <1>2, <2>2, MaxMember
    <3> QED BY <2>2, <3>1 DEF NaturalStart, D
  <2> QED BY <2>1, <2>2
<1>4. WindowStart(run[g].today) \in Int
  BY InputsAssumption DEF WindowStart
<1> DEFINE E == {NaturalStart(g, p), WindowStart(run[g].today)}
<1>5. IsFiniteSet(E) /\ E \subseteq Int /\ E # {}
  <2>1. IsFiniteSet({NaturalStart(g, p)})
    BY FS_Singleton
  <2>2. E = {NaturalStart(g, p)} \cup {WindowStart(run[g].today)}
    OBVIOUS
  <2>3. IsFiniteSet(E)
    BY <2>1, <2>2, FS_AddElement
  <2> QED BY <1>3, <1>4, <2>3
<1> HIDE DEF E
<1>6. Max(E) \in Int
  BY <1>5, MaxMember
<1> QED BY <1>6 DEF E, BackfillStart

(* The rows of one turn: of its plan, each of an open day of its own.      *)
LEMMA TurnMakes ==
  ASSUME NEW g, NEW p, run[g].today \in Int, run[g].plans[p].start \in Int,
         Dated(run[g].rows)
  PROVE  /\ Dated(Instalments(g, p)) /\ Apart(Instalments(g, p))
         /\ \A r \in Instalments(g, p) :
              /\ r.plan = p /\ r.driver = run[g].plans[p].driver
              /\ r.vehicle = run[g].plans[p].vehicle
              /\ <<r.driver, r.day>> \notin run[g].taken
<1> DEFINE plan == run[g].plans[p]
           Row_(d) == InstalmentRow(p, plan, d, LeftToBill(g, p, d))
           D == {d \in OpenDays(g, p) : LeftToBill(g, p, d) > 0}
           I == Instalments(g, p)
<1>1. I = {Row_(d) : d \in D}
  BY DEF Instalments
<1>2. \A d : /\ Row_(d).day = d /\ Row_(d).plan = p
             /\ Row_(d).driver = plan.driver /\ Row_(d).vehicle = plan.vehicle
  BY DEF InstalmentRow, Row
<1>3. \A d \in D : d \in Int /\ <<plan.driver, d>> \notin run[g].taken
  <2>1. BackfillStart(g, p) \in Int
    BY BackfillDay
  <2> QED BY <2>1 DEF OpenDays
<1>4. IsFiniteSet(D)
  <2>1. IsFiniteSet(BackfillStart(g, p) .. run[g].today)
    BY BackfillDay, FS_Interval
  <2>2. D \in SUBSET (BackfillStart(g, p) .. run[g].today)
    BY DEF OpenDays
  <2> QED BY <2>1, <2>2, FS_Subset
<1> HIDE DEF Row_, D, I
<1>5. IsFiniteSet(I)
  <2> DEFINE f == [d \in D |-> Row_(d)]
  <2>1. f \in [D -> I] /\ \A y \in I : \E d \in D : y = f[d]
    BY <1>1
  <2> HIDE DEF f
  <2> QED BY <1>4, <2>1, ImageOfFinite
<1>6. Dated(I)
  BY <1>1, <1>2, <1>3, <1>5 DEF Dated
<1>7. Apart(I)
  BY <1>1, <1>2 DEF Apart, Clashes
<1>8. \A r \in I : /\ r.plan = p /\ r.driver = plan.driver
                   /\ r.vehicle = plan.vehicle
                   /\ <<r.driver, r.day>> \notin run[g].taken
  BY <1>1, <1>2, <1>3
<1> QED BY <1>6, <1>7, <1>8 DEF I

-----------------------------------------------------------------------------
(***************************************************************************)
(* The rows: no two are of one driver, or of one vehicle, on one day.  The *)
(* index is asked row by row; createMany is asked of the table as it was,  *)
(* and it is the run that made its own rows apart.                         *)
(***************************************************************************)
LEMMA InsertedApart ==
  ASSUME RowsTidy, NEW R, Dated(R), Apart(R), \A r \in R : Insertable(r),
         rows' = rows \cup R
  PROVE  RowsTidy'
<1>1. IsFiniteSet(rows \cup R)
  BY FS_Union DEF RowsTidy, Dated
<1>2. \A r \in R, q \in rows : ~Clashes(r, q) /\ ~Clashes(q, r)
  BY DEF Insertable, Clashes
<1> QED BY <1>1, <1>2 DEF RowsTidy, Dated, Apart

LEMMA OneApart ==
  ASSUME NEW r, r.day \in Int
  PROVE  Dated({r}) /\ Apart({r})
BY FS_Singleton DEF Dated, Apart

LEMMA RowsTidyKept ==
  ASSUME IInv, Tidy, [Next]_vars
  PROVE  RowsTidy'
<1>0. RowsTidy
  BY DEF Tidy
<1>1. CASE rows' = rows
  BY <1>0, <1>1 DEF RowsTidy, Dated, Apart
<1>2. ASSUME NEW c \in Clients, InsertAssignment(c)
      PROVE  RowsTidy'
  <2> DEFINE r == Stamped(call[c].row)
  <2>1. r.day \in Int
    BY <1>2 DEF InsertAssignment, Tidy, CallsTidy, CallTidy, Stamped, Row
  <2>2. CASE Insertable(r)
    <3>1. rows' = rows \cup {r}
      BY <1>2, <2>2 DEF InsertAssignment
    <3> QED BY <1>0, <2>1, <2>2, <3>1, OneApart, InsertedApart
  <2>3. CASE ~Insertable(r)
    BY <1>1, <1>2, <2>3 DEF InsertAssignment
  <2> QED BY <2>2, <2>3
<1>3. ASSUME NEW c \in Clients, InsertDepositRow(c)
      PROVE  RowsTidy'
  <2> DEFINE r == DepositRow(call[c].id, call[c].plan)
  <2>1. call[c].plan \in Plan
    BY <1>3 DEF InsertDepositRow, IInv, CallsOK, RequestFits, PlanFits
  <2>2. r.day \in Int
    BY <2>1, DepositDay DEF DepositRow, Row
  <2>3. CASE Insertable(r)
    <3>1. rows' = rows \cup {r}
      BY <1>3, <2>3 DEF InsertDepositRow
    <3> QED BY <1>0, <2>2, <2>3, <3>1, OneApart, InsertedApart
  <2>4. CASE ~Insertable(r)
    BY <1>1, <1>3, <2>4 DEF InsertDepositRow
  <2> QED BY <2>3, <2>4
<1>4. ASSUME NEW g \in Runs, CreateRows(g)
      PROVE  RowsTidy'
  <2> DEFINE Q == {q \in run[g].create : Insertable(q)}
             f == [q \in Q |-> Stamped(q)]
             R == Created(g)
  <2>1. Dated(run[g].create) /\ Apart(run[g].create)
    BY <1>4 DEF CreateRows, Tidy, RunsTidy, RunTidy
  <2>2. R = {Stamped(q) : q \in Q}
    BY DEF Created
  <2>3. \A q : /\ Stamped(q).day = q.day /\ Stamped(q).driver = q.driver
               /\ Stamped(q).vehicle = q.vehicle
    BY DEF Stamped, Row
  <2>4. IsFiniteSet(Q)
    BY <2>1, FS_Subset DEF Dated
  <2>5. IsFiniteSet(R)
    <3>1. f \in [Q -> R] /\ \A y \in R : \E q \in Q : y = f[q]
      BY <2>2
    <3> HIDE DEF f, Q, R
    <3> QED BY <2>4, <3>1, ImageOfFinite
  <2>6. \A r \in R : Insertable(r)
    BY <2>2, <2>3 DEF Insertable, Clashes
  <2>7. Dated(R) /\ Apart(R)
    <3>1. \A r \in R : r.day \in Int
      BY <2>1, <2>2, <2>3 DEF Dated
    <3>2. Apart(R)
      <4> SUFFICES ASSUME NEW q \in Q, NEW s \in Q,
                          Clashes(Stamped(q), Stamped(s))
                   PROVE  q = s
        BY <2>2 DEF Apart
      <4>1. Clashes(q, s)
        BY <2>3 DEF Clashes
      <4> QED BY <2>1, <4>1 DEF Apart
    <3> QED BY <2>5, <3>1, <3>2 DEF Dated
  <2>8. rows' = rows \cup R
    BY <1>4 DEF CreateRows
  <2> HIDE DEF R
  <2> QED BY <1>0, <2>6, <2>7, <2>8, InsertedApart
<1>5. CASE rows' \subseteq rows
  <2>1. IsFiniteSet(rows')
    BY <1>0, <1>5, FS_Subset DEF RowsTidy, Dated
  <2> QED BY <1>0, <1>5, <2>1 DEF RowsTidy, Dated, Apart
<1>6. CASE ~ (rows' \subseteq rows)
  <2>1. PICK r \in rows' \ rows : TRUE
    BY <1>6
  <2> QED BY <1>2, <1>3, <1>4, <2>1, WhoInserts
<1> QED BY <1>5, <1>6

-----------------------------------------------------------------------------
(***************************************************************************)
(* The payments: each has a number of its own.                             *)
(***************************************************************************)
(* What the transaction inserts is numbered on from what is there.         *)
LEMMA InsertedAreNumbered ==
  ASSUME PaymentsTidy, NEW q, SharesApart(q.allocations)
  PROVE  LET all == payments \cup Inserted(q)
         IN  /\ IsFiniteSet(all)
             /\ \A x \in all : x.id \in 1 .. Cardinality(all)
             /\ \A x, y \in all : x.id = y.id => x = y
<1> DEFINE A == q.allocations
           n == Cardinality(payments)
           day == [a \in A |-> a.row.day]
           rank(a) == Cardinality({b \in A : day[b] <= day[a]})
           new(a) == [id |-> n + rank(a), row |-> a.row,
                      driver |-> q.row.driver, amount |-> a.amount,
                      status |-> "PENDING"]
           N == Inserted(q)
           f == [a \in A |-> new(a)]
<1>1. /\ n \in Nat /\ IsFiniteSet(payments)
      /\ IsFiniteSet(A) /\ Cardinality(A) \in Nat
  BY FS_CardinalityType DEF PaymentsTidy, SharesApart
<1>2. /\ \A a \in A : rank(a) \in 1 .. Cardinality(A)
      /\ \A a, b \in A : rank(a) = rank(b) => a = b
  <2>1. /\ \A a \in A : day[a] \in Int
        /\ \A a, b \in A : day[a] = day[b] => a = b
    BY DEF SharesApart
  <2> HIDE DEF A, day
  <2> QED BY <1>1, <2>1, RanksDiffer
<1>3. N = {new(a) : a \in A}
  <2>1. \A a \in A : {b \in A : day[b] <= day[a]}
                       = {b \in A : b.row.day <= a.row.day}
    OBVIOUS
  <2>2. \A a \in A : new(a) =
          [id |-> n + Cardinality({b \in A : b.row.day <= a.row.day}),
           row |-> a.row, driver |-> q.row.driver, amount |-> a.amount,
           status |-> "PENDING"]
    BY <2>1
  <2> QED BY <2>2 DEF Inserted
<1>4. \A a : new(a).id = n + rank(a)
  OBVIOUS
<1> HIDE DEF new, rank, day, A, N
<1>5. f \in [A -> N] /\ \A x \in N : \E a \in A : x = f[a]
  BY <1>3
<1>6. IsFiniteSet(N) /\ Cardinality(N) = Cardinality(A)
  <2>1. IsFiniteSet(N)
    <3> HIDE DEF f
    <3> QED BY <1>1, <1>5, ImageOfFinite
  <2>2. \A a, b \in A : f[a] = f[b] => a = b
    BY <1>1, <1>2, <1>4
  <2>3. f \in Bijection(A, N)
    <3> HIDE DEF f
    <3>1. f \in Injection(A, N)
      BY <1>5, <2>2 DEF Injection, IsInjective
    <3>2. f \in Surjection(A, N)
      BY <1>5 DEF Surjection
    <3> QED BY <3>1, <3>2 DEF Bijection
  <2>4. ExistsBijection(A, N)
    BY <2>3 DEF ExistsBijection
  <2> QED BY <1>1, <2>1, <2>4, FS_Bijection
<1>7. /\ \A x \in payments : x.id \in 1 .. n
      /\ \A x \in N : x.id \in (n + 1) .. (n + Cardinality(A))
  BY <1>1, <1>2, <1>3, <1>4 DEF PaymentsTidy
<1>8. payments \cap N = {}
  BY <1>1, <1>7
<1> DEFINE all == payments \cup N
<1>9. IsFiniteSet(all) /\ Cardinality(all) = n + Cardinality(A)
  <2>1. /\ IsFiniteSet(all)
        /\ Cardinality(all) = n + Cardinality(N) - Cardinality(payments \cap N)
    BY <1>1, <1>6, FS_Union
  <2>2. Cardinality(payments \cap N) = 0
    BY <1>8, FS_EmptySet
  <2> QED BY <1>1, <1>6, <2>1, <2>2
<1>10. \A x \in all : x.id \in 1 .. Cardinality(all)
  BY <1>1, <1>7, <1>9
<1>11. \A x, y \in N : x.id = y.id => x = y
  BY <1>1, <1>2, <1>3, <1>4
<1>12. \A x, y \in all : x.id = y.id => x = y
  <2>1. \A x, y \in payments : x.id = y.id => x = y
    BY DEF PaymentsTidy
  <2>2. \A x \in payments, y \in N : x.id # y.id
    BY <1>1, <1>7
  <2> QED BY <1>11, <2>1, <2>2
<1> QED BY <1>9, <1>10, <1>12 DEF N

LEMMA SettledKeepNumbers ==
  ASSUME IInv, PaymentsTidy, NEW c \in Clients, SettlePayment(c)
  PROVE  PaymentsTidy'
<1> DEFINE s(x) == IF x.id = call[c].payment
                     THEN [x EXCEPT !.status = call[c].to] ELSE x
           f == [x \in payments |-> s(x)]
<1>1. payments' = {s(x) : x \in payments}
  BY DEF SettlePayment
<1>2. \A x \in payments : s(x).id = x.id
  BY DEF IInv, PaymentsOK, PaymentFits
<1> HIDE DEF s
<1>3. f \in [payments -> payments'] /\ \A y \in payments' : \E x \in payments : y = f[x]
  BY <1>1
<1>4. IsFiniteSet(payments')
  <2> HIDE DEF f
  <2> QED BY <1>3, ImageOfFinite DEF PaymentsTidy
<1>5. f \in Injection(payments, payments')
  <2>1. \A x, y \in payments : f[x] = f[y] => x = y
    BY <1>2 DEF PaymentsTidy
  <2> HIDE DEF f
  <2> QED BY <1>3, <2>1 DEF Injection, IsInjective
<1>6. Cardinality(payments) <= Cardinality(payments')
  BY <1>4, <1>5, FS_Injection
<1>7. Cardinality(payments) \in Nat /\ Cardinality(payments') \in Nat
  BY <1>4, FS_CardinalityType DEF PaymentsTidy
<1>8. \A y \in payments' : y.id \in 1 .. Cardinality(payments')
  <2>1. \A x \in payments : x.id \in 1 .. Cardinality(payments)
    BY DEF PaymentsTidy
  <2>2. \A x \in payments : x.id \in 1 .. Cardinality(payments')
    BY <1>6, <1>7, <2>1
  <2> QED BY <1>1, <1>2, <2>2
<1>9. \A x, y \in payments' : x.id = y.id => x = y
  BY <1>1, <1>2 DEF PaymentsTidy
<1> QED BY <1>4, <1>8, <1>9 DEF PaymentsTidy

(* Who writes payments.                                                    *)
LEMMA WhoPays ==
  ASSUME [Next]_vars, payments' # payments
  PROVE  \E c \in Clients : InsertPayments(c) \/ SettlePayment(c)
<1>1. Next
  BY DEF vars
<1>2. CASE \E c \in Clients : PaymentStep(c)
  BY <1>2 DEF PaymentStep, CreatePayment, ReadLedger, ReconcilePayment,
     ReconcileDeposit, tables
<1>3. CASE \E c \in Clients : AssignmentStep(c)
  BY <1>3 DEF AssignmentStep, CreateAssignment, InsertAssignment,
     DeleteAssignment, tables
<1>4. CASE \E c \in Clients : PlanStep(c)
  BY <1>4 DEF PlanStep, CreatePlan, InsertPlan, InsertDepositRow, PayDeposit,
     UpdatePlan, WriteStatus, WriteTerms, tables
<1>5. CASE \E g \in Runs : GeneratorStep(g)
  BY <1>5 DEF GeneratorStep, ScanPlans, ReadPlanRows, ReadPaid,
     ReadCalendar, PlanTurn, CreateRows, CompletePlans, tables
<1>6. CASE NextDay \/ Crash
  BY <1>6 DEF NextDay, Crash, tables
<1> QED BY <1>1, <1>2, <1>3, <1>4, <1>5, <1>6 DEF Next, RequestStep

LEMMA PaymentsTidyKept ==
  ASSUME IInv, Tidy, [Next]_vars
  PROVE  PaymentsTidy'
<1>1. PaymentsTidy
  BY DEF Tidy
<1>2. CASE payments' = payments
  BY <1>1, <1>2 DEF PaymentsTidy
<1>3. ASSUME NEW c \in Clients, InsertPayments(c), payments' # payments
      PROVE  PaymentsTidy'
  <2>1. payments' = payments \cup Inserted(call[c])
    BY <1>3 DEF InsertPayments
  <2>2. SharesApart(call[c].allocations)
    BY <1>3 DEF InsertPayments, Tidy, CallsTidy, CallTidy
  <2> HIDE DEF Inserted
  <2> QED BY <1>1, <2>1, <2>2, InsertedAreNumbered DEF PaymentsTidy
<1> QED BY <1>1, <1>2, <1>3, WhoPays, SettledKeepNumbers

-----------------------------------------------------------------------------
(***************************************************************************)
(* The requests in flight: the cascade gives each row of a plan one share, *)
(* and the rows of a plan are of different days.                           *)
(***************************************************************************)
LEMMA CascadeApart ==
  ASSUME IInv, RowsTidy, NEW p, p # Manual, NEW amount
  PROVE  SharesApart(Cascade(PlanRows(p), amount))
<1> DEFINE R == PlanRows(p)
           S == {r \in R : Share(R, r, amount) > 0}
           f == [r \in S |-> [row |-> r, amount |-> Share(R, r, amount)]]
           A == Cascade(R, amount)
<1>1. A = {[row |-> r, amount |-> Share(R, r, amount)] : r \in S}
  BY DEF Cascade
<1>2. S \in SUBSET rows /\ \A r \in S : r.day \in Int
  BY DEF PlanRows, RowsTidy, Dated
<1>3. \A r, s \in S : r.day = s.day => r = s
  <2>1. \A r \in S : r.driver = plans[p].driver
    BY DEF PlanRows, IInv, RowsOK, RowFits
  <2> QED BY <1>2, <2>1 DEF RowsTidy, Apart, Clashes
<1>4. IsFiniteSet(S)
  BY <1>2, FS_Subset DEF RowsTidy, Dated
<1>5. f \in [S -> A] /\ \A a \in A : \E r \in S : a = f[r]
  BY <1>1
<1>6. \A a \in A : a.row \in S /\ a = [row |-> a.row, amount |-> Share(R, a.row, amount)]
  BY <1>1
<1> HIDE DEF f, S, A, R
<1>7. IsFiniteSet(A)
  BY <1>4, <1>5, ImageOfFinite
<1>8. \A a \in A : a.row.day \in Int
  BY <1>2, <1>6
<1>9. \A a, b \in A : a.row.day = b.row.day => a = b
  <2> SUFFICES ASSUME NEW a \in A, NEW b \in A, a.row.day = b.row.day
               PROVE  a = b
    OBVIOUS
  <2>1. a.row = b.row
    BY <1>3, <1>6
  <2> QED BY <1>6, <2>1
<1> QED BY <1>7, <1>8, <1>9 DEF SharesApart, A, R

LEMMA RentalApart ==
  ASSUME NEW r, r.day \in Int, NEW amount
  PROVE  CallTidy(RentalPayment(r, amount))
<1> DEFINE a == [row |-> r, amount |-> amount]
<1>1. RentalPayment(r, amount).allocations = {a} /\ a.row = r
  BY DEF RentalPayment
<1>2. RentalPayment(r, amount).pc = "payInsert"
  BY DEF RentalPayment
<1> HIDE DEF a
<1>3. IsFiniteSet({a})
  BY FS_Singleton
<1>4. SharesApart({a})
  BY <1>1, <1>3 DEF SharesApart
<1> QED BY <1>1, <1>2, <1>4 DEF CallTidy

(* The steps after which a request holds shares or a booking.              *)
LEMMA WhoHolds ==
  ASSUME IInv, NEW c \in Clients, RequestStep(c),
         ~CreatePayment(c), ~ReadLedger(c), ~CreateAssignment(c)
  PROVE  call' = call \/ \E q : CallTidy(q) /\ call' = [call EXCEPT ![c] = q]
<1>0. CallTidy(Idle)
  BY DEF CallTidy, Idle
<1>1. Answer(c) => \E q : CallTidy(q) /\ call' = [call EXCEPT ![c] = q]
  BY <1>0 DEF Answer
<1>2. \A q : q.pc \notin {"payInsert", "assign"} => CallTidy(q)
  BY DEF CallTidy
<1>3. ASSUME PaymentStep(c) PROVE \E q : CallTidy(q) /\ call' = [call EXCEPT ![c] = q]
  <2>1. ASSUME InsertPayments(c)
        PROVE  \E q : CallTidy(q) /\ call' = [call EXCEPT ![c] = q]
    <3>1. \/ Answer(c)
          \/ \E p, id : call' = [call EXCEPT ![c] =
                          [pc |-> "depositPaid", plan |-> p, payment |-> id]]
      BY <2>1 DEF InsertPayments
    <3>2. \A p, id : CallTidy([pc |-> "depositPaid", plan |-> p, payment |-> id])
      BY DEF CallTidy
    <3> QED BY <1>1, <3>1, <3>2
  <2>2. \A id, to, p : CallTidy(Settlement(id, to, p))
    BY DEF Settlement, CallTidy
  <2>3. ASSUME ReconcilePayment(c) \/ ReconcileDeposit(c)
        PROVE  \E q : CallTidy(q) /\ call' = [call EXCEPT ![c] = q]
    BY <1>1, <2>2, <2>3 DEF ReconcilePayment, ReconcileDeposit
  <2>4. CASE SettlePayment(c)
    BY <1>1, <2>4 DEF SettlePayment
  <2> QED BY <1>3, <2>1, <2>3, <2>4 DEF PaymentStep
<1>4. ASSUME AssignmentStep(c)
      PROVE  call' = call \/ \E q : CallTidy(q) /\ call' = [call EXCEPT ![c] = q]
  BY <1>1, <1>4 DEF AssignmentStep, InsertAssignment, DeleteAssignment
<1>5. ASSUME PlanStep(c) PROVE \E q : CallTidy(q) /\ call' = [call EXCEPT ![c] = q]
  <2>1. ASSUME CreatePlan(c)
        PROVE  \E q : CallTidy(q) /\ call' = [call EXCEPT ![c] = q]
    <3>1. \E plan : call' = [call EXCEPT ![c] = [pc |-> "planInsert", plan |-> plan]]
      BY <2>1 DEF CreatePlan
    <3>2. \A plan : CallTidy([pc |-> "planInsert", plan |-> plan])
      BY DEF CallTidy
    <3> QED BY <3>1, <3>2
  <2>2. ASSUME InsertPlan(c)
        PROVE  \E q : CallTidy(q) /\ call' = [call EXCEPT ![c] = q]
    <3>1. \/ Answer(c)
          \/ \E id, plan : call' = [call EXCEPT ![c] =
                             [pc |-> "depositRow", id |-> id, plan |-> plan]]
      BY <2>2 DEF InsertPlan
    <3>2. \A id, plan : CallTidy([pc |-> "depositRow", id |-> id, plan |-> plan])
      BY DEF CallTidy
    <3> QED BY <1>1, <3>1, <3>2
  <2>3. ASSUME InsertDepositRow(c)
        PROVE  \E q : CallTidy(q) /\ call' = [call EXCEPT ![c] = q]
    <3>1. \/ Answer(c)
          \/ \E r, down : call' = [call EXCEPT ![c] =
                            [pc |-> "depositPay", row |-> r, down |-> down]]
      BY <2>3 DEF InsertDepositRow
    <3>2. \A r, down : CallTidy([pc |-> "depositPay", row |-> r, down |-> down])
      BY DEF CallTidy
    <3> QED BY <1>1, <3>1, <3>2
  <2>4. ASSUME PayDeposit(c)
        PROVE  \E q : CallTidy(q) /\ call' = [call EXCEPT ![c] = q]
    <3>1. \A r, amount, deposit : CallTidy(PlanPayment(r, amount, deposit))
      BY DEF PlanPayment, CallTidy
    <3> QED BY <1>1, <2>4, <3>1 DEF PayDeposit
  <2>5. ASSUME UpdatePlan(c)
        PROVE  \E q : CallTidy(q) /\ call' = [call EXCEPT ![c] = q]
    <3>1. /\ \A p, to : CallTidy([pc |-> "updateStatus", plan |-> p, to |-> to])
          /\ \A p, e : CallTidy([pc |-> "updateTerms", plan |-> p, terms |-> e])
      BY DEF CallTidy
    <3> QED BY <2>5, <3>1 DEF UpdatePlan
  <2>6. CASE WriteStatus(c) \/ WriteTerms(c)
    BY <1>1, <2>6 DEF WriteStatus, WriteTerms
  <2> QED BY <1>5, <2>1, <2>2, <2>3, <2>4, <2>5, <2>6 DEF PlanStep
<1> QED BY <1>3, <1>4, <1>5 DEF RequestStep

LEMMA CallsTidyKept ==
  ASSUME IInv, Tidy, [Next]_vars
  PROVE  CallsTidy'
<1>0. CallsTidy /\ RowsTidy /\ DOMAIN call = Clients
  BY DEF Tidy, IInv, CallsOK
<1>1. CASE call' = call
  BY <1>0, <1>1 DEF CallsTidy
<1>2. ASSUME NEW c \in Clients, NEW q, CallTidy(q), call' = [call EXCEPT ![c] = q]
      PROVE  CallsTidy'
  BY <1>0, <1>2 DEF CallsTidy
<1>3. CASE Crash
  BY <1>3 DEF Crash, CallsTidy, CallTidy, Idle
<1>4. ASSUME NEW c \in Clients, CreatePayment(c)
      PROVE  CallsTidy'
  <2>1. PICK r \in rows, amount \in Amounts :
          \/ call' = [call EXCEPT ![c] = RentalPayment(r, amount)]
          \/ call' = [call EXCEPT ![c] = PlanPayment(r, amount, FALSE)]
    BY <1>4 DEF CreatePayment
  <2>2. CallTidy(PlanPayment(r, amount, FALSE))
    BY DEF PlanPayment, CallTidy
  <2>3. CallTidy(RentalPayment(r, amount))
    BY <1>0, RentalApart DEF RowsTidy, Dated
  <2> QED BY <1>2, <2>1, <2>2, <2>3
<1>5. ASSUME NEW c \in Clients, ReadLedger(c)
      PROVE  CallsTidy'
  <2> DEFINE q == call[c]
             A == Cascade(PlanRows(q.row.plan), q.amount)
             next == [pc |-> "payInsert", row |-> q.row, deposit |-> q.deposit,
                      allocations |-> A]
  <2>1. Answer(c) \/ call' = [call EXCEPT ![c] = next]
    BY <1>5 DEF ReadLedger
  <2>2. q.row.plan # Manual
    BY <1>5 DEF ReadLedger, IInv, CallsOK, RequestFits
  <2>3. SharesApart(A)
    BY <1>0, <2>2, CascadeApart
  <2> HIDE DEF A
  <2>4. CallTidy(next)
    BY <2>3 DEF CallTidy
  <2>5. CallTidy(Idle)
    BY DEF CallTidy, Idle
  <2> QED BY <1>2, <2>1, <2>4, <2>5 DEF Answer
<1>6. ASSUME NEW c \in Clients, CreateAssignment(c)
      PROVE  CallsTidy'
  <2>1. PICK d \in Drivers, v \in Vehicles, day \in BookableDays, t \in Targets :
          call' = [call EXCEPT ![c] =
                     [pc |-> "assign", row |-> Row(d, v, day, t, Manual)]]
    BY <1>6 DEF CreateAssignment
  <2>2. CallTidy([pc |-> "assign", row |-> Row(d, v, day, t, Manual)])
    BY InputsAssumption DEF CallTidy, Row
  <2> QED BY <1>2, <2>1, <2>2
<1>7. \/ call' = call \/ Crash
      \/ \E c \in Clients : RequestStep(c)
  BY DEF Next, vars, NextDay, GeneratorStep, ScanPlans, ReadPlanRows, ReadPaid,
         ReadCalendar, PlanTurn, CreateRows, CompletePlans
<1>8. ASSUME NEW c \in Clients, RequestStep(c), ~CreatePayment(c),
             ~ReadLedger(c), ~CreateAssignment(c)
      PROVE  CallsTidy'
  BY <1>1, <1>2, <1>8, WhoHolds
<1> QED BY <1>1, <1>3, <1>4, <1>5, <1>6, <1>7, <1>8

-----------------------------------------------------------------------------
(***************************************************************************)
(* The runs in flight: a turn makes rows of days its driver is free on,    *)
(* and no two plans of a run are of one vehicle.                           *)
(***************************************************************************)
LEMMA TurnTidy ==
  ASSUME IInv, Tidy, NEW g \in Runs, PlanTurn(g)
  PROVE  \E q : RunTidy(q) /\ run' = [run EXCEPT ![g] = q]
<1> DEFINE u == run[g]
<1>1. /\ u.pc = "plans" /\ RunFits(plans, u) /\ RunTidy(u) /\ g \in DOMAIN run
      /\ \A i \in DOMAIN u.plans : PlanFits(plans, i, u.plans[i])
      /\ u.todo \subseteq DOMAIN u.plans
  BY DEF PlanTurn, IInv, RunsOK, RunFits, Tidy, RunsTidy
<1> DEFINE create(new) == u.create \cup new
           taken(new) == u.taken \cup {<<r.driver, r.day>> : r \in new}
           next(p, new, completed) ==
             [pc |-> "plans", today |-> u.today, plans |-> u.plans,
              rows |-> u.rows, paid |-> u.paid, todo |-> u.todo \ {p},
              taken |-> taken(new), create |-> create(new),
              completed |-> completed]
<1> DEFINE After(p, new, completed) ==
             IF u.todo = {p} THEN Writes(create(new), completed)
             ELSE next(p, new, completed)
<1>2. PICK p \in u.todo : \E new \in {{}, Instalments(g, p)} : \E completed :
        run' = [run EXCEPT ![g] = After(p, new, completed)]
  <2>1. PICK p \in u.todo :
          LET new == IF FullyPaid(g, p) THEN {} ELSE Instalments(g, p)
              completed == u.completed \cup (IF FullyPaid(g, p) THEN {p} ELSE {})
          IN  run' = [run EXCEPT ![g] = After(p, new, completed)]
    BY <1>1 DEF PlanTurn
  <2> HIDE DEF After
  <2> QED BY <2>1
<1>2a. PICK new \in {{}, Instalments(g, p)} : \E completed :
        run' = [run EXCEPT ![g] = After(p, new, completed)]
  BY <1>2
<1>2b. PICK completed : run' = [run EXCEPT ![g] = After(p, new, completed)]
  BY <1>2a
<1>3. /\ u.today \in Int /\ Dated(u.rows) /\ Dated(u.create) /\ Apart(u.create)
      /\ MadeByTurns(u)
      /\ \A i, j \in DOMAIN u.plans : u.plans[i].vehicle = u.plans[j].vehicle => i = j
  BY <1>1 DEF RunTidy
<1>4. /\ Dated(new) /\ Apart(new)
      /\ \A r \in new : /\ r.plan = p /\ r.driver = u.plans[p].driver
                        /\ r.vehicle = u.plans[p].vehicle
                        /\ <<r.driver, r.day>> \notin u.taken
  <2>1. u.plans[p].start \in Int
    BY <1>1 DEF PlanFits, Plan
  <2>2. CASE new = {}
    BY <2>2, FS_EmptySet DEF Dated, Apart
  <2>3. CASE new = Instalments(g, p)
    BY <1>3, <2>1, <2>3, TurnMakes
  <2> QED BY <2>2, <2>3
<1> HIDE DEF u
<1>5. Dated(create(new))
  <2>1. IsFiniteSet(create(new))
    BY <1>3, <1>4, FS_Union DEF Dated
  <2> QED BY <1>3, <1>4, <2>1 DEF Dated
<1>6. Apart(create(new))
  <2>1. \A r \in u.create, s \in new : ~Clashes(r, s) /\ ~Clashes(s, r)
    <3> SUFFICES ASSUME NEW r \in u.create, NEW s \in new, r.day = s.day,
                        r.driver = s.driver \/ r.vehicle = s.vehicle
                 PROVE  FALSE
      BY DEF Clashes
    <3>1. /\ <<r.driver, r.day>> \in u.taken /\ r.plan \in DOMAIN u.plans
          /\ r.plan # p /\ r.vehicle = u.plans[r.plan].vehicle
      BY <1>2, <1>3 DEF MadeByTurns
    <3>2. r.driver # s.driver
      BY <1>4, <3>1
    <3>3. r.vehicle # s.vehicle
      BY <1>1, <1>2, <1>3, <1>4, <3>1
    <3> QED BY <3>2, <3>3
  <2> QED BY <1>3, <1>4, <2>1 DEF Apart
<1>7. \A r \in create(new) :
        /\ <<r.driver, r.day>> \in taken(new)
        /\ r.plan \in DOMAIN u.plans \ (u.todo \ {p})
        /\ r.vehicle = u.plans[r.plan].vehicle
  <2>1. \A r \in u.create :
          /\ <<r.driver, r.day>> \in u.taken
          /\ r.plan \in DOMAIN u.plans \ u.todo
          /\ r.vehicle = u.plans[r.plan].vehicle
    BY <1>3 DEF MadeByTurns
  <2>2. p \in DOMAIN u.plans /\ p \in u.todo
    BY <1>1, <1>2
  <2>3. \A r \in new : <<r.driver, r.day>> \in taken(new)
    OBVIOUS
  <2>4. \A r \in u.create : <<r.driver, r.day>> \in taken(new)
    BY <2>1
  <2> HIDE DEF taken
  <2>5. \A r \in new : r.plan = p /\ r.vehicle = u.plans[r.plan].vehicle
    BY <1>4
  <2> QED BY <2>1, <2>2, <2>3, <2>4, <2>5
<1> HIDE DEF create, taken
<1>8. RunTidy(next(p, new, completed))
  BY <1>3, <1>5, <1>6, <1>7 DEF RunTidy, MadeByTurns
<1>9. RunTidy(Writes(create(new), completed))
  BY <1>5, <1>6 DEF Writes, RunTidy, Idle
<1>10. \/ run' = [run EXCEPT ![g] = Writes(create(new), completed)]
       \/ run' = [run EXCEPT ![g] = next(p, new, completed)]
  BY <1>2b
<1> QED BY <1>8, <1>9, <1>10

LEMMA RunStepsTidy ==
  ASSUME IInv, Tidy, NEW g \in Runs, GeneratorStep(g)
  PROVE  \E q : RunTidy(q) /\ run' = [run EXCEPT ![g] = q]
<1>0. RunTidy(run[g]) /\ g \in DOMAIN run /\ today \in Int
  BY InputsAssumption DEF IInv, RunsOK, Tidy, RunsTidy, Days
<1>1. ASSUME ScanPlans(g)
      PROVE  \E q : RunTidy(q) /\ run' = [run EXCEPT ![g] = q]
  <2> DEFINE next == [pc |-> "readRows", today |-> today,
                      plans |-> [p \in ActivePlans |-> plans[p]]]
  <2>1. RunTidy(next)
    BY <1>0 DEF RunTidy, IInv, PlansOK, OneActivePlanPerVehicle
  <2>2. run' = [run EXCEPT ![g] = next]
    BY <1>1 DEF ScanPlans
  <2> QED BY <2>1, <2>2
<1>2. ASSUME ReadPlanRows(g)
      PROVE  \E q : RunTidy(q) /\ run' = [run EXCEPT ![g] = q]
  <2>1. PICK R \in SUBSET rows : run' = [run EXCEPT ![g] =
          [pc |-> "readPaid", today |-> run[g].today,
           plans |-> run[g].plans, rows |-> R]]
    BY <1>0, <1>2 DEF ReadPlanRows
  <2>2. Dated(R)
    BY FS_Subset DEF Tidy, RowsTidy, Dated
  <2>3. RunTidy([pc |-> "readPaid", today |-> run[g].today,
                 plans |-> run[g].plans, rows |-> R])
    BY <1>0, <1>2, <2>2 DEF ReadPlanRows, RunTidy
  <2> QED BY <2>1, <2>3
<1>3. ASSUME ReadPaid(g)
      PROVE  \E q : RunTidy(q) /\ run' = [run EXCEPT ![g] = q]
  <2>1. PICK paid : run' = [run EXCEPT ![g] =
          [pc |-> "readCalendar", today |-> run[g].today,
           plans |-> run[g].plans, rows |-> run[g].rows, paid |-> paid]]
    BY <1>0, <1>3 DEF ReadPaid
  <2>2. RunTidy([pc |-> "readCalendar", today |-> run[g].today,
                 plans |-> run[g].plans, rows |-> run[g].rows, paid |-> paid])
    BY <1>0, <1>3 DEF ReadPaid, RunTidy
  <2> QED BY <2>1, <2>2
<1>4. ASSUME ReadCalendar(g)
      PROVE  \E q : RunTidy(q) /\ run' = [run EXCEPT ![g] = q]
  <2>1. PICK taken : run' = [run EXCEPT ![g] =
          [pc |-> "plans", today |-> run[g].today,
           plans |-> run[g].plans, rows |-> run[g].rows,
           paid |-> run[g].paid, todo |-> DOMAIN run[g].plans,
           taken |-> taken, create |-> {}, completed |-> {}]]
    BY <1>0, <1>4 DEF ReadCalendar
  <2>2. Dated({}) /\ Apart({})
    BY FS_EmptySet DEF Dated, Apart
  <2>3. RunTidy([pc |-> "plans", today |-> run[g].today,
           plans |-> run[g].plans, rows |-> run[g].rows,
           paid |-> run[g].paid, todo |-> DOMAIN run[g].plans,
           taken |-> taken, create |-> {}, completed |-> {}])
    BY <1>0, <1>4, <2>2 DEF ReadCalendar, RunTidy, MadeByTurns
  <2> QED BY <2>1, <2>3
<1>5. ASSUME CreateRows(g)
      PROVE  \E q : RunTidy(q) /\ run' = [run EXCEPT ![g] = q]
  <2>1. \A completed : RunTidy(Writes({}, completed))
    BY DEF Writes, RunTidy, Idle
  <2> QED BY <1>0, <1>5, <2>1 DEF CreateRows
<1>6. ASSUME CompletePlans(g)
      PROVE  \E q : RunTidy(q) /\ run' = [run EXCEPT ![g] = q]
  <2>1. RunTidy(Idle)
    BY DEF RunTidy, Idle
  <2> QED BY <1>6, <2>1 DEF CompletePlans
<1> QED BY <1>1, <1>2, <1>3, <1>4, <1>5, <1>6, TurnTidy DEF GeneratorStep

LEMMA RunsTidyKept ==
  ASSUME IInv, Tidy, [Next]_vars
  PROVE  RunsTidy'
<1>0. RunsTidy /\ DOMAIN run = Runs
  BY DEF Tidy, IInv, RunsOK
<1>1. CASE run' = run
  BY <1>0, <1>1 DEF RunsTidy
<1>2. ASSUME NEW g \in Runs, NEW q, RunTidy(q), run' = [run EXCEPT ![g] = q]
      PROVE  RunsTidy'
  BY <1>0, <1>2 DEF RunsTidy
<1>3. CASE Crash
  BY <1>3 DEF Crash, RunsTidy, RunTidy, Idle
<1>4. run' = run \/ Crash \/ \E g \in Runs : GeneratorStep(g)
  BY DEF Next, vars, NextDay, RequestStep, PaymentStep, CreatePayment,
     ReadLedger, InsertPayments, ReconcilePayment, ReconcileDeposit,
     SettlePayment, AssignmentStep, CreateAssignment, InsertAssignment,
     DeleteAssignment, PlanStep, CreatePlan, InsertPlan, InsertDepositRow,
     PayDeposit, UpdatePlan, WriteStatus, WriteTerms
<1> QED BY <1>1, <1>2, <1>3, <1>4, RunStepsTidy

LEMMA NextKeepsTidy == IInv /\ Tidy /\ [Next]_vars => Tidy'
BY RowsTidyKept, PaymentsTidyKept, CallsTidyKept, RunsTidyKept DEF Tidy

(* No driver and no vehicle ever has two assignments on one day: the index *)
(* sees to single inserts, and the rows of one createMany are made apart   *)
(* by the run, through the days it takes as it goes from plan to plan.     *)
THEOREM DaysAreSingle == Spec => [](\A r, q \in rows : Clashes(r, q) => r = q)
<1>1. Tidy => \A r, q \in rows : Clashes(r, q) => r = q
  BY DEF Tidy, RowsTidy, Apart
<1> QED BY <1>1, InitFits, InitTidy, NextKeepsIInv, NextKeepsTidy, PTL DEF Spec

(* Each payment has a number of its own, also those of one transaction.    *)
THEOREM PaymentsAreNumbered ==
  Spec => [](\A x, y \in payments : x.id = y.id => x = y)
<1>1. Tidy => \A x, y \in payments : x.id = y.id => x = y
  BY DEF Tidy, PaymentsTidy
<1> QED BY <1>1, InitFits, InitTidy, NextKeepsIInv, NextKeepsTidy, PTL DEF Spec

=============================================================================
