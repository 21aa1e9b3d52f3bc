------------------------ MODULE OwnershipPlanService ------------------------
(***************************************************************************)
(* ownership-plan.service.ts: creating a plan, with the deposit that is    *)
(* allocated right after, and the owner's edits of it.                     *)
(***************************************************************************)
EXTENDS PaymentService

PlanFrom(offer, driver, vehicle) ==
  [driver |-> driver, vehicle |-> vehicle, daily |-> offer.daily,
   count |-> offer.count, down |-> offer.down, handling |-> offer.handling,
   start |-> offer.start, weekdays |-> offer.weekdays, status |-> "ACTIVE"]

(***************************************************************************)
(* POST /ownership-plans, the reads: neither the driver nor the vehicle is *)
(* on an ACTIVE plan.                                                      *)
(***************************************************************************)
DriverFree(driver) == \A p \in ActivePlans : plans[p].driver # driver
VehicleFree(vehicle) == \A p \in ActivePlans : plans[p].vehicle # vehicle

CreatePlan(c) ==
  /\ "plan" \in Operations
  /\ call[c].pc = "idle"
  /\ Len(plans) < MaxPlans
  /\ \E d \in Drivers, v \in Vehicles, offer \in Offers :
       /\ DriverFree(d)
       /\ VehicleFree(v)
       /\ call' = [call EXCEPT ![c] =
            [pc |-> "planInsert", plan |-> PlanFrom(offer, d, v)]]
  /\ UNCHANGED <<tables, today, run>>

(* The partial unique index on (tenant, vehicle) of the ACTIVE plans.      *)
IndexAdmits_SameDriverOnly(plan) ==
  \A p \in ActivePlans :
     ~(plans[p].vehicle = plan.vehicle /\ plans[p].driver = plan.driver)
IndexAdmits(plan) == VehicleFree(plan.vehicle)

DepositDue(plan) == plan.handling = "APPLIED" /\ plan.down > 0

InsertPlan(c) ==
  /\ call[c].pc = "planInsert"
  /\ LET plan == call[c].plan
     IN  IF IndexAdmits(plan)
           THEN /\ plans' = Append(plans, plan)
                /\ IF DepositDue(plan)
                     THEN call' = [call EXCEPT ![c] =
                            [pc |-> "depositRow", id |-> Len(plans) + 1,
                             plan |-> plan]]
                     ELSE Answer(c)
           ELSE Answer(c) /\ UNCHANGED plans
  /\ UNCHANGED <<rows, payments, deletions, today, run>>

-----------------------------------------------------------------------------
(* allocateAppliedDeposit works on the plan as it was inserted.            *)
FirstActiveDay(plan) ==
  Min({d \in plan.start..(plan.start + 6) : ActiveOn(plan.weekdays, d)})

DepositRow_OfTheNewestPlan(p, plan) ==
  Row(plan.driver, plan.vehicle, FirstActiveDay(plan),
      Lesser(plan.daily, Owed(plan)), Len(plans))
DepositRow(p, plan) ==
  Row(plan.driver, plan.vehicle, FirstActiveDay(plan),
      Lesser(plan.daily, Owed(plan)), p)

(* The plan's first instalment; a day that is taken ends the request.      *)
InsertDepositRow(c) ==
  /\ call[c].pc = "depositRow"
  /\ LET plan == call[c].plan
         r == DepositRow(call[c].id, plan)
     IN  IF Insertable(r)
           THEN /\ rows' = rows \cup {r}
                /\ call' = [call EXCEPT ![c] =
                     [pc |-> "depositPay", row |-> r, down |-> plan.down]]
           ELSE Answer(c) /\ UNCHANGED rows
  /\ UNCHANGED <<plans, payments, deletions, today, run>>

(* createPayment on it, with confirmLargeAmount: its reads up to the plan. *)
PayDeposit(c) ==
  /\ call[c].pc = "depositPay"
  /\ LET r == call[c].row
     IN  IF r \in rows
           THEN call' = [call EXCEPT ![c] =
                  PlanPayment(r, call[c].down, TRUE)]
           ELSE Answer(c)
  /\ UNCHANGED <<tables, today, run>>

-----------------------------------------------------------------------------
(***************************************************************************)
(* PATCH /ownership-plans/:id.  Only an ACTIVE plan may change status, and *)
(* never back to ACTIVE; the terms may be edited at any time.              *)
(***************************************************************************)
Transition_ToAnything(plan, to) == plan.status = "ACTIVE"
Transition(plan, to) == plan.status = "ACTIVE" /\ to # "ACTIVE"

UpdatePlan(c) ==
  /\ "update" \in Operations
  /\ call[c].pc = "idle"
  /\ \E p \in DOMAIN plans :
       \/ \E to \in Closings :
            /\ Transition(plans[p], to)
            /\ call' = [call EXCEPT ![c] =
                 [pc |-> "updateStatus", plan |-> p, to |-> to]]
       \/ \E edit \in Edits :
            call' = [call EXCEPT ![c] =
              [pc |-> "updateTerms", plan |-> p, terms |-> edit]]
  /\ UNCHANGED <<tables, today, run>>

(* The write, by id.                                                       *)
WriteStatus(c) ==
  /\ call[c].pc = "updateStatus"
  /\ plans' = [plans EXCEPT ![call[c].plan].status = call[c].to]
  /\ Answer(c)
  /\ UNCHANGED <<rows, payments, deletions, today, run>>

WriteTerms(c) ==
  /\ call[c].pc = "updateTerms"
  /\ plans' = [plans EXCEPT ![call[c].plan] =
       [@ EXCEPT !.daily = call[c].terms.daily,
                 !.count = call[c].terms.count,
                 !.weekdays = call[c].terms.weekdays]]
  /\ Answer(c)
  /\ UNCHANGED <<rows, payments, deletions, today, run>>

PlanStep(c) ==
  \/ CreatePlan(c) \/ InsertPlan(c) \/ InsertDepositRow(c) \/ PayDeposit(c)
  \/ UpdatePlan(c) \/ WriteStatus(c) \/ WriteTerms(c)
=============================================================================
