----------------------- MODULE OwnershipPlanGenerator -----------------------
(***************************************************************************)
(* ownership-plan-generator.service.ts for one tenant: the nightly job and *)
(* POST /ownership-plans/generate are the same run.  Four reads, the plan  *)
(* loop in memory, then two writes, none of them in a transaction.         *)
(***************************************************************************)
EXTENDS PlanTables

RemainingToOwn(terms, paid) == Owed(terms) - paid
RemainingToBill(terms, billed) == Owed(terms) - billed

WindowStart(day) == day - Lookback

(***************************************************************************)
(* Read 1: the ACTIVE plans, with the terms the run will use throughout.   *)
(* With none the run is over.                                              *)
(***************************************************************************)
ScanPlans(g) ==
  /\ "generate" \in Operations
  /\ run[g].pc = "idle"
  /\ ActivePlans # {}
  /\ run' = [run EXCEPT ![g] =
       [pc |-> "readRows", today |-> today,
        plans |-> [p \in ActivePlans |-> plans[p]]]]
  /\ UNCHANGED <<tables, today, call>>

(* Read 2: every assignment ever made for these plans.                     *)
ReadPlanRows(g) ==
  /\ run[g].pc = "readRows"
  /\ run' = [run EXCEPT ![g] =
       [pc |-> "readPaid", today |-> @.today, plans |-> @.plans,
        rows |-> {r \in rows : r.plan \in DOMAIN run[g].plans}]]
  /\ UNCHANGED <<tables, today, call>>

RowsRead(g, p) == {r \in run[g].rows : r.plan = p}

(* Read 3: what is COMPLETED against exactly those assignments.            *)
CountedAsPaid_WithPending == {"PENDING", "COMPLETED"}
CountedAsPaid == {"COMPLETED"}
ReadPaid(g) ==
  /\ run[g].pc = "readPaid"
  /\ run' = [run EXCEPT ![g] =
       [pc |-> "readCalendar", today |-> @.today, plans |-> @.plans,
        rows |-> @.rows,
        paid |-> [p \in DOMAIN @.plans |->
                    SumAmounts(PaymentsOn(RowsRead(g, p), CountedAsPaid))]]]
  /\ UNCHANGED <<tables, today, call>>

(* Read 4: every assignment of these drivers within the window.            *)
ReadCalendar(g) ==
  /\ run[g].pc = "readCalendar"
  /\ LET drivers == {run[g].plans[p].driver : p \in DOMAIN run[g].plans}
     IN  run' = [run EXCEPT ![g] =
           [pc |-> "plans", today |-> @.today, plans |-> @.plans,
            rows |-> @.rows, paid |-> @.paid,
            todo |-> DOMAIN @.plans,
            taken |-> {<<r.driver, r.day>> :
                         r \in {q \in rows :
                                  /\ q.driver \in drivers
                                  /\ q.day \in WindowStart(@.today)..@.today}},
            create |-> {}, completed |-> {}]]
  /\ UNCHANGED <<tables, today, call>>

-----------------------------------------------------------------------------
(***************************************************************************)
(* One turn of the loop over the plans.  The loop touches nothing but the  *)
(* run's own memory; the query orders the plans in no particular way.      *)
(***************************************************************************)
FullyPaid_Overpaid(g, p) ==
  RemainingToOwn(run[g].plans[p], run[g].paid[p]) < 0
FullyPaid(g, p) == RemainingToOwn(run[g].plans[p], run[g].paid[p]) <= 0

(* The day after the plan's latest row, or the day its schedule starts.    *)
NaturalStart_SkipsADay(g, p) ==
  IF RowsRead(g, p) = {} THEN run[g].plans[p].start
  ELSE Max({r.day : r \in RowsRead(g, p)}) + 2
NaturalStart(g, p) ==
  IF RowsRead(g, p) = {} THEN run[g].plans[p].start
  ELSE Max({r.day : r \in RowsRead(g, p)}) + 1

BackfillStart(g, p) == Max({NaturalStart(g, p), WindowStart(run[g].today)})

(* Active days of the backfill that the driver has no assignment on.       *)
OpenDays(g, p) ==
  {d \in BackfillStart(g, p)..run[g].today :
     /\ ActiveOn(run[g].plans[p].weekdays, d)
     /\ <<run[g].plans[p].driver, d>> \notin run[g].taken}

(* What is left to bill when the loop comes to day d, all open days before *)
(* it having been billed a full instalment.                                *)
LeftToBill(g, p, d) ==
  RemainingToBill(run[g].plans[p], SumTargets(RowsRead(g, p)))
    - run[g].plans[p].daily * Cardinality({e \in OpenDays(g, p) : e < d})

(* buildInstalmentRow                                                      *)
InstalmentRow(p, terms, day, left) ==
  Row(terms.driver, terms.vehicle, day, Lesser(terms.daily, left), p)

Instalments(g, p) ==
  {InstalmentRow(p, run[g].plans[p], d, LeftToBill(g, p, d)) :
     d \in {e \in OpenDays(g, p) : LeftToBill(g, p, e) > 0}}

(* The writes that are left to do: each is skipped when it has no data.    *)
Writes(create, completed) ==
  IF create # {} THEN
    [pc |-> "create", create |-> create, completed |-> completed]
  ELSE IF completed # {} THEN [pc |-> "complete", completed |-> completed]
  ELSE Idle

PlanTurn(g) ==
  /\ run[g].pc = "plans"
  /\ \E p \in run[g].todo :
       LET new == IF FullyPaid(g, p) THEN {} ELSE Instalments(g, p)
           create == run[g].create \cup new
           completed == run[g].completed
                          \cup (IF FullyPaid(g, p) THEN {p} ELSE {})
       IN  run' = [run EXCEPT ![g] =
             IF @.todo = {p} THEN Writes(create, completed)
             ELSE [pc |-> "plans", today |-> @.today, plans |-> @.plans,
                   rows |-> @.rows, paid |-> @.paid, todo |-> @.todo \ {p},
                   taken |-> @.taken \cup {<<r.driver, r.day>> : r \in new},
                   create |-> create, completed |-> completed]]
  /\ UNCHANGED <<tables, today, call>>

-----------------------------------------------------------------------------
(* createMany with skipDuplicates: rows that clash with one in the table   *)
(* are left out, the others are inserted, in one statement.                *)
Created(g) ==
  {Stamped(r) : r \in {q \in run[g].create : Insertable(q)}}

CreateRows(g) ==
  /\ run[g].pc = "create"
  /\ rows' = rows \cup Created(g)
  /\ run' = [run EXCEPT ![g] = Writes({}, @.completed)]
  /\ UNCHANGED <<plans, payments, deletions, today, call>>

(* updateMany by id: the statement does not ask what the status is by now. *)
CompletePlans(g) ==
  /\ run[g].pc = "complete"
  /\ plans' = [p \in DOMAIN plans |->
       IF p \in run[g].completed THEN [plans[p] EXCEPT !.status = "COMPLETED"]
       ELSE plans[p]]
  /\ run' = [run EXCEPT ![g] = Idle]
  /\ UNCHANGED <<rows, payments, deletions, today, call>>

GeneratorStep(g) ==
  \/ ScanPlans(g) \/ ReadPlanRows(g) \/ ReadPaid(g) \/ ReadCalendar(g)
  \/ PlanTurn(g) \/ CreateRows(g) \/ CompletePlans(g)
=============================================================================
