--------------------------- MODULE ExpenseService ---------------------------
(***************************************************************************)
(* expense.service.ts: the office's own expenses, the drivers' claims and  *)
(* the decisions on them.                                                  *)
(***************************************************************************)
EXTENDS TransportTables

Inserting(e) == [pc |-> "insertExpense", expense |-> e]

(* POST /expenses: APPROVED by default, the office is the approver.        *)
CreateExpense(c) ==
  /\ "expense" \in duties[c]
  /\ Free(c)
  /\ \E j \in JobIds \cup {NoJob}, a \in Amounts :
       Suspend(c, Inserting(Expense(j, NoDriver, a, "APPROVED")))
  /\ UNCHANGED tables

(***************************************************************************)
(* POST /expenses/submissions: a rider's claim for a day they had an       *)
(* assignment, which this module does not hold; it is tied to no job.      *)
(***************************************************************************)
Submit(c) ==
  /\ "submit" \in duties[c]
  /\ Free(c)
  /\ \E d \in Drivers, a \in Amounts :
       Suspend(c, Inserting(Expense(NoJob, d, a, "PENDING")))
  /\ UNCHANGED tables

(***************************************************************************)
(* POST /expenses/job-submissions: resolveCurrentJobForDriver first looks  *)
(* for the job under way, and in a second statement for the next one.      *)
(***************************************************************************)
InStatus(d, s) == {j \in JobIds : jobs[j].driver = d /\ jobs[j].status = s}
Soonest(J) == CHOOSE j \in J : \A k \in J : j <= k

SubmitForJob(c) ==
  /\ "submit" \in duties[c]
  /\ Free(c)
  /\ \E d \in Drivers, a \in Amounts :
       \/ \E j \in JobIds :
            /\ InStatus(d, "IN_TRANSIT") = {j}
            /\ Suspend(c, Inserting(Expense(j, d, a, "PENDING")))
       \/ /\ InStatus(d, "IN_TRANSIT") = {}
          /\ Suspend(c, [pc |-> "findScheduled", driver |-> d, amount |-> a])
  /\ UNCHANGED tables

FindScheduled(c) ==
  /\ call[c].pc = "findScheduled"
  /\ LET d == call[c].driver
         next == InStatus(d, "SCHEDULED")
     IN  IF next = {}
         THEN Answer(c)
         ELSE Suspend(c, Inserting(
                Expense(Soonest(next), d, call[c].amount, "PENDING")))
  /\ UNCHANGED tables

(* The insert; the foreign key refuses a job that was deleted since.       *)
InsertExpense(c) ==
  /\ call[c].pc = "insertExpense"
  /\ made.expenses < MaxExpenses
  /\ IF call[c].expense.job \in JobIds \cup {NoJob}
     THEN /\ expenses' = With(expenses, made.expenses + 1, call[c].expense)
          /\ made' = [made EXCEPT !.expenses = @ + 1]
     ELSE UNCHANGED <<expenses, made>>
  /\ Answer(c)
  /\ UNCHANGED <<jobs, matches, files>>

(***************************************************************************)
(* POST /expenses/:id/approve and /reject: from PENDING only.              *)
(***************************************************************************)
Undecided(e) == expenses[e].status = "PENDING"

Decide(c) ==
  /\ "decide" \in duties[c]
  /\ Free(c)
  /\ \E e \in ExpenseIds, m \in Managers, s \in {"APPROVED", "REJECTED"} :
       /\ Undecided(e)
       /\ Suspend(c, [pc |-> "decide", id |-> e, by |-> m, status |-> s])
  /\ UNCHANGED tables

WriteDecision(c) ==
  /\ call[c].pc = "decide"
  /\ LET w == call[c]
     IN  IF w.id \in ExpenseIds
         THEN expenses' = [expenses EXCEPT ![w.id] =
                             [@ EXCEPT !.status = w.status, !.by = w.by]]
         ELSE UNCHANGED expenses
  /\ Answer(c)
  /\ UNCHANGED <<jobs, matches, files, made>>

(***************************************************************************)
(* PATCH and DELETE /expenses/:id: anything but an approved expense.       *)
(***************************************************************************)
NotApproved(e) == expenses[e].status # "APPROVED"

EditExpense(c) ==
  /\ "edit" \in duties[c]
  /\ Free(c)
  /\ \E e \in ExpenseIds, a \in Amounts :
       NotApproved(e) /\ Suspend(c, [pc |-> "edit", id |-> e, amount |-> a])
  /\ UNCHANGED tables

WriteEdit(c) ==
  /\ call[c].pc = "edit"
  /\ LET w == call[c]
     IN  IF w.id \in ExpenseIds
         THEN expenses' = [expenses EXCEPT ![w.id].amount = w.amount]
         ELSE UNCHANGED expenses
  /\ Answer(c)
  /\ UNCHANGED <<jobs, matches, files, made>>

RemoveExpense(c) ==
  /\ "edit" \in duties[c]
  /\ Free(c)
  /\ \E e \in ExpenseIds :
       NotApproved(e) /\ Suspend(c, [pc |-> "remove", id |-> e])
  /\ UNCHANGED tables

EraseExpense(c) ==
  /\ call[c].pc = "remove"
  /\ expenses' = Without(expenses, call[c].id)
  /\ Answer(c)
  /\ UNCHANGED <<jobs, matches, files, made>>

ClaimStep(c) == Submit(c) \/ SubmitForJob(c)
ExpenseDeskStep(c) ==
  CreateExpense(c) \/ Decide(c) \/ EditExpense(c) \/ RemoveExpense(c)
ExpenseWrite(c) ==
  \/ FindScheduled(c) \/ InsertExpense(c) \/ WriteDecision(c)
  \/ WriteEdit(c) \/ EraseExpense(c)
=============================================================================
