-------------------------- MODULE TransportTables ---------------------------
(***************************************************************************)
(* The transport side of one tenant's database: transport_jobs, expenses   *)
(* and transport_payment_matches, the uploads directory next to it, and    *)
(* the requests in flight against them.  As in PlanTables, every awaited   *)
(* Prisma or file call is a step of its own.                               *)
(***************************************************************************)
EXTENDS Integers, Sequences, FiniteSets

CONSTANTS
  Drivers,              \* riders with a driver profile
  Managers,             \* owners and managers
  Office,               \* requests of owners and managers in flight together
  Phones,               \* requests of drivers in flight together
  Amounts,              \* expense amounts
  Statement,            \* the bank statement: the amounts of its rows
  Shifts,               \* for each slot, the operations it may be used for
  MaxTogether,          \* bound: requests in flight together
  MaxJobs,              \* bound: jobs ever created
  MaxExpenses,          \* bound: expenses ever created
  MaxFiles,             \* bound: files ever written
  MaxMatches            \* bound: statement rows before a new statement is opened

VARIABLES
  jobs,         \* transport_jobs by id; ids grow with the scheduled date
  expenses,     \* expenses by id
  matches,      \* transport_payment_matches
  files,        \* the files on disk
  made,         \* how many rows and files were ever made
  call,         \* call[c]: the request in flight in slot c
  duties        \* the shift of this behaviour

tables == <<jobs, expenses, matches, files, made>>
vars == <<jobs, expenses, matches, files, made, call, duties>>

Clients == Office \cup Phones

NoDriver == "no driver"     \* driverId is null: an owner-driven job
NoJob == 0                  \* transportJobId is null
NoFile == 0                 \* no storage key
Nobody == "nobody"          \* approvedByUserId is null
Kept == "kept"              \* a field the PATCH body leaves out

JobStatus == {"SCHEDULED", "IN_TRANSIT", "DELIVERED", "CANCELLED"}
ExpenseStatus == {"PENDING", "APPROVED", "REJECTED"}

ASSUME AmountsAssumption ==
  Amounts \subseteq Nat \ {0}
ASSUME PeopleAssumption ==
  {NoDriver, Kept} \cap Drivers = {} /\ Nobody \notin Managers

ASSUME StatementAssumption ==
  Statement \in Seq(Nat)
ASSUME ShiftsAssumption ==
  \A s \in Shifts : DOMAIN s = Clients

(* A row as it is created: no file, nothing received, nothing stamped.     *)
Job(driver) ==
  [driver |-> driver, status |-> "SCHEDULED", pickedUp |-> FALSE,
   delivered |-> FALSE, received |-> 0, file |-> NoFile]
Expense(job, rider, amount, status) ==
  [job |-> job, rider |-> rider, amount |-> amount, status |-> status,
   by |-> Nobody, file |-> NoFile]

JobIds == DOMAIN jobs
ExpenseIds == DOMAIN expenses
ExpensesOf(j) == {e \in ExpenseIds : expenses[e].job = j}
MatchesOf(j) == {m \in matches : m.job = j}

Without(f, x) == [y \in DOMAIN f \ {x} |-> f[y]]
With(f, x, v) == [y \in DOMAIN f \cup {x} |-> IF y = x THEN v ELSE f[y]]

Idle == [pc |-> "idle"]
Busy == {c \in Clients : call[c].pc # "idle"}
Free(c) == c \notin Busy /\ Cardinality(Busy) < MaxTogether
Answer(c) == call' = [call EXCEPT ![c] = Idle]
Suspend(c, r) == call' = [call EXCEPT ![c] = r]

(***************************************************************************)
(* An upload belongs to a row of one of the two tables.                    *)
(***************************************************************************)
Row(t, id) == [table |-> t, id |-> id]
Stored(row) ==
  IF row.table = "jobs" THEN row.id \in JobIds ELSE row.id \in ExpenseIds
FileOf(row) ==
  IF row.table = "jobs" THEN jobs[row.id].file ELSE expenses[row.id].file
Rows == {Row("jobs", j) : j \in JobIds} \cup
        {Row("expenses", e) : e \in ExpenseIds}
=============================================================================
