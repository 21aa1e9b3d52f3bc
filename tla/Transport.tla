------------------------------ MODULE Transport -----------------------------
(***************************************************************************)
(* The transport side of the backend: the office works on jobs, claims and *)
(* bank statements while drivers report progress, submit claims and upload *)
(* receipts and delivery photos.  Every request may stand still at every   *)
(* await, and the server may stop at any moment.                           *)
(***************************************************************************)
EXTENDS TransportService, ExpenseService, Uploads, TransportReconciliation,
        FiniteSetsExt

Init ==
  /\ jobs = <<>> /\ expenses = <<>>
  /\ matches = {} /\ files = {}
  /\ made = [jobs |-> 0, expenses |-> 0, files |-> 0, matches |-> 0]
  /\ call = [c \in Clients |-> Idle]
  /\ duties \in Shifts

(* What the office and the phones may begin, and how a request goes on.    *)
OfficeStep(c) == JobStep(c) \/ ExpenseDeskStep(c) \/ StatementStep(c)
PhoneStep(c) == DriveStep(c) \/ ClaimStep(c) \/ UploadStart(c)
GoOn(c) == JobWrite(c) \/ ExpenseWrite(c) \/ UploadStep(c) \/ StatementWrite(c)

(* The server stops: tables and files stay, the requests are gone.         *)
Crash ==
  /\ Busy # {}
  /\ call' = [c \in Clients |-> Idle]
  /\ UNCHANGED tables

Next ==
  /\ \/ \E c \in Office : OfficeStep(c)
     \/ \E c \in Phones : PhoneStep(c)
     \/ \E c \in Clients : GoOn(c)
     \/ Crash
  /\ UNCHANGED duties

Spec == Init /\ [][Next]_vars

-----------------------------------------------------------------------------
(* The rows as the schema types them.                                      *)
JobRow ==
  [driver : Drivers \cup {NoDriver}, status : JobStatus,
   pickedUp : BOOLEAN, delivered : BOOLEAN, received : Nat, file : Nat]
ExpenseRow ==
  [job : Nat, rider : Drivers \cup {NoDriver}, amount : Amounts,
   status : ExpenseStatus, by : Managers \cup {Nobody}, file : Nat]
Change ==
  [status : JobStatus \cup {Kept}, pickedUp : BOOLEAN, delivered : BOOLEAN]

(***************************************************************************)
(* The requests in flight, by where they stand.  Ids and files are handed  *)
(* out in order, and a request knows only what was handed out.             *)
(***************************************************************************)
JobsMade == 1..made.jobs
ExpensesMade == 1..made.expenses
FilesMade == 1..made.files
RowOK(row) ==
  \/ \E j \in JobsMade : row = Row("jobs", j)
  \/ \E e \in ExpensesMade : row = Row("expenses", e)

ChosenOK(chosen) ==
  /\ DOMAIN chosen \subseteq RowNumbers
  /\ \A i \in DOMAIN chosen :
       chosen[i].row \in RowNumbers /\ chosen[i].job \in JobsMade

States ==
  {"idle", "writeJob", "deleteJob", "insertExpense", "findScheduled", "decide",
   "edit", "remove", "writeFile", "attach", "unlink", "commit", "credit"}
RequestOK(w) ==
  /\ w.pc \in States
  /\ w.pc \in {"writeJob", "deleteJob"} => w.job \in JobsMade
  /\ w.pc = "writeJob" =>
       w.change \in Change /\ w.driver \in Drivers \cup {NoDriver, Kept}
  /\ w.pc = "insertExpense" =>
       w.expense \in ExpenseRow /\ w.expense.file = NoFile
  /\ w.pc = "findScheduled" => w.driver \in Drivers /\ w.amount \in Amounts
  /\ w.pc \in {"decide", "edit", "remove"} => w.id \in ExpensesMade
  /\ w.pc = "decide" =>
       w.by \in Managers /\ w.status \in {"APPROVED", "REJECTED"}
  /\ w.pc = "edit" => w.amount \in Amounts
  /\ w.pc \in {"writeFile", "attach"} =>
       RowOK(w.row) /\ w.old \in FilesMade \cup {NoFile}
  /\ w.pc \in {"attach", "unlink"} => w.file \in FilesMade \cup {NoFile}
  /\ w.pc = "credit" =>
       \A j \in DOMAIN w.received :
         w.received[j] \in Nat /\ RowsFor(w, j) # {}
  /\ w.pc \in {"commit", "credit"} => ChosenOK(w.chosen)

TypeOK ==
  /\ made \in [jobs : Nat, expenses : Nat, files : Nat, matches : Nat]
  /\ JobIds \subseteq JobsMade /\ jobs \in [JobIds -> JobRow]
  /\ ExpenseIds \subseteq ExpensesMade
  /\ expenses \in [ExpenseIds -> ExpenseRow]
  /\ files \subseteq FilesMade
  /\ DOMAIN call = Clients /\ \A c \in Clients : RequestOK(call[c])
  /\ duties \in Shifts

(***************************************************************************)
(* A job is never shown as under way or delivered without the moment it    *)
(* was: the journey, its distance and its duration are computed from the   *)
(* two stamps.  Office and driver may each write from a stale reading.     *)
(***************************************************************************)
MilestonesAreStamped ==
  \A j \in JobIds :
    /\ jobs[j].status = "IN_TRANSIT" => jobs[j].pickedUp
    /\ jobs[j].status = "DELIVERED" => jobs[j].delivered

(***************************************************************************)
(* A receipt or photo that a row names can be opened, whichever uploads    *)
(* replace one another, the row disappears or the server stops meanwhile.  *)
(***************************************************************************)
FilesOnDisk == \A row \in Rows : FileOf(row) \in files \cup {NoFile}

(***************************************************************************)
(* Every shilling a job has received is justified by a recorded match:     *)
(* commits that overlap may lose an increment, never invent one.           *)
(***************************************************************************)
ReceivedIsBackedByMatches ==
  \A j \in JobIds :
    jobs[j].received <= MapThenSumSet(LAMBDA m : m.amount, MatchesOf(j))

(* ... and, when no row is lost, equal to their sum (schema.prisma).       *)
ReceivedIsTheSumOfMatches ==
  \A j \in JobIds :
    jobs[j].received = MapThenSumSet(LAMBDA m : m.amount, MatchesOf(j))
=============================================================================
