--------------------------- MODULE TransportProofs --------------------------
(***************************************************************************)
(* Theorems about Transport, for any staff, drivers, requests in flight    *)
(* and bank statement, and behaviours of any length, crashes included.     *)
(***************************************************************************)
EXTENDS Transport, ProofLemmas, TLAPS

(* How a step leaves the slots: slot c goes on with r, or all are emptied. *)
GoesOn(c, r) == call' = [call EXCEPT ![c] = r]

(* Ids handed out stay handed out.                                         *)
MadeGrows ==
  /\ made' \in [jobs : Nat, expenses : Nat, files : Nat, matches : Nat]
  /\ made'.jobs >= made.jobs /\ made'.expenses >= made.expenses
  /\ made'.files >= made.files

LEMMA RequestsStayOK ==
  ASSUME TypeOK, MadeGrows
  PROVE  \A w : RequestOK(w) => RequestOK(w)'
<1>1. /\ JobsMade \subseteq JobsMade' /\ ExpensesMade \subseteq ExpensesMade'
      /\ FilesMade \subseteq FilesMade'
  BY DEF TypeOK, MadeGrows, JobsMade, ExpensesMade, FilesMade
<1>2. \A row : RowOK(row) => RowOK(row)'
  BY <1>1 DEF RowOK
<1>3. \A chosen : ChosenOK(chosen) => ChosenOK(chosen)'
  BY <1>1 DEF ChosenOK
<1> QED BY <1>1, <1>2, <1>3 DEF RequestOK

LEMMA IdleIsOK == RequestOK(Idle)
BY DEF RequestOK, Idle, States

(* What a step has to show of the slots.                                   *)
LEMMA SlotsStayOK ==
  ASSUME TypeOK, MadeGrows, NEW c \in Clients, NEW r,
         GoesOn(c, r), RequestOK(r)'
  PROVE  DOMAIN call' = Clients /\ \A d \in Clients : RequestOK(call[d])'
BY RequestsStayOK DEF TypeOK, GoesOn

LEMMA NothingMade ==
  ASSUME TypeOK, made' = made
  PROVE  MadeGrows
BY DEF TypeOK, MadeGrows

(* A request that only read: the tables are as they were.                  *)
LEMMA ReadingKeepsTypes ==
  ASSUME TypeOK, UNCHANGED tables, UNCHANGED duties,
         NEW c \in Clients, NEW r, GoesOn(c, r), RequestOK(r)
  PROVE  TypeOK'
<1>1. MadeGrows
  BY NothingMade DEF tables
<1>2. RequestOK(r)'
  BY <1>1, RequestsStayOK
<1>3. DOMAIN call' = Clients /\ \A d \in Clients : RequestOK(call[d])'
  BY <1>1, <1>2, SlotsStayOK
<1> QED BY <1>3 DEF TypeOK, tables, JobIds, ExpenseIds, JobsMade,
             ExpensesMade, FilesMade

-----------------------------------------------------------------------------
(* A non-empty set of ids has a last member.                               *)
LEMMA LastExists ==
  ASSUME NEW n \in Nat, NEW S \in SUBSET (1..n), S # {}
  PROVE  \E x \in S : \A y \in S : y <= x
<1>1. \A m \in 1..n : m \in Nat /\ m <= n
  OBVIOUS
<1>2. S \subseteq Nat /\ \A m \in S : m <= n
  BY <1>1
<1> QED BY <1>2, Greatest

(* The next scheduled job of a driver is one of theirs.                    *)
LEMMA SoonestIsOne ==
  ASSUME NEW J \in SUBSET Nat, J # {}
  PROVE  Soonest(J) \in J
BY Least DEF Soonest

(* A statement is a list of amounts.                                       *)
LEMMA StatementRows ==
  /\ Len(Statement) \in Nat /\ RowNumbers = 1..Len(Statement)
  /\ \A r \in RowNumbers : Statement[r] \in Nat
BY StatementAssumption DEF RowNumbers

(* The row that decides what a job is credited with is one of the job's.   *)
LEMMA LastRow ==
  ASSUME NEW w, NEW j, RowsFor(w, j) # {}, ChosenOK(w.chosen)
  PROVE  LastOf(RowsFor(w, j)) \in RowsFor(w, j)
<1>1. RowsFor(w, j) \in SUBSET (1..Len(Statement)) /\ Len(Statement) \in Nat
  BY StatementRows DEF RowsFor, ChosenOK
<1> QED BY <1>1, LastExists DEF LastOf

(* The total commit writes for a job is a natural number.                  *)
LEMMA CreditIsNat ==
  ASSUME NEW w, NEW j, RowsFor(w, j) # {}, w.received[j] \in Nat,
         ChosenOK(w.chosen)
  PROVE  Credit(w, j) \in Nat
<1>1. LastOf(RowsFor(w, j)) \in RowsFor(w, j)
  BY LastRow
<1>2. AmountOf(w, LastOf(RowsFor(w, j))) \in Nat
  BY <1>1, StatementRows DEF RowsFor, AmountOf, ChosenOK
<1> QED BY <1>2 DEF Credit
-----------------------------------------------------------------------------
(* Type correctness, action by action: what begins without writing.        *)
LEMMA RowsAreOK == TypeOK => \A row \in Rows : RowOK(row)
BY DEF TypeOK, Rows, RowOK

LEMMA NamedFiles ==
  TypeOK => \A row \in Rows : FileOf(row) \in Nat
<1> SUFFICES ASSUME TypeOK, NEW row \in Rows PROVE FileOf(row) \in Nat
  OBVIOUS
<1>1. CASE \E j \in JobIds : row = Row("jobs", j)
  BY <1>1 DEF TypeOK, Row, FileOf, JobRow
<1>2. CASE \E e \in ExpenseIds : row = Row("expenses", e)
  BY <1>2 DEF TypeOK, Row, FileOf, ExpenseRow
<1> QED BY <1>1, <1>2 DEF Rows

LEMMA ReadsKeepTypes ==
  ASSUME TypeOK, FilesOnDisk, NEW c \in Clients, UNCHANGED duties,
         \/ UpdateJob(c) \/ UpdateOwnStatus(c) \/ DeleteJob(c)
         \/ CreateExpense(c) \/ Submit(c) \/ SubmitForJob(c)
         \/ FindScheduled(c) \/ Decide(c) \/ EditExpense(c)
         \/ RemoveExpense(c) \/ UploadStart(c)
         \/ BeginCommit(c) \/ ReadJobs(c)
  PROVE  TypeOK'
<1>1. UNCHANGED tables
  BY DEF UpdateJob, UpdateOwnStatus, DeleteJob, CreateExpense, Submit,
         SubmitForJob, FindScheduled, Decide, EditExpense, RemoveExpense,
         UploadStart, UploadReceipt, UploadDeliveryPhoto, BeginCommit, ReadJobs
<1> SUFFICES \E r : GoesOn(c, r) /\ RequestOK(r)
  BY <1>1, ReadingKeepsTypes
<1> USE DEF GoesOn, Suspend
<1>2. /\ JobIds \subseteq JobsMade /\ \A j \in JobIds : jobs[j] \in JobRow
      /\ ExpenseIds \subseteq ExpensesMade
      /\ \A e \in ExpenseIds : expenses[e] \in ExpenseRow
      /\ RequestOK(call[c]) /\ JobsMade \subseteq Nat
  BY DEF TypeOK, JobsMade
<1>3. CASE UpdateJob(c)
  <2>1. PICK j \in JobIds, s \in JobStatus, d \in Drivers \cup {NoDriver, Kept} :
          GoesOn(c, Writing(j, IF s = jobs[j].status THEN NoChange
                               ELSE StatusChange(jobs[j], s), d))
    BY <1>3 DEF UpdateJob
  <2>2. NoChange \in Change /\ StatusChange(jobs[j], s) \in Change
    BY <1>2 DEF NoChange, StatusChange, Change, JobRow
  <2>3. \A ch \in Change : RequestOK(Writing(j, ch, d))
    BY <1>2 DEF RequestOK, Writing, States
  <2> QED BY <2>1, <2>2, <2>3
<1>4. CASE UpdateOwnStatus(c)
  <2>1. PICK j \in JobIds, s \in JobStatus :
          GoesOn(c, Writing(j, StatusChange(jobs[j], s), Kept))
    BY <1>4 DEF UpdateOwnStatus
  <2>2. StatusChange(jobs[j], s) \in Change
    BY <1>2 DEF StatusChange, Change, JobRow
  <2>3. \A ch \in Change : RequestOK(Writing(j, ch, Kept))
    BY <1>2 DEF RequestOK, Writing, States
  <2> QED BY <2>1, <2>2, <2>3
<1>5. CASE DeleteJob(c)
  BY <1>2, <1>5 DEF DeleteJob, RequestOK, States
<1>6. \A j \in Nat, d \in Drivers \cup {NoDriver}, a \in Amounts,
        s \in ExpenseStatus : RequestOK(Inserting(Expense(j, d, a, s)))
  BY DEF Expense, ExpenseRow, NoFile, Inserting, RequestOK, States
<1>7. CASE CreateExpense(c)
  BY <1>2, <1>6, <1>7 DEF CreateExpense, ExpenseStatus, NoJob
<1>8. CASE Submit(c)
  BY <1>6, <1>8 DEF Submit, ExpenseStatus, NoJob
<1>9. CASE SubmitForJob(c)
  <2>1. PICK d \in Drivers, a \in Amounts :
          \/ \E j \in JobIds : Suspend(c, Inserting(Expense(j, d, a, "PENDING")))
          \/ Suspend(c, [pc |-> "findScheduled", driver |-> d, amount |-> a])
    BY <1>9 DEF SubmitForJob
  <2>2. RequestOK([pc |-> "findScheduled", driver |-> d, amount |-> a])
    BY DEF RequestOK, States
  <2> QED BY <1>2, <1>6, <2>1, <2>2 DEF ExpenseStatus
<1>10. CASE FindScheduled(c)
  <2> DEFINE d == call[c].driver
             next == InStatus(d, "SCHEDULED")
  <2>1. d \in Drivers /\ call[c].amount \in Amounts
    BY <1>2, <1>10 DEF FindScheduled, RequestOK
  <2>2. CASE next = {}
    BY <1>10, <2>2, IdleIsOK DEF FindScheduled, Answer
  <2>3. CASE next # {}
    <3>1. next \in SUBSET Nat
      BY <1>2 DEF InStatus
    <3>2. Soonest(next) \in Nat
      BY <2>3, <3>1, SoonestIsOne
    <3>3. RequestOK(Inserting(Expense(Soonest(next), d, call[c].amount, "PENDING")))
      BY <1>6, <2>1, <3>2 DEF ExpenseStatus
    <3> QED BY <1>10, <2>3, <3>3 DEF FindScheduled
  <2> QED BY <2>2, <2>3
<1>11. CASE Decide(c)
  <2>1. PICK e \in ExpenseIds, m \in Managers, s \in {"APPROVED", "REJECTED"} :
          Suspend(c, [pc |-> "decide", id |-> e, by |-> m, status |-> s])
    BY <1>11 DEF Decide
  <2>2. RequestOK([pc |-> "decide", id |-> e, by |-> m, status |-> s])
    BY <1>2 DEF RequestOK, States
  <2> QED BY <2>1, <2>2
<1>12. CASE EditExpense(c)
  <2>1. PICK e \in ExpenseIds, a \in Amounts :
          Suspend(c, [pc |-> "edit", id |-> e, amount |-> a])
    BY <1>12 DEF EditExpense
  <2>2. RequestOK([pc |-> "edit", id |-> e, amount |-> a])
    BY <1>2 DEF RequestOK, States
  <2> QED BY <2>1, <2>2
<1>13. CASE RemoveExpense(c)
  BY <1>2, <1>13 DEF RemoveExpense, RequestOK, States
<1>14. CASE UploadStart(c)
  <2>1. PICK row \in Rows : Suspend(c, Uploading(row))
    BY <1>14 DEF UploadStart, UploadReceipt, UploadDeliveryPhoto, Rows
  <2>2. RowOK(row) /\ FileOf(row) \in FilesMade \cup {NoFile}
    BY <2>1, RowsAreOK DEF FilesOnDisk, TypeOK
  <2>3. RequestOK(Uploading(row))
    BY <2>2 DEF Uploading, RequestOK, States
  <2> QED BY <2>1, <2>3
<1>15. CASE BeginCommit(c)
  <2>1. PICK chosen \in Selections :
          Suspend(c, [pc |-> "commit", chosen |-> chosen])
    BY <1>15 DEF BeginCommit
  <2>2. PICK n \in RowNumbers : chosen \in [1..n -> [row : RowNumbers, job : JobIds]]
    BY DEF Selections
  <2>3. 1..n \subseteq RowNumbers
    BY StatementRows
  <2>4. ChosenOK(chosen)
    BY <1>2, <2>2, <2>3 DEF ChosenOK
  <2>5. RequestOK([pc |-> "commit", chosen |-> chosen])
    BY <2>4 DEF RequestOK, States
  <2> QED BY <2>1, <2>5
<1>16. CASE ReadJobs(c)
  <2> DEFINE chosen == call[c].chosen
             found == {chosen[i].job : i \in DOMAIN chosen} \cap JobIds
             r == [pc |-> "credit", chosen |-> chosen,
                   received |-> [j \in found |-> jobs[j].received]]
  <2>1. GoesOn(c, r) /\ ChosenOK(chosen)
    BY <1>16 DEF ReadJobs, TypeOK, RequestOK
  <2>2. \A j \in found : r.received[j] \in Nat /\ RowsFor(r, j) # {}
    BY <1>2 DEF JobRow, RowsFor
  <2>3. RequestOK(r)
    <3>1. r.pc = "credit" /\ r.chosen = chosen /\ DOMAIN r.received = found
      OBVIOUS
    <3> HIDE DEF r, found, chosen
    <3> QED BY <2>1, <2>2, <3>1 DEF RequestOK, States
  <2> QED BY <2>1, <2>3
<1> QED BY <1>3, <1>4, <1>5, <1>7, <1>8, <1>9, <1>10, <1>11, <1>12, <1>13,
          <1>14, <1>15, <1>16
-----------------------------------------------------------------------------
(* ... what writes a job,                                                  *)
LEMMA AnswerKeepsSlots ==
  ASSUME TypeOK, MadeGrows, NEW c \in Clients, Answer(c)
  PROVE  DOMAIN call' = Clients /\ \A d \in Clients : RequestOK(call[d])'
<1>1. RequestOK(Idle)'
  BY IdleIsOK, RequestsStayOK
<1> QED BY <1>1, SlotsStayOK DEF Answer, GoesOn

LEMMA JobWritesKeepTypes ==
  ASSUME TypeOK, UNCHANGED duties, NEW c \in Clients,
         CreateJob(c) \/ WriteJob(c) \/ EraseJob(c) \/ CommitMatches(c)
  PROVE  TypeOK'
<1>1. /\ JobIds \subseteq JobsMade /\ \A j \in JobIds : jobs[j] \in JobRow
      /\ jobs = [j \in JobIds |-> jobs[j]]
      /\ ExpenseIds \subseteq ExpensesMade
      /\ \A e \in ExpenseIds : expenses[e] \in ExpenseRow
      /\ RequestOK(call[c])
      /\ made \in [jobs : Nat, expenses : Nat, files : Nat, matches : Nat]
  BY DEF TypeOK
<1>2. CASE CreateJob(c)
  <2>1. PICK d \in Drivers \cup {NoDriver} :
          jobs' = With(jobs, made.jobs + 1, Job(d))
    BY <1>2 DEF CreateJob
  <2>2. MadeGrows
    BY <1>1, <1>2 DEF CreateJob, MadeGrows
  <2>3. Job(d) \in JobRow
    BY DEF Job, JobRow, JobStatus, NoFile
  <2>4. /\ JobIds' = JobIds \cup {made.jobs + 1}
        /\ jobs' \in [JobIds' -> JobRow]
    BY <1>1, <2>1, <2>3 DEF With, JobIds
  <2>5. JobIds' \subseteq JobsMade'
    BY <1>1, <1>2, <2>4 DEF CreateJob, JobsMade
  <2>6. \A x \in Clients : RequestOK(call[x])'
    BY <1>2, <2>2, RequestsStayOK DEF CreateJob, TypeOK
  <2> QED BY <1>2, <2>2, <2>4, <2>5, <2>6
        DEF TypeOK, CreateJob, MadeGrows, ExpenseIds, ExpensesMade, FilesMade
<1>3. CASE WriteJob(c)
  <2> DEFINE j == call[c].job
  <2>1. MadeGrows
    BY <1>3, NothingMade DEF WriteJob
  <2>2. call[c].change \in Change /\ call[c].driver \in Drivers \cup {NoDriver, Kept}
    BY <1>1, <1>3 DEF WriteJob, RequestOK
  <2>3. \A job \in JobRow : Written(job, call[c]) \in JobRow
    <3> SUFFICES ASSUME NEW job \in JobRow PROVE Written(job, call[c]) \in JobRow
      OBVIOUS
    <3> DEFINE w == call[c]
               status == IF w.change.status = Kept THEN job.status
                                                   ELSE w.change.status
               picked == job.pickedUp \/ w.change.pickedUp
               delivered == job.delivered \/ w.change.delivered
               driver == IF w.driver = Kept THEN job.driver ELSE w.driver
    <3>1. status \in JobStatus
      BY <2>2 DEF Change, JobRow
    <3>2. picked \in BOOLEAN /\ delivered \in BOOLEAN
      BY Zenon
    <3>3. driver \in Drivers \cup {NoDriver}
      BY <2>2 DEF JobRow
    <3>4. Written(job, w) =
            [job EXCEPT !.status = status, !.pickedUp = picked,
                        !.delivered = delivered, !.driver = driver]
      BY Zenon DEF Written
    <3> HIDE DEF status, picked, delivered, driver
    <3> QED BY <3>1, <3>2, <3>3, <3>4 DEF JobRow
  <2>4. jobs' \in [JobIds -> JobRow]
    <3>1. CASE UNCHANGED jobs
      BY <1>1, <3>1
    <3>2. CASE j \in JobIds /\ jobs' = [jobs EXCEPT ![j] = Written(@, call[c])]
      BY <1>1, <2>3, <3>2
    <3> QED BY <1>3, <3>1, <3>2 DEF WriteJob
  <2>5. DOMAIN call' = Clients /\ \A d \in Clients : RequestOK(call[d])'
    BY <1>3, <2>1, AnswerKeepsSlots DEF WriteJob
  <2> QED BY <1>3, <2>1, <2>4, <2>5 DEF TypeOK, WriteJob, JobIds,
        ExpenseIds, JobsMade, ExpensesMade, FilesMade
<1>4. CASE EraseJob(c)
  <2>1. MadeGrows
    BY <1>4, NothingMade DEF EraseJob
  <2>2. JobIds' \subseteq JobIds /\ jobs' \in [JobIds' -> JobRow]
    BY <1>1, <1>4 DEF EraseJob, Without, JobIds
  <2>3. \A x \in ExpenseRow : [x EXCEPT !.job = NoJob] \in ExpenseRow
    BY DEF ExpenseRow, NoJob
  <2>4. ExpenseIds' = ExpenseIds /\ expenses' \in [ExpenseIds -> ExpenseRow]
    BY <1>1, <1>4, <2>3 DEF EraseJob, ExpenseIds
  <2>5. DOMAIN call' = Clients /\ \A d \in Clients : RequestOK(call[d])'
    BY <1>4, <2>1, AnswerKeepsSlots DEF EraseJob
  <2> QED BY <1>4, <2>1, <2>2, <2>4, <2>5 DEF TypeOK, EraseJob,
        JobsMade, ExpensesMade, FilesMade
<1>5. CASE CommitMatches(c)
  <2> DEFINE w == call[c]
  <2>1. made' \in [jobs : Nat, expenses : Nat, files : Nat, matches : Nat]
        /\ made'.jobs = made.jobs /\ made'.expenses = made.expenses
        /\ made'.files = made.files
    <3>1. Len(Statement) \in Nat
      BY StatementAssumption
    <3> QED BY <1>1, <1>5, <3>1 DEF CommitMatches
  <2>2. MadeGrows
    BY <2>1, <1>1 DEF MadeGrows
  <2>3. \A j \in DOMAIN w.received : Credit(w, j) \in Nat
    BY <1>1, <1>5, CreditIsNat DEF CommitMatches, RequestOK
  <2>4. \A j \in JobIds, n \in Nat : [jobs[j] EXCEPT !.received = n] \in JobRow
    BY <1>1 DEF JobRow
  <2>5. jobs' \in [JobIds -> JobRow]
    <3>1. CASE UNCHANGED jobs
      BY <1>1, <3>1
    <3>2. CASE jobs' = [j \in JobIds |->
                          IF j \in DOMAIN w.received
                          THEN [jobs[j] EXCEPT !.received = Credit(w, j)]
                          ELSE jobs[j]]
      <4>1. \A j \in JobIds : jobs'[j] \in JobRow
        BY <1>1, <2>3, <2>4, <3>2
      <4> QED BY <3>2, <4>1
    <3> QED BY <1>5, <3>1, <3>2 DEF CommitMatches
  <2>6. DOMAIN call' = Clients /\ \A d \in Clients : RequestOK(call[d])'
    BY <1>5, <2>2, AnswerKeepsSlots DEF CommitMatches
  <2> QED BY <1>5, <2>1, <2>5, <2>6 DEF TypeOK, CommitMatches, JobIds,
        ExpenseIds, JobsMade, ExpensesMade, FilesMade
<1> QED BY <1>2, <1>3, <1>4, <1>5

(* ... what writes an expense,                                             *)
LEMMA ExpenseWritesKeepTypes ==
  ASSUME TypeOK, UNCHANGED duties, NEW c \in Clients,
         InsertExpense(c) \/ WriteDecision(c) \/ WriteEdit(c) \/ EraseExpense(c)
  PROVE  TypeOK'
<1>1. /\ ExpenseIds \subseteq ExpensesMade
      /\ \A e \in ExpenseIds : expenses[e] \in ExpenseRow
      /\ expenses = [e \in ExpenseIds |-> expenses[e]]
      /\ RequestOK(call[c])
      /\ made \in [jobs : Nat, expenses : Nat, files : Nat, matches : Nat]
  BY DEF TypeOK
<1>2. Answer(c) /\ UNCHANGED <<jobs, matches, files>>
  BY DEF InsertExpense, WriteDecision, WriteEdit, EraseExpense
<1>3. MadeGrows /\ made'.jobs = made.jobs /\ made'.files = made.files
  <2>1. CASE made' = made
    BY <2>1, NothingMade
  <2>2. CASE made' = [made EXCEPT !.expenses = @ + 1]
    BY <1>1, <2>2 DEF MadeGrows
  <2> QED BY <2>1, <2>2 DEF InsertExpense, WriteDecision, WriteEdit,
        EraseExpense
<1>4. DOMAIN call' = Clients /\ \A d \in Clients : RequestOK(call[d])'
  BY <1>2, <1>3, AnswerKeepsSlots
<1>5. SUFFICES /\ ExpenseIds' \subseteq ExpensesMade'
               /\ expenses' \in [ExpenseIds' -> ExpenseRow]
  BY <1>2, <1>3, <1>4 DEF TypeOK, MadeGrows, JobIds, JobsMade, FilesMade
<1>6. CASE UNCHANGED <<expenses, made>>
  BY <1>6 DEF TypeOK, ExpenseIds, ExpensesMade
<1>7. CASE InsertExpense(c) /\ ~UNCHANGED <<expenses, made>>
  <2>1. /\ expenses' = With(expenses, made.expenses + 1, call[c].expense)
        /\ made' = [made EXCEPT !.expenses = @ + 1]
    BY <1>7 DEF InsertExpense
  <2>2. call[c].expense \in ExpenseRow
    BY <1>1, <1>7 DEF InsertExpense, RequestOK
  <2>3. ExpenseIds' = ExpenseIds \cup {made.expenses + 1}
    BY <2>1 DEF With, ExpenseIds
  <2> QED BY <1>1, <2>1, <2>2, <2>3 DEF With, ExpenseIds, ExpensesMade
<1>8. CASE WriteDecision(c) /\ ~UNCHANGED <<expenses, made>>
  <2> DEFINE w == call[c]
  <2>1. w.status \in {"APPROVED", "REJECTED"} /\ w.by \in Managers
    BY <1>1, <1>8 DEF WriteDecision, RequestOK
  <2>2. \A x \in ExpenseRow :
          [x EXCEPT !.status = w.status, !.by = w.by] \in ExpenseRow
    BY <2>1 DEF ExpenseRow, ExpenseStatus
  <2>3. expenses' = [expenses EXCEPT ![w.id] =
                       [@ EXCEPT !.status = w.status, !.by = w.by]]
        /\ made' = made
    BY <1>8 DEF WriteDecision
  <2> QED BY <1>1, <2>2, <2>3 DEF ExpenseIds, ExpensesMade
<1>9. CASE WriteEdit(c) /\ ~UNCHANGED <<expenses, made>>
  <2> DEFINE w == call[c]
  <2>1. w.amount \in Amounts
    BY <1>1, <1>9 DEF WriteEdit, RequestOK
  <2>2. \A x \in ExpenseRow : [x EXCEPT !.amount = w.amount] \in ExpenseRow
    BY <2>1 DEF ExpenseRow
  <2>3. expenses' = [expenses EXCEPT ![w.id].amount = w.amount] /\ made' = made
    BY <1>9 DEF WriteEdit
  <2> QED BY <1>1, <2>2, <2>3 DEF ExpenseIds, ExpensesMade
<1>10. CASE EraseExpense(c)
  BY <1>1, <1>10 DEF EraseExpense, Without, ExpenseIds, ExpensesMade
<1> QED BY <1>6, <1>7, <1>8, <1>9, <1>10 DEF InsertExpense, WriteDecision,
          WriteEdit, EraseExpense
(* ... and what writes a file or has one named.                            *)
LEMMA UploadsKeepTypes ==
  ASSUME TypeOK, UNCHANGED duties, NEW c \in Clients,
         WriteFile(c) \/ Attach(c) \/ Unlink(c)
  PROVE  TypeOK'
<1>1. /\ RequestOK(call[c])
      /\ made \in [jobs : Nat, expenses : Nat, files : Nat, matches : Nat]
  BY DEF TypeOK
<1>2. CASE WriteFile(c)
  <2>0. PICK f, row, old, r :
          /\ f = made.files + 1 /\ row = call[c].row /\ old = call[c].old
          /\ r = [pc |-> "attach", row |-> row, old |-> old, file |-> f]
    OBVIOUS
  <2>1. MadeGrows /\ made'.jobs = made.jobs /\ made'.expenses = made.expenses
    BY <1>1, <1>2 DEF WriteFile, MadeGrows
  <2>2. f \in FilesMade' /\ FilesMade \subseteq FilesMade'
    BY <1>1, <1>2, <2>0 DEF WriteFile, FilesMade
  <2>3. RowOK(row)' /\ old \in FilesMade' \cup {NoFile}
    <3>1. RowOK(row) /\ old \in FilesMade \cup {NoFile}
      BY <1>1, <1>2, <2>0 DEF WriteFile, RequestOK
    <3>2. JobsMade' = JobsMade /\ ExpensesMade' = ExpensesMade
      BY <2>1 DEF JobsMade, ExpensesMade
    <3> QED BY <3>1, <3>2, <2>2 DEF RowOK
  <2>4. RequestOK(r)'
    BY <2>0, <2>2, <2>3 DEF RequestOK, States
  <2>5. GoesOn(c, r)
    BY <1>2, <2>0 DEF WriteFile, Suspend, GoesOn
  <2>6. DOMAIN call' = Clients /\ \A d \in Clients : RequestOK(call[d])'
    BY <2>1, <2>4, <2>5, SlotsStayOK
  <2>7. files' \subseteq FilesMade'
    BY <1>2, <2>0, <2>2 DEF WriteFile, TypeOK
  <2> QED BY <1>2, <2>1, <2>6, <2>7 DEF WriteFile, TypeOK, MadeGrows, JobIds,
        ExpenseIds, JobsMade, ExpensesMade
<1>3. CASE Attach(c)
  <2> DEFINE w == call[c]
             r == [pc |-> "unlink", file |-> Leftover(w)]
  <2>1. MadeGrows
    BY <1>3, NothingMade DEF Attach
  <2>2. /\ w.file \in FilesMade \cup {NoFile}
        /\ w.old \in FilesMade \cup {NoFile}
    BY <1>1, <1>3 DEF Attach, RequestOK
  <2>3. RequestOK(r)
    BY <2>2 DEF Leftover, RequestOK, States
  <2>4. DOMAIN call' = Clients /\ \A d \in Clients : RequestOK(call[d])'
    BY <1>3, <2>1, <2>3, RequestsStayOK, SlotsStayOK DEF Attach, Suspend, GoesOn
  <2>5. w.file \in Nat
    BY <1>1, <2>2 DEF FilesMade, NoFile
  <2>6. jobs' \in [JobIds -> JobRow]
    <3>1. \A job \in JobRow : [job EXCEPT !.file = w.file] \in JobRow
      BY <2>5 DEF JobRow
    <3> QED BY <1>3, <3>1 DEF Attach, TypeOK
  <2>7. expenses' \in [ExpenseIds -> ExpenseRow]
    <3>1. \A x \in ExpenseRow : [x EXCEPT !.file = w.file] \in ExpenseRow
      BY <2>5 DEF ExpenseRow
    <3> QED BY <1>3, <3>1 DEF Attach, TypeOK
  <2> QED BY <1>3, <2>4, <2>6, <2>7 DEF Attach, TypeOK, JobIds, ExpenseIds,
        JobsMade, ExpensesMade, FilesMade
<1>4. CASE Unlink(c)
  <2>1. MadeGrows
    BY <1>4, NothingMade DEF Unlink
  <2>2. DOMAIN call' = Clients /\ \A d \in Clients : RequestOK(call[d])'
    BY <1>4, <2>1, AnswerKeepsSlots DEF Unlink
  <2> QED BY <1>4, <2>2 DEF Unlink, TypeOK, JobIds, ExpenseIds, JobsMade,
        ExpensesMade, FilesMade
<1> QED BY <1>2, <1>3, <1>4

LEMMA CrashKeepsTypes ==
  ASSUME TypeOK, UNCHANGED duties, Crash
  PROVE  TypeOK'
<1>1. MadeGrows
  BY NothingMade DEF Crash, tables
<1>2. \A c \in Clients : RequestOK(call[c])'
  BY <1>1, IdleIsOK, RequestsStayOK DEF Crash
<1> QED BY <1>2 DEF Crash, tables, TypeOK, JobIds, ExpenseIds, JobsMade,
          ExpensesMade, FilesMade
-----------------------------------------------------------------------------
(***************************************************************************)
(* Milestones.  A write that is still to come was computed from a job that *)
(* may have changed since; it brings the stamp its status needs, or found  *)
(* it on the job, and a stamp is never taken off.                          *)
(***************************************************************************)
Stamps(change, job) ==
  /\ change.status = "IN_TRANSIT" => change.pickedUp \/ job.pickedUp
  /\ change.status = "DELIVERED" => change.delivered \/ job.delivered

WritesStamp ==
  \A c \in Clients :
    call[c].pc = "writeJob" /\ call[c].job \in JobIds =>
      Stamps(call[c].change, jobs[call[c].job])

StampInv == MilestonesAreStamped /\ WritesStamp

(* Steps that leave status and stamps alone and begin no write of them.    *)
StampsSame ==
  \A j \in JobIds' :
    /\ j \in JobIds
    /\ jobs'[j].status = jobs[j].status
    /\ jobs'[j].pickedUp = jobs[j].pickedUp
    /\ jobs'[j].delivered = jobs[j].delivered
NoNewWrite ==
  \A c \in Clients : call'[c] = call[c] \/ call'[c].pc # "writeJob"

LEMMA OthersKeepStamps ==
  ASSUME StampInv, StampsSame, NoNewWrite
  PROVE  StampInv'
BY DEF StampInv, StampsSame, NoNewWrite, MilestonesAreStamped, WritesStamp,
       Stamps

LEMMA UntouchedStamps ==
  ASSUME jobs' = jobs
  PROVE  StampsSame
BY DEF StampsSame, JobIds

LEMMA OtherSteps ==
  ASSUME TypeOK, NEW c \in Clients,
         \/ DeleteJob(c) \/ EraseJob(c) \/ ExpenseDeskStep(c)
         \/ ClaimStep(c) \/ ExpenseWrite(c) \/ UploadStart(c)
         \/ UploadStep(c) \/ StatementStep(c) \/ StatementWrite(c)
  PROVE  StampsSame /\ NoNewWrite
<1>0. jobs = [j \in JobIds |-> jobs[j]] /\ DOMAIN call = Clients
      /\ \A j \in JobIds : jobs[j] \in JobRow
  BY DEF TypeOK
<1>1. CASE DeleteJob(c) \/ ExpenseDeskStep(c) \/ ClaimStep(c)
  <2>1. jobs' = jobs
    BY <1>1 DEF DeleteJob, ExpenseDeskStep, ClaimStep, CreateExpense, Decide,
       EditExpense, RemoveExpense, Submit, SubmitForJob, tables
  <2>2. NoNewWrite
    BY <1>0, <1>1 DEF DeleteJob, ExpenseDeskStep, ClaimStep, CreateExpense,
       Decide, EditExpense, RemoveExpense, Submit, SubmitForJob, Suspend,
       Inserting, NoNewWrite
  <2> QED BY <2>1, <2>2, UntouchedStamps
<1>2. CASE ExpenseWrite(c)
  <2>1. jobs' = jobs
    BY <1>2 DEF ExpenseWrite, FindScheduled, InsertExpense, WriteDecision,
       WriteEdit, EraseExpense, tables
  <2>2. NoNewWrite
    BY <1>0, <1>2 DEF ExpenseWrite, FindScheduled, InsertExpense,
       WriteDecision, WriteEdit, EraseExpense, Suspend, Answer, Idle,
       Inserting, NoNewWrite
  <2> QED BY <2>1, <2>2, UntouchedStamps
<1>3. CASE UploadStart(c) \/ StatementStep(c) \/ ReadJobs(c)
  <2>1. jobs' = jobs
    BY <1>3 DEF UploadStart, UploadReceipt, UploadDeliveryPhoto,
       StatementStep, BeginCommit, ReadJobs, tables
  <2>2. NoNewWrite
    BY <1>0, <1>3 DEF UploadStart, UploadReceipt, UploadDeliveryPhoto,
       StatementStep, BeginCommit, ReadJobs, Suspend, Uploading, NoNewWrite
  <2> QED BY <2>1, <2>2, UntouchedStamps
<1>4. CASE UploadStep(c)
  <2>1. NoNewWrite
    BY <1>0, <1>4 DEF UploadStep, WriteFile, Attach, Unlink, Suspend, Answer,
       Idle, NoNewWrite
  <2>2. CASE WriteFile(c) \/ Unlink(c)
    BY <2>1, <2>2, UntouchedStamps DEF WriteFile, Unlink
  <2>3. CASE Attach(c)
    <3>1. jobs' = jobs \/ jobs' = [jobs EXCEPT ![call[c].row.id].file = call[c].file]
      BY <2>3 DEF Attach
    <3>2. StampsSame
      BY <1>0, <3>1 DEF StampsSame, JobRow, JobIds
    <3> QED BY <2>1, <3>2
  <2> QED BY <1>4, <2>2, <2>3 DEF UploadStep
<1>5. CASE EraseJob(c)
  <2>1. NoNewWrite
    BY <1>0, <1>5 DEF EraseJob, Answer, Idle, NoNewWrite
  <2>2. StampsSame
    BY <1>5 DEF EraseJob, Without, StampsSame, JobIds
  <2> QED BY <2>1, <2>2
<1>6. CASE CommitMatches(c)
  <2>1. NoNewWrite
    BY <1>0, <1>6 DEF CommitMatches, Answer, Idle, NoNewWrite
  <2>2. CASE jobs' = jobs
    BY <2>1, <2>2, UntouchedStamps
  <2>3. CASE jobs' # jobs
    <3>1. jobs' = [j \in JobIds |->
                     IF j \in DOMAIN call[c].received
                     THEN [jobs[j] EXCEPT !.received = Credit(call[c], j)]
                     ELSE jobs[j]]
      BY <1>6, <2>3 DEF CommitMatches
    <3>2. StampsSame
      BY <1>0, <3>1 DEF StampsSame, JobRow, JobIds
    <3> QED BY <2>1, <3>2
  <2> QED BY <2>2, <2>3
<1> QED BY <1>1, <1>2, <1>3, <1>4, <1>5, <1>6 DEF StatementWrite

LEMMA StampStep ==
  ASSUME TypeOK, StampInv, Next
  PROVE  StampInv'
<1>0. /\ DOMAIN call = Clients /\ JobIds \subseteq JobsMade
      /\ \A j \in JobIds : jobs[j] \in JobRow
      /\ \A c \in Clients : RequestOK(call[c])
      /\ made.jobs \in Nat
  BY DEF TypeOK
<1>1. ASSUME NEW c \in Clients,
             \/ DeleteJob(c) \/ EraseJob(c) \/ ExpenseDeskStep(c)
             \/ ClaimStep(c) \/ ExpenseWrite(c) \/ UploadStart(c)
             \/ UploadStep(c) \/ StatementStep(c) \/ StatementWrite(c)
      PROVE  StampInv'
  BY <1>1, OtherSteps, OthersKeepStamps
<1>2. ASSUME NEW c \in Clients, UpdateJob(c) \/ UpdateOwnStatus(c)
      PROVE  StampInv'
  <2>1. PICK j, change, d :
          /\ j \in JobIds
          /\ Suspend(c, Writing(j, change, d))
          /\ change = NoChange \/ \E s \in JobStatus : change = StatusChange(jobs[j], s)
    BY <1>2 DEF UpdateJob, UpdateOwnStatus
  <2>2. Stamps(change, jobs[j])
    <3>1. CASE change = NoChange
      BY <3>1 DEF Stamps, NoChange, Kept
    <3>2. ASSUME NEW s \in JobStatus, change = StatusChange(jobs[j], s)
          PROVE  Stamps(change, jobs[j])
      <4>1. /\ change.status = s
            /\ change.pickedUp = (s = "IN_TRANSIT" /\ ~jobs[j].pickedUp)
            /\ change.delivered = (s = "DELIVERED" /\ ~jobs[j].delivered)
        BY <3>2 DEF StatusChange
      <4> QED BY <4>1 DEF Stamps
    <3> QED BY <2>1, <3>1, <3>2
  <2>3. jobs' = jobs
    BY <1>2 DEF UpdateJob, UpdateOwnStatus, tables
  <2>4. WritesStamp'
    BY <1>0, <2>1, <2>2, <2>3 DEF WritesStamp, Suspend, Writing, StampInv, JobIds
  <2> QED BY <2>3, <2>4 DEF StampInv, MilestonesAreStamped, JobIds
<1>3. ASSUME NEW c \in Clients, CreateJob(c)
      PROVE  StampInv'
  <2>1. PICK d : jobs' = With(jobs, made.jobs + 1, Job(d))
    BY <1>3 DEF CreateJob
  <2>2. /\ JobIds' = JobIds \cup {made.jobs + 1}
        /\ made.jobs + 1 \notin JobsMade
        /\ jobs'[made.jobs + 1] = Job(d)
        /\ \A j \in JobIds : jobs'[j] = jobs[j]
    BY <1>0, <2>1 DEF With, JobIds, JobsMade
  <2>3. MilestonesAreStamped'
    BY <2>2 DEF StampInv, MilestonesAreStamped, Job
  <2>4. \A x \in Clients : call'[x] = call[x] /\
          (call[x].pc = "writeJob" => call[x].job \in JobsMade)
    BY <1>0, <1>3 DEF CreateJob, RequestOK
  <2> QED BY <2>2, <2>3, <2>4 DEF StampInv, WritesStamp
<1>4. ASSUME NEW c \in Clients, WriteJob(c)
      PROVE  StampInv'
  <2> DEFINE w == call[c]
  <2>1. NoNewWrite
    BY <1>0, <1>4 DEF WriteJob, Answer, Idle, NoNewWrite
  <2>2. CASE w.job \notin JobIds
    <3>1. jobs' = jobs
      BY <1>4, <2>2 DEF WriteJob
    <3> QED BY <2>1, <3>1, UntouchedStamps, OthersKeepStamps
  <2>3. CASE w.job \in JobIds
    <3>1. jobs' = [jobs EXCEPT ![w.job] = Written(@, w)]
      BY <1>4, <2>3 DEF WriteJob
    <3>2. Stamps(w.change, jobs[w.job])
      BY <1>4, <2>3 DEF WriteJob, StampInv, WritesStamp
    <3> DEFINE old == jobs[w.job]
               new == Written(old, w)
    <3>3. /\ new.status = IF w.change.status = Kept THEN old.status
                                                   ELSE w.change.status
          /\ new.pickedUp = (old.pickedUp \/ w.change.pickedUp)
          /\ new.delivered = (old.delivered \/ w.change.delivered)
      BY <1>0, <2>3 DEF Written, JobRow
    <3>4. JobIds' = JobIds /\ jobs'[w.job] = new
          /\ \A j \in JobIds \ {w.job} : jobs'[j] = jobs[j]
      BY <1>0, <2>3, <3>1 DEF JobIds
    <3>5. MilestonesAreStamped'
      BY <3>2, <3>3, <3>4 DEF StampInv, MilestonesAreStamped, Stamps
    <3>6. \A j \in JobIds : \A change :
            Stamps(change, jobs[j]) => Stamps(change, jobs'[j])
      BY <3>3, <3>4 DEF Stamps
    <3>7. WritesStamp'
      BY <2>1, <3>4, <3>6 DEF StampInv, WritesStamp, NoNewWrite
    <3> QED BY <3>5, <3>7 DEF StampInv
  <2> QED BY <2>2, <2>3
<1>5. CASE Crash
  <2>1. jobs' = jobs /\ NoNewWrite
    BY <1>5 DEF Crash, tables, NoNewWrite, Idle
  <2> QED BY <2>1, UntouchedStamps, OthersKeepStamps
<1> QED BY <1>1, <1>2, <1>3, <1>4, <1>5 DEF Next, OfficeStep, PhoneStep, GoOn,
          JobStep, DriveStep, JobWrite, Clients
-----------------------------------------------------------------------------
(***************************************************************************)
(* Files.  No two rows name one file.  A file about to be attached is on   *)
(* disk, is this request's alone and is named by no row; the file it will  *)
(* replace can be named by that row only; and a file about to be unlinked  *)
(* is named, or about to be named, by nobody.                              *)
(***************************************************************************)
Attaching(c, f) == call[c].pc = "attach" /\ call[c].file = f
Replacing(c, row, f) ==
  call[c].pc \in {"writeFile", "attach"} /\ call[c].row = row /\ call[c].old = f
Unlinking(c, f) == call[c].pc = "unlink" /\ call[c].file = f

Unnamed(f) == \A row \in Rows : FileOf(row) # f
NobodyAttaches(f) == \A c \in Clients : ~Attaching(c, f)

OneOwner ==
  \A q, r \in Rows : FileOf(q) = FileOf(r) /\ FileOf(q) # NoFile => q = r
NewFilesAreOwn ==
  \A f : \A c \in Clients : Attaching(c, f) =>
    /\ f \in files /\ Unnamed(f)
    /\ \A d \in Clients : Attaching(d, f) => d = c
OldFilesAreTheirs ==
  \A f, row : \A c \in Clients : Replacing(c, row, f) /\ f # NoFile =>
    /\ \A r \in Rows : FileOf(r) = f => r = row
    /\ NobodyAttaches(f)
UnlinkedFilesAreLeft ==
  \A f : \A c \in Clients :
    Unlinking(c, f) /\ f # NoFile => Unnamed(f) /\ NobodyAttaches(f)

FileInv ==
  FilesOnDisk /\ OneOwner /\ NewFilesAreOwn /\ OldFilesAreTheirs
    /\ UnlinkedFilesAreLeft

(* Steps that name no file, and neither begin nor continue an upload.      *)
SameNames ==
  \A row \in Rows' :
    FileOf(row)' # NoFile => row \in Rows /\ FileOf(row)' = FileOf(row)
QuietSlots ==
  \A c \in Clients :
    call'[c] = call[c] \/ call'[c].pc \notin {"writeFile", "attach", "unlink"}

LEMMA FilesAreReal == TypeOK => NoFile \notin files
BY DEF TypeOK, FilesMade, NoFile

LEMMA QuietStepsKeepFiles ==
  ASSUME TypeOK, FileInv, SameNames, QuietSlots, files' = files
  PROVE  FileInv'
<1>1. FilesOnDisk' /\ OneOwner'
  BY DEF FileInv, SameNames, FilesOnDisk, OneOwner
<1>2. \A f : f # NoFile /\ Unnamed(f) => Unnamed(f)'
  BY DEF SameNames, Unnamed
<1>3. \A f : \A c \in Clients : Attaching(c, f)' => Attaching(c, f)
  BY DEF QuietSlots, Attaching
<1>4. \A f, row : \A c \in Clients : Replacing(c, row, f)' => Replacing(c, row, f)
  BY DEF QuietSlots, Replacing
<1>5. \A f : \A c \in Clients : Unlinking(c, f)' => Unlinking(c, f)
  BY DEF QuietSlots, Unlinking
<1>6. \A f : NobodyAttaches(f) => NobodyAttaches(f)'
  BY <1>3 DEF NobodyAttaches
<1>7. NewFilesAreOwn'
  BY <1>2, <1>3, FilesAreReal DEF FileInv, NewFilesAreOwn
<1>8. OldFilesAreTheirs'
  BY <1>4, <1>6 DEF FileInv, OldFilesAreTheirs, SameNames
<1>9. UnlinkedFilesAreLeft'
  BY <1>2, <1>5, <1>6 DEF FileInv, UnlinkedFilesAreLeft
<1> QED BY <1>1, <1>7, <1>8, <1>9 DEF FileInv

(* What a step does to the files the two tables name.                      *)
LEMMA TablesToNames ==
  ASSUME \A j \in JobIds' : jobs'[j].file # NoFile =>
           j \in JobIds /\ jobs'[j].file = jobs[j].file,
         \A e \in ExpenseIds' : expenses'[e].file # NoFile =>
           e \in ExpenseIds /\ expenses'[e].file = expenses[e].file
  PROVE  SameNames
<1> SUFFICES ASSUME NEW row \in Rows', FileOf(row)' # NoFile
             PROVE  row \in Rows /\ FileOf(row)' = FileOf(row)
  BY DEF SameNames
<1>1. CASE \E j \in JobIds' : row = Row("jobs", j)
  <2>1. PICK j \in JobIds' : row = Row("jobs", j)
    BY <1>1
  <2>2. FileOf(row)' = jobs'[j].file
    BY <2>1 DEF FileOf, Row
  <2>3. j \in JobIds /\ jobs'[j].file = jobs[j].file
    BY <2>2
  <2> QED BY <2>1, <2>2, <2>3 DEF FileOf, Row, Rows
<1>2. CASE \E e \in ExpenseIds' : row = Row("expenses", e)
  <2>1. PICK e \in ExpenseIds' : row = Row("expenses", e)
    BY <1>2
  <2>2. FileOf(row)' = expenses'[e].file
    BY <2>1 DEF FileOf, Row
  <2>3. e \in ExpenseIds /\ expenses'[e].file = expenses[e].file
    BY <2>2
  <2> QED BY <2>1, <2>2, <2>3 DEF FileOf, Row, Rows
<1> QED BY <1>1, <1>2 DEF Rows

LEMMA QuietSteps ==
  ASSUME TypeOK, NEW c \in Clients,
         \/ JobStep(c) \/ DriveStep(c) \/ JobWrite(c) \/ ExpenseDeskStep(c)
         \/ ClaimStep(c) \/ ExpenseWrite(c) \/ StatementStep(c)
         \/ StatementWrite(c)
  PROVE  QuietSlots /\ files' = files
<1>1. DOMAIN call = Clients
  BY DEF TypeOK
<1> USE DEF QuietSlots, Suspend, Answer, Idle
<1>2. CASE JobStep(c) \/ DriveStep(c) \/ JobWrite(c)
  BY <1>1, <1>2 DEF JobStep, DriveStep, JobWrite, CreateJob, UpdateJob,
     DeleteJob, UpdateOwnStatus, WriteJob, EraseJob, Writing, tables
<1>3. CASE ExpenseDeskStep(c) \/ ClaimStep(c)
  BY <1>1, <1>3 DEF ExpenseDeskStep, ClaimStep, CreateExpense, Decide,
     EditExpense, RemoveExpense, Submit, SubmitForJob, Inserting, tables
<1>4. CASE ExpenseWrite(c)
  BY <1>1, <1>4 DEF ExpenseWrite, FindScheduled, InsertExpense, WriteDecision,
     WriteEdit, EraseExpense, Inserting, tables
<1>5. CASE StatementStep(c) \/ StatementWrite(c)
  BY <1>1, <1>5 DEF StatementStep, StatementWrite, BeginCommit, ReadJobs,
     CommitMatches, tables
<1> QED BY <1>2, <1>3, <1>4, <1>5

LEMMA QuietTables ==
  ASSUME TypeOK, NEW c \in Clients,
         \/ JobStep(c) \/ DriveStep(c) \/ JobWrite(c) \/ ExpenseDeskStep(c)
         \/ ClaimStep(c) \/ ExpenseWrite(c) \/ StatementStep(c)
         \/ StatementWrite(c)
  PROVE  SameNames
<1>1. /\ \A j \in JobIds : jobs[j] \in JobRow
      /\ jobs = [j \in JobIds |-> jobs[j]]
      /\ \A e \in ExpenseIds : expenses[e] \in ExpenseRow
      /\ expenses = [e \in ExpenseIds |-> expenses[e]]
      /\ RequestOK(call[c])
  BY DEF TypeOK
<1>2. CASE UNCHANGED <<jobs, expenses>>
  BY <1>2, TablesToNames DEF JobIds, ExpenseIds
<1>3. CASE CreateJob(c)
  <2>1. PICK d : jobs' = With(jobs, made.jobs + 1, Job(d))
    BY <1>3 DEF CreateJob
  <2>2. \A j \in JobIds' : jobs'[j].file # NoFile =>
          j \in JobIds /\ jobs'[j].file = jobs[j].file
    BY <2>1 DEF With, Job, JobIds
  <2> QED BY <1>3, <2>2, TablesToNames DEF CreateJob, ExpenseIds
<1>4. CASE WriteJob(c)
  <2>1. \A job \in JobRow : Written(job, call[c]).file = job.file
    BY DEF Written, JobRow
  <2>2. jobs' = jobs \/ jobs' = [jobs EXCEPT ![call[c].job] = Written(@, call[c])]
    BY <1>4 DEF WriteJob
  <2>3. \A j \in JobIds' : j \in JobIds /\ jobs'[j].file = jobs[j].file
    BY <1>1, <2>1, <2>2 DEF JobIds
  <2> QED BY <1>4, <2>3, TablesToNames DEF WriteJob, ExpenseIds
<1>5. CASE EraseJob(c)
  <2>1. \A j \in JobIds' : j \in JobIds /\ jobs'[j].file = jobs[j].file
    BY <1>5 DEF EraseJob, Without, JobIds
  <2>2. \A e \in ExpenseIds' : e \in ExpenseIds /\ expenses'[e].file = expenses[e].file
    <3>1. \A x \in ExpenseRow : [x EXCEPT !.job = NoJob].file = x.file
      BY DEF ExpenseRow
    <3> QED BY <1>1, <1>5, <3>1 DEF EraseJob, ExpenseIds
  <2> QED BY <2>1, <2>2, TablesToNames
<1>6. CASE CommitMatches(c)
  <2>1. \A j \in JobIds' : j \in JobIds /\ jobs'[j].file = jobs[j].file
    <3>1. \A x \in JobRow : \A n : [x EXCEPT !.received = n].file = x.file
      BY DEF JobRow
    <3>2. CASE jobs' = jobs
      BY <3>2 DEF JobIds
    <3>3. CASE jobs' = [j \in JobIds |->
                          IF j \in DOMAIN call[c].received
                          THEN [jobs[j] EXCEPT !.received = Credit(call[c], j)]
                          ELSE jobs[j]]
      <4>1. JobIds' = JobIds
        BY <3>3 DEF JobIds
      <4> QED BY <1>1, <3>1, <3>3, <4>1
    <3> QED BY <1>6, <3>2, <3>3 DEF CommitMatches
  <2> QED BY <1>6, <2>1, TablesToNames DEF CommitMatches, ExpenseIds
<1>7. CASE InsertExpense(c) /\ ~UNCHANGED <<jobs, expenses>>
  <2>1. /\ expenses' = With(expenses, made.expenses + 1, call[c].expense)
        /\ jobs' = jobs
    BY <1>7 DEF InsertExpense
  <2>2. call[c].expense.file = NoFile
    BY <1>1, <1>7 DEF InsertExpense, RequestOK
  <2>3. \A e \in ExpenseIds' : expenses'[e].file # NoFile =>
          e \in ExpenseIds /\ expenses'[e].file = expenses[e].file
    BY <2>1, <2>2 DEF With, ExpenseIds
  <2> QED BY <2>1, <2>3, TablesToNames DEF JobIds
<1>8. CASE (WriteDecision(c) \/ WriteEdit(c)) /\ ~UNCHANGED <<jobs, expenses>>
  <2> DEFINE w == call[c]
  <2>1. /\ jobs' = jobs
        /\ \/ expenses' = [expenses EXCEPT ![w.id] =
                              [@ EXCEPT !.status = w.status, !.by = w.by]]
           \/ expenses' = [expenses EXCEPT ![w.id].amount = w.amount]
    BY <1>8 DEF WriteDecision, WriteEdit
  <2>2. \A x \in ExpenseRow :
          /\ [x EXCEPT !.status = w.status, !.by = w.by].file = x.file
          /\ [x EXCEPT !.amount = w.amount].file = x.file
    BY DEF ExpenseRow
  <2>3. \A e \in ExpenseIds' : e \in ExpenseIds /\ expenses'[e].file = expenses[e].file
    BY <1>1, <2>1, <2>2 DEF ExpenseIds
  <2> QED BY <2>1, <2>3, TablesToNames DEF JobIds
<1>9. CASE EraseExpense(c)
  <2>1. \A e \in ExpenseIds' : e \in ExpenseIds /\ expenses'[e].file = expenses[e].file
    BY <1>9 DEF EraseExpense, Without, ExpenseIds
  <2> QED BY <1>9, <2>1, TablesToNames DEF EraseExpense, JobIds
<1>10. CASE UpdateJob(c) \/ DeleteJob(c) \/ DriveStep(c) \/ ExpenseDeskStep(c)
            \/ ClaimStep(c) \/ FindScheduled(c) \/ StatementStep(c) \/ ReadJobs(c)
  BY <1>2, <1>10 DEF UpdateJob, DeleteJob, DriveStep, UpdateOwnStatus,
     ExpenseDeskStep, CreateExpense, Decide, EditExpense, RemoveExpense,
     ClaimStep, Submit, SubmitForJob, FindScheduled, StatementStep, BeginCommit,
     ReadJobs, tables
<1> QED BY <1>2, <1>3, <1>4, <1>5, <1>6, <1>7, <1>8, <1>9, <1>10
        DEF JobStep, JobWrite, ExpenseWrite, StatementWrite

(* The upload steps.                                                       *)
LEMMA UploadBegins ==
  ASSUME TypeOK, FileInv, NEW c \in Clients, UploadStart(c)
  PROVE  FileInv'
<1>1. PICK row \in Rows : Suspend(c, Uploading(row)) /\ UNCHANGED tables
  BY DEF UploadStart, UploadReceipt, UploadDeliveryPhoto, Rows
<1>2. PICK old : old = FileOf(row)
  OBVIOUS
<1>3. /\ DOMAIN call = Clients
      /\ call' = [call EXCEPT ![c] = [pc |-> "writeFile", row |-> row, old |-> old]]
  BY <1>1, <1>2 DEF Suspend, Uploading, TypeOK
<1>4. Rows' = Rows /\ files' = files /\ \A r : FileOf(r)' = FileOf(r)
  BY <1>1 DEF tables, Rows, JobIds, ExpenseIds, FileOf
<1>5. \A f : \A d \in Clients :
        /\ Attaching(d, f)' => Attaching(d, f)
        /\ Unlinking(d, f)' => Unlinking(d, f)
        /\ \A r : Replacing(d, r, f)' => Replacing(d, r, f) \/ (r = row /\ f = old)
  BY <1>3 DEF Attaching, Unlinking, Replacing
<1>6. \A f : /\ Unnamed(f) => Unnamed(f)'
             /\ NobodyAttaches(f) => NobodyAttaches(f)'
  BY <1>4, <1>5 DEF Unnamed, NobodyAttaches
<1>7. old # NoFile =>
        /\ \A r \in Rows : FileOf(r) = old => r = row
        /\ NobodyAttaches(old)
  BY <1>2 DEF FileInv, OneOwner, NewFilesAreOwn, NobodyAttaches, Unnamed
<1>8. FilesOnDisk' /\ OneOwner'
  BY <1>4 DEF FileInv, FilesOnDisk, OneOwner
<1>9. NewFilesAreOwn'
  BY <1>4, <1>5, <1>6 DEF FileInv, NewFilesAreOwn
<1>10. OldFilesAreTheirs'
  BY <1>4, <1>5, <1>6, <1>7 DEF FileInv, OldFilesAreTheirs
<1>11. UnlinkedFilesAreLeft'
  BY <1>5, <1>6 DEF FileInv, UnlinkedFilesAreLeft
<1> QED BY <1>8, <1>9, <1>10, <1>11 DEF FileInv

LEMMA FileIsWritten ==
  ASSUME TypeOK, FileInv, NEW c \in Clients, WriteFile(c)
  PROVE  FileInv'
<1>1. PICK row, old, new :
        row = call[c].row /\ old = call[c].old /\ new = made.files + 1
  OBVIOUS
<1>2. /\ call[c].pc = "writeFile" /\ files' = files \cup {new}
      /\ jobs' = jobs /\ expenses' = expenses
      /\ call' = [call EXCEPT ![c] =
                    [pc |-> "attach", row |-> row, old |-> old, file |-> new]]
  BY <1>1 DEF WriteFile, Suspend
<1>3. Rows' = Rows /\ \A r : FileOf(r)' = FileOf(r)
  BY <1>2 DEF Rows, JobIds, ExpenseIds, FileOf
<1>4. /\ DOMAIN call = Clients /\ files \subseteq FilesMade
      /\ new \notin FilesMade /\ new # NoFile
      /\ \A d \in Clients : RequestOK(call[d])
  BY <1>1 DEF TypeOK, FilesMade, NoFile
<1>5. Unnamed(new) /\ NobodyAttaches(new)
  BY <1>4 DEF FileInv, FilesOnDisk, NewFilesAreOwn, Unnamed, NobodyAttaches
<1>6. \A d \in Clients : ~Unlinking(d, new) /\ \A r : ~Replacing(d, r, new)
  BY <1>4 DEF Unlinking, Replacing, RequestOK
<1>7. \A f : \A d \in Clients :
        /\ Attaching(d, f)' => Attaching(d, f) \/ (d = c /\ f = new)
        /\ Unlinking(d, f)' => Unlinking(d, f)
        /\ \A r : Replacing(d, r, f)' => Replacing(d, r, f)
  BY <1>1, <1>2, <1>4 DEF Attaching, Unlinking, Replacing
<1>8. \A f : /\ Unnamed(f) => Unnamed(f)'
             /\ NobodyAttaches(f) /\ f # new => NobodyAttaches(f)'
  BY <1>3, <1>7 DEF Unnamed, NobodyAttaches
<1>9. FilesOnDisk' /\ OneOwner'
  BY <1>2, <1>3 DEF FileInv, FilesOnDisk, OneOwner
<1>10. NewFilesAreOwn'
  BY <1>2, <1>5, <1>7, <1>8 DEF FileInv, NewFilesAreOwn, NobodyAttaches
<1>11. OldFilesAreTheirs'
  <2> SUFFICES ASSUME NEW f, NEW r, NEW d \in Clients,
                      Replacing(d, r, f)', f # NoFile
               PROVE  /\ \A q \in Rows' : FileOf(q)' = f => q = r
                      /\ NobodyAttaches(f)'
    BY DEF OldFilesAreTheirs
  <2>1. Replacing(d, r, f) /\ f # new
    BY <1>6, <1>7
  <2>2. /\ \A q \in Rows : FileOf(q) = f => q = r
        /\ NobodyAttaches(f)
    BY <2>1 DEF FileInv, OldFilesAreTheirs
  <2> QED BY <1>3, <1>8, <2>1, <2>2
<1>12. UnlinkedFilesAreLeft'
  BY <1>6, <1>7, <1>8 DEF FileInv, UnlinkedFilesAreLeft
<1> QED BY <1>9, <1>10, <1>11, <1>12 DEF FileInv

LEMMA FileIsUnlinked ==
  ASSUME TypeOK, FileInv, NEW c \in Clients, Unlink(c)
  PROVE  FileInv'
<1>1. PICK old : old = call[c].file
  OBVIOUS
<1>2. /\ Unlinking(c, old) /\ files' = files \ {old}
      /\ jobs' = jobs /\ expenses' = expenses /\ call' = [call EXCEPT ![c] = Idle]
  BY <1>1 DEF Unlink, Answer, Unlinking
<1>3. Rows' = Rows /\ \A r : FileOf(r)' = FileOf(r)
  BY <1>2 DEF Rows, JobIds, ExpenseIds, FileOf
<1>4. DOMAIN call = Clients
  BY DEF TypeOK
<1>5. \A f : \A d \in Clients :
        /\ Attaching(d, f)' => Attaching(d, f)
        /\ Unlinking(d, f)' => Unlinking(d, f)
        /\ \A r : Replacing(d, r, f)' => Replacing(d, r, f)
  BY <1>2, <1>4 DEF Attaching, Unlinking, Replacing, Idle
<1>6. \A f : /\ Unnamed(f) => Unnamed(f)'
             /\ NobodyAttaches(f) => NobodyAttaches(f)'
  BY <1>3, <1>5 DEF Unnamed, NobodyAttaches
<1>7. old # NoFile => Unnamed(old) /\ NobodyAttaches(old)
  BY <1>2 DEF FileInv, UnlinkedFilesAreLeft
<1>8. FilesOnDisk' /\ OneOwner'
  BY <1>2, <1>3, <1>7 DEF FileInv, FilesOnDisk, OneOwner, Unnamed
<1>9. NewFilesAreOwn'
  BY <1>2, <1>5, <1>6, <1>7, FilesAreReal
     DEF FileInv, NewFilesAreOwn, NobodyAttaches
<1>10. OldFilesAreTheirs'
  BY <1>3, <1>5, <1>6 DEF FileInv, OldFilesAreTheirs
<1>11. UnlinkedFilesAreLeft'
  BY <1>5, <1>6 DEF FileInv, UnlinkedFilesAreLeft
<1> QED BY <1>8, <1>9, <1>10, <1>11 DEF FileInv

(* An update of the row: it names the new file, or it was gone.            *)
LEMMA RowsAreDistinct ==
  /\ \A t, id : Row(t, id).table = t /\ Row(t, id).id = id
  /\ \A t, u, i, k : Row(t, i) = Row(u, k) => t = u /\ i = k
<1>1. \A t, id : Row(t, id).table = t /\ Row(t, id).id = id
  BY DEF Row
<1> QED BY <1>1

LEMMA AttachedNames ==
  ASSUME TypeOK, NEW c \in Clients, Attach(c), NEW row, row = call[c].row
  PROVE  /\ Rows' = Rows
         /\ \A r \in Rows \ {row} : FileOf(r)' = FileOf(r)
         /\ row \in Rows => FileOf(row)' = call[c].file
         /\ Stored(row) <=> row \in Rows
<1>0. /\ JobIds \subseteq JobsMade /\ ExpenseIds \subseteq ExpensesMade
      /\ \A j \in JobIds : jobs[j] \in JobRow
      /\ \A e \in ExpenseIds : expenses[e] \in ExpenseRow
      /\ jobs = [j \in JobIds |-> jobs[j]]
      /\ expenses = [e \in ExpenseIds |-> expenses[e]]
      /\ RowOK(row)
  BY DEF TypeOK, RequestOK, Attach
<1> DEFINE f == call[c].file
<1>1. CASE \E j \in JobsMade : row = Row("jobs", j)
  <2>1. PICK j \in JobsMade : row = Row("jobs", j)
    BY <1>1
  <2>2. Stored(row) <=> row \in Rows
    BY <2>1, RowsAreDistinct DEF Stored, Rows
  <2>3. expenses' = expenses
    BY <2>1 DEF Attach, Row
  <2>4. IF j \in JobIds THEN jobs' = [jobs EXCEPT ![j].file = f]
                        ELSE jobs' = jobs
    BY <2>1, <2>2 DEF Attach, Row, Stored
  <2>5. /\ JobIds' = JobIds /\ ExpenseIds' = ExpenseIds
        /\ \A k \in JobIds \ {j} : jobs'[k] = jobs[k]
        /\ j \in JobIds => jobs'[j].file = f
    <3>1. CASE j \notin JobIds
      BY <2>3, <2>4, <3>1 DEF JobIds, ExpenseIds
    <3>2. CASE j \in JobIds
      <4>1. jobs' = [jobs EXCEPT ![j] = [jobs[j] EXCEPT !.file = f]]
        BY <2>4, <3>2
      <4>2. [jobs[j] EXCEPT !.file = f].file = f
        BY <1>0, <3>2 DEF JobRow
      <4> QED BY <1>0, <2>3, <3>2, <4>1, <4>2 DEF JobIds, ExpenseIds
    <3> QED BY <3>1, <3>2
  <2>6. Rows' = Rows
    BY <2>5 DEF Rows
  <2>7. \A r \in Rows \ {row} : FileOf(r)' = FileOf(r)
    BY <2>1, <2>3, <2>5 DEF Rows, Row, FileOf
  <2>8. row \in Rows => FileOf(row)' = f
    BY <2>1, <2>2, <2>5 DEF Stored, Row, FileOf
  <2> QED BY <2>2, <2>6, <2>7, <2>8
<1>2. CASE \E e \in ExpensesMade : row = Row("expenses", e)
  <2>1. PICK e \in ExpensesMade : row = Row("expenses", e)
    BY <1>2
  <2>2. Stored(row) <=> row \in Rows
    BY <2>1, RowsAreDistinct DEF Stored, Rows
  <2>3. jobs' = jobs
    BY <2>1 DEF Attach, Row
  <2>4. IF e \in ExpenseIds THEN expenses' = [expenses EXCEPT ![e].file = f]
                            ELSE expenses' = expenses
    BY <2>1, <2>2 DEF Attach, Row, Stored
  <2>5. /\ JobIds' = JobIds /\ ExpenseIds' = ExpenseIds
        /\ \A k \in ExpenseIds \ {e} : expenses'[k] = expenses[k]
        /\ e \in ExpenseIds => expenses'[e].file = f
    <3>1. CASE e \notin ExpenseIds
      BY <2>3, <2>4, <3>1 DEF JobIds, ExpenseIds
    <3>2. CASE e \in ExpenseIds
      <4>1. expenses' = [expenses EXCEPT ![e] = [expenses[e] EXCEPT !.file = f]]
        BY <2>4, <3>2
      <4>2. [expenses[e] EXCEPT !.file = f].file = f
        BY <1>0, <3>2 DEF ExpenseRow
      <4> QED BY <1>0, <2>3, <3>2, <4>1, <4>2 DEF JobIds, ExpenseIds
    <3> QED BY <3>1, <3>2
  <2>6. Rows' = Rows
    BY <2>5 DEF Rows
  <2>7. \A r \in Rows \ {row} : FileOf(r)' = FileOf(r)
    BY <2>1, <2>3, <2>5 DEF Rows, Row, FileOf
  <2>8. row \in Rows => FileOf(row)' = f
    BY <2>1, <2>2, <2>5 DEF Stored, Row, FileOf
  <2> QED BY <2>2, <2>6, <2>7, <2>8
<1> QED BY <1>0, <1>1, <1>2 DEF RowOK

LEMMA FileIsAttached ==
  ASSUME TypeOK, FileInv, NEW c \in Clients, Attach(c)
  PROVE  FileInv'
<1>1. PICK row, old, new, left :
        /\ row = call[c].row /\ old = call[c].old /\ new = call[c].file
        /\ left = IF row \in Rows THEN old ELSE new
  OBVIOUS
<1>2. /\ Rows' = Rows
      /\ \A r \in Rows \ {row} : FileOf(r)' = FileOf(r)
      /\ row \in Rows => FileOf(row)' = new
      /\ Leftover(call[c]) = left
  BY <1>1, AttachedNames DEF Leftover
<1>3. /\ DOMAIN call = Clients /\ files' = files
      /\ call' = [call EXCEPT ![c] = [pc |-> "unlink", file |-> left]]
  BY <1>2 DEF Attach, Suspend, TypeOK
<1>4. Attaching(c, new) /\ Replacing(c, row, old)
  BY <1>1 DEF Attaching, Replacing, Attach
<1>5. /\ new \in files /\ Unnamed(new) /\ new # NoFile
      /\ \A d \in Clients : Attaching(d, new) => d = c
  BY <1>4, FilesAreReal DEF FileInv, NewFilesAreOwn
<1>6. old # NoFile =>
        /\ \A r \in Rows : FileOf(r) = old => r = row
        /\ NobodyAttaches(old)
  BY <1>4 DEF FileInv, OldFilesAreTheirs
<1>7. old # new
  BY <1>4, <1>5, <1>6 DEF NobodyAttaches
<1>8. \A f : \A d \in Clients :
        /\ Attaching(d, f)' => Attaching(d, f) /\ d # c
        /\ Unlinking(d, f)' => Unlinking(d, f) \/ (d = c /\ f = left)
        /\ \A r : Replacing(d, r, f)' => Replacing(d, r, f)
  BY <1>3 DEF Attaching, Unlinking, Replacing
<1>9. \A f : /\ Unnamed(f) /\ f # new => Unnamed(f)'
             /\ NobodyAttaches(f) => NobodyAttaches(f)'
  BY <1>2, <1>8 DEF Unnamed, NobodyAttaches
<1>10. FilesOnDisk' /\ OneOwner'
  BY <1>2, <1>3, <1>5 DEF FileInv, FilesOnDisk, OneOwner, Unnamed
<1>11. NewFilesAreOwn'
  <2> SUFFICES ASSUME NEW f, NEW d \in Clients, Attaching(d, f)'
               PROVE  /\ f \in files' /\ Unnamed(f)'
                      /\ \A x \in Clients : Attaching(x, f)' => x = d
    BY DEF NewFilesAreOwn
  <2>1. Attaching(d, f) /\ d # c
    BY <1>8
  <2>2. f # new
    BY <1>5, <2>1
  <2> QED BY <1>3, <1>8, <1>9, <2>1, <2>2 DEF FileInv, NewFilesAreOwn
<1>12. OldFilesAreTheirs'
  <2> SUFFICES ASSUME NEW f, NEW r, NEW d \in Clients,
                      Replacing(d, r, f)', f # NoFile
               PROVE  /\ \A q \in Rows' : FileOf(q)' = f => q = r
                      /\ NobodyAttaches(f)'
    BY DEF OldFilesAreTheirs
  <2>1. /\ \A q \in Rows : FileOf(q) = f => q = r
        /\ NobodyAttaches(f)
    BY <1>8 DEF FileInv, OldFilesAreTheirs
  <2>2. f # new
    BY <1>4, <2>1 DEF NobodyAttaches
  <2> QED BY <1>2, <1>9, <2>1, <2>2
<1>13. left # NoFile => Unnamed(left)' /\ NobodyAttaches(left)'
  <2>1. CASE row \in Rows
    <3>1. left = old
      BY <1>1, <2>1
    <3> QED BY <1>2, <1>6, <1>7, <1>9, <2>1, <3>1 DEF Unnamed
  <2>2. CASE row \notin Rows
    <3>1. left = new
      BY <1>1, <2>2
    <3>2. Unnamed(new)'
      BY <1>2, <1>5, <2>2 DEF Unnamed
    <3>3. NobodyAttaches(new)'
      BY <1>5, <1>8 DEF NobodyAttaches
    <3> QED BY <3>1, <3>2, <3>3
  <2> QED BY <2>1, <2>2
<1>14. UnlinkedFilesAreLeft'
  <2> SUFFICES ASSUME NEW f, NEW d \in Clients, Unlinking(d, f)', f # NoFile
               PROVE  Unnamed(f)' /\ NobodyAttaches(f)'
    BY DEF UnlinkedFilesAreLeft
  <2>1. CASE f = left
    BY <1>13, <2>1
  <2>2. CASE f # left
    <3>1. Unnamed(f) /\ NobodyAttaches(f)
      BY <1>8, <2>2 DEF FileInv, UnlinkedFilesAreLeft
    <3>2. f # new
      BY <1>4, <3>1 DEF NobodyAttaches
    <3> QED BY <1>9, <3>1, <3>2
  <2> QED BY <2>1, <2>2
<1> QED BY <1>10, <1>11, <1>12, <1>14 DEF FileInv

LEMMA FileStep ==
  ASSUME TypeOK, FileInv, Next
  PROVE  FileInv'
<1>1. ASSUME NEW c \in Clients,
             \/ JobStep(c) \/ DriveStep(c) \/ JobWrite(c) \/ ExpenseDeskStep(c)
             \/ ClaimStep(c) \/ ExpenseWrite(c) \/ StatementStep(c)
             \/ StatementWrite(c)
      PROVE  FileInv'
  BY <1>1, QuietSteps, QuietTables, QuietStepsKeepFiles
<1>2. ASSUME NEW c \in Clients, UploadStart(c) \/ UploadStep(c)
      PROVE  FileInv'
  BY <1>2, UploadBegins, FileIsWritten, FileIsAttached, FileIsUnlinked
     DEF UploadStep
<1>3. CASE Crash
  <2>1. SameNames /\ files' = files
    BY <1>3, TablesToNames DEF Crash, tables, JobIds, ExpenseIds
  <2>2. QuietSlots
    BY <1>3 DEF Crash, QuietSlots, Idle
  <2> QED BY <2>1, <2>2, QuietStepsKeepFiles
<1> QED BY <1>1, <1>2, <1>3 DEF Next, OfficeStep, PhoneStep, GoOn, Clients

-----------------------------------------------------------------------------
(* The inductive invariant.                                                *)
IInv == TypeOK /\ StampInv /\ FileInv

LEMMA InitOK == Init => IInv
<1> SUFFICES ASSUME Init PROVE IInv
  OBVIOUS
<1>1. JobIds = {} /\ ExpenseIds = {} /\ Rows = {}
  BY DEF Init, JobIds, ExpenseIds, Rows
<1>2. TypeOK
  <2>1. \A c \in Clients : RequestOK(call[c])
    BY IdleIsOK DEF Init
  <2> QED BY <1>1, <2>1 DEF Init, TypeOK, JobIds, ExpenseIds, JobsMade,
        ExpensesMade, FilesMade
<1>3. StampInv
  BY <1>1 DEF StampInv, MilestonesAreStamped, WritesStamp
<1>4. FileInv
  BY <1>1 DEF Init, FileInv, FilesOnDisk, OneOwner, NewFilesAreOwn,
     OldFilesAreTheirs, UnlinkedFilesAreLeft, Attaching, Replacing, Unlinking,
     Unnamed, NobodyAttaches, Idle
<1> QED BY <1>2, <1>3, <1>4 DEF IInv

LEMMA TypeStep ==
  ASSUME IInv, Next
  PROVE  TypeOK'
<1>0. TypeOK /\ FilesOnDisk /\ UNCHANGED duties
  BY DEF IInv, FileInv, Next
<1>1. ASSUME NEW c \in Clients, OfficeStep(c) \/ PhoneStep(c) \/ GoOn(c)
      PROVE  TypeOK'
  BY <1>0, <1>1, ReadsKeepTypes, JobWritesKeepTypes, ExpenseWritesKeepTypes,
     UploadsKeepTypes
     DEF OfficeStep, PhoneStep, GoOn, JobStep, ExpenseDeskStep, StatementStep,
         DriveStep, ClaimStep, JobWrite, ExpenseWrite, UploadStep,
         StatementWrite
<1> QED BY <1>0, <1>1, CrashKeepsTypes DEF Next, Clients

LEMMA StutterKeepsAll ==
  ASSUME IInv, UNCHANGED vars
  PROVE  IInv'
<1> USE DEF vars, JobIds, ExpenseIds
<1>1. TypeOK'
  BY DEF IInv, TypeOK, JobsMade, ExpensesMade, FilesMade, RequestOK, RowOK,
     ChosenOK
<1>2. StampInv'
  BY DEF IInv, StampInv, MilestonesAreStamped, WritesStamp
<1>3. FileInv'
  <2>1. SameNames /\ QuietSlots /\ files' = files
    BY TablesToNames DEF QuietSlots
  <2> QED BY <2>1, QuietStepsKeepFiles DEF IInv
<1> QED BY <1>1, <1>2, <1>3 DEF IInv

THEOREM Invariance == Spec => []IInv
<1>1. IInv /\ [Next]_vars => IInv'
  <2>1. ASSUME IInv, Next PROVE IInv'
    BY <2>1, TypeStep, StampStep, FileStep DEF IInv
  <2>2. ASSUME IInv, UNCHANGED vars PROVE IInv'
    BY <2>2, StutterKeepsAll
  <2> QED BY <2>1, <2>2
<1> QED BY InitOK, <1>1, PTL DEF Spec

(* Every row and request is well-formed, and knows only ids handed out.    *)
THEOREM TypeCorrect == Spec => []TypeOK
<1>1. IInv => TypeOK
  BY DEF IInv
<1> QED BY Invariance, <1>1, PTL

(***************************************************************************)
(* Office and drivers may write a job's status from stale readings in any  *)
(* order: a job under way or delivered still has the moment it was.        *)
(***************************************************************************)
THEOREM MilestonesStamped == Spec => []MilestonesAreStamped
<1>1. IInv => MilestonesAreStamped
  BY DEF IInv, StampInv
<1> QED BY Invariance, <1>1, PTL

(***************************************************************************)
(* However uploads, replacements, deletions and stops of the server        *)
(* interleave, a receipt or photo a row names is on disk.                  *)
(***************************************************************************)
THEOREM NamedFilesAreOnDisk == Spec => []FilesOnDisk
<1>1. IInv => FilesOnDisk
  BY DEF IInv, FileInv
<1> QED BY Invariance, <1>1, PTL

-----------------------------------------------------------------------------
(***************************************************************************)
(* Money.  What the matches of a job sum to, and what more matches do to   *)
(* the sum.                                                                *)
(***************************************************************************)
Backing(S) == MapThenSumSet(LAMBDA m : m.amount, S)
AmountsIn(S) == [m \in S |-> m.amount]

LEMMA BackingIsSum ==
  ASSUME NEW S, IsFiniteSet(S), NEW T \in SUBSET S
  PROVE  Backing(T) = SumOf(AmountsIn(S), T)
<1> DEFINE f == AmountsIn(S)
<1>1. IsFiniteSet(T)
  BY FS_Subset
<1>2. PICK g : Sums(g, f, SUBSET T)
  BY <1>1, SumsExist
<1>3. ASSUME NEW h,
             h = [s \in SUBSET T |-> IF s = {} THEN 0
                    ELSE PickOf(s).amount + h[s \ {PickOf(s)}]]
      PROVE  h = g
  <2>1. ASSUME NEW s \in SUBSET T
        PROVE  h[s] = IF s = {} THEN 0 ELSE f[PickOf(s)] + h[s \ {PickOf(s)}]
    <3>1. s # {} => PickOf(s) \in S
      BY Picked
    <3>2. s # {} => f[PickOf(s)] = PickOf(s).amount
      BY <3>1 DEF AmountsIn
    <3> QED BY <1>3, <3>2
  <2>2. h = [s \in SUBSET T |-> h[s]]
    BY <1>3
  <2> HIDE DEF f
  <2>3. Sums(h, f, SUBSET T)
    BY <2>1, <2>2 DEF Sums
  <2> QED BY <1>1, <1>2, <2>3, SumsUnique
<1>4. g = [s \in SUBSET T |-> IF s = {} THEN 0
             ELSE PickOf(s).amount + g[s \ {PickOf(s)}]]
  <2>1. ASSUME NEW s \in SUBSET T, s # {} PROVE f[PickOf(s)] = PickOf(s).amount
    <3>1. PickOf(s) \in S
      BY <2>1, Picked
    <3> QED BY <3>1 DEF AmountsIn
  <2>2. \A s \in SUBSET T :
          g[s] = IF s = {} THEN 0 ELSE PickOf(s).amount + g[s \ {PickOf(s)}]
    BY <1>2, <2>1 DEF Sums
  <2>3. g = [s \in SUBSET T |-> g[s]]
    BY <1>2 DEF Sums
  <2> HIDE DEF f
  <2> QED BY <2>2, <2>3
<1>5. Backing(T) = g[T]
  BY <1>3, <1>4 DEF Backing, MapThenSumSet, MapThenFoldSet, PickOf
<1>6. SumOf(f, T) = g[T]
  BY <1>1, <1>2, SumsIsSum
<1> QED BY <1>5, <1>6

LEMMA BackingGrows ==
  ASSUME NEW S, IsFiniteSet(S), \A m \in S : m.amount \in Nat
  PROVE  /\ Backing(S) \in Nat
         /\ \A T \in SUBSET S : Backing(T) \in Nat /\ Backing(T) <= Backing(S)
         /\ \A T \in SUBSET S : \A m \in S \ T :
              Backing(T) + m.amount <= Backing(S)
<1> DEFINE f == AmountsIn(S)
<1>1. \A m \in S : f[m] = m.amount /\ f[m] \in Nat
  BY DEF AmountsIn
<1>2. \A T \in SUBSET S : Backing(T) = SumOf(f, T)
  BY BackingIsSum
<1>3. S \in SUBSET S
  OBVIOUS
<1> HIDE DEF f
<1>4. \A T \in SUBSET S :
        /\ SumOf(f, T) \in Nat /\ SumOf(f, S) \in Nat
        /\ SumOf(f, T) <= SumOf(f, S)
  BY <1>1, <1>3, SumGrows
<1>5. \A T \in SUBSET S : \A m \in S \ T : SumOf(f, T) + m.amount <= SumOf(f, S)
  BY <1>1, SumGains
<1> QED BY <1>2, <1>3, <1>4, <1>5

(***************************************************************************)
(* A commit that was read earlier carries what the job had received then,  *)
(* and the job's matches can only have grown since: its id is never given  *)
(* out again when it is deleted.                                           *)
(***************************************************************************)
StillBacked(w) ==
  \A j \in DOMAIN w.received :
    /\ j \in JobsMade
    /\ j \in JobIds => w.received[j] <= Backing(MatchesOf(j))
CommitsBacked ==
  \A c \in Clients : call[c].pc = "credit" => StillBacked(call[c])
MatchesOK ==
  /\ IsFiniteSet(matches)
  /\ \A m \in matches : m.amount \in Nat /\ m.id \in Nat /\ m.id <= made.matches
JobsBacked == \A j \in JobIds : jobs[j].received <= Backing(MatchesOf(j))
MatchInv == MatchesOK /\ JobsBacked /\ CommitsBacked

NoNewCredit ==
  \A c \in Clients : call'[c] = call[c] \/ call'[c].pc # "credit"

(* Jobs that were there keep their matches, and no id comes back.          *)
MatchesStay ==
  \A j \in JobIds' :
    \/ j \in JobIds /\ MatchesOf(j) \subseteq MatchesOf(j)'
    \/ j \notin JobsMade

LEMMA BackingOfJob ==
  ASSUME MatchesOK, NEW j
  PROVE  /\ IsFiniteSet(MatchesOf(j)) /\ \A m \in MatchesOf(j) : m.amount \in Nat
         /\ Backing(MatchesOf(j)) \in Nat
<1>1. MatchesOf(j) \subseteq matches
  BY DEF MatchesOf
<1>2. IsFiniteSet(MatchesOf(j)) /\ \A m \in MatchesOf(j) : m.amount \in Nat
  BY <1>1, FS_Subset DEF MatchesOK
<1> QED BY <1>2, BackingGrows

LEMMA BackingOfJobNext ==
  ASSUME MatchesOK', NEW j
  PROVE  Backing(MatchesOf(j))' \in Nat
<1> DEFINE S == MatchesOf(j)'
<1>1. S \subseteq matches'
  BY DEF MatchesOf
<1>2. IsFiniteSet(S) /\ \A m \in S : m.amount \in Nat
  BY <1>1, FS_Subset DEF MatchesOK
<1>3. Backing(MatchesOf(j))' = Backing(S)
  OBVIOUS
<1> HIDE DEF S
<1> QED BY <1>2, <1>3, BackingGrows

LEMMA BackingStays ==
  ASSUME MatchesOK', NEW j, MatchesOf(j) \subseteq MatchesOf(j)'
  PROVE  Backing(MatchesOf(j)) \in Nat
         /\ Backing(MatchesOf(j)) <= Backing(MatchesOf(j))'
<1> DEFINE S == MatchesOf(j)'
           T == MatchesOf(j)
<1>1. S \subseteq matches'
  BY DEF MatchesOf
<1>2. IsFiniteSet(S) /\ \A m \in S : m.amount \in Nat
  BY <1>1, FS_Subset DEF MatchesOK
<1>3. T \in SUBSET S /\ Backing(MatchesOf(j))' = Backing(S)
  OBVIOUS
<1> HIDE DEF S, T
<1>4. Backing(T) \in Nat /\ Backing(T) <= Backing(S)
  BY <1>2, <1>3, BackingGrows
<1> QED BY <1>3, <1>4 DEF T

LEMMA CommitsStay ==
  ASSUME TypeOK, MatchInv, MadeGrows, MatchesOK', MatchesStay, NoNewCredit
  PROVE  CommitsBacked'
<1> SUFFICES ASSUME NEW c \in Clients, call'[c].pc = "credit",
                    NEW j \in DOMAIN call'[c].received
             PROVE  /\ j \in JobsMade'
                    /\ j \in JobIds' =>
                         call'[c].received[j] <= Backing(MatchesOf(j))'
  BY DEF CommitsBacked, StillBacked
<1>1. call'[c] = call[c]
  BY DEF NoNewCredit
<1>2. /\ j \in JobsMade /\ call[c].received[j] \in Nat
      /\ j \in JobIds => call[c].received[j] <= Backing(MatchesOf(j))
  BY <1>1 DEF MatchInv, CommitsBacked, StillBacked, TypeOK, RequestOK
<1>3. j \in JobsMade'
  BY <1>2 DEF JobsMade, MadeGrows, TypeOK
<1>4. ASSUME j \in JobIds'
      PROVE  call'[c].received[j] <= Backing(MatchesOf(j))'
  <2>1. j \in JobIds /\ MatchesOf(j) \subseteq MatchesOf(j)'
    BY <1>2, <1>4 DEF MatchesStay
  <2>2. /\ Backing(MatchesOf(j)) \in Nat
        /\ Backing(MatchesOf(j)) <= Backing(MatchesOf(j))'
    BY <2>1, BackingStays
  <2>3. Backing(MatchesOf(j))' \in Nat
    BY BackingOfJobNext
  <2> QED BY <1>1, <1>2, <2>1, <2>2, <2>3
<1> QED BY <1>3, <1>4

(* Steps that neither credit a job nor touch the matches of one that stays. *)
Uncredited ==
  \A j \in JobIds' :
    \/ j \in JobIds /\ jobs'[j].received = jobs[j].received
    \/ j \notin JobsMade /\ jobs'[j].received = 0

LEMMA UncreditedKeeps ==
  ASSUME TypeOK, MatchInv, MadeGrows, MatchesOK', MatchesStay, NoNewCredit,
         Uncredited
  PROVE  MatchInv'
<1>1. ASSUME NEW j \in JobIds'
      PROVE  jobs'[j].received <= Backing(MatchesOf(j))'
  <2>1. Backing(MatchesOf(j))' \in Nat
    BY BackingOfJobNext
  <2>2. CASE j \notin JobsMade
    <3>1. jobs'[j].received = 0
      BY <2>2 DEF Uncredited, TypeOK
    <3> QED BY <2>1, <3>1
  <2>3. CASE j \in JobsMade
    <3>1. j \in JobIds /\ jobs'[j].received = jobs[j].received
          /\ MatchesOf(j) \subseteq MatchesOf(j)'
      BY <2>3 DEF Uncredited, MatchesStay
    <3>2. /\ Backing(MatchesOf(j)) \in Nat
          /\ Backing(MatchesOf(j)) <= Backing(MatchesOf(j))'
      BY <3>1, BackingStays
    <3>3. jobs[j].received \in Nat
          /\ jobs[j].received <= Backing(MatchesOf(j))
      BY <3>1 DEF MatchInv, JobsBacked, TypeOK, JobRow
    <3> QED BY <2>1, <3>1, <3>2, <3>3
  <2> QED BY <2>2, <2>3
<1>2. CommitsBacked'
  BY CommitsStay
<1> QED BY <1>1, <1>2 DEF MatchInv, JobsBacked

LEMMA SameMatches ==
  ASSUME MatchInv, matches' = matches, made'.matches = made.matches
  PROVE  MatchesOK' /\ \A j : MatchesOf(j)' = MatchesOf(j)
BY DEF MatchInv, MatchesOK, MatchesOf

(* What every step but the recording of matches does.                      *)
LEMMA OtherStepsCredit ==
  ASSUME TypeOK, NEW c \in Clients,
         \/ JobStep(c) \/ DriveStep(c) \/ WriteJob(c) \/ ExpenseDeskStep(c)
         \/ ClaimStep(c) \/ ExpenseWrite(c) \/ UploadStart(c)
         \/ UploadStep(c) \/ StatementStep(c)
  PROVE  /\ NoNewCredit /\ matches' = matches /\ made'.matches = made.matches
         /\ Uncredited /\ MadeGrows
<1>0. /\ jobs = [j \in JobIds |-> jobs[j]] /\ DOMAIN call = Clients
      /\ \A j \in JobIds : jobs[j] \in JobRow
      /\ made \in [jobs : Nat, expenses : Nat, files : Nat, matches : Nat]
  BY DEF TypeOK
<1>1. NoNewCredit
  <2> USE DEF NoNewCredit, Suspend, Answer, Idle
  <2>1. CASE JobStep(c) \/ DriveStep(c) \/ WriteJob(c)
    BY <1>0, <2>1 DEF JobStep, DriveStep, CreateJob, UpdateJob, DeleteJob,
       UpdateOwnStatus, WriteJob, Writing
  <2>2. CASE ExpenseDeskStep(c) \/ ClaimStep(c)
    BY <1>0, <2>2 DEF ExpenseDeskStep, ClaimStep, CreateExpense, Decide,
       EditExpense, RemoveExpense, Submit, SubmitForJob, Inserting
  <2>3. CASE ExpenseWrite(c)
    BY <1>0, <2>3 DEF ExpenseWrite, FindScheduled, InsertExpense,
       WriteDecision, WriteEdit, EraseExpense, Inserting
  <2>4. CASE UploadStart(c) \/ UploadStep(c) \/ StatementStep(c)
    BY <1>0, <2>4 DEF UploadStart, UploadReceipt, UploadDeliveryPhoto,
       UploadStep, WriteFile, Attach, Unlink, StatementStep, BeginCommit,
       Uploading
  <2> QED BY <2>1, <2>2, <2>3, <2>4
<1> HIDE DEF NoNewCredit
<1>2. matches' = matches
  BY DEF JobStep, DriveStep, CreateJob, UpdateJob, DeleteJob,
     UpdateOwnStatus, WriteJob, ExpenseDeskStep, ClaimStep, CreateExpense,
     Decide, EditExpense, RemoveExpense, Submit, SubmitForJob, ExpenseWrite,
     FindScheduled, InsertExpense, WriteDecision, WriteEdit, EraseExpense,
     UploadStart, UploadReceipt, UploadDeliveryPhoto, UploadStep, WriteFile,
     Attach, Unlink, StatementStep, BeginCommit, tables
<1>3. \/ made' = made
      \/ made' = [made EXCEPT !.jobs = @ + 1]
      \/ made' = [made EXCEPT !.expenses = @ + 1]
      \/ made' = [made EXCEPT !.files = @ + 1]
  BY DEF JobStep, DriveStep, CreateJob, UpdateJob, DeleteJob,
     UpdateOwnStatus, WriteJob, ExpenseDeskStep, ClaimStep, CreateExpense,
     Decide, EditExpense, RemoveExpense, Submit, SubmitForJob, ExpenseWrite,
     FindScheduled, InsertExpense, WriteDecision, WriteEdit, EraseExpense,
     UploadStart, UploadReceipt, UploadDeliveryPhoto, UploadStep, WriteFile,
     Attach, Unlink, StatementStep, BeginCommit, tables
<1>4. made'.matches = made.matches /\ MadeGrows
  BY <1>0, <1>3 DEF MadeGrows
<1>5. Uncredited
  <2>1. CASE jobs' = jobs
    BY <2>1 DEF Uncredited, JobIds
  <2>2. CASE CreateJob(c)
    <3>1. PICK d \in Drivers \cup {NoDriver} :
            jobs' = With(jobs, made.jobs + 1, Job(d))
      BY <2>2 DEF CreateJob
    <3>2. /\ JobIds' = JobIds \cup {made.jobs + 1}
          /\ jobs'[made.jobs + 1] = Job(d) /\ Job(d).received = 0
          /\ \A j \in JobIds : j # made.jobs + 1 => jobs'[j] = jobs[j]
      BY <3>1 DEF With, JobIds, Job
    <3>3. made.jobs + 1 \notin JobsMade
      BY <1>0 DEF JobsMade
    <3> QED BY <3>2, <3>3 DEF Uncredited
  <2>3. CASE WriteJob(c)
    <3>1. jobs' = jobs \/ jobs' = [jobs EXCEPT ![call[c].job] =
                                     Written(@, call[c])]
      BY <2>3 DEF WriteJob
    <3>2. \A job \in JobRow : Written(job, call[c]).received = job.received
      BY DEF Written, JobRow
    <3> QED BY <1>0, <2>1, <3>1, <3>2 DEF Uncredited, JobIds
  <2>4. CASE Attach(c)
    <3>1. jobs' = jobs \/ jobs' = [jobs EXCEPT ![call[c].row.id].file = call[c].file]
      BY <2>4 DEF Attach
    <3> QED BY <1>0, <2>1, <3>1 DEF Uncredited, JobRow, JobIds
  <2>5. CASE ~(CreateJob(c) \/ WriteJob(c) \/ Attach(c))
    <3>1. jobs' = jobs
      BY <2>5 DEF JobStep, DriveStep, UpdateJob, DeleteJob,
         UpdateOwnStatus, ExpenseDeskStep, ClaimStep, CreateExpense,
         Decide, EditExpense, RemoveExpense, Submit, SubmitForJob,
         ExpenseWrite, FindScheduled, InsertExpense, WriteDecision,
         WriteEdit, EraseExpense, UploadStart, UploadReceipt,
         UploadDeliveryPhoto, UploadStep, WriteFile, Unlink,
         StatementStep, BeginCommit, tables
    <3> QED BY <2>1, <3>1
  <2> QED BY <2>2, <2>3, <2>4, <2>5
<1> QED BY <1>1, <1>2, <1>4, <1>5

LEMMA ErasedKeeps ==
  ASSUME TypeOK, MatchInv, NEW c \in Clients, EraseJob(c)
  PROVE  MatchInv'
<1>0. /\ DOMAIN call = Clients
      /\ made \in [jobs : Nat, expenses : Nat, files : Nat, matches : Nat]
  BY DEF TypeOK
<1>1. NoNewCredit
  BY <1>0 DEF EraseJob, Answer, Idle, NoNewCredit
<1>2. MadeGrows
  BY NothingMade DEF EraseJob
<1>3. MatchesOK'
  <2>1. matches' \subseteq matches /\ made' = made
    BY DEF EraseJob
  <2>2. IsFiniteSet(matches')
    BY <2>1, FS_Subset DEF MatchInv, MatchesOK
  <2> QED BY <2>1, <2>2 DEF MatchInv, MatchesOK
<1>4. \A j \in JobIds' : /\ j \in JobIds /\ j # call[c].job
                         /\ jobs'[j] = jobs[j]
  BY DEF EraseJob, Without, JobIds
<1>5. Uncredited
  BY <1>4 DEF Uncredited
<1>6. MatchesStay
  BY <1>4 DEF MatchesStay, MatchesOf, EraseJob
<1> QED BY <1>1, <1>2, <1>3, <1>5, <1>6, UncreditedKeeps

LEMMA ReadKeeps ==
  ASSUME TypeOK, MatchInv, NEW c \in Clients, ReadJobs(c)
  PROVE  MatchInv'
<1> DEFINE w == call[c]
           found == {w.chosen[i].job : i \in DOMAIN w.chosen} \cap JobIds
           r == [pc |-> "credit", chosen |-> w.chosen,
                 received |-> [j \in found |-> jobs[j].received]]
<1>1. UNCHANGED tables /\ call' = [call EXCEPT ![c] = r]
  BY DEF ReadJobs, Suspend
<1>2. MatchesOK' /\ (\A j : MatchesOf(j)' = MatchesOf(j))
  BY <1>1, SameMatches DEF tables
<1>3. JobIds' = JobIds /\ JobsMade' = JobsMade /\ jobs' = jobs
  BY <1>1 DEF tables, JobIds, JobsMade
<1>4. \A j : Backing(MatchesOf(j))' = Backing(MatchesOf(j))
  BY <1>2
<1>5. DOMAIN r.received = found /\ found \subseteq JobIds
      /\ \A j \in found : r.received[j] = jobs[j].received
  OBVIOUS
<1> HIDE DEF r, found
<1>6. StillBacked(r)
  BY <1>5 DEF StillBacked, MatchInv, JobsBacked, TypeOK
<1>7. \A u : StillBacked(u) => StillBacked(u)'
  BY <1>3, <1>4 DEF StillBacked
<1>8. CommitsBacked'
  <2> SUFFICES ASSUME NEW d \in Clients, call'[d].pc = "credit"
               PROVE  \A j \in DOMAIN call'[d].received :
                        /\ j \in JobsMade'
                        /\ j \in JobIds' =>
                             call'[d].received[j] <= Backing(MatchesOf(j))'
    BY DEF CommitsBacked, StillBacked
  <2>1. call'[d] = r \/ call'[d] = call[d]
    BY <1>1 DEF TypeOK
  <2>2. StillBacked(call'[d])
    BY <1>6, <2>1 DEF MatchInv, CommitsBacked
  <2> QED BY <1>3, <1>4, <2>2 DEF StillBacked
<1>9. JobsBacked'
  BY <1>3, <1>4 DEF MatchInv, JobsBacked
<1> QED BY <1>2, <1>8, <1>9 DEF MatchInv

LEMMA CommittedKeeps ==
  ASSUME TypeOK, MatchInv, NEW c \in Clients, CommitMatches(c)
  PROVE  MatchInv'
<1> DEFINE w == call[c]
           D == DOMAIN w.received
           New == NewMatches(w)
<1>0. /\ DOMAIN call = Clients /\ RequestOK(w) /\ w.pc = "credit"
      /\ made \in [jobs : Nat, expenses : Nat, files : Nat, matches : Nat]
      /\ JobIds \subseteq JobsMade
  BY DEF TypeOK, CommitMatches
<1>1. NoNewCredit
  BY <1>0 DEF CommitMatches, Answer, Idle, NoNewCredit
<1>2. CASE UNCHANGED <<jobs, matches, made>>
  <2>1. MatchesOK' /\ (\A j : MatchesOf(j)' = MatchesOf(j)) /\ JobIds' = JobIds
    BY <1>2, SameMatches DEF JobIds
  <2>2. MadeGrows /\ MatchesStay /\ Uncredited
    BY <1>2, <2>1, NothingMade DEF MatchesStay, Uncredited
  <2> QED BY <1>1, <2>1, <2>2, UncreditedKeeps
<1>3. CASE ~ UNCHANGED <<jobs, matches, made>>
  <2>1. /\ D \subseteq JobIds
        /\ jobs' = [j \in JobIds |->
             IF j \in D THEN [jobs[j] EXCEPT !.received = Credit(w, j)]
                        ELSE jobs[j]]
        /\ matches' = matches \cup New
        /\ made' = [made EXCEPT !.matches = @ + Len(Statement)]
    BY <1>3 DEF CommitMatches
  <2>2. /\ Len(Statement) \in Nat /\ RowNumbers = 1..Len(Statement)
        /\ \A i \in Credited(w) : AmountOf(w, i) \in Nat
        /\ Credited(w) \subseteq 1..Len(Statement)
    BY <1>0, StatementRows DEF Credited, AmountOf, RequestOK, ChosenOK
  <2>3. MadeGrows /\ JobsMade' = JobsMade /\ JobIds' = JobIds
        /\ made'.matches = made.matches + Len(Statement)
    BY <1>0, <2>1, <2>2 DEF MadeGrows, JobsMade, JobIds
  <2>4. \A m \in New : /\ m.amount \in Nat /\ m.id \in Nat
                       /\ m.id > made.matches
                       /\ m.id <= made.matches + Len(Statement)
    <3> SUFFICES ASSUME NEW i \in Credited(w)
                 PROVE  /\ AmountOf(w, i) \in Nat
                        /\ made.matches + i \in Nat
                        /\ made.matches + i > made.matches
                        /\ made.matches + i <= made.matches + Len(Statement)
      BY DEF NewMatches, Match
    <3>1. made.matches \in Nat
      BY <1>0
    <3> QED BY <2>2, <3>1
  <2>5. IsFiniteSet(New)
    <3>1. IsFiniteSet(Credited(w))
      <4>1. IsFiniteSet(1..Len(Statement))
        BY <2>2, FS_Interval
      <4> QED BY <2>2, <4>1, FS_Subset
    <3> DEFINE f == [i \in Credited(w) |-> Match(w, i)]
    <3>2. f \in [Credited(w) -> New] /\ \A m \in New : \E i \in Credited(w) : m = f[i]
      BY DEF NewMatches
    <3> HIDE DEF f, New
    <3> QED BY <3>1, <3>2, ImageOfFinite
  <2>6. MatchesOK'
    <3>1. IsFiniteSet(matches')
      BY <2>1, <2>5, FS_Union DEF MatchInv, MatchesOK
    <3>2. made.matches \in Nat
      BY <1>0
    <3> HIDE DEF New
    <3> QED BY <2>1, <2>2, <2>3, <2>4, <3>1, <3>2 DEF MatchInv, MatchesOK
  <2>7. \A j : MatchesOf(j) \subseteq MatchesOf(j)'
    BY <2>1 DEF MatchesOf
  <2>8. CommitsBacked'
    <3>1. MatchesStay
      BY <2>3, <2>7 DEF MatchesStay
    <3> QED BY <1>1, <2>3, <2>6, <3>1, CommitsStay
  <2>9. ASSUME NEW j \in JobIds, j \notin D
        PROVE  jobs'[j].received <= Backing(MatchesOf(j))'
    <3>1. jobs'[j] = jobs[j]
      BY <2>1, <2>9
    <3>2. /\ Backing(MatchesOf(j)) \in Nat /\ Backing(MatchesOf(j))' \in Nat
          /\ Backing(MatchesOf(j)) <= Backing(MatchesOf(j))'
      BY <2>6, <2>7, BackingStays, BackingOfJobNext
    <3>3. jobs[j].received <= Backing(MatchesOf(j)) /\ jobs[j].received \in Nat
      BY DEF MatchInv, JobsBacked, TypeOK, JobRow
    <3> QED BY <3>1, <3>2, <3>3
  <2>10. ASSUME NEW j \in D
         PROVE  jobs'[j].received <= Backing(MatchesOf(j))'
    <3> DEFINE r == LastOf(RowsFor(w, j))
               m == Match(w, r)
               S == MatchesOf(j)'
    <3>1. RowsFor(w, j) # {} /\ w.received[j] \in Nat
      BY <1>0 DEF RequestOK
    <3>2. r \in DOMAIN w.chosen /\ w.chosen[r].job = j /\ r \in Credited(w)
      <4>1. r \in RowsFor(w, j)
        BY <1>0, <3>1, LastRow DEF RequestOK
      <4> HIDE DEF r
      <4> QED BY <4>1 DEF RowsFor, Credited
    <3>3. m \in New /\ m \notin matches
      <4>1. m \in New
        BY <3>2 DEF NewMatches
      <4>2. m.id > made.matches /\ m.id \in Nat /\ made.matches \in Nat
        BY <1>0, <2>4, <4>1
      <4>3. \A x \in matches : x.id <= made.matches
        BY DEF MatchInv, MatchesOK
      <4> HIDE DEF m, New
      <4> QED BY <4>1, <4>2, <4>3
    <3>4. m \in S \ MatchesOf(j)
      BY <2>1, <3>2, <3>3 DEF MatchesOf, Match
    <3>5. IsFiniteSet(S) /\ \A x \in S : x.amount \in Nat
      <4>1. S \subseteq matches'
        BY DEF MatchesOf
      <4> HIDE DEF S
      <4> QED BY <2>6, <4>1, FS_Subset DEF MatchesOK
    <3>6. MatchesOf(j) \in SUBSET S
      BY <2>7
    <3>7. Backing(MatchesOf(j))' = Backing(S)
      OBVIOUS
    <3>8. /\ Backing(MatchesOf(j)) + m.amount <= Backing(S)
          /\ Backing(S) \in Nat /\ Backing(MatchesOf(j)) \in Nat
      <4> HIDE DEF S, m
      <4> QED BY <3>4, <3>5, <3>6, BackingGrows
    <3>9. m.amount = AmountOf(w, r) /\ m.amount \in Nat
      BY <2>2, <3>2 DEF Match
    <3>10. jobs'[j].received = w.received[j] + AmountOf(w, r)
      <4>1. jobs'[j] = [jobs[j] EXCEPT !.received = Credit(w, j)]
        BY <2>1
      <4>2. jobs[j] \in JobRow
        BY <2>1 DEF TypeOK
      <4> QED BY <4>1, <4>2 DEF Credit, JobRow
    <3>11. w.received[j] <= Backing(MatchesOf(j))
      BY <1>0, <2>1 DEF MatchInv, CommitsBacked, StillBacked
    <3> HIDE DEF S, m, r
    <3> QED BY <3>1, <3>7, <3>8, <3>9, <3>10, <3>11
  <2>11. JobsBacked'
    BY <2>3, <2>9, <2>10 DEF JobsBacked
  <2> QED BY <2>6, <2>8, <2>11 DEF MatchInv
<1> QED BY <1>2, <1>3

LEMMA MatchStep ==
  ASSUME TypeOK, MatchInv, Next
  PROVE  MatchInv'
<1>1. ASSUME NEW c \in Clients,
             \/ JobStep(c) \/ DriveStep(c) \/ WriteJob(c) \/ ExpenseDeskStep(c)
             \/ ClaimStep(c) \/ ExpenseWrite(c) \/ UploadStart(c)
             \/ UploadStep(c) \/ StatementStep(c)
      PROVE  MatchInv'
  <2>1. /\ NoNewCredit /\ matches' = matches /\ made'.matches = made.matches
        /\ Uncredited /\ MadeGrows
    BY <1>1, OtherStepsCredit
  <2>2. MatchesOK' /\ (\A j : MatchesOf(j)' = MatchesOf(j))
    BY <2>1, SameMatches
  <2>3. MatchesStay
    BY <2>1, <2>2 DEF MatchesStay, Uncredited
  <2> QED BY <2>1, <2>2, <2>3, UncreditedKeeps
<1>2. ASSUME NEW c \in Clients, EraseJob(c) \/ StatementWrite(c)
      PROVE  MatchInv'
  BY <1>2, ErasedKeeps, ReadKeeps, CommittedKeeps DEF StatementWrite
<1>3. CASE Crash
  <2>1. MatchesOK' /\ (\A j : MatchesOf(j)' = MatchesOf(j))
    BY <1>3, SameMatches DEF Crash, tables
  <2>2. NoNewCredit /\ MadeGrows /\ Uncredited
    BY <1>3, NothingMade DEF Crash, tables, NoNewCredit, Idle, Uncredited,
       JobIds
  <2>3. MatchesStay
    BY <2>1, <2>2 DEF MatchesStay, Uncredited
  <2> QED BY <2>1, <2>2, <2>3, UncreditedKeeps
<1> QED BY <1>1, <1>2, <1>3 DEF Next, OfficeStep, PhoneStep, GoOn, Clients,
      JobWrite

(***************************************************************************)
(* However requests, readings and commits of statements overlap, and jobs  *)
(* are deleted under them: a job is never shown to have received more than *)
(* its recorded matches account for.                                       *)
(***************************************************************************)
THEOREM ReceivedIsBacked == Spec => []ReceivedIsBackedByMatches
<1>1. Init => MatchInv
  <2> SUFFICES ASSUME Init PROVE MatchInv
    OBVIOUS
  <2>1. JobIds = {} /\ IsFiniteSet(matches) /\ matches = {}
    BY FS_EmptySet DEF Init, JobIds
  <2> QED BY <2>1 DEF Init, Idle, MatchInv, MatchesOK, JobsBacked,
        CommitsBacked
<1>2. IInv /\ MatchInv /\ [Next]_vars => MatchInv'
  <2>1. ASSUME IInv, MatchInv, Next PROVE MatchInv'
    BY <2>1, MatchStep DEF IInv
  <2>2. ASSUME MatchInv, UNCHANGED vars PROVE MatchInv'
    <3>1. MatchesOK' /\ (\A j : MatchesOf(j)' = MatchesOf(j))
      BY <2>2, SameMatches DEF vars
    <3>2. UNCHANGED <<jobs, call, made>> /\ JobIds' = JobIds
          /\ JobsMade' = JobsMade
      BY <2>2 DEF vars, JobIds, JobsMade
    <3>3. \A j : Backing(MatchesOf(j))' = Backing(MatchesOf(j))
      BY <3>1
    <3>4. \A u : StillBacked(u) => StillBacked(u)'
      BY <3>2, <3>3 DEF StillBacked
    <3>5. CommitsBacked'
      <4> SUFFICES ASSUME NEW c \in Clients, call[c].pc = "credit"
                   PROVE  StillBacked(call[c])'
        BY <3>2 DEF CommitsBacked
      <4>1. StillBacked(call[c])
        BY <2>2 DEF MatchInv, CommitsBacked
      <4> QED BY <3>2, <3>3, <4>1 DEF StillBacked
    <3> QED BY <2>2, <3>1, <3>2, <3>3, <3>5 DEF MatchInv, JobsBacked
  <2> QED BY <2>1, <2>2
<1>3. MatchInv => ReceivedIsBackedByMatches
  BY DEF MatchInv, JobsBacked, ReceivedIsBackedByMatches, Backing
<1> QED BY Invariance, <1>1, <1>2, <1>3, PTL DEF Spec
=============================================================================
