------------------------------ MODULE Uploads -------------------------------
(***************************************************************************)
(* Photos and receipts: expense.service.ts uploadReceipt and               *)
(* transport.service.ts uploadDeliveryPhoto.  The file is written first,   *)
(* then the row names it, then the file it replaces is unlinked.           *)
(***************************************************************************)
EXTENDS TransportTables

(* Both look at the row first and remember the file it names.              *)
Uploading(row) == [pc |-> "writeFile", row |-> row, old |-> FileOf(row)]

UploadReceipt(c) ==
  /\ "upload" \in duties[c]
  /\ Free(c)
  /\ \E e \in ExpenseIds :
       /\ expenses[e].rider \in Drivers
       /\ expenses[e].status = "PENDING"
       /\ Suspend(c, Uploading(Row("expenses", e)))
  /\ UNCHANGED tables

UploadDeliveryPhoto(c) ==
  /\ "upload" \in duties[c]
  /\ Free(c)
  /\ \E j \in JobIds :
       /\ jobs[j].driver \in Drivers
       /\ jobs[j].status = "IN_TRANSIT"
       /\ Suspend(c, Uploading(Row("jobs", j)))
  /\ UNCHANGED tables

(* Every file has a name of its own, a random UUID.                        *)
WriteFile(c) ==
  /\ call[c].pc = "writeFile"
  /\ made.files < MaxFiles
  /\ LET f == made.files + 1
     IN  /\ files' = files \cup {f}
         /\ Suspend(c, [pc |-> "attach", row |-> call[c].row,
                        old |-> call[c].old, file |-> f])
  /\ made' = [made EXCEPT !.files = @ + 1]
  /\ UNCHANGED <<jobs, expenses, matches>>

(* What is left to unlink once the row was, or was not, there to update.   *)
Leftover_TheNewOne(w) == w.file
Leftover(w) == IF Stored(w.row) THEN w.old ELSE w.file

Attach(c) ==
  /\ call[c].pc = "attach"
  /\ LET w == call[c]
     IN  /\ IF w.row \in Rows /\ w.row.table = "jobs"
            THEN jobs' = [jobs EXCEPT ![w.row.id].file = w.file]
            ELSE UNCHANGED jobs
         /\ IF w.row \in Rows /\ w.row.table = "expenses"
            THEN expenses' = [expenses EXCEPT ![w.row.id].file = w.file]
            ELSE UNCHANGED expenses
         /\ Suspend(c, [pc |-> "unlink", file |-> Leftover(w)])
  /\ UNCHANGED <<matches, files, made>>

(* A failing unlink is ignored: there is nothing to unlink for NoFile.     *)
Unlink(c) ==
  /\ call[c].pc = "unlink"
  /\ files' = files \ {call[c].file}
  /\ Answer(c)
  /\ UNCHANGED <<jobs, expenses, matches, made>>

UploadStart(c) == UploadReceipt(c) \/ UploadDeliveryPhoto(c)
UploadStep(c) == WriteFile(c) \/ Attach(c) \/ Unlink(c)
=============================================================================
