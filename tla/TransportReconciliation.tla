----------------------- MODULE TransportReconciliation ----------------------
(***************************************************************************)
(* transport-reconciliation: the owner uploads a bank statement, is shown  *)
(* jobs that each of its rows may pay for, and commits a job for each row  *)
(* that is not skipped.  The preview only reads, and the commit does not   *)
(* ask what was previewed: it takes any job of the company for any row,    *)
(* and a row as often as the request names it.  A row of Statement is its  *)
(* amount; rows that cannot be read again are passed over like jobs that   *)
(* are not found.                                                          *)
(***************************************************************************)
EXTENDS TransportTables

RowNumbers == DOMAIN Statement

(* What a request may ask for, in its order; as many rows as the statement *)
(* has.                                                                    *)
Selections ==
  UNION {[1..n -> [row : RowNumbers, job : JobIds]] : n \in RowNumbers}

BeginCommit(c) ==
  /\ "statement" \in duties[c]
  /\ Free(c)
  /\ made.matches < MaxMatches
  /\ \E chosen \in Selections :
       Suspend(c, [pc |-> "commit", chosen |-> chosen])
  /\ UNCHANGED tables

(* Commit reads the chosen jobs in one statement; the ones it does not     *)
(* find are answered with an error, row by row.                            *)
ReadJobs(c) ==
  /\ call[c].pc = "commit"
  /\ LET chosen == call[c].chosen
         found == {chosen[i].job : i \in DOMAIN chosen} \cap JobIds
     IN  Suspend(c, [pc |-> "credit", chosen |-> chosen,
                     received |-> [j \in found |-> jobs[j].received]])
  /\ UNCHANGED tables

(***************************************************************************)
(* One transaction: row by row, the job gets what it had when it was read  *)
(* plus the row's amount, and a match is recorded.  It fails as a whole    *)
(* when one of the jobs is gone.                                           *)
(***************************************************************************)
RowsFor(w, j) == {i \in DOMAIN w.chosen : w.chosen[i].job = j}
AmountOf(w, i) == Statement[w.chosen[i].row]
LastOf(R) == CHOOSE r \in R : \A q \in R : q <= r
Credit_Debit(w, j) == w.received[j] - AmountOf(w, LastOf(RowsFor(w, j)))
Credit(w, j) == w.received[j] + AmountOf(w, LastOf(RowsFor(w, j)))

Credited(w) == {i \in DOMAIN w.chosen : w.chosen[i].job \in DOMAIN w.received}
Match(w, i) ==
  [id |-> made.matches + i, job |-> w.chosen[i].job, amount |-> AmountOf(w, i)]
NewMatches_UnlessPaid(w) ==
  {Match(w, i) : i \in {q \in Credited(w) : w.received[w.chosen[q].job] = 0}}
NewMatches(w) == {Match(w, i) : i \in Credited(w)}

CommitMatches(c) ==
  /\ call[c].pc = "credit"
  /\ LET w == call[c]
         credited == DOMAIN w.received
     IN  IF credited \subseteq JobIds
         THEN /\ jobs' = [j \in JobIds |->
                   IF j \in credited
                   THEN [jobs[j] EXCEPT !.received = Credit(w, j)]
                   ELSE jobs[j]]
              /\ matches' = matches \cup NewMatches(w)
              /\ made' = [made EXCEPT !.matches = @ + Len(Statement)]
         ELSE UNCHANGED <<jobs, matches, made>>
  /\ Answer(c)
  /\ UNCHANGED <<expenses, files>>

StatementStep(c) == BeginCommit(c)
StatementWrite(c) == ReadJobs(c) \/ CommitMatches(c)
=============================================================================
