------------------------------ MODULE MCClients -----------------------------
(***************************************************************************)
(* Clients for TLC.  jobExpenseQueue.ts is expenseQueue.ts under other     *)
(* names, so its interleavings are those of "expenses".                    *)
(***************************************************************************)
EXTENDS Clients

MCTogether ==
  [k \in QueueKinds \cup {"tokens"} |-> IF k = "jobExpenses" THEN 1 ELSE 2]
=============================================================================
