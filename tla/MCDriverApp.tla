----------------------------- MODULE MCDriverApp ----------------------------
(***************************************************************************)
(* DriverApp alone for TLC.  jobExpenseQueue.ts is expenseQueue.ts under   *)
(* other names, so its interleavings are those of "expenses".              *)
(***************************************************************************)
EXTENDS DriverApp

MCTogether ==
  [k \in QueueKinds \cup {"tokens"} |-> IF k = "jobExpenses" THEN 1 ELSE 2]
=============================================================================
