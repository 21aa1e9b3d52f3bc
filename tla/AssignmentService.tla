-------------------------- MODULE AssignmentService -------------------------
(***************************************************************************)
(* assignment.service.ts: making and deleting manual assignments.          *)
(***************************************************************************)
EXTENDS PlanTables

(* assertVehicleNotOnAnotherDriversPlan                                    *)
OnAnotherDriversPlan(driver, vehicle) ==
  \E p \in ActivePlans :
     plans[p].vehicle = vehicle /\ plans[p].driver # driver

(***************************************************************************)
(* POST /assignments, the reads.  What decides the two booking checks is   *)
(* decided again by the unique indexes when the row is inserted.           *)
(***************************************************************************)
CreateAssignment(c) ==
  /\ "assign" \in Operations
  /\ call[c].pc = "idle"
  /\ \E d \in Drivers, v \in Vehicles, day \in BookableDays, t \in Targets :
       LET r == Row(d, v, day, t, Manual)
       IN  /\ ~OnAnotherDriversPlan(d, v)
           /\ Insertable(r)
           /\ call' = [call EXCEPT ![c] = [pc |-> "assign", row |-> r]]
  /\ UNCHANGED <<tables, today, run>>

(* The insert: P2002 is answered with a conflict.                          *)
InsertAssignment(c) ==
  /\ call[c].pc = "assign"
  /\ LET r == Stamped(call[c].row)
     IN  IF Insertable(r) THEN rows' = rows \cup {r} ELSE UNCHANGED rows
  /\ Answer(c)
  /\ UNCHANGED <<plans, payments, deletions, today, run>>

(* payments.dailyAssignmentId, ON DELETE RESTRICT                          *)
Deletable_UnlessCompleted(r) ==
  \A x \in payments : x.row = r => x.status # "COMPLETED"
Deletable(r) == \A x \in payments : x.row # r

(***************************************************************************)
(* DELETE /assignments/:id.  The read of the payments and the delete are   *)
(* one step: payments are never deleted, so a row the foreign key lets go  *)
(* had no payment when it was read either.                                 *)
(***************************************************************************)
DeleteAssignment(c) ==
  /\ "delete" \in Operations
  /\ call[c].pc = "idle"
  /\ deletions < MaxDeletions
  /\ \E r \in rows : Deletable(r) /\ rows' = rows \ {r}
  /\ deletions' = deletions + 1
  /\ UNCHANGED <<plans, payments, today, call, run>>

AssignmentStep(c) ==
  CreateAssignment(c) \/ InsertAssignment(c) \/ DeleteAssignment(c)
=============================================================================
