-------------------------- MODULE TransportService --------------------------
(***************************************************************************)
(* transport.service.ts: jobs, their status and their deletion.            *)
(***************************************************************************)
EXTENDS TransportTables

(* POST /transport-jobs                                                    *)
CreateJob(c) ==
  /\ "job" \in duties[c]
  /\ Free(c) /\ made.jobs < MaxJobs
  /\ \E d \in Drivers \cup {NoDriver} :
       jobs' = With(jobs, made.jobs + 1, Job(d))
  /\ made' = [made EXCEPT !.jobs = @ + 1]
  /\ UNCHANGED <<expenses, matches, files, call>>

(***************************************************************************)
(* What a status change writes, from the job as it was read: the status,   *)
(* and the milestone it reaches if that was not stamped yet.               *)
(***************************************************************************)
StatusChange_FromTransitOnly(existing, status) ==
  [status |-> status,
   pickedUp |-> status = "IN_TRANSIT" /\ ~existing.pickedUp,
   delivered |-> status = "DELIVERED" /\ existing.status = "IN_TRANSIT"]
StatusChange(existing, status) ==
  [status |-> status,
   pickedUp |-> status = "IN_TRANSIT" /\ ~existing.pickedUp,
   delivered |-> status = "DELIVERED" /\ ~existing.delivered]
NoChange == [status |-> Kept, pickedUp |-> FALSE, delivered |-> FALSE]

(***************************************************************************)
(* PATCH /transport-jobs/:id.  An owner may give any status, and may give  *)
(* the job to another driver or take it over.                              *)
(***************************************************************************)
Writing(j, change, driver) ==
  [pc |-> "writeJob", job |-> j, change |-> change, driver |-> driver]

UpdateJob(c) ==
  /\ "update" \in duties[c]
  /\ Free(c)
  /\ \E j \in JobIds, s \in JobStatus, d \in Drivers \cup {NoDriver, Kept} :
       LET change == IF s = jobs[j].status THEN NoChange
                                           ELSE StatusChange(jobs[j], s)
       IN  Suspend(c, Writing(j, change, d))
  /\ UNCHANGED tables

(* PATCH /transport-jobs/:id/status: a driver moves their own job forward. *)
Forward(from, to) == <<from, to>> \in
  {<<"SCHEDULED", "IN_TRANSIT">>, <<"IN_TRANSIT", "DELIVERED">>}

UpdateOwnStatus(c) ==
  /\ "drive" \in duties[c]
  /\ Free(c)
  /\ \E d \in Drivers, j \in JobIds, s \in JobStatus :
       /\ jobs[j].driver = d
       /\ Forward(jobs[j].status, s)
       /\ Suspend(c, Writing(j, StatusChange(jobs[j], s), Kept))
  /\ UNCHANGED tables

(* The update by id; a job deleted since is answered with an error.        *)
Written(job, w) ==
  [job EXCEPT
    !.status = IF w.change.status = Kept THEN @ ELSE w.change.status,
    !.pickedUp = @ \/ w.change.pickedUp,
    !.delivered = @ \/ w.change.delivered,
    !.driver = IF w.driver = Kept THEN @ ELSE w.driver]

WriteJob(c) ==
  /\ call[c].pc = "writeJob"
  /\ LET j == call[c].job
     IN  IF j \in JobIds
         THEN jobs' = [jobs EXCEPT ![j] = Written(@, call[c])]
         ELSE UNCHANGED jobs
  /\ Answer(c)
  /\ UNCHANGED <<expenses, matches, files, made>>

(***************************************************************************)
(* DELETE /transport-jobs/:id: refused while the job has expenses.         *)
(***************************************************************************)
Deletable(j) == ExpensesOf(j) = {}

DeleteJob(c) ==
  /\ "delete" \in duties[c]
  /\ Free(c)
  /\ \E j \in JobIds : Deletable(j) /\ Suspend(c, [pc |-> "deleteJob", job |-> j])
  /\ UNCHANGED tables

(* ON DELETE SET NULL on expenses, CASCADE on matches.                     *)
EraseJob(c) ==
  /\ call[c].pc = "deleteJob"
  /\ LET j == call[c].job
     IN  /\ jobs' = Without(jobs, j)
         /\ expenses' = [e \in ExpenseIds |->
              IF expenses[e].job = j THEN [expenses[e] EXCEPT !.job = NoJob]
                                     ELSE expenses[e]]
         /\ matches' = {m \in matches : m.job # j}
  /\ Answer(c)
  /\ UNCHANGED <<files, made>>

JobStep(c) == CreateJob(c) \/ UpdateJob(c) \/ DeleteJob(c)
DriveStep(c) == UpdateOwnStatus(c)
JobWrite(c) == WriteJob(c) \/ EraseJob(c)
=============================================================================
