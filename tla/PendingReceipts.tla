--------------------------- MODULE PendingReceipts --------------------------
(***************************************************************************)
(* Photos of expenses the server already has: retryPendingReceipt and      *)
(* flushPendingReceipts of expenseQueue.ts, their copies in                *)
(* jobExpenseQueue.ts, and the screens' "upload now".  Four callers run    *)
(* retryPendingReceipt: the submit handler, the flush, the sweep, the tap. *)
(***************************************************************************)
EXTENDS PhoneStorage

(* What a caller does once its photo is dealt with, r its held state: the  *)
(* flush goes on with the rest of its copy of the queue whatever became of *)
(* the photo, the sweep stops at the first one that met no network.        *)
Onward(p, r) ==
  CASE p \in Syncs /\ r.left # <<>> ->
         [pc |-> "post", item |-> Head(r.left), left |-> Tail(r.left)]
    [] p \in Sweeps /\ r.left # <<>> /\ r.got # "network" ->
         [pc |-> "upload", photo |-> Head(r.left), left |-> Tail(r.left)]
    [] OTHER -> Rest

(* The upload's answer: stored; an ApiError, which the server's failure    *)
(* and the end of the session are too; no network, or an answer lost (a    *)
(* photo uploaded again replaces itself, and counts from the answer on).   *)
(* The list is read once it is there.                                      *)
Filed(p, got) ==
  Hold(p, [pc |-> "store", photo |-> run[p].photo, left |-> run[p].left,
           got |-> got, list |-> receipts])

TryUpload(p) ==
  /\ run[p].pc = "upload"
  /\ \/ /\ session = "live"
        /\ Filed(p, "uploaded")
        /\ server' = [server EXCEPT !.photos = @ \cup {run[p].photo}]
        /\ UNCHANGED <<session, troubles>>
     \/ /\ Filed(p, "rejected")
        /\ \/ UNCHANGED <<session, troubles>>
           \/ SessionAfter401
        /\ UNCHANGED server
     \/ /\ Filed(p, "network")
        /\ UNCHANGED <<session, server, troubles>>
  /\ UNCHANGED <<kind, queue, receipts, past, odd>>

(* retryPendingReceipt's last step: the list as it was read, without this  *)
(* photo, and with it at the end again while there is no network.  (The    *)
(* list holds a photo at most once: TypeOK.)                               *)
Relisted_NeverAgain(list, photo, got) == RemoveFirst(list, photo)
Relisted_Twice(list, photo, got) ==
  list \o (IF got = "network" THEN <<photo>> ELSE <<>>)
Relisted(list, photo, got) ==
  RemoveFirst(list, photo) \o (IF got = "network" THEN <<photo>> ELSE <<>>)

(* A photo listed while another caller holds an older copy of the list may *)
(* be overwritten by it: `odd` remembers those.  A refused photo is gone.  *)
StoreReceipts(p) ==
  /\ run[p].pc = "store"
  /\ receipts' = Relisted(run[p].list, run[p].photo, run[p].got)
  /\ Hold(p, Onward(p, run[p]))
  /\ IF \E q \in Routines \ {p} : run[q].pc = "store"
     THEN Mark("photos", {run[p].photo})
     ELSE UNCHANGED odd
  /\ IF run[p].got = "rejected" THEN Noted("dropped", {run[p].photo})
                                ELSE UNCHANGED past
  /\ UNCHANGED <<kind, queue, session, server, troubles>>

(* flushPendingReceipts: over a copy of the list, one photo at a time.     *)
Sweep(p) ==
  /\ Guarded(Sweeps, p) /\ Free(p) /\ FirstOf(Sweeps, p)
  /\ session = "live"
  /\ receipts # <<>>
  /\ Hold(p, [pc |-> "upload", photo |-> Head(receipts),
              left |-> Tail(receipts)])
  /\ UNCHANGED <<kind, queue, receipts, session, server, past, odd, troubles>>

FlushPendingReceipts(p) == kind = "expenses" /\ Sweep(p)
FlushPendingJobReceipts(p) == kind = "jobExpenses" /\ Sweep(p)

(* The driver taps a listed photo; no flag is asked.                       *)
UploadNow ==
  /\ Free(Tap)
  /\ session = "live"
  /\ \E photo \in ToSet(receipts) :
       Hold(Tap, [pc |-> "upload", photo |-> photo, left |-> <<>>])
  /\ UNCHANGED <<kind, queue, receipts, session, server, past, odd, troubles>>

HandleRetryReceipt == kind = "expenses" /\ UploadNow
HandleRetryJobReceipt == kind = "jobExpenses" /\ UploadNow

ReceiptStep(p) == TryUpload(p) \/ StoreReceipts(p)
=============================================================================
