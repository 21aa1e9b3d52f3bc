---------------------------- MODULE OfflineQueues ---------------------------
(***************************************************************************)
(* The offline queues of queue.ts, expenseQueue.ts and jobExpenseQueue.ts: *)
(* the submit handlers that fill them and the flushes that empty them.     *)
(***************************************************************************)
EXTENDS PhoneStorage

(***************************************************************************)
(* A POST and its answer.  The flush goes on to store its copy without the *)
(* item; the submit handler goes on to its photo, keeps its form, or, for  *)
(* NetworkError alone, reads the queue to save the item in it.             *)
(***************************************************************************)
Judged(i) ==        \* the server refuses it on its contents
  /\ session = "live"
  /\ server' = [server EXCEPT !.refused = @ \cup {i}]
  /\ UNCHANGED <<session, troubles>>

SignedOut ==        \* the server never looked at it
  /\ SessionAfter401
  /\ UNCHANGED server

Taken(i) == server' = [server EXCEPT !.accepted[i] = @ + 1]

UploadOf(i, n, left) ==
  [pc |-> "upload", photo |-> Made(i, n), left |-> left]

AfterYes(p, i) ==
  CASE p \in Syncs -> [run[p] EXCEPT !.pc = "took"]
    [] p = Form /\ HasPhoto(i) -> UploadOf(i, server'.accepted[i], <<>>)
    [] OTHER -> Rest
AfterNo(p) == IF p = Form THEN Rest ELSE [run[p] EXCEPT !.pc = "refused"]
AfterNothing(p) ==
  IF p = Form THEN [pc |-> "save", item |-> run[p].item, list |-> queue]
              ELSE Rest

Accept(p) ==
  /\ run[p].pc = "post"
  /\ session = "live"
  /\ Taken(run[p].item)
  /\ Hold(p, AfterYes(p, run[p].item))
  /\ UNCHANGED <<kind, queue, receipts, session, past, odd, troubles>>

Refuse(p) ==
  /\ run[p].pc = "post"
  /\ Judged(run[p].item) \/ SignedOut
  /\ Hold(p, AfterNo(p))
  /\ UNCHANGED <<kind, queue, receipts, past, odd>>

(* No network; for the flush, a 5xx as well.                               *)
Unreachable(p) ==
  /\ run[p].pc = "post"
  /\ Hold(p, AfterNothing(p))
  /\ UNCHANGED <<kind, queue, receipts, session, server, past, odd, troubles>>

(* The server took the item and the answer never came.                     *)
LoseAnswer(p) ==
  /\ run[p].pc = "post"
  /\ session = "live"
  /\ Trouble
  /\ Taken(run[p].item)
  /\ Mark("unheard", {run[p].item})
  /\ Hold(p, AfterNothing(p))
  /\ UNCHANGED <<kind, queue, receipts, session, past>>

(***************************************************************************)
(* The submit handlers: the next item is posted at once; NetworkError      *)
(* saves it on the phone, in a read and a write of the whole queue; a 5xx  *)
(* saves nothing and keeps the form.                                       *)
(***************************************************************************)
FormKept ==
  /\ run[Form].pc = "post"
  /\ Done(Form)
  /\ UNCHANGED <<kind, queue, receipts, session, server, past, odd, troubles>>

Submit ==
  /\ Free(Form)
  /\ session = "live"
  /\ past.next \in Items
  /\ Hold(Form, [pc |-> "post", item |-> past.next, left |-> <<>>])
  /\ past' = [past EXCEPT !.next = @ + 1]
  /\ UNCHANGED <<kind, queue, receipts, session, server, odd, troubles>>

RecordPayment == kind = "payments" /\ Submit
SubmitExpense == kind = "expenses" /\ Submit
SubmitJobExpense == kind = "jobExpenses" /\ Submit

(* enqueue's write.  A flush under way will overwrite the new item with    *)
(* its own copy, and items it removed since the read are back: `odd`.      *)
Enqueued_Alone(list, i) == <<i>>
Enqueued(list, i) == Append(list, i)

Save ==
  /\ run[Form].pc = "save"
  /\ LET i == run[Form].item
     IN  /\ queue' = Enqueued(run[Form].list, i)
         /\ Noted("saved", {i})
         /\ odd' = [odd EXCEPT
              !.raced = @ \cup (IF \E s \in Syncs : ~Resting(s)
                                THEN {i} ELSE {}),
              !.revived = @ \cup (ToSet(run[Form].list) \ ToSet(queue))]
  /\ Done(Form)
  /\ UNCHANGED <<kind, receipts, session, server, troubles>>

EnqueuePayment == kind = "payments" /\ Save
EnqueueExpense == kind = "expenses" /\ Save
EnqueueJobExpense == kind = "jobExpenses" /\ Save

(***************************************************************************)
(* A flush: one at a time by the flag `flushing`, over a copy of the queue *)
(* read once.  It is started by a mount, whose load may have found the     *)
(* session over, by NetInfo, by a refresh or by a tap.                     *)
(***************************************************************************)
MayFlush_Unguarded(s) == s \in Syncs /\ Resting(s)
MayFlush(s) == Guarded(Syncs, s)

Flush(s) ==
  /\ MayFlush(s) /\ Free(s) /\ FirstOf(Syncs, s)
  /\ session \in {"live", "ending"}
  /\ queue # <<>>
  /\ Hold(s, [pc |-> "post", item |-> Head(queue), left |-> Tail(queue)])
  /\ session' = IF session = "ending" THEN "over" ELSE session
  /\ UNCHANGED <<kind, queue, receipts, server, past, odd, troubles>>

FlushQueue(s) == kind = "payments" /\ Flush(s)
FlushExpenseQueue(s) == kind = "expenses" /\ Flush(s)
FlushJobExpenseQueue(s) == kind = "jobExpenses" /\ Flush(s)

(* The loop's body after the answer: the copy without its head is stored;  *)
(* a refused item is gone, an accepted item's photo is uploaded before the *)
(* next item is posted.  (The refusals are shown to the driver when the    *)
(* flush is done, from memory: a kill before that loses them.)             *)
Shifted_OnceAccepted(r) ==
  IF r.pc = "refused" THEN <<r.item>> \o r.left ELSE r.left
Shifted(r) == r.left

PostNext(left) ==
  IF left = <<>> THEN Rest
  ELSE [pc |-> "post", item |-> Head(left), left |-> Tail(left)]

Shift(s) ==
  /\ s \in Syncs
  /\ run[s].pc \in {"took", "refused"}
  /\ queue' = Shifted(run[s])
  /\ LET i == run[s].item
     IN  /\ IF run[s].pc = "took" /\ HasPhoto(i)
            THEN Hold(s, UploadOf(i, server.accepted[i], run[s].left))
            ELSE Hold(s, PostNext(run[s].left))
         /\ IF run[s].pc = "refused" THEN Noted("dropped", {Refusal(i)})
                                     ELSE UNCHANGED past
  /\ UNCHANGED <<kind, receipts, session, server, odd, troubles>>

ShiftPayment(s) == kind = "payments" /\ Shift(s)
ShiftExpense(s) == kind = "expenses" /\ Shift(s)
ShiftJobExpense(s) == kind = "jobExpenses" /\ Shift(s)
=============================================================================
