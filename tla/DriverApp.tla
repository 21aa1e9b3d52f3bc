------------------------------ MODULE DriverApp -----------------------------
(***************************************************************************)
(* The driver app: its offline queues, its pending receipts, its GPS       *)
(* buffer and its session, against a server that may not be reached.       *)
(***************************************************************************)
EXTENDS OfflineQueues, PendingReceipts, GpsQueue, Session

vars == <<phone, sessionVars>>

Init ==
  /\ kind \in Kinds
  /\ queue = <<>> /\ receipts = <<>>
  /\ run = [p \in Routines |-> Rest]
  /\ session = "live"
  /\ server = [accepted |-> [i \in Items |-> 0], refused |-> {}, photos |-> {}]
  /\ past = [next |-> 1, saved |-> {}, dropped |-> {}]
  /\ odd = [raced |-> {}, revived |-> {}, unheard |-> {}, photos |-> {}]
  /\ troubles = 0
  /\ store = 0 /\ redis = {} /\ aged = {} /\ gen = 0
  /\ req = [q \in Requests |-> Ended]
  /\ refresh = [r \in Requests |-> Ended]

(* The screen's requests on a mount find that the session is over; the     *)
(* driver logs out; he logs in again.                                      *)
LoadSignsOut ==
  /\ session = "live" /\ session' = "ending" /\ Trouble
  /\ UNCHANGED <<kind, queue, receipts, run, server, past, odd>>

LogoutAtOnce ==
  /\ session = "live" /\ session' = "over" /\ Trouble
  /\ UNCHANGED <<kind, queue, receipts, run, server, past, odd>>

LogBackIn ==
  /\ session = "over" /\ session' = "live"
  /\ UNCHANGED <<kind, queue, receipts, run, server, past, odd, troubles>>

(* The app is killed: the lists are on disk, the rest is gone.  An item    *)
(* the server took may be still queued, a photo in hand is not listed.     *)
Unfinished ==
  {run[p].item : p \in {q \in Routines : run[q].pc = "took"}} \cup
  UNION {ToSet(run[p].batch) : p \in {q \in Routines : run[q].pc = "clear"}}
InHand ==
  {run[p].photo : p \in {q \in Routines : run[q].pc \in
                           {"upload", "store"}}} \cup
  {Made(run[p].item, server.accepted[run[p].item]) :
     p \in {q \in Routines : run[q].pc = "took"}}

Kill ==
  /\ Trouble
  /\ \E p \in Routines : ~Resting(p)
  /\ run' = [p \in Routines |-> Rest]
  /\ odd' = [odd EXCEPT !.unheard = @ \cup Unfinished,
                        !.photos = @ \cup InHand]
  /\ session' = IF session = "ending" THEN "over" ELSE session
  /\ UNCHANGED <<kind, queue, receipts, server, past>>

(***************************************************************************)
Recording ==
  \/ RecordPayment \/ SubmitExpense \/ SubmitJobExpense
  \/ FormKept
  \/ EnqueuePayment \/ EnqueueExpense \/ EnqueueJobExpense

Posting(p) ==
  Accept(p) \/ Refuse(p) \/ Unreachable(p) \/ LoseAnswer(p)

StartFlush(s) == FlushQueue(s) \/ FlushExpenseQueue(s) \/ FlushJobExpenseQueue(s)
ShiftStep(s) == ShiftPayment(s) \/ ShiftExpense(s) \/ ShiftJobExpense(s)
StartSweep(p) == FlushPendingReceipts(p) \/ FlushPendingJobReceipts(p)

QueueNext ==
  \/ Recording
  \/ \E p \in Syncs \cup {Form} : Posting(p)
  \/ \E s \in Syncs : StartFlush(s) \/ ShiftStep(s) \/ BatchStep(s)
  \/ \E p \in Sweeps : StartSweep(p)
  \/ \E p \in Routines : ReceiptStep(p)
  \/ \E p \in Fixers : FixStep(p)
  \/ HandleRetryReceipt \/ HandleRetryJobReceipt
  \/ LoadSignsOut \/ LogoutAtOnce \/ LogBackIn \/ Kill

SessionNext ==
  \/ Login \/ Logout \/ AgeAccess \/ ExpireRefresh \/ Close
  \/ \E q \in Requests : Send(q) \/ RequestStep(q) \/ RefreshStep(q)

Next ==
  \/ kind # "tokens" /\ QueueNext /\ UNCHANGED sessionVars
  \/ kind = "tokens" /\ SessionNext /\ UNCHANGED phone

(* A routine under way goes on; while there are items or photos to send,   *)
(* the driver opens the screen again; a request sent again and again is in *)
(* the end answered by the server.                                         *)
Alone(A) == kind # "tokens" /\ A /\ UNCHANGED sessionVars
FormStep ==
  \/ FormKept \/ Posting(Form)
  \/ EnqueuePayment \/ EnqueueExpense \/ EnqueueJobExpense
SyncStep(s) == StartFlush(s) \/ Posting(s) \/ ShiftStep(s) \/ BatchStep(s)
SyncAnswered(s) ==
  \/ Accept(s) \/ Refuse(s)
  \/ AnswerBatch(s) /\ run'[s].pc = "clear"
UploadAnswered(p) == TryUpload(p) /\ run'[p].got # "network"

Fairness ==
  /\ WF_vars(Alone(FormStep))
  /\ SF_vars(Alone(\E s \in Syncs : SyncStep(s)))
  /\ SF_vars(Alone(\E s \in Syncs : SyncAnswered(s)))
  /\ SF_vars(Alone(\E p \in Sweeps : StartSweep(p)))
  /\ \A p \in Routines : WF_vars(Alone(ReceiptStep(p)))
  /\ SF_vars(Alone(\E p \in Sweeps : UploadAnswered(p)))
  /\ \A p \in Fixers : WF_vars(Alone(EnqueueGpsFix(p)))
  /\ \A q \in Requests :
       WF_vars((RequestStep(q) \/ RefreshStep(q)) /\ UNCHANGED phone)

Spec == Init /\ [][Next]_vars
FairSpec == Spec /\ Fairness

(***************************************************************************)
(* The type of the stored lists, of what the routines hold and of the      *)
(* tokens; a stored list holds nothing twice, however often a photo is     *)
(* tried again.                                                            *)
(***************************************************************************)
Expenses == [item : Items, nth : Nat \ {0}]
Refused == [item : Items, nth : Nat]
Held ==
  [pc : {"post", "took", "refused"}, item : Items, left : Seq(Items)]
  \cup [pc : {"save", "push"}, item : Items, list : Seq(Items)]
  \cup [pc : {"batch"}, batch : Seq(Items)]
  \cup [pc : {"clear"}, batch : Seq(Items), ok : BOOLEAN]
HeldPhoto(L) ==
  [pc : {"upload"}, photo : Expenses, left : Seq(L)]
  \cup [pc : {"store"}, photo : Expenses, left : Seq(L),
        got : {"uploaded", "rejected", "network"}, list : Seq(Expenses)]

TypeOK ==
  /\ kind \in Kinds
  /\ queue \in Seq(Items) /\ receipts \in Seq(Expenses)
  /\ IsInjective(queue) /\ IsInjective(receipts)
  /\ \A p \in Routines :
       run[p] \in {Rest} \cup
         (IF p \in Sweeps \cup {Tap} THEN HeldPhoto(Expenses)
                                    ELSE Held \cup HeldPhoto(Items))
  /\ session \in {"live", "ending", "over"}
  /\ server \in [accepted : [Items -> Nat], refused : SUBSET Items,
                 photos : SUBSET Expenses]
  /\ past \in [next : Nat, saved : SUBSET Items, dropped : SUBSET Refused]
  /\ store \in 0 .. gen /\ redis \subseteq 1 .. gen /\ aged \subseteq 1 .. gen

(***************************************************************************)
(* What was saved on this phone is still queued, or reached the server, or *)
(* was dropped on a refusal; whatever fails, and whenever the app is       *)
(* killed.  The one other way out is a save while a flush is under way,    *)
(* which overwrites it (`raced`).  Whether a refusal is the server's own   *)
(* is another matter (DroppedOnlyIfJudged), and so is whether the driver   *)
(* has seen it.                                                            *)
(***************************************************************************)
Accounted(i) ==
  \/ i \in ToSet(queue) \/ Refusal(i) \in past.dropped \/ i \in odd.raced
  \/ server.accepted[i] > 0
NothingForgotten ==
  kind # "fixes" => \A i \in past.saved : Accounted(i)

(***************************************************************************)
(* The server records an item twice only when its answer was never heard,  *)
(* or when a save put back an item that a flush had removed since the      *)
(* queue was read: never because two flushes ran, a photo failed, or an    *)
(* item stayed queued after its answer.                                    *)
(***************************************************************************)
RecordedOnce ==
  \A i \in Items :
    server.accepted[i] > 1 => i \in odd.unheard \cup odd.revived

(***************************************************************************)
(* The photo of an expense whose answer was heard is on the server, listed *)
(* or in some routine's hands, or was dropped on a refusal.  A kill while  *)
(* it is in hand forgets it, and so may two routines that store the list   *)
(* at once.                                                                *)
(***************************************************************************)
PhotosKept ==
  \A i \in Items : \A n \in 1 .. server.accepted[i] :
    (HasPhoto(i) /\ i \notin odd.unheard) =>
      Made(i, n) \in server.photos \cup past.dropped \cup odd.photos
                      \cup ToSet(receipts) \cup InHand

(***************************************************************************)
(* A fix the phone dropped for want of room had at least a bufferful of    *)
(* newer ones behind it; and a batch of fixes is never longer than the     *)
(* server takes: it would be refused whole, and the buffer cleared.        *)
(***************************************************************************)
BatchFits ==
  \A s \in Syncs : run[s].pc = "batch" => Len(run[s].batch) <= MaxBatch
NewestFixesKept ==
  /\ kind = "fixes" =>
       \A i \in past.saved :
         \/ Accounted(i)
         \/ Cardinality({j \in past.saved : j > i}) >= MAX_QUEUED_FIXES
  /\ BatchFits

(* The pairs the server has issued and the phone has yet to store.         *)
OnTheWay ==
  {refresh[r].new : r \in {q \in Requests :
     refresh[q].pc = "answer" /\ refresh[q].got = "pair"}}

(***************************************************************************)
(* A refresh that ends in "the session is over" because no token is stored *)
(* or the server answered 401 is right: neither the pair the phone holds   *)
(* nor one on its way to it can be refreshed any more, so that no call is  *)
(* refused because another had refreshed the pair first.  Nothing of the   *)
(* kind holds of a server that fails (a 5xx counts as a refusal), or of    *)
(* the tokens that the refused calls then clear: a pair stored meanwhile   *)
(* is erased with them.                                                    *)
(***************************************************************************)
Over == {store} \cup OnTheWay \subseteq {0} \cup ((1 .. gen) \ redis)
RefusalMeansOver ==
  [][\A r \in Requests :
       /\ refresh'[r] = Settling("false")
       /\ \/ refresh[r].pc = "read"
          \/ refresh[r].pc = "answer" /\ refresh[r].got = "401"
       => Over]_vars

(***************************************************************************)
(* No call waits for ever on the refresh it shares with others.            *)
(***************************************************************************)
CallsEnd == \A q \in Requests : req[q] # Ended ~> req[q] = Ended

(***************************************************************************)
(* Once the driver has stopped recording and tapping and stays signed in,  *)
(* every queued item, fix and photo leaves the phone, refused ones         *)
(* included: none stays at the head and blocks those behind it.            *)
(***************************************************************************)
EverythingIsSent ==
  <>[](session = "live" /\ Resting(Tap)) =>
    <>[](queue = <<>> /\ receipts = <<>>)

(***************************************************************************)
(* queue.ts:10-11: an item is dropped for a 4xx "(validation/conflict)",   *)
(* that is for what the server said of it.                                 *)
(***************************************************************************)
DroppedOnlyIfJudged ==
  \A i \in Items : Refusal(i) \in past.dropped => i \in server.refused
=============================================================================
