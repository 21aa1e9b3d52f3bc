------------------------------- MODULE GpsQueue -----------------------------
(***************************************************************************)
(* gpsQueue.ts: a bounded buffer of GPS fixes, sent as one batch and       *)
(* cleared whole.  The buffer is `queue`, a fix is an item.                *)
(***************************************************************************)
EXTENDS PhoneStorage

(* watchPositionAsync delivers a fix; its handler reads the buffer.  The   *)
(* handlers are not awaited: two may be under way.                         *)
HandleGpsFix(p) ==
  /\ kind = "fixes"
  /\ p \in Fixers /\ Free(p) /\ FirstOf(Fixers, p)
  /\ session = "live"
  /\ past.next \in Items
  /\ Hold(p, [pc |-> "push", item |-> past.next, list |-> queue])
  /\ past' = [past EXCEPT !.next = @ + 1]
  /\ UNCHANGED <<kind, queue, receipts, session, server, odd, troubles>>

(* The oldest are dropped first.                                           *)
Capped_DropNewest(list) ==
  SubSeq(list, 1, IF Len(list) > MAX_QUEUED_FIXES THEN MAX_QUEUED_FIXES
                                                  ELSE Len(list))
Capped(list) ==
  IF Len(list) > MAX_QUEUED_FIXES
  THEN SubSeq(list, Len(list) - MAX_QUEUED_FIXES + 1, Len(list))
  ELSE list

(* A flush under way, or another handler with an older copy, overwrites    *)
(* the fix; fixes sent since the read are back.                            *)
EnqueueGpsFix(p) ==
  /\ run[p].pc = "push"
  /\ LET i == run[p].item
     IN  /\ queue' = Capped(Append(run[p].list, i))
         /\ Noted("saved", {i})
         /\ odd' = [odd EXCEPT
              !.raced = @ \cup
                (IF \E q \in (Syncs \cup Fixers) \ {p} : ~Resting(q)
                 THEN {i} ELSE {}),
              !.revived = @ \cup (ToSet(run[p].list) \ ToSet(queue))]
  /\ Done(p)
  /\ UNCHANGED <<kind, receipts, session, server, troubles>>

FlushGpsQueue(s) ==
  /\ kind = "fixes"
  /\ Guarded(Syncs, s) /\ Free(s) /\ FirstOf(Syncs, s)
  /\ session \in {"live", "ending"}
  /\ queue # <<>>
  /\ Hold(s, [pc |-> "batch", batch |-> queue])
  /\ session' = IF session = "ending" THEN "over" ELSE session
  /\ UNCHANGED <<kind, queue, receipts, server, past, odd, troubles>>

TakenAll(batch) ==
  server' = [server EXCEPT
    !.accepted = [i \in Items |-> IF i \in ToSet(batch) THEN @[i] + 1
                                                        ELSE @[i]]]

(* The batch's answer.  The server may refuse it whole, and does when it   *)
(* is longer than its limit; a fix it discards counts as taken.            *)
AnswerBatch(s) ==
  /\ run[s].pc = "batch"
  /\ LET batch == run[s].batch
         fits == Len(batch) <= MaxBatch
     IN  \/ /\ session = "live" /\ fits
            /\ TakenAll(batch)
            /\ Hold(s, [pc |-> "clear", batch |-> batch, ok |-> TRUE])
            /\ UNCHANGED <<session, odd, troubles>>
         \/ /\ session = "live"
            /\ server' = [server EXCEPT !.refused = @ \cup ToSet(batch)]
            /\ Hold(s, [pc |-> "clear", batch |-> batch, ok |-> FALSE])
            /\ UNCHANGED <<session, odd, troubles>>
         \/ /\ SessionAfter401
            /\ Hold(s, [pc |-> "clear", batch |-> batch, ok |-> FALSE])
            /\ UNCHANGED <<server, odd>>
         \/ /\ Done(s)
            /\ UNCHANGED <<session, server, odd, troubles>>
         \/ /\ session = "live" /\ fits /\ Trouble
            /\ TakenAll(batch)
            /\ Mark("unheard", ToSet(batch))
            /\ Done(s)
            /\ UNCHANGED session
  /\ UNCHANGED <<kind, queue, receipts, past>>

ClearGpsQueue(s) ==
  /\ run[s].pc = "clear"
  /\ queue' = <<>>
  /\ IF run[s].ok THEN UNCHANGED past
     ELSE Noted("dropped", {Refusal(i) : i \in ToSet(run[s].batch)})
  /\ Done(s)
  /\ UNCHANGED <<kind, receipts, session, server, odd, troubles>>

FixStep(p) == HandleGpsFix(p) \/ EnqueueGpsFix(p)
BatchStep(s) == FlushGpsQueue(s) \/ AnswerBatch(s) \/ ClearGpsQueue(s)
=============================================================================
