----------------------------- MODULE ListPages ------------------------------
(***************************************************************************)
(* The dashboard's pages.  Each fetches a list when it is opened, when its *)
(* filter changes or by the clock, lets the user write to the server, and  *)
(* brings the list up to date after the write.  No request is cancelled    *)
(* and answers may cross: the one that comes last is shown.                *)
(* A behaviour follows one list of one page, with a few rows written by    *)
(* its user; what a list says is the writes it includes.                   *)
(***************************************************************************)
EXTENDS Integers, Sequences, FiniteSets, SequencesExt

CONSTANTS
  Filters,        \* what a page may be asked for
  Mine,           \* writes of the user of the page
  MaxCalls        \* bound: requests of the page in flight together

ASSUME FiltersAssumption ==
  Filters # {} /\ "nothing" \notin Filters /\ "none" \notin Mine

VARIABLES
  page,           \* which of Lists it is
  asked,          \* the filter as the user has set it
  calls,          \* requests in flight, in the order of their issue
  taken,          \* the writes the server has made
  sent, acked,    \* the user's writes, and those he was told of
  shown,          \* the list on the page
  settled         \* whether what it shows is "fresh", "past" or "failed"

listPages == <<page, asked, calls, taken, sent, acked, shown, settled>>

(***************************************************************************)
(* The lists, by how they differ: what has them fetched again (a filter    *)
(* that changes, one that may also be emptied, a button), whether the      *)
(* clock does, what follows a write of the user's (another load; the row   *)
(* is dropped; the answer is taken for the record; nothing), and whether a *)
(* failed load empties the list.                                           *)
(***************************************************************************)
Plain == [filter |-> "none", polled |-> FALSE, after |-> "load",
          onError |-> "keep"]

ExpenseLedger == [Plain EXCEPT !.filter = "change"]
ExpenseFigures == Plain
PaymentLedger == Plain
PaymentsByMethod == [Plain EXCEPT !.filter = "change", !.after = "nothing"]
ServicesDue == Plain
ServiceRecords == [Plain EXCEPT !.filter = "change", !.onError = "empty"]
DriverScoreboard == [Plain EXCEPT !.filter = "change"]
Fleet == [Plain EXCEPT !.polled = TRUE]
OperationsCenter == [Plain EXCEPT !.polled = TRUE, !.after = "nothing"]
VehiclePositions == OperationsCenter
VehiclePath == [Plain EXCEPT !.filter = "clear", !.after = "nothing",
                             !.onError = "empty"]
PendingBadge == OperationsCenter
DayAssignments == Plain
JobBoard == Plain
PlanBoard == Plain
TrackingLinks == Plain
ApprovalQueue == [Plain EXCEPT !.after = "drop"]
Reports == [Plain EXCEPT !.filter = "button", !.after = "nothing"]
DriverFile == Plain
GuarantorFile == [Plain EXCEPT !.onError = "empty"]
VehicleFile == Plain
PlanRecord == [Plain EXCEPT !.after = "answer"]
PlanContracts == [Plain EXCEPT !.onError = "empty"]
PlanCalendar == [Plain EXCEPT !.onError = "empty"]
ProviderSettings == [Plain EXCEPT !.after = "answer", !.onError = "empty"]
DriverSearch == VehiclePath

Pages ==
  {ExpenseLedger, ExpenseFigures, PaymentLedger, PaymentsByMethod,
   ServicesDue, ServiceRecords, DriverScoreboard, Fleet, OperationsCenter,
   VehiclePositions, VehiclePath, PendingBadge, DayAssignments, JobBoard,
   PlanBoard, TrackingLinks, ApprovalQueue, Reports, DriverFile,
   GuarantorFile, VehicleFile, PlanRecord, PlanContracts, PlanCalendar,
   ProviderSettings, DriverSearch}

(***************************************************************************)
(* A request: a load or one of the user's writes, made by a rendering of   *)
(* the page in which the filter was `for`.  `past` is said of one that a   *)
(* later list has overtaken, or whose rendering had another filter.        *)
(***************************************************************************)
Empty == [for |-> "nothing", saw |-> {}]
Request(w, f, past) ==
  [write |-> w, for |-> f, served |-> FALSE, saw |-> {}, past |-> past]
Load(f) == Request("none", f, f # asked)

IsLoad(i) == calls[i].write = "none"
BringsList(i) == IsLoad(i) \/ page.after = "answer"

(* Loads are overtaken by later loads, records by later writes' records.   *)
Overtakes(i, j) ==
  \/ IsLoad(i) /\ i > j
  \/ ~IsLoad(i) /\ calls[j].served /\ calls[i].saw \ calls[j].saw # {}

(* The requests in flight when the answer to i has come.                   *)
StillOut(i) ==
  RemoveAt([j \in 1 .. Len(calls) |->
              IF BringsList(i) /\ Overtakes(i, j)
                THEN [calls[j] EXCEPT !.past = TRUE] ELSE calls[j]], i)

Settles(i) == settled' = IF calls[i].past THEN "past" ELSE "fresh"

(***************************************************************************)
(* The filter changes and the list is fetched for it, from the effect that *)
(* React runs after rendering with the new filter (mutant: from the        *)
(* handler, which still has the old one).  The reports wait for a button,  *)
(* which is dead while they load.                                          *)
(***************************************************************************)
Refetched_BeforeTheRender(f) == Append(calls, Request("none", asked, FALSE))
Refetched(f) == Append(calls, Request("none", f, FALSE))

ChangeFilter(f) ==
  /\ page.filter # "none" /\ f # asked /\ Len(calls) < MaxCalls
  /\ page.filter = "button" => calls = <<>>
  /\ asked' = f /\ calls' = Refetched(f)
  /\ UNCHANGED <<page, taken, sent, acked, shown, settled>>

(* The search box is emptied, or no vehicle is selected: nothing to fetch. *)
ClearFilter ==
  /\ page.filter = "clear" /\ asked # "nothing"
  /\ asked' = "nothing" /\ shown' = Empty /\ settled' = "fresh"
  /\ calls' = [j \in 1 .. Len(calls) |-> [calls[j] EXCEPT !.past = TRUE]]
  /\ UNCHANGED <<page, taken, sent, acked>>

(* setInterval: whether the loads before came or not.                      *)
Poll ==
  /\ page.polled /\ Len(calls) < MaxCalls
  /\ calls' = Append(calls, Load(asked))
  /\ UNCHANGED <<page, asked, taken, sent, acked, shown, settled>>

(* The server reads, or writes and reads what it answers with.             *)
Serve(i) ==
  /\ ~calls[i].served
  /\ taken' = IF IsLoad(i) THEN taken ELSE taken \cup {calls[i].write}
  /\ calls' = [calls EXCEPT ![i].served = TRUE, ![i].saw = taken']
  /\ UNCHANGED <<page, asked, sent, acked, shown, settled>>

AnswerLoad(i) ==
  /\ IsLoad(i) /\ calls[i].served
  /\ shown' = [for |-> calls[i].for, saw |-> calls[i].saw]
  /\ Settles(i) /\ calls' = StillOut(i)
  /\ UNCHANGED <<page, asked, taken, sent, acked>>

(* A load fails, or its answer is lost: the page says so, or is emptied.   *)
FailLoad(i) ==
  /\ IsLoad(i) /\ calls' = StillOut(i)
  /\ shown' = IF page.onError = "empty"
                THEN [for |-> calls[i].for, saw |-> {}] ELSE shown
  /\ settled' = "failed"
  /\ UNCHANGED <<page, asked, taken, sent, acked>>

(* The user saves, decides or deletes; the page must be there to do it.    *)
SendWrite(w) ==
  /\ page.after # "nothing" /\ w \notin sent
  /\ shown # Empty /\ Len(calls) < MaxCalls
  /\ sent' = sent \cup {w} /\ calls' = Append(calls, Request(w, asked, FALSE))
  /\ UNCHANGED <<page, asked, taken, acked, shown, settled>>

(***************************************************************************)
(* The write's answer.  The handler goes on in the rendering it was        *)
(* started in: the load it issues is for the filter of then.               *)
(***************************************************************************)
AnswerWrite(i) ==
  /\ ~IsLoad(i) /\ calls[i].served
  /\ acked' = acked \cup {calls[i].write}
  /\ \/ /\ page.after = "load"
        /\ calls' = Append(StillOut(i), Load(calls[i].for))
        /\ UNCHANGED <<shown, settled>>
     \/ /\ page.after = "drop"
        /\ shown' = [shown EXCEPT !.saw = @ \cup {calls[i].write}]
        /\ calls' = StillOut(i) /\ UNCHANGED settled
     \/ /\ page.after = "answer"
        /\ shown' = [for |-> calls[i].for, saw |-> calls[i].saw]
        /\ Settles(i) /\ calls' = StillOut(i)
  /\ UNCHANGED <<page, asked, taken, sent>>

(* Refused, or the answer is lost: an error message, and nothing reloaded. *)
FailWrite(i) ==
  /\ ~IsLoad(i) /\ calls' = StillOut(i)
  /\ UNCHANGED <<page, asked, taken, sent, acked, shown, settled>>

ListPagesInit ==
  /\ page \in Pages
  /\ asked = IF page.filter = "clear" THEN "nothing"
             ELSE CHOOSE f \in Filters : TRUE
  /\ calls = IF page.filter = "clear" THEN <<>>
             ELSE <<Request("none", asked, FALSE)>>
  /\ taken = {} /\ sent = {} /\ acked = {}
  /\ shown = Empty /\ settled = "fresh"

ListPagesNext ==
  \/ \E f \in Filters : ChangeFilter(f)
  \/ ClearFilter
  \/ Poll
  \/ \E w \in Mine : SendWrite(w)
  \/ \E i \in 1 .. Len(calls) :
       \/ Serve(i)
       \/ AnswerLoad(i)
       \/ FailLoad(i)
       \/ AnswerWrite(i)
       \/ FailWrite(i)
=============================================================================
