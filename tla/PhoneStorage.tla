---------------------------- MODULE PhoneStorage ----------------------------
(***************************************************************************)
(* The driver app's own database, storage.ts: lists under keys of          *)
(* AsyncStorage, each read and written whole, and what its sync routines   *)
(* hold in memory between an awaited call and the next.                    *)
(*                                                                         *)
(* Payments, rider expenses, job expenses and GPS fixes each have a queue  *)
(* under a key of their own and a module of their own, and no module       *)
(* touches another's keys; a behaviour follows one of them, `kind`.        *)
(* ("tokens" is the last pair of keys, which Session models.)              *)
(***************************************************************************)
EXTENDS Integers, Sequences, FiniteSets, SequencesExt

CONSTANTS
  Kinds,          \* the queues of interest, of QueueKinds
  Items,          \* what the driver records, in the order he does
  Photographed,   \* those he attaches a photo to
  MAX_QUEUED_FIXES, \* the phone's limit on buffered fixes
  MaxBatch,       \* the server's limit on the fixes of one request
  Together,       \* bound: for each kind, routines under way together
  MaxTroubles     \* bound: answers lost after the server did the work, times
                  \* the app is killed, times the session ends, together

VARIABLES
  kind,           \* which queue this behaviour is about
  queue,          \* the stored queue of items not submitted yet
  receipts,       \* the stored list of photos not uploaded yet
  run,            \* run[p]: what routine p holds while it awaits
  session,        \* "live", "ending" (found over, sync still to run), "over"
  server,         \* what reached the server
  past,           \* what the driver recorded, what was saved on the phone,
                  \* and the refusals that made the app drop something
  odd,            \* items and photos met by a lost answer, a kill or a race
  troubles        \* how many of MaxTroubles there were

phone == <<kind, queue, receipts, run, session, server, past, odd, troubles>>

QueueKinds == {"payments", "expenses", "jobExpenses", "fixes"}
ASSUME KindsAssumption == Kinds \subseteq QueueKinds \cup {"tokens"}
ASSUME TogetherAssumption == Kinds \subseteq DOMAIN Together
ASSUME LimitsAssumption ==
  MAX_QUEUED_FIXES \in Nat \ {0} /\ MaxBatch \in Nat
ASSUME ItemsAssumption ==
  Items \subseteq Nat \ {0} /\ Photographed \subseteq Items

Syncs == {"sync1", "sync2"}     \* flushes of the queue
Sweeps == {"sweep1", "sweep2"}  \* flushes of the pending receipts
Fixers == {"fix1", "fix2"}      \* handlers of a fix from the GPS
Form == "form"                  \* the screen's submit handler
Tap == "tap"                    \* "upload now" on one receipt
Routines == Syncs \cup Sweeps \cup Fixers \cup {Form, Tap}

(* A payment has no photo in its queue; an expense may.                    *)
HasPhoto(i) == kind \in {"expenses", "jobExpenses"} /\ i \in Photographed

(***************************************************************************)
(* The server's n-th expense made from item i: a second submission of the  *)
(* same item is another expense, with an id of its own.                    *)
(***************************************************************************)
Made(i, n) == [item |-> i, nth |-> n]

(***************************************************************************)
(* A refusal of an item, of which the server then has no expense; one of a *)
(* photo is named as the photo is, by its expense.                         *)
(***************************************************************************)
Refusal(i) == Made(i, 0)

Rest == [pc |-> "rest"]
Resting(p) == run[p] = Rest
Free(p) ==
  /\ Resting(p)
  /\ Cardinality({q \in Routines : ~Resting(q)}) < Together[kind]
Hold(p, r) == run' = [run EXCEPT ![p] = r]
Done(p) == Hold(p, Rest)

(* The flags `flushing`, `flushingQueue` and `flushingReceipts`: of the    *)
(* routines P at most one is under way; the first free one starts.         *)
Guarded(P, p) == p \in P /\ \A q \in P : Resting(q)
FirstOf(P, p) == p = CHOOSE q \in P : Resting(q)

Trouble == troubles < MaxTroubles /\ troubles' = troubles + 1

(* apiFetch on a 401, its refresh having failed: the tokens are cleared    *)
(* and the caller gets an ApiError like any other refusal.                 *)
SessionAfter401 ==
  IF session = "live" THEN Trouble /\ session' = "over"
                      ELSE UNCHANGED <<session, troubles>>

Mark(f, x) == odd' = [odd EXCEPT ![f] = @ \cup x]
Noted(f, x) == past' = [past EXCEPT ![f] = @ \cup x]
=============================================================================
