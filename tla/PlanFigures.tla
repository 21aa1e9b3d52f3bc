----------------------------- MODULE PlanFigures -----------------------------
(***************************************************************************)
(* The figures the dashboard and the driver's app show for one ACTIVE plan *)
(* (ownership-plan.derivation.ts, batchDerivedFigures, estimatePlanTerm),  *)
(* over the instalments, payments and excusals a plan collects as days     *)
(* pass.                                                                   *)
(*                                                                         *)
(* The server's dates are UTC, the business's are Africa/Dar_es_Salaam,    *)
(* three hours ahead: `early` holds in those hours, when the local date    *)
(* has moved on and the UTC date has not.                                  *)
(***************************************************************************)
EXTENDS Integers, FiniteSets, FiniteSetsExt, Functions

CONSTANTS
  Terms,       \* the plans considered: daily, count, start, weekdays
  Amounts,     \* amounts allocated to one instalment
  LastDay,     \* bound: the last local day of a behaviour
  MaxExcusals  \* bound: excusals standing at one time

(* What the forms accept for a plan and for a payment.                     *)
ASSUME TermsAssumption ==
  /\ Terms \subseteq
       [daily : Nat \ {0}, count : Nat \ {0}, start : Int,
        weekdays : {W \in SUBSET (0..6) : W # {}}]
  /\ Amounts \subseteq Nat

VARIABLES
  plan,        \* the plan's terms
  instalments, \* [day -> [target, paid]]: its assignments, COMPLETED payments
  excused,     \* days with an APPROVED excusal
  local,       \* the date in Africa/Dar_es_Salaam
  early        \* the first three hours of that date

figureVars == <<plan, instalments, excused, local, early>>

ActiveDay(d) == (d % 7) \in plan.weekdays
ActiveDaysIn(from, to) == Cardinality({d \in from..to : ActiveDay(d)})
Billed == DOMAIN instalments

-----------------------------------------------------------------------------
(***************************************************************************)
(* What the figures are derived from, and the figures.                     *)
(***************************************************************************)
UTCDate == IF early THEN local - 1 ELSE local

TotalOwed == plan.daily * plan.count
AmountBilled == MapThenSumSet(LAMBDA d : instalments[d].target, Billed)
AmountDue ==
  MapThenSumSet(LAMBDA d : instalments[d].target,
                {d \in Billed : d <= UTCDate})
AmountPaid == MapThenSumSet(LAMBDA d : instalments[d].paid, Billed)
RemainingToOwn == TotalOwed - AmountPaid
NetPosition == AmountPaid - AmountDue

RoundedUp(a, b) == (a + b - 1) \div b
DaysBehind_RoundedDown ==
  IF NetPosition < 0 THEN (-NetPosition) \div plan.daily ELSE 0
DaysBehind ==
  IF NetPosition < 0 THEN RoundedUp(-NetPosition, plan.daily) ELSE 0
DaysAhead == IF NetPosition > 0 THEN NetPosition \div plan.daily ELSE 0

(***************************************************************************)
(* computeConsecutiveMissedDays: back from the last elapsed day over the   *)
(* rows I, past excused days, up to the first day paid in full.            *)
(***************************************************************************)
ConsecutiveMissed(I, elapsedBefore, excusals) ==
  LET elapsed == {d \in DOMAIN I \ excusals : d < elapsedBefore}
      stops == {d \in elapsed : I[d].paid >= I[d].target}
  IN  Cardinality({d \in elapsed : \A e \in stops : e < d})

(* The caller hands over dateOnly(now), whose local date is its UTC date.  *)
MissedDays == ConsecutiveMissed(instalments, UTCDate, excused)

(* nthActiveWeekdayFrom: whole weeks at once, then the days of one week.   *)
NthActiveFrom_WholeWeekOff(start, n) ==
  LET k == Cardinality(plan.weekdays)
      cursor == start + 7 * (n \div k)
      remainder == ((n - 1) % k) + 1
  IN  Min({d \in cursor..(cursor + 6) : ActiveDaysIn(cursor, d) = remainder})
NthActiveFrom(start, n) ==
  LET k == Cardinality(plan.weekdays)
      cursor == start + 7 * ((n - 1) \div k)
      remainder == ((n - 1) % k) + 1
  IN  Min({d \in cursor..(cursor + 6) : ActiveDaysIn(cursor, d) = remainder})
DerivedEndDate == NthActiveFrom(plan.start, plan.count)

(* countActiveWeekdaysAfter and advanceActiveWeekdays                      *)
ActiveDaysAfter_CountingBoth(from, to) == ActiveDaysIn(from, to)
ActiveDaysAfter(from, to) == ActiveDaysIn(from + 1, to)
Advance(from, n) ==
  Min({d \in from..(from + 7 * n) : ActiveDaysAfter(from, d) >= n})

DaysLeft == ActiveDaysAfter(UTCDate, DerivedEndDate)
ProjectedCompletion ==
  Advance(UTCDate, RoundedUp(Max({0, RemainingToOwn}), plan.daily))
NextDueDate == Advance(UTCDate, DaysAhead)

-----------------------------------------------------------------------------
Init ==
  /\ plan \in Terms
  /\ instalments = <<>> /\ excused = {}
  /\ local = 0 /\ early = FALSE

(* Local midnight, and UTC midnight three hours later.                     *)
Midnight ==
  /\ IF early THEN local' = local ELSE local < LastDay /\ local' = local + 1
  /\ early' = ~early
  /\ UNCHANGED <<plan, instalments, excused>>

(* A generator run on time: every active day up to dateOnly(now), until    *)
(* the price is billed.                                                    *)
Unbilled ==
  {d \in plan.start..UTCDate :
     /\ ActiveDay(d) /\ d \notin Billed
     /\ AmountBilled + plan.daily * ActiveDaysIn(
          IF Billed = {} THEN plan.start ELSE Max(Billed) + 1, d) <= TotalOwed}
Bill ==
  /\ Unbilled # {}
  /\ instalments' = [d \in Billed \cup Unbilled |->
       IF d \in Billed THEN instalments[d]
       ELSE [target |-> plan.daily, paid |-> 0]]
  /\ UNCHANGED <<plan, excused, local, early>>

(* A payment's allocation to one day becomes COMPLETED.  The cascade fills *)
(* the oldest day first, but an older day may only be held by a PENDING    *)
(* allocation, which can still fail, so any day may be the next; what no   *)
(* day needed is surplus on the latest.                                    *)
Need(d) == instalments[d].target - instalments[d].paid
Pay ==
  /\ \E d \in Billed, a \in Amounts :
       /\ a <= RemainingToOwn
       /\ a <= Need(d) \/ d = Max(Billed)
       /\ instalments' = [instalments EXCEPT ![d].paid = @ + a]
  /\ UNCHANGED <<plan, excused, local, early>>

(* An excusal for any day, approved at once; and declined again.           *)
Excuse ==
  /\ Cardinality(excused) < MaxExcusals
  /\ \E d \in (0..LastDay) \ excused : excused' = excused \cup {d}
  /\ UNCHANGED <<plan, instalments, local, early>>
Decline ==
  /\ \E d \in excused : excused' = excused \ {d}
  /\ UNCHANGED <<plan, instalments, local, early>>

Next == Midnight \/ Bill \/ Pay \/ Excuse \/ Decline

Spec == Init /\ [][Next]_figureVars

-----------------------------------------------------------------------------
(* The end date the form and the contract show (whole weeks by arithmetic) *)
(* is the day of the last instalment the generator creates (day by day).   *)
EndDateIsTheLastInstalment ==
  AmountBilled = TotalOwed => Max(Billed) = DerivedEndDate

(* A driver who is square, with every day so far billed and some left to   *)
(* pay, is projected to finish on the derived end date, and the days left  *)
(* are exactly the instalments left: three walks over the calendar, one    *)
(* schedule.                                                               *)
FinishOnTheEndDate ==
  (NetPosition = 0 /\ Unbilled = {} /\ RemainingToOwn > 0) =>
    /\ plan.start <= UTCDate + 1 => ProjectedCompletion = DerivedEndDate
    /\ plan.start <= UTCDate + 1 => DaysLeft * plan.daily = RemainingToOwn

(* And "You are N days ahead - nothing due until X": the credit covers     *)
(* each active day before X, and X itself, and not the active day after it.*)
CreditLastsUntilTheDateShown ==
  (DaysAhead > 0 /\ Unbilled = {}) =>
    /\ NetPosition >= plan.daily * ActiveDaysAfter(UTCDate, NextDueDate)
    /\ NetPosition < plan.daily * (ActiveDaysAfter(UTCDate, NextDueDate) + 1)

SquareDriversFinishOnTheEndDate ==
  FinishOnTheEndDate /\ CreditLastsUntilTheDateShown

(* The run of missed days and the arrears are derived apart, and must not  *)
(* contradict each other: while no day is overpaid and at most one is half *)
(* paid, as the oldest-first order leaves them, a driver is behind by at   *)
(* least as many days as the run has.                                      *)
Overpaid == {d \in Billed : Need(d) < 0}
HalfPaid == {d \in Billed : instalments[d].paid > 0 /\ Need(d) > 0}
ArrearsCoverTheRun ==
  (Overpaid = {} /\ Cardinality(HalfPaid) <= 1) => MissedDays <= DaysBehind

(* The comments at the call: the run is cut at the Dar es Salaam midnight, *)
(* also in the three hours before the UTC date follows.                    *)
MissedDaysFollowTheLocalDate ==
  MissedDays = ConsecutiveMissed(instalments, local, excused)
=============================================================================
