----------------------------- MODULE BulkImport -----------------------------
(***************************************************************************)
(* A fleet entered from a workbook: bulk-import.service.ts with the        *)
(* statuses of bulk-import.validator.ts.  A behaviour follows the plan of  *)
(* one driver and one vehicle through workbooks that have the plan's row,  *)
(* and may have the driver's and the vehicle's rows; what is owed for the  *)
(* time before the import comes in as an assignment with its payment, the  *)
(* opening balance, on the day before billing starts.  The database allows *)
(* a vehicle one plan that is ACTIVE, and a driver one row of a day.       *)
(***************************************************************************)
EXTENDS Integers, FiniteSets, Sequences

CONSTANTS
  Imports,        \* commits in flight together
  BillingDays,    \* dates that billing may start on, in the workbooks
  Sheets,         \* bound: which of "driver" and "vehicle" have a row
  MaxPlans        \* bound: plans of the pair

ASSUME SheetsAssumption == Sheets \subseteq SUBSET {"driver", "vehicle"}

VARIABLES
  known,          \* which of "driver" and "vehicle" are in the database
  plans,          \* how many plans the pair has
  active,         \* the last of them is ACTIVE
  openings,       \* opening balances: the billing date, and the plan's number
  booked,         \* billing dates whose day before has another assignment
  import,         \* import[i]: what commit i holds
  closed          \* a plan was closed under a commit that creates another

imports == <<known, plans, active, openings, booked, import, closed>>

NotImporting == [pc |-> "rest"]
Workbooks == [sheets : Sheets, date : BillingDays,
              balance : BOOLEAN]

(* validateWorkbook: every row resolves, in the workbook or the database.  *)
CanCommit(book) == {"driver", "vehicle"} \subseteq book.sheets \cup known

(***************************************************************************)
(* The commit's transaction begins: the reads, and what there is to write  *)
(* by them; a workbook with an error is refused.  Reads see what is        *)
(* committed, and take no lock.  The driver's and the vehicle's rows are   *)
(* created unless they were found, and the ids of the sheets' rows are     *)
(* kept; the plan's row takes its ids from these, so both sheets must have *)
(* theirs, or a workbook whose preview can be committed is refused.  A     *)
(* plan that was found gets its terms only.                                *)
(***************************************************************************)
OpeningRow(book) == book.balance /\ plans = 0

BeginCommit(i, book) ==
  /\ import[i] = NotImporting /\ CanCommit(book)
  /\ import' = [import EXCEPT ![i] =
       IF {"driver", "vehicle"} \subseteq book.sheets
         THEN [pc |-> "write", date |-> book.date,
               creates |-> book.sheets \ known, plan |-> plans = 0,
               opening |-> OpeningRow(book)]
         ELSE [pc |-> "refuse"]]
  /\ UNCHANGED <<known, plans, active, openings, booked, closed>>

(***************************************************************************)
(* The writes.  Phone and registration number are unique, and so are the   *)
(* ACTIVE plan of a vehicle and the days of a driver and of a vehicle      *)
(* (mutants: the days of the openings only; no index on the plans).        *)
(***************************************************************************)
Opened == {o.date : o \in openings}

UniqueRows_OfOpenings(w) ==
  /\ w.creates \cap known = {} /\ (w.plan => ~active)
  /\ w.opening => w.date \notin Opened
UniqueRows_NotOfPlans(w) ==
  /\ w.creates \cap known = {}
  /\ w.opening => w.date \notin Opened \cup booked
UniqueRows(w) ==
  /\ w.creates \cap known = {} /\ (w.plan => ~active)
  /\ w.opening => w.date \notin Opened \cup booked

Commit(i) ==
  LET w == import[i] IN
  /\ w.pc = "write" /\ UniqueRows(w)
  /\ w.plan => plans < MaxPlans
  /\ known' = {"driver", "vehicle"}
  /\ plans' = (IF w.plan THEN plans + 1 ELSE plans)
  /\ active' = (active \/ w.plan)
  /\ openings' = openings \cup
       (IF w.opening THEN {[date |-> w.date, plan |-> plans']} ELSE {})
  /\ import' = [import EXCEPT ![i] = NotImporting]
  /\ UNCHANGED <<booked, closed>>

(* A row clashes or does not resolve, or the server stops: nothing of it.  *)
RollBack(i) ==
  /\ import[i] # NotImporting
  /\ import' = [import EXCEPT ![i] = NotImporting]
  /\ UNCHANGED <<known, plans, active, openings, booked, closed>>

(***************************************************************************)
(* The office by hand: a driver or a vehicle, a plan, an assignment of one *)
(* of the days; and the plan is completed, defaulted or cancelled, which   *)
(* leaves room for another.                                                *)
(***************************************************************************)
EnterByHand ==
  \/ /\ \E x \in {"driver", "vehicle"} \ known : known' = known \cup {x}
     /\ UNCHANGED <<plans, active, openings, booked, import, closed>>
  \/ /\ known = {"driver", "vehicle"} /\ ~active /\ plans < MaxPlans
     /\ plans' = plans + 1 /\ active' = TRUE
     /\ UNCHANGED <<known, openings, booked, import, closed>>
  \/ /\ known = {"driver", "vehicle"}
     /\ \E d \in BillingDays \ (Opened \cup booked) : booked' = booked \cup {d}
     /\ UNCHANGED <<known, plans, active, openings, import, closed>>

ClosePlan ==
  /\ active /\ active' = FALSE
  /\ closed' = (closed \/ \E i \in Imports :
                            import[i].pc = "write" /\ import[i].plan)
  /\ UNCHANGED <<known, plans, openings, booked, import>>

ImportsInit ==
  /\ known = {} /\ plans = 0 /\ active = FALSE /\ openings = {} /\ booked = {}
  /\ import = [i \in Imports |-> NotImporting] /\ closed = FALSE

ImportsNext ==
  \/ \E i \in Imports :
       \/ \E book \in Workbooks : BeginCommit(i, book)
       \/ Commit(i) \/ RollBack(i)
  \/ EnterByHand \/ ClosePlan
=============================================================================
