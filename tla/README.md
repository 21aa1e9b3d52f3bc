# BongoFleet: verification of the fleet backend, the driver app and the dashboard

BongoFleet runs motorbike, bajaji, car and truck fleets in Tanzania: a NestJS
backend on PostgreSQL and Redis, a React dashboard, an Expo app for drivers and
a shared library. This project holds TLA+ models of its logic, the TLC runs that
check them and TLAPS proofs of results that must hold for any size. It has five
parts, which meet only through rows the others do not write:

* **Hire purchase** (rent to own), the core: a plan fixes a driver, a vehicle, a
  daily amount and a number of instalments; a generator bills one assignment per
  active weekday; payments are spread over the billed days oldest first; the plan
  is completed when it is paid for. Five writers on three tables with almost no
  transaction around them.
* **Transport**: jobs, the expenses on them, uploaded photos and receipts, and
  bank statements matched to jobs.
* **The driver app**: four queues and two photo lists on the phone, flushed when
  there is network, and a session whose refresh tokens are single-use.
* **The back office**: sign-up and its clean-up, mailed digests, cached lists,
  polled trackers and the live map, the import of a fleet.
* **The dashboard**: pages whose lists are loaded, filtered, polled and reloaded
  after writes, with answers that cross; dialogs that preview a file and then commit
  it; documents that are replaced.

## 1. Inventory

Paths are below `src/packages/backend/src/modules/` unless they name a package.

| Component | State | Operations | Interacts with |
|---|---|---|---|
| Payments `payment/payment.service.ts` | `daily_payments` | createPayment, createPlanPayment (cascade), updatePaymentStatus | reads plans and assignments; called by plan creation |
| Assignments `assignment/assignment.service.ts` | `daily_assignments` | createAssignment, deleteAssignment | unique indexes shared with the generator; ACTIVE plans block bookings |
| Plans `ownership-plan/ownership-plan.service.ts` | `ownership_plans` | create (+ allocateAppliedDeposit), update | inserts a row and a payment through the other services |
| Generator `ownership-plan/ownership-plan-generator.service.ts` | a run's memory | four reads, plan loop, createMany, updateMany | cron at 00:05 and a manual endpoint; writes rows and plan status |
| Figures `ownership-plan.derivation.ts`, `ownership-plan-excusal.service.ts`, `shared-lib/.../estimate-plan-term.ts` | `day_excusals`; derived numbers | derivePlanFigures, excusal create and decline | reads all three tables |
| Transport jobs `transport/transport.service.ts` | `transport_jobs`, photos on disk | createJob, updateJob, updateOwnStatus, uploadDeliveryPhoto, deleteJob | office and driver write one row; expenses refer to it |
| Expenses `expense/expense.service.ts` | `expenses`, receipts on disk | create, submit, submitForJob, approve, reject, update, remove, uploadReceipt | found through the driver's assignment or current job |
| Transport reconciliation `transport-reconciliation/` | `transport_payment_matches`, a job's `amountReceived` | preview, commit | writes jobs inside its transaction, from rows read outside it |
| Offline queues `mobile-app/src/queue.ts`, `expenseQueue.ts`, `jobExpenseQueue.ts`, `gpsQueue.ts` | lists in AsyncStorage, in-memory flags | enqueue, flush, retry of a photo | mounts, NetInfo, pull-to-refresh and taps call them together |
| Session `mobile-app/src/api.ts`, `auth/auth.service.ts` | the token pair on the phone, its hashes in Redis | login, refresh, logout | every request of the app |
| Sign-up `auth/` | tenants, owners, codes in Redis | signup, send, resend, confirm, nightly clean-up | the mailer; the tenant lock in front of all services |
| Digests `notification/` | alert rows | four cron scans: read, mail, record | assignments, vehicles, maintenance logs, documents |
| Tenant cache `cache/tenant-cache.service.ts` | Redis lists with a time to live | get, set, invalidate | every list reader and writer |
| GPS `gps/` | positions | poll of the provider, batches from phones, live map | assignments say whose vehicle a phone's fix is on |
| Bulk import `bulk-import/` | drivers, vehicles, plans, opening balances | preview, commit | one transaction; the unique indexes of the core |
| Documents `document/`, `dashboard/src/components/DocumentSlot.tsx` | `documents`, files on disk | create, list, remove; upload, replace, delete | a replacement is two requests of the page |
| Dashboard pages `dashboard/src/pages/` | lists and filters in React state | load on mount, on a change of filter, by the clock, after a write | every list and write of the API |
| Review dialogs `BulkImportPage.tsx`, `TransportReconciliationModal.tsx` | the chosen file, its preview | choose, preview, commit | bulk import and reconciliation read the file again at the commit |
| Tracking links, fleet, drivers, guarantors, maintenance, summaries, contract printing | records, reports | create, edit, list, render | read-mostly |

`PROJECT.json` lists every component with its status, and every hazard at its
line. What makes them correct, in short: the tables agree with each other; money
taken, billed and paid stays within the price; a status only moves forward; a
day is billed once and not forgotten; what is shown agrees with what is stored.

What is hard here:

* **Interleaving.** Each awaited Prisma call is one autocommitted statement;
  a request or run decides on what it read several statements ago. The only
  explicit transaction is around the cascade's inserts. What holds under
  concurrency holds because of unique indexes and a foreign key.
* **Partial work.** Plan, first row, deposit payment and its completion are four
  statements; the generator's two writes are two. A crash leaves a prefix, and
  nothing resumes it.
* **Silent drops.** `createMany` with `skipDuplicates` leaves out rows the run has
  already counted.
* **Calendars.** Server dates are UTC, the business day is Dar es Salaam's; the
  schedule is walked day by day in three places and by whole weeks in a fourth.
* **Whole-list writes.** On the phone every list is one stored string: each change
  is a read and a write of all of it, by callers that overlap.
* **Two systems, no transaction.** A file and its row, a mail and its record, a code
  in Redis and the company in PostgreSQL, a list in the cache and its table, a
  request and its answer over mobile data: each pair is two steps with a stop or a
  loss in between.
* **Answers that cross.** The dashboard cancels no request: an answer may belong to a
  filter, a file or a rendering of before.

## 2. Modules

| Module | Models | Its definitions and the code |
|---|---|---|
| `PlanTables` | `schema.prisma`, one tenant | the three tables, the unique indexes (`Clashes`), the sums; requests and runs in flight |
| `PaymentService` | payment.service.ts | `CreatePayment` -> `ReadLedger` -> `InsertPayments`; `ReconcilePayment` -> `SettlePayment`; the cascade is `Cascade` |
| `AssignmentService` | assignment.service.ts | `CreateAssignment` -> `InsertAssignment`; `DeleteAssignment` |
| `OwnershipPlanService` | ownership-plan.service.ts | `CreatePlan` -> `InsertPlan` -> `InsertDepositRow` -> `PayDeposit` -> (payment steps) -> `ReconcileDeposit`; `UpdatePlan` -> `WriteStatus` or `WriteTerms` |
| `OwnershipPlanGenerator` | generator | `ScanPlans`, `ReadPlanRows`, `ReadPaid`, `ReadCalendar`, `PlanTurn` per plan, `CreateRows`, `CompletePlans` |
| `HirePurchase` | the four together | `Init`, `NextDay`, `Crash`, `Next`, fairness, the properties |
| `PlanLedger` | what the services promise about one plan's numbers | the abstract specification; `MCHirePurchase!KeepsLedger` refines it |
| `PlanFigures` | derivation, term estimate, excusals | the figures over the histories a plan can have |
| `HirePurchaseProofs`, `PlanLedgerProofs`, `PlanFiguresProofs` | | theorems about the three |
| `ProofLemmas` | | lemmas all the proofs share: sums over finite sets, sequences as lists, extremes |
| `TransportTables` | `schema.prisma` | jobs, expenses, matches, files on disk; requests in flight |
| `TransportService` | transport.service.ts | `UpdateJob` or `UpdateOwnStatus` -> `WriteJob`; `DeleteJob` -> `EraseJob` |
| `ExpenseService` | expense.service.ts | `Submit`, `SubmitForJob` (-> `FindScheduled`) -> `InsertExpense`; `Decide` -> `WriteDecision`; `EditExpense`, `RemoveExpense` and their writes |
| `Uploads` | both upload handlers | `UploadReceipt` or `UploadDeliveryPhoto` -> `WriteFile` -> `Attach` -> `Unlink` |
| `TransportReconciliation` | transport-reconciliation.service.ts | `BeginCommit` -> `ReadJobs` -> `CommitMatches`; a commit names any job for any row, a row as often as it likes, as the endpoint lets it (the preview only reads) |
| `Transport` | the four together | `Next`, `Crash`, the properties; `TransportProofs` the theorems |
| `PhoneStorage` | storage.ts | the stored lists, the routines under way, what the server and the driver know |
| `OfflineQueues` | queue.ts, expenseQueue.ts, jobExpenseQueue.ts, the submit handlers | submit -> answer -> `Save`; `Flush` -> answer -> `Shift` per item, which stores the shortened queue and no more: what the driver is told is not state (see *Known disagreements*) |
| `PendingReceipts` | the photo half of the two expense queues | `TryUpload` -> `StoreReceipts`, called by submit, flush, sweep and tap |
| `GpsQueue` | gpsQueue.ts | `HandleGpsFix` -> `EnqueueGpsFix`; `FlushGpsQueue` -> `AnswerBatch` -> `ClearGpsQueue` |
| `Session` | api.ts, auth.service.ts | `Send` -> `Response` -> `RefreshTokens` (join, or start) -> `ReadToken` -> `LookUp` -> `Delete` -> `IssueTokenPair` -> `SaveTokens`, `RereadToken` or `GiveUp` -> `Settle` -> `SendAgain` or `ClearTokens` per caller |
| `DriverApp` | the app | `Kill`, sign-in and sign-out, fairness, the properties; `DriverAppProofs` the theorems |
| `ListPages` | the lists of the dashboard's pages | one record per list (`ExpenseLedger` ... `DriverSearch`) says how it differs; `ChangeFilter`, `ClearFilter`, `Poll` and `AnswerWrite` issue loads; `Serve` -> `AnswerLoad` or `FailLoad` |
| `FileReview` | BulkImportPage.tsx, TransportReconciliationModal.tsx | `ChooseFile`; `RunPreview` -> `PreviewAnswered`; `RunCommit` -> `CommitTaken` -> `CommitAnswered` |
| `DocumentSlots` | DocumentSlot.tsx, document.service.ts | `HandleUpload` -> `InsertDocument` (-> `FindDocument` -> `UnlinkDocument` -> `EraseDocument` of the old one); `HandleDelete` the same three |
| `Clients` | the app and the dashboard | a behaviour follows one; the properties of the lists; `DashboardProofs` the theorems |
| `Accounts` | auth.service.ts signup, signup-verification, verification-code, abandoned-signup-cleanup, tenant-lock | `Signup` -> `CreateTenant` -> `SendCode` -> `Issue` -> `Mail`; `ConfirmCode` -> ... -> `Activate`; `ListAbandoned` -> `DeleteAbandoned` |
| `Digests` | the four notification services | `ScanAndNotify` -> `ReadDue` (-> `ReadRecorded`) -> `ResolveOwnerRecipients` -> `MailSent` -> `RecordAlerts` -> next tenant |
| `TenantCache` | tenant-cache.service.ts, its callers | reader: `GetMiss` -> `Query` -> `SetEntry`; writer: `Write` -> `Invalidate` |
| `DevicePolling`, `FleetMap` | gps-device-polling.service.ts; gps.service.ts, current-position.ts | `ScanAll` -> `GetPositions` -> `MatchVehicles` -> `ReadLatest` -> `InsertFixes` -> `RecordSuccess`; `ResolveCurrentPosition` |
| `BulkImport` | bulk-import.service.ts, validator | `BeginCommit` -> `Commit` (if `UniqueRows`: phone, registration, the vehicle's ACTIVE plan, the days of driver and vehicle) or `RollBack`; `EnterByHand`, `ClosePlan` |
| `BackOffice` | the six, side by side | fairness, the properties; `BackOfficeProofs` the theorems |
| `MC...` | | constants for TLC |

A request is a record in `call[c]`, a generator run one in `run[g]`: `pc` is the
await it is suspended at and the other fields are the values it has read. An
action runs from one await to the next, so between two actions of a request any
other request, run, midnight or crash may come. A refused request goes back to
`idle`, whatever the error is.

An operator named `Op_Something` is a plausible bug in the `Op` defined below
it; a property is listed in `PROJECT.json` with the bug it catches.

Abstractions: amounts are small integers (the code uses exact decimals); a
row's id is its content plus the number of deletions so far, so a row that is
made again is a new row; drivers and vehicles are active and compatible;
roles are taken as given. Two reads that only give an early error and that the
database decides again at the insert share a step with the read before them
(the booking checks of `CreateAssignment`, the vehicle check of `CreatePlan`); so
do the read of the assignment and of its plan in `CreatePayment` (rows are never
updated). A Prisma `include` is a second SELECT issued behind the first; the models
read both at once. The read and the delete of `DeleteAssignment` are one step because
payments are never deleted. `CreatePlan` checks driver and vehicle in one
statement instead of two. `UpdatePlan` writes either status or terms; a form that
sends both is two writes one after the other. A plan's schedule start is its
`startDate`; `billingStartDate` is only set by the bulk import, and `BulkImport`
models what it does to the opening balance.

In the driver app and the back office a behaviour follows one kind of queue
(`kind`) or one part (`part`), chosen in `Init`: they share no storage, and their
product would only multiply the states. A payment, expense or fix is a number in
the order of its making. What was saved and dropped on a refusal, what the server took
and which items met a named mishap (`past`, `server`, `odd`) are recorded beside the
lists, so that properties can say what may have happened to an item and why.
On a page, what a list says is which of the user's writes it includes and which filter
it is for; the several requests of one `load` are awaited together and are one call, and
so is a retry behind a refreshed token. The debounce of the driver search is left
out: it only makes loads rarer. A list is kept behind an error message, and `settled`
says when one is shown. Pages that only read (`OperationsCenter`, `VehiclePositions`,
`PendingBadge`) are there for the loads they issue; nothing is claimed of how soon they
see what others write.
`Digests` has one scan for four services; `Key`, `Course` and the steps only one
of them has say how they differ. A time is a minute, a poll or a date counted from
one; a code is named by the request that issued it. The map looks at all fixes of a
vehicle; `resolveCurrentPosition` takes the twenty newest (`gps.service.ts:167-171`),
which leaves the map's promise as it is: the newest fix is always among them. An
opening balance is its day and its plan, so that two on one day are two.

## 3. Runs

Bounds are the `Max...` constants of `PlanTables` and the constants of
`PlanFigures`; every configuration sets `CHECK_DEADLOCK FALSE` or stops at the
violation, because a bounded instance really stops when its days, plans and
payments are used up.

| Run | Question | Instance |
|---|---|---|
| `plan_ledger` | Does the code keep the numbers of a plan as `PlanLedger` promises, with crashes, deletions and cancellations interleaved? Also the types and oldest-first order. | one plan of two instalments of 2, one client, one run, days 0..2, amounts 1 and 3, 2 payments before the last request, 1 deletion |
| `concurrent_requests` | What holds under any interleaving? | two clients, one run, two drivers, one vehicle, two plans, a two-day deposit, one deletion; symmetric in drivers and clients |
| `one_request_at_a_time` | Do paid plans leave ACTIVE, and are due days billed, in the end? | two drivers, one vehicle, two kinds of contract, renegotiations to fewer days and to more, manual bookings, a deletion, days 0..2 with a lookback of one |
| `plan_figures` | Do the figures agree with each other and with the schedule? | four plans with weeks of 2, 3 and 7 active days, ending with a week and within one, days 0..9, partial and surplus payments, two excusals |
| `two_payments_at_once` | Is the ceiling kept with two payments in flight? **No.** | two clients |
| `closing_races_the_run` | Does a closed plan keep its status? **No.** | one client, one run |
| `missed_in_the_early_hours` | Is the run of missed days cut at the local midnight? **No, three hours late.** | as `plan_figures` |
| `transport` | Are the rows, files and totals of transport consistent whatever overlaps and stops? | two desks and two phones, two requests at a time, in two shifts; one driver, one job, one expense, two files, a statement of two rows; crashes at will |
| `clients` | Does the phone keep, send once and in the end send everything, and is a refresh refused only when the session is over? Does a page of the dashboard settle on what it was asked for, and is a replaced document never lost? | per kind: two items, one photographed, two flushes, two sweeps, a tap, two routines at a time, one trouble (lost answer, kill, sign-out); a buffer of one fix; two requests and three token pairs. Every list of every page with two filters, two writes and two requests in flight; two files; two clerks, three documents, one outage |
| `back_office` | Do sign-up, digests, cache, polling, map and import keep their promises? | two sign-ups with one address, or one over the weeks, two requests, one wrong attempt; four digests over an unreadable and a healthy company, two overlapping scans, two days; three lists, two readers, two writers; two polls of one vehicle; five minutes of map; two imports, two billing dates, two plans of the pair; one stop in each |
| `statement_pays_a_job_twice` | Is the amount received the sum of the matches? **No, when a statement has two rows for a job.** | one commit |
| `session_ends_mid_flush` | Is an item only dropped when the server judged it? **No.** | two payments |

The bounds are enough for the cases that matter: amount 1 leaves an instalment
half paid, amount 3 covers one and a half, so the cascade crosses rows and
leaves surplus; three days for a plan of two instalments let the generator reach the
end of its billing with a day to spare, and a manual booking or a deletion makes
a hole before it; one crash anywhere reaches every prefix. Two plans for one
vehicle need two clients to race and one completion to follow each other.

`plan_ledger` has one client on purpose: with two, `ReservedWithinPrice` fails
(`two_payments_at_once`), and with it the ledger. `plan_ledger` also lets the
owner cancel but not complete a plan by hand, and edit no terms: an owner may do
both, and then COMPLETED does not mean paid and the price itself moves.
`concurrent_requests` lets the owner complete, and reaches two ACTIVE plans of
one driver, which no index forbids.

In `transport` a client may do anything its role may in some behaviour, but each
behaviour gives each client its duties (`Shifts`): a shift puts together the requests
that touch the same rows. In `clients` one trouble of the phone is enough: each of its
properties is about what one mishap may do to one item, and two items give it a
neighbour that must not be touched. The constants of the code are scaled (five
attempts and thirty fixes to one), not dropped. Two requests of a page are enough to
cross. A third document is needed for two clerks to replace the same first one.

Some properties name what the code does give up:

* `NothingForgotten`: items saved while a flush held its copy of the list, and items
  dropped on a refusal (`DroppedOnlyIfJudged` is about whose refusal).
* `RecordedOnce`: items whose answer was lost, and items such a save put back.
* `PhotosKept`: photos in hand at a kill, and lists stored by two routines at once.
* `RefusalMeansOver`: a refresh that ends on a 5xx is not in it.
* `ListsSettle`: a list whose last answer had been overtaken or was for a filter of before.
* `MailedOnce`: keys that two scans had in hand, that could not be recorded, or whose mail
  went out unreported. `FixesStoredOnce`: fixes two polls overlapped on.
* `StaleOnlyIfUnseen`: a read of before a write stored behind it, a deletion the cache did
  not take, and writes that invalidate nothing.
* `OpeningBalanceOnce`: a plan closed by hand between the reads and the writes of an import
  that creates another, which the index on ACTIVE plans lets through.
* `DueDaysAreBilled`: see *Fairness* below.

Each exception is a hazard in `PROJECT.json`, and an item is excepted only when that
very thing happened to it.

**Findings.** The five violated properties quote the code's own comments and
messages; `PROJECT.json` has the quotes and lines. Two are races between the
awaits of two actors. One happens every night between midnight and three. A
statement with two rows for one job, and an app opened after its session expired
with payments in the queue, need no second actor at all. Two more disagreements of
the deposit with a generator run under way (a deposit row counted neither as
billed nor as missing, and a deposit of which only the primary payment is
completed) are described under `hazards`.

**Known disagreements.** The models reach all of these but the last, and TLC shows the
first five when asked. None has a run of its own: the five findings above are the ones
kept. Nor does a passing property stand for one: with its race or its failure taken out,
what would be left restates a guard.

| Where | The code says | What happens |
|---|---|---|
| payment.service.ts:326-335 | "Cannot transition payment from ... to ..." | `ReconcilePayment` twice: both read PENDING, and the later `SettlePayment` turns a COMPLETED payment FAILED, or the reverse |
| assignment.service.ts:273-287 | "this is hard, with no OWNER override" | a plan for another driver is created between the check of `CreateAssignment` and `InsertAssignment` |
| expense.service.ts:173-174, 511-517 | approved is "not editable by anyone"; a second decision would "silently re-stamp" the first | two of the office decide, or one edits while the other approves: `WriteDecision` and `WriteEdit` go by id |
| abandoned-signup-cleanup.service.ts:80-85 | "Data is never deleted for a real tenant" | the owner confirms between `ListAbandoned` and `DeleteAbandoned`, and has entered nothing yet: the ACTIVE company goes |
| TransportReconciliationModal.tsx:24-27 | "the SAME file is re-sent to /commit" | `ChooseFile` while a preview is awaited: the old file's rows are shown, and the new file is sent with the choices made for them |
| expenseQueue.ts:29-30 | the two lists "never overlap for the same expense" | a save that puts a sent expense back (`odd.revived`) while its photo is listed |
| expenseQueue.ts:32-35, 87-88 | a 4xx drops a photo | so does a 5xx: any answer that is not a success is an `ApiError` |
| api.ts:21, 105, 148 | the client is called "when the session can no longer be refreshed" | a 5xx at the refresh (`GiveUp`) clears the tokens of a session that could; a pair that a login stores before `ClearTokens` is erased with them |
| mobile-app/README.md:38-39 | a dropped payment's driver "is told which one and why" | the report is a list in memory, shown when the whole flush has ended: a kill or a sign-out before that loses it, and refused fixes are never shown. The models say nothing of what the driver sees |

**Fairness.** In `one_request_at_a_time` a request in flight goes on: the event loop
and PostgreSQL answer every statement. The generator is run again and again: by
cron every night and by an owner at will; in the bounded days of the instance the
repeated runs stand for the nights to come. Nothing obliges a client to start a
request, and days need not pass. There is no crash in this run: a process that
crashes for ever finishes nothing.

In `clients` a routine of the app under way goes on (weak). That a flush starts, a sweep
starts and one of their requests is answered by the server is strong: the driver
keeps opening the screen and the network comes and goes. `EverythingIsSent` holds
of behaviours in which the driver is from some moment signed in for good and taps
no more; logging in again is not fair, he may stay away. The dashboard's properties are
about safety and assume no fairness.

In `back_office` a request that has begun goes on until it ends or the server
stops, which it does a bounded number of times. `VerifiedInTheEnd` also takes an
owner who keeps asking for codes, whose mail arrives again and again and who types
the code he was sent; `AlertedInTheEnd` the cron job, a mailbox that is reached
again and again and a relay that accepts again and again (strong: any one of them
may fail any number of times).

* `PaidPlansLeaveActive` is `[]<>` not paid-and-ACTIVE: a renegotiation may raise
  the price again, so "leads to COMPLETED" would be wrong.
* `DueDaysAreBilled` begins when a due day is ahead of everything billed and no run is
  under way, and ends when the day is billed or the code has given it up: the driver has
  another assignment that day; the vehicle was booked under another driver in the
  schedule so far (the insert drops such a day silently, and with it a place in the
  cap); the price is fully billed; the day is older than the lookback. Both
  premises are needed. The generator goes on from the last billed day, so it never comes
  back to a row that was deleted behind it, nor to a weekday the owner made active since;
  and a day that changes under a run may be passed by it. Deletions, wider weeks and a
  lookback shorter than the calendar are all in the run, and without either
  premise, the lookback or the other driver TLC finds the property violated.
* `ReadsInTime`, in `AlertedInTheEnd`: a scan falls into a tenant's tracking hours now and
  then. The scan of silent devices starts at one hour of the day
  (`gps-offline-alert-notification.service.ts:89, 158`), so a window without that hour
  would starve it; no endpoint sets the hours today (`tenant.service.ts:101-107`), and
  without them every scan is in time.

## 4. Proofs

Every theorem is for all values of the constants within the named assumptions, so
for any number of clients, runs, routines, requests, rows and any bounds. The
assumptions on constants are what validation, the schema or the code's own constants
give: amounts, targets and terms are positive and weekdays not empty
(`InputsAssumption`, `TermsAssumption`), seeded tables respect the index
(`SeedAssumption`), the name used for "none" is none of the real ones
(`NoOneAssumption`, `FiltersAssumption`, `FilesAssumption`), bounds on time are numbers
(`MaxTimeAssumption`, `MinutesAssumption`), items are numbered (`ItemsAssumption`). TLC
evaluates each of them on every run of its module. One theorem
(`NewestFixesAlwaysKept`) has a hypothesis beyond that; it is in its statement.

Each proof follows one pattern. The property is not inductive, because a step acts on what
was read several steps before; the invariant adds what requests and routines in flight
hold, TLC checks it on the instances of section 3, each action has a step or a lemma that
it keeps each part it can disturb, and PTL joins them.

### The core: `HirePurchaseProofs`

* `TypeCorrect`: `Spec => []TypeOK`
* `PaymentsBelong`: `Spec => []PaymentsAreTheDriversOwn`
* `RowsFollowPlans`: `Spec => []PlanRowsFollowThePlan`
* `VehiclesOnOnePlan`: `Spec => []OneActivePlanPerVehicle`
* `ClosedForGood`: `Spec => NeverReopened`
* `DaysAreSingle`: no driver and no vehicle has two assignments on one day
* `PaymentsAreNumbered`: no two payments have one number

`IInv` says what requests and runs in flight hold: shares are positive and of the request's
driver, a row waiting to be inserted is of its plan's driver and vehicle, plans in a run's
memory are the plans of the table up to status and terms, plan ids only grow, and no
request carries a transition to ACTIVE. `Tidy` adds what is apart from what: the unique
indexes see to rows inserted one by one, but the rows of one `createMany` are apart because
the run keeps the days it has `taken` and turns to each plan once, and the payments of one
transaction are numbered by the days of their rows, which is only right because a plan's
rows are on different days.

`PlanLedgerProofs` proves of the abstract ledger, for every price, that `paid <=
reserved <= owed` and `billed <= owed` (`NeverBeyondThePrice`) and that COMPLETED
means paid (`CompletedPlansArePaid`). `KeepsLedger` carries this over to the
services on the instance of `plan_ledger`; the refinement itself is checked by TLC.

### The figures: `PlanFiguresProofs`

* `EndsAsShown`: `Spec => []EndDateIsTheLastInstalment`
* `FinishAsShown`: `Spec => []SquareDriversFinishOnTheEndDate`
* `RunWithinArrears`: `Spec => []ArrearsCoverTheRun`

The code computes dates in three ways: by whole weeks, by walking day by day, and by
dividing amounts by the daily instalment. What ties them is `Count`, the number of a plan's
days up to a date. It grows by at most one a day (`CountSteps`) and by exactly the size of
the weekday set in seven days wherever they begin (`WeekCount`, `WeeksCount`); `FirstBy`
finds the day on which it reaches a number; so the end date by weeks (`EndDate`) and the
day the walk stops at (`NthIs`, `AdvanceIs`) are the same. `FiguresInv` says that the billed
days are exactly the first of the plan's days, none beyond the term, each at the daily
amount; without it a hole in the billing would put the two apart. `ArrearsCoverTheRun` also
needs that a sum of daily amounts with at most one part paid cannot round to fewer days.

### Transport: `TransportProofs`

* `TypeCorrect`: `Spec => []TypeOK`
* `MilestonesStamped`: `Spec => []MilestonesAreStamped`
* `NamedFilesAreOnDisk`: `Spec => []FilesOnDisk`
* `ReceivedIsBacked`: `Spec => []ReceivedIsBackedByMatches`

`IInv` says what requests in flight hold: a file that is written and
not yet named belongs to one upload alone, a file about to be removed is named by no
row and no upload, and a write of a job's status brings the stamp that status needs or
found it on the job. `MatchInv` is the argument for the amounts, whatever jobs and rows
the commits name: what a commit read of a job was covered by the matches of then, matches
are only added while the job is there, and ids do not come back, so it is covered still
when the commit writes; an overlapping commit can lose an increment and never invent one.

### The driver app: `DriverAppProofs`

* `NothingEverForgotten`: `ClientsSpec => []NothingForgotten`
* `NothingRecordedTwice`: `ClientsSpec => []RecordedOnce`
* `PhotosFollowTheirExpense`: `ClientsSpec => []PhotosKept`
* `NewestFixesAlwaysKept`: `ClientsSpec => []NewestFixesKept`, assuming
  `MAX_QUEUED_FIXES <= MaxBatch`. The code has 500 for both (`gpsQueue.ts:28-30` and
  `record-phone-fixes.dto.ts:71`); a larger buffer would send batches the server refuses.
* `RefusalsAreRight`: `ClientsSpec => RefusalMeansOver`

`PhoneInv` has nine parts, each for a way in which a whole-list write could go wrong.
`PhoneTypes` gives each routine what it holds at each await. `OneSync`: the in-memory flag
lets one flush run. `Known` and `Fresh`: every copy of the queue is of items saved, and an
item being made is in no copy and not yet on the server unless its answer was lost.
`Sorted`: queue and copies are in the order of recording, which is why removing by position
removes what was sent. `Covered`: what was saved is in the queue *and in every copy of it*
that will be written back, or it need not be. `Once`: what will be sent again was not taken.
`ListsAgree`: copies of the photo list agree with the list but for photos dealt with.
`PhotosInSight`: every photo of an accepted item is in a list or in a routine's hands.
`SessionInv` says that at most one refresh is under way and that a token the server
answered 401 for is not in Redis any more.

### The dashboard: `DashboardProofs`

* `DocumentsAreKept`: `ClientsSpec => []DocumentsKept`
* `PagesSettle`: `ClientsSpec => []ListsSettle`
* `ClientsTypes`: `ClientsSpec => []ClientsTypeOK`, of the app and the dashboard

`ReviewsAlone`, `SlotsAlone` and `PagesAlone` first show that a behaviour of `ClientsSpec`
is one of each part, since the clients share no variable. `SlotsInv` says that a removal under
way is of a document somebody asked to delete or one a later row has replaced, and that
the file of an upload that waits for its row is on disk and belongs to no other upload
and no row: so neither the last row nor its file goes by way of somebody else's request.
`PagesInv` says that the answer to any request in flight will show what was asked for,
with all that was acknowledged, or a later load is under way behind it; it needs each kind
of page apart (`PageOfItsKind`), for they reload at different moments.

### The back office: `BackOfficeProofs`

* `BackOfficeTypes`: `Spec => []TypeOK`
* `CachedListsAreFresh`: `Spec => []StaleOnlyIfUnseen`
* `OpeningBalancesOnce`: `Spec => []OpeningBalanceOnce`
* `NeverFarBack`: `Spec => NeverGoesFarBack`
* `PositionsStoredOnce`: `Spec => []FixesStoredOnce`
* `DigestsMailedOnce`: `Spec => []MailedOnce`

Of the lists and the map the invariant is little more than the types. `ImportsInv`: until
a plan is closed under an import that creates another, an import that has an opening
balance to write creates its plan too, there is one opening balance at most, and while an
import is to create a plan the latest plan, if there is one, is ACTIVE: so the index on
ACTIVE plans stops the second import. `GpsInv`: what a poll is about to insert is not
stored, and no other poll has it in hand, but for fixes two polls overlapped on. `DigestsInv`: what a scan is about to
mail was not mailed, what was mailed is recorded or about to be, and no two scans have one
key in hand, but for keys that may come again. `AccountsInv`: no two requests create one
company, and what the clean-up has listed exists.

### Sums and induction

The library's induction theorems take an operator as a parameter, which the provers cannot
instantiate. `ProofLemmas` does induction by the least counterexample instead: the set of
numbers for which a fact fails is a set, and if it is not empty it has a smallest member
(`Least`, `Greatest`). From that come the extremes of finite sets, counting, and sums:
`MapThenSumSet` over a finite set is shown to be a function of the set (`SumsExist`,
`SumsUnique`) that grows by what is added (`SumTakesOut`, `SumGrows`, `SumGains`).

### Only model-checked

The liveness properties (`PaidPlansLeaveActive`, `DueDaysAreBilled`, `CallsEnd`,
`EverythingIsSent`, `VerifiedInTheEnd`, `AlertedInTheEnd`): liveness is out of the prover's reach. `KeepsLedger`
and `OldestDayFirst` are safety and within it: their proofs are the next step.

## 5. Plan

1. (done) The hire-purchase core, its ledger, the figures, the first theorems.
2. (done) Transport: jobs, expenses, uploads, reconciliation, and their theorems.
3. (done) The driver app: queues, photos, fixes, session.
4. (done) The back office: sign-up, digests, cache, polling, map, import.
5. (done) The dashboard: lists, review dialogs, documents, and the theorems of the
   last two.
6. (done) Proofs for the app, the lists of the dashboard, the back office, the figures and
   the amounts of transport.
7. Worth doing next: `OldestDayFirst` and the refinement `KeepsLedger` proved, with the
   lemmas on sums there are now; a refinement of the phone's queues by an abstract "each
   item is waiting, taken or judged"; the deposit's four statements as a refinement of
   one; what the driver has been told of refused items, as state of the
   screens; that pages which poll catch up with what others write.

## 6. Not modelled

* **Rendering.** What the dashboard's pages and forms look like, what the driver is told of
  refused items, the app's screens beyond
  their submit, sync and retry handlers, PDF contracts, mail texts: they change no state. Most of
  the repository's lines are these, and they have no states to check.
* **Reads.** Summaries, scores, list filters, pagination, caps and duplicate flags,
  progress of a job: sums and selections over tables the models hold.
* **Parsing.** Spreadsheets and statements become rows of the small sets the models
  enumerate.
* **Single-row records.** Vehicles, drivers, guarantors, maintenance logs,
  payment accounts, tracking links: created, edited and removed by one statement after
  one check; only their effect on the cached lists and the digests is modelled.
* **The dashboard's session.** Two tabs share one refresh token in the browser's storage,
  and an idle timer signs the user out; the server's side of the rotation is in `Session`.
* **Password reset.** It deletes a user's refresh keys and writes a password; for the
  app it is a session that is over, which `Session` has.
* **Tenant scoping** is one equality added to every query; the models take one
  tenant's view. Roles are checked before anything else in every handler.
