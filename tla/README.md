# Verification of gestion-flotillas

TLA+ models of the parts of this repository where money, odometers, surveys,
files and job rows are moved by several actors at once, or by one actor whose
answers may be late or lost; the TLC runs that check them on small instances; and
TLAPS proofs of what holds for every fleet, calendar and number of requests.

Paths below are relative to the repository root (`src/` here).

- [1. The system](#1-the-system)
- [2. Inventory](#2-inventory)
- [3. Modules and how they correspond to the code](#3-modules-and-how-they-correspond-to-the-code)
- [4. Runs, bounds and fairness](#4-runs-bounds-and-fairness)
- [5. Proofs](#5-proofs)
- [6. What the checks found](#6-what-the-checks-found)
- [7. What is not modelled](#7-what-is-not-modelled)
- [8. Plan](#8-plan)

## 1. The system

| Process | Code | What it does |
|---|---|---|
| API | `api/src` | Express handlers over Prisma and PostgreSQL (READ COMMITTED); publishes to BullMQ; also runs the schedulers and the BullMQ workers of `jobs/index.ts` |
| Worker | `worker/main.py` | Python BullMQ consumer: monthly reports and exports, one heavy job at a time |
| Web | `web/src` | Next.js client: pages over a cache of queries, the public portal of the operators |
| Phones | (not in the repository) | hand in surveys, recordings, evidence and contacts until they are told that the server has them |
| PostgreSQL | `api/prisma` | every authoritative row, CHECK constraints, advisory locks |
| Redis | | BullMQ queues, one-use tokens, revoked sessions |
| Private storage | `worker/artifact_storage.py`, `api/src/lib/*Storage.ts` | uploads, recordings, photos, generated artifacts |
| Host | `scripts/ops` | deployment, periodic backup, alert drill, monitor |

Interactions:

- Requests arrive concurrently at the API. Handlers are transactions; what protects
  them is advisory locks (budget timeline and month), row locks, compare-and-swap
  updates, unique keys, or only CHECK constraints, depending on the handler.
- The API and the worker share rows (`report_history`, `data_jobs`), BullMQ jobs
  and files, and no transaction spans two of the three. Every step between them
  can be lost, repeated or cut short by a crash.
- Pages act on what they have read. An answer may come late, out of order or never,
  and a request may have taken effect although its answer was an error.
- Phones repeat every request until an answer tells them to stop, so every
  handler of theirs must be idempotent, and its answers must be true.
- Schedulers: a sweep every minute (recover and publish reports; recover, publish
  and clean data jobs), overdue budget months daily at 06:00, document compliance
  daily at 00:01, thumbnails every 15 minutes, the report of the past month on day 1.
- The scripts stop and start the containers that all of this runs in.

## 2. Inventory

For each component: its state, its operations, what is hard about it, and what
makes it correct. Components that are not modelled are in section 7.

**Budget ledger** (`budgetService.ts`, `budgetPeriodLock.ts`,
`budgetDistributionService.ts`, `budgetRouter.ts`, `vehicleDeactivationService.ts`).
State: `vehicle_budgets` (base, rollover, spent, closed, cut off) and the monthly
pools. Operations: assign, distribute (explicit, total, per unit), declare a pool,
reserve, release with propagation through closed months, close a month with
rollover, remove a vehicle. Hard: months are closed late, retried and repeated;
releases arrive after the closing; vehicles are removed with open months.
Correct: nothing is overspent, pools cover what is assigned, rollover happens once
and stays exact, months close in order, closed rows are history, removed vehicles
hold no money. *Lock order*: no two transactions wait for each other. *Overdue
sweep*: every overdue month is closed in the end unless a capture under review
defers it.

**Fuel loads and odometer** (`fuelLoadService.ts`, `maintenanceRecordService.ts`,
`vehicleService.ts`). State: `fuel_loads` with their review state, the master
odometer, maintenance readings. Operations: dashboard capture, public capture,
approve, reject, reconcile a legacy capture, maintenance, odometer correction.
Hard: a capture waits while months close, vehicles are blocked or removed and the
odometer moves; two reviewers; two half-effects that may or may not have happened.
Correct: every load is charged exactly once and released exactly once, a waiting
capture can still be charged, the odometer never falls below an approved reading.

**Monthly reports** (`reportService.ts`, `worker/main.py`). State: `report_history`
with run token and lease, the outbox, BullMQ jobs, artifacts. Hard: crashes
anywhere, lost replies, workers that wake up after losing their lease, retries of an
old report after a new one was requested. Correct: one report in process, the
newest; completed reports are final and downloadable; no month is blocked for good.

**Heavy data jobs** (`dataJobService.ts`, `worker/main.py`). State: the row, its
BullMQ job, its uploaded file or artifact. Hard: as for reports, but the row is
recovered by age and not by lease; exports are repeatable and imports are not.
Correct: an import is applied at most once, outcomes are final, artifact and input
stay while they are needed, jobs end.

**Maintenance tickets** (`services/tickets/*`). State: tickets, quotes, photos, the
maintenance budget. Operations: create, attach, reject, assign and reassign
workshops, quote, decline, approve, start, complete. Hard: handlers check outside
of the transaction that writes. Correct: money is reserved once and belongs to a
repair that can be completed, records are made once, a removed vehicle has no
ticket going on.

**Documents and compliance** (`documentService.ts`, `blockingService.ts`,
`jobs/index.ts`). State: documents, the status of vehicles, notifications.
Hard: the daily job reads, writes, tells and alerts in separate transactions and is
retried from the start. Correct: statuses follow the documents in the end, nobody is
told of a block that did not happen, the scans of documents are on disk.

**Vehicle import** (`vehicleImportService.ts`). Rows are matched against a table read
once, one transaction each. Hard: the table is stale. Correct: no administrator's
edit is overwritten, no two vehicles are merged, none is reactivated.

**Surveys and external QA** (`encuestasIngestService.ts`, `encuestasAudioService.ts`,
`encuestasRevisionService.ts`, `qaExterna*Service.ts`). State: rows under the ids of
the phones, files named by the hash of their content. Hard: requests die between
file and row, two requests of one upload at once, a key that is revoked; downloads
that read batch by batch while phones go on. Correct: an acknowledgement is true and
stays true, a file stands behind every row, a download is consistent.

**Web pages** (tickets, fuel loads, vehicles, documents, budgets, reports, exports and
imports, public portal). State: what was read last, the open dialog, the requests under
way, the session storage. Hard: everything on the page may be stale. Correct: a
request means what the person saw; what the page says of an outcome is so; a form
submitted twice makes one thing.

**Process of the API, thumbnails** (`index.ts`, `jobs/*`, `mediaThumbnailService.ts`).
Hard: a stop with requests and jobs under way; a photo that cannot be rendered.
Correct: an orderly exit leaves nothing running; every photo that can have a
thumbnail gets one.

**Deployment, backups, drill, monitor** (`scripts/ops`). State: containers, the
maintenance marker, bundles, the state file of the monitor. Hard: a crash of the host
between two commands; the drill takes no lock. Correct: no migration over data that
is not backed up, an outage is reported, the receiver knows the last state.

The hazards of the code, each at its line with the properties that watch it, are
in `PROJECT.json`. Some are left out there because others stand for them:
a cut-off flag that survives a rollover (`budgetService.ts:460`), the failure of a last
progress report after completion (`worker/main.py:538`, `:741`), a result of an import
shown twice (`VehicleImportDialog.tsx:75`), the order of files in a ZIP of evidence
(`generate_qa_export.py:59`), a pool declared while units are assigned
(`budgetService.ts:162`).

## 3. Modules and how they correspond to the code

```
 Budget <---- FuelLoads      Tickets       ReportLifecycle <-(refinement)- ReportJobs     DataJobs
   ^             ^             ^                                              ^              ^
 BudgetProofs <- FuelProofs    +------------- RacesProofs -------------------+       DataJobsProofs

 BudgetDesk TicketDesk ExportPanel FuelDesk VehicleDesk DocumentDesk  <- PagesProofs
 Surveys (-> SurveyForms)  SurveyExport  QaRecords  FuelPortal        <- FieldProofs
 ApiProcess Backups Compliance VehicleImport                          <- ServerProofs
 BudgetLocks                                                          <- LocksProofs
 ReportDesk  BudgetSweep  Monitor  Thumbnails                            (runs only)

 MCBudget   = Budget | BudgetDesk               MCRaces    = Tickets | ReportJobs
 MCFuelLoads = FuelLoads                        MCDataJobs = DataJobs
 MCPages    = TicketDesk | ExportPanel | FuelDesk | VehicleDesk | DocumentDesk
 MCField    = Surveys | SurveyExport | QaRecords
 MCOps      = Backups | Monitor | ApiProcess | Thumbnails
 MCProgress = BudgetSweep | Compliance | ReportJobs | ReportDesk
 MCShared   = BudgetLocks | VehicleImport | FuelPortal
```

The `MC*` modules name sets for TLC (small fleets, symmetry, state constraints) and
gather several components into one run. **`part`:** the components that a bar
separates share no state in the code that the models have, so a behaviour of the
run is a behaviour of one of them: the variable `part` is chosen in the initial
state, the action of that component fires, and the variables of the others stand
still. Nothing is checked of the product, and nothing is lost: every behaviour of
every component is a behaviour of the run. Where components do share state, one
module extends the other (`FuelLoads` on `Budget`) or takes the other's effect as
a choice (`DataJobs` around `VehicleImport`, `Compliance` inside `FuelLoads`).

Operators under a comment *a plausible mistake for* X are mutated forms of X; no
action uses them. Each property is violated when one of them takes the place of X.

### The ledger and what is charged to it

**Budget.** One kind of budget. Months are numbers, amounts are cents. Every
operation is one transaction that takes the timeline advisory lock first (shared, or
exclusive to close and to remove a vehicle), then the lock of its month and the
rows; two transactions that could disturb each other exclude each other, so each is
one step. `row[v][m]` is the `vehicle_budgets` row or `NoRow`; `pool[m]` the
`monthly_budgets` row or `NoPool`; `active` is `isActive`; `now` the business month.
The three distribution endpoints share `Allocate`; `TotalSplit` hands the residue of a
total to the lowest ids; `checkAndReserveFuelBudget` lets a vehicle without a row
through; `releaseFuelBudget` propagates the increase of the remainder through closed
months (`IsCarry` says what leaves each month, a function in place of the loop);
`closeMonthAndRollover` closes rows and pool and makes or increments the next rows;
`deactivateVehicle` normalizes open rows. Initially the months before `FirstOpen` were
closed by the earlier version with any amounts that fit its rollover, deficits up to
`HistoricDeficit` included (`validateReplacementAgainstSpent` did not exist yet).

**BudgetLocks.** The same transactions as sequences of lock requests, one
acquisition per step, over PostgreSQL's lock table with its queues, modes and its
deadlock detector. A transaction may end after any acquisition. `Targets` and
`Corrections` are the distributions and the corrections of services there may be; the
vehicles and months of each come in their order (`Ascending`), as `ORDER BY id FOR UPDATE`
and the sorted months make them.

**BudgetSweep.** The daily job over both kinds, of a month only its stage. A load that waits
for a review keeps its own month and all later ones open, also where that month has no row. `Wedged` is
a state no sweep leaves: a month that is open for one kind was never opened for the
other, and the month after is closed there, so that the closing is refused every day
before it comes to the kind that is open.

**FuelLoads.** Extends Budget; each action takes a step of the ledger or leaves it
alone. `loads` holds the rows in the order of ids, which here is that of dates.
`charged` and `advanced` are facts about the effects of a load, not columns: the
properties compare the ledger and the odometer with them. Loads left pending by the
migration `fuel_review_state` have unknown effects; an administrator declares them,
and `honest` records whether every declaration was a fact.

### Jobs

**ReportJobs, ReportLifecycle.** One step for each statement or transaction, call to
Redis and change on disk of `requestReportGeneration`, the outbox dispatcher,
`process_report` and the recovery sweep: a run token per attempt, a lease that runs
out at any moment, jobs by `(report, dispatch number)` as in `reportJobId`. `Fault`
counts everything that goes wrong. `ReportLifecycle` is what the machinery promises
about the statuses of the reports of one month; `ImplementsLifecycle` is the
refinement.

**DataJobs.** One row of `data_jobs`, export or import, with its BullMQ job, its files
by the token of the attempt that wrote them, and the sweepers that publish, recover and
clean it. `applied` counts how often the rows of an import were applied. `LateErrors`
are failures of the last progress report, after completion.

**VehicleImport.** `lookup` is what the import has read, `vehicles` the registry, by
place. `version` stands for `updatedAt`. Every row is one step: match (two of the
identifiers), write under the compare-and-swap on the version read, index again.

**Compliance.** `phase` is where the daily job is between its transactions. `told`,
`blockings` and `alerted` are history.

**Thumbnails.** One worker, jobs per photo, the backfill page by page.

### Tickets

**Tickets.** `request[r]` is what a handler has read and is about to write; reading
and writing are two steps, with any other request in between. `Consistent` is the
conjunction of the CHECK constraints of migration
`20260522000001_maintenance_tickets_workflow` (lines 164-187), which refuse some late
writes. `reserved`, `records` and `orphaned` are history.

### From the field

**SurveyForms** is data: which bodies `encuestasIngestValidator` accepts, the content
that `encuestasCanonical` hashes, the row that `mapEncuestaToRow` stores, the line that
`toCsvRow` writes. A hash is its content (no collisions). A cell of the CSV is what
`csvEscape` and `celdaDeLista` make of the texts: names are joined with ";", which a name
may contain, and a text that begins like a formula gets an apostrophe, so that different
answers may print alike. A 409 is therefore right if what is stored differs from what was
sent in a text that was typed or in the line of the CSV. **Surveys** has the requests,
await by await: key check, insert, compare, file, row. A device may be revoked and
registered again under a new key. A phone that updates its app while a survey is queued
sends another `versionAplicacion`; it is part of the hash, so the repetition is a 409.
**SurveyExport** has the CSV batch by batch (Prisma's `cursor` with `skip: 1` is taken to
skip the first row at or behind the cursor, also when the cursor's row no longer
matches) and the ZIP from a snapshot. **QaRecords** has
evidence, contacts and their ZIP; a photo is written in place under its final name.
**FuelPortal** is the public page with its one-use token, which the handler takes before
it looks at anything else. The page asks for a token when it opens, after "Registrar otra
carga", and at "Reintentar" whenever a load has failed; until the answer comes it keeps the
token it had, so a form may be sent with a token that is used up and later with a second
one. No refusal tells what is available, so the page does not verify again by itself.

### Pages

A page module has what the server holds, what each page read last, the open dialog
and the requests on their way, in both directions. **TicketDesk**: executor,
administrators, workshops. **FuelDesk**: reviewers; the success of a decision closes
whichever dialog is open then. **VehicleDesk**: edit, odometer, removal, under the
`expectedUpdatedAt` of the row that was clicked; a duplicate plate is told as another
user's change. **DocumentDesk**: the upload is on disk before anything is known; the
transaction holds the vehicle's row. **BudgetDesk**: which period a figure was read
for, through placeholders of the cache. **ExportPanel**: job id and filters in the
session storage; a cached answer under 30 seconds old may put a finished job back on
the page. **ReportDesk**: the list polled every ten seconds while it shows a report in
process; once it shows none the page stops asking.

### Around the system

**Backups**: deployment, backup, drill and monitor marker over three services;
**Monitor**: the state file and the webhook; **ApiProcess**: start, shutdown and exit;
`late` are the workers that `initializeJobs` starts after the shutdown has looked for
them.

## 4. Runs, bounds and fairness

| Run | Instance | Asks |
|---|---|---|
| `budget` | two vehicles and a pool over two months; one vehicle over a month inherited with a deficit and three more; a table of budgets over two periods | `NoOverspend`, `PoolCovers`, `RolloverExact`, `ClosedRowsFrozen`, `WrittenWhereShown` |
| `fuel` | 1 vehicle, 3 loads; three months and money, or one month and readings; no further once an odometer was corrected by hand | `PendingKeepsPeriodOpen`, `OdometerCoversApproved`, `SpendingFollowsLoads` |
| `datajobs` | export or import, 2 workers, 2 sweepers, 2 faults of which one may be late, fair | `ImportedAtMostOnce`, `FilesAreThere`, `OutcomeFinal`, `Settles` |
| `races` | 1 ticket, 2 workshops, 3 requests in flight, all three about invitations and money if there are three; or 2 reports, 2 workers, 2 faults | `InactiveHasNoOpenTicket`, `PaidOnce`, `CompletedHasArtifacts`, `ImplementsLifecycle` |
| `pages` | 2 workshops, filters, reviewers, clerks or offices; one lost answer; a second job or a second visit of a panel | `OneTicketPerForm`, `ApprovedAsShown`, `OffersAreTaken`, `ContextIsTrue`, `DecisionsStand`, `NothingOverwrittenUnseen`, `PapersAreInOrder` |
| `field` | 10 bodies of surveys, 2 keys, 2 sounds, 2 requests at once, 3 in all; 3 surveys exported in batches of one; records of 2 programs | `AnswersAreTrue`, `RecordingsAreKept`, `DownloadsAgree`, `RecordsAreKept` |
| `shared` | 3 transactions of any kind, 2 vehicles, 2 months; or every sheet of two rows over a registry of two, one edit meanwhile; or 2 fillings of the portal with 2 tokens and 3 posts | `OnlyKnownInterlocks`, `EditsSurvive`, `OneCapturePerForm` |
| `ops` | 2 schemas, 1 write, 1 trouble of each kind; 2 checks; 3 workers, 2 requests; 3 photos | `MigratesWithBackup`, `OrderlyExit`, `OutageIsSeen`, `ReceiverKnows`, `EveryPhotoGetsOne` |
| `progress` | 3 months, 1 vehicle with two documents over two days, 1 report with 2 workers and 2 faults, a list of two reports, fair | `ToldWhatHappened`, `OverdueIsClosed`, `StatusFollowsDocuments`, `EventuallyClosed`, `RunsAreFollowed` |
| `backup_drill` (violated) | as `ops` | `BundleIsOfOneMoment` |
| `monitor_retry` (violated) | as `ops` | `FailedAlertIsRetried` |
| `tickets_stranded` (violated) | as `races` | `ReserveNotStranded` |

**Why the bounds are enough.** Two vehicles are what a shared pool, a split with a
residue and a removal next to a survivor need; rows of different vehicles otherwise
never meet. Four months hold an inherited month, a closed one, the one that receives
and one that must not be touched. Amounts 0..1 (with rollovers up to `Largest`)
distinguish empty, exact and one cent over. Two loads let one wait while the other is
decided, and a third comes afterwards; three readings let an odometer be above, at and
below a reading. Two workers and two faults are a worker that lost its job and the one
that took it over, with one more accident in between; a third worker finds what the
second found. Three requests are an administrator, the one that races it, and the one
that finds the result. On the pages, two actors and one lost answer are the one who
acts on what the other changed; a second lost answer meets a page that is stale
already. Two rows of a sheet are the one that changes what the other is matched with.
One vehicle with two documents is enough for the daily job, which treats vehicles one by one;
for any fleet `ToldWhatHappened` is proved. `SmallAmounts`, `NoPools`,
`FleetOrCalendar` and `MoneyOrReadout` are state constraints that keep the two
questions of a run apart and stop where amounts grow past `Largest`;
`ThreeAboutMoney` (`races`), `JobsOrVisits` (`pages`) and `FewTroubles` (`datajobs`)
leave out combinations of bounds that add states and no question. The theorems
of section 5 hold without any of these bounds.

**Deadlock** is checked in `budget` and `fuel`. `CHECK_DEADLOCK FALSE` in the others is
for states where everything that was asked is done: all reports closed, a deleted job,
the bounds on requests used up, the process ended.

**Fairness.**
`ReportJobs`: weak fairness of each sweep, redelivery, dispatch, take and attempt: the
sweep is a job of every minute, processes are restarted by the container runtime,
BullMQ hands out waiting and stalled jobs. Requests, faults, renewals and crashes are
not fair. `DataJobs`: strong fairness of publishing, recovering and cleaning, because
one sweep performs all three in sequence every minute (`jobs/index.ts:163-194`), and
under weak fairness a sweeper of the model could do one for ever. `BudgetSweep`: weak
fairness of the job's steps, run daily. `Compliance`: weak fairness of the days and of
the job, and strong fairness of the writing step: the database is not down at the same
step of every run. `ReportDesk`: reports end (`EventuallyClosed`), timers and requests go
on. `Backups`: a command ends, by a timeout at the latest, and the clock goes on.
`Monitor`: strong fairness of a run that is not killed with a webhook that works:
neither fails for ever. `Thumbnails`: the worker works, the scheduler ticks, and the
backfill gets its turn because BullMQ takes jobs in order. In `ops` and `progress` one
fairness condition stands for one action of each part: a behaviour has one part, so the
fairness of the disjunction is that of the part's action. Nothing else is fair.

## 5. Proofs

Eight modules, checked by TLAPS: for any fleet, number of months, set of amounts, number
of requests, workers, faults. Assumptions are on constants only, each named in the
module that declares them: bounds are natural numbers (some of them positive: attempts,
`MaxWorkshops`, `MaxPhotos`, `MaxSchema`), amounts and readings are natural numbers with
0 among them, the fleet and the workshops of the pages are finite, stand-ins such as
`NoRow`, `NULL`, `None` are none of the things they stand in for (`NullAssumption`: `NULL`
is no row of a quote or a request), workshops are not called "executor" or "admin"; an
upload has a photo (`QaConstants`: a record without one is a 400), a body declares its
location in one of four ways (`SurveyConstants`), sheets and registries are sequences of
rows, a registry has a vehicle (`ImportConstants`: an import into an empty one only
creates), distributions name their vehicles and corrections their months in order
(`LockConstants`), and a batch of the CSV has a row (`ExportConstants`).

| Theorem | States | Argument |
|---|---|---|
| `TypeCorrect` | `[]TypeOK` of Budget | row lemmas (`NormalizedRow`, `ReleasedRow`, ...) say what each update of a row yields; amounts stay natural because a release takes no more than was spent and a removal clips at zero |
| `NeverOverspent` | `[]NoOverspend` | inductive with `TypeOK`; a reservation compares with the balance, an allocation with what is spent |
| `ClosingInOrder` | `[]ClosedInOrder` | needs `ClosedIsPast`, so a rollover never lands behind a closed month |
| `ClosedFrozen` | `ClosedRowsFrozen` | by the form of each step on closed rows |
| `RolloverStaysExact` | `[]RolloverExact` | along a chain of closed months the carry of `IsCarry` is the change of the remainder, and what leaves the last closed month reaches the open one |
| `InactiveStaysEmpty` | `[]InactiveHoldsNothing` | a removed vehicle is no target and receives no rollover; a release into one of its open months normalizes it again |
| `PoolsCover` | `[]PoolCovers` | only an allocation raises bases, and it compares the whole sum with the pool, as a declaration does; all else keeps or lowers every base (`BasesFall`), so the sum falls |
| `FuelTypeCorrect`, `FuelImplementsLedger` | `[]FuelTypeOK`; `FuelSpec => Spec` | each request appends a load, rewrites one or leaves the table, and is one step of the ledger: all theorems above hold of `FuelSpec` |
| `PendingStaysChargeable` | `[]PendingKeepsPeriodOpen` | a capture is dated in `now`, closed months are past; later only a closing could close its month, and `Deferring` forbids it |
| `RejectedStaysUncharged` | `[]RejectedNotCharged` | needs `WaitingNotCharged`: a capture under review has not been charged |
| `SpendingFollows` | `SpendingFollowsLoads` | `Charged` is the sum of the `Worth` of every load; a capture adds one worth, a review replaces one, and the ledger moves its spending by the same amount (`ReserveSpends`, `ReleaseSpends`); needs `WaitingNotCharged` |
| `InterlocksKnown` | `[]OnlyKnownInterlocks` | every lock has a rank in the global order; each plan is `Orderly` (it climbs, but for the months a late release goes on to and for locks that only the holder of the whole timeline can ask for), so who keeps another one waiting asks for a higher lock (`HoldersAskHigher`); among those of an interlock that ask for the highest one, take who asked first |
| `OdometerStaysAbove` | `[]OdometerCoversApproved` | the one step that lowers an odometer compares with every approved reading |
| `ImplementsLifecycleHolds` | `ImplementsLifecycle` | step simulation: who may close a report holds its token, only the newest is in process (`Typed`, `Order`) |
| `CompletedHasArtifactsHolds` | `[]CompletedHasArtifacts` | `Artifacts`: no live run but an unconfirmed one still has the token of a completed report, and what others remove bears other tokens |
| `OutcomeIsFinal` | `OutcomeFinal` | the guards of claim, completion, failure and recovery exclude finished rows |
| `ImportIsAppliedOnce` | `[]ImportedAtMostOnce` | `Once`: at most one attempt holds the claim of an import, and `applied` is 0 until it applies |
| `FilesStayThere` | `[]FilesAreThere` | `Kept` on top of `Once`: every file has one owner, and who removes is not the owner |
| `TicketsTypeCorrect`, `TicketsArePaidOnce` | `[]TicketsTypeOK`, `[]PaidOnce` | `TInv`: each row is `Good` (its history fits its status), and each request in flight is `WellAsked`: what it once read that no later step can undo |
| `RemovedVehicleHasNoOpenTicket` | `[]InactiveHasNoOpenTicket` | `TicketMoves`: a step leaves a ticket, or moves it forward from a status that is not final |
| `DecisionsStandHolds` | `[]DecisionsStand` | `FuelDeskInv`: a decision on its way back is the one the load carries, and decisions are never taken back |
| `NothingIsOverwrittenUnseen` | `[]NothingOverwrittenUnseen` | `VehicleDeskInv`: a form expects the version it shows, also while it is on its way |
| `WritesGoWhereShown` | `[]WrittenWhereShown` | `BudgetDeskInv`: the answer of a query has rows of its own period alone, and a placeholder is used only within the period |
| `ContextIsTrueHolds` | `[]ContextIsTrue` | `PanelInv`: requests on their way carry the filters their job gets; the storage is written with both together |
| `PapersStayInOrder` | `[]PapersAreInOrder` | `PaperInv`: the holder of the vehicle's row alone is between look and write, and every scan has one owner |
| `OneTicketIsMade`, `WhatIsShownIsReserved`, `OffersStayTaken` | the three properties of TicketDesk | `DeskInv`: every price a page ever showed was the quote's price, and differs now only if the quote was sent again |
| `FormsAreCapturedOnce` | `[]OneCapturePerForm` | `PortalInv`: posts of a form that may still be taken carry the token of the page; while the page loads, or may load again because that failed, its token is worth nothing; so a second token comes only to a form of which nothing was captured, and a capture spends the last one |
| `RecordsStayThere` | `[]RecordsAreKept` | `RecordInv`: what a request has stored so far (`Fits`), and who is writing a file that is not whole |
| `RecordingsStayThere`, `AnswersStayTrue` | `[]RecordingsAreKept`, `[]AnswersAreTrue` | `SurveysInv`: a stored row is `RowOf` an accepted body; the lemmas `SameHashSameRow` and `SameLineSameHash` say that the hash tells apart what the row does, and that two surveys with the same typed texts and the same CSV line have the same hash |
| `DownloadsDoNotDiffer` | `[]DownloadsAgree` | a batch leaves out one row at most, and only when its cursor has stopped matching (`OneBatch`, by the places of the rows); so what the CSV has passed by is never more than what it had sent and has gone (`CsvInv`); the snapshot fixes what is due in the ZIP (`ZipInv`) |
| `ExitIsOrderly` | `[]OrderlyExit` | `ApiInv`: what each step of the shutdown has waited for |
| `NothingElseIsTold` | `[]ToldWhatHappened` | `CheckInv`: told plus owed is at most what was written |
| `BackupBeforeMigration` | `[]MigratesWithBackup` | `BackupsInv`: where the script is says which services are down and what the newest bundle holds, as long as no drill and no death met it |
| `EditsAreKept` | `EditsSurvive` | `ImportInv`: an equal version means that the lookup has the vehicle's identifiers or nothing in their place, and that no administrator wrote last (`Knows`) |

Not listed in any run but proved: the type invariants of Budget, FuelLoads and
Tickets, `ClosedInOrder`, `InactiveHoldsNothing`, `RejectedNotCharged`.

**Sums.** `PoolCovers` and `SpendingFollowsLoads` add up amounts with a fold, and what a
fold computes needs an induction over the set. The library states that induction with an
operator as a parameter, which the provers cannot instantiate. The first part of
`BudgetProofs` goes another way: the proper subsets of a finite set are well founded, so if
a fact fails for some subset there is a smallest one for which it fails (`LeastSubset`), and
taking an element out of that one gives the contradiction. Existence of the function that
the fold chooses is shown the same way, over the natural numbers (`AddsExists`). The rest
cites what follows: any element may be taken out first, a sum depends on its values only,
smaller values have a smaller sum, a set may be summed in two parts. `OneBatch` and
`InterlocksAreKnown` take smallest counterexamples in the same way.

**What stays with TLC, and why.** Every invariant and every action property that a passing
run checks is proved as well. Left are

- *Liveness*: `Settles`, `EventuallyClosed`, `OutageIsSeen`, `ReceiverKnows`,
  `EveryPhotoGetsOne`, `OverdueIsClosed`, `StatusFollowsDocuments`, `RunsAreFollowed`.
- *The violated properties*, of course.

## 6. What the checks found

Three runs end in a violation of what a comment or document of the repository says;
each is a finding in `PROJECT.json`:

1. `tickets_stranded`: `reassignWorkshops` checks outside of its transaction and deletes
   the quote an approval has just selected; the amount stays reserved for a repair no
   workshop can start (`createFlow.ts:273`, against `createFlow.ts:249` and
   `docs/architecture.md:46`).
2. `backup_drill`: the drill takes no lock, and Docker restarts what had died; a bundle
   holds a database and files of different moments under a manifest that says the
   writers were stopped (`backup.sh:179`, against `backup.sh:177`).
3. `monitor_retry`: a failed alert is not always sent again in the next cycle
   (`public_monitor.py:469`, against `public_monitor.py:485`).

Divergences that earlier forms of the runs showed and that are now exceptions of a
property or notes:

- *Interlocks.* `budgetService.ts:200-201` says that the order of the locks avoids waiting
  in a circle; the chain of a late release locks later months after rows of earlier ones
  (`:283`), so two transactions can interlock. `OnlyKnownInterlocks` says that only the
  late release and the daily check of documents are ever part of a circle.
- *Cut-off rows.* Closing a month adds rollover to a row that was cut off at zero and leaves
  the flag, so loads are refused although money is there (`budgetService.ts:460`, against
  `:176` and `schema.prisma:563`).
- *Late errors.* An error of `updateProgress(100)` after an export was completed removes the
  artifact the row names (`worker/main.py:538`, against `dataJobService.ts:303`);
  `FilesAreThere` excepts it. A report worker that is not told of the success of its commit
  removes the report's artifacts; `CompletedHasArtifacts` excepts exactly those runs.
- *Quotes sent again.* A quote sent with a stale check changes its amount after it was
  approved (`quoteFlow.ts:44`); `ApprovedAsShown` excepts it.
- *CSV.* With `conAudio=false` a survey that gets its recording between two batches may push
  another one out of the CSV (`encuestasRevisionService.ts:453`; the contacts page the same
  way, `qaExternaPersonasService.ts:165`). Two surveys that name different people may have
  the same line, because names are joined with ";" (`encuestasRevisionService.ts:533`).
- *Photos.* A write that fails leaves part of a photo under its final name, and whoever sends
  it again is told that it is there (`qaExternaStorage.ts:107`). `copyFile` of a thumbnail is
  not atomic either: a torn one exists for good (`mediaThumbnailService.ts:74`, `:91`).
- *Import.* `vehicleImportService.ts:2` speaks of an upsert; two identifiers are needed to
  match. `EditsSurvive` has it as the code does it.
- *Wedged months* (section 3, BudgetSweep).

Behaviour nobody promised anything about, seen while modelling: a ticket form whose
answer was lost makes a second ticket when it is sent again (`TicketCreateForm.tsx:56`);
the PDF of a quote is removed when the notification after the commit fails
(`ticketQuoteRouter.ts:181`); a dashboard load may overtake a public capture that waits,
which then cannot be approved unless the odometer is corrected (`fuelLoadService.ts:219`,
`:421`), and sent again it is a second load; the success of a budget edit closes whichever
editor is open; in the portal the branch "Si fue por presupuesto, refrescar verify" is
never reached, and the verified unit may differ from the typed one; a late conflict
locks the next dialog of a vehicle; the page of documents offers `SCT_PERMIT`, which the
validator refuses, and lacks `INVOICE`; files of deleted or replaced documents are never
removed; an edit of a document has no version check and may make a second current one;
the day of expiry is YELLOW in the API, "Vencido" on the page and expired for
`createDocument`; `stop_grace_period` is shorter than the 30 seconds after which the API
forces its exit, and a SIGTERM during `initializeJobs` leaves workers nobody closes; a
failed migration leaves the services down; the monitor reads containers before the
marker; a monitor that is killed between alert and state file leaves an alert nobody
takes back.

## 7. What is not modelled

- *Half-closed histories* that the closure migration could have found; imports into an
  empty registry; collisions of hashes.
- *Two kinds of budget*: they share no row; one instance of Budget stands for each, and
  BudgetSweep has what couples them.
- *Pure data*: contents of reports, exports and thumbnails, the semaphore of maintenance,
  dashboards, the parsing of sheets and cells, validation of other input.
- *Single statements*: catalogues, notifications, notes (a late save closes another note's
  editor, an edit may meet a note deleted in between), sessions.
- *Web*: lists, charts, login, the dashboard's own capture dialog; `app/(dashboard)/budget/page.tsx`
  and `hooks/useBudgets.ts` ask for routes that the API does not have.
- *Operations*: encryption and rotation of bundles, builds, mount checks, the gathering
  of metrics; a SIGKILL of a script's parent that leaves a child with the lock.
- *Maintenance schedule and records*: a computation without state; the writes that move the
  odometer are in FuelLoads.

## 8. Plan

Done: the modules of section 3, their runs, and the proofs of section 5. What could come
next, in this order:

1. Type correctness of the modules that have no theorem yet (`ReportDesk`, `Thumbnails`,
   `Monitor`, `BudgetSweep`).
2. The safety core of the liveness properties: that a sweep never reopens a month, that
   the list of reports is never newer than the table.
3. A refinement between `VehicleImport` and the step of `DataJobs` that applies a file.
