# Verification of GeoAttend Payroll (HERRERA ATTEND)

TLA+ models, TLC model-checking runs and TLAPS proofs for the attendance and
payroll system in this repository: a NestJS API over PostgreSQL
(`apps/api`), a Next.js back office (`apps/backoffice-web`), a Flutter
employee app (`apps/mobile`) and a worker stub (`apps/worker`). Paths below are
relative to the repository; line numbers are those of the commit the models were
written from.

## 1. The system and its hard parts

| Component | State | Operations | What makes it correct |
|---|---|---|---|
| Payroll policies (`apps/api/src/payroll/payroll.service.ts:12-13`) | policy versions DRAFT/APPROVED, author, approver | create, approve | nobody approves his own version; a version is never taken over; changes are audited |
| Payroll runs (`payroll.service.ts:14-24`) | run row (status, revision, preparer, approver, hash), line items, adjustments, history | create, calculate, adjust, approve, lock, reopen, payslip | maker-checker; a locked run changes only by an audited reopening; line items are those of one calculation of the stored inputs |
| Payroll engine (`payroll/engine.ts`) | none | calculateEmployee | totals are the sums of rounded lines; no negative rules |
| Requests and approvals (`requests/requests.service.ts`, `workflow.ts`) | request (status, current step), approval steps, correction events, notifications | create, decide, delegate, comment | steps in order; a decided request stays decided; an approved correction creates exactly one event |
| Attendance capture (`attendance/attendance.service.ts:9-29`, `geofence.ts`) | attendance events by idempotency key | clock, correct | a punch is recorded at most once; the server decides |
| Daily summaries and exceptions (`attendance.service.ts:30-51`, `summary.ts`) | summaries, exceptions | summarizeDay, resolveException | a summary reflects the accepted events; exceptions are raised and resolved once |
| Offline queue of the app (`apps/mobile/lib/data/clients/attendance_client.dart`, `core/database/app_database.dart`) | queued punches | submit, syncPending | every punch reaches the server, once |
| App session and sign-in (`apps/mobile/lib/core/services/app_services.dart`) | tokens, employee, biometric flag | restore, login, biometricLogin, reset, logout | no employee session without a verified identity |
| Mobile overview and devices (`apps/api/src/mobile/mobile.controller.ts`) | device registrations | overview, registerDevice | one response whose parts agree, though read at different times |
| Identity link and password reset (`auth/auth.guard.ts`, `workforce/workforce.controller.ts`) | employee to identity link, reset flag | canActivate, resetEmployeePassword, completePasswordReset | an identity is linked once; a temporary password must be changed |
| Workforce (`workforce/workforce.controller.ts`) | employees, worksites | create, status, worksite | an administrator remains; a site or employee gets only what was meant for it |
| Compensation (`compensation/compensation.service.ts`) | effective-dated profiles | create, update | no period ends before it begins; no day is paid twice |
| Pilot reconciliation (`pilot/pilot.service.ts`, `reconciliation.ts`) | pilots, cycles, lines | create, createCycle, reconcile, signOff | sign-off covers what was reconciled; cycles are numbered without gaps; a pilot completes when enough are signed |
| Notifications (`notifications/notifications.service.ts`) | read flags | list, read, readAll | what is shown as read is read |
| Reports (`reports/`) | export and audit rows | export | authorised, audited |
| Back office, access (`apps/backoffice-web/app/layout.tsx`, `lib/supabase/proxy.ts`, the sign-in and password forms) | session cookie, page, frame, calls in flight | navigate, sign in, sign out, choose a password, confirm a link | every navigation arrives; what is shown fits session and account |
| Back office, shell (`components/app-shell.tsx`, `notification-center.tsx`) | path, menu, counts, panel | open a path, fetch counts, load, click, read all | late answers replace no newer ones; shown as read is read |
| Back office, pages (`components/workforce-*-view.tsx`, `manual-worksite-map.tsx`) | rows, form, the row edited, calls in flight | edit, submit, reset a password | a save goes to the row whose fields it carries; a password shown is the one that works |
| Worker (`apps/worker/src/main.ts`) | none | a BullMQ stub | no producer exists |

**Concurrency.** The API is one Node process: a request runs until it awaits a
database call, and other requests run meanwhile. Most services read a row, test it
in JavaScript and update it by id, outside any transaction. `$transaction` runs
under PostgreSQL's default READ COMMITTED. So the models give each request a slot
with what it has read, and make every awaited call a step. The mobile app and each browser
tab of the back office are asynchronous programs of their own, over a network that fails:
a handler continues after its answer with the page as it is then.

**Failure.** A crash of the API ends the requests in flight; committed rows stay.
A write that reports another (history, audit, notification) is lost when the crash
falls between the two. The app may be killed, offline, or get an answer late.

## 2. Modules

| Module | Models | State ↔ code | Actions ↔ code |
|---|---|---|---|
| `PayrollPolicy` | `createPolicy`, `approvePolicy` | `policy` the `PayrollPolicy` table by version, `auditLog` its audit rows, `policyOp` the requests in flight | read, write and audit of each operation; `PolicyCrash` |
| `PayrollRun` (extends it) | `createRun`, `calculate`, `adjust`, `transition` (approve, lock), `reopen`, `payslip` | `run`, `items`, `adjustments`, `history`, `adjustmentAudit` are tables; `op` the requests in flight, each with the row it read | one action per awaited query: `CalculateRead`, `CalculateReadAdjustments`, `CalculateDelete`, `CalculateCommit`, ... |
| `PayrollLifecycle`, `PayrollRefinement` | what a run promises; the mapping from the tables to it, and `ServedSpec` | `payroll` is read off `run`, `items`, `adjustments` | six atomic operations |
| `RequestWorkflow` | `create`, `decide`, `delegate` of `requests.service.ts`, `workflow.ts` | `request`, `steps`, `notified`; `events` the correction events | `Decide*` are the interactive transaction: two reads, then all writes with the commit, or `DecideAbort` |
| `Approval`, `WorkflowRefinement` | what approving promises; the mapping, and `ServedSpec` | verdicts are read off `steps` and `request` | submit, approve, reject |
| `AttendanceCapture` | `submit`, `syncPending` and the queue of the app; `clock` of the API; the network | `job` coroutines, `queue` and `told` the app's database and screen; `call` and `events` the API | app: `SyncRead`, `Enqueue`, `RemovePending`, `MarkAttempt`, ...; network: `Deliver`, `GiveUp`; API: `Find`, `Check`, `Create`; `Kill` ends the app |
| `PunchLog`, `CaptureRefinement` | what capture promises; the mapping | `log` is `events`, `heard` is `told` | record, hear |
| `AttendanceSummary` | `summarizeEvents`, as a function on sequences of punches | none | none; time in half minutes, the grain of `Math.round` |
| `WorkedDay` (extends it) | the days `summarizeDay` hands to it | `day` the punches in the order of the query | `AddPunch`, `NewDay` |
| `AttendanceDay` (extends `AttendanceSummary`) | `summarizeDay`, `correct`, `resolveException` | `events`, `summary`, `exception`, `location`, `audit` | `SummarizeRead`, `SummarizeUpsert`, `RaiseMissing`, `RaiseLocation`, `ResolveRead`, `ResolveWrite`, ...; `Fail` |
| `EmployeeAccess` | `AuthGuard`, `createEmployee`, `updateEmployeeStatus`, `resetEmployeePassword`, `completePasswordReset`, the calls of Supabase | `employee` the `Employee` table; `password` whether each password at Supabase is the user's own, a temporary one, or one an administrator was handed (`HandOut`); `op` the requests in flight | guard: `Find`, `Match`, `Link`, `Recheck`; endpoints: `ResetRead`, `LookUp`, `SetTemporary`, `MarkReset`, ...; `End` where anything fails; `ChangeOwn` outside |
| `AttendanceServed`, `AccessServed` | the two before with `interleaved`: what holds of requests one at a time | | |
| `Organization` | the `actor` helpers | who has which role | |
| `Compensation` (extends it) | `create`, `update` of `compensation.service.ts` | `profile` the table; `compOp` the requests in flight | validation on what was read, `CompCheck` the overlap query, `CompWrite`, `CompAudit`; `CompFail` |
| `PilotReconciliation` | `create`, `createCycle`, `reconcile`, `signOff` of `pilot.service.ts`, `reconcileLines` | `pilot`, `cycle` with its reference lines; `pilotOp` the requests in flight | `OpenCycle`, `CountCycles`, `InsertCycle`; `Reconcile`, `DeleteLines`, `CommitLines`; `SignOff`, `Sign`, `Tally`, `Complete`; `PilotFail` |
| `MobileOverview` (composes the two) | `overview`, `registerDevice` of `mobile.controller.ts` | `view` the response being put together; `device` | one action per query of `Promise.all`, in any order; Prisma reads a pilot and then the cycles it includes |
| `BackofficeAccess` | `proxy.ts`, `layout.tsx`, `auth/confirm`, account security, the sign-in, sign-out and password forms | `cookie`, `account` the server's; `nav` the navigation in flight, `page` what is shown; `call`, `busy` the forms | `Proxy`, `Confirm`, `RenderLayout`, `RenderPage`, `Show`; `Submit` and an answer for each form, `CompleteLate` for one that has left the page; `FollowLink`, `Visit`, `Outside` |
| `BackofficeShell` | `app-shell.tsx`, `notification-center.tsx`, `notifications.service.ts` | `navCounts`, `fetches`; `notes` the server's, `data` the panel's, `calls` | `OpenPath`, `ReadList`, `ShowCounts`; `Load`, `ListItems`, `EndLoad`, `ClickItem`, `ReadAll`, `MarkRead`, `EndMark` |
| `WorksitesPage` | `workforce-worksites-view.tsx`, `manual-worksite-map.tsx`, worksites of the API | `held` whose fields the server keeps for a site; `form`, `editingId`, `rows`, `saving`, `loads` | the handlers of the page by name; `SaveAtServer` |
| `EmployeesPage` | `workforce-employees-view.tsx` and its endpoints | `employees`, `password` the server's; `credential` the password on show | the handlers of the page; `SaveAtServer`, `ResetAtServer` |
| `Backoffice` (composes the four) | the tab: its parts take turns | the union of theirs | each step is one of a part |
| `MC*` | small instances for TLC | | |
| `*Proofs` | theorems | | |

**Common conventions.** A slot (`Slots`, `PolicySlots`, `Calls`, `Jobs`) is a request or
coroutine in flight. Its first action reads and tests; what the code keeps in local
variables stays in the slot; each later action is one database call, which tests nothing
the code does not test again. `Crash` empties all slots and rolls back what was in a
transaction. Employees, roles and identifiers are model values; amounts, texts and
formats are left out, except that a set of line items knows which adjustments it
includes. A definition commented "mutant" is a plausible bug that is not part of
the system: it stands beside the definition it would replace.

**Isolation.** The database runs under READ COMMITTED. `calculate` is a
`$transaction([...])` list: its `deleteMany` deletes what is committed when it runs, the
rest becomes visible at the commit. `decide` is an interactive transaction: both reads see
what is committed then, its writes appear together. Row locks only delay writers, so
modelling the writes and the commit as one step loses no outcome. A unique
key violated by an insert ends the request and rolls its transaction back.

**Failing queries.** A query or a call of Supabase may fail, or succeed and lose its answer, without
the process going down. `EmployeeAccess` (`End`, the second outcome of `SetTemporary`, `SetOwn`, `Link`
and `MarkReset`), `AttendanceDay` (`Fail`), `Compensation` and `PilotReconciliation` (`CompFail`, `PilotFail`)
and `decide` (`DecideAbort`) let each do so by itself. In the payroll modules and in the rest of
`RequestWorkflow` a request whose query fails leaves the database as one that waits there for ever,
which no property about the rows can tell from it. Two properties speak of rows a request still owes:
`ReopeningsAudited` and `WaitingOnSomeoneWhoKnows` presume that a reporting write fails only
together with the process.

## 3. Runs

All numbers are distinct states found, with two workers.

| Run | Module | Instance | Shows |
|---|---|---|---|
| `payroll` | `MCPayroll` | three scenarios: 2 interleaved run requests, a maker and an administrator, 2 calculations; 2 interleaved policy requests over 2 versions, 1 crash; 1 policy and 1 run request at a time, 3 employees, 3 calculations, 1 crash; 3 revisions (the third in the interleaved scenario only), 1 adjustment; 1.1 M | Survives any interleaving: maker-checker of runs and policies, approved policies behind every run, frozen policies, one history row per reopening, of two that race as well, a hash that describes stored items. One at a time, runs implement `PayrollLifecycle` whatever crashes (`SerialImplementsLifecycle`): line items are of one calculation, approvals of the revision approved, locked runs change only by reopening, payslips show what was locked |
| `workflow` | `MCRequestWorkflow` | two scenarios: 2 interleaved requests on workflows of 1 and 2 steps; 1 at a time, also 3 steps; 3 employees, 1 crash; 2.7 M | Steps are decided in order, an approved correction has its event and an event a decision at every step (`CorrectionEvents`), those a request waits for were told; one at a time it implements `Approval` |
| `capture` | `MCAttendanceCapture` | 2 punches, 2 coroutines, 2 API requests, 1 restart | No punch is recorded twice; a punch that was reported as queued is queued or recorded |
| `capture_fair` | `MCAttendanceCapture` | the same with 1 punch and all three readings, under `FairSpec` | It implements `PunchLog`; a queued punch is recorded and leaves the queue |
| `attendance` | `MCAttendanceDay` | 2 requests, interleaved or one at a time, 2 punches, 1 correction, 1 crash, any query may fail; or any day of up to 5 punches at 6 instants; 1.0 M | A summary is what one computation made of events on file; a missing punch raises its exception, unless a failure or crash came between the two writes, and then with the next summary; resolutions are audited; minutes worked are the time at work but for rounding, and never more than the day (`SummaryAccounts`) |
| `access` | `MCEmployeeAccess` | three scenarios: 2 interleaved requests of an administrator and of two users who share the email of a worker, without resets; 2 interleaved requests of an administrator and an HR officer; everything, one request at a time; 3 employees, 4 users, 1 crash, any query or call may fail or lose its answer; 0.24 M | A stored link is never replaced, past the guard a request acts for the linked employee; one at a time, a temporary password that was handed out must be changed, and an administrator remains |
| `records` | `MCRecords` | four scenarios: 2 interleaved requests about pay or about pilots of 2 cycles; 1 at a time while the employee's app asks for the overview; 2 profiles, 2 days, 2 pilots, 2 payroll runs, 2 line codes, 2 signed cycles to complete; 0.3 M | No period is turned around, cycles are numbered without gap or double, a pilot completes with its last signature; no day is paid twice and no unresolved line is signed, unless two requests about the same employee or cycle overlapped; the overview does not show a completed pilot with too few cycles |
| `backoffice` | `MCBackoffice` | five scenarios, one part of the tab each: access (3 roles, 2 calls in flight, 2 acts of the visitor or others), menu (3 paths), panel (2 notes, 4 calls: the load without a token, one with it, two clicks), worksites and employees (2 rows, 2 loads, 2 or 3 acts); 0.6 M | Navigations end and forms give their buttons back; what is shown fits session and account; counts never go back; shown as read is read; a site gets only its own fields; a temporary password on show is the one that works |
| `run_locked_changes` | `MCPayrollRun` | 2 interleaved requests, no crash | VIOLATED: a request that read the run before the lock writes after it |
| `run_adjustment_left_out` | `MCPayrollRun` | 1 request at a time | VIOLATED: an adjustment after the calculation is approved and locked without being in the items |
| `workflow_decided_again` | `MCRequestWorkflow` | as `workflow`, no crash | VIOLATED: of two overlapping decisions the later overwrites a decided request |
| `capture_refused_is_queued` | `MCAttendanceCapture` | 1 punch, all readings | VIOLATED: a punch the API refused goes into the queue and is reported as saved offline |

**Why the bounds are enough.** All races in this code are between two requests (or two
coroutines) on one row: a third slot only adds readers of the same stale kind. Two calls of a tab are what a page
allows (each form disables itself) beside the load it starts. One run,
request or day suffices because no operation relates two of them; two punches are
needed since the queue does. The second revision lets a stale write from before the
reopening meet the state after it, the third lets two reopenings that both read a locked run raise it
one after the other; three steps show a first, a middle and a last step;
one crash can fall between any two calls. Five punches hold a full day with a break and one more punch. `CHECK_DEADLOCK FALSE` is used where bounded
tables (runs that are used up, requests that are decided) really leave nothing to do;
the attendance runs check deadlock.

**Scenarios.** Where something holds of requests handled one at a time only, the modules with a
`ServedSpec` (`PayrollRefinement`, `WorkflowRefinement`, `AttendanceServed`, `AccessServed`) add a variable
`interleaved`, chosen at the start: when it is false, at most one slot is busy. Where one run has several
instances, its MC module holds a variable `scenario` of the same kind, and its next-state
relation only restricts that of the component: fewer requests in flight, or fewer types. `MCBackoffice`
runs one part of the tab while the others rest, since the parts share no variable.
The properties of the serial instance are conditional on it; those of `records` and of the panel
say themselves when they do not hold, by history variables that note an overlap (`raced`, `overtaken`,
`cut`, `mixed`, `stale`); `lost` of `AttendanceDay` notes a failure or crash between a summary and its
exception. A property that is excused after an overlap is therefore not excused because
two requests merely came one after the other, and a run where nothing overlaps checks it in full.

**Fairness (`FairSpec` of `AttendanceCapture`).** Weak fairness of the app's own steps and
of the API's handlers: event loops run what is ready. Strong fairness of `SyncStart` while
something is queued: `connectivitySyncProvider` starts a synchronization at each
change of connectivity, of which there is no end, though no single one is
certain to find a free coroutine. Strong fairness of the delivery of a punch and of its answer:
the network may lose any message, not every one. Nothing is assumed about the employee, and
`QueuedIsRecorded` holds for employees who are eligible from some time on, since a punch
that is refused stays queued.

**Fairness (`AccessFairness` of `BackofficeAccess`).** Weak fairness of the navigation in
flight and of each call: the server and the browser answer every request in the end, if only with an
error. Nothing is assumed about the visitor. `EveryWaitEnds` excepts the buttons of sign-out and
of `reset-password`, whose handlers have no `finally`: when Supabase's client throws, they stay disabled; that of sign-out
when `signOut` returns an error too: with the session still there the proxy leads back from `/login`, and
the frame with the button was never taken off the page.

**The router of Next** is not in the repository. `Request` takes it that a `router.replace` or `router.push`
followed by `router.refresh` ends in a page rendered afresh, also where it overtakes a refresh at work: that
one is queued or made up for. Nothing in this repository says so. `FollowLink` leaves both open, since a link followed during a refresh may
discard it. `ViewMatchesAccount` says what is shown when nothing is in flight, but excuses what the page
cannot know: others changed account or session, an answer was lost, the API or Supabase failed a render,
or a refresh was discarded.

## 4. Proofs

TLAPS checks these for every number of employees, requests in flight, runs, steps, punches, coroutines,
paths, calls, crashes and restarts. The assumptions are those on the constants (`PolicyAssumption`,
`RunAssumption`, `CaptureAssumption`, `BackofficeAssumption`, ...): roles are functions on the
staff, `NULL` is none of the values it stands beside, bounds are naturals, some sets are finite.

| Theorem | States | Argument |
|---|---|---|
| `PolicySafety`, `PolicyRowsKept` (`PayrollPolicyProofs`) | `PolicyMakerChecker`, `PolicyFrozen` | a pending approval carries an actor who is not the author of the version, and authors never change (`PolicyOpsOK`); the insert of a taken version fails |
| `TypeCorrect`, `RunPolicyApproved` (`PayrollRunProofs`) | `TypeOK`, `RunsUnderApprovedPolicy` | conjuncts of `Inv`: a pending creation carries an approved version, and approved versions stay so |
| `RunMakerChecker` | `MakerChecker` | not inductive: a lock writes back the approver of the row it read, which may have been reopened meanwhile. `SlotOK` says what each pending request knows: the approver about to be written differs from the preparer; `FreshOK`, that a pending creation is the only one for its row, so that a preparer is never replaced (`RunKept`) |
| `HashOfStoredItems` | `HashDescribesItems` | inductive beside the types: a commit stores its batch and the hash of it in one step, whatever it deletes it saw earlier, and no other write touches items or hash |
| `ReopeningsOnRecord` | `ReopeningsAudited` | a reopening raises the revision and puts the row it owes into its slot (`AuditInv`): every revision is accounted for by the table or by a slot, which only a crash empties |
| `ServedImplementsLifecycle` | `SerialImplementsLifecycle` | `SerialInv`: what the one request in flight has read still holds (`ReadSlot`). Each write is then one action of `PayrollLifecycle`; every other step leaves the mapped rows alone |
| `WorkflowTypes`, `DecidedInOrder`, `EventsOfApprovals` (`RequestWorkflowProofs`) | `TypeOK`, `StepsInOrder`, `CorrectionEvents` | `decide` writes the step it read, whatever happened since. A step number once read is preceded by decided steps for ever (`Reached`): decisions are overwritten, never taken back |
| `ApproversAreTold` | `WaitingOnSomeoneWhoKnows` | `Told`: those who hold a step are in `notified` or some slot will tell them |
| `ServedImplementsApproval` | `SerialImplementsApproval` | what the one decision has read still holds (`Fresh`), and the steps before the current one are approved (`ApprovedSoFar`): the correction event comes with the last approval, and each commit adds one verdict |
| `CaptureTypes`, `PunchesRecordedOnce`, `QueuedPunchesKept` (`AttendanceCaptureProofs`) | `RecordedOnce`, `QueuedIsKept` | a row leaves the queue only on a good answer. `CallsServe` ties a call to the punch its coroutine waits for, `AnswersRecorded` an answer to a recorded punch: so the removed row is that of a recorded punch |
| `CaptureImplementsLog` | `ImplementsPunchLog` | `OneSubmitter` and `AnswerOnRecord`: the page tells of a punch once, and what it tells is the decision on record |
| `MinutesAreRight` (`AttendanceDayProofs`) | `SummaryAccounts` | of the recursive function `summarizeEvents`, for days of any length: after each punch the minutes counted, with the interval in progress, are off the time worked by at most half a tick for each punch (`Balanced`). Induction is over the set of prefixes of which that is true: a least member of its complement is shown impossible |
| `DayTypes`, `SummaryIsOfOneComputation`, `MissingPunchRaised`, `ResolutionsOnRecord` | `TypeOK`, `SummaryOfOneComputation`, `MissingPunchIsRaised`, `ResolutionAudited` | `DayRowsInv`: a request that is about to write holds a day of events which were on file when it read, and events stay; until the exception of a missing punch is raised its request is in flight or was lost (`MissingPending`) |
| `SerialSummariesKeepEvents` | `SummaryNeverGoesBack` | one at a time, the day about to be written holds every event of the summary there is (`SerialDay`) |
| `AccessTypes`, `RequestsActForLinked`, `LinksAreKept` (`EmployeeAccessProofs`) | `TypeOK`, `ActsForLinkedEmployee`, `LinkKept` | under the hypothesis `EmailsUnique`: no two Supabase users share an email, which Supabase sees to (the run has overlapping resets only where emails are unique; two users share one in its other scenarios). A reset writes back a login it found earlier; `LinkedByEmail` says that a linked login has the email of the employee, `SlotOK` that a login found has it too, so the two are one |
| `TemporaryPasswordsAreMarked`, `SomeoneCanAdminister` | `SerialIssuedIsFlagged`, `SerialAdministratorRemains` | `SerialInv`: a password is handed out with the commit that links its login to the employee and sets the flag, and only the request that replaces the password clears it; whoever sets a status acts for an active administrator other than the target. The first has no hypothesis: `authUserId` is unique, so no two employees hold the login. The second has one, `SomeAdminSeeded`: an administrator or HR officer is there from the start |
| `PilotTypes`, `CompletionHolds` (`RecordsProofs`) | `PilotTypeOK`, `CompletionNotMissed` | inductive together: only `Sign` raises the number of signed cycles, and its request will still count. The count of a request that overtakes it includes its cycle, since a signature is written before it is counted; sets of cycles are finite as `Runs` is |
| `CyclesAreNumbered` | `CyclesNumbered` | a number about to be inserted is at most one more than the cycles there are (`NumbersInv`); the unique key makes it exactly that |
| `SignedIsResolved` | `SignOffOfResolved` | `SignInv`: of the cycles that were not overtaken, at most one request is at work on each, and what is about to be signed is resolved |
| `OverviewIsRight`, `RecordsTypes`, `ServicesAlone` | `OverviewAgrees`, `RecordsTypeOK` | `CompletedInv`: a completed pilot that nothing overtook has its cycles; `ViewOK`: the cycles are read after the status they are shown beside, and signatures only get more. A behaviour of the composition is one of each service |
| `PeriodsAreValid`, `PeriodsAreSound` | `PeriodsValid`, `PeriodsSound` | a request writes both ends of the period it validated. For disjointness: `Exclusive`, two requests in flight about one employee are noted in `raced`; `OwnRow`, an update is about the employee whose row it read; `Tested`, what a request that was not raced is about to write still overlaps nothing |
| `BackofficeInvariant`, `BackofficeTypes` (`BackofficeProofs`) | `BackofficeTypeOK` | the five invariants below hold together, since each step of the tab is one of a part that shares no variable with the others |
| `ViewFollowsAccount` | `ViewMatchesAccount` | `AccessInv`: a navigation that nothing disturbed (`clean`) was judged with the session of now, and its path, frame and refusal are those of session and account; a frame on show is right, or a full render is under way that will replace it, or the answer to a chosen password is (`Answering`); `stale` notes what nothing on the page will put right, an account changed by a call that left the page among it |
| `CountsKeepUp` | `CountsNeverGoBack` | `MenuInv`: only the last fetch is active, and what it was answered is no older than what the menu has shown |
| `ReadIsRead` | `ShownReadIsRead` | `PanelInv`: a call nothing overlapped (`clean`) is alone, its answer is of the notes of now, and what a mark is about is unread on show and read at the server |
| `SitesKeepTheirFields` | `FormSavesItsSite` | `SitesInv`: the form on the page, and the one on its way, are typed for the site they go to |
| `CredentialsAreCurrent` | `CredentialIsCurrent` | `StaffInv`: at most one reset is in flight and no password is on show meanwhile; a reset that was served holds the password of its employee |

Each proof module has one lemma per action and joins them in a step lemma; the temporal theorem is
its last line.

**Only model-checked.** The two liveness properties, `QueuedIsRecorded` and `EveryWaitEnds`: they rest on
fairness, and ENABLED is beyond the prover. The four runs that expect a violation
show traces; there is nothing to prove about them. Everything else the runs check is
stated by a theorem above. The proofs are about the specifications (`Spec`, `ServedSpec`,
`BackofficeSpec`, ...), of which the next-state relations of the MC modules are restrictions.

## 5. Not modelled

The arithmetic of the payroll engine (decimal arithmetic without state), reports (queries and
rendering), the app's session and its screens (built around Supabase's client, which is not in the
repository), the other pages of the back office (lists and forms like the two that are modelled) and the
worker stub, which nothing calls. Each is listed in `PROJECT.json`. Within the modelled components:
comments on requests and the notification of a requester change nothing a decision depends on;
distances and accuracies are reduced to the two tests `decideAttendance` makes of them;
the first and last punch times of a summary are left out, nothing is computed from them;
the kind of a punch, which the clock page chooses, is left out of `AttendanceCapture`; allowances and
deductions of a profile, names and notes of a pilot are data. Employees
and their roles do not change during a request, except for the eligibility to punch and in
`EmployeeAccess` and `BackofficeAccess`.

Some things are checked for requests handled one at a time only: `SerialImplementsLifecycle`,
`SerialImplementsApproval`, `SummaryNeverGoesBack`, `SerialIssuedIsFlagged`, `SerialAdministratorRemains`;
others not after an overlap: `SignOffOfResolved`, the second part of `PeriodsSound`, `ShownReadIsRead`. Each
rests on a row that is read in one query, or a call that is made in one step, and written in another.
Interleaved, they do not hold. Two runs show it for the payroll run and for requests
(`run_locked_changes`, `workflow_decided_again`). In the same way two overlapping calculations leave the
line items of both, `completePasswordReset` clears the flag that another reset has set since, two
creations of a profile pay a day twice, and a reconciliation brings an unresolved line into a signed cycle.

`calculate` makes items for the employees of the snapshot, so an adjustment of somebody else reaches no
items, nor does any when the snapshot is empty. The model takes it that the snapshot has employees
and the adjustments are about them: the input is data, and what the properties follow is which
adjustments the calculation had read.

Two things the code does are in the models without a property, since nothing in the repository
says otherwise at that place: `summarizeDay` looks for events under review among events it has asked the
database for by decision ACCEPTED, so it never finds one; and the position of the device goes into whatever
worksite form is open when it arrives.

## 6. Order of the work

The payroll workflow with its abstract lifecycle and proofs; the request workflow; attendance
capture with the app's queue and its proofs; daily summaries; employees, their logins and passwords,
with proofs; pilots and compensation with proofs, and the overview over them; the back office; then the
proofs of every safety property and of the three refinements.

What would come next: the refinements for slots that overlap on different rows (they hold of one request
at a time, or of rows that only one request works on); the session of the app, once what Supabase's
client promises is written down.
