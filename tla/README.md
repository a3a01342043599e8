# Enternly ATS: TLA+ models and proofs

Enternly is an applicant tracking system: a FastAPI back end (`src/backend/app`) over
PostgreSQL, a static front end, and background jobs. This directory holds TLA+ models of
the parts whose correctness depends on the order in which things happen, the TLC
configurations that check them, and TLAPS proofs about them. `PROJECT.json` maps every
definition to the source lines it stands for.

## How the system runs, and what that means for the models

- Almost every route is a plain `def`. Several uvicorn processes each run up to 20 of them
  at a time, so any two handlers may interleave.
- `db.query()` takes a pooled connection, runs one statement and commits it.
  `db.transaction()` keeps one connection for a block and commits at its end, at
  PostgreSQL's default READ COMMITTED. There is no in-process state worth modelling: the
  rows are the shared state.
- A handler is therefore split at the points where another one can get in. What it read
  before such a point is kept in a record of the worker that runs it (`job[w]`, `op[w]`,
  `req[r]`). A transaction that begins with `SELECT ... FOR UPDATE` is one action, because
  every writer of those rows takes the same lock; so is a single statement. A transaction
  that reads rows it does not lock is split after the read.
- A process may die, and a call to Google, Gmail, an LLM, a mail server or a vendor may
  fail or come late. Where the code meets that, the module has an action for it (`Crash`,
  `Die`, `Fails`), enabled wherever a worker is in the middle of something.
- Mails, notifications and activity logs are left out unless a property is about them.
  Role checks decide only whether a call is refused, and every handler has some caller it
  accepts, so callers are taken as authorised.

## Inventory

| Component | State | Operations | What is hard | What makes it correct |
|---|---|---|---|---|
| Interview self-scheduling (`scheduling_api.py`) | requests, slots, interviews | create, assign, submit, edit, expire, pick, book | a pick, a booking, an edit and the lazy expiry meet on one request | one booking per request; slots agree with their request |
| Booking on calendars (`scheduling_api.py`, `connectors.py`, `google_calendar.py`, `main.py`) | interview row, Google events, recipients' .ics entries | book, schedule, reschedule, cancel | commit first, tell the calendars afterwards; Google fails | the id in the row is the event's; a cancelled row stays so |
| Offers (`offers_api.py`) | approver chain, offer, steps | set chain, create, edit, resubmit, approve, reject, hold, cancel | handlers of several commits; a process dies between two | approvals in order, for the terms the offer has, handed over once |
| Application pipeline (`pipeline_api.py`, `services/pipeline.py`, `sla.py`) | application status and round, stage events | intake, screen, advance, revert, delete | stale status read before the write | no level skipped |
| Hiring plan, requisitions (`hiring_plan_api.py`, `hm_api.py`, `pipeline_api.py`) | plan rows, approvals, rounds, codes | plan, sync, approve, edit rounds, draw a code | edits under a unique key; retries; late syncs | an edit is exact; hand-written rows stand |
| Scorecards, HM feedback (`scorecard_api.py`) | cards, consensus, decision | draft, submit, decide, remind | panelists who finish together | somebody tells the manager |
| Enteri AI interview (`enteri_ai_api.py`) | invites, session, conversation, appeal | invite, begin, converse, submit, terminate, appeal, reissue | racing endings; LLM and mail between statements | no answer lost; a completed interview stands |
| Proctoring (`proctoring_api.py`, `proctoring_scorer.py`, `proctoring_alerts.py`, `interview.html`) | session secret, flags, ledger, integrity inbox | init, flag, digest, replay | tabs that race; two counts of one thing | one secret; no alert without a sender; both counts agree |
| CV intake and screening (`cv_*.py`, `email_ingest.py`, `candidate_dedup.py`) | checkpoint, rows and files, candidates | scan, stop, ingest, delete, map | stopped and overlapping scans; a row and its file in two statements | nothing missed, no row without file |
| Campus, portal, vendors, no-poach (`campus_bulk_api.py`, `candidate_portal_api.py`, `vendor_api.py`, `no_poach_api.py`) | drive rows, applications, links, list | import, invite, delete, apply, list | a list that changes under a request; a bulk that breaks | the block holds; who is mailed has a link |
| Background jobs (`main.py`, `queue.py`, `*_worker.py`) | advisory lock, claimed rows | passes of the jobs | overlapping passes, deaths | one runner, one mail, every row settles |
| Startup and migration (`main.py`) | schema, stage names | the statement list of every start | starts side by side, a failed statement is skipped | who serves has the whole schema |
| Documents, pre-boarding, onboarding, BGV (`document_api.py`, `preboarding_api.py`, `onboarding_api.py`, `bgv_api.py`) | requests, cases, tasks, checks | request, upload, review, confirm, start | statuses computed from old reads; callbacks of vendors | complete means complete |
| HRMS push (`hrms_api.py`) | sync rows | push, webhook | the answer overtaken by the webhook | the vendor's verdict stands |
| Authentication, users, tenants (`auth.py`, `password_api.py`, `admin_users.py`, `platform_admin_api.py`) | accounts, tokens, links | login, reset, deactivate, revoke | nothing is stored of a token | withdrawn access stays withdrawn |
| Database access (`db.py`) | connection pool | borrow, return | nested borrow | a request never fails for want of a connection |
| Gamification, reports, notifications, templates, storage, front end | derived rows | read, append | little | per row |

How they interact: the pipeline opens interview requests and is moved on by offers, by the
panel and by the AI interview; scheduling writes interviews that feedback hangs on; the
intake and the campus drive make the applications; offers reject or hold the application
and feed the plan; an accepted offer opens the joiner's case; jobs pick up rows the
handlers leave. Everything goes through the database; nothing calls back into a handler.

`PROJECT.json` lists every component with what is modelled of it, and the hazards we know of
at their lines, with the property that covers each or the reason why none does.

## Modules

| Module | Models |
|---|---|
| `InterviewScheduling` | requests, slots and bookings of one application, and the part of `advance` that opens rounds |
| `InterviewCalendar` | what happens to a booking on the calendars: booking, moving, cancelling |
| `SequentialApproval` | abstract: one approval after the other, then sent |
| `OfferApproval` | offers, their chain and the application's stage; implements `SequentialApproval` until one handler writes on what another has overwritten |
| `ApplicationPipeline` | advance, revert, screening, the bot round and deletion of one application |
| `PanelFeedback` | scorecards, consensus and the manager's notice of one interview |
| `RoundEdit` | the rounds of a requisition, created and rewritten in place under a unique key, from whatever list is sent |
| `HiringPlan` | plan rows that follow the applications of their requisition; approval of requisitions |
| `RequisitionCode` | drawing a number nobody else has, under five attempts |
| `EnteriAttempt` | invites, session, conversation, endings, appeal and reissue of an AI interview |
| `ProctoringSession` | session row and secret, behaviour flags, the integrity inbox and its digest |
| `ProctoringJudge` | strikes counted by the page, and by the server's replay of the page's ledger |
| `MailboxScan` | mailbox and folder scans, their checkpoint, and stopping them |
| `CvRepository` | rows and stored files of CVs; the Gmail poller's marks |
| `CandidateIntake` | six doors into one requisition, and the no-poach list |
| `CampusDrive` | rows of a campus drive: upload, bulk invite, links, mails, deletion |
| `JobClaims` | the runner's lock, and claims on rows by five jobs |
| `SchemaUpgrade` | the statement list of a starting server, by what each statement needs |
| `StartupMigration` | what the stage renames of that list, and the CHECKs between them, do to old and new rows |
| `CandidateDocuments` | document requests, uploads, reviews, and the status computed from them |
| `Preboarding`, `Onboarding` | the joiner's case, policies and assets; day one, tasks, employee record |
| `VendorResults` | background checks and HRMS pushes: handlers against webhooks |
| `Identity` | staff accounts, their tokens and password links, and what withdraws them |
| `MC*` | small instances for TLC: one component (`MCInterviewScheduling`), or the components of an area |
| `*_proofs` | TLAPS proofs: about the component they are named for, or about the components of the `MC` module of that name |

Each component has a module; what the others do to its rows is an action of its own there
(`Advance` and `Proctor` in `EnteriAttempt`, `Detach` and `DeleteApplication` in `CampusDrive`,
`PreboardingMoves` in `Onboarding`). Where two components really share rows under one
property they are in one module: slots and bookings, offers and the application's stage,
the poller and the repository, day one and the employee record.

The `MC` modules for several components (`MCHiring`, `MCRequisition`, `MCInterviewing`,
`MCIntake`, `MCOffice`, `MCServer`) are built alike: a variable `part`, fixed in the initial
state, says which component's `Next` moves, and the others rest. Their state spaces are added,
not multiplied, so that one run asks one question of a whole area. No interaction is hidden by
this: what one component does to another is an action of the other one's module.
`MCHiring`, `MCIntake`, `MCOffice` and `MCServer` extend one of their components
(`OfferApproval`, `CvRepository`, `Identity`, `SchemaUpgrade`) and instantiate the rest; the
assumptions of all of them are checked. The proof modules extend the `MC` modules too, so that a
theorem about an instance (`A!Spec => []NoLevelSkipped`) speaks of the very property the run checks.
`MCHiring` and `MCServer` serve two runs each: `Parts` says which components a run is about, the
offers in `OfferApproval.cfg`, the application's stages and the panel in `MCHiring.cfg`; the
schema and the stage names in `MCStartup.cfg`, the jobs, which need fairness, in `MCJobs.cfg`.

### Scheduling, calendars, offers

`InterviewScheduling`: `request`, `slot`, `interview` and `app` are the rows; a slot's
identity is its request, the batch it was proposed in and its place in the submitted list, so a
replaced slot is a different row, and two slots of one list may have the same start: the handlers
check the length of the list and each start, not that the starts differ. `clock` is the wall clock
that validation and expiry compare with. Each route is a pair *Read/Look* and *Commit/Insert*:
`CreateLook/CreateInsert` (POST /request), `SubmitRead/SubmitCommit` and `EditRead/EditCommit`
(slots), `PickRead/ConfirmPick` (the candidate's choice), `BookActive` or `BookLook/BookInsert`
(direct booking), `AssignRead/AssignWrite`, `ExpireRead/ExpireWrite` (`_lazy_expire`),
`AdvanceRead` and its four endings. `Refused` is the 409 when the re-check under the row lock fails.
Two requests of one application can be active at a time (two overlapping creations), and the
properties hold nevertheless.

`InterviewCalendar`: a booking commits, then makes a Google event (`MakeEvent`,
`RecordEvent`, or `NoEvent` when that fails or no account is connected), then mails the .ics
(`MailInvite`). The mail may fail for some or all recipients (`MailFails`), which the handler
answers to its caller: `told` has the interviews whose booker knows. A handler may break off at any
statement, because its process dies or a call raises (`Break`): `lost` has the interviews it left.
`MailConfigured` says whether there is an SMTP server at all. What a recipient's mail client
does with an .ics (`Receive`: same UID, and not an older SEQUENCE) and what Google does are
external. `Schedule` is POST /api/schedule of `main.py`, whose invite has a UID that is not kept.

`OfferApproval`: most handlers are rows of single commits, so every statement that changes
state is an action and what the handler does next is in `job[w]`. A resubmission makes new
step rows: `batch` tells them apart. `agreed` is auxiliary: the terms the approvers of this
submission were shown. `Crash` ends a handler anywhere. Handlers overlap, and since no UPDATE
repeats the condition its handler checked, they do write over each other; two more auxiliary
variables keep account of it. `missed` has the workers that go by a row another one has changed
since they read it, `raced` the offers such a worker has written to. Everything claimed of an offer
is claimed until it is in `raced`, and `SequentialApproval` sees it as lost from then on. The
application is reduced to the stages an offer meets. Its `TypeOK` (like that of
`EnteriAttempt`) says what the rows hold and is not a run's property.

### The candidate's way

`ApplicationPipeline`: `ReadAdvance`, `Decide`, `CommitLevel`/`CommitStage` is `advance` with
its unlocked reads; `asked` remembers at which levels somebody asked for an advance.
`PanelFeedback`: `Save`, `Write`, `ReadCards`, `Combine`, `Count` are the statements of
`save_scorecard` in order. `HiringPlan`: `FindRow` and `WriteOffered` or `Reopen` are
`sync_plan`, which every handler calls that moves an application to or from an offer.
`RoundEdit`: a submitted list is any sequence of rounds the caller was shown and of new ones, each
with the number the caller sent; ids and numbers may repeat and numbers may be negative. `Bump`
negates the numbers of all rounds, `Write` puts the next one of the list down under its number,
`Delete` removes what was not submitted; a statement that the unique key refuses ends the
request where it is. The page numbers its lists 1, 2, ... (`index.html:9964`), the handler does
not.

### The AI interview

`EnteriAttempt`: `SendInvite` and `Relink` set a worker on the way through the statements of
`_send_invite`; `BeginRead`, `BeginStamp`, `BeginEnter` are the candidate's entry, `Converse`
to `ScoreTranscript` a turn of the conversation with the LLM in the middle, `Terminate` and
`TerminateWrite` the end the proctoring page asks for. `told` counts the answers the candidate
was told are stored. Handlers overlap here too: `missed` has those that go by a session another
has moved on, `raced` those of them that have written the conversation since.

`ProctoringJudge` counts time in halves of the page's tick of five seconds. A tick starts on
the beat or late and is judged, after its inference, then or later: `at` keeps both moments. The
page judges its cooldown by the second, the server's replay by the first, which is what is posted.
The page's and the server's counts are one recursion each, written from two programs
(JavaScript and Python); posts get lost, warnings are shown, rooms go dark. `upset` has
what has disturbed the ledger, a cooldown that was over by one clock only included.

### Intake

`MailboxScan` counts time in days, because the search's `after:` does. `CvRepository` is
statement by statement, with `Fails` between any two; `ever` remembers which contents had
a row. `CandidateIntake` has one request record per door; the doors differ in what they ask
and when. The repository's door names no employer, and so asks nothing; a CV that is linked to
a candidate already goes straight to the application (`First`). `CampusDrive` numbers
applications, since one that was deleted and made again is another; a deletion first detaches the
rows (`Detach`) and is refused by the foreign key if one was attached again (`DeleteApplication`).

### Jobs and start

`JobClaims` is one module for five workers that claim alike (campus mails, LinkedIn and feedback
reminders, CV enrichment, rendering); `kind` says which, and the actions differ where the code
does. A mail goes out (`Send`) before it is recorded (`Succeed`); the recording may fail and then
counts as a failed attempt (`FailLate`), a pass may be cut short by an exception (`CutShort`), and a
recruiter may queue an invite again whatever its state (`Requeue`). The ghost `excused` has the
rows of which the code allows a second mail: a mail is out and its recording failed or its
process died, the claim ran out while a pass was still at the row, or the row was queued again.

`SchemaUpgrade` holds the statement list of `_auto_migrate` as data: per statement the
table it is about, the tables it refers to and the columns, added by another statement, that
it uses. Left out are plain indexes, and columns, CHECKs and seeds that need no more than
another statement of the same migration on the same table. That every statement comes after what
it needs, and that nothing after migration 99 speaks of the tables it renames, is a closed
formula about this data (`ListInOrder`, which TLC evaluates whenever it loads the module); what
is left to the behaviours is what deaths, failures and a second server do to a list in order.
A statement is applied, fails for want of something, or fails for a passing reason and is skipped,
whatever else migrates beside it; a database may date from any earlier release. A process is
`clean` if no statement failed for a passing reason while it migrated, neither its own nor
another process's.
`StartupMigration` has the statements of that list that move rows, with the CHECK in force.

### The office

Every handler is one action per statement, and a worker may die between two.
`CandidateDocuments` keeps requests and documents as sequences in the order they were made,
because handlers take the latest; `file` says whether a file came in, or HR set the verdict by hand
without one (`PatchStatus`). `VendorResults` lets the vendor's webhook overtake the
handler that waits for the vendor's answer. In `Identity` a token is nothing but the version
it was signed with; `Login` reads the row and `Sign` signs later, `Request` is let in and acts
later. `RevokedStaysOut` leaves out the 60-second download token that a request let in
before may still mint (see below).

## Runs

| Run | Properties | Shows |
|---|---|---|
| `scheduling` | `TypeOK`, `OneBookingPerRequest`, `SlotsFollowRequest`, `CandidateSeesOneProposal`, `SettledStaysSettled` | overlapping submit, edit, expiry, pick and direct booking keep requests, slots and bookings consistent |
| `calendar` | `EventIdIsGood`, `CancelledStaysCancelled`, `EveryBookingIsMailed` (liveness) | bookings, moves and cancellations side by side lose no event and revive no interview; every booking is mailed or its booker is told |
| `offers` | `ApprovedInOrder`, `ApprovedTermsStand`, `HandedOverOnce`, `FollowsTheChain` (refinement) | wherever handlers die and overlap, the offer goes the way `SequentialApproval` promises, until one writes on stale ground |
| `hiring` | `NoLevelSkipped`, `ManagerIsTold` | two clicks move a candidate one level; of two last panelists one tells the manager |
| `requisition` | `EditIsExact`, `GivesUpLate`, `HandWrittenStands` | rounds are rewritten exactly, under the numbers sent; five attempts mean five others; a planner's word stands |
| `interview` | `AnswersSurvive`, `TrackerPendingIsOpen`, `CompletedStands`, `TabsHoldTheSecret`, `AlertsHaveASender`, `ReplayAgrees` | failing mails, LLM calls and processes lose no answer; a completed interview stands unless a racing handler checked it before; racing tabs share a secret; both counts of an undisturbed ledger agree |
| `intake` | `WindowCovers`, `StopsSoon`, `ReadMeansIngested`, `RowHasFile`, `BlockHolds`, `WaitsForALink`, `StatusStands` | stopped and broken scans miss no mail; files and rows stay together; the list is enforced at each door but the repository's, which does not ask it |
| `jobs` | `OneRunner`, `MailedOnce`, `SomebodyRuns`, `RowsSettle` (the last two liveness) | one process runs the jobs, a live one takes over, claimed rows settle, nobody is mailed twice for a row whose mail was recorded, whose claim stood and which nobody queued again |
| `startup` | `ServesComplete`, `OnlyTheOldBotLeft`, `CurrentStagesStand` | starts side by side and deaths leave a whole schema, and so do failures but for what is tied to the renamed tables; of the old stage names only the bot's is left |
| `office` | `CompleteIsEarned`, `VerdictStands`, `RevokedStaysOut` | statuses computed from old reads, webhooks that overtake, tokens that were being signed |
| `entry_left_in_inbox` (violation) | `InboxesShowTheRow` | an interview made by POST /api/schedule cannot be withdrawn from the inboxes |
| `ready_unconfirmed` (violation) | `ReadyMeansConfirmed` | a case that was only proposed becomes ready once an asset is handed out |

Every property of a passing run has a mutant in `PROJECT.json`: a plausible bug in one
mapped definition under which TLC finds the property violated in the same configuration.

### Instances and bounds

| Run | Instance |
|---|---|
| `scheduling` | 2 workers, 2 requests, 2 interviews, 2 batches of 2 slots at equal or different times, times 0 to 2 |
| `calendar` | 2 workers, 2 interviews, 2 events, SEQUENCE up to 2, 1 mail that fails or handler that breaks off, SMTP configured |
| `offers` | `MCHiring` with `Parts = {"offers"}`: 2 workers that may die anywhere, 1 offer, 2 submissions, chains of up to 2 |
| `hiring` | 2 handlers, rounds in three configurations that may be exchanged; 2 panelists, 2 tabs, 1 death |
| `requisition` | 2 editors, 3 rounds and new ones, lists of up to 2 rounds with the numbers -2, 1 and 2, 2 edits; 1 requisition, 1 plan row, 2 applications, 2 syncs; 2 creators, codes up to 7 |
| `interview` | 2 handlers that may die, 2 invites, 2 answers, both modes; 2 workers, 2 tabs, 1 session, 2 flags; 5 ticks, 2 flag types, laptop and phone |
| `intake` | 1 mail with two attachments, 2 files, 3 days; 2 workers, 2 contents, 2 cv_ids; 2 requests, 2 people; 2 rows of a drive, 2 applications |
| `jobs` | `MCServer` with `Parts = {"jobs"}`: 2 processes, 1 row, 2 deaths or passes cut short, 1 dropped connection, 1 row queued again |
| `startup` | `MCServer` with `Parts = {"schema", "stages"}`: 2 processes, 1 death or failure, at `nexai_invite` or `proctoring_session`, 2 restarts; 2 applications |
| `office` | 2 workers, 2 document types, 2 requests, 1 review; 2 policies, 1 asset; 2 tasks, codes up to 2; 2 checks, 2 syncs, 2 reports; 2 tokens, versions up to 2 |

Four runs also have a state constraint, which keeps the space within reach and is stated in
their `MC` module:

- `offers` (`InBounds`): it goes no further from an offer in `raced`, of which nothing is claimed, nor
  from an application that is hired, on hold or rejected from elsewhere than documentation.
- `interview` (`InBounds`): it goes no further from a conversation in `raced`; handlers overlap at
  what moves the session, before there is a last link, and otherwise run one at a time; after a
  disturbance, ticks are on the beat. A tick's inference is shorter than a tick, so ticks do
  not overlap.
- `requisition` (`OneClash`): of two lists in hand at a time, one at most has numbers that clash.
- `startup` (`Apart`): of two processes that migrate side by side, one is at a statement about the
  renamed or the failing tables or has yet to begin; other pairs of statements speak of
  nothing in common and commute.

Names that begin with `Max` (and `Ids`, `Interviews`, `Events`, which are finite) are bounds of
the model, not of the code; each is used in a guard. Why they are enough: every race in these
handlers is between two of them on one row, so two workers meet all pairs; a third adds only
further stale writes, each of which is refused or applied on its own. Two of a kind of row
are needed for the reused, the overlapping and the replaced one; two contents for the mail
whose second attachment fails after the first went in; three days for a scan that ends on
a later day than it began, with a window before it. Codes up to 7 leave room for
five collisions. Where a property is proved as well, the theorem has no such bound.

The proofs have none of these bounds and none of these constraints.

`CHECK_DEADLOCK FALSE` is in the configurations in which the bounds, or the end of the
matter modelled, leave nothing more to do; each says so.

### Fairness

- `EveryBookingIsMailed`: weak fairness of `Continue(w)`, the steps of a handler that has
  begun. It runs on a server thread to its end or breaks off (`Break`), and each mail and Google
  call in it returns, raises or times out. New calls are never assumed, and neither is that a
  handler breaks off or a mail fails.
- `SomebodyRuns` and `RowsSettle`: weak fairness of the watchdog, the claim, taking the next row
  of a pass, and of an attempt's end (sent, recorded, or failed) for a process that is up,
  and of time (`Tick`: a claim runs out, a next attempt comes due). The loops of `main.py` and
  of the workers go round for as long as the process lives, and a call in them returns or
  raises. Nothing is assumed about deaths or about processes being started again; the
  properties speak of a process that is up.

## What is proved

All theorems hold for any values of the constants that meet the named assumptions of their
module (bounds are numbers, NULL differs from every row, a panel has somebody in it, the
statement list is in order);
TLC evaluates these assumptions in the runs. They are safety: `Spec` has no fairness in them. Every invariant
and every action property of the passing runs, and the refinement, is stated by one of them.

| Module | Theorems | Why they need an invariant of their own |
|---|---|---|
| `InterviewScheduling_proofs` | `TypeCorrect`, `BookedOnce`, `SlotsAgree`, `OfferIsOneProposal`, `SettledForGood` | that a booking takes a request that has none needs that a request without status `confirmed` has no interview; that a new batch is alone needs that a request that waits for its manager has no open slots. What a worker remembers plays no role: the re-checks under the lock make stale reads harmless |
| `InterviewCalendar_proofs` | `CalendarTypes`, `EventIdStaysGood`, `CancelledForGood` | a handler keeps an event's id over another one's commit and deletes it by id: rows hold events of their own (`RowsOwn`), and what a handler carries is its interview's and, if it is to be deleted, that interview is cancelled (`JobsOwn`) |
| `Server_proofs` | `JobTypes`, `OneRunnerAlways`, `MailedOnceAlways`; `WholeSchema`; `OldStagesGo`, `TodaysStagesStand` | jobs: beyond the holder of the lock each process that runs the loops has lost a connection (`LockOK`, by cardinality); a pass works from what it claimed, a claimed row is not due, and a row whose mail is out is not to be done any more, is being recorded, or is excused (`MailOK`). Schema: as long as nothing has failed, what a process has passed is done, before the renaming because nothing is in its way, after it because what is tied to the old names was done before; once something has failed, what a clean process has passed is done or tied to the old names, and no process renames beside it but a clean one, which has everything before the renaming behind it (`Passed`). Stages: between its guarantee and the end of its list a process leaves no old stage behind but the bot's, and no statement of another one makes one again (`StageInv`) |
| `Hiring_proofs` | `ApprovalsInTurn`, `AgreedTermsStand`, `HandedOnce`, `OffersFollowTheChain` (the refinement); `TwoClicksOneLevel`; `SomebodyTells` | offers: what a handler has read is still so when it writes, one case per statement it may be at (`JobFits`), unless it is in `missed`; an offer fits its steps (`OfferFits`) unless it is in `raced`; that all steps are approved follows from counting them (`CountingIsEnough`). Stages: what a request has in hand was asked for at the level it is for (`PlanOK`). Panel: no request knows that it is the last; it counts the cards after it has written its own, so while the panel is complete and nobody was told, a submission is on the way to its count (`OnTheWay`) |
| `Requisition_proofs` | `UndisturbedEditIsExact`; `CreatorsGiveUpLate`; `PlannersWordStands` | rounds: an undisturbed editor can account for every row: a round it knows has a negated number or that of an entry it has written, any other row is one it has added, so a statement that finds its number taken finds it in the list (`Written`, `SoloOK`). Codes: a number is tried only if it was free when the creator looked, so each failed attempt is paid for by somebody's creation (`CodeInv`). Plan: a step writes one row (`RowWritten`) |
| `Interviewing_proofs` | `PendingIsOpen`, `StoredAnswersSurvive`, `CompletedInterviewStands`; `OneSecretForAllTabs`, `NoAlertForgotten`; `BothCountTheSame` | links: what is revoked has expired, what was entered is used (`LinksOK`). Attempt: what a handler read of the session before the LLM answered is still so when it writes (`StepFits`), unless it is in `missed`. Sessions: a handler that is to give a tab its secret knows both (`SessionRowsOK`); whoever makes an alert goes on to the digest, and a digest leaves none it could claim (`AlertsInv`). Strikes: what the page has counted is a history, tick by tick, of the ledger (`History`, kept by each step); the replay is the same recursion up to the last flag, and two functions that follow it have no first tick at which they part (`ReplayIsHistory`) |
| `Intake_proofs` | `RowAlwaysHasFile`, `MarkedIsIngested`; `NoMailLeftOut`, `StopsWithinAnItem`; `BlockHoldsAtEveryDoor`, `IntakeMovesNobody`; `WhoeverIsMailedHasALink` | repository: no transaction holds a row and its file together; an id that is being inserted is nobody else's (`Apart`), has its file and has no row (`Holds`); a poller in the middle of a mail has seen to the attachments before this one (`InMail`). Scans: the checkpoint has only moved on since a scan read it, and what arrived before the scan began has been or will be walked (`ReadOK`, `CoverOK`). Doors: a request past the gate of a door that asks has not had the company listed since it began (`RequestOK`, with the order of queries of each door). Drive: numbers are not used twice, and an invite has made what it says, unless the application is gone (`NumbersOK`, `InviteOK`) |
| `Office_proofs` | `CompleteStaysEarned`; `VerdictStandsAlways`; `RevokedForGood` | documents: a status is computed from rows read earlier; no file that came in and no verdict set by hand is taken back, so the invariant also speaks of the handlers about to write 'complete'. Pushes: the handler writes by row id without a look; a webhook finds only rows that have a reference, which the handler stores with the last thing it writes (`SpokenOfByRef`), and no two handlers push the same row (`PushesApart`). Accounts: no token carries a version the row has not reached (`Behind`), a withdrawal moves the row past all tokens, and a deleted row does not come back (`OutStaysOut`) |

Each proof has the same shape: the invariant holds initially, each action keeps it (one lemma
per action or group of actions that leave the same rows alone), and it implies the property. An
action property follows from the invariant and the step. The refinement maps the initial states of
`OfferApproval` to one of `SequentialApproval` and each statement of a handler to one of its steps
or to none (`Seen` is what the abstract module sees). The theorems about `Requisition`,
`Interviewing`, `Intake`, `Hiring`, `Office` and `Server` are about the specification of the component
(`A!Spec`, `M!Spec`, ...), which is what the `MC` module runs when that component is the part
that moves.

No theorem has a hypothesis beyond the named assumptions on the constants. In particular handlers
overlap in any number and a process may die between any two statements. Where the code does not
exclude that one handler overwrites what another has just written, the theorem says up to where
its property holds, in terms of what has happened: the offer is not in `raced`, nobody in
`missed` moved the session, the ledger is not `upset`, the row is not `excused`, the server's
migration is `clean`. These variables are auxiliary: no action reads them but to keep account of
them, and each is set only by the very event its comment names. What the code does
beyond is in the next section.

Only model-checked:

- liveness (`EveryBookingIsMailed`, `SomebodyRuns`, `RowsSettle`), which is out of the prover's reach;
- `ListInOrder`, the assumption of `WholeSchema`: a closed formula about 280 statements, which TLC
  computes and the provers would have to unfold.

## Disagreements between the code and what it says

The two violation runs are the ones with a trace. The following were met while modelling,
and are left out of the models' properties or built into their actions.

Scheduling and calendars:

- `_validate_slot_list` (`scheduling_api.py:1016-1037`) checks how many times a list has, not that
  they differ, and no key does: a list with one time twice is accepted, so the candidate may be
  shown fewer distinct times than `_MIN_SLOTS`. `CandidateSeesOneProposal` speaks of the list.
- Without SMTP, `send_calendar_invite` answers `sent: False` but `to: to_emails`
  (`connectors.py:165-169`); `schedule_meeting` derives `invite_sent` from the latter, so it is True
  and booking and picking answer that the panel was notified. `connectors.py:340-344`: "Real signal
  instead of an assumed success -- True only when every invited recipient actually received the
  invite". `EveryBookingIsMailed` is about a configured server (`MailConfigured`).
- The next `ics_sequence` comes from an unlocked read (`scheduling_api.py:1651`): two reschedules may
  mail different times under one number, and the inbox shows the later mail, the row the later write.
- A round entered while an earlier request is active gets no request of its own (:400), and two
  overlapping creations insert two; an edit between the two statements of the expiry leaves open
  slots on an expired request (:101); two unforced cancellations cancel both bookings of a round
  (:1870); reschedule, then cancel, leaves the first Google event (:1367); `assign_hm` writes
  unconditionally (:811); a process that dies between commit and mails leaves nobody told (:1562).

Offers. No UPDATE of `offers_api.py` repeats the condition its handler checked, so handlers that
overlap do the following; the properties of `offers` hold up to the write on stale ground:

- an edit that read 'revising' writes after the offer was resubmitted (:658), and changes the terms an
  approver has agreed to or is looking at, against "Only allowed when status='revising'" (:642);
- approve and reject of one step both go through (:1046): a rejected step of an offer that is sent,
  or a sent offer that says 'revising';
- two final approvals both hand the offer to Darwinbox (:911-925);
- a late second click on an approval sets `current_step` back to a step approved meanwhile, where
  there is "No pending step found" for anybody;
- the chain is emptied between the check and the submission, and the offer has no step at all.

A requisition can have a second live offer (:410); an offer can wait for a chain nobody set
(:401); a rejection by cancelling the offer cannot be reverted (:1131).

Pipeline and hiring:

- A list of rounds whose numbers repeat fails at the unique key half-way, with a 500, and leaves the
  rounds negated; "Validate everything up front so a bad feedback_form_id can't leave round_config
  half-migrated" (`pipeline_api.py:1364-1365`) validates the forms only. The page's lists are
  numbered 1, 2, ... After an edit that broke off the bump can collide, which its comment excludes.
- A stale `advance` moves a candidate backward (:2483); `manual_tenure` fails after it has written the
  scores; `revert` and the screening decision do not call `sync_plan`, which says it is called
  after every transition; a draft unlocks a submitted scorecard (`scorecard_api.py:494`), and
  consensus can be that of an earlier state; two last panelists can both mail the manager; the
  application's `current_round` is not moved when rounds are reordered.

AI interview and proctoring:

- The endings check the session and write it an await later, by its id: a termination
  (`enteri_ai_api.py:1815`, `:1900`), a turn of the conversation (`:1623`, `:1713`) and an entry (`:1304`,
  `:1332`) that checked before another handler completed the interview overwrite 'completed', against
  what `:1309` expects of the statuses ("stamped together"). `CompletedStands` excepts exactly those.
- Two turns that read the same conversation both write it, and one answer is lost after its
  candidate was told it is stored. `AnswersSurvive` holds until then (`raced`).
- The page judges its cooldown by `Date.now()` after the inference (`interview.html:1421`, `:1425`),
  the server by the tick's start, which is posted (`:1125`, `:1238`, `proctoring_scorer.py:178`): near
  the fifteen seconds one may count a strike and the other not, against `proctoring_scorer.py:7-8`,
  "so the server's count can never legitimately disagree with what the browser would have computed
  from the same raw flags". They disagree while a warning is on, too (:80).
- A failed resend reads as pending (`enteri_ai_api.py:1046`); a claimed render can stay 'rendering'
  (`enteri_ai_render_worker.py:55`).

Intake:

- Mapping a CV of the repository passes `current_company=None` (`cv_api.py:1106-1109`), so the
  no-poach block is never asked there, against "every entry point now collects it"
  (`services/pipeline.py:168-171`) and `bulk_map_cv`'s "no-poach block" (`cv_api.py:1197`).
  `BlockHolds` excepts that door.
- Errors in a scan still move the checkpoint; the Gmail poller takes 50 unread mails at a
  time; ingest jobs stay 'running' after a death; deduplication and the no-poach check are not
  per tenant; the rehire flag's comment does not hold under a race; portal and vendor overwrite
  the application's source; a repeated campus invite can leave two live links;
  `_send_one` counts an invitation twice.

Jobs:

- "A crash mid-send can't cause a double send" (`linkedin_reminder_worker.py:9-12`) and "closes a race
  where a crash/restart between 'email sent' and 'status set to sent' would let the next fetch
  re-pick (and re-email) the same row" (`campus_email_worker.py:50-56`): the claim only delays the
  second mail until it runs out. A claim that runs out under a slow pass is mailed again, too.
- If the UPDATE that records a sent mail fails, the attempt counts as failed and the mail goes
  out again (`campus_email_worker.py:203-206`); if it is the batch's count that fails, three times, a
  row whose mail is out ends as 'failed'.
- `bulk_invite` queues a row again that is claimed or sent (`campus_bulk_api.py:933-939`), which
  `resend_queued_invites` takes care not to do (:983).

Office: `patch_document_status` makes a document that is merely requested 'verified' or 'rejected'
(`document_api.py:261-284`), and it then counts in the request's status, which says "whatever's
actually been uploaded so far" (:40-41): a request reads 'complete' with nothing in for a type.
`CompleteIsEarned` therefore says "came in or was decided by hand". The proposer's "no duplicate writes" does not hold for overlapping passes (no unique
key); a case's status does not always "reflect current child-row state" (an asset asked for
after ready leaves it ready); two confirmations seed the policies twice, and a crash leaves
some; overall BGV status can be older than its checks; a webhook before the reference is stored
is answered 404; two conversions can create two employees of one candidate; a stale refresh
takes a request back from 'complete' to 'partial'; a sync row stays 'in_progress' after a death;
reset tokens are checked and then used in two statements; a password change by its owner does not
withdraw tokens, an administrator's does; two superadmins can revoke each other.

Startup:

- Migration 99 moves old rows to 'enteri_ai_bot' (`main.py:2538`) while migration 38's CHECK, which
  does not know that name, is in force. The UPDATE fails, rows at 'nexai_bot' stay, and the
  new CHECK cannot be added over them, so there is none; against "must be migrated before the
  CHECK constraint below stops allowing the old value" (:2534-2537) and "guarantee final
  application.status constraint" (:742-745). `OnlyTheOldBotLeft` says what is left, no more.
- A failure in one process spoils another one's schema: p2 fails CREATE `proctoring_session`, p1 passes
  CREATE `nexai_session`, p2 goes on and renames the tables, and now p1's CREATE and ALTERs of
  `proctoring_session`, which refer to the old name, fail; p1 serves without the table though it met
  no failure of its own. "Each statement is safe to re-run" (:148), and it is logged as a warning only
  ("a failed migration shouldn't block startup", :3178). `ServesComplete` speaks of a process beside
  which nothing failed either.
- A statement that fails once on the renamed NexAI tables is never made up for; seeds with
  `ON CONFLICT` on columns that later lose their key fail at every later start; migration 44 fails
  for good if the platform admin's address is set after migration 96.

## Not modelled

- Speech, avatar, LLM and rendering services, text extraction and scoring of CVs: calls that
  answer or fail, and keep no protocol state. What is done with their answers is modelled.
- `db.py`: a statement and a transaction block are the steps of every module. The pool's
  limit (a nested borrow in a transaction needs a second connection) bounds throughput, and a
  request that finds none is a request that fails, which the modules allow anywhere.
- OAuth and LinkedIn flows, object storage: external services behind single calls.
- Reports, KPIs, exports, activity log, notifications, tickets, templates, gamification:
  read-only or append-only.
- Organisation, clients, bands, vendors' and candidates' accounts, module access, rate limits: one
  row at a time, nothing that another step depends on.
- The front end, except the strike loop of `interview.html`, which the server replays.

## What could come next

1. Once the writes of offers and attempts are conditional on what was read: the same properties
   without `raced` and `missed`.
2. The connection pool, if its limit is to be chosen by argument.
