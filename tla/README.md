# SaloonBook, specified

TLA+ models of the parts of SaloonBook whose correctness depends on the order in
which requests, worker runs, callbacks and failures happen, the TLC runs that
check them on small instances, and TLAPS proofs for instances of any size.

## The system

SaloonBook is a Next.js application (`src/`) with a separate worker process
(`worker/`). PostgreSQL, through Prisma, holds everything that lasts; Redis holds
BullMQ jobs, rate limits and one-time codes. Web requests run concurrently in any
number of instances; every transaction runs at READ COMMITTED.

| Part | State it keeps | Operations | Talks to |
| --- | --- | --- | --- |
| Booking calendar (`src/lib/booking.ts`, `availability.ts`, manage route, `dashboard/actions.ts`) | `Appointment` rows, exclusion constraint `appointment_no_overlap` | book, move and cancel by manage link, staff move, staff status change, nightly close | quota (same transaction), notification rows (same transaction), payments (reads the price) |
| Monthly quota (`src/lib/quota.ts`) | `UsageCounter` per salon and month | consume in a booking or a customer move, release after a staff cancellation | plan limits |
| Set-up (`workers/actions.ts`, `services/actions.ts`) | services, add-ons, employees, hours, time off | edit screens | read by the slot check |
| WhatsApp delivery (`src/lib/queue.ts`, `worker/processors/notifications.ts`, `notification-sweep.ts`) | `Notification` rows, BullMQ jobs | enqueue, claim, send, terminal write, sweep | Meta's Graph API |
| WhatsApp webhook (`api/webhooks/whatsapp`) | same rows, `Customer.waOptIn` | status callbacks, opt-out | Meta |
| Payments (`_actions/payments.ts`, `lib/finance`) | `AppointmentPayment` entries, audit log | record, refund, void | reads the appointment |
| Subscriptions (`subscription.ts`, `admin/actions.ts`, `worker/processors/subscriptions.ts`) | `Subscription`, `Payment` rows | activate, grant a trial, sell branch slots, take a payment back, time-aware plan, nightly sweep | limits everything else |
| Seats and branches (`subscription.ts`, `workers/actions.ts`, branch actions) | active employees, salons of an account | the count under a row lock, everything that gives a place back | the plan |
| Push reminders (`queue.ts`, `worker/processors/push-sync.ts`, `push.ts`) | delayed jobs keyed by appointment | schedule, re-derive, send | appointments |
| Instagram inbox (`ig-store.ts`, webhook, `scripts/ig-backfill.ts`, profile job) | `IgThread`, `IgMessage` | store a message, advance the thread, fill the profile | Meta |
| Instagram digest, token renewal (`ig-digest.ts`, `worker/processors/ig*.ts`) | a report per day, an access token | build and send, renew | Meta, a language model |
| Booking widget (`[slug]/booking-widget.tsx`) | a customer's choices, the list of free times, a submission | pick, edit, fetch, submit | availability and book routes |
| Rate limits, codes (`ratelimit.ts`, `auth/otp.ts`) | Redis counters, a code row | peek, consume, create, verify | public routes |
| Sessions, permissions, branches, deletion, reviews, payroll, guides | rows of their own | screens and pure decisions | |

What makes each part correct:

* **Calendar**: no two confirmed appointments of an employee overlap; an
  appointment that let go of its interval does not come back; it lies in the
  salon's hours, and is closed once it has started.
* **Quota**: a month never passes the plan's limit; refused work is not charged;
  one slot back per booking at most.
* **Delivery**: every row ends; nothing is sent twice, to the wrong time, or
  after a cancellation; nothing that failed for good looks fine.
* **Payments**: entries are never rewritten, money on record is not erased with a
  customer, the audit log tells all about it, and the net of a booking stays
  between zero and its price.
* **Subscriptions**: days that were bought are days of access; the stored status
  comes to say what the clock has decided, and saying it changes nothing.
* **Seats and branches**: never more than the plan allows, whoever asks at once.
* **Push**: an alert fires once, two hours before the visit that is happening.
* **Inbox**: messages may come late, twice and in any order; the thread neither
  falls behind them nor claims one it does not have, and a known handle stays.
* **Widget**: the times on the screen belong to the choice on the screen, and an
  impatient customer is not booked twice.

What is hard: the slot check is not under any lock; two lock orders meet in the
quota counter; `setAppointmentStatus` is a read and then statements in no transaction; job ids are
reused for deduplication and stay taken after a job ends; the send itself cannot
be part of a transaction; payments and the admin's subscription actions read,
decide and write in separate steps without a lock; timers start passes that
overlap; Meta repeats and reorders; the widget's answers race its user. `PROJECT.json` lists every hazard at its line.

## Modules

| Module | Models | Role |
| --- | --- | --- |
| `Calendar` | what the booking code promises | abstract specification |
| `Booking` | calendar and quota under concurrent requests | detailed specification, implements `Calendar` |
| `Delivery` | notification rows, jobs, runs, sweep, callbacks | specification |
| `Payments` | the entries and the audit log of one booking | specification |
| `Inbox` | one Instagram thread and its messages | specification |
| `Push` | reminder jobs and the passes that put them right | specification |
| `Subscription` | one account's subscription, its payments, the sweep | specification |
| `Seats` | masters of a salon and branches of an account | specification |
| `Widget` | one customer's form, its fetches and its submission | specification |
| `BookingProofs`, `DeliveryProofs`, `PaymentsProofs`, `InboxProofs`, `SubscriptionProofs`, `PushProofs`, `WidgetProofs` | | theorems (those of `Calendar` are in `BookingProofs`, those of `Seats` in `SubscriptionProofs`) |
| `Sums` | | theorems about sums over a finite set, used by the proofs of `Booking` and `Payments` |
| `MCBooking`, `MCDelivery`, `MCPayments`, `MCInbox`, `MCPush`, `MCSubscription`, `MCSeats`, `MCWidget` | | instances for TLC |

The modules share no variable. Where one reads what another keeps - `Booking` the
plan limit, `Push` the appointments, `Seats` the plan - the reader has a constant
or a few free actions that allow everything the other module may do.

### Booking

A request is a record in `req` with a program counter. Its steps are the points
where the code reads, takes a lock it keeps, or commits:

* `createBooking`: `StartBooking` (the slot check, inside the transaction but
  without a lock), `ChargeBooking` (`consumeBookingQuota`: the upsert locks the
  counter's row), then `InsertBooking` or `SlotTaken` (the insert meets the
  exclusion constraint, and the commit).
* Manage link: `StartMove`, `MoveRow` (the update locks the row and is checked
  against the constraint), `ChargeMove` (quota, commit); `StartCancel`,
  `CancelRow`.
* Staff: `StartStaffMove`, `StaffMoveRow`; `StartSetStatus`, `SetStatus`,
  `ReleaseQuota` - three separate statements in the code, three steps here.
* `Reconcile` is the worker's nightly update, `DeleteCustomer` the deletion of a
  customer with the appointments, `EditService`, `SaveHours`, `AddTimeOff`,
  `DeleteTimeOff` the set-up screens, `Crash` the death of a request or its
  transaction's timeout.

A request acts later on what it read: the slot, the status and the start are in its
record. `seen` is how many edits of the set-up its slot check had before it, so that
`KeepsToSetup` can say which request could not know better: an appointment in time
off, outside the hours or of another length is written only by one whose check came
before an edit. `NotClosedEarly` does the same for the outcome guard: a visit is
closed before its start only by a status change that read an earlier start.

The list of free times (`getAvailableSlots`) is a read that writes nothing and
promises nothing to the write path, which checks again; it is not modelled.

`status`, `emp`, `slot`, `booked` and `usage` hold what is committed. What an
open transaction has written is in its `req` record; `RowLocked`,
`CounterLocked` and `HoldsConflict` say whom it makes wait. A writer that meets
an uncommitted conflicting version waits, as PostgreSQL does; two that wait for
each other are resolved by `DeadlockAbort`. `moves` and `released` are history.

Abstracted: instants are small numbers; the length of a booking is one number
that stands for service, add-ons, people and buffer; add-on and customer rows and
everything that refuses a request before it reads the calendar (rate limit,
captcha, permission, suspended salon) are left out; so are the notification rows,
which `Delivery` has. `deleteCustomer` and account deletion appear only through
the rows they remove.

### Calendar

`held[a]` is what an appointment holds. `Take`, `Move` and `LetGo` are the only
steps. `Booking` implements it under `held <- [a |-> HeldBy(a)]`: an appointment
holds its interval exactly while it is CONFIRMED, and every other status is Gone.

### Delivery

One appointment and its rows. Handlers (`Book`, `Reschedule`, `CustomerCancel`
in one transaction each; `StaffRead`, `StaffClose`, `StaffDropRows`, `StaffNotice`
one statement each) write rows and leave them in `pending`; `Enqueue` adds the job
after the commit, or `EnqueueLost` does not. What a handler tells the customer is
what it read first, and a reschedule may commit in between: `closing.says` is the
start `setAppointmentStatus` read before its update, and `CustomerCancel(new, k)` is
the manage route, which loaded the appointment at any version k so far. A notice may
therefore be born with an old time. `StaleWasTried`, which is about the messages a
reschedule withdraws and writes anew, speaks of confirmations and reminders only. `job[n][id]` is the job of row n
with that id: the plain id, `Revive(k)` for k attempts counted, `Defer(k)` for
the moment the k-th lease ends. A finished job keeps its id, so `Added` ignores
an add under a taken id. This rests on `removeOnComplete` 1000 and
`removeOnFail` 5000 being larger than the jobs finished in between.

A run is `Look` (read the row, decide), then `Veto`, or `Claim` (compare-and-set
on status and attempts), `Send`, and `Record` or `Fail`. Between any two of them
anything else may happen, a second run of the same row included. Faults:
`DbError`, `WorkerDies`, `RedisLosesJobs`, `EnqueueLost`, and a `Send` that Meta
accepts but whose answer is lost.

Time is abstract. `due` says whether sendAfter is reached and `leased` whether a
claim has pushed it into the future. A lease lapses only when no run of the row
is between claim and terminal write: it is ten minutes, a send has a timeout of
seconds and the terminal write is given up after less than ten. The sweep's grace
periods are dropped - it may look at a due row at any time - and so is its limit
of three days: the model's sweep is at least as eager as the code's, so the safety
properties carry over, and liveness is stated for rows the sweep still looks at.

Abstracted: templates are three kinds, by which send-time check exempts them; a
confirmation and the salon's alerts are messages; a reminder of a public
self-booking is one whose consent stands. Deleting a customer's rows is left out,
and one staff status change runs at a time; of its read only the start is kept, and
whether it will notify.

### Payments

One booking. A server action is a `call` whose reads and whose transaction are
separate steps, because the code takes no lock on the booking: `RecordPayment` and
`RefundPayment` read the entries and apply `MayPay` and `MayRefund` (the pure rules
of `finance/payments.ts`), `WriteEntry` writes entry and audit row.
A void is `FindPayment`, `CheckRemaining` (`MayVoid`) and `VoidEntry`, a
compare-and-set on `voidedAt`. An entry has the id of the request that wrote it;
`stale` marks what a request has read as out of date once another one commits, and
`raced` remembers that somebody wrote upon such reads. A request that dies writes
nothing, which is a call that takes no further step. Tips, methods, dates and the
displayed summary are left out.

`gone` says whether the booking went with its customer or with the account.
`deleteCustomer` counts the entries, refuses if one stands, and sweeps the voided
ones in its transaction. `DeleteCustomer` is one step for both: a payment that
commits in between meets the RESTRICT of the foreign key and rolls everything back,
a void that commits in between leaves the state that a later count would have
found, so the states after a deletion are those of a count taken at the commit.
Its other refusal (a visit in a month that was paid out) is a deletion that does not
happen. `DeleteAccount` is `deleteAccountCompletely`, which takes the entries
whatever they are; deleting a branch is refused while it has appointments. A request
that had read the booking finds no row to void, or is refused by the foreign key
(`WriteEntry`, `GiveUp`). The audit rows stay, and `AuditExplainsEntries` says what they
must still tell: all of it while the booking is there, and after the customer was
deleted, of each entry, how it was undone.

### Inbox

One thread. `recordIgMessage` is four database statements, each a step of a process
in `call`: `LookUpThread`, `InsertThread` or `LoseThreadRace` (P2002, one more
attempt), `StoreMessage`, `AdvanceThread` (whose WHERE is the monotonic guard). The
caller then asks for the profile (`EnqueueProfile`, webhook) or fills in the handle
it knows (`ImportHandle`, the history import). `StartProfileJob`, `EndProfileJob`
and `FailProfileJob` are a run of the worker's lookup, `Fail` an error or a death
at any statement; the webhook answers 200 all the same, and a message may be handed
in again at any time, also years late by the import. Graph's REST API has a
message's time in whole seconds, the webhook has milliseconds: `CutAt` and `SentAt`.
A correction by hand is allowed because the code's comments promise to respect it.

### Push

`job[a]` is the reminder job under the appointment's fixed id. `Book` and, any time
after it, `EnqueuePush` or `LosePush` are a booking; `Move` and `Close` change the
row and call no queue, as in the code. `StartRun`, `EndRun`, `FailRun` are the
processor; `LoseJob` is Redis losing one. A pass of `syncPushReminders` reads its
rows once (`StartPass`, the first `Batch` by start within the horizon) and then takes
them in order: `Clear` for a closed visit, or `Compare`, `RemoveStale`,
`AddReminder`, each a Redis call; the timer does not wait for the pass before, so
two may be at work. `TimeOut` gives a call up that still lands, `Abort` loses the
rest of a pass. Immediate alerts are left out.

### Subscription

`sub` is the row, `payment` the Payment rows. Each admin action reads the row and
computes what it will write (`StartActivate`, `StartTrial`, `StartTakeBack`), and a
later transaction writes it without looking again (`Activate`, `GrantTrial`,
`TakeBack`); `Abandon` is one that dies or finds its payment gone.
`SetExtraBranches` writes a payment that bought no period. The sweep reads the clock once
and runs two conditional updates (`StartPass`, `EndTrials`, `EndLapsed`).
`Effective` is `effectivePlan`. Months, trial and grace are ticks; the clamping of
`addMonths` at month ends is left out. `paidUntil` is the history of what was bought
and not taken back, `raced` that a transaction wrote over a row changed since its
read.

### Seats

`AskSeat` (an employee saved as active or switched on, plan read first, no lock when
it is unlimited) and `AskBranch` start a request; `TakeLock` is
SELECT ... FOR NO KEY UPDATE of the salon or account row, `Count` the count under it,
`TakeSeat` and `OpenBranch` the write and the commit. `SwitchOff`, `DeleteEmployee`,
`SetBranchStatus` and `DeleteBranch` take no lock. `ChangePlan` is anything the
subscription may do meanwhile; `highSeats` and `highCap` remember the best plan so
far, since the code promises nothing about masters who were active before a
downgrade.

### Widget

`ui` holds the customer's choices and the index of the open step in `Steps`, which
depends on the service. `Render` is React's effect, made part of the action that
changes its dependencies: the old fetch is cancelled and a new one started when the
time step is open on a complete choice. `TimesArrive` and `TimesFail` come in any
order; only a fetch that is not cancelled is `Heard`. `failed` is the choice whose
times did not load, so that an error on the screen can be held against the choice
beside it. `Submit` posts, `ServerBooks`
is the server's commit, and `Accepted`, `SlotTaken` (409), `Refused` and
`NetworkFails` (before or after the commit) are the rest of `submit()`, which works
with the steps of the render it started in: `BackToTime` goes to the index the time
step had then. A 5xx after a commit is left out; the customer sees a refusal and the
appointment is made, as with a lost answer. The gender step, the contact form, the
captcha and the drawing are left out; what the server refuses and why is
`Booking`'s.

## Runs

| Run | Question | Result |
| --- | --- | --- |
| `booking` | can two requests over two appointments of one employee, three starts and a month end break the calendar or the quota, or close a visit early except on an old read? | holds |
| `booking_setup` | the same calendar while catalog, rota and time off are edited and overdue rows are closed; who can still write outside the set-up? | holds |
| `booking_live` | does every request end? | holds |
| `delivery` | one row, all its jobs, a move, one fault: one sender, no unexplained repeat, no status undone, no notice dropped and no old time kept except as the code knows, no row left open | holds |
| `payments` | five requests on one booking, its customer or account deleted meanwhile: do ledger and audit log agree, is no money erased, do the totals stay meaningful? | holds |
| `inbox` | two processes, two messages of one second, repeated, reordered, failing at each statement: is the thread right? | holds |
| `push` | one visit, two overlapping passes, one fault: is there one alert at the right time? | holds |
| `subscription` | two admin requests and the sweep: is paid access kept, is the status made truthful? | holds |
| `seats` | three requests at the last seat and the last branch, with plan changes | holds |
| `widget` | any editing while two fetches and a submission are under way | holds |
| `quota_release` | one release per booking | refuted: finding |
| `inbox_media` | handing a message in again loses nothing of it | refuted: finding |

### Bounds and why they are enough

* `booking*`: each race in the handlers is between two transactions, over a row, an
  interval or the counter, so two requests. Two appointments are the least that can
  overlap; starts 1 to 3 with length 2 give disjoint, overlapping and touching
  intervals. Requests and rows are interchangeable: symmetry. The month changes at
  instant 2 of 3, and a limit of 2 bookings is reached by two; `booking_setup` has a
  limit of 3, so that the calendar alone decides, no releases, windows that open at 0
  and at 2, and a clock that lets `Reconcile` find an overdue row. `MaxReleases` = 1 stops new status changes for a
  booking that has given its slot back once; two that started before may both
  release. `MaxEdits` = 2 set-up edits let a window close and reopen.
* `delivery`: rows share no state except the appointment, which is in the model, so
  one row. `JobAttempts` 2 for 8, `MaxAttempts` 2 for 24: one retry, one
  revival and one exhausted row exist. `MaxClaims` 2 stops following a row after that
  many claims; the claims of two jobs that defer to each other have no bound in the
  code. `MaxTrouble` 1 is any one fault at any point, `MaxMoves` 1 one reschedule.
  With one row, a status change that will write a notice is followed only while that
  row is unused; one that writes none is followed always, so the clean-up of queued
  rows by a second change is among the runs.
* `payments`: five requests are a payment, its refund, the void of either and a
  second void that loses, with a deletion at any point. Price 2 and sums 0 to 2 give partial, exact and excessive
  amounts, and discounts beside them.
* `inbox`: two processes race for the thread, the row of a message and the profile; two messages
  of one second with the salon as the sender of one reach the case in which an
  import's coarser stamp ties.
* `push`: appointments share no job, so one; two passes are the least that overlap.
  The clock runs to 4 with a lead of 2 and a horizon of 1: a visit is out of sight,
  in sight, inside the lead and past. One move, one fault.
* `subscription`: two requests race; two payments, a trial and a grace of one tick
  and a clock of three let each period lapse before, at and after its grace.
* `seats`: limits 1 and unlimited, caps 1 and 2; three requests are one more than
  the last place has room for, with one that was let in under a better plan.
* `widget`: two services, one with add-ons, so that the step lists differ; one
  master and day, two times, parties of one and two; two fetches in flight, one
  answer lost.

Deadlock checking is on where the system always has something to do (`delivery`,
`inbox`, `subscription`, `seats`) and off in the others, where a system with no
request, no time left and no job is idle rather than stuck.

### Fairness

`Booking`: strong fairness of a request's own steps, since a row lock is handed to
its waiters in turn and a waiting statement is not forgotten, and weak fairness of
PostgreSQL's deadlock detector. Nobody has to start a request; crashes, edits and
the clock are never forced. `Delivery`: weak fairness of BullMQ handing out
jobs, of the steps of a run, of time (due, lease) and of the sweep, whose timer
fires for ever. Handlers, callbacks and faults are free. One
fault is allowed: with as many as a job has attempts the row may be stranded (below).

`Push`: weak fairness of starting passes and of a pass's own calls, for each pass (the timer
fires as long as the worker lives, Redis calls return or time out), and of BullMQ running
what is due. Time need not pass and nothing has to fail. `Subscription`: weak
fairness of the sweep, a repeatable job with a run at boot. `Payments`, `Inbox`,
`Seats` and `Widget` promise nothing that must happen and assume no fairness.

## Findings

Each refuted run is a disagreement between the code and what a comment in it says;
`PROJECT.json` quotes the comment and the reason.

1. `quota_release`: a booking's quota slot can be given back twice. The status change
   decides on a status it read earlier, and the update filters by id only
   (`dashboard/actions.ts:283`).
2. `inbox_media`: the history import erases the attachments of messages the webhook
   had stored (`ig-store.ts:133`, `scripts/ig-backfill.ts:187`).

### Known divergences

Also met while modelling; no run is spent on them, but the properties say where
they end:

* A future appointment can be closed as COMPLETED or NO_SHOW: the outcome guard uses
  the start it read, and a move may commit before the update (`dashboard/actions.ts:265`).
  `NotClosedEarly` says that nothing else does so.
* Time off added between the slot check and the commit does not stop a booking
  (`availability.ts:157`); overlap of bookings is re-checked, nothing else is.
  `KeepsToSetup` says that only such an edit lets a wrong interval in.
* A cancellation notice names the start that was read before the update or the
  transaction: after a reschedule in between, an old one (`dashboard/actions.ts:321`,
  manage `route.ts:175`).
* The lease delays a repeated message, it does not prevent it: when the terminal
  write is lost, the message goes out again (`worker/processors/notifications.ts:197`).
  `RepeatsExplained` says that this is the only way.
* FAILED rows keep the old time through a reschedule and are still retried (manage
  `route.ts:250`). `StaleWasTried` says that only a row some run had claimed does so.
* A QUEUED row whose job died before its claim, after as many database errors as the
  job has attempts, is re-added for ever under the dead job's id, and no panel counts
  it (`notification-sweep.ts:132`, `queue.ts:35`).
* A second status change drops a queued cancellation notice (`dashboard/actions.ts:291`).
  `NoticeStands` says that nothing else does.
* Two cashiers who decide on the same reads can settle a booking beyond its price or
  leave a negative net (`_actions/payments.ts:118`, `:204`); this is `raced`.
* Voiding a refund whose room another payment has taken settles a booking beyond its
  price without any race (`finance/payments.ts:178`); `SettledWithinPrice` bounds it.
* Two admins who act on one subscription row overwrite each other
  (`admin/actions.ts:69`); this is `raced` of `Subscription`.
* A 409 that arrives after the customer re-opened an earlier step may leave the old
  list on the screen, or, when a service with another list of steps was picked, open
  the day or the contact form with no time chosen and load nothing
  (`booking-widget.tsx:505`, against its comment at 499-501); this is `strayed`.
* A moved visit keeps its old push job until the next pass; inside the lead it gets
  no alert. `RemindersComeRight` says what the passes achieve.

## Proofs

For every number of requests, rows, employees, instants and months that satisfies
`BookingConstants`:

* `TypeInvariant`, `WellFormedInvariant`: types, and a request that works on a
  row works on one that exists with an employee, an interval and a month.
* `NoDoubleBookingInvariant`. Not inductive alone: a move that has locked its row
  publishes an interval that was checked earlier. The invariant adds `Reserved`
  (an id is used by one booking only) and `MovesApart` (the interval an open move
  will publish conflicts with no confirmed row and no other open move), which
  `HoldsConflict` keeps true.
* `QuotaWithinPlanInvariant`: a transaction that has incremented the counter was
  within the limit when it did, and nobody else gets past `CounterLocked` until it
  ends.
* `BookingImplementsCalendar`: each step maps to `Take`, `Move`, `LetGo` or a
  stutter; the guards of `Take` and `Move` come from `NoOverlapInvariant`.
* `KeepsToSetupHolds`, `NotClosedEarlyHolds`, from `CheckedInv`: what a request is about
  to write suits the set-up unless an edit came since its check, and a status change
  that needs the start has read one that has come (the clock does not go back).
  `PublishedBy` names the request behind each interval that enters the calendar.
* `QuotaConservedInvariant`: over all months, slots in use plus slots given back are
  the bookings made plus the moves committed. `LedgerInv` adds that a row that was
  never in the table was charged to no month, so that an insert adds a row to the
  count. Each step moves the four numbers together (`Balance`): only a booking, a
  move and a release change any of them. It is stated over all months because a
  booking may be charged to one month and dated in the next
  (`quota.ts:44`): month by month it is false.
* `CalendarDisjoint`: the abstract calendar is disjoint.

For every number of rows, attempts, stalls, faults and reschedules that satisfies
`DeliveryConstants`, from one inductive invariant, `DeliveryInv`. It is a
conjunction over the rows of a fact about one row, its jobs and its two counts,
since no step of one row touches the jobs or the counts of another:

* `OneSenderInvariant`. `UnderLease` says that a row with a sender is leased, so
  nobody begins a claim on it; `ClaimCurrent` that a claim whose attempts still match
  has no sender beside it, so the compare-and-set lets one through. The lease lapses
  only without a sender: this is where the proof uses the timing assumption above.
* `RepeatsExplainedInvariant`. `Counted` says that all accepted messages are
  unnoticed except one, which is about to be recorded, recorded, or on a row that
  is not sent any more (cancelled meanwhile); a row that may be claimed has none.
* `NoStepBackHolds`, action by action; `TypeInvariant`, from `DeliveryInv`.
* `StaleWasTriedInvariant`, `NoticeStandsHolds`, from a second invariant, `MeantOK`:
  a queued confirmation or reminder says the time that holds, one in another state to
  be sent from was claimed, a notice exists only once the appointment is off, and no run that is about
  to cancel has a notice in hand. Every other action that drops queued rows needs an
  appointment that still stands, or is the status change itself.

`Payments`, for any number of requests, any price and sums: `TypeCorrect`,
`AuditComplete`, `NothingRewritten`. Entries and audit rows change in the same
steps; `OneWriter` is what is missing to make that inductive: an entry exists only once its
request has ended, so nobody writes it twice, one that does not exist is not
voided, and after a deletion there is none. `DeletionStep` is where the void rows
of the log take over from the entries. `NetNeverNegative` and `NeverOversettled` speak of what the live entries add
up to, from `MoneyInv`: while nobody wrote upon reads that were out of date, a
request that has read the present entries writes only what the rule of its kind
lets in, judged on the sums of those entries (`Granted`, `FreshReads`), and a refund
settles nothing of the price (`RefundsPlain`). A write that finds the entries changed
since its reads sets `raced`, which both theorems except.

`Sums` is what these and `QuotaConservedInvariant` rest on. The sum of the community
modules is a recursive function over subsets, and a recursive function is a CHOOSE:
first it is proved that a function which satisfies the recursion exists for every
finite set, then that any two agree. There is no induction rule to cite, so each
proof takes a smallest finite set for which the claim fails (strict inclusion of
finite sets is well-founded) and removes a member of it. `SumTakeOut`, `SumAdd` and
`SumChange` are the forms the proofs of the models use.

`Inbox`, for any number of processes and messages: `TypeCorrect`, `SummaryKeepsUp`,
`SummaryHasMessage`, `OneRetryIsEnough`, `FirstHandleWins`. `InCall` says that a
process at work has a message, one that advances the summary has stored it, and
one on its second attempt will find the thread, since nothing deletes it.

`Subscription`, for any number of admins, payments, plans and lengths: `TypeCorrect`,
`PaidDaysHonoured`, `SweepIsTruthful`. As long as nobody raced, `RowAgrees` (the
period ends where the purchases end, and days are left only while ACTIVE) and
`CallAgrees` (what a request that read the present row will write agrees too).

`Seats`, for any number of requests, masters, branches and limits: `SeatsTypeCorrect`,
`SeatsNeverOversold`, `BranchesNeverOversold`. `Orderly` says that who counts and
writes holds the lock, `Counted` that who is about to write has room; everybody else
only gives places back meanwhile, and sets that shrink do not grow in number.

`Push`, for any number of visits and overlapping passes and any lead, horizon and batch,
from `PushInv`: `TypeCorrect`, `AnnouncedOnce`, `PassesTakeNothing`. `PassOK` says that what a
pass has read of an unmoved visit is still so, and that it removes a job only after a
fault or a move; `OnTime` that the job of an unmoved visit is set for its alert and has
run only after it, so that nothing adds another: an add is for a time to come.

`Widget`, for any catalog, masters, days, party size and number of fetches in flight or lost
answers, from `WidgetInv`: `WidgetTypeOK`, `TimesStayCurrent`, `SlotStaysFit`,
`OneBookingPerVisit`. `StepTable` says where each step stands in the list of steps of
a service. `Fetching`: a fetch that still counts is for the present choice, so there
is one at most, and its answer belongs on the screen. `FormFits`: what lies before
the open step has been chosen (`Filled`), hence whoever reaches the time step makes
a fetch. Picking a time relies on the list being current, and the list being current
relies on nobody coming back to the time step with a choice half cleared: neither
property is inductive without the other. `Listed` (no list was ever asked for an
incomplete choice) holds also after a customer strayed, and keeps what the server is
asked for an appointment. `Alone` (one submission at a time, none after a success)
makes `Counted` inductive: the last booking's answer is on its way, was seen, or is
one of the lost.

`SomeStepOpen` says that the index of the form is one of the list of the service that is
picked, also when a 409 set it by the list of another.

Beside the assumptions that were there, the proofs need that requests, appointments
and months are finitely many (`PaymentConstants`, `BookingConstants`), that `None`
is no month, and that it is no service, master, day, choice or success screen
(`NoneIsNoValue`); `MaxLost` is a number.

Every invariant and action property of a passing run is stated by a theorem. Only
model-checked: the liveness properties (fairness is out of the prover's reach). Only
proved: the types of `Seats`.

## Plan

Done: everything above. Left, in the order of what it would add:

1. Compose `Booking` and `Delivery`: the rows a handler writes with the transaction
   that writes them, so that a crash between commit and enqueue is one step of both.
2. One-time codes and rate limits: read-modify-write of the attempt counter.
3. Sessions: a permission that is withdrawn while a request is in progress.

## Not modelled

* Rate limits, one-time codes, sessions and permissions: decisions before the
  modelled handlers start; they refuse a request and change no modelled row.
* The list of free times (`getAvailableSlots`): a read, and the write path trusts none
  of it. What the widget does with a list is `Widget`'s.
* Of deletions: notification rows, reviews, notes and logins. They go with the rows the
  models have.
* Branches and tenants beyond their number: every statement filters by salon, so
  salons share no modelled row.
* Instagram digest and token renewal: one row each, rewritten by a daily job; the
  content is a report.
* Pages, components and translations other than the widget: no protocol. They are
  most of the source lines, and a model of them would restate their markup.
* Reviews, payroll, exports, guides, onboarding: reports and screens over the rows.
* Scripts (the history import apart) and migrations: run by hand, once.
