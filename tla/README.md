# TurnoFlow in TLA+

TurnoFlow is a scheduling platform: a NestJS API (`apps/api`) that owns a
PostgreSQL database, a Go worker (`apps/worker`) that reacts to domain events
and runs scheduled jobs over the same database, and a Next.js frontend
(`apps/web`). The API writes a change and an outbox row in one transaction; a
publisher polls the outbox and sends the rows to RabbitMQ; the worker consumes
them.

These modules specify the parts where requests, runs of the publisher,
deliveries, jobs and pages meet over shared state. TLC checks them on small
instances, and TLAPS proves the most important properties for every instance.

## Inventory

| Component | State | Operations | What makes it correct |
|---|---|---|---|
| Appointments (`appointments.service.ts`) | `appointments`, counters of `customers`, outbox rows | book, cancel, set status, reschedule | no staff member is booked twice; the newest event tells the row; no booking of the API is missing from a total |
| Availability (`availability.ts`, `time.ts`) | none | slots of a day from rules, exceptions, busy intervals and the clock | the slots offered are those that are open, to come and free; what is offered can be taken |
| Outbox publisher (`event-publisher.service.ts`) | `event_outbox`, a connection | poll, publish, confirm, mark | nothing is marked as published that was not accepted; every row settles |
| Worker consumer (`runner.go`, `RunOnce`) | queue, `processed_events`, deliveries in goroutines | deliver, insert, handle, commit, ack, nack | an event takes effect at most once and is never lost |
| Waitlist (`appointments.service.ts`, `service.go`) | `waitlist_entries`, `waitlist_offers` | join, offer, accept, reject, expire, cancel | one live offer per entry; an offer ends once; an entry is booked once |
| Recurring series (`recurring-series.service.ts`, `service.go`) | series and their appointments | create, update, cancel, advance | the dates shown were booked; none is skipped; the maximum is passed by one at most |
| Reminders (worker) | `notifications` | schedule, claim, send, record, retry | a schedule is mailed at most as often as it has attempts; a due one is sent |
| Calendar sync (`calendar.service.ts`, worker) | connections, syncs, Google | connect, disconnect, queue, push | Google has the appointment once, as it is |
| Metrics and dashboard (worker, `dashboard.service.ts`) | `business_metrics_daily`, the total of a customer | count a day; month, week, panels | a row counts what the day holds; the panels agree |
| Customers (`customers.service.ts`) | `customers` | create, import, update, opt out | whoever has opted out stays out |
| Attendance and risk (worker) | risk and deposit columns | recompute, alert | the risk follows the attendance |
| Reactivation (worker) | campaigns, unsubscribe tokens | claim, send, store the token | one mail per cooldown, none after the opt-out |
| Reviews, portal, deposits (`reviews`, `customer-portal`, `payments`) | one-time links, payments | invite, submit, exchange, confirm, reject, void | a link works once; what is decided stays decided |
| Authentication (`auth.service.ts`) | `refresh_tokens`, accounts | register, log in, refresh, log out, accept an invitation | one token per session; an ended session stays ended |
| Members and roles (`businesses.service.ts`, guards) | `business_members`, staff rows | found, invite, change roles, deactivate | the founder stays; rows of a member agree |
| Services, staff, rules (`businesses.service.ts`) | services, staff, rules, exceptions, templates | create, update, assign, delete, preview | nothing crosses between businesses; one rule a day |
| Onboarding (`onboarding.service.ts`) | the progress document | merge, report, complete | completed only after it was ready; no progress is lost |
| Web frontend (`apps/web`) | what each page shows and has asked for | book, move, cancel, edit, sign in and out | what is sent is what is shown; what is shown is current and belongs together |
| Audit, health, rate limits, senders, codecs, configuration | | I/O, libraries | not modelled (see below) |

How they interact: handlers of the API call each other within a transaction
(the waitlist and the portal book through the appointments service); the API
reaches the worker by outbox rows only; the worker's handlers and jobs write
the same tables and their own outbox rows; the pages of the frontend reach the
API by requests whose answers come in any order. What concurrent parties share
is guarded by constraints of the database: the exclusion of overlapping active
appointments, unique keys, conditional updates, row and advisory locks.

What is hard: requests in flight together, whose checks are older than their
writes; overlapping runs of the publisher and of jobs; messages that are
duplicated, delivered again or refused for ever; handlers of one appointment
in any order; crashes between a commit and an acknowledgement, or between a
mail and its record; retries and limits of attempts; answers that arrive after
the page has moved on. `PROJECT.json` lists each such hazard at its line.

## Modules

| Module | Models | Uses |
|---|---|---|
| `Calendar` | abstract: slots held one at a time | |
| `Appointments` | the handlers of appointments | implements `Calendar` |
| `Zone` | the conversion of local times | |
| `Hours` | the calculation of slots and its callers | `Zone` |
| `Slots` | appointments and hours together | `Appointments`, `Hours` |
| `Outbox` | the publisher | |
| `Consumer` | the worker's consumer and `RunOnce` | |
| `Effects` | abstract: committed events take effect at most once | |
| `Delivery` | the event backbone | `Outbox`, `Consumer`; implements `Effects` |
| `Offers` | abstract: an offer is made once and ends once | |
| `Waitlist` | entries, offers, answers, matching, expiry | implements `Offers` |
| `Dates` | the arithmetic of days and months | |
| `Recurring` | series: the API's handlers and the worker's job | `Dates` |
| `Followups` | the events of an appointment: reminder, calendar, counts | |
| `Metrics` | the rows of days and the dashboard's panels | |
| `Customers` | risk, campaigns, reviews, deposits, portal links | |
| `Team` | accounts, sessions, members | |
| `Catalog` | services, staff, rules, templates, onboarding | |
| `Site` | the agenda as the pages see it | |
| `Booking`, `Links`, `Dashboard`, `Landing` | one page each | `Site` |
| `Web` | the pages of several people | the four pages |
| `MC*` | small instances for TLC | |
| `*_proofs` | theorems and their proofs | |

Each handler is an action per await: reads and checks are one step, and the
statement or transaction that writes is another, whose guards are only those
the statement or a constraint evaluates again. Where the code writes by an
identifier alone, so does the action. PostgreSQL runs the transactions at
READ COMMITTED.

### Appointments, Hours, Slots

`appointment`, `customer` and `newest` are the rows, the counters and the newest
outbox row about each appointment; `request` is what each request in flight has
read. A handler is `BookCheck`/`BookCommit`, `CancelCheck`/`CancelCommit`,
`RescheduleCheck`/`RescheduleCommit`, and three steps for a status change, whose
two reads are separate queries. Only the exclusion constraint
(`ExclusionHolds`) looks at the rows again at the commit. `Abort` is a rolled back
transaction or a dead request.

`Hours` is `calculateAvailability`: windows of rules and extra openings, minus
blocked hours and busy slots, cut into starts on the grid, each turned into an
instant by `Zone`; and the three callers that select a slot again from its
start. `Slots` checks it, at every state of the bookings, against the slots that
are open, to come and free: `Open` is what the calculation gives
with nothing booked (`OpenedAssumption`). Three assumptions bound the claim: rules
and exceptions begin and end within a day (`HoursAssumption`), as the code
validates; setting the clock back does not bring a date back (`DatesAssumption`),
which it would if the clock went back across midnight; and the
appointments begin on days with one offset (`PlainAssumption`), since on the day the
clock changes the code's slots are not exact (see the hazard at
`availability.ts:77`).

`Appointments_slots`: two appointments, two staff members, services of one and
two units, two requests in flight. Every hazard here is a pair (a stale check
and a commit in between), so two requests are enough; neighbouring starts give
appointments that clash, touch and leave gaps. The clock of the instance jumps
at midnight, and its rules, extra opening and blocked hours overlap partly, so
that each branch of the calculation matters. `MaxTime` only closes slots in the
past; `MaxCounter` stops status changes, not bookings.

### Outbox

`run` is what each overlapping run of `publishPending` is doing: it reads a batch
(the oldest due rows), opens a channel, and publishes, confirms and updates the
events in order; without a channel it fails them all. `BrokerDown` severs all
channels, `UpdateFails` is the database refusing an update, `Crash` the death of
the API. `MarkFailed` updates by the id alone, so a run may mark as failed what
another has published; the row is then sent again.

`Outbox_runs`: two runs on a batch of two, which is what it takes to send and
update in both orders; `MaxAttempts` is 2 instead of 5, so that events run out of
attempts. Fairness: the interval keeps starting runs, a run goes on while the
process lives, outages end. `MaxFaults` bounds the faults.

### Consumer, Delivery, Effects

`queue`, `worker` (goroutines with the deliveries they hold), `processed`,
`effects`. `RunOnce` is `Insert` or `Skip`, then `Commit`; `Claimed` is PostgreSQL's
wait of an insert on the uncommitted insert of the same key. `Disconnect` takes
the deliveries from goroutines that go on with their handlers: a redelivered
copy and the original are then handled together. An event of `Malformed` has an
envelope that decodes and a payload that its handler does not decode; it is
refused with requeue, for ever.

`Delivery` instantiates the publisher and the consumer and joins them: `Route` is
a publication and, if the queue is bound, an arrival; an outage severs both
sides. `ImplementsEffects` maps `committed` to the events whose transaction
committed and `applied` to `effects`. `PublishedWasSent` of the publisher is checked
here, where an outage severs both sides.

`Delivery_backbone`: two runs, two goroutines, one event and a malformed one, a
fault on either side. `MaxCopies` is above the copies that the faults of the
instance can make, so it never stops a publication. `WorkerFirst` says that the
first event is committed after the worker has declared its queue. Fairness:
weak for runs, goroutines, the end of outages and the worker's start; strong
for taking each event, because the prefetch lets the worker hold more messages
than the malformed one occupies. Without it the malformed message could be the
only one taken.

### Waitlist, Offers

`entry`, `offer` and `opportunity` are the tables and the unhandled events that
announce a released slot. A handler is `FindCandidate`, which locks the entry and
skips locked ones, then `CreateOffer`; `HandlerFails` releases the lock. An answer
is `ReadOffer`, then `Accept` or `Reject`, whose conditional update looks again.
`Accept` books the entry whatever its status: one that was cancelled meanwhile is
booked.

`Waitlist_offers`: one slot that is released, offered and booked again, two
entries that want it, two handlers, two answers. Fairness: deadlines pass and
the scheduler runs the expiry job; nobody has to answer.

### Recurring

`Dates` is the arithmetic of an interval, of days (a week is seven) or of
months, over a calendar that is a constant (`MonthStart`). The code has it three
times, and not alike: the API adds months with `setUTCMonth` and the dashboard
takes them away with it (`Shifted`), which goes on into the month after one that
lacks the day; the SQL of the worker stops at the last day (`After`).

`CreateSeries` books all occurrences in one transaction. `UpdateCheck`/`UpdateCommit`
and `CancelCheck`/`CancelFind`/`CancelCommit` are the other handlers, with reads
before the writes. A cancellation that has found appointments ahead is always
refused by the database and leaves nothing (`CancelRefused`), see Findings. The
job is `Claim` (all due series, one transaction), then `Look` and `Advance` for each;
`AdvanceRefused` is the exclusion constraint refusing the insert, `QueryFails`
another error: the job goes on with the next series. A row keeps the date it was
booked for (`due`) beside the one it is at, because an occurrence can be moved by
itself (`RescheduleOne`). `most` and `late` are history: the greatest maximum a series
has had, and the updates written after it had ended.

`Recurring_series`: one series and one run of the job at a time, as Compose
starts one worker whose scheduler is sequential. With two runs, the second
reports a conflict with what the first has booked and skips the next date, for
the claim marks nothing; the theorems say which properties need the assumption.
The calendar has months of two days, every third of a single one (`TwoTwoOne`), and
series begin on the second day, which a month may lack, or the first, which
none does. Series of one and two occurrences and a notice of two days let the job
run ahead of the clock, as far as the calendar goes. `MaxLate` bounds the updates of
a series that has ended. Other intervals and calendars are those the theorems
cover. Fairness: the job is run and goes on; the clock may stop, so that the
passing of time does not excuse it.

`ShownWereBooked` and `NoneIsSkipped` are claimed of regular series (`IsRegular`): by
days, or by months on a day that each month has. Of the others the code shows
wrong dates (see Findings).

### Followups

The events of one appointment, several handled at a time, each in one
transaction: the reminder's row is written and held, the appointment read, the
calendar lock taken, Google called, the day counted, and all of it committed.
Google does not roll back. Of two handlers that wait for each other's locks the
deadlock detector ends one (`DeadlockBroken`). The reminder job claims (`Claim`),
sends and records in steps of its own, and a claim is given up after five
minutes.

`Followups_events`: up to two changes or faults, which is a pair of handlers, or
a handler and a retry, or a rescheduling while a sender is at work. Fairness is
one weak condition on `Progress` as a whole: no step of it repeats for ever, so
nothing stronger is needed. `InOrderAgrees` says what holds when handlers do not
overlap: the calendar and the counts are as the appointment is, and the reminder
is for its slot. It says no more of the reminder, for a cancellation leaves its
row pending and the reminder is mailed. That the calendar is not right when
handlers overlap is the finding `Followups_calendar`.

### Metrics

A row of a day is what it counts: appointments with the status they are counted
as. `ReadDay`, `WriteDay` and `CommitDay` are the handler, `AbortDay` its rollback;
the panels are operators over rows or appointments, as the queries are. `total`
is the counter that the customers page shows and filters by (`CustomerPage`,
`ListedAsRecurring`): the API raises it with each booking (`Book`), the worker does
not when it books for a series (`BookRecurring`), so `PanelsAgree` claims that the
page agrees with the other panels once those bookings (`uncounted`) are added.

`Metrics_days`: three appointments of one customer, two of them alike, so that the
worker can book one after the other, on two days of a week of which the second
is of the month, four changes and a rollback. One appointment can then be in the
month, one outside of it, and one not counted in the total. `MCSymmetry`
exchanges the two that are alike, of which nothing else is told apart. The lists of
the panels are cut to `TopShown` and `FavouritesShown` (five and three in the code);
in the instance two services fit on the one and not on the other.

### Customers

One customer: `HandleEvent` (the risk, from an attendance read without a lock;
the invitation to review), `Campaign` (claim, mail, log, token), `Check`/`Write` of
the requests that close something, and the links of the portal.
`Customers_mails`: two appointments, up to four changes and faults together, two
runs and two requests: a pair for each race. `PastMissed` and `PastCame` put the
customer beside the boundary of each level of risk.

### Team

`token` is the table of refresh tokens with their family, `member` the rows of
members; each await of registration, log in, `refresh`, `logout`, invitation,
acceptance, change of role and deactivation is a step, and `Fail` ends a request
anywhere. `Team_members`: two people, one business, two rows, three tokens and
two requests: a family with a replaced token and its successor, and two owners
who act on one another. `Observed` limits who uses sessions, not who manages.

### Catalog

`SetUp` holds the handlers that are one statement, `Handle` those that check
rules, or the progress, before they write. `Offered` and `Preview` are what the
public and the owner are shown. `Catalog_setup`: two businesses, as tenants
must not mix; two rules and two requests; four writes reach each state of the
setup and one pair of overlapping updates.

### Web

`Site` holds the agenda and the open days, `Booking` the page that books, `Links`
the page of one appointment and the portal, `Dashboard` the owner's tab (session,
refreshes, edits, and the three panels that look something up), `Landing` the
public page with its owner mode. A request is a record in a set until its answer
is used, so answers come in any order, after the page has moved on or never
(`Lose`). `Web_pages` explores one budget of steps at a time (`MCBudgets`): each
page alone, up to five steps of its user; each with a lost answer; and the
pairs that meet, a customer and an owner in the agenda, and the dashboard and
the public page in the token of the browser. Two of anything in flight is what
each race takes; the budget for it is three.

## Runs

| Run | Shows |
|---|---|
| `Appointments_slots` | no double booking; the newest event tells the row; offers are exact; refinement of `Calendar` |
| `Outbox_runs` | each event settles, however runs overlap |
| `Delivery_backbone` | published implies accepted; no copy is lost; refinement of `Effects`; each event takes effect or is given up |
| `Waitlist_offers` | one live offer per entry; booked once; every offer ends; refinement of `Offers` |
| `Recurring_series` | dates shown of regular series were booked; no date of theirs is skipped; the maximum is kept but for one; a due one is decided |
| `Followups_events` | repeats are bounded; handlers in order leave the calendar and the counts as the appointment is, and a reminder for its slot; events are handled and reminders sent |
| `Followups_calendar` | violated: see Findings |
| `Metrics_days` | rows count what the days hold; the panels agree, but for what the stored totals miss |
| `Customers_mails` | risk follows attendance; one letter per cooldown; invitations work; what is settled stays |
| `Team_members` | one token per session; ended sessions stay ended; founders stay; rows of members agree |
| `Catalog_setup` | tenants are separate; one rule a day; the onboarding is true; edits are kept |
| `Web_pages` | sent as shown; customers see the truth; edits are shown; what is shown belongs together; the public page is current |

Several properties leave out a window that the code leaves open, and say so by a
history variable: `forked` (two refreshes replaced one token), `outdated` (rules or
progress written by what was read before another write), `settled` and `alone`
(`Customers`), `overlapped`, `departed` and `reopened` (`Metrics`), `early`, `older`,
`crossed`, `late` and `hurried` (pages). Everything outside of the window is
claimed, and the hazards in `PROJECT.json` name the window.

## Proofs

| Module | Theorems | For |
|---|---|---|
| `Bookings_proofs` | `TypeCorrect`, `NeverDoubleBooked`, `OutboxTellsTruth`, `TotalsAreExact`, `AppointmentsImplementCalendar` | any appointments, staff, customers, requests |
| | `LocalTimesAreKept`, `OfferedCanBeTaken`, `OfferedCanBeSelected`, `OffersStayExact` | any business, rules, exceptions, bookings and clock |
| | `PagesSendWhatTheyShow`, `CustomersShown`, `AnnouncedEditsAreShown`, `DashboardShowsOneAccount`, `PublicPageIsCurrent` | any days, slots, budgets of steps and faults, with any number of requests in flight |
| `Worker_proofs` | `PublishedOnlyIfSent`, `FewExtraAttempts` | any finite set of runs, batch size, limit, faults |
| | `HandledAtMostOnce`, `ArrivedIsNotLost` | any finite set of goroutines, copies, faults |
| | `BackboneLosesNothing`, `BackboneMarksWhatItSent`, `BackboneImplementsEffects` | all of these together |
| | `RowsCountTheDay`, `PanelsShowTheSame` | any finite set of appointments, staff and customers, any services, days, handlers and lengths of lists |
| `Waitlist_proofs` | `LiveOffersAreUnique`, `EntriesAreBookedOnce`, `WaitlistImplementsOffers` | any entries, appointments, handlers, answers |
| `Recurring_proofs` | `DatesShownWereBooked`, `NoDateIsSkipped`, `MaximumIsKept` | any calendar, series, intervals of days and months, requests, faults |
| `Followups_proofs` | `RepeatsStayBounded`, `OrderedHandlersAgree` | any slots, finite set of runs of the job, attempts, changes, faults |
| `Customers_proofs` | `RiskFollows`, `OneLetterEach`, `InvitationsKeepWorking`, `SettledThingsStay` | any appointments, campaigns, requests, faults |
| `Catalog_proofs` | `OneRuleEachDay`, `SeparateTenants`, `TrueOnboarding`, `KeptEdits` | any businesses, staff, services, rules, requests |
| `Team_proofs` | `SessionsHaveOneToken`, `SessionsEndForGood`, `FoundersStay`, `MembersStayInAgreement` | any people, businesses, rows, tokens, requests |

Assumptions are the named ASSUMEs of the modules: types of the constants, and
finiteness of sets that are counted. The theorems of `Recurring_proofs` assume
`OneRun` besides, that the job has one run at a time.

*Appointments.* `NoDoubleBooking` is inductive together with `TypeOK`: the
exclusion constraint is evaluated at each write, so what the checks had read
does not matter. The refinement rests on it: two active appointments never hold
the same slot, so a row taken, given back or moved changes the set of slots by
exactly that slot.

*Hours.* `Zoned` looks the offset up twice, which is what makes a local time come
back on either side of a change (`LocalTimesAreKept`). A slot on the list is then
found again from its start alone, if the clock shows every time of the day. On
the days it does not, the list has slots that cannot be taken. `OffersAreExact`
compares the list with the slots that are open with nothing booked
(`OpenIsRaw`), to come and free. What could separate them is how the calculation
gets there: it drops what is past by comparing dates before times, which is right
because dates never go back (`DatesAreOrdered`), and it is told only of the
appointments that meet the local day, which leaves out nobody who is busy in a
slot, because on a plain day (`IsPlainDay`) every slot ends before the day does
(`BusyIsTold`).

*Publisher.* `PublishedWasSent` needs that a run which waits for a confirmation has
sent its current event (`RunsHonest`). The bound of attempts needs a count:
attempts so far plus the runs that hold the row stay below
`MaxAttempts + |Runs|`, because each holder adds at most one. Each step of
`Delivery` is a step of the publisher or leaves it alone (`PublisherWithin`).

*Consumer and backbone.* `EffectAtMostOnce` needs that two goroutines never handle
one event, and that an event being handled is not yet processed (`Exclusive`).
Each step of `Delivery` is a step of the consumer or leaves the consumer alone,
so its invariants carry over; what they lack is where events come from. `Backed`
says it: whatever a run, the queue or a goroutine holds was committed, or is
malformed.

*Waitlist.* `OneLiveOffer` needs `Locks`: what a handler found stays so under its
lock. `BookedOnce` needs `LiveEntries`: a live offer never belongs to a booked
entry. The refinement rests on both, one lemma per kind of step.

*Recurring.* The schedule needs `Claimed`: with one run of the job, what it holds is
the series' own next date, and is dealt with once. Per series the invariant is
`InStep`: if the series is regular, the next date is some number of intervals
after the first (`Until`), the dates decided are those before it, and without a
conflict they are those of the rows in their order. On regular dates the two
additions are the same (`AfterIsShifted`), walking back undoes walking on
(`ShiftedTwice`), and a later number of intervals is a later date (`ShiftedGrows`),
so that the days on the schedule are those and no others (`OnScheduleIsShifted`).
The maximum needs `BoundOf`, that a series which has not ended is not past it, and
that what the job holds may have one more (`ClaimedMayGrow`). `Begun` says that
requests and runs deal with series that exist.

*Team.* Sessions and members are independent. For the sessions, `Single` says
that a family has one token that works while nothing has overlapped, and
`Families` that a family is named by the token it began with. For the members,
`Founders` says that the row of a founder is an active owner's, and `Aims` what
each request may still assume of the row it writes by its identifier, above all
that it is not a founder's.

*Followups.* Two facts carry the rest: `StepsFit`, what the step of a handler says
of its row, and `OneLock`, that the calendar lock of a connection is held once,
also while the deadlock detector hands it over. The mails of a schedule are
bounded by its attempts because those about to go are counted in (`FewMails`):
a claim counts before it sends, and a schedule that has been replaced is not
claimed again. For the events in Google, `FewExtra` says of the identifier that
matters, that of the row or that of the one handler which has yet to write it,
that all others in Google are due to calls no row tells of; identifiers are new
(`IdsAreNew`), so forgetting the right one costs one at most. `InOrderAgrees` needs
`Orderly`: events before the one at work are done and those after it wait
(`OneByOne`), the last event tells of the appointment as it is (`EventsTell`), a
handler past the call has left one event in Google (`HandlersTell`), and what is
done shows in the slot of the reminder, the calendar and the day (`ResultsTell`).

*Customers.* The handler that has written the row of the customer holds it until it
commits (`RowIsHeld`), so while handlers do not overlap, an event waits, or the
one at work has read what the attendance still is, or the risk is right
(`WillFit`). In one cooldown there is one claim, and a letter means that it is
used up (`OneClaim`). Links are numbered, what a handler is about to store was
mailed for an appointment without a review (`LinksAreNew`), and a review needs a
link (`ReviewedByLink`). While no two requests work on one thing together, what
each has found open is still open (`FoundIsSo`).

*Catalog.* A request that is not outdated writes what it has checked
(`RulesAreChecked`), names only what belongs to its business (`NamesItsOwn`), and
stores progress that was read (`ProgressIsRead`).

*Metrics.* An appointment of a day is still to be counted by an event that waits,
is being counted right by a handler, or is counted right in the row, which
nobody is about to write (`CountedFor`). That stays so while no two handlers of a
day overlap (`OneHandler`), and once no event is left only the row remains. For
the panels, a sum whose terms count what maps to each index is the number of
what maps to any (`SumCounts`): the sums of the community modules are recursive
functions inside, so the proof gives their value in closed form and refutes a
smallest set on which they would differ. The rows of a month then add up to its
appointments, and so do its staff, services and customers. A stored total is the
number of what the API booked (`TotalsOK`); it is not zero where it is short,
because the worker books for a series only after the API has, so the page never
falls back to counting.

*Web.* Each page has an invariant that says, of every request in flight, what it
asked for and whether the page still waits for it (`BookingOK`, `MoveFormOK`,
`FormOK`, `LinkOK`, `PortalOK`, `EditsOK`, `OwnOK`, `CardOK`, `LandingOK`). A list of
slots is of the day shown, or a live request for that day is under way, or the
window is open. The dashboard has seen all it was told of (`told <= shown.at`), or
a refresh or an edit that will bring it is under way, or an error is shown
(`EditsOK`). The details of a customer are of the one selected, or their own are
under way (`CardOK`). What the other pages do reaches a page through the agenda,
its versions and the token stored in the browser only (`SiteStep`), so that each
page is proved by itself and stays as it is while the others move (the lemmas
named `...Elsewhere`).

Two proofs of this kind found the model wrong. The series form of the
dashboard was emptied by the answer to an edit whose form had been left; the
code's promise then sets the state of a component that is gone, so edits carry
whether their form still waits (`waits`). A list that is refused closes the
portal, so nobody waits for the requests that were under way (`Deserted`).

Only model-checked: liveness (`Settles`, `EffectOrGivenUp`, `EveryOfferEnds`,
`DueIsDecided`, `EveryEventIsHandled`, `ReminderIsSent`), which is out of the
prover's reach. Every invariant that a run checks is proved.

## Findings

`Followups_calendar` refutes the README's "keeping connected calendars in sync as
appointments are booked, rescheduled, or cancelled": the worker reads the
appointment before it takes the calendar lock, and an upsert does not look at
the status, so the handler that comes later writes an old slot, or puts a
cancelled appointment back into Google, and nothing corrects it.

The models show more that contradicts what the repository says of itself, or
that its tests do not reach. The properties take these as they are, and say so:

- README.md:170 says that invalid payloads are rejected without requeue and go to
  the dead-letter queue. That is so of bodies that do not decode as an event; a
  payload that its handler does not decode is refused with requeue, for ever
  (`Malformed`; runner.go:196).
- A series with appointments ahead can never be cancelled: the transaction
  increments `cancelledAppointments` (recurring-series.service.ts:298-304), which the
  model `Customer` (schema.prisma:385-418) does not have, so Prisma refuses it and all
  is rolled back. The test (recurring-series.service.spec.ts:88-90) expects it to
  work, against a mock.
- The dashboard works the dates of a series out backwards, since
  "nextOccurrenceAt is exactly 1 interval after the last created occurrence"
  (dashboard-recurring.tsx:62-63). That is false after a conflict, which moves the
  next date on and creates nothing, and of a monthly series on a day that some
  month lacks, for which the API, the worker and the page add and take away
  months in ways that do not undo each other: right after it was created, a series
  from January 31st shows dates that were not booked. An occurrence that was
  moved by itself is shown at its old date.
- A series may have one occurrence more than its maximum: the API books as many as
  the maximum says and leaves the series active, with a notice of zero, with which
  it is never due; once an update sets a notice, the job books another before it
  completes the series. An update in flight makes a series that has ended active again, and
  then it has one more.
- The reminder of a cancelled appointment stays pending and is mailed: neither the
  handlers nor the claim (repository.go:229) look at the status.
- The customers page shows, and its filter for recurring customers reads, a
  stored total (customers.service.ts:489) which the worker does not raise when it
  books for a series (repository.go:1115-1129).
- Two status changes of one customer overlap and one update of a counter is
  lost; a cancellation or rescheduling takes effect on an appointment whose
  status was set since its check.
- A series is due only until its date, so a long outage ends it.
- Events published before the worker has declared its queue for the first time
  are dropped by the exchange.
- A setup may be complete although nobody can be booked, since rules of inactive
  professionals count.

## Not modelled

- Rate limiters: the windows are kept by a library in Redis. Audit, health,
  correlation: logs without state of the domain.
- Mail and Google over HTTP: the outcome of a call is a choice. Templates and
  texts are left out.
- Cryptography, codecs and passwords: tokens are identities that are equal or
  not. Configuration: read once; the values that matter are constants.
- Bodies of messages that do not decode, which are dead-lettered at once, and the
  graceful shutdown of the worker, which a crash subsumes.
- Amounts, averages and revenue: sums over rows that are modelled.
- OAuth and the renewal of Google's tokens.
- Views that only show what was fetched and pages with a single form.

## Plan

1. The list of notifications and of risky customers on the dashboard.
2. The expiry and renewal of Google's tokens as part of `Followups`.
3. The day the clock changes, on which slots are not exact, as bounds on how far
   a slot may be off.
