----------------------------- MODULE Followups ------------------------------
(***************************************************************************)
(* What follows from the events of one appointment: its reminder, its      *)
(* event in the Google calendar of the business and the daily metrics.     *)
(*                                                                         *)
(* The worker handles each event in one transaction, several of them at a  *)
(* time.  A handler writes the reminder and holds its row, reads the       *)
(* appointment and then takes the calendar lock of the appointment, calls  *)
(* Google, counts the day, and commits.  Google does not roll back.  A job *)
(* of the scheduler claims reminders that are due, sends them, and records *)
(* the result in queries of their own.                                     *)
(*                                                                         *)
(* Slots stay in the future, each on a day of its own, on which the        *)
(* business has nothing else.  Of the time to the next attempt of a        *)
(* reminder it only matters whether it has passed.                         *)
(***************************************************************************)
EXTENDS Integers, Sequences, FiniteSets

CONSTANTS
  Slots,        \* the slots of the appointment
  NoSlot,       \* none of them
  First,        \* the slot it is booked for
  Senders,      \* runs of the reminder job that may overlap
  MaxAttempts,  \* MAX_NOTIFICATION_ATTEMPTS
  MaxSteps      \* bound on changes of the appointment and the connection, and
                \* on errors, crashes and lost replies, together

ASSUME SlotsAssumption == First \in Slots /\ NoSlot \notin Slots
ASSUME AttemptsAssumption == MaxAttempts \in Nat \ {0}
ASSUME StepsAssumption == MaxSteps \in Nat
ASSUME SendersAssumption == IsFiniteSet(Senders)

VARIABLES
  appointment,  \* its status and slot
  connection,   \* the connection to Google: its number and status
  queueing,     \* the slot a request to synchronise has read, if any
  events,       \* the events of the appointment and the state of each handler
  reminder,     \* the row of its reminder
  sender,       \* what each run of the reminder job has claimed
  mails,        \* reminders sent for each schedule of the row
  google,       \* the appointment's events in Google
  created,      \* events ever created in Google
  unrecorded,   \* calls that Google has answered and no row tells of
  sync,         \* the row of the appointment and the connection
  metrics,      \* what the row of each day counts the appointment as
  inOrder,      \* handlers did not overlap, and nothing failed
  changes, faults

base == <<appointment, connection, queueing>>
job == <<sender, mails>>
calendar == <<google, created, unrecorded, sync>>
vars == <<base, events, reminder, job, calendar, metrics, inOrder, changes,
          faults>>

None == "none"
NoTarget == [to |-> 0, slot |-> NoSlot]
NoRecord == [to |-> 0, status |-> None, id |-> 0]
ToMark == {"pending", "failed"}

\* An event that no handler works on.
Event(type, slot) ==
  [type |-> type, slot |-> slot, step |-> "waiting", upserts |-> FALSE,
   target |-> NoTarget, record |-> NoRecord, denied |-> FALSE]

Waiting(e) == Event(e.type, e.slot)

Idle == [step |-> "idle"]

Working(i) == events[i].step \notin {"waiting", "done"}

Active == appointment.status = "active"
-----------------------------------------------------------------------------
Init ==
  /\ appointment = [status |-> "active", slot |-> First]
  /\ connection = [id |-> 1, status |-> "connected"]
  /\ queueing = NoSlot
  /\ events = <<Event("Booked", First)>>
  /\ reminder = [status |-> None, slot |-> First, next |-> "never",
                 attempts |-> 0, schedule |-> 0]
  /\ sender = [s \in Senders |-> Idle]
  /\ mails = <<>>
  /\ google = {} /\ created = 0 /\ unrecorded = 0
  /\ sync = [status |-> None, id |-> 0]
  /\ metrics = [t \in Slots |-> None]
  /\ inOrder = TRUE
  /\ changes = 0 /\ faults = 0

\* next_attempt_at passes.
Tick ==
  /\ reminder.next = "later"
  /\ reminder' = [reminder EXCEPT !.next = "passed"]
  /\ UNCHANGED <<base, events, job, calendar, metrics, inOrder, changes,
                 faults>>
-----------------------------------------------------------------------------
(* The API                                                                 *)

Change == changes + faults < MaxSteps /\ changes' = changes + 1

Reschedule(t) ==
  /\ Change
  /\ Active
  /\ t # appointment.slot
  /\ appointment' = [appointment EXCEPT !.slot = t]
  /\ events' = Append(events, Event("Rescheduled", t))
  /\ UNCHANGED <<connection, queueing, reminder, job, calendar, metrics,
                 inOrder, faults>>

Cancel ==
  /\ Change
  /\ Active
  /\ appointment' = [appointment EXCEPT !.status = "cancelled"]
  /\ events' = Append(events, Event("Cancelled", appointment.slot))
  /\ UNCHANGED <<connection, queueing, reminder, job, calendar, metrics,
                 inOrder, faults>>

\* The rows of the connection go with it; a handler that has inserted one
\* keeps the connection until it commits.
Disconnect ==
  /\ Change
  /\ connection.status # "absent"
  /\ \A i \in DOMAIN events : events[i].record = NoRecord
  /\ connection' = [connection EXCEPT !.status = "absent"]
  /\ sync' = [status |-> None, id |-> 0]
  /\ inOrder' = FALSE
  /\ UNCHANGED <<appointment, queueing, events, reminder, job, google,
                 created, unrecorded, metrics, faults>>

\* The appointment is read before the transaction that queues its event.
ReadFuture ==
  queueing' = IF Active THEN appointment.slot ELSE NoSlot

Reconnect ==
  /\ Change
  /\ queueing = NoSlot
  /\ connection.status # "connected"
  /\ connection' = [id |-> IF connection.status = "absent"
                           THEN connection.id + 1 ELSE connection.id,
                    status |-> "connected"]
  /\ ReadFuture
  /\ inOrder' = FALSE
  /\ UNCHANGED <<appointment, events, reminder, job, calendar, metrics,
                 faults>>

SyncFuture ==
  /\ Change
  /\ queueing = NoSlot
  /\ connection.status = "connected"
  /\ ReadFuture
  /\ UNCHANGED <<appointment, connection, events, reminder, job, calendar,
                 metrics, inOrder, faults>>

QueueFuture ==
  /\ queueing # NoSlot
  /\ events' = Append(events, Event("Booked", queueing))
  /\ queueing' = NoSlot
  /\ inOrder' = (inOrder /\ queueing = appointment.slot /\ Active)
  /\ UNCHANGED <<appointment, connection, reminder, job, calendar,
                 metrics, changes, faults>>
-----------------------------------------------------------------------------
(* The handlers of the worker                                              *)

Fault == changes + faults < MaxSteps /\ faults' = faults + 1

\* A handler begins with its first query.
AsFirst(i) ==
  inOrder' = (inOrder /\ (events[i].step = "waiting" =>
                \A j \in DOMAIN events :
                  IF j < i THEN events[j].step = "done"
                  ELSE j = i \/ ~Working(j)))

IsAt(i, step, types) ==
  \/ events[i].step = step
  \/ events[i].step = "waiting" /\ events[i].type \in types

RowIsFree == \A i \in DOMAIN events : ~events[i].upserts

HasLock(i) == events[i].record # NoRecord \/ events[i].step = "locked"

LockIsFree(c) ==
  \A i \in DOMAIN events : HasLock(i) => events[i].target.to # c

\* The row of the reminder is written, and locked until the commit.
Remind(i) ==
  /\ IsAt(i, "remind", {"Booked"})
  /\ RowIsFree
  /\ AsFirst(i)
  /\ events' = [events EXCEPT
       ![i].upserts = TRUE,
       ![i].step = IF events[i].type = "Booked" THEN "read" ELSE "commit"]
  /\ UNCHANGED <<base, reminder, job, calendar, metrics, changes, faults>>

AfterCall(e) == IF e.type = "Rescheduled" THEN "remind" ELSE "commit"

\* The appointment is read before the lock is taken.
ReadTarget(i) ==
  /\ IsAt(i, "read", {"Rescheduled", "Cancelled"})
  /\ AsFirst(i)
  /\ events' = [events EXCEPT ![i] =
       IF connection.status = "connected"
       THEN [@ EXCEPT !.step = "call",
                      !.target = [slot |-> appointment.slot,
                                  to |-> connection.id]]
       ELSE [@ EXCEPT !.step = AfterCall(events[i])]]
  /\ UNCHANGED <<base, reminder, job, calendar, metrics, changes, faults>>

\* What a call leaves in Google, the number of events created, and the
\* identifier that is recorded.
Outcome(left, new, id) ==
  [google |-> left, created |-> created + new, id |-> id]

Create(slot) ==
  Outcome(google \cup {[id |-> created + 1, slot |-> slot]}, 1, created + 1)

\* Mutant of Listed: events are not looked for.
ListedNone == {}

Listed == {e.id : e \in google}

UpdateEvent(id, slot) == Outcome({[id |-> id, slot |-> slot]}, 0, id)

\* An unknown event is looked for; a known one that is gone is created again.
\* The others that are found are deleted.
UpsertEvent(id, slot) ==
  IF id = 0
  THEN IF Listed = {} THEN {Create(slot)}
       ELSE {UpdateEvent(k, slot) : k \in Listed}
  ELSE IF id \in {e.id : e \in google} THEN {UpdateEvent(id, slot)}
       ELSE {Create(slot)}

\* An unknown event is not looked for.
DeleteEvent(id) == {Outcome({e \in google : e.id # id}, 0, id)}

Called(e, id) ==
  IF e.type = "Cancelled" THEN DeleteEvent(id)
  ELSE UpsertEvent(id, e.target.slot)

Record(i, status, id, denied) ==
  events' = [events EXCEPT
    ![i].step = AfterCall(events[i]),
    ![i].denied = denied,
    ![i].record = [to |-> events[i].target.to, status |-> status, id |-> id]]

Leave(o, lost) ==
  /\ google' = o.google /\ created' = o.created
  /\ unrecorded' = unrecorded + lost
  /\ UNCHANGED sync

\* The lock is free, or PostgreSQL has given it to the handler.
CanCall(i) ==
  \/ events[i].step = "call" /\ LockIsFree(events[i].target.to)
  \/ events[i].step = "locked"

Call(i) ==
  /\ CanCall(i)
  /\ connection.id = events[i].target.to /\ connection.status # "absent"
  /\ \E o \in Called(events[i], sync.id) :
       /\ Leave(o, 0)
       /\ Record(i, IF events[i].type = "Cancelled" THEN "deleted"
                    ELSE "synced", o.id, FALSE)
  /\ UNCHANGED <<base, reminder, job, metrics, inOrder, changes, faults>>

\* Google refuses, for good or not, or does the work and its reply is lost:
\* the failure is recorded, and nothing tries again.
CallFails(i, denied) ==
  /\ CanCall(i) /\ Fault
  /\ connection.id = events[i].target.to /\ connection.status # "absent"
  /\ \/ UNCHANGED calendar
     \/ ~denied /\ \E o \in Called(events[i], sync.id) : Leave(o, 1)
  /\ Record(i, "failed", sync.id, denied)
  /\ inOrder' = FALSE
  /\ UNCHANGED <<base, reminder, job, metrics, changes>>

\* Mutant of Release: the event is not delivered again.
ReleaseForgets(i) ==
  events' = [events EXCEPT ![i] = [Waiting(@) EXCEPT !.step = "rejected"]]

\* The transaction is rolled back, and the event is delivered again.
Release(i) == events' = [events EXCEPT ![i] = Waiting(@)]

\* The connection is gone: no identifier is found, and the result of the call
\* cannot be inserted.
CallForGone(i) ==
  /\ CanCall(i)
  /\ ~(connection.id = events[i].target.to /\ connection.status # "absent")
  /\ \E o \in Called(events[i], 0) : Leave(o, 1)
  /\ Release(i)
  /\ UNCHANGED <<base, reminder, job, metrics, inOrder, changes, faults>>

\* Mutant of Counted: the day is counted as the event says.
CountedAs(e) == IF e.type = "Cancelled" THEN "cancelled" ELSE "active"

\* A day without appointments has no row to count.
Counted(e) == IF e.slot = appointment.slot THEN appointment.status ELSE None

\* Mutant of Upserted: a row that exists is left alone.
UpsertedOnce(e) ==
  IF reminder.status # None THEN reminder
  ELSE [status |-> "pending", slot |-> e.slot, next |-> "later",
        attempts |-> 0, schedule |-> reminder.schedule + 1]

\* A new schedule replaces the row, whatever its state was.
Upserted(e) ==
  [status |-> "pending", slot |-> e.slot, next |-> "later",
   attempts |-> 0, schedule |-> reminder.schedule + 1]

Commit(i) ==
  LET e == events[i] IN
  /\ e.step = "commit"
  /\ IF e.upserts
     THEN reminder' = Upserted(e) /\ mails' = Append(mails, 0)
     ELSE UNCHANGED <<reminder, mails>>
  /\ sync' = IF e.record = NoRecord THEN sync
             ELSE [status |-> e.record.status, id |-> e.record.id]
  /\ connection' = IF e.denied THEN [connection EXCEPT !.status = "error"]
                   ELSE connection
  /\ metrics' = IF Counted(e) = None THEN metrics
                ELSE [metrics EXCEPT ![e.slot] = Counted(e)]
  /\ events' = [events EXCEPT ![i] = [Waiting(e) EXCEPT !.step = "done"]]
  /\ UNCHANGED <<appointment, queueing, sender, google, created, unrecorded,
                 inOrder, changes, faults>>

Abort(i) ==
  /\ Working(i) /\ Fault
  /\ Release(i)
  /\ unrecorded' =
       IF events[i].record = NoRecord THEN unrecorded ELSE unrecorded + 1
  /\ inOrder' = FALSE
  /\ UNCHANGED <<base, reminder, job, google, created, sync, metrics, changes>>

\* Two handlers wait for each other's locks: PostgreSQL ends one of them, and
\* gives its lock to the other.
DeadlockBroken(i, j) ==
  LET atRow == [events[j] EXCEPT !.upserts = TRUE, !.step = "commit"]
      atCall == [events[i] EXCEPT !.step = "locked"] IN
  /\ events[i].upserts /\ events[i].step = "call"
  /\ events[j].record # NoRecord /\ events[j].step = "remind"
  /\ events[i].target.to = events[j].record.to
  /\ \/ /\ events' = [events EXCEPT ![i] = Waiting(@), ![j] = atRow]
        /\ UNCHANGED unrecorded
     \/ /\ events' = [events EXCEPT ![j] = Waiting(@), ![i] = atCall]
        /\ unrecorded' = unrecorded + 1
  /\ UNCHANGED <<base, reminder, job, google, created, sync, metrics, inOrder,
                 changes, faults>>

HandlerStep(i) ==
  \/ ReadTarget(i) \/ Remind(i) \/ Call(i) \/ CallForGone(i) \/ Commit(i)
  \/ \E j \in DOMAIN events : DeadlockBroken(i, j)
-----------------------------------------------------------------------------
(* The reminder job                                                        *)

\* A row that a handler has locked is skipped.
Due ==
  /\ reminder.status \in ToMark
  /\ reminder.next = "passed"
  /\ reminder.attempts < MaxAttempts
  /\ RowIsFree

\* Mutant of Claimed: a claim does not count as an attempt.
ClaimedOnly == [reminder EXCEPT !.next = "later"]

Claimed == [reminder EXCEPT !.next = "later", !.attempts = @ + 1]

Claim(s) ==
  /\ sender[s] = Idle
  /\ Due
  /\ reminder' = Claimed
  /\ sender' = [sender EXCEPT ![s] =
       [step |-> "send", schedule |-> reminder.schedule,
        attempts |-> Claimed.attempts]]
  /\ UNCHANGED <<base, events, mails, calendar, metrics, inOrder, changes,
                 faults>>

\* The mail is sent or not, and the reply says so or not.
Send(s, sent, result) ==
  /\ sender[s].step = "send"
  /\ result = "sent" => sent
  /\ mails' = IF sent THEN [mails EXCEPT ![sender[s].schedule] = @ + 1]
              ELSE mails
  /\ sender' = [sender EXCEPT ![s].step = result]
  /\ UNCHANGED <<base, events, reminder, calendar, metrics, inOrder, changes,
                 faults>>

\* Mutant of NextAttempt: a failed reminder is not tried again.
NextAttemptNever(attempts) == "never"

NextAttempt(attempts) == IF attempts >= MaxAttempts THEN "never" ELSE "later"

\* The row is updated whatever its schedule is now.
RecordResult(s) ==
  /\ sender[s].step \in {"sent", "failed"}
  /\ RowIsFree
  /\ reminder' = [reminder EXCEPT
       !.status = sender[s].step,
       !.next = IF sender[s].step = "sent" THEN "never"
                ELSE NextAttempt(sender[s].attempts)]
  /\ sender' = [sender EXCEPT ![s] = Idle]
  /\ UNCHANGED <<base, events, mails, calendar, metrics, inOrder, changes,
                 faults>>

SenderDies(s) ==
  /\ sender[s] # Idle /\ Fault
  /\ sender' = [sender EXCEPT ![s] = Idle]
  /\ inOrder' = FALSE
  /\ UNCHANGED <<base, events, reminder, mails, calendar, metrics, changes>>

Sending(s) ==
  \E sent \in BOOLEAN, result \in {"sent", "failed"} : Send(s, sent, result)
-----------------------------------------------------------------------------
Api ==
  \/ \E t \in Slots : Reschedule(t)
  \/ Cancel \/ Disconnect \/ Reconnect \/ SyncFuture

\* Steps that are taken sooner or later.
Progress ==
  \/ Tick \/ QueueFuture
  \/ \E i \in DOMAIN events : HandlerStep(i)
  \/ \E s \in Senders : Claim(s) \/ Sending(s) \/ RecordResult(s)

Next ==
  \/ Api
  \/ Progress
  \/ \E i \in DOMAIN events :
       Abort(i) \/ \E denied \in BOOLEAN : CallFails(i, denied)
  \/ \E s \in Senders : SenderDies(s)

Spec == Init /\ [][Next]_vars

\* While anything can go on, something does: no step is repeated for ever, so
\* nothing stronger is needed of the clock, the consumer and the job.
FairSpec == Spec /\ WF_vars(Progress)
-----------------------------------------------------------------------------
(* Properties                                                              *)

\* Faults repeat little.  No schedule of the reminder is mailed more often
\* than it has attempts, although senders die after sending, results come late
\* and the reminder is scheduled anew meanwhile; and each event that is in
\* Google beyond the first is due to a call that was not recorded, although
\* handlers overlap, wait for each other and are repeated.
RepeatsAreBounded ==
  /\ \A k \in DOMAIN mails : mails[k] <= MaxAttempts
  /\ Cardinality(google) <= 1 + unrecorded

AtRest ==
  /\ \A i \in DOMAIN events : events[i].step = "done"
  /\ queueing = NoSlot

InGoogle == {e.slot : e \in google}

Expected == IF Active THEN {appointment.slot} ELSE {}

(* Events handled one after the other, without a fault, leave the calendar *)
(* and the day's metrics as the appointment is, and a reminder for its     *)
(* slot.  Of the reminder it is the slot alone that follows the            *)
(* appointment: a cancellation leaves the row as it is, and the reminder   *)
(* of a cancelled appointment is mailed when it is due.                    *)
InOrderAgrees ==
  inOrder /\ AtRest =>
    /\ reminder.status # None /\ reminder.slot = appointment.slot
    /\ InGoogle = Expected
    /\ metrics[appointment.slot] = appointment.status

\* An event is handled in the end, although its handlers wait for each other.
EveryEventIsHandled ==
  \A i \in 1 .. MaxSteps + 1 :
    i \in DOMAIN events ~> i \in DOMAIN events /\ events[i].step = "done"

\* A sender works on a schedule that has been replaced.
Late ==
  \E s \in Senders :
    sender[s] # Idle /\ sender[s].schedule # reminder.schedule

\* A reminder that is to be sent is sent, or has used all its attempts,
\* although senders fail and die; the late result of a schedule that has been
\* replaced may end it.
ReminderIsSent ==
  reminder.status \in ToMark /\ reminder.next # "never"
    ~> reminder.status = "sent" \/ reminder.attempts = MaxAttempts \/ Late

\* Calendars are kept in sync as appointments are booked, rescheduled or
\* cancelled, says the README: with the connection in place and no fault,
\* Google has what the appointment is once all its events are handled.
CalendarIsInSync ==
  AtRest /\ faults = 0 /\ connection = [id |-> 1, status |-> "connected"]
    => InGoogle = Expected
=============================================================================
