---------------------------- MODULE Appointments ----------------------------
(***************************************************************************)
(* The appointments of one business: booking, cancellation by the          *)
(* customer, the dashboard's status changes and rescheduling, as the       *)
(* request handlers of appointments.service.ts run them over PostgreSQL.   *)
(*                                                                         *)
(* Every handler has two steps, because the code reads and decides first   *)
(* and writes afterwards: a check, which reads committed rows and keeps    *)
(* what it saw, and a commit, the moment its transaction takes effect.     *)
(* PostgreSQL runs the transactions at READ COMMITTED, so the rows may     *)
(* have changed between the two; only the exclusion constraint on          *)
(* appointments is evaluated against the rows present at the commit.       *)
(* The reads of a booking or rescheduling check happen at one instant: a   *)
(* transaction that commits between two of them changes one appointment    *)
(* only, and the same outcome is reached by letting it commit before or    *)
(* after the check.  The dashboard's read of an appointment and of its     *)
(* customer are two queries, and two steps here.                           *)
(***************************************************************************)
EXTENDS Integers, FiniteSets

CONSTANTS
  Appointments,   \* identifiers of appointment rows
  Customers,      \* the customers of the business
  Staff,          \* its active staff members
  Services,       \* its active services
  Length,         \* minutes a service blocks: duration plus buffer
  Starts,         \* the instants at which an appointment may start
  Open,           \* the <<staff, start>> pairs the rules open for a service
  NextStatuses,   \* the statuses the dashboard asks for
  Handlers,       \* the requests that can be in flight together
  MaxTime,        \* bound: the clock stops here
  MaxCounter      \* bound: no status change starts beyond this counter

ASSUME LengthAssumption == Length \in [Services -> Nat \ {0}]
ASSUME StartsAssumption == Starts \subseteq Nat
ASSUME OpenAssumption == Open \in [Services -> SUBSET (Staff \X Starts)]
ASSUME TimeAssumption == MaxTime \in Nat
ASSUME NextAssumption ==
  NextStatuses \subseteq {"confirmed", "completed", "no_show",
                          "cancelled_by_business"}

VARIABLES
  now,           \* the clock the handlers read
  appointment,   \* the table appointments
  customer,      \* the counters of the table customers
  newest,        \* the newest outbox row about each appointment
  request        \* what each request in flight has read and decided

vars == <<now, appointment, customer, newest, request>>

Active == {"pending", "confirmed"}
Cancelled == {"cancelled_by_customer", "cancelled_by_business"}
Statuses == Active \cup Cancelled \cup {"completed", "no_show"}
-----------------------------------------------------------------------------
(* Rows, events and requests                                               *)

Row == [status : Statuses, customer : Customers, service : Services,
        staff : Staff, start : Nat]
NoRow == [status |-> "absent"]

\* An outbox row: its type and the part of its payload that names the slot.
\* "SlotReleased" stands for the pair of rows a cancellation writes,
\* AppointmentCancelled and SlotReleased, which carry the same payload.
EventTypes == {"Booked", "Confirmed", "Completed", "NoShow", "SlotReleased",
               "Rescheduled"}
Event == [type : EventTypes, status : Statuses, staff : Staff, start : Nat]
NoEvent == [type |-> "none"]

AppointmentPayload(type, row) ==
  [type |-> type, status |-> row.status, staff |-> row.staff,
   start |-> row.start]

Counters == [total : Nat, completed : Nat, noShow : Nat, cancelled : Nat]

Idle == [op |-> "idle"]
BookRequest == [op : {"book"}, customer : Customers, service : Services,
                staff : Staff, start : Nat]
CancelRequest == [op : {"cancel"}, appointment : Appointments]
StatusRead == [op : {"statusRead"}, appointment : Appointments,
               next : NextStatuses, seen : Statuses]
StatusRequest == [op : {"status"}, appointment : Appointments,
                  next : NextStatuses, seen : Statuses, counters : Counters]
RescheduleRequest == [op : {"reschedule"}, appointment : Appointments,
                      staff : Staff, start : Nat]
Request == BookRequest \cup CancelRequest \cup StatusRead
             \cup StatusRequest \cup RescheduleRequest \cup {Idle}
-----------------------------------------------------------------------------
(* The slots a row blocks                                                  *)

Ends(row) == row.start + Length[row.service]
IsActive(a) == appointment[a].status \in Active
Exists(a) == appointment[a] # NoRow

\* Half-open intervals [from, to) and the one the row blocks intersect.
Blocks(row, from, to) == row.start < to /\ from < Ends(row)

\* An active appointment other than a blocks staff member s in [from, to).
StaffBusy(s, from, to, a) ==
  \E b \in Appointments \ {a} :
    /\ IsActive(b)
    /\ appointment[b].staff = s
    /\ Blocks(appointment[b], from, to)

BusinessBusy(from, to, a) ==
  \E b \in Appointments \ {a} :
    IsActive(b) /\ Blocks(appointment[b], from, to)

\* Mutant of ExclusionHolds: the constraint covers pending rows only.
ExclusionOfPending(a, row) ==
  row.status = "pending" => ~StaffBusy(row.staff, row.start, Ends(row), a)

\* Mutant of ExclusionHolds: the range ends one unit after the start.
ExclusionOfStart(a, row) ==
  row.status \in Active => ~StaffBusy(row.staff, row.start, row.start + 1, a)

\* The exclusion constraint, for the row that a transaction writes for a.
ExclusionHolds(a, row) ==
  row.status \in Active => ~StaffBusy(row.staff, row.start, Ends(row), a)

\* calculateAvailability offers <<s, t>>: opened by the rules, in the future
\* and free for that staff member (the appointment a being moved aside).
SlotOffered(v, s, t, a) ==
  /\ <<s, t>> \in Open[v]
  /\ t > now
  /\ ~StaffBusy(s, t, t + Length[v], a)
-----------------------------------------------------------------------------
Init ==
  /\ now = 0
  /\ appointment = [a \in Appointments |-> NoRow]
  /\ customer = [c \in Customers |->
                   [total |-> 0, completed |-> 0, noShow |-> 0, cancelled |-> 0]]
  /\ newest = [a \in Appointments |-> NoEvent]
  /\ request = [h \in Handlers |-> Idle]

Tick ==
  /\ now < MaxTime
  /\ now' = now + 1
  /\ UNCHANGED <<appointment, customer, newest, request>>

Begin(h, r) ==
  /\ request[h] = Idle
  /\ request' = [request EXCEPT ![h] = r]
  /\ UNCHANGED <<now, appointment, customer, newest>>

Finish(h) == request' = [request EXCEPT ![h] = Idle]

\* Mutant of Write: the payload is built from the row as it was before.
WriteStale(a, row, type) ==
  /\ appointment' = [appointment EXCEPT ![a] = row]
  /\ newest' = [newest EXCEPT ![a] =
       AppointmentPayload(type, IF Exists(a) THEN appointment[a] ELSE row)]

\* The transaction writes row for a and an outbox row of the given type.
Write(a, row, type) ==
  /\ appointment' = [appointment EXCEPT ![a] = row]
  /\ newest' = [newest EXCEPT ![a] = AppointmentPayload(type, row)]

\* A request ends without effect: its transaction is rolled back, because a
\* check at the commit refuses it, the process dies or the connection drops.
Abort(h) ==
  /\ request[h] # Idle
  /\ Finish(h)
  /\ UNCHANGED <<now, appointment, customer, newest>>
-----------------------------------------------------------------------------
(* Booking                                                                 *)

\* A public, portal or waitlist booking finds the slot free.  When no staff
\* member is asked for, the code takes one of those that the slot offers.
BookCheck(h, c, v, s, t) ==
  /\ SlotOffered(v, s, t, "none")
  /\ Begin(h, [op |-> "book", customer |-> c, service |-> v, staff |-> s,
               start |-> t])

BookCommit(h, a) ==
  LET r == request[h]
      row == [status |-> "confirmed", customer |-> r.customer,
              service |-> r.service, staff |-> r.staff, start |-> r.start]
  IN /\ r.op = "book"
     /\ ~Exists(a)
     /\ ExclusionHolds(a, row)
     /\ Write(a, row, "Booked")
     /\ customer' = [customer EXCEPT ![r.customer].total = @ + 1]
     /\ Finish(h)
     /\ UNCHANGED now
-----------------------------------------------------------------------------
(* Cancellation by the customer, from the public page or the portal        *)

CancelCheck(h, a) ==
  /\ IsActive(a)
  /\ Begin(h, [op |-> "cancel", appointment |-> a])

\* The update selects the row by its id alone.
CancelCommit(h) ==
  LET a == request[h].appointment
      row == [appointment[a] EXCEPT !.status = "cancelled_by_customer"]
  IN /\ request[h].op = "cancel"
     /\ Write(a, row, "SlotReleased")
     /\ Finish(h)
     /\ UNCHANGED <<now, customer>>
-----------------------------------------------------------------------------
(* The dashboard sets a status                                             *)

StatusReadAppointment(h, a, next) ==
  /\ Exists(a)
  /\ Begin(h, [op |-> "statusRead", appointment |-> a, next |-> next,
               seen |-> appointment[a].status])

StatusReadCustomer(h) ==
  LET r == request[h]
      counters == customer[appointment[r.appointment].customer]
  IN /\ r.op = "statusRead"
     /\ counters.completed < MaxCounter /\ counters.noShow < MaxCounter
     /\ request' = [request EXCEPT ![h] =
          [op |-> "status", appointment |-> r.appointment, next |-> r.next,
           seen |-> r.seen, counters |-> counters]]
     /\ UNCHANGED <<now, appointment, customer, newest>>

StatusDelta(previous, next, tracked) ==
  CASE previous = tracked /\ next # tracked -> -1
    [] previous # tracked /\ next = tracked -> 1
    [] OTHER -> 0

AtLeastZero(n) == IF n < 0 THEN 0 ELSE n

\* The counters are computed from the values read earlier and written as
\* absolute values; nothing is written when neither tracked status is involved.
CounterUpdate(current, r) ==
  LET noShowDelta == StatusDelta(r.seen, r.next, "no_show")
      completedDelta == StatusDelta(r.seen, r.next, "completed")
  IN IF noShowDelta = 0 /\ completedDelta = 0
     THEN current
     ELSE [current EXCEPT
             !.completed = AtLeastZero(r.counters.completed + completedDelta),
             !.noShow = AtLeastZero(r.counters.noShow + noShowDelta)]

StatusEvent(next) ==
  CASE next = "confirmed" -> "Confirmed"
    [] next = "completed" -> "Completed"
    [] next = "no_show" -> "NoShow"
    [] OTHER -> "SlotReleased"

\* Any status may follow any other: only the exclusion constraint can refuse
\* an appointment that becomes active again.
StatusCommit(h) ==
  LET r == request[h]
      a == r.appointment
      row == [appointment[a] EXCEPT !.status = r.next]
  IN /\ r.op = "status"
     /\ ExclusionHolds(a, row)
     /\ Write(a, row, StatusEvent(r.next))
     /\ customer' = [customer EXCEPT ![row.customer] = CounterUpdate(@, r)]
     /\ Finish(h)
     /\ UNCHANGED now
-----------------------------------------------------------------------------
(* Rescheduling, from the public page or the dashboard                     *)

RescheduleCheck(h, a, s, t) ==
  LET row == appointment[a] IN
  /\ IsActive(a)
  /\ t # row.start
  /\ SlotOffered(row.service, s, t, a)
  /\ ~BusinessBusy(t, t + Length[row.service], a)
  /\ Begin(h, [op |-> "reschedule", appointment |-> a, staff |-> s,
               start |-> t])

\* The update does not look at the status again.
RescheduleCommit(h) ==
  LET r == request[h]
      a == r.appointment
      row == [appointment[a] EXCEPT !.staff = r.staff, !.start = r.start]
  IN /\ r.op = "reschedule"
     /\ ExclusionHolds(a, row)
     /\ Write(a, row, "Rescheduled")
     /\ Finish(h)
     /\ UNCHANGED <<now, customer>>
-----------------------------------------------------------------------------
Check(h) ==
  \/ \E c \in Customers, v \in Services, s \in Staff, t \in Starts :
       BookCheck(h, c, v, s, t)
  \/ \E a \in Appointments : CancelCheck(h, a)
  \/ \E a \in Appointments, n \in NextStatuses : StatusReadAppointment(h, a, n)
  \/ StatusReadCustomer(h)
  \/ \E a \in Appointments, s \in Staff, t \in Starts :
       RescheduleCheck(h, a, s, t)

Commit(h) ==
  \/ \E a \in Appointments : BookCommit(h, a)
  \/ CancelCommit(h)
  \/ StatusCommit(h)
  \/ RescheduleCommit(h)

Next == Tick \/ \E h \in Handlers : Check(h) \/ Commit(h) \/ Abort(h)

Spec == Init /\ [][Next]_vars
-----------------------------------------------------------------------------
(* Properties                                                              *)

\* Every variable stays in its set: rows, events and requests are well formed.
TypeOK ==
  /\ now \in 0..MaxTime
  /\ appointment \in [Appointments -> Row \cup {NoRow}]
  /\ customer \in [Customers -> Counters]
  /\ newest \in [Appointments -> Event \cup {NoEvent}]
  /\ request \in [Handlers -> Request]

\* Two active appointments never block the same staff member at the same
\* time, whichever of booking, status change and rescheduling put them there
\* and however stale the availability they had read.
NoDoubleBooking ==
  \A a, b \in Appointments :
    /\ a # b
    /\ IsActive(a) /\ IsActive(b)
    /\ appointment[a].staff = appointment[b].staff
    => ~Blocks(appointment[b], appointment[a].start, Ends(appointment[a]))

\* The statuses an appointment can have after its newest event: rescheduling
\* keeps whichever status a concurrent handler left.
StatusAfter(type) ==
  CASE type \in {"Booked", "Confirmed"} -> {"confirmed"}
    [] type = "Completed" -> {"completed"}
    [] type = "NoShow" -> {"no_show"}
    [] type = "SlotReleased" -> Cancelled
    [] OTHER -> Statuses

\* The newest outbox row about an appointment carries its current status,
\* staff member and start, and is of the type that announces that status: a
\* consumer that reads the rows in order ends with the state of the table.
NewestRowTellsTruth ==
  \A a \in Appointments :
    IF Exists(a)
    THEN /\ newest[a] = AppointmentPayload(newest[a].type, appointment[a])
         /\ newest[a].status \in StatusAfter(newest[a].type)
    ELSE newest[a] = NoEvent

BookingsOf(c) == {a \in Appointments : Exists(a) /\ appointment[a].customer = c}

\* No booking of the API is lost from a customer's total, however bookings
\* and status changes of the same customer interleave.
TotalsCountBookings ==
  \A c \in Customers : customer[c].total = Cardinality(BookingsOf(c))

-----------------------------------------------------------------------------
(* The appointments implement a calendar of slots held one at a time       *)

SlotOf(row) == [staff |-> row.staff, from |-> row.start, to |-> Ends(row)]
Held == {SlotOf(appointment[a]) : a \in {b \in Appointments : IsActive(b)}}

Schedule == INSTANCE Calendar WITH held <- Held

\* Every step of the handlers takes one free slot, gives one back, moves one
\* to a free place, or leaves the calendar as it was.
ImplementsCalendar == Schedule!Spec
=============================================================================
