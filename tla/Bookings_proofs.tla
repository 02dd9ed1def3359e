-------------------------- MODULE Bookings_proofs ---------------------------
(***************************************************************************)
(* Proofs about Slots and about Web: that the API keeps the appointments   *)
(* and calculates the slots as it should, and that the pages through which *)
(* they are booked and kept show and send what is so.                      *)
(*                                                                         *)
(* The appointments come first, with the calculation of the slots; then    *)
(* the business as the pages see it and, page by page, the one that books, *)
(* the link that manages an appointment, the portal, the dashboard, and    *)
(* the public page of the business.                                        *)
(***************************************************************************)
EXTENDS Slots, Web, FiniteSetTheorems, WellFoundedInduction, TLAPS

(***************************************************************************)
(* The appointments, for every set of appointments, customers, staff       *)
(* members, services and handlers and for every opening rule.              *)
(*                                                                         *)
(* TypeOK alone is not inductive: a commit copies the row it changes, so   *)
(* it needs that the row its request names exists.  Typed adds that.       *)
(***************************************************************************)

\* Every request in flight about an appointment names a row of the table:
\* requests start from a row they have read, and rows are never deleted.
RequestsNameRows ==
  \A h \in Handlers :
    request[h].op \in {"cancel", "statusRead", "status", "reschedule"}
      => Exists(request[h].appointment)

Typed == TypeOK /\ RequestsNameRows

LEMMA RowFacts ==
  ASSUME TypeOK, NEW a \in Appointments, Exists(a)
  PROVE  appointment[a] \in Row
BY DEF TypeOK, Exists

LEMMA ActiveRows ==
  ASSUME TypeOK, NEW a \in Appointments, IsActive(a)
  PROVE  Exists(a) /\ appointment[a] \in Row
<1>1. appointment[a] # NoRow
  BY DEF IsActive, Active, NoRow
<1> QED
  BY <1>1 DEF TypeOK, Exists

LEMMA EndsAfterStart ==
  ASSUME NEW row \in Row
  PROVE  Ends(row) \in Nat /\ row.start \in Nat /\ row.start < Ends(row)
<1>1. Length[row.service] \in Nat \ {0}
  BY LengthAssumption DEF Row
<1> QED
  BY <1>1 DEF Ends, Row

\* What each kind of request carries.
LEMMA RequestFacts ==
  ASSUME TypeOK, NEW h \in Handlers
  PROVE  /\ request[h].op = "book" => request[h] \in BookRequest
         /\ request[h].op = "cancel" => request[h] \in CancelRequest
         /\ request[h].op = "statusRead" => request[h] \in StatusRead
         /\ request[h].op = "status" => request[h] \in StatusRequest
         /\ request[h].op = "reschedule" => request[h] \in RescheduleRequest
BY DEF TypeOK, Request, BookRequest, CancelRequest, StatusRead,
       StatusRequest, RescheduleRequest, Idle

\* A commit that writes a well-formed row of a well-formed type keeps the
\* types and loses no row.
LEMMA WriteTyped ==
  ASSUME Typed, NEW h \in Handlers, NEW a \in Appointments, NEW row \in Row,
         NEW type \in EventTypes, Write(a, row, type), Finish(h),
         customer' \in [Customers -> Counters], now' = now
  PROVE  Typed'
<1>1. row # NoRow
  BY DEF Row, NoRow, Statuses, Active, Cancelled
<1>2. AppointmentPayload(type, row) \in Event
  BY DEF AppointmentPayload, Event, Row
<1>3. TypeOK'
  BY <1>2 DEF Typed, TypeOK, Write, Finish, Request, Idle
<1>4. \A b \in Appointments : Exists(b) => Exists(b)'
  BY <1>1 DEF Typed, TypeOK, Write, Exists
<1>5. ASSUME NEW g \in Handlers,
             request'[g].op \in {"cancel", "statusRead", "status", "reschedule"}
      PROVE  Exists(request[g].appointment)' /\ request'[g] = request[g]
  <2>1. request'[g] = request[g]
    BY <1>5 DEF Finish, Typed, TypeOK, Idle
  <2>2. request[g].appointment \in Appointments
    BY <1>5, <2>1, RequestFacts
    DEF Typed, CancelRequest, StatusRead, StatusRequest, RescheduleRequest
  <2>3. Exists(request[g].appointment)
    BY <1>5, <2>1 DEF Typed, RequestsNameRows
  <2> QED
    BY <2>1, <2>2, <2>3, <1>4
<1>6. RequestsNameRows'
  BY <1>5 DEF RequestsNameRows, Exists
<1> QED
  BY <1>3, <1>6 DEF Typed

\* A check keeps the types when what it records is a request whose row exists.
LEMMA ReadTyped ==
  ASSUME Typed, NEW h \in Handlers, NEW r \in Request,
         request' = [request EXCEPT ![h] = r],
         UNCHANGED <<now, appointment, customer, newest>>,
         r.op \in {"cancel", "statusRead", "status", "reschedule"}
           => Exists(r.appointment)
  PROVE  Typed'
<1>1. TypeOK'
  BY DEF Typed, TypeOK
<1>2. RequestsNameRows'
  BY DEF Typed, TypeOK, RequestsNameRows, Exists
<1> QED
  BY <1>1, <1>2 DEF Typed

LEMMA InitTyped == Init => Typed
<1> SUFFICES ASSUME Init PROVE Typed
  OBVIOUS
<1> QED
  BY TimeAssumption
  DEF Init, Typed, TypeOK, RequestsNameRows, Request, Idle, Counters

LEMMA CounterUpdateTyped ==
  ASSUME NEW current \in Counters, NEW r \in StatusRequest
  PROVE  CounterUpdate(current, r) \in Counters
<1>1. \A n \in Int : AtLeastZero(n) \in Nat
  BY DEF AtLeastZero
<1>2. /\ StatusDelta(r.seen, r.next, "no_show") \in Int
      /\ StatusDelta(r.seen, r.next, "completed") \in Int
  BY DEF StatusDelta
<1>3. r.counters.completed \in Nat /\ r.counters.noShow \in Nat
  BY DEF StatusRequest, Counters
<1>4. /\ AtLeastZero(r.counters.completed
                       + StatusDelta(r.seen, r.next, "completed")) \in Nat
      /\ AtLeastZero(r.counters.noShow
                       + StatusDelta(r.seen, r.next, "no_show")) \in Nat
  <2>1. /\ r.counters.completed
              + StatusDelta(r.seen, r.next, "completed") \in Int
        /\ r.counters.noShow + StatusDelta(r.seen, r.next, "no_show") \in Int
    BY <1>2, <1>3
  <2> QED
    BY <2>1, <1>1
<1> QED
  BY <1>4 DEF CounterUpdate, Counters

\* The row and the event type that each commit writes are well formed.
LEMMA BookCommitTyped ==
  ASSUME Typed, NEW h \in Handlers, NEW a \in Appointments, BookCommit(h, a)
  PROVE  Typed'
<1> DEFINE r == request[h]
           row == [status |-> "confirmed", customer |-> r.customer,
                   service |-> r.service, staff |-> r.staff,
                   start |-> r.start]
<1>1. r \in BookRequest
  BY RequestFacts DEF Typed, BookCommit
<1>2. row \in Row
  BY <1>1 DEF BookRequest, Row, Statuses, Active
<1>3. customer' \in [Customers -> Counters]
  BY <1>1 DEF BookCommit, Typed, TypeOK, Counters, BookRequest
<1>4. Write(a, row, "Booked") /\ Finish(h) /\ now' = now
  BY DEF BookCommit
<1>5. "Booked" \in EventTypes
  BY DEF EventTypes
<1> QED
  BY <1>2, <1>3, <1>4, <1>5, WriteTyped

LEMMA CancelCommitTyped ==
  ASSUME Typed, NEW h \in Handlers, CancelCommit(h)
  PROVE  Typed'
<1> DEFINE a == request[h].appointment
           row == [appointment[a] EXCEPT !.status = "cancelled_by_customer"]
<1>1. a \in Appointments
  BY RequestFacts DEF Typed, CancelCommit, CancelRequest
<1>2. appointment[a] \in Row
  BY <1>1, RowFacts DEF Typed, RequestsNameRows, CancelCommit
<1>3. row \in Row
  BY <1>2 DEF Row, Statuses, Cancelled
<1>4. "SlotReleased" \in EventTypes
  BY DEF EventTypes
<1> QED
  BY <1>1, <1>3, <1>4, WriteTyped DEF CancelCommit, Typed, TypeOK

LEMMA StatusCommitTyped ==
  ASSUME Typed, NEW h \in Handlers, StatusCommit(h)
  PROVE  Typed'
<1> DEFINE r == request[h]
           a == r.appointment
           row == [appointment[a] EXCEPT !.status = r.next]
<1>1. r \in StatusRequest /\ a \in Appointments
  BY RequestFacts DEF Typed, StatusCommit, StatusRequest
<1>2. appointment[a] \in Row
  BY <1>1, RowFacts DEF Typed, RequestsNameRows, StatusCommit
<1>3. row \in Row
  BY <1>1, <1>2, NextAssumption
  DEF Row, Statuses, Active, Cancelled, StatusRequest
<1>4. StatusEvent(r.next) \in EventTypes
  BY DEF EventTypes, StatusEvent
<1>5. customer' \in [Customers -> Counters]
  <2>1. customer' =
          [customer EXCEPT ![row.customer] = CounterUpdate(@, r)]
    BY DEF StatusCommit
  <2>2. customer[row.customer] \in Counters /\ row.customer \in Customers
    BY <1>3 DEF Typed, TypeOK, Row
  <2>3. CounterUpdate(customer[row.customer], r) \in Counters
    BY <1>1, <2>2, CounterUpdateTyped
  <2> QED
    BY <2>1, <2>2, <2>3 DEF Typed, TypeOK
<1> QED
  BY <1>1, <1>3, <1>4, <1>5, WriteTyped DEF StatusCommit

LEMMA RescheduleCommitTyped ==
  ASSUME Typed, NEW h \in Handlers, RescheduleCommit(h)
  PROVE  Typed'
<1> DEFINE r == request[h]
           a == r.appointment
           row == [appointment[a] EXCEPT !.staff = r.staff, !.start = r.start]
<1>1. r \in RescheduleRequest /\ a \in Appointments
  BY RequestFacts DEF Typed, RescheduleCommit, RescheduleRequest
<1>2. appointment[a] \in Row
  BY <1>1, RowFacts DEF Typed, RequestsNameRows, RescheduleCommit
<1>3. row \in Row
  BY <1>1, <1>2 DEF Row, RescheduleRequest
<1>4. "Rescheduled" \in EventTypes
  BY DEF EventTypes
<1> QED
  BY <1>1, <1>3, <1>4, WriteTyped DEF RescheduleCommit, Typed, TypeOK

LEMMA StatusReadCustomerTyped ==
  ASSUME Typed, NEW h \in Handlers, StatusReadCustomer(h)
  PROVE  Typed'
<1> DEFINE r == request[h]
           counters == customer[appointment[r.appointment].customer]
           next == [op |-> "status", appointment |-> r.appointment,
                    next |-> r.next, seen |-> r.seen, counters |-> counters]
<1>1. r \in StatusRead /\ r.appointment \in Appointments
  BY RequestFacts DEF Typed, StatusReadCustomer, StatusRead
<1>2. Exists(r.appointment)
  BY DEF Typed, RequestsNameRows, StatusReadCustomer
<1>3. counters \in Counters
  BY <1>1, <1>2, RowFacts DEF Typed, TypeOK, Row
<1>4. next \in Request
  BY <1>1, <1>3 DEF Request, StatusRequest, StatusRead
<1> QED
  BY <1>2, <1>4, ReadTyped DEF StatusReadCustomer

LEMMA CheckTyped ==
  ASSUME Typed, NEW h \in Handlers, Check(h)
  PROVE  Typed'
<1>1. ASSUME NEW c \in Customers, NEW v \in Services, NEW s \in Staff,
             NEW t \in Starts, BookCheck(h, c, v, s, t)
      PROVE  Typed'
  <2>1. [op |-> "book", customer |-> c, service |-> v, staff |-> s,
         start |-> t] \in Request
    BY <1>1, StartsAssumption DEF Request, BookRequest
  <2> QED
    BY <1>1, <2>1, ReadTyped DEF BookCheck, Begin
<1>2. ASSUME NEW a \in Appointments, CancelCheck(h, a)
      PROVE  Typed'
  <2>1. [op |-> "cancel", appointment |-> a] \in Request
    BY DEF Request, CancelRequest
  <2> QED
    BY <1>2, <2>1, ActiveRows, ReadTyped DEF CancelCheck, Begin, Typed
<1>3. ASSUME NEW a \in Appointments, NEW n \in NextStatuses,
             StatusReadAppointment(h, a, n)
      PROVE  Typed'
  <2>1. appointment[a].status \in Statuses
    BY <1>3, RowFacts DEF StatusReadAppointment, Typed, Row
  <2>2. [op |-> "statusRead", appointment |-> a, next |-> n,
         seen |-> appointment[a].status] \in Request
    BY <2>1 DEF Request, StatusRead
  <2> QED
    BY <1>3, <2>2, ReadTyped DEF StatusReadAppointment, Begin
<1>4. ASSUME NEW a \in Appointments, NEW s \in Staff, NEW t \in Starts,
             RescheduleCheck(h, a, s, t)
      PROVE  Typed'
  <2>1. [op |-> "reschedule", appointment |-> a, staff |-> s,
         start |-> t] \in Request
    BY StartsAssumption DEF Request, RescheduleRequest
  <2> QED
    BY <1>4, <2>1, ActiveRows, ReadTyped DEF RescheduleCheck, Begin, Typed
<1> QED
  BY <1>1, <1>2, <1>3, <1>4, StatusReadCustomerTyped DEF Check

LEMMA NextTyped == Typed /\ [Next]_vars => Typed'
<1> SUFFICES ASSUME Typed, [Next]_vars PROVE Typed'
  OBVIOUS
<1>1. CASE Tick
  BY <1>1, TimeAssumption
  DEF Tick, Typed, TypeOK, RequestsNameRows, Exists
<1>2. ASSUME NEW h \in Handlers, Abort(h) PROVE Typed'
  BY <1>2 DEF Abort, Finish, Typed, TypeOK, RequestsNameRows, Exists,
              Request, Idle
<1>3. CASE UNCHANGED vars
  BY <1>3 DEF vars, Typed, TypeOK, RequestsNameRows, Exists
<1> QED
  BY <1>1, <1>2, <1>3, CheckTyped, BookCommitTyped, CancelCommitTyped,
     StatusCommitTyped, RescheduleCommitTyped
  DEF Next, Commit

LEMMA AlwaysTyped == Spec => []Typed
BY InitTyped, NextTyped, PTL DEF Spec

\* Every variable keeps its type.
THEOREM TypeCorrect == Spec => []TypeOK
<1>1. Typed => TypeOK
  BY DEF Typed
<1> QED
  BY <1>1, AlwaysTyped, PTL
-----------------------------------------------------------------------------
(* What a step does to the table: one row is written, of which the         *)
(* exclusion constraint holds, or nothing.  A cancellation satisfies the   *)
(* constraint because the row it writes is not active.                     *)

GoodWrite(a, row) ==
  /\ row \in Row
  /\ ExclusionHolds(a, row)
  /\ \E type \in EventTypes :
       Write(a, row, type) /\ row.status \in StatusAfter(type)

LEMMA CommitWrites ==
  ASSUME Typed, NEW h \in Handlers, Commit(h)
  PROVE  \E a \in Appointments, row \in Row : GoodWrite(a, row)
<1> DEFINE r == request[h]
<1>1. ASSUME NEW a \in Appointments, BookCommit(h, a)
      PROVE  \E row \in Row : GoodWrite(a, row)
  <2> DEFINE row == [status |-> "confirmed", customer |-> r.customer,
                     service |-> r.service, staff |-> r.staff,
                     start |-> r.start]
  <2>1. row \in Row
    BY <1>1, RequestFacts
    DEF Typed, BookCommit, BookRequest, Row, Statuses, Active
  <2>2. "Booked" \in EventTypes /\ row.status \in StatusAfter("Booked")
    BY DEF EventTypes, StatusAfter
  <2> QED
    BY <1>1, <2>1, <2>2 DEF BookCommit, GoodWrite
<1>2. ASSUME CancelCommit(h)
      PROVE  \E a \in Appointments, row \in Row : GoodWrite(a, row)
  <2> DEFINE a == r.appointment
             row == [appointment[a] EXCEPT !.status = "cancelled_by_customer"]
  <2>1. a \in Appointments
    BY <1>2, RequestFacts DEF Typed, CancelCommit, CancelRequest
  <2>2. appointment[a] \in Row
    BY <1>2, <2>1, RowFacts DEF Typed, RequestsNameRows, CancelCommit
  <2>3. row \in Row /\ row.status = "cancelled_by_customer"
    BY <2>2 DEF Row, Statuses, Cancelled
  <2>4. /\ ExclusionHolds(a, row)
        /\ row.status \in StatusAfter("SlotReleased")
        /\ "SlotReleased" \in EventTypes
    BY <2>3 DEF ExclusionHolds, Active, StatusAfter, EventTypes, Cancelled
  <2> QED
    BY <1>2, <2>1, <2>3, <2>4 DEF CancelCommit, GoodWrite
<1>3. ASSUME StatusCommit(h)
      PROVE  \E a \in Appointments, row \in Row : GoodWrite(a, row)
  <2> DEFINE a == r.appointment
             row == [appointment[a] EXCEPT !.status = r.next]
  <2>1. r \in StatusRequest /\ a \in Appointments
    BY <1>3, RequestFacts DEF Typed, StatusCommit, StatusRequest
  <2>2. appointment[a] \in Row
    BY <1>3, <2>1, RowFacts DEF Typed, RequestsNameRows, StatusCommit
  <2>3. row \in Row /\ row.status = r.next
    BY <2>1, <2>2, NextAssumption
    DEF Row, Statuses, Active, Cancelled, StatusRequest
  <2>4. /\ StatusEvent(r.next) \in EventTypes
        /\ row.status \in StatusAfter(StatusEvent(r.next))
    BY <2>1, <2>3, NextAssumption
    DEF StatusRequest, StatusEvent, StatusAfter, EventTypes, Cancelled
  <2> QED
    BY <1>3, <2>1, <2>3, <2>4 DEF StatusCommit, GoodWrite
<1>4. ASSUME RescheduleCommit(h)
      PROVE  \E a \in Appointments, row \in Row : GoodWrite(a, row)
  <2> DEFINE a == r.appointment
             row == [appointment[a] EXCEPT !.staff = r.staff,
                                           !.start = r.start]
  <2>1. r \in RescheduleRequest /\ a \in Appointments
    BY <1>4, RequestFacts DEF Typed, RescheduleCommit, RescheduleRequest
  <2>2. appointment[a] \in Row
    BY <1>4, <2>1, RowFacts DEF Typed, RequestsNameRows, RescheduleCommit
  <2>3. row \in Row
    BY <2>1, <2>2 DEF Row, RescheduleRequest
  <2>4. "Rescheduled" \in EventTypes
        /\ row.status \in StatusAfter("Rescheduled")
    BY <2>3 DEF EventTypes, StatusAfter, Row
  <2> QED
    BY <1>4, <2>1, <2>3, <2>4 DEF RescheduleCommit, GoodWrite
<1> QED
  BY <1>1, <1>2, <1>3, <1>4 DEF Commit

LEMMA StepWrites ==
  ASSUME Typed, [Next]_vars
  PROVE  \/ UNCHANGED <<appointment, newest>>
         \/ \E a \in Appointments, row \in Row : GoodWrite(a, row)
<1>1. ASSUME NEW h \in Handlers, Check(h) \/ Abort(h)
      PROVE  UNCHANGED <<appointment, newest>>
  BY <1>1 DEF Check, Abort, BookCheck, CancelCheck, StatusReadAppointment,
              StatusReadCustomer, RescheduleCheck, Begin
<1> QED
  BY <1>1, CommitWrites DEF Next, Tick, vars
-----------------------------------------------------------------------------
(* No double booking                                                       *)

LEMMA BlocksIsSymmetric ==
  ASSUME NEW p, NEW q
  PROVE  Blocks(p, q.start, Ends(q)) <=> Blocks(q, p.start, Ends(p))
BY DEF Blocks

LEMMA WriteKeepsNoDoubleBooking ==
  ASSUME Typed, NoDoubleBooking, NEW c \in Appointments, NEW row \in Row,
         GoodWrite(c, row)
  PROVE  NoDoubleBooking'
<1> SUFFICES ASSUME NEW a \in Appointments, NEW b \in Appointments, a # b,
                    IsActive(a)', IsActive(b)',
                    appointment'[a].staff = appointment'[b].staff
             PROVE  ~Blocks(appointment'[b], appointment'[a].start,
                            Ends(appointment'[a]))
  BY DEF NoDoubleBooking, Ends, Blocks
<1>1. \A d \in Appointments :
        appointment'[d] = IF d = c THEN row ELSE appointment[d]
  BY DEF GoodWrite, Write, Typed, TypeOK
<1>2. ASSUME NEW d \in Appointments, d # c, IsActive(d),
             row.status \in Active, appointment[d].staff = row.staff
      PROVE  ~Blocks(appointment[d], row.start, Ends(row))
  BY <1>2 DEF GoodWrite, ExclusionHolds, StaffBusy
<1>3. CASE a = c
  BY <1>1, <1>2, <1>3 DEF IsActive
<1>4. CASE b = c
  <2>1. ~Blocks(appointment[a], row.start, Ends(row))
    BY <1>1, <1>2, <1>4 DEF IsActive
  <2> QED
    BY <1>1, <1>4, <2>1, BlocksIsSymmetric
<1>5. CASE a # c /\ b # c
  BY <1>1, <1>5 DEF NoDoubleBooking, IsActive
<1> QED
  BY <1>3, <1>4, <1>5

\* No staff member is ever double-booked, however many requests are in flight
\* and whatever they had read.
THEOREM NeverDoubleBooked == Spec => []NoDoubleBooking
<1>1. Init => NoDoubleBooking
  BY DEF Init, NoDoubleBooking, IsActive, Active, NoRow
<1>2. Typed /\ NoDoubleBooking /\ [Next]_vars => NoDoubleBooking'
  <2> SUFFICES ASSUME Typed, NoDoubleBooking, [Next]_vars
               PROVE  NoDoubleBooking'
    OBVIOUS
  <2>1. CASE UNCHANGED <<appointment, newest>>
    BY <2>1 DEF NoDoubleBooking, IsActive, Ends, Blocks
  <2> QED
    BY <2>1, StepWrites, WriteKeepsNoDoubleBooking
<1> QED
  BY <1>1, <1>2, AlwaysTyped, PTL DEF Spec
-----------------------------------------------------------------------------
(* The newest outbox row                                                   *)

\* The newest outbox row about an appointment always carries the slot and
\* the status that the table has.
THEOREM OutboxTellsTruth == Spec => []NewestRowTellsTruth
<1>1. Init => NewestRowTellsTruth
  BY DEF Init, NewestRowTellsTruth, Exists
<1>2. ASSUME Typed, NewestRowTellsTruth, NEW a \in Appointments,
             NEW row \in Row, GoodWrite(a, row)
      PROVE  NewestRowTellsTruth'
  <2>1. PICK type \in EventTypes :
          Write(a, row, type) /\ row.status \in StatusAfter(type)
    BY <1>2 DEF GoodWrite
  <2>2. row # NoRow
    BY DEF Row, NoRow, Statuses, Active, Cancelled
  <2>3. \A b \in Appointments : b # a =>
          appointment'[b] = appointment[b] /\ newest'[b] = newest[b]
    BY <1>2, <2>1 DEF Write, Typed, TypeOK
  <2>4. appointment'[a] = row /\ newest'[a] = AppointmentPayload(type, row)
    BY <1>2, <2>1 DEF Write, Typed, TypeOK
  <2>5. newest'[a].type = type /\ newest'[a].status = row.status
    BY <2>4 DEF AppointmentPayload
  <2> QED
    BY <1>2, <2>1, <2>2, <2>3, <2>4, <2>5
    DEF NewestRowTellsTruth, Exists, AppointmentPayload, StatusAfter
<1>3. Typed /\ NewestRowTellsTruth /\ [Next]_vars => NewestRowTellsTruth'
  <2> SUFFICES ASSUME Typed, NewestRowTellsTruth, [Next]_vars
               PROVE  NewestRowTellsTruth'
    OBVIOUS
  <2>1. CASE UNCHANGED <<appointment, newest>>
    BY <2>1 DEF NewestRowTellsTruth, Exists, AppointmentPayload, StatusAfter
  <2> QED
    BY <1>2, <2>1, StepWrites
<1> QED
  BY <1>1, <1>3, AlwaysTyped, PTL DEF Spec
-----------------------------------------------------------------------------
(* The appointments implement the calendar                                 *)

ActiveSet == {b \in Appointments : IsActive(b)}

\* Active appointments hold different slots: equal slots would overlap,
\* because every service takes at least one minute.
LEMMA SlotsDiffer ==
  ASSUME Typed, NoDoubleBooking, NEW a \in ActiveSet, NEW b \in ActiveSet,
         a # b
  PROVE  ~Schedule!Clash(SlotOf(appointment[a]), SlotOf(appointment[b]))
         /\ SlotOf(appointment[a]) # SlotOf(appointment[b])
<1>1. a \in Appointments /\ b \in Appointments /\ IsActive(a) /\ IsActive(b)
  BY DEF ActiveSet
<1>2. appointment[a] \in Row /\ appointment[b] \in Row
  BY <1>1, ActiveRows DEF Typed
<1>3. appointment[a].staff = appointment[b].staff
        => ~Blocks(appointment[b], appointment[a].start, Ends(appointment[a]))
  BY <1>1 DEF NoDoubleBooking
<1>4. ~Schedule!Clash(SlotOf(appointment[a]), SlotOf(appointment[b]))
  BY <1>3 DEF Schedule!Clash, SlotOf, Blocks
<1>5. Schedule!Clash(SlotOf(appointment[a]), SlotOf(appointment[a]))
  BY <1>2, EndsAfterStart DEF Schedule!Clash, SlotOf
<1> QED
  BY <1>4, <1>5

LEMMA WriteMapsToCalendar ==
  ASSUME Typed, NoDoubleBooking, NEW a \in Appointments, NEW row \in Row,
         GoodWrite(a, row)
  PROVE  Schedule!Next \/ Held' = Held
<1> DEFINE old == SlotOf(appointment[a])
           new == SlotOf(row)
           others == {SlotOf(appointment[b]) : b \in ActiveSet \ {a}}
<1>1. \A b \in Appointments :
        appointment'[b] = IF b = a THEN row ELSE appointment[b]
  BY DEF GoodWrite, Write, Typed, TypeOK
<1>2. Held = IF IsActive(a) THEN others \cup {old} ELSE others
  BY DEF Held, ActiveSet
<1>3. Held' = IF row.status \in Active THEN others \cup {new} ELSE others
  <2>1. \A b \in Appointments \ {a} : /\ IsActive(b)' = IsActive(b)
                                      /\ SlotOf(appointment[b])'
                                           = SlotOf(appointment[b])
    BY <1>1 DEF IsActive, SlotOf, Ends
  <2>2. IsActive(a)' = (row.status \in Active)
        /\ SlotOf(appointment[a])' = new
    BY <1>1 DEF IsActive, SlotOf, Ends
  <2> QED
    BY <2>1, <2>2 DEF Held, ActiveSet
<1>4. IsActive(a) => old \notin others
  BY SlotsDiffer DEF ActiveSet
<1>5. row.status \in Active => Schedule!FreeFor(others, new)
  <2> SUFFICES ASSUME row.status \in Active, NEW b \in ActiveSet \ {a}
               PROVE  ~Schedule!Clash(new, SlotOf(appointment[b]))
    BY DEF Schedule!FreeFor, Schedule!Clash
  <2>1. appointment[b].staff = row.staff
          => ~Blocks(appointment[b], row.start, Ends(row))
    BY DEF GoodWrite, ExclusionHolds, StaffBusy, ActiveSet
  <2> QED
    BY <2>1 DEF Schedule!Clash, SlotOf, Blocks
<1>6. CASE IsActive(a) /\ row.status \in Active
  <2>1. Held \ {old} = others
    BY <1>2, <1>4, <1>6
  <2> QED
    BY <1>2, <1>3, <1>5, <1>6, <2>1 DEF Schedule!Next, Schedule!Move
<1>7. CASE IsActive(a) /\ row.status \notin Active
  BY <1>2, <1>3, <1>4, <1>7 DEF Schedule!Next, Schedule!GiveBack
<1>8. CASE ~IsActive(a) /\ row.status \in Active
  BY <1>2, <1>3, <1>5, <1>8 DEF Schedule!Next, Schedule!Take
<1>9. CASE ~IsActive(a) /\ row.status \notin Active
  BY <1>2, <1>3, <1>9
<1> QED
  BY <1>6, <1>7, <1>8, <1>9

\* Every behaviour of the handlers is a behaviour of the calendar.
THEOREM AppointmentsImplementCalendar == Spec => ImplementsCalendar
<1>1. Init => Schedule!Init
  BY DEF Init, Schedule!Init, Held, IsActive, Active, NoRow
<1>2. Typed /\ NoDoubleBooking /\ [Next]_vars => [Schedule!Next]_Held
  <2> SUFFICES ASSUME Typed, NoDoubleBooking, [Next]_vars
               PROVE  Schedule!Next \/ Held' = Held
    OBVIOUS
  <2>1. CASE UNCHANGED <<appointment, newest>>
    BY <2>1 DEF Held, IsActive, SlotOf, Ends
  <2> QED
    BY <2>1, StepWrites, WriteMapsToCalendar
<1> QED
  BY <1>1, <1>2, AlwaysTyped, NeverDoubleBooked, PTL
  DEF Spec, ImplementsCalendar, Schedule!Spec
-----------------------------------------------------------------------------
(* Totals.  The bookings of a customer are finite at every step, which the *)
(* cardinality of a set with one more element needs.                       *)

TotalsFinite ==
  /\ TotalsCountBookings
  /\ \A c \in Customers : IsFiniteSet(BookingsOf(c))

LEMMA BookCommitTotals ==
  ASSUME Typed, TotalsFinite, NEW h \in Handlers, NEW a \in Appointments,
         BookCommit(h, a)
  PROVE  TotalsFinite'
<1> DEFINE r == request[h]
           row == [status |-> "confirmed", customer |-> r.customer,
                   service |-> r.service, staff |-> r.staff,
                   start |-> r.start]
<1>1. r \in BookRequest
  BY RequestFacts DEF Typed, BookCommit
<1>2. appointment' = [appointment EXCEPT ![a] = row] /\ row # NoRow /\ ~Exists(a)
  BY DEF BookCommit, Write, NoRow
<1>3. \A c \in Customers :
        BookingsOf(c)' = IF c = r.customer THEN BookingsOf(c) \cup {a}
                                           ELSE BookingsOf(c)
  BY <1>2 DEF BookingsOf, Exists, Typed, TypeOK
<1>4. \A c \in Customers : a \notin BookingsOf(c)
  BY <1>2 DEF BookingsOf
<1>5. \A c \in Customers :
        customer'[c].total = IF c = r.customer THEN customer[c].total + 1
                                               ELSE customer[c].total
  BY <1>1 DEF BookCommit, BookRequest, Typed, TypeOK, Counters
<1> SUFFICES ASSUME NEW c \in Customers
             PROVE  /\ customer'[c].total = Cardinality(BookingsOf(c)')
                    /\ IsFiniteSet(BookingsOf(c)')
  BY DEF TotalsFinite, TotalsCountBookings
<1>6. /\ IsFiniteSet(BookingsOf(c) \cup {a})
      /\ Cardinality(BookingsOf(c) \cup {a}) = Cardinality(BookingsOf(c)) + 1
  BY <1>4, FS_AddElement DEF TotalsFinite
<1> QED
  BY <1>3, <1>5, <1>6 DEF TotalsFinite, TotalsCountBookings

\* Every other step leaves the totals and who booked what as they were.
LEMMA OtherStepsTotals ==
  ASSUME Typed, TotalsFinite,
         \A c \in Customers : /\ customer'[c].total = customer[c].total
                              /\ BookingsOf(c)' = BookingsOf(c)
  PROVE  TotalsFinite'
BY DEF TotalsFinite, TotalsCountBookings

LEMMA UpdateKeepsBookings ==
  ASSUME Typed, NEW a \in Appointments, Exists(a), NEW row \in Row,
         row.customer = appointment[a].customer,
         appointment' = [appointment EXCEPT ![a] = row]
  PROVE  \A c \in Customers : BookingsOf(c)' = BookingsOf(c)
<1>1. row # NoRow
  BY DEF Row, NoRow, Statuses, Active, Cancelled
<1> QED
  BY <1>1 DEF BookingsOf, Exists, Typed, TypeOK

LEMMA CommitTotals ==
  ASSUME Typed, TotalsFinite, NEW h \in Handlers, Commit(h)
  PROVE  TotalsFinite'
<1> DEFINE r == request[h]
           a == r.appointment
<1>1. CASE CancelCommit(h)
  <2>1. a \in Appointments /\ Exists(a)
    BY <1>1, RequestFacts
    DEF Typed, CancelCommit, CancelRequest, RequestsNameRows
  <2>2. appointment[a] \in Row
    BY <2>1, RowFacts DEF Typed
  <2>3. [appointment[a] EXCEPT !.status = "cancelled_by_customer"] \in Row
    BY <2>2 DEF Row, Statuses, Cancelled
  <2> QED
    BY <1>1, <2>1, <2>2, <2>3, UpdateKeepsBookings, OtherStepsTotals
    DEF CancelCommit, Write, Row
<1>2. CASE StatusCommit(h)
  <2> DEFINE row == [appointment[a] EXCEPT !.status = r.next]
  <2>1. a \in Appointments /\ Exists(a) /\ r \in StatusRequest
    BY <1>2, RequestFacts
    DEF Typed, StatusCommit, StatusRequest, RequestsNameRows
  <2>2. appointment[a] \in Row
    BY <2>1, RowFacts DEF Typed
  <2>3. row \in Row /\ row.customer = appointment[a].customer
    BY <2>1, <2>2, NextAssumption
    DEF Row, Statuses, Active, Cancelled, StatusRequest
  <2>4. customer' = [customer EXCEPT ![row.customer] = CounterUpdate(@, r)]
    BY <1>2 DEF StatusCommit
  <2>5. \A current \in Counters : CounterUpdate(current, r).total = current.total
    BY DEF CounterUpdate, Counters
  <2>6. \A c \in Customers : customer'[c].total = customer[c].total
    BY <2>4, <2>5 DEF Typed, TypeOK
  <2> QED
    BY <1>2, <2>1, <2>3, <2>6, UpdateKeepsBookings, OtherStepsTotals
    DEF StatusCommit, Write
<1>3. CASE RescheduleCommit(h)
  <2> DEFINE row == [appointment[a] EXCEPT !.staff = r.staff,
                                           !.start = r.start]
  <2>1. a \in Appointments /\ Exists(a) /\ r \in RescheduleRequest
    BY <1>3, RequestFacts
    DEF Typed, RescheduleCommit, RescheduleRequest, RequestsNameRows
  <2>2. appointment[a] \in Row
    BY <2>1, RowFacts DEF Typed
  <2>3. row \in Row /\ row.customer = appointment[a].customer
    BY <2>1, <2>2 DEF Row, RescheduleRequest
  <2> QED
    BY <1>3, <2>1, <2>3, UpdateKeepsBookings, OtherStepsTotals
    DEF RescheduleCommit, Write
<1> QED
  BY <1>1, <1>2, <1>3, BookCommitTotals DEF Commit

\* A customer's total is the number of the customer's bookings by the API,
\* however bookings and status changes interleave.  (The worker books for
\* series without counting; Metrics has these.)
THEOREM TotalsAreExact == Spec => []TotalsCountBookings
<1>1. Init => TotalsFinite
  <2> SUFFICES ASSUME Init, NEW c \in Customers
               PROVE  /\ customer[c].total = Cardinality(BookingsOf(c))
                      /\ IsFiniteSet(BookingsOf(c))
    BY DEF TotalsFinite, TotalsCountBookings
  <2>1. BookingsOf(c) = {}
    BY DEF Init, BookingsOf, Exists
  <2> QED
    BY <2>1, FS_EmptySet DEF Init
<1>2. Typed /\ TotalsFinite /\ [Next]_vars => TotalsFinite'
  <2> SUFFICES ASSUME Typed, TotalsFinite, [Next]_vars PROVE TotalsFinite'
    OBVIOUS
  <2>1. ASSUME UNCHANGED <<appointment, customer>> PROVE TotalsFinite'
    BY <2>1, OtherStepsTotals DEF BookingsOf, Exists
  <2>2. ASSUME NEW h \in Handlers, Check(h) \/ Abort(h)
        PROVE  UNCHANGED <<appointment, customer>>
    BY <2>2 DEF Check, Abort, BookCheck, CancelCheck, StatusReadAppointment,
                StatusReadCustomer, RescheduleCheck, Begin
  <2> QED
    BY <2>1, <2>2, CommitTotals DEF Next, Tick, vars
<1>3. TotalsFinite => TotalsCountBookings
  BY DEF TotalsFinite
<1> QED
  BY <1>1, <1>2, <1>3, AlwaysTyped, PTL DEF Spec
-----------------------------------------------------------------------------
(***************************************************************************)
(* What the calculation of slots promises, for every business and every    *)
(* clock.  That no slot overlaps an appointment or a blocked hour is what  *)
(* it is told; that the slot listed on a day is found again from its start *)
(* alone is not, and rests on the conversion of local times.               *)
(***************************************************************************)

(* dateAtZonedMinutes: a local time that the clock shows becomes an        *)
(* instant at which the clock shows it, on either side of a change.        *)
THEOREM LocalTimesAreKept ==
  \A z \in Zones, l \in Int : IsShown(z, l) => Local(z, Zoned(z, l)) = l
<1> SUFFICES ASSUME NEW z \in Zones, NEW l \in Int, IsShown(z, l)
             PROVE  Local(z, Zoned(z, l)) = l
  OBVIOUS
<1> DEFINE A == z.before
           B == z.after
           T == z.change
<1>1. A \in Int /\ B \in Int /\ T \in Int
  BY DEF Zones
<1>2. l - A < T \/ l - B >= T \/ A = B
  BY <1>1 DEF IsShown, Local, Offset
<1>3. CASE l < T
  <2>1. Offset(z, l) = A
    BY <1>3 DEF Offset
  <2>2. Zoned(z, l) = IF l - A < T THEN l - A ELSE l - B
    BY <1>1, <2>1 DEF Zoned, Offset
  <2> QED
    BY <1>1, <1>2, <2>2 DEF Local, Offset
<1>4. CASE l >= T
  <2>1. Offset(z, l) = B
    BY <1>1, <1>4 DEF Offset
  <2>2. Zoned(z, l) = IF l - B < T THEN l - A ELSE l - B
    BY <1>1, <2>1 DEF Zoned, Offset
  <2> QED
    BY <1>1, <1>2, <2>2 DEF Local, Offset
<1> QED
  BY <1>1, <1>3, <1>4

IsSteady(z) == z.before = z.after

\* The hours of a business begin and end within a day.
IsBusiness(b) ==
  /\ b.zone \in Zones
  /\ b.required \in Nat
  /\ \A r \in b.rules : r.from \in 0..(DAY - 1) /\ r.to \in 0..(DAY - 1)
  /\ \A e \in b.exceptions : e.from \in 0..(DAY - 1) /\ e.to \in 0..(DAY - 1)

\* The input that the handlers give to the calculation.
InputOf(b, date) ==
  [date |-> date, required |-> b.required, zone |-> b.zone,
   now |-> b.now, activeStaff |-> EligibleStaff(b),
   rules |-> {r \in b.rules :
                /\ r.weekday = weekdayInTimeZone(b.zone, date)
                /\ r.staff \in b.staff},
   exceptions |-> {e \in b.exceptions :
                     /\ e.date = date
                     /\ e.staff \in b.staff \cup {AllStaff}},
   busySlots |-> {x \in b.busy :
                    /\ x.startsAt < dateAtZonedMinutes(b.zone, date, DAY)
                    /\ x.endsAt > dateAtZonedMinutes(b.zone, date, 0)}]

LEMMA AvailabilityIsCalculated ==
  \A b, date : Availability(b, date) = calculateAvailability(InputOf(b, date))
  BY DEF Availability, InputOf

LEMMA DayOfTime ==
  ASSUME NEW date \in Int, NEW t \in 0..(DAY - 1)
  PROVE  (date * DAY + t) \div DAY = date
<1> DEFINE n == date * DAY + t
           q == n \div DAY
<1>1. DAY \in Nat \ {0} /\ date * DAY \in Int /\ t \in Nat /\ t < DAY
  BY DayAssumption
<1>2. n \in Int /\ q \in Int
  BY <1>1
<1>3. q * DAY <= n /\ n < (q + 1) * DAY
  BY <1>1, <1>2
<1>4. ASSUME q < date PROVE FALSE
  <2>1. (q + 1) * DAY <= date * DAY
    BY <1>1, <1>2, <1>4
  <2> QED
    BY <1>1, <1>2, <1>3, <2>1
<1>5. ASSUME q > date PROVE FALSE
  <2>1. (date + 1) * DAY <= q * DAY
    BY <1>1, <1>2, <1>5
  <2>2. (date + 1) * DAY = date * DAY + DAY
    BY <1>1
  <2> QED
    BY <1>1, <1>2, <1>3, <2>1, <2>2
<1> QED
  BY <1>2, <1>4, <1>5

(* A time of the day that the clock shows becomes an instant of that day.  *)
LEMMA DayIsKept ==
  ASSUME NEW z \in Zones, NEW date \in Int, NEW t \in 0..(DAY - 1),
         IsShown(z, date * DAY + t)
  PROVE  dateOnlyInTimeZone(z, dateAtZonedMinutes(z, date, t)) = date
<1>1. date * DAY + t \in Int
  BY DayAssumption
<1>2. Local(z, Zoned(z, date * DAY + t)) = date * DAY + t
  BY <1>1, LocalTimesAreKept
<1> QED
  BY <1>2, DayOfTime DEF dateOnlyInTimeZone, dateAtZonedMinutes

\* The slots of the windows, before those that are over or taken are left out.
Raw(input) ==
  UNION {{SlotAt(input, w, t) : t \in Grid(w, input.required)}
           : w \in Windows(input)}

(* Each slot of a window begins and ends on the day.                       *)
LEMMA SlotsStayOnTheDay ==
  ASSUME NEW b, IsBusiness(b), NEW date \in Int, NEW slot \in Raw(InputOf(b, date))
  PROVE  \E t \in 0..(DAY - 1) :
           /\ t + b.required <= DAY - 1
           /\ slot.startsAt = dateAtZonedMinutes(b.zone, date, t)
           /\ slot.endsAt = dateAtZonedMinutes(b.zone, date, t + b.required)
<1> DEFINE input == InputOf(b, date)
<1>2. PICK w \in Windows(input) :
        \E t \in Grid(w, input.required) : slot = SlotAt(input, w, t)
  BY DEF Raw
<1>3. /\ input.required = b.required /\ input.zone = b.zone
      /\ input.date = date
      /\ input.rules \subseteq b.rules /\ input.exceptions \subseteq b.exceptions
  BY DEF InputOf
<1>4. w.from \in 0..(DAY - 1) /\ w.to \in 0..(DAY - 1)
  <2>1. CASE w \in {[staff |-> r.staff, from |-> r.from, to |-> r.to] :
                      r \in input.rules}
    BY <2>1, <1>3 DEF IsBusiness
  <2>2. CASE w \in UNION {{[staff |-> s, from |-> e.from, to |-> e.to]
                 : s \in IF e.staff = AllStaff
                         THEN input.activeStaff ELSE {e.staff}}
                : e \in OfType(input, "EXTRA_OPENING")}
    <3>1. PICK e \in OfType(input, "EXTRA_OPENING") :
            w.from = e.from /\ w.to = e.to
      BY <2>2
    <3>2. e \in b.exceptions
      BY <3>1, <1>3 DEF OfType
    <3> QED
      BY <3>1, <3>2 DEF IsBusiness
  <2> QED
    BY <1>2, <2>1, <2>2 DEF Windows
<1>5. PICK t \in Grid(w, input.required) : slot = SlotAt(input, w, t)
  BY <1>2
<1>6. t \in 0..(DAY - 1) /\ t + b.required <= DAY - 1
  BY <1>3, <1>4, <1>5, DayAssumption DEF Grid, IsBusiness
<1> QED
  BY <1>3, <1>5, <1>6 DEF SlotAt

LEMMA CalculatedFromRaw ==
  ASSUME NEW b, NEW date, NEW slot
  PROVE  slot \in Availability(b, date) <=>
           /\ slot \in Raw(InputOf(b, date))
           /\ date >= dateOnlyInTimeZone(b.zone, b.now)
           /\ ~(/\ date = dateOnlyInTimeZone(b.zone, b.now)
                /\ slot.startsAt <= b.now)
           /\ ~Overlaps(InputOf(b, date), slot)
           /\ ~Blocked(InputOf(b, date), slot)
<1>1. /\ InputOf(b, date).date = date /\ InputOf(b, date).zone = b.zone
      /\ InputOf(b, date).now = b.now
  BY DEF InputOf
<1> QED
  BY <1>1, AvailabilityIsCalculated DEF calculateAvailability, Raw

(* Each slot of a calculation begins on the grid of one of its windows.    *)
LEMMA SlotsBeginOnTheGrid ==
  ASSUME NEW b, IsBusiness(b), NEW date \in Int,
         NEW slot \in Availability(b, date)
  PROVE  \E t \in 0..(DAY - 1) :
           /\ slot.startsAt = dateAtZonedMinutes(b.zone, date, t)
           /\ slot.endsAt = dateAtZonedMinutes(b.zone, date, t + b.required)
  BY CalculatedFromRaw, SlotsStayOnTheDay

(* assertStaffMemberCanTakeSlot: on a day of which the clock shows every   *)
(* time, whatever is offered can be taken with its staff member and start. *)
THEOREM OfferedCanBeTaken ==
  ASSUME NEW b, IsBusiness(b), NEW date \in Int,
         \A t \in 0..(DAY - 1) : IsShown(b.zone, date * DAY + t),
         NEW slot \in Availability(b, date)
  PROVE  CanTake(b, slot.staff, slot.startsAt)
<1>1. PICK t \in 0..(DAY - 1) :
        slot.startsAt = dateAtZonedMinutes(b.zone, date, t)
  BY SlotsBeginOnTheGrid
<1>2. b.zone \in Zones
  BY DEF IsBusiness
<1>3. dateOnlyInTimeZone(b.zone, slot.startsAt) = date
  BY <1>1, <1>2, DayIsKept
<1> QED
  BY <1>3 DEF CanTake, SlotsFrom

(* A clock that keeps its offset shows every time, once.                   *)
LEMMA SteadyClock ==
  ASSUME NEW z \in Zones, IsSteady(z), NEW l \in Int
  PROVE  IsShown(z, l) /\ Zoned(z, l) = l - z.before
  BY DEF Zones, IsShown, Local, Zoned, Offset, IsSteady

LEMMA SteadyDay ==
  ASSUME NEW z \in Zones, IsSteady(z), NEW date \in Int, NEW t \in Int
  PROVE  dateAtZonedMinutes(z, date, t) = (date * DAY + t) - z.before
<1>1. date * DAY + t \in Int
  BY DayAssumption
<1> QED
  BY <1>1, SteadyClock DEF dateAtZonedMinutes

(* selectAvailableStaffMember: where the clock keeps its offset, whoever   *)
(* asks for a start that is offered gets a slot of the service's length.   *)
THEOREM OfferedCanBeSelected ==
  ASSUME NEW b, IsBusiness(b), IsSteady(b.zone), NEW date \in Int,
         NEW slot \in Availability(b, date)
  PROVE  Selected(b, slot.startsAt)
<1>1. b.zone \in Zones /\ b.zone.before \in Int /\ b.required \in Int
  BY DEF IsBusiness, Zones
<1>2. PICK t \in 0..(DAY - 1) :
        slot.startsAt = dateAtZonedMinutes(b.zone, date, t)
  BY SlotsBeginOnTheGrid
<1>3. dateOnlyInTimeZone(b.zone, slot.startsAt) = date
  <2>1. date * DAY + t \in Int
    BY DayAssumption
  <2>2. IsShown(b.zone, date * DAY + t)
    BY <1>1, <2>1, SteadyClock
  <2> QED
    BY <1>1, <1>2, <2>2, DayIsKept
<1>4. \A s \in Availability(b, date) : s.endsAt = s.startsAt + b.required
  <2> SUFFICES ASSUME NEW s \in Availability(b, date)
               PROVE  s.endsAt = s.startsAt + b.required
    OBVIOUS
  <2>1. PICK u \in 0..(DAY - 1) :
          /\ s.startsAt = dateAtZonedMinutes(b.zone, date, u)
          /\ s.endsAt = dateAtZonedMinutes(b.zone, date, u + b.required)
    BY SlotsBeginOnTheGrid
  <2>2. u \in Int /\ u + b.required \in Int /\ date * DAY \in Int
    BY <1>1, DayAssumption
  <2>3. s.startsAt = (date * DAY + u) - b.zone.before
    BY <1>1, <2>1, <2>2, SteadyDay
  <2>4. s.endsAt = (date * DAY + (u + b.required)) - b.zone.before
    BY <1>1, <2>1, <2>2, SteadyDay
  <2> QED
    BY <1>1, <2>2, <2>3, <2>4
<1> QED
  BY <1>3, <1>4 DEF Selected, SlotsFrom
-----------------------------------------------------------------------------
(***************************************************************************)
(* The appointments and the calculation agree.                             *)
(***************************************************************************)

LEMMA LengthTyped ==
  ASSUME NEW v \in Services
  PROVE  Length[v] \in Nat \ {0}
  BY LengthAssumption

LEMMA BusinessTyped ==
  ASSUME NEW v \in Services, NEW moment, NEW busy
  PROVE  IsBusiness(Business(v, moment, busy))
<1>1. Length[v] \in Nat
  BY LengthTyped
<1>2. /\ Business(v, moment, busy).zone = Clock
      /\ Business(v, moment, busy).required = Length[v]
      /\ Business(v, moment, busy).rules = Rules
      /\ Business(v, moment, busy).exceptions = Exceptions
  BY DEF Business
<1> QED
  BY <1>1, <1>2, ClockAssumption, HoursAssumption DEF IsBusiness

(* What is open does not depend on the moment nor on what is booked.       *)
LEMMA RawIsFixed ==
  ASSUME NEW v, NEW m, NEW n, NEW busy, NEW taken, NEW date, NEW slot
  PROVE  LET b == InputOf(Business(v, m, busy), date)
             c == InputOf(Business(v, n, taken), date)
         IN /\ Raw(b) = Raw(c)
            /\ Blocked(b, slot) <=> Blocked(c, slot)
<1> DEFINE b == InputOf(Business(v, m, busy), date)
           c == InputOf(Business(v, n, taken), date)
<1>1. /\ b.rules = c.rules /\ b.exceptions = c.exceptions
      /\ b.activeStaff = c.activeStaff /\ b.required = c.required
      /\ b.zone = c.zone /\ b.date = c.date
  BY DEF InputOf, Business, EligibleStaff
<1>2. OfType(b, "EXTRA_OPENING") = OfType(c, "EXTRA_OPENING")
  BY <1>1 DEF OfType
<1>3. OfType(b, "BLOCKED") = OfType(c, "BLOCKED")
  BY <1>1 DEF OfType
<1>4. Windows(b) = Windows(c)
  BY <1>1, <1>2 DEF Windows
<1>5. Raw(b) = Raw(c)
  BY <1>1, <1>4 DEF Raw, SlotAt
<1>6. Blocked(b, slot) <=> Blocked(c, slot)
  BY <1>1, <1>3 DEF Blocked
<1> QED
  BY <1>5, <1>6

(* The local date never goes back.                                         *)
LEMMA DivisionIsMonotonic ==
  ASSUME NEW m \in Int, NEW n \in Int, m <= n
  PROVE  m \div DAY <= n \div DAY /\ m \div DAY \in Int
<1> DEFINE p == m \div DAY
           q == n \div DAY
<1>1. DAY \in Nat \ {0}
  BY DayAssumption
<1>2. p \in Int /\ q \in Int
  BY <1>1
<1>3. p * DAY <= m /\ n < (q + 1) * DAY
  BY <1>1, <1>2
<1>4. ASSUME q < p PROVE FALSE
  <2>1. (q + 1) * DAY <= p * DAY
    BY <1>1, <1>2, <1>4
  <2>2. (q + 1) * DAY \in Int /\ p * DAY \in Int
    BY <1>1, <1>2
  <2> QED
    BY <1>3, <2>1, <2>2
<1> QED
  BY <1>2, <1>4

LEMMA DatesAreOrdered ==
  ASSUME NEW u \in Int, NEW w \in Int, u <= w
  PROVE  /\ dateOnlyInTimeZone(Clock, u) \in Int
         /\ dateOnlyInTimeZone(Clock, u) <= dateOnlyInTimeZone(Clock, w)
<1> DEFINE A == Clock.before
           B == Clock.after
           T == Clock.change
<1>1. A \in Int /\ B \in Int /\ T \in Int
  BY ClockAssumption DEF Zones
<1>2. \A i \in Int : dateOnlyInTimeZone(Clock, i) =
        IF i < T THEN (i + A) \div DAY ELSE (i + B) \div DAY
  BY DEF dateOnlyInTimeZone, Local, Offset
<1>3. \A i, j \in Int : i <= j => /\ (i + A) \div DAY <= (j + A) \div DAY
                                /\ (i + B) \div DAY <= (j + B) \div DAY
                                /\ (i + A) \div DAY \in Int
                                /\ (i + B) \div DAY \in Int
  <2> SUFFICES ASSUME NEW i \in Int, NEW j \in Int, i <= j
               PROVE  /\ (i + A) \div DAY <= (j + A) \div DAY
                      /\ (i + B) \div DAY <= (j + B) \div DAY
                      /\ (i + A) \div DAY \in Int
                      /\ (i + B) \div DAY \in Int
    OBVIOUS
  <2>1. /\ i + A \in Int /\ j + A \in Int /\ i + A <= j + A
        /\ i + B \in Int /\ j + B \in Int /\ i + B <= j + B
    BY <1>1
  <2> QED
    BY <2>1, DivisionIsMonotonic
<1>4. T - 1 \in Int /\ T - 1 < T
  BY <1>1
<1>5. (T - 1 + A) \div DAY <= (T + B) \div DAY
  BY <1>1, <1>2, <1>4, DatesAssumption DEF DatesGoOn
<1>6. CASE u < T /\ w >= T
  <2>1. u <= T - 1
    BY <1>1, <1>6
  <2>2. (u + A) \div DAY <= (T - 1 + A) \div DAY
    BY <1>3, <1>4, <2>1
  <2>3. (T + B) \div DAY <= (w + B) \div DAY
    BY <1>1, <1>3, <1>6
  <2>4. /\ (u + A) \div DAY \in Int /\ (T - 1 + A) \div DAY \in Int
        /\ (T + B) \div DAY \in Int /\ (w + B) \div DAY \in Int
    <3>1. \A i \in Int : i <= i
      OBVIOUS
    <3>2. \A i \in Int : (i + A) \div DAY \in Int /\ (i + B) \div DAY \in Int
      BY <1>3, <3>1
    <3> QED
      BY <1>1, <1>4, <3>2
  <2>5. /\ dateOnlyInTimeZone(Clock, u) = (u + A) \div DAY
        /\ dateOnlyInTimeZone(Clock, w) = (w + B) \div DAY
    BY <1>1, <1>2, <1>6
  <2>6. \A p, q, r, s \in Int : p <= q /\ q <= r /\ r <= s => p <= s
    OBVIOUS
  <2>7. (u + A) \div DAY <= (w + B) \div DAY
    BY <1>5, <2>2, <2>3, <2>4, <2>6
  <2> QED
    BY <2>4, <2>5, <2>7
<1>7. CASE u < T /\ w < T
  BY <1>2, <1>3, <1>7
<1>8. CASE u >= T /\ w >= T
  BY <1>1, <1>2, <1>3, <1>8
<1> QED
  BY <1>1, <1>6, <1>7, <1>8

DayOf(t) == dateOnlyInTimeZone(Clock, t)

LEMMA OpenIsRaw ==
  ASSUME NEW v \in Services, NEW s \in Staff, NEW t \in Starts,
         NEW m, NEW busy
  PROVE  LET input == InputOf(Business(v, m, busy), DayOf(t))
         IN <<s, t>> \in Open[v] <=>
              /\ Slot(v, s, t) \in Raw(input)
              /\ ~Blocked(input, Slot(v, s, t))
<1> DEFINE b == Business(v, t - 1, {})
           input == InputOf(Business(v, m, busy), DayOf(t))
           slot == Slot(v, s, t)
<1>1. t \in Int /\ t - 1 \in Int /\ t - 1 <= t
  BY StartsAssumption
<1>2. b.zone = Clock /\ b.now = t - 1 /\ slot.startsAt = t
  BY DEF Business, Slot
<1>3. InputOf(b, DayOf(t)).busySlots = {}
  BY DEF InputOf, Business
<1>4. ~Overlaps(InputOf(b, DayOf(t)), slot)
  BY <1>3 DEF Overlaps
<1>5. DayOf(t) \in Int /\ DayOf(t - 1) \in Int /\ DayOf(t) >= DayOf(t - 1)
  BY <1>1, DatesAreOrdered DEF DayOf
<1>6. ~(slot.startsAt <= b.now)
  BY <1>1, <1>2
<1>7. slot \in Availability(b, DayOf(t)) <=>
        /\ slot \in Raw(InputOf(b, DayOf(t)))
        /\ ~Blocked(InputOf(b, DayOf(t)), slot)
  <2>1. DayOf(t) >= dateOnlyInTimeZone(b.zone, b.now)
    BY <1>2, <1>5 DEF DayOf
  <2> QED
    BY <1>4, <1>6, <2>1, CalculatedFromRaw
<1>8. <<s, t>> \in Open[v] <=> slot \in Availability(b, DayOf(t))
  BY OpenedAssumption DEF Opened, DayOf
<1> QED
  BY <1>7, <1>8, RawIsFixed

(* On a plain day the calculation moves local times by one offset.         *)
LEMMA PlainTimes ==
  ASSUME NEW date \in StartDays
  PROVE  /\ date \in Int
         /\ \E k \in Int : \A t \in 0..DAY :
              dateAtZonedMinutes(Clock, date, t) = (date * DAY + t) - k
<1>1. date \in Int
  <2>1. PICK t \in Starts : date = dateOnlyInTimeZone(Clock, t)
    BY DEF StartDays
  <2>2. t \in Int /\ t <= t
    BY StartsAssumption
  <2> QED
    BY <2>1, <2>2, DatesAreOrdered
<1>2. PICK k \in {Clock.before, Clock.after} :
        \A l \in (date * DAY)..((date + 1) * DAY) : Zoned(Clock, l) = l - k
  BY PlainAssumption DEF IsPlainDay
<1>3. k \in Int
  BY ClockAssumption DEF Zones
<1>4. ASSUME NEW t \in 0..DAY
      PROVE  dateAtZonedMinutes(Clock, date, t) = (date * DAY + t) - k
  <2>1. date * DAY \in Int /\ (date + 1) * DAY = date * DAY + DAY
    BY <1>1, DayAssumption
  <2>2. date * DAY + t \in (date * DAY)..((date + 1) * DAY)
    BY <2>1, DayAssumption
  <2>3. dateAtZonedMinutes(Clock, date, t) = Zoned(Clock, date * DAY + t)
    BY DEF dateAtZonedMinutes
  <2>4. Zoned(Clock, date * DAY + t) = (date * DAY + t) - k
    BY <1>2, <2>2
  <2> QED
    BY <2>3, <2>4
<1> QED
  BY <1>1, <1>3, <1>4

(* Whoever is busy in the slot is among those that the calculation is told *)
(* of, and the other way round.                                            *)
LEMMA BusyIsTold ==
  ASSUME TypeOK, NEW v \in Services, NEW s \in Staff, NEW t \in Starts,
         NEW a, NEW m, NEW date \in StartDays,
         Slot(v, s, t) \in Raw(InputOf(Business(v, m, TakenBut(a)), date))
  PROVE  Overlaps(InputOf(Business(v, m, TakenBut(a)), date), Slot(v, s, t))
           <=> StaffBusy(s, t, t + Length[v], a)
<1> DEFINE b == Business(v, m, TakenBut(a))
           input == InputOf(b, date)
           slot == Slot(v, s, t)
           from == dateAtZonedMinutes(Clock, date, 0)
           to == dateAtZonedMinutes(Clock, date, DAY)
           Of(c) == [staff |-> appointment[c].staff,
                     startsAt |-> appointment[c].start,
                     endsAt |-> Ends(appointment[c])]
           Rows == {c \in Appointments : IsActive(c) /\ c # a}
<1>1. /\ slot.staff = s /\ slot.startsAt = t /\ slot.endsAt = t + Length[v]
      /\ t \in Nat /\ Length[v] \in Nat \ {0}
  BY StartsAssumption, LengthTyped DEF Slot
<1>2. from <= t /\ t + Length[v] <= to /\ from \in Int /\ to \in Int
  <2>1. PICK k \in Int : \A u \in 0..DAY :
          dateAtZonedMinutes(Clock, date, u) = (date * DAY + u) - k
    BY PlainTimes
  <2>2. b.zone = Clock /\ b.required = Length[v]
    BY DEF Business
  <2>3. PICK u \in 0..(DAY - 1) :
          /\ u + Length[v] <= DAY - 1
          /\ t = dateAtZonedMinutes(Clock, date, u)
          /\ t + Length[v] = dateAtZonedMinutes(Clock, date, u + Length[v])
    BY <1>1, <2>2, BusinessTyped, SlotsStayOnTheDay, PlainTimes
  <2>4. /\ 0 \in 0..DAY /\ DAY \in 0..DAY /\ u \in 0..DAY
        /\ u + Length[v] \in 0..DAY /\ DAY \in Nat \ {0}
    BY <1>1, <2>3, DayAssumption
  <2>5. date * DAY \in Int
    BY <2>4, PlainTimes
  <2> QED
    BY <1>1, <2>1, <2>3, <2>4, <2>5
<1>3. input.busySlots = {x \in TakenBut(a) : x.startsAt < to /\ x.endsAt > from}
  BY DEF InputOf, Business
<1>4. TakenBut(a) = {Of(c) : c \in Rows}
  BY DEF TakenBut
<1>5. \A c \in Rows : /\ appointment[c].start \in Int
                      /\ Ends(appointment[c]) \in Int
  BY ActiveRows, EndsAfterStart
<1>6. Overlaps(input, slot) <=>
        \E c \in Rows : /\ Of(c).startsAt < to /\ Of(c).endsAt > from
                       /\ Of(c).staff = s
                       /\ t < Of(c).endsAt /\ t + Length[v] > Of(c).startsAt
  BY <1>1, <1>3, <1>4 DEF Overlaps, Intersects
<1>7. StaffBusy(s, t, t + Length[v], a) <=>
        \E c \in Rows : /\ appointment[c].staff = s
                       /\ appointment[c].start < t + Length[v]
                       /\ t < Ends(appointment[c])
  BY DEF StaffBusy, Blocks
<1>8. \A c \in Rows :
        /\ appointment[c].start < t + Length[v] => appointment[c].start < to
        /\ t < Ends(appointment[c]) => Ends(appointment[c]) > from
        /\ appointment[c].start < t + Length[v]
             <=> t + Length[v] > appointment[c].start
  BY <1>1, <1>2, <1>5
<1> QED
  BY <1>6, <1>7, <1>8

LEMMA OffersAreCalculated ==
  ASSUME TypeOK PROVE OffersAreExact
<1> SUFFICES ASSUME NEW v \in Services, NEW a \in Appointments \cup {"none"},
                    NEW date \in StartDays
             PROVE  LET offered == Availability(Business(v, now, TakenBut(a)), date)
                    IN /\ \A s \in Staff, t \in Starts :
                            DayOf(t) = date =>
                              (SlotOffered(v, s, t, a)
                                 <=> Slot(v, s, t) \in offered)
                       /\ \A slot \in offered :
                            slot.endsAt = slot.startsAt + Length[v]
  BY DEF OffersAreExact, DayOf
<1> DEFINE b == Business(v, now, TakenBut(a))
           input == InputOf(b, date)
           offered == Availability(b, date)
<1>1. b.zone = Clock /\ b.now = now /\ b.required = Length[v]
  BY DEF Business
<1>2. now \in Int /\ date \in Int /\ Length[v] \in Nat \ {0}
  BY PlainTimes, LengthTyped, TimeAssumption DEF TypeOK
<1>3. ASSUME NEW s \in Staff, NEW t \in Starts, DayOf(t) = date
      PROVE  SlotOffered(v, s, t, a) <=> Slot(v, s, t) \in offered
  <2> DEFINE slot == Slot(v, s, t)
             today == dateOnlyInTimeZone(Clock, now)
  <2>1. slot \in offered <=>
          /\ slot \in Raw(input)
          /\ date >= today /\ ~(date = today /\ t <= now)
          /\ ~Overlaps(input, slot) /\ ~Blocked(input, slot)
    BY <1>1, CalculatedFromRaw DEF Slot
  <2>2. <<s, t>> \in Open[v] <=> slot \in Raw(input) /\ ~Blocked(input, slot)
    BY <1>3, OpenIsRaw
  <2>3. date >= today /\ ~(date = today /\ t <= now) <=> t > now
    <3>1. t \in Int
      BY StartsAssumption
    <3>2. /\ now <= t => today <= date
          /\ t <= now => date <= today
          /\ today \in Int
      BY <1>2, <1>3, <3>1, DatesAreOrdered DEF DayOf
    <3> QED
      BY <1>2, <3>1, <3>2
  <2>4. slot \in Raw(input) =>
          (Overlaps(input, slot) <=> StaffBusy(s, t, t + Length[v], a))
    BY BusyIsTold
  <2> QED
    BY <2>1, <2>2, <2>3, <2>4 DEF SlotOffered
<1>4. ASSUME NEW slot \in offered
      PROVE  slot.endsAt = slot.startsAt + Length[v]
  <2>1. slot \in Raw(input)
    BY CalculatedFromRaw
  <2>2. PICK u \in 0..(DAY - 1) :
          /\ u + Length[v] <= DAY - 1
          /\ slot.startsAt = dateAtZonedMinutes(Clock, date, u)
          /\ slot.endsAt = dateAtZonedMinutes(Clock, date, u + Length[v])
    BY <1>1, <1>2, <2>1, BusinessTyped, SlotsStayOnTheDay
  <2>3. PICK k \in Int : \A w \in 0..DAY :
          dateAtZonedMinutes(Clock, date, w) = (date * DAY + w) - k
    BY PlainTimes
  <2>4. u \in 0..DAY /\ u + Length[v] \in 0..DAY /\ date * DAY \in Int
    BY <1>2, <2>2, DayAssumption
  <2> QED
    BY <1>2, <2>2, <2>3, <2>4
<1> QED
  BY <1>3, <1>4

(* The slots that customers are offered are exactly those that are open,   *)
(* to come and free, whatever is booked, cancelled and moved meanwhile:    *)
(* for every set of rules and exceptions and every clock, on days on which *)
(* it does not change (PlainAssumption).                                   *)
THEOREM OffersStayExact == Spec => []OffersAreExact
  BY TypeCorrect, OffersAreCalculated, PTL
-----------------------------------------------------------------------------
(***************************************************************************)
(* The business as the pages see it: what any step of a page does to it.   *)
(***************************************************************************)
Purses == {"customer", "link", "portal", "owner", "landing", "faults"}

SiteOK ==
  /\ agenda \subseteq [id : Nat, slot : Slots]
  /\ \A a \in agenda : 1 <= a.id /\ a.id <= version
  /\ \A a, b \in agenda : a.id = b.id => a = b
  /\ version \in Nat \ {0}
  /\ left \in [customer : Nat, link : Nat, portal : Nat, owner : Nat,
               landing : Nat, faults : Nat]

SiteStep ==
  \/ UNCHANGED siteVars
  \/ \E what \in Purses : Spend(what)
  \/ \E s \in Slots : BookAt(s)
  \/ \E a \in agenda : Remove(a) \/ \E s \in Slots : Move(a, s)
  \/ UNCHANGED agenda /\ Changed

LEMMA SiteInitOK ==
  ASSUME SiteInit
  PROVE  SiteOK
<1>1. Booked \in Slots
  BY BookedAssumption, DaysAssumption DEF Slots, Days
<1>2. left \in [customer : Nat, link : Nat, portal : Nat, owner : Nat,
                landing : Nat, faults : Nat]
  BY BudgetsAssumption DEF SiteInit
<1> QED
  BY <1>1, <1>2 DEF SiteInit, SiteOK

LEMMA SpendFacts ==
  ASSUME SiteOK, NEW what \in Purses, Spend(what)
  PROVE  /\ left' \in [customer : Nat, link : Nat, portal : Nat, owner : Nat,
                       landing : Nat, faults : Nat]
         /\ left[what] # 0
         /\ \A p \in Purses : left[p] = 0 => left'[p] = 0
         /\ UNCHANGED <<agenda, rules, version>>
BY DEF SiteOK, Spend, Purses

LEMMA SiteStepOK ==
  ASSUME SiteOK, SiteStep
  PROVE  /\ SiteOK'
         /\ version <= version'
         /\ \A p \in Purses : left[p] = 0 => left'[p] = 0
<1>1. CASE UNCHANGED siteVars
  BY <1>1 DEF siteVars, SiteOK
<1>2. ASSUME NEW what \in Purses, Spend(what)
      PROVE  /\ SiteOK' /\ version <= version'
             /\ \A p \in Purses : left[p] = 0 => left'[p] = 0
  BY <1>2, SpendFacts DEF SiteOK
<1>3. ASSUME NEW s \in Slots, BookAt(s)
      PROVE  SiteOK' /\ version <= version' /\ left' = left
  <2>1. /\ agenda' = agenda \cup {[id |-> version + 1, slot |-> s]}
        /\ version' = version + 1 /\ left' = left
    BY <1>3 DEF BookAt, Changed
  <2>2. \A a \in agenda : a.id # version + 1
    BY DEF SiteOK
  <2> QED
    BY <2>1, <2>2 DEF SiteOK
<1>4. ASSUME NEW a \in agenda, Remove(a)
      PROVE  SiteOK' /\ version <= version' /\ left' = left
  BY <1>4 DEF Remove, Changed, SiteOK
<1>5. ASSUME NEW a \in agenda, NEW s \in Slots, Move(a, s)
      PROVE  SiteOK' /\ version <= version' /\ left' = left
  <2> DEFINE b == [a EXCEPT !.slot = s]
  <2>1. /\ agenda' = (agenda \ {a}) \cup {b}
        /\ version' = version + 1 /\ left' = left
    BY <1>5 DEF Move, Changed
  <2>2. a \in [id : Nat, slot : Slots]
    BY DEF SiteOK
  <2>3. b \in [id : Nat, slot : Slots] /\ b.id = a.id
    BY <2>2
  <2> HIDE DEF b
  <2> QED
    BY <2>1, <2>3 DEF SiteOK
<1>6. ASSUME UNCHANGED agenda, Changed
      PROVE  SiteOK' /\ version <= version' /\ left' = left
  BY <1>6 DEF Changed, SiteOK
<1> QED
  BY <1>1, <1>2, <1>3, <1>4, <1>5, <1>6 DEF SiteStep, siteVars, SiteOK

\* What is known of an appointment, in any agenda with one row for each.
KnownIn(ag, id) == IF \E a \in ag : a.id = id
                   THEN [slot |-> (CHOOSE a \in ag : a.id = id).slot,
                         active |-> TRUE]
                   ELSE Unknown

LEMMA KnownInFacts ==
  ASSUME NEW ag, NEW id, \A a, b \in ag : a.id = b.id => a = b
  PROVE  /\ \A a \in ag : a.id = id
              => KnownIn(ag, id) = [slot |-> a.slot, active |-> TRUE]
         /\ (\A a \in ag : a.id # id) => KnownIn(ag, id) = Unknown
         /\ KnownIn(ag, id).active <=> \E a \in ag : a.id = id
<1>1. ASSUME NEW a \in ag, a.id = id
      PROVE  KnownIn(ag, id) = [slot |-> a.slot, active |-> TRUE]
  <2>1. (CHOOSE b \in ag : b.id = id) = a
    BY <1>1
  <2> QED
    BY <1>1, <2>1 DEF KnownIn
<1>2. ASSUME \A a \in ag : a.id # id
      PROVE  KnownIn(ag, id) = Unknown
  BY <1>2 DEF KnownIn
<1>3. ~Unknown.active
  BY DEF Unknown
<1> QED
  BY <1>1, <1>2, <1>3

LEMMA KnownStates ==
  ASSUME NEW id
  PROVE  /\ Known(id) = KnownIn(agenda, id)
         /\ Known(id)' = KnownIn(agenda', id)
BY DEF Known, KnownIn

\* What is booked under a new number changes nothing about an older one.
LEMMA BookAtKeeps ==
  ASSUME SiteOK, NEW s \in Slots, BookAt(s), NEW id \in 1..version
  PROVE  KnownIn(agenda', id) = KnownIn(agenda, id)
<1>1. /\ agenda' = agenda \cup {[id |-> version + 1, slot |-> s]}
      /\ version \in Nat /\ id # version + 1
  BY DEF BookAt, SiteOK
<1>2. /\ \A a, b \in agenda : a.id = b.id => a = b
      /\ \A a, b \in agenda' : a.id = b.id => a = b
  BY SiteStepOK DEF SiteStep, SiteOK
<1>3. CASE \E a \in agenda : a.id = id
  <2>1. PICK a \in agenda : a.id = id
    BY <1>3
  <2>2. a \in agenda'
    BY <1>1
  <2>3. KnownIn(agenda, id) = [slot |-> a.slot, active |-> TRUE]
    BY <1>2, <2>1, KnownInFacts
  <2>4. KnownIn(agenda', id) = [slot |-> a.slot, active |-> TRUE]
    BY <1>2, <2>1, <2>2, KnownInFacts
  <2> QED
    BY <2>3, <2>4
<1>4. CASE \A a \in agenda : a.id # id
  BY <1>1, <1>4 DEF KnownIn
<1> QED
  BY <1>3, <1>4

\* What each page may do to it.
BookingTouches ==
  \/ UNCHANGED siteVars
  \/ \E what \in {"customer", "faults"} : Spend(what)
  \/ \E s \in Slots : BookAt(s)

LandingTouches ==
  \/ UNCHANGED siteVars
  \/ \E what \in {"landing", "faults"} : Spend(what)
  \/ SetUp

LEMMA FreeIsOfDay ==
  ASSUME NEW id, NEW d
  PROVE  FreeFor(id, d) \subseteq Slots /\ \A s \in FreeFor(id, d) : s.day = d
BY DEF FreeFor

LEMMA BookingSite ==
  ASSUME BookingNext
  PROVE  BookingTouches /\ SiteStep
<1>1. ASSUME NEW c \in calls, Answer(c) \/ Arrive(c) \/ Lose(c)
      PROVE  BookingTouches
  <2>1. CASE Answer(c)
    BY <2>1, FreeIsOfDay DEF Answer, AnswerBooking, Free, BookingTouches
  <2> QED
    BY <1>1, <2>1 DEF Arrive, Lose, BookingTouches
<1>2. BookingTouches
  BY <1>1 DEF BookingNext, BookingTouches, ChooseDay, ChooseSlot, Submit,
     Midnight
<1> QED
  BY <1>2 DEF BookingTouches, SiteStep, Purses

LEMMA LandingSite ==
  ASSUME LandingNext
  PROVE  LandingTouches /\ SiteStep
<1>1. LandingTouches
  BY Zenon DEF LandingNext, LandingTouches, Visit, TypeRow, SaveRow, DeleteRow,
     Confirm, AnswerVisit, LoseVisit, LandingArrives
<1> QED
  BY <1>1 DEF LandingTouches, SiteStep, Purses, SetUp

LEMMA LinksSite ==
  ASSUME LinksNext
  PROVE  SiteStep
<1>1. ASSUME NEW c \in asked, AnswerAsked(c)
      PROVE  SiteStep
  BY <1>1, FreeIsOfDay DEF AnswerAsked, AnswerChange, Free, SiteStep
<1>2. ASSUME NEW w \in wanted, AnswerWanted(w)
      PROVE  SiteStep
  BY <1>2, FreeIsOfDay DEF AnswerWanted, Free, SiteStep
<1>3. ASSUME NEW c \in asked, LoseAsked(c) \/ AskedArrives(c)
      PROVE  SiteStep
  BY <1>3 DEF LoseAsked, AskedArrives, SiteStep, Purses
<1>4. ASSUME NEW w \in wanted, LoseWanted(w) \/ WantedArrives(w)
      PROVE  SiteStep
  BY <1>4 DEF LoseWanted, WantedArrives, SiteStep, Purses
<1>5. ASSUME NEW r \in portal.list,
             CancelMine(r) \/ \E s \in Slots : Rebook(r, s)
      PROVE  SiteStep
  BY <1>5 DEF CancelMine, Rebook, Act, SiteStep, Purses
<1>6. CASE \/ \E d \in Days : ChooseLinkDay(d)
           \/ \E s \in Slots : ChooseLinkSlot(s)
           \/ SubmitMove \/ SubmitCancel
  BY <1>6 DEF ChooseLinkDay, ChooseLinkSlot, SubmitMove, SubmitCancel,
     SiteStep, Purses
<1>7. CASE PortalLogout \/ FollowLoginLink
  BY <1>7 DEF PortalLogout, FollowLoginLink, Act, SiteStep, Purses
<1> QED
  BY <1>1, <1>2, <1>3, <1>4, <1>5, <1>6, <1>7 DEF LinksNext

\* A step of the dashboard, whose own changes of the agenda are the answers
\* to edits.
LEMMA DashboardSite ==
  ASSUME DashboardNext
  PROVE  /\ SiteStep
         /\ edits' # edits => \/ \E e \in edits : \/ AnswerEdit(e) \/ LoseEdit(e)
                                                \/ EditArrives(e)
                              \/ Spend("owner")
         /\ \/ UNCHANGED siteVars \/ Spend("owner") \/ Spend("faults")
            \/ \E e \in edits : AnswerEdit(e)
<1> DEFINE Quiet == UNCHANGED siteVars \/ Spend("faults")
           Own == Spend("owner")
<1>1. ASSUME NEW a \in Accounts, SignIn(a)
      PROVE  Own
  BY <1>1 DEF SignIn
<1>2. ASSUME NEW v \in Views, OpenView(v)
      PROVE  Own
  BY <1>2 DEF OpenView
<1>3. Logout \/ Reload => Own
  BY DEF Logout, Reload
<1>4. ASSUME NEW l \in loads, AnswerLoad(l) \/ LoseLoad(l) \/ RefreshArrives(l)
      PROVE  Quiet /\ edits' = edits
  BY <1>4 DEF AnswerLoad, LoseLoad, RefreshArrives
<1>5. ASSUME NEW a \in tab.shown.agenda, CancelAppointment(a) \/ OpenMoveForm(a)
      PROVE  Own
  BY <1>5 DEF CancelAppointment, OpenMoveForm, Send
<1>6. AddToSetup \/ Type \/ SaveForm \/ OpenWeek \/ SubmitForm => Own
  BY DEF AddToSetup, Type, SaveForm, OpenWeek, SubmitForm, Send
<1>7. ASSUME NEW d \in Days, ChooseMoveDay(d) \/ ChooseSeriesDay(d)
      PROVE  Own
  BY <1>7 DEF ChooseMoveDay, ChooseSeriesDay
<1>8. ASSUME NEW s \in Slots, ChooseFormSlot(s)
      PROVE  Own
  BY <1>8 DEF ChooseFormSlot
<1>9. ASSUME NEW e \in edits, AnswerEdit(e)
      PROVE  SiteStep
  BY <1>9, FreeIsOfDay
  DEF AnswerEdit, AnswerWeek, Free, SiteStep, SetUp, OpenDay
<1>10. ASSUME NEW e \in edits, LoseEdit(e) \/ EditArrives(e)
       PROVE  Quiet
  BY <1>10 DEF LoseEdit, EditArrives
<1>11. ASSUME NEW r \in lookups, AnswerLookUp(r) \/ LoseLookUp(r) \/ LookUpArrives(r)
       PROVE  Quiet /\ edits' = edits
  BY <1>11 DEF AnswerLookUp, LoseLookUp, LookUpArrives, tabVars
<1>12. ASSUME NEW c \in Clients, SelectClient(c)
       PROVE  Own
  BY <1>12 DEF SelectClient
<1>13. SaveClient => Own
  BY DEF SaveClient
<1>14. ASSUME NEW r \in reads, AnswerRead(r) \/ LoseRead(r) \/ ReadArrives(r)
       PROVE  Quiet /\ edits' = edits
  BY <1>14 DEF AnswerRead, LoseRead, ReadArrives, tabVars
<1>15. Quiet \/ Own => SiteStep
  BY DEF SiteStep, Purses
<1> QED
  BY <1>1, <1>2, <1>3, <1>4, <1>5, <1>6, <1>7, <1>8, <1>9, <1>10, <1>11,
     <1>12, <1>13, <1>14, <1>15 DEF DashboardNext

LEMMA WebSite ==
  ASSUME WebNext
  PROVE  SiteStep
BY BookingSite, LinksSite, DashboardSite, LandingSite DEF WebNext

(***************************************************************************)
(* The page that books.  A booking agrees with the day shown because its   *)
(* slot was chosen from the list, and the list is of the day shown once no *)
(* request for slots that counts is under way and none has overtaken it.   *)
(***************************************************************************)
PageFields == {"first", "loading", "day", "slots", "chosen", "booked", "busy",
               "next", "early", "overtaken"}
CallFields == {"kind", "day", "live", "step", "slot", "early", "slots", "next"}

\* A request and what it brings: slots of the day it is for, and if it books
\* a slot then one of the day the form showed, but for the window.
CallFits(c) ==
  /\ DOMAIN c = CallFields
  /\ c.slots \subseteq Slots
  /\ c.kind \in {"slots", "again"} => \A s \in c.slots : s.day = c.day
  /\ c.kind = "book" /\ c.step = "sent" => c.slot.day = c.day \/ c.early

LookingFor(cs) == \E c \in cs : c.kind = "slots" /\ c.live
LooksFor(cs, d) == \A c \in cs : c.kind = "slots" /\ c.live => c.day = d

ListFits == Looking \/ page.overtaken \/ \A s \in page.slots : s.day = page.day
ChoiceFits == page.chosen = NoSlot \/ page.chosen.day = page.day \/ page.early

BookingOK ==
  /\ DOMAIN page = PageFields
  /\ page.slots \subseteq Slots
  /\ \A c \in calls : CallFits(c)
  /\ LooksFor(calls, page.day)
  /\ ListFits
  /\ ChoiceFits
  /\ BookedAsChosen

LEMMA NewCallFits ==
  ASSUME NEW kind, kind # "book", NEW d
  PROVE  CallFits(Call(kind, d))
BY DEF CallFits, Call, CallFields

LEMMA AbandonFits ==
  ASSUME NEW cs, NEW kinds, \A c \in cs : CallFits(c)
  PROVE  /\ \A c \in Abandon(cs, kinds) : CallFits(c)
         /\ "slots" \notin kinds => \A d : LooksFor(cs, d) => LooksFor(Abandon(cs, kinds), d)
         /\ "slots" \notin kinds /\ LookingFor(cs) => LookingFor(Abandon(cs, kinds))
         /\ "slots" \in kinds => \A c \in Abandon(cs, kinds) : ~(c.kind = "slots" /\ c.live)
<1>1. ASSUME NEW c \in Abandon(cs, kinds)
      PROVE  /\ CallFits(c)
             /\ c \in cs \/ (c.kind \in kinds /\ ~c.live)
  <2>1. PICK b \in cs : c = IF b.kind \in kinds THEN [b EXCEPT !.live = FALSE]
                                                ELSE b
    BY DEF Abandon
  <2>2. CallFits(b)
    BY <2>1
  <2> QED
    BY <2>1, <2>2 DEF CallFits, CallFields
<1>2. ASSUME NEW b \in cs, b.kind \notin kinds
      PROVE  b \in Abandon(cs, kinds)
  BY <1>2 DEF Abandon
<1>3. ASSUME "slots" \in kinds, NEW c \in Abandon(cs, kinds), c.kind = "slots", c.live
      PROVE  FALSE
  <2>1. PICK b \in cs : c = IF b.kind \in kinds THEN [b EXCEPT !.live = FALSE]
                                                ELSE b
    BY DEF Abandon
  <2>2. CallFits(b)
    BY <2>1
  <2> QED
    BY <1>3, <2>1, <2>2 DEF CallFits, CallFields
<1> QED
  BY <1>1, <1>2, <1>3 DEF LooksFor, LookingFor

LEMMA LookForFits ==
  ASSUME NEW p, NEW cs, NEW d, \A c \in cs : CallFits(c), LooksFor(cs, p.day)
  PROVE  /\ \A c \in LookFor(p, cs, d) : CallFits(c)
         /\ LooksFor(LookFor(p, cs, d), d)
         /\ d # p.day => LookingFor(LookFor(p, cs, d))
         /\ d = p.day => LookFor(p, cs, d) = cs
<1>1. CASE d = p.day
  BY <1>1 DEF LookFor
<1>2. CASE d # p.day
  <2>1. LookFor(p, cs, d) = Abandon(cs, {"slots", "next"}) \cup {Call("slots", d)}
    BY <1>2 DEF LookFor
  <2>2. Call("slots", d).kind = "slots" /\ Call("slots", d).live /\ Call("slots", d).day = d
    BY DEF Call
  <2> QED
    BY <1>2, <2>1, <2>2, AbandonFits, NewCallFits DEF LooksFor, LookingFor
<1> QED
  BY <1>1, <1>2

LEMMA ShowingFits ==
  ASSUME NEW p, NEW d, DOMAIN p = PageFields
  PROVE  /\ DOMAIN Showing(p, d) = PageFields
         /\ Showing(p, d).day = d
         /\ Showing(p, d).slots = p.slots
         /\ Showing(p, d).overtaken = p.overtaken
         /\ Showing(p, d).early = p.early
         /\ Showing(p, d).chosen \in {p.chosen, NoSlot}
         /\ d # p.day => Showing(p, d).chosen = NoSlot
         /\ d = p.day => Showing(p, d) = p
BY DEF Showing, PageFields

LEMMA BookingInitOK ==
  ASSUME BookingInit
  PROVE  BookingOK
BY NewCallFits DEF BookingInit, BookingOK, PageFields, LooksFor, ListFits,
   ChoiceFits, BookedAsChosen, Call, NoSlot

LEMMA ChooseDayFits ==
  ASSUME BookingOK, NEW d \in Days, ChooseDay(d)
  PROVE  BookingOK'
<1>1. /\ page' = Showing(page, d) /\ calls' = LookFor(page, calls, d)
      /\ d # page.day /\ bookings' = bookings
  BY DEF ChooseDay
<1>2. /\ \A c \in calls' : CallFits(c)
      /\ LooksFor(calls', d)
      /\ LookingFor(calls')
  BY <1>1, LookForFits DEF BookingOK
<1>3. /\ DOMAIN page' = PageFields /\ page'.day = d /\ page'.slots = page.slots
      /\ page'.chosen = NoSlot
  BY <1>1, ShowingFits DEF BookingOK
<1>4. ListFits'
  BY <1>2 DEF ListFits, Looking, LookingFor
<1> QED
  BY <1>1, <1>2, <1>3, <1>4 DEF BookingOK, ChoiceFits, BookedAsChosen, LooksFor

LEMMA ChooseSlotFits ==
  ASSUME BookingOK, NEW s \in Slots, ChooseSlot(s)
  PROVE  BookingOK'
<1>1. page' = [page EXCEPT !.chosen = s, !.early = Looking \/ page.overtaken]
      /\ calls' = calls /\ bookings' = bookings /\ s \in page.slots
  BY DEF ChooseSlot, Visible
<1>2. /\ DOMAIN page' = PageFields /\ page'.day = page.day
      /\ page'.slots = page.slots /\ page'.chosen = s
      /\ page'.overtaken = page.overtaken
      /\ page'.early = (Looking \/ page.overtaken)
  BY <1>1 DEF BookingOK, PageFields
<1>3. ChoiceFits'
  BY <1>1, <1>2 DEF BookingOK, ListFits, ChoiceFits
<1>4. ListFits'
  BY <1>1, <1>2 DEF BookingOK, ListFits, Looking
<1> QED
  BY <1>1, <1>2, <1>3, <1>4 DEF BookingOK, BookedAsChosen, LooksFor

LEMMA SubmitFits ==
  ASSUME BookingOK, Submit
  PROVE  BookingOK'
<1> DEFINE c == [Call("book", page.day) EXCEPT !.slot = page.chosen,
                                               !.early = page.early]
<1>1. page' = [page EXCEPT !.busy = TRUE] /\ calls' = calls \cup {c}
      /\ bookings' = bookings /\ page.chosen \in Slots
  BY DEF Submit, Visible, BookingOK
<1>2. /\ DOMAIN page' = PageFields /\ page'.day = page.day
      /\ page'.slots = page.slots /\ page'.chosen = page.chosen
      /\ page'.overtaken = page.overtaken /\ page'.early = page.early
  BY <1>1 DEF BookingOK, PageFields
<1>3. page.chosen # NoSlot
  BY <1>1 DEF Slots, NoSlot, Days, None
<1>4. DOMAIN c = CallFields /\ c.kind = "book" /\ c.slots = {}
      /\ c.slot = page.chosen /\ c.day = page.day /\ c.early = page.early
  BY DEF Call, CallFields
<1>5. CallFits(c)
  BY <1>3, <1>4 DEF CallFits, BookingOK, ChoiceFits
<1>6. LooksFor(calls', page'.day)
  BY <1>1, <1>2, <1>4 DEF BookingOK, LooksFor
<1>7. ListFits' /\ ChoiceFits'
  BY <1>1, <1>2 DEF BookingOK, ListFits, ChoiceFits, Looking
<1> QED
  BY <1>1, <1>2, <1>5, <1>6, <1>7 DEF BookingOK, BookedAsChosen

LEMMA MidnightFits ==
  ASSUME BookingOK, Midnight
  PROVE  BookingOK'
<1>1. page' = [page EXCEPT !.first = @ + 1, !.loading = TRUE]
      /\ calls' = Abandon(calls, {"load"}) \cup {Call("load", page.first + 1)}
      /\ bookings' = bookings
  BY DEF Midnight
<1>2. /\ DOMAIN page' = PageFields /\ page'.day = page.day
      /\ page'.slots = page.slots /\ page'.chosen = page.chosen
      /\ page'.overtaken = page.overtaken /\ page'.early = page.early
  BY <1>1 DEF BookingOK, PageFields
<1>3. Call("load", page.first + 1).kind = "load"
  BY DEF Call
<1>4. /\ \A c \in calls' : CallFits(c)
      /\ LooksFor(calls', page'.day)
      /\ Looking => Looking'
  <2> DEFINE kept == Abandon(calls, {"load"})
  <2>1. /\ \A c \in kept : CallFits(c)
        /\ LooksFor(kept, page.day)
        /\ LookingFor(calls) => LookingFor(kept)
    BY AbandonFits DEF BookingOK
  <2>2. calls' = kept \cup {Call("load", page.first + 1)}
    BY <1>1
  <2> HIDE DEF kept
  <2> QED
    BY <1>2, <1>3, <2>1, <2>2, NewCallFits DEF LooksFor, LookingFor, Looking
<1>5. ListFits' /\ ChoiceFits'
  BY <1>1, <1>2, <1>4 DEF BookingOK, ListFits, ChoiceFits
<1> QED
  BY <1>1, <1>2, <1>4, <1>5 DEF BookingOK, BookedAsChosen

\* A request is replaced by its answer.
LEMMA AnsweredFits ==
  ASSUME BookingOK, NEW c \in calls, NEW answer, CallFits(answer),
         answer.kind = c.kind, answer.day = c.day, answer.live = c.live,
         Answered(c, answer), UNCHANGED page, BookedAsChosen'
  PROVE  BookingOK'
<1>1. calls' = (calls \ {c}) \cup {answer}
  BY DEF Answered
<1>2. LooksFor(calls', page.day)
  BY <1>1 DEF BookingOK, LooksFor
<1>3. Looking => Looking'
  BY <1>1 DEF Looking
<1> QED
  BY <1>1, <1>2, <1>3 DEF BookingOK, ListFits, ChoiceFits

LEMMA AnswerFits ==
  ASSUME BookingOK, NEW c \in calls, Answer(c)
  PROVE  BookingOK'
<1>1. CallFits(c) /\ c.step = "sent" /\ UNCHANGED page
  BY DEF BookingOK, Answer
<1>2. CASE c.kind = "book" /\ AnswerBooking(c)
  <2>1. ASSUME NEW step \in {"ok", "failed"}
        PROVE  LET a == [c EXCEPT !.step = step]
               IN CallFits(a) /\ a.kind = c.kind /\ a.day = c.day /\ a.live = c.live
    BY <1>1 DEF CallFits, CallFields
  <2>2. BookedAsChosen'
    BY <1>1, <1>2 DEF AnswerBooking, BookingOK, BookedAsChosen, CallFits
  <2>3. PICK step \in {"ok", "failed"} : Answered(c, [c EXCEPT !.step = step])
    BY <1>2 DEF AnswerBooking
  <2> QED
    BY <1>1, <2>1, <2>2, <2>3, AnsweredFits
<1>3. CASE c.kind # "book"
  <2>1. SUFFICES ASSUME NEW sl, NEW n, 
                   sl = IF c.kind \in {"slots", "again"} THEN Free(c.day) ELSE {},
                   Answered(c, [c EXCEPT !.step = "ok", !.slots = sl, !.next = n])
                 PROVE  BookingOK'
    BY <1>3 DEF Answer
  <2>2. sl \subseteq Slots /\ \A s \in sl : s.day = c.day
    BY <2>1, FreeIsOfDay DEF Free
  <2>3. LET a == [c EXCEPT !.step = "ok", !.slots = sl, !.next = n]
        IN CallFits(a) /\ a.kind = c.kind /\ a.day = c.day /\ a.live = c.live
    BY <1>1, <2>2 DEF CallFits, CallFields
  <2>4. BookedAsChosen'
    BY <1>3 DEF Answer, BookingOK, BookedAsChosen
  <2> QED
    BY <1>1, <2>1, <2>3, <2>4, AnsweredFits
<1> QED
  BY <1>2, <1>3 DEF Answer

LEMMA LoseFits ==
  ASSUME BookingOK, NEW c \in calls, Lose(c)
  PROVE  BookingOK'
<1> DEFINE a == [Call(c.kind, c.day) EXCEPT
                   !.live = c.live, !.step = "failed", !.slot = c.slot]
<1>1. Answered(c, a) /\ UNCHANGED <<page, bookings>>
  BY DEF Lose
<1>2. CallFits(a) /\ a.kind = c.kind /\ a.day = c.day /\ a.live = c.live
  BY DEF CallFits, CallFields, Call
<1> HIDE DEF a
<1> QED
  BY <1>1, <1>2, AnsweredFits DEF BookingOK, BookedAsChosen

LEMMA LoadArrivesFits ==
  ASSUME BookingOK, NEW c \in calls, LoadArrives(c), UNCHANGED bookings
  PROVE  BookingOK'
<1>1. /\ \A b \in calls \ {c} : CallFits(b)
      /\ LooksFor(calls \ {c}, page.day)
      /\ Looking => LookingFor(calls \ {c})
  BY DEF BookingOK, LooksFor, LookingFor, Looking, LoadArrives
<1>2. CASE c.live /\ c.step = "ok"
  <2> DEFINE reset == [page EXCEPT !.chosen = NoSlot, !.loading = FALSE]
  <2>1. page' = Showing(reset, c.day) /\ calls' = LookFor(page, calls \ {c}, c.day)
    BY <1>2 DEF LoadArrives
  <2>2. /\ DOMAIN reset = PageFields /\ reset.day = page.day
        /\ reset.chosen = NoSlot /\ reset.slots = page.slots
        /\ reset.overtaken = page.overtaken
    BY DEF BookingOK, PageFields
  <2> HIDE DEF reset
  <2>3. /\ DOMAIN page' = PageFields /\ page'.day = c.day
        /\ page'.slots = page.slots /\ page'.chosen = NoSlot
        /\ page'.overtaken = page.overtaken
    BY <2>1, <2>2, ShowingFits
  <2>4. /\ \A b \in calls' : CallFits(b)
        /\ LooksFor(calls', c.day)
        /\ c.day # page.day => LookingFor(calls')
        /\ c.day = page.day => calls' = calls \ {c}
    BY <1>1, <2>1, LookForFits
  <2>5. ListFits'
    BY <1>1, <2>3, <2>4 DEF ListFits, Looking, LookingFor, BookingOK
  <2> QED
    BY <2>3, <2>4, <2>5 DEF BookingOK, ChoiceFits, BookedAsChosen
<1>3. CASE ~(c.live /\ c.step = "ok")
  <2>1. page' \in {page, [page EXCEPT !.loading = FALSE]} /\ calls' = calls \ {c}
    BY <1>3 DEF LoadArrives
  <2>2. /\ DOMAIN page' = PageFields /\ page'.day = page.day
        /\ page'.slots = page.slots /\ page'.chosen = page.chosen
        /\ page'.overtaken = page.overtaken /\ page'.early = page.early
    BY <2>1 DEF BookingOK, PageFields
  <2>3. ListFits'
    BY <1>1, <2>1, <2>2 DEF ListFits, Looking, LookingFor, BookingOK
  <2> QED
    BY <1>1, <2>1, <2>2, <2>3 DEF BookingOK, ChoiceFits, BookedAsChosen
<1> QED
  BY <1>2, <1>3

LEMMA SlotsArriveFits ==
  ASSUME BookingOK, NEW c \in calls, SlotsArrive(c), UNCHANGED bookings
  PROVE  BookingOK'
<1>1. CallFits(c) /\ c.kind = "slots"
  BY DEF BookingOK, SlotsArrive
<1>2. CASE c.step = "ok" /\ c.live
  <2>1. page' = [page EXCEPT !.slots = c.slots, !.overtaken = FALSE]
    BY <1>2 DEF SlotsArrive
  <2>2. /\ DOMAIN page' = PageFields /\ page'.day = page.day
        /\ page'.slots = c.slots /\ page'.chosen = page.chosen
        /\ page'.early = page.early
    BY <2>1 DEF BookingOK, PageFields
  <2>3. \A b \in calls' : b \in calls \/ b = Call("next", c.day)
    BY <1>2 DEF SlotsArrive
  <2>4. (\A b \in calls' : CallFits(b)) /\ LooksFor(calls', page.day)
    BY <2>3, NewCallFits DEF BookingOK, LooksFor, Call
  <2>5. ListFits'
    BY <1>1, <1>2, <2>2 DEF ListFits, BookingOK, LooksFor, CallFits
  <2> QED
    BY <1>1, <2>2, <2>4, <2>5
    DEF BookingOK, ChoiceFits, BookedAsChosen, CallFits
<1>3. CASE c.step = "ok" /\ ~c.live
  <2>1. page' = page /\ calls' = calls \ {c}
    BY <1>3 DEF SlotsArrive
  <2>2. Looking => Looking'
    BY <1>3, <2>1 DEF Looking
  <2> QED
    BY <2>1, <2>2 DEF BookingOK, LooksFor, ListFits, ChoiceFits, BookedAsChosen
<1>4. CASE c.step = "failed"
  <2>1. page' = [page EXCEPT !.slots = {}, !.overtaken = FALSE] /\ calls' = calls \ {c}
    BY <1>4 DEF SlotsArrive
  <2>2. /\ DOMAIN page' = PageFields /\ page'.day = page.day
        /\ page'.slots = {} /\ page'.chosen = page.chosen
        /\ page'.early = page.early
    BY <2>1 DEF BookingOK, PageFields
  <2> QED
    BY <2>1, <2>2 DEF BookingOK, LooksFor, ListFits, ChoiceFits, BookedAsChosen
<1> QED
  BY <1>2, <1>3, <1>4 DEF SlotsArrive

LEMMA NextArrivesFits ==
  ASSUME BookingOK, NEW c \in calls, NextArrives(c), UNCHANGED bookings
  PROVE  BookingOK'
<1>1. page' \in {page, [page EXCEPT !.slots = {}], [page EXCEPT !.next = c.next]}
      /\ calls' = calls \ {c}
  BY DEF NextArrives
<1>2. /\ DOMAIN page' = PageFields /\ page'.day = page.day
      /\ page'.slots \in {page.slots, {}} /\ page'.chosen = page.chosen
      /\ page'.overtaken = page.overtaken /\ page'.early = page.early
  BY <1>1 DEF BookingOK, PageFields
<1>3. Looking => Looking'
  BY <1>1 DEF Looking, NextArrives
<1> QED
  BY <1>1, <1>2, <1>3
  DEF BookingOK, LooksFor, ListFits, ChoiceFits, BookedAsChosen

LEMMA BookingArrivesFits ==
  ASSUME BookingOK, NEW c \in calls, BookingArrives(c), UNCHANGED bookings
  PROVE  BookingOK'
<1>1. /\ \A b \in calls \ {c} : CallFits(b)
      /\ LooksFor(calls \ {c}, page.day)
      /\ Looking => LookingFor(calls \ {c})
  BY DEF BookingOK, LooksFor, LookingFor, Looking, BookingArrives
<1>2. CASE c.step = "ok"
  <2> DEFINE p == [page EXCEPT !.busy = FALSE, !.chosen = NoSlot,
                               !.booked = @ \cup {<<c.day, c.slot>>},
                               !.slots = @ \ {c.slot}]
  <2>1. /\ page' = Showing(p, c.day)
        /\ calls' = LookFor(page, calls \ {c}, c.day) \cup {Call("again", c.day)}
    BY <1>2 DEF BookingArrives
  <2>2. /\ DOMAIN p = PageFields /\ p.day = page.day
        /\ p.chosen = NoSlot /\ p.slots \subseteq page.slots
        /\ p.overtaken = page.overtaken
    BY DEF BookingOK, PageFields
  <2> HIDE DEF p
  <2>3. /\ DOMAIN page' = PageFields /\ page'.day = c.day
        /\ page'.slots \subseteq page.slots /\ page'.chosen = NoSlot
        /\ page'.overtaken = page.overtaken
    BY <2>1, <2>2, ShowingFits
  <2> DEFINE cs == LookFor(page, calls \ {c}, c.day)
  <2>4. /\ \A b \in cs : CallFits(b)
        /\ LooksFor(cs, c.day)
        /\ c.day # page.day => LookingFor(cs)
        /\ c.day = page.day => cs = calls \ {c}
    BY <1>1, LookForFits
  <2>5. calls' = cs \cup {Call("again", c.day)} /\ Call("again", c.day).kind = "again"
    BY <2>1 DEF Call
  <2> HIDE DEF cs
  <2>6. (\A b \in calls' : CallFits(b)) /\ LooksFor(calls', c.day)
    BY <2>4, <2>5, NewCallFits DEF LooksFor
  <2>7. ListFits'
    BY <1>1, <2>3, <2>4, <2>5 DEF ListFits, Looking, LookingFor, BookingOK
  <2> QED
    BY <2>3, <2>6, <2>7 DEF BookingOK, ChoiceFits, BookedAsChosen
<1>3. CASE c.step = "failed"
  <2>1. page' = [page EXCEPT !.busy = FALSE] /\ calls' = calls \ {c}
    BY <1>3 DEF BookingArrives
  <2>2. /\ DOMAIN page' = PageFields /\ page'.day = page.day
        /\ page'.slots = page.slots /\ page'.chosen = page.chosen
        /\ page'.overtaken = page.overtaken /\ page'.early = page.early
    BY <2>1 DEF BookingOK, PageFields
  <2>3. ListFits'
    BY <1>1, <2>1, <2>2 DEF ListFits, Looking, LookingFor, BookingOK
  <2> QED
    BY <1>1, <2>1, <2>2, <2>3 DEF BookingOK, ChoiceFits, BookedAsChosen
<1> QED
  BY <1>2, <1>3 DEF BookingArrives

LEMMA AgainArrivesFits ==
  ASSUME BookingOK, NEW c \in calls, AgainArrives(c), UNCHANGED bookings
  PROVE  BookingOK'
<1>1. calls' = calls \ {c} /\ c.kind = "again" /\ CallFits(c)
  BY DEF AgainArrives, BookingOK
<1>2. Looking => Looking'
  BY <1>1 DEF Looking
<1>3. CASE page' = page
  BY <1>1, <1>2, <1>3
  DEF BookingOK, LooksFor, ListFits, ChoiceFits, BookedAsChosen
<1>4. CASE page' = [page EXCEPT !.slots = c.slots, !.overtaken = c.day # page.day]
  <2>1. /\ DOMAIN page' = PageFields /\ page'.day = page.day
        /\ page'.slots = c.slots /\ page'.chosen = page.chosen
        /\ page'.overtaken = (c.day # page.day) /\ page'.early = page.early
    BY <1>4 DEF BookingOK, PageFields
  <2>2. ListFits'
    BY <1>1, <2>1 DEF ListFits, CallFits
  <2> QED
    BY <1>1, <2>1, <2>2
    DEF BookingOK, LooksFor, ChoiceFits, BookedAsChosen, CallFits
<1> QED
  BY <1>3, <1>4 DEF AgainArrives

LEMMA BookingStep ==
  ASSUME BookingOK, BookingNext
  PROVE  BookingOK'
<1>1. ASSUME NEW c \in calls, Arrive(c)
      PROVE  BookingOK'
  BY <1>1, LoadArrivesFits, SlotsArriveFits, NextArrivesFits,
     BookingArrivesFits, AgainArrivesFits DEF Arrive
<1> QED
  BY <1>1, ChooseDayFits, ChooseSlotFits, SubmitFits, MidnightFits,
     AnswerFits, LoseFits DEF BookingNext

LEMMA BookingStays ==
  ASSUME BookingOK, UNCHANGED bookingVars
  PROVE  BookingOK'
BY DEF BookingOK, bookingVars, LooksFor, ListFits, Looking, ChoiceFits,
   BookedAsChosen

(***************************************************************************)
(* The page of an appointment.  A move agrees with the day shown for the   *)
(* same reason, with the effect of the page, Follow, in place of the two   *)
(* of the page that books.                                                 *)
(***************************************************************************)
ManageFields == {"shown", "cancelled", "day", "slots", "chosen", "early",
                 "cancelling", "moving", "blind"}
AskFields == {"kind", "day", "live", "step", "slot", "early", "slots", "read"}

AskFits(c) ==
  /\ DOMAIN c = AskFields
  /\ c.slots \subseteq Slots
  /\ c.kind = "slots" => \A s \in c.slots : s.day = c.day
  /\ c.kind = "move" /\ c.step = "sent" => c.slot.day = c.day \/ c.early

MoveListFits == Searching \/ \A s \in manage.slots : s.day = manage.day
MoveChoiceFits ==
  manage.chosen \in manage.slots => manage.chosen.day = manage.day \/ manage.early

MoveFormOK ==
  /\ DOMAIN manage = ManageFields
  /\ manage.slots \subseteq Slots
  /\ \A c \in asked : AskFits(c)
  /\ LooksFor(asked, manage.day)
  /\ MoveListFits
  /\ MoveChoiceFits
  /\ MovedAsChosen

LEMMA NewAskFits ==
  ASSUME NEW kind, kind # "move", NEW d
  PROVE  /\ AskFits(Ask(kind, d)) /\ Ask(kind, d).kind = kind
         /\ Ask(kind, d).day = d /\ Ask(kind, d).live = TRUE
         /\ Ask(kind, d).step = "sent"
BY DEF AskFits, Ask, AskFields

LEMMA IgnoreFits ==
  ASSUME NEW cs, \A c \in cs : AskFits(c)
  PROVE  \A c \in Ignore(cs) : AskFits(c) /\ ~(c.kind = "slots" /\ c.live)
<1>1. ASSUME NEW c \in Ignore(cs)
      PROVE  AskFits(c) /\ ~(c.kind = "slots" /\ c.live)
  <2>1. PICK b \in cs : c = IF b.kind = "slots" THEN [b EXCEPT !.live = FALSE]
                                                ELSE b
    BY DEF Ignore
  <2>2. AskFits(b)
    BY <2>1
  <2> QED
    BY <2>1, <2>2 DEF AskFits, AskFields
<1> QED
  BY <1>1

\* The effect leaves a page that fits, whatever it was.
LEMMA FollowFits ==
  ASSUME NEW m, NEW cs, DOMAIN m = ManageFields, m.slots \subseteq Slots,
         \A c \in cs : AskFits(c), Follow(m, cs), MovedAsChosen'
  PROVE  MoveFormOK'
<1>1. \A c \in Ignore(cs) : AskFits(c) /\ ~(c.kind = "slots" /\ c.live)
  BY IgnoreFits
<1>2. NoSlot \notin Slots
  BY DEF NoSlot, Slots, None, Days
<1>3. CASE m.shown.active
  <2>1. manage' = [m EXCEPT !.chosen = NoSlot]
        /\ asked' = Ignore(cs) \cup {Ask("slots", m.day)}
    BY <1>3 DEF Follow
  <2>2. /\ DOMAIN manage' = ManageFields /\ manage'.slots = m.slots
        /\ manage'.day = m.day /\ manage'.chosen = NoSlot
    BY <2>1 DEF ManageFields
  <2>3. /\ \A c \in asked' : AskFits(c)
        /\ LooksFor(asked', m.day)
        /\ Searching'
    <3> DEFINE c == Ask("slots", m.day)
    <3>1. AskFits(c) /\ c.kind = "slots" /\ c.day = m.day /\ c.live = TRUE
      BY DEF Ask, AskFits, AskFields
    <3>2. asked' = Ignore(cs) \cup {c}
      BY <2>1
    <3> HIDE DEF c
    <3> QED
      BY <1>1, <3>1, <3>2 DEF LooksFor, Searching
  <2> QED
    BY <1>2, <2>2, <2>3 DEF MoveFormOK, MoveListFits, MoveChoiceFits
<1>4. CASE ~m.shown.active
  <2>1. manage' = [m EXCEPT !.slots = {}] /\ asked' = Ignore(cs)
    BY <1>4 DEF Follow
  <2>2. DOMAIN manage' = ManageFields /\ manage'.slots = {}
    BY <2>1 DEF ManageFields
  <2>3. (\A c \in asked' : AskFits(c)) /\ LooksFor(asked', manage'.day)
    BY <1>1, <2>1 DEF LooksFor
  <2> QED
    BY <2>2, <2>3 DEF MoveFormOK, MoveListFits, MoveChoiceFits
<1> QED
  BY <1>3, <1>4

\* A step that keeps what the form shows keeps it fitting.
LEMMA MoveFormKept ==
  ASSUME MoveFormOK, DOMAIN manage' = ManageFields,
         manage'.slots = manage.slots, manage'.day = manage.day,
         manage'.chosen = manage.chosen, manage'.early = manage.early,
         \A c \in asked' : AskFits(c) /\ (c.kind = "slots" /\ c.live => c.day = manage.day),
         \A c \in asked : c.kind = "slots" /\ c.live
             => \E b \in asked' : b.kind = "slots" /\ b.live,
         MovedAsChosen'
  PROVE  MoveFormOK'
<1>1. LooksFor(asked', manage'.day) /\ (Searching => Searching')
  BY DEF LooksFor, Searching
<1> QED
  BY <1>1 DEF MoveFormOK, MoveListFits, MoveChoiceFits

LEMMA MoveFormInit ==
  ASSUME LinksInit
  PROVE  MoveFormOK
<1>1. AskFits(Ask("load", None)) /\ Ask("load", None).kind = "load"
  BY NewAskFits
<1>2. DOMAIN manage = ManageFields /\ manage.slots = {} /\ moved = {}
  BY DEF LinksInit, ManageFields
<1>3. \A c \in asked : AskFits(c) /\ c.kind = "load"
  BY <1>1 DEF LinksInit
<1> QED
  BY <1>2, <1>3 DEF MoveFormOK, LooksFor, MoveListFits, MoveChoiceFits,
     MovedAsChosen

LEMMA ChooseLinkDayFits ==
  ASSUME MoveFormOK, NEW d \in Days, ChooseLinkDay(d)
  PROVE  MoveFormOK'
<1> DEFINE m == [manage EXCEPT !.day = d]
<1>1. Follow(m, asked) /\ moved' = moved
  BY DEF ChooseLinkDay
<1>2. DOMAIN m = ManageFields /\ m.slots = manage.slots
  BY DEF MoveFormOK, ManageFields
<1> HIDE DEF m
<1> QED
  BY <1>1, <1>2, FollowFits DEF MoveFormOK, MovedAsChosen

LEMMA ChooseLinkSlotFits ==
  ASSUME MoveFormOK, NEW s \in Slots, ChooseLinkSlot(s)
  PROVE  MoveFormOK'
<1>1. manage' = [manage EXCEPT !.chosen = s, !.early = Searching]
      /\ asked' = asked /\ moved' = moved /\ s \in manage.slots
  BY DEF ChooseLinkSlot
<1>2. /\ DOMAIN manage' = ManageFields /\ manage'.day = manage.day
      /\ manage'.slots = manage.slots /\ manage'.chosen = s
      /\ manage'.early = Searching
  BY <1>1 DEF MoveFormOK, ManageFields
<1>3. MoveChoiceFits'
  BY <1>1, <1>2 DEF MoveFormOK, MoveListFits, MoveChoiceFits
<1> QED
  BY <1>1, <1>2, <1>3
  DEF MoveFormOK, MovedAsChosen, LooksFor, MoveListFits, Searching

LEMMA SubmitMoveFits ==
  ASSUME MoveFormOK, SubmitMove
  PROVE  MoveFormOK'
<1> DEFINE c == [Ask("move", manage.day) EXCEPT
                   !.slot = manage.chosen, !.early = manage.early]
<1>1. manage' = [manage EXCEPT !.moving = TRUE] /\ asked' = asked \cup {c}
      /\ moved' = moved /\ manage.chosen \in manage.slots
  BY DEF SubmitMove
<1>2. /\ DOMAIN manage' = ManageFields /\ manage'.day = manage.day
      /\ manage'.slots = manage.slots /\ manage'.chosen = manage.chosen
      /\ manage'.early = manage.early
  BY <1>1 DEF MoveFormOK, ManageFields
<1>3. DOMAIN c = AskFields /\ c.kind = "move" /\ c.slots = {}
      /\ c.slot = manage.chosen /\ c.day = manage.day /\ c.early = manage.early
  BY DEF Ask, AskFields
<1>4. AskFits(c)
  BY <1>1, <1>3 DEF AskFits, MoveFormOK, MoveChoiceFits
<1> HIDE DEF c
<1> QED
  BY <1>1, <1>2, <1>3, <1>4, MoveFormKept
  DEF MoveFormOK, MovedAsChosen, LooksFor

LEMMA SubmitCancelFits ==
  ASSUME MoveFormOK, SubmitCancel
  PROVE  MoveFormOK'
<1>1. manage' = [manage EXCEPT !.cancelling = TRUE]
      /\ asked' = asked \cup {Ask("cancel", None)} /\ moved' = moved
  BY DEF SubmitCancel
<1>2. /\ DOMAIN manage' = ManageFields /\ manage'.day = manage.day
      /\ manage'.slots = manage.slots /\ manage'.chosen = manage.chosen
      /\ manage'.early = manage.early
  BY <1>1 DEF MoveFormOK, ManageFields
<1>3. AskFits(Ask("cancel", None)) /\ Ask("cancel", None).kind = "cancel"
  BY NewAskFits
<1>4. \A c \in asked' : /\ AskFits(c)
                        /\ c.kind = "slots" /\ c.live => c.day = manage.day
  BY <1>1, <1>3 DEF MoveFormOK, LooksFor
<1> QED
  BY <1>1, <1>2, <1>4, MoveFormKept DEF MoveFormOK, MovedAsChosen

\* A request is replaced by its answer.
LEMMA AnswerIsFits ==
  ASSUME MoveFormOK, NEW c \in asked, NEW answer, AskFits(answer),
         answer.kind = c.kind, answer.day = c.day, answer.live = c.live,
         AnswerIs(c, answer), DOMAIN manage' = ManageFields,
         manage'.slots = manage.slots, manage'.day = manage.day,
         manage'.chosen = manage.chosen, manage'.early = manage.early,
         MovedAsChosen'
  PROVE  MoveFormOK'
<1>1. asked' = (asked \ {c}) \cup {answer}
  BY DEF AnswerIs
<1> QED
  BY <1>1, MoveFormKept DEF MoveFormOK, LooksFor

LEMMA AnswerAskedFits ==
  ASSUME MoveFormOK, NEW c \in asked, AnswerAsked(c)
  PROVE  MoveFormOK'
<1>1. AskFits(c) /\ c.step = "sent" /\ UNCHANGED manage
  BY DEF MoveFormOK, AnswerAsked
<1>2. ASSUME NEW answer, AskFits(answer), answer.kind = c.kind,
             answer.day = c.day, answer.live = c.live, AnswerIs(c, answer),
             MovedAsChosen'
      PROVE  MoveFormOK'
  <2>1. DOMAIN manage' = ManageFields
    BY <1>1 DEF MoveFormOK
  <2> QED
    BY <1>1, <1>2, <2>1, AnswerIsFits
<1>3. ASSUME NEW step \in {"ok", "failed"}
      PROVE  LET a == [c EXCEPT !.step = step]
             IN AskFits(a) /\ a.kind = c.kind /\ a.day = c.day /\ a.live = c.live
  BY <1>1 DEF AskFits, AskFields
<1>4. CASE AnswerChange(c)
  <2>1. PICK step \in {"ok", "failed"} : AnswerIs(c, [c EXCEPT !.step = step])
    BY <1>4 DEF AnswerChange
  <2>2. MovedAsChosen'
    BY <1>1, <1>4 DEF AnswerChange, MoveFormOK, MovedAsChosen, AskFits
  <2> QED
    BY <1>2, <1>3, <2>1, <2>2
<1>5. CASE c.kind = "load" /\ moved' = moved
           /\ AnswerIs(c, [c EXCEPT !.step = "ok", !.read = Known(Linked)])
  <2> DEFINE a == [c EXCEPT !.step = "ok", !.read = Known(Linked)]
  <2>1. AskFits(a) /\ a.kind = c.kind /\ a.day = c.day /\ a.live = c.live
    BY <1>1, <1>5 DEF AskFits, AskFields
  <2>2. AnswerIs(c, a)
    BY <1>5
  <2> HIDE DEF a
  <2> QED
    BY <1>2, <1>5, <2>1, <2>2 DEF MoveFormOK, MovedAsChosen
<1>6. CASE c.kind = "slots" /\ moved' = moved
           /\ AnswerIs(c, IF Known(Linked).active
                          THEN [c EXCEPT !.step = "ok",
                                         !.slots = FreeFor(Linked, c.day)]
                          ELSE [c EXCEPT !.step = "failed"])
  <2> DEFINE a == [c EXCEPT !.step = "ok", !.slots = FreeFor(Linked, c.day)]
  <2>1. AskFits(a) /\ a.kind = c.kind /\ a.day = c.day /\ a.live = c.live
    BY <1>1, <1>6, FreeIsOfDay DEF AskFits, AskFields
  <2>2. AnswerIs(c, a) \/ AnswerIs(c, [c EXCEPT !.step = "failed"])
    BY <1>6
  <2> HIDE DEF a
  <2> QED
    BY <1>2, <1>3, <1>6, <2>1, <2>2 DEF MoveFormOK, MovedAsChosen
<1> QED
  BY <1>4, <1>5, <1>6 DEF AnswerAsked

LEMMA LoseAskedFits ==
  ASSUME MoveFormOK, NEW c \in asked, LoseAsked(c)
  PROVE  MoveFormOK'
<1> DEFINE a == [c EXCEPT !.step = "failed", !.slots = {}]
<1>1. AnswerIs(c, a) /\ moved' = moved
      /\ manage' = [manage EXCEPT !.blind = @ \/ /\ c.step = "ok"
                                                 /\ c.kind \in {"cancel", "move"}]
  BY DEF LoseAsked
<1>2. AskFits(a) /\ a.kind = c.kind /\ a.day = c.day /\ a.live = c.live
  BY DEF MoveFormOK, AskFits, AskFields
<1>3. /\ DOMAIN manage' = ManageFields /\ manage'.day = manage.day
      /\ manage'.slots = manage.slots /\ manage'.chosen = manage.chosen
      /\ manage'.early = manage.early
  BY <1>1 DEF MoveFormOK, ManageFields
<1> HIDE DEF a
<1> QED
  BY <1>1, <1>2, <1>3, AnswerIsFits DEF MoveFormOK, MovedAsChosen

\* An answer is taken away and what the form shows is kept.
LEMMA AskedGone ==
  ASSUME MoveFormOK, NEW c \in asked, asked' = asked \ {c},
         c.kind # "slots" \/ ~c.live,
         DOMAIN manage' = ManageFields, MovedAsChosen',
         manage'.slots = manage.slots, manage'.day = manage.day,
         manage'.chosen = manage.chosen, manage'.early = manage.early
  PROVE  MoveFormOK'
BY MoveFormKept DEF MoveFormOK, LooksFor

LEMMA AskedArrivesFits ==
  ASSUME MoveFormOK, NEW c \in asked, AskedArrives(c)
  PROVE  MoveFormOK'
<1>1. /\ MovedAsChosen' /\ \A b \in asked \ {c} : AskFits(b)
      /\ AskFits(c) /\ DOMAIN manage = ManageFields
  BY DEF AskedArrives, MoveFormOK, MovedAsChosen
<1>2. CASE c.kind = "slots"
  <2>1. CASE c.live
    <3>1. manage' = [manage EXCEPT !.slots = c.slots] /\ asked' = asked \ {c}
      BY <1>2, <2>1
      DEF AskedArrives, LinkArrives, LinkSlotsArrive, MoveArrives,
          CancelArrives
    <3>2. /\ DOMAIN manage' = ManageFields /\ manage'.slots = c.slots
          /\ manage'.day = manage.day /\ c.day = manage.day
      BY <1>1, <1>2, <2>1, <3>1 DEF ManageFields, MoveFormOK, LooksFor
    <3> QED
      BY <1>1, <1>2, <3>1, <3>2 DEF MoveFormOK, LooksFor, MoveListFits,
         MoveChoiceFits, AskFits
  <2>2. CASE ~c.live
    BY <1>1, <1>2, <2>2, AskedGone DEF AskedArrives, LinkArrives,
       LinkSlotsArrive, MoveArrives, CancelArrives
  <2> QED
    BY <2>1, <2>2
<1>3. CASE c.kind # "slots" /\ UNCHANGED manage /\ asked' = asked \ {c}
  <2>1. DOMAIN manage' = ManageFields
    BY <1>1, <1>3
  <2> QED
    BY <1>1, <1>3, <2>1, AskedGone
<1>4. CASE LinkArrives(c) /\ c.step = "ok"
  <2> DEFINE m == [manage EXCEPT !.shown = c.read, !.day = c.read.slot.day]
  <2>1. Follow(m, asked \ {c})
    BY <1>4 DEF LinkArrives
  <2>2. DOMAIN m = ManageFields /\ m.slots = manage.slots
    BY <1>1 DEF ManageFields
  <2> HIDE DEF m
  <2> QED
    BY <1>1, <2>1, <2>2, FollowFits DEF MoveFormOK
<1>5. CASE MoveArrives(c)
  <2> DEFINE m == [manage EXCEPT !.moving = FALSE]
             n == [m EXCEPT !.shown = [slot |-> c.slot, active |-> TRUE],
                            !.day = c.slot.day]
  <2>1. /\ DOMAIN m = ManageFields /\ m.slots = manage.slots
        /\ m.day = manage.day /\ m.chosen = manage.chosen
        /\ m.early = manage.early
    BY <1>1 DEF ManageFields
  <2>2. DOMAIN n = ManageFields /\ n.slots = manage.slots
    BY <2>1 DEF ManageFields
  <2>3. /\ c.kind = "move"
        /\ \/ Follow(n, asked \ {c})
           \/ manage' = m /\ asked' = asked \ {c}
    BY <1>5 DEF MoveArrives
  <2> HIDE DEF n
  <2>4. CASE Follow(n, asked \ {c})
    BY <1>1, <2>2, <2>4, FollowFits DEF MoveFormOK
  <2>5. CASE manage' = m /\ asked' = asked \ {c}
    <3> HIDE DEF m
    <3> QED
      BY <1>1, <2>1, <2>3, <2>5, AskedGone
  <2> QED
    BY <2>3, <2>4, <2>5
<1>6. CASE CancelArrives(c)
  <2> DEFINE m == [manage EXCEPT !.cancelling = FALSE]
             n == [m EXCEPT !.shown.active = FALSE, !.cancelled = TRUE]
  <2>1. /\ DOMAIN m = ManageFields /\ m.slots = manage.slots
        /\ m.day = manage.day /\ m.chosen = manage.chosen
        /\ m.early = manage.early
    BY <1>1 DEF ManageFields
  <2>2. DOMAIN n = ManageFields /\ n.slots = manage.slots
    BY <2>1 DEF ManageFields
  <2>3. /\ c.kind = "cancel"
        /\ \/ Follow(n, asked \ {c})
           \/ manage' = m /\ asked' = asked \ {c}
    BY <1>6 DEF CancelArrives
  <2> HIDE DEF n
  <2>4. CASE Follow(n, asked \ {c})
    BY <1>1, <2>2, <2>4, FollowFits DEF MoveFormOK
  <2>5. CASE manage' = m /\ asked' = asked \ {c}
    <3> HIDE DEF m
    <3> QED
      BY <1>1, <2>1, <2>3, <2>5, AskedGone
  <2> QED
    BY <2>3, <2>4, <2>5
<1> QED
  BY <1>2, <1>3, <1>4, <1>5, <1>6
  DEF AskedArrives, LinkArrives, LinkSlotsArrive

LEMMA MoveFormStays ==
  ASSUME MoveFormOK, UNCHANGED <<manage, asked, moved>>
  PROVE  MoveFormOK'
BY DEF MoveFormOK, LooksFor, MoveListFits, Searching, MoveChoiceFits,
   MovedAsChosen

(***************************************************************************)
(* What the page of an appointment shows is the truth: while an answer is  *)
(* on its way the server is ahead of the page by just that answer.  A      *)
(* cancellation that was carried out counts more than a move, whichever    *)
(* answer comes first.                                                     *)
(***************************************************************************)
\* Nobody else changes the appointments.
LinkAlone == left.owner = 0 /\ left.portal = 0 /\ edits = {} /\ wanted = {}

\* At most one move and one cancellation are on their way, the forms know of
\* them, and neither is sent before the appointment is shown.
ChangesTracked ==
  /\ \A c, e \in asked : /\ c.kind \in {"move", "cancel"}
                         /\ e.kind = c.kind
                         => e = c
  /\ \A c \in asked : c.kind = "move" => manage.moving /\ c.slot \in Slots
  /\ \A c \in asked : c.kind = "cancel" => manage.cancelling

\* Nothing but the appointment is asked for before it is shown.
LoadedFirst ==
  /\ \A c \in asked : c.kind = "load" =>
       /\ asked = {c} /\ manage.day = None
       /\ c.step = "ok" => c.read = KnownIn(agenda, Linked)
  /\ manage.day = None =>
       /\ manage.shown = Unknown /\ ~manage.cancelled
       /\ \A c \in asked : c.kind \in {"load", "slots"}

CancelDone == \/ manage.cancelled
              \/ \E c \in asked : c.kind = "cancel" /\ c.step = "ok"
IsMoved(c) == c.kind = "move" /\ c.step = "ok"

\* What the server knows of the appointment is what is shown, but for the
\* answers on their way.
ShownButFor ==
  /\ CancelDone => KnownIn(agenda, Linked) = Unknown
  /\ ~CancelDone => \A c \in asked : IsMoved(c) =>
       KnownIn(agenda, Linked) = [slot |-> c.slot, active |-> TRUE]
  /\ ~CancelDone /\ (\A c \in asked : ~IsMoved(c)) /\ manage.day # None =>
       KnownIn(agenda, Linked) = manage.shown

LinkOK ==
  ~manage.blind => LinkAlone /\ ChangesTracked /\ LoadedFirst /\ ShownButFor

LEMMA LinkInitOK ==
  ASSUME SiteInit, LinksInit, DashboardInit
  PROVE  LinkOK
<1>1. /\ manage.shown = Unknown /\ ~manage.cancelled /\ manage.day = None
      /\ manage.blind <=> left.owner + left.portal > 0
  BY DEF LinksInit
<1>2. left.owner \in Nat /\ left.portal \in Nat
  BY SiteInitOK DEF SiteOK
<1>3. \A c \in asked : c.kind = "load" /\ c.step = "sent" /\ asked = {c}
  <2>1. Ask("load", None).kind = "load" /\ Ask("load", None).step = "sent"
    BY DEF Ask
  <2>2. asked \in {{}, {Ask("load", None)}}
    BY DEF LinksInit
  <2> QED
    BY <2>1, <2>2
<1>4. ~manage.blind => LinkAlone
  <2>1. SUFFICES ASSUME ~manage.blind
                 PROVE  LinkAlone
    OBVIOUS
  <2>2. left.owner = 0 /\ left.portal = 0
    <3>1. ~(left.owner + left.portal > 0)
      BY <1>1, <2>1
    <3> QED
      BY <1>2, <3>1
  <2>3. wanted = {} /\ edits = {}
    BY <2>2 DEF LinksInit, DashboardInit
  <2> QED
    BY <2>2, <2>3 DEF LinkAlone
<1> QED
  BY <1>1, <1>3, <1>4 DEF LinkOK, ChangesTracked, LoadedFirst, ShownButFor,
     CancelDone, IsMoved

\* What follows from the invariant.
LEMMA LinkOKTells ==
  ASSUME SiteOK, LinkOK
  PROVE  LinkTellsTruth
<1>1. SUFFICES ASSUME ~manage.blind, manage.day # None,
                      \A c \in asked : c.kind \notin {"move", "cancel"}
               PROVE  IF Changeable THEN Known(Linked) = manage.shown
                                    ELSE ~Known(Linked).active
  BY DEF LinkTellsTruth
<1>2. Known(Linked) = KnownIn(agenda, Linked) /\ ~Unknown.active
  BY KnownStates DEF Unknown
<1> QED
  BY <1>1, <1>2 DEF LinkOK, ShownButFor, CancelDone, IsMoved, Changeable

\* Somebody else does something.
LEMMA LinkElsewhere ==
  ASSUME LinkOK, UNCHANGED <<manage, asked>>,
         ~manage.blind => LinkAlone' /\ KnownIn(agenda', Linked) = KnownIn(agenda, Linked)
  PROVE  LinkOK'
BY DEF LinkOK, ChangesTracked, LoadedFirst, ShownButFor, CancelDone, IsMoved

LEMMA LinkAloneStays ==
  ASSUME SiteOK, SiteStep, LinkAlone, edits' = edits, wanted' = wanted
  PROVE  LinkAlone'
<1>1. left.owner = 0 /\ left.portal = 0 => left'.owner = 0 /\ left'.portal = 0
  BY SiteStepOK DEF Purses
<1> QED
  BY <1>1 DEF LinkAlone

\* A step of the page that leaves the moves and cancellations as they are.
LEMMA TruthKept ==
  ASSUME ChangesTracked, LoadedFirst, ShownButFor,
         KnownIn(agenda', Linked) = KnownIn(agenda, Linked),
         manage'.shown = manage.shown, manage'.cancelled = manage.cancelled,
         manage'.day = None <=> manage.day = None,
         manage'.moving = manage.moving,
         manage'.cancelling = manage.cancelling,
         \A x \in asked' : x.kind # "slots" => x \in asked,
         \A x \in asked : x.kind \in {"move", "cancel"} => x \in asked',
         \A x \in asked' : x.kind = "load" => asked' = {x}
  PROVE  ChangesTracked' /\ LoadedFirst' /\ ShownButFor'
<1>1. ChangesTracked'
  BY DEF ChangesTracked
<1>2. LoadedFirst'
  BY DEF LoadedFirst
<1>3. CancelDone' <=> CancelDone
  BY DEF CancelDone
<1>4. \A x \in asked : IsMoved(x) => x \in asked'
  BY DEF IsMoved
<1>5. \A x \in asked' : IsMoved(x) => x \in asked
  BY DEF IsMoved
<1>6. ShownButFor'
  BY <1>3, <1>4, <1>5 DEF ShownButFor
<1> QED
  BY <1>1, <1>2, <1>6

\* What the effect of the page leaves alone.
LEMMA FollowKeeps ==
  ASSUME NEW m, NEW cs, DOMAIN m = ManageFields, \A c \in cs : AskFits(c),
         Follow(m, cs)
  PROVE  /\ manage'.shown = m.shown /\ manage'.cancelled = m.cancelled
         /\ manage'.day = m.day /\ manage'.moving = m.moving
         /\ manage'.cancelling = m.cancelling /\ manage'.blind = m.blind
         /\ \A x \in asked' : x.kind # "slots" => x \in cs
         /\ \A x \in cs : x.kind # "slots" => x \in asked'
<1>1. /\ \A x \in Ignore(cs) : x.kind # "slots" => x \in cs
      /\ \A x \in cs : x.kind # "slots" => x \in Ignore(cs)
  <2>1. ASSUME NEW x \in Ignore(cs), x.kind # "slots"
        PROVE  x \in cs
    <3>1. PICK b \in cs : x = IF b.kind = "slots" THEN [b EXCEPT !.live = FALSE]
                                                  ELSE b
      BY DEF Ignore
    <3>2. AskFits(b)
      BY <3>1
    <3> QED
      BY <2>1, <3>1, <3>2 DEF AskFits, AskFields
  <2>2. ASSUME NEW x \in cs, x.kind # "slots"
        PROVE  x \in Ignore(cs)
    BY <2>2 DEF Ignore
  <2> QED
    BY <2>1, <2>2
<1>2. Ask("slots", m.day).kind = "slots"
  BY DEF Ask
<1>3. CASE m.shown.active
  BY <1>1, <1>2, <1>3 DEF Follow, ManageFields
<1>4. CASE ~m.shown.active
  BY <1>1, <1>4 DEF Follow, ManageFields
<1> QED
  BY <1>3, <1>4

\* The forms are only used once the appointment is shown.
LEMMA ChangeableFacts ==
  ASSUME LoadedFirst, Changeable
  PROVE  manage.day # None /\ \A c \in asked : c.kind # "load"
BY DEF LoadedFirst, Changeable, Unknown

LEMMA ChangesNeedLoad ==
  ASSUME LoadedFirst, NEW c \in asked, c.kind \in {"move", "cancel"}
  PROVE  manage.day # None /\ \A e \in asked : e.kind # "load"
BY DEF LoadedFirst

Truth == ChangesTracked /\ LoadedFirst /\ ShownButFor

LEMMA SubmitTruth ==
  ASSUME MoveFormOK, Truth, SubmitMove \/ SubmitCancel, UNCHANGED agenda
  PROVE  Truth'
<1>1. manage.day # None /\ \A c \in asked : c.kind # "load"
  BY ChangeableFacts DEF SubmitMove, SubmitCancel, Truth
<1>2. /\ manage'.shown = manage.shown /\ manage'.cancelled = manage.cancelled
      /\ manage'.day = manage.day
  BY DEF SubmitMove, SubmitCancel, MoveFormOK, ManageFields
<1>3. CASE SubmitMove
  <2> DEFINE c == [Ask("move", manage.day) EXCEPT
                     !.slot = manage.chosen, !.early = manage.early]
  <2>1. /\ asked' = asked \cup {c} /\ ~manage.moving
        /\ manage'.moving /\ manage'.cancelling = manage.cancelling
        /\ manage.chosen \in Slots
    BY <1>3 DEF SubmitMove, MoveFormOK, ManageFields
  <2>2. c.kind = "move" /\ c.slot = manage.chosen /\ c.step = "sent"
    BY DEF Ask
  <2> HIDE DEF c
  <2>3. ChangesTracked'
    BY <2>1, <2>2 DEF ChangesTracked, Truth
  <2>4. LoadedFirst'
    BY <1>1, <1>2, <2>1, <2>2 DEF LoadedFirst
  <2>5. CancelDone' <=> CancelDone
    BY <1>2, <2>1, <2>2 DEF CancelDone
  <2>6. ShownButFor'
    BY <1>1, <1>2, <2>1, <2>2, <2>5 DEF ShownButFor, IsMoved, Truth
  <2> QED
    BY <2>3, <2>4, <2>6 DEF Truth
<1>4. CASE SubmitCancel
  <2> DEFINE c == Ask("cancel", None)
  <2>1. /\ asked' = asked \cup {c} /\ ~manage.cancelling
        /\ manage'.cancelling /\ manage'.moving = manage.moving
    BY <1>4 DEF SubmitCancel, MoveFormOK, ManageFields
  <2>2. c.kind = "cancel" /\ c.step = "sent"
    BY DEF Ask
  <2> HIDE DEF c
  <2>3. ChangesTracked'
    BY <2>1, <2>2 DEF ChangesTracked, Truth
  <2>4. LoadedFirst'
    BY <1>1, <1>2, <2>1, <2>2 DEF LoadedFirst
  <2>5. CancelDone' <=> CancelDone
    BY <1>2, <2>1, <2>2 DEF CancelDone
  <2>6. ShownButFor'
    BY <1>1, <1>2, <2>1, <2>2, <2>5 DEF ShownButFor, IsMoved, Truth
  <2> QED
    BY <2>3, <2>4, <2>6 DEF Truth
<1> QED
  BY <1>3, <1>4

LEMMA ChooseTruth ==
  ASSUME MoveFormOK, Truth, UNCHANGED agenda,
         (\E d \in Days : ChooseLinkDay(d)) \/ (\E s \in Slots : ChooseLinkSlot(s))
  PROVE  Truth'
<1>1. manage.day # None /\ \A c \in asked : c.kind # "load"
  BY ChangeableFacts DEF ChooseLinkDay, ChooseLinkSlot, Truth
<1>2. ASSUME NEW d \in Days, ChooseLinkDay(d)
      PROVE  Truth'
  <2> DEFINE m == [manage EXCEPT !.day = d]
  <2>1. Follow(m, asked)
    BY <1>2 DEF ChooseLinkDay
  <2>2. /\ DOMAIN m = ManageFields /\ m.day = d /\ d # None
        /\ m.shown = manage.shown /\ m.cancelled = manage.cancelled
        /\ m.moving = manage.moving /\ m.cancelling = manage.cancelling
    BY DEF MoveFormOK, ManageFields, Days, None
  <2> HIDE DEF m
  <2>3. /\ manage'.shown = manage.shown /\ manage'.cancelled = manage.cancelled
        /\ manage'.day = d /\ manage'.moving = manage.moving
        /\ manage'.cancelling = manage.cancelling
        /\ \A x \in asked' : x.kind # "slots" => x \in asked
        /\ \A x \in asked : x.kind # "slots" => x \in asked'
    BY <2>1, <2>2, FollowKeeps DEF MoveFormOK
  <2> QED
    BY <1>1, <2>2, <2>3, TruthKept DEF Truth
<1>3. ASSUME NEW s \in Slots, ChooseLinkSlot(s)
      PROVE  Truth'
  <2>1. /\ manage'.shown = manage.shown /\ manage'.cancelled = manage.cancelled
        /\ manage'.day = manage.day /\ manage'.moving = manage.moving
        /\ manage'.cancelling = manage.cancelling /\ asked' = asked
    BY <1>3 DEF ChooseLinkSlot, MoveFormOK, ManageFields
  <2> QED
    BY <1>1, <2>1, TruthKept DEF Truth
<1> QED
  BY <1>2, <1>3

LEMMA AnswerChangeTruth ==
  ASSUME SiteOK, SiteOK', MoveFormOK, Truth, NEW c \in asked, c.step = "sent",
         AnswerChange(c), UNCHANGED manage
  PROVE  Truth'
<1>1. c.kind \in {"move", "cancel"} /\ DOMAIN c = AskFields
  BY DEF AnswerChange, MoveFormOK, AskFits
<1>2. manage.day # None /\ \A e \in asked : e.kind # "load"
  BY <1>1, ChangesNeedLoad DEF Truth
<1>3. PICK step \in {"ok", "failed"} :
        /\ AnswerIs(c, [c EXCEPT !.step = step])
        /\ step = "failed" => UNCHANGED agenda
        /\ step = "ok" => \E r \in agenda :
             /\ r.id = Linked
             /\ \/ c.kind = "cancel" /\ Remove(r)
                \/ c.kind = "move" /\ Move(r, c.slot)
  BY DEF AnswerChange, siteVars
<1> DEFINE a == [c EXCEPT !.step = step]
<1>4. /\ a.kind = c.kind /\ a.slot = c.slot /\ a.step = step
      /\ asked' = (asked \ {c}) \cup {a}
  BY <1>1, <1>3 DEF AskFields, AnswerIs
<1>5. step = "failed" => UNCHANGED agenda
  BY <1>3
<1> HIDE DEF a
<1>6. ChangesTracked'
  BY <1>1, <1>4 DEF ChangesTracked, Truth
<1>7. LoadedFirst'
  BY <1>1, <1>2, <1>4 DEF LoadedFirst
<1>8. CASE step = "failed"
  <2>1. CancelDone' <=> CancelDone
    BY <1>4, <1>8 DEF CancelDone
  <2>2. ShownButFor'
    BY <1>2, <1>4, <1>5, <1>8, <2>1 DEF ShownButFor, IsMoved, Truth
  <2> QED
    BY <1>6, <1>7, <2>2 DEF Truth
<1>9. CASE step = "ok"
  <2>1. PICK r \in agenda :
          /\ r.id = Linked
          /\ \/ c.kind = "cancel" /\ Remove(r)
             \/ c.kind = "move" /\ Move(r, c.slot)
    BY <1>3, <1>9
  <2>2. \A x, y \in agenda : x.id = y.id => x = y
    BY DEF SiteOK
  <2>3. CASE c.kind = "cancel" /\ Remove(r)
    <3>1. \A x \in agenda' : x.id # Linked
      BY <2>1, <2>2, <2>3 DEF Remove
    <3>2. KnownIn(agenda', Linked) = Unknown
      BY <3>1 DEF KnownIn
    <3>3. CancelDone'
      BY <1>4, <1>9, <2>3 DEF CancelDone
    <3> QED
      BY <1>6, <1>7, <3>2, <3>3 DEF Truth, ShownButFor
  <2>4. CASE c.kind = "move" /\ Move(r, c.slot)
    <3>1. KnownIn(agenda, Linked) # Unknown
      <4>1. KnownIn(agenda, Linked).active /\ ~Unknown.active
        BY <2>1, <2>2, KnownInFacts DEF Unknown
      <4> QED
        BY <4>1
    <3>2. ~CancelDone
      BY <3>1 DEF Truth, ShownButFor
    <3>3. ~CancelDone'
      BY <1>4, <2>4, <3>2 DEF CancelDone
    <3>4. r \in [id : Nat, slot : Slots]
      BY <2>1 DEF SiteOK
    <3> DEFINE b == [r EXCEPT !.slot = c.slot]
    <3>5. b \in agenda' /\ b.id = Linked /\ b.slot = c.slot
      BY <2>1, <2>4, <3>4 DEF Move
    <3> HIDE DEF b
    <3>6. \A x, y \in agenda' : x.id = y.id => x = y
      BY DEF SiteOK
    <3>7. KnownIn(agenda', Linked) = [slot |-> c.slot, active |-> TRUE]
      BY <3>5, <3>6, KnownInFacts
    <3>8. \A x \in asked' : IsMoved(x) => x = a
      BY <1>4, <2>4 DEF IsMoved, Truth, ChangesTracked
    <3>9. IsMoved(a) /\ a \in asked'
      BY <1>4, <1>9, <2>4 DEF IsMoved
    <3>10. ShownButFor'
      BY <1>4, <3>3, <3>7, <3>8, <3>9 DEF ShownButFor
    <3> QED
      BY <1>6, <1>7, <3>10 DEF Truth
  <2> QED
    BY <2>1, <2>3, <2>4
<1> QED
  BY <1>8, <1>9

\* An answer or a request turns into a failure.
LEMMA FailedTruth ==
  ASSUME Truth, UNCHANGED agenda, NEW c \in asked, NEW a,
         a.kind = c.kind, a.slot = c.slot, a.step = "failed",
         asked' = (asked \ {c}) \cup {a},
         c.step = "ok" => c.kind \notin {"move", "cancel"},
         manage'.shown = manage.shown, manage'.cancelled = manage.cancelled,
         manage'.day = manage.day, manage'.moving = manage.moving,
         manage'.cancelling = manage.cancelling
  PROVE  Truth'
<1>1. ChangesTracked'
  BY DEF Truth, ChangesTracked
<1>2. LoadedFirst'
  BY DEF Truth, LoadedFirst
<1>3. CancelDone' <=> CancelDone
  BY DEF CancelDone
<1>4. /\ \A x \in asked' : IsMoved(x) => x \in asked
      /\ \A x \in asked : IsMoved(x) => x \in asked'
  BY DEF IsMoved
<1>5. ShownButFor'
  BY <1>3, <1>4 DEF Truth, ShownButFor
<1> QED
  BY <1>1, <1>2, <1>5 DEF Truth

LEMMA AnswerTruth ==
  ASSUME MoveFormOK, Truth, UNCHANGED <<manage, agenda>>, NEW c \in asked,
         \/ /\ c.kind = "load"
            /\ AnswerIs(c, [c EXCEPT !.step = "ok", !.read = Known(Linked)])
         \/ /\ c.kind = "slots"
            /\ AnswerIs(c, IF Known(Linked).active
                           THEN [c EXCEPT !.step = "ok",
                                          !.slots = FreeFor(Linked, c.day)]
                           ELSE [c EXCEPT !.step = "failed"])
  PROVE  Truth'
<1>1. DOMAIN c = AskFields
  BY DEF MoveFormOK, AskFits
<1>2. CASE c.kind = "load"
  <2>1. PICK a : /\ a = [c EXCEPT !.step = "ok", !.read = Known(Linked)]
                 /\ asked' = (asked \ {c}) \cup {a}
    BY <1>2 DEF AnswerIs
  <2>2. a.kind = "load" /\ a.read = KnownIn(agenda, Linked)
    BY <1>1, <1>2, <2>1, KnownStates DEF AskFields
  <2>3. asked = {c} /\ asked' = {a} /\ manage.day = None
    BY <1>2, <2>1 DEF Truth, LoadedFirst
  <2>4. manage.shown = Unknown /\ ~manage.cancelled
    BY <2>3 DEF Truth, LoadedFirst
  <2> QED
    BY <2>2, <2>3, <2>4 DEF Truth, ChangesTracked, LoadedFirst, ShownButFor,
       CancelDone, IsMoved
<1>3. CASE c.kind = "slots"
  <2>1. PICK a : a.kind = "slots" /\ asked' = (asked \ {c}) \cup {a}
    <3>1. /\ [c EXCEPT !.step = "ok", !.slots = FreeFor(Linked, c.day)].kind = "slots"
          /\ [c EXCEPT !.step = "failed"].kind = "slots"
      BY <1>1, <1>3 DEF AskFields
    <3> QED
      BY <1>3, <3>1 DEF AnswerIs
  <2>2. \A x \in asked' : x.kind = "load" => asked' = {x}
    BY <1>3, <2>1 DEF Truth, LoadedFirst
  <2> QED
    BY <1>3, <2>1, <2>2, TruthKept DEF Truth
<1> QED
  BY <1>2, <1>3

LEMMA LoseTruth ==
  ASSUME MoveFormOK, Truth, UNCHANGED agenda, NEW c \in asked, LoseAsked(c),
         ~manage'.blind
  PROVE  Truth' /\ ~manage.blind
<1>1. DOMAIN c = AskFields /\ DOMAIN manage = ManageFields
  BY DEF MoveFormOK, AskFits
<1>2. PICK a : /\ a = [c EXCEPT !.step = "failed", !.slots = {}]
               /\ asked' = (asked \ {c}) \cup {a}
  BY DEF LoseAsked, AnswerIs
<1>3. a.kind = c.kind /\ a.slot = c.slot /\ a.step = "failed"
  BY <1>1, <1>2 DEF AskFields
<1>4. manage' = [manage EXCEPT !.blind = @ \/ /\ c.step = "ok"
                                              /\ c.kind \in {"cancel", "move"}]
  BY DEF LoseAsked
<1>5. /\ manage'.shown = manage.shown /\ manage'.cancelled = manage.cancelled
      /\ manage'.day = manage.day /\ manage'.moving = manage.moving
      /\ manage'.cancelling = manage.cancelling
  BY <1>1, <1>4 DEF ManageFields
<1>6. manage'.blind = (manage.blind \/ /\ c.step = "ok"
                                       /\ c.kind \in {"cancel", "move"})
  BY <1>1, <1>4 DEF ManageFields
<1>7. ~manage.blind /\ (c.step = "ok" => c.kind \notin {"move", "cancel"})
  BY <1>6
<1> QED
  BY <1>2, <1>3, <1>5, <1>7, FailedTruth

LEMMA LinkArrivesTruth ==
  ASSUME SiteOK, MoveFormOK, Truth, UNCHANGED agenda, NEW c \in asked,
         LinkArrives(c) \/ LinkSlotsArrive(c)
  PROVE  Truth' /\ manage'.blind = manage.blind
<1>1. DOMAIN manage = ManageFields
  BY DEF MoveFormOK
<1>2. CASE LinkArrives(c) /\ c.step = "ok"
  <2> DEFINE m == [manage EXCEPT !.shown = c.read, !.day = c.read.slot.day]
  <2>1. Follow(m, asked \ {c})
    BY <1>2 DEF LinkArrives
  <2>2. /\ asked = {c} /\ manage.day = None
        /\ c.read = KnownIn(agenda, Linked)
    BY <1>2 DEF LinkArrives, Truth, LoadedFirst
  <2>3. ~manage.cancelled
    BY <2>2 DEF Truth, LoadedFirst
  <2>4. /\ DOMAIN m = ManageFields /\ m.shown = c.read
        /\ m.day = c.read.slot.day /\ m.cancelled = manage.cancelled
        /\ m.blind = manage.blind
    BY <1>1 DEF ManageFields
  <2> HIDE DEF m
  <2>5. /\ manage'.shown = c.read /\ manage'.day = c.read.slot.day
        /\ manage'.cancelled = manage.cancelled
        /\ manage'.blind = manage.blind
        /\ \A x \in asked' : x.kind = "slots"
    BY <2>1, <2>2, <2>4, FollowKeeps
  <2>6. c.read.slot.day = None => c.read = Unknown
    <3>1. CASE \E a \in agenda : a.id = Linked
      <4>1. PICK a \in agenda : a.id = Linked
        BY <3>1
      <4>2. \A x, y \in agenda : x.id = y.id => x = y
        BY DEF SiteOK
      <4>3. c.read = [slot |-> a.slot, active |-> TRUE]
        BY <2>2, <4>1, <4>2, KnownInFacts
      <4>4. a.slot.day # None
        BY <4>1 DEF SiteOK, Slots, Days, None
      <4> QED
        BY <4>3, <4>4
    <3>2. CASE \A a \in agenda : a.id # Linked
      BY <2>2, <3>2 DEF KnownIn
    <3> QED
      BY <3>1, <3>2
  <2>7. ChangesTracked' /\ ShownButFor'
    BY <2>2, <2>3, <2>5 DEF ChangesTracked, ShownButFor, CancelDone, IsMoved
  <2>8. LoadedFirst'
    BY <2>3, <2>5, <2>6 DEF LoadedFirst
  <2> QED
    BY <2>5, <2>7, <2>8 DEF Truth
<1>3. CASE (LinkArrives(c) /\ c.step # "ok") \/ LinkSlotsArrive(c)
  <2>1. /\ asked' = asked \ {c} /\ c.kind \in {"load", "slots"}
        /\ manage' \in {manage, [manage EXCEPT !.slots = c.slots]}
    BY <1>3 DEF LinkArrives, LinkSlotsArrive
  <2>2. /\ manage'.shown = manage.shown /\ manage'.cancelled = manage.cancelled
        /\ manage'.day = manage.day /\ manage'.moving = manage.moving
        /\ manage'.cancelling = manage.cancelling
        /\ manage'.blind = manage.blind
    BY <1>1, <2>1 DEF ManageFields
  <2>3. \A x \in asked' : x.kind = "load" => asked' = {x}
    BY <2>1 DEF Truth, LoadedFirst
  <2> QED
    BY <2>1, <2>2, <2>3, TruthKept DEF Truth
<1> QED
  BY <1>2, <1>3

LEMMA ChangeArrivesTruth ==
  ASSUME MoveFormOK, Truth, UNCHANGED agenda, NEW c \in asked,
         MoveArrives(c) \/ CancelArrives(c)
  PROVE  Truth' /\ manage'.blind = manage.blind
<1>1. DOMAIN manage = ManageFields /\ \A x \in asked \ {c} : AskFits(x)
  BY DEF MoveFormOK
<1>2. c.kind \in {"move", "cancel"}
  BY DEF MoveArrives, CancelArrives
<1>3. manage.day # None /\ \A e \in asked : e.kind # "load"
  BY <1>2, ChangesNeedLoad DEF Truth
<1>4. \A x \in asked \ {c} : x.kind # c.kind
  BY <1>2 DEF Truth, ChangesTracked
<1>5. CASE MoveArrives(c) /\ c.step = "ok"
  <2> DEFINE m == [manage EXCEPT !.moving = FALSE]
             n == [m EXCEPT !.shown = [slot |-> c.slot, active |-> TRUE],
                            !.day = c.slot.day]
  <2>1. c.kind = "move" /\ Follow(n, asked \ {c})
    BY <1>5 DEF MoveArrives
  <2>2. /\ DOMAIN n = ManageFields
        /\ n.shown = [slot |-> c.slot, active |-> TRUE]
        /\ n.day = c.slot.day /\ n.cancelled = manage.cancelled
        /\ n.cancelling = manage.cancelling /\ n.blind = manage.blind
    BY <1>1 DEF ManageFields
  <2> HIDE DEF n
  <2>3. /\ manage'.shown = [slot |-> c.slot, active |-> TRUE]
        /\ manage'.day = c.slot.day /\ manage'.cancelled = manage.cancelled
        /\ manage'.cancelling = manage.cancelling
        /\ manage'.blind = manage.blind
        /\ \A x \in asked' : x.kind # "slots" => x \in asked \ {c}
        /\ \A x \in asked \ {c} : x.kind # "slots" => x \in asked'
    BY <1>1, <2>1, <2>2, FollowKeeps
  <2>4. c.slot.day # None
    BY <2>1 DEF Truth, ChangesTracked, Slots, Days, None
  <2>5. \A x \in asked' : x.kind # "move" /\ x.kind # "load"
    BY <1>3, <1>4, <2>1, <2>3
  <2>6. ChangesTracked'
    BY <2>3, <2>5 DEF Truth, ChangesTracked
  <2>7. LoadedFirst'
    BY <2>3, <2>4, <2>5 DEF LoadedFirst
  <2>8. CancelDone' <=> CancelDone
    BY <2>1, <2>3 DEF CancelDone
  <2>9. ShownButFor'
    BY <1>5, <2>1, <2>3, <2>5, <2>8 DEF Truth, ShownButFor, IsMoved
  <2> QED
    BY <2>3, <2>6, <2>7, <2>9 DEF Truth
<1>6. CASE CancelArrives(c) /\ c.step = "ok"
  <2> DEFINE m == [manage EXCEPT !.cancelling = FALSE]
             n == [m EXCEPT !.shown.active = FALSE, !.cancelled = TRUE]
  <2>1. c.kind = "cancel" /\ Follow(n, asked \ {c})
    BY <1>6 DEF CancelArrives
  <2>2. /\ DOMAIN n = ManageFields /\ n.cancelled = TRUE
        /\ n.day = manage.day
        /\ n.moving = manage.moving /\ n.blind = manage.blind
    BY <1>1 DEF ManageFields
  <2> HIDE DEF n
  <2>3. /\ manage'.cancelled = TRUE /\ manage'.day = manage.day
        /\ manage'.moving = manage.moving /\ manage'.blind = manage.blind
        /\ \A x \in asked' : x.kind # "slots" => x \in asked \ {c}
    BY <1>1, <2>1, <2>2, FollowKeeps
  <2>4. \A x \in asked' : x.kind # "cancel" /\ x.kind # "load"
    BY <1>3, <1>4, <2>1, <2>3
  <2>5. ChangesTracked'
    BY <2>3, <2>4 DEF Truth, ChangesTracked
  <2>6. LoadedFirst'
    BY <1>3, <2>3, <2>4 DEF LoadedFirst
  <2>7. CancelDone /\ CancelDone'
    BY <1>6, <2>1, <2>3 DEF CancelDone
  <2>8. ShownButFor'
    BY <2>7 DEF Truth, ShownButFor
  <2> QED
    BY <2>3, <2>5, <2>6, <2>8 DEF Truth
<1>7. CASE c.step # "ok"
  <2>1. /\ asked' = asked \ {c}
        /\ \/ c.kind = "move" /\ manage' = [manage EXCEPT !.moving = FALSE]
           \/ c.kind = "cancel" /\ manage' = [manage EXCEPT !.cancelling = FALSE]
    BY <1>7 DEF MoveArrives, CancelArrives
  <2>2. /\ manage'.shown = manage.shown /\ manage'.cancelled = manage.cancelled
        /\ manage'.day = manage.day /\ manage'.blind = manage.blind
        /\ c.kind = "move" => manage'.cancelling = manage.cancelling
        /\ c.kind = "cancel" => manage'.moving = manage.moving
    BY <1>1, <2>1 DEF ManageFields
  <2>3. ChangesTracked'
    BY <1>2, <1>4, <2>1, <2>2 DEF Truth, ChangesTracked
  <2>4. LoadedFirst'
    BY <1>3, <2>1, <2>2 DEF LoadedFirst
  <2>5. CancelDone' <=> CancelDone
    BY <1>7, <2>1, <2>2 DEF CancelDone
  <2>6. /\ \A x \in asked' : x \in asked
        /\ \A x \in asked : IsMoved(x) => x \in asked'
    BY <1>7, <2>1 DEF IsMoved
  <2>7. ShownButFor'
    BY <2>2, <2>5, <2>6 DEF Truth, ShownButFor
  <2> QED
    BY <2>2, <2>3, <2>4, <2>7 DEF Truth
<1> QED
  BY <1>5, <1>6, <1>7

\* The actions of the page and those of the portal.
LinkPageNext ==
  \/ \E d \in Days : ChooseLinkDay(d)
  \/ \E s \in Slots : ChooseLinkSlot(s)
  \/ SubmitMove \/ SubmitCancel
  \/ \E c \in asked : AnswerAsked(c) \/ LoseAsked(c) \/ AskedArrives(c)

PortalNext ==
  \/ PortalLogout \/ FollowLoginLink
  \/ \E r \in portal.list : CancelMine(r) \/ \E s \in Slots : Rebook(r, s)
  \/ \E w \in wanted : AnswerWanted(w) \/ LoseWanted(w) \/ WantedArrives(w)

LEMMA LinksNextSplits ==
  /\ LinksNext => LinkPageNext \/ PortalNext
  /\ LinkPageNext => UNCHANGED portalVars
  /\ PortalNext => UNCHANGED manageVars
<1>1. LinksNext => LinkPageNext \/ PortalNext
  BY DEF LinksNext, LinkPageNext, PortalNext
<1>2. LinkPageNext => UNCHANGED portalVars
  BY Zenon
  DEF LinkPageNext, ChooseLinkDay, ChooseLinkSlot, SubmitMove, SubmitCancel,
      AnswerAsked, LoseAsked, AskedArrives
<1>3. PortalNext => UNCHANGED manageVars
  BY Zenon
  DEF PortalNext, PortalLogout, FollowLoginLink, CancelMine, Rebook, Act,
      AnswerWanted, LoseWanted, WantedArrives
<1> QED
  BY <1>1, <1>2, <1>3

LEMMA MoveFormStep ==
  ASSUME MoveFormOK, LinkPageNext
  PROVE  MoveFormOK'
BY ChooseLinkDayFits, ChooseLinkSlotFits, SubmitMoveFits, SubmitCancelFits,
   AnswerAskedFits, LoseAskedFits, AskedArrivesFits DEF LinkPageNext

LEMMA LinkPageStep ==
  ASSUME SiteOK, SiteOK', SiteStep, MoveFormOK, LinkOK, LinkPageNext, UNCHANGED edits
  PROVE  LinkOK'
<1>1. SUFFICES ASSUME ~manage'.blind
               PROVE  Truth' /\ LinkAlone'
  BY DEF LinkOK, Truth
<1>2. wanted' = wanted /\ DOMAIN manage = ManageFields
  BY LinksNextSplits DEF portalVars, MoveFormOK
<1>3. ASSUME ~manage.blind
      PROVE  LinkAlone' /\ Truth
  BY <1>2, <1>3, LinkAloneStays DEF LinkOK, Truth
<1>4. CASE \/ \E d \in Days : ChooseLinkDay(d)
           \/ \E s \in Slots : ChooseLinkSlot(s)
  <2>1. UNCHANGED agenda
    BY <1>4 DEF ChooseLinkDay, ChooseLinkSlot, Spend
  <2>2. manage'.blind = manage.blind
    <3>1. ASSUME NEW d \in Days, ChooseLinkDay(d)
          PROVE  manage'.blind = manage.blind
      BY <1>2, <3>1 DEF ChooseLinkDay, Follow, ManageFields
    <3>2. ASSUME NEW s \in Slots, ChooseLinkSlot(s)
          PROVE  manage'.blind = manage.blind
      BY <1>2, <3>2 DEF ChooseLinkSlot, ManageFields
    <3> QED
      BY <1>4, <3>1, <3>2
  <2> QED
    BY <1>1, <1>3, <1>4, <2>1, <2>2, ChooseTruth
<1>5. CASE SubmitMove \/ SubmitCancel
  <2>1. UNCHANGED agenda /\ manage'.blind = manage.blind
    BY <1>2, <1>5 DEF SubmitMove, SubmitCancel, Spend, ManageFields
  <2> QED
    BY <1>1, <1>3, <1>5, <2>1, SubmitTruth
<1>6. ASSUME NEW c \in asked, AnswerAsked(c)
      PROVE  Truth' /\ LinkAlone'
  <2>1. c.step = "sent" /\ UNCHANGED manage
    BY <1>6 DEF AnswerAsked
  <2>2. Truth /\ LinkAlone'
    BY <1>1, <1>3, <2>1
  <2>3. CASE AnswerChange(c)
    BY <2>1, <2>2, <2>3, AnswerChangeTruth
  <2>4. CASE ~AnswerChange(c)
    <3>1. UNCHANGED agenda
      BY <1>6, <2>4 DEF AnswerAsked, siteVars
    <3> QED
      BY <1>6, <2>1, <2>2, <2>4, <3>1, AnswerTruth DEF AnswerAsked
  <2> QED
    BY <2>3, <2>4
<1>7. ASSUME NEW c \in asked, LoseAsked(c)
      PROVE  Truth' /\ LinkAlone'
  <2>1. UNCHANGED agenda /\ ~manage.blind
    <3>1. manage'.blind = (manage.blind \/ /\ c.step = "ok"
                                           /\ c.kind \in {"cancel", "move"})
      BY <1>2, <1>7 DEF LoseAsked, ManageFields
    <3> QED
      BY <1>1, <1>7, <3>1 DEF LoseAsked, Spend
  <2> QED
    BY <1>1, <1>3, <1>7, <2>1, LoseTruth
<1>8. ASSUME NEW c \in asked, AskedArrives(c)
      PROVE  Truth' /\ LinkAlone'
  <2>1. UNCHANGED agenda
    BY <1>8 DEF AskedArrives, siteVars
  <2>2. manage'.blind = manage.blind
    <3>1. ASSUME NEW m, NEW cs, Follow(m, cs), m.blind = manage.blind,
                 DOMAIN m = ManageFields
          PROVE  manage'.blind = manage.blind
      BY <3>1 DEF Follow, ManageFields
    <3>2. CASE LinkArrives(c) \/ LinkSlotsArrive(c)
      BY <1>2, <3>1, <3>2 DEF LinkArrives, LinkSlotsArrive, ManageFields
    <3>3. CASE MoveArrives(c)
      BY <1>2, <3>1, <3>3 DEF MoveArrives, ManageFields
    <3>4. CASE CancelArrives(c)
      BY <1>2, <3>1, <3>4 DEF CancelArrives, ManageFields
    <3> QED
      BY <1>8, <3>2, <3>3, <3>4 DEF AskedArrives
  <2>3. Truth /\ LinkAlone'
    BY <1>1, <1>3, <2>2
  <2> QED
    BY <1>8, <2>1, <2>3, LinkArrivesTruth, ChangeArrivesTruth DEF AskedArrives
<1> QED
  BY <1>4, <1>5, <1>6, <1>7, <1>8 DEF LinkPageNext

(***************************************************************************)
(* The portal.                                                             *)
(***************************************************************************)
PortalFields == {"open", "list", "busy", "error", "hurried", "blind"}
WantFields == {"kind", "id", "live", "step", "slot", "list"}

PortalAlone == left.owner = 0 /\ left.link = 0 /\ edits = {} /\ asked = {}

ListOf(ag, ids) == {[id |-> i, slot |-> KnownIn(ag, i).slot,
                     active |-> KnownIn(ag, i).active] : i \in ids}

OneAtATime ==
  ~portal.hurried =>
    /\ \A v, w \in wanted : v = w
    /\ portal.open => \A w \in wanted : w.live /\ w.kind # "session"

ListButFor ==
  portal.open /\ ~portal.blind /\ ~portal.hurried =>
    /\ wanted = {} => portal.error \/ portal.list = ListOf(agenda, mine)
    /\ \A w \in wanted :
         /\ w.kind \in {"list", "again"} /\ w.step = "ok"
              => w.list = ListOf(agenda, mine)
         /\ w.kind \in {"cancel", "rebook"} /\ w.step # "ok"
              => portal.error \/ portal.list = ListOf(agenda, mine)

PortalOK ==
  /\ DOMAIN portal = PortalFields
  /\ \A w \in wanted : DOMAIN w = WantFields
  /\ mine \subseteq 1..version
  /\ ~portal.blind => PortalAlone
  /\ OneAtATime
  /\ ListButFor

LEMMA NewWant ==
  ASSUME NEW kind, NEW id
  PROVE  /\ DOMAIN Want(kind, id) = WantFields
         /\ Want(kind, id).kind = kind
         /\ Want(kind, id).live
         /\ Want(kind, id).step = "sent"
BY DEF Want, WantFields

LEMMA PortalInitOK ==
  ASSUME SiteInit, LinksInit, DashboardInit
  PROVE  PortalOK
<1>1. /\ DOMAIN portal = PortalFields /\ mine = {1} /\ version = 1
      /\ portal.open <=> left.portal > 0
      /\ portal.blind <=> left.owner + left.link > 0
      /\ wanted \in {{}, {Want("list", None)}}
  BY DEF LinksInit, SiteInit, PortalFields, Linked
<1>2. left.owner \in Nat /\ left.link \in Nat /\ left.portal \in Nat
  BY SiteInitOK DEF SiteOK
<1>3. /\ \A w \in wanted : DOMAIN w = WantFields /\ w.kind = "list" /\ w.live
                             /\ w.step = "sent"
      /\ \A v, w \in wanted : v = w
  BY <1>1, NewWant
<1>4. ~portal.blind => PortalAlone
  <2>1. SUFFICES ASSUME ~portal.blind
                 PROVE  PortalAlone
    OBVIOUS
  <2>2. left.owner = 0 /\ left.link = 0
    <3>1. ~(left.owner + left.link > 0)
      BY <1>1, <2>1
    <3> QED
      BY <1>2, <3>1
  <2>3. asked = {} /\ edits = {}
    BY <2>2 DEF LinksInit, DashboardInit
  <2> QED
    BY <2>2, <2>3 DEF PortalAlone
<1>5. portal.open => wanted # {}
  <2>1. portal.open => left.portal # 0
    BY <1>1, <1>2
  <2> QED
    BY <2>1 DEF LinksInit
<1>6. 1 \in 1..1
  OBVIOUS
<1> QED
  BY <1>1, <1>3, <1>4, <1>5, <1>6 DEF PortalOK, OneAtATime, ListButFor

LEMMA ListStates ==
  /\ MyList = ListOf(agenda, mine)
  /\ MyList' = ListOf(agenda', mine')
BY DEF MyList, ListOf, Known, KnownIn

LEMMA PortalOKTells ==
  ASSUME PortalOK
  PROVE  PortalIsCurrent
BY ListStates DEF PortalOK, ListButFor, PortalIsCurrent

LEMMA PortalAloneStays ==
  ASSUME SiteOK, SiteStep, PortalAlone, edits' = edits, asked' = asked
  PROVE  PortalAlone'
<1>1. left.owner = 0 /\ left.link = 0 => left'.owner = 0 /\ left'.link = 0
  BY SiteStepOK DEF Purses
<1> QED
  BY <1>1 DEF PortalAlone

\* Somebody else does something.
LEMMA PortalElsewhere ==
  ASSUME SiteOK, SiteStep, PortalOK, UNCHANGED portalVars,
         ~portal.blind => /\ PortalAlone'
                          /\ \A i \in mine : KnownIn(agenda', i) = KnownIn(agenda, i)
  PROVE  PortalOK'
<1>1. /\ version \in Nat /\ version' \in Nat /\ version <= version'
      /\ mine \subseteq 1..version
  BY SiteStepOK DEF SiteOK, PortalOK
<1>2. mine \subseteq 1..version'
  BY <1>1
<1>3. ~portal.blind => ListOf(agenda', mine) = ListOf(agenda, mine)
  BY DEF ListOf
<1> QED
  BY <1>2, <1>3 DEF PortalOK, portalVars, OneAtATime, ListButFor

LEMMA ActFits ==
  ASSUME PortalOK, NEW w, NEW p, Act(w, p),
         DOMAIN w = WantFields, w.live, w.step = "sent",
         w.kind \in {"cancel", "rebook", "session"},
         w.kind = "session" => ~portal.open,
         DOMAIN p = PortalFields, p.open = portal.open, p.list = portal.list,
         p.error = portal.error, p.hurried = portal.hurried,
         p.blind = portal.blind, ~portal.blind => PortalAlone',
         mine \subseteq 1..version'
  PROVE  PortalOK'
<1>1. /\ wanted' = wanted \cup {w}
      /\ portal' = [p EXCEPT !.hurried = @ \/ wanted # {}]
      /\ UNCHANGED <<agenda, mine>>
  BY DEF Act, Spend
<1>2. /\ DOMAIN portal' = PortalFields /\ portal'.open = portal.open
      /\ portal'.list = portal.list /\ portal'.error = portal.error
      /\ portal'.blind = portal.blind
  BY <1>1 DEF PortalFields
<1>3. portal'.hurried = (portal.hurried \/ wanted # {})
  BY <1>1 DEF PortalFields
<1>4. ~portal'.hurried => ~portal.hurried /\ wanted' = {w} /\ wanted = {}
  BY <1>1, <1>3
<1>5. OneAtATime'
  BY <1>2, <1>4 DEF OneAtATime
<1>6. ListButFor'
  BY <1>1, <1>2, <1>4 DEF ListButFor, PortalOK
<1> QED
  BY <1>1, <1>2, <1>5, <1>6 DEF PortalOK

LEMMA PortalActsFits ==
  ASSUME PortalOK, ~portal.blind => PortalAlone', mine \subseteq 1..version',
         \/ FollowLoginLink
         \/ \E r \in portal.list : CancelMine(r) \/ \E s \in Slots : Rebook(r, s)
  PROVE  PortalOK'
<1>1. DOMAIN portal = PortalFields
  BY DEF PortalOK
<1>2. CASE FollowLoginLink
  <2>1. ~portal.open /\ Act(Want("session", None), portal)
    BY <1>2 DEF FollowLoginLink
  <2>2. PICK w : w = Want("session", None)
    OBVIOUS
  <2>3. /\ DOMAIN w = WantFields /\ w.kind = "session" /\ w.live
        /\ w.step = "sent"
    BY <2>2, NewWant
  <2> QED
    BY <1>1, <2>1, <2>2, <2>3, ActFits
<1>3. ASSUME NEW r, NEW w, NEW p, Act(w, p), p = [portal EXCEPT !.busy = r.id],
             DOMAIN w = WantFields, w.kind \in {"cancel", "rebook"},
             w.live, w.step = "sent"
      PROVE  PortalOK'
  <2>1. /\ DOMAIN p = PortalFields /\ p.open = portal.open
        /\ p.list = portal.list /\ p.error = portal.error
        /\ p.hurried = portal.hurried /\ p.blind = portal.blind
    BY <1>1, <1>3 DEF PortalFields
  <2> QED
    BY <1>3, <2>1, ActFits
<1>4. ASSUME NEW r \in portal.list, CancelMine(r)
      PROVE  PortalOK'
  <2>1. PICK w, p : /\ w = Want("cancel", r.id)
                    /\ p = [portal EXCEPT !.busy = r.id]
    OBVIOUS
  <2>2. Act(w, p)
    BY <1>4, <2>1 DEF CancelMine
  <2>3. /\ DOMAIN w = WantFields /\ w.kind = "cancel" /\ w.live
        /\ w.step = "sent"
    BY <2>1, NewWant
  <2> QED
    BY <1>3, <2>1, <2>2, <2>3
<1>5. ASSUME NEW r \in portal.list, NEW s \in Slots, Rebook(r, s)
      PROVE  PortalOK'
  <2>1. PICK w, p : /\ w = [Want("rebook", r.id) EXCEPT !.slot = s]
                    /\ p = [portal EXCEPT !.busy = r.id]
    OBVIOUS
  <2>2. Act(w, p)
    BY <1>5, <2>1 DEF Rebook
  <2>3. /\ DOMAIN w = WantFields /\ w.kind = "rebook" /\ w.live
        /\ w.step = "sent"
    BY <2>1 DEF Want, WantFields
  <2> QED
    BY <1>3, <2>1, <2>2, <2>3
<1> QED
  BY <1>2, <1>4, <1>5

LEMMA DesertedFacts ==
  ASSUME NEW ws, \A w \in ws : DOMAIN w = WantFields
  PROVE  /\ \A w \in Deserted(ws) : DOMAIN w = WantFields
         /\ (\A v, w \in ws : v = w) => \A v, w \in Deserted(ws) : v = w
BY DEF Deserted

LEMMA GoneFacts ==
  ASSUME PortalOK, portal' = Gone
  PROVE  /\ DOMAIN portal' = PortalFields /\ ~portal'.open
         /\ portal'.hurried = portal.hurried /\ portal'.blind = portal.blind
BY DEF PortalOK, Gone, PortalFields

LEMMA LogoutFits ==
  ASSUME PortalOK, ~portal.blind => PortalAlone', mine \subseteq 1..version',
         PortalLogout
  PROVE  PortalOK'
<1>1. portal' = Gone /\ wanted' = Deserted(wanted) /\ mine' = mine
  BY DEF PortalLogout
<1>2. /\ DOMAIN portal' = PortalFields /\ ~portal'.open
      /\ portal'.hurried = portal.hurried /\ portal'.blind = portal.blind
  BY <1>1, GoneFacts
<1>3. /\ \A w \in wanted' : DOMAIN w = WantFields
      /\ (\A v, w \in wanted : v = w) => \A v, w \in wanted' : v = w
  BY <1>1, DesertedFacts DEF PortalOK
<1> QED
  BY <1>1, <1>2, <1>3 DEF PortalOK, OneAtATime, ListButFor

\* A request is replaced by its answer, which is right about the list.
LEMMA WantIsFits ==
  ASSUME PortalOK, ~portal.blind => PortalAlone', mine' \subseteq 1..version',
         UNCHANGED portal, NEW w \in wanted, NEW a,
         wanted' = (wanted \ {w}) \cup {a}, DOMAIN a = WantFields,
         a.live = w.live, a.kind = w.kind,
         a.kind \in {"list", "again"} /\ a.step = "ok"
           => a.list = ListOf(agenda', mine'),
         a.kind \in {"cancel", "rebook"} /\ a.step # "ok"
           => w.step # "ok" /\ UNCHANGED <<agenda, mine>>
  PROVE  PortalOK'
<1>1. OneAtATime'
  BY DEF PortalOK, OneAtATime
<1>2. ListButFor'
  <2>1. SUFFICES ASSUME portal.open, ~portal.blind, ~portal.hurried
                 PROVE  /\ wanted' # {}
                        /\ \A x \in wanted' :
                             /\ x.kind \in {"list", "again"} /\ x.step = "ok"
                                  => x.list = ListOf(agenda', mine')
                             /\ x.kind \in {"cancel", "rebook"} /\ x.step # "ok"
                                  => \/ portal.error
                                     \/ portal.list = ListOf(agenda', mine')
    BY DEF ListButFor
  <2>2. wanted' = {a}
    BY <2>1 DEF PortalOK, OneAtATime
  <2>3. a.kind \in {"cancel", "rebook"} /\ a.step # "ok"
          => portal.error \/ portal.list = ListOf(agenda', mine')
    BY <2>1 DEF PortalOK, ListButFor
  <2> QED
    BY <2>2, <2>3
<1> QED
  BY <1>1, <1>2 DEF PortalOK

LEMMA AnswerWantedFits ==
  ASSUME SiteOK, SiteOK', PortalOK, ~portal.blind => PortalAlone',
         version <= version', NEW w \in wanted, AnswerWanted(w)
  PROVE  PortalOK'
<1>1. DOMAIN w = WantFields /\ w.step = "sent" /\ UNCHANGED portal
  BY DEF PortalOK, AnswerWanted
<1>2. version \in Nat /\ version' \in Nat /\ mine \subseteq 1..version
  BY DEF SiteOK, PortalOK
<1>3. mine' \subseteq 1..version'
  <2>1. mine' = mine \/ (mine' = mine \cup {version + 1} /\ version' = version + 1)
    BY DEF AnswerWanted, BookAt, Changed
  <2>2. ASSUME NEW i \in mine'
        PROVE  i \in Nat /\ 1 <= i /\ i <= version'
    <3>1. i \in mine \/ (i = version + 1 /\ version' = version + 1)
      BY <2>1
    <3>2. i \in mine => i \in Nat /\ 1 <= i /\ i <= version
      BY <1>2
    <3> QED
      BY <1>2, <3>1, <3>2
  <2> QED
    BY <1>2, <2>2
<1>4. ASSUME NEW step, NEW a, a = [w EXCEPT !.step = step]
      PROVE  /\ DOMAIN a = WantFields /\ a.live = w.live /\ a.kind = w.kind
             /\ a.step = step
  BY <1>1, <1>4 DEF WantFields
<1>5. CASE /\ w.kind \in {"session", "list", "again"}
           /\ WantIs(w, [w EXCEPT !.step = "ok",
                !.list = IF w.kind = "session" THEN {} ELSE MyList])
           /\ UNCHANGED <<siteVars, mine>>
  <2>1. PICK list : list = IF w.kind = "session" THEN {} ELSE MyList
    OBVIOUS
  <2>2. PICK a : a = [w EXCEPT !.step = "ok", !.list = list]
    OBVIOUS
  <2>3. wanted' = (wanted \ {w}) \cup {a}
    BY <1>5, <2>1, <2>2 DEF WantIs
  <2>4. w.kind # "session" => list = ListOf(agenda', mine')
    <3>1. agenda' = agenda /\ mine' = mine
      BY <1>5 DEF siteVars
    <3>2. MyList = ListOf(agenda, mine)
      BY ListStates
    <3> QED
      BY <2>1, <3>1, <3>2
  <2>5. /\ DOMAIN a = WantFields /\ a.live = w.live /\ a.kind = w.kind
        /\ a.list = list
    BY <1>1, <2>2 DEF WantFields
  <2> QED
    BY <1>1, <1>3, <1>5, <2>3, <2>4, <2>5, WantIsFits
<1>6. CASE w.kind \in {"cancel", "rebook"} /\ WantIs(w, [w EXCEPT !.step = "ok"])
  <2>1. PICK a : a = [w EXCEPT !.step = "ok"]
    OBVIOUS
  <2>2. wanted' = (wanted \ {w}) \cup {a}
    BY <1>6, <2>1 DEF WantIs
  <2>3. /\ DOMAIN a = WantFields /\ a.live = w.live /\ a.kind = w.kind
        /\ a.step = "ok"
    BY <1>4, <2>1
  <2> QED
    BY <1>1, <1>3, <1>6, <2>2, <2>3, WantIsFits
<1>7. CASE /\ w.kind \in {"cancel", "rebook"}
           /\ WantIs(w, [w EXCEPT !.step = "failed"])
           /\ UNCHANGED <<siteVars, mine>>
  <2>1. PICK a : a = [w EXCEPT !.step = "failed"]
    OBVIOUS
  <2>2. wanted' = (wanted \ {w}) \cup {a}
    BY <1>7, <2>1 DEF WantIs
  <2>3. /\ DOMAIN a = WantFields /\ a.live = w.live /\ a.kind = w.kind
        /\ a.step = "failed"
    BY <1>4, <2>1
  <2>4. w.step # "ok" /\ UNCHANGED <<agenda, mine>>
    BY <1>1, <1>7 DEF siteVars
  <2> QED
    BY <1>1, <1>3, <1>7, <2>2, <2>3, <2>4, WantIsFits
<1> QED
  BY <1>5, <1>6, <1>7 DEF AnswerWanted

LEMMA LoseWantedFits ==
  ASSUME PortalOK, ~portal.blind => PortalAlone', mine \subseteq 1..version',
         NEW w \in wanted, LoseWanted(w)
  PROVE  PortalOK'
<1>1. DOMAIN w = WantFields /\ DOMAIN portal = PortalFields
  BY DEF PortalOK
<1>2. /\ portal' = [portal EXCEPT !.blind = @ \/ /\ w.step = "ok"
                                                 /\ w.kind \in {"cancel", "rebook"}]
      /\ UNCHANGED <<agenda, mine>>
  BY DEF LoseWanted, Spend
<1>3. PICK step \in {"failed", "denied"} : WantIs(w, [w EXCEPT !.step = step, !.list = {}])
  BY DEF LoseWanted
<1>4. PICK a : /\ a = [w EXCEPT !.step = step, !.list = {}]
               /\ wanted' = (wanted \ {w}) \cup {a}
  BY <1>3 DEF WantIs
<1>5. /\ DOMAIN a = WantFields /\ a.live = w.live /\ a.kind = w.kind
      /\ a.step # "ok"
  <2>1. DOMAIN a = WantFields /\ a.live = w.live /\ a.kind = w.kind /\ a.step = step
    BY <1>1, <1>4 DEF WantFields
  <2> QED
    BY <2>1
<1>6. /\ DOMAIN portal' = PortalFields /\ portal'.open = portal.open
      /\ portal'.list = portal.list /\ portal'.error = portal.error
      /\ portal'.hurried = portal.hurried
  BY <1>1, <1>2 DEF PortalFields
<1>7. portal'.blind = (portal.blind \/ /\ w.step = "ok"
                                       /\ w.kind \in {"cancel", "rebook"})
  BY <1>1, <1>2 DEF PortalFields
<1>8. OneAtATime'
  BY <1>4, <1>5, <1>6 DEF PortalOK, OneAtATime
<1>9. ListButFor'
  <2>1. SUFFICES ASSUME portal.open, ~portal'.blind, ~portal.hurried
                 PROVE  /\ wanted' # {}
                        /\ \A x \in wanted' :
                             /\ ~(x.kind \in {"list", "again"} /\ x.step = "ok")
                             /\ x.kind \in {"cancel", "rebook"}
                                  => \/ portal.error
                                     \/ portal.list = ListOf(agenda, mine)
    BY <1>2, <1>6 DEF ListButFor
  <2>2. wanted' = {a} /\ ~portal.blind
    BY <1>4, <1>7, <2>1 DEF PortalOK, OneAtATime
  <2>3. a.kind \in {"cancel", "rebook"} => w.step # "ok"
    BY <1>5, <1>7, <2>1
  <2>4. a.kind \in {"cancel", "rebook"}
          => portal.error \/ portal.list = ListOf(agenda, mine)
    BY <1>5, <2>1, <2>2, <2>3 DEF PortalOK, ListButFor
  <2> QED
    BY <1>5, <2>2, <2>4
<1>10. ~portal'.blind => PortalAlone'
  BY <1>7
<1> QED
  BY <1>2, <1>4, <1>5, <1>6, <1>8, <1>9, <1>10 DEF PortalOK

LEMMA WantedArrivesFits ==
  ASSUME PortalOK, ~portal.blind => PortalAlone', mine \subseteq 1..version',
         NEW w \in wanted, WantedArrives(w)
  PROVE  PortalOK'
<1>1. /\ DOMAIN portal = PortalFields /\ UNCHANGED <<agenda, mine>>
      /\ w.step # "sent"
  BY DEF PortalOK, WantedArrives, siteVars
<1>2. \A x \in wanted : DOMAIN x = WantFields
  BY DEF PortalOK
<1>3. ~portal.hurried => wanted = {w}
  BY DEF PortalOK, OneAtATime
<1>4. CASE w.live /\ ChangeArrives(w) /\ w.step = "ok"
  <2>1. PICK a : /\ a = Want("again", w.id)
                 /\ wanted' = (wanted \ {w}) \cup {a}
    BY <1>4 DEF ChangeArrives
  <2>2. DOMAIN a = WantFields /\ a.kind = "again" /\ a.live /\ a.step = "sent"
    BY <2>1, NewWant
  <2>3. portal' = [portal EXCEPT !.error = FALSE]
    BY <1>4 DEF ChangeArrives
  <2>4. /\ DOMAIN portal' = PortalFields /\ portal'.open = portal.open
        /\ portal'.hurried = portal.hurried /\ portal'.blind = portal.blind
    BY <1>1, <2>3 DEF PortalFields
  <2>5. ~portal'.hurried => wanted' = {a}
    BY <1>3, <2>1, <2>4
  <2>6. OneAtATime' /\ ListButFor'
    BY <2>2, <2>5 DEF OneAtATime, ListButFor
  <2> QED
    BY <1>1, <1>2, <2>1, <2>2, <2>4, <2>6 DEF PortalOK
<1>5. CASE w.live /\ ChangeArrives(w) /\ w.step # "ok"
  <2>1. /\ w.kind \in {"cancel", "rebook"} /\ wanted' = wanted \ {w}
        /\ portal' = [portal EXCEPT !.busy = None]
    BY <1>5 DEF ChangeArrives
  <2>2. /\ DOMAIN portal' = PortalFields /\ portal'.open = portal.open
        /\ portal'.hurried = portal.hurried /\ portal'.blind = portal.blind
        /\ portal'.list = portal.list /\ portal'.error = portal.error
    BY <1>1, <2>1 DEF PortalFields
  <2>3. ~portal'.hurried => wanted' = {}
    BY <1>3, <2>1, <2>2
  <2>4. OneAtATime'
    BY <2>3 DEF OneAtATime
  <2>5. ListButFor'
    BY <1>1, <1>5, <2>1, <2>2, <2>3 DEF ListButFor, PortalOK
  <2> QED
    BY <1>1, <1>2, <2>1, <2>2, <2>4, <2>5 DEF PortalOK
<1>6. CASE w.live /\ ListArrives(w) /\ w.step \in {"ok", "failed"}
  <2>1. /\ w.kind \in {"list", "again"} /\ wanted' = wanted \ {w}
        /\ \E busy :
             portal' \in {[[portal EXCEPT !.busy = busy] EXCEPT !.list = w.list],
                          [[portal EXCEPT !.busy = busy] EXCEPT !.error = TRUE]}
    BY <1>6 DEF ListArrives
  <2>2. /\ DOMAIN portal' = PortalFields /\ portal'.open = portal.open
        /\ portal'.hurried = portal.hurried /\ portal'.blind = portal.blind
    BY <1>1, <2>1 DEF PortalFields
  <2>3. \/ w.step = "ok" /\ portal'.list = w.list
        \/ portal'.error
    BY <1>1, <1>6 DEF ListArrives, PortalFields
  <2>4. ~portal'.hurried => wanted' = {}
    BY <1>3, <2>1, <2>2
  <2>5. OneAtATime'
    BY <2>4 DEF OneAtATime
  <2>6. ListButFor'
    BY <1>1, <2>1, <2>2, <2>3, <2>4 DEF ListButFor, PortalOK
  <2> QED
    BY <1>1, <1>2, <2>1, <2>2, <2>5, <2>6 DEF PortalOK
<1>7. CASE w.live /\ ListArrives(w) /\ w.step = "denied"
  <2>1. portal' = Gone /\ wanted' = Deserted(wanted \ {w})
    BY <1>7 DEF ListArrives
  <2>2. /\ DOMAIN portal' = PortalFields /\ ~portal'.open
        /\ portal'.hurried = portal.hurried /\ portal'.blind = portal.blind
    BY <2>1, GoneFacts
  <2>3. /\ \A x \in wanted' : DOMAIN x = WantFields
        /\ (\A v, x \in wanted \ {w} : v = x) => \A v, x \in wanted' : v = x
    BY <1>2, <2>1, DesertedFacts
  <2>4. OneAtATime'
    BY <1>3, <2>2, <2>3 DEF OneAtATime
  <2>5. ListButFor'
    BY <2>2 DEF ListButFor
  <2> QED
    BY <1>1, <2>2, <2>3, <2>4, <2>5 DEF PortalOK
<1>8. CASE w.live /\ SessionArrives(w) /\ w.step = "ok"
  <2>1. PICK a : /\ a = Want("list", None)
                 /\ wanted' = (wanted \ {w}) \cup {a}
    BY <1>8 DEF SessionArrives
  <2>2. DOMAIN a = WantFields /\ a.kind = "list" /\ a.live /\ a.step = "sent"
    BY <2>1, NewWant
  <2>3. portal' = [portal EXCEPT !.open = TRUE]
    BY <1>8 DEF SessionArrives
  <2>4. /\ DOMAIN portal' = PortalFields
        /\ portal'.hurried = portal.hurried /\ portal'.blind = portal.blind
    BY <1>1, <2>3 DEF PortalFields
  <2>5. ~portal'.hurried => wanted' = {a}
    BY <1>3, <2>1, <2>4
  <2>6. OneAtATime' /\ ListButFor'
    BY <2>2, <2>5 DEF OneAtATime, ListButFor
  <2> QED
    BY <1>1, <1>2, <2>1, <2>2, <2>4, <2>6 DEF PortalOK
<1>9. CASE \/ w.live /\ SessionArrives(w) /\ w.step # "ok"
           \/ ~w.live /\ UNCHANGED portal /\ wanted' = wanted \ {w}
  <2>1. /\ UNCHANGED portal /\ wanted' = wanted \ {w}
        /\ w.kind = "session" \/ ~w.live
    BY <1>9 DEF SessionArrives
  <2>2. ~portal.hurried => wanted' = {} /\ ~portal.open
    BY <1>3, <2>1 DEF PortalOK, OneAtATime
  <2>3. OneAtATime' /\ ListButFor'
    BY <2>1, <2>2 DEF OneAtATime, ListButFor
  <2> QED
    BY <1>1, <1>2, <2>1, <2>3 DEF PortalOK
<1>10. w.live /\ ListArrives(w) => w.step \in {"ok", "failed", "denied"}
  BY DEF ListArrives
<1> QED
  BY <1>4, <1>5, <1>6, <1>7, <1>8, <1>9, <1>10 DEF WantedArrives

LEMMA PortalStep ==
  ASSUME SiteOK, SiteOK', SiteStep, version <= version', PortalOK, PortalNext,
         UNCHANGED edits
  PROVE  PortalOK'
<1>1. ~portal.blind => PortalAlone'
  BY LinksNextSplits, PortalAloneStays DEF PortalOK, manageVars
<1>2. mine \subseteq 1..version'
  <2>1. version \in Nat /\ version' \in Nat /\ mine \subseteq 1..version
    BY DEF SiteOK, PortalOK
  <2> QED
    BY <2>1
<1> QED
  BY <1>1, <1>2, LogoutFits, PortalActsFits, AnswerWantedFits, LoseWantedFits,
     WantedArrivesFits DEF PortalNext

(***************************************************************************)
(* Both pages together with the others: as long as one of them is alone,   *)
(* no step of another page changes what it shows.                          *)
(***************************************************************************)
LEMMA CannotSpend ==
  ASSUME SiteOK, NEW what \in Purses, left[what] = 0
  PROVE  ~Spend(what)
BY SpendFacts

LEMMA PortalIdle ==
  ASSUME SiteOK, left.portal = 0, wanted = {}
  PROVE  ~PortalNext
<1>1. ~Spend("portal")
  BY CannotSpend DEF Purses
<1> QED
  BY <1>1
  DEF PortalNext, PortalLogout, FollowLoginLink, CancelMine, Rebook, Act

LEMMA LinkPageIdle ==
  ASSUME SiteOK, left.link = 0, asked = {}
  PROVE  ~LinkPageNext
<1>1. ~Spend("link")
  BY CannotSpend DEF Purses
<1> QED
  BY <1>1 DEF LinkPageNext, ChooseLinkDay, ChooseLinkSlot, SubmitMove,
     SubmitCancel

LEMMA DashboardIdle ==
  ASSUME SiteOK, left.owner = 0, edits = {}, DashboardNext
  PROVE  edits' = {} /\ UNCHANGED agenda
<1>1. ~Spend("owner")
  BY CannotSpend DEF Purses
<1>2. edits' = edits
  BY <1>1, DashboardSite
<1>3. UNCHANGED siteVars \/ Spend("faults")
  BY <1>1, DashboardSite
<1> QED
  BY <1>2, <1>3 DEF siteVars, Spend

\* What the other pages leave of the appointments that are there already.
LEMMA OthersKeep ==
  ASSUME SiteOK, NEW id \in 1..version, BookingTouches \/ LandingTouches
  PROVE  KnownIn(agenda', id) = KnownIn(agenda, id)
<1>1. ASSUME NEW s \in Slots, BookAt(s)
      PROVE  KnownIn(agenda', id) = KnownIn(agenda, id)
  BY <1>1, BookAtKeeps
<1>2. CASE UNCHANGED agenda
  BY <1>2
<1> QED
  BY <1>1, <1>2 DEF BookingTouches, LandingTouches, siteVars, Spend, SetUp

LEMMA LinkedIsOld ==
  ASSUME SiteOK
  PROVE  Linked \in 1..version
BY DEF SiteOK, Linked

CustomersOK == SiteOK /\ MoveFormOK /\ LinkOK /\ PortalOK

LEMMA CustomersInit ==
  ASSUME WebInit
  PROVE  CustomersOK
BY SiteInitOK, MoveFormInit, LinkInitOK, PortalInitOK DEF WebInit, CustomersOK

LEMMA CustomersStep ==
  ASSUME CustomersOK, WebNext
  PROVE  CustomersOK'
<1>1. SiteStep /\ SiteOK /\ SiteOK' /\ version <= version'
  BY WebSite, SiteStepOK DEF CustomersOK
<1>2. ASSUME NEW id \in 1..version,
             \/ BookingNext \/ LandingNext
             \/ DashboardNext /\ left.owner = 0 /\ edits = {}
      PROVE  KnownIn(agenda', id) = KnownIn(agenda, id)
  BY <1>1, <1>2, OthersKeep, BookingSite, LandingSite, DashboardIdle
<1>3. CASE /\ UNCHANGED linksVars
           /\ \/ BookingNext /\ UNCHANGED dashboardVars
              \/ LandingNext /\ edits' = edits
              \/ DashboardNext
  <2>1. /\ UNCHANGED <<manage, asked, moved, portal, wanted, mine>>
        /\ edits' = edits \/ DashboardNext
    BY <1>3 DEF linksVars, dashboardVars, tabVars
  <2>2. ~manage.blind => /\ LinkAlone'
                         /\ KnownIn(agenda', Linked) = KnownIn(agenda, Linked)
    <3>1. SUFFICES ASSUME LinkAlone
                   PROVE  /\ LinkAlone'
                          /\ KnownIn(agenda', Linked) = KnownIn(agenda, Linked)
      BY DEF CustomersOK, LinkOK
    <3>2. left.owner = 0 /\ edits = {}
      BY <3>1 DEF LinkAlone
    <3>3. edits' = edits
      BY <1>1, <2>1, <3>2, DashboardIdle
    <3> QED
      BY <1>1, <1>2, <1>3, <2>1, <3>1, <3>2, <3>3, LinkAloneStays, LinkedIsOld
  <2>3. ~portal.blind =>
          /\ PortalAlone'
          /\ \A i \in mine : KnownIn(agenda', i) = KnownIn(agenda, i)
    <3>1. SUFFICES ASSUME PortalAlone
                   PROVE  /\ PortalAlone'
                          /\ \A i \in mine : KnownIn(agenda', i) = KnownIn(agenda, i)
      BY DEF CustomersOK, PortalOK
    <3>2. left.owner = 0 /\ edits = {}
      BY <3>1 DEF PortalAlone
    <3>3. edits' = edits
      BY <1>1, <2>1, <3>2, DashboardIdle
    <3>4. mine \subseteq 1..version
      BY DEF CustomersOK, PortalOK
    <3> QED
      BY <1>1, <1>2, <1>3, <2>1, <3>1, <3>2, <3>3, <3>4, PortalAloneStays
  <2> QED
    BY <1>1, <2>1, <2>2, <2>3, MoveFormStays, LinkElsewhere, PortalElsewhere
       DEF CustomersOK, portalVars
<1>4. CASE LinkPageNext /\ UNCHANGED dashboardVars
  <2>1. UNCHANGED <<portal, wanted, mine, edits>>
    BY <1>4, LinksNextSplits DEF portalVars, dashboardVars, tabVars
  <2>2. portal.blind
    BY <1>1, <1>4, LinkPageIdle DEF CustomersOK, PortalOK, PortalAlone
  <2>3. PortalOK'
    BY <1>1, <2>1, <2>2, PortalElsewhere DEF CustomersOK, portalVars
  <2> QED
    BY <1>1, <1>4, <2>1, <2>3, MoveFormStep, LinkPageStep DEF CustomersOK
<1>5. CASE PortalNext /\ UNCHANGED dashboardVars
  <2>1. UNCHANGED <<manage, asked, moved, edits>>
    BY <1>5, LinksNextSplits DEF manageVars, dashboardVars, tabVars
  <2>2. manage.blind
    BY <1>1, <1>5, PortalIdle DEF CustomersOK, LinkOK, LinkAlone
  <2>3. LinkOK'
    BY <2>1, <2>2, LinkElsewhere DEF CustomersOK
  <2> QED
    BY <1>1, <1>5, <2>1, <2>3, MoveFormStays, PortalStep DEF CustomersOK
<1>6. LandingNext => edits' = edits
  BY Zenon
  DEF LandingNext, Visit, TypeRow, SaveRow, DeleteRow, SendRow, Confirm,
      AnswerVisit, LoseVisit, LandingArrives, Unaware, tabVars
<1> QED
  BY <1>3, <1>4, <1>5, <1>6, LinksNextSplits DEF WebNext

LEMMA CustomersStutter ==
  ASSUME CustomersOK, UNCHANGED webVars
  PROVE  CustomersOK'
<1>1. /\ UNCHANGED <<siteVars, manage, asked, moved, portal, wanted, mine, edits>>
      /\ UNCHANGED agenda
  BY DEF webVars, linksVars, dashboardVars, tabVars, siteVars
<1>2. SiteStep
  BY <1>1 DEF SiteStep
<1>3. SiteOK /\ SiteOK'
  BY <1>2, SiteStepOK DEF CustomersOK
<1>4. /\ ~manage.blind => LinkAlone'
      /\ ~portal.blind => PortalAlone'
  BY <1>1, <1>2, <1>3, LinkAloneStays, PortalAloneStays
  DEF CustomersOK, LinkOK, PortalOK
<1> QED
  BY <1>1, <1>2, <1>3, <1>4, MoveFormStays, LinkElsewhere, PortalElsewhere
     DEF CustomersOK, portalVars

\* What the customers' pages show is the truth once nothing is on its way,
\* whatever order the answers come in: the page of an appointment that nobody
\* else changes, and the portal of a customer who waits for each answer.
THEOREM CustomersShown == WebSpec => []CustomersSeeTheTruth
<1>1. WebInit => CustomersOK
  BY CustomersInit
<1>2. CustomersOK /\ [WebNext]_webVars => CustomersOK'
  BY CustomersStep, CustomersStutter
<1>3. CustomersOK => CustomersSeeTheTruth
  BY LinkOKTells, PortalOKTells DEF CustomersOK, CustomersSeeTheTruth
<1> QED
  BY <1>1, <1>2, <1>3, PTL DEF WebSpec
-----------------------------------------------------------------------------
(***************************************************************************)
(* The forms of the dashboard.  As at the page that books, the slots of a  *)
(* form are of the day it shows or a request for those is under way; the   *)
(* form of a series empties its list first, so its slots always are.  The  *)
(* form of the setup was filled with what is shown.                        *)
(***************************************************************************)
TabFields == {"token", "view", "shown", "reviews", "told", "error", "crossed",
              "older"}
FormFields == {"appointment", "day", "slots", "chosen", "early", "typed", "base"}
LookFields == {"day", "id", "live", "step", "slots"}
EditFields == {"what", "of", "here", "waits", "step", "appointment", "day",
               "slot", "early", "days", "base", "seen", "at"}

LookFits(r) ==
  /\ DOMAIN r = LookFields
  /\ r.slots \subseteq Slots /\ \A s \in r.slots : s.day = r.day

EditFits(e) ==
  /\ DOMAIN e = EditFields
  /\ e.what = "move" => e.slot.day = e.day \/ e.early
  /\ e.what = "series" => e.slot.day = e.day
  /\ e.what = "setup" => e.base = e.seen

FormFits(f, ls) ==
  /\ DOMAIN f = FormFields
  /\ f.slots \subseteq Slots
  /\ \A r \in ls : LookFits(r) /\ (r.live => r.day = f.day)
  /\ (\E r \in ls : r.live) \/ \A s \in f.slots : s.day = f.day
  /\ f.chosen \in f.slots => f.chosen.day = f.day \/ f.early

FormOK ==
  /\ DOMAIN tab = TabFields
  /\ FormFits(form, lookups)
  /\ form.appointment # None => tab.view = "appointments"
  /\ tab.view = "recurring" => \A s \in form.slots : s.day = form.day
  /\ tab.view = "setup" => form.base = tab.shown.at
  /\ \A e \in edits : /\ EditFits(e)
                      /\ e.what = "series" /\ e.waits => tab.view = "recurring"

LoadFields == {"of", "step", "read", "tells"}
ShownFields == {"of", "agenda", "rules", "at"}
LoadFits(l) ==
  /\ DOMAIN l = LoadFields /\ DOMAIN l.read = ShownFields
  /\ l.tells \in 0..version
  /\ l.read.at \in Nat
  /\ l.step = "sent" /\ l.of # Ours => l.tells = 0
  /\ l.step = "ok" => l.read.of = l.of /\ l.tells <= l.read.at

EditIsOurs(e, v) ==
  /\ DOMAIN e = EditFields
  /\ e.of = Ours /\ e.at \in 0..v
  /\ e.step \in {"sent", "ok", "failed"}

EditsOK ==
  /\ DOMAIN tab = TabFields /\ DOMAIN tab.shown = ShownFields
  /\ tab.told \in Nat /\ tab.shown.at \in Nat
  /\ \A l \in loads : LoadFits(l)
  /\ \A e \in edits : EditIsOurs(e, version)
  /\ \/ loads # {} \/ tab.error \/ tab.older \/ tab.shown.of # tab.token
     \/ \E e \in edits : e.here /\ e.what # "series"
     \/ tab.told <= tab.shown.at

CardFields == {"selected", "detail", "draft", "failed", "late"}
ReadFields == {"kind", "client", "of", "live", "step"}
DetailUnderWay == \E r \in reads : r.kind = "detail" /\ r.live
CardOK ==
  /\ DOMAIN card = CardFields
  /\ \A r \in reads : /\ DOMAIN r = ReadFields
                      /\ r.kind = "detail" /\ r.live => r.client = card.selected
  /\ card.failed \/ DetailUnderWay \/ card.draft = card.selected
  /\ card.failed \/ DetailUnderWay \/ card.late \/ card.detail = card.selected
OwnOK == tab.shown.of \in {None, tab.token} \/ tab.crossed

LandingFields == {"managed", "at", "told", "typed", "base", "crossed", "older"}
VisitFields == {"kind", "of", "whose", "here", "step", "at", "tells", "base", "seen"}
VisitFits(r) ==
  /\ DOMAIN r = VisitFields
  /\ r.at \in 0..version /\ r.tells \in 0..version
  /\ r.kind = "save" => r.base = r.seen
  /\ r.kind = "refresh" /\ r.step = "ok" => r.tells <= r.at
  /\ r.kind \in {"save", "delete", "refresh"} /\ r.here
       => r.whose = Ours \/ landing.crossed
  /\ r.kind = "visit" /\ r.here
       => /\ landing.told = 0 /\ landing.managed = None
          /\ \A q \in visits : q.here => q = r
LandingOK ==
  /\ DOMAIN landing = LandingFields
  /\ landing.at \in Nat /\ landing.told \in Nat /\ landing.base = landing.at
  /\ \A r \in visits : VisitFits(r)
  /\ landing.managed \in {None, Ours} \/ landing.crossed
  /\ landing.told <= landing.at \/ landing.older

LEMMA StopFits ==
  ASSUME NEW ls, \A r \in ls : LookFits(r)
  PROVE  \A r \in Stop(ls) : LookFits(r) /\ r.live = FALSE
<1>1. ASSUME NEW r \in ls
      PROVE  LookFits([r EXCEPT !.live = FALSE]) /\ [r EXCEPT !.live = FALSE].live = FALSE
  <2>1. LookFits(r)
    OBVIOUS
  <2> QED
    BY <2>1 DEF LookFits, LookFields
<1> QED
  BY <1>1 DEF Stop

LEMMA LookUpFits ==
  ASSUME NEW d, NEW id
  PROVE  LookFits(LookUp(d, id)) /\ LookUp(d, id).day = d /\ LookUp(d, id).live = TRUE
BY DEF LookUp, LookFits, LookFields

LEMMA MoveFormFits ==
  ASSUME NEW f, DOMAIN f = FormFields, f.slots \subseteq Slots,
         \A r \in lookups : LookFits(r),
         NEW there, MoveFormBecomes(f, there)
  PROVE  /\ FormFits(form', lookups')
         /\ form'.appointment = f.appointment
<1>1. \A r \in Stop(lookups) : LookFits(r) /\ r.live = FALSE
  BY StopFits
<1>2. CASE there
  <2>1. PICK g : g = [f EXCEPT !.chosen = NoSlot]
    OBVIOUS
  <2>2. /\ DOMAIN g = FormFields /\ g.slots \subseteq Slots /\ g.chosen = NoSlot
        /\ g.appointment = f.appointment /\ g.day = f.day
    BY <2>1 DEF FormFields
  <2>3. NoSlot \notin Slots
    BY DEF NoSlot, Slots, Days, None
  <2>4. PICK r : r = LookUp(f.day, f.appointment)
    OBVIOUS
  <2>5. LookFits(r) /\ r.day = g.day /\ r.live = TRUE
    BY <2>2, <2>4, LookUpFits
  <2>6. form' = g /\ lookups' = Stop(lookups) \cup {r}
    BY <1>2, <2>1, <2>4 DEF MoveFormBecomes
  <2>7. g.chosen \notin g.slots
    BY <2>2, <2>3
  <2> QED
    BY <1>1, <2>2, <2>5, <2>6, <2>7 DEF FormFits
<1>3. CASE ~there
  <2>1. PICK g : g = [f EXCEPT !.slots = {}]
    OBVIOUS
  <2>2. /\ DOMAIN g = FormFields /\ g.slots = {}
        /\ g.appointment = f.appointment
    BY <2>1 DEF FormFields
  <2>3. form' = g /\ lookups' = Stop(lookups)
    BY <1>3, <2>1 DEF MoveFormBecomes
  <2> QED
    BY <1>1, <2>2, <2>3 DEF FormFits
<1> QED
  BY <1>2, <1>3

LEMMA NoFormFits ==
  ASSUME NEW ls, \A r \in ls : LookFits(r) /\ r.live = FALSE
  PROVE  /\ FormFits(NoForm, ls) /\ NoForm.appointment = None
         /\ NoForm.slots = {} /\ NoForm.base = 0
BY DEF FormFits, NoForm, FormFields

\* What is shown becomes sh and nothing else of the tab that the forms see.
LEMMA FormFollowsFits ==
  ASSUME FormOK, NEW sh, FormFollows(sh), edits' = edits,
         DOMAIN tab' = TabFields, tab'.view = tab.view, tab'.shown = sh
  PROVE  FormOK'
<1>1. CASE tab.view = "appointments"
  <2>1. \/ MoveFormBecomes(form, Present(form.appointment, sh))
        \/ UNCHANGED formVars
    BY <1>1 DEF FormFollows
  <2>2. CASE MoveFormBecomes(form, Present(form.appointment, sh))
    <3>1. FormFits(form', lookups')
      BY <2>2, MoveFormFits DEF FormOK, FormFits
    <3> QED
      BY <1>1, <3>1 DEF FormOK, FormFits
  <2>3. CASE UNCHANGED formVars
    BY <1>1, <2>3 DEF FormOK, FormFits, formVars
  <2> QED
    BY <2>1, <2>2, <2>3
<1>2. CASE tab.view = "setup"
  <2>1. PICK g : g = [form EXCEPT !.base = sh.at, !.typed = FALSE]
    OBVIOUS
  <2>2. /\ DOMAIN g = FormFields /\ g.slots = form.slots /\ g.day = form.day
        /\ g.chosen = form.chosen /\ g.early = form.early
        /\ g.appointment = form.appointment /\ g.base = sh.at
    BY <2>1 DEF FormOK, FormFits, FormFields
  <2>3. form' = g /\ lookups' = lookups
    BY <1>2, <2>1 DEF FormFollows
  <2> QED
    BY <1>2, <2>2, <2>3 DEF FormOK, FormFits
<1>3. CASE tab.view \notin {"appointments", "setup"}
  <2>1. UNCHANGED formVars
    BY <1>3 DEF FormFollows
  <2> QED
    BY <1>3, <2>1 DEF FormOK, FormFits, formVars
<1> QED
  BY <1>1, <1>2, <1>3

\* What the forms do not look at may change.
LEMMA FormElsewhere ==
  ASSUME FormOK, UNCHANGED <<formVars, edits>>,
         DOMAIN tab' = TabFields, tab'.view = tab.view, tab'.shown = tab.shown
  PROVE  FormOK'
BY DEF FormOK, FormFits, formVars

LEMMA FormSession ==
  ASSUME FormOK,
         \/ \E a \in Accounts : SignIn(a)
         \/ \E v \in Views : OpenView(v)
         \/ Logout \/ Reload
  PROVE  FormOK'
<1>1. ASSUME NEW a \in Accounts, SignIn(a)
      PROVE  FormOK'
  <2>1. PICK t : t = [tab EXCEPT !.token = a, !.error = FALSE, !.told = 0]
    OBVIOUS
  <2>2. DOMAIN t = TabFields /\ t.view = tab.view /\ t.shown = tab.shown
    BY <2>1 DEF FormOK, TabFields
  <2>3. tab' = t /\ FormFollows(tab.shown) /\ edits' = edits
    BY <1>1, <2>1 DEF SignIn
  <2> QED
    BY <2>2, <2>3, FormFollowsFits
<1>2. ASSUME NEW t, \A e \in edits' : EditFits(e) /\ e.waits = FALSE,
             DOMAIN t = TabFields, t.shown = Nothing, tab' = t,
             form' = NoForm, lookups' = {}
      PROVE  FormOK'
  <2>1. /\ FormFits(NoForm, {}) /\ NoForm.appointment = None
        /\ NoForm.slots = {} /\ NoForm.base = 0
    BY DEF FormFits, NoForm, FormFields
  <2>2. FormFits(form, lookups)'
    BY <1>2, <2>1 DEF FormFits
  <2>3. Nothing.at = 0
    BY DEF Nothing
  <2> QED
    BY <1>2, <2>1, <2>2, <2>3 DEF FormOK
<1>3. ASSUME NEW v \in Views, OpenView(v)
      PROVE  FormOK'
  <2>1. ASSUME NEW e \in edits
        PROVE  LET q == [e EXCEPT !.here = FALSE, !.waits = FALSE]
               IN EditFits(q) /\ q.waits = FALSE
    <3>1. EditFits(e)
      BY DEF FormOK
    <3> QED
      BY <3>1 DEF EditFits, EditFields
  <2>2. \A e \in edits' : EditFits(e) /\ e.waits = FALSE
    BY <1>3, <2>1 DEF OpenView
  <2>3. /\ DOMAIN NewTab(stored, v) = TabFields
        /\ NewTab(stored, v).shown = Nothing
    BY DEF NewTab, TabFields
  <2> QED
    BY <1>2, <1>3, <2>2, <2>3 DEF OpenView
<1>4. CASE Logout
  <2>1. ASSUME NEW e \in edits
        PROVE  LET q == [e EXCEPT !.waits = FALSE]
               IN EditFits(q) /\ q.waits = FALSE
    <3>1. EditFits(e)
      BY DEF FormOK
    <3> QED
      BY <3>1 DEF EditFits, EditFields
  <2>2. \A e \in edits' : EditFits(e) /\ e.waits = FALSE
    BY <1>4, <2>1 DEF Logout
  <2>3. PICK t : t = [tab EXCEPT !.token = None, !.shown = Nothing, !.told = 0,
                        !.crossed = FALSE, !.older = FALSE]
    OBVIOUS
  <2>4. DOMAIN t = TabFields /\ t.shown = Nothing
    BY <2>3 DEF FormOK, TabFields
  <2> QED
    BY <1>2, <1>4, <2>2, <2>3, <2>4 DEF Logout
<1>5. CASE Reload
  <2>1. PICK t : t = [tab EXCEPT !.error = FALSE]
    OBVIOUS
  <2>2. DOMAIN t = TabFields /\ t.view = tab.view /\ t.shown = tab.shown
    BY <2>1 DEF FormOK, TabFields
  <2> QED
    BY <1>5, <2>1, <2>2, FormElsewhere DEF Reload
<1> QED
  BY <1>1, <1>3, <1>4, <1>5

LEMMA FormLoads ==
  ASSUME FormOK, NEW l \in loads,
         AnswerLoad(l) \/ LoseLoad(l) \/ RefreshArrives(l)
  PROVE  FormOK'
<1>1. CASE AnswerLoad(l) \/ LoseLoad(l)
  BY <1>1, FormElsewhere DEF AnswerLoad, LoseLoad, FormOK
<1>2. CASE RefreshArrives(l)
  <2> DEFINE told == IF l.of = tab.token THEN Later(tab.told, l.tells) ELSE tab.told
  <2>1. \/ /\ tab' = [tab EXCEPT
                !.shown = l.read, !.reviews = l.of, !.told = told,
                !.crossed = l.of # tab.token,
                !.older = l.read.at < tab.told]
           /\ FormFollows(l.read)
        \/ /\ tab' = [tab EXCEPT !.error = TRUE, !.told = told]
           /\ UNCHANGED formVars
    BY <1>2 DEF RefreshArrives
  <2>2. edits' = edits
    BY <1>2 DEF RefreshArrives
  <2>3. CASE UNCHANGED formVars /\ tab' = [tab EXCEPT !.error = TRUE, !.told = told]
    <3> HIDE DEF told
    <3>1. PICK t : t = [tab EXCEPT !.error = TRUE, !.told = told]
      OBVIOUS
    <3>2. DOMAIN t = TabFields /\ t.view = tab.view /\ t.shown = tab.shown
      BY <3>1 DEF FormOK, TabFields
    <3> QED
      BY <2>2, <2>3, <3>1, <3>2, FormElsewhere
  <2>4. CASE /\ tab' = [tab EXCEPT
                !.shown = l.read, !.reviews = l.of, !.told = told,
                !.crossed = l.of # tab.token,
                !.older = l.read.at < tab.told]
             /\ FormFollows(l.read)
    <3> HIDE DEF told
    <3>1. PICK t : t = [tab EXCEPT
                !.shown = l.read, !.reviews = l.of, !.told = told,
                !.crossed = l.of # tab.token,
                !.older = l.read.at < tab.told]
      OBVIOUS
    <3>2. DOMAIN t = TabFields /\ t.view = tab.view /\ t.shown = l.read
      BY <3>1 DEF FormOK, TabFields
    <3> QED
      BY <2>2, <2>4, <3>1, <3>2, FormFollowsFits
  <2> QED
    BY <2>1, <2>3, <2>4
<1> QED
  BY <1>1, <1>2

\* An edit is sent, and every form stays as it is or the last one closes.
LEMMA SendFits ==
  ASSUME FormOK, NEW e, Send(e), EditFits(e),
         e.what = "series" => tab.view = "recurring"
  PROVE  /\ DOMAIN tab' = TabFields /\ tab'.view = tab.view
         /\ tab'.shown = tab.shown
         /\ \A q \in edits' : /\ EditFits(q)
                              /\ q.what = "series" /\ q.waits => tab.view = "recurring"
<1>1. PICK t : t = [tab EXCEPT !.error = @ /\ e.what = "series"]
  OBVIOUS
<1>2. DOMAIN t = TabFields /\ t.view = tab.view /\ t.shown = tab.shown
  BY <1>1 DEF FormOK, TabFields
<1>3. tab' = t /\ edits' = edits \cup {e}
  BY <1>1 DEF Send
<1> QED
  BY <1>2, <1>3 DEF FormOK

LEMMA EditIs ==
  ASSUME NEW what
  PROVE  /\ DOMAIN Edit(what) = EditFields /\ Edit(what).what = what
         /\ Edit(what).of = tab.token /\ Edit(what).here = TRUE
         /\ Edit(what).base = Edit(what).seen /\ Edit(what).at = 0
         /\ Edit(what).step = "sent"
BY DEF Edit, EditFields

\* The edits that are sent without a slot.
LEMMA FormSends ==
  ASSUME FormOK,
         \/ \E a \in tab.shown.agenda : CancelAppointment(a)
         \/ AddToSetup \/ SaveForm \/ OpenWeek
  PROVE  FormOK'
<1>1. ASSUME NEW e, EditFits(e), e.what # "series", Send(e), UNCHANGED formVars
      PROVE  FormOK'
  BY <1>1, SendFits DEF FormOK, FormFits, formVars
<1>2. ASSUME NEW a \in tab.shown.agenda, CancelAppointment(a)
      PROVE  FormOK'
  <2>1. PICK e : e = [Edit("cancel") EXCEPT !.appointment = a.id]
    OBVIOUS
  <2>2. DOMAIN e = EditFields /\ e.what = "cancel"
    BY <2>1, EditIs DEF EditFields
  <2> QED
    BY <1>1, <1>2, <2>1, <2>2 DEF CancelAppointment, EditFits
<1>3. CASE AddToSetup
  <2>1. PICK e : e = Edit("setup")
    OBVIOUS
  <2>2. /\ DOMAIN e = EditFields /\ e.what = "setup" /\ e.base = e.seen
    BY <2>1, EditIs
  <2> QED
    BY <1>1, <1>3, <2>1, <2>2 DEF AddToSetup, EditFits
<1>4. CASE SaveForm
  <2>1. PICK e : e = [Edit("setup") EXCEPT !.base = form.base, !.seen = tab.shown.at]
    OBVIOUS
  <2>2. /\ DOMAIN e = EditFields /\ e.what = "setup"
        /\ e.base = form.base /\ e.seen = tab.shown.at
    BY <2>1, EditIs DEF EditFields
  <2>3. form.base = tab.shown.at
    BY <1>4 DEF SaveForm, FormOK
  <2> QED
    BY <1>1, <1>4, <2>1, <2>2, <2>3 DEF SaveForm, EditFits
<1>5. CASE OpenWeek
  <2>1. PICK e : e = [Edit("week") EXCEPT !.days = Days \ tab.shown.rules]
    OBVIOUS
  <2>2. DOMAIN e = EditFields /\ e.what = "week"
    BY <2>1, EditIs DEF EditFields
  <2> QED
    BY <1>1, <1>5, <2>1, <2>2 DEF OpenWeek, EditFits
<1> QED
  BY <1>2, <1>3, <1>4, <1>5

LEMMA SubmitFormFits ==
  ASSUME FormOK, SubmitForm
  PROVE  FormOK'
<1>0. form.chosen \in form.slots
  BY DEF SubmitForm
<1>1. CASE /\ Present(form.appointment, tab.shown)
           /\ Send([Edit("move") EXCEPT
                   !.appointment = form.appointment, !.day = form.day,
                   !.slot = form.chosen, !.early = form.early])
           /\ form' = NoForm /\ lookups' = Stop(lookups)
  <2>1. PICK e : e = [Edit("move") EXCEPT
                   !.appointment = form.appointment, !.day = form.day,
                   !.slot = form.chosen, !.early = form.early]
    OBVIOUS
  <2>2. /\ DOMAIN e = EditFields /\ e.what = "move" /\ e.day = form.day
        /\ e.slot = form.chosen /\ e.early = form.early
    BY <2>1, EditIs DEF EditFields
  <2>3. EditFits(e)
    BY <1>0, <2>2 DEF EditFits, FormOK, FormFits
  <2>4. Send(e)
    BY <1>1, <2>1
  <2>5. tab.view = "appointments"
    BY <1>1 DEF Present, FormOK
  <2>6. \A r \in Stop(lookups) : LookFits(r) /\ r.live = FALSE
    BY StopFits DEF FormOK, FormFits
  <2>7. /\ FormFits(NoForm, Stop(lookups)) /\ NoForm.appointment = None
        /\ NoForm.slots = {}
    BY <2>6, NoFormFits
  <2> QED
    BY <1>1, <2>2, <2>3, <2>4, <2>5, <2>7, SendFits DEF FormOK
<1>2. CASE /\ tab.view = "recurring"
           /\ Send([Edit("series") EXCEPT
                   !.day = form.day, !.slot = form.chosen])
           /\ UNCHANGED formVars
  <2>1. PICK e : e = [Edit("series") EXCEPT !.day = form.day, !.slot = form.chosen]
    OBVIOUS
  <2>2. /\ DOMAIN e = EditFields /\ e.what = "series" /\ e.day = form.day
        /\ e.slot = form.chosen
    BY <2>1, EditIs DEF EditFields
  <2>3. EditFits(e)
    BY <1>0, <1>2, <2>2 DEF EditFits, FormOK
  <2>4. Send(e)
    BY <1>2, <2>1
  <2> QED
    BY <1>2, <2>2, <2>3, <2>4, SendFits DEF FormOK, FormFits, formVars
<1> QED
  BY <1>1, <1>2 DEF SubmitForm

LEMMA FormTyped ==
  ASSUME FormOK,
         \/ Type \/ \E a \in tab.shown.agenda : OpenMoveForm(a)
         \/ \E d \in Days : ChooseMoveDay(d) \/ ChooseSeriesDay(d)
         \/ \E s \in Slots : ChooseFormSlot(s)
  PROVE  FormOK'
<1>1. CASE Type
  <2>1. PICK g : g = [form EXCEPT !.typed = TRUE]
    OBVIOUS
  <2>2. /\ DOMAIN g = FormFields /\ g.slots = form.slots /\ g.day = form.day
        /\ g.chosen = form.chosen /\ g.early = form.early
        /\ g.appointment = form.appointment /\ g.base = form.base
    BY <2>1 DEF FormOK, FormFits, FormFields
  <2>3. form' = g /\ lookups' = lookups /\ tab' = tab /\ edits' = edits
    BY <1>1, <2>1 DEF Type, tabVars
  <2> QED
    BY <2>2, <2>3 DEF FormOK, FormFits
<1>2. ASSUME NEW f, DOMAIN f = FormFields, f.slots = form.slots,
             MoveFormBecomes(f, TRUE), tab.view = "appointments",
             UNCHANGED <<tab, edits>>
      PROVE  FormOK'
  <2>1. FormFits(form', lookups')
    BY <1>2, MoveFormFits DEF FormOK, FormFits
  <2> QED
    BY <1>2, <2>1 DEF FormOK, FormFits
<1>3. ASSUME NEW a \in tab.shown.agenda, OpenMoveForm(a)
      PROVE  FormOK'
  <2>1. PICK f : f = [form EXCEPT !.appointment = a.id, !.day = a.slot.day]
    OBVIOUS
  <2>2. DOMAIN f = FormFields /\ f.slots = form.slots
    BY <2>1 DEF FormOK, FormFits, FormFields
  <2> QED
    BY <1>2, <1>3, <2>1, <2>2 DEF OpenMoveForm, tabVars
<1>4. ASSUME NEW d \in Days, ChooseMoveDay(d)
      PROVE  FormOK'
  <2>1. PICK f : f = [form EXCEPT !.day = d]
    OBVIOUS
  <2>2. DOMAIN f = FormFields /\ f.slots = form.slots
    BY <2>1 DEF FormOK, FormFits, FormFields
  <2> QED
    BY <1>2, <1>4, <2>1, <2>2 DEF ChooseMoveDay, tabVars
<1>5. ASSUME NEW d \in Days, ChooseSeriesDay(d)
      PROVE  FormOK'
  <2>1. PICK g : g = [form EXCEPT !.day = d, !.slots = {}, !.chosen = NoSlot]
    OBVIOUS
  <2>2. /\ DOMAIN g = FormFields /\ g.slots = {} /\ g.day = d
        /\ g.appointment = form.appointment /\ g.base = form.base
    BY <2>1 DEF FormOK, FormFits, FormFields
  <2>3. PICK r : r = LookUp(d, None)
    OBVIOUS
  <2>4. LookFits(r) /\ r.day = d /\ r.live = TRUE
    BY <2>3, LookUpFits
  <2>5. /\ form' = g /\ lookups' = Stop(lookups) \cup {r}
        /\ tab' = tab /\ edits' = edits
    BY <1>5, <2>1, <2>3 DEF ChooseSeriesDay, tabVars
  <2>6. \A q \in Stop(lookups) : LookFits(q) /\ q.live = FALSE
    BY StopFits DEF FormOK, FormFits
  <2> QED
    BY <1>5, <2>2, <2>4, <2>5, <2>6 DEF FormOK, FormFits, ChooseSeriesDay
<1>6. ASSUME NEW s \in Slots, ChooseFormSlot(s)
      PROVE  FormOK'
  <2>1. PICK g : g = [form EXCEPT !.chosen = s,
                          !.early = \E r \in lookups : r.live]
    OBVIOUS
  <2>2. /\ DOMAIN g = FormFields /\ g.slots = form.slots /\ g.day = form.day
        /\ g.chosen = s /\ g.appointment = form.appointment
        /\ g.base = form.base
    BY <2>1 DEF FormOK, FormFits, FormFields
  <2>3. g.early = (\E r \in lookups : r.live)
    BY <2>1 DEF FormOK, FormFits, FormFields
  <2>4. form' = g /\ lookups' = lookups /\ tab' = tab /\ edits' = edits
    BY <1>6, <2>1 DEF ChooseFormSlot, tabVars
  <2> QED
    BY <2>2, <2>3, <2>4 DEF FormOK, FormFits
<1> QED
  BY <1>1, <1>3, <1>4, <1>5, <1>6

\* The server answers an edit, or the answer is lost: the day, the slot and
\* the form it was sent from are those it had.
SameEdit(e, q) ==
  /\ DOMAIN q = EditFields
  /\ q.what = e.what /\ q.of = e.of /\ q.here = e.here /\ q.waits = e.waits
  /\ q.day = e.day /\ q.slot = e.slot /\ q.early = e.early
  /\ q.base = e.base /\ q.seen = e.seen

LEMMA AnswerIsSame ==
  ASSUME NEW e \in edits, DOMAIN e = EditFields,
         AnswerEdit(e) \/ LoseEdit(e)
  PROVE  \E q : /\ SameEdit(e, q) /\ edits' = (edits \ {e}) \cup {q}
                /\ q.at = e.at \/ (q.at = version + 1 /\ version' = version + 1)
                /\ q.step \in {e.step, "ok", "failed"}
<1>1. PICK q1 : q1 = [e EXCEPT !.step = "ok", !.at = version + 1]
  OBVIOUS
<1>2. PICK q2 : q2 = [e EXCEPT !.step = "failed"]
  OBVIOUS
<1>3. PICK q3 : q3 = [e EXCEPT
        !.days = @ \ {CHOOSE f \in e.days : \A g \in e.days : f <= g}]
  OBVIOUS
<1>4. /\ SameEdit(e, q1) /\ q1.at = version + 1 /\ q1.step = "ok"
      /\ SameEdit(e, q2) /\ q2.at = e.at /\ q2.step = "failed"
      /\ SameEdit(e, q3) /\ q3.at = e.at /\ q3.step = e.step
  BY <1>1, <1>2, <1>3 DEF SameEdit, EditFields
<1>5. /\ Accepted(e) => edits' = (edits \ {e}) \cup {q1}
      /\ Refusal(e) => edits' = (edits \ {e}) \cup {q2}
  BY <1>1, <1>2 DEF Accepted, Refusal, Outcome
<1>6. ASSUME NEW s, BookAt(s)
      PROVE  version' = version + 1
  BY <1>6 DEF BookAt, Changed
<1>7. ASSUME NEW a, Remove(a) \/ \E s : Move(a, s)
      PROVE  version' = version + 1
  BY <1>7 DEF Remove, Move, Changed
<1>8. ASSUME SetUp \/ \E d : OpenDay(d)
      PROVE  version' = version + 1
  BY <1>8 DEF SetUp, OpenDay, Changed
<1>9. \/ Accepted(e) /\ version' = version + 1
      \/ Refusal(e)
      \/ edits' = (edits \ {e}) \cup {q3}
  <2>1. CASE AnswerEdit(e)
    <3>1. CASE e.what = "week" /\ AnswerWeek(e)
      BY <3>1, <1>3, <1>8 DEF AnswerWeek, Outcome
    <3>2. CASE e.what = "setup" /\ SetUp /\ Accepted(e)
      BY <3>2, <1>8
    <3>3. CASE /\ ~(e.what = "week" /\ AnswerWeek(e))
               /\ ~(e.what = "setup" /\ SetUp /\ Accepted(e))
      BY <2>1, <3>3, <1>6, <1>7 DEF AnswerEdit
    <3> QED
      BY <3>1, <3>2, <3>3
  <2>2. CASE LoseEdit(e)
    BY <2>2 DEF LoseEdit
  <2> QED
    BY <2>1, <2>2
<1>10. CASE Accepted(e) /\ version' = version + 1
  <2> WITNESS q1
  <2> QED
    BY <1>4, <1>5, <1>10
<1>11. CASE Refusal(e)
  <2> WITNESS q2
  <2> QED
    BY <1>4, <1>5, <1>11
<1>12. CASE edits' = (edits \ {e}) \cup {q3}
  <2> WITNESS q3
  <2> QED
    BY <1>4, <1>12
<1> QED
  BY <1>9, <1>10, <1>11, <1>12

LEMMA FormAnswers ==
  ASSUME FormOK, NEW e \in edits,
         AnswerEdit(e) \/ LoseEdit(e) \/ EditArrives(e)
  PROVE  FormOK'
<1>1. CASE AnswerEdit(e) \/ LoseEdit(e)
  <2>1. PICK q : SameEdit(e, q) /\ edits' = (edits \ {e}) \cup {q}
    BY <1>1, AnswerIsSame DEF FormOK, EditFits
  <2>2. UNCHANGED <<tab, formVars>>
    BY <1>1 DEF AnswerEdit, LoseEdit
  <2>3. /\ EditFits(q)
        /\ q.what = "series" /\ q.waits => tab.view = "recurring"
    BY <2>1 DEF FormOK, EditFits, SameEdit
  <2> QED
    BY <2>1, <2>2, <2>3 DEF FormOK, FormFits, formVars
<1>2. CASE EditArrives(e)
  <2>1. PICK t : t = [tab EXCEPT !.error = e.step = "failed"]
    OBVIOUS
  <2>2. DOMAIN t = TabFields /\ t.view = tab.view /\ t.shown = tab.shown
    BY <2>1 DEF FormOK, TabFields
  <2>3. /\ DOMAIN tab' = TabFields /\ tab'.view = tab.view /\ tab'.shown = tab.shown
        /\ edits' = edits \ {e}
    BY <1>2, <2>1, <2>2 DEF EditArrives, FormOK
  <2>4. CASE UNCHANGED formVars
    BY <2>3, <2>4 DEF FormOK, FormFits, formVars
  <2>5. CASE /\ e.what = "series" /\ e.waits
             /\ form' = NoForm /\ lookups' = Stop(lookups)
    <3>1. tab.view = "recurring"
      BY <2>5 DEF FormOK
    <3>2. \A r \in Stop(lookups) : LookFits(r) /\ r.live = FALSE
      BY StopFits DEF FormOK, FormFits
    <3>3. /\ FormFits(NoForm, Stop(lookups)) /\ NoForm.appointment = None
          /\ NoForm.slots = {}
      BY <3>2 DEF FormFits, NoForm, FormFields
    <3> QED
      BY <2>3, <2>5, <3>1, <3>3 DEF FormOK
  <2> QED
    BY <1>2, <2>4, <2>5 DEF EditArrives, SeriesFormFollows
<1> QED
  BY <1>1, <1>2

LEMMA FormLooks ==
  ASSUME FormOK, NEW r \in lookups,
         AnswerLookUp(r) \/ LoseLookUp(r) \/ LookUpArrives(r)
  PROVE  FormOK'
<1>0. LookFits(r) /\ (r.live => r.day = form.day)
  BY DEF FormOK, FormFits
<1>1. ASSUME NEW q, LookFits(q), q.live = r.live, q.day = r.day,
             lookups' = (lookups \ {r}) \cup {q}, UNCHANGED <<tab, edits, form>>
      PROVE  FormOK'
  BY <1>0, <1>1 DEF FormOK, FormFits
<1>2. CASE AnswerLookUp(r)
  <2>1. PICK q1 : q1 = [r EXCEPT !.step = "ok", !.slots = FreeFor(r.id, r.day)]
    OBVIOUS
  <2>2. PICK q2 : q2 = [r EXCEPT !.step = "failed"]
    OBVIOUS
  <2>3. /\ DOMAIN q1 = LookFields /\ q1.live = r.live /\ q1.day = r.day
        /\ q1.slots = FreeFor(r.id, r.day)
        /\ DOMAIN q2 = LookFields /\ q2.live = r.live /\ q2.day = r.day
        /\ q2.slots = r.slots
    BY <1>0, <2>1, <2>2 DEF LookFits, LookFields
  <2>4. LookFits(q1) /\ LookFits(q2)
    BY <1>0, <2>3, FreeIsOfDay DEF LookFits
  <2> QED
    BY <1>1, <1>2, <2>1, <2>2, <2>3, <2>4 DEF AnswerLookUp, tabVars
<1>3. CASE LoseLookUp(r)
  <2>1. PICK q : q = [r EXCEPT !.step = "failed", !.slots = {}]
    OBVIOUS
  <2>2. LookFits(q) /\ q.live = r.live /\ q.day = r.day
    BY <1>0, <2>1 DEF LookFits, LookFields
  <2> QED
    BY <1>1, <1>3, <2>1, <2>2 DEF LoseLookUp, tabVars
<1>4. CASE LookUpArrives(r)
  <2>1. CASE r.live
    <3>1. PICK g : g = [form EXCEPT !.slots = r.slots]
      OBVIOUS
    <3>2. /\ DOMAIN g = FormFields /\ g.slots = r.slots /\ g.day = form.day
          /\ g.chosen = form.chosen /\ g.early = form.early
          /\ g.appointment = form.appointment /\ g.base = form.base
      BY <3>1 DEF FormOK, FormFits, FormFields
    <3>3. form' = g /\ lookups' = lookups \ {r} /\ UNCHANGED <<tab, edits>>
      BY <1>4, <2>1, <3>1 DEF LookUpArrives, tabVars
    <3> QED
      BY <1>0, <2>1, <3>2, <3>3 DEF FormOK, FormFits, LookFits
  <2>2. CASE ~r.live
    BY <1>4, <2>2 DEF LookUpArrives, tabVars, FormOK, FormFits
  <2> QED
    BY <2>1, <2>2
<1> QED
  BY <1>2, <1>3, <1>4

LEMMA FormInit ==
  ASSUME DashboardInit
  PROVE  FormOK
<1>1. PICK t, v : tab = NewTab(t, v)
  BY DEF DashboardInit
<1>2. DOMAIN tab = TabFields /\ tab.shown = Nothing
  BY <1>1 DEF NewTab, TabFields
<1>3. /\ FormFits(NoForm, {}) /\ NoForm.appointment = None
      /\ NoForm.slots = {} /\ NoForm.base = 0
  BY DEF FormFits, NoForm, FormFields
<1>4. form = NoForm /\ lookups = {} /\ edits = {}
  BY DEF DashboardInit
<1>5. Nothing.at = 0
  BY DEF Nothing
<1>6. FormFits(form, lookups)
  BY <1>3, <1>4
<1> QED
  BY <1>2, <1>3, <1>4, <1>5, <1>6 DEF FormOK

LEMMA FormStep ==
  ASSUME FormOK, DashboardNext
  PROVE  FormOK'
<1>1. CASE \/ \E a \in Accounts : SignIn(a)
           \/ \E v \in Views : OpenView(v)
           \/ Logout \/ Reload
  BY <1>1, FormSession
<1>2. CASE \E l \in loads : AnswerLoad(l) \/ LoseLoad(l) \/ RefreshArrives(l)
  BY <1>2, FormLoads
<1>3. CASE \/ \E a \in tab.shown.agenda : CancelAppointment(a)
           \/ AddToSetup \/ SaveForm \/ OpenWeek
  BY <1>3, FormSends
<1>4. CASE SubmitForm
  BY <1>4, SubmitFormFits
<1>5. CASE \/ Type \/ \E a \in tab.shown.agenda : OpenMoveForm(a)
           \/ \E d \in Days : ChooseMoveDay(d) \/ ChooseSeriesDay(d)
           \/ \E s \in Slots : ChooseFormSlot(s)
  BY <1>5, FormTyped
<1>6. CASE \E e \in edits : AnswerEdit(e) \/ LoseEdit(e) \/ EditArrives(e)
  BY <1>6, FormAnswers
<1>7. CASE \E r \in lookups : AnswerLookUp(r) \/ LoseLookUp(r) \/ LookUpArrives(r)
  BY <1>7, FormLooks
<1>8. ASSUME \/ \E c \in Clients : SelectClient(c)
             \/ SaveClient
             \/ \E r \in reads : AnswerRead(r) \/ LoseRead(r) \/ ReadArrives(r)
      PROVE  FormOK'
  BY <1>8, FormElsewhere DEF FormOK, SelectClient, SaveClient, AnswerRead,
     LoseRead, ReadArrives, tabVars
<1> QED
  BY <1>1, <1>2, <1>3, <1>4, <1>5, <1>6, <1>7, <1>8 DEF DashboardNext

LEMMA FormStays ==
  ASSUME FormOK, UNCHANGED dashboardVars
  PROVE  FormOK'
BY FormElsewhere DEF FormOK, dashboardVars, tabVars

LEMMA LandingUnaware ==
  ASSUME LandingNext
  PROVE  UNCHANGED dashboardVars
BY Zenon DEF LandingNext, Visit, TypeRow, SaveRow, DeleteRow, SendRow, Confirm,
   AnswerVisit, LoseVisit, LandingArrives, Unaware, dashboardVars

SentOK == BookingOK /\ MoveFormOK /\ FormOK

LEMMA SentInit ==
  ASSUME WebInit
  PROVE  SentOK
BY BookingInitOK, MoveFormInit, FormInit DEF WebInit, SentOK

LEMMA SentStep ==
  ASSUME SentOK, [WebNext]_webVars
  PROVE  SentOK'
<1>1. CASE BookingNext /\ UNCHANGED <<linksVars, dashboardVars, landingVars>>
  BY <1>1, BookingStep, MoveFormStays, FormStays DEF SentOK, linksVars
<1>2. CASE LinksNext /\ UNCHANGED <<bookingVars, dashboardVars, landingVars>>
  <2>1. MoveFormOK'
    BY <1>2, MoveFormStep, MoveFormStays, LinksNextSplits
    DEF SentOK, manageVars
  <2> QED
    BY <1>2, <2>1, BookingStays, FormStays DEF SentOK
<1>3. CASE DashboardNext /\ UNCHANGED <<bookingVars, linksVars, landingVars>>
  BY <1>3, FormStep, BookingStays, MoveFormStays DEF SentOK, linksVars
<1>4. CASE LandingNext /\ UNCHANGED <<bookingVars, linksVars>>
  BY <1>4, LandingUnaware, FormStays, BookingStays, MoveFormStays
  DEF SentOK, linksVars
<1>5. CASE UNCHANGED webVars
  BY <1>5, FormStays, BookingStays, MoveFormStays
  DEF SentOK, webVars, linksVars
<1> QED
  BY <1>1, <1>2, <1>3, <1>4, <1>5 DEF WebNext

\* What a page sends is what it showed when it was sent, but for a slot that
\* was picked while those of another day were being looked up (early).
THEOREM PagesSendWhatTheyShow == WebSpec => []SentAsShown
<1>1. WebInit => SentOK
  BY SentInit
<1>2. SentOK /\ [WebNext]_webVars => SentOK'
  BY SentStep
<1>3. SentOK => SentAsShown
  BY DEF SentOK, SentAsShown, BookingOK, MoveFormOK, FormOK, EditFits,
     FormsSendWhatTheyShow
<1> QED
  BY <1>1, <1>2, <1>3, PTL DEF WebSpec

(***************************************************************************)
(* The edits that the dashboard announces.  A refresh that follows an edit *)
(* was answered after it, so it shows at least the version it announces.   *)
(***************************************************************************)
LEMMA EditsElsewhere ==
  ASSUME EditsOK, version \in Nat, version' \in Nat, version <= version',
         UNCHANGED <<tab, loads, edits>>
  PROVE  EditsOK'
BY DEF EditsOK, LoadFits, EditIsOurs

LEMMA NewLoadFits ==
  ASSUME SiteOK, NEW a, NEW v \in 0..version, a # Ours => v = 0
  PROVE  LoadFits(Load(a, v))
<1>1. PICK l : l = Load(a, v)
  OBVIOUS
<1>2. /\ DOMAIN l = LoadFields /\ l.of = a /\ l.step = "sent"
      /\ l.read = Nothing /\ l.tells = v
  BY <1>1 DEF Load, LoadFields
<1>3. DOMAIN Nothing = ShownFields /\ Nothing.at = 0
  BY DEF Nothing, ShownFields
<1> QED
  BY <1>1, <1>2, <1>3 DEF LoadFits

LEMMA EditsSession ==
  ASSUME SiteOK, EditsOK, UNCHANGED version,
         \/ \E a \in Accounts : SignIn(a)
         \/ \E v \in Views : OpenView(v)
         \/ Logout \/ Reload
  PROVE  EditsOK'
<1>1. DOMAIN Nothing = ShownFields /\ Nothing.at = 0 /\ Nothing.of = None
  BY DEF Nothing, ShownFields
<1>2. \A a : LoadFits(Load(a, 0))
  BY NewLoadFits DEF SiteOK
<1>3. ASSUME NEW a, NEW t, DOMAIN t = TabFields, t.shown = tab.shown,
             t.told \in Nat, tab' = t, edits' = edits,
             loads' = loads \cup {Load(a, 0)}
      PROVE  EditsOK'
  BY <1>2, <1>3 DEF EditsOK, LoadFits
<1>4. ASSUME NEW a \in Accounts, SignIn(a)
      PROVE  EditsOK'
  <2>1. PICK t : t = [tab EXCEPT !.token = a, !.error = FALSE, !.told = 0]
    OBVIOUS
  <2>2. DOMAIN t = TabFields /\ t.shown = tab.shown /\ t.told \in Nat
    BY <2>1 DEF EditsOK, TabFields
  <2> QED
    BY <1>3, <1>4, <2>1, <2>2 DEF SignIn
<1>5. CASE Reload
  <2>1. PICK t : t = [tab EXCEPT !.error = FALSE]
    OBVIOUS
  <2>2. DOMAIN t = TabFields /\ t.shown = tab.shown /\ t.told \in Nat
    BY <2>1 DEF EditsOK, TabFields
  <2> QED
    BY <1>3, <1>5, <2>1, <2>2 DEF Reload
<1>6. ASSUME NEW t, DOMAIN t = TabFields, t.shown = Nothing, t.told = 0,
             tab' = t, \A l \in loads' : LoadFits(l),
             \A e \in edits' : EditIsOurs(e, version)
      PROVE  EditsOK'
  BY <1>1, <1>6 DEF EditsOK, LoadFits
<1>7. ASSUME NEW v \in Views, OpenView(v)
      PROVE  EditsOK'
  <2>1. ASSUME NEW e \in edits
        PROVE  LET q == [e EXCEPT !.here = FALSE, !.waits = FALSE]
               IN EditIsOurs(q, version)
    BY DEF EditsOK, EditFields, EditIsOurs
  <2>2. PICK t : t = NewTab(stored, v)
    OBVIOUS
  <2>3. DOMAIN t = TabFields /\ t.shown = Nothing /\ t.told = 0
    BY <2>2 DEF NewTab, TabFields
  <2>4. /\ tab' = t /\ \A l \in loads' : LoadFits(l)
        /\ \A e \in edits' : EditIsOurs(e, version)
    BY <1>2, <1>7, <2>1, <2>2 DEF OpenView
  <2> QED
    BY <1>6, <2>3, <2>4
<1>8. CASE Logout
  <2>1. ASSUME NEW e \in edits
        PROVE  LET q == [e EXCEPT !.waits = FALSE]
               IN EditIsOurs(q, version)
    BY DEF EditsOK, EditFields, EditIsOurs
  <2>2. PICK t : t = [tab EXCEPT !.token = None, !.shown = Nothing, !.told = 0,
                        !.crossed = FALSE, !.older = FALSE]
    OBVIOUS
  <2>3. DOMAIN t = TabFields /\ t.shown = Nothing /\ t.told = 0
    BY <2>2 DEF EditsOK, TabFields
  <2>4. /\ tab' = t /\ \A l \in loads' : LoadFits(l)
        /\ \A e \in edits' : EditIsOurs(e, version)
    BY <1>8, <2>1, <2>2 DEF Logout, EditsOK
  <2> QED
    BY <1>6, <2>3, <2>4
<1> QED
  BY <1>4, <1>5, <1>7, <1>8

LEMMA EditsLoads ==
  ASSUME SiteOK, EditsOK, UNCHANGED version, NEW l \in loads,
         AnswerLoad(l) \/ LoseLoad(l)
  PROVE  EditsOK'
<1>0. LoadFits(l)
  BY DEF EditsOK
<1>1. ASSUME NEW q, LoadFits(q), loads' = (loads \ {l}) \cup {q},
             UNCHANGED <<tab, edits>>
      PROVE  EditsOK'
  BY <1>1 DEF EditsOK, LoadFits
<1>2. DOMAIN Nothing = ShownFields /\ Nothing.at = 0
  BY DEF Nothing, ShownFields
<1>3. CASE AnswerLoad(l)
  <2>1. PICK rd : rd = IF l.of = Ours
                       THEN [of |-> l.of, agenda |-> agenda, rules |-> rules,
                             at |-> version]
                       ELSE [Nothing EXCEPT !.of = l.of]
    OBVIOUS
  <2>2. /\ DOMAIN rd = ShownFields /\ rd.of = l.of
        /\ rd.at = IF l.of = Ours THEN version ELSE 0
    BY <2>1 DEF Nothing, ShownFields
  <2>3. PICK q : q = [l EXCEPT !.step = "ok", !.read = rd]
    OBVIOUS
  <2>4. /\ DOMAIN q = LoadFields /\ q.step = "ok" /\ q.read = rd
        /\ q.of = l.of /\ q.tells = l.tells
    BY <1>0, <2>3 DEF LoadFits, LoadFields
  <2>5. l.step = "sent"
    BY <1>3 DEF AnswerLoad
  <2>6. LoadFits(q)
    BY <1>0, <2>2, <2>4, <2>5 DEF LoadFits, SiteOK
  <2> QED
    BY <1>1, <1>3, <2>1, <2>3, <2>6 DEF AnswerLoad
<1>4. CASE LoseLoad(l)
  <2>1. PICK q1 : q1 = [Load(l.of, l.tells) EXCEPT !.step = "failed"]
    OBVIOUS
  <2>2. PICK q2 : q2 = [l EXCEPT !.read.agenda = {}]
    OBVIOUS
  <2>3. /\ DOMAIN q1 = LoadFields /\ q1.step = "failed" /\ q1.read = Nothing
        /\ q1.tells = l.tells
    BY <2>1 DEF Load, LoadFields
  <2>4. /\ DOMAIN q2 = LoadFields /\ q2.step = l.step /\ DOMAIN q2.read = ShownFields
        /\ q2.of = l.of /\ q2.tells = l.tells /\ q2.read.of = l.read.of
        /\ q2.read.at = l.read.at
    BY <1>0, <2>2 DEF LoadFits, LoadFields, ShownFields
  <2>5. LoadFits(q1) /\ LoadFits(q2)
    BY <1>0, <1>2, <2>3, <2>4 DEF LoadFits
  <2>6. UNCHANGED <<tab, edits>>
    BY <1>4 DEF LoseLoad
  <2> QED
    BY <1>1, <1>4, <2>1, <2>2, <2>5, <2>6 DEF LoseLoad
<1> QED
  BY <1>3, <1>4

\* What the refresh shows is as new as what it announces; what it does not
\* announce, but was announced before, is as old only if `older` says so.
LEMMA EditsRefresh ==
  ASSUME SiteOK, EditsOK, UNCHANGED version, NEW l \in loads, RefreshArrives(l)
  PROVE  EditsOK'
<1>0. LoadFits(l)
  BY DEF EditsOK
<1>1. PICK told : told = IF l.of = tab.token THEN Later(tab.told, l.tells) ELSE tab.told
  OBVIOUS
<1>2. /\ told \in Nat /\ l.read.at \in Nat /\ tab.told \in Nat
      /\ tab.told <= l.read.at /\ l.tells <= l.read.at => told <= l.read.at
  BY <1>0, <1>1 DEF EditsOK, LoadFits, Later
<1>3. /\ loads' = loads \ {l} /\ edits' = edits
      /\ \/ /\ l.step = "ok"
            /\ tab' = [tab EXCEPT
                !.shown = l.read, !.reviews = l.of, !.told = told,
                !.crossed = l.of # tab.token,
                !.older = l.read.at < tab.told]
         \/ tab' = [tab EXCEPT !.error = TRUE, !.told = told]
  BY <1>1 DEF RefreshArrives
<1>4. CASE tab' = [tab EXCEPT !.error = TRUE, !.told = told]
  <2>1. PICK t : t = [tab EXCEPT !.error = TRUE, !.told = told]
    OBVIOUS
  <2>2. DOMAIN t = TabFields /\ t.shown = tab.shown /\ t.told = told /\ t.error = TRUE
    BY <2>1 DEF EditsOK, TabFields
  <2>3. tab' = t
    BY <1>4, <2>1
  <2> QED
    BY <1>2, <1>3, <2>2, <2>3 DEF EditsOK, LoadFits
<1>5. CASE /\ l.step = "ok"
           /\ tab' = [tab EXCEPT
                !.shown = l.read, !.reviews = l.of, !.told = told,
                !.crossed = l.of # tab.token,
                !.older = l.read.at < tab.told]
  <2>1. PICK t : t = [tab EXCEPT
                !.shown = l.read, !.reviews = l.of, !.told = told,
                !.crossed = l.of # tab.token,
                !.older = l.read.at < tab.told]
    OBVIOUS
  <2>2. DOMAIN t = TabFields /\ t.shown = l.read /\ t.told = told
    BY <2>1 DEF EditsOK, TabFields
  <2>3. t.older = (l.read.at < tab.told)
    BY <2>1 DEF EditsOK, TabFields
  <2>4. tab' = t
    BY <1>5, <2>1
  <2>5. l.tells <= l.read.at /\ DOMAIN l.read = ShownFields
    BY <1>0, <1>5 DEF LoadFits
  <2>6. t.older \/ told <= l.read.at
    <3>1. CASE l.read.at < tab.told
      BY <2>3, <3>1
    <3>2. CASE tab.told <= l.read.at
      BY <1>2, <2>5, <3>2
    <3> QED
      BY <1>2, <3>1, <3>2
  <2> QED
    BY <1>2, <1>3, <2>2, <2>4, <2>5, <2>6 DEF EditsOK, LoadFits
<1> QED
  BY <1>3, <1>4, <1>5

LEMMA EditsSend ==
  ASSUME SiteOK, EditsOK, UNCHANGED version, NEW e, Send(e),
         DOMAIN e = EditFields, e.of = tab.token, e.here = TRUE, e.at = 0, e.step = "sent"
  PROVE  EditsOK'
<1>1. PICK t : t = [tab EXCEPT !.error = @ /\ e.what = "series"]
  OBVIOUS
<1>2. /\ DOMAIN t = TabFields /\ t.token = tab.token /\ t.shown = tab.shown
      /\ t.told = tab.told /\ t.older = tab.older
  BY <1>1 DEF EditsOK, TabFields
<1>3. t.error = (tab.error /\ e.what = "series")
  BY <1>1 DEF EditsOK, TabFields
<1>4. tab' = t /\ edits' = edits \cup {e} /\ loads' = loads /\ tab.token = Ours
  BY <1>1 DEF Send
<1>5. e.what = "series" /\ tab.error => t.error
  BY <1>3
<1>6. EditIsOurs(e, version)
  BY <1>4 DEF SiteOK, EditIsOurs
<1> QED
  BY <1>2, <1>4, <1>5, <1>6 DEF EditsOK, LoadFits

LEMMA EditsSends ==
  ASSUME SiteOK, EditsOK, UNCHANGED version,
         \/ \E a \in tab.shown.agenda : CancelAppointment(a)
         \/ AddToSetup \/ SaveForm \/ OpenWeek \/ SubmitForm
  PROVE  EditsOK'
<1>1. ASSUME NEW a \in tab.shown.agenda, CancelAppointment(a)
      PROVE  EditsOK'
  <2>1. PICK e : e = [Edit("cancel") EXCEPT !.appointment = a.id]
    OBVIOUS
  <2>2. /\ DOMAIN e = EditFields /\ e.of = tab.token /\ e.here = TRUE /\ e.at = 0
        /\ e.step = "sent"
    BY <2>1, EditIs DEF EditFields
  <2> QED
    BY <1>1, <2>1, <2>2, EditsSend DEF CancelAppointment
<1>2. CASE AddToSetup
  BY <1>2, EditIs, EditsSend DEF AddToSetup
<1>3. CASE SaveForm
  <2>1. PICK e : e = [Edit("setup") EXCEPT !.base = form.base, !.seen = tab.shown.at]
    OBVIOUS
  <2>2. /\ DOMAIN e = EditFields /\ e.of = tab.token /\ e.here = TRUE /\ e.at = 0
        /\ e.step = "sent"
    BY <2>1, EditIs DEF EditFields
  <2> QED
    BY <1>3, <2>1, <2>2, EditsSend DEF SaveForm
<1>4. CASE OpenWeek
  <2>1. PICK e : e = [Edit("week") EXCEPT !.days = Days \ tab.shown.rules]
    OBVIOUS
  <2>2. /\ DOMAIN e = EditFields /\ e.of = tab.token /\ e.here = TRUE /\ e.at = 0
        /\ e.step = "sent"
    BY <2>1, EditIs DEF EditFields
  <2> QED
    BY <1>4, <2>1, <2>2, EditsSend DEF OpenWeek
<1>5. CASE SubmitForm
  <2>1. PICK e1 : e1 = [Edit("move") EXCEPT
                   !.appointment = form.appointment, !.day = form.day,
                   !.slot = form.chosen, !.early = form.early]
    OBVIOUS
  <2>2. PICK e2 : e2 = [Edit("series") EXCEPT !.day = form.day, !.slot = form.chosen]
    OBVIOUS
  <2>3. /\ DOMAIN e1 = EditFields /\ e1.of = tab.token /\ e1.here = TRUE /\ e1.at = 0
        /\ e1.step = "sent"
        /\ DOMAIN e2 = EditFields /\ e2.of = tab.token /\ e2.here = TRUE /\ e2.at = 0
        /\ e2.step = "sent"
    BY <2>1, <2>2, EditIs DEF EditFields
  <2>4. Send(e1) \/ Send(e2)
    BY <1>5, <2>1, <2>2 DEF SubmitForm
  <2> QED
    BY <2>3, <2>4, EditsSend
<1> QED
  BY <1>1, <1>2, <1>3, <1>4, <1>5

LEMMA EditsAnswers ==
  ASSUME SiteOK, EditsOK, version' \in Nat, version <= version', NEW e \in edits,
         AnswerEdit(e) \/ LoseEdit(e)
  PROVE  EditsOK'
<1>0. EditIsOurs(e, version) /\ version \in Nat
  BY DEF EditsOK, SiteOK
<1>1. PICK q : /\ SameEdit(e, q) /\ edits' = (edits \ {e}) \cup {q}
               /\ q.at = e.at \/ (q.at = version + 1 /\ version' = version + 1)
               /\ q.step \in {e.step, "ok", "failed"}
  BY <1>0, AnswerIsSame DEF EditIsOurs
<1>2. EditIsOurs(q, version')
  BY <1>0, <1>1 DEF SameEdit, EditIsOurs
<1>3. UNCHANGED <<tab, loads>>
  BY DEF AnswerEdit, LoseEdit
<1>4. \A r \in edits' : EditIsOurs(r, version')
  <2>1. ASSUME NEW r \in edits
        PROVE  EditIsOurs(r, version')
    BY <1>0 DEF EditsOK, EditIsOurs
  <2> QED
    BY <1>1, <1>2, <2>1
<1>5. (\E r \in edits : r.here /\ r.what # "series")
        => \E r \in edits' : r.here /\ r.what # "series"
  BY <1>1 DEF SameEdit
<1>6. \A l \in loads : LoadFits(l)'
  BY <1>0 DEF EditsOK, LoadFits
<1> QED
  BY <1>3, <1>4, <1>5, <1>6 DEF EditsOK, LoadFits

LEMMA EditsArrive ==
  ASSUME SiteOK, EditsOK, UNCHANGED version, NEW e \in edits, EditArrives(e)
  PROVE  EditsOK'
<1>0. EditIsOurs(e, version)
  BY DEF EditsOK
<1>1. LoadFits(Load(e.of, e.at))
  BY <1>0, NewLoadFits DEF EditIsOurs
<1>2. PICK t : t = [tab EXCEPT !.error = e.step = "failed"]
  OBVIOUS
<1>3. /\ DOMAIN t = TabFields /\ t.token = tab.token /\ t.shown = tab.shown
      /\ t.told = tab.told /\ t.older = tab.older
  BY <1>2 DEF EditsOK, TabFields
<1>4. t.error = (e.step = "failed")
  BY <1>2 DEF EditsOK, TabFields
<1>5. edits' = edits \ {e}
  BY DEF EditArrives
<1>6. CASE e.here /\ e.step = "ok"
  <2>1. loads' = loads \cup {Load(e.of, e.at)} /\ tab' = t
    BY <1>2, <1>6 DEF EditArrives
  <2> QED
    BY <1>1, <1>3, <1>5, <2>1 DEF EditsOK, LoadFits
<1>7. CASE e.here /\ e.step # "ok" /\ e.what # "series"
  <2>1. loads' = loads /\ tab' = t
    BY <1>2, <1>7 DEF EditArrives
  <2>2. t.error = TRUE
    BY <1>0, <1>4, <1>7 DEF EditArrives, EditIsOurs
  <2> QED
    BY <1>3, <1>5, <2>1, <2>2 DEF EditsOK, LoadFits
<1>8. CASE ~e.here \/ (e.what = "series" /\ e.step # "ok")
  <2>1. loads' = loads /\ tab' = tab
    BY <1>8 DEF EditArrives
  <2> QED
    BY <1>5, <1>8, <2>1 DEF EditsOK, LoadFits
<1> QED
  BY <1>6, <1>7, <1>8

LEMMA EditsInit ==
  ASSUME SiteInit, DashboardInit
  PROVE  EditsOK
<1>1. SiteOK
  BY SiteInitOK
<1>2. PICK t, v : tab = NewTab(t, v)
  BY DEF DashboardInit
<1>3. /\ DOMAIN tab = TabFields /\ tab.shown = Nothing /\ tab.told = 0
  BY <1>2 DEF NewTab, TabFields
<1>4. DOMAIN Nothing = ShownFields /\ Nothing.at = 0
  BY DEF Nothing, ShownFields
<1>5. LoadFits(Load(stored, 0))
  BY <1>1, NewLoadFits DEF SiteOK
<1>6. (\A l \in loads : LoadFits(l)) /\ edits = {}
  BY <1>5 DEF DashboardInit
<1> QED
  BY <1>3, <1>4, <1>6 DEF EditsOK

LEMMA EditsStep ==
  ASSUME SiteOK, EditsOK, DashboardNext
  PROVE  EditsOK'
<1>0. version \in Nat /\ version' \in Nat /\ version <= version'
  BY DashboardSite, SiteStepOK DEF SiteOK
<1>1. CASE \/ \E a \in Accounts : SignIn(a)
           \/ \E v \in Views : OpenView(v)
           \/ Logout \/ Reload
  <2>1. UNCHANGED version
    BY <1>1 DEF SignIn, OpenView, Logout, Reload, Spend
  <2> QED
    BY <1>1, <2>1, EditsSession
<1>2. ASSUME NEW l \in loads, AnswerLoad(l) \/ LoseLoad(l) \/ RefreshArrives(l)
      PROVE  EditsOK'
  <2>1. UNCHANGED version
    BY <1>2 DEF AnswerLoad, LoseLoad, RefreshArrives, Spend, siteVars
  <2> QED
    BY <1>2, <2>1, EditsLoads, EditsRefresh
<1>3. CASE \/ \E a \in tab.shown.agenda : CancelAppointment(a)
           \/ AddToSetup \/ SaveForm \/ OpenWeek \/ SubmitForm
  <2>1. UNCHANGED version
    BY <1>3 DEF CancelAppointment, AddToSetup, SaveForm, OpenWeek, SubmitForm,
       Send, Spend
  <2> QED
    BY <1>3, <2>1, EditsSends
<1>4. ASSUME NEW e \in edits, AnswerEdit(e) \/ LoseEdit(e) \/ EditArrives(e)
      PROVE  EditsOK'
  <2>1. EditArrives(e) => UNCHANGED version
    BY DEF EditArrives, siteVars
  <2> QED
    BY <1>0, <1>4, <2>1, EditsAnswers, EditsArrive
<1>5. CASE \/ Type \/ \E a \in tab.shown.agenda : OpenMoveForm(a)
           \/ \E d \in Days : ChooseMoveDay(d) \/ ChooseSeriesDay(d)
           \/ \E s \in Slots : ChooseFormSlot(s)
           \/ \E r \in lookups : AnswerLookUp(r) \/ LoseLookUp(r) \/ LookUpArrives(r)
           \/ \E c \in Clients : SelectClient(c)
           \/ SaveClient
           \/ \E r \in reads : AnswerRead(r) \/ LoseRead(r) \/ ReadArrives(r)
  <2>1. UNCHANGED tabVars
    BY <1>5, Zenon
    DEF Type, OpenMoveForm, ChooseMoveDay, ChooseSeriesDay, ChooseFormSlot,
        AnswerLookUp, LoseLookUp, LookUpArrives, SelectClient, SaveClient,
        AnswerRead, LoseRead, ReadArrives
  <2> QED
    BY <1>0, <2>1, EditsElsewhere DEF tabVars
<1> QED
  BY <1>1, <1>2, <1>3, <1>4, <1>5 DEF DashboardNext

EditsShownOK == SiteOK /\ EditsOK

LEMMA EditsShownStep ==
  ASSUME EditsShownOK, [WebNext]_webVars
  PROVE  EditsShownOK'
<1>1. SiteStep
  BY WebSite DEF webVars, SiteStep
<1>2. SiteOK' /\ version \in Nat /\ version' \in Nat /\ version <= version'
  BY <1>1, SiteStepOK DEF EditsShownOK, SiteOK
<1>3. CASE DashboardNext
  BY <1>2, <1>3, EditsStep DEF EditsShownOK
<1>4. CASE UNCHANGED dashboardVars
  BY <1>2, <1>4, EditsElsewhere DEF EditsShownOK, dashboardVars, tabVars
<1> QED
  BY <1>3, <1>4, LandingUnaware DEF WebNext, webVars

\* When nothing is under way and no error is shown, the dashboard shows every
\* edit it has announced, unless a refresh that was answered before the edit
\* arrived after it was announced (older).
THEOREM AnnouncedEditsAreShown == WebSpec => []EditsAreShown
<1>1. WebInit => EditsShownOK
  BY SiteInitOK, EditsInit DEF WebInit, EditsShownOK
<1>2. EditsShownOK /\ [WebNext]_webVars => EditsShownOK'
  BY EditsShownStep
<1>3. EditsShownOK => EditsAreShown
  BY DEF EditsShownOK, EditsOK, EditsAreShown
<1> QED
  BY <1>1, <1>2, <1>3, PTL DEF WebSpec

(***************************************************************************)
(* Whose data is shown, and whose details.                                 *)
(***************************************************************************)
LEMMA OwnStep ==
  ASSUME EditsOK, OwnOK, DashboardNext
  PROVE  OwnOK'
<1>0. DOMAIN tab = TabFields
  BY DEF EditsOK
<1>1. ASSUME NEW a \in Accounts, SignIn(a)
      PROVE  OwnOK'
  <2>1. PICK t : t = [tab EXCEPT !.token = a, !.error = FALSE, !.told = 0]
    OBVIOUS
  <2>2. /\ t.shown = tab.shown /\ t.token = a /\ t.crossed = tab.crossed
        /\ tab' = t /\ tab.token = None
    BY <1>0, <1>1, <2>1 DEF SignIn, TabFields
  <2> QED
    BY <2>2 DEF OwnOK
<1>2. ASSUME NEW v \in Views, OpenView(v)
      PROVE  OwnOK'
  <2>1. tab'.shown.of = None
    BY <1>2 DEF OpenView, NewTab, Nothing
  <2> QED
    BY <2>1 DEF OwnOK
<1>3. CASE Logout
  <2>1. PICK t : t = [tab EXCEPT !.token = None, !.shown = Nothing, !.told = 0,
                        !.crossed = FALSE, !.older = FALSE]
    OBVIOUS
  <2>2. t.shown = Nothing /\ tab' = t
    BY <1>0, <1>3, <2>1 DEF Logout, TabFields
  <2> QED
    BY <2>2 DEF OwnOK, Nothing
<1>4. ASSUME NEW t, t.token = tab.token, t.shown = tab.shown,
             t.crossed = tab.crossed, tab' = t
      PROVE  OwnOK'
  BY <1>4 DEF OwnOK
<1>5. ASSUME NEW v
      PROVE  LET t == [tab EXCEPT !.error = v]
             IN t.token = tab.token /\ t.shown = tab.shown /\ t.crossed = tab.crossed
  BY <1>0 DEF TabFields
<1>6. CASE Reload
  BY <1>4, <1>5, <1>6 DEF Reload
<1>7. ASSUME NEW l \in loads, AnswerLoad(l) \/ LoseLoad(l) \/ RefreshArrives(l)
      PROVE  OwnOK'
  <2>1. CASE AnswerLoad(l) \/ LoseLoad(l)
    BY <1>4, <2>1 DEF AnswerLoad, LoseLoad
  <2>2. CASE RefreshArrives(l)
    <3>1. PICK told : told = IF l.of = tab.token THEN Later(tab.told, l.tells)
                                                 ELSE tab.told
      OBVIOUS
    <3>2. PICK t1 : t1 = [tab EXCEPT
                !.shown = l.read, !.reviews = l.of, !.told = told,
                !.crossed = l.of # tab.token,
                !.older = l.read.at < tab.told]
      OBVIOUS
    <3>3. PICK t2 : t2 = [tab EXCEPT !.error = TRUE, !.told = told]
      OBVIOUS
    <3>4. \/ l.step = "ok" /\ tab' = t1
          \/ tab' = t2
      BY <2>2, <3>1, <3>2, <3>3 DEF RefreshArrives
    <3>5. /\ t1.shown = l.read /\ t1.token = tab.token
          /\ t2.token = tab.token /\ t2.shown = tab.shown
          /\ t2.crossed = tab.crossed
      BY <1>0, <3>2, <3>3 DEF TabFields
    <3>6. t1.crossed = (l.of # tab.token)
      BY <1>0, <3>2 DEF TabFields
    <3>7. CASE l.step = "ok" /\ tab' = t1
      <4>1. l.read.of = l.of
        BY <3>7 DEF EditsOK, LoadFits
      <4> QED
        BY <3>5, <3>6, <3>7, <4>1 DEF OwnOK
    <3> QED
      BY <1>4, <3>4, <3>5, <3>7
  <2> QED
    BY <1>7, <2>1, <2>2
<1>8. CASE \/ \E a \in tab.shown.agenda : CancelAppointment(a)
           \/ AddToSetup \/ SaveForm \/ OpenWeek \/ SubmitForm
  <2>1. PICK e : Send(e)
    BY <1>8 DEF CancelAppointment, AddToSetup, SaveForm, OpenWeek, SubmitForm
  <2>2. tab' = [tab EXCEPT !.error = tab.error /\ e.what = "series"]
    BY <2>1 DEF Send
  <2> QED
    BY <1>4, <1>5, <2>2
<1>9. ASSUME NEW e \in edits, AnswerEdit(e) \/ LoseEdit(e) \/ EditArrives(e)
      PROVE  OwnOK'
  <2>1. tab' = tab \/ tab' = [tab EXCEPT !.error = (e.step = "failed")]
    BY <1>9 DEF AnswerEdit, LoseEdit, EditArrives
  <2> QED
    BY <1>4, <1>5, <2>1
<1>10. CASE \/ Type \/ \E a \in tab.shown.agenda : OpenMoveForm(a)
            \/ \E d \in Days : ChooseMoveDay(d) \/ ChooseSeriesDay(d)
            \/ \E s \in Slots : ChooseFormSlot(s)
            \/ \E r \in lookups : AnswerLookUp(r) \/ LoseLookUp(r) \/ LookUpArrives(r)
            \/ \E c \in Clients : SelectClient(c)
            \/ SaveClient
            \/ \E r \in reads : AnswerRead(r) \/ LoseRead(r) \/ ReadArrives(r)
  <2>1. UNCHANGED tabVars
    BY <1>10
    DEF Type, OpenMoveForm, ChooseMoveDay, ChooseSeriesDay, ChooseFormSlot,
        AnswerLookUp, LoseLookUp, LookUpArrives, SelectClient, SaveClient,
        AnswerRead, LoseRead, ReadArrives
  <2> QED
    BY <1>4, <2>1 DEF tabVars
<1> QED
  BY <1>1, <1>2, <1>3, <1>6, <1>7, <1>8, <1>9, <1>10 DEF DashboardNext

LEMMA CardBecomesFits ==
  ASSUME CardOK, NEW c, NEW a, CardBecomes(c, a)
  PROVE  CardOK'
<1>1. PICK g : g = [card EXCEPT !.selected = c, !.failed = FALSE]
  OBVIOUS
<1>2. DOMAIN g = CardFields /\ g.selected = c
  BY <1>1 DEF CardOK, CardFields
<1>3. PICK q : q = Read("detail", c, a)
  OBVIOUS
<1>4. /\ DOMAIN q = ReadFields /\ q.kind = "detail" /\ q.live = TRUE
      /\ q.client = c
  BY <1>3 DEF Read, ReadFields
<1>5. card' = g
      /\ reads' = {IF r.kind = "detail" THEN [r EXCEPT !.live = FALSE] ELSE r
                               : r \in reads} \cup {q}
  BY <1>1, <1>3 DEF CardBecomes
<1>6. ASSUME NEW r \in reads, r.kind = "detail"
      PROVE  /\ DOMAIN [r EXCEPT !.live = FALSE] = ReadFields
             /\ [r EXCEPT !.live = FALSE].live = FALSE
  BY DEF CardOK, ReadFields
<1>7. \A r \in reads' : /\ DOMAIN r = ReadFields
                        /\ r.kind = "detail" /\ r.live => r.client = c
  BY <1>4, <1>5, <1>6 DEF CardOK
<1>8. \E r \in reads' : r.kind = "detail" /\ r.live
  BY <1>4, <1>5
<1> QED
  BY <1>2, <1>5, <1>7, <1>8 DEF CardOK, DetailUnderWay

LEMMA CardElsewhere ==
  ASSUME CardOK, UNCHANGED cardVars
  PROVE  CardOK'
BY DEF CardOK, DetailUnderWay, cardVars

LEMMA CardFollowsFits ==
  ASSUME CardOK, NEW sh, NEW a, CardFollows(sh, a)
  PROVE  CardOK'
BY CardBecomesFits, CardElsewhere DEF CardFollows

LEMMA CardEmptied ==
  ASSUME card' = NoCard, reads' = {}
  PROVE  CardOK'
<1>1. /\ DOMAIN NoCard = CardFields /\ NoCard.selected = None
      /\ NoCard.detail = None /\ NoCard.draft = None
  BY DEF NoCard, CardFields
<1> QED
  BY <1>1 DEF CardOK

LEMMA ReadsFit ==
  ASSUME CardOK, NEW r \in reads, AnswerRead(r) \/ LoseRead(r)
  PROVE  CardOK'
<1>0. /\ DOMAIN r = ReadFields
      /\ r.kind = "detail" /\ r.live => r.client = card.selected
  BY DEF CardOK
<1>1. PICK v : reads' = (reads \ {r}) \cup {[r EXCEPT !.step = v]}
  BY DEF AnswerRead, LoseRead
<1>2. PICK q : q = [r EXCEPT !.step = v]
  OBVIOUS
<1>3. /\ DOMAIN q = ReadFields /\ q.kind = r.kind /\ q.live = r.live
      /\ q.client = r.client
  BY <1>0, <1>2 DEF ReadFields
<1>4. card' = card /\ reads' = (reads \ {r}) \cup {q}
  BY <1>1, <1>2 DEF AnswerRead, LoseRead
<1> QED
  BY <1>0, <1>3, <1>4 DEF CardOK, DetailUnderWay

LEMMA ReadArrivesFits ==
  ASSUME CardOK, NEW r \in reads, ReadArrives(r)
  PROVE  CardOK'
<1>0. /\ DOMAIN r = ReadFields
      /\ r.kind = "detail" /\ r.live => r.client = card.selected
      /\ DOMAIN card = CardFields
  BY DEF CardOK
<1>1. reads' = reads \ {r}
  BY DEF ReadArrives
<1>2. CASE DetailArrives(r)
  <2>1. CASE ~r.live
    <3>1. card' = card
      BY <1>2, <2>1 DEF DetailArrives
    <3> QED
      BY <1>1, <2>1, <3>1 DEF CardOK, DetailUnderWay
  <2>2. CASE r.live /\ r.step = "ok"
    <3>1. PICK g : g = [card EXCEPT !.detail = r.client, !.draft = r.client,
                                    !.late = FALSE]
      OBVIOUS
    <3>2. /\ DOMAIN g = CardFields /\ g.selected = card.selected
          /\ g.detail = r.client /\ g.draft = r.client
      BY <1>0, <3>1 DEF CardFields
    <3>3. card' = g /\ r.kind = "detail"
      BY <1>2, <2>2, <3>1 DEF DetailArrives
    <3> QED
      BY <1>0, <1>1, <2>2, <3>2, <3>3 DEF CardOK
  <2>3. CASE r.live /\ r.step # "ok"
    <3>1. PICK g : g = [card EXCEPT !.failed = TRUE]
      OBVIOUS
    <3>2. /\ DOMAIN g = CardFields /\ g.selected = card.selected
          /\ g.failed = TRUE
      BY <1>0, <3>1 DEF CardFields
    <3>3. card' = g
      BY <1>2, <2>3, <3>1 DEF DetailArrives
    <3> QED
      BY <1>1, <3>2, <3>3 DEF CardOK
  <2> QED
    BY <2>1, <2>2, <2>3
<1>3. CASE SaveArrives(r)
  <2>1. r.kind = "save"
    BY <1>3 DEF SaveArrives
  <2>2. CASE r.step = "failed"
    <3>1. card' = card
      BY <1>3, <2>2 DEF SaveArrives
    <3> QED
      BY <1>1, <2>1, <3>1 DEF CardOK, DetailUnderWay
  <2>3. CASE r.step # "failed"
    <3>1. PICK g : g = [card EXCEPT !.detail = r.client,
                                    !.late = r.client # card.selected]
      OBVIOUS
    <3>2. /\ DOMAIN g = CardFields /\ g.selected = card.selected
          /\ g.detail = r.client /\ g.draft = card.draft /\ g.failed = card.failed
      BY <1>0, <3>1 DEF CardFields
    <3>3. g.late = (r.client # card.selected)
      BY <1>0, <3>1 DEF CardFields
    <3>4. g.late \/ g.detail = g.selected
      BY <3>2, <3>3
    <3>5. card' = g
      BY <1>3, <2>3, <3>1 DEF SaveArrives
    <3> QED
      BY <1>1, <2>1, <3>2, <3>4, <3>5 DEF CardOK, DetailUnderWay
  <2> QED
    BY <2>2, <2>3
<1> QED
  BY <1>2, <1>3 DEF ReadArrives

LEMMA CardStep ==
  ASSUME CardOK, DashboardNext
  PROVE  CardOK'
<1>1. ASSUME NEW a \in Accounts, SignIn(a)
      PROVE  CardOK'
  BY <1>1, CardFollowsFits DEF SignIn
<1>2. ASSUME NEW v \in Views, OpenView(v)
      PROVE  CardOK'
  BY <1>2, CardEmptied DEF OpenView
<1>3. CASE Logout
  BY <1>3, CardEmptied DEF Logout
<1>4. ASSUME NEW l \in loads, AnswerLoad(l) \/ LoseLoad(l) \/ RefreshArrives(l)
      PROVE  CardOK'
  BY <1>4, CardFollowsFits, CardElsewhere
  DEF AnswerLoad, LoseLoad, RefreshArrives
<1>5. ASSUME NEW c \in Clients, SelectClient(c)
      PROVE  CardOK'
  BY <1>5, CardBecomesFits DEF SelectClient
<1>6. CASE SaveClient
  <2>1. PICK q : q = Read("save", card.detail, tab.token)
    OBVIOUS
  <2>2. DOMAIN q = ReadFields /\ q.kind = "save"
    BY <2>1 DEF Read, ReadFields
  <2>3. reads' = reads \cup {q} /\ card' = card
    BY <1>6, <2>1 DEF SaveClient
  <2> QED
    BY <2>2, <2>3 DEF CardOK, DetailUnderWay
<1>7. ASSUME NEW r \in reads, AnswerRead(r) \/ LoseRead(r) \/ ReadArrives(r)
      PROVE  CardOK'
  BY <1>7, ReadsFit, ReadArrivesFits
<1>8. CASE \/ Reload \/ \E a \in tab.shown.agenda : CancelAppointment(a) \/ OpenMoveForm(a)
           \/ AddToSetup \/ Type \/ SaveForm \/ OpenWeek \/ SubmitForm
           \/ \E d \in Days : ChooseMoveDay(d) \/ ChooseSeriesDay(d)
           \/ \E s \in Slots : ChooseFormSlot(s)
           \/ \E e \in edits : AnswerEdit(e) \/ LoseEdit(e) \/ EditArrives(e)
           \/ \E r \in lookups : AnswerLookUp(r) \/ LoseLookUp(r) \/ LookUpArrives(r)
  <2>1. UNCHANGED cardVars
    BY <1>8, Zenon
    DEF Reload, CancelAppointment, OpenMoveForm, AddToSetup, Type, SaveForm,
        OpenWeek, SubmitForm, ChooseMoveDay, ChooseSeriesDay, ChooseFormSlot,
        AnswerEdit, LoseEdit, EditArrives, AnswerLookUp, LoseLookUp,
        LookUpArrives
  <2> QED
    BY <2>1, CardElsewhere
<1> QED
  BY <1>1, <1>2, <1>3, <1>4, <1>5, <1>6, <1>7, <1>8 DEF DashboardNext

ShownOK == EditsShownOK /\ OwnOK /\ CardOK

LEMMA ShownInit ==
  ASSUME WebInit
  PROVE  ShownOK
<1>1. PICK t, v : tab = NewTab(t, v)
  BY DEF WebInit, DashboardInit
<1>2. OwnOK
  BY <1>1 DEF OwnOK, NewTab, Nothing
<1>3. /\ DOMAIN NoCard = CardFields /\ NoCard.selected = None
      /\ NoCard.detail = None /\ NoCard.draft = None
  BY DEF NoCard, CardFields
<1>4. CardOK
  BY <1>3 DEF WebInit, DashboardInit, CardOK
<1> QED
  BY <1>2, <1>4, SiteInitOK, EditsInit DEF WebInit, ShownOK, EditsShownOK

LEMMA ShownStep ==
  ASSUME ShownOK, [WebNext]_webVars
  PROVE  ShownOK'
<1>1. CASE DashboardNext
  BY <1>1, EditsShownStep, OwnStep, CardStep DEF ShownOK, EditsShownOK
<1>2. CASE UNCHANGED dashboardVars
  BY <1>2, EditsShownStep, CardElsewhere
  DEF ShownOK, OwnOK, dashboardVars, tabVars
<1> QED
  BY <1>1, <1>2, LandingUnaware DEF WebNext, webVars

\* What the dashboard shows belongs to whoever is signed in and to whatever
\* customer is selected, unless a refresh that an earlier session began has
\* arrived since (crossed), or what was saved or failed for a customer who is
\* no longer selected (late).
THEOREM DashboardShowsOneAccount == WebSpec => []ShownBelongsTogether
<1>1. WebInit => ShownOK
  BY ShownInit
<1>2. ShownOK /\ [WebNext]_webVars => ShownOK'
  BY ShownStep
<1>3. ShownOK => ShownBelongsTogether
  BY DEF ShownOK, OwnOK, CardOK, DetailUnderWay, ShownBelongsTogether,
     OwnDataShown, DetailIsSelected
<1> QED
  BY <1>1, <1>2, <1>3, PTL DEF WebSpec

(***************************************************************************)
(* The public page.  What it does not know: whose token it will find when  *)
(* it refreshes itself; until then every row belongs to the owner.         *)
(***************************************************************************)
LEMMA LandingElsewhere ==
  ASSUME LandingOK, version \in Nat, version' \in Nat, version <= version',
         UNCHANGED landingVars
  PROVE  LandingOK'
BY DEF LandingOK, VisitFits, landingVars

LEMMA VisitKeeps ==
  ASSUME SiteOK, LandingOK, Visit
  PROVE  LandingOK'
<1>1. UNCHANGED version /\ version \in Nat
  BY DEF Visit, Spend, SiteOK
<1>2. PICK q : q = PageRequest("visit", stored)
  OBVIOUS
<1>3. /\ DOMAIN q = VisitFields /\ q.kind = "visit" /\ q.at = 0 /\ q.tells = 0
  BY <1>2 DEF PageRequest, VisitFields
<1>4. PICK old : old = {[r EXCEPT !.here = FALSE] : r \in {e \in visits :
                          e.kind \in {"save", "delete"} /\ e.step = "sent"}}
  OBVIOUS
<1>5. visits' = old \cup {q} /\ landing' = NoPage
  BY <1>2, <1>4 DEF Visit
<1>6. ASSUME NEW r \in visits, r.kind \in {"save", "delete"}, r.step = "sent",
             NEW p, p = [r EXCEPT !.here = FALSE]
      PROVE  /\ DOMAIN p = VisitFields /\ p.here = FALSE
             /\ p.at \in 0..version /\ p.tells \in 0..version
             /\ p.kind \in {"save", "delete"}
             /\ p.kind = "save" => p.base = p.seen
  <2>1. VisitFits(r)
    BY DEF LandingOK
  <2> QED
    BY <1>6, <2>1 DEF VisitFits, VisitFields
<1>7. \A p \in old : /\ DOMAIN p = VisitFields /\ p.here = FALSE
                     /\ p.at \in 0..version /\ p.tells \in 0..version
                     /\ p.kind \in {"save", "delete"}
                     /\ p.kind = "save" => p.base = p.seen
  BY <1>4, <1>6
<1>8. /\ DOMAIN NoPage = LandingFields /\ NoPage.at = 0 /\ NoPage.told = 0
      /\ NoPage.base = 0 /\ NoPage.managed = None
  BY DEF NoPage, LandingFields
<1>9. \A p \in visits' : VisitFits(p)'
  <2>1. ASSUME NEW p \in old
        PROVE  VisitFits(p)'
    BY <1>1, <1>7 DEF VisitFits
  <2>2. VisitFits(q)'
    BY <1>1, <1>3, <1>5, <1>7, <1>8 DEF VisitFits
  <2> QED
    BY <1>5, <2>1, <2>2
<1> QED
  BY <1>5, <1>8, <1>9 DEF LandingOK

LEMMA TypeRowKeeps ==
  ASSUME SiteOK, LandingOK, TypeRow
  PROVE  LandingOK'
<1>1. PICK p : p = [landing EXCEPT !.typed = TRUE]
  OBVIOUS
<1>2. /\ DOMAIN p = LandingFields /\ p.managed = landing.managed
      /\ p.at = landing.at /\ p.told = landing.told /\ p.base = landing.base
      /\ p.crossed = landing.crossed /\ p.older = landing.older
  BY <1>1 DEF LandingOK, LandingFields
<1>3. landing' = p /\ visits' = visits /\ version' = version
  BY <1>1 DEF TypeRow, siteVars
<1> QED
  BY <1>2, <1>3 DEF LandingOK, VisitFits

\* A row is sent only from a page with buttons, which waits for no visit.
LEMMA SendRowKeeps ==
  ASSUME SiteOK, LandingOK, SaveRow \/ DeleteRow
  PROVE  LandingOK'
<1>1. PICK kind \in {"save", "delete"}, step \in {"sent", "asked"} :
        SendRow(kind, step)
  BY DEF SaveRow, DeleteRow
<1>2. UNCHANGED <<landing, version>> /\ version \in Nat
  BY DEF SaveRow, DeleteRow, Spend, SiteOK
<1>3. PICK p : p = PageRequest(kind, stored)
  OBVIOUS
<1>4. PICK q : q = [p EXCEPT
           !.whose = landing.managed, !.step = step,
           !.base = landing.base, !.seen = landing.at]
  OBVIOUS
<1>5. /\ DOMAIN q = VisitFields /\ q.kind = kind /\ q.whose = landing.managed
      /\ q.at = 0 /\ q.tells = 0 /\ q.base = landing.base /\ q.seen = landing.at
  BY <1>3, <1>4 DEF PageRequest, VisitFields
<1>6. visits' = visits \cup {q} /\ landing.managed # None
  BY <1>1, <1>3, <1>4 DEF SendRow
<1>7. VisitFits(q)'
  BY <1>1, <1>2, <1>5, <1>6 DEF VisitFits, LandingOK
<1>8. \A r \in visits : VisitFits(r)'
  BY <1>2, <1>6 DEF VisitFits, LandingOK
<1> QED
  BY <1>2, <1>6, <1>7, <1>8 DEF LandingOK

\* A request becomes another of its kind, from the same page.
LEMMA VisitBecomes ==
  ASSUME LandingOK, NEW r \in visits, NEW q, VisitFits(q)', q.here = r.here,
         q.kind = r.kind, version \in Nat, version' \in Nat, version <= version',
         visits' = (visits \ {r}) \cup {q}, landing' = landing
  PROVE  LandingOK'
<1>1. ASSUME NEW p \in visits, p # r
      PROVE  VisitFits(p)'
  BY <1>1 DEF LandingOK, VisitFits
<1> QED
  BY <1>1 DEF LandingOK

LEMMA VisitGone ==
  ASSUME LandingOK, NEW r \in visits, version \in Nat, version' = version,
         visits' = visits \ {r}, landing' = landing
  PROVE  LandingOK'
BY DEF LandingOK, VisitFits

LEMMA ConfirmKeeps ==
  ASSUME SiteOK, LandingOK, NEW r \in visits, Confirm(r)
  PROVE  LandingOK'
<1>0. VisitFits(r) /\ r.step = "asked" /\ version \in Nat
  BY DEF LandingOK, Confirm, SiteOK
<1>1. UNCHANGED <<landing, version>>
  BY DEF Confirm, siteVars
<1>2. PICK q : q = [r EXCEPT !.step = "sent"]
  OBVIOUS
<1>3. /\ DOMAIN q = VisitFields /\ q.step = "sent" /\ q.kind = r.kind
      /\ q.here = r.here /\ q.whose = r.whose /\ q.at = r.at
      /\ q.tells = r.tells /\ q.base = r.base /\ q.seen = r.seen
  BY <1>0, <1>2 DEF VisitFits, VisitFields
<1>4. visits' = visits \ {r} \/ visits' = (visits \ {r}) \cup {q}
  BY <1>2 DEF Confirm
<1>5. CASE visits' = (visits \ {r}) \cup {q}
  <2>1. VisitFits(q)'
    BY <1>0, <1>1, <1>3, <1>5 DEF VisitFits
  <2> QED
    BY <1>0, <1>1, <1>3, <1>5, <2>1, VisitBecomes
<1> QED
  BY <1>0, <1>1, <1>4, <1>5, VisitGone

LEMMA AnswerVisitKeeps ==
  ASSUME SiteOK, LandingOK, NEW r \in visits, AnswerVisit(r) \/ LoseVisit(r)
  PROVE  LandingOK'
<1>0. VisitFits(r) /\ version \in Nat
  BY DEF LandingOK, SiteOK
<1>1. landing' = landing /\ version' \in {version, version + 1}
  BY DEF AnswerVisit, LoseVisit, SetUp, Changed, Spend, siteVars
<1>2. PICK q1 : q1 = [r EXCEPT !.step = "ok", !.at = version]
  OBVIOUS
<1>3. PICK q2 : q2 = [r EXCEPT !.step = "ok", !.at = version + 1]
  OBVIOUS
<1>4. PICK q3 : q3 = [r EXCEPT !.step = "failed"]
  OBVIOUS
<1>5. PICK q4 : q4 = [r EXCEPT !.of = None]
  OBVIOUS
<1>6. /\ DOMAIN q1 = VisitFields /\ q1.step = "ok" /\ q1.kind = r.kind
      /\ q1.here = r.here /\ q1.whose = r.whose /\ q1.at = version
      /\ q1.tells = r.tells /\ q1.base = r.base /\ q1.seen = r.seen
  BY <1>0, <1>2 DEF VisitFits, VisitFields
<1>7. /\ DOMAIN q2 = VisitFields /\ q2.step = "ok" /\ q2.kind = r.kind
      /\ q2.here = r.here /\ q2.whose = r.whose /\ q2.at = version + 1
      /\ q2.tells = r.tells /\ q2.base = r.base /\ q2.seen = r.seen
  BY <1>0, <1>3 DEF VisitFits, VisitFields
<1>8. /\ DOMAIN q3 = VisitFields /\ q3.step = "failed" /\ q3.kind = r.kind
      /\ q3.here = r.here /\ q3.whose = r.whose /\ q3.at = r.at
      /\ q3.tells = r.tells /\ q3.base = r.base /\ q3.seen = r.seen
  BY <1>0, <1>4 DEF VisitFits, VisitFields
<1>9. /\ DOMAIN q4 = VisitFields /\ q4.step = r.step /\ q4.kind = r.kind
      /\ q4.here = r.here /\ q4.whose = r.whose /\ q4.at = r.at
      /\ q4.tells = r.tells /\ q4.base = r.base /\ q4.seen = r.seen
  BY <1>0, <1>5 DEF VisitFits, VisitFields
<1>10. \/ visits' = (visits \ {r}) \cup {q1}
       \/ /\ visits' = (visits \ {r}) \cup {q2} /\ version' = version + 1
          /\ r.kind \in {"save", "delete"}
       \/ visits' = (visits \ {r}) \cup {q3}
       \/ visits' = (visits \ {r}) \cup {q4}
  BY <1>2, <1>3, <1>4, <1>5 DEF AnswerVisit, LoseVisit, Answers, SetUp, Changed
<1>11. ASSUME NEW q \in {q1, q2, q3, q4}, visits' = (visits \ {r}) \cup {q},
              q.at \in 0..version',
              q.kind = "refresh" /\ q.step = "ok" => q.tells <= q.at
       PROVE  LandingOK'
  <2>1. /\ DOMAIN q = VisitFields /\ q.kind = r.kind /\ q.here = r.here
        /\ q.whose = r.whose /\ q.tells = r.tells /\ q.base = r.base
        /\ q.seen = r.seen
    BY <1>6, <1>7, <1>8, <1>9
  <2>2. VisitFits(q)'
    BY <1>0, <1>1, <1>11, <2>1 DEF VisitFits
  <2> QED
    BY <1>0, <1>1, <1>11, <2>1, <2>2, VisitBecomes
<1>12. /\ q1.at \in 0..version' /\ q1.tells <= q1.at
       /\ q3.at \in 0..version' /\ q4.at \in 0..version'
       /\ r.kind = "refresh" /\ r.step = "ok" => r.tells <= r.at
  BY <1>0, <1>1, <1>6, <1>8, <1>9 DEF VisitFits
<1>13. CASE visits' = (visits \ {r}) \cup {q1}
  BY <1>11, <1>12, <1>13
<1>14. CASE /\ visits' = (visits \ {r}) \cup {q2} /\ version' = version + 1
            /\ r.kind \in {"save", "delete"}
  BY <1>0, <1>7, <1>11, <1>14
<1>15. CASE visits' = (visits \ {r}) \cup {q3}
  BY <1>8, <1>11, <1>12, <1>15
<1>16. CASE visits' = (visits \ {r}) \cup {q4}
  BY <1>9, <1>11, <1>12, <1>16
<1> QED
  BY <1>10, <1>13, <1>14, <1>15, <1>16

LEMMA VisitArrivesKeeps ==
  ASSUME SiteOK, LandingOK, NEW r \in visits, r.step \in {"ok", "failed"},
         VisitArrives(r), UNCHANGED version
  PROVE  LandingOK'
<1>0. /\ VisitFits(r) /\ version \in Nat /\ r.kind = "visit"
      /\ DOMAIN landing = LandingFields
  BY DEF LandingOK, SiteOK, VisitArrives
<1>1. visits' = visits \ {r}
  BY DEF VisitArrives
<1>2. CASE r.here /\ r.step = "ok"
  <2>1. PICK m : m = IF r.of = Ours THEN Ours ELSE None
    OBVIOUS
  <2>2. PICK p : p = [landing EXCEPT !.managed = m, !.at = r.at, !.base = r.at]
    OBVIOUS
  <2>3. /\ DOMAIN p = LandingFields /\ p.managed = m /\ p.at = r.at
        /\ p.base = r.at /\ p.told = landing.told /\ p.crossed = landing.crossed
    BY <1>0, <2>2 DEF LandingFields
  <2>4. landing' = p
    BY <1>2, <2>1, <2>2 DEF VisitArrives
  <2>5. landing.told = 0 /\ \A q \in visits : q.here => q = r
    BY <1>0, <1>2 DEF VisitFits
  <2>6. \A q \in visits' : VisitFits(q) /\ ~q.here
    BY <1>1, <2>5 DEF LandingOK
  <2>7. \A q \in visits' : VisitFits(q)'
    BY <2>6 DEF VisitFits
  <2>8. r.at \in 0..version
    BY <1>0 DEF VisitFits
  <2> QED
    BY <1>0, <2>1, <2>3, <2>4, <2>5, <2>7, <2>8 DEF LandingOK
<1>3. CASE ~(r.here /\ r.step = "ok")
  BY <1>0, <1>1, <1>3, VisitGone DEF VisitArrives
<1> QED
  BY <1>2, <1>3

LEMMA RowArrivesKeeps ==
  ASSUME SiteOK, LandingOK, NEW r \in visits, r.step \in {"ok", "failed"},
         RowArrives(r), UNCHANGED version
  PROVE  LandingOK'
<1>0. /\ VisitFits(r) /\ version \in Nat /\ r.kind \in {"save", "delete"}
      /\ landing' = landing
  BY DEF LandingOK, SiteOK, RowArrives
<1>1. PICK b : b = PageRequest("refresh", stored)
  OBVIOUS
<1>2. PICK q : q = [b EXCEPT !.tells = r.at, !.whose = r.whose]
  OBVIOUS
<1>3. /\ DOMAIN q = VisitFields /\ q.kind = "refresh" /\ q.here = TRUE
      /\ q.at = 0 /\ q.step = "sent" /\ q.tells = r.at /\ q.whose = r.whose
  BY <1>1, <1>2 DEF PageRequest, VisitFields
<1>4. CASE r.here /\ r.step = "ok" /\ stored # None
  <2>1. visits' = (visits \ {r}) \cup {q}
    BY <1>1, <1>2, <1>4 DEF RowArrives
  <2>2. VisitFits(q)'
    BY <1>0, <1>3, <1>4 DEF VisitFits
  <2>3. ASSUME NEW p \in visits, p # r
        PROVE  VisitFits(p)'
    <3>1. p.kind = "visit" /\ p.here => p = r
      BY <1>4 DEF LandingOK, VisitFits
    <3> QED
      BY <1>0, <2>3, <3>1 DEF LandingOK, VisitFits
  <2> QED
    BY <1>0, <2>1, <2>2, <2>3 DEF LandingOK
<1>5. CASE ~(r.here /\ r.step = "ok" /\ stored # None)
  BY <1>0, <1>5, VisitGone DEF RowArrives
<1> QED
  BY <1>4, <1>5

LEMMA RefreshedKeeps ==
  ASSUME SiteOK, LandingOK, NEW r \in visits, r.step \in {"ok", "failed"},
         RefreshedArrives(r), UNCHANGED version
  PROVE  LandingOK'
<1>0. /\ VisitFits(r) /\ version \in Nat /\ r.kind = "refresh"
      /\ DOMAIN landing = LandingFields /\ visits' = visits \ {r}
  BY DEF LandingOK, SiteOK, RefreshedArrives
<1>1. CASE r.here /\ r.step = "ok"
  <2>1. PICK told : told = Later(landing.told, r.tells)
    OBVIOUS
  <2>2. PICK p : p = [landing EXCEPT
                        !.managed = r.of, !.at = r.at, !.base = r.at,
                        !.typed = FALSE, !.told = told,
                        !.crossed = landing.crossed \/ r.of # r.whose,
                        !.older = r.at < landing.told]
    OBVIOUS
  <2>3. /\ DOMAIN p = LandingFields /\ p.managed = r.of /\ p.at = r.at
        /\ p.base = r.at /\ p.told = told
    BY <1>0, <2>2 DEF LandingFields
  <2>4. p.crossed = (landing.crossed \/ r.of # r.whose)
    BY <1>0, <2>2 DEF LandingFields
  <2>5. p.older = (r.at < landing.told)
    BY <1>0, <2>2 DEF LandingFields
  <2>6. landing' = p
    BY <1>1, <2>1, <2>2 DEF RefreshedArrives
  <2>7. /\ r.at \in Nat /\ r.tells \in Nat /\ r.tells <= r.at
        /\ landing.told \in Nat /\ told \in Nat
        /\ landing.told <= r.at => told <= r.at
    BY <1>0, <1>1, <2>1 DEF VisitFits, LandingOK, Later
  <2>8. p.older \/ told <= r.at
    <3>1. CASE r.at < landing.told
      BY <2>5, <3>1
    <3>2. CASE landing.told <= r.at
      BY <2>7, <3>2
    <3> QED
      BY <2>7, <3>1, <3>2
  <2>9. /\ landing.crossed => p.crossed
        /\ r.of = r.whose \/ p.crossed
    BY <2>4
  <2>10. r.of \in {None, Ours} \/ p.crossed
    BY <1>0, <1>1, <2>9 DEF VisitFits
  <2>11. \A q \in visits' : q.kind = "visit" => ~q.here
    BY <1>0, <1>1 DEF LandingOK, VisitFits
  <2>12. \A q \in visits' : VisitFits(q)'
    BY <1>0, <2>6, <2>9, <2>11 DEF LandingOK, VisitFits
  <2> QED
    BY <2>3, <2>6, <2>7, <2>8, <2>10, <2>12 DEF LandingOK
<1>2. CASE ~(r.here /\ r.step = "ok")
  BY <1>0, <1>2, VisitGone DEF RefreshedArrives
<1> QED
  BY <1>1, <1>2

LEMMA LandingStep ==
  ASSUME SiteOK, LandingOK, LandingNext
  PROVE  LandingOK'
<1>1. ASSUME NEW r \in visits, LandingArrives(r)
      PROVE  LandingOK'
  <2>1. r.step \in {"ok", "failed"} /\ UNCHANGED version
    BY <1>1 DEF LandingArrives, siteVars
  <2> QED
    BY <1>1, <2>1, VisitArrivesKeeps, RowArrivesKeeps, RefreshedKeeps
    DEF LandingArrives
<1> QED
  BY <1>1, VisitKeeps, TypeRowKeeps, SendRowKeeps, ConfirmKeeps,
     AnswerVisitKeeps
  DEF LandingNext

LandingShownOK == SiteOK /\ LandingOK

LEMMA LandingInitOK ==
  ASSUME WebInit
  PROVE  LandingShownOK
<1>1. /\ DOMAIN NoPage = LandingFields /\ NoPage.at = 0 /\ NoPage.told = 0
      /\ NoPage.base = 0 /\ NoPage.managed = None
  BY DEF NoPage, LandingFields
<1>2. LandingOK
  BY <1>1 DEF WebInit, LandingInit, LandingOK
<1> QED
  BY <1>2, SiteInitOK DEF WebInit, LandingShownOK

LEMMA LandingShownStep ==
  ASSUME LandingShownOK, [WebNext]_webVars
  PROVE  LandingShownOK'
<1>1. SiteStep
  BY WebSite DEF webVars, SiteStep
<1>2. SiteOK' /\ version \in Nat /\ version' \in Nat /\ version <= version'
  BY <1>1, SiteStepOK DEF LandingShownOK, SiteOK
<1>3. CASE LandingNext
  BY <1>2, <1>3, LandingStep DEF LandingShownOK
<1>4. CASE UNCHANGED landingVars
  BY <1>2, <1>4, LandingElsewhere DEF LandingShownOK
<1> QED
  BY <1>3, <1>4 DEF WebNext, webVars

\* The public page gives its buttons to the owner alone, unless the account
\* stored changed between an edit and its refresh (crossed); it shows every
\* edit it has announced, unless two refreshes crossed (older); and it sends
\* back nothing older than what it shows.
THEOREM PublicPageIsCurrent == WebSpec => []LandingIsCurrent
<1>1. WebInit => LandingShownOK
  BY LandingInitOK
<1>2. LandingShownOK /\ [WebNext]_webVars => LandingShownOK'
  BY LandingShownStep
<1>3. LandingShownOK => LandingIsCurrent
  BY DEF LandingShownOK, LandingOK, VisitFits, LandingIsCurrent
<1> QED
  BY <1>1, <1>2, <1>3, PTL DEF WebSpec
=============================================================================
