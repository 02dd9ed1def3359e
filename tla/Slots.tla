------------------------------- MODULE Slots --------------------------------
(***************************************************************************)
(* The appointments of a business together with its hours: Appointments    *)
(* takes the slots that are open as given, and Hours calculates them from  *)
(* the rules, the exceptions and the clock of the business.                *)
(***************************************************************************)
EXTENDS Appointments, Hours

CONSTANTS
  Rules,       \* the weekly hours of the staff
  Exceptions,  \* the hours added and blocked on a date
  Clock        \* the zone of the business

ASSUME ClockAssumption == Clock \in Zones

\* What the active appointments take, but for one that is moved aside.
TakenBut(aside) ==
  {[staff |-> appointment[a].staff, startsAt |-> appointment[a].start,
    endsAt |-> Ends(appointment[a])]
     : a \in {b \in Appointments : IsActive(b) /\ b # aside}}

\* What the handlers read of the business, for a service, at some moment and
\* with what is booked then.
Business(v, moment, busy) ==
  [zone |-> Clock, now |-> moment, required |-> Length[v], staff |-> Staff,
   assigned |-> {}, rules |-> Rules, exceptions |-> Exceptions,
   busy |-> busy]

Slot(v, s, t) == [staff |-> s, startsAt |-> t, endsAt |-> t + Length[v]]

StartDays == {dateOnlyInTimeZone(Clock, t) : t \in Starts}

\* What the rules and exceptions open for a service: the slots of a business
\* with nothing booked that is asked before they begin.
Opened(v) ==
  {p \in Staff \X Starts :
     Slot(v, p[1], p[2])
       \in Availability(Business(v, p[2] - 1, {}),
                        dateOnlyInTimeZone(Clock, p[2]))}

\* From its first to its last time a day has one offset.
IsPlainDay(z, date) ==
  \E k \in {z.before, z.after} :
    \A l \in (date * DAY)..((date + 1) * DAY) :
      Zoned(z, l) = l - k /\ Local(z, l - k) = l

\* When the clock is set back, no day comes again.
DatesGoOn(z) ==
  dateOnlyInTimeZone(z, z.change - 1) <= dateOnlyInTimeZone(z, z.change)

ASSUME HoursAssumption ==
  \A x \in Rules \cup Exceptions :
    x.from \in 0..(DAY - 1) /\ x.to \in 0..(DAY - 1)
ASSUME OpenedAssumption == Open = [v \in Services |-> Opened(v)]
ASSUME DatesAssumption == DatesGoOn(Clock)
ASSUME PlainAssumption == \A date \in StartDays : IsPlainDay(Clock, date)
-----------------------------------------------------------------------------
(* Properties                                                              *)

(* At every moment of the bookings, cancellations and moves, the slots     *)
(* that the calculation finds on a day are those that are open, to come    *)
(* and free, each as long as the service blocks.  It is enough to look     *)
(* while no request is in flight, for none of them holds a slot.           *)
OffersAreExact ==
  request = [h \in Handlers |-> Idle] =>
    \A v \in Services, a \in Appointments \cup {"none"}, date \in StartDays :
      \A offered \in {Availability(Business(v, now, TakenBut(a)), date)} :
        /\ \A s \in Staff, t \in Starts :
             dateOnlyInTimeZone(Clock, t) = date =>
               (SlotOffered(v, s, t, a) <=> Slot(v, s, t) \in offered)
        /\ \A slot \in offered : slot.endsAt = slot.startsAt + Length[v]
=============================================================================
