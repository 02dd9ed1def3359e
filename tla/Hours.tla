------------------------------- MODULE Hours --------------------------------
(***************************************************************************)
(* The slots that the rules of a business open on a day, as                *)
(* calculateAvailability finds them and as the handlers call it.           *)
(*                                                                         *)
(* A date is the number of a day and a time the number of units since its  *)
(* midnight; slots and appointments are instants.  The order of the slots  *)
(* is left out: whoever looks one up takes any that matches.               *)
(***************************************************************************)
EXTENDS Integers, Zone

CONSTANTS
  SLOT_STEP,  \* units between two slots of a window
  DAY         \* units in a day

ASSUME StepAssumption == SLOT_STEP \in Nat \ {0}
ASSUME DayAssumption == DAY \in Nat \ {0}

AllStaff == 0   \* the staff member of an exception for the whole business

dateAtZonedMinutes(z, date, time) == Zoned(z, date * DAY + time)

dateOnlyInTimeZone(z, u) == Local(z, u) \div DAY

\* The weekday is the one of the local date at noon in UTC.
weekdayInTimeZone(z, date) ==
  dateOnlyInTimeZone(z, date * DAY + DAY \div 2) % 7
-----------------------------------------------------------------------------
(* calculateAvailability                                                   *)

OfType(input, type) == {e \in input.exceptions : e.type = type}

\* The hours of the rules, and the extra ones of one or of all of the staff.
Windows(input) ==
  {[staff |-> r.staff, from |-> r.from, to |-> r.to] : r \in input.rules}
  \cup UNION {{[staff |-> s, from |-> e.from, to |-> e.to]
                 : s \in IF e.staff = AllStaff
                         THEN input.activeStaff ELSE {e.staff}}
                : e \in OfType(input, "EXTRA_OPENING")}

Grid(w, required) ==
  {t \in w.from..(w.to - required) : (t - w.from) % SLOT_STEP = 0}

SlotAt(input, w, t) ==
  [staff |-> w.staff,
   startsAt |-> dateAtZonedMinutes(input.zone, input.date, t),
   endsAt |-> dateAtZonedMinutes(input.zone, input.date, t + input.required)]

Intersects(slot, from, to) == slot.startsAt < to /\ slot.endsAt > from

\* Mutant of Overlaps: a slot may not touch an appointment.
OverlapsOrTouches(input, slot) ==
  \E b \in input.busySlots :
    /\ b.staff = slot.staff
    /\ slot.startsAt <= b.endsAt /\ slot.endsAt >= b.startsAt

Overlaps(input, slot) ==
  \E b \in input.busySlots :
    b.staff = slot.staff /\ Intersects(slot, b.startsAt, b.endsAt)

Blocked(input, slot) ==
  \E e \in OfType(input, "BLOCKED") :
    /\ e.staff \in {AllStaff, slot.staff}
    /\ Intersects(slot, dateAtZonedMinutes(input.zone, input.date, e.from),
                        dateAtZonedMinutes(input.zone, input.date, e.to))

calculateAvailability(input) ==
  LET today == dateOnlyInTimeZone(input.zone, input.now)
      slots == UNION {{SlotAt(input, w, t) : t \in Grid(w, input.required)}
                        : w \in Windows(input)}
  IN {slot \in slots :
        /\ input.date >= today
        /\ ~(input.date = today /\ slot.startsAt <= input.now)
        /\ ~Overlaps(input, slot) /\ ~Blocked(input, slot)}
-----------------------------------------------------------------------------
(* The handlers that call it, for a business with its staff, rules,        *)
(* exceptions and active appointments, and for one of its services.        *)

\* Whoever the service is assigned to, or the whole staff if to nobody.  The
\* rules are those of the whole staff in either case.
EligibleStaff(business) ==
  IF business.assigned = {} THEN business.staff
  ELSE business.staff \cap business.assigned

\* getAvailability and getAvailabilityForTransaction
Availability(business, date) ==
  LET z == business.zone IN
  calculateAvailability(
    [date |-> date, required |-> business.required, zone |-> z,
     now |-> business.now, activeStaff |-> EligibleStaff(business),
     rules |-> {r \in business.rules :
                  /\ r.weekday = weekdayInTimeZone(z, date)
                  /\ r.staff \in business.staff},
     exceptions |-> {e \in business.exceptions :
                       /\ e.date = date
                       /\ e.staff \in business.staff \cup {AllStaff}},
     busySlots |-> {b \in business.busy :
                      /\ b.startsAt < dateAtZonedMinutes(z, date, DAY)
                      /\ b.endsAt > dateAtZonedMinutes(z, date, 0)}])

SlotsFrom(business, start) ==
  {slot \in Availability(business, dateOnlyInTimeZone(business.zone, start)) :
     slot.startsAt = start}

\* selectAvailableStaffMember, whichever of the slots it finds.
Selected(business, start) ==
  /\ SlotsFrom(business, start) # {}
  /\ \A slot \in SlotsFrom(business, start) :
       slot.endsAt = start + business.required

\* assertStaffMemberCanTakeSlot
CanTake(business, staff, start) ==
  \E slot \in SlotsFrom(business, start) : slot.staff = staff
=============================================================================
