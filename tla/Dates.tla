------------------------------- MODULE Dates --------------------------------
(***************************************************************************)
(* The arithmetic of dates of a recurring series.  Days are numbered from  *)
(* 0, and MonthStart[m] is the first day of month m; the last month, which *)
(* bounds the calendar, is open.  An interval is a number of days (a week  *)
(* is seven of them) or of months.                                         *)
(*                                                                         *)
(* A month may lack the day that an interval leads to.  Then the API and   *)
(* the dashboard go on into the month after it, and the SQL of the worker  *)
(* stops at the last day.                                                  *)
(***************************************************************************)
EXTENDS Integers, Sequences

CONSTANT MonthStart

Months == DOMAIN MonthStart

Has(m, d) == m = Len(MonthStart) \/ MonthStart[m] + d < MonthStart[m + 1]

IsIn(t, m) == MonthStart[m] <= t /\ Has(m, t - MonthStart[m])

ASSUME CalendarAssumption ==
  /\ MonthStart \in Seq(Nat) /\ MonthStart # <<>> /\ MonthStart[1] = 0
  /\ \A m, n \in Months : m < n => MonthStart[m] < MonthStart[n]
  /\ \A t \in 0 .. MonthStart[Len(MonthStart)] : \E m \in Months : IsIn(t, m)

MonthOf(t) == CHOOSE m \in Months : IsIn(t, m)
DayOf(t) == t - MonthStart[MonthOf(t)]

\* The calendar reaches as far as n intervals after t.
InCalendar(t, e, n) ==
  e.unit = "month" => MonthOf(t) + n * e.value \in Months

\* Date.setUTCDate and Date.setUTCMonth: n intervals after t, or before it.
Shifted(t, e, n) ==
  IF e.unit = "day" THEN t + n * e.value
  ELSE MonthStart[MonthOf(t) + n * e.value] + DayOf(t)

\* The addition of an interval in PostgreSQL.
After(t, e) ==
  IF e.unit = "month" /\ ~Has(MonthOf(t) + e.value, DayOf(t))
  THEN MonthStart[MonthOf(t) + e.value + 1] - 1
  ELSE Shifted(t, e, 1)

\* Nothing overflows: each month has the day of t.
Regular(t, e) ==
  e.unit = "month" => \A m \in Months : Has(m, DayOf(t))

\* The days that are some number of intervals after t.
OnSchedule(u, t, e) ==
  IF e.unit = "day" THEN (u - t) % e.value = 0
  ELSE DayOf(u) = DayOf(t) /\ (MonthOf(u) - MonthOf(t)) % e.value = 0

=============================================================================
