------------------------------- MODULE Metrics ------------------------------
(***************************************************************************)
(* The daily metrics of a business and what the dashboard makes of them.   *)
(*                                                                         *)
(* The worker counts a day anew for each event of an appointment on it, in *)
(* one statement: it reads the appointments of the day, waits for the row  *)
(* of the day if another handler holds it, writes what it has read, and    *)
(* holds the row until it commits.  Nothing counts the day that a          *)
(* rescheduled appointment has left, and nothing counts a day for an       *)
(* appointment that is confirmed again.                                    *)
(*                                                                         *)
(* The API counts what it books in a total of the customer.  The worker,   *)
(* which books the further appointments of a series, does not.             *)
(*                                                                         *)
(* A row is modelled by what it counts: the appointments with the status   *)
(* they are counted as.  Revenue is left out, being a sum over these.  A   *)
(* day is one in UTC, for the worker as for the dashboard.                 *)
(***************************************************************************)
EXTENDS Integers, Sequences, SequencesExt, FiniteSets

CONSTANTS
  Appointments,  \* the appointments of the business
  Days,          \* the days they may be on
  Month, Week,   \* the days of this month, and the last seven
  Staff,         \* the professionals, all of them active
  Customers,     \* the customers
  Services,      \* the services
  Of,            \* whose an appointment is: its staff, customer and service
  TopShown,      \* how many services and customers the panels list
  FavouritesShown, \* how many services the page of a customer lists
  MaxChanges,    \* bound on changes of the appointments
  MaxAborts      \* bound on handlers whose transaction is rolled back

ASSUME DaysAssumption ==
  Days \subseteq Nat \ {0} /\ Month \subseteq Days /\ Week \subseteq Days
ASSUME OfAssumption ==
  Of \in [Appointments ->
            [staff : Staff, customer : Customers, service : Services]]
ASSUME FiniteAssumption ==
  /\ IsFiniteSet(Appointments) /\ IsFiniteSet(Month)
  /\ IsFiniteSet(Staff) /\ IsFiniteSet(Customers)
ASSUME ListsAssumption == TopShown \in Nat /\ FavouritesShown \in Nat
ASSUME BoundsAssumption == MaxChanges \in Nat /\ MaxAborts \in Nat

VARIABLES
  appointment,  \* the status and the day of each appointment
  events,       \* those the worker is still to handle, and their handlers
  rows,         \* business_metrics_daily: what the row of a day counts
  total,        \* customers.total_appointments, as it is stored
  uncounted,    \* appointments that the worker booked, for a series
  overlapped,   \* days whose handlers have overlapped
  departed,     \* the appointments that left a day, with that day
  reopened,     \* appointments confirmed when they had been over
  changes, aborts

totals == <<total, uncounted>>

metricsVars == <<appointment, events, rows, total, uncounted, overlapped,
                 departed, reopened, changes, aborts>>

Statuses == {"active", "completed", "cancelled", "noShow"}
NoDay == 0
Absent == [status |-> "absent", day |-> NoDay]

Event(d) == [day |-> d, step |-> "waiting", read |-> {}]

Exists(a) == appointment[a] # Absent
IsOn(a, d) == appointment[a].day = d
-----------------------------------------------------------------------------
MetricsInit ==
  /\ appointment = [a \in Appointments |-> Absent]
  /\ events = <<>>
  /\ rows = [d \in Days |-> {}]
  /\ total = [c \in Customers |-> 0] /\ uncounted = {}
  /\ overlapped = {} /\ departed = {} /\ reopened = {}
  /\ changes = 0 /\ aborts = 0

(* The API.                                                                *)

Change(a, status, d) ==
  /\ changes < MaxChanges /\ changes' = changes + 1
  /\ appointment' = [appointment EXCEPT ![a] = [status |-> status, day |-> d]]
  /\ UNCHANGED <<rows, overlapped, aborts>>

Publish(d) == events' = Append(events, Event(d))

New(a, d) ==
  /\ ~Exists(a)
  /\ Change(a, "active", d) /\ Publish(d)
  /\ UNCHANGED <<departed, reopened>>

\* The API books: a single appointment, or one that a series begins with.
Book(a, d) ==
  /\ New(a, d)
  /\ total' = [total EXCEPT ![Of[a].customer] = @ + 1]
  /\ UNCHANGED uncounted

\* The event names the new day.
Reschedule(a, d) ==
  /\ appointment[a].status = "active" /\ ~IsOn(a, d)
  /\ Change(a, "active", d) /\ Publish(d)
  /\ departed' = departed \cup {<<a, appointment[a].day>>}
  /\ UNCHANGED <<reopened, totals>>

Cancel(a) ==
  /\ appointment[a].status = "active"
  /\ Change(a, "cancelled", appointment[a].day)
  /\ Publish(appointment[a].day)
  /\ UNCHANGED <<departed, reopened, totals>>

\* The dashboard sets any status; the worker ignores that it is confirmed.
SetStatus(a, status) ==
  /\ Exists(a)
  /\ Change(a, status, appointment[a].day)
  /\ IF status = "active"
     THEN /\ UNCHANGED events
          /\ reopened' = IF appointment[a].status = "active" THEN reopened
                         ELSE reopened \cup {a}
     ELSE Publish(appointment[a].day) /\ UNCHANGED reopened
  /\ UNCHANGED <<departed, totals>>
-----------------------------------------------------------------------------
(* The worker.                                                             *)

\* The next appointment of a series.  It leaves the customer's total as it is.
BookRecurring(a, d) ==
  /\ \E first \in Appointments \ uncounted :
       Exists(first) /\ Of[first] = Of[a]
  /\ New(a, d)
  /\ uncounted' = uncounted \cup {a}
  /\ UNCHANGED total

CountedOn(d) ==
  {<<a, appointment[a].status>> : a \in {b \in Appointments : IsOn(b, d)}}

Held(d) == \E i \in DOMAIN events : events[i].step = "wrote"
                                      /\ events[i].day = d
                                      /\ events[i].read # {}

Step(i, e) == events' = [events EXCEPT ![i] = e]

ReadDay(i) ==
  LET d == events[i].day IN
  /\ events[i].step = "waiting"
  /\ Step(i, [events[i] EXCEPT !.step = "read", !.read = CountedOn(d)])
  /\ overlapped' =
       IF \E j \in DOMAIN events :
            events[j].step \in {"read", "wrote"} /\ events[j].day = d
       THEN overlapped \cup {d} ELSE overlapped
  /\ UNCHANGED <<appointment, rows, totals, departed, reopened, changes,
                 aborts>>

WriteDay(i) ==
  /\ events[i].step = "read" /\ ~Held(events[i].day)
  /\ Step(i, [events[i] EXCEPT !.step = "wrote"])
  /\ UNCHANGED <<appointment, rows, totals, overlapped, departed, reopened,
                 changes, aborts>>

\* Mutant of Replaced: a row that exists stays as it is.
ReplacedOnce(d, read) == IF rows[d] = {} THEN read ELSE rows[d]

\* The row becomes what was read; a day without appointments writes none.
Replaced(d, read) == IF read = {} THEN rows[d] ELSE read

CommitDay(i) ==
  LET d == events[i].day IN
  /\ events[i].step = "wrote"
  /\ events' = RemoveAt(events, i)
  /\ rows' = [rows EXCEPT ![d] = Replaced(d, events[i].read)]
  /\ UNCHANGED <<appointment, totals, overlapped, departed, reopened, changes,
                 aborts>>

\* The transaction is rolled back; the event is delivered again.
AbortDay(i) ==
  /\ events[i].step \in {"read", "wrote"}
  /\ aborts < MaxAborts /\ aborts' = aborts + 1
  /\ Step(i, Event(events[i].day))
  /\ UNCHANGED <<appointment, rows, totals, overlapped, departed, reopened,
                 changes>>
-----------------------------------------------------------------------------
MetricsNext ==
  \/ \E a \in Appointments, d \in Days :
       Book(a, d) \/ BookRecurring(a, d) \/ Reschedule(a, d)
  \/ \E a \in Appointments : Cancel(a)
  \/ \E a \in Appointments, s \in Statuses : SetStatus(a, s)
  \/ \E i \in DOMAIN events :
       ReadDay(i) \/ WriteDay(i) \/ CommitDay(i) \/ AbortDay(i)

MetricsSpec == MetricsInit /\ [][MetricsNext]_metricsVars
-----------------------------------------------------------------------------
(* What the dashboard shows.                                               *)

Bookings(status) ==
  {a \in Appointments : appointment[a].status = status
                          /\ appointment[a].day \in Month}

HasRows == \E d \in Month : rows[d] # {}

CountedIn(d, status) == Cardinality({c \in rows[d] : c[2] = status})

SumOver(ds, status) == SumFunction([d \in ds |-> CountedIn(d, status)])

\* Mutant of Summary: the rows and the appointments are both counted.
SummaryOfBoth(status) ==
  SumOver(Month, status) + Cardinality(Bookings(status))

\* The month: the sum of its rows, or its appointments while there is none.
Summary(status) == IF HasRows THEN SumOver(Month, status)
                              ELSE Cardinality(Bookings(status))

\* A professional: their appointments, for nothing writes rows for these.
StaffSummary(m, status) ==
  Cardinality({a \in Bookings(status) : Of[a].staff = m})

NotCancelled == UNION {Bookings(s) : s \in Statuses \ {"cancelled"}}

\* A list cut to the n that are booked most.
Most(n, S) ==
  CHOOSE T \in SUBSET S :
    /\ Cardinality(T) = IF Cardinality(S) <= n THEN Cardinality(S) ELSE n
    /\ \A t \in T, u \in S \ T : t.bookings >= u.bookings

\* Who is booked how often, by service and by customer.
ByService(as) == {[service |-> v,
                   bookings |-> Cardinality({a \in as : Of[a].service = v})]
                    : v \in {Of[a].service : a \in as}}

ByCustomer(as) == {[customer |-> c,
                    bookings |-> Cardinality({a \in as : Of[a].customer = c})]
                     : c \in {Of[a].customer : a \in as}}

TopServices == Most(TopShown, ByService(NotCancelled))

RecurringCustomers ==
  Most(TopShown, {r \in ByCustomer(NotCancelled) : r.bookings > 1})

\* What a customer has booked, on any day, and not cancelled.
Kept(c) == {a \in Appointments : /\ Exists(a) /\ Of[a].customer = c
                                 /\ appointment[a].status # "cancelled"}

Favourites(c) == Most(FavouritesShown, ByService(Kept(c)))

Own(c) == {a \in Appointments : Exists(a) /\ Of[a].customer = c}

\* A customer on the customers page: their stored total, or if it is zero
\* what they booked; what they cancelled; and the services they keep booking.
CustomerPage(c) ==
  [total |-> IF total[c] # 0 THEN total[c] ELSE Cardinality(Own(c)),
   cancelled |-> Cardinality({a \in Own(c) :
                                appointment[a].status = "cancelled"}),
   favourites |-> Favourites(c)]

\* The customers that the page lists as recurring.
ListedAsRecurring == {c \in Customers : CustomerPage(c).total > 1}

\* The week: one bar per day, from the rows only.
WeeklyBreakdown == [d \in Week |-> [s \in Statuses |-> CountedIn(d, s)]]
-----------------------------------------------------------------------------
(* Properties                                                              *)

AtRest == events = <<>>

(* Once every event is handled, in whatever order and however often, the   *)
(* row of a day counts each of its appointments with the status it has,    *)
(* and no other than those that have left the day.  It may not on a day    *)
(* whose handlers overlapped, where the one that read first may write      *)
(* last, and for an appointment that was confirmed when it was over.       *)
RowsAreRight ==
  AtRest => \A d \in Days \ overlapped, a \in Appointments \ reopened :
    LET counted == {c[2] : c \in {x \in rows[d] : x[1] = a}} IN
    IF IsOn(a, d) THEN counted = {appointment[a].status}
                  ELSE counted = {} \/ <<a, d>> \in departed

\* What a total of the page may be short of: what the worker booked.
Missed(c) == Cardinality({a \in uncounted : Of[a].customer = c})

(* The panels of the dashboard, of which some count rows and the others    *)
(* appointments, then show the same if no day overlapped, no appointment   *)
(* left one and none was reopened: the month is the sum of its staff; the  *)
(* services listed account for what is not cancelled, for all of it if the *)
(* list is not cut; the customers who come again account for no more; and  *)
(* the days that the week shares with the month add up to no more than the *)
(* month.  The page of customers shows a stored total, which does not      *)
(* count what the worker books for a series: with that added, the bookings *)
(* it shows are no fewer, and the favourites of a customer account for     *)
(* what they have not cancelled, for all of it if the list is not cut; of  *)
(* those for whom the worker booked nothing, it lists whoever comes again. *)
PanelsAgree ==
  AtRest /\ overlapped = {} /\ departed = {} /\ reopened = {} =>
    /\ \A s \in Statuses :
         /\ Summary(s) = SumFunction([m \in Staff |-> StaffSummary(m, s)])
         /\ SumFunction([d \in Week \cap Month |-> WeeklyBreakdown[d][s]])
              <= Summary(s)
    /\ LET booked == Summary("active") + Summary("completed")
                       + Summary("noShow")
           listed == SumFunction([t \in TopServices |-> t.bookings])
       IN
       /\ listed <= booked
       /\ Cardinality(ByService(NotCancelled)) <= TopShown => listed = booked
       /\ SumFunction([r \in RecurringCustomers |-> r.bookings]) <= booked
       /\ \A r \in RecurringCustomers :
            Missed(r.customer) = 0 => r.customer \in ListedAsRecurring
       /\ booked <= SumFunction([c \in Customers |->
                                   CustomerPage(c).total + Missed(c)
                                     - CustomerPage(c).cancelled])
    /\ \A c \in Customers :
         LET kept == CustomerPage(c).total + Missed(c)
                       - CustomerPage(c).cancelled
             listed == SumFunction([f \in CustomerPage(c).favourites |->
                                      f.bookings])
         IN
         /\ listed <= kept
         /\ Cardinality(ByService(Kept(c))) <= FavouritesShown => listed = kept
=============================================================================
