----------------------------- MODULE Recurring ------------------------------
(***************************************************************************)
(* Recurring series of one staff member.  The API creates a series with    *)
(* its first occurrences, changes it and cancels it; a job of the worker   *)
(* books the next occurrence of each series that is due, or reports that   *)
(* its slot is taken.                                                      *)
(*                                                                         *)
(* The API's handlers read the series, and a cancellation then its         *)
(* appointments, before they write.  The job claims the due series in one  *)
(* transaction and deals with each of them in queries of their own.        *)
(* Appointments last a day, which is the unit of time.                     *)
(***************************************************************************)
EXTENDS Dates

CONSTANTS
  Series,     \* identifiers of series
  Intervals,  \* intervals between two occurrences: a unit and a number of it
  Firsts,     \* dates of first occurrences that requests ask for
  Times,      \* dates of other appointments, and of those that are moved
  Sizes,      \* numbers of occurrences that requests ask for
  Notices,    \* notices, in days, that updates set
  Workers,    \* runs of the job that may overlap
  Requests,   \* requests of the API that may be in flight together
  MaxTime,    \* bound on the clock
  MaxLate,    \* bound on updates of a series that has ended since their check
  MaxFaults   \* bound on errors and crashes of the worker

ASSUME IntervalsAssumption ==
  Intervals \subseteq [unit : {"day", "month"}, value : Nat \ {0}]
ASSUME DatesAssumption == Firsts \subseteq Nat /\ Times \subseteq Nat
ASSUME SizesAssumption == Sizes \subseteq Nat \ {0}
ASSUME NoticesAssumption == Notices \subseteq Nat \ {0}
ASSUME BoundsAssumption ==
  MaxTime \in Nat /\ MaxLate \in Nat /\ MaxFaults \in Nat

VARIABLES
  now,          \* the clock
  series,       \* each series: status, interval, schedule and counts
  appointment,  \* rows of each series, in the order of their insertion
  other,        \* the staff member's other appointments at each time
  conflicts,    \* occurrences of each series reported as conflicts
  most,         \* the greatest maximum each series has had
  late,         \* updates of each series that were written after its end
  claim,        \* what each run of the job has claimed and read
  request,      \* what each request in flight has read
  faults        \* errors and crashes so far

vars == <<now, series, appointment, other, conflicts, most, late, claim,
          request, faults>>

Statuses == {"active", "paused", "cancelled", "completed"}
Ended == {"cancelled", "completed"}

Absent ==
  [status |-> "absent", every |-> [unit |-> "day", value |-> 1], next |-> 0,
   notice |-> 0, max |-> 0, created |-> 0]
NoClaim == [todo |-> {}, step |-> "idle"]
NoRequest == [step |-> "idle"]

Exists(s) == series[s].status # "absent"

Active(s) ==
  {i \in DOMAIN appointment[s] : appointment[s][i].status = "active"}

Future(s) == {i \in Active(s) : appointment[s][i].at > now}

Taken(t) ==
  \/ t \in DOMAIN other /\ other[t] = "booked"
  \/ \E s \in Series : \E i \in Active(s) : appointment[s][i].at = t

Due(s) ==
  /\ series[s].status = "active"
  /\ series[s].next - series[s].notice <= now
  /\ series[s].next > now

\* An appointment for the date t of the schedule, which it may be moved from.
Row(t) == [at |-> t, due |-> t, status |-> "active"]
-----------------------------------------------------------------------------
Init ==
  /\ now = 0
  /\ series = [s \in Series |-> Absent]
  /\ appointment = [s \in Series |-> <<>>]
  /\ other = [t \in Times |-> "none"]
  /\ conflicts = [s \in Series |-> {}]
  /\ most = [s \in Series |-> 0]
  /\ late = [s \in Series |-> 0]
  /\ claim = [w \in Workers |-> NoClaim]
  /\ request = [h \in Requests |-> NoRequest]
  /\ faults = 0

Tick ==
  /\ now < MaxTime
  /\ now' = now + 1
  /\ UNCHANGED <<series, appointment, other, conflicts, most, late, claim,
                 request, faults>>

\* Appointments of the staff member that belong to no series.
BookOther(t) ==
  /\ t > now /\ other[t] = "none" /\ ~Taken(t)
  /\ other' = [other EXCEPT ![t] = "booked"]
  /\ UNCHANGED <<now, series, appointment, conflicts, most, late, claim, request,
                 faults>>

CancelOther(t) ==
  /\ other[t] = "booked"
  /\ other' = [other EXCEPT ![t] = "cancelled"]
  /\ UNCHANGED <<now, series, appointment, conflicts, most, late, claim, request,
                 faults>>

\* The customer, or the business, cancels one appointment of a series.
CancelOne(s, i) ==
  /\ i \in Active(s)
  /\ appointment' = [appointment EXCEPT ![s][i].status = "cancelled"]
  /\ UNCHANGED <<now, series, other, conflicts, most, late, claim, request,
                 faults>>

\* The series does not know of an appointment that is moved.  Bound: in each
\* series one is away from its date.
RescheduleOne(s, i, t) ==
  /\ i \in Active(s)
  /\ \A j \in DOMAIN appointment[s] :
       appointment[s][j].at = appointment[s][j].due
  /\ t > now /\ ~Taken(t)
  /\ appointment' = [appointment EXCEPT ![s][i].at = t]
  /\ UNCHANGED <<now, series, other, conflicts, most, late, claim, request,
                 faults>>
-----------------------------------------------------------------------------
(* Handlers of the API                                                     *)

(* One transaction books all occurrences or none; the notice starts at 0.  *)
(* The occurrences are counted from the first one, and the next date is    *)
(* one interval after the last of them.                                    *)
CreateSeries(s, first, e, max) ==
  LET date(k) == Shifted(first, e, k - 1)
      last == date(max) IN
  /\ ~Exists(s)
  /\ first > now
  /\ InCalendar(first, e, max - 1) /\ InCalendar(last, e, 1)
  /\ \A k \in 1 .. max : ~Taken(date(k))
  /\ series' = [series EXCEPT ![s] =
       [status |-> "active", every |-> e, next |-> Shifted(last, e, 1),
        notice |-> 0, max |-> max, created |-> max]]
  /\ appointment' =
       [appointment EXCEPT ![s] = [k \in 1 .. max |-> Row(date(k))]]
  /\ most' = [most EXCEPT ![s] = max]
  /\ UNCHANGED <<now, other, conflicts, late, claim, request, faults>>

Changes ==
  [field : {"status"}, to : Statuses] \cup
  [field : {"notice"}, to : Notices] \cup
  [field : {"max"}, to : Sizes]

UpdateCheck(h, s, change) ==
  /\ request[h] = NoRequest
  /\ series[s].status \in {"active", "paused"}
  /\ request' = [request EXCEPT ![h] =
       [step |-> "update", series |-> s, change |-> change]]
  /\ UNCHANGED <<now, series, appointment, other, conflicts, most, late, claim,
                 faults>>

\* The update selects the series by its id alone, which may have ended.
UpdateCommit(h) ==
  LET s == request[h].series
      change == request[h].change IN
  /\ request[h].step = "update"
  /\ series' = [series EXCEPT ![s] = [@ EXCEPT ![change.field] = change.to]]
  /\ most' = [most EXCEPT ![s] =
       IF change.field = "max" /\ change.to > @ THEN change.to ELSE @]
  /\ IF series[s].status \in Ended
     THEN late[s] < MaxLate /\ late' = [late EXCEPT ![s] = @ + 1]
     ELSE UNCHANGED late
  /\ request' = [request EXCEPT ![h] = NoRequest]
  /\ UNCHANGED <<now, appointment, other, conflicts, claim, faults>>

CancelCheck(h, s) ==
  /\ request[h] = NoRequest
  /\ Exists(s) /\ series[s].status # "cancelled"
  /\ request' = [request EXCEPT ![h] = [step |-> "find", series |-> s]]
  /\ UNCHANGED <<now, series, appointment, other, conflicts, most, late, claim,
                 faults>>

CancelFind(h) ==
  /\ request[h].step = "find"
  /\ request' = [request EXCEPT ![h] =
       [step |-> "cancel", series |-> request[h].series,
        found |-> Future(request[h].series)]]
  /\ UNCHANGED <<now, series, appointment, other, conflicts, most, late, claim,
                 faults>>

\* A series without appointments ahead is cancelled by its id alone.
CancelCommit(h) ==
  /\ request[h].step = "cancel" /\ request[h].found = {}
  /\ series' = [series EXCEPT ![request[h].series].status = "cancelled"]
  /\ request' = [request EXCEPT ![h] = NoRequest]
  /\ UNCHANGED <<now, appointment, other, conflicts, most, late, claim, faults>>

(* The transaction that cancels what was found increments a column that    *)
(* the model Customer does not have: it is refused and rolled back, and    *)
(* the series stays as it is.                                              *)
CancelRefused(h) ==
  /\ request[h].step = "cancel" /\ request[h].found # {}
  /\ request' = [request EXCEPT ![h] = NoRequest]
  /\ UNCHANGED <<now, series, appointment, other, conflicts, most, late, claim,
                 faults>>
-----------------------------------------------------------------------------
(* The job of the worker                                                   *)

Claim(w) ==
  /\ claim[w] = NoClaim
  /\ \E s \in Series : Due(s)
  /\ claim' = [claim EXCEPT ![w] =
       [todo |-> {[series |-> s, at |-> series[s].next] :
                    s \in {d \in Series : Due(d)}},
        step |-> "next"]]
  /\ UNCHANGED <<now, series, appointment, other, conflicts, most, late, request,
                 faults>>

Look(w, c) ==
  /\ claim[w].step = "next" /\ c \in claim[w].todo
  /\ claim' = [claim EXCEPT ![w] =
       [todo |-> claim[w].todo \ {c}, step |-> "advance", current |-> c,
        taken |-> Taken(c.at)]]
  /\ UNCHANGED <<now, series, appointment, other, conflicts, most, late, request,
                 faults>>

Rest(w) ==
  claim' = [claim EXCEPT ![w] =
              IF @.todo = {} THEN NoClaim
              ELSE [todo |-> @.todo, step |-> "next"]]

\* Mutant of Created: the conflicts are counted, and not the occurrences.
CreatedOnConflict(taken) == IF taken THEN 1 ELSE 0

Created(taken) == IF taken THEN 0 ELSE 1

\* Mutant of Following: the schedule waits for a slot that is taken.
FollowingFree(t, e, taken) == IF taken THEN t ELSE After(t, e)

Following(t, e, taken) == After(t, e)

\* Mutant of Reached: the series ends at its maximum and not beyond it.
ReachedOnly(created, max) == created = max

Reached(created, max) == created >= max

\* The schedule moves on, and the series is completed at its maximum whatever
\* its status is now.
Scheduled(r, taken) ==
  [r EXCEPT !.created = @ + Created(taken),
            !.next = Following(@, r.every, taken),
            !.status = IF Reached(r.created + Created(taken), r.max)
                       THEN "completed" ELSE @]

\* The exclusion constraint looks at the slot again.
Advance(w) ==
  LET c == claim[w].current
      s == c.series IN
  /\ claim[w].step = "advance"
  /\ InCalendar(series[s].next, series[s].every, 1)
  /\ IF claim[w].taken
     THEN /\ conflicts' = [conflicts EXCEPT ![s] = @ \cup {c.at}]
          /\ UNCHANGED appointment
     ELSE /\ ~Taken(c.at)
          /\ appointment' = [appointment EXCEPT ![s] = Append(@, Row(c.at))]
          /\ UNCHANGED conflicts
  /\ series' = [series EXCEPT ![s] = Scheduled(@, claim[w].taken)]
  /\ Rest(w)
  /\ UNCHANGED <<now, other, most, late, request, faults>>

\* Mutant of Undo: the schedule moves on although nothing was booked.
UndoPartly(w) ==
  LET s == claim[w].current.series IN
  series' = [series EXCEPT ![s].next = After(@, series[s].every)]

\* The transaction of one series is rolled back.
Undo(w) == UNCHANGED series

\* The slot was taken since the run looked, and the next series is dealt with.
AdvanceRefused(w) ==
  /\ claim[w].step = "advance"
  /\ ~claim[w].taken /\ Taken(claim[w].current.at)
  /\ Undo(w)
  /\ Rest(w)
  /\ UNCHANGED <<now, appointment, other, conflicts, most, late, request, faults>>

\* Another error of a query.
QueryFails(w) ==
  /\ claim[w].step = "advance"
  /\ faults < MaxFaults /\ faults' = faults + 1
  /\ Undo(w)
  /\ Rest(w)
  /\ UNCHANGED <<now, appointment, other, conflicts, most, late, request>>

WorkerDies(w) ==
  /\ claim[w] # NoClaim
  /\ faults < MaxFaults /\ faults' = faults + 1
  /\ claim' = [claim EXCEPT ![w] = NoClaim]
  /\ UNCHANGED <<now, series, appointment, other, conflicts, most, late, request>>
-----------------------------------------------------------------------------
Handle(h) ==
  \/ \E s \in Series, change \in Changes : UpdateCheck(h, s, change)
  \/ UpdateCommit(h)
  \/ \E s \in Series : CancelCheck(h, s)
  \/ CancelFind(h)
  \/ CancelCommit(h)
  \/ CancelRefused(h)

Work(w) ==
  \/ Claim(w)
  \/ \E c \in claim[w].todo : Look(w, c)
  \/ Advance(w)
  \/ AdvanceRefused(w)

Next ==
  \/ Tick
  \/ \E t \in Times : BookOther(t) \/ CancelOther(t)
  \/ \E s \in Series : \E i \in DOMAIN appointment[s] :
       CancelOne(s, i) \/ \E t \in Times : RescheduleOne(s, i, t)
  \/ \E s \in Series, first \in Firsts, e \in Intervals, max \in Sizes :
       CreateSeries(s, first, e, max)
  \/ \E h \in Requests : Handle(h)
  \/ \E w \in Workers : Work(w) \/ QueryFails(w) \/ WorkerDies(w)

Spec == Init /\ [][Next]_vars

\* The scheduler runs the job again and again, and a run goes on.
FairSpec == Spec /\ \A w \in Workers : WF_vars(Work(w))
-----------------------------------------------------------------------------
(* Properties                                                              *)

\* The dashboard works the dates of a series out from the next one, going
\* back one interval for each occurrence that was created.
ShownDates(s) ==
  [i \in 1 .. series[s].created |->
     Shifted(series[s].next, series[s].every, i - series[s].created - 1)]

First(s) == appointment[s][1].due

\* A series by days, or by months on a day that each month has.
IsRegular(s) == Exists(s) /\ Regular(First(s), series[s].every)

(* The number of occurrences is that of the rows, and the dates that the   *)
(* dashboard shows of a regular series without a conflict are those of its *)
(* rows, but for the ones that were moved by themselves, although the job  *)
(* books at the times it has read before: with one run of the job at a     *)
(* time the schedule does not move meanwhile.  Of the other series wrong   *)
(* dates are shown: a conflict moves the next date on and creates nothing, *)
(* and a day that a month lacks is left in one month and not found again   *)
(* on the way back.                                                        *)
ShownWereBooked ==
  \A s \in Series :
    /\ series[s].created = Len(appointment[s])
    /\ IsRegular(s) /\ conflicts[s] = {} =>
         \A i \in DOMAIN appointment[s] :
           LET row == appointment[s][i] IN
           row.at = row.due => ShownDates(s)[i] = row.at

Decided(s) ==
  {appointment[s][i].due : i \in DOMAIN appointment[s]} \cup conflicts[s]

\* The dates before the next occurrence at which the series should have one.
ScheduleOf(s) ==
  {t \in First(s) .. series[s].next - 1 :
     OnSchedule(t, First(s), series[s].every)}

\* With one run of the job at a time, each occurrence of a regular series
\* before the next one was booked or reported as a conflict, and no other was,
\* although slots are booked and released between the claim, the look and the
\* insert.
NoneIsSkipped == \A s \in Series : IsRegular(s) => Decided(s) = ScheduleOf(s)

(* With one run of the job at a time, a series has at most one occurrence  *)
(* more than the greatest maximum it has had, and one more for each update *)
(* that was checked before its end and written after it.  The one more is  *)
(* that the API creates as many as the maximum says, leaves the series     *)
(* active, and the job completes it when it has booked another.            *)
WithinMaximum ==
  \A s \in Series : Len(appointment[s]) <= most[s] + late[s] + 1

\* A series that is due is not left behind by an error, a crash or a taken
\* slot: its occurrence is decided, or it is due no longer.
DueIsDecided ==
  \A s \in Series, n \in Notices : \A t \in 1 .. MaxTime + n :
    Due(s) /\ series[s].next = t ~> ~(Due(s) /\ series[s].next = t)

=============================================================================
