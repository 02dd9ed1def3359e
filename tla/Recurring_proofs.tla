-------------------------- MODULE Recurring_proofs --------------------------
(***************************************************************************)
(* What holds of recurring series with one run of the job at a time, for   *)
(* any calendar and any number of series, requests and faults.  A claim    *)
(* then holds the series' own next date until it is dealt with, so that    *)
(* what is booked or reported is the date the schedule moves on from.      *)
(***************************************************************************)
EXTENDS Recurring, TLAPS

AnyInterval == [unit : {"day", "month"}, value : Nat \ {0}]
-----------------------------------------------------------------------------
(* Months and days                                                         *)

LEMMA MonthStarts ==
  /\ Months = 1 .. Len(MonthStart) /\ Len(MonthStart) \in Nat \ {0}
  /\ \A m \in Months : MonthStart[m] \in Nat
  /\ MonthStart[1] = 0
  /\ \A m, n \in Months : m < n => MonthStart[m] < MonthStart[n]
  BY CalendarAssumption DEF CalendarAssumption, Months

LEMMA MonthOfDay ==
  ASSUME NEW t \in Nat
  PROVE  /\ MonthOf(t) \in Months /\ MonthOf(t) \in Nat /\ DayOf(t) \in Nat
         /\ Has(MonthOf(t), DayOf(t))
         /\ t = MonthStart[MonthOf(t)] + DayOf(t)
<1>1. \E m \in Months : IsIn(t, m)
  <2> DEFINE l == Len(MonthStart)
  <2>1. l \in Months /\ MonthStart[l] \in Nat
    BY MonthStarts
  <2>2. CASE t < MonthStart[l]
    <3>1. t \in 0 .. MonthStart[l]
      BY <2>1, <2>2
    <3> QED
      BY <3>1, CalendarAssumption DEF CalendarAssumption
  <2>3. CASE ~(t < MonthStart[l])
    <3>1. IsIn(t, l)
      BY <2>1, <2>3 DEF IsIn, Has
    <3> QED
      BY <2>1, <3>1
  <2> QED
    BY <2>2, <2>3
<1>2. MonthOf(t) \in Months /\ IsIn(t, MonthOf(t))
  BY <1>1, Zenon DEF MonthOf
<1>3. MonthStart[MonthOf(t)] \in Nat
  BY <1>2, MonthStarts
<1>4. MonthOf(t) \in Nat
  BY <1>2, MonthStarts
<1> QED
  BY <1>2, <1>3, <1>4 DEF IsIn, DayOf

\* A day that a month has is in that month and in no other.
LEMMA DayOfMonth ==
  ASSUME NEW m \in Months, NEW d \in Nat, Has(m, d)
  PROVE  /\ MonthStart[m] + d \in Nat
         /\ MonthOf(MonthStart[m] + d) = m /\ DayOf(MonthStart[m] + d) = d
<1> DEFINE t == MonthStart[m] + d
           n == MonthOf(t)
<1>1. t \in Nat /\ MonthStart[m] \in Nat
  BY MonthStarts
<1> HIDE DEF t
<1>2. /\ n \in Months /\ DayOf(t) \in Nat /\ Has(n, DayOf(t))
      /\ t = MonthStart[n] + DayOf(t)
  BY <1>1, MonthOfDay
<1> HIDE DEF n
<1>3. ASSUME NEW i \in Months, NEW j \in Months, NEW c \in Nat,
             NEW e \in Nat, t = MonthStart[i] + c, t = MonthStart[j] + e,
             Has(i, c)
      PROVE  ~(i < j)
  <2> SUFFICES ASSUME i < j PROVE FALSE
    OBVIOUS
  <2>1. i + 1 \in Months /\ i # Len(MonthStart)
    BY MonthStarts
  <2>2. MonthStart[i + 1] <= MonthStart[j]
    BY <2>1, MonthStarts
  <2>3. t < MonthStart[i + 1]
    BY <1>3, <2>1 DEF Has
  <2>4. MonthStart[j] \in Nat /\ MonthStart[i + 1] \in Nat
    BY <2>1, MonthStarts
  <2> QED
    BY <1>1, <1>3, <2>2, <2>3, <2>4
<1>4. t = MonthStart[m] + d
  BY DEF t
<1>5. n = m
  <2>1. ~(n < m) /\ ~(m < n)
    BY <1>2, <1>3, <1>4
  <2> QED
    BY <1>2, <2>1, MonthStarts
<1>6. DayOf(t) = d
  BY <1>1, <1>4, <1>5 DEF DayOf, n
<1> QED
  BY <1>1, <1>4, <1>5, <1>6 DEF n
-----------------------------------------------------------------------------
(* Multiples of an interval                                                *)

LEMMA SumOfMultiples ==
  ASSUME NEW i \in Int, NEW j \in Int, NEW v \in Int
  PROVE  (i + j) * v = i * v + j * v /\ i * v \in Int /\ j * v \in Int
  OBVIOUS

LEMMA MultiplesGrow ==
  ASSUME NEW j \in Int, NEW k \in Int, NEW v \in Nat \ {0}, j < k
  PROVE  j * v \in Int /\ k * v \in Int /\ j * v + v <= k * v
<1>1. PICK d \in Nat : k = j + 1 + d
  <2> WITNESS k - j - 1 \in Nat
  <2> QED
    OBVIOUS
<1>2. d * v \in Nat
  OBVIOUS
<1>3. k * v = j * v + v + d * v /\ j * v \in Int
  BY <1>1
<1> QED
  BY <1>2, <1>3

LEMMA MultiplesLeaveNothing ==
  ASSUME NEW n \in Int, NEW v \in Nat \ {0}
  PROVE  n % v = 0 <=> \E k \in Int : n = k * v
<1>1. /\ n = v * (n \div v) + (n % v)
      /\ n % v \in 0 .. v - 1
      /\ n \div v \in Int
  OBVIOUS
<1>2. ASSUME NEW k \in Int, n = k * v
      PROVE  n % v = 0
  <2> DEFINE q == n \div v
             m == n % v
  <2>1. q \in Int /\ m \in 0 .. v - 1 /\ k * v = q * v + m
    BY <1>1, <1>2
  <2> HIDE DEF q, m
  <2>2. ~(k < q)
    BY <2>1, MultiplesGrow
  <2>3. ~(q < k)
    BY <2>1, MultiplesGrow
  <2>4. m = 0
    BY <2>1, <2>2, <2>3
  <2> QED
    BY <2>4 DEF m
<1>3. n % v = 0 => n = (n \div v) * v
  BY <1>1
<1> QED
  BY <1>1, <1>2, <1>3
-----------------------------------------------------------------------------
(* Dates that are some intervals apart                                     *)

LEMMA ShiftedIsDate ==
  ASSUME NEW t \in Nat, NEW e \in AnyInterval, NEW n \in Nat,
         InCalendar(t, e, n)
  PROVE  Shifted(t, e, n) \in Nat
<1>1. n * e.value \in Nat
  BY DEF AnyInterval
<1>2. CASE e.unit = "day"
  BY <1>1, <1>2 DEF Shifted
<1>3. CASE e.unit = "month"
  <2> DEFINE m == MonthOf(t) + n * e.value
  <2>1. m \in Months /\ Shifted(t, e, n) = MonthStart[m] + DayOf(t)
    BY <1>3 DEF Shifted, InCalendar
  <2> HIDE DEF m
  <2>2. MonthStart[m] \in Nat /\ DayOf(t) \in Nat
    BY <2>1, MonthOfDay, MonthStarts
  <2> QED
    BY <2>1, <2>2
<1> QED
  BY <1>2, <1>3 DEF AnyInterval

LEMMA AfterIsDate ==
  ASSUME NEW t \in Nat, NEW e \in AnyInterval, InCalendar(t, e, 1)
  PROVE  After(t, e) \in Nat
<1> DEFINE m == MonthOf(t) + e.value
<1>1. CASE e.unit = "month" /\ ~Has(m, DayOf(t))
  <2>1. m \in Months
    BY <1>1 DEF InCalendar, AnyInterval
  <2> HIDE DEF m
  <2>2. m + 1 \in Months
    BY <1>1, <2>1, MonthStarts DEF Has
  <2>3. MonthStart[m] < MonthStart[m + 1] /\ MonthStart[m] \in Nat
        /\ MonthStart[m + 1] \in Nat
    BY <2>1, <2>2, MonthStarts
  <2> USE DEF m
  <2>4. After(t, e) = MonthStart[m + 1] - 1
    BY <1>1 DEF After
  <2> HIDE DEF m
  <2> QED
    BY <2>3, <2>4
<1>2. CASE ~(e.unit = "month" /\ ~Has(m, DayOf(t)))
  BY <1>2, ShiftedIsDate DEF After
<1> QED
  BY <1>1, <1>2

LEMMA StaysBetween ==
  ASSUME NEW a \in Nat, NEW b \in Nat, NEW c \in Nat, NEW n \in Nat,
         a >= 1, a + c <= n, b <= c
  PROVE  a + b \in 1 .. n
  OBVIOUS

LEMMA InsideCalendar ==
  ASSUME NEW t \in Nat, NEW e \in AnyInterval, NEW k \in Nat, NEW j \in Nat,
         j <= k, InCalendar(t, e, k)
  PROVE  InCalendar(t, e, j)
<1> SUFFICES ASSUME e.unit = "month" PROVE MonthOf(t) + j * e.value \in Months
  BY DEF InCalendar
<1>1. /\ MonthOf(t) \in Nat /\ MonthOf(t) >= 1
      /\ MonthOf(t) + k * e.value <= Len(MonthStart)
  <2>1. MonthOf(t) + k * e.value \in Months /\ MonthOf(t) \in Months
    BY MonthOfDay DEF InCalendar
  <2>2. \A m \in Months : m >= 1 /\ m <= Len(MonthStart) /\ m \in Nat
    BY MonthStarts
  <2> QED
    BY <2>1, <2>2
<1>2. j * e.value \in Nat /\ k * e.value \in Nat /\ e.value \in Nat \ {0}
  BY DEF AnyInterval
<1>3. j * e.value <= k * e.value
  <2>1. CASE j = k
    BY <1>2, <2>1
  <2>2. CASE j < k
    BY <1>2, <2>2, MultiplesGrow
  <2> QED
    BY <2>1, <2>2
<1>4. Len(MonthStart) \in Nat /\ Months = 1 .. Len(MonthStart)
  BY MonthStarts
<1> DEFINE a == MonthOf(t)
           b == j * e.value
           c == k * e.value
<1>5. a \in Nat /\ b \in Nat /\ c \in Nat /\ a >= 1
      /\ a + c <= Len(MonthStart) /\ b <= c
  BY <1>1, <1>2, <1>3
<1> HIDE DEF a, b, c
<1>6. a + b \in 1 .. Len(MonthStart)
  BY <1>4, <1>5, StaysBetween
<1> QED
  BY <1>4, <1>6 DEF a, b

LEMMA ShiftedByNothing ==
  ASSUME NEW t \in Nat, NEW e \in AnyInterval
  PROVE  Shifted(t, e, 0) = t /\ InCalendar(t, e, 0)
<1>1. 0 * e.value = 0
  BY DEF AnyInterval
<1>2. MonthOf(t) + 0 * e.value = MonthOf(t) /\ t + 0 * e.value = t
  BY <1>1, MonthOfDay
<1> QED
  BY <1>2, MonthOfDay DEF Shifted, InCalendar

\* In a month that has its day, a date that is some months away keeps the day.
LEMMA ShiftedMonth ==
  ASSUME NEW f \in Nat, NEW e \in AnyInterval, NEW j \in Int,
         e.unit = "month", Regular(f, e), InCalendar(f, e, j)
  PROVE  LET m == MonthOf(f) + j * e.value
             u == Shifted(f, e, j) IN
         /\ m \in Months /\ u \in Nat /\ u = MonthStart[m] + DayOf(f)
         /\ MonthOf(u) = m /\ DayOf(u) = DayOf(f)
<1> DEFINE m == MonthOf(f) + j * e.value
           u == Shifted(f, e, j)
<1>1. m \in Months /\ u = MonthStart[m] + DayOf(f)
  BY DEF InCalendar, Shifted
<1>2. Has(m, DayOf(f)) /\ DayOf(f) \in Nat
  BY <1>1, MonthOfDay DEF Regular
<1> HIDE DEF m, u
<1>3. u \in Nat /\ MonthOf(u) = m /\ DayOf(u) = DayOf(f)
  BY <1>1, <1>2, DayOfMonth
<1> QED
  BY <1>1, <1>3 DEF m, u

LEMMA ShiftedTwice ==
  ASSUME NEW f \in Nat, NEW e \in AnyInterval, NEW j \in Nat, NEW i \in Int,
         Regular(f, e), InCalendar(f, e, j)
  PROVE  LET u == Shifted(f, e, j) IN
         /\ u \in Nat
         /\ InCalendar(u, e, i) <=> InCalendar(f, e, j + i)
         /\ Shifted(u, e, i) = Shifted(f, e, j + i)
<1> DEFINE u == Shifted(f, e, j)
<1>1. /\ (j + i) * e.value = j * e.value + i * e.value
      /\ j * e.value \in Int /\ i * e.value \in Int
  BY SumOfMultiples DEF AnyInterval
<1>2. u \in Nat
  BY ShiftedIsDate
<1>3. CASE e.unit = "day"
  BY <1>1, <1>2, <1>3 DEF Shifted, InCalendar
<1>4. CASE e.unit = "month"
  <2>1. /\ MonthOf(u) = MonthOf(f) + j * e.value /\ DayOf(u) = DayOf(f)
        /\ MonthOf(f) \in Nat
    BY <1>4, ShiftedMonth, MonthOfDay
  <2>2. MonthOf(u) + i * e.value = MonthOf(f) + (j + i) * e.value
    BY <1>1, <2>1
  <2> HIDE DEF u
  <2> QED
    BY <1>2, <1>4, <2>1, <2>2 DEF Shifted, InCalendar, u
<1> QED
  BY <1>3, <1>4 DEF AnyInterval

LEMMA AfterIsShifted ==
  ASSUME NEW f \in Nat, NEW e \in AnyInterval, NEW j \in Nat,
         Regular(f, e), InCalendar(f, e, j),
         InCalendar(Shifted(f, e, j), e, 1)
  PROVE  /\ InCalendar(f, e, j + 1)
         /\ After(Shifted(f, e, j), e) = Shifted(f, e, j + 1)
<1> DEFINE u == Shifted(f, e, j)
<1>1. /\ InCalendar(f, e, j + 1) /\ Shifted(u, e, 1) = Shifted(f, e, j + 1)
      /\ u \in Nat
  BY ShiftedTwice
<1>2. e.unit = "month" => Has(MonthOf(u) + e.value, DayOf(u))
  <2> SUFFICES ASSUME e.unit = "month"
               PROVE  Has(MonthOf(u) + e.value, DayOf(u))
    OBVIOUS
  <2>1. DayOf(u) = DayOf(f)
    BY ShiftedMonth
  <2>2. MonthOf(u) + e.value \in Months
    BY DEF InCalendar, AnyInterval
  <2> QED
    BY <2>1, <2>2 DEF Regular
<1> QED
  BY <1>1, <1>2 DEF After

LEMMA ShiftedGrows ==
  ASSUME NEW f \in Nat, NEW e \in AnyInterval, NEW j \in Int, NEW k \in Int,
         Regular(f, e), InCalendar(f, e, j), InCalendar(f, e, k), j < k
  PROVE  Shifted(f, e, j) < Shifted(f, e, k)
<1>1. /\ j * e.value \in Int /\ k * e.value \in Int /\ e.value \in Nat \ {0}
      /\ j * e.value + e.value <= k * e.value
  BY MultiplesGrow DEF AnyInterval
<1>2. CASE e.unit = "day"
  BY <1>1, <1>2 DEF Shifted
<1>3. CASE e.unit = "month"
  <2> DEFINE m == MonthOf(f) + j * e.value
             n == MonthOf(f) + k * e.value
  <2>1. /\ m \in Months /\ n \in Months /\ DayOf(f) \in Nat
        /\ Shifted(f, e, j) = MonthStart[m] + DayOf(f)
        /\ Shifted(f, e, k) = MonthStart[n] + DayOf(f)
    BY <1>3, ShiftedMonth, MonthOfDay
  <2>2. m < n
    BY <1>1, MonthOfDay
  <2> HIDE DEF m, n
  <2>3. MonthStart[m] < MonthStart[n] /\ MonthStart[m] \in Nat
        /\ MonthStart[n] \in Nat
    BY <2>1, <2>2, MonthStarts
  <2> QED
    BY <2>1, <2>3
<1> QED
  BY <1>2, <1>3 DEF AnyInterval

LEMMA OnScheduleIsShifted ==
  ASSUME NEW f \in Nat, NEW e \in AnyInterval, NEW u \in Nat, Regular(f, e)
  PROVE  OnSchedule(u, f, e) <=>
           \E k \in Int : InCalendar(f, e, k) /\ u = Shifted(f, e, k)
<1>0. e.value \in Nat \ {0}
  BY DEF AnyInterval
<1>1. CASE e.unit = "day"
  <2> DEFINE n == u - f
             v == e.value
  <2>0. n \in Int /\ v \in Nat \ {0}
    BY <1>0
  <2> HIDE DEF n, v
  <2>1. n % v = 0 <=> \E k \in Int : n = k * v
    BY <2>0, MultiplesLeaveNothing
  <2> USE DEF n, v
  <2>2. \A k \in Int : u - f = k * e.value <=> u = f + k * e.value
    BY <1>0
  <2> QED
    BY <1>1, <2>1, <2>2 DEF OnSchedule, Shifted, InCalendar
<1>2. CASE e.unit = "month"
  <2>1. /\ MonthOf(u) \in Months /\ u = MonthStart[MonthOf(u)] + DayOf(u)
        /\ MonthOf(u) \in Nat /\ MonthOf(f) \in Nat
    BY MonthOfDay
  <2> DEFINE n == MonthOf(u) - MonthOf(f)
             v == e.value
  <2>0. n \in Int /\ v \in Nat \ {0}
    BY <1>0, <2>1
  <2> HIDE DEF n, v
  <2>2. n % v = 0 <=> \E k \in Int : n = k * v
    BY <2>0, MultiplesLeaveNothing
  <2> USE DEF n, v
  <2>3. ASSUME OnSchedule(u, f, e)
        PROVE  \E k \in Int : InCalendar(f, e, k) /\ u = Shifted(f, e, k)
    <3>1. PICK k \in Int : MonthOf(u) - MonthOf(f) = k * e.value
      BY <1>2, <2>2, <2>3 DEF OnSchedule
    <3>2. MonthOf(u) = MonthOf(f) + k * e.value /\ DayOf(u) = DayOf(f)
      BY <1>0, <1>2, <2>1, <2>3, <3>1 DEF OnSchedule
    <3> QED
      BY <1>2, <2>1, <3>2 DEF InCalendar, Shifted
  <2>4. ASSUME NEW k \in Int, InCalendar(f, e, k), u = Shifted(f, e, k)
        PROVE  OnSchedule(u, f, e)
    <3>1. MonthOf(u) = MonthOf(f) + k * e.value /\ DayOf(u) = DayOf(f)
      BY <1>2, <2>4, ShiftedMonth
    <3>2. MonthOf(u) - MonthOf(f) = k * e.value
      BY <1>0, <2>1, <3>1
    <3> QED
      BY <1>2, <2>2, <3>1, <3>2 DEF OnSchedule
  <2> QED
    BY <2>3, <2>4
<1> QED
  BY <1>1, <1>2 DEF AnyInterval
-----------------------------------------------------------------------------
(* Types                                                                   *)

Rows == [at : Nat, due : Nat, status : {"active", "cancelled"}]

SeriesRecords ==
  [status : Statuses \cup {"absent"}, every : AnyInterval, next : Nat,
   notice : Nat, max : Nat, created : Nat]

Claims == [series : Series, at : Nat]

ClaimRecords ==
  [todo : SUBSET Claims, step : {"idle", "next"}] \cup
  [todo : SUBSET Claims, step : {"advance"}, current : Claims,
   taken : BOOLEAN]

RequestRecords ==
  [step : {"idle"}] \cup
  [step : {"update"}, series : Series, change : Changes] \cup
  [step : {"find"}, series : Series] \cup
  [step : {"cancel"}, series : Series, found : SUBSET Nat]

Typed ==
  /\ series \in [Series -> SeriesRecords]
  /\ appointment \in [Series -> Seq(Rows)]
  /\ conflicts \in [Series -> SUBSET Nat]
  /\ most \in [Series -> Nat]
  /\ late \in [Series -> Nat]
  /\ claim \in [Workers -> ClaimRecords]
  /\ request \in [Requests -> RequestRecords]

\* What a run of the job has to deal with.
Held(w) ==
  claim[w].todo \cup
    (IF claim[w].step = "advance" THEN {claim[w].current} ELSE {})

\* Requests and runs of the job deal with series that exist, and one that
\* does not has nothing.
Begun ==
  /\ \A s \in Series : ~Exists(s) =>
       series[s] = Absent /\ appointment[s] = <<>> /\ conflicts[s] = {}
  /\ \A h \in Requests : request[h].step # "idle" => Exists(request[h].series)
  /\ \A w \in Workers : \A c \in Held(w) : Exists(c.series)

LEMMA UpdatedRecord ==
  ASSUME NEW r \in SeriesRecords, NEW change \in Changes
  PROVE  LET q == [r EXCEPT ![change.field] = change.to] IN
         /\ q \in SeriesRecords
         /\ q.next = r.next /\ q.created = r.created /\ q.every = r.every
         /\ r.status # "absent" => q.status # "absent"
         /\ q.max = IF change.field = "max" THEN change.to ELSE r.max
         /\ change.field = "max" => change.to \in Nat
<1>1. CASE change \in [field : {"status"}, to : Statuses]
  BY <1>1 DEF SeriesRecords, Statuses
<1>2. CASE change \in [field : {"notice"}, to : Notices]
  BY <1>2, NoticesAssumption DEF NoticesAssumption, SeriesRecords
<1>3. CASE change \in [field : {"max"}, to : Sizes]
  BY <1>3, SizesAssumption DEF SizesAssumption, SeriesRecords
<1> QED
  BY <1>1, <1>2, <1>3 DEF Changes

LEMMA ScheduledRecord ==
  ASSUME NEW r \in SeriesRecords, NEW taken \in BOOLEAN,
         InCalendar(r.next, r.every, 1)
  PROVE  /\ Scheduled(r, taken) \in SeriesRecords
         /\ Scheduled(r, taken).next = After(r.next, r.every)
         /\ Scheduled(r, taken).created =
              IF taken THEN r.created ELSE r.created + 1
         /\ Scheduled(r, taken).every = r.every
         /\ Scheduled(r, taken).max = r.max
         /\ r.status # "absent" => Scheduled(r, taken).status # "absent"
         /\ Scheduled(r, taken).status \notin Ended =>
              Scheduled(r, taken).created < r.max
<1> DEFINE n == IF taken THEN r.created ELSE r.created + 1
           u == After(r.next, r.every)
           q == Scheduled(r, taken)
<1>1. n \in Nat /\ r.created + Created(taken) = n /\ r.max \in Nat
  BY DEF SeriesRecords, Created
<1>2. u \in Nat /\ Following(r.next, r.every, taken) = u
  <2>1. r.next \in Nat /\ r.every \in AnyInterval
    BY DEF SeriesRecords
  <2> QED
    BY <2>1, AfterIsDate DEF Following
<1> DEFINE st == IF n >= r.max THEN "completed" ELSE r.status
<1> HIDE DEF u
<1>3. q = [r EXCEPT !.created = n, !.next = u, !.status = st]
  BY <1>1, <1>2, Zenon DEF Scheduled, Reached
<1>4. /\ st \in Statuses \cup {"absent"}
      /\ r.status # "absent" => st # "absent"
      /\ st \notin Ended => n < r.max
  BY <1>1 DEF SeriesRecords, Statuses, Ended
<1> HIDE DEF n, q, st
<1>5. q \in SeriesRecords /\ q.next = u /\ q.created = n
      /\ q.status = st /\ q.every = r.every /\ q.max = r.max
  BY <1>1, <1>2, <1>3, <1>4 DEF SeriesRecords
<1> QED
  BY <1>4, <1>5 DEF n, q, u

LEMMA RestTyped ==
  ASSUME Typed, NEW w \in Workers, Rest(w)
  PROVE  claim' \in [Workers -> ClaimRecords]
  BY DEF Typed, Rest, NoClaim, ClaimRecords

LEMMA RequestFields ==
  ASSUME Typed, NEW h \in Requests
  PROVE  /\ request[h].step = "update" =>
              request[h].series \in Series /\ request[h].change \in Changes
         /\ request[h].step = "find" => request[h].series \in Series
         /\ request[h].step = "cancel" => request[h].series \in Series
  BY DEF Typed, RequestRecords

LEMMA ClaimFields ==
  ASSUME Typed, NEW w \in Workers
  PROVE  /\ claim[w].todo \subseteq Claims
         /\ claim[w].step = "advance" =>
              /\ claim[w].current \in Claims
              /\ claim[w].taken \in BOOLEAN
              /\ claim[w].current.series \in Series
              /\ claim[w].current.at \in Nat
<1>1. claim[w] \in ClaimRecords
  BY DEF Typed
<1> QED
  BY <1>1 DEF ClaimRecords, Claims

LEMMA InitTyped == Init => Typed
<1> SUFFICES ASSUME Init PROVE Typed
  OBVIOUS
<1>1. Absent \in SeriesRecords
  BY DEF Absent, SeriesRecords, AnyInterval
<1>2. NoClaim \in ClaimRecords /\ NoRequest \in RequestRecords
  BY DEF NoClaim, NoRequest, ClaimRecords, RequestRecords
<1>3. <<>> \in Seq(Rows)
  OBVIOUS
<1> QED
  BY <1>1, <1>2, <1>3 DEF Init, Typed

\* The dates of a new series.
LEMMA NewDates ==
  ASSUME NEW first \in Nat, NEW e \in AnyInterval, NEW max \in Nat \ {0},
         InCalendar(first, e, max - 1),
         InCalendar(Shifted(first, e, max - 1), e, 1)
  PROVE  /\ Shifted(Shifted(first, e, max - 1), e, 1) \in Nat
         /\ \A k \in 1 .. max : /\ InCalendar(first, e, k - 1)
                                /\ Shifted(first, e, k - 1) \in Nat
<1>1. ASSUME NEW k \in 1 .. max
      PROVE  InCalendar(first, e, k - 1) /\ Shifted(first, e, k - 1) \in Nat
  <2>1. k - 1 \in Nat /\ max - 1 \in Nat /\ k - 1 <= max - 1
    OBVIOUS
  <2>2. InCalendar(first, e, k - 1)
    BY <2>1, InsideCalendar
  <2> QED
    BY <2>1, <2>2, ShiftedIsDate
<1>2. Shifted(first, e, max - 1) \in Nat
  BY <1>1
<1>3. Shifted(Shifted(first, e, max - 1), e, 1) \in Nat
  <2> DEFINE u == Shifted(first, e, max - 1)
  <2> HIDE DEF u
  <2>1. ASSUME u \in Nat, InCalendar(u, e, 1)
        PROVE  Shifted(u, e, 1) \in Nat
    BY <2>1, ShiftedIsDate
  <2> QED
    BY <1>2, <2>1 DEF u
<1> QED
  BY <1>1, <1>3

LEMMA IntervalsOfRequests ==
  /\ Intervals \subseteq AnyInterval /\ Firsts \subseteq Nat
  /\ Times \subseteq Nat /\ Sizes \subseteq Nat \ {0}
  BY IntervalsAssumption, DatesAssumption, SizesAssumption
     DEF IntervalsAssumption, DatesAssumption, SizesAssumption, AnyInterval

\* What CreateSeries writes.
NewRecord(first, e, max) ==
  [status |-> "active", every |-> e,
   next |-> Shifted(Shifted(first, e, max - 1), e, 1),
   notice |-> 0, max |-> max, created |-> max]

NewRows(first, e, max) == [k \in 1 .. max |-> Row(Shifted(first, e, k - 1))]

LEMMA NewSeries ==
  ASSUME NEW s \in Series, NEW first \in Firsts, NEW e \in Intervals,
         NEW max \in Sizes, CreateSeries(s, first, e, max)
  PROVE  /\ first \in Nat /\ e \in AnyInterval /\ max \in Nat \ {0}
         /\ InCalendar(first, e, max - 1)
         /\ InCalendar(Shifted(first, e, max - 1), e, 1)
         /\ ~Exists(s)
         /\ series' = [series EXCEPT ![s] = NewRecord(first, e, max)]
         /\ appointment' = [appointment EXCEPT ![s] = NewRows(first, e, max)]
         /\ most' = [most EXCEPT ![s] = max]
         /\ UNCHANGED <<now, other, conflicts, late, claim, request, faults>>
         /\ NewRecord(first, e, max) \in SeriesRecords
         /\ NewRows(first, e, max) \in Seq(Rows)
         /\ Len(NewRows(first, e, max)) = max
         /\ DOMAIN NewRows(first, e, max) = 1 .. max
         /\ \A k \in 1 .. max :
              /\ NewRows(first, e, max)[k].at = Shifted(first, e, k - 1)
              /\ NewRows(first, e, max)[k].due = Shifted(first, e, k - 1)
<1>1. first \in Nat /\ e \in AnyInterval /\ max \in Nat \ {0}
  BY IntervalsOfRequests
<1>2. /\ InCalendar(first, e, max - 1)
      /\ InCalendar(Shifted(first, e, max - 1), e, 1)
      /\ ~Exists(s)
      /\ series' = [series EXCEPT ![s] = NewRecord(first, e, max)]
      /\ appointment' = [appointment EXCEPT ![s] = NewRows(first, e, max)]
      /\ most' = [most EXCEPT ![s] = max]
      /\ UNCHANGED <<now, other, conflicts, late, claim, request, faults>>
  BY Zenon DEF CreateSeries, NewRecord, NewRows
<1>3. /\ Shifted(Shifted(first, e, max - 1), e, 1) \in Nat
      /\ \A k \in 1 .. max : Shifted(first, e, k - 1) \in Nat
  BY <1>1, <1>2, NewDates
<1>4. NewRecord(first, e, max) \in SeriesRecords
  BY <1>1, <1>3 DEF NewRecord, SeriesRecords, Statuses
<1>5. \A k \in 1 .. max : Row(Shifted(first, e, k - 1)) \in Rows
  BY <1>3 DEF Row, Rows
<1>6. /\ NewRows(first, e, max) \in Seq(Rows)
      /\ Len(NewRows(first, e, max)) = max
      /\ DOMAIN NewRows(first, e, max) = 1 .. max
  BY <1>1, <1>5 DEF NewRows
<1>7. \A k \in 1 .. max :
        /\ NewRows(first, e, max)[k].at = Shifted(first, e, k - 1)
        /\ NewRows(first, e, max)[k].due = Shifted(first, e, k - 1)
  BY DEF NewRows, Row
<1> QED
  BY <1>1, <1>2, <1>4, <1>6, <1>7, Zenon

LEMMA TypedOne ==
  ASSUME Typed, NEW s \in Series, NEW i,
         CancelOne(s, i) \/ \E t \in Times : RescheduleOne(s, i, t)
  PROVE  Typed'
<1>1. i \in DOMAIN appointment[s] /\ appointment[s] \in Seq(Rows)
  BY DEF CancelOne, RescheduleOne, Active, Typed
<1>2. appointment[s][i] \in Rows
  BY <1>1
<1>3. \E r \in Rows :
        appointment' = [appointment EXCEPT ![s] = [@ EXCEPT ![i] = r]]
  <2>1. ASSUME CancelOne(s, i)
        PROVE  /\ [appointment[s][i] EXCEPT !.status = "cancelled"] \in Rows
               /\ appointment' = [appointment EXCEPT ![s] = [@ EXCEPT ![i] =
                    [appointment[s][i] EXCEPT !.status = "cancelled"]]]
    BY <1>2, <2>1 DEF CancelOne, Rows
  <2>2. ASSUME NEW t \in Times, RescheduleOne(s, i, t)
        PROVE  /\ [appointment[s][i] EXCEPT !.at = t] \in Rows
               /\ appointment' = [appointment EXCEPT ![s] = [@ EXCEPT ![i] =
                    [appointment[s][i] EXCEPT !.at = t]]]
    BY <1>2, <2>2, IntervalsOfRequests DEF RescheduleOne, Rows
  <2> QED
    BY <2>1, <2>2
<1>4. \A r \in Rows : [appointment[s] EXCEPT ![i] = r] \in Seq(Rows)
  BY <1>1
<1> QED
  BY <1>3, <1>4 DEF CancelOne, RescheduleOne, Typed

\* What UpdateCommit writes.
LEMMA Updated ==
  ASSUME Typed, NEW h \in Requests, UpdateCommit(h)
  PROVE  LET s == request[h].series
             change == request[h].change IN
         /\ s \in Series /\ change \in Changes
         /\ series' = [series EXCEPT ![s] =
                         [series[s] EXCEPT ![change.field] = change.to]]
         /\ most' \in [Series -> Nat] /\ late' \in [Series -> Nat]
         /\ \A q \in Series \ {s} : most'[q] = most[q] /\ late'[q] = late[q]
         /\ most'[s] >= most[s]
         /\ change.field = "max" => most'[s] >= change.to
         /\ late'[s] =
              IF series[s].status \in Ended THEN late[s] + 1 ELSE late[s]
         /\ UNCHANGED <<now, appointment, other, conflicts, claim, faults>>
         /\ request' = [request EXCEPT ![h] = NoRequest]
<1> DEFINE s == request[h].series
           change == request[h].change
           m == IF change.field = "max" /\ change.to > most[s]
                THEN change.to ELSE most[s]
<1>1. s \in Series /\ change \in Changes
  BY RequestFields DEF UpdateCommit
<1>2. most[s] \in Nat /\ (change.field = "max" => change.to \in Nat)
  BY <1>1, SizesAssumption DEF Typed, Changes, SizesAssumption
<1>3. most' = [most EXCEPT ![s] = m]
  BY DEF UpdateCommit
<1>4. m \in Nat /\ m >= most[s] /\ (change.field = "max" => m >= change.to)
  BY <1>2
<1>5. \/ series[s].status \in Ended /\ late' = [late EXCEPT ![s] = @ + 1]
      \/ series[s].status \notin Ended /\ late' = late
  BY DEF UpdateCommit
<1>6. /\ series' = [series EXCEPT ![s] =
                      [series[s] EXCEPT ![change.field] = change.to]]
      /\ UNCHANGED <<now, appointment, other, conflicts, claim, faults>>
      /\ request' = [request EXCEPT ![h] = NoRequest]
  BY DEF UpdateCommit
<1> HIDE DEF s, change, m
<1>7. /\ most' \in [Series -> Nat]
      /\ \A q \in Series \ {s} : most'[q] = most[q]
      /\ most'[s] = m
  BY <1>1, <1>3, <1>4 DEF Typed
<1>8. /\ late' \in [Series -> Nat]
      /\ \A q \in Series \ {s} : late'[q] = late[q]
      /\ late'[s] = IF series[s].status \in Ended THEN late[s] + 1 ELSE late[s]
  <2>1. CASE series[s].status \in Ended /\ late' = [late EXCEPT ![s] = @ + 1]
    <3>1. late[s] + 1 \in Nat /\ late'[s] = late[s] + 1
      BY <1>1, <2>1 DEF Typed
    <3> QED
      BY <1>1, <2>1, <3>1 DEF Typed
  <2>2. CASE series[s].status \notin Ended /\ late' = late
    BY <1>1, <2>2 DEF Typed
  <2> QED
    BY <1>5, <2>1, <2>2
<1> QED
  BY <1>1, <1>4, <1>6, <1>7, <1>8 DEF s, change

LEMMA TypedHandle ==
  ASSUME Typed, NEW h \in Requests, Handle(h)
  PROVE  Typed'
<1>0. NoRequest \in RequestRecords
  BY DEF NoRequest, RequestRecords
<1>1. ASSUME NEW s \in Series, NEW change \in Changes,
             UpdateCheck(h, s, change)
      PROVE  Typed'
  BY <1>1 DEF UpdateCheck, Typed, RequestRecords
<1>2. CASE UpdateCommit(h)
  <2> DEFINE s == request[h].series
             r == [series[s] EXCEPT
                    ![request[h].change.field] = request[h].change.to]
  <2>1. /\ s \in Series /\ request[h].change \in Changes
        /\ series' = [series EXCEPT ![s] = r]
        /\ most' \in [Series -> Nat] /\ late' \in [Series -> Nat]
        /\ UNCHANGED <<now, appointment, other, conflicts, claim, faults>>
        /\ request' = [request EXCEPT ![h] = NoRequest]
    BY <1>2, Updated
  <2>2. r \in SeriesRecords
    BY <2>1, UpdatedRecord DEF Typed
  <2> HIDE DEF r, s
  <2> QED
    BY <1>0, <2>1, <2>2 DEF Typed
<1>3. ASSUME NEW s \in Series, CancelCheck(h, s)
      PROVE  Typed'
  BY <1>3 DEF CancelCheck, Typed, RequestRecords
<1>4. CASE CancelFind(h)
  <2>1. request[h].series \in Series
    BY <1>4, RequestFields DEF CancelFind
  <2>2. Future(request[h].series) \subseteq Nat
    BY <2>1 DEF Future, Active, Typed
  <2> QED
    BY <1>4, <2>1, <2>2 DEF CancelFind, Typed, RequestRecords
<1>5. CASE CancelCommit(h)
  <2>1. request[h].series \in Series
    BY <1>5, RequestFields DEF CancelCommit
  <2>2. [series[request[h].series] EXCEPT !.status = "cancelled"]
          \in SeriesRecords
    BY <2>1 DEF Typed, SeriesRecords, Statuses
  <2> QED
    BY <1>0, <1>5, <2>1, <2>2 DEF CancelCommit, Typed
<1>6. CASE CancelRefused(h)
  BY <1>0, <1>6 DEF CancelRefused, Typed
<1> QED
  BY <1>1, <1>2, <1>3, <1>4, <1>5, <1>6 DEF Handle

LEMMA TypedWork ==
  ASSUME Typed, NEW w \in Workers, Work(w)
  PROVE  Typed'
<1>1. CASE Claim(w)
  <2> DEFINE todo == {[series |-> s, at |-> series[s].next] :
                        s \in {d \in Series : Due(d)}}
  <2>a. \A s \in Series : [series |-> s, at |-> series[s].next] \in Claims
    BY DEF Claims, Typed, SeriesRecords
  <2>1. todo \subseteq Claims
    BY <2>a
  <2>2. claim' = [claim EXCEPT ![w] = [todo |-> todo, step |-> "next"]]
    BY <1>1, Zenon DEF Claim
  <2> HIDE DEF todo
  <2> QED
    BY <1>1, <2>1, <2>2 DEF Claim, Typed, ClaimRecords
<1>2. ASSUME NEW c \in claim[w].todo, Look(w, c)
      PROVE  Typed'
  <2>1. c \in Claims /\ Taken(c.at) \in BOOLEAN
    BY ClaimFields DEF Taken
  <2> QED
    BY <1>2, <2>1, ClaimFields DEF Look, Typed, ClaimRecords
<1>3. CASE Advance(w)
  <2> DEFINE c == claim[w].current
             s == c.series
  <2>1. s \in Series /\ c.at \in Nat /\ claim[w].taken \in BOOLEAN
    BY <1>3, ClaimFields DEF Advance
  <2>2. Row(c.at) \in Rows
    BY <2>1 DEF Row, Rows
  <2>a. /\ \/ conflicts' = [conflicts EXCEPT ![s] = @ \cup {c.at}]
           \/ conflicts' = conflicts
        /\ \/ appointment' = [appointment EXCEPT ![s] = Append(@, Row(c.at))]
           \/ appointment' = appointment
        /\ InCalendar(series[s].next, series[s].every, 1)
    BY <1>3, Zenon DEF Advance
  <2> HIDE DEF c, s
  <2>3. conflicts' \in [Series -> SUBSET Nat]
    <3>1. conflicts[s] \cup {c.at} \in SUBSET Nat
      BY <2>1 DEF Typed
    <3> QED
      BY <2>1, <2>a, <3>1 DEF Typed
  <2>4. appointment' \in [Series -> Seq(Rows)]
    <3>1. Append(appointment[s], Row(c.at)) \in Seq(Rows)
      BY <2>1, <2>2 DEF Typed
    <3> QED
      BY <2>1, <2>a, <3>1 DEF Typed
  <2>5. Scheduled(series[s], claim[w].taken) \in SeriesRecords
    BY <2>1, <2>a, ScheduledRecord DEF Typed
  <2> USE DEF c, s
  <2>6. series' \in [Series -> SeriesRecords]
    BY <1>3, <2>1, <2>5 DEF Advance, Typed
  <2>7. claim' \in [Workers -> ClaimRecords]
    BY <1>3, RestTyped DEF Advance
  <2> QED
    BY <1>3, <2>3, <2>4, <2>6, <2>7 DEF Advance, Typed
<1>4. CASE AdvanceRefused(w)
  <2>1. claim' \in [Workers -> ClaimRecords]
    BY <1>4, RestTyped DEF AdvanceRefused
  <2> QED
    BY <1>4, <2>1 DEF AdvanceRefused, Undo, Typed
<1> QED
  BY <1>1, <1>2, <1>3, <1>4 DEF Work

LEMMA TypedFault ==
  ASSUME Typed, NEW w \in Workers, QueryFails(w) \/ WorkerDies(w)
  PROVE  Typed'
<1>1. CASE QueryFails(w)
  <2>1. claim' \in [Workers -> ClaimRecords]
    BY <1>1, RestTyped DEF QueryFails
  <2> QED
    BY <1>1, <2>1 DEF QueryFails, Undo, Typed
<1>2. CASE WorkerDies(w)
  BY <1>2 DEF WorkerDies, NoClaim, Typed, ClaimRecords
<1> QED
  BY <1>1, <1>2

LEMMA TypedStep ==
  ASSUME Typed, [Next]_vars
  PROVE  Typed'
<1>1. CASE Tick
  BY <1>1 DEF Tick, Typed
<1>2. ASSUME NEW t \in Times, BookOther(t) \/ CancelOther(t)
      PROVE  Typed'
  BY <1>2 DEF BookOther, CancelOther, Typed
<1>3. ASSUME NEW s \in Series, NEW i \in DOMAIN appointment[s],
             CancelOne(s, i) \/ \E t \in Times : RescheduleOne(s, i, t)
      PROVE  Typed'
  BY <1>3, TypedOne
<1>4. ASSUME NEW s \in Series, NEW first \in Firsts, NEW e \in Intervals,
             NEW max \in Sizes, CreateSeries(s, first, e, max)
      PROVE  Typed'
  <2>1. /\ series' = [series EXCEPT ![s] = NewRecord(first, e, max)]
        /\ appointment' = [appointment EXCEPT ![s] = NewRows(first, e, max)]
        /\ most' = [most EXCEPT ![s] = max]
        /\ UNCHANGED <<now, other, conflicts, late, claim, request, faults>>
        /\ NewRecord(first, e, max) \in SeriesRecords
        /\ NewRows(first, e, max) \in Seq(Rows)
    BY <1>4, NewSeries
  <2>2. max \in Nat
    BY IntervalsOfRequests
  <2> QED
    BY <2>1, <2>2 DEF Typed
<1>5. ASSUME NEW h \in Requests, Handle(h)
      PROVE  Typed'
  BY <1>5, TypedHandle
<1>6. ASSUME NEW w \in Workers, Work(w) \/ QueryFails(w) \/ WorkerDies(w)
      PROVE  Typed'
  BY <1>6, TypedWork, TypedFault
<1>7. CASE UNCHANGED vars
  BY <1>7 DEF vars, Typed
<1> QED
  BY <1>1, <1>2, <1>3, <1>4, <1>5, <1>6, <1>7 DEF Next
-----------------------------------------------------------------------------
(* What changes a series                                                   *)

Same(s) ==
  /\ series'[s] = series[s]
  /\ appointment'[s] = appointment[s]
  /\ conflicts'[s] = conflicts[s]
  /\ most'[s] = most[s]
  /\ late'[s] = late[s]

LEMMA ChangesOf ==
  ASSUME Typed, [Next]_vars, NEW s \in Series
  PROVE  \/ Same(s)
         \/ \E i : CancelOne(s, i) \/ \E t \in Times : RescheduleOne(s, i, t)
         \/ \E first \in Firsts, e \in Intervals, max \in Sizes :
              CreateSeries(s, first, e, max)
         \/ \E h \in Requests : UpdateCommit(h) /\ request[h].series = s
         \/ \E h \in Requests : CancelCommit(h) /\ request[h].series = s
         \/ \E w \in Workers : Advance(w) /\ claim[w].current.series = s
<1>1. \/ UNCHANGED <<series, appointment, conflicts, most, late>>
      \/ \E q \in Series : \E i \in DOMAIN appointment[q] :
           CancelOne(q, i) \/ \E t \in Times : RescheduleOne(q, i, t)
      \/ \E q \in Series, first \in Firsts, e \in Intervals, max \in Sizes :
           CreateSeries(q, first, e, max)
      \/ \E h \in Requests : UpdateCommit(h) \/ CancelCommit(h)
      \/ \E w \in Workers : Advance(w)
  BY DEF Next, vars, Tick, BookOther, CancelOther, Handle, UpdateCheck,
         CancelCheck, CancelFind, CancelRefused, Work, Claim, Look,
         AdvanceRefused, QueryFails, WorkerDies, Undo
<1>2. ASSUME NEW q \in Series, NEW i, q # s,
             CancelOne(q, i) \/ \E t \in Times : RescheduleOne(q, i, t)
      PROVE  Same(s)
  BY <1>2 DEF CancelOne, RescheduleOne, Same, Typed
<1>3. ASSUME NEW q \in Series, NEW first \in Firsts, NEW e \in Intervals,
             NEW max \in Sizes, q # s, CreateSeries(q, first, e, max)
      PROVE  Same(s)
  BY <1>3 DEF CreateSeries, Same, Typed
<1>4. ASSUME NEW h \in Requests, UpdateCommit(h), request[h].series # s
      PROVE  Same(s)
  BY <1>4 DEF UpdateCommit, Same, Typed
<1>5. ASSUME NEW h \in Requests, CancelCommit(h), request[h].series # s
      PROVE  Same(s)
  BY <1>5 DEF CancelCommit, Same, Typed
<1>6. ASSUME NEW w \in Workers, Advance(w), claim[w].current.series # s
      PROVE  Same(s)
  BY <1>6 DEF Advance, Same, Typed
<1>7. UNCHANGED <<series, appointment, conflicts, most, late>> => Same(s)
  BY DEF Same
<1> QED
  BY <1>1, <1>2, <1>3, <1>4, <1>5, <1>6, <1>7

\* What CancelOne and RescheduleOne leave of a series.
LEMMA OneRowChanges ==
  ASSUME Typed, NEW s \in Series, NEW i,
         CancelOne(s, i) \/ \E t \in Times : RescheduleOne(s, i, t)
  PROVE  /\ UNCHANGED <<series, conflicts, most, late, claim, request>>
         /\ appointment[s] # <<>>
         /\ Len(appointment'[s]) = Len(appointment[s])
         /\ \A j \in DOMAIN appointment[s] :
              appointment'[s][j].due = appointment[s][j].due
<1>1. i \in DOMAIN appointment[s] /\ appointment[s] \in Seq(Rows)
  BY DEF CancelOne, RescheduleOne, Active, Typed
<1>2. UNCHANGED <<series, conflicts, most, late, claim, request>>
  BY DEF CancelOne, RescheduleOne
<1>3. PICK r :
        /\ appointment'[s] = [appointment[s] EXCEPT ![i] = r]
        /\ r.due = appointment[s][i].due
  <2>1. appointment[s][i] \in Rows
    BY <1>1
  <2>2. ASSUME CancelOne(s, i)
        PROVE  appointment'[s] = [appointment[s] EXCEPT ![i] =
                 [appointment[s][i] EXCEPT !.status = "cancelled"]]
    BY <2>2 DEF CancelOne, Typed
  <2>3. ASSUME NEW t \in Times, RescheduleOne(s, i, t)
        PROVE  appointment'[s] = [appointment[s] EXCEPT ![i] =
                 [appointment[s][i] EXCEPT !.at = t]]
    BY <2>3 DEF RescheduleOne, Typed
  <2>4. \A t : /\ [appointment[s][i] EXCEPT !.status = "cancelled"].due =
                    appointment[s][i].due
               /\ [appointment[s][i] EXCEPT !.at = t].due =
                    appointment[s][i].due
    BY <2>1 DEF Rows
  <2> QED
    BY <2>2, <2>3, <2>4
<1> QED
  BY <1>1, <1>2, <1>3

\* What the job writes of a series.
LEMMA Advanced ==
  ASSUME Typed, NEW w \in Workers, Advance(w)
  PROVE  LET c == claim[w].current
             s == c.series IN
         /\ s \in Series /\ c.at \in Nat /\ c \in Held(w) /\ c \in Claims
         /\ claim[w].taken \in BOOLEAN
         /\ InCalendar(series[s].next, series[s].every, 1)
         /\ series'[s] = Scheduled(series[s], claim[w].taken)
         /\ claim[w].taken =>
              /\ conflicts'[s] = conflicts[s] \cup {c.at}
              /\ appointment'[s] = appointment[s]
         /\ ~claim[w].taken =>
              /\ conflicts'[s] = conflicts[s]
              /\ appointment'[s] = Append(appointment[s], Row(c.at))
         /\ UNCHANGED <<most, late>>
<1>1. /\ claim[w].current.series \in Series /\ claim[w].current.at \in Nat
      /\ claim[w].current \in Claims /\ claim[w].taken \in BOOLEAN
      /\ claim[w].current \in Held(w)
  BY ClaimFields DEF Advance, Held
<1> QED
  BY <1>1 DEF Advance, Typed
-----------------------------------------------------------------------------
(* Series that exist                                                       *)

\* A step leaves a series alone, or the series exists after it.
LEMMA OnlySeriesThatExistChange ==
  ASSUME Typed, Begun, [Next]_vars, NEW s \in Series
  PROVE  Same(s) \/ Exists(s)'
<1>1. ASSUME NEW i,
             CancelOne(s, i) \/ \E t \in Times : RescheduleOne(s, i, t)
      PROVE  Exists(s)'
  <2>1. appointment[s] # <<>> /\ series' = series
    BY <1>1, OneRowChanges
  <2> QED
    BY <2>1 DEF Begun, Exists
<1>2. ASSUME NEW first \in Firsts, NEW e \in Intervals, NEW max \in Sizes,
             CreateSeries(s, first, e, max)
      PROVE  Exists(s)'
  <2>1. series' = [series EXCEPT ![s] = NewRecord(first, e, max)]
    BY <1>2, NewSeries
  <2>2. NewRecord(first, e, max).status = "active"
    BY DEF NewRecord
  <2> QED
    BY <2>1, <2>2 DEF Exists, Typed
<1>3. ASSUME NEW h \in Requests, UpdateCommit(h), request[h].series = s
      PROVE  Exists(s)'
  <2> DEFINE r == [series[s] EXCEPT
                    ![request[h].change.field] = request[h].change.to]
  <2>1. /\ request[h].change \in Changes
        /\ series' = [series EXCEPT ![s] = r]
    BY <1>3, Updated
  <2>2. series[s].status # "absent"
    BY <1>3 DEF UpdateCommit, Begun, Exists
  <2>3. r.status # "absent"
    BY <2>1, <2>2, UpdatedRecord DEF Typed
  <2> HIDE DEF r
  <2> QED
    BY <2>1, <2>3 DEF Exists, Typed
<1>4. ASSUME NEW h \in Requests, CancelCommit(h), request[h].series = s
      PROVE  Exists(s)'
  <2>1. series[s] \in SeriesRecords
        /\ series'[s] = [series[s] EXCEPT !.status = "cancelled"]
    BY <1>4 DEF CancelCommit, Typed
  <2>2. series'[s].status = "cancelled"
    BY <2>1 DEF SeriesRecords
  <2> QED
    BY <2>2 DEF Exists
<1>5. ASSUME NEW w \in Workers, Advance(w), claim[w].current.series = s
      PROVE  Exists(s)'
  <2>1. /\ claim[w].taken \in BOOLEAN /\ claim[w].current \in Held(w)
        /\ InCalendar(series[s].next, series[s].every, 1)
        /\ series'[s] = Scheduled(series[s], claim[w].taken)
    BY <1>5, Advanced
  <2>2. series[s].status # "absent"
    BY <1>5, <2>1 DEF Begun, Exists
  <2>3. Scheduled(series[s], claim[w].taken).status # "absent"
    BY <2>1, <2>2, ScheduledRecord DEF Typed
  <2> QED
    BY <2>1, <2>3 DEF Exists
<1> QED
  BY <1>1, <1>2, <1>3, <1>4, <1>5, ChangesOf

LEMMA ExistingStay ==
  ASSUME Typed, Begun, [Next]_vars, NEW s \in Series, Exists(s)
  PROVE  Exists(s)'
  BY OnlySeriesThatExistChange DEF Same, Exists

\* What a request deals with is the same after a step, or exists.
LEMMA BegunRequests ==
  ASSUME Typed, Begun, [Next]_vars, NEW h \in Requests,
         request'[h].step # "idle"
  PROVE  Exists(request[h].series)'
<1>1. ASSUME NEW g \in Requests, Handle(g)
      PROVE  \/ request'[h] = request[h]
             \/ request'[h] = NoRequest
             \/ /\ request'[h].series \in Series
                /\ Exists(request'[h].series)
  <2>1. CASE UpdateCommit(g) \/ CancelCommit(g) \/ CancelRefused(g)
    BY <2>1 DEF UpdateCommit, CancelCommit, CancelRefused, Typed
  <2>2. ASSUME NEW s \in Series, NEW change \in Changes,
               UpdateCheck(g, s, change)
        PROVE  request'[h] = request[h] \/ (/\ request'[h].series = s
                                           /\ Exists(s))
    BY <2>2 DEF UpdateCheck, Exists, Typed
  <2>3. CASE CancelFind(g)
    <3>1. request[g].series \in Series /\ Exists(request[g].series)
      BY <2>3, RequestFields DEF CancelFind, Begun
    <3> QED
      BY <2>3, <3>1 DEF CancelFind, Typed
  <2>4. ASSUME NEW s \in Series, CancelCheck(g, s)
        PROVE  request'[h] = request[h] \/ (/\ request'[h].series = s
                                           /\ Exists(s))
    BY <2>4, SMTT(20) DEF CancelCheck, Exists, Typed
  <2> QED
    BY <1>1, <2>1, <2>2, <2>3, <2>4 DEF Handle
<1>2. \/ request'[h] = request[h]
      \/ \E g \in Requests : Handle(g)
  BY DEF Next, vars, Tick, BookOther, CancelOther, CancelOne, RescheduleOne,
         CreateSeries, Work, Claim, Look, Advance, AdvanceRefused, QueryFails,
         WorkerDies
<1>3. request[h].step # "idle" =>
        request[h].series \in Series /\ Exists(request[h].series)
  BY DEF Typed, RequestRecords, Begun
<1>4. NoRequest.step = "idle"
  BY DEF NoRequest
<1>5. request'[h].series \in Series /\ Exists(request'[h].series)
  BY <1>1, <1>2, <1>3, <1>4
<1>6. \A s \in Series : Exists(s) => series'[s].status # "absent"
  BY ExistingStay DEF Exists
<1> QED
  BY <1>5, <1>6 DEF Exists

LEMMA RestOfClaim ==
  ASSUME Typed, NEW w \in Workers, Rest(w), NEW v \in Workers
  PROVE  /\ Held(v)' \subseteq Held(v)
         /\ claim'[v] = claim[v] \/ claim'[v].step # "advance"
         /\ v = w => Held(v)' \subseteq claim[v].todo
  BY DEF Rest, Held, NoClaim, Typed

\* What a run holds after a step it held before, or has just claimed.
LEMMA BegunClaims ==
  ASSUME Typed, Begun, [Next]_vars, NEW w \in Workers, NEW c \in Held(w)'
  PROVE  /\ c.series \in Series /\ Exists(c.series)
         /\ \/ c \in Held(w)
            \/ /\ Claim(w) /\ c.at = series[c.series].next
               /\ series[c.series].status = "active"
<1>1. ASSUME NEW v \in Workers, Work(v) \/ QueryFails(v) \/ WorkerDies(v)
      PROVE  c \in Held(w) \/ (/\ Claim(w) /\ c.series \in Series
                             /\ c.at = series[c.series].next
                             /\ Due(c.series))
  <2>1. CASE Claim(v)
    <3> DEFINE todo == {[series |-> s, at |-> series[s].next] :
                          s \in {d \in Series : Due(d)}}
    <3>1. claim' = [claim EXCEPT ![v] = [todo |-> todo, step |-> "next"]]
      BY <2>1, Zenon DEF Claim
    <3>2. \A d \in todo : /\ d.series \in Series /\ Due(d.series)
                         /\ d.at = series[d.series].next
      OBVIOUS
    <3> HIDE DEF todo
    <3> QED
      BY <2>1, <3>1, <3>2 DEF Held, Typed
  <2>2. ASSUME NEW d \in claim[v].todo, Look(v, d)
        PROVE  c \in Held(w)
    BY <2>2 DEF Look, Held, Typed
  <2>3. CASE Advance(v) \/ AdvanceRefused(v) \/ QueryFails(v)
    BY <2>3, RestOfClaim DEF Advance, AdvanceRefused, QueryFails
  <2>4. CASE WorkerDies(v)
    BY <2>4 DEF WorkerDies, NoClaim, Held, Typed
  <2> QED
    BY <1>1, <2>1, <2>2, <2>3, <2>4 DEF Work
<1>2. (\A v \in Workers : ~(Work(v) \/ QueryFails(v) \/ WorkerDies(v))) =>
        claim' = claim
  BY DEF Next, vars, Tick, BookOther, CancelOther, CancelOne, RescheduleOne,
         CreateSeries, Handle, UpdateCheck, UpdateCommit, CancelCheck,
         CancelFind, CancelCommit, CancelRefused
<1>3. c \in Held(w) \/ (/\ Claim(w) /\ c.series \in Series
                       /\ c.at = series[c.series].next /\ Due(c.series))
  BY <1>1, <1>2 DEF Held
<1>4. c \in Held(w) => c.series \in Series /\ Exists(c.series)
  BY ClaimFields DEF Held, Begun, Claims
<1> QED
  BY <1>3, <1>4 DEF Due, Exists

LEMMA BegunStep ==
  ASSUME Typed, Begun, [Next]_vars
  PROVE  Begun'
<1>1. ASSUME NEW s \in Series, ~Exists(s)'
      PROVE  /\ series'[s] = Absent /\ appointment'[s] = <<>>
             /\ conflicts'[s] = {}
  BY <1>1, OnlySeriesThatExistChange DEF Same, Exists, Begun
<1>2. \A h \in Requests : request'[h].step # "idle" =>
        Exists(request[h].series)'
  BY BegunRequests
<1>3. \A s \in Series : Exists(s) => series'[s].status # "absent"
  BY ExistingStay DEF Exists
<1>4. \A w \in Workers : \A c \in Held(w)' :
        series'[c.series].status # "absent"
  BY <1>3, BegunClaims
<1> QED
  BY <1>1, <1>2, <1>4 DEF Begun, Exists
-----------------------------------------------------------------------------
(* The schedule of one series: record r, rows a and conflicts c            *)

DecidedOf(a, c) == {a[i].due : i \in DOMAIN a} \cup c

\* The dates before the m-th after f.
Before(f, e, m) == {Shifted(f, e, k) : k \in 0 .. m - 1}

\* The next date is m intervals after the first one, and all of the dates
\* before it are decided; without a conflict they are those of the rows.
Until(f, r, a, c, m) ==
  /\ InCalendar(f, r.every, m)
  /\ r.next = Shifted(f, r.every, m)
  /\ DecidedOf(a, c) = Before(f, r.every, m)
  /\ c = {} =>
       /\ m = Len(a)
       /\ \A i \in DOMAIN a : a[i].due = Shifted(f, r.every, i - 1)

RegularOf(r, a, c) ==
  Regular(a[1].due, r.every) =>
    \E m \in Nat : Until(a[1].due, r, a, c, m)

InStep(r, a, c) ==
  /\ a # <<>>
  /\ r.created = Len(a)
  /\ RegularOf(r, a, c)

LEMMA KeptDates ==
  ASSUME NEW r \in SeriesRecords, NEW q \in SeriesRecords,
         NEW a \in Seq(Rows), NEW b \in Seq(Rows), NEW c \in SUBSET Nat,
         q.next = r.next, q.created = r.created, q.every = r.every,
         Len(b) = Len(a), \A i \in DOMAIN a : b[i].due = a[i].due,
         InStep(r, a, c)
  PROVE  InStep(q, b, c)
<1>1. DOMAIN b = DOMAIN a /\ DOMAIN a = 1 .. Len(a) /\ Len(a) \in Nat
  OBVIOUS
<1>2. a # <<>> /\ b # <<>> /\ b[1].due = a[1].due
  BY <1>1 DEF InStep
<1>3. DecidedOf(b, c) = DecidedOf(a, c)
  BY <1>1 DEF DecidedOf
<1>4. ASSUME NEW f, NEW m \in Nat, Until(f, r, a, c, m)
      PROVE  Until(f, q, b, c, m)
  BY <1>1, <1>3, <1>4 DEF Until
<1>5. RegularOf(q, b, c)
  BY <1>2, <1>4 DEF InStep, RegularOf
<1> QED
  BY <1>2, <1>5 DEF InStep

LEMMA CreatedDates ==
  ASSUME NEW first \in Nat, NEW e \in AnyInterval, NEW max \in Nat \ {0},
         NEW r \in SeriesRecords, NEW a \in Seq(Rows), Len(a) = max,
         InCalendar(first, e, max - 1),
         InCalendar(Shifted(first, e, max - 1), e, 1),
         \A k \in 1 .. max : a[k].due = Shifted(first, e, k - 1),
         r.every = e, r.created = max,
         r.next = Shifted(Shifted(first, e, max - 1), e, 1)
  PROVE  InStep(r, a, {})
<1>1. DOMAIN a = 1 .. max /\ a # <<>>
  OBVIOUS
<1>2. a[1].due = first
  <2>1. 1 \in 1 .. max /\ 1 - 1 = 0
    OBVIOUS
  <2>2. a[1].due = Shifted(first, e, 0)
    BY <2>1
  <2> QED
    BY <2>2, ShiftedByNothing
<1>3. ASSUME Regular(first, e)
      PROVE  Until(first, r, a, {}, max)
  <2>1. /\ InCalendar(first, e, max)
        /\ Shifted(Shifted(first, e, max - 1), e, 1) = Shifted(first, e, max)
    <3>1. ASSUME NEW j \in Nat, InCalendar(first, e, j),
                 InCalendar(Shifted(first, e, j), e, 1)
          PROVE  /\ InCalendar(first, e, j + 1)
                 /\ Shifted(Shifted(first, e, j), e, 1) =
                      Shifted(first, e, j + 1)
      BY <1>3, <3>1, ShiftedTwice
    <3>2. max - 1 \in Nat /\ (max - 1) + 1 = max
      OBVIOUS
    <3>3. /\ InCalendar(first, e, (max - 1) + 1)
          /\ Shifted(Shifted(first, e, max - 1), e, 1) =
               Shifted(first, e, (max - 1) + 1)
      BY <3>1, <3>2, Zenon
    <3> QED
      BY <3>2, <3>3
  <2>2. DecidedOf(a, {}) = Before(first, e, max)
    <3>1. ASSUME NEW i \in 1 .. max
          PROVE  a[i].due \in {Shifted(first, e, k) : k \in 0 .. max - 1}
      <4>1. i - 1 \in 0 .. max - 1 /\ a[i].due = Shifted(first, e, i - 1)
        OBVIOUS
      <4> QED
        BY <4>1, Zenon
    <3>2. ASSUME NEW k \in 0 .. max - 1
          PROVE  Shifted(first, e, k) \in {a[i].due : i \in 1 .. max}
      <4>1. k + 1 \in 1 .. max /\ (k + 1) - 1 = k
        OBVIOUS
      <4>2. a[k + 1].due = Shifted(first, e, k)
        BY <4>1
      <4> QED
        BY <4>1, <4>2, Zenon
    <3>3. {a[i].due : i \in 1 .. max} =
            {Shifted(first, e, k) : k \in 0 .. max - 1}
      BY <3>1, <3>2, Zenon
    <3> QED
      BY <1>1, <3>3 DEF DecidedOf, Before
  <2> QED
    BY <1>1, <2>1, <2>2 DEF Until
<1>4. RegularOf(r, a, {})
  BY <1>2, <1>3 DEF RegularOf
<1> QED
  BY <1>1, <1>4 DEF InStep

\* The schedule moves on from the next date, which is decided.
LEMMA GrownDates ==
  ASSUME NEW f \in Nat, NEW r \in SeriesRecords, NEW q \in SeriesRecords,
         NEW a, NEW b, NEW c, NEW d, NEW m \in Nat,
         Regular(f, r.every), Until(f, r, a, c, m),
         InCalendar(r.next, r.every, 1),
         q.next = After(r.next, r.every), q.every = r.every,
         DecidedOf(b, d) = DecidedOf(a, c) \cup {r.next}
  PROVE  /\ InCalendar(f, q.every, m + 1)
         /\ q.next = Shifted(f, q.every, m + 1)
         /\ DecidedOf(b, d) = Before(f, q.every, m + 1)
<1>1. /\ r.every \in AnyInterval /\ InCalendar(f, r.every, m)
      /\ r.next = Shifted(f, r.every, m)
      /\ DecidedOf(a, c) = Before(f, r.every, m)
  BY DEF SeriesRecords, Until
<1>2. /\ InCalendar(f, r.every, m + 1)
      /\ After(Shifted(f, r.every, m), r.every) = Shifted(f, r.every, m + 1)
  BY <1>1, AfterIsShifted
<1>3. Before(f, r.every, m + 1) =
        Before(f, r.every, m) \cup {Shifted(f, r.every, m)}
  <2>1. 0 .. (m + 1) - 1 = (0 .. m - 1) \cup {m}
    OBVIOUS
  <2> QED
    BY <2>1 DEF Before
<1> QED
  BY <1>1, <1>2, <1>3

LEMMA BookedDate ==
  ASSUME NEW r \in SeriesRecords, NEW a \in Seq(Rows), NEW c \in SUBSET Nat,
         InStep(r, a, c), InCalendar(r.next, r.every, 1)
  PROVE  InStep(Scheduled(r, FALSE), Append(a, Row(r.next)), c)
<1> DEFINE q == Scheduled(r, FALSE)
           b == Append(a, Row(r.next))
<1>1. r.next \in Nat /\ r.created \in Nat /\ r.every \in AnyInterval
  BY DEF SeriesRecords
<1>2. /\ q \in SeriesRecords /\ q.next = After(r.next, r.every)
      /\ q.created = r.created + 1 /\ q.every = r.every
  BY ScheduledRecord
<1>3. Row(r.next) \in Rows /\ Row(r.next).due = r.next
  BY <1>1 DEF Row, Rows
<1>4. /\ b \in Seq(Rows) /\ Len(b) = Len(a) + 1
      /\ DOMAIN a = 1 .. Len(a) /\ DOMAIN b = 1 .. Len(a) + 1
      /\ \A i \in 1 .. Len(a) : b[i] = a[i]
      /\ b[Len(a) + 1] = Row(r.next)
      /\ Len(a) \in Nat
  BY <1>3
<1> HIDE DEF q, b
<1>5. a # <<>> /\ Len(a) >= 1 /\ r.created = Len(a)
  BY DEF InStep
<1>6. b # <<>> /\ b[1].due = a[1].due
  BY <1>4, <1>5
<1>7. DecidedOf(b, c) = DecidedOf(a, c) \cup {r.next}
  <2>1. 1 .. Len(a) + 1 = (1 .. Len(a)) \cup {Len(a) + 1}
    BY <1>4
  <2>2. {b[i].due : i \in DOMAIN b} = {a[i].due : i \in DOMAIN a} \cup {r.next}
    BY <1>3, <1>4, <2>1
  <2> QED
    BY <2>2 DEF DecidedOf
<1> DEFINE f == a[1].due
<1>8. f \in Nat
  <2>1. a[1] \in Rows
    BY <1>5
  <2> QED
    BY <2>1 DEF Rows
<1> HIDE DEF f
<1>9. ASSUME Regular(f, r.every), NEW m \in Nat, Until(f, r, a, c, m)
      PROVE  Until(f, q, b, c, m + 1)
  <2>1. /\ InCalendar(f, q.every, m + 1)
        /\ q.next = Shifted(f, q.every, m + 1)
        /\ DecidedOf(b, c) = Before(f, q.every, m + 1)
    BY <1>2, <1>7, <1>8, <1>9, GrownDates
  <2>2. ASSUME c = {}
        PROVE  /\ m + 1 = Len(b)
               /\ \A i \in DOMAIN b : b[i].due = Shifted(f, q.every, i - 1)
    <3>1. /\ m = Len(a)
          /\ \A i \in DOMAIN a : a[i].due = Shifted(f, r.every, i - 1)
          /\ r.next = Shifted(f, r.every, m)
      BY <1>9, <2>2 DEF Until
    <3>2. b[m + 1].due = Shifted(f, q.every, m) /\ (m + 1) - 1 = m
      BY <1>2, <1>3, <1>4, <3>1
    <3> QED
      BY <1>2, <1>4, <3>1, <3>2
  <2> QED
    BY <2>1, <2>2 DEF Until
<1>10. RegularOf(q, b, c)
  <2>1. RegularOf(r, a, c)
    BY DEF InStep
  <2>2. ASSUME Regular(f, r.every)
        PROVE  \E m \in Nat : Until(f, q, b, c, m)
    <3>1. PICK m \in Nat : Until(f, r, a, c, m)
      BY <2>1, <2>2 DEF RegularOf, f
    <3>2. m + 1 \in Nat /\ Until(f, q, b, c, m + 1)
      BY <1>9, <2>2, <3>1
    <3> QED
      BY <3>2
  <2> QED
    BY <1>2, <1>6, <2>2 DEF RegularOf, f
<1> QED
  BY <1>2, <1>4, <1>5, <1>6, <1>10 DEF InStep, q, b

LEMMA ReportedDate ==
  ASSUME NEW r \in SeriesRecords, NEW a \in Seq(Rows), NEW c \in SUBSET Nat,
         InStep(r, a, c), InCalendar(r.next, r.every, 1)
  PROVE  InStep(Scheduled(r, TRUE), a, c \cup {r.next})
<1> DEFINE q == Scheduled(r, TRUE)
           d == c \cup {r.next}
<1>1. /\ q \in SeriesRecords /\ q.next = After(r.next, r.every)
      /\ q.created = r.created /\ q.every = r.every
  BY ScheduledRecord
<1>2. DecidedOf(a, d) = DecidedOf(a, c) \cup {r.next} /\ d # {}
  BY DEF DecidedOf
<1> HIDE DEF q, d
<1>3. a # <<>> /\ r.created = Len(a) /\ RegularOf(r, a, c)
  BY DEF InStep
<1> DEFINE f == a[1].due
<1>4. f \in Nat
  <2>1. a[1] \in Rows
    BY <1>3
  <2> QED
    BY <2>1 DEF Rows
<1> HIDE DEF f
<1>5. ASSUME Regular(f, r.every)
      PROVE  \E m \in Nat : Until(f, q, a, d, m)
  <2>1. PICK m \in Nat : Until(f, r, a, c, m)
    BY <1>3, <1>5 DEF RegularOf, f
  <2>2. /\ InCalendar(f, q.every, m + 1)
        /\ q.next = Shifted(f, q.every, m + 1)
        /\ DecidedOf(a, d) = Before(f, q.every, m + 1)
    BY <1>1, <1>2, <1>4, <1>5, <2>1, GrownDates
  <2>3. m + 1 \in Nat /\ Until(f, q, a, d, m + 1)
    BY <1>2, <2>2 DEF Until
  <2> QED
    BY <2>3
<1> QED
  BY <1>1, <1>3, <1>5 DEF InStep, RegularOf, q, d, f
-----------------------------------------------------------------------------
(* The schedules, with one run of the job at a time                        *)

OneRun == \A v, w \in Workers : v = w

Claimed ==
  \A w \in Workers :
    /\ \A c \in Held(w) : c.at = series[c.series].next
    /\ claim[w].step = "advance" => claim[w].current \notin claim[w].todo

\* How many occurrences the series of record r has, with the greatest maximum
\* m and l late updates.
BoundOf(r, m, l) ==
  /\ r.max <= m
  /\ r.created <= m + l + 1
  /\ r.status \notin Ended => r.created <= m + l

\* The job deals with series that may have one more.
ClaimedMayGrow ==
  \A w \in Workers : \A c \in Held(w) :
    series[c.series].created <= most[c.series] + late[c.series]

RunInv ==
  /\ Typed
  /\ Begun
  /\ Claimed
  /\ \A s \in Series : Exists(s) =>
       /\ InStep(series[s], appointment[s], conflicts[s])
       /\ BoundOf(series[s], most[s], late[s])
  /\ ClaimedMayGrow

\* A step that changes the next date or the count of a series deals with its
\* claim.
LEMMA ScheduleIsMoved ==
  ASSUME Typed, Begun, [Next]_vars, NEW s \in Series, Exists(s)
  PROVE  \/ /\ series'[s].next = series[s].next
            /\ series'[s].created = series[s].created
            /\ most'[s] + late'[s] >= most[s] + late[s]
         \/ \E v \in Workers : Advance(v) /\ claim[v].current.series = s
<1> DEFINE Kept == /\ series'[s].next = series[s].next
                   /\ series'[s].created = series[s].created
                   /\ most'[s] + late'[s] >= most[s] + late[s]
<1>0. most[s] \in Nat /\ late[s] \in Nat
  BY DEF Typed
<1>1. Same(s) => Kept
  BY <1>0 DEF Same
<1>2. ASSUME NEW i,
             CancelOne(s, i) \/ \E t \in Times : RescheduleOne(s, i, t)
      PROVE  Kept
  <2>1. UNCHANGED <<series, most, late>>
    BY <1>2, OneRowChanges
  <2> QED
    BY <1>0, <2>1
<1>3. ASSUME NEW first \in Firsts, NEW e \in Intervals, NEW max \in Sizes,
             CreateSeries(s, first, e, max)
      PROVE  FALSE
  BY <1>3 DEF CreateSeries
<1>4. ASSUME NEW h \in Requests, UpdateCommit(h), request[h].series = s
      PROVE  Kept
  <2> DEFINE r == [series[s] EXCEPT
                    ![request[h].change.field] = request[h].change.to]
  <2>1. /\ request[h].change \in Changes
        /\ series' = [series EXCEPT ![s] = r]
        /\ most'[s] >= most[s] /\ most' \in [Series -> Nat]
        /\ late'[s] =
             IF series[s].status \in Ended THEN late[s] + 1 ELSE late[s]
    BY <1>4, Updated
  <2>2. r.next = series[s].next /\ r.created = series[s].created
    BY <2>1, UpdatedRecord DEF Typed
  <2> HIDE DEF r
  <2>3. series'[s] = r /\ most'[s] \in Nat
    BY <2>1 DEF Typed
  <2> QED
    BY <1>0, <2>1, <2>2, <2>3
<1>5. ASSUME NEW h \in Requests, CancelCommit(h), request[h].series = s
      PROVE  Kept
  <2>1. /\ series'[s] = [series[s] EXCEPT !.status = "cancelled"]
        /\ series[s] \in SeriesRecords /\ UNCHANGED <<most, late>>
    BY <1>5 DEF CancelCommit, Typed
  <2> QED
    BY <1>0, <2>1 DEF SeriesRecords
<1> QED
  BY <1>1, <1>2, <1>3, <1>4, <1>5, ChangesOf

\* What the job still holds is not what it has just dealt with.
LEMMA DealtWith ==
  ASSUME OneRun, Typed, Claimed, NEW v \in Workers, Advance(v),
         NEW w \in Workers, NEW c \in Held(w)', c \in Held(w)
  PROVE  c.series # claim[v].current.series
<1> SUFFICES ASSUME c.series = claim[v].current.series PROVE FALSE
  OBVIOUS
<1> DEFINE d == claim[v].current
<1>1. v = w
  BY DEF OneRun
<1>2. /\ claim[v].step = "advance" /\ d \in Claims /\ d \in Held(v)
      /\ d \notin claim[v].todo /\ claim[v].todo \subseteq Claims
  BY ClaimFields DEF Advance, Held, Claimed
<1>3. c \in claim[v].todo
  BY <1>1, RestOfClaim DEF Advance
<1>4. d.at = series[d.series].next /\ c.at = series[c.series].next
  BY <1>2 DEF Claimed
<1>5. c = d
  BY <1>2, <1>3, <1>4 DEF Claims
<1> QED
  BY <1>2, <1>3, <1>5

LEMMA ClaimedStep ==
  ASSUME OneRun, RunInv, [Next]_vars
  PROVE  Claimed' /\ ClaimedMayGrow'
<1> USE DEF RunInv
<1>1. ASSUME NEW w \in Workers, NEW c \in Held(w)'
      PROVE  /\ c.at = series'[c.series].next
             /\ series'[c.series].created <=
                  most'[c.series] + late'[c.series]
  <2>1. /\ c.series \in Series /\ Exists(c.series)
        /\ \/ c \in Held(w)
           \/ /\ Claim(w) /\ c.at = series[c.series].next
              /\ series[c.series].status = "active"
    BY <1>1, BegunClaims
  <2>2. /\ c.at = series[c.series].next
        /\ series[c.series].created <= most[c.series] + late[c.series]
    BY <2>1 DEF Claimed, ClaimedMayGrow, BoundOf, Ended
  <2>3. CASE /\ series'[c.series].next = series[c.series].next
             /\ series'[c.series].created = series[c.series].created
             /\ most'[c.series] + late'[c.series] >=
                  most[c.series] + late[c.series]
    <3>1. /\ series[c.series].created \in Nat
          /\ most[c.series] + late[c.series] \in Nat
          /\ most'[c.series] + late'[c.series] \in Nat
      <4>1. Typed'
        BY TypedStep
      <4>2. /\ series[c.series] \in SeriesRecords
            /\ most[c.series] \in Nat /\ late[c.series] \in Nat
            /\ most'[c.series] \in Nat /\ late'[c.series] \in Nat
        BY <2>1, <4>1 DEF Typed
      <4> QED
        BY <4>2 DEF SeriesRecords
    <3> QED
      BY <2>2, <2>3, <3>1
  <2>4. ASSUME NEW v \in Workers, Advance(v),
               claim[v].current.series = c.series
        PROVE  FALSE
    <3>1. claim[v].step = "advance" /\ ~Claim(w)
      BY <2>4 DEF Advance, Claim, OneRun, NoClaim
    <3> QED
      BY <1>1, <2>1, <2>4, <3>1, DealtWith
  <2> QED
    BY <2>1, <2>3, <2>4, ScheduleIsMoved
<1>2. ASSUME NEW w \in Workers, claim'[w].step = "advance"
      PROVE  claim'[w].current \notin claim'[w].todo
  <2>1. ASSUME NEW v \in Workers, NEW d \in claim[v].todo, Look(v, d)
        PROVE  claim'[w].current \notin claim'[w].todo
    BY <1>2, <2>1 DEF Look, Claimed, Typed
  <2>2. ASSUME NEW v \in Workers, Rest(v)
        PROVE  claim'[w].current \notin claim'[w].todo
    BY <1>2, <2>2, RestOfClaim DEF Claimed
  <2>3. ASSUME NEW v \in Workers, Claim(v) \/ WorkerDies(v)
        PROVE  claim'[w] = claim[w]
    BY <1>2, <2>3 DEF Claim, WorkerDies, NoClaim, Typed
  <2>4. \/ claim' = claim
        \/ \E v \in Workers :
             \/ Rest(v) \/ Claim(v) \/ WorkerDies(v)
             \/ \E d \in claim[v].todo : Look(v, d)
    BY DEF Next, vars, Tick, BookOther, CancelOther, CancelOne, RescheduleOne,
           CreateSeries, Handle, UpdateCheck, UpdateCommit, CancelCheck,
           CancelFind, CancelCommit, CancelRefused, Work, Advance,
           AdvanceRefused, QueryFails
  <2> QED
    BY <1>2, <2>1, <2>2, <2>3, <2>4 DEF Claimed
<1> QED
  BY <1>1, <1>2 DEF Claimed, ClaimedMayGrow

\* The step of one series: of the others nothing changes.
LEMMA BoundStays ==
  ASSUME NEW r \in SeriesRecords, NEW q \in SeriesRecords,
         NEW m \in Nat, NEW l \in Nat,
         r.max <= m, r.created <= m + l, q.max = r.max,
         q.created \in {r.created, r.created + 1},
         q.status \notin Ended => q.created < r.max
  PROVE  BoundOf(q, m, l)
<1>1. r.created \in Nat /\ r.max \in Nat /\ q.created \in Nat
  BY DEF SeriesRecords
<1>2. q.max <= m
  OBVIOUS
<1>3. q.created <= m + l + 1
  BY <1>1
<1>4. q.status \notin Ended => q.created <= m + l
  BY <1>1
<1> QED
  BY <1>2, <1>3, <1>4 DEF BoundOf

LEMMA InStepStep ==
  ASSUME OneRun, RunInv, [Next]_vars, Typed', NEW s \in Series, Exists(s)'
  PROVE  /\ InStep(series'[s], appointment'[s], conflicts'[s])
         /\ BoundOf(series'[s], most'[s], late'[s])
<1> USE DEF RunInv
<1> DEFINE Goal == /\ InStep(series'[s], appointment'[s], conflicts'[s])
                   /\ BoundOf(series'[s], most'[s], late'[s])
<1>0. /\ series[s] \in SeriesRecords /\ series'[s] \in SeriesRecords
      /\ appointment[s] \in Seq(Rows) /\ appointment'[s] \in Seq(Rows)
      /\ conflicts[s] \in SUBSET Nat
      /\ most[s] \in Nat /\ late[s] \in Nat
      /\ most'[s] \in Nat /\ late'[s] \in Nat
      /\ series[s].created \in Nat /\ series[s].max \in Nat
  BY DEF Typed, SeriesRecords
<1>1. CASE Same(s)
  BY <1>1 DEF Same, Exists
<1>2. ASSUME NEW i,
             CancelOne(s, i) \/ \E t \in Times : RescheduleOne(s, i, t)
      PROVE  Goal
  <2>1. /\ UNCHANGED <<series, conflicts, most, late>>
        /\ Len(appointment'[s]) = Len(appointment[s])
        /\ \A j \in DOMAIN appointment[s] :
             appointment'[s][j].due = appointment[s][j].due
    BY <1>2, OneRowChanges
  <2>2. /\ InStep(series[s], appointment[s], conflicts[s])
        /\ BoundOf(series[s], most[s], late[s])
    BY <2>1 DEF Exists
  <2>3. InStep(series'[s], appointment'[s], conflicts[s])
    BY <1>0, <2>1, <2>2, KeptDates
  <2> QED
    BY <2>1, <2>2, <2>3
<1>3. ASSUME NEW first \in Firsts, NEW e \in Intervals, NEW max \in Sizes,
             CreateSeries(s, first, e, max)
      PROVE  Goal
  <2> DEFINE a == NewRows(first, e, max)
             r == NewRecord(first, e, max)
  <2>1. /\ first \in Nat /\ e \in AnyInterval /\ max \in Nat \ {0}
        /\ InCalendar(first, e, max - 1)
        /\ InCalendar(Shifted(first, e, max - 1), e, 1)
        /\ a \in Seq(Rows) /\ Len(a) = max /\ r \in SeriesRecords
        /\ \A k \in 1 .. max : a[k].due = Shifted(first, e, k - 1)
    BY <1>3, NewSeries
  <2>2. /\ ~Exists(s)
        /\ series' = [series EXCEPT ![s] = r]
        /\ appointment' = [appointment EXCEPT ![s] = a]
        /\ most' = [most EXCEPT ![s] = max]
        /\ UNCHANGED <<conflicts, late>>
    BY <1>3, NewSeries
  <2>3. /\ r.every = e /\ r.created = max /\ r.max = max
        /\ r.next = Shifted(Shifted(first, e, max - 1), e, 1)
    BY DEF NewRecord
  <2> HIDE DEF a, r
  <2>4. InStep(r, a, {})
    BY <2>1, <2>3, CreatedDates
  <2>5. /\ series'[s] = r /\ appointment'[s] = a /\ conflicts'[s] = {}
        /\ most'[s] = max
    BY <2>2 DEF Typed, Begun
  <2>6. BoundOf(r, max, late'[s])
    BY <1>0, <2>1, <2>3 DEF BoundOf
  <2> QED
    BY <2>4, <2>5, <2>6
<1>4. ASSUME NEW h \in Requests, UpdateCommit(h), request[h].series = s
      PROVE  Goal
  <2> DEFINE change == request[h].change
             r == [series[s] EXCEPT ![change.field] = change.to]
  <2>1. /\ change \in Changes
        /\ series' = [series EXCEPT ![s] = r]
        /\ most'[s] >= most[s]
        /\ change.field = "max" => most'[s] >= change.to
        /\ late'[s] =
             IF series[s].status \in Ended THEN late[s] + 1 ELSE late[s]
        /\ UNCHANGED <<appointment, conflicts>>
    BY <1>4, Updated
  <2>2. Exists(s)
    BY <1>4 DEF UpdateCommit, Begun
  <2>3. /\ r \in SeriesRecords /\ r.next = series[s].next
        /\ r.created = series[s].created /\ r.every = series[s].every
        /\ r.max = IF change.field = "max" THEN change.to ELSE series[s].max
    BY <1>0, <2>1, UpdatedRecord
  <2> HIDE DEF r, change
  <2>4. series'[s] = r /\ InStep(series[s], appointment[s], conflicts[s])
    BY <2>1, <2>2 DEF Typed
  <2>5. InStep(r, appointment[s], conflicts[s])
    BY <1>0, <2>3, <2>4, KeptDates
  <2>6. BoundOf(series[s], most[s], late[s])
    BY <2>2
  <2>7. BoundOf(r, most'[s], late'[s])
    <3>1. r.max <= most'[s]
      BY <1>0, <2>1, <2>3, <2>6 DEF BoundOf
    <3>2. r.created <= most'[s] + late'[s]
      BY <1>0, <2>1, <2>3, <2>6 DEF BoundOf
    <3> QED
      BY <1>0, <2>3, <3>1, <3>2 DEF BoundOf
  <2> QED
    BY <2>1, <2>4, <2>5, <2>7
<1>5. ASSUME NEW h \in Requests, CancelCommit(h), request[h].series = s
      PROVE  Goal
  <2>1. /\ Exists(s)
        /\ series'[s] = [series[s] EXCEPT !.status = "cancelled"]
        /\ UNCHANGED <<appointment, conflicts, most, late>>
    BY <1>5 DEF CancelCommit, Begun, Typed
  <2>2. /\ series'[s].next = series[s].next
        /\ series'[s].created = series[s].created
        /\ series'[s].every = series[s].every
        /\ series'[s].max = series[s].max
        /\ series'[s].status = "cancelled"
    BY <1>0, <2>1 DEF SeriesRecords
  <2>3. InStep(series'[s], appointment[s], conflicts[s])
    BY <1>0, <2>1, <2>2, KeptDates
  <2>4. BoundOf(series'[s], most[s], late[s])
    BY <2>1, <2>2 DEF BoundOf, Ended
  <2> QED
    BY <2>1, <2>3, <2>4
<1>6. ASSUME NEW w \in Workers, Advance(w), claim[w].current.series = s
      PROVE  Goal
  <2> DEFINE c == claim[w].current
             taken == claim[w].taken
  <2>1. /\ c \in Held(w) /\ taken \in BOOLEAN
        /\ InCalendar(series[s].next, series[s].every, 1)
        /\ series'[s] = Scheduled(series[s], taken)
        /\ taken => /\ conflicts'[s] = conflicts[s] \cup {c.at}
                    /\ appointment'[s] = appointment[s]
        /\ ~taken => /\ conflicts'[s] = conflicts[s]
                     /\ appointment'[s] = Append(appointment[s], Row(c.at))
        /\ UNCHANGED <<most, late>>
    BY <1>6, Advanced
  <2>2. Exists(s) /\ c.at = series[s].next
        /\ series[s].created <= most[s] + late[s]
    BY <1>6, <2>1 DEF Begun, Claimed, ClaimedMayGrow
  <2>3. InStep(series[s], appointment[s], conflicts[s])
        /\ series[s].max <= most[s]
    BY <2>2 DEF BoundOf
  <2> HIDE DEF c, taken
  <2>4. InStep(series'[s], appointment'[s], conflicts'[s])
    <3>1. CASE taken = TRUE
      <4>1. series'[s] = Scheduled(series[s], TRUE)
        BY <2>1, <3>1, Zenon
      <4>2. InStep(Scheduled(series[s], TRUE), appointment[s],
                   conflicts[s] \cup {series[s].next})
        BY <1>0, <2>1, <2>3, ReportedDate
      <4> QED
        BY <2>1, <2>2, <3>1, <4>1, <4>2
    <3>2. CASE taken = FALSE
      <4>1. series'[s] = Scheduled(series[s], FALSE)
        BY <2>1, <3>2, Zenon
      <4>2. InStep(Scheduled(series[s], FALSE),
                   Append(appointment[s], Row(series[s].next)), conflicts[s])
        BY <1>0, <2>1, <2>3, BookedDate
      <4> QED
        BY <2>1, <2>2, <3>2, <4>1, <4>2
    <3> QED
      BY <2>1, <3>1, <3>2
  <2>5. BoundOf(series'[s], most'[s], late'[s])
    <3>1. /\ series'[s].max = series[s].max
          /\ series'[s].created =
               IF taken THEN series[s].created ELSE series[s].created + 1
          /\ series'[s].status \notin Ended =>
               series'[s].created < series[s].max
      BY <1>0, <2>1, ScheduledRecord
    <3>2. series'[s].created \in {series[s].created, series[s].created + 1}
      BY <3>1
    <3>3. most'[s] = most[s] /\ late'[s] = late[s]
      BY <2>1
    <3> QED
      BY <1>0, <2>2, <2>3, <3>1, <3>2, <3>3, BoundStays, Zenon
  <2> QED
    BY <2>4, <2>5
<1> QED
  BY <1>1, <1>2, <1>3, <1>4, <1>5, <1>6, ChangesOf

LEMMA RunInvariant == ASSUME OneRun PROVE Spec => []RunInv
<1>1. Init => RunInv
  <2> SUFFICES ASSUME Init PROVE RunInv
    OBVIOUS
  <2>1. Typed
    BY InitTyped
  <2>2. Begun /\ Claimed /\ ClaimedMayGrow
    BY DEF Init, Begun, NoRequest, Claimed, ClaimedMayGrow, Held, NoClaim
  <2>3. \A s \in Series : ~Exists(s)
    BY DEF Init, Exists, Absent
  <2> QED
    BY <2>1, <2>2, <2>3 DEF RunInv
<1>2. RunInv /\ [Next]_vars => RunInv'
  <2> SUFFICES ASSUME RunInv, [Next]_vars PROVE RunInv'
    OBVIOUS
  <2>1. Typed' /\ Begun'
    BY TypedStep, BegunStep DEF RunInv
  <2>2. Claimed' /\ ClaimedMayGrow'
    BY ClaimedStep
  <2>3. \A s \in Series : Exists(s)' =>
          /\ InStep(series'[s], appointment'[s], conflicts'[s])
          /\ BoundOf(series'[s], most'[s], late'[s])
    BY <2>1, InStepStep
  <2> QED
    BY <2>1, <2>2, <2>3 DEF RunInv
<1> QED
  BY <1>1, <1>2, PTL DEF Spec

\* What the invariant says of the first date.
LEMMA FirstDate ==
  ASSUME RunInv, NEW s \in Series, Exists(s)
  PROVE  /\ series[s].next \in Nat /\ series[s].every \in AnyInterval
         /\ First(s) \in Nat
         /\ DOMAIN appointment[s] = 1 .. series[s].created
         /\ series[s].created = Len(appointment[s])
         /\ IsRegular(s) =>
              /\ Regular(First(s), series[s].every)
              /\ \E m \in Nat : Until(First(s), series[s], appointment[s],
                                      conflicts[s], m)
<1>1. /\ appointment[s] # <<>> /\ series[s].created = Len(appointment[s])
      /\ RegularOf(series[s], appointment[s], conflicts[s])
  BY DEF RunInv, InStep
<1>2. series[s] \in SeriesRecords /\ appointment[s] \in Seq(Rows)
  BY DEF RunInv, Typed
<1>3. First(s) \in Nat
  <2>1. appointment[s][1] \in Rows
    BY <1>1, <1>2
  <2> QED
    BY <2>1 DEF Rows, First
<1>4. DOMAIN appointment[s] = 1 .. series[s].created
  BY <1>1, <1>2
<1>5. series[s].next \in Nat /\ series[s].every \in AnyInterval
  BY <1>2 DEF SeriesRecords
<1>6. IsRegular(s) =>
        /\ Regular(First(s), series[s].every)
        /\ \E m \in Nat : Until(First(s), series[s], appointment[s],
                                conflicts[s], m)
  BY <1>1 DEF IsRegular, RegularOf, First
<1> QED
  BY <1>1, <1>3, <1>4, <1>5, <1>6

(* With one run of the job at a time, for every calendar, every interval   *)
(* and every mix of requests, moved appointments and faults: as many       *)
(* occurrences are counted as there are rows, and the dates that the       *)
(* dashboard works out of a regular series without a conflict are those of *)
(* its rows that were not moved by themselves.                             *)
THEOREM DatesShownWereBooked == ASSUME OneRun PROVE Spec => []ShownWereBooked
<1>1. ASSUME RunInv, NEW s \in Series, Exists(s)
      PROVE  /\ series[s].created = Len(appointment[s])
             /\ IsRegular(s) /\ conflicts[s] = {} =>
                  \A i \in DOMAIN appointment[s] :
                    appointment[s][i].at = appointment[s][i].due =>
                      ShownDates(s)[i] = appointment[s][i].at
  <2> DEFINE f == First(s)
             e == series[s].every
  <2>1. /\ series[s].created = Len(appointment[s]) /\ f \in Nat
        /\ DOMAIN appointment[s] = 1 .. series[s].created
        /\ e \in AnyInterval
    BY <1>1, FirstDate
  <2>2. ASSUME IsRegular(s), conflicts[s] = {},
               NEW i \in DOMAIN appointment[s],
               appointment[s][i].at = appointment[s][i].due
        PROVE  ShownDates(s)[i] = appointment[s][i].at
    <3>1. PICK m \in Nat :
            Until(f, series[s], appointment[s], conflicts[s], m)
      BY <1>1, <2>2, FirstDate
    <3>2. /\ Regular(f, e) /\ InCalendar(f, e, m)
          /\ series[s].next = Shifted(f, e, m)
          /\ m = series[s].created
          /\ appointment[s][i].due = Shifted(f, e, i - 1)
      BY <1>1, <2>1, <2>2, <3>1, FirstDate DEF Until
    <3>3. ShownDates(s)[i] =
            Shifted(series[s].next, e, i - series[s].created - 1)
      BY <2>1, <2>2 DEF ShownDates
    <3> HIDE DEF f, e
    <3>4. i \in Int /\ i - m - 1 \in Int /\ m + (i - m - 1) = i - 1
      BY <2>1, <2>2, <3>2
    <3>5. Shifted(Shifted(f, e, m), e, i - m - 1) =
            Shifted(f, e, m + (i - m - 1))
      BY <2>1, <3>2, <3>4, ShiftedTwice
    <3> QED
      BY <2>2, <3>2, <3>3, <3>4, <3>5
  <2> QED
    BY <2>1, <2>2
<1>2. RunInv => ShownWereBooked
  <2> SUFFICES ASSUME RunInv, NEW s \in Series, ~Exists(s)
               PROVE  /\ series[s].created = Len(appointment[s])
                      /\ ~IsRegular(s)
    BY <1>1 DEF ShownWereBooked
  <2>1. series[s].created = 0 /\ appointment[s] = <<>>
    BY DEF RunInv, Begun, Absent
  <2> QED
    BY <2>1 DEF IsRegular
<1> QED
  BY <1>2, RunInvariant, PTL

(* With one run of the job at a time, each date before the next one that   *)
(* is some number of days, or of months, after the first one of a regular  *)
(* series was booked or reported as a conflict, and no other date was.     *)
THEOREM NoDateIsSkipped == ASSUME OneRun PROVE Spec => []NoneIsSkipped
<1>1. RunInv => NoneIsSkipped
  <2> SUFFICES ASSUME RunInv, NEW s \in Series, IsRegular(s)
               PROVE  Decided(s) = ScheduleOf(s)
    BY DEF NoneIsSkipped
  <2> DEFINE f == First(s)
             e == series[s].every
             next == series[s].next
  <2>1. Exists(s) /\ f \in Nat /\ e \in AnyInterval /\ next \in Nat
        /\ Regular(f, e)
    BY FirstDate DEF IsRegular
  <2>2. PICK m \in Nat :
          /\ InCalendar(f, e, m) /\ next = Shifted(f, e, m)
          /\ Decided(s) = Before(f, e, m)
    <3>1. PICK m \in Nat :
            Until(f, series[s], appointment[s], conflicts[s], m)
      BY <2>1, FirstDate
    <3> QED
      BY <3>1 DEF Until, DecidedOf, Decided
  <2>3. ScheduleOf(s) = {t \in f .. next - 1 : OnSchedule(t, f, e)}
    BY DEF ScheduleOf
  <2> HIDE DEF f, e, next
  <2>4. ASSUME NEW k \in 0 .. m - 1
        PROVE  /\ Shifted(f, e, k) \in f .. next - 1
               /\ OnSchedule(Shifted(f, e, k), f, e)
    <3>1. InCalendar(f, e, k) /\ InCalendar(f, e, 0) /\ Shifted(f, e, 0) = f
      BY <2>1, <2>2, InsideCalendar, ShiftedByNothing
    <3>2. Shifted(f, e, k) \in Nat
      BY <2>1, <3>1, ShiftedIsDate
    <3>3. Shifted(f, e, k) < next
      BY <2>1, <2>2, <3>1, ShiftedGrows
    <3>4. k = 0 \/ f < Shifted(f, e, k)
      <4>1. k # 0 => Shifted(f, e, 0) < Shifted(f, e, k)
        BY <2>1, <3>1, ShiftedGrows
      <4> QED
        BY <3>1, <4>1
    <3>5. OnSchedule(Shifted(f, e, k), f, e)
      BY <2>1, <3>1, <3>2, OnScheduleIsShifted
    <3>6. f <= Shifted(f, e, k)
      BY <2>1, <3>1, <3>2, <3>4
    <3> QED
      BY <2>1, <3>2, <3>3, <3>5, <3>6
  <2>5. ASSUME NEW t \in f .. next - 1, OnSchedule(t, f, e)
        PROVE  \E k \in 0 .. m - 1 : t = Shifted(f, e, k)
    <3>1. t \in Nat
      BY <2>1
    <3>2. PICK k \in Int : InCalendar(f, e, k) /\ t = Shifted(f, e, k)
      BY <2>1, <2>5, <3>1, OnScheduleIsShifted
    <3>3. ~(m < k) /\ m # k
      BY <2>1, <2>2, <3>1, <3>2, ShiftedGrows
    <3>4. ~(k < 0)
      <4>1. InCalendar(f, e, 0) /\ Shifted(f, e, 0) = f
        BY <2>1, ShiftedByNothing
      <4>2. k < 0 => t < f
        BY <2>1, <3>2, <4>1, ShiftedGrows
      <4> QED
        BY <2>1, <3>1, <4>2
    <3>5. k \in 0 .. m - 1
      BY <3>3, <3>4
    <3> QED
      BY <3>2, <3>5
  <2>6. ASSUME NEW t, t \in Decided(s)
        PROVE  t \in ScheduleOf(s)
    <3>1. PICK k \in 0 .. m - 1 : t = Shifted(f, e, k)
      BY <2>2, <2>6, Zenon DEF Before
    <3>2. t \in f .. next - 1 /\ OnSchedule(t, f, e)
      BY <2>4, <3>1, Zenon
    <3> QED
      BY <2>3, <3>2, Zenon
  <2>7. ASSUME NEW t, t \in ScheduleOf(s)
        PROVE  t \in Decided(s)
    <3>1. t \in f .. next - 1 /\ OnSchedule(t, f, e)
      BY <2>3, <2>7, Zenon
    <3>2. PICK k \in 0 .. m - 1 : t = Shifted(f, e, k)
      BY <2>5, <3>1, Zenon
    <3> QED
      BY <2>2, <3>2, Zenon DEF Before
  <2> QED
    BY <2>6, <2>7, Zenon
<1> QED
  BY <1>1, RunInvariant, PTL

(* With one run of the job at a time, a series has at most one occurrence  *)
(* more than the greatest maximum it has had, and one more for each update *)
(* that was written after its end, however many requests and faults there  *)
(* are.                                                                    *)
THEOREM MaximumIsKept == ASSUME OneRun PROVE Spec => []WithinMaximum
<1>1. RunInv => WithinMaximum
  <2> SUFFICES ASSUME RunInv, NEW s \in Series
               PROVE  Len(appointment[s]) <= most[s] + late[s] + 1
    BY DEF WithinMaximum
  <2>1. most[s] \in Nat /\ late[s] \in Nat
    BY DEF RunInv, Typed
  <2>2. CASE Exists(s)
    BY <2>1, <2>2 DEF RunInv, InStep, BoundOf
  <2>3. CASE ~Exists(s)
    <3>1. Len(appointment[s]) = 0
      BY <2>3 DEF RunInv, Begun
    <3> QED
      BY <2>1, <3>1
  <2> QED
    BY <2>2, <2>3
<1> QED
  BY <1>1, RunInvariant, PTL
=============================================================================
