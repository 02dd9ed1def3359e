-------------------------- MODULE Customers_proofs ---------------------------
(***************************************************************************)
(* Proofs about Customers, for every finite set of appointments, any past, *)
(* and any number of runs, handlers, links and steps.                      *)
(*                                                                         *)
(* None of the properties is inductive.  What each of them rests on is an  *)
(* invariant of its own, below, beside the types of the variables.         *)
(***************************************************************************)
EXTENDS Customers, FiniteSetTheorems, SequenceTheorems, TLAPS

EventRow ==
  [type : Finished, appointment : Appointments,
   step : {"waiting", "read", "written", "done"},
   missed : Nat, came : Nat, link : Nat]

CustomerRow ==
  [level : Levels, deposit : BOOLEAN, optOut : BOOLEAN, token : Nat,
   contacted : {"never", "recent", "passed"},
   seen : {"never", "recent", "away"}]

RunState ==
  {Idle} \cup [step : {"claimed"}] \cup [step : {"sent"}, link : Nat]

Invitation == [link : Nat \ {0}, appointment : Appointments, stored : BOOLEAN]

Payments == {"none", "submitted", "confirmed"} \cup Closed
LinkStates == {"none", "valid", "expired", "used", "reused"}

PaymentRequest == [step : {"payment"}, of : Appointments, next : Payments]
ReviewRequest == [step : {"review"}, of : Appointments, next : 1..2]
LinkRequest == [step : {"link"}, of : 1..MaxLinks]
RequestState == {Idle} \cup PaymentRequest \cup ReviewRequest \cup LinkRequest

TypeOK ==
  /\ status \in [Appointments -> Finished \cup {"confirmed", "cancelled"}]
  /\ customer \in CustomerRow
  /\ events \in Seq(EventRow) /\ holder \in {Nobody} \cup DOMAIN events
  /\ settled \in BOOLEAN
  /\ run \in [Runs -> RunState]
  /\ letters \in Seq(Nat \cup {Refused}) /\ cooldowns \in Nat
  /\ review \in [Appointments -> [link : Nat, rating : 0..2]]
  /\ invitations \subseteq Invitation /\ IsFiniteSet(invitations)
  /\ payment \in [Appointments -> Payments]
  /\ link \in [1..MaxLinks -> LinkStates]
  /\ request \in [Handlers -> RequestState] /\ alone \in BOOLEAN
  /\ steps \in Nat

\* The row of the customer is held by the handler that has written it.
RowIsHeld ==
  \A i \in DOMAIN events : events[i].step = "written" <=> holder = i

\* What is calculated agrees with the attendance.
Fits ==
  /\ customer.deposit <=> Missed > Came
  /\ customer.level = "low" <=> Missed = 0

\* While the risk is settled, one handler works at a time, and the risk is
\* right, or will be: an event waits, or the handler at work has read what the
\* attendance still is.  That the risk is right now says nothing of what a
\* handler at work will make of it.
WillFit ==
  settled =>
    /\ \A i, j \in DOMAIN events : Working(i) /\ Working(j) => i = j
    /\ \/ \E i \in DOMAIN events : events[i].step = "waiting"
       \/ \E i \in DOMAIN events :
            Working(i) /\ events[i].missed = Missed /\ events[i].came = Came
       \/ Fits /\ \A i \in DOMAIN events : ~Working(i)

\* A mail of the current cooldown was sent, or is about to be, for the one
\* claim of this cooldown.
OneClaim ==
  /\ \A l \in DOMAIN letters : letters[l] <= cooldowns
  /\ \A l \in DOMAIN letters :
       letters[l] = cooldowns => customer.contacted = "recent"
  /\ \A r \in Runs : run[r].step = "claimed" =>
       /\ customer.contacted = "recent"
       /\ \A l \in DOMAIN letters : letters[l] # cooldowns
       /\ \A q \in Runs : run[q].step = "claimed" => q = r

\* Links are numbered, and what the handler that holds the row is to store
\* was mailed for an appointment that has no review yet.
LinksAreNew ==
  /\ \A v \in invitations : v.link <= Cardinality(invitations)
  /\ \A v, w \in invitations : v.link = w.link => v = w
  /\ \A a \in Appointments : review[a].link <= Cardinality(invitations)
  /\ \A i \in DOMAIN events :
       events[i].step = "written" /\ events[i].link # 0 =>
         /\ events[i].link <= Cardinality(invitations)
         /\ review[events[i].appointment].link = 0
         /\ \A v \in invitations :
              v.link = events[i].link => v.appointment = events[i].appointment

\* Only what has a link is reviewed.
ReviewedByLink ==
  /\ \A a \in Appointments : review[a].rating # 0 => review[a].link # 0
  /\ \A h \in Handlers :
       request[h].step = "review" => review[request[h].of].link # 0

\* While no two requests have worked on one thing together, what a request
\* has found is still so.
FoundIsSo ==
  alone =>
    /\ \A g, h \in Handlers :
         request[g] # Idle /\ request[h] # Idle /\ g # h =>
           request[g].step # request[h].step \/ request[g].of # request[h].of
    /\ \A h \in Handlers :
         /\ request[h].step = "payment" =>
              payment[request[h].of] \notin Closed \cup {"none"}
         /\ request[h].step = "review" => review[request[h].of].rating = 0
         /\ request[h].step = "link" =>
              link[request[h].of] \in {"valid", "expired"}
    /\ \A l \in 1..MaxLinks : link[l] # "reused"
-----------------------------------------------------------------------------
(* Types                                                                   *)

LEMMA Appended ==
  ASSUME NEW S, NEW s \in Seq(S), NEW e \in S
  PROVE  /\ Append(s, e) \in Seq(S)
         /\ Len(s) + 1 \notin DOMAIN s
         /\ DOMAIN Append(s, e) = DOMAIN s \cup {Len(s) + 1}
         /\ Append(s, e)[Len(s) + 1] = e
         /\ \A i \in DOMAIN s : Append(s, e)[i] = s[i]
<1>1. Len(s) \in Nat /\ DOMAIN s = 1..Len(s)
  BY LenProperties
<1>2. /\ Append(s, e) \in Seq(S) /\ Len(Append(s, e)) = Len(s) + 1
      /\ \A i \in 1..Len(s) : Append(s, e)[i] = s[i]
      /\ Append(s, e)[Len(s) + 1] = e
  OBVIOUS
<1>3. DOMAIN Append(s, e) = 1..(Len(s) + 1)
  BY <1>2, LenProperties
<1> QED
  BY <1>1, <1>2, <1>3

LEMMA Replaced ==
  ASSUME NEW S, NEW s \in Seq(S), NEW i \in DOMAIN s, NEW e \in S
  PROVE  /\ [s EXCEPT ![i] = e] \in Seq(S)
         /\ DOMAIN [s EXCEPT ![i] = e] = DOMAIN s
         /\ \A j \in DOMAIN s : [s EXCEPT ![i] = e][j] = IF j = i THEN e ELSE s[j]
<1>1. DOMAIN s = 1..Len(s)
  BY LenProperties
<1> QED
  BY <1>1, ExceptSeq

LEMMA ElementOf ==
  ASSUME NEW S, NEW s \in Seq(S), NEW i \in DOMAIN s
  PROVE  s[i] \in S
  BY LenProperties, ElementOfSeq

\* The events after one is added.
Added(e) ==
  \E n : /\ n \notin DOMAIN events /\ n # Nobody
         /\ DOMAIN events' = DOMAIN events \cup {n} /\ events'[n] = e
         /\ \A i \in DOMAIN events : events'[i] = events[i]

\* The events after one of them is changed.
Changed(i, e) ==
  /\ DOMAIN events' = DOMAIN events
  /\ \A j \in DOMAIN events : events'[j] = IF j = i THEN e ELSE events[j]

LEMMA EventAdded ==
  ASSUME TypeOK, NEW e \in EventRow, events' = Append(events, e)
  PROVE  events' \in Seq(EventRow) /\ Added(e)
<1>1. events \in Seq(EventRow)
  BY DEF TypeOK
<1>2. Len(events) \in Nat
  BY <1>1, LenProperties
<1>3. Len(events) + 1 # Nobody
  BY <1>2 DEF Nobody
<1> QED
  BY <1>1, <1>3, Appended DEF Added

LEMMA EventChanged ==
  ASSUME TypeOK, NEW i \in DOMAIN events, NEW e \in EventRow,
         events' = [events EXCEPT ![i] = e]
  PROVE  events' \in Seq(EventRow) /\ Changed(i, e)
<1>1. events \in Seq(EventRow)
  BY DEF TypeOK
<1> QED
  BY <1>1, Replaced DEF Changed

LEMMA EventTyped ==
  ASSUME TypeOK, NEW i \in DOMAIN events
  PROVE  events[i] \in EventRow /\ i # Nobody
<1>1. events \in Seq(EventRow)
  BY DEF TypeOK
<1>2. i \in 1..Len(events)
  BY <1>1, LenProperties
<1>3. i # Nobody
  BY <1>2 DEF Nobody
<1> QED
  BY <1>1, <1>3, ElementOf

LEMMA CountTyped ==
  ASSUME NEW s
  PROVE  Count(s) \in Nat
<1>1. IsFiniteSet({a \in Appointments : status[a] = s})
  BY AppointmentsAssumption, FS_Subset
<1> QED
  BY <1>1, FS_CardinalityType DEF Count

LEMMA AttendanceTyped == Missed \in Nat /\ Came \in Nat
  BY CountTyped, PastAssumption DEF Missed, Came

LEMMA RiskTyped ==
  ASSUME NEW m \in Nat
  PROVE  RiskLevel(m) \in Levels /\ (RiskLevel(m) = "low" <=> m = 0)
  BY DEF RiskLevel, Levels

\* What the handlers of events do to their event, the row and the mails.
LEMMA StoredTyped ==
  ASSUME TypeOK, NEW l
  PROVE  /\ Stored(l) \subseteq Invitation /\ IsFiniteSet(Stored(l))
         /\ (\A v, w \in invitations : v.link = w.link => v = w)
              => Cardinality(Stored(l)) = Cardinality(invitations)
<1> DEFINE New(v) == [v EXCEPT !.stored = @ \/ v.link = l]
           f == [v \in invitations |-> New(v)]
<1>1. invitations \subseteq Invitation /\ IsFiniteSet(invitations)
  BY DEF TypeOK
<1>2. Stored(l) \subseteq Invitation
  BY <1>1 DEF Stored, Invitation
<1>3. f \in Surjection(invitations, Stored(l))
  BY DEF Surjection, Stored
<1>4. IsFiniteSet(Stored(l))
  BY <1>1, <1>3, FS_Surjection
<1>5. ASSUME \A v, w \in invitations : v.link = w.link => v = w
      PROVE  Cardinality(Stored(l)) = Cardinality(invitations)
  <2>1. \A v \in invitations : f[v].link = v.link
    BY <1>1 DEF Invitation
  <2> HIDE DEF f
  <2>2. f \in [invitations -> Stored(l)]
    BY <1>3 DEF Surjection
  <2>3. \A v, w \in invitations : f[v] = f[w] => v = w
    BY <1>5, <2>1
  <2>4. f \in Injection(invitations, Stored(l))
    BY <2>2, <2>3 DEF Injection, IsInjective
  <2> QED
    BY <1>1, <1>3, <2>4, FS_Surjection
<1> QED
  BY <1>2, <1>4, <1>5

LEMMA InitTyped == Init => TypeOK
<1> SUFFICES ASSUME Init PROVE TypeOK
  OBVIOUS
<1>1. customer \in CustomerRow
  <2>1. RiskLevel(PastMissed) \in Levels
    BY RiskTyped, PastAssumption
  <2>2. (PastMissed > PastCame) \in BOOLEAN
    OBVIOUS
  <2> QED
    BY <2>1, <2>2 DEF Init, NewCustomer, CustomerRow, Levels
<1>2. invitations \subseteq Invitation /\ IsFiniteSet(invitations)
  BY FS_EmptySet DEF Init
<1>3. events \in Seq(EventRow) /\ letters \in Seq(Nat \cup {Refused})
  BY EmptySeq DEF Init
<1> QED
  BY <1>1, <1>2, <1>3
  DEF Init, TypeOK, NoReview, RunState, RequestState, Payments, LinkStates

\* A handler reads the attendance, writes the row, commits or fails.
ReadEvent(i) ==
  [events[i] EXCEPT !.step = "read", !.missed = Missed, !.came = Came]
WrittenEvent(i, l) == [events[i] EXCEPT !.step = "written", !.link = l]
DoneEvent(i) == [events[i] EXCEPT !.step = "done"]

LEMMA FieldsOf ==
  ASSUME TypeOK, NEW i \in DOMAIN events
  PROVE  /\ ReadEvent(i).step = "read"
         /\ ReadEvent(i).missed = Missed /\ ReadEvent(i).came = Came
         /\ DoneEvent(i).step = "done"
         /\ \A l : /\ WrittenEvent(i, l).step = "written"
                  /\ WrittenEvent(i, l).link = l
                  /\ WrittenEvent(i, l).appointment = events[i].appointment
                  /\ WrittenEvent(i, l).missed = events[i].missed
                  /\ WrittenEvent(i, l).came = events[i].came
         /\ \A t, a : Event(t, a).step = "waiting"
<1>1. events[i] \in EventRow
  BY EventTyped
<1> QED
  BY <1>1 DEF EventRow, ReadEvent, DoneEvent, WrittenEvent, Event

LEMMA ReadChanges ==
  ASSUME TypeOK, NEW i \in DOMAIN events, ReadAttendance(i)
  PROVE  events' \in Seq(EventRow) /\ Changed(i, ReadEvent(i))
<1>1. events' = [events EXCEPT ![i] = ReadEvent(i)]
  BY DEF ReadAttendance, ReadEvent
<1>2. ReadEvent(i) \in EventRow
  BY EventTyped, AttendanceTyped DEF ReadEvent, EventRow
<1> QED
  BY <1>1, <1>2, EventChanged

LEMMA WriteChanges ==
  ASSUME TypeOK, NEW i \in DOMAIN events, WriteRisk(i)
  PROVE  \E l \in Nat :
           /\ events' \in Seq(EventRow) /\ Changed(i, WrittenEvent(i, l))
           /\ \/ l = 0 /\ invitations' = invitations
              \/ /\ l = Cardinality(invitations) + 1
                 /\ review[events[i].appointment].link \in {0, l}
                 /\ invitations' = invitations \cup
                      {[link |-> l, appointment |-> events[i].appointment,
                        stored |-> FALSE]}
<1> DEFINE fresh == Cardinality(invitations) + 1
           kept == LinkToKeep(events[i].appointment, fresh)
           inserts == events[i].type = "completed" /\ kept = fresh
           l == IF inserts THEN fresh ELSE 0
<1>1. fresh \in Nat /\ l \in Nat
  BY FS_CardinalityType DEF TypeOK
<1>2. events' = [events EXCEPT ![i] = WrittenEvent(i, l)]
  BY DEF WriteRisk, WrittenEvent
<1>3. WrittenEvent(i, l) \in EventRow
  BY <1>1, EventTyped DEF WrittenEvent, EventRow
<1>4. events' \in Seq(EventRow) /\ Changed(i, WrittenEvent(i, l))
  BY <1>2, <1>3, EventChanged
<1>5. kept = fresh => review[events[i].appointment].link \in {0, fresh}
  BY DEF LinkToKeep
<1> QED
  BY <1>1, <1>4, <1>5 DEF WriteRisk

LEMMA CommitChanges ==
  ASSUME TypeOK, NEW i \in DOMAIN events, CommitRisk(i)
  PROVE  events' \in Seq(EventRow) /\ Changed(i, DoneEvent(i))
<1>1. events' = [events EXCEPT ![i] = DoneEvent(i)]
  BY DEF CommitRisk, DoneEvent
<1>2. DoneEvent(i) \in EventRow
  BY EventTyped DEF DoneEvent, EventRow
<1> QED
  BY <1>1, <1>2, EventChanged

LEMMA FailChanges ==
  ASSUME TypeOK, NEW i \in DOMAIN events, FailRisk(i)
  PROVE  /\ events' \in Seq(EventRow)
         /\ Changed(i, Event(events[i].type, events[i].appointment))
<1>1. events' = [events EXCEPT ![i] =
                   Event(events[i].type, events[i].appointment)]
  BY DEF FailRisk
<1>2. Event(events[i].type, events[i].appointment) \in EventRow
  BY EventTyped DEF Event, EventRow
<1> QED
  BY <1>1, <1>2, EventChanged

LEMMA StatusChanges ==
  ASSUME TypeOK, NEW a \in Appointments,
         NEW s \in Finished \cup {"confirmed", "cancelled"}, SetStatus(a, s)
  PROVE  /\ events' \in Seq(EventRow)
         /\ IF s \in Finished THEN Added(Event(s, a)) ELSE events' = events
<1>1. s \in Finished => Event(s, a) \in EventRow
  BY DEF Event, EventRow
<1> QED
  BY <1>1, EventAdded DEF SetStatus, TypeOK

LEMMA CustomerTyped ==
  ASSUME TypeOK
  PROVE  /\ \A l \in Levels, b \in BOOLEAN, n \in {"never", "recent", "away"} :
              [customer EXCEPT !.level = l, !.deposit = b, !.seen = n]
                \in CustomerRow
         /\ \A b \in BOOLEAN : [customer EXCEPT !.deposit = b] \in CustomerRow
         /\ [customer EXCEPT !.optOut = TRUE] \in CustomerRow
         /\ \A t \in Nat : [customer EXCEPT !.token = t] \in CustomerRow
         /\ [customer EXCEPT !.contacted = "recent"] \in CustomerRow
         /\ [customer EXCEPT !.contacted = "passed"] \in CustomerRow
         /\ [customer EXCEPT !.seen = "away"] \in CustomerRow
         /\ customer.seen \in {"never", "recent", "away"}
<1>1. customer \in CustomerRow
  BY DEF TypeOK
<1> QED
  BY <1>1 DEF CustomerRow

LEMMA NextTyped == TypeOK /\ [Next]_vars => TypeOK'
<1> SUFFICES ASSUME TypeOK, [Next]_vars PROVE TypeOK'
  OBVIOUS
<1> USE DEF mailing, risk, requests, Step
<1>1. ASSUME BecomeInactive \/ EndCooldown PROVE TypeOK'
  <2>1. customer' \in CustomerRow
    BY <1>1, CustomerTyped DEF BecomeInactive, EndCooldown
  <2> QED
    BY <1>1, <2>1 DEF BecomeInactive, EndCooldown, TypeOK
<1>2. ASSUME NEW a \in Appointments,
             NEW s \in Finished \cup {"confirmed", "cancelled"},
             SetStatus(a, s)
      PROVE  TypeOK'
  <2>1. events' \in Seq(EventRow) /\ holder' \in {Nobody} \cup DOMAIN events'
    BY <1>2, StatusChanges DEF TypeOK, SetStatus, Added
  <2>2. /\ status' \in [Appointments -> Finished \cup {"confirmed", "cancelled"}]
        /\ settled' \in BOOLEAN
    BY <1>2 DEF SetStatus, TypeOK
  <2> QED
    BY <1>2, <2>1, <2>2 DEF SetStatus, TypeOK
<1>3. ASSUME NEW b \in BOOLEAN, RequireDeposit(b) PROVE TypeOK'
  <2>1. customer' \in CustomerRow
    BY <1>3, CustomerTyped DEF RequireDeposit
  <2>2. settled' \in BOOLEAN
    BY <1>3 DEF RequireDeposit
  <2> QED
    BY <1>3, <2>1, <2>2 DEF RequireDeposit, TypeOK
<1>4. CASE Upsert
  BY <1>4 DEF Upsert, Upserted, TypeOK
<1>5. ASSUME NEW i \in DOMAIN events, ReadAttendance(i) PROVE TypeOK'
  <2>1. events' \in Seq(EventRow) /\ holder' \in {Nobody} \cup DOMAIN events'
    BY <1>5, ReadChanges DEF TypeOK, ReadAttendance, Changed
  <2> QED
    BY <1>5, <2>1 DEF ReadAttendance, TypeOK
<1>6. ASSUME NEW i \in DOMAIN events, WriteRisk(i) PROVE TypeOK'
  <2>1. events' \in Seq(EventRow) /\ DOMAIN events' = DOMAIN events
    BY <1>6, WriteChanges DEF Changed
  <2>2. invitations' \subseteq Invitation /\ IsFiniteSet(invitations')
    <3>1. PICK l \in Nat :
            \/ invitations' = invitations
            \/ /\ l = Cardinality(invitations) + 1
               /\ invitations' = invitations \cup
                    {[link |-> l, appointment |-> events[i].appointment,
                      stored |-> FALSE]}
      BY <1>6, WriteChanges
    <3>2. Cardinality(invitations) \in Nat
      BY FS_CardinalityType DEF TypeOK
    <3>3. events[i].appointment \in Appointments
      BY EventTyped DEF EventRow
    <3>4. l = Cardinality(invitations) + 1 =>
            [link |-> l, appointment |-> events[i].appointment,
             stored |-> FALSE] \in Invitation
      BY <3>2, <3>3 DEF Invitation
    <3>5. invitations \subseteq Invitation /\ IsFiniteSet(invitations)
      BY DEF TypeOK
    <3>6. \A v \in Invitation :
            /\ invitations \cup {v} \subseteq Invitation
            /\ IsFiniteSet(invitations \cup {v})
      BY <3>5, FS_AddElement
    <3> QED
      BY <3>1, <3>4, <3>5, <3>6
  <2> QED
    BY <1>6, <2>1, <2>2 DEF WriteRisk, TypeOK
<1>7. ASSUME NEW i \in DOMAIN events, CommitRisk(i) PROVE TypeOK'
  <2>1. events' \in Seq(EventRow) /\ DOMAIN events' = DOMAIN events
    BY <1>7, CommitChanges DEF Changed
  <2>2. events[i] \in EventRow
    BY EventTyped
  <2>3. customer' \in CustomerRow
    <3>1. RiskLevel(events[i].missed) \in Levels
      BY <2>2, RiskTyped DEF EventRow
    <3>2. NeedsDeposit(events[i].missed, events[i].came) \in BOOLEAN
      BY DEF NeedsDeposit
    <3>3. PICK n \in {"never", "recent", "away"} :
            customer' = [customer EXCEPT
              !.level = RiskLevel(events[i].missed),
              !.deposit = NeedsDeposit(events[i].missed, events[i].came),
              !.seen = n]
      BY <1>7, CustomerTyped DEF CommitRisk
    <3> QED
      BY <3>1, <3>2, <3>3, CustomerTyped
  <2>4. invitations' \subseteq Invitation /\ IsFiniteSet(invitations')
    BY <1>7, StoredTyped DEF CommitRisk, TypeOK
  <2>5. review' \in [Appointments -> [link : Nat, rating : 0..2]]
    <3>1. review \in [Appointments -> [link : Nat, rating : 0..2]]
      BY DEF TypeOK
    <3>2. events[i].appointment \in Appointments /\ events[i].link \in Nat
      BY <2>2 DEF EventRow
    <3> QED
      BY <1>7, <3>1, <3>2 DEF CommitRisk
  <2> QED
    BY <1>7, <2>1, <2>3, <2>4, <2>5 DEF CommitRisk, TypeOK
<1>8. ASSUME NEW i \in DOMAIN events, FailRisk(i) PROVE TypeOK'
  <2>1. events' \in Seq(EventRow) /\ DOMAIN events' = DOMAIN events
    BY <1>8, FailChanges DEF Changed
  <2> QED
    BY <1>8, <2>1 DEF FailRisk, TypeOK
<1>9. ASSUME NEW r \in Runs, Claim(r) PROVE TypeOK'
  <2>1. customer' \in CustomerRow
    BY <1>9, CustomerTyped DEF Claim
  <2>2. run' \in [Runs -> RunState]
    BY <1>9 DEF Claim, TypeOK, RunState
  <2> QED
    BY <1>9, <2>1, <2>2 DEF Claim, TypeOK
<1>10. ASSUME NEW r \in Runs, SendLetter(r) PROVE TypeOK'
  <2>1. Len(letters) \in Nat /\ letters \in Seq(Nat \cup {Refused})
    BY LenProperties DEF TypeOK
  <2>2. letters' \in Seq(Nat \cup {Refused})
    <3>1. cooldowns \in Nat \cup {Refused} /\ Refused \in Nat \cup {Refused}
      BY DEF TypeOK
    <3> QED
      BY <1>10, <2>1, <3>1, Appended DEF SendLetter
  <2>3. [step |-> "sent", link |-> Len(letters) + 1] \in RunState
    BY <2>1 DEF RunState
  <2>4. run' \in [Runs -> RunState]
    BY <1>10, <2>3 DEF SendLetter, TypeOK
  <2>5. steps' \in Nat
    BY <1>10 DEF SendLetter, TypeOK
  <2> QED
    BY <1>10, <2>2, <2>4, <2>5 DEF SendLetter, TypeOK
<1>11. ASSUME NEW r \in Runs, StoreToken(r) PROVE TypeOK'
  <2>1. run[r].link \in Nat
    <3>1. run[r] \in RunState /\ run[r].step = "sent"
      BY <1>11 DEF StoreToken, TypeOK
    <3>2. run[r] \in [step : {"sent"}, link : Nat]
      BY <3>1 DEF RunState, Idle
    <3> QED
      BY <3>2
  <2>2. customer' \in CustomerRow
    BY <1>11, <2>1, CustomerTyped DEF StoreToken
  <2>3. run' \in [Runs -> RunState]
    BY <1>11 DEF StoreToken, TypeOK, RunState
  <2> QED
    BY <1>11, <2>2, <2>3 DEF StoreToken, TypeOK
<1>12. ASSUME NEW r \in Runs, EndRun(r) PROVE TypeOK'
  BY <1>12 DEF EndRun, TypeOK, RunState
<1>13. ASSUME NEW l \in DOMAIN letters, Unsubscribe(l) PROVE TypeOK'
  <2>1. customer' \in CustomerRow
    BY <1>13, CustomerTyped DEF Unsubscribe
  <2> QED
    BY <1>13, <2>1 DEF Unsubscribe, TypeOK
<1>14. ASSUME NEW a \in Appointments, SubmitPayment(a) PROVE TypeOK'
  BY <1>14 DEF SubmitPayment, TypeOK, Payments
<1>15. ASSUME NEW l \in 1..MaxLinks, RequestLink(l) \/ ExpireLink(l)
       PROVE  TypeOK'
  BY <1>15 DEF RequestLink, ExpireLink, TypeOK, LinkStates
<1>16. ASSUME NEW h \in Handlers, Check(h) PROVE TypeOK'
  <2>1. ASSUME NEW q \in RequestState, Begin(h, q) PROVE TypeOK'
    BY <2>1 DEF Begin, TypeOK
  <2>2. ASSUME NEW a \in Appointments, NEW s \in {"confirmed"} \cup Closed,
               ReadPayment(h, a, s)
        PROVE  TypeOK'
    BY <2>1, <2>2 DEF ReadPayment, RequestState, PaymentRequest, Payments
  <2>3. ASSUME NEW v \in invitations, NEW n \in 1..2, ReadReview(h, v, n)
        PROVE  TypeOK'
    <3>1. v.appointment \in Appointments
      BY DEF TypeOK, Invitation
    <3> QED
      BY <2>1, <2>3, <3>1 DEF ReadReview, RequestState, ReviewRequest
  <2>4. ASSUME NEW l \in 1..MaxLinks, ReadLink(h, l) PROVE TypeOK'
    BY <2>1, <2>4 DEF ReadLink, RequestState, LinkRequest
  <2> QED
    BY <1>16, <2>2, <2>3, <2>4 DEF Check
<1>17. ASSUME NEW h \in Handlers, Write(h) PROVE TypeOK'
  <2>1. request' \in [Handlers -> RequestState] /\ alone' \in BOOLEAN
    BY <1>17 DEF Write, WritePayment, WriteReview, WriteLink, Finish, TypeOK,
                 RequestState
  <2>2. CASE WritePayment(h)
    <3>1. request[h] \in PaymentRequest
      BY <2>2 DEF WritePayment, TypeOK, RequestState, Idle, PaymentRequest,
                  ReviewRequest, LinkRequest
    <3> QED
      BY <2>1, <2>2, <3>1 DEF WritePayment, TypeOK, PaymentRequest
  <2>3. CASE WriteReview(h)
    <3>1. request[h] \in ReviewRequest
      BY <2>3 DEF WriteReview, TypeOK, RequestState, Idle, PaymentRequest,
                  ReviewRequest, LinkRequest
    <3>2. review' \in [Appointments -> [link : Nat, rating : 0..2]]
      <4>1. request[h].of \in Appointments /\ request[h].next \in 0..2
        BY <3>1 DEF ReviewRequest
      <4>2. review \in [Appointments -> [link : Nat, rating : 0..2]]
        BY DEF TypeOK
      <4> QED
        BY <2>3, <4>1, <4>2 DEF WriteReview
    <3> QED
      BY <2>1, <2>3, <3>2 DEF WriteReview, TypeOK
  <2>4. CASE WriteLink(h)
    <3>1. link' \in [1..MaxLinks -> LinkStates]
      BY <2>4 DEF WriteLink, TypeOK, LinkStates
    <3> QED
      BY <2>1, <2>4, <3>1 DEF WriteLink, TypeOK
  <2> QED
    BY <1>17, <2>2, <2>3, <2>4 DEF Write
<1>18. ASSUME NEW h \in Handlers, Drop(h) PROVE TypeOK'
  BY <1>18 DEF Drop, Finish, TypeOK, RequestState
<1>19. CASE UNCHANGED vars
  BY <1>19 DEF vars, TypeOK
<1> QED
  BY <1>1, <1>2, <1>3, <1>4, <1>5, <1>6, <1>7, <1>8, <1>9, <1>10, <1>11,
     <1>12, <1>13, <1>14, <1>15, <1>16, <1>17, <1>18, <1>19
  DEF Next, Owner, HandleEvent, Campaign
-----------------------------------------------------------------------------
(* The risk                                                                *)

\* The steps that touch the events, the risk or what it is calculated from.
LEMMA RiskSteps ==
  ASSUME TypeOK, [Next]_vars
  PROVE  \/ \E i \in DOMAIN events : HandleEvent(i)
         \/ \E a \in Appointments,
               s \in Finished \cup {"confirmed", "cancelled"} : SetStatus(a, s)
         \/ \E b \in BOOLEAN : RequireDeposit(b)
         \/ /\ UNCHANGED <<status, events, holder, settled>>
            /\ customer'.level = customer.level
            /\ customer'.deposit = customer.deposit
<1> DEFINE Same == /\ UNCHANGED <<status, events, holder, settled>>
                   /\ customer'.level = customer.level
                   /\ customer'.deposit = customer.deposit
<1> USE DEF risk, requests
<1>1. customer \in CustomerRow
  BY DEF TypeOK
<1>2. BecomeInactive \/ EndCooldown \/ Upsert => Same
  BY <1>1 DEF BecomeInactive, EndCooldown, Upsert, Upserted, CustomerRow
<1>3. ASSUME NEW r \in Runs, Campaign(r) PROVE Same
  BY <1>1, <1>3
  DEF Campaign, Claim, SendLetter, StoreToken, EndRun, CustomerRow
<1>4. ASSUME NEW l, Unsubscribe(l) PROVE Same
  BY <1>1, <1>4 DEF Unsubscribe, CustomerRow
<1>5. ASSUME NEW x, SubmitPayment(x) \/ RequestLink(x) \/ ExpireLink(x)
      PROVE  Same
  BY <1>5 DEF SubmitPayment, RequestLink, ExpireLink
<1>6. ASSUME NEW h, Check(h) \/ Write(h) \/ Drop(h) PROVE Same
  BY <1>6 DEF Check, ReadPayment, ReadReview, ReadLink, Begin, Drop, Write,
              WritePayment, WriteReview, WriteLink
<1>7. UNCHANGED vars => Same
  BY DEF vars
<1> HIDE DEF Same
<1>8. \/ \E i \in DOMAIN events : HandleEvent(i)
      \/ \E a \in Appointments,
            s \in Finished \cup {"confirmed", "cancelled"} : SetStatus(a, s)
      \/ \E b \in BOOLEAN : RequireDeposit(b)
      \/ Same
  BY <1>2, <1>3, <1>4, <1>5, <1>6, <1>7 DEF Next, Owner
<1> QED
  BY <1>8 DEF Same

LEMMA RowStaysHeld ==
  ASSUME TypeOK, RowIsHeld, [Next]_vars
  PROVE  RowIsHeld'
<1>1. ASSUME NEW i \in DOMAIN events, HandleEvent(i) PROVE RowIsHeld'
  <2>1. i # Nobody
    BY EventTyped
  <2>2. CASE ReadAttendance(i)
    <3>1. events[i].step = "waiting" /\ holder' = holder
      BY <2>2 DEF ReadAttendance, risk
    <3> QED
      BY <2>2, <3>1, ReadChanges, FieldsOf DEF Changed, RowIsHeld
  <2>3. CASE WriteRisk(i)
    <3>1. PICK l : Changed(i, WrittenEvent(i, l))
      BY <2>3, WriteChanges
    <3>2. WrittenEvent(i, l).step = "written"
      BY FieldsOf
    <3>3. \A j \in DOMAIN events : j # Nobody
      BY EventTyped
    <3> QED
      BY <2>1, <2>3, <3>1, <3>2, <3>3 DEF WriteRisk, Changed, RowIsHeld
  <2>4. CASE CommitRisk(i)
    <3>1. events[i].step = "written" /\ holder' = Nobody
      BY <2>4 DEF CommitRisk
    <3>2. \A j \in DOMAIN events : j # Nobody
      BY EventTyped
    <3> QED
      BY <2>4, <3>1, <3>2, CommitChanges, FieldsOf DEF Changed, RowIsHeld
  <2>5. CASE FailRisk(i)
    <3>1. holder' = IF holder = i THEN Nobody ELSE holder
      BY <2>5 DEF FailRisk
    <3>2. \A j \in DOMAIN events : j # Nobody
      BY EventTyped
    <3> QED
      BY <2>5, <3>1, <3>2, FailChanges, FieldsOf DEF Changed, RowIsHeld
  <2> QED
    BY <1>1, <2>2, <2>3, <2>4, <2>5 DEF HandleEvent
<1>2. ASSUME NEW a \in Appointments,
             NEW s \in Finished \cup {"confirmed", "cancelled"},
             SetStatus(a, s)
      PROVE  RowIsHeld'
  <2>1. holder' = holder /\ holder \in {Nobody} \cup DOMAIN events
    BY <1>2 DEF SetStatus, TypeOK
  <2>2. CASE s \notin Finished
    BY <1>2, <2>1, <2>2, StatusChanges DEF RowIsHeld
  <2>3. CASE s \in Finished
    <3>1. Event(s, a).step = "waiting"
      BY DEF Event
    <3> QED
      BY <1>2, <2>1, <2>3, <3>1, StatusChanges DEF Added, RowIsHeld
  <2> QED
    BY <2>2, <2>3
<1>3. ASSUME UNCHANGED <<events, holder>> PROVE RowIsHeld'
  BY <1>3 DEF RowIsHeld
<1> QED
  BY <1>1, <1>2, <1>3, RiskSteps DEF RequireDeposit

LEMMA SameAttendance ==
  ASSUME \A a \in Appointments :
           status'[a] # status[a] => {status[a], status'[a]} \cap Finished = {}
  PROVE  Missed' = Missed /\ Came' = Came
<1>1. ASSUME NEW s \in Finished
      PROVE  {a \in Appointments : status'[a] = s}
               = {a \in Appointments : status[a] = s}
  OBVIOUS
<1> QED
  BY <1>1 DEF Missed, Came, Count, Finished

LEMMA StillFits ==
  ASSUME Missed' = Missed, Came' = Came, customer'.level = customer.level,
         customer'.deposit = customer.deposit
  PROVE  Fits' <=> Fits
  BY DEF Fits

\* The handler commits what it has calculated from the attendance.
LEMMA CommitFits ==
  ASSUME TypeOK, NEW i \in DOMAIN events, CommitRisk(i),
         events[i].missed = Missed, events[i].came = Came
  PROVE  Fits'
<1>1. customer \in CustomerRow
  BY DEF TypeOK
<1>2. /\ customer'.level = RiskLevel(Missed)
      /\ customer'.deposit = NeedsDeposit(Missed, Came)
  BY <1>1 DEF CommitRisk, CustomerRow
<1>3. Missed' = Missed /\ Came' = Came
  BY SameAttendance DEF CommitRisk
<1>4. RiskLevel(Missed) = "low" <=> Missed = 0
  BY AttendanceTyped, RiskTyped
<1>5. customer'.deposit <=> Missed > Came
  BY <1>2 DEF NeedsDeposit
<1> QED
  BY <1>2, <1>3, <1>4, <1>5 DEF Fits

\* The risk stays right, or will be, whatever handlers and the owner do.
LEMMA RiskStillFits ==
  ASSUME TypeOK, WillFit, [Next]_vars
  PROVE  WillFit'
<1> USE DEF Working
<1>1. ASSUME NEW i \in DOMAIN events, HandleEvent(i) PROVE WillFit'
  <2>1. CASE ReadAttendance(i)
    <3>1. /\ settled' => settled /\ \A j \in DOMAIN events : ~Working(j)
          /\ Missed' = Missed /\ Came' = Came
      BY <2>1, SameAttendance DEF ReadAttendance
    <3> QED
      BY <2>1, <3>1, ReadChanges, FieldsOf DEF Changed, WillFit
  <2>2. CASE WriteRisk(i)
    <3>1. PICK l : Changed(i, WrittenEvent(i, l))
      BY <2>2, WriteChanges
    <3>2. settled' = settled /\ Missed' = Missed /\ Came' = Came
      BY <2>2, SameAttendance DEF WriteRisk
    <3>3. events[i].step = "read"
      BY <2>2 DEF WriteRisk
    <3> QED
      BY <3>1, <3>2, <3>3, FieldsOf DEF Changed, WillFit
  <2>3. CASE CommitRisk(i)
    <3>1. settled' = settled /\ Missed' = Missed /\ Came' = Came
      BY <2>3, SameAttendance DEF CommitRisk
    <3>2. events[i].step = "written"
      BY <2>3 DEF CommitRisk
    <3>3. events[i].missed = Missed /\ events[i].came = Came => Fits'
      BY <2>3, CommitFits
    <3> QED
      BY <2>3, <3>1, <3>2, <3>3, CommitChanges, FieldsOf DEF Changed, WillFit
  <2>4. CASE FailRisk(i)
    <3>1. settled' = settled
      BY <2>4 DEF FailRisk
    <3> QED
      BY <2>4, <3>1, FailChanges, FieldsOf DEF Changed, WillFit
  <2> QED
    BY <1>1, <2>1, <2>2, <2>3, <2>4 DEF HandleEvent
<1>2. ASSUME NEW a \in Appointments,
             NEW s \in Finished \cup {"confirmed", "cancelled"},
             SetStatus(a, s)
      PROVE  WillFit'
  <2>1. CASE s \in Finished
    <3>1. Event(s, a).step = "waiting" /\ settled' = settled
      BY <1>2, <2>1 DEF Event, SetStatus
    <3>2. PICK n :
            /\ n \notin DOMAIN events
            /\ DOMAIN events' = DOMAIN events \cup {n}
            /\ events'[n].step = "waiting"
            /\ \A i \in DOMAIN events : events'[i] = events[i]
      BY <1>2, <2>1, <3>1, StatusChanges DEF Added
    <3>3. ASSUME settled' PROVE \A i, j \in DOMAIN events' :
                                  Working(i)' /\ Working(j)' => i = j
      BY <3>1, <3>2, <3>3 DEF WillFit
    <3>4. \E i \in DOMAIN events' : events'[i].step = "waiting"
      BY <3>2
    <3> QED
      BY <3>3, <3>4 DEF WillFit
  <2>2. CASE s \notin Finished
    <3>1. /\ settled' => settled /\ status[a] \notin Finished
          /\ events' = events /\ customer' = customer
      BY <1>2, <2>2 DEF SetStatus
    <3>2. ASSUME settled' PROVE Missed' = Missed /\ Came' = Came
      BY <1>2, <2>2, <3>1, <3>2, SameAttendance DEF SetStatus, TypeOK
    <3> QED
      BY <3>1, <3>2, StillFits DEF WillFit
  <2> QED
    BY <2>1, <2>2
<1>3. ASSUME NEW b \in BOOLEAN, RequireDeposit(b) PROVE WillFit'
  BY <1>3 DEF RequireDeposit, WillFit
<1>4. ASSUME UNCHANGED <<status, events, holder, settled>>,
             customer'.level = customer.level,
             customer'.deposit = customer.deposit
      PROVE  WillFit'
  <2>1. Missed' = Missed /\ Came' = Came
    BY <1>4, SameAttendance
  <2> QED
    BY <1>4, <2>1, StillFits DEF WillFit
<1> QED
  BY <1>1, <1>2, <1>3, <1>4, RiskSteps

LEMMA InitFits == Init => RowIsHeld /\ WillFit
<1> SUFFICES ASSUME Init PROVE RowIsHeld /\ WillFit
  OBVIOUS
<1>1. ASSUME NEW s \in Finished PROVE Count(s) = 0
  <2>1. {a \in Appointments : status[a] = s} = {}
    BY <1>1 DEF Init, Finished
  <2> QED
    BY <2>1, FS_EmptySet DEF Count
<1>2. Missed = PastMissed /\ Came = PastCame
  BY <1>1, PastAssumption DEF Missed, Came, Finished
<1>3. /\ customer.level = RiskLevel(Missed)
      /\ customer.deposit = (Missed > Came)
  BY <1>2 DEF Init, NewCustomer
<1>4. Fits
  BY <1>3, RiskTyped, AttendanceTyped DEF Fits
<1>5. DOMAIN events = {}
  BY DEF Init
<1> QED
  BY <1>4, <1>5 DEF RowIsHeld, WillFit

\* A customer whose events are all handled is asked for a deposit, and counted
\* as a risk, as her attendance says: for any number of appointments, events
\* and handlers that read, write, fail and start again, as long as no two of
\* them have overlapped, the owner has not chosen otherwise and no attendance
\* was taken back without an event (settled).
THEOREM RiskFollows == Spec => []RiskFollowsAttendance
<1>1. TypeOK /\ WillFit /\ [Next]_vars => TypeOK' /\ WillFit'
  BY NextTyped, RiskStillFits
<1>2. Init => TypeOK /\ WillFit
  BY InitTyped, InitFits
<1>3. WillFit => RiskFollowsAttendance
  BY DEF WillFit, RiskFollowsAttendance, Fits, Working
<1> QED
  BY <1>1, <1>2, <1>3, PTL DEF Spec
-----------------------------------------------------------------------------
(* Campaigns                                                               *)

\* The steps that touch the runs, their mails or the time of the last one.
LEMMA CampaignSteps ==
  ASSUME TypeOK, [Next]_vars
  PROVE  \/ \E r \in Runs : Campaign(r)
         \/ EndCooldown
         \/ /\ UNCHANGED <<run, letters, cooldowns>>
            /\ customer'.contacted = customer.contacted
<1> DEFINE Same == /\ UNCHANGED <<run, letters, cooldowns>>
                   /\ customer'.contacted = customer.contacted
<1> USE DEF mailing, requests
<1>1. customer \in CustomerRow
  BY DEF TypeOK
<1>2. BecomeInactive \/ Upsert => Same
  BY <1>1 DEF BecomeInactive, Upsert, Upserted, CustomerRow
<1>3. ASSUME NEW b, RequireDeposit(b) PROVE Same
  BY <1>1, <1>3 DEF RequireDeposit, CustomerRow
<1>4. ASSUME NEW a, NEW t, SetStatus(a, t) PROVE Same
  BY <1>4 DEF SetStatus
<1>5. ASSUME NEW i, HandleEvent(i) PROVE Same
  BY <1>1, <1>5 DEF HandleEvent, ReadAttendance, WriteRisk, CommitRisk,
                    FailRisk, CustomerRow
<1>6. ASSUME NEW l, Unsubscribe(l) PROVE Same
  BY <1>1, <1>6 DEF Unsubscribe, CustomerRow
<1>7. ASSUME NEW x, SubmitPayment(x) \/ RequestLink(x) \/ ExpireLink(x)
      PROVE  Same
  BY <1>7 DEF SubmitPayment, RequestLink, ExpireLink
<1>8. ASSUME NEW h, Check(h) \/ Write(h) \/ Drop(h) PROVE Same
  BY <1>8 DEF Check, ReadPayment, ReadReview, ReadLink, Begin, Drop, Write,
              WritePayment, WriteReview, WriteLink
<1>9. UNCHANGED vars => Same
  BY DEF vars
<1> HIDE DEF Same
<1>10. (\E r \in Runs : Campaign(r)) \/ EndCooldown \/ Same
  BY <1>2, <1>3, <1>4, <1>5, <1>6, <1>7, <1>8, <1>9 DEF Next, Owner
<1> QED
  BY <1>10 DEF Same

LEMMA LetterAdded ==
  ASSUME TypeOK, NEW x \in Nat \cup {Refused}, letters' = Append(letters, x)
  PROVE  \E n : /\ n \notin DOMAIN letters
               /\ DOMAIN letters' = DOMAIN letters \cup {n} /\ letters'[n] = x
               /\ \A l \in DOMAIN letters : letters'[l] = letters[l]
<1>1. letters \in Seq(Nat \cup {Refused})
  BY DEF TypeOK
<1> QED
  BY <1>1, Appended

LEMMA OneClaimStays ==
  ASSUME TypeOK, OneClaim, OneLetterPerCooldown, [Next]_vars
  PROVE  OneClaim' /\ OneLetterPerCooldown'
<1>1. /\ customer \in CustomerRow /\ cooldowns \in Nat
      /\ \A l \in DOMAIN letters : letters[l] \in Nat \cup {Refused}
  BY ElementOf DEF TypeOK
<1>2. Idle.step # "claimed" /\ Refused \notin Nat
  BY DEF Idle, Refused
<1>3. ASSUME NEW r \in Runs, Claim(r)
      PROVE  OneClaim' /\ OneLetterPerCooldown'
  <2>1. /\ customer'.contacted = "recent" /\ customer.contacted # "recent"
        /\ letters' = letters /\ cooldowns' = cooldowns
    BY <1>1, <1>3 DEF Claim, Due, CustomerRow
  <2>2. \A q \in Runs : run'[q].step = "claimed" => q = r
    BY <1>3, <2>1 DEF Claim, OneClaim, TypeOK
  <2> QED
    BY <2>1, <2>2 DEF OneClaim, OneLetterPerCooldown
<1>4. ASSUME NEW r \in Runs, SendLetter(r)
      PROVE  OneClaim' /\ OneLetterPerCooldown'
  <2>1. /\ customer' = customer /\ cooldowns' = cooldowns
        /\ run[r].step = "claimed"
        /\ \A q \in Runs : run'[q].step # "claimed"
    BY <1>4 DEF SendLetter, OneClaim, TypeOK
  <2>2. PICK x \in {cooldowns, Refused} : letters' = Append(letters, x)
    BY <1>4 DEF SendLetter
  <2>3. PICK n : /\ n \notin DOMAIN letters
                 /\ DOMAIN letters' = DOMAIN letters \cup {n}
                 /\ letters'[n] = x
                 /\ \A l \in DOMAIN letters : letters'[l] = letters[l]
    BY <1>1, <2>2, LetterAdded
  <2>4. \A l \in DOMAIN letters : letters[l] # cooldowns
    BY <2>1 DEF OneClaim
  <2>5. OneLetterPerCooldown'
    BY <2>3, <2>4 DEF OneLetterPerCooldown
  <2>6. x <= cooldowns
    BY <1>1, <2>2 DEF Refused
  <2> QED
    BY <2>1, <2>3, <2>5, <2>6 DEF OneClaim
<1>5. ASSUME NEW r \in Runs, StoreToken(r) \/ EndRun(r)
      PROVE  OneClaim' /\ OneLetterPerCooldown'
  <2>1. customer'.contacted = customer.contacted
    BY <1>1, <1>5 DEF StoreToken, EndRun, CustomerRow
  <2>2. /\ letters' = letters /\ cooldowns' = cooldowns
        /\ run' = [run EXCEPT ![r] = Idle]
    BY <1>5 DEF StoreToken, EndRun
  <2>3. \A q \in Runs : run'[q].step = "claimed" => run[q].step = "claimed"
    BY <1>2, <2>2 DEF TypeOK
  <2> QED
    BY <2>1, <2>2, <2>3 DEF OneClaim, OneLetterPerCooldown
<1>6. ASSUME EndCooldown PROVE OneClaim' /\ OneLetterPerCooldown'
  <2>1. /\ letters' = letters /\ cooldowns' = cooldowns + 1 /\ run' = run
        /\ \A r \in Runs : run[r].step # "claimed"
    BY <1>2, <1>6 DEF EndCooldown
  <2>2. \A l \in DOMAIN letters : letters[l] < cooldowns + 1
    BY <1>1 DEF OneClaim, Refused
  <2> QED
    BY <1>1, <2>1, <2>2 DEF OneClaim, OneLetterPerCooldown, Refused
<1>7. ASSUME UNCHANGED <<run, letters, cooldowns>>,
             customer'.contacted = customer.contacted
      PROVE  OneClaim' /\ OneLetterPerCooldown'
  BY <1>7 DEF OneClaim, OneLetterPerCooldown
<1> QED
  BY <1>3, <1>4, <1>5, <1>6, <1>7, CampaignSteps DEF Campaign

\* No customer is asked twice within one cooldown to come back, for any number
\* of runs that claim, send, fail and end as they like.
THEOREM OneLetterEach == Spec => []OneLetterPerCooldown
<1>1. Init => TypeOK /\ OneClaim /\ OneLetterPerCooldown
  <2>1. Init => OneClaim /\ OneLetterPerCooldown
    BY DEF Init, OneClaim, OneLetterPerCooldown, Idle
  <2> QED
    BY <2>1, InitTyped
<1>2. TypeOK /\ OneClaim /\ OneLetterPerCooldown /\ [Next]_vars
        => TypeOK' /\ OneClaim' /\ OneLetterPerCooldown'
  BY NextTyped, OneClaimStays
<1> QED
  BY <1>1, <1>2, PTL DEF Spec
-----------------------------------------------------------------------------
(* Invitations to review an appointment                                    *)

\* The steps that touch the reviews, the invitations or what is to be stored:
\* the others only start, read or fail.
LEMMA ReviewSteps ==
  ASSUME TypeOK, [Next]_vars
  PROVE  \/ \E i \in DOMAIN events : WriteRisk(i)
         \/ \E i \in DOMAIN events : CommitRisk(i)
         \/ /\ invitations' = invitations
            /\ \A a \in Appointments : review'[a].link = review[a].link
            /\ \A i \in DOMAIN events' : events'[i].step = "written" =>
                 i \in DOMAIN events /\ events'[i] = events[i]
<1> DEFINE Reviews ==
             /\ invitations' = invitations
             /\ \A a \in Appointments : review'[a].link = review[a].link
           Events ==
             \A i \in DOMAIN events' : events'[i].step = "written" =>
               i \in DOMAIN events /\ events'[i] = events[i]
<1> USE DEF mailing, risk, requests
<1>1. ASSUME NEW i \in DOMAIN events, ReadAttendance(i) PROVE Reviews /\ Events
  <2>1. Reviews
    BY <1>1 DEF ReadAttendance
  <2>2. Events
    BY <1>1, ReadChanges, FieldsOf DEF Changed
  <2> QED
    BY <2>1, <2>2
<1>2. ASSUME NEW i \in DOMAIN events, FailRisk(i) PROVE Reviews /\ Events
  <2>1. Reviews
    BY <1>2 DEF FailRisk
  <2>2. Events
    BY <1>2, FailChanges, FieldsOf DEF Changed
  <2> QED
    BY <2>1, <2>2
<1>3. ASSUME NEW a \in Appointments,
             NEW s \in Finished \cup {"confirmed", "cancelled"},
             SetStatus(a, s)
      PROVE  Reviews /\ Events
  <2>1. Reviews
    BY <1>3 DEF SetStatus
  <2>2. Events
    <3>1. Event(s, a).step = "waiting"
      BY DEF Event
    <3> QED
      BY <1>3, <3>1, StatusChanges DEF Added
  <2> QED
    BY <2>1, <2>2
<1>4. ASSUME events' = events PROVE Events
  BY <1>4
<1>5. BecomeInactive \/ EndCooldown \/ Upsert => Reviews /\ events' = events
  BY DEF BecomeInactive, EndCooldown, Upsert
<1>6. ASSUME NEW b, RequireDeposit(b) PROVE Reviews /\ events' = events
  BY <1>6 DEF RequireDeposit
<1>7. ASSUME NEW q, Campaign(q) PROVE Reviews /\ events' = events
  BY <1>7 DEF Campaign, Claim, SendLetter, StoreToken, EndRun
<1>8. ASSUME NEW x, \/ Unsubscribe(x) \/ SubmitPayment(x) \/ RequestLink(x)
                   \/ ExpireLink(x)
      PROVE  Reviews /\ events' = events
  BY <1>8 DEF Unsubscribe, SubmitPayment, RequestLink, ExpireLink
<1>9. ASSUME NEW h, Check(h) \/ Drop(h) PROVE Reviews /\ events' = events
  BY <1>9 DEF Check, ReadPayment, ReadReview, ReadLink, Begin, Drop
<1>10. ASSUME NEW h, Write(h) PROVE Reviews /\ events' = events
  <2>1. WritePayment(h) \/ WriteLink(h) => Reviews /\ events' = events
    BY DEF WritePayment, WriteLink
  <2>2. CASE WriteReview(h)
    <3>1. review \in [Appointments -> [link : Nat, rating : 0..2]]
      BY DEF TypeOK
    <3>2. \A a \in Appointments : review'[a].link = review[a].link
      BY <2>2, <3>1 DEF WriteReview
    <3> QED
      BY <2>2, <3>2 DEF WriteReview
  <2> QED
    BY <1>10, <2>1, <2>2 DEF Write
<1>11. UNCHANGED vars => Reviews /\ events' = events
  BY DEF vars
<1> HIDE DEF Reviews, Events
<1>12. \/ \E i \in DOMAIN events : WriteRisk(i)
       \/ \E i \in DOMAIN events : CommitRisk(i)
       \/ Reviews /\ Events
  BY <1>1, <1>2, <1>3, <1>4, <1>5, <1>6, <1>7, <1>8, <1>9, <1>10, <1>11
  DEF Next, Owner, HandleEvent
<1> QED
  BY <1>12 DEF Reviews, Events

LEMMA StoredFields ==
  ASSUME TypeOK, NEW l, NEW w \in Stored(l)
  PROVE  \E v \in invitations :
           /\ w = [v EXCEPT !.stored = @ \/ v.link = l]
           /\ w.link = v.link /\ w.appointment = v.appointment
           /\ w.stored => v.stored \/ v.link = l
<1>1. invitations \subseteq Invitation
  BY DEF TypeOK
<1> QED
  BY <1>1 DEF Stored, Invitation

LEMMA LinksStayNew ==
  ASSUME TypeOK, RowIsHeld, LinksAreNew, InvitationsWork, [Next]_vars
  PROVE  LinksAreNew' /\ InvitationsWork'
<1> DEFINE n == Cardinality(invitations)
<1>1. /\ invitations \subseteq Invitation /\ IsFiniteSet(invitations)
      /\ n \in Nat /\ n + 1 > n
  <2>1. invitations \subseteq Invitation /\ IsFiniteSet(invitations)
    BY DEF TypeOK
  <2>2. n \in Nat
    BY <2>1, FS_CardinalityType
  <2> QED
    BY <2>1, <2>2
<1>2. \A v \in invitations : v.link \in Nat \ {0}
  BY <1>1 DEF Invitation
<1>3. review \in [Appointments -> [link : Nat, rating : 0..2]]
  BY DEF TypeOK
<1>4. ASSUME NEW i \in DOMAIN events, WriteRisk(i)
      PROVE  LinksAreNew' /\ InvitationsWork'
  <2>1. PICK l \in Nat :
          /\ Changed(i, WrittenEvent(i, l))
          /\ \/ l = 0 /\ invitations' = invitations
             \/ /\ l = n + 1
                /\ review[events[i].appointment].link \in {0, l}
                /\ invitations' = invitations \cup
                     {[link |-> l, appointment |-> events[i].appointment,
                       stored |-> FALSE]}
    BY <1>4, WriteChanges
  <2>2. review' = review /\ \A j \in DOMAIN events : events[j].step # "written"
    BY <1>4, EventTyped DEF WriteRisk, RowIsHeld
  <2>3. \A j \in DOMAIN events' : events'[j].step = "written" => j = i
    BY <2>1, <2>2 DEF Changed
  <2>4. /\ events'[i].appointment = events[i].appointment
        /\ events'[i].link = l /\ i \in DOMAIN events'
    BY <2>1, FieldsOf DEF Changed
  <2>5. CASE l = 0 /\ invitations' = invitations
    BY <2>2, <2>3, <2>4, <2>5 DEF LinksAreNew, InvitationsWork
  <2>6. CASE l = n + 1 /\ invitations' # invitations
    <3> DEFINE a == events[i].appointment
               new == [link |-> l, appointment |-> a, stored |-> FALSE]
    <3>1. new \notin invitations
      BY <1>1, <2>6 DEF LinksAreNew
    <3>2. invitations' = invitations \cup {new} /\ review[a].link \in {0, l}
      BY <2>1, <2>6
    <3>3. Cardinality(invitations') = n + 1
      BY <1>1, <3>1, <3>2, FS_AddElement
    <3>4. a \in Appointments
      BY EventTyped DEF EventRow
    <3>5. review[a].link = 0
      BY <1>1, <1>3, <2>6, <3>2, <3>4 DEF LinksAreNew
    <3>6. \A v \in invitations : v.link <= n /\ v.link \in Nat /\ v.link # l
      BY <1>1, <1>2, <2>6 DEF LinksAreNew
    <3>7. \A v, w \in invitations' : v.link = w.link => v = w
      <4>1. new.link = l
        OBVIOUS
      <4>2. \A v, w \in invitations : v.link = w.link => v = w
        BY DEF LinksAreNew
      <4> HIDE DEF new
      <4> QED
        BY <3>2, <3>6, <4>1, <4>2
    <3>8. \A v \in invitations' : v.link <= n + 1
      BY <1>1, <2>6, <3>2, <3>6
    <3>9. \A x \in Appointments : review[x].link <= n + 1
      BY <1>1, <1>3 DEF LinksAreNew
    <3>10. \A v \in invitations' : v.link = l => v.appointment = a
      BY <3>2, <3>6
    <3>11. LinksAreNew'
      BY <2>2, <2>3, <2>4, <2>6, <3>3, <3>5, <3>7, <3>8, <3>9, <3>10
      DEF LinksAreNew
    <3>12. InvitationsWork'
      BY <2>2, <3>2 DEF InvitationsWork
    <3> QED
      BY <3>11, <3>12
  <2>7. CASE l = n + 1 /\ invitations' = invitations
    <3>1. [link |-> l, appointment |-> events[i].appointment,
           stored |-> FALSE] \in invitations
      BY <1>1, <2>1, <2>7
    <3> QED
      BY <1>1, <2>7, <3>1 DEF LinksAreNew
  <2> QED
    BY <1>1, <2>1, <2>5, <2>6, <2>7
<1>5. ASSUME NEW i \in DOMAIN events, CommitRisk(i)
      PROVE  LinksAreNew' /\ InvitationsWork'
  <2> DEFINE e == events[i]
  <2>1. e \in EventRow /\ e.step = "written"
    BY <1>5, EventTyped DEF CommitRisk
  <2>2. \A j \in DOMAIN events' : events'[j].step # "written"
    BY <1>5, <2>1, CommitChanges, FieldsOf DEF Changed, RowIsHeld
  <2>3. CASE e.link = 0
    BY <1>5, <2>2, <2>3 DEF CommitRisk, LinksAreNew, InvitationsWork
  <2>4. CASE e.link # 0
    <3>1. /\ e.appointment \in Appointments /\ e.link \in Nat /\ e.link <= n
          /\ review[e.appointment].link = 0
          /\ \A v \in invitations :
               v.link = e.link => v.appointment = e.appointment
      BY <2>1, <2>4 DEF LinksAreNew, EventRow
    <3>2. /\ review' = [review EXCEPT ![e.appointment].link = e.link]
          /\ invitations' = Stored(e.link)
      BY <1>5, <2>4 DEF CommitRisk
    <3>3. \A x \in Appointments :
            review'[x].link = IF x = e.appointment THEN e.link ELSE review[x].link
      BY <1>3, <3>1, <3>2
    <3>4. Cardinality(invitations') = n
      BY <3>2, StoredTyped DEF LinksAreNew
    <3>5. \A v \in invitations' : v.link <= n
      BY <3>2, StoredFields DEF LinksAreNew
    <3>6. ASSUME NEW v \in invitations', NEW w \in invitations', v.link = w.link
          PROVE  v = w
      <4>1. PICK x \in invitations :
              v = [x EXCEPT !.stored = @ \/ x.link = e.link] /\ v.link = x.link
        BY <3>2, StoredFields
      <4>2. PICK y \in invitations :
              w = [y EXCEPT !.stored = @ \/ y.link = e.link] /\ w.link = y.link
        BY <3>2, StoredFields
      <4>3. x = y
        BY <3>6, <4>1, <4>2 DEF LinksAreNew
      <4> QED
        BY <4>1, <4>2, <4>3
    <3>7. \A x \in Appointments : review'[x].link <= n
      BY <3>1, <3>3 DEF LinksAreNew
    <3>8. LinksAreNew'
      BY <2>2, <3>4, <3>5, <3>6, <3>7 DEF LinksAreNew
    <3>9. ASSUME NEW w \in invitations', w.stored
          PROVE  review'[w.appointment].link = w.link
      <4>1. PICK v \in invitations :
              /\ w.link = v.link /\ w.appointment = v.appointment
              /\ v.stored \/ v.link = e.link
        BY <3>2, <3>9, StoredFields
      <4>2. v.appointment \in Appointments /\ v.link # 0
        BY <1>1 DEF Invitation
      <4>3. CASE v.stored
        BY <3>1, <3>3, <4>1, <4>2, <4>3 DEF InvitationsWork
      <4>4. CASE v.link = e.link
        BY <3>1, <3>3, <4>1, <4>2, <4>4
      <4> QED
        BY <4>1, <4>3, <4>4
    <3> QED
      BY <3>8, <3>9 DEF InvitationsWork
  <2> QED
    BY <2>3, <2>4
<1>6. ASSUME invitations' = invitations,
             \A a \in Appointments : review'[a].link = review[a].link,
             \A i \in DOMAIN events' : events'[i].step = "written" =>
               i \in DOMAIN events /\ events'[i] = events[i]
      PROVE  LinksAreNew' /\ InvitationsWork'
  <2>1. /\ \A v \in invitations : v.appointment \in Appointments
        /\ \A i \in DOMAIN events : events[i].appointment \in Appointments
    BY <1>1, EventTyped DEF Invitation, EventRow
  <2>2. InvitationsWork'
    BY <1>6, <2>1 DEF InvitationsWork
  <2>3. LinksAreNew'
    BY <1>6, <2>1 DEF LinksAreNew
  <2> QED
    BY <2>2, <2>3
<1> QED
  BY <1>4, <1>5, <1>6, ReviewSteps

\* The link of a mail that asks for a review keeps working, for any number of
\* handlers that complete the appointment again, fail and start over.
THEOREM InvitationsKeepWorking == Spec => []InvitationsWork
<1>1. Init => TypeOK /\ RowIsHeld /\ LinksAreNew /\ InvitationsWork
  <2>1. Init => LinksAreNew /\ InvitationsWork
    BY FS_EmptySet DEF Init, LinksAreNew, InvitationsWork, NoReview
  <2> QED
    BY <2>1, InitTyped, InitFits
<1>2. TypeOK /\ RowIsHeld /\ LinksAreNew /\ InvitationsWork /\ [Next]_vars
        => TypeOK' /\ RowIsHeld' /\ LinksAreNew' /\ InvitationsWork'
  BY NextTyped, RowStaysHeld, LinksStayNew
<1> QED
  BY <1>1, <1>2, PTL DEF Spec
-----------------------------------------------------------------------------
(* What is settled                                                         *)

\* The steps that touch the requests or what they write.
LEMMA RequestSteps ==
  ASSUME TypeOK, [Next]_vars
  PROVE  \/ \E h \in Handlers : Check(h) \/ Write(h) \/ Drop(h)
         \/ \E a \in Appointments : SubmitPayment(a)
         \/ \E l \in 1..MaxLinks : RequestLink(l) \/ ExpireLink(l)
         \/ \E i \in DOMAIN events : CommitRisk(i)
         \/ UNCHANGED <<review, payment, link, request, alone>>
<1> DEFINE Same == UNCHANGED <<review, payment, link, request, alone>>
<1> USE DEF requests
<1>1. BecomeInactive \/ EndCooldown \/ Upsert => Same
  BY DEF BecomeInactive, EndCooldown, Upsert
<1>2. ASSUME NEW b, RequireDeposit(b) PROVE Same
  BY <1>2 DEF RequireDeposit
<1>3. ASSUME NEW a, NEW t, SetStatus(a, t) PROVE Same
  BY <1>3 DEF SetStatus
<1>4. ASSUME NEW i, ReadAttendance(i) \/ WriteRisk(i) \/ FailRisk(i) PROVE Same
  BY <1>4 DEF ReadAttendance, WriteRisk, FailRisk
<1>5. ASSUME NEW r, Campaign(r) PROVE Same
  BY <1>5 DEF Campaign, Claim, SendLetter, StoreToken, EndRun
<1>6. ASSUME NEW l, Unsubscribe(l) PROVE Same
  BY <1>6 DEF Unsubscribe
<1>7. UNCHANGED vars => Same
  BY DEF vars
<1> HIDE DEF Same
<1>8. \/ \E h \in Handlers : Check(h) \/ Write(h) \/ Drop(h)
      \/ \E a \in Appointments : SubmitPayment(a)
      \/ \E l \in 1..MaxLinks : RequestLink(l) \/ ExpireLink(l)
      \/ \E i \in DOMAIN events : CommitRisk(i)
      \/ Same
  BY <1>1, <1>2, <1>3, <1>4, <1>5, <1>6, <1>7 DEF Next, Owner, HandleEvent
<1> QED
  BY <1>8 DEF Same

\* What a request must have found to begin.
Found(q) ==
  /\ q.step = "payment" => payment[q.of] \notin Closed \cup {"none"}
  /\ q.step = "review" => review[q.of].rating = 0 /\ review[q.of].link # 0
  /\ q.step = "link" => link[q.of] \in {"valid", "expired"}

LEMMA CheckFinds ==
  ASSUME TypeOK, NEW h \in Handlers, Check(h)
  PROVE  \E q \in RequestState : Begin(h, q) /\ Found(q)
<1>1. ASSUME NEW a \in Appointments, NEW s \in {"confirmed"} \cup Closed,
             ReadPayment(h, a, s)
      PROVE  \E q \in RequestState : Begin(h, q) /\ Found(q)
  <2> DEFINE q == [step |-> "payment", of |-> a, next |-> s]
  <2>1. q \in RequestState
    BY DEF RequestState, PaymentRequest, Payments
  <2>2. Found(q)
    BY <1>1 DEF ReadPayment, MayBecome, Found
  <2> QED
    BY <1>1, <2>1, <2>2 DEF ReadPayment
<1>2. ASSUME NEW v \in invitations, NEW n \in 1..2, ReadReview(h, v, n)
      PROVE  \E q \in RequestState : Begin(h, q) /\ Found(q)
  <2> DEFINE q == [step |-> "review", of |-> v.appointment, next |-> n]
  <2>1. v.appointment \in Appointments /\ v.link # 0
    BY DEF TypeOK, Invitation
  <2>2. q \in RequestState
    BY <2>1 DEF RequestState, ReviewRequest
  <2>3. Found(q)
    BY <1>2, <2>1 DEF ReadReview, Found
  <2> QED
    BY <1>2, <2>2, <2>3 DEF ReadReview
<1>3. ASSUME NEW l \in 1..MaxLinks, ReadLink(h, l)
      PROVE  \E q \in RequestState : Begin(h, q) /\ Found(q)
  <2> DEFINE q == [step |-> "link", of |-> l]
  <2>1. q \in RequestState
    BY DEF RequestState, LinkRequest
  <2>2. Found(q)
    BY <1>3 DEF ReadLink, Found
  <2> QED
    BY <1>3, <2>1, <2>2 DEF ReadLink
<1> QED
  BY <1>1, <1>2, <1>3 DEF Check

\* Each kind of request names what it is for.
LEMMA RequestTyped ==
  ASSUME TypeOK, NEW h \in Handlers
  PROVE  /\ request[h].step = "payment" =>
              request[h].of \in Appointments /\ request[h] # Idle
         /\ request[h].step = "review" =>
              /\ request[h].of \in Appointments /\ request[h] # Idle
              /\ request[h].next \in 1..2
         /\ request[h].step = "link" =>
              request[h].of \in 1..MaxLinks /\ request[h] # Idle
<1>1. request[h] \in RequestState
  BY DEF TypeOK
<1> QED
  BY <1>1 DEF RequestState, Idle, PaymentRequest, ReviewRequest, LinkRequest

\* What a commit does to the reviews.
LEMMA CommitReviews ==
  ASSUME TypeOK, RowIsHeld, LinksAreNew, NEW i \in DOMAIN events, CommitRisk(i)
  PROVE  /\ UNCHANGED <<payment, link, request, alone>>
         /\ \A a \in Appointments :
              /\ review'[a].rating = review[a].rating
              /\ review[a].link # 0 => review'[a] = review[a]
<1>1. events[i] \in EventRow /\ events[i].step = "written"
  BY EventTyped DEF CommitRisk
<1>2. review \in [Appointments -> [link : Nat, rating : 0..2]]
  BY DEF TypeOK
<1>3. UNCHANGED <<payment, link, request, alone>>
  BY DEF CommitRisk, requests
<1>4. CASE events[i].link = 0
  BY <1>3, <1>4 DEF CommitRisk
<1>5. CASE events[i].link # 0
  <2>1. review[events[i].appointment].link = 0
    BY <1>1, <1>5 DEF LinksAreNew
  <2>2. review' = [review EXCEPT ![events[i].appointment].link = events[i].link]
    BY <1>5 DEF CommitRisk
  <2> QED
    BY <1>2, <1>3, <2>1, <2>2
<1> QED
  BY <1>4, <1>5

LEMMA FoundStays ==
  ASSUME TypeOK, RowIsHeld, LinksAreNew, ReviewedByLink, FoundIsSo, [Next]_vars
  PROVE  ReviewedByLink' /\ FoundIsSo'
<1>1. request \in [Handlers -> RequestState] /\ "idle" \notin
        {"payment", "review", "link"}
  BY DEF TypeOK
<1>2. ASSUME NEW h \in Handlers, Check(h) PROVE ReviewedByLink' /\ FoundIsSo'
  <2>1. PICK q \in RequestState : Begin(h, q) /\ Found(q)
    BY <1>2, CheckFinds
  <2>2. /\ request' = [request EXCEPT ![h] = q]
        /\ UNCHANGED <<review, payment, link>>
        /\ alone' => alone /\ \A g \in Handlers :
             request[g] = Idle \/ request[g].step # q.step
                               \/ request[g].of # q.of
    BY <2>1 DEF Begin
  <2>3. \A g \in Handlers : request'[g] = IF g = h THEN q ELSE request[g]
    BY <1>1, <2>2
  <2>4. ReviewedByLink'
    BY <2>1, <2>2, <2>3 DEF ReviewedByLink, Found
  <2>5. FoundIsSo'
    BY <2>1, <2>2, <2>3 DEF FoundIsSo, Found
  <2> QED
    BY <2>4, <2>5
<1>3. ASSUME NEW h \in Handlers, Drop(h) PROVE ReviewedByLink' /\ FoundIsSo'
  <2>1. /\ UNCHANGED <<review, payment, link, alone>>
        /\ \A g \in Handlers : request'[g] = IF g = h THEN Idle ELSE request[g]
    BY <1>1, <1>3 DEF Drop, Finish
  <2> QED
    BY <2>1 DEF ReviewedByLink, FoundIsSo, Idle
<1>4. ASSUME NEW h \in Handlers, Write(h) PROVE ReviewedByLink' /\ FoundIsSo'
  <2> DEFINE x == request[h].of
  <2>1. /\ alone' = alone
        /\ \A g \in Handlers : request'[g] = IF g = h THEN Idle ELSE request[g]
    BY <1>1, <1>4 DEF Write, WritePayment, WriteReview, WriteLink, Finish
  <2>2. \A g \in Handlers : request'[g].step \in {"payment", "review", "link"}
          => g # h /\ request'[g] = request[g] /\ request[g] # Idle
    BY <2>1 DEF Idle
  <2>3. CASE WritePayment(h)
    <3>1. /\ UNCHANGED <<review, link>> /\ request[h] # Idle
          /\ request[h].step = "payment"
          /\ \A a \in Appointments : a # x => payment'[a] = payment[a]
      BY <2>3, RequestTyped DEF WritePayment, TypeOK
    <3>2. ReviewedByLink'
      BY <2>2, <3>1 DEF ReviewedByLink
    <3>3. FoundIsSo'
      BY <2>1, <2>2, <3>1, RequestTyped DEF FoundIsSo, Idle
    <3> QED
      BY <3>2, <3>3
  <2>4. CASE WriteReview(h)
    <3>1. /\ UNCHANGED <<payment, link>> /\ request[h] # Idle
          /\ request[h].step = "review" /\ x \in Appointments
      BY <2>4, RequestTyped DEF WriteReview
    <3>2. \A a \in Appointments :
            /\ review'[a].link = review[a].link
            /\ a # x => review'[a] = review[a]
      BY <2>4 DEF WriteReview, TypeOK
    <3>3. ReviewedByLink'
      <4>1. review[x].link # 0
        BY <3>1 DEF ReviewedByLink
      <4>2. \A a \in Appointments : review'[a].rating # 0 => review'[a].link # 0
        BY <3>2, <4>1 DEF ReviewedByLink
      <4>3. \A g \in Handlers : request'[g].step = "review" =>
              review'[request'[g].of].link # 0
        BY <2>2, <3>2, RequestTyped DEF ReviewedByLink
      <4> QED
        BY <4>2, <4>3 DEF ReviewedByLink
    <3>4. FoundIsSo'
      BY <2>1, <2>2, <3>1, <3>2, RequestTyped DEF FoundIsSo, Idle
    <3> QED
      BY <3>3, <3>4
  <2>5. CASE WriteLink(h)
    <3>1. /\ UNCHANGED <<payment, review>> /\ request[h] # Idle
          /\ request[h].step = "link" /\ x \in 1..MaxLinks
          /\ \A l \in 1..MaxLinks :
               /\ l # x => link'[l] = link[l]
               /\ l = x /\ link[l] \in {"valid", "expired"} => link'[l] = "used"
      BY <2>5, RequestTyped DEF WriteLink, TypeOK
    <3>2. ReviewedByLink'
      BY <2>2, <3>1 DEF ReviewedByLink
    <3>3. FoundIsSo'
      BY <2>1, <2>2, <3>1, RequestTyped DEF FoundIsSo, Idle
    <3> QED
      BY <3>2, <3>3
  <2> QED
    BY <1>4, <2>3, <2>4, <2>5 DEF Write
<1>5. ASSUME NEW a \in Appointments, SubmitPayment(a)
      PROVE  ReviewedByLink' /\ FoundIsSo'
  <2>1. /\ UNCHANGED <<review, link, request, alone>>
        /\ \A b \in Appointments :
             payment'[b] = payment[b] \/ payment'[b] = "submitted"
    BY <1>5 DEF SubmitPayment, requests, TypeOK
  <2>2. \A h \in Handlers : request[h].step = "payment" =>
          request[h].of \in Appointments
    BY RequestTyped
  <2> QED
    BY <2>1, <2>2 DEF ReviewedByLink, FoundIsSo, Closed
<1>6. ASSUME NEW l \in 1..MaxLinks, RequestLink(l) \/ ExpireLink(l)
      PROVE  ReviewedByLink' /\ FoundIsSo'
  <2>1. /\ UNCHANGED <<review, payment, request, alone>>
        /\ \A k \in 1..MaxLinks :
             link'[k] = link[k] \/ link'[k] \in {"valid", "expired"}
    BY <1>6 DEF RequestLink, ExpireLink, requests, TypeOK
  <2>2. \A h \in Handlers : request[h].step = "link" =>
          request[h].of \in 1..MaxLinks
    BY RequestTyped
  <2> QED
    BY <2>1, <2>2 DEF ReviewedByLink, FoundIsSo
<1>7. ASSUME NEW i \in DOMAIN events, CommitRisk(i)
      PROVE  ReviewedByLink' /\ FoundIsSo'
  <2>1. /\ UNCHANGED <<payment, link, request, alone>>
        /\ \A a \in Appointments :
             /\ review'[a].rating = review[a].rating
             /\ review[a].link # 0 => review'[a] = review[a]
    BY <1>7, CommitReviews
  <2>2. \A h \in Handlers : request[h].step = "review" =>
          request[h].of \in Appointments
    BY RequestTyped
  <2> QED
    BY <2>1, <2>2 DEF ReviewedByLink, FoundIsSo
<1>8. ASSUME UNCHANGED <<review, payment, link, request, alone>>
      PROVE  ReviewedByLink' /\ FoundIsSo'
  BY <1>8 DEF ReviewedByLink, FoundIsSo
<1> QED
  BY <1>2, <1>3, <1>4, <1>5, <1>6, <1>7, <1>8, RequestSteps

\* Nothing subscribes a customer again, and no campaign claims one who is not.
LEMMA StaysAway ==
  ASSUME TypeOK, [Next]_vars, customer.optOut
  PROVE  /\ customer'.optOut
         /\ \A r \in Runs : run[r] = Idle => run'[r] = Idle
<1> DEFINE Away == /\ customer'.optOut
                   /\ \A r \in Runs : run[r] = Idle => run'[r] = Idle
<1> USE DEF mailing, risk, requests
<1>1. customer \in CustomerRow /\ run \in [Runs -> RunState]
  BY DEF TypeOK
<1>2. BecomeInactive \/ EndCooldown \/ Upsert => Away
  BY <1>1 DEF BecomeInactive, EndCooldown, Upsert, Upserted, CustomerRow
<1>3. ASSUME NEW b, RequireDeposit(b) PROVE Away
  BY <1>1, <1>3 DEF RequireDeposit, CustomerRow
<1>4. ASSUME NEW a, NEW t, SetStatus(a, t) PROVE Away
  BY <1>4 DEF SetStatus
<1>5. ASSUME NEW i, HandleEvent(i) PROVE Away
  <2>1. customer'.optOut
    BY <1>1, <1>5 DEF HandleEvent, ReadAttendance, WriteRisk, CommitRisk,
                      FailRisk, CustomerRow
  <2>2. run' = run
    BY <1>5 DEF HandleEvent, ReadAttendance, WriteRisk, CommitRisk, FailRisk
  <2> QED
    BY <2>1, <2>2
<1>6. ASSUME NEW r \in Runs, Campaign(r) PROVE Away
  <2>1. ~Claim(r)
    BY DEF Claim, Due
  <2>2. SendLetter(r) => run[r] # Idle
    BY DEF SendLetter, Idle
  <2>3. customer'.optOut
    BY <1>1, <1>6, <2>1
    DEF Campaign, SendLetter, StoreToken, EndRun, CustomerRow
  <2> QED
    BY <1>1, <1>6, <2>1, <2>2, <2>3
    DEF Campaign, SendLetter, StoreToken, EndRun
<1>7. ASSUME NEW l, Unsubscribe(l) PROVE Away
  BY <1>1, <1>7 DEF Unsubscribe, CustomerRow
<1>8. ASSUME NEW x, SubmitPayment(x) \/ RequestLink(x) \/ ExpireLink(x)
      PROVE  Away
  BY <1>8 DEF SubmitPayment, RequestLink, ExpireLink
<1>9. ASSUME NEW h, Check(h) \/ Write(h) \/ Drop(h) PROVE Away
  BY <1>9 DEF Check, ReadPayment, ReadReview, ReadLink, Begin, Drop, Write,
              WritePayment, WriteReview, WriteLink
<1>10. UNCHANGED vars => Away
  BY DEF vars
<1> HIDE DEF Away
<1>11. Away
  BY <1>2, <1>3, <1>4, <1>5, <1>6, <1>7, <1>8, <1>9, <1>10 DEF Next, Owner
<1> QED
  BY <1>11 DEF Away

\* Of the requests, only one that has found it open writes what is settled.
LEMMA StaysClosed ==
  ASSUME TypeOK, RowIsHeld, LinksAreNew, ReviewedByLink, FoundIsSo, [Next]_vars,
         alone', NEW a \in Appointments
  PROVE  /\ payment[a] \in Closed => payment'[a] = payment[a]
         /\ review[a].rating # 0 => review'[a] = review[a]
<1>1. ASSUME NEW h \in Handlers, WritePayment(h)
      PROVE  payment[a] \in Closed => payment'[a] = payment[a]
  <2>1. alone /\ request[h].step = "payment"
    BY <1>1 DEF WritePayment, Finish
  <2>2. payment[request[h].of] \notin Closed
    BY <2>1 DEF FoundIsSo
  <2> QED
    BY <1>1, <2>2 DEF WritePayment, TypeOK
<1>2. ASSUME NEW h \in Handlers, WriteReview(h)
      PROVE  review[a].rating # 0 => review'[a] = review[a]
  <2>1. alone /\ request[h].step = "review"
    BY <1>2 DEF WriteReview, Finish
  <2>2. review[request[h].of].rating = 0
    BY <2>1 DEF FoundIsSo
  <2> QED
    BY <1>2, <2>2 DEF WriteReview, TypeOK
<1>3. ASSUME NEW h \in Handlers, Check(h) \/ Write(h) \/ Drop(h)
      PROVE  /\ WritePayment(h) \/ payment' = payment
             /\ WriteReview(h) \/ review' = review
  BY <1>3 DEF Check, ReadPayment, ReadReview, ReadLink, Begin, Drop, Write,
              WritePayment, WriteReview, WriteLink
<1>4. ASSUME NEW b \in Appointments, SubmitPayment(b)
      PROVE  /\ payment[a] \in Closed => payment'[a] = payment[a]
             /\ review' = review
  BY <1>4 DEF SubmitPayment, Closed, TypeOK
<1>5. ASSUME NEW l, RequestLink(l) \/ ExpireLink(l)
      PROVE  payment' = payment /\ review' = review
  BY <1>5 DEF RequestLink, ExpireLink
<1>6. ASSUME NEW i \in DOMAIN events, CommitRisk(i)
      PROVE  /\ payment' = payment
             /\ review[a].rating # 0 => review'[a] = review[a]
  BY <1>6, CommitReviews DEF ReviewedByLink
<1> QED
  BY <1>1, <1>2, <1>3, <1>4, <1>5, <1>6, RequestSteps

\* A customer who unsubscribed stays away from every campaign, and what is
\* closed, submitted or used stays so, for any number of handlers whose requests
\* do not work on one thing together.
THEOREM SettledThingsStay == Spec => SettledStays
<1> DEFINE IInv == /\ TypeOK /\ RowIsHeld /\ LinksAreNew /\ InvitationsWork
                   /\ ReviewedByLink /\ FoundIsSo
<1>1. Init => IInv
  <2>1. Init => LinksAreNew /\ InvitationsWork
    BY FS_EmptySet DEF Init, LinksAreNew, InvitationsWork, NoReview
  <2>2. Init => ReviewedByLink /\ FoundIsSo
    BY DEF Init, ReviewedByLink, FoundIsSo, NoReview, Idle
  <2> QED
    BY <2>1, <2>2, InitTyped, InitFits
<1>2. IInv /\ [Next]_vars => IInv'
  BY NextTyped, RowStaysHeld, LinksStayNew, FoundStays
<1>3. ASSUME IInv, [Next]_vars
      PROVE  /\ customer.optOut =>
                  /\ customer'.optOut
                  /\ \A r \in Runs : run[r] = Idle => run'[r] = Idle
             /\ alone' =>
                  /\ \A a \in Appointments :
                       /\ payment[a] \in Closed => payment'[a] = payment[a]
                       /\ review[a].rating # 0 => review'[a] = review[a]
                  /\ \A l \in 1..MaxLinks : link'[l] # "reused"
  <2>1. FoundIsSo'
    BY <1>3, FoundStays
  <2>2. alone' => \A l \in 1..MaxLinks : link'[l] # "reused"
    BY <2>1 DEF FoundIsSo
  <2> QED
    BY <1>3, <2>2, StaysAway, StaysClosed
<1>4. Spec => []IInv
  BY <1>1, <1>2, PTL DEF Spec
<1> QED
  BY <1>3, <1>4, PTL DEF Spec, SettledStays
=============================================================================
