-------------------------- MODULE Followups_proofs --------------------------
(***************************************************************************)
(* Proofs about Followups, for every set of slots, every finite set of     *)
(* runs of the reminder job, any limit of attempts and any number of       *)
(* changes and faults.                                                     *)
(*                                                                         *)
(* RepeatsAreBounded takes a count of what may still be mailed (FewMails)  *)
(* and one of the events in Google that no row tells of (FewExtra), which  *)
(* rests on who has the calendar lock (OneLock).  InOrderAgrees takes what *)
(* holds while one handler works at a time (Orderly).                      *)
(***************************************************************************)
EXTENDS Followups, FiniteSetTheorems, SequenceTheorems, TLAPS

Types == {"Booked", "Rescheduled", "Cancelled"}
Steps == {"waiting", "read", "call", "locked", "remind", "commit", "done"}

EventRow ==
  [type : Types, slot : Slots, step : Steps, upserts : BOOLEAN,
   target : [to : Nat, slot : Slots \cup {NoSlot}],
   record : [to : Nat, status : {None, "synced", "deleted", "failed"},
             id : Nat],
   denied : BOOLEAN]

ReminderRow ==
  [status : {None, "pending", "sent", "failed"}, slot : Slots,
   next : {"never", "later", "passed"}, attempts : Nat, schedule : Nat]

SenderState ==
  {Idle} \cup [step : {"send", "sent", "failed"}, schedule : Nat,
               attempts : Nat]

InCalendar == [id : Nat, slot : Slots \cup {NoSlot}]

TypeOK ==
  /\ appointment \in [status : {"active", "cancelled"}, slot : Slots]
  /\ connection \in [id : Nat \ {0}, status : {"connected", "absent", "error"}]
  /\ queueing \in Slots \cup {NoSlot}
  /\ events \in Seq(EventRow) /\ events # <<>>
  /\ reminder \in ReminderRow
  /\ sender \in [Senders -> SenderState]
  /\ mails \in Seq(Nat)
  /\ google \subseteq InCalendar /\ IsFiniteSet(google)
  /\ created \in Nat /\ unrecorded \in Nat
  /\ sync \in [status : {None, "synced", "deleted", "failed"}, id : Nat]
  /\ metrics \in [Slots -> {None, "active", "cancelled"}]
  /\ inOrder \in BOOLEAN
  /\ changes \in Nat /\ faults \in Nat

\* What the step of a handler says of the rest of its row.
StepFits(e) ==
  /\ e.step \in {"waiting", "done"} =>
       /\ ~e.upserts /\ ~e.denied
       /\ e.target = NoTarget /\ e.record = NoRecord
  /\ e.step \in {"call", "locked"} => e.target.to # 0
  /\ e.step \in {"read", "call", "locked"} => e.record = NoRecord
  /\ e.record # NoRecord =>
       /\ e.record.to = e.target.to /\ e.target.to = connection.id
       /\ connection.status # "absent"
  /\ e.denied => e.record # NoRecord
  /\ e.upserts => e.type # "Cancelled"
  /\ e.step = "commit" => (e.upserts <=> e.type # "Cancelled")
  /\ e.step = "remind" => e.type = "Rescheduled"
  /\ e.step = "read" => e.type = "Booked"
  /\ e.type = "Booked" /\ e.step \notin {"waiting", "done"} => e.upserts

StepsFit == \A i \in DOMAIN events : StepFits(events[i])

\* The calendar lock of a connection is held once.
OneLock ==
  \A i, j \in DOMAIN events :
    i # j /\ HasLock(i) /\ HasLock(j) =>
      events[i].target.to # events[j].target.to
-----------------------------------------------------------------------------
(* Types                                                                   *)

\* The events after one of them is changed, or one is added.
Changed(i, e) ==
  /\ DOMAIN events' = DOMAIN events /\ Len(events') = Len(events)
  /\ \A j \in DOMAIN events : events'[j] = IF j = i THEN e ELSE events[j]

Added(e) ==
  /\ Len(events') = Len(events) + 1
  /\ DOMAIN events' = DOMAIN events \cup {Len(events) + 1}
  /\ Len(events) + 1 \notin DOMAIN events
  /\ events'[Len(events) + 1] = e
  /\ \A i \in DOMAIN events : events'[i] = events[i]

LEMMA EventsTyped ==
  ASSUME TypeOK
  PROVE  /\ Len(events) \in Nat \ {0} /\ DOMAIN events = 1..Len(events)
         /\ \A i \in DOMAIN events : events[i] \in EventRow
<1>1. events \in Seq(EventRow) /\ events # <<>>
  BY DEF TypeOK
<1>2. Len(events) \in Nat /\ DOMAIN events = 1..Len(events)
  BY <1>1, LenProperties
<1>3. Len(events) # 0
  BY <1>1, EmptySeq
<1>4. \A i \in 1..Len(events) : events[i] \in EventRow
  BY <1>1, ElementOfSeq
<1> QED
  BY <1>2, <1>3, <1>4

LEMMA EventAdded ==
  ASSUME TypeOK, NEW e \in EventRow, events' = Append(events, e)
  PROVE  events' \in Seq(EventRow) /\ events' # <<>> /\ Added(e)
<1>1. events \in Seq(EventRow) /\ Len(events) \in Nat
  BY EventsTyped DEF TypeOK
<1>2. /\ events' \in Seq(EventRow) /\ Len(events') = Len(events) + 1
      /\ \A i \in 1..Len(events) : events'[i] = events[i]
      /\ events'[Len(events) + 1] = e
  BY <1>1
<1>3. DOMAIN events' = 1..(Len(events) + 1) /\ events' # <<>>
  BY <1>1, <1>2, LenProperties, EmptySeq
<1> QED
  BY <1>1, <1>2, <1>3, EventsTyped DEF Added

LEMMA EventChanged ==
  ASSUME TypeOK, NEW i \in DOMAIN events, NEW e \in EventRow,
         events' = [events EXCEPT ![i] = e]
  PROVE  events' \in Seq(EventRow) /\ events' # <<>> /\ Changed(i, e)
<1>1. events \in Seq(EventRow) /\ i \in 1..Len(events)
  BY EventsTyped DEF TypeOK
<1>2. events' \in Seq(EventRow) /\ Len(events') = Len(events)
  BY <1>1, ExceptSeq
<1>3. DOMAIN events' = DOMAIN events /\ events' # <<>>
  BY <1>1, <1>2, EventsTyped, LenProperties, EmptySeq
<1> QED
  BY <1>2, <1>3 DEF Changed

\* What the steps of a handler make of its row.
RemindRow(e) ==
  [e EXCEPT !.upserts = TRUE,
            !.step = IF e.type = "Booked" THEN "read" ELSE "commit"]

TargetRow(e) ==
  IF connection.status = "connected"
  THEN [e EXCEPT !.step = "call",
                 !.target = [slot |-> appointment.slot, to |-> connection.id]]
  ELSE [e EXCEPT !.step = AfterCall(e)]

RecordRow(e, status, id, denied) ==
  [e EXCEPT !.step = AfterCall(e), !.denied = denied,
            !.record = [to |-> e.target.to, status |-> status, id |-> id]]

DoneRow(e) == [Waiting(e) EXCEPT !.step = "done"]

LockedRow(e) == [e EXCEPT !.step = "locked"]

KeepsEvent(e, new) == new.type = e.type /\ new.slot = e.slot

Cleared(new) ==
  /\ ~new.upserts /\ ~new.denied
  /\ new.target = NoTarget /\ new.record = NoRecord

LEMMA RowsTyped ==
  ASSUME TypeOK, NEW e \in EventRow
  PROVE  /\ LET new == RemindRow(e) IN
              /\ new \in EventRow /\ KeepsEvent(e, new)
              /\ new.step = IF e.type = "Booked" THEN "read" ELSE "commit"
              /\ new.upserts /\ new.target = e.target
              /\ new.record = e.record /\ new.denied = e.denied
         /\ LET new == TargetRow(e) IN
              /\ new \in EventRow /\ KeepsEvent(e, new)
              /\ new.upserts = e.upserts /\ new.record = e.record
              /\ new.denied = e.denied
              /\ IF connection.status = "connected"
                 THEN /\ new.step = "call"
                      /\ new.target.to = connection.id
                      /\ new.target.slot = appointment.slot
                 ELSE new.step = AfterCall(e) /\ new.target = e.target
         /\ LET new == DoneRow(e) IN
              /\ new \in EventRow /\ KeepsEvent(e, new) /\ Cleared(new)
              /\ new.step = "done"
         /\ LET new == Waiting(e) IN
              /\ new \in EventRow /\ KeepsEvent(e, new) /\ Cleared(new)
              /\ new.step = "waiting"
         /\ LET new == LockedRow(e) IN
              /\ new \in EventRow /\ KeepsEvent(e, new)
              /\ new.step = "locked" /\ new.upserts = e.upserts
              /\ new.target = e.target /\ new.record = e.record
              /\ new.denied = e.denied
<1> USE DEF EventRow, KeepsEvent, Cleared
<1>1. LET new == RemindRow(e) IN
        /\ new \in EventRow /\ KeepsEvent(e, new)
        /\ new.step = IF e.type = "Booked" THEN "read" ELSE "commit"
        /\ new.upserts /\ new.target = e.target
        /\ new.record = e.record /\ new.denied = e.denied
  BY DEF RemindRow, Steps
<1>2. LET new == TargetRow(e) IN
        /\ new \in EventRow /\ KeepsEvent(e, new)
        /\ new.upserts = e.upserts /\ new.record = e.record
        /\ new.denied = e.denied
        /\ IF connection.status = "connected"
           THEN /\ new.step = "call"
                /\ new.target.to = connection.id
                /\ new.target.slot = appointment.slot
           ELSE new.step = AfterCall(e) /\ new.target = e.target
  <2>1. connection.id \in Nat /\ appointment.slot \in Slots
    BY DEF TypeOK
  <2> QED
    BY <2>1 DEF TargetRow, Steps, AfterCall
<1>3. LET new == Waiting(e) IN
        /\ new \in EventRow /\ KeepsEvent(e, new) /\ Cleared(new)
        /\ new.step = "waiting"
  BY DEF Waiting, Event, Steps, NoTarget, NoRecord, None
<1>4. LET new == DoneRow(e) IN
        /\ new \in EventRow /\ KeepsEvent(e, new) /\ Cleared(new)
        /\ new.step = "done"
  BY <1>3 DEF DoneRow, Steps
<1>5. LET new == LockedRow(e) IN
        /\ new \in EventRow /\ KeepsEvent(e, new)
        /\ new.step = "locked" /\ new.upserts = e.upserts
        /\ new.target = e.target /\ new.record = e.record
        /\ new.denied = e.denied
  BY DEF LockedRow, Steps
<1> QED
  BY <1>1, <1>2, <1>3, <1>4, <1>5

LEMMA RecordTyped ==
  ASSUME NEW e \in EventRow, NEW status \in {"synced", "deleted", "failed"},
         NEW id \in Nat, NEW denied \in BOOLEAN
  PROVE  LET new == RecordRow(e, status, id, denied) IN
           /\ new \in EventRow /\ KeepsEvent(e, new)
           /\ new.step = AfterCall(e) /\ new.upserts = e.upserts
           /\ new.target = e.target /\ new.denied = denied
           /\ new.record.to = e.target.to /\ new.record.id = id
           /\ new.record # NoRecord
BY DEF EventRow, KeepsEvent, RecordRow, AfterCall, Steps, NoRecord, None

LEMMA NewTyped ==
  ASSUME NEW type \in Types, NEW t \in Slots
  PROVE  LET new == Event(type, t) IN
           /\ new \in EventRow /\ Cleared(new) /\ new.step = "waiting"
           /\ new.type = type /\ new.slot = t
BY DEF EventRow, Event, Steps, NoTarget, NoRecord, Cleared, None

\* A handler that gets the row of the reminder at last.
GrantedRow(e) == [e EXCEPT !.upserts = TRUE, !.step = "commit"]

LEMMA GrantedTyped ==
  ASSUME NEW e \in EventRow
  PROVE  LET new == GrantedRow(e) IN
           /\ new \in EventRow /\ KeepsEvent(e, new)
           /\ new.step = "commit" /\ new.upserts
           /\ new.target = e.target /\ new.record = e.record
           /\ new.denied = e.denied
BY DEF EventRow, KeepsEvent, GrantedRow, Steps

Becomes(i, e) ==
  events' \in Seq(EventRow) /\ events' # <<>> /\ Changed(i, e)

BothBecome(i, e, j, f) ==
  /\ events' \in Seq(EventRow) /\ events' # <<>>
  /\ DOMAIN events' = DOMAIN events
  /\ \A k \in DOMAIN events :
       events'[k] = IF k = i THEN e ELSE IF k = j THEN f ELSE events[k]

LEMMA HandlerMoves ==
  ASSUME TypeOK, NEW i \in DOMAIN events
  PROVE  /\ Remind(i) => Becomes(i, RemindRow(events[i]))
         /\ ReadTarget(i) => Becomes(i, TargetRow(events[i]))
         /\ Release(i) => Becomes(i, Waiting(events[i]))
         /\ Commit(i) => Becomes(i, DoneRow(events[i]))
<1> DEFINE e == events[i]
<1>1. e \in EventRow /\ events \in Seq(EventRow) /\ i \in 1..Len(events)
  BY EventsTyped DEF TypeOK
<1>2. ASSUME Remind(i)
      PROVE  Becomes(i, RemindRow(e))
  <2>1. events' = [events EXCEPT ![i] = RemindRow(e)]
    BY <1>1, <1>2 DEF Remind, RemindRow, EventRow
  <2> QED
    BY <1>1, <2>1, RowsTyped, EventChanged DEF Becomes
<1>3. ASSUME ReadTarget(i)
      PROVE  Becomes(i, TargetRow(e))
  <2>1. events' = [events EXCEPT ![i] = TargetRow(e)]
    BY <1>1, <1>3 DEF ReadTarget, TargetRow
  <2> QED
    BY <1>1, <2>1, RowsTyped, EventChanged DEF Becomes
<1>4. ASSUME Release(i)
      PROVE  Becomes(i, Waiting(e))
  <2>1. events' = [events EXCEPT ![i] = Waiting(e)]
    BY <1>1, <1>4 DEF Release
  <2> QED
    BY <1>1, <2>1, RowsTyped, EventChanged DEF Becomes
<1>5. ASSUME Commit(i)
      PROVE  Becomes(i, DoneRow(e))
  <2>1. events' = [events EXCEPT ![i] = DoneRow(e)]
    BY <1>5 DEF Commit, DoneRow
  <2> QED
    BY <1>1, <2>1, RowsTyped, EventChanged DEF Becomes
<1> QED
  BY <1>2, <1>3, <1>4, <1>5

LEMMA RecordMoves ==
  ASSUME TypeOK, NEW i \in DOMAIN events,
         NEW status \in {"synced", "deleted", "failed"},
         NEW id \in Nat, NEW denied \in BOOLEAN,
         Record(i, status, id, denied)
  PROVE  Becomes(i, RecordRow(events[i], status, id, denied))
<1>1. events[i] \in EventRow
  BY EventsTyped
<1>2. events' = [events EXCEPT ![i] = RecordRow(events[i], status, id, denied)]
  BY DEF Record, RecordRow
<1>3. RecordRow(events[i], status, id, denied) \in EventRow
  BY <1>1, RecordTyped
<1> QED
  BY <1>2, <1>3, EventChanged DEF Becomes

\* A broken deadlock: one of the two starts again, the other has its lock.
LEMMA DeadlockMoves ==
  ASSUME TypeOK, NEW i \in DOMAIN events, NEW j \in DOMAIN events,
         DeadlockBroken(i, j)
  PROVE  /\ i # j
         /\ \/ /\ BothBecome(i, Waiting(events[i]), j, GrantedRow(events[j]))
               /\ UNCHANGED unrecorded
            \/ /\ BothBecome(j, Waiting(events[j]), i, LockedRow(events[i]))
               /\ unrecorded' = unrecorded + 1
<1>1. events \in Seq(EventRow) /\ i \in 1..Len(events) /\ j \in 1..Len(events)
  BY EventsTyped DEF TypeOK
<1>2. events[i] \in EventRow /\ events[j] \in EventRow
  BY EventsTyped
<1>3. i # j
  BY DEF DeadlockBroken
<1>4. ASSUME NEW k \in DOMAIN events, NEW l \in DOMAIN events, k # l,
             NEW e \in EventRow, NEW f \in EventRow,
             events' = [events EXCEPT ![k] = e, ![l] = f]
      PROVE  BothBecome(k, e, l, f)
  <2> DEFINE half == [events EXCEPT ![k] = e]
  <2>1. k \in 1..Len(events) /\ l \in 1..Len(events)
    BY EventsTyped
  <2>2. /\ half \in Seq(EventRow) /\ Len(half) = Len(events)
        /\ \A m \in 1..Len(events) : half[m] = IF m = k THEN e ELSE events[m]
    BY <1>1, <2>1, ExceptSeq
  <2>3. events' = [half EXCEPT ![l] = f]
    BY <1>4
  <2> HIDE DEF half
  <2>4. /\ events' \in Seq(EventRow) /\ Len(events') = Len(events)
        /\ \A m \in 1..Len(events) : events'[m] = IF m = l THEN f ELSE half[m]
    BY <2>1, <2>2, <2>3, ExceptSeq
  <2>5. DOMAIN events' = DOMAIN events /\ events' # <<>>
    BY <1>1, <2>4, EventsTyped, LenProperties, EmptySeq
  <2> QED
    BY <1>4, <2>2, <2>4, <2>5, EventsTyped DEF BothBecome
<1>5. CASE /\ events' = [events EXCEPT ![i] = Waiting(events[i]),
                                       ![j] = GrantedRow(events[j])]
           /\ UNCHANGED unrecorded
  BY <1>2, <1>3, <1>4, <1>5, RowsTyped, GrantedTyped
<1>6. CASE /\ events' = [events EXCEPT ![j] = Waiting(events[j]),
                                       ![i] = LockedRow(events[i])]
           /\ unrecorded' = unrecorded + 1
  BY <1>2, <1>3, <1>4, <1>6, RowsTyped
<1> QED
  BY <1>3, <1>5, <1>6 DEF DeadlockBroken, GrantedRow, LockedRow

\* What a call does in Google: it creates an event, updates one or deletes.
Creates(e, id, o) ==
  /\ e.type # "Cancelled"
  /\ IF id = 0 THEN google = {} ELSE \A g \in google : g.id # id
  /\ o.google = google \cup {[id |-> created + 1, slot |-> e.target.slot]}
  /\ o.created = created + 1 /\ o.id = created + 1

Updates(e, id, o) ==
  /\ e.type # "Cancelled"
  /\ \E g \in google : g.id = o.id
  /\ id # 0 => o.id = id
  /\ o.google = {[id |-> o.id, slot |-> e.target.slot]}
  /\ o.created = created

Deletes(e, id, o) ==
  /\ e.type = "Cancelled"
  /\ o.google = {g \in google : g.id # id}
  /\ o.created = created /\ o.id = id

LEMMA CallOutcomes ==
  ASSUME TypeOK, NEW e \in EventRow, NEW id \in Nat, NEW o \in Called(e, id)
  PROVE  Creates(e, id, o) \/ Updates(e, id, o) \/ Deletes(e, id, o)
<1> DEFINE slot == e.target.slot
<1>0. created \in Nat
  BY DEF TypeOK
<1>1. Create(slot).google = google \cup {[id |-> created + 1, slot |-> slot]}
      /\ Create(slot).created = created + 1 /\ Create(slot).id = created + 1
  BY DEF Create, Outcome
<1>2. \A k : /\ UpdateEvent(k, slot).google = {[id |-> k, slot |-> slot]}
             /\ UpdateEvent(k, slot).created = created
             /\ UpdateEvent(k, slot).id = k
  BY <1>0 DEF UpdateEvent, Outcome
<1>3. CASE e.type = "Cancelled"
  <2>1. o = Outcome({g \in google : g.id # id}, 0, id)
    BY <1>3 DEF Called, DeleteEvent
  <2> QED
    BY <1>0, <1>3, <2>1 DEF Outcome, Deletes
<1>4. CASE e.type # "Cancelled" /\ o = Create(slot)
           /\ IF id = 0 THEN Listed = {} ELSE id \notin {g.id : g \in google}
  <2>1. IF id = 0 THEN google = {} ELSE \A g \in google : g.id # id
    BY <1>4 DEF Listed
  <2> QED
    BY <1>1, <1>4, <2>1 DEF Creates
<1>5. CASE /\ e.type # "Cancelled"
           /\ \E k \in Listed : o = UpdateEvent(k, slot) /\ (id # 0 => k = id)
  <2>1. PICK k \in Listed : o = UpdateEvent(k, slot) /\ (id # 0 => k = id)
    BY <1>5
  <2>2. \E g \in google : g.id = k
    BY <2>1 DEF Listed
  <2>3. /\ o.google = {[id |-> k, slot |-> slot]}
        /\ o.created = created /\ o.id = k
    BY <1>2, <2>1
  <2> QED
    BY <1>5, <2>1, <2>2, <2>3 DEF Updates
<1>6. e.type # "Cancelled" => o \in UpsertEvent(id, slot)
  BY DEF Called
<1> QED
  BY <1>3, <1>4, <1>5, <1>6 DEF UpsertEvent, Listed

LEMMA OutcomeTyped ==
  ASSUME TypeOK, NEW e \in EventRow, NEW id \in Nat, NEW o \in Called(e, id)
  PROVE  /\ o.google \subseteq InCalendar /\ IsFiniteSet(o.google)
         /\ o.created \in Nat /\ o.id \in Nat
<1> DEFINE slot == e.target.slot
<1>1. /\ google \subseteq InCalendar /\ IsFiniteSet(google) /\ created \in Nat
      /\ slot \in Slots \cup {NoSlot}
  BY DEF TypeOK, EventRow
<1>2. CASE Creates(e, id, o)
  <2>1. [id |-> created + 1, slot |-> slot] \in InCalendar
    BY <1>1 DEF InCalendar
  <2>2. IsFiniteSet(google \cup {[id |-> created + 1, slot |-> slot]})
    BY <1>1, FS_AddElement
  <2> QED
    BY <1>1, <1>2, <2>1, <2>2 DEF Creates
<1>3. CASE Updates(e, id, o)
  <2>1. o.id \in Nat
    BY <1>1, <1>3 DEF Updates, InCalendar
  <2>2. [id |-> o.id, slot |-> slot] \in InCalendar
    BY <1>1, <2>1 DEF InCalendar
  <2>3. IsFiniteSet({[id |-> o.id, slot |-> slot]})
    BY FS_Singleton
  <2> QED
    BY <1>1, <1>3, <2>1, <2>2, <2>3 DEF Updates
<1>4. CASE Deletes(e, id, o)
  <2>1. IsFiniteSet({g \in google : g.id # id})
    BY <1>1, FS_Subset
  <2> QED
    BY <1>1, <1>4, <2>1 DEF Deletes
<1> QED
  BY <1>2, <1>3, <1>4, CallOutcomes

LEMMA InitTyped == Init => TypeOK
<1> SUFFICES ASSUME Init PROVE TypeOK
  OBVIOUS
<1>1. Event("Booked", First) \in EventRow
  BY SlotsAssumption, NewTyped DEF Types
<1>2. events \in Seq(EventRow) /\ events # <<>>
  <2>1. events = <<Event("Booked", First)>>
    BY DEF Init
  <2> QED
    BY <1>1, <2>1
<1>3. IsFiniteSet(google) /\ google \subseteq InCalendar
  BY FS_EmptySet DEF Init
<1>4. mails \in Seq(Nat)
  BY EmptySeq DEF Init
<1> QED
  BY <1>2, <1>3, <1>4, SlotsAssumption
  DEF Init, TypeOK, ReminderRow, SenderState, None

\* The parts of the state that the handlers, and those that others change.
CalendarTyped ==
  /\ google \subseteq InCalendar /\ IsFiniteSet(google)
  /\ created \in Nat /\ unrecorded \in Nat
  /\ sync \in [status : {None, "synced", "deleted", "failed"}, id : Nat]

EventsAre == events \in Seq(EventRow) /\ events # <<>>

LEMMA ApiTyped ==
  ASSUME TypeOK, Api \/ QueueFuture \/ Tick
  PROVE  TypeOK'
<1> USE DEF base, job, calendar, Change
<1>1. ASSUME NEW t \in Slots, Reschedule(t) PROVE TypeOK'
  <2>1. events' \in Seq(EventRow) /\ events' # <<>>
    BY <1>1, NewTyped, EventAdded DEF Reschedule, Types
  <2>2. appointment' \in [status : {"active", "cancelled"}, slot : Slots]
    BY <1>1 DEF Reschedule, TypeOK
  <2>3. /\ UNCHANGED <<connection, queueing, reminder, sender, mails, google,
                      created, unrecorded, sync, metrics, inOrder, faults>>
        /\ changes' = changes + 1
    BY <1>1 DEF Reschedule
  <2> QED
    BY <2>1, <2>2, <2>3 DEF TypeOK
<1>2. CASE Cancel
  <2>1. appointment.slot \in Slots
    BY DEF TypeOK
  <2>2. events' \in Seq(EventRow) /\ events' # <<>>
    BY <1>2, <2>1, NewTyped, EventAdded DEF Cancel, Types
  <2>3. appointment' \in [status : {"active", "cancelled"}, slot : Slots]
    BY <1>2 DEF Cancel, TypeOK
  <2>4. /\ UNCHANGED <<connection, queueing, reminder, sender, mails, google,
                      created, unrecorded, sync, metrics, inOrder, faults>>
        /\ changes' = changes + 1
    BY <1>2 DEF Cancel
  <2> QED
    BY <2>2, <2>3, <2>4 DEF TypeOK
<1>3. CASE Disconnect
  <2>1. connection' \in [id : Nat \ {0},
                         status : {"connected", "absent", "error"}]
    BY <1>3 DEF Disconnect, TypeOK
  <2>2. /\ UNCHANGED <<appointment, queueing, events, reminder, sender, mails,
                      google, created, unrecorded, metrics, faults>>
        /\ changes' = changes + 1 /\ sync' = [status |-> None, id |-> 0]
    BY <1>3 DEF Disconnect
  <2>3. sync' \in [status : {None, "synced", "deleted", "failed"}, id : Nat]
    BY <2>2
  <2>4. inOrder' \in BOOLEAN
    BY <1>3 DEF Disconnect
  <2> QED
    BY <2>1, <2>2, <2>3, <2>4 DEF TypeOK
<1>4. CASE Reconnect
  <2>1. connection' \in [id : Nat \ {0},
                         status : {"connected", "absent", "error"}]
    BY <1>4 DEF Reconnect, TypeOK
  <2>2. queueing' \in Slots \cup {NoSlot}
    BY <1>4 DEF Reconnect, ReadFuture, TypeOK
  <2>3. /\ UNCHANGED <<appointment, events, reminder, sender, mails, google,
                      created, unrecorded, sync, metrics, faults>>
        /\ changes' = changes + 1
    BY <1>4 DEF Reconnect
  <2>4. inOrder' \in BOOLEAN
    BY <1>4 DEF Reconnect
  <2> QED
    BY <2>1, <2>2, <2>3, <2>4 DEF TypeOK
<1>5. CASE SyncFuture
  <2>1. queueing' \in Slots \cup {NoSlot}
    BY <1>5 DEF SyncFuture, ReadFuture, TypeOK
  <2>2. /\ UNCHANGED <<appointment, connection, events, reminder, sender,
                      mails, google, created, unrecorded, sync, metrics,
                      inOrder, faults>>
        /\ changes' = changes + 1
    BY <1>5 DEF SyncFuture
  <2> QED
    BY <2>1, <2>2 DEF TypeOK
<1>6. CASE QueueFuture
  <2>1. queueing \in Slots
    BY <1>6 DEF QueueFuture, TypeOK
  <2>2. events' \in Seq(EventRow) /\ events' # <<>>
    BY <1>6, <2>1, NewTyped, EventAdded DEF QueueFuture, Types
  <2>3. inOrder' \in BOOLEAN
    BY <1>6 DEF QueueFuture, TypeOK, Active
  <2>4. /\ UNCHANGED <<appointment, connection, reminder, sender, mails,
                      google, created, unrecorded, sync, metrics, changes,
                      faults>>
        /\ queueing' = NoSlot
    BY <1>6 DEF QueueFuture
  <2> QED
    BY <2>2, <2>3, <2>4 DEF TypeOK
<1>7. CASE Tick
  <2>1. reminder' \in ReminderRow
    BY <1>7 DEF Tick, TypeOK, ReminderRow
  <2>2. UNCHANGED <<appointment, connection, queueing, events, sender, mails,
                    google, created, unrecorded, sync, metrics, inOrder,
                    changes, faults>>
    BY <1>7 DEF Tick
  <2> QED
    BY <2>1, <2>2 DEF TypeOK
<1> QED
  BY <1>1, <1>2, <1>3, <1>4, <1>5, <1>6, <1>7 DEF Api

LEMMA ClaimedTyped ==
  ASSUME TypeOK
  PROVE  /\ Claimed \in ReminderRow
         /\ Claimed.attempts = reminder.attempts + 1
         /\ Claimed.schedule = reminder.schedule
         /\ Claimed.status = reminder.status
<1>1. reminder \in ReminderRow
  BY DEF TypeOK
<1> DEFINE n == reminder.attempts + 1
<1>2. n \in Nat /\ Claimed = [reminder EXCEPT !.next = "later", !.attempts = n]
  BY <1>1 DEF Claimed, ReminderRow
<1> HIDE DEF n
<1>3. /\ Claimed \in ReminderRow /\ Claimed.attempts = n
      /\ Claimed.schedule = reminder.schedule
      /\ Claimed.status = reminder.status
  BY <1>1, <1>2 DEF ReminderRow
<1> QED
  BY <1>3 DEF n

LEMMA JobTyped ==
  ASSUME TypeOK, NEW s \in Senders,
         Claim(s) \/ Sending(s) \/ RecordResult(s) \/ SenderDies(s)
  PROVE  TypeOK'
<1> USE DEF base, calendar, Fault
<1>1. CASE Claim(s)
  <2>1. /\ reminder' \in ReminderRow
        /\ Claimed.attempts = reminder.attempts + 1
    BY <1>1, ClaimedTyped DEF Claim
  <2>2. [step |-> "send", schedule |-> reminder.schedule,
         attempts |-> Claimed.attempts] \in SenderState
    BY <2>1 DEF TypeOK, ReminderRow, SenderState
  <2>3. sender' \in [Senders -> SenderState]
    BY <1>1, <2>2 DEF Claim, TypeOK
  <2> QED
    BY <1>1, <2>1, <2>3 DEF Claim, TypeOK
<1>2. CASE Sending(s)
  <2>1. PICK sent \in BOOLEAN, result \in {"sent", "failed"} :
          Send(s, sent, result)
    BY <1>2 DEF Sending
  <2>2. sender[s] \in [step : {"send", "sent", "failed"}, schedule : Nat,
                       attempts : Nat]
    BY <2>1 DEF Send, TypeOK, SenderState, Idle
  <2>3. [sender[s] EXCEPT !.step = result] \in SenderState
    BY <2>2 DEF SenderState
  <2>4. sender' \in [Senders -> SenderState]
    BY <2>1, <2>3 DEF Send, TypeOK
  <2>5. mails' \in Seq(Nat)
    <3>1. mails \in Seq(Nat) /\ DOMAIN mails = 1..Len(mails)
      BY LenProperties DEF TypeOK
    <3>2. CASE sender[s].schedule \in DOMAIN mails
      <4>1. mails[sender[s].schedule] + 1 \in Nat
        BY <3>1, <3>2, ElementOfSeq
      <4>2. [mails EXCEPT ![sender[s].schedule] =
               mails[sender[s].schedule] + 1] \in Seq(Nat)
        BY <3>1, <3>2, <4>1, ExceptSeq
      <4> QED
        BY <2>1, <3>1, <4>2 DEF Send
    <3>3. CASE sender[s].schedule \notin DOMAIN mails
      <4>1. [mails EXCEPT ![sender[s].schedule] = @ + 1] = mails
        BY <3>1, <3>3
      <4> QED
        BY <2>1, <3>1, <4>1 DEF Send
    <3> QED
      BY <3>2, <3>3
  <2>6. UNCHANGED <<appointment, connection, queueing, events, reminder,
                    google, created, unrecorded, sync, metrics, inOrder,
                    changes, faults>>
    BY <2>1 DEF Send
  <2> QED
    BY <2>4, <2>5, <2>6 DEF TypeOK
<1>3. CASE RecordResult(s)
  <2>1. sender' \in [Senders -> SenderState]
    BY <1>3 DEF RecordResult, TypeOK, SenderState
  <2>2. reminder' \in ReminderRow
    BY <1>3 DEF RecordResult, TypeOK, ReminderRow, NextAttempt
  <2> QED
    BY <1>3, <2>1, <2>2 DEF RecordResult, TypeOK
<1>4. CASE SenderDies(s)
  <2>1. sender' \in [Senders -> SenderState]
    BY <1>4 DEF SenderDies, TypeOK, SenderState
  <2>2. /\ UNCHANGED <<appointment, connection, queueing, events, reminder,
                      mails, google, created, unrecorded, sync, metrics,
                      changes>>
        /\ faults' = faults + 1
    BY <1>4 DEF SenderDies
  <2>3. inOrder' \in BOOLEAN
    BY <1>4 DEF SenderDies
  <2> QED
    BY <2>1, <2>2, <2>3 DEF TypeOK
<1> QED
  BY <1>1, <1>2, <1>3, <1>4

LEMMA CallTyped ==
  ASSUME TypeOK, NEW i \in DOMAIN events,
         \/ Call(i) \/ CallForGone(i)
         \/ \E denied \in BOOLEAN : CallFails(i, denied)
  PROVE  TypeOK'
<1> USE DEF base, job, calendar
<1>0. events[i] \in EventRow /\ sync.id \in Nat /\ 0 \in Nat
  BY EventsTyped DEF TypeOK
<1>1. ASSUME CalendarTyped', EventsAre', inOrder' \in BOOLEAN,
             faults' \in Nat,
             UNCHANGED <<appointment, connection, queueing, reminder, sender,
                         mails, metrics, changes>>
      PROVE  TypeOK'
  BY <1>1 DEF TypeOK, CalendarTyped, EventsAre
<1>2. ASSUME NEW id \in Nat, NEW o \in Called(events[i], id),
             NEW lost \in {0, 1}, Leave(o, lost)
      PROVE  CalendarTyped'
  BY <1>0, <1>2, OutcomeTyped DEF Leave, CalendarTyped, TypeOK
<1>3. CASE Call(i)
  <2>1. PICK o \in Called(events[i], sync.id) :
          /\ Leave(o, 0)
          /\ Record(i, IF events[i].type = "Cancelled" THEN "deleted"
                       ELSE "synced", o.id, FALSE)
    BY <1>3 DEF Call
  <2>2. o.id \in Nat
    BY <1>0, OutcomeTyped
  <2>3. EventsAre'
    BY <2>1, <2>2, RecordMoves DEF Becomes, EventsAre
  <2>4. CalendarTyped'
    BY <1>0, <1>2, <2>1
  <2> QED
    BY <1>1, <1>3, <2>3, <2>4 DEF Call, TypeOK
<1>4. ASSUME NEW denied \in BOOLEAN, CallFails(i, denied) PROVE TypeOK'
  <2>1. EventsAre'
    BY <1>0, <1>4, RecordMoves DEF CallFails, Becomes, EventsAre
  <2>2. CalendarTyped'
    <3>1. CASE UNCHANGED calendar
      BY <3>1 DEF CalendarTyped, TypeOK
    <3>2. CASE \E o \in Called(events[i], sync.id) : Leave(o, 1)
      BY <1>0, <1>2, <3>2
    <3> QED
      BY <1>4, <3>1, <3>2 DEF CallFails
  <2>3. /\ UNCHANGED <<appointment, connection, queueing, reminder, sender,
                      mails, metrics, changes>>
        /\ faults' = faults + 1
    BY <1>4 DEF CallFails, Fault
  <2>4. faults' \in Nat
    BY <2>3 DEF TypeOK
  <2>5. inOrder' \in BOOLEAN
    BY <1>4 DEF CallFails
  <2> QED
    BY <1>1, <2>1, <2>2, <2>3, <2>4, <2>5
<1>5. CASE CallForGone(i)
  <2>1. EventsAre'
    BY <1>5, HandlerMoves DEF CallForGone, Becomes, EventsAre
  <2>2. CalendarTyped'
    BY <1>0, <1>2, <1>5 DEF CallForGone
  <2> QED
    BY <1>1, <1>5, <2>1, <2>2 DEF CallForGone, TypeOK
<1> QED
  BY <1>3, <1>4, <1>5

LEMMA HandlerTyped ==
  ASSUME TypeOK, NEW i \in DOMAIN events, HandlerStep(i) \/ Abort(i)
  PROVE  TypeOK'
<1> USE DEF base, job, calendar
<1>0. events[i] \in EventRow
  BY EventsTyped
<1>1. CASE ReadTarget(i)
  <2>1. EventsAre'
    BY <1>1, HandlerMoves DEF Becomes, EventsAre
  <2>2. inOrder' \in BOOLEAN
    BY <1>1 DEF ReadTarget, AsFirst, TypeOK
  <2>3. UNCHANGED <<appointment, connection, queueing, reminder, sender,
                    mails, google, created, unrecorded, sync, metrics, changes,
                    faults>>
    BY <1>1 DEF ReadTarget
  <2> QED
    BY <2>1, <2>2, <2>3 DEF TypeOK, EventsAre
<1>2. CASE Remind(i)
  <2>1. EventsAre'
    BY <1>2, HandlerMoves DEF Becomes, EventsAre
  <2>2. inOrder' \in BOOLEAN
    BY <1>2 DEF Remind, AsFirst, TypeOK
  <2>3. UNCHANGED <<appointment, connection, queueing, reminder, sender,
                    mails, google, created, unrecorded, sync, metrics, changes,
                    faults>>
    BY <1>2 DEF Remind
  <2> QED
    BY <2>1, <2>2, <2>3 DEF TypeOK, EventsAre
<1>3. CASE Commit(i)
  <2>1. EventsAre'
    BY <1>3, HandlerMoves DEF Becomes, EventsAre
  <2>2. mails' \in Seq(Nat)
    <3>1. mails \in Seq(Nat)
      BY DEF TypeOK
    <3>2. Append(mails, 0) \in Seq(Nat)
      BY <3>1
    <3>3. mails' = Append(mails, 0) \/ mails' = mails
      BY <1>3 DEF Commit
    <3> QED
      BY <3>1, <3>2, <3>3
  <2>3. reminder' \in ReminderRow
    <3>1. reminder' = Upserted(events[i]) \/ reminder' = reminder
      BY <1>3 DEF Commit
    <3>2. Upserted(events[i]) \in ReminderRow
      BY <1>0, SMTT(20) DEF Upserted, TypeOK, ReminderRow, EventRow
    <3> QED
      BY <3>1, <3>2 DEF TypeOK
  <2>4. sync' \in [status : {None, "synced", "deleted", "failed"}, id : Nat]
    BY <1>0, <1>3 DEF Commit, TypeOK, EventRow
  <2>5. connection' \in [id : Nat \ {0},
                         status : {"connected", "absent", "error"}]
    BY <1>3 DEF Commit, TypeOK
  <2>6. metrics' \in [Slots -> {None, "active", "cancelled"}]
    BY <1>3 DEF Commit, Counted, TypeOK
  <2>7. UNCHANGED <<appointment, queueing, sender, google, created,
                    unrecorded, inOrder, changes, faults>>
    BY <1>3 DEF Commit
  <2> QED
    BY <2>1, <2>2, <2>3, <2>4, <2>5, <2>6, <2>7 DEF TypeOK, EventsAre
<1>4. ASSUME NEW j \in DOMAIN events, DeadlockBroken(i, j) PROVE TypeOK'
  <2>1. EventsAre' /\ unrecorded' \in Nat
    BY <1>4, DeadlockMoves DEF BothBecome, EventsAre, TypeOK
  <2>2. UNCHANGED <<appointment, connection, queueing, reminder, sender,
                    mails, google, created, sync, metrics, inOrder, changes,
                    faults>>
    BY <1>4 DEF DeadlockBroken
  <2> QED
    BY <2>1, <2>2 DEF TypeOK, EventsAre
<1>5. CASE Abort(i)
  <2>1. EventsAre'
    BY <1>5, HandlerMoves DEF Abort, Becomes, EventsAre
  <2>2. UNCHANGED <<appointment, connection, queueing, reminder, sender,
                    mails, google, created, sync, metrics, changes>>
    BY <1>5 DEF Abort
  <2>3. inOrder' \in BOOLEAN /\ faults' \in Nat /\ unrecorded' \in Nat
    <3>1. /\ faults' = faults + 1
          /\ unrecorded' \in {unrecorded, unrecorded + 1}
      BY <1>5 DEF Abort, Fault
    <3>2. inOrder' \in BOOLEAN
      BY <1>5 DEF Abort
    <3> QED
      BY <3>1, <3>2 DEF TypeOK
  <2> QED
    BY <2>1, <2>2, <2>3 DEF TypeOK, EventsAre
<1> QED
  BY <1>1, <1>2, <1>3, <1>4, <1>5, CallTyped DEF HandlerStep

\* What a step is.
LEMMA StepsOfNext ==
  ASSUME [Next]_vars
  PROVE  \/ Api \/ QueueFuture \/ Tick
         \/ \E i \in DOMAIN events :
              \/ HandlerStep(i) \/ Abort(i)
              \/ \E denied \in BOOLEAN : CallFails(i, denied)
         \/ \E s \in Senders :
              Claim(s) \/ Sending(s) \/ RecordResult(s) \/ SenderDies(s)
         \/ UNCHANGED vars
BY DEF Next, Progress

LEMMA NextTyped == TypeOK /\ [Next]_vars => TypeOK'
<1> SUFFICES ASSUME TypeOK, [Next]_vars PROVE TypeOK'
  OBVIOUS
<1>1. CASE UNCHANGED vars
  BY <1>1 DEF vars, base, job, calendar, TypeOK
<1> QED
  BY <1>1, StepsOfNext, ApiTyped, HandlerTyped, CallTyped, JobTyped

LEMMA AlwaysTyped == Spec => []TypeOK
BY InitTyped, NextTyped, PTL DEF Spec
-----------------------------------------------------------------------------
(* The steps of the handlers and their locks                               *)

\* The connection stays as it is to whoever has recorded a call.
SameForRecords ==
  \A i \in DOMAIN events :
    events[i].record # NoRecord =>
      /\ connection'.id = connection.id
      /\ connection'.status # "absent"

\* What fits with the connection of now fits with that of then.
FitsThen(e) ==
  StepFits(e) /\ (e.record # NoRecord => /\ connection'.id = connection.id
                                         /\ connection'.status # "absent")

LEMMA LocksChange ==
  ASSUME TypeOK, StepsFit, OneLock, SameForRecords,
         NEW i \in DOMAIN events, NEW e \in EventRow, Changed(i, e),
         FitsThen(e),
         (e.record # NoRecord \/ e.step = "locked") =>
            /\ e.target.to = events[i].target.to
            /\ HasLock(i) \/ LockIsFree(events[i].target.to)
  PROVE  StepsFit' /\ OneLock'
<1>1. ASSUME NEW j \in DOMAIN events PROVE StepFits(events[j])'
  <2>1. CASE j = i
    BY <1>1, <2>1 DEF Changed, FitsThen, StepFits
  <2>2. CASE j # i
    <3>1. events'[j] = events[j] /\ StepFits(events[j])
      BY <1>1, <2>2 DEF Changed, StepsFit
    <3>2. events[j].record # NoRecord =>
            connection'.id = connection.id /\ connection'.status # "absent"
      BY <1>1 DEF SameForRecords
    <3> QED
      BY <3>1, <3>2 DEF StepFits
  <2> QED
    BY <2>1, <2>2
<1>2. StepsFit'
  BY <1>1 DEF StepsFit, Changed
<1>3. ASSUME NEW j \in DOMAIN events, NEW k \in DOMAIN events, j # k,
             events'[j].record # NoRecord \/ events'[j].step = "locked",
             events'[k].record # NoRecord \/ events'[k].step = "locked"
      PROVE  events'[j].target.to # events'[k].target.to
  <2>1. CASE j # i /\ k # i
    BY <1>3, <2>1 DEF Changed, OneLock, HasLock
  <2>2. CASE j = i
    BY <1>3, <2>2 DEF Changed, OneLock, HasLock, LockIsFree
  <2>3. CASE k = i
    BY <1>3, <2>3 DEF Changed, OneLock, HasLock, LockIsFree
  <2> QED
    BY <2>1, <2>2, <2>3
<1>4. OneLock'
  BY <1>3 DEF OneLock, HasLock, Changed
<1> QED
  BY <1>2, <1>4

LEMMA LocksStay ==
  ASSUME StepsFit, OneLock, SameForRecords,
         \/ events' = events
         \/ \E e : Added(e) /\ Cleared(e) /\ e.step = "waiting"
  PROVE  StepsFit' /\ OneLock'
<1>1. ASSUME NEW j \in DOMAIN events, events'[j] = events[j]
      PROVE  StepFits(events[j])'
  <2>1. StepFits(events[j])
    BY DEF StepsFit
  <2>2. events[j].record # NoRecord =>
          connection'.id = connection.id /\ connection'.status # "absent"
    BY DEF SameForRecords
  <2> QED
    BY <1>1, <2>1, <2>2 DEF StepFits
<1>2. CASE events' = events
  BY <1>1, <1>2 DEF StepsFit, OneLock, HasLock
<1>3. CASE \E e : Added(e) /\ Cleared(e) /\ e.step = "waiting"
  <2>1. PICK e : Added(e) /\ Cleared(e) /\ e.step = "waiting"
    BY <1>3
  <2> DEFINE n == Len(events) + 1
  <2>2. /\ DOMAIN events' = DOMAIN events \cup {n} /\ events'[n] = e
        /\ \A j \in DOMAIN events : events'[j] = events[j]
    BY <2>1 DEF Added
  <2> HIDE DEF n
  <2>3. ASSUME NEW j, j \in DOMAIN events' PROVE StepFits(events[j])'
    <3>1. CASE j = n
      BY <2>1, <2>2, <3>1 DEF Cleared, StepFits
    <3>2. CASE j # n
      BY <1>1, <2>2, <2>3, <3>2
    <3> QED
      BY <3>1, <3>2
  <2>4. StepsFit'
    BY <2>3 DEF StepsFit
  <2>5. ASSUME NEW j, j \in DOMAIN events', NEW k, k \in DOMAIN events',
               j # k,
               events'[j].record # NoRecord \/ events'[j].step = "locked",
               events'[k].record # NoRecord \/ events'[k].step = "locked"
        PROVE  events'[j].target.to # events'[k].target.to
    <3>1. j # n /\ k # n
      BY <2>1, <2>2, <2>5 DEF Cleared
    <3> QED
      BY <2>2, <2>5, <3>1 DEF OneLock, HasLock
  <2>7. OneLock'
    BY <2>5 DEF OneLock, HasLock
  <2> QED
    BY <2>4, <2>7
<1> QED
  BY <1>2, <1>3

LEMMA ApiLocks ==
  ASSUME TypeOK, StepsFit, OneLock,
         Api \/ QueueFuture \/ Tick
  PROVE  StepsFit' /\ OneLock'
<1> USE DEF base, Change
<1>0. \A i \in DOMAIN events :
        events[i].record # NoRecord => connection.status # "absent"
  BY DEF StepsFit, StepFits
<1>1. ASSUME UNCHANGED connection PROVE SameForRecords
  BY <1>0, <1>1 DEF SameForRecords
<1>2. ASSUME NEW t \in Slots, Reschedule(t) PROVE StepsFit' /\ OneLock'
  <2>1. Added(Event("Rescheduled", t)) /\ UNCHANGED connection
    BY <1>2, NewTyped, EventAdded DEF Reschedule, Types
  <2> QED
    BY <1>1, <2>1, NewTyped, LocksStay DEF Types
<1>3. CASE Cancel
  <2>1. appointment.slot \in Slots
    BY DEF TypeOK
  <2>2. Added(Event("Cancelled", appointment.slot)) /\ UNCHANGED connection
    BY <1>3, <2>1, NewTyped, EventAdded DEF Cancel, Types
  <2> QED
    BY <1>1, <2>1, <2>2, NewTyped, LocksStay DEF Types
<1>4. CASE QueueFuture
  <2>1. queueing \in Slots
    BY <1>4 DEF QueueFuture, TypeOK
  <2>2. Added(Event("Booked", queueing)) /\ UNCHANGED connection
    BY <1>4, <2>1, NewTyped, EventAdded DEF QueueFuture, Types
  <2> QED
    BY <1>1, <2>1, <2>2, NewTyped, LocksStay DEF Types
<1>5. CASE Disconnect
  <2>1. SameForRecords /\ events' = events
    BY <1>5 DEF Disconnect, SameForRecords
  <2> QED
    BY <2>1, LocksStay
<1>6. CASE Reconnect
  <2>1. SameForRecords /\ events' = events
    BY <1>0, <1>6 DEF Reconnect, SameForRecords, TypeOK
  <2> QED
    BY <2>1, LocksStay
<1>7. CASE SyncFuture \/ Tick
  <2>1. UNCHANGED connection /\ events' = events
    BY <1>7 DEF SyncFuture, Tick
  <2> QED
    BY <1>1, <2>1, LocksStay
<1> QED
  BY <1>2, <1>3, <1>4, <1>5, <1>6, <1>7 DEF Api

LEMMA CallLocks ==
  ASSUME TypeOK, StepsFit, OneLock, NEW i \in DOMAIN events,
         Call(i) \/ \E denied \in BOOLEAN : CallFails(i, denied)
  PROVE  StepsFit' /\ OneLock'
<1> USE DEF base
<1>0. /\ events[i] \in EventRow /\ sync.id \in Nat
      /\ StepFits(events[i])
  BY EventsTyped DEF TypeOK, StepsFit
<1>1. UNCHANGED connection
  BY DEF Call, CallFails
<1>2. SameForRecords
  BY <1>1 DEF SameForRecords, StepsFit, StepFits
<1>3. ASSUME NEW status \in {"synced", "deleted", "failed"}, NEW id \in Nat,
             NEW denied \in BOOLEAN, CanCall(i),
             connection.id = events[i].target.to,
             connection.status # "absent", Record(i, status, id, denied)
      PROVE  StepsFit' /\ OneLock'
  <2> DEFINE e == RecordRow(events[i], status, id, denied)
  <2>1. Changed(i, e)
    BY <1>3, RecordMoves DEF Becomes
  <2>2. /\ e \in EventRow /\ KeepsEvent(events[i], e)
        /\ e.step = AfterCall(events[i]) /\ e.upserts = events[i].upserts
        /\ e.target = events[i].target /\ e.denied = denied
        /\ e.record.to = events[i].target.to /\ e.record # NoRecord
    BY <1>0, RecordTyped, SMTT(20)
  <2>3. events[i].step \in {"call", "locked"}
    BY <1>3 DEF CanCall
  <2> HIDE DEF e
  <2>4. StepFits(e)
    BY <1>0, <1>3, <2>2, <2>3
    DEF StepFits, AfterCall, KeepsEvent, EventRow, Types
  <2>5. FitsThen(e)
    BY <1>1, <1>3, <2>4 DEF FitsThen
  <2>6. HasLock(i) \/ LockIsFree(events[i].target.to)
    BY <1>3 DEF CanCall, HasLock
  <2> QED
    BY <1>2, <2>1, <2>2, <2>5, <2>6, LocksChange
<1>4. CASE Call(i)
  <2>1. PICK o \in Called(events[i], sync.id) :
          Record(i, IF events[i].type = "Cancelled" THEN "deleted"
                    ELSE "synced", o.id, FALSE)
    BY <1>4 DEF Call
  <2>2. o.id \in Nat
    BY <1>0, OutcomeTyped
  <2> QED
    BY <1>3, <1>4, <2>1, <2>2 DEF Call
<1>5. ASSUME NEW denied \in BOOLEAN, CallFails(i, denied)
      PROVE  StepsFit' /\ OneLock'
  BY <1>0, <1>3, <1>5 DEF CallFails
<1> QED
  BY <1>4, <1>5

\* Whoever starts again or is done holds nothing.
LEMMA ClearedFits ==
  ASSUME NEW e, Cleared(e), e.step \in {"waiting", "done"}
  PROVE  FitsThen(e) /\ ~(e.record # NoRecord \/ e.step = "locked")
BY DEF FitsThen, StepFits, Cleared

LEMMA DeadlockLocks ==
  ASSUME TypeOK, StepsFit, OneLock, NEW i \in DOMAIN events,
         NEW j \in DOMAIN events, DeadlockBroken(i, j)
  PROVE  StepsFit' /\ OneLock'
<1>0. /\ events[i] \in EventRow /\ StepFits(events[i])
      /\ events[j] \in EventRow /\ StepFits(events[j])
  BY EventsTyped DEF StepsFit
<1>1. /\ events[i].upserts /\ events[i].step = "call"
      /\ events[j].record # NoRecord /\ events[j].step = "remind"
      /\ events[i].target.to = events[j].target.to
      /\ i # j /\ UNCHANGED connection
  BY <1>0, DeadlockMoves DEF DeadlockBroken, StepFits, base
<1>2. ASSUME NEW k \in DOMAIN events, events'[k] = events[k]
      PROVE  StepFits(events[k])'
  <2>1. StepFits(events[k])
    BY DEF StepsFit
  <2> QED
    BY <1>1, <1>2, <2>1 DEF StepFits
<1>3. CASE BothBecome(i, Waiting(events[i]), j, GrantedRow(events[j]))
  <2> DEFINE e == Waiting(events[i])
             f == GrantedRow(events[j])
  <2>1. /\ DOMAIN events' = DOMAIN events /\ events'[i] = e /\ events'[j] = f
        /\ \A k \in DOMAIN events : k \notin {i, j} => events'[k] = events[k]
    BY <1>1, <1>3 DEF BothBecome
  <2>2. Cleared(e) /\ e.step = "waiting"
    BY <1>0, RowsTyped
  <2>3. /\ KeepsEvent(events[j], f) /\ f.step = "commit" /\ f.upserts
        /\ f.target = events[j].target /\ f.record = events[j].record
        /\ f.denied = events[j].denied
    BY <1>0, GrantedTyped
  <2> HIDE DEF e, f
  <2>4. StepFits(events[i])'
    BY <2>1, <2>2 DEF StepFits, Cleared
  <2>5. StepFits(events[j])'
    BY <1>0, <1>1, <2>1, <2>3 DEF StepFits, KeepsEvent
  <2>6. ASSUME NEW k \in DOMAIN events PROVE StepFits(events[k])'
    <3>1. CASE k = i
      BY <2>4, <3>1
    <3>2. CASE k = j
      BY <2>5, <3>2
    <3>3. CASE k \notin {i, j}
      BY <1>2, <2>1, <3>3
    <3> QED
      BY <3>1, <3>2, <3>3
  <2>7. StepsFit'
    BY <2>1, <2>6 DEF StepsFit
  <2>8. ASSUME NEW k \in DOMAIN events,
               events'[k].record # NoRecord \/ events'[k].step = "locked"
        PROVE  HasLock(k) /\ events'[k].target = events[k].target
    BY <1>1, <2>1, <2>2, <2>3, <2>8 DEF HasLock, Cleared
  <2>9. OneLock'
    BY <2>1, <2>8 DEF OneLock, HasLock
  <2> QED
    BY <2>7, <2>9
<1>4. CASE BothBecome(j, Waiting(events[j]), i, LockedRow(events[i]))
  <2> DEFINE e == Waiting(events[j])
             f == LockedRow(events[i])
  <2>1. /\ DOMAIN events' = DOMAIN events /\ events'[j] = e /\ events'[i] = f
        /\ \A k \in DOMAIN events : k \notin {i, j} => events'[k] = events[k]
    BY <1>1, <1>4 DEF BothBecome
  <2>2. Cleared(e) /\ e.step = "waiting"
    BY <1>0, RowsTyped
  <2>3. /\ KeepsEvent(events[i], f) /\ f.step = "locked"
        /\ f.upserts = events[i].upserts
        /\ f.target = events[i].target /\ f.record = events[i].record
        /\ f.denied = events[i].denied
    BY <1>0, RowsTyped
  <2> HIDE DEF e, f
  <2>4. StepFits(events[j])'
    BY <2>1, <2>2 DEF StepFits, Cleared
  <2>5. StepFits(events[i])'
    BY <1>0, <1>1, <2>1, <2>3 DEF StepFits, KeepsEvent
  <2>6. ASSUME NEW k \in DOMAIN events PROVE StepFits(events[k])'
    <3>1. CASE k = i
      BY <2>5, <3>1
    <3>2. CASE k = j
      BY <2>4, <3>2
    <3>3. CASE k \notin {i, j}
      BY <1>2, <2>1, <3>3
    <3> QED
      BY <3>1, <3>2, <3>3
  <2>7. StepsFit'
    BY <2>1, <2>6 DEF StepsFit
  <2>8. ASSUME NEW k \in DOMAIN events, k # i,
               events'[k].record # NoRecord \/ events'[k].step = "locked"
        PROVE  /\ k # j /\ HasLock(k) /\ events'[k].target = events[k].target
               /\ events'[k].target.to # events'[i].target.to
    <3>1. k # j
      BY <2>1, <2>2, <2>8 DEF Cleared
    <3>2. HasLock(k) /\ HasLock(j) /\ events'[k].target = events[k].target
      BY <1>1, <2>1, <2>8, <3>1 DEF HasLock
    <3> QED
      BY <1>1, <2>1, <2>3, <3>1, <3>2 DEF OneLock
  <2>9. ASSUME NEW k \in DOMAIN events, NEW l \in DOMAIN events, k # l,
               events'[k].record # NoRecord \/ events'[k].step = "locked",
               events'[l].record # NoRecord \/ events'[l].step = "locked"
        PROVE  events'[k].target.to # events'[l].target.to
    BY <2>8, <2>9 DEF OneLock
  <2>10. OneLock'
    BY <2>1, <2>9 DEF OneLock, HasLock
  <2> QED
    BY <2>7, <2>10
<1> QED
  BY <1>3, <1>4, DeadlockMoves

LEMMA HandlerLocks ==
  ASSUME TypeOK, StepsFit, OneLock, NEW i \in DOMAIN events,
         HandlerStep(i) \/ Abort(i)
  PROVE  StepsFit' /\ OneLock'
<1> USE DEF base
<1>0. events[i] \in EventRow /\ StepFits(events[i])
  BY EventsTyped DEF StepsFit
<1>1. ASSUME \/ UNCHANGED connection
             \/ connection' = [connection EXCEPT !.status = "error"]
      PROVE  SameForRecords
  BY <1>1 DEF SameForRecords, StepsFit, StepFits, TypeOK
<1>2. CASE ReadTarget(i)
  <2> DEFINE e == TargetRow(events[i])
  <2>1. Changed(i, e) /\ UNCHANGED connection
    BY <1>2, HandlerMoves DEF Becomes, ReadTarget
  <2>2. /\ e \in EventRow /\ KeepsEvent(events[i], e)
        /\ e.upserts = events[i].upserts /\ e.record = events[i].record
        /\ e.denied = events[i].denied
        /\ \/ e.step = "call" /\ e.target.to = connection.id
           \/ e.step = AfterCall(events[i])
    BY <1>0, RowsTyped
  <2>3. \/ events[i].step = "read"
        \/ /\ events[i].step = "waiting"
           /\ events[i].type \in {"Rescheduled", "Cancelled"}
    BY <1>2 DEF ReadTarget, IsAt
  <2> HIDE DEF e
  <2>4. e.record = NoRecord /\ e.step # "locked" /\ ~e.denied
    BY <1>0, <2>2, <2>3 DEF StepFits, AfterCall
  <2>5. connection.id # 0
    BY DEF TypeOK
  <2>6. StepFits(e)
    BY <1>0, <2>2, <2>3, <2>4, <2>5
    DEF StepFits, AfterCall, KeepsEvent, EventRow, Types
  <2>7. FitsThen(e)
    BY <2>4, <2>6 DEF FitsThen
  <2> QED
    BY <1>1, <2>1, <2>2, <2>4, <2>7, LocksChange
<1>3. CASE Remind(i)
  <2> DEFINE e == RemindRow(events[i])
  <2>1. Changed(i, e) /\ UNCHANGED connection
    BY <1>3, HandlerMoves DEF Becomes, Remind
  <2>2. /\ e \in EventRow /\ KeepsEvent(events[i], e)
        /\ e.step = IF events[i].type = "Booked" THEN "read" ELSE "commit"
        /\ e.upserts /\ e.target = events[i].target
        /\ e.record = events[i].record /\ e.denied = events[i].denied
    BY <1>0, RowsTyped
  <2>3. \/ events[i].step = "remind"
        \/ events[i].step = "waiting" /\ events[i].type = "Booked"
    BY <1>3 DEF Remind, IsAt
  <2> HIDE DEF e
  <2>4. StepFits(e)
    BY <1>0, <2>2, <2>3 DEF StepFits, KeepsEvent, EventRow, Types
  <2>5. FitsThen(e)
    BY <1>1, <2>1, <2>2, <2>4 DEF FitsThen, SameForRecords
  <2>6. e.record # NoRecord \/ e.step = "locked" => HasLock(i)
    BY <2>2 DEF HasLock
  <2> QED
    BY <1>1, <2>1, <2>2, <2>5, <2>6, LocksChange
<1>4. CASE Commit(i)
  <2>1. Changed(i, DoneRow(events[i])) /\ SameForRecords
    BY <1>1, <1>4, HandlerMoves DEF Becomes, Commit
  <2> QED
    BY <1>0, <2>1, RowsTyped, ClearedFits, LocksChange
<1>5. CASE CallForGone(i) \/ Abort(i)
  <2>1. Changed(i, Waiting(events[i])) /\ SameForRecords
    BY <1>1, <1>5, HandlerMoves DEF Becomes, CallForGone, Abort
  <2> QED
    BY <1>0, <2>1, RowsTyped, ClearedFits, LocksChange
<1>6. CASE Call(i)
  BY <1>6, CallLocks
<1>7. ASSUME NEW j \in DOMAIN events, DeadlockBroken(i, j)
      PROVE  StepsFit' /\ OneLock'
  BY <1>7, DeadlockLocks
<1> QED
  BY <1>2, <1>3, <1>4, <1>5, <1>6, <1>7 DEF HandlerStep

LEMMA AlwaysLocked == Spec => [](StepsFit /\ OneLock)
<1>1. Init => StepsFit /\ OneLock
  <2> SUFFICES ASSUME Init PROVE StepsFit /\ OneLock
    OBVIOUS
  <2>1. /\ events = <<Event("Booked", First)>>
        /\ DOMAIN events = {1} /\ events[1] = Event("Booked", First)
    BY DEF Init
  <2> QED
    BY <2>1 DEF StepsFit, StepFits, OneLock, Event
<1>2. TypeOK /\ (StepsFit /\ OneLock) /\ [Next]_vars
        => (StepsFit /\ OneLock)'
  <2> SUFFICES ASSUME TypeOK, StepsFit, OneLock, [Next]_vars
               PROVE  StepsFit' /\ OneLock'
    OBVIOUS
  <2>1. ASSUME UNCHANGED <<connection, events>>
        PROVE  StepsFit' /\ OneLock'
    <3>1. SameForRecords
      BY <2>1 DEF SameForRecords, StepsFit, StepFits
    <3> QED
      BY <2>1, <3>1, LocksStay
  <2>2. UNCHANGED vars => UNCHANGED <<connection, events>>
    BY DEF vars, base
  <2>3. ASSUME NEW s \in Senders,
               Claim(s) \/ Sending(s) \/ RecordResult(s) \/ SenderDies(s)
        PROVE  UNCHANGED <<connection, events>>
    BY <2>3 DEF Claim, Sending, Send, RecordResult, SenderDies, base
  <2> QED
    BY <2>1, <2>2, <2>3, StepsOfNext, ApiLocks, HandlerLocks, CallLocks
<1> QED
  BY <1>1, <1>2, AlwaysTyped, PTL DEF Spec
-----------------------------------------------------------------------------
(* How often a schedule of the reminder is mailed                          *)

\* The senders about to mail a schedule.
Sends(k) == {s \in Senders : sender[s].step = "send" /\ sender[s].schedule = k}

\* Mails of a schedule, and those that are about to go.
Mailed(k) == mails[k] + Cardinality(Sends(k))

\* Every claim of the schedule of now counts as an attempt, and a schedule that
\* has been replaced is not claimed.
FewMails ==
  /\ reminder.schedule = Len(mails)
  /\ reminder.attempts <= MaxAttempts
  /\ reminder.status # None => reminder.schedule # 0
  /\ \A s \in Senders :
       sender[s] # Idle => sender[s].schedule \in DOMAIN mails
  /\ \A k \in DOMAIN mails :
       Mailed(k) <= IF k = Len(mails) THEN reminder.attempts ELSE MaxAttempts

LEMMA SendersChange ==
  ASSUME TypeOK, NEW s \in Senders, NEW v,
         sender' = [sender EXCEPT ![s] = v], NEW k
  PROVE  /\ IsFiniteSet(Sends(k)) /\ Cardinality(Sends(k)) \in Nat
         /\ Cardinality(Sends(k))' \in Nat
         /\ IF v.step = "send" /\ v.schedule = k
            THEN Cardinality(Sends(k))' <= Cardinality(Sends(k)) + 1
            ELSE /\ Cardinality(Sends(k))' <= Cardinality(Sends(k))
                 /\ s \in Sends(k) =>
                      Cardinality(Sends(k))' = Cardinality(Sends(k)) - 1
<1> DEFINE old == Sends(k)
           new == {t \in Senders : sender'[t].step = "send"
                                     /\ sender'[t].schedule = k}
<1>1. IsFiniteSet(old) /\ Cardinality(old) \in Nat
  BY SendersAssumption, FS_Subset, FS_CardinalityType DEF Sends
<1>2. new = IF v.step = "send" /\ v.schedule = k THEN old \cup {s}
            ELSE old \ {s}
  BY DEF TypeOK, Sends
<1>3. Sends(k)' = new
  BY DEF Sends
<1> HIDE DEF old, new
<1>4. CASE v.step = "send" /\ v.schedule = k
  <2>1. Cardinality(new) = IF s \in old THEN Cardinality(old)
                           ELSE Cardinality(old) + 1
    BY <1>1, <1>2, <1>4, FS_AddElement
  <2> QED
    BY <1>1, <1>3, <1>4, <2>1 DEF old
<1>5. CASE ~(v.step = "send" /\ v.schedule = k)
  <2>1. Cardinality(new) = IF s \in old THEN Cardinality(old) - 1
                           ELSE Cardinality(old)
    BY <1>1, <1>2, <1>5, FS_RemoveElement
  <2>2. Cardinality(new) \in Nat
    <3>1. IsFiniteSet(new)
      BY <1>1, <1>2, <1>5, FS_RemoveElement
    <3> QED
      BY <3>1, FS_CardinalityType
  <2> QED
    BY <1>1, <1>3, <1>5, <2>1, <2>2 DEF old
<1> QED
  BY <1>4, <1>5

LEMMA MailsTyped ==
  ASSUME TypeOK
  PROVE  /\ Len(mails) \in Nat /\ DOMAIN mails = 1..Len(mails)
         /\ \A k \in DOMAIN mails : mails[k] \in Nat
         /\ reminder.attempts \in Nat /\ reminder.schedule \in Nat
         /\ MaxAttempts \in Nat
<1>1. mails \in Seq(Nat) /\ reminder \in ReminderRow
  BY DEF TypeOK
<1>2. Len(mails) \in Nat /\ DOMAIN mails = 1..Len(mails)
  BY <1>1, LenProperties
<1>3. \A k \in 1..Len(mails) : mails[k] \in Nat
  BY <1>1, ElementOfSeq
<1> QED
  BY <1>1, <1>2, <1>3, AttemptsAssumption DEF ReminderRow

LEMMA JobMails ==
  ASSUME TypeOK, FewMails, NEW s \in Senders,
         Claim(s) \/ Sending(s) \/ RecordResult(s) \/ SenderDies(s)
  PROVE  FewMails'
<1>0. /\ Len(mails) \in Nat /\ DOMAIN mails = 1..Len(mails)
      /\ \A k \in DOMAIN mails : mails[k] \in Nat
      /\ reminder.attempts \in Nat /\ reminder.schedule \in Nat
      /\ MaxAttempts \in Nat
  BY MailsTyped
<1>1. CASE Claim(s)
  <2> DEFINE v == [step |-> "send", schedule |-> reminder.schedule,
                   attempts |-> Claimed.attempts]
  <2>1. /\ reminder.status # None /\ reminder.attempts < MaxAttempts
        /\ mails' = mails /\ sender' = [sender EXCEPT ![s] = v]
        /\ reminder'.attempts = reminder.attempts + 1
        /\ reminder'.schedule = reminder.schedule
        /\ reminder'.status = reminder.status
    BY <1>1, ClaimedTyped DEF Claim, Due, ToMark, None
  <2>2. v.step = "send" /\ v.schedule = Len(mails)
    BY DEF FewMails
  <2> HIDE DEF v
  <2>3. Len(mails) \in DOMAIN mails
    BY <1>0, <2>1 DEF FewMails
  <2>4. \A t \in Senders :
          sender'[t] # Idle => sender'[t].schedule \in DOMAIN mails
    BY <2>1, <2>2, <2>3 DEF FewMails, TypeOK
  <2>5. ASSUME NEW k \in DOMAIN mails
        PROVE  Mailed(k)' <= IF k = Len(mails) THEN reminder'.attempts
                             ELSE MaxAttempts
    <3>1. /\ Cardinality(Sends(k)) \in Nat /\ Cardinality(Sends(k))' \in Nat
          /\ IF k = Len(mails)
             THEN Cardinality(Sends(k))' <= Cardinality(Sends(k)) + 1
             ELSE Cardinality(Sends(k))' <= Cardinality(Sends(k))
      BY <2>1, <2>2, SendersChange
    <3>2. Mailed(k) <= IF k = Len(mails) THEN reminder.attempts
                       ELSE MaxAttempts
      BY DEF FewMails
    <3> QED
      BY <1>0, <2>1, <3>1, <3>2 DEF Mailed
  <2> QED
    BY <1>0, <2>1, <2>4, <2>5 DEF FewMails
<1>2. CASE Sending(s)
  <2>1. PICK sent \in BOOLEAN, result \in {"sent", "failed"} :
          Send(s, sent, result)
    BY <1>2 DEF Sending
  <2> DEFINE v == [sender[s] EXCEPT !.step = result]
             n == sender[s].schedule
  <2>2. /\ sender[s].step = "send" /\ sender[s] # Idle
        /\ sender' = [sender EXCEPT ![s] = v] /\ UNCHANGED reminder
    BY <2>1 DEF Send, Idle
  <2>3. /\ n \in DOMAIN mails /\ v.step # "send" /\ v.schedule = n
        /\ s \in Sends(n)
    <3>1. sender[s] \in [step : {"send", "sent", "failed"}, schedule : Nat,
                         attempts : Nat]
      BY <2>2 DEF TypeOK, SenderState
    <3> QED
      BY <2>2, <3>1 DEF FewMails, Sends
  <2>4. /\ DOMAIN mails' = DOMAIN mails /\ Len(mails') = Len(mails)
        /\ \A k \in DOMAIN mails :
             /\ mails'[k] \in Nat
             /\ mails'[k] <= IF k = n THEN mails[k] + 1 ELSE mails[k]
    <3>1. mails' = mails \/ mails' = [mails EXCEPT ![n] = @ + 1]
      BY <2>1 DEF Send
    <3>2. CASE mails' = [mails EXCEPT ![n] = @ + 1]
      <4>1. mails \in Seq(Nat) /\ mails[n] + 1 \in Nat /\ n \in 1..Len(mails)
        BY <1>0, <2>3 DEF TypeOK
      <4>2. /\ mails' \in Seq(Nat) /\ Len(mails') = Len(mails)
            /\ \A k \in 1..Len(mails) :
                 mails'[k] = IF k = n THEN mails[n] + 1 ELSE mails[k]
        BY <3>2, <4>1, ExceptSeq
      <4> QED
        BY <1>0, <4>2, LenProperties
    <3> QED
      BY <1>0, <3>1, <3>2
  <2> HIDE DEF v, n
  <2>5. \A t \in Senders :
          sender'[t] # Idle => sender'[t].schedule \in DOMAIN mails
    BY <2>2, <2>3 DEF FewMails, TypeOK
  <2>6. ASSUME NEW k \in DOMAIN mails
        PROVE  Mailed(k)' <= IF k = Len(mails) THEN reminder.attempts
                             ELSE MaxAttempts
    <3>1. /\ Cardinality(Sends(k)) \in Nat /\ Cardinality(Sends(k))' \in Nat
          /\ Cardinality(Sends(k))' <= Cardinality(Sends(k))
          /\ k = n => Cardinality(Sends(k))' = Cardinality(Sends(k)) - 1
      BY <2>2, <2>3, SendersChange
    <3>2. Mailed(k) <= IF k = Len(mails) THEN reminder.attempts
                       ELSE MaxAttempts
      BY DEF FewMails
    <3>3. /\ mails[k] \in Nat /\ mails'[k] \in Nat
          /\ mails'[k] <= IF k = n THEN mails[k] + 1 ELSE mails[k]
      BY <1>0, <2>4
    <3>4. mails'[k] + Cardinality(Sends(k))'
            <= mails[k] + Cardinality(Sends(k))
      BY <3>1, <3>3
    <3> QED
      BY <1>0, <3>1, <3>2, <3>3, <3>4 DEF Mailed
  <2> QED
    BY <2>2, <2>4, <2>5, <2>6 DEF FewMails
<1>3. CASE RecordResult(s) \/ SenderDies(s)
  <2>1. /\ sender' = [sender EXCEPT ![s] = Idle] /\ mails' = mails
        /\ reminder'.schedule = reminder.schedule
        /\ reminder'.attempts = reminder.attempts
        /\ \/ reminder' = reminder
           \/ sender[s] # Idle
    <3>1. CASE RecordResult(s)
      BY <3>1 DEF RecordResult, Idle, TypeOK, ReminderRow
    <3>2. CASE SenderDies(s)
      BY <3>2 DEF SenderDies
    <3> QED
      BY <1>3, <3>1, <3>2
  <2>2. \A t \in Senders :
          sender'[t] # Idle => sender'[t].schedule \in DOMAIN mails
    BY <2>1 DEF FewMails, TypeOK
  <2>3. ASSUME NEW k \in DOMAIN mails
        PROVE  Mailed(k)' <= IF k = Len(mails) THEN reminder.attempts
                             ELSE MaxAttempts
    <3>1. /\ Cardinality(Sends(k)) \in Nat /\ Cardinality(Sends(k))' \in Nat
          /\ Cardinality(Sends(k))' <= Cardinality(Sends(k))
      <4>1. Idle.step # "send"
        BY DEF Idle
      <4> QED
        BY <2>1, <4>1, SendersChange
    <3>2. Mailed(k) <= IF k = Len(mails) THEN reminder.attempts
                       ELSE MaxAttempts
      BY DEF FewMails
    <3> QED
      BY <1>0, <2>1, <3>1, <3>2 DEF Mailed
  <2>4. reminder'.status # None => reminder'.schedule # 0
    BY <1>0, <2>1 DEF FewMails
  <2> QED
    BY <2>1, <2>2, <2>3, <2>4 DEF FewMails
<1> QED
  BY <1>1, <1>2, <1>3

LEMMA CommitMails ==
  ASSUME TypeOK, FewMails, NEW i \in DOMAIN events, Commit(i)
  PROVE  FewMails'
<1>0. /\ Len(mails) \in Nat /\ DOMAIN mails = 1..Len(mails)
      /\ \A k \in DOMAIN mails : mails[k] \in Nat
      /\ reminder.attempts \in Nat /\ reminder.schedule \in Nat
      /\ MaxAttempts \in Nat
  BY MailsTyped
<1>1. UNCHANGED sender
  BY DEF Commit
<1>2. \A k : Sends(k)' = Sends(k)
  BY <1>1 DEF Sends
<1>3. CASE UNCHANGED <<reminder, mails>>
  BY <1>1, <1>2, <1>3 DEF FewMails, Mailed
<1>4. CASE reminder' = Upserted(events[i]) /\ mails' = Append(mails, 0)
  <2> SUFFICES ASSUME NEW n, n = Len(mails) + 1 PROVE FewMails'
    OBVIOUS
  <2>1. /\ DOMAIN mails' = DOMAIN mails \cup {n} /\ mails'[n] = 0
        /\ Len(mails') = n /\ n \notin DOMAIN mails
        /\ \A k \in DOMAIN mails : mails'[k] = mails[k]
    <3>1. mails \in Seq(Nat)
      BY DEF TypeOK
    <3>2. /\ mails' \in Seq(Nat) /\ Len(mails') = n /\ mails'[n] = 0
          /\ \A k \in 1..Len(mails) : mails'[k] = mails[k]
      BY <1>4, <3>1
    <3> QED
      BY <1>0, <3>2, LenProperties
  <2>2. reminder'.schedule = n /\ reminder'.attempts = 0
    BY <1>4 DEF Upserted, FewMails
  <2>3. ASSUME NEW k \in DOMAIN mails PROVE Mailed(k)' <= MaxAttempts
    <3>1. Mailed(k) <= MaxAttempts
      <4>1. Cardinality(Sends(k)) \in Nat
        BY SendersAssumption, FS_Subset, FS_CardinalityType DEF Sends
      <4>2. Mailed(k) \in Nat
        BY <1>0, <4>1 DEF Mailed
      <4> QED
        BY <1>0, <4>2 DEF FewMails
    <3> QED
      BY <1>2, <2>1, <3>1 DEF Mailed
  <2>4. Mailed(n)' = 0
    <3>1. Sends(n) = {}
      BY <2>1 DEF Sends, FewMails, Idle
    <3>2. Cardinality(Sends(n)) = 0
      BY <3>1, FS_EmptySet
    <3> QED
      BY <1>2, <2>1, <3>2 DEF Mailed
  <2>5. \A t \in Senders :
          sender[t] # Idle => sender[t].schedule \in DOMAIN mails'
    BY <2>1 DEF FewMails
  <2>6. n # 0 /\ 0 <= MaxAttempts
    BY <1>0
  <2>7. \A k \in DOMAIN mails' :
          Mailed(k)' <= IF k = Len(mails') THEN reminder'.attempts
                        ELSE MaxAttempts
    BY <2>1, <2>2, <2>3, <2>4
  <2> QED
    BY <1>1, <2>1, <2>2, <2>5, <2>6, <2>7 DEF FewMails
<1> QED
  BY <1>3, <1>4 DEF Commit

LEMMA AlwaysFewMails == Spec => []FewMails
<1>1. Init => FewMails
  BY AttemptsAssumption DEF Init, FewMails, Idle, None
<1>2. TypeOK /\ FewMails /\ [Next]_vars => FewMails'
  <2> SUFFICES ASSUME TypeOK, FewMails, [Next]_vars PROVE FewMails'
    OBVIOUS
  <2>1. ASSUME /\ reminder'.schedule = reminder.schedule
               /\ reminder'.attempts = reminder.attempts
               /\ reminder'.status = reminder.status
               /\ UNCHANGED job
        PROVE  FewMails'
    <3>1. \A k : Sends(k)' = Sends(k)
      BY <2>1 DEF Sends, job
    <3> QED
      BY <2>1, <3>1 DEF FewMails, Mailed, job
  <2>2. Api \/ QueueFuture \/ UNCHANGED vars => UNCHANGED <<reminder, job>>
    BY DEF Api, Reschedule, Cancel, Disconnect, Reconnect, SyncFuture,
           QueueFuture, vars
  <2>3. Tick => /\ reminder'.schedule = reminder.schedule
                /\ reminder'.attempts = reminder.attempts
                /\ reminder'.status = reminder.status
                /\ UNCHANGED job
    BY DEF Tick, TypeOK, ReminderRow
  <2>4. ASSUME NEW i \in DOMAIN events,
               \/ HandlerStep(i) \/ Abort(i)
               \/ \E denied \in BOOLEAN : CallFails(i, denied)
        PROVE  Commit(i) \/ UNCHANGED <<reminder, job>>
    BY <2>4 DEF HandlerStep, ReadTarget, Remind, Call, CallForGone, Abort,
                CallFails, DeadlockBroken
  <2> QED
    BY <2>1, <2>2, <2>3, <2>4, StepsOfNext, CommitMails, JobMails
<1> QED
  BY <1>1, <1>2, AlwaysTyped, PTL DEF Spec
-----------------------------------------------------------------------------
(* The events in Google that no row tells of                               *)

Others(k) == {e \in google : e.id # k}

\* The events in Google but that of a row, if it has one.
Bounded(k) ==
  Cardinality(Others(k)) <= IF k = 0 THEN 1 + unrecorded ELSE unrecorded

IdsAreNew ==
  /\ \A e \in google : e.id \in 1..created
  /\ \A e, f \in google : e.id = f.id => e = f

\* It is the row of the connection, or the one that a handler is to write.
FewExtra ==
  /\ (\A i \in DOMAIN events : events[i].record = NoRecord)
       => Bounded(sync.id)
  /\ \A i \in DOMAIN events :
       events[i].record # NoRecord => Bounded(events[i].record.id)

LEMMA CountOthers ==
  ASSUME NEW S, IsFiniteSet(S), NEW k
  PROVE  LET T == {e \in S : e.id # k} IN
         /\ IsFiniteSet(T) /\ Cardinality(T) \in Nat /\ Cardinality(S) \in Nat
         /\ Cardinality(T) <= Cardinality(S)
BY FS_Subset, FS_CardinalityType

\* Whatever a row tells of, there is at most one event beyond those.
LEMMA BoundedFirst ==
  ASSUME TypeOK, IdsAreNew, NEW k \in Nat, Bounded(k)
  PROVE  /\ Bounded(0) /\ Cardinality(google) \in Nat
         /\ Cardinality(google) <= 1 + unrecorded
<1>0. IsFiniteSet(google) /\ created \in Nat /\ unrecorded \in Nat
  BY DEF TypeOK
<1>1. /\ IsFiniteSet(Others(k)) /\ Cardinality(Others(k)) \in Nat
      /\ Cardinality(google) \in Nat
  BY <1>0, CountOthers DEF Others
<1>2. Others(0) = google
  BY <1>0 DEF Others, IdsAreNew
<1>3. CASE \E g \in google : g.id = k
  <2>1. PICK g \in google : g.id = k
    BY <1>3
  <2>2. google = Others(k) \cup {g} /\ g \notin Others(k)
    BY <2>1 DEF Others, IdsAreNew
  <2>3. Cardinality(google) = Cardinality(Others(k)) + 1
    BY <1>1, <2>2, FS_AddElement
  <2>4. k # 0
    BY <1>0, <2>1 DEF IdsAreNew
  <2> QED
    BY <1>0, <1>1, <1>2, <2>3, <2>4 DEF Bounded
<1>4. CASE \A g \in google : g.id # k
  <2>1. Others(k) = google
    BY <1>4 DEF Others
  <2> QED
    BY <1>0, <1>1, <1>2, <2>1 DEF Bounded
<1> QED
  BY <1>3, <1>4

\* One more call that no row tells of leaves room for any row.
LEMMA OneMoreUnrecorded ==
  ASSUME TypeOK, IdsAreNew, NEW k \in Nat, Bounded(k),
         UNCHANGED google, unrecorded' = unrecorded + 1, NEW l \in Nat
  PROVE  Bounded(l)'
<1>0. IsFiniteSet(google) /\ unrecorded \in Nat
  BY DEF TypeOK
<1>1. Cardinality(google) <= 1 + unrecorded
  BY BoundedFirst
<1>2. /\ Cardinality(Others(l)) \in Nat /\ Cardinality(google) \in Nat
      /\ Cardinality(Others(l)) <= Cardinality(google)
  BY <1>0, CountOthers DEF Others
<1>3. Others(l)' = Others(l)
  BY DEF Others
<1> QED
  BY <1>0, <1>1, <1>2, <1>3 DEF Bounded

\* A call whose answer no row tells of changes one event at most.
LEMMA LostCall ==
  ASSUME TypeOK, IdsAreNew, NEW e \in EventRow, NEW id \in Nat,
         NEW o \in Called(e, id), Leave(o, 1), NEW k \in Nat, Bounded(k)
  PROVE  Bounded(k)'
<1> DEFINE new == [id |-> created + 1, slot |-> e.target.slot]
           rest == {g \in google' : g.id # k}
<1>0. /\ IsFiniteSet(google) /\ unrecorded \in Nat
      /\ google' = o.google /\ unrecorded' = unrecorded + 1
  BY DEF TypeOK, Leave
<1>1. IsFiniteSet(Others(k)) /\ Cardinality(Others(k)) \in Nat
  BY <1>0, CountOthers DEF Others
<1>2. Others(k)' = rest
  BY DEF Others
<1>3. Cardinality(rest) \in Nat
      /\ Cardinality(rest) <= Cardinality(Others(k)) + 1
  <2>1. CASE Creates(e, id, o)
    <3>1. rest \subseteq Others(k) \cup {new}
      BY <1>0, <2>1 DEF Creates, Others
    <3>2. /\ IsFiniteSet(Others(k) \cup {new})
          /\ Cardinality(Others(k) \cup {new}) \in Nat
          /\ Cardinality(Others(k) \cup {new}) <= Cardinality(Others(k)) + 1
      <4> HIDE DEF new
      <4>1. /\ IsFiniteSet(Others(k) \cup {new})
            /\ \/ Cardinality(Others(k) \cup {new}) = Cardinality(Others(k))
               \/ Cardinality(Others(k) \cup {new})
                    = Cardinality(Others(k)) + 1
        BY <1>1, FS_AddElement
      <4> QED
        BY <1>1, <4>1
    <3>3. IsFiniteSet(rest) /\ Cardinality(rest) \in Nat
          /\ Cardinality(rest) <= Cardinality(Others(k) \cup {new})
      BY <3>1, <3>2, FS_Subset, FS_CardinalityType
    <3> QED
      BY <1>1, <3>2, <3>3
  <2>2. CASE Updates(e, id, o)
    <3>1. rest \subseteq {[id |-> o.id, slot |-> e.target.slot]}
      BY <1>0, <2>2 DEF Updates
    <3>2. /\ IsFiniteSet({[id |-> o.id, slot |-> e.target.slot]})
          /\ Cardinality({[id |-> o.id, slot |-> e.target.slot]}) = 1
      BY FS_Singleton
    <3>3. Cardinality(rest) \in Nat /\ Cardinality(rest) <= 1
      BY <3>1, <3>2, FS_Subset, FS_CardinalityType
    <3> QED
      BY <1>1, <3>3
  <2>3. CASE Deletes(e, id, o)
    <3>1. rest \subseteq Others(k)
      BY <1>0, <2>3 DEF Deletes, Others
    <3> QED
      BY <1>1, <3>1, FS_Subset, FS_CardinalityType
  <2> QED
    BY <2>1, <2>2, <2>3, CallOutcomes
<1> HIDE DEF rest
<1> QED
  BY <1>0, <1>1, <1>2, <1>3 DEF Bounded

\* A call that is recorded leaves no more behind than there was.
LEMMA KnownCall ==
  ASSUME TypeOK, IdsAreNew, NEW e \in EventRow, NEW id \in Nat, Bounded(id),
         NEW o \in Called(e, id), Leave(o, 0)
  PROVE  Bounded(o.id)'
<1> SUFFICES ASSUME NEW k \in Nat, k = o.id PROVE Bounded(k)'
  BY OutcomeTyped DEF Bounded, Others
<1> DEFINE new == [id |-> created + 1, slot |-> e.target.slot]
           rest == {g \in google' : g.id # k}
<1>0. /\ IsFiniteSet(google) /\ unrecorded \in Nat /\ created \in Nat
      /\ google' = o.google /\ unrecorded' = unrecorded
  BY DEF TypeOK, Leave
<1>1. IsFiniteSet(Others(id)) /\ Cardinality(Others(id)) \in Nat
  BY <1>0, CountOthers DEF Others
<1>2. Others(k)' = rest
  BY DEF Others
<1>3. CASE rest = {}
  <2>1. Cardinality(rest) = 0
    BY <1>3, FS_EmptySet
  <2> QED
    BY <1>0, <1>2, <2>1 DEF Bounded
<1>4. CASE Creates(e, id, o)
  <2>1. k = created + 1 /\ google' = google \cup {new} /\ k # 0
    BY <1>0, <1>4 DEF Creates
  <2>2. rest = google
    BY <1>0, <2>1 DEF IdsAreNew
  <2>3. id # 0 => Others(id) = google
    BY <1>4 DEF Creates, Others
  <2>4. id = 0 => rest = {}
    BY <1>4, <2>2 DEF Creates
  <2>5. CASE id # 0
    BY <1>0, <1>2, <2>1, <2>2, <2>3, <2>5 DEF Bounded
  <2> QED
    BY <1>3, <2>4, <2>5
<1>5. CASE Updates(e, id, o)
  <2>1. rest = {}
    BY <1>0, <1>5 DEF Updates
  <2> QED
    BY <1>3, <2>1
<1>6. CASE Deletes(e, id, o)
  <2>1. k = id /\ rest = Others(id)
    BY <1>0, <1>6 DEF Deletes, Others
  <2> QED
    BY <1>0, <1>2, <2>1 DEF Bounded
<1> QED
  BY <1>4, <1>5, <1>6, CallOutcomes

LEMMA NewIds ==
  ASSUME TypeOK, IdsAreNew, NEW e \in EventRow, NEW id \in Nat,
         NEW o \in Called(e, id), google' = o.google, created' = o.created
  PROVE  IdsAreNew'
<1>0. created \in Nat
  BY DEF TypeOK
<1>1. CASE Creates(e, id, o)
  BY <1>0, <1>1 DEF Creates, IdsAreNew
<1>2. CASE Updates(e, id, o)
  BY <1>0, <1>2 DEF Updates, IdsAreNew
<1>3. CASE Deletes(e, id, o)
  BY <1>0, <1>3 DEF Deletes, IdsAreNew
<1> QED
  BY <1>1, <1>2, <1>3, CallOutcomes

Few == IdsAreNew /\ FewExtra

\* Rows stay bounded if no handler gets a record, and if the row of the
\* connection is bounded whenever one is lost.
LEMMA ExtraKept ==
  ASSUME TypeOK, IdsAreNew', FewExtra,
         DOMAIN events \subseteq DOMAIN events',
         \A j \in DOMAIN events' :
           events'[j].record # NoRecord =>
             j \in DOMAIN events /\ events'[j].record = events[j].record,
         \A k \in Nat : Bounded(k) => Bounded(k)',
         \/ /\ \A j \in DOMAIN events : events'[j].record = events[j].record
            /\ UNCHANGED sync
         \/ Bounded(sync.id)'
  PROVE  Few'
<1>0. /\ sync.id \in Nat
      /\ \A j \in DOMAIN events : events[j].record.id \in Nat
  BY EventsTyped DEF TypeOK, EventRow
<1>1. ASSUME NEW j \in DOMAIN events', events'[j].record # NoRecord
      PROVE  Bounded(events[j].record.id)'
  <2> DEFINE k == events[j].record.id
  <2>1. /\ j \in DOMAIN events /\ events'[j].record = events[j].record
        /\ k \in Nat /\ Bounded(k)
    BY <1>0, <1>1 DEF FewExtra
  <2>2. SUFFICES ASSUME NEW l \in Nat, l = k PROVE Bounded(l)'
    BY <2>1 DEF Bounded, Others
  <2> QED
    BY <2>1, <2>2
<1>2. ASSUME \A j \in DOMAIN events' : events'[j].record = NoRecord
      PROVE  Bounded(sync.id)'
  <2>1. CASE /\ \A j \in DOMAIN events : events'[j].record = events[j].record
             /\ UNCHANGED sync
    <3>1. Bounded(sync.id)
      BY <1>2, <2>1 DEF FewExtra
    <3>2. SUFFICES ASSUME NEW l \in Nat, l = sync.id PROVE Bounded(l)'
      BY <1>0, <2>1 DEF Bounded, Others
    <3> QED
      BY <3>1, <3>2
  <2> QED
    BY <2>1
<1>3. FewExtra'
  BY <1>1, <1>2 DEF FewExtra
<1> QED
  BY <1>3 DEF Few

\* What the bound is about stays as it is.
LEMMA SameBounds ==
  ASSUME UNCHANGED <<google, created, unrecorded>>
  PROVE  /\ IdsAreNew => IdsAreNew'
         /\ \A k \in Nat : Bounded(k) => Bounded(k)'
<1>1. \A k : Others(k)' = Others(k)
  BY DEF Others
<1> QED
  BY <1>1 DEF IdsAreNew, Bounded

\* Some row is bounded, so there is one event too many at most.
LEMMA FewBounds ==
  ASSUME TypeOK, Few
  PROVE  \E k \in Nat : Bounded(k)
<1>0. /\ sync.id \in Nat
      /\ \A j \in DOMAIN events : events[j].record.id \in Nat
  BY EventsTyped DEF TypeOK, EventRow
<1> QED
  BY <1>0 DEF Few, FewExtra

LEMMA ApiExtra ==
  ASSUME TypeOK, StepsFit, Few, Api \/ QueueFuture \/ Tick
  PROVE  Few'
<1> USE DEF base, calendar, job, Change
<1>0. UNCHANGED <<google, created, unrecorded>>
  BY DEF Api, Reschedule, Cancel, Disconnect, Reconnect, SyncFuture,
         QueueFuture, Tick
<1>1. IdsAreNew' /\ FewExtra /\ \A k \in Nat : Bounded(k) => Bounded(k)'
  BY <1>0, SameBounds DEF Few
<1>2. ASSUME NEW e, Added(e), Cleared(e), UNCHANGED sync
      PROVE  Few'
  <2>1. /\ DOMAIN events \subseteq DOMAIN events'
        /\ \A j \in DOMAIN events : events'[j].record = events[j].record
        /\ \A j \in DOMAIN events' :
             events'[j].record # NoRecord => j \in DOMAIN events
    BY <1>2 DEF Added, Cleared
  <2> QED
    BY <1>1, <1>2, <2>1, ExtraKept
<1>3. ASSUME UNCHANGED events, UNCHANGED sync PROVE Few'
  BY <1>1, <1>3, ExtraKept
<1>4. ASSUME NEW t \in Slots, Reschedule(t) PROVE Few'
  <2>1. Added(Event("Rescheduled", t))
    BY <1>4, NewTyped, EventAdded DEF Reschedule, Types
  <2>2. UNCHANGED sync
    BY <1>4 DEF Reschedule
  <2> QED
    BY <1>2, <2>1, <2>2, NewTyped DEF Types
<1>5. CASE Cancel
  <2>1. appointment.slot \in Slots
    BY DEF TypeOK
  <2>2. Added(Event("Cancelled", appointment.slot))
    BY <1>5, <2>1, NewTyped, EventAdded DEF Cancel, Types
  <2>3. UNCHANGED sync
    BY <1>5 DEF Cancel
  <2> QED
    BY <1>2, <2>1, <2>2, <2>3, NewTyped DEF Types
<1>6. CASE QueueFuture
  <2>1. queueing \in Slots
    BY <1>6 DEF QueueFuture, TypeOK
  <2>2. Added(Event("Booked", queueing))
    BY <1>6, <2>1, NewTyped, EventAdded DEF QueueFuture, Types
  <2>3. UNCHANGED sync
    BY <1>6 DEF QueueFuture
  <2> QED
    BY <1>2, <2>1, <2>2, <2>3, NewTyped DEF Types
<1>7. CASE Disconnect
  <2>1. /\ \A i \in DOMAIN events : events[i].record = NoRecord
        /\ UNCHANGED events /\ sync'.id = 0
    BY <1>7 DEF Disconnect
  <2>2. Bounded(sync.id) /\ sync.id \in Nat
    BY <1>1, <2>1 DEF FewExtra, TypeOK
  <2>3. Bounded(0)
    BY <2>2, BoundedFirst DEF Few
  <2>4. Bounded(0)'
    BY <1>1, <2>3
  <2>5. Bounded(sync.id)'
    BY <2>1, <2>4 DEF Bounded, Others
  <2> QED
    BY <1>1, <2>1, <2>5, ExtraKept
<1>8. CASE Reconnect \/ SyncFuture \/ Tick
  <2>1. UNCHANGED events /\ UNCHANGED sync
    BY <1>8 DEF Reconnect, SyncFuture, Tick
  <2> QED
    BY <1>3, <2>1
<1> QED
  BY <1>4, <1>5, <1>6, <1>7, <1>8 DEF Api

\* Whoever calls for the connection that is there is the only one.
LEMMA CallerIsAlone ==
  ASSUME TypeOK, StepsFit, OneLock, NEW i \in DOMAIN events, CanCall(i),
         connection.id = events[i].target.to
  PROVE  \A j \in DOMAIN events : events[j].record = NoRecord
<1>1. events[i].record = NoRecord
  BY DEF CanCall, StepsFit, StepFits
<1>2. ASSUME NEW j \in DOMAIN events, events[j].record # NoRecord
      PROVE  FALSE
  <2>1. events[j].target.to = connection.id /\ HasLock(j) /\ j # i
    BY <1>1, <1>2 DEF StepsFit, StepFits, HasLock
  <2> QED
    BY <2>1 DEF CanCall, LockIsFree, OneLock, HasLock
<1> QED
  BY <1>2

LEMMA CallExtra ==
  ASSUME TypeOK, StepsFit, OneLock, Few, NEW i \in DOMAIN events,
         Call(i) \/ \E denied \in BOOLEAN : CallFails(i, denied)
  PROVE  Few'
<1> USE DEF base, job
<1>0. /\ events[i] \in EventRow /\ sync.id \in Nat
      /\ IdsAreNew /\ FewExtra
  BY EventsTyped DEF TypeOK, Few
<1>1. /\ CanCall(i) /\ connection.id = events[i].target.to
      /\ UNCHANGED connection
  BY DEF Call, CallFails
<1>2. /\ \A j \in DOMAIN events : events[j].record = NoRecord
      /\ Bounded(sync.id)
  BY <1>0, <1>1, CallerIsAlone DEF FewExtra
<1>3. ASSUME NEW status \in {"synced", "deleted", "failed"}, NEW id \in Nat,
             NEW denied \in BOOLEAN, Record(i, status, id, denied),
             IdsAreNew', Bounded(id)'
      PROVE  Few'
  <2> DEFINE e == RecordRow(events[i], status, id, denied)
  <2>1. Changed(i, e)
    BY <1>3, RecordMoves DEF Becomes
  <2>2. e.record # NoRecord /\ e.record.id = id
    BY <1>0, RecordTyped
  <2> HIDE DEF e
  <2>3. /\ events'[i].record # NoRecord /\ events'[i].record.id = id
        /\ i \in DOMAIN events'
        /\ \A j \in DOMAIN events' : j # i => events'[j].record = NoRecord
    BY <1>2, <2>1, <2>2 DEF Changed
  <2>4. ASSUME NEW j \in DOMAIN events', events'[j].record # NoRecord
        PROVE  Bounded(events[j].record.id)'
    <3>1. events'[j].record.id = id
      BY <2>3, <2>4
    <3> QED
      BY <1>3, <3>1 DEF Bounded, Others
  <2>5. FewExtra'
    BY <2>3, <2>4 DEF FewExtra
  <2> QED
    BY <1>3, <2>5 DEF Few
<1>4. CASE Call(i)
  <2>1. PICK o \in Called(events[i], sync.id) :
          /\ Leave(o, 0)
          /\ Record(i, IF events[i].type = "Cancelled" THEN "deleted"
                       ELSE "synced", o.id, FALSE)
    BY <1>4 DEF Call
  <2>2. o.id \in Nat
    BY <1>0, OutcomeTyped
  <2>3. IdsAreNew' /\ Bounded(o.id)'
    BY <1>0, <1>2, <2>1, NewIds, KnownCall DEF Leave
  <2> QED
    BY <1>3, <2>1, <2>2, <2>3
<1>5. ASSUME NEW denied \in BOOLEAN, CallFails(i, denied) PROVE Few'
  <2> SUFFICES ASSUME NEW k \in Nat, k = sync.id PROVE Few'
    BY <1>0
  <2>1. Bounded(k) /\ Record(i, "failed", k, denied)
    BY <1>2, <1>5 DEF CallFails
  <2>2. CASE UNCHANGED calendar
    BY <1>0, <1>3, <2>1, <2>2, SameBounds DEF calendar
  <2>3. CASE \E o \in Called(events[i], sync.id) : Leave(o, 1)
    <3>1. PICK o \in Called(events[i], sync.id) : Leave(o, 1)
      BY <2>3
    <3>2. IdsAreNew' /\ Bounded(k)'
      BY <1>0, <2>1, <3>1, NewIds, LostCall DEF Leave
    <3> QED
      BY <1>3, <2>1, <3>2
  <2> QED
    BY <1>5, <2>2, <2>3 DEF CallFails
<1> QED
  BY <1>4, <1>5

\* A handler that starts again leaves one more call behind, if it has called.
LEMMA ReleaseExtra ==
  ASSUME TypeOK, Few, NEW i \in DOMAIN events,
         DOMAIN events' = DOMAIN events, events'[i].record = NoRecord,
         \A j \in DOMAIN events :
           j # i => events'[j].record = events[j].record,
         UNCHANGED <<google, created, sync>>,
         unrecorded' = IF events[i].record = NoRecord THEN unrecorded
                       ELSE unrecorded + 1
  PROVE  Few'
<1>1. IdsAreNew /\ IdsAreNew' /\ FewExtra
  BY DEF Few, IdsAreNew
<1>2. CASE events[i].record = NoRecord
  <2>1. \A k \in Nat : Bounded(k) => Bounded(k)'
    BY <1>2, SameBounds
  <2> QED
    BY <1>1, <1>2, <2>1, ExtraKept
<1>3. CASE events[i].record # NoRecord
  <2>1. PICK k \in Nat : Bounded(k)
    BY FewBounds
  <2>2. \A l \in Nat : Bounded(l)'
    BY <1>1, <1>3, <2>1, OneMoreUnrecorded
  <2>3. Bounded(sync.id)'
    <3>1. sync'.id \in Nat
      BY DEF TypeOK
    <3>2. \A l \in Nat :
            Cardinality({e \in google' : e.id # l})
              <= IF l = 0 THEN 1 + unrecorded' ELSE unrecorded'
      BY <2>2 DEF Bounded, Others
    <3> QED
      BY <3>1, <3>2 DEF Bounded, Others
  <2> QED
    BY <1>1, <2>2, <2>3, ExtraKept
<1> QED
  BY <1>2, <1>3

LEMMA HandlerExtra ==
  ASSUME TypeOK, StepsFit, OneLock, Few, NEW i \in DOMAIN events,
         HandlerStep(i) \/ Abort(i)
  PROVE  Few'
<1> USE DEF base, job
<1>0. /\ events[i] \in EventRow /\ StepFits(events[i])
      /\ IdsAreNew /\ FewExtra
  BY EventsTyped DEF StepsFit, Few
<1>rows. ASSUME NEW e \in EventRow
      PROVE  /\ Waiting(e).record = NoRecord
             /\ GrantedRow(e).record = e.record
             /\ LockedRow(e).record = e.record
  BY RowsTyped, GrantedTyped DEF Cleared
<1>1. ASSUME NEW e, Changed(i, e), e.record = events[i].record,
             UNCHANGED <<google, created, unrecorded, sync>>
      PROVE  Few'
  <2>1. /\ DOMAIN events' = DOMAIN events
        /\ \A j \in DOMAIN events : events'[j].record = events[j].record
    BY <1>1 DEF Changed
  <2>2. IdsAreNew' /\ \A k \in Nat : Bounded(k) => Bounded(k)'
    BY <1>0, <1>1, SameBounds
  <2> QED
    BY <1>0, <1>1, <2>1, <2>2, ExtraKept
<1>2. CASE ReadTarget(i)
  <2>1. /\ Changed(i, TargetRow(events[i]))
        /\ UNCHANGED <<google, created, unrecorded, sync>>
    BY <1>2, HandlerMoves DEF Becomes, ReadTarget, calendar
  <2> QED
    BY <1>0, <1>1, <2>1, RowsTyped
<1>3. CASE Remind(i)
  <2>1. /\ Changed(i, RemindRow(events[i]))
        /\ UNCHANGED <<google, created, unrecorded, sync>>
    BY <1>3, HandlerMoves DEF Becomes, Remind, calendar
  <2> QED
    BY <1>0, <1>1, <2>1, RowsTyped
<1>4. CASE Commit(i)
  <2> DEFINE e == DoneRow(events[i])
  <2>1. Changed(i, e) /\ UNCHANGED <<google, created, unrecorded>>
    BY <1>4, HandlerMoves DEF Becomes, Commit
  <2>2. e.record = NoRecord
    BY <1>0, RowsTyped DEF Cleared
  <2> HIDE DEF e
  <2>3. IdsAreNew' /\ \A k \in Nat : Bounded(k) => Bounded(k)'
    BY <1>0, <2>1, SameBounds
  <2>4. /\ DOMAIN events' = DOMAIN events /\ events'[i].record = NoRecord
        /\ \A j \in DOMAIN events : j # i => events'[j] = events[j]
    BY <2>1, <2>2 DEF Changed
  <2>5. CASE events[i].record = NoRecord
    <3>1. UNCHANGED sync
      BY <1>4, <2>5 DEF Commit
    <3> QED
      BY <1>0, <2>3, <2>4, <2>5, <3>1, ExtraKept
  <2>6. CASE events[i].record # NoRecord
    <3>1. sync'.id = events[i].record.id
      BY <1>4, <2>6 DEF Commit
    <3>2. events[i].record.id \in Nat /\ Bounded(events[i].record.id)
      BY <1>0, <2>6 DEF FewExtra, EventRow
    <3>3. SUFFICES ASSUME NEW k \in Nat, k = events[i].record.id PROVE Few'
      BY <3>2
    <3>4. Bounded(k)'
      BY <2>3, <3>2, <3>3
    <3>5. Bounded(sync.id)'
      BY <3>1, <3>3, <3>4 DEF Bounded, Others
    <3> QED
      BY <1>0, <2>3, <2>4, <3>5, ExtraKept
  <2> QED
    BY <2>5, <2>6
<1>5. CASE CallForGone(i)
  <2>1. /\ Changed(i, Waiting(events[i])) /\ UNCHANGED sync
        /\ \E o \in Called(events[i], 0) : Leave(o, 1)
    BY <1>5, HandlerMoves DEF Becomes, CallForGone, Leave
  <2>2. PICK o \in Called(events[i], 0) : Leave(o, 1)
    BY <2>1
  <2>3. IdsAreNew' /\ \A k \in Nat : Bounded(k) => Bounded(k)'
    BY <1>0, <2>2, NewIds, LostCall DEF Leave
  <2>4. events[i].record = NoRecord
    BY <1>0, <1>5 DEF CallForGone, CanCall, StepFits
  <2>5. /\ DOMAIN events' = DOMAIN events
        /\ \A j \in DOMAIN events : events'[j].record = events[j].record
    BY <1>0, <1>rows, <2>1, <2>4 DEF Changed
  <2> QED
    BY <1>0, <2>1, <2>3, <2>5, ExtraKept
<1>6. CASE Abort(i)
  <2>1. /\ Changed(i, Waiting(events[i]))
        /\ UNCHANGED <<google, created, sync>>
        /\ unrecorded' = IF events[i].record = NoRecord THEN unrecorded
                         ELSE unrecorded + 1
    BY <1>6, HandlerMoves DEF Becomes, Abort
  <2>2. /\ DOMAIN events' = DOMAIN events /\ events'[i].record = NoRecord
        /\ \A j \in DOMAIN events : j # i => events'[j] = events[j]
    BY <1>0, <1>rows, <2>1 DEF Changed
  <2> QED
    BY <2>1, <2>2, ReleaseExtra
<1>7. CASE Call(i)
  BY <1>7, CallExtra
<1>8. ASSUME NEW j \in DOMAIN events, DeadlockBroken(i, j) PROVE Few'
  <2>0. /\ events[j] \in EventRow /\ i # j
        /\ events[i].record = NoRecord /\ events[j].record # NoRecord
        /\ UNCHANGED <<google, created, sync>>
    BY <1>0, <1>8, EventsTyped DEF DeadlockBroken, StepFits
  <2>1. CASE /\ BothBecome(i, Waiting(events[i]), j, GrantedRow(events[j]))
             /\ UNCHANGED unrecorded
    <3>1. /\ DOMAIN events' = DOMAIN events /\ events'[i].record = NoRecord
          /\ events'[j].record = events[j].record
          /\ \A k \in DOMAIN events : k \notin {i, j} => events'[k] = events[k]
      BY <1>0, <1>rows, <2>0, <2>1 DEF BothBecome
    <3> QED
      BY <2>0, <2>1, <3>1, ReleaseExtra
  <2>2. CASE /\ BothBecome(j, Waiting(events[j]), i, LockedRow(events[i]))
             /\ unrecorded' = unrecorded + 1
    <3>1. /\ DOMAIN events' = DOMAIN events /\ events'[j].record = NoRecord
          /\ events'[i].record = events[i].record
          /\ \A k \in DOMAIN events : k \notin {i, j} => events'[k] = events[k]
      BY <1>0, <1>rows, <2>0, <2>2 DEF BothBecome
    <3> QED
      BY <2>0, <2>2, <3>1, ReleaseExtra
  <2> QED
    BY <1>8, <2>1, <2>2, DeadlockMoves
<1> QED
  BY <1>2, <1>3, <1>4, <1>5, <1>6, <1>7, <1>8 DEF HandlerStep

LEMMA AlwaysFew == Spec => []Few
<1>1. Init => Few
  <2> SUFFICES ASSUME Init PROVE Few
    OBVIOUS
  <2>1. google = {} /\ unrecorded = 0 /\ sync.id = 0
        /\ \A i \in DOMAIN events : events[i].record = NoRecord
    BY DEF Init, Event
  <2>2. Others(0) = {} /\ Cardinality({}) = 0
    BY <2>1, FS_EmptySet DEF Others
  <2>3. Bounded(0)
    BY <2>1, <2>2 DEF Bounded
  <2> QED
    BY <2>1, <2>3 DEF Few, FewExtra, IdsAreNew
<1>2. TypeOK /\ StepsFit /\ OneLock /\ Few /\ [Next]_vars => Few'
  <2> SUFFICES ASSUME TypeOK, StepsFit, OneLock, Few, [Next]_vars
               PROVE  Few'
    OBVIOUS
  <2>1. ASSUME UNCHANGED <<events, calendar>> PROVE Few'
    <3>1. IdsAreNew' /\ \A k \in Nat : Bounded(k) => Bounded(k)'
      BY <2>1, SameBounds DEF Few, calendar
    <3> QED
      BY <2>1, <3>1, ExtraKept DEF Few, calendar
  <2>2. UNCHANGED vars => UNCHANGED <<events, calendar>>
    BY DEF vars
  <2>3. ASSUME NEW s \in Senders,
               Claim(s) \/ Sending(s) \/ RecordResult(s) \/ SenderDies(s)
        PROVE  UNCHANGED <<events, calendar>>
    BY <2>3 DEF Claim, Sending, Send, RecordResult, SenderDies
  <2> QED
    BY <2>1, <2>2, <2>3, StepsOfNext, ApiExtra, HandlerExtra, CallExtra
<1> QED
  BY <1>1, <1>2, AlwaysTyped, AlwaysLocked, PTL DEF Spec

\* Theorem.  No schedule of the reminder is mailed more often than it has
\* attempts, however many runs of the job overlap, die after sending or report
\* late; and each event in Google beyond the first is due to a call that no
\* row tells of, however handlers overlap, deadlock, fail and are repeated.
THEOREM RepeatsStayBounded == Spec => []RepeatsAreBounded
<1>1. TypeOK /\ FewMails /\ Few => RepeatsAreBounded
  <2> SUFFICES ASSUME TypeOK, FewMails, Few PROVE RepeatsAreBounded
    OBVIOUS
  <2>1. ASSUME NEW k \in DOMAIN mails PROVE mails[k] <= MaxAttempts
    <3>1. /\ mails[k] \in Nat /\ MaxAttempts \in Nat
          /\ reminder.attempts \in Nat
      BY MailsTyped
    <3>2. Cardinality(Sends(k)) \in Nat
      BY SendersAssumption, FS_Subset, FS_CardinalityType DEF Sends
    <3> QED
      BY <3>1, <3>2 DEF FewMails, Mailed
  <2>2. Cardinality(google) <= 1 + unrecorded
    BY FewBounds, BoundedFirst DEF Few
  <2> QED
    BY <2>1, <2>2 DEF RepeatsAreBounded
<1> QED
  BY <1>1, AlwaysTyped, AlwaysFewMails, AlwaysFew, PTL
-----------------------------------------------------------------------------
(* Events that are handled in order                                        *)

Done(i) == events[i].step = "done"

IsLast(i) == i = Len(events)

\* The event that sets the slot of the reminder last.
Reminds(i) == IF Active THEN IsLast(i) ELSE i + 1 = Len(events)

\* Google has one event at most, the one with this identifier.
Single(id) ==
  google = {} \/ (id # 0 /\ \E t : google = {[id |-> id, slot |-> t]})

OneByOne ==
  \A i, j \in DOMAIN events :
    i < j /\ events[j].step # "waiting" => Done(i)

\* The last event tells of the appointment as it is.
EventsTell ==
  /\ ~Active => Len(events) >= 2
  /\ \A i \in DOMAIN events :
       /\ events[i].type = "Cancelled" <=> IsLast(i) /\ ~Active
       /\ IsLast(i) \/ Reminds(i) => events[i].slot = appointment.slot

\* A handler has called before it goes on.
InCourse(e) ==
  /\ e.target.to \in {0, 1} /\ ~e.denied
  /\ e.step \in {"remind", "commit"} => e.record # NoRecord

HandlersTell ==
  /\ \A i \in DOMAIN events :
       /\ InCourse(events[i])
       /\ IsLast(i) /\ events[i].step \in {"call", "locked"}
            => events[i].target.slot = appointment.slot
       /\ events[i].record # NoRecord => Single(events[i].record.id)
  /\ (\A i \in DOMAIN events : events[i].record = NoRecord)
       => Single(sync.id)

ResultsTell ==
  \A i \in DOMAIN events :
    /\ Done(i) /\ Reminds(i) => reminder.slot = appointment.slot
    /\ IsLast(i) /\ (Done(i) \/ events[i].record # NoRecord)
         => InGoogle = Expected
    /\ IsLast(i) /\ Done(i)
         => metrics[appointment.slot] = appointment.status

\* The events that are done, the one that is handled and those that wait.
Orderly ==
  inOrder => /\ connection = [id |-> 1, status |-> "connected"]
             /\ OneByOne /\ EventsTell /\ HandlersTell /\ ResultsTell

\* The handler of this event is the only one.
Alone(h) ==
  \A j \in DOMAIN events :
    /\ j < h => Done(j)
    /\ j > h => events[j].step = "waiting"

LEMMA WorksAlone ==
  ASSUME TypeOK, inOrder, Orderly, NEW h \in DOMAIN events,
         ~Done(h), events[h].step = "waiting" => AsFirst(h) /\ inOrder'
  PROVE  Alone(h)
<1>1. DOMAIN events \subseteq Nat /\ OneByOne
  BY EventsTyped DEF Orderly
<1>2. CASE Working(h)
  BY <1>1, <1>2 DEF Alone, OneByOne, Working, Done
<1>3. CASE events[h].step = "waiting" /\ AsFirst(h) /\ inOrder'
  BY <1>1, <1>3 DEF Alone, OneByOne, AsFirst, Working, Done
<1> QED
  BY <1>2, <1>3 DEF Working, Done

LEMMA AddedInOrder ==
  ASSUME TypeOK, inOrder, Orderly, Active, NEW e, Added(e), Cleared(e),
         e.step = "waiting", e.slot = appointment'.slot,
         (e.type = "Cancelled") = ~Active',
         ~Active' => appointment'.slot = appointment.slot,
         UNCHANGED <<connection, reminder, google, sync, metrics>>
  PROVE  Orderly'
<1> DEFINE n == Len(events)
<1>0. /\ n \in Nat \ {0} /\ DOMAIN events = 1..n /\ OneByOne /\ EventsTell
      /\ HandlersTell /\ ResultsTell
      /\ connection = [id |-> 1, status |-> "connected"]
  BY EventsTyped DEF Orderly
<1>1. /\ Len(events') = n + 1 /\ DOMAIN events' = 1..(n + 1)
      /\ events'[n + 1] = e /\ \A i \in 1..n : events'[i] = events[i]
  BY <1>0 DEF Added
<1> HIDE DEF n
<1>2. OneByOne'
  <2>1. ASSUME NEW i \in 1..(n + 1), NEW j \in 1..(n + 1), i < j,
               events'[j].step # "waiting"
        PROVE  events'[i].step = "done"
    <3>1. i \in 1..n /\ j \in 1..n
      BY <1>0, <1>1, <2>1
    <3> QED
      BY <1>0, <1>1, <2>1, <3>1 DEF OneByOne, Done
  <2> QED
    BY <1>1, <2>1 DEF OneByOne, Done
<1>3. EventsTell'
  <2>1. ~Active' => n + 1 >= 2
    BY <1>0
  <2>2. ASSUME NEW i \in 1..(n + 1)
        PROVE  /\ events'[i].type = "Cancelled" <=> i = n + 1 /\ ~Active'
               /\ i = n + 1 \/ (~Active' /\ i + 1 = n + 1)
                    => events'[i].slot = appointment'.slot
    <3>1. CASE i = n + 1
      BY <1>1, <3>1
    <3>2. CASE i \in 1..n
      <4>1. events[i].type # "Cancelled"
        BY <1>0, <3>2 DEF EventsTell
      <4>2. i = n => events[i].slot = appointment.slot
        BY <1>0, <3>2 DEF EventsTell, IsLast, n
      <4> QED
        BY <1>0, <1>1, <3>2, <4>1, <4>2
    <3> QED
      BY <1>0, <3>1, <3>2
  <2>3. \A i \in 1..(n + 1) : Reminds(i)' =>
          i = n + 1 \/ (~Active' /\ i + 1 = n + 1)
    BY <1>1 DEF Reminds, IsLast
  <2> QED
    BY <1>1, <2>1, <2>2, <2>3 DEF EventsTell, IsLast
<1>4. HandlersTell'
  <2>1. \A k : Single(k)' = Single(k)
    BY DEF Single
  <2>2. /\ e.target.to = 0 /\ ~e.denied /\ e.record = NoRecord
    BY DEF Cleared, NoTarget
  <2>3. ASSUME NEW i \in 1..(n + 1)
        PROVE  /\ events'[i].target.to \in {0, 1} /\ ~events'[i].denied
               /\ events'[i].step \in {"remind", "commit"}
                    => events'[i].record # NoRecord
               /\ i = n + 1 => events'[i].step = "waiting"
               /\ events'[i].record # NoRecord => Single(events'[i].record.id)
    <3>1. CASE i = n + 1
      BY <1>1, <2>2, <3>1
    <3>2. CASE i \in 1..n
      BY <1>0, <1>1, <3>2 DEF HandlersTell, InCourse
    <3> QED
      BY <1>0, <3>1, <3>2
  <2>4. ASSUME \A i \in 1..(n + 1) : events'[i].record = NoRecord
        PROVE  Single(sync.id)
    BY <1>0, <1>1, <2>4 DEF HandlersTell
  <2>5. Single(sync.id)' = Single(sync.id)
    BY DEF Single
  <2>6. \A i \in 1..(n + 1) :
          events'[i].record # NoRecord => Single(events[i].record.id)'
    <3>1. ASSUME NEW i \in 1..(n + 1), events'[i].record # NoRecord
          PROVE  Single(events[i].record.id)'
      <4>1. Single(events'[i].record.id)
        BY <2>3, <3>1
      <4> QED
        BY <4>1 DEF Single
    <3> QED
      BY <3>1
  <2> QED
    BY <1>1, <2>3, <2>4, <2>5, <2>6 DEF HandlersTell, InCourse, IsLast
<1>5. ResultsTell'
  <2>1. ASSUME NEW i \in 1..(n + 1)
        PROVE  /\ i = n + 1 => /\ events'[i].step # "done"
                               /\ events'[i].record = NoRecord
               /\ ~Active' /\ i + 1 = n + 1 /\ events'[i].step = "done"
                    => reminder.slot = appointment'.slot
    <3>1. CASE i = n + 1
      BY <1>0, <1>1, <3>1 DEF Cleared
    <3>2. CASE i \in 1..n
      BY <1>0, <1>1, <3>2 DEF ResultsTell, Reminds, IsLast, Done, n
    <3> QED
      BY <1>0, <3>1, <3>2
  <2>2. \A i \in 1..(n + 1) : Reminds(i)' =>
          i = n + 1 \/ (~Active' /\ i + 1 = n + 1)
    BY <1>1 DEF Reminds, IsLast
  <2> QED
    BY <1>1, <2>1, <2>2 DEF ResultsTell, IsLast, Done
<1> QED
  BY <1>0, <1>2, <1>3, <1>4, <1>5 DEF Orderly

\* What a step of the only handler has to leave.
LEMMA HandledInOrder ==
  ASSUME TypeOK, StepsFit, inOrder, Orderly,
         NEW h \in DOMAIN events, Alone(h),
         NEW e, Changed(h, e), KeepsEvent(events[h], e), e.step # "waiting",
         InCourse(e), UNCHANGED <<appointment, connection>>,
         IsLast(h) /\ e.step \in {"call", "locked"} =>
           e.target.slot = appointment.slot,
         IF e.record = NoRecord THEN Single(sync.id)'
         ELSE Single(e.record.id)',
         IsLast(h) /\ (e.step = "done" \/ e.record # NoRecord) =>
           {g.slot : g \in google'} = Expected,
         e.step = "done" /\ Reminds(h) => reminder'.slot = appointment.slot,
         events[h].type = "Cancelled" => reminder'.slot = reminder.slot,
         IsLast(h) /\ e.step = "done" =>
           metrics'[appointment.slot] = appointment.status
  PROVE  Orderly'
<1> DEFINE n == Len(events)
<1>0. /\ n \in Nat \ {0} /\ DOMAIN events = 1..n /\ OneByOne /\ EventsTell
      /\ HandlersTell /\ ResultsTell
      /\ connection = [id |-> 1, status |-> "connected"]
  BY EventsTyped DEF Orderly
<1>1. /\ Len(events') = n /\ DOMAIN events' = 1..n
      /\ events'[h] = e /\ \A i \in 1..n : i # h => events'[i] = events[i]
      /\ h \in 1..n
  BY <1>0 DEF Changed
<1> HIDE DEF n
<1>2. /\ \A i \in 1..n : i < h => events[i].step = "done"
      /\ \A i \in 1..n : i > h => events[i].step = "waiting"
      /\ \A i \in 1..n : i # h => events[i].record = NoRecord
  BY <1>0, <1>1 DEF Alone, Done, StepsFit, StepFits
<1>3. OneByOne'
  BY <1>0, <1>1, <1>2 DEF OneByOne, Done
<1>4. \A i \in 1..n : events'[i].type = events[i].type
                      /\ events'[i].slot = events[i].slot
  BY <1>1 DEF KeepsEvent
<1>5. EventsTell'
  <2>1. ASSUME NEW i \in 1..n
        PROVE  /\ events'[i].type = "Cancelled" <=> i = n /\ ~Active
               /\ i = n \/ (~Active /\ i + 1 = n)
                    => events'[i].slot = appointment.slot
    BY <1>0, <1>4 DEF EventsTell, IsLast, Reminds, n
  <2>2. \A i \in 1..n : Reminds(i)' => i = n \/ (~Active /\ i + 1 = n)
    BY <1>1 DEF Reminds, IsLast, Active
  <2>3. Active' = Active /\ (~Active => n >= 2)
    BY <1>0 DEF Active, EventsTell, n
  <2> QED
    BY <1>1, <2>1, <2>2, <2>3 DEF EventsTell, IsLast
<1>6. HandlersTell'
  <2>1. ASSUME NEW i \in 1..n
        PROVE  /\ events'[i].target.to \in {0, 1} /\ ~events'[i].denied
               /\ events'[i].step \in {"remind", "commit"}
                    => events'[i].record # NoRecord
               /\ i = n /\ events'[i].step \in {"call", "locked"}
                    => events'[i].target.slot = appointment.slot
    <3>1. CASE i = h
      BY <1>1, <3>1 DEF InCourse, IsLast, n
    <3>2. CASE i # h
      BY <1>0, <1>1, <3>2 DEF HandlersTell, InCourse, IsLast, n
    <3> QED
      BY <3>1, <3>2
  <2>2. ASSUME NEW i \in 1..n, events'[i].record # NoRecord
        PROVE  Single(events[i].record.id)'
    <3>1. events'[i].record = e.record /\ e.record # NoRecord
      BY <1>1, <1>2, <2>2
    <3> QED
      BY <3>1 DEF Single
  <2>3. ASSUME \A i \in 1..n : events'[i].record = NoRecord
        PROVE  Single(sync.id)'
    BY <1>1, <2>3
  <2> QED
    BY <1>1, <2>1, <2>2, <2>3 DEF HandlersTell, InCourse, IsLast
<1>7. ResultsTell'
  <2>1. ASSUME NEW i \in 1..n, events'[i].step = "done",
               IF Active THEN i = n ELSE i + 1 = n
        PROVE  reminder'.slot = appointment.slot
    <3>1. CASE i = h
      BY <1>1, <2>1, <3>1 DEF Reminds, IsLast, n
    <3>2. CASE i # h
      <4>1. events[i].step = "done" /\ i < h
        BY <1>0, <1>1, <1>2, <2>1, <3>2
      <4>2. ~Active /\ h = n
        BY <1>0, <1>1, <2>1, <4>1
      <4>3. events[h].type = "Cancelled"
        BY <1>0, <1>1, <4>2 DEF EventsTell, IsLast, n
      <4>4. reminder.slot = appointment.slot
        BY <1>0, <2>1, <4>1 DEF ResultsTell, Done, Reminds, IsLast, n
      <4> QED
        BY <4>3, <4>4
    <3> QED
      BY <3>1, <3>2
  <2>2. ASSUME NEW i \in 1..n, i = n,
               events'[i].step = "done" \/ events'[i].record # NoRecord
        PROVE  /\ i = h
               /\ {g.slot : g \in google'} = Expected
               /\ events'[i].step = "done"
                    => metrics'[appointment.slot] = appointment.status
    <3>1. i = h
      BY <1>0, <1>1, <1>2, <2>2
    <3> QED
      BY <1>1, <2>2, <3>1 DEF IsLast, n
  <2>3. \A i \in 1..n : Reminds(i)' => IF Active THEN i = n ELSE i + 1 = n
    BY <1>1 DEF Reminds, IsLast, Active
  <2>4. Expected' = Expected /\ InGoogle' = {g.slot : g \in google'}
    BY DEF Expected, InGoogle, Active
  <2> QED
    BY <1>1, <2>1, <2>2, <2>3, <2>4 DEF ResultsTell, IsLast, Done
<1> QED
  BY <1>0, <1>3, <1>5, <1>6, <1>7 DEF Orderly

\* One call after another keeps one event in Google.
LEMMA SingleCall ==
  ASSUME TypeOK, NEW e \in EventRow, NEW id \in Nat, Single(id),
         NEW o \in Called(e, id), google' = o.google
  PROVE  /\ Single(o.id)'
         /\ google' = IF e.type = "Cancelled" THEN {}
                      ELSE {[id |-> o.id, slot |-> e.target.slot]}
<1>0. created \in Nat
  BY DEF TypeOK
<1>1. CASE Creates(e, id, o)
  <2>1. google = {} /\ o.id # 0
    BY <1>0, <1>1 DEF Creates, Single
  <2>2. google' = {[id |-> o.id, slot |-> e.target.slot]}
    BY <1>1, <2>1 DEF Creates
  <2> QED
    BY <1>1, <2>1, <2>2 DEF Creates, Single
<1>2. CASE Updates(e, id, o)
  <2>1. PICK g \in google : g.id = o.id
    BY <1>2 DEF Updates
  <2>2. o.id = id /\ id # 0
    BY <2>1 DEF Single
  <2>3. google' = {[id |-> o.id, slot |-> e.target.slot]}
    BY <1>2 DEF Updates
  <2> QED
    BY <1>2, <2>2, <2>3 DEF Updates, Single
<1>3. CASE Deletes(e, id, o)
  <2>1. google' = {}
    BY <1>3 DEF Deletes, Single
  <2> QED
    BY <1>3, <2>1 DEF Deletes, Single
<1> QED
  BY <1>1, <1>2, <1>3, CallOutcomes

LEMMA CallInOrder ==
  ASSUME TypeOK, StepsFit, OneLock, inOrder, Orderly,
         NEW i \in DOMAIN events, Call(i)
  PROVE  Orderly'
<1> USE DEF base, job
<1>0. /\ events[i] \in EventRow /\ sync.id \in Nat
      /\ EventsTell /\ HandlersTell
  BY EventsTyped DEF TypeOK, Orderly
<1>1. /\ CanCall(i) /\ connection.id = events[i].target.to
      /\ events[i].step \in {"call", "locked"}
      /\ UNCHANGED <<appointment, connection, reminder>>
  BY DEF Call, CanCall
<1>2. Single(sync.id) /\ Alone(i)
  <2>1. \A j \in DOMAIN events : events[j].record = NoRecord
    BY <1>1, CallerIsAlone
  <2>2. Alone(i)
    BY <1>1, WorksAlone DEF Done
  <2> QED
    BY <1>0, <2>1, <2>2 DEF HandlersTell
<1>3. PICK o \in Called(events[i], sync.id) :
        /\ Leave(o, 0)
        /\ Record(i, IF events[i].type = "Cancelled" THEN "deleted"
                     ELSE "synced", o.id, FALSE)
  BY DEF Call
<1>4. /\ o.id \in Nat /\ Single(o.id)'
      /\ google' = IF events[i].type = "Cancelled" THEN {}
                   ELSE {[id |-> o.id, slot |-> events[i].target.slot]}
  BY <1>0, <1>2, <1>3, OutcomeTyped, SingleCall DEF Leave
<1>row. ASSUME NEW status \in {"synced", "deleted", "failed"},
              NEW k \in Nat, NEW denied \in BOOLEAN
       PROVE  LET new == RecordRow(events[i], status, k, denied) IN
              /\ KeepsEvent(events[i], new)
              /\ new.step = AfterCall(events[i])
              /\ new.target = events[i].target /\ new.denied = denied
              /\ new.record.id = k /\ new.record # NoRecord
  <2>1. events[i] \in EventRow
    BY <1>0
  <2> QED
    BY <2>1, RecordTyped
<1> SUFFICES ASSUME NEW status \in {"synced", "deleted", "failed"},
                    NEW k \in Nat, k = o.id, NEW denied \in BOOLEAN, ~denied,
                    Record(i, status, k, denied),
                    NEW e, e = RecordRow(events[i], status, k, denied)
             PROVE  Orderly'
  BY <1>3, <1>4
<1>5. Changed(i, e)
  BY RecordMoves DEF Becomes
<1>6. /\ KeepsEvent(events[i], e) /\ e.step = AfterCall(events[i])
      /\ e.target = events[i].target /\ ~e.denied
      /\ e.record.id = k /\ e.record # NoRecord
  BY <1>row
<1>7. e.step \in {"remind", "commit"}
  BY <1>6 DEF AfterCall
<1>8. InCourse(e)
  BY <1>0, <1>6 DEF InCourse, HandlersTell
<1>9. IsLast(i) => {g.slot : g \in google'} = Expected
  <2>1. CASE events[i].type = "Cancelled"
    <3>1. ~Active
      BY <1>0, <2>1 DEF EventsTell
    <3> QED
      BY <1>4, <2>1, <3>1 DEF Expected
  <2>2. CASE events[i].type # "Cancelled" /\ IsLast(i)
    <3>1. Active /\ events[i].target.slot = appointment.slot
      BY <1>0, <1>1, <2>2 DEF EventsTell, HandlersTell
    <3>2. {g.slot : g \in google'} = {events[i].target.slot}
      BY <1>4, <2>2
    <3> QED
      BY <3>1, <3>2 DEF Expected
  <2> QED
    BY <2>1, <2>2
<1>10. Single(e.record.id)'
  BY <1>4, <1>6 DEF Single
<1> QED
  BY <1>1, <1>2, <1>5, <1>6, <1>7, <1>8, <1>9, <1>10, HandledInOrder

LEMMA StartInOrder ==
  ASSUME TypeOK, StepsFit, inOrder, Orderly, inOrder',
         NEW i \in DOMAIN events, ReadTarget(i) \/ Remind(i)
  PROVE  Orderly'
<1> USE DEF base, job, calendar
<1>0. /\ events[i] \in EventRow /\ StepFits(events[i])
      /\ EventsTell /\ HandlersTell
      /\ connection = [id |-> 1, status |-> "connected"]
  BY EventsTyped DEF StepsFit, Orderly
<1>1. /\ AsFirst(i) /\ ~Done(i)
      /\ UNCHANGED <<appointment, connection, reminder, google, sync>>
  BY DEF ReadTarget, Remind, IsAt, Done
<1>2. Alone(i)
  BY <1>1, WorksAlone
<1>3. \A k : Single(k)' = Single(k)
  BY <1>1 DEF Single
<1>4. events[i].record = NoRecord => Single(sync.id)
  <2>1. ASSUME NEW j \in DOMAIN events, j # i
        PROVE  events[j].record = NoRecord
    <3>1. j < i \/ j > i
      BY <2>1, EventsTyped
    <3> QED
      BY <1>2, <3>1 DEF Alone, Done, StepsFit, StepFits
  <2> QED
    BY <1>0, <2>1 DEF HandlersTell
<1>5. CASE ReadTarget(i)
  <2> SUFFICES ASSUME NEW e, e = TargetRow(events[i]) PROVE Orderly'
    OBVIOUS
  <2>1. Changed(i, e)
    BY <1>5, HandlerMoves DEF Becomes
  <2>2. /\ KeepsEvent(events[i], e) /\ e.record = events[i].record
        /\ e.denied = events[i].denied /\ e.step = "call"
        /\ e.target.to = 1 /\ e.target.slot = appointment.slot
    BY <1>0, RowsTyped
  <2>3. events[i].record = NoRecord
    BY <1>0, <1>5 DEF ReadTarget, IsAt, StepFits
  <2>4. InCourse(e)
    BY <1>0, <2>2 DEF InCourse, HandlersTell
  <2>5. Single(sync.id)'
    BY <1>1, <1>4, <2>3 DEF Single
  <2> QED
    BY <1>1, <1>2, <2>1, <2>2, <2>3, <2>4, <2>5, HandledInOrder
<1>6. CASE Remind(i)
  <2> SUFFICES ASSUME NEW e, e = RemindRow(events[i]) PROVE Orderly'
    OBVIOUS
  <2>1. Changed(i, e)
    BY <1>6, HandlerMoves DEF Becomes
  <2>2. /\ KeepsEvent(events[i], e) /\ e.record = events[i].record
        /\ e.denied = events[i].denied /\ e.target = events[i].target
        /\ e.step = IF events[i].type = "Booked" THEN "read" ELSE "commit"
    BY <1>0, RowsTyped
  <2>3. events[i].step = "remind" \/ events[i].type = "Booked"
    BY <1>6 DEF Remind, IsAt
  <2>4. events[i].type # "Booked" => events[i].record # NoRecord
    BY <1>0, <2>3 DEF HandlersTell, InCourse
  <2>5. InCourse(e)
    BY <1>0, <2>2, <2>4 DEF InCourse, HandlersTell
  <2>6. IF e.record = NoRecord THEN Single(sync.id)'
        ELSE Single(e.record.id)'
    <3>1. CASE e.record = NoRecord
      BY <1>1, <1>4, <2>2, <3>1 DEF Single
    <3>2. CASE e.record # NoRecord
      <4>1. Single(e.record.id)
        BY <1>0, <2>2, <3>2 DEF HandlersTell
      <4> QED
        BY <1>1, <3>2, <4>1 DEF Single
    <3> QED
      BY <3>1, <3>2
  <2>7. IsLast(i) /\ e.record # NoRecord =>
          {g.slot : g \in google'} = Expected
    BY <1>1, <2>2 DEF Orderly, ResultsTell, InGoogle
  <2>8. e.step \in {"read", "commit"}
    BY <2>2
  <2> QED
    BY <1>1, <1>2, <2>1, <2>2, <2>5, <2>6, <2>7, <2>8, HandledInOrder
<1> QED
  BY <1>5, <1>6

LEMMA CommitInOrder ==
  ASSUME TypeOK, StepsFit, inOrder, Orderly,
         NEW i \in DOMAIN events, Commit(i)
  PROVE  Orderly'
<1>0. /\ events[i] \in EventRow /\ StepFits(events[i])
      /\ EventsTell /\ HandlersTell /\ ResultsTell
      /\ connection = [id |-> 1, status |-> "connected"]
      /\ appointment.status \in {"active", "cancelled"}
      /\ metrics \in [Slots -> {None, "active", "cancelled"}]
      /\ events[i].slot \in Slots
  BY EventsTyped DEF StepsFit, Orderly, TypeOK, EventRow
<1>1. /\ events[i].step = "commit" /\ events[i].record # NoRecord
      /\ ~events[i].denied
  BY <1>0 DEF Commit, HandlersTell, InCourse
<1>2. UNCHANGED <<appointment, connection, google>>
  BY <1>1 DEF Commit
<1>3. Alone(i)
  BY <1>1, WorksAlone DEF Done
<1> SUFFICES ASSUME NEW e, e = DoneRow(events[i]) PROVE Orderly'
  OBVIOUS
<1>4. Changed(i, e)
  BY HandlerMoves DEF Becomes
<1>5. /\ KeepsEvent(events[i], e) /\ Cleared(e) /\ e.step = "done"
  BY <1>0, RowsTyped
<1>6. InCourse(e)
  BY <1>5 DEF InCourse, Cleared, NoTarget
<1>7. Single(sync.id)'
  <2>1. sync'.id = events[i].record.id
    BY <1>1 DEF Commit
  <2>2. Single(events[i].record.id)
    BY <1>0, <1>1 DEF HandlersTell
  <2> QED
    BY <1>2, <2>1, <2>2 DEF Single
<1>8. IsLast(i) => {g.slot : g \in google'} = Expected
  BY <1>0, <1>1, <1>2 DEF ResultsTell, InGoogle
<1>9. Reminds(i) => reminder'.slot = appointment.slot
  <2> SUFFICES ASSUME Reminds(i) PROVE reminder'.slot = appointment.slot
    OBVIOUS
  <2>1. events[i].type # "Cancelled"
    BY <1>0, EventsTyped DEF EventsTell, Reminds, IsLast
  <2>2. reminder' = Upserted(events[i])
    BY <1>0, <1>1, <2>1 DEF Commit, StepFits
  <2> QED
    BY <1>0, <2>2 DEF Upserted, EventsTell
<1>10. events[i].type = "Cancelled" => reminder'.slot = reminder.slot
  BY <1>0, <1>1 DEF Commit, StepFits
<1>11. IsLast(i) => metrics'[appointment.slot] = appointment.status
  <2> SUFFICES ASSUME IsLast(i)
               PROVE  metrics'[appointment.slot] = appointment.status
    OBVIOUS
  <2>1. events[i].slot = appointment.slot
    BY <1>0 DEF EventsTell
  <2>2. Counted(events[i]) = appointment.status
    BY <2>1 DEF Counted
  <2>3. appointment.status # None
    BY <1>0 DEF None
  <2>4. metrics' = [metrics EXCEPT ![events[i].slot] = appointment.status]
    BY <2>2, <2>3 DEF Commit
  <2> QED
    BY <1>0, <2>1, <2>4
<1> QED
  BY <1>2, <1>3, <1>4, <1>5, <1>6, <1>7, <1>8, <1>9, <1>10, <1>11,
     HandledInOrder
  DEF Cleared

\* In order, the connection stays and no handler waits for another.
LEMMA NeverInOrder ==
  ASSUME TypeOK, StepsFit, inOrder, Orderly, NEW i \in DOMAIN events
  PROVE  /\ ~CallForGone(i)
         /\ \A j \in DOMAIN events : ~DeadlockBroken(i, j)
<1>0. /\ StepFits(events[i]) /\ InCourse(events[i])
      /\ connection = [id |-> 1, status |-> "connected"]
  BY DEF StepsFit, Orderly, HandlersTell
<1>1. ASSUME CallForGone(i) PROVE FALSE
  BY <1>0, <1>1 DEF CallForGone, CanCall, StepFits, InCourse
<1>2. ASSUME NEW j \in DOMAIN events, DeadlockBroken(i, j) PROVE FALSE
  <2>1. i # j /\ events[i].step = "call" /\ events[j].step = "remind"
    BY <1>2 DEF DeadlockBroken
  <2>2. Alone(i)
    BY <2>1, WorksAlone DEF Done
  <2>3. i < j \/ j < i
    BY <2>1, EventsTyped
  <2> QED
    BY <2>1, <2>2, <2>3 DEF Alone, Done
<1> QED
  BY <1>1, <1>2

\* Steps that only touch what order does not depend on.
LEMMA OrderStays ==
  ASSUME Orderly, inOrder' => inOrder,
         UNCHANGED <<appointment, connection, events, google, sync, metrics>>,
         reminder'.slot = reminder.slot
  PROVE  Orderly'
<1>1. \A k : Single(k)' = Single(k)
  BY DEF Single
<1>2. /\ Active' = Active /\ InGoogle' = InGoogle /\ Expected' = Expected
      /\ \A i : /\ Reminds(i)' = Reminds(i) /\ IsLast(i)' = IsLast(i)
                /\ Done(i)' = Done(i)
  BY DEF Active, InGoogle, Expected, Reminds, IsLast, Done
<1> SUFFICES ASSUME inOrder' PROVE Orderly'
  BY DEF Orderly
<1>3. OneByOne' /\ EventsTell'
  BY <1>2 DEF Orderly, OneByOne, EventsTell
<1>4. HandlersTell'
  <2>1. HandlersTell
    BY DEF Orderly
  <2>2. \A i \in DOMAIN events : InCourse(events[i])'
    BY <2>1 DEF HandlersTell, InCourse
  <2>3. ASSUME NEW i \in DOMAIN events, events[i].record # NoRecord
        PROVE  Single(events[i].record.id)'
    BY <2>1, <2>3 DEF HandlersTell, Single
  <2>4. ASSUME \A i \in DOMAIN events : events[i].record = NoRecord
        PROVE  Single(sync.id)'
    BY <2>1, <2>4 DEF HandlersTell, Single
  <2> QED
    BY <1>2, <2>1, <2>2, <2>3, <2>4 DEF HandlersTell
<1>5. ResultsTell'
  BY <1>2 DEF Orderly, ResultsTell
<1> QED
  BY <1>3, <1>4, <1>5 DEF Orderly

LEMMA ApiInOrder ==
  ASSUME TypeOK, Orderly, inOrder', Api \/ QueueFuture \/ Tick
  PROVE  Orderly'
<1> USE DEF base, calendar, job, Change
<1>0. appointment \in [status : {"active", "cancelled"}, slot : Slots]
  BY DEF TypeOK
<1>1. ASSUME NEW t \in Slots, Reschedule(t) PROVE Orderly'
  <2>1. /\ Active /\ inOrder
        /\ UNCHANGED <<connection, reminder, google, sync, metrics>>
    BY <1>1 DEF Reschedule
  <2>2. appointment'.slot = t /\ Active'
    BY <1>0, <1>1 DEF Reschedule, Active
  <2>3. Added(Event("Rescheduled", t))
    BY <1>1, NewTyped, EventAdded DEF Reschedule, Types
  <2>4. LET e == Event("Rescheduled", t) IN
          /\ Cleared(e) /\ e.step = "waiting" /\ e.slot = t
          /\ e.type # "Cancelled"
    BY NewTyped DEF Types
  <2> QED
    BY <2>1, <2>2, <2>3, <2>4, AddedInOrder
<1>2. CASE Cancel
  <2>1. /\ Active /\ inOrder
        /\ UNCHANGED <<connection, reminder, google, sync, metrics>>
    BY <1>2 DEF Cancel
  <2>2. appointment'.slot = appointment.slot /\ ~Active'
    BY <1>0, <1>2 DEF Cancel, Active
  <2>3. Added(Event("Cancelled", appointment.slot))
    BY <1>0, <1>2, NewTyped, EventAdded DEF Cancel, Types
  <2>4. LET e == Event("Cancelled", appointment.slot) IN
          /\ Cleared(e) /\ e.step = "waiting" /\ e.slot = appointment.slot
          /\ e.type = "Cancelled"
    BY <1>0, NewTyped DEF Types
  <2> QED
    BY <2>1, <2>2, <2>3, <2>4, AddedInOrder
<1>3. CASE QueueFuture
  <2>1. /\ Active /\ inOrder /\ queueing = appointment.slot
        /\ UNCHANGED <<appointment, connection, reminder, google, sync,
                       metrics>>
    BY <1>3 DEF QueueFuture
  <2>2. Active'
    BY <2>1 DEF Active
  <2>3. Added(Event("Booked", appointment.slot))
    BY <1>0, <1>3, <2>1, NewTyped, EventAdded DEF QueueFuture, Types
  <2>4. LET e == Event("Booked", appointment.slot) IN
          /\ Cleared(e) /\ e.step = "waiting" /\ e.slot = appointment.slot
          /\ e.type # "Cancelled"
    BY <1>0, NewTyped DEF Types
  <2> QED
    BY <2>1, <2>2, <2>3, <2>4, AddedInOrder
<1>4. CASE Disconnect \/ Reconnect
  BY <1>4 DEF Disconnect, Reconnect
<1>5. CASE SyncFuture
  <2>1. UNCHANGED <<appointment, connection, events, google, sync, metrics,
                    reminder, inOrder>>
    BY <1>5 DEF SyncFuture
  <2> QED
    BY <2>1, OrderStays
<1>6. CASE Tick
  <2>1. /\ UNCHANGED <<appointment, connection, events, google, sync, metrics,
                       inOrder>>
        /\ reminder'.slot = reminder.slot
    BY <1>6 DEF Tick, TypeOK, ReminderRow
  <2> QED
    BY <2>1, OrderStays
<1> QED
  BY <1>1, <1>2, <1>3, <1>4, <1>5, <1>6 DEF Api

LEMMA JobInOrder ==
  ASSUME TypeOK, Orderly, inOrder', NEW s \in Senders,
         Claim(s) \/ Sending(s) \/ RecordResult(s) \/ SenderDies(s)
  PROVE  Orderly'
<1> USE DEF base, calendar
<1>0. reminder \in ReminderRow
  BY DEF TypeOK
<1>1. CASE SenderDies(s)
  BY <1>1 DEF SenderDies
<1>2. CASE Claim(s) \/ Sending(s) \/ RecordResult(s)
  <2>1. UNCHANGED <<appointment, connection, events, google, sync, metrics,
                    inOrder>>
    BY <1>2 DEF Claim, Sending, Send, RecordResult
  <2>2. reminder'.slot = reminder.slot
    BY <1>0, <1>2
    DEF Claim, Claimed, Sending, Send, RecordResult, ReminderRow
  <2> QED
    BY <2>1, <2>2, OrderStays
<1> QED
  BY <1>1, <1>2

LEMMA HandlerInOrder ==
  ASSUME TypeOK, StepsFit, OneLock, Orderly, inOrder',
         NEW i \in DOMAIN events,
         \/ HandlerStep(i) \/ Abort(i)
         \/ \E denied \in BOOLEAN : CallFails(i, denied)
  PROVE  Orderly'
<1>1. CASE Abort(i) \/ \E denied \in BOOLEAN : CallFails(i, denied)
  BY <1>1 DEF Abort, CallFails
<1>2. CASE HandlerStep(i)
  <2>1. inOrder
    BY <1>2 DEF HandlerStep, ReadTarget, Remind, AsFirst, Call, CallForGone,
                Commit, DeadlockBroken
  <2> QED
    BY <1>2, <2>1, StartInOrder, CallInOrder, CommitInOrder, NeverInOrder
    DEF HandlerStep
<1> QED
  BY <1>1, <1>2

LEMMA AlwaysOrderly == Spec => []Orderly
<1>1. Init => Orderly
  <2> SUFFICES ASSUME Init PROVE Orderly
    OBVIOUS
  <2>1. /\ Len(events) = 1 /\ DOMAIN events = {1}
        /\ events[1] = Event("Booked", First)
        /\ connection = [id |-> 1, status |-> "connected"]
        /\ appointment.slot = First /\ Active /\ google = {}
    BY DEF Init, Active
  <2>2. OneByOne /\ EventsTell
    BY <2>1 DEF OneByOne, EventsTell, Reminds, IsLast, Event, Done
  <2>3. HandlersTell
    BY <2>1 DEF HandlersTell, InCourse, Single, Event, NoTarget
  <2>4. ResultsTell
    BY <2>1 DEF ResultsTell, Event, Done
  <2> QED
    BY <2>1, <2>2, <2>3, <2>4 DEF Orderly
<1>2. TypeOK /\ StepsFit /\ OneLock /\ Orderly /\ [Next]_vars => Orderly'
  <2> SUFFICES ASSUME TypeOK, StepsFit, OneLock, Orderly, [Next]_vars,
                      inOrder'
               PROVE  Orderly'
    BY DEF Orderly
  <2>1. CASE UNCHANGED vars
    BY <2>1, OrderStays DEF vars, base, calendar
  <2> QED
    BY <2>1, StepsOfNext, ApiInOrder, HandlerInOrder, JobInOrder
<1> QED
  BY <1>1, <1>2, AlwaysTyped, AlwaysLocked, PTL DEF Spec

\* A reminder is scheduled with the first event that is done and does not
\* cancel.
Reminded ==
  reminder.status = None =>
    \A i \in DOMAIN events : Done(i) => events[i].type = "Cancelled"

\* What an event is done by.
LEMMA DoneBefore ==
  ASSUME TypeOK, [Next]_vars, NEW i \in DOMAIN events',
         events'[i].step = "done"
  PROVE  /\ i \in DOMAIN events /\ events'[i].type = events[i].type
         /\ Done(i) \/ Commit(i)
<1> USE DEF base, calendar, job
<1> DEFINE Goal == /\ i \in DOMAIN events /\ events'[i].type = events[i].type
                   /\ Done(i) \/ Commit(i)
<1>1. ASSUME NEW e, Added(e), e.step = "waiting" PROVE Goal
  BY <1>1 DEF Added, Done
<1>2. UNCHANGED events => Goal
  BY DEF Done
<1>3. ASSUME NEW k \in DOMAIN events, NEW e, Becomes(k, e),
             KeepsEvent(events[k], e), e.step # "done" \/ Commit(k)
      PROVE  Goal
  BY <1>3 DEF Becomes, Changed, KeepsEvent, Done
<1>4. CASE Api \/ QueueFuture \/ Tick
  <2>1. \A e : Added(e) /\ e.step = "waiting" => Goal
    BY <1>1
  <2>2. ASSUME NEW type \in Types, NEW t \in Slots,
               events' = Append(events, Event(type, t))
        PROVE  Goal
    BY <1>1, <2>2, NewTyped, EventAdded
  <2>3. appointment.slot \in Slots
    BY DEF TypeOK
  <2>4. queueing # NoSlot => queueing \in Slots
    BY DEF TypeOK
  <2> QED
    BY <1>2, <1>4, <2>2, <2>3, <2>4
    DEF Api, Reschedule, Cancel, Disconnect, Reconnect, SyncFuture,
        QueueFuture, Tick, Types
<1>5. ASSUME NEW k \in DOMAIN events,
             \/ HandlerStep(k) \/ Abort(k)
             \/ \E denied \in BOOLEAN : CallFails(k, denied)
      PROVE  Goal
  <2>0. events[k] \in EventRow
    BY EventsTyped
  <2>1. CASE Remind(k) \/ ReadTarget(k) \/ Commit(k)
    <3>1. PICK e : /\ Becomes(k, e) /\ KeepsEvent(events[k], e)
                   /\ e.step # "done" \/ Commit(k)
      <4>1. ASSUME Remind(k)
            PROVE  /\ Becomes(k, RemindRow(events[k]))
                   /\ KeepsEvent(events[k], RemindRow(events[k]))
                   /\ RemindRow(events[k]).step # "done"
        BY <2>0, <4>1, HandlerMoves, RowsTyped
      <4>2. ASSUME ReadTarget(k)
            PROVE  /\ Becomes(k, TargetRow(events[k]))
                   /\ KeepsEvent(events[k], TargetRow(events[k]))
                   /\ TargetRow(events[k]).step # "done"
        BY <2>0, <4>2, HandlerMoves, RowsTyped DEF AfterCall
      <4>3. ASSUME Commit(k)
            PROVE  /\ Becomes(k, DoneRow(events[k]))
                   /\ KeepsEvent(events[k], DoneRow(events[k]))
        BY <2>0, <4>3, HandlerMoves, RowsTyped
      <4> QED
        BY <2>1, <4>1, <4>2, <4>3
    <3> QED
      BY <1>3, <3>1
  <2>2. CASE CallForGone(k) \/ Abort(k)
    <3>1. Release(k)
      BY <2>2 DEF CallForGone, Abort
    <3> QED
      BY <1>3, <2>0, <3>1, HandlerMoves, RowsTyped
  <2>3. ASSUME NEW status, NEW id, NEW denied, Record(k, status, id, denied)
        PROVE  Goal
    <3>1. /\ DOMAIN events' = DOMAIN events
          /\ \A j \in DOMAIN events : j # k => events'[j] = events[j]
          /\ events'[k] = [events[k] EXCEPT !.step = AfterCall(events[k]),
                             !.denied = denied,
                             !.record = [to |-> events[k].target.to,
                                         status |-> status, id |-> id]]
      BY <2>3 DEF Record
    <3>2. /\ events'[k].type = events[k].type
          /\ events'[k].step = AfterCall(events[k])
      BY <2>0, <3>1 DEF EventRow
    <3> QED
      BY <3>1, <3>2 DEF AfterCall, Done
  <2>4. ASSUME Call(k) \/ \E denied \in BOOLEAN : CallFails(k, denied)
        PROVE  Goal
    BY <2>3, <2>4 DEF Call, CallFails
  <2>5. ASSUME NEW j \in DOMAIN events, DeadlockBroken(k, j)
        PROVE  Goal
    <3>0. events[j] \in EventRow
      BY EventsTyped
    <3>1. \/ BothBecome(k, Waiting(events[k]), j, GrantedRow(events[j]))
          \/ BothBecome(j, Waiting(events[j]), k, LockedRow(events[k]))
      BY <2>5, DeadlockMoves
    <3>2. /\ \A e \in EventRow : /\ Waiting(e).step = "waiting"
                                 /\ Waiting(e).type = e.type
                                 /\ LockedRow(e).step = "locked"
                                 /\ LockedRow(e).type = e.type
                                 /\ GrantedRow(e).step = "commit"
                                 /\ GrantedRow(e).type = e.type
      BY DEF Waiting, Event, LockedRow, GrantedRow, EventRow
    <3> QED
      BY <2>0, <3>0, <3>1, <3>2 DEF BothBecome, Done
  <2> QED
    BY <1>5, <2>1, <2>2, <2>4, <2>5 DEF HandlerStep
<1>6. ASSUME NEW s \in Senders,
             Claim(s) \/ Sending(s) \/ RecordResult(s) \/ SenderDies(s)
      PROVE  Goal
  <2>1. UNCHANGED events
    BY <1>6 DEF Claim, Sending, Send, RecordResult, SenderDies
  <2> QED
    BY <1>2, <2>1
<1> QED
  BY <1>2, <1>4, <1>5, <1>6, StepsOfNext DEF vars

\* A reminder that was scheduled stays.
LEMMA RemindedStays ==
  ASSUME TypeOK, [Next]_vars, reminder.status # None
  PROVE  reminder'.status # None
<1> USE DEF base, calendar, job
<1>0. reminder \in ReminderRow
  BY DEF TypeOK
<1>1. CASE UNCHANGED reminder
  BY <1>1
<1>2. CASE Tick
  BY <1>0, <1>2 DEF Tick, ReminderRow
<1>3. ASSUME NEW s \in Senders, Claim(s) PROVE reminder'.status # None
  BY <1>0, <1>3 DEF Claim, Claimed, ReminderRow
<1>4. ASSUME NEW s \in Senders, RecordResult(s) PROVE reminder'.status # None
  <2>1. reminder'.status = sender[s].step
    BY <1>0, <1>4 DEF RecordResult, ReminderRow
  <2> QED
    BY <1>4, <2>1 DEF RecordResult, None
<1>5. ASSUME NEW i \in DOMAIN events, Commit(i) PROVE reminder'.status # None
  <2>1. Upserted(events[i]).status # None
    BY DEF Upserted, None
  <2> QED
    BY <1>5, <2>1 DEF Commit
<1>6. \/ UNCHANGED reminder \/ Tick
      \/ \E s \in Senders : Claim(s) \/ RecordResult(s)
      \/ \E i \in DOMAIN events : Commit(i)
  BY DEF Next, Api, Progress, Reschedule, Cancel, Disconnect, Reconnect,
         SyncFuture, QueueFuture, HandlerStep, ReadTarget, Remind, Call,
         CallForGone, DeadlockBroken, Abort, CallFails, Sending, Send,
         SenderDies, vars
<1> QED
  BY <1>1, <1>2, <1>3, <1>4, <1>5, <1>6

LEMMA AlwaysReminded == Spec => []Reminded
<1>1. Init => Reminded
  <2> SUFFICES ASSUME Init, NEW i \in DOMAIN events PROVE ~Done(i)
    BY DEF Reminded
  <2>1. events[i] = Event("Booked", First)
    BY DEF Init
  <2> QED
    BY <2>1 DEF Done, Event
<1>2. TypeOK /\ StepsFit /\ Reminded /\ [Next]_vars => Reminded'
  <2> SUFFICES ASSUME TypeOK, StepsFit, Reminded, [Next]_vars,
                      reminder'.status = None,
                      NEW i \in DOMAIN events', events'[i].step = "done"
               PROVE  events'[i].type = "Cancelled"
    BY DEF Reminded, Done
  <2>1. /\ i \in DOMAIN events /\ events'[i].type = events[i].type
        /\ Done(i) \/ Commit(i)
    BY DoneBefore
  <2>2. reminder.status = None
    BY RemindedStays
  <2>3. CASE Done(i)
    BY <2>1, <2>2, <2>3 DEF Reminded
  <2>4. CASE Commit(i)
    <3>1. ~events[i].upserts
      BY <2>4 DEF Commit, Upserted, None
    <3> QED
      BY <2>1, <2>4, <3>1 DEF Commit, StepsFit, StepFits
  <2> QED
    BY <2>1, <2>3, <2>4
<1> QED
  BY <1>1, <1>2, AlwaysTyped, AlwaysLocked, PTL DEF Spec

\* Theorem.  Events that are handled one after the other, without a fault,
\* leave a reminder for the slot that the appointment has, or had when it was
\* cancelled, and the calendar and the metrics as the appointment is, however
\* often it is moved, queued again or cancelled while they wait, and whatever
\* the job and the clock do meanwhile.  That a cancelled appointment keeps its
\* reminder is what the code does: no handler takes one away.
THEOREM OrderedHandlersAgree == Spec => []InOrderAgrees
<1>1. TypeOK /\ StepsFit /\ Orderly /\ Reminded => InOrderAgrees
  <2> SUFFICES ASSUME TypeOK, Orderly, Reminded, inOrder, AtRest
               PROVE  /\ reminder.status # None
                      /\ reminder.slot = appointment.slot
                      /\ InGoogle = Expected
                      /\ metrics[appointment.slot] = appointment.status
    BY DEF InOrderAgrees
  <2> DEFINE n == Len(events)
  <2>1. /\ n \in Nat \ {0} /\ DOMAIN events = 1..n
        /\ \A i \in DOMAIN events : Done(i)
        /\ EventsTell /\ ResultsTell
    BY EventsTyped DEF Orderly, AtRest, Done
  <2>2. n \in DOMAIN events /\ IsLast(n) /\ Done(n)
    BY <2>1 DEF IsLast
  <2>3. CASE Active
    BY <2>1, <2>2, <2>3 DEF ResultsTell, Reminds, EventsTell, Reminded
  <2>4. CASE ~Active
    <3>1. n - 1 \in DOMAIN events /\ Done(n - 1)
      BY <2>1, <2>4 DEF EventsTell
    <3>2. Reminds(n - 1)
      BY <2>1, <2>4 DEF Reminds
    <3>3. reminder.status # None
      <4>0. Len(events) \in Nat
        BY <2>1
      <4>1. n - 1 # Len(events)
        BY <4>0
      <4>2. ~IsLast(n - 1)
        BY <4>1 DEF IsLast
      <4> HIDE DEF n
      <4>3. events[n - 1].type # "Cancelled"
        BY <2>1, <3>1, <4>2 DEF EventsTell
      <4> QED
        BY <3>1, <4>3 DEF Reminded
    <3> QED
      BY <2>1, <2>2, <3>1, <3>2, <3>3 DEF ResultsTell
  <2> QED
    BY <2>3, <2>4
<1> QED
  BY <1>1, AlwaysTyped, AlwaysLocked, AlwaysOrderly, AlwaysReminded, PTL
=============================================================================
