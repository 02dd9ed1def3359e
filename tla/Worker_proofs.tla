--------------------------- MODULE Worker_proofs ----------------------------
(***************************************************************************)
(* Proofs about Delivery, with its parts Outbox and Consumer, and about    *)
(* Metrics: that an event reaches the worker and takes effect as it        *)
(* should, for every set of events, malformed ones among them, and any     *)
(* number of runs, workers and faults; and that what the worker counts is  *)
(* what the dashboard shows.                                               *)
(***************************************************************************)
EXTENDS Delivery, Metrics, FiniteSetTheorems, SequenceTheorems,
        WellFoundedInduction, TLAPS

(***************************************************************************)
(* The consumer.  EffectAtMostOnce is not inductive: that a commit adds    *)
(* the first effect of its event follows from Exclusive, which says who    *)
(* holds an event that is being handled.                                   *)
(***************************************************************************)
Busy(w) == worker[w] # NoJob

\* The events handled at one time are not processed yet, no two workers
\* handle the same one, and a delivery to be acknowledged was processed.
Exclusive ==
  /\ \A w \in Workers :
       worker[w].phase = "handling" => worker[w].event \notin processed
  /\ \A v, w \in Workers :
       /\ worker[v].phase = "handling" /\ worker[w].phase = "handling"
       /\ worker[v].event = worker[w].event
       => v = w
  /\ \A w \in Workers :
       worker[w].phase = "done" => worker[w].event \in processed

\* The table processed_events counts the effects.
EffectsRecorded ==
  \A e \in Events : effects[e] = IF e \in processed THEN 1 ELSE 0

Inv == TypeOK /\ Exclusive /\ EffectsRecorded

LEMMA JobFacts ==
  ASSUME TypeOK, NEW w \in Workers, worker[w].phase # "idle"
  PROVE  worker[w] \in Job /\ worker[w].event \in Events /\ worker[w] # NoJob
BY DEF TypeOK, Job, NoJob

LEMMA RequeuedTyped ==
  ASSUME TypeOK, NEW lost \in SUBSET Workers
  PROVE  Requeued(lost) \in [Events -> Nat]
<1> SUFFICES ASSUME NEW e \in Events
             PROVE  queue[e] + Cardinality({w \in lost : Holds(w, e)}) \in Nat
  BY DEF Requeued
<1>1. IsFiniteSet({w \in lost : Holds(w, e)})
  BY WorkersAssumption, FS_Subset
<1> QED
  BY <1>1, FS_CardinalityType DEF TypeOK

LEMMA InitInv == ConsumerInit => Inv
BY FaultsAssumption
DEF ConsumerInit, Inv, TypeOK, Exclusive, EffectsRecorded, NoJob

LEMMA CommitInv ==
  ASSUME Inv, NEW w \in Workers, CommitTransaction(w),
         NEW phase \in {"done", "failed"}, Goto(w, phase),
         faults' \in 0..MaxFaults
  PROVE  Inv'
<1> DEFINE e == worker[w].event
<1>1. worker[w] \in Job /\ e \in Events /\ e \notin processed
  BY JobFacts DEF Inv, Exclusive, CommitTransaction
<1>2. TypeOK'
  BY <1>1 DEF Inv, TypeOK, CommitTransaction, Goto, Job, Phases
<1>3. /\ worker' = [worker EXCEPT ![w].phase = phase]
      /\ processed' = processed \cup {e}
      /\ worker[w].phase = "handling"
  BY DEF CommitTransaction, Goto
<1>4. \A v \in Workers : v # w => worker'[v] = worker[v]
  BY <1>3 DEF Inv, TypeOK
<1>5. worker'[w].phase = phase /\ worker'[w].event = e
  BY <1>1, <1>3 DEF Inv, TypeOK, Job
<1>6. Exclusive'
  BY <1>1, <1>3, <1>4, <1>5 DEF Inv, Exclusive
<1>7. EffectsRecorded'
  BY <1>1 DEF Inv, EffectsRecorded, CommitTransaction, TypeOK
<1> QED
  BY <1>2, <1>6, <1>7 DEF Inv

\* Steps that leave the table processed_events alone, and in which every
\* worker keeps its job, drops it, takes a delivery or fails.
LEMMA OtherInv ==
  ASSUME Inv, TypeOK', UNCHANGED <<processed, effects>>,
         \A w \in Workers :
           \/ worker'[w] = NoJob
           \/ worker'[w].phase \in {"received", "failed"}
           \/ /\ worker'[w].phase = worker[w].phase
              /\ worker'[w].event = worker[w].event
  PROVE  Inv'
<1>1. Exclusive'
  BY DEF Inv, Exclusive, NoJob
<1>2. EffectsRecorded'
  BY DEF Inv, EffectsRecorded
<1> QED
  BY <1>1, <1>2 DEF Inv

LEMMA WorkerInv ==
  ASSUME Inv, NEW w \in Workers, WorkerStep(w)
  PROVE  Inv'
<1>1. ASSUME NEW e \in Events, Deliver(w, e) PROVE Inv'
  <2>1. TypeOK'
    BY <1>1 DEF Inv, TypeOK, Deliver, Job, Phases
  <2> QED
    BY <1>1, <2>1, OtherInv DEF Inv, TypeOK, Deliver
<1>2. CASE Insert(w)
  <2>1. worker[w] \in Job /\ worker[w].event \in Events
    BY <1>2, JobFacts DEF Inv, Insert
  <2>2. TypeOK'
    BY <1>2, <2>1 DEF Inv, TypeOK, Insert, Goto, Job, Phases
  <2>3. /\ \A v \in Workers : v # w => worker'[v] = worker[v]
        /\ worker'[w].phase = "handling"
        /\ worker'[w].event = worker[w].event
    BY <1>2, <2>1 DEF Inv, TypeOK, Insert, Goto, Job
  <2>4. Exclusive'
    BY <1>2, <2>3 DEF Inv, Exclusive, Insert, Claimed
  <2> QED
    BY <1>2, <2>2, <2>4 DEF Inv, EffectsRecorded, Insert
<1>3. CASE Skip(w)
  <2>1. worker[w] \in Job
    BY <1>3, JobFacts DEF Inv, Skip
  <2>2. TypeOK'
    BY <1>3, <2>1 DEF Inv, TypeOK, Skip, Goto, Job, Phases
  <2>3. /\ \A v \in Workers : v # w => worker'[v] = worker[v]
        /\ worker'[w].phase = "done"
        /\ worker'[w].event = worker[w].event
    BY <1>3, <2>1 DEF Inv, TypeOK, Skip, Goto, Job
  <2>4. Exclusive'
    BY <1>3, <2>3 DEF Inv, Exclusive, Skip
  <2> QED
    BY <1>3, <2>2, <2>4 DEF Inv, EffectsRecorded, Skip
<1>4. CASE Commit(w)
  BY <1>4, CommitInv DEF Commit, Inv, TypeOK
<1>5. CASE CommitUnknown(w)
  <2>1. faults' \in 0..MaxFaults
    BY <1>5, FaultsAssumption DEF CommitUnknown, Fault, Inv, TypeOK
  <2> QED
    BY <1>5, <2>1, CommitInv DEF CommitUnknown
<1>6. CASE HandlerFails(w)
  <2>1. worker[w] \in Job
    BY <1>6, JobFacts DEF Inv, HandlerFails
  <2>2. TypeOK'
    BY <1>6, <2>1, FaultsAssumption
    DEF Inv, TypeOK, HandlerFails, Goto, Job, Phases, Fault
  <2> QED
    BY <1>6, <2>2, OtherInv DEF Inv, TypeOK, HandlerFails, Goto
<1>7. CASE Nack(w)
  <2>1. worker[w] \in Job /\ worker[w].event \in Events
    BY <1>7, JobFacts DEF Inv, Nack
  <2>2. TypeOK'
    BY <1>7, <2>1 DEF Inv, TypeOK, Nack
  <2> QED
    BY <1>7, <2>2, OtherInv DEF Inv, TypeOK, Nack
<1>8. CASE Ack(w)
  <2>1. TypeOK'
    BY <1>8 DEF Inv, TypeOK, Ack
  <2> QED
    BY <1>8, <2>1, OtherInv DEF Inv, TypeOK, Ack
<1> QED
  BY <1>1, <1>2, <1>3, <1>4, <1>5, <1>6, <1>7, <1>8 DEF WorkerStep

LEMMA NextInv == Inv /\ [ConsumerNext]_consumerVars => Inv'
<1> SUFFICES ASSUME Inv, [ConsumerNext]_consumerVars PROVE Inv'
  OBVIOUS
<1>1. ASSUME NEW e \in Events, Arrive(e) PROVE Inv'
  <2>1. TypeOK'
    BY <1>1 DEF Inv, TypeOK, Arrive
  <2> QED
    BY <1>1, <2>1, OtherInv DEF Arrive
<1>2. ASSUME NEW lost \in SUBSET Workers, Disconnect(lost) PROVE Inv'
  <2>1. \A w \in Workers :
          worker[w] # NoJob => [worker[w] EXCEPT !.own = FALSE] \in Job
    BY DEF Inv, TypeOK, Job
  <2>2. TypeOK'
    BY <1>2, <2>1, RequeuedTyped, FaultsAssumption
    DEF Inv, TypeOK, Disconnect, Fault
  <2> QED
    BY <1>2, <2>2, OtherInv DEF Disconnect, Inv, TypeOK, Job
<1>3. ASSUME NEW lost \in SUBSET Workers, Crash(lost) PROVE Inv'
  <2>1. TypeOK'
    BY <1>3, RequeuedTyped, FaultsAssumption DEF Inv, TypeOK, Crash, Fault
  <2> QED
    BY <1>3, <2>1, OtherInv DEF Crash
<1>4. CASE UNCHANGED consumerVars
  BY <1>4 DEF consumerVars, Inv, TypeOK, Exclusive, EffectsRecorded
<1> QED
  BY <1>1, <1>2, <1>3, <1>4, WorkerInv DEF ConsumerNext

LEMMA AlwaysInv == ConsumerSpec => []Inv
BY InitInv, NextInv, PTL DEF ConsumerSpec

\* The handler of an event takes effect at most once.
THEOREM HandledAtMostOnce == ConsumerSpec => []EffectAtMostOnce
<1>1. Inv => EffectAtMostOnce
  BY DEF Inv, EffectsRecorded, EffectAtMostOnce
<1> QED
  BY <1>1, AlwaysInv, PTL
-----------------------------------------------------------------------------
(* Nothing is lost                                                         *)

Waiting(e) == queue[e] > 0 \/ \E w \in Workers : Holds(w, e)

LEMMA RequeuedWaits ==
  ASSUME TypeOK, NEW lost \in SUBSET Workers, NEW e \in Events,
         queue[e] > 0 \/ \E w \in lost : Holds(w, e)
  PROVE  Requeued(lost)[e] > 0
<1> DEFINE held == {w \in lost : Holds(w, e)}
<1>1. IsFiniteSet(held)
  BY WorkersAssumption, FS_Subset
<1>2. Cardinality(held) \in Nat
  BY <1>1, FS_CardinalityType
<1>3. queue[e] > 0 \/ Cardinality(held) > 0
  BY <1>1, <1>2, FS_EmptySet
<1>4. queue[e] \in Nat
  BY DEF TypeOK
<1> QED
  BY <1>2, <1>3, <1>4 DEF Requeued

\* Steps that only put copies on the queue and take no delivery away.
LEMMA KeepsWaiting ==
  ASSUME Inv, Inv', NothingLost, UNCHANGED <<processed, arrived>>,
         \A e \in Events : e \notin processed /\ Waiting(e) => Waiting(e)'
  PROVE  NothingLost'
BY DEF NothingLost, Waiting

LEMMA WorkerKeepsWaiting ==
  ASSUME Inv, Inv', NEW w \in Workers, WorkerStep(w), NEW e \in Events,
         e \notin processed', Waiting(e)
  PROVE  Waiting(e)'
<1>1. \A v \in Workers : v # w => worker'[v] = worker[v]
  BY DEF WorkerStep, Deliver, Insert, Skip, Commit, CommitUnknown,
         CommitTransaction, HandlerFails, Nack, Ack, Goto, Inv, TypeOK
<1>2. ASSUME NEW v \in Workers, v # w, Holds(v, e) PROVE Waiting(e)'
  BY <1>1, <1>2 DEF Waiting, Holds
<1>3. ASSUME NEW d \in Events, Deliver(w, d) PROVE Waiting(e)'
  <2>1. CASE d = e
    BY <1>3, <2>1 DEF Deliver, Waiting, Holds, Inv, TypeOK, NoJob
  <2>2. CASE d # e
    <3>1. queue'[e] = queue[e] /\ ~Holds(w, e)
      BY <1>3, <2>2 DEF Deliver, Inv, TypeOK, Holds
    <3> QED
      BY <1>2, <3>1 DEF Waiting
  <2> QED
    BY <2>1, <2>2
<1>4. ASSUME worker[w] # NoJob, UNCHANGED queue,
             worker'[w] = [worker[w] EXCEPT !.phase = worker'[w].phase],
             worker'[w].phase # "idle"
      PROVE  Waiting(e)'
  <2>1. Holds(w, e) => Holds(w, e)'
    BY <1>4 DEF Inv, TypeOK, Job, Holds, NoJob
  <2> QED
    BY <1>2, <1>4, <2>1 DEF Waiting
<1>5. CASE Insert(w) \/ Skip(w) \/ Commit(w) \/ CommitUnknown(w)
             \/ HandlerFails(w)
  <2>1. worker[w].phase # "idle"
    BY <1>5 DEF Insert, Skip, Commit, CommitUnknown, CommitTransaction,
                HandlerFails
  <2>2. worker[w] \in Job /\ worker[w] # NoJob
    BY <2>1, JobFacts DEF Inv
  <2>3. PICK phase \in {"handling", "done", "failed"} :
          Goto(w, phase) /\ UNCHANGED queue
    BY <1>5 DEF Insert, Skip, Commit, CommitUnknown, CommitTransaction,
                HandlerFails
  <2>4. worker'[w] = [worker[w] EXCEPT !.phase = phase]
        /\ worker'[w].phase = phase
    BY <2>2, <2>3 DEF Goto, Inv, TypeOK, Job
  <2> QED
    BY <1>4, <2>2, <2>3, <2>4
<1>6. CASE Nack(w)
  <2>1. queue[e] \in Nat /\ queue'[e] \in Nat
    BY DEF Inv, TypeOK
  <2>2. Holds(w, e) => queue'[e] = queue[e] + 1
    BY <1>6 DEF Nack, Holds, Inv, TypeOK
  <2>3. queue'[e] = queue[e] \/ queue'[e] = queue[e] + 1
    BY <1>6 DEF Nack, Inv, TypeOK
  <2>4. CASE queue[e] > 0 \/ Holds(w, e)
    <3>1. queue'[e] > 0
      BY <2>1, <2>2, <2>3, <2>4
    <3> QED
      BY <3>1 DEF Waiting
  <2>5. CASE \E v \in Workers \ {w} : Holds(v, e)
    BY <1>2, <2>5
  <2> QED
    BY <2>4, <2>5 DEF Waiting
<1>7. CASE Ack(w)
  <2>1. worker[w].event # e /\ UNCHANGED queue
    BY <1>7 DEF Ack, Inv, Exclusive
  <2> QED
    BY <1>2, <2>1 DEF Waiting, Holds
<1> QED
  BY <1>3, <1>5, <1>6, <1>7 DEF WorkerStep

\* A message that arrived stays on the queue or in a worker's hands until
\* its event has taken effect.
THEOREM ArrivedIsNotLost == ConsumerSpec => []NothingLost
<1>1. ConsumerInit => NothingLost
  BY DEF ConsumerInit, NothingLost
<1>2. Inv /\ Inv' /\ NothingLost /\ [ConsumerNext]_consumerVars => NothingLost'
  <2> SUFFICES ASSUME Inv, Inv', NothingLost, [ConsumerNext]_consumerVars
               PROVE  NothingLost'
    OBVIOUS
  <2>1. ASSUME NEW e \in Events, Arrive(e) PROVE NothingLost'
    <3> SUFFICES ASSUME NEW d \in Events, arrived'[d] > 0,
                        d \notin processed'
                 PROVE  Waiting(d)'
      BY DEF NothingLost, Waiting
    <3>1. queue[d] \in Nat /\ UNCHANGED <<worker, processed>>
      BY <2>1 DEF Arrive, Inv, TypeOK
    <3>2. CASE d = e
      BY <2>1, <3>1, <3>2 DEF Arrive, Inv, TypeOK, Waiting
    <3>3. CASE d # e
      <4>1. queue'[d] = queue[d] /\ arrived'[d] = arrived[d]
        BY <2>1, <3>3 DEF Arrive, Inv, TypeOK
      <4> QED
        BY <3>1, <4>1 DEF NothingLost, Waiting, Holds
    <3> QED
      BY <3>2, <3>3
  <2>2. ASSUME NEW w \in Workers, WorkerStep(w) PROVE NothingLost'
    <3>1. arrived' = arrived /\ processed \subseteq processed'
      BY <2>2 DEF WorkerStep, Deliver, Insert, Skip, Commit, CommitUnknown,
                  CommitTransaction, HandlerFails, Nack, Ack
    <3> QED
      BY <2>2, <3>1, WorkerKeepsWaiting DEF NothingLost, Waiting
  <2>3. ASSUME NEW lost \in SUBSET Workers, Disconnect(lost) \/ Crash(lost)
        PROVE  NothingLost'
    <3>1. /\ UNCHANGED <<processed, arrived>>
          /\ queue' = Requeued(lost)
          /\ \A w \in Workers \ lost : worker'[w] = worker[w]
      BY <2>3 DEF Disconnect, Crash
    <3>2. ASSUME NEW e \in Events, Waiting(e) PROVE Waiting(e)'
      <4>1. CASE queue[e] > 0 \/ \E w \in lost : Holds(w, e)
        BY <3>1, <4>1, RequeuedWaits DEF Inv, Waiting
      <4>2. CASE \E w \in Workers \ lost : Holds(w, e)
        BY <3>1, <4>2 DEF Waiting, Holds
      <4> QED
        BY <3>2, <4>1, <4>2 DEF Waiting
    <3> QED
      BY <3>1, <3>2, KeepsWaiting
  <2>4. CASE UNCHANGED consumerVars
    BY <2>4 DEF consumerVars, NothingLost, Holds
  <2> QED
    BY <2>1, <2>2, <2>3, <2>4 DEF ConsumerNext
<1> QED
  BY <1>1, <1>2, AlwaysInv, PTL DEF ConsumerSpec
-----------------------------------------------------------------------------
(***************************************************************************)
(* The publisher, for every set of overlapping runs, every batch size,     *)
(* every limit of attempts and any number of faults.  PublishedWasSent is  *)
(* not inductive: it needs that a run which waits for a confirmation, or   *)
(* has it, has sent its current event.                                     *)
(***************************************************************************)
LEMMA FirstExists ==
  ASSUME NEW T, T \subseteq Nat, T # {}
  PROVE  \E e \in T : \A d \in T : e <= d
<1> DEFINE Before == OpToRel(<, Nat)
<1>1. IsWellFoundedOn(Before, Nat)
  BY NatLessThanWellFounded
<1>2. \A d, e \in Nat : d < e => <<d, e>> \in Before
  BY DEF OpToRel
<1> HIDE DEF Before
<1>3. PICK e \in T : \A d \in T : ~(<<d, e>> \in Before)
  BY <1>1, WFMin, Zenon
<1>4. \A d \in T : ~(d < e)
  BY <1>2, <1>3
<1>5. \A d \in T : e <= d
  BY <1>4
<1> QED
  BY <1>5

\* A run that is busy with an event has one, and one that has sent it has.
RunsHonest ==
  \A r \in Runs :
    /\ run[r].phase \in {"confirming", "confirmed", "failed"}
         => run[r].todo # {}
    /\ run[r].phase \in {"confirming", "confirmed"}
         => sent[Outbox!Current(r)] > 0

Honest == Outbox!TypeOK /\ RunsHonest /\ Outbox!PublishedWasSent

\* The current event of a run is one of those it has to do: the oldest.
LEMMA CurrentIsMine ==
  ASSUME Outbox!TypeOK, NEW r \in Runs, run[r].todo # {}
  PROVE  Outbox!Current(r) \in run[r].todo /\ Outbox!Current(r) \in Committed
<1>1. run[r].todo \subseteq Nat /\ run[r].todo \subseteq Committed
  BY CommittedAssumption DEF Outbox!TypeOK, Outbox!Run
<1>2. \E e \in run[r].todo : \A d \in run[r].todo : e <= d
  BY <1>1, FirstExists
<1> QED
  BY <1>1, <1>2 DEF Outbox!Current

LEMMA InitHonest == Outbox!Init => Honest
BY OutboxAssumption
DEF Outbox!Init, Honest, Outbox!TypeOK, Outbox!Statuses, Outbox!Run,
    Outbox!Phases, Outbox!NoRun, RunsHonest, Outbox!PublishedWasSent

LEMMA BatchTyped == Outbox!Batch \subseteq Committed
BY DEF Outbox!Batch

\* Steps of a run that only change what it is doing.
LEMMA RunChanges ==
  ASSUME Honest, NEW r \in Runs, NEW next \in Outbox!Run,
         Outbox!Becomes(r, next),
         UNCHANGED <<status, attempts, brokerUp>>,
         publisherFaults' \in 0..MaxPublisherFaults,
         sent' \in [Committed -> Nat],
         \A e \in Committed : sent'[e] >= sent[e],
         next.phase \in {"confirming", "confirmed", "failed"}
           => next.todo # {},
         next.phase \in {"confirming", "confirmed"}
           => next.todo = run[r].todo /\ sent'[Outbox!Current(r)] > 0
  PROVE  Honest'
<1> USE DEF Outbox!Becomes
<1>1. Outbox!TypeOK'
  BY DEF Honest, Outbox!TypeOK
<1>2. Outbox!PublishedWasSent'
  BY DEF Honest, Outbox!PublishedWasSent, Outbox!TypeOK
<1>3. ASSUME NEW q \in Runs
      PROVE  /\ run'[q].phase \in {"confirming", "confirmed", "failed"}
                  => run'[q].todo # {}
             /\ run'[q].phase \in {"confirming", "confirmed"}
                  => sent'[Outbox!Current(q)'] > 0
  <2>1. CASE q = r
    <3>1. run'[q] = next
      BY <2>1 DEF Honest, Outbox!TypeOK
    <3>2. next.todo = run[r].todo => Outbox!Current(q)' = Outbox!Current(r)
      BY <2>1, <3>1 DEF Outbox!Current
    <3> QED
      BY <3>1, <3>2
  <2>2. CASE q # r
    <3>1. run'[q] = run[q] /\ Outbox!Current(q)' = Outbox!Current(q)
      BY <2>2 DEF Honest, Outbox!TypeOK, Outbox!Current
    <3>2. run[q].phase \in {"confirming", "confirmed"}
            => sent'[Outbox!Current(q)] > 0
      <4> SUFFICES ASSUME run[q].phase \in {"confirming", "confirmed"}
                   PROVE  sent'[Outbox!Current(q)] > 0
        OBVIOUS
      <4>1. Outbox!Current(q) \in Committed /\ sent[Outbox!Current(q)] > 0
        BY CurrentIsMine DEF Honest, RunsHonest
      <4> QED
        BY <4>1 DEF Honest, Outbox!TypeOK
    <3> QED
      BY <3>1, <3>2 DEF Honest, RunsHonest
  <2> QED
    BY <2>1, <2>2
<1>4. RunsHonest'
  BY <1>3 DEF RunsHonest, Outbox!Current
<1> QED
  BY <1>1, <1>2, <1>4 DEF Honest

\* Steps that settle an event of a run: the row is updated, and the run goes
\* on or ends.
LEMMA RowChanges ==
  ASSUME Honest, NEW r \in Runs, NEW next \in Outbox!Run,
         Outbox!Becomes(r, next),
         next.phase \notin {"confirming", "confirmed", "failed"},
         NEW e \in Committed, NEW s \in Outbox!Statuses,
         s = "published" => sent[e] > 0,
         status' = [status EXCEPT ![e] = s],
         attempts' \in [Committed -> Nat],
         UNCHANGED <<brokerUp, sent, publisherFaults>>
  PROVE  Honest'
<1> USE DEF Outbox!Becomes
<1>1. Outbox!TypeOK'
  BY DEF Honest, Outbox!TypeOK
<1>2. Outbox!PublishedWasSent'
  BY DEF Honest, Outbox!PublishedWasSent, Outbox!TypeOK
<1>3. RunsHonest'
  BY DEF Honest, RunsHonest, Outbox!TypeOK, Outbox!Current
<1> QED
  BY <1>1, <1>2, <1>3 DEF Honest

\* Steps of a run that touch no row and after which it has sent nothing.
LEMMA RunUnsent ==
  ASSUME Honest, NEW r \in Runs, NEW next \in Outbox!Run,
         Outbox!Becomes(r, next),
         UNCHANGED <<status, attempts, brokerUp, sent, publisherFaults>>,
         next.phase \notin {"confirming", "confirmed", "failed"}
  PROVE  Honest'
<1>1. /\ publisherFaults' \in 0..MaxPublisherFaults
      /\ sent' \in [Committed -> Nat]
      /\ \A e \in Committed : sent'[e] >= sent[e]
  BY DEF Honest, Outbox!TypeOK
<1> QED
  BY <1>1, RunChanges

LEMMA RunStepHonest ==
  ASSUME Honest, NEW r \in Runs, Outbox!RunStep(r) \/ Outbox!UpdateFails(r)
  PROVE  Honest'
<1>0. run[r] \in Outbox!Run
  BY DEF Honest, Outbox!TypeOK
<1>1. CASE Outbox!Read(r)
  <2> DEFINE next == [run[r] EXCEPT !.phase = "opening", !.todo = Outbox!Batch]
  <2>1. /\ next \in Outbox!Run /\ next.phase = "opening"
        /\ Outbox!Becomes(r, next)
    BY <1>0, <1>1, BatchTyped DEF Outbox!Run, Outbox!Phases, Outbox!Read
  <2> QED
    BY <1>1, <2>1, RunUnsent DEF Outbox!Read
<1>2. CASE Outbox!OpenChannel(r)
  <2> DEFINE next == [run[r] EXCEPT !.phase = "publishing", !.open = TRUE]
  <2>1. /\ next \in Outbox!Run /\ next.phase = "publishing"
        /\ Outbox!Becomes(r, next)
    BY <1>0, <1>2 DEF Outbox!Run, Outbox!Phases, Outbox!OpenChannel
  <2> QED
    BY <1>2, <2>1, RunUnsent DEF Outbox!OpenChannel
<1>3. CASE Outbox!ChannelRefused(r)
  <2> DEFINE next == [run[r] EXCEPT !.phase = "refused"]
  <2>1. /\ next \in Outbox!Run /\ next.phase = "refused"
        /\ Outbox!Becomes(r, next)
    BY <1>0, <1>3 DEF Outbox!Run, Outbox!Phases, Outbox!ChannelRefused
  <2> QED
    BY <1>3, <2>1, RunUnsent DEF Outbox!ChannelRefused
<1>4. CASE \E e \in Committed : Outbox!MarkRefused(r, e)
  <2>1. PICK e \in Committed : Outbox!MarkRefused(r, e)
    BY <1>4
  <2> DEFINE next == IF run[r].todo = {e} THEN Outbox!NoRun
                     ELSE [run[r] EXCEPT !.todo = @ \ {e}]
  <2>2. next \in Outbox!Run /\ next.phase \in {"idle", "refused"}
    BY <1>0, <2>1
    DEF Outbox!MarkRefused, Outbox!Run, Outbox!NoRun, Outbox!Phases
  <2>3. Outbox!Becomes(r, next)
    BY <2>1 DEF Outbox!MarkRefused
  <2>4. attempts' \in [Committed -> Nat]
    BY <2>1 DEF Outbox!MarkRefused, Outbox!MarkFailed, Honest, Outbox!TypeOK
  <2>5. "failed" \in Outbox!Statuses
    BY DEF Outbox!Statuses
  <2> HIDE DEF next
  <2> QED
    BY <2>1, <2>2, <2>3, <2>4, <2>5, RowChanges
    DEF Outbox!MarkRefused, Outbox!MarkFailed
<1>5. CASE Outbox!Publish(r)
  <2> DEFINE next == [run[r] EXCEPT !.phase = "confirming"]
  <2>1. Outbox!Current(r) \in Committed
    BY <1>5, CurrentIsMine DEF Outbox!Publish, Honest
  <2>2. /\ next \in Outbox!Run /\ next.phase = "confirming"
        /\ next.todo = run[r].todo /\ next.todo # {} /\ Outbox!Becomes(r, next)
    BY <1>0, <1>5 DEF Outbox!Run, Outbox!Phases, Outbox!Publish
  <2>3. /\ sent' \in [Committed -> Nat]
        /\ \A e \in Committed : sent'[e] >= sent[e]
        /\ sent'[Outbox!Current(r)] > 0
    BY <1>5, <2>1 DEF Outbox!Publish, Honest, Outbox!TypeOK
  <2> HIDE DEF next
  <2>4. /\ publisherFaults' \in 0..MaxPublisherFaults
        /\ UNCHANGED <<status, attempts, brokerUp>>
    BY <1>5 DEF Outbox!Publish, Honest, Outbox!TypeOK
  <2> QED
    BY <2>2, <2>3, <2>4, RunChanges
<1>6. CASE Outbox!Confirm(r)
  <2> DEFINE next == [run[r] EXCEPT !.phase = "confirmed"]
  <2>1. run[r].todo # {} /\ sent[Outbox!Current(r)] > 0
    BY <1>6 DEF Outbox!Confirm, Honest, RunsHonest
  <2>2. /\ next \in Outbox!Run /\ next.phase = "confirmed"
        /\ next.todo = run[r].todo /\ Outbox!Becomes(r, next)
    BY <1>0, <1>6 DEF Outbox!Run, Outbox!Phases, Outbox!Confirm
  <2> HIDE DEF next
  <2>3. /\ publisherFaults' \in 0..MaxPublisherFaults
        /\ sent' \in [Committed -> Nat]
        /\ UNCHANGED <<status, attempts, brokerUp, sent>>
        /\ \A e \in Committed : sent'[e] >= sent[e]
    BY <1>6 DEF Outbox!Confirm, Honest, Outbox!TypeOK
  <2> QED
    BY <2>1, <2>2, <2>3, RunChanges
<1>7. CASE Outbox!PublishFails(r) \/ Outbox!UpdateFails(r)
  <2> DEFINE next == [run[r] EXCEPT !.phase = "failed"]
  <2>1. run[r].todo # {}
    BY <1>7 DEF Outbox!PublishFails, Outbox!UpdateFails, Honest, RunsHonest
  <2>2. /\ next \in Outbox!Run /\ next.phase = "failed"
        /\ next.todo = run[r].todo /\ Outbox!Becomes(r, next)
    BY <1>0, <1>7
    DEF Outbox!Run, Outbox!Phases, Outbox!PublishFails, Outbox!UpdateFails
  <2> HIDE DEF next
  <2>3. /\ publisherFaults' \in 0..MaxPublisherFaults
        /\ sent' \in [Committed -> Nat]
        /\ UNCHANGED <<status, attempts, brokerUp, sent>>
        /\ \A e \in Committed : sent'[e] >= sent[e]
    BY <1>7, OutboxAssumption
    DEF Outbox!PublishFails, Outbox!UpdateFails, Outbox!Fault, Honest,
        Outbox!TypeOK
  <2> QED
    BY <2>1, <2>2, <2>3, RunChanges
<1>8. CASE Outbox!MarkPublished(r)
  <2> DEFINE next == [run[r] EXCEPT !.phase = "publishing",
                                    !.todo = @ \ {Outbox!Current(r)}]
  <2>1. Outbox!Current(r) \in Committed /\ sent[Outbox!Current(r)] > 0
    BY <1>8, CurrentIsMine DEF Outbox!MarkPublished, Honest, RunsHonest
  <2>2. /\ next \in Outbox!Run /\ next.phase = "publishing"
        /\ Outbox!Becomes(r, next)
    BY <1>0, <1>8
    DEF Outbox!Run, Outbox!Phases, Outbox!MarkPublished, Outbox!Settled
  <2>3. "published" \in Outbox!Statuses /\ attempts' \in [Committed -> Nat]
    BY <1>8 DEF Outbox!Statuses, Outbox!MarkPublished, Honest, Outbox!TypeOK
  <2> HIDE DEF next
  <2> QED
    BY <1>8, <2>1, <2>2, <2>3, RowChanges DEF Outbox!MarkPublished
<1>9. CASE Outbox!MarkFailedAttempt(r)
  <2> DEFINE next == [run[r] EXCEPT !.phase = "publishing",
                                    !.todo = @ \ {Outbox!Current(r)}]
  <2>1. Outbox!Current(r) \in Committed
    BY <1>9, CurrentIsMine DEF Outbox!MarkFailedAttempt, Honest, RunsHonest
  <2>2. /\ next \in Outbox!Run /\ next.phase = "publishing"
        /\ Outbox!Becomes(r, next)
    BY <1>0, <1>9
    DEF Outbox!Run, Outbox!Phases, Outbox!MarkFailedAttempt, Outbox!Settled
  <2>3. "failed" \in Outbox!Statuses /\ attempts' \in [Committed -> Nat]
    BY <1>9, <2>1
    DEF Outbox!Statuses, Outbox!MarkFailedAttempt, Outbox!MarkFailed, Honest,
        Outbox!TypeOK
  <2> HIDE DEF next
  <2> QED
    BY <1>9, <2>1, <2>2, <2>3, RowChanges
    DEF Outbox!MarkFailedAttempt, Outbox!MarkFailed
<1>10. CASE Outbox!Close(r)
  <2>1. Outbox!NoRun \in Outbox!Run /\ Outbox!NoRun.phase = "idle"
    BY DEF Outbox!NoRun, Outbox!Run, Outbox!Phases
  <2> QED
    BY <1>10, <2>1, RunUnsent DEF Outbox!Close
<1> QED
  BY <1>1, <1>2, <1>3, <1>4, <1>5, <1>6, <1>7, <1>8, <1>9, <1>10
  DEF Outbox!RunStep

LEMMA NextHonest == Honest /\ [Outbox!Next]_outboxVars => Honest'
<1> SUFFICES ASSUME Honest, [Outbox!Next]_outboxVars PROVE Honest'
  OBVIOUS
<1>1. ASSUME NEW e \in Committed, Outbox!Create(e) PROVE Honest'
  BY <1>1
  DEF Outbox!Create, Honest, Outbox!TypeOK, Outbox!Statuses, RunsHonest,
      Outbox!PublishedWasSent, Outbox!Current
<1>2. CASE Outbox!BrokerDown
  <2>0. \A r \in Runs : [run[r] EXCEPT !.open = FALSE] \in Outbox!Run
    BY DEF Honest, Outbox!TypeOK, Outbox!Run
  <2>1. Outbox!TypeOK'
    <3>1. run' \in [Runs -> Outbox!Run]
      BY <1>2, <2>0 DEF Outbox!BrokerDown
    <3>2. publisherFaults' \in 0..MaxPublisherFaults
      BY <1>2, OutboxAssumption
      DEF Outbox!BrokerDown, Outbox!Fault, Honest, Outbox!TypeOK
    <3> QED
      BY <1>2, <3>1, <3>2 DEF Outbox!BrokerDown, Honest, Outbox!TypeOK
  <2>2. \A r \in Runs : /\ run'[r].phase = run[r].phase
                        /\ run'[r].todo = run[r].todo
    BY <1>2 DEF Outbox!BrokerDown, Honest, Outbox!TypeOK, Outbox!Run
  <2>3. \A r \in Runs : Outbox!Current(r)' = Outbox!Current(r)
    BY <2>2 DEF Outbox!Current
  <2>4. RunsHonest'
    BY <1>2, <2>2, <2>3
    DEF Outbox!BrokerDown, Honest, RunsHonest, Outbox!Current
  <2> QED
    BY <1>2, <2>1, <2>4 DEF Outbox!BrokerDown, Honest, Outbox!PublishedWasSent
<1>3. CASE Outbox!Crash
  BY <1>3, OutboxAssumption
  DEF Outbox!Crash, Outbox!Fault, Honest, Outbox!TypeOK, RunsHonest,
      Outbox!PublishedWasSent, Outbox!NoRun, Outbox!Run, Outbox!Phases
<1>4. CASE Outbox!BrokerBack \/ UNCHANGED outboxVars
  BY <1>4 DEF Outbox!BrokerBack, outboxVars, Honest, Outbox!TypeOK, RunsHonest,
              Outbox!PublishedWasSent, Outbox!Current
<1> QED
  BY <1>1, <1>2, <1>3, <1>4, RunStepHonest DEF Outbox!Next

LEMMA AlwaysHonest == Outbox!Spec => []Honest
BY InitHonest, NextHonest, PTL DEF Outbox!Spec, Outbox!outboxVars, outboxVars

\* An event is marked as published only after RabbitMQ has accepted it.
THEOREM PublishedOnlyIfSent == Outbox!Spec => []Outbox!PublishedWasSent
<1>1. Honest => Outbox!PublishedWasSent
  BY DEF Honest
<1> QED
  BY <1>1, AlwaysHonest, PTL
-----------------------------------------------------------------------------
(* AttemptsBounded is not inductive: every run that holds a row may still  *)
(* add an attempt to it, so the runs that hold it are counted as well.     *)

Holders(e) == {r \in Runs : e \in run[r].todo}

Tally ==
  \A e \in Committed :
    attempts[e] + Cardinality(Holders(e))
      <= MaxAttempts - 1 + Cardinality(Runs)

LEMMA HoldersFinite ==
  ASSUME NEW e
  PROVE  /\ IsFiniteSet(Holders(e))
         /\ Cardinality(Holders(e)) \in Nat
         /\ Cardinality(Runs) \in Nat
         /\ Cardinality(Holders(e)) <= Cardinality(Runs)
<1>1. Holders(e) \subseteq Runs
  BY DEF Holders
<1> QED
  BY <1>1, OutboxAssumption, FS_Subset, FS_CardinalityType

\* A step that fails no attempt and gives no run an event keeps the tally.
LEMMA FewerHolders ==
  ASSUME Outbox!TypeOK, Tally, attempts' = attempts,
         \A e \in Committed : Holders(e)' \subseteq Holders(e)
  PROVE  Tally'
<1> SUFFICES ASSUME NEW e \in Committed
             PROVE  attempts[e] + Cardinality(Holders(e)')
                      <= MaxAttempts - 1 + Cardinality(Runs)
  BY DEF Tally
<1>1. /\ Cardinality(Holders(e)') \in Nat
      /\ Cardinality(Holders(e)') <= Cardinality(Holders(e))
  BY HoldersFinite, FS_Subset, FS_CardinalityType
<1>2. attempts[e] \in Nat /\ Cardinality(Holders(e)) \in Nat
  BY HoldersFinite DEF Outbox!TypeOK
<1>3. attempts[e] + Cardinality(Holders(e))
        <= MaxAttempts - 1 + Cardinality(Runs)
  BY DEF Tally
<1> QED
  BY <1>1, <1>2, <1>3, HoldersFinite, OutboxAssumption

\* A run that fails an attempt at an event holds it no longer.
LEMMA FailedAttempt ==
  ASSUME Outbox!TypeOK, Tally, NEW x \in Committed, NEW r \in Runs,
         NEW next \in Outbox!Run, x \in run[r].todo,
         Outbox!MarkFailed(x), Outbox!Becomes(r, next),
         next.todo \subseteq run[r].todo \ {x}
  PROVE  Tally'
<1> SUFFICES ASSUME NEW e \in Committed
             PROVE  attempts'[e] + Cardinality(Holders(e)')
                      <= MaxAttempts - 1 + Cardinality(Runs)
  BY DEF Tally
<1>0. \A q \in Runs : run'[q] = IF q = r THEN next ELSE run[q]
  BY DEF Outbox!Becomes, Outbox!TypeOK
<1>1. attempts[e] \in Nat /\ Cardinality(Holders(e)) \in Nat
  BY HoldersFinite DEF Outbox!TypeOK
<1>2. attempts[e] + Cardinality(Holders(e))
        <= MaxAttempts - 1 + Cardinality(Runs)
  BY DEF Tally
<1>3. CASE e = x
  <2>1. Holders(e)' \subseteq Holders(e) \ {r} /\ r \in Holders(e)
    BY <1>0, <1>3 DEF Holders
  <2>2. /\ IsFiniteSet(Holders(e) \ {r})
        /\ Cardinality(Holders(e) \ {r}) = Cardinality(Holders(e)) - 1
    BY <2>1, HoldersFinite, FS_RemoveElement
  <2>3. /\ Cardinality(Holders(e)') \in Nat
        /\ Cardinality(Holders(e)') <= Cardinality(Holders(e)) - 1
    BY <2>1, <2>2, FS_Subset, FS_CardinalityType
  <2>4. attempts'[e] = attempts[e] + 1
    BY <1>3 DEF Outbox!MarkFailed, Outbox!TypeOK
  <2> QED
    BY <1>1, <1>2, <2>3, <2>4, HoldersFinite, OutboxAssumption
<1>4. CASE e # x
  <2>1. Holders(e)' \subseteq Holders(e)
    BY <1>0 DEF Holders
  <2>2. /\ Cardinality(Holders(e)') \in Nat
        /\ Cardinality(Holders(e)') <= Cardinality(Holders(e))
    BY <2>1, HoldersFinite, FS_Subset, FS_CardinalityType
  <2>3. attempts'[e] = attempts[e]
    BY <1>4 DEF Outbox!MarkFailed, Outbox!TypeOK
  <2> QED
    BY <1>1, <1>2, <2>2, <2>3, HoldersFinite, OutboxAssumption
<1> QED
  BY <1>3, <1>4

LEMMA TallyInit == Outbox!Init => Tally
<1> SUFFICES ASSUME Outbox!Init, NEW e \in Committed
             PROVE  attempts[e] + Cardinality(Holders(e))
                      <= MaxAttempts - 1 + Cardinality(Runs)
  BY DEF Tally
<1>1. attempts[e] = 0 /\ Holders(e) = {}
  BY DEF Outbox!Init, Holders, Outbox!NoRun
<1> QED
  BY <1>1, FS_EmptySet, HoldersFinite, OutboxAssumption

\* A row that a run reads is below the limit, whoever else holds it.
LEMMA TallyRead ==
  ASSUME Outbox!TypeOK, Tally, NEW r \in Runs, Outbox!Read(r)
  PROVE  Tally'
<1> SUFFICES ASSUME NEW e \in Committed
             PROVE  attempts[e] + Cardinality(Holders(e)')
                      <= MaxAttempts - 1 + Cardinality(Runs)
  BY DEF Tally, Outbox!Read
<1>1. \A q \in Runs : run'[q].todo =
        IF q = r THEN Outbox!Batch ELSE run[q].todo
  BY DEF Outbox!Read, Outbox!Becomes, Outbox!TypeOK, Outbox!Run
<1>2. attempts[e] \in Nat
  BY DEF Outbox!TypeOK
<1>3. /\ Cardinality(Holders(e)') \in Nat
      /\ Cardinality(Holders(e)') <= Cardinality(Runs)
  <2>1. Holders(e)' \subseteq Runs
    BY DEF Holders
  <2> QED
    BY <2>1, OutboxAssumption, FS_Subset, FS_CardinalityType
<1>4. CASE e \in Outbox!Batch
  <2>1. attempts[e] < MaxAttempts
    BY <1>4 DEF Outbox!Batch, Outbox!Due
  <2> QED
    BY <1>2, <1>3, <2>1, HoldersFinite, OutboxAssumption
<1>5. CASE e \notin Outbox!Batch
  <2>1. Holders(e)' \subseteq Holders(e)
    BY <1>1, <1>5 DEF Holders
  <2>2. Cardinality(Holders(e)') <= Cardinality(Holders(e))
    BY <2>1, HoldersFinite, FS_Subset
  <2>3. attempts[e] + Cardinality(Holders(e))
          <= MaxAttempts - 1 + Cardinality(Runs)
    BY DEF Tally
  <2> QED
    BY <1>2, <1>3, <2>2, <2>3, HoldersFinite, OutboxAssumption
<1> QED
  BY <1>4, <1>5

LEMMA TallyRunStep ==
  ASSUME Honest, Tally, NEW r \in Runs,
         Outbox!RunStep(r) \/ Outbox!UpdateFails(r)
  PROVE  Tally'
<1>0. run[r] \in Outbox!Run /\ Outbox!TypeOK
  BY DEF Honest, Outbox!TypeOK
<1>1. CASE Outbox!Read(r)
  BY <1>0, <1>1, TallyRead
<1>2. CASE \E e \in Committed : Outbox!MarkRefused(r, e)
  <2>1. PICK e \in Committed : Outbox!MarkRefused(r, e)
    BY <1>2
  <2> DEFINE next == IF run[r].todo = {e} THEN Outbox!NoRun
                     ELSE [run[r] EXCEPT !.todo = @ \ {e}]
  <2>2. next \in Outbox!Run /\ next.todo \subseteq run[r].todo \ {e}
    BY <1>0, <2>1
    DEF Outbox!MarkRefused, Outbox!Run, Outbox!NoRun, Outbox!Phases
  <2>3. Outbox!Becomes(r, next) /\ Outbox!MarkFailed(e) /\ e \in run[r].todo
    BY <2>1 DEF Outbox!MarkRefused
  <2> HIDE DEF next
  <2> QED
    BY <1>0, <2>2, <2>3, FailedAttempt
<1>3. CASE Outbox!MarkFailedAttempt(r)
  <2> DEFINE next == [run[r] EXCEPT !.phase = "publishing",
                                    !.todo = @ \ {Outbox!Current(r)}]
  <2>1. Outbox!Current(r) \in Committed /\ Outbox!Current(r) \in run[r].todo
    BY <1>3, CurrentIsMine DEF Outbox!MarkFailedAttempt, Honest, RunsHonest
  <2>2. /\ next \in Outbox!Run
        /\ next.todo \subseteq run[r].todo \ {Outbox!Current(r)}
    BY <1>0 DEF Outbox!Run, Outbox!Phases
  <2>3. Outbox!Becomes(r, next) /\ Outbox!MarkFailed(Outbox!Current(r))
    BY <1>3 DEF Outbox!MarkFailedAttempt, Outbox!Settled
  <2> HIDE DEF next
  <2> QED
    BY <1>0, <2>1, <2>2, <2>3, FailedAttempt
<1>4. ASSUME NEW next \in Outbox!Run, Outbox!Becomes(r, next),
             next.todo \subseteq run[r].todo, attempts' = attempts
      PROVE  Tally'
  <2>1. \A q \in Runs : run'[q] = IF q = r THEN next ELSE run[q]
    BY <1>0, <1>4 DEF Outbox!Becomes, Outbox!TypeOK
  <2>2. \A e \in Committed : Holders(e)' \subseteq Holders(e)
    BY <1>4, <2>1 DEF Holders
  <2> QED
    BY <1>0, <1>4, <2>2, FewerHolders
<1>5. CASE Outbox!OpenChannel(r)
  <2> DEFINE next == [run[r] EXCEPT !.phase = "publishing", !.open = TRUE]
  <2>1. /\ next \in Outbox!Run /\ next.todo = run[r].todo
        /\ Outbox!Becomes(r, next)
    BY <1>0, <1>5 DEF Outbox!Run, Outbox!Phases, Outbox!OpenChannel
  <2> QED
    BY <1>4, <1>5, <2>1 DEF Outbox!OpenChannel
<1>6. ASSUME NEW p \in Outbox!Phases, attempts' = attempts,
             Outbox!Becomes(r, [run[r] EXCEPT !.phase = p])
      PROVE  Tally'
  <2> DEFINE next == [run[r] EXCEPT !.phase = p]
  <2>1. next \in Outbox!Run /\ next.todo = run[r].todo
    BY <1>0 DEF Outbox!Run
  <2> QED
    BY <1>4, <1>6, <2>1
<1>7. CASE Outbox!ChannelRefused(r)
  BY <1>6, <1>7 DEF Outbox!ChannelRefused, Outbox!Phases
<1>8. CASE Outbox!Publish(r)
  BY <1>6, <1>8 DEF Outbox!Publish, Outbox!Phases
<1>9. CASE Outbox!Confirm(r)
  BY <1>6, <1>9 DEF Outbox!Confirm, Outbox!Phases
<1>10. CASE Outbox!PublishFails(r)
  BY <1>6, <1>10 DEF Outbox!PublishFails, Outbox!Phases
<1>11. CASE Outbox!UpdateFails(r)
  BY <1>6, <1>11 DEF Outbox!UpdateFails, Outbox!Phases
<1>12. CASE Outbox!MarkPublished(r)
  <2> DEFINE next == [run[r] EXCEPT !.phase = "publishing",
                                    !.todo = @ \ {Outbox!Current(r)}]
  <2>1. next \in Outbox!Run /\ next.todo \subseteq run[r].todo
    BY <1>0 DEF Outbox!Run, Outbox!Phases
  <2>2. Outbox!Becomes(r, next)
    BY <1>12 DEF Outbox!MarkPublished, Outbox!Settled
  <2> HIDE DEF next
  <2> QED
    BY <1>4, <1>12, <2>1, <2>2 DEF Outbox!MarkPublished
<1>13. CASE Outbox!Close(r)
  <2>1. Outbox!NoRun \in Outbox!Run /\ Outbox!NoRun.todo = {}
    BY DEF Outbox!NoRun, Outbox!Run, Outbox!Phases
  <2> QED
    BY <1>4, <1>13, <2>1 DEF Outbox!Close
<1> QED
  BY <1>1, <1>2, <1>3, <1>5, <1>7, <1>8, <1>9, <1>10, <1>11, <1>12, <1>13
  DEF Outbox!RunStep

LEMMA TallyNext == Honest /\ Tally /\ [Outbox!Next]_outboxVars => Tally'
<1> SUFFICES ASSUME Honest, Tally, [Outbox!Next]_outboxVars PROVE Tally'
  OBVIOUS
<1>0. Outbox!TypeOK
  BY DEF Honest
<1>1. ASSUME NEW e \in Committed, Outbox!Create(e) PROVE Tally'
  <2>1. /\ attempts' = attempts
        /\ \A x \in Committed : Holders(x)' \subseteq Holders(x)
    BY <1>1 DEF Outbox!Create, Holders
  <2> QED
    BY <1>0, <2>1, FewerHolders
<1>2. CASE Outbox!BrokerDown
  <2>1. \A r \in Runs : run'[r].todo = run[r].todo
    BY <1>0, <1>2 DEF Outbox!BrokerDown, Outbox!TypeOK, Outbox!Run
  <2>2. /\ attempts' = attempts
        /\ \A x \in Committed : Holders(x)' \subseteq Holders(x)
    BY <1>2, <2>1 DEF Outbox!BrokerDown, Holders
  <2> QED
    BY <1>0, <2>2, FewerHolders
<1>3. CASE Outbox!Crash
  <2>1. /\ attempts' = attempts
        /\ \A x \in Committed : Holders(x)' \subseteq Holders(x)
    BY <1>3 DEF Outbox!Crash, Holders, Outbox!NoRun
  <2> QED
    BY <1>0, <2>1, FewerHolders
<1>4. CASE Outbox!BrokerBack \/ UNCHANGED outboxVars
  <2>1. /\ attempts' = attempts
        /\ \A x \in Committed : Holders(x)' \subseteq Holders(x)
    BY <1>4 DEF Outbox!BrokerBack, outboxVars, Holders
  <2> QED
    BY <1>0, <2>1, FewerHolders
<1> QED
  BY <1>1, <1>2, <1>3, <1>4, TallyRunStep DEF Outbox!Next

\* However many runs overlap, each adds at most one failed attempt to a row
\* beyond the limit.
THEOREM FewExtraAttempts == Outbox!Spec => []Outbox!AttemptsBounded
<1>0. Outbox!Cardinality(Runs) = Cardinality(Runs)
  BY DEF Outbox!Cardinality, Cardinality
<1>1. Honest /\ Tally => Outbox!AttemptsBounded
  <2> SUFFICES ASSUME Honest, Tally, NEW e \in Committed
               PROVE  attempts[e] < MaxAttempts + Cardinality(Runs)
    BY <1>0 DEF Outbox!AttemptsBounded
  <2>1. /\ attempts[e] \in Nat
        /\ attempts[e] + Cardinality(Holders(e))
             <= MaxAttempts - 1 + Cardinality(Runs)
    BY DEF Honest, Outbox!TypeOK, Tally
  <2> QED
    BY <2>1, HoldersFinite, OutboxAssumption
<1> QED
  BY <1>1, AlwaysHonest, TallyInit, TallyNext, PTL
  DEF Outbox!Spec, Outbox!outboxVars, outboxVars
-----------------------------------------------------------------------------
(***************************************************************************)
(* The backbone: no event is lost, and it implements Effects.              *)
(*                                                                         *)
(* Each step of the backbone is one of the consumer or leaves the consumer *)
(* alone, so the invariants of Consumer carry over.  They do not say where *)
(* the events of the consumer come from: Backed does.  Whatever a run, the *)
(* queue or a worker holds was committed before, or is malformed and takes *)
(* no effect.                                                              *)
(***************************************************************************)
\* The events whose outbox row has been committed.
Written == {e \in Committed : status[e] # "absent"}
Known == Written \cup Malformed

OutboxTyped ==
  /\ status \in [Committed -> Outbox!Statuses]
  /\ run \in [Runs -> Outbox!Run]

Backed ==
  /\ \A r \in Runs : run[r].todo \subseteq Written
  /\ \A e \in Events : queue[e] > 0 => e \in Known
  /\ \A w \in Workers : Busy(w) => worker[w].event \in Known

Whole == Inv /\ OutboxTyped /\ Backed
-----------------------------------------------------------------------------
(* The rows that runs and workers hold                                     *)

LEMMA CurrentIsHeld ==
  ASSUME OutboxTyped, NEW r \in Runs, run[r].todo # {}
  PROVE  Outbox!Current(r) \in run[r].todo
<1>1. run[r].todo \subseteq Nat
  BY CommittedAssumption DEF OutboxTyped, Outbox!Run
<1>2. \E e \in run[r].todo : \A d \in run[r].todo : e <= d
  BY <1>1, FirstExists
<1> QED
  BY <1>2 DEF Outbox!Current

\* A step commits at most one row.
RowsGrow ==
  \/ Written' = Written
  \/ \E e \in Committed : Written' = Written \cup {e}

\* A run holds rows that it has read, and no row becomes absent again.
LEMMA RunsHoldRows ==
  ASSUME OutboxTyped, \A r \in Runs : run[r].todo \subseteq Written,
         Outbox!Next
  PROVE  /\ OutboxTyped'
         /\ \A r \in Runs : run'[r].todo \subseteq Written
         /\ RowsGrow
<1> USE DEF OutboxTyped, Outbox!Run, Outbox!Statuses, Outbox!Phases, Written,
            RowsGrow, Outbox!Becomes, Outbox!NoRun
<1> DEFINE Preserved == /\ OutboxTyped'
                        /\ \A q \in Runs : run'[q].todo \subseteq Written
                        /\ RowsGrow
<1>1. ASSUME NEW e \in Committed, Outbox!Create(e)
      PROVE  Preserved
  BY <1>1 DEF Outbox!Create
<1>2. ASSUME NEW r \in Runs, NEW next \in Outbox!Run, Outbox!Becomes(r, next),
             next.todo \subseteq Written, UNCHANGED status
      PROVE  Preserved
  BY <1>2
<1>3. ASSUME NEW r \in Runs, NEW next \in Outbox!Run, Outbox!Becomes(r, next),
             next.todo \subseteq Written, NEW e,
             NEW s \in {"failed", "published"},
             status' = [status EXCEPT ![e] = s]
      PROVE  Preserved
  <2>1. OutboxTyped' /\ \A q \in Runs : run'[q].todo \subseteq Written
    BY <1>3
  <2>2. CASE e \in Committed
    <3>1. Written' = Written \cup {e}
      BY <1>3, <2>2
    <3> QED
      BY <2>1, <2>2, <3>1
  <2>3. CASE e \notin Committed
    <3>1. Written' = Written
      BY <1>3, <2>3
    <3> QED
      BY <2>1, <3>1
  <2> QED
    BY <2>2, <2>3
<1>4. ASSUME NEW r \in Runs, Outbox!Read(r)
      PROVE  Preserved
  <2>1. Outbox!Batch \subseteq Written
    BY DEF Outbox!Batch, Outbox!Due
  <2> QED
    BY <1>2, <1>4, <2>1 DEF Outbox!Read
<1>5. ASSUME NEW r \in Runs,
             \/ Outbox!OpenChannel(r) \/ Outbox!ChannelRefused(r)
             \/ Outbox!Publish(r) \/ Outbox!Confirm(r)
             \/ Outbox!PublishFails(r) \/ Outbox!UpdateFails(r)
             \/ Outbox!Close(r)
      PROVE  Preserved
  BY <1>2, <1>5
  DEF Outbox!OpenChannel, Outbox!ChannelRefused, Outbox!Publish,
      Outbox!Confirm, Outbox!PublishFails, Outbox!UpdateFails, Outbox!Close
<1>6. ASSUME NEW r \in Runs, NEW e \in Committed, Outbox!MarkRefused(r, e)
      PROVE  Preserved
  <2> DEFINE next == IF run[r].todo = {e} THEN Outbox!NoRun
                     ELSE [run[r] EXCEPT !.todo = @ \ {e}]
  <2>1. next \in Outbox!Run /\ next.todo \subseteq Written
    OBVIOUS
  <2>2. Outbox!Becomes(r, next) /\ status' = [status EXCEPT ![e] = "failed"]
    BY <1>6 DEF Outbox!MarkRefused, Outbox!MarkFailed
  <2> HIDE DEF next
  <2> QED
    BY <1>3, <2>1, <2>2
<1>7. ASSUME NEW r \in Runs,
             Outbox!MarkPublished(r) \/ Outbox!MarkFailedAttempt(r)
      PROVE  Preserved
  <2> DEFINE e == Outbox!Current(r)
             next == [run[r] EXCEPT !.phase = "publishing", !.todo = @ \ {e}]
  <2>1. next \in Outbox!Run /\ next.todo \subseteq Written
    OBVIOUS
  <2>2. PICK s \in {"failed", "published"} : status' = [status EXCEPT ![e] = s]
    BY <1>7
    DEF Outbox!MarkPublished, Outbox!MarkFailedAttempt, Outbox!MarkFailed
  <2>3. Outbox!Becomes(r, next)
    BY <1>7
    DEF Outbox!MarkPublished, Outbox!MarkFailedAttempt, Outbox!Settled
  <2> HIDE DEF e, next
  <2> QED
    BY <1>3, <2>1, <2>2, <2>3
<1>8. ASSUME Outbox!BrokerDown \/ Outbox!BrokerBack \/ Outbox!Crash
      PROVE  Preserved
  <2>1. UNCHANGED status
    BY <1>8 DEF Outbox!BrokerDown, Outbox!BrokerBack, Outbox!Crash
  <2>2. \/ run' = [r \in Runs |-> [run[r] EXCEPT !.open = FALSE]]
        \/ UNCHANGED run
        \/ run' = [r \in Runs |-> Outbox!NoRun]
    BY <1>8 DEF Outbox!BrokerDown, Outbox!BrokerBack, Outbox!Crash
  <2>3. /\ run' \in [Runs -> Outbox!Run]
        /\ \A q \in Runs : run'[q].todo \subseteq run[q].todo
    <3>1. \A r \in Runs : [run[r] EXCEPT !.open = FALSE] \in Outbox!Run
      OBVIOUS
    <3>2. CASE run' = [r \in Runs |-> [run[r] EXCEPT !.open = FALSE]]
      BY <3>1, <3>2
    <3>3. CASE UNCHANGED run
      BY <3>3
    <3>4. CASE run' = [r \in Runs |-> Outbox!NoRun]
      BY <3>4
    <3> QED
      BY <2>2, <3>2, <3>3, <3>4
  <2> QED
    BY <2>1, <2>3
<1>9. Preserved
  <2> HIDE DEF Preserved, OutboxTyped, Outbox!Run, Outbox!Statuses, Outbox!Phases,
               Written, RowsGrow, Outbox!Becomes, Outbox!NoRun
  <2>1. ASSUME NEW r \in Runs, Outbox!RunStep(r) \/ Outbox!UpdateFails(r)
        PROVE  Preserved
    BY <1>4, <1>5, <1>6, <1>7, <2>1 DEF Outbox!RunStep
  <2> QED
    BY <1>1, <1>8, <2>1 DEF Outbox!Next
<1> QED
  BY <1>9
-----------------------------------------------------------------------------
(* Where the events of the consumer come from                              *)

WorkersKnow ==
  /\ \A e \in Events : queue[e] > 0 => e \in Known
  /\ \A w \in Workers : Busy(w) => worker[w].event \in Known

LEMMA ArriveKnown ==
  ASSUME Inv, WorkersKnow, NEW e \in Events, e \in Known, Arrive(e),
         Known \subseteq Known'
  PROVE  WorkersKnow'
BY DEF WorkersKnow, Arrive, Busy, Inv, TypeOK

\* A worker takes what is on the queue, and puts back what it holds.
LEMMA WorkerKnown ==
  ASSUME Inv, Inv', WorkersKnow, NEW w \in Workers, WorkerStep(w),
         Known \subseteq Known'
  PROVE  WorkersKnow'
<1>1. \A v \in Workers : v # w => worker'[v] = worker[v]
  BY DEF WorkerStep, Deliver, Insert, Skip, Commit, CommitUnknown,
         CommitTransaction, HandlerFails, Nack, Ack, Goto, Inv, TypeOK
<1>2. ASSUME NEW e \in Events, Deliver(w, e) PROVE WorkersKnow'
  <2>1. queue[e] > 0 /\ worker'[w].event = e
    BY <1>2 DEF Deliver, Inv, TypeOK
  <2>2. \A d \in Events : queue'[d] > 0 => queue[d] > 0
    BY <1>2 DEF Deliver, Inv, TypeOK
  <2> QED
    BY <1>1, <2>1, <2>2 DEF WorkersKnow, Busy
<1>3. CASE Insert(w) \/ Skip(w) \/ Commit(w) \/ CommitUnknown(w)
             \/ HandlerFails(w)
  <2>1. worker[w].phase # "idle"
    BY <1>3 DEF Insert, Skip, Commit, CommitUnknown, CommitTransaction,
                HandlerFails
  <2>2. worker[w] \in Job /\ Busy(w)
    BY <2>1, JobFacts DEF Inv, Busy
  <2>3. PICK phase \in {"handling", "done", "failed"} :
          Goto(w, phase) /\ UNCHANGED queue
    BY <1>3 DEF Insert, Skip, Commit, CommitUnknown, CommitTransaction,
                HandlerFails
  <2>4. worker'[w].event = worker[w].event
    BY <2>2, <2>3 DEF Goto, Inv, TypeOK, Job
  <2> QED
    BY <1>1, <2>2, <2>3, <2>4 DEF WorkersKnow, Busy
<1>4. CASE Nack(w) \/ Ack(w)
  <2>1. worker[w].phase # "idle" /\ worker' = [worker EXCEPT ![w] = NoJob]
    BY <1>4 DEF Nack, Ack
  <2>2. Busy(w)
    BY <2>1, JobFacts DEF Inv, Busy
  <2>3. \A d \in Events : queue'[d] > 0 => queue[d] > 0 \/ d = worker[w].event
    BY <1>4 DEF Nack, Ack, Inv, TypeOK
  <2>4. worker'[w] = NoJob
    BY <2>1 DEF Inv, TypeOK
  <2> QED
    BY <1>1, <2>2, <2>3, <2>4 DEF WorkersKnow, Busy
<1> QED
  BY <1>2, <1>3, <1>4 DEF WorkerStep

LEMMA FaultKnown ==
  ASSUME Inv, WorkersKnow, NEW lost \in SUBSET Workers,
         Disconnect(lost) \/ Crash(lost), Known \subseteq Known'
  PROVE  WorkersKnow'
<1>1. queue' = Requeued(lost)
  BY DEF Disconnect, Crash
<1>2. ASSUME NEW e \in Events, queue'[e] > 0
      PROVE  e \in Known
  <2> DEFINE held == {w \in lost : Holds(w, e)}
  <2>1. CASE held = {}
    <3>1. queue'[e] = queue[e] + 0
      BY <1>1, <2>1, FS_EmptySet DEF Requeued
    <3> QED
      BY <1>2, <3>1 DEF WorkersKnow, Inv, TypeOK
  <2>2. CASE held # {}
    BY <2>2 DEF Holds, WorkersKnow, Busy
  <2> QED
    BY <2>1, <2>2
<1>3. ASSUME NEW w \in Workers, Busy(w)'
      PROVE  Busy(w) /\ worker'[w].event = worker[w].event
  BY <1>3 DEF Busy, Disconnect, Crash, Inv, TypeOK, Job
<1> QED
  BY <1>2, <1>3 DEF WorkersKnow
-----------------------------------------------------------------------------
(* The backbone                                                            *)

LEMMA InitWhole == Init => Whole
<1>1. Init => OutboxTyped
  BY DEF Init, Outbox!Init, OutboxTyped, Outbox!Statuses, Outbox!Run,
         Outbox!Phases, Outbox!NoRun
<1>2. Init => Backed
  BY DEF Init, Outbox!Init, Outbox!NoRun, ConsumerInit, Backed, Busy
<1> QED
  BY <1>1, <1>2, InitInv DEF Init, Whole

\* What each step is to the two halves.
OutboxTakesPart == Outbox!Next \/ UNCHANGED outboxVars

ConsumerTakesPart ==
  \/ \E r \in Runs : Route(r) /\ bound /\ Arrive(Outbox!Current(r))
  \/ \E e \in Malformed : Arrive(e)
  \/ \E w \in Workers : WorkerStep(w)
  \/ \E lost \in SUBSET Workers : Disconnect(lost) \/ Crash(lost)
  \/ UNCHANGED consumerVars

LEMMA StepsOfHalves ==
  [Next]_vars => OutboxTakesPart /\ ConsumerTakesPart
<1> SUFFICES ASSUME [Next]_vars PROVE OutboxTakesPart /\ ConsumerTakesPart
  OBVIOUS
<1> USE DEF OutboxTakesPart, ConsumerTakesPart
<1>1. ASSUME NEW r \in Runs, Route(r) \/ PublisherStep(r)
      PROVE  OutboxTakesPart /\ ConsumerTakesPart
  BY <1>1 DEF Route, PublisherStep, Outbox!Next, Outbox!RunStep
<1>2. ASSUME NEW w \in Workers, Work(w) \/ \E e \in Events : Take(w, e)
      PROVE  OutboxTakesPart /\ ConsumerTakesPart
  BY <1>2 DEF Work, Take, WorkerStep
<1>3. CASE \/ \E e \in Committed : CommitEvent(e)
           \/ \E e \in Malformed : Strange(e)
           \/ Declare \/ UNCHANGED vars
  BY <1>3 DEF CommitEvent, Strange, Declare, Outbox!Next, vars
<1>4. CASE PublisherCrash \/ BrokerBack \/ ConsumerFault
  BY <1>4 DEF PublisherCrash, BrokerBack, ConsumerFault, Outbox!Next
<1>5. CASE Outage
  BY <1>5 DEF Outage, Outbox!Next
<1> QED
  BY <1>1, <1>2, <1>3, <1>4, <1>5 DEF Next

\* Publish sends the event the run holds, which has been written.
LEMMA SentIsWritten ==
  ASSUME OutboxTyped, Backed, NEW r \in Runs, Route(r)
  PROVE  Outbox!Current(r) \in Written
<1>1. run[r].todo # {}
  BY DEF Route, Outbox!Publish
<1> QED
  BY <1>1, CurrentIsHeld DEF Backed

LEMMA NextWhole == Whole /\ [Next]_vars => Whole'
<1> SUFFICES ASSUME Whole, [Next]_vars PROVE Whole'
  OBVIOUS
<1>1. OutboxTakesPart /\ ConsumerTakesPart
  BY StepsOfHalves
<1>2. /\ OutboxTyped'
      /\ \A r \in Runs : run'[r].todo \subseteq Written
      /\ RowsGrow
  <2>1. CASE Outbox!Next
    BY <2>1, RunsHoldRows DEF Whole, Backed
  <2>2. CASE UNCHANGED outboxVars
    BY <2>2 DEF outboxVars, Whole, OutboxTyped, Backed, Written,
                RowsGrow
  <2> QED
    BY <1>1, <2>1, <2>2 DEF OutboxTakesPart
<1>3. Written \subseteq Written' /\ Known \subseteq Known'
  BY <1>2 DEF Known, RowsGrow
<1>4. ASSUME NEW r \in Runs, Route(r)
      PROVE  Outbox!Current(r) \in Events /\ Outbox!Current(r) \in Known
  BY <1>4, SentIsWritten DEF Whole, Written, Known, Committed
<1>5. [ConsumerNext]_consumerVars
  BY <1>1, <1>4, MalformedAssumption DEF ConsumerTakesPart, ConsumerNext
<1>6. Inv'
  BY <1>5, NextInv DEF Whole
<1>7. WorkersKnow'
  <2>1. Inv /\ WorkersKnow
    BY DEF Whole, Backed, WorkersKnow
  <2>2. ASSUME NEW e \in Events, e \in Known, Arrive(e) PROVE WorkersKnow'
    BY <1>3, <2>1, <2>2, ArriveKnown
  <2>3. ASSUME NEW w \in Workers, WorkerStep(w) PROVE WorkersKnow'
    BY <1>3, <1>6, <2>1, <2>3, WorkerKnown
  <2>4. ASSUME NEW lost \in SUBSET Workers, Disconnect(lost) \/ Crash(lost)
        PROVE  WorkersKnow'
    BY <1>3, <2>1, <2>4, FaultKnown
  <2>5. CASE UNCHANGED consumerVars
    BY <1>3, <2>1, <2>5 DEF consumerVars, WorkersKnow, Busy
  <2>6. \A e \in Malformed : e \in Events /\ e \in Known
    BY MalformedAssumption DEF Known
  <2> QED
    BY <1>1, <1>4, <2>2, <2>3, <2>4, <2>5, <2>6 DEF ConsumerTakesPart
<1> QED
  BY <1>2, <1>3, <1>6, <1>7 DEF Whole, Backed, WorkersKnow

LEMMA AlwaysWhole == Spec => []Whole
BY InitWhole, NextWhole, PTL DEF Spec

\* The consumer takes steps of its own only, whatever the publisher does.
LEMMA ConsumerWithin == Spec => ConsumerSpec
<1>1. Init => ConsumerInit
  BY DEF Init
<1>2. Whole /\ [Next]_vars => [ConsumerNext]_consumerVars
  <2> SUFFICES ASSUME Whole, [Next]_vars PROVE [ConsumerNext]_consumerVars
    OBVIOUS
  <2>1. ConsumerTakesPart
    BY StepsOfHalves
  <2>2. ASSUME NEW r \in Runs, Route(r) PROVE Outbox!Current(r) \in Events
    BY <2>2, SentIsWritten DEF Whole, Written, Committed
  <2> QED
    BY <2>1, <2>2, MalformedAssumption DEF ConsumerTakesPart, ConsumerNext
<1> QED
  BY <1>1, <1>2, AlwaysWhole, PTL DEF Spec, ConsumerSpec

\* The publisher takes steps of its own only, whatever the consumer does.
LEMMA PublisherWithin == Spec => Outbox!Spec
<1>1. Init => Outbox!Init
  BY DEF Init
<1>2. [Next]_vars => [Outbox!Next]_outboxVars
  BY StepsOfHalves DEF OutboxTakesPart
<1> QED
  BY <1>1, <1>2, PTL DEF Spec, Outbox!Spec, Outbox!outboxVars, outboxVars

\* In the backbone too, an event that is marked as published was accepted, and
\* no row is tried much more often than its limit.
THEOREM BackboneMarksWhatItSent ==
  Spec => [](PublishedWasSent /\ Outbox!AttemptsBounded)
BY PublisherWithin, PublishedOnlyIfSent, FewExtraAttempts, PTL
DEF PublishedWasSent

\* Behind the publisher, and with malformed events on the queue, a message
\* that arrived is not lost before its event takes effect.
THEOREM BackboneLosesNothing == Spec => []NothingLost
BY ConsumerWithin, ArrivedIsNotLost, PTL

LEMMA CommitApplies ==
  ASSUME Whole, NEW w \in Workers, CommitTransaction(w), UNCHANGED status
  PROVE  Promise!Next
<1> DEFINE e == worker[w].event
<1>1. worker[w] \in Job /\ e \in Events /\ Busy(w) /\ e \notin processed
  BY JobFacts DEF Whole, Inv, Exclusive, CommitTransaction, Busy
<1>2. e \in Written /\ effects[e] = 0
  BY <1>1 DEF Whole, Backed, Inv, EffectsRecorded, Known, Written,
              CommitTransaction
<1>3. effects' = [effects EXCEPT ![e] = 1]
  BY <1>1, <1>2 DEF CommitTransaction, Whole, Inv, TypeOK
<1> QED
  BY <1>1, <1>2, <1>3 DEF Promise!Next, Promise!Apply, Written

\* Every step is one of Effects, or none.
LEMMA StepPromised ==
  Whole /\ [Next]_vars => [Promise!Next]_<<Written, effects>>
<1> SUFFICES ASSUME Whole, [Next]_vars
             PROVE  Promise!Next \/ UNCHANGED <<Written, effects>>
  OBVIOUS
<1>1. ASSUME NEW w \in Workers, Work(w)
      PROVE  Promise!Next \/ UNCHANGED <<Written, effects>>
  <2>1. UNCHANGED status /\ UNCHANGED Written
    BY <1>1 DEF Work, outboxVars, Written
  <2>2. CommitTransaction(w) \/ UNCHANGED effects
    BY <1>1 DEF Work, Insert, Skip, Commit, CommitUnknown, HandlerFails,
                Nack, Ack
  <2> QED
    BY <2>1, <2>2, CommitApplies
<1>2. CASE UNCHANGED effects
  <2>1. RowsGrow
    BY StepsOfHalves, RunsHoldRows
    DEF OutboxTakesPart, Whole, Backed, RowsGrow, Written, outboxVars
  <2>2. \A e \in Committed : e \in Events
    BY DEF Committed
  <2> QED
    BY <1>2, <2>1, <2>2 DEF RowsGrow, Promise!Next, Promise!Commit, Written
<1>3. (\E w \in Workers : Work(w)) \/ UNCHANGED effects
  BY DEF Next, Route, PublisherStep, CommitEvent, Strange, Take,
         PublisherCrash, BrokerBack, Declare, ConsumerFault, Outage, Arrive,
         Deliver, Disconnect, Crash, vars, consumerVars
<1> QED
  BY <1>1, <1>2, <1>3

\* Whatever is published twice, delivered twice or refused for ever, the
\* backbone keeps its promise: an event that was committed takes effect at
\* most once, and nothing else does.
THEOREM BackboneImplementsEffects == Spec => ImplementsEffects
<1>1. Init => Promise!Init
  BY DEF Init, Outbox!Init, ConsumerInit, Promise!Init
<1> QED
  BY <1>1, StepPromised, AlwaysWhole, PTL
  DEF Spec, ImplementsEffects, Promise!Spec, Written
-----------------------------------------------------------------------------
(***************************************************************************)
(* The rows of the daily metrics.                                          *)
(***************************************************************************)
Seen == Appointments \X (Statuses \cup {"absent"})
DayEvents == [day : Days, step : {"waiting", "read", "wrote"}, read : SUBSET Seen]

MetricsTypeOK ==
  /\ appointment \in [Appointments -> [status : Statuses \cup {"absent"},
                                       day : Days \cup {NoDay}]]
  /\ \A a \in Appointments : Exists(a) => appointment[a].day \in Days
  /\ events \in Seq(DayEvents)
  /\ rows \in [Days -> SUBSET Seen]

Working(i) == events[i].step \in {"read", "wrote"}

\* What is counted of an appointment, in a row or by a handler, is st.
Counts(read, a, st) == /\ \E c \in read : c[1] = a /\ c[2] = st
                       /\ \A c \in read : c[1] = a => c[2] = st

Named(read, d) == \A c \in read : IsOn(c[1], d) \/ <<c[1], d>> \in departed

NamesOK == /\ \A d \in Days : Named(rows[d], d)
           /\ \A i \in DOMAIN events : Named(events[i].read, events[i].day)

OneHandler ==
  \A i, j \in DOMAIN events :
    /\ Working(i) /\ Working(j) /\ events[i].day = events[j].day
    /\ events[i].day \notin overlapped
    => i = j

\* An appointment of a day is still to be counted, is being counted right, or
\* is counted right in the row of the day, which nobody is about to write.
CountedFor(a, d) ==
  \/ \E i \in DOMAIN events : events[i].step = "waiting" /\ events[i].day = d
  \/ \E i \in DOMAIN events : /\ Working(i) /\ events[i].day = d
                              /\ Counts(events[i].read, a, appointment[a].status)
  \/ /\ \A i \in DOMAIN events : events[i].day # d
     /\ Counts(rows[d], a, appointment[a].status)

CountsOK == \A d \in Days \ overlapped, a \in Appointments \ reopened :
              IsOn(a, d) => CountedFor(a, d)

RowsOK == MetricsTypeOK /\ NamesOK /\ OneHandler /\ CountsOK

LEMMA RemoveAtFacts ==
  ASSUME NEW S, NEW s \in Seq(S), NEW i \in DOMAIN s
  PROVE  /\ RemoveAt(s, i) \in Seq(S)
         /\ DOMAIN RemoveAt(s, i) = 1..(Len(s) - 1)
         /\ \A j \in 1..(Len(s) - 1) :
              RemoveAt(s, i)[j] = IF j < i THEN s[j] ELSE s[j + 1]
<1>1. Len(s) \in Nat /\ DOMAIN s = 1..Len(s) /\ i \in 1..Len(s)
      /\ \A j \in 1..Len(s) : s[j] \in S
  BY LenProperties
<1> DEFINE l == SubSeq(s, 1, i - 1)
           r == SubSeq(s, i + 1, Len(s))
<1>2. /\ l \in Seq(S) /\ Len(l) = i - 1
      /\ \A j \in 1..(i - 1) : l[j] = s[j]
  <2>1. \A j \in 1..(i - 1) : s[j] \in S
    BY <1>1
  <2>2. /\ l \in Seq(S)
        /\ Len(l) = IF 1 <= i - 1 THEN (i - 1) - 1 + 1 ELSE 0
        /\ \A j \in 1..((i - 1) - 1 + 1) : l[j] = s[1 + j - 1]
    BY <1>1, <2>1, SubSeqProperties
  <2> QED
    BY <1>1, <2>2
<1>3. /\ r \in Seq(S) /\ Len(r) = Len(s) - i
      /\ \A j \in 1..(Len(s) - i) : r[j] = s[i + j]
  <2>1. \A j \in (i + 1)..Len(s) : s[j] \in S
    BY <1>1
  <2>2. /\ r \in Seq(S)
        /\ Len(r) = IF i + 1 <= Len(s) THEN Len(s) - (i + 1) + 1 ELSE 0
        /\ \A j \in 1..(Len(s) - (i + 1) + 1) : r[j] = s[(i + 1) + j - 1]
    BY <1>1, <2>1, SubSeqProperties
  <2>3. ASSUME NEW j \in 1..(Len(s) - i)
        PROVE  r[j] = s[i + j]
    <3>1. /\ j \in 1..(Len(s) - (i + 1) + 1)
          /\ (i + 1) + j - 1 = i + j
      BY <1>1
    <3> HIDE DEF r
    <3>2. r[j] = s[(i + 1) + j - 1]
      BY <2>2, <3>1
    <3> QED
      BY <3>1, <3>2
  <2>4. Len(r) = Len(s) - i
    BY <1>1, <2>2
  <2> QED
    BY <2>2, <2>3, <2>4
<1>4. RemoveAt(s, i) = l \o r
  BY DEF RemoveAt
<1> HIDE DEF l, r
<1>5. /\ l \o r \in Seq(S) /\ Len(l \o r) = Len(l) + Len(r)
      /\ \A j \in 1..(Len(l) + Len(r)) :
           (l \o r)[j] = IF j <= Len(l) THEN l[j] ELSE r[j - Len(l)]
  BY <1>2, <1>3, ConcatProperties
<1>6. DOMAIN (l \o r) = 1..(Len(s) - 1)
  <2>1. Len(l \o r) = Len(s) - 1
    BY <1>1, <1>2, <1>3, <1>5
  <2> QED
    BY <1>5, <2>1, LenProperties
<1>7. ASSUME NEW j \in 1..(Len(s) - 1)
      PROVE  (l \o r)[j] = IF j < i THEN s[j] ELSE s[j + 1]
  <2>1. CASE j < i
    BY <1>1, <1>2, <1>3, <1>5, <2>1
  <2>2. CASE i <= j
    <3>1. PICK n : n = j - Len(l)
      OBVIOUS
    <3>2. n \in 1..(Len(s) - i) /\ i + n = j + 1
      BY <1>1, <1>2, <2>2, <3>1
    <3>3. (l \o r)[j] = r[n]
      <4>1. j \in 1..(Len(l) + Len(r)) /\ ~(j <= Len(l))
        BY <1>1, <1>2, <1>3, <2>2
      <4> QED
        BY <1>5, <3>1, <4>1
    <3>4. r[n] = s[i + n]
      BY <1>3, <3>2
    <3>5. (l \o r)[j] = s[j + 1]
      BY <3>2, <3>3, <3>4
    <3>6. ~(j < i)
      BY <1>1, <2>2
    <3> QED
      BY <3>5, <3>6
  <2>3. j < i \/ i <= j
    BY <1>1
  <2> QED
    BY <2>1, <2>2, <2>3
<1> QED
  BY <1>4, <1>5, <1>6, <1>7

\* An event is published: those before it stay, and it waits.
LEMMA PublishFacts ==
  ASSUME MetricsTypeOK, NEW d \in Days, Publish(d)
  PROVE  /\ events' \in Seq(DayEvents)
         /\ DOMAIN events' = DOMAIN events \cup {Len(events) + 1}
         /\ \A i \in DOMAIN events : events'[i] = events[i]
         /\ events'[Len(events) + 1] = [day |-> d, step |-> "waiting", read |-> {}]
<1>1. PICK e : e = [day |-> d, step |-> "waiting", read |-> {}]
  OBVIOUS
<1>2. e \in DayEvents /\ events \in Seq(DayEvents)
  BY <1>1 DEF DayEvents, MetricsTypeOK
<1>3. events' = Append(events, e)
  BY <1>1 DEF Publish, Event
<1>4. /\ Append(events, e) \in Seq(DayEvents)
      /\ Len(Append(events, e)) = Len(events) + 1
      /\ \A i \in 1..Len(events) : Append(events, e)[i] = events[i]
      /\ Append(events, e)[Len(events) + 1] = e
  BY <1>2, AppendProperties
<1>5. Len(events) \in Nat /\ DOMAIN events = 1..Len(events)
  BY <1>2, LenProperties
<1>6. DOMAIN Append(events, e) = 1..(Len(events) + 1)
  BY <1>4, LenProperties
<1> QED
  BY <1>1, <1>3, <1>4, <1>5, <1>6

LEMMA StepFacts ==
  ASSUME MetricsTypeOK, NEW i \in DOMAIN events, NEW e \in DayEvents, Step(i, e)
  PROVE  /\ events' \in Seq(DayEvents)
         /\ DOMAIN events' = DOMAIN events
         /\ events'[i] = e
         /\ \A j \in DOMAIN events : j # i => events'[j] = events[j]
<1>1. events \in Seq(DayEvents)
  BY DEF MetricsTypeOK
<1>2. Len(events) \in Nat /\ DOMAIN events = 1..Len(events)
  BY <1>1, LenProperties
<1>3. /\ events' \in Seq(DayEvents) /\ Len(events') = Len(events)
      /\ \A j \in 1..Len(events) : events'[j] = IF j = i THEN e ELSE events[j]
  BY <1>1, <1>2, ExceptSeq DEF Step
<1>4. DOMAIN events' = 1..Len(events')
  BY <1>3, LenProperties
<1> QED
  BY <1>2, <1>3, <1>4

\* A handler is done: what is left are the other ones, each in one place.
LEMMA CommitFacts ==
  ASSUME MetricsTypeOK, NEW i \in DOMAIN events, events' = RemoveAt(events, i)
  PROVE  /\ events' \in Seq(DayEvents)
         /\ \A j \in DOMAIN events' : LET k == IF j < i THEN j ELSE j + 1
                                      IN k \in DOMAIN events \ {i}
                                         /\ events'[j] = events[k]
         /\ \A k \in DOMAIN events \ {i} :
              \E j \in DOMAIN events' : events'[j] = events[k]
         /\ DOMAIN events' \subseteq Nat /\ i \in Nat
<1>1. events \in Seq(DayEvents)
  BY DEF MetricsTypeOK
<1>2. Len(events) \in Nat /\ DOMAIN events = 1..Len(events)
  BY <1>1, LenProperties
<1>3. /\ events' \in Seq(DayEvents)
      /\ DOMAIN events' = 1..(Len(events) - 1)
      /\ \A j \in 1..(Len(events) - 1) :
           events'[j] = IF j < i THEN events[j] ELSE events[j + 1]
  BY <1>1, RemoveAtFacts
<1>4. ASSUME NEW k \in DOMAIN events \ {i}
      PROVE  \E j \in DOMAIN events' : events'[j] = events[k]
  <2>1. CASE k < i
    <3>1. k \in DOMAIN events' /\ events'[k] = events[k]
      BY <1>2, <1>3, <2>1
    <3> QED
      BY <3>1
  <2>2. CASE k > i
    <3>1. /\ k - 1 \in DOMAIN events' /\ ~(k - 1 < i) /\ (k - 1) + 1 = k
      BY <1>2, <1>3, <2>2
    <3>2. events'[k - 1] = events[k]
      BY <1>3, <3>1
    <3> QED
      BY <3>1, <3>2
  <2> QED
    BY <1>2, <2>1, <2>2
<1> QED
  BY <1>2, <1>3, <1>4

LEMMA SeenPairs ==
  ASSUME MetricsTypeOK
  PROVE  /\ \A d \in Days : \A c \in rows[d] : c[1] \in Appointments
         /\ \A i \in DOMAIN events : /\ events[i] \in DayEvents
                                     /\ events[i].day \in Days
                                     /\ \A c \in events[i].read : c[1] \in Appointments
<1>1. \A c \in Seen : c[1] \in Appointments
  BY DEF Seen
<1>2. \A i \in DOMAIN events : events[i] \in DayEvents
  BY LenProperties DEF MetricsTypeOK
<1>3. \A e \in DayEvents : e.day \in Days /\ e.read \subseteq Seen
  BY DEF DayEvents
<1>4. \A d \in Days : rows[d] \subseteq Seen
  BY DEF MetricsTypeOK
<1> QED
  BY <1>1, <1>2, <1>3, <1>4

LEMMA ChangeFacts ==
  ASSUME MetricsTypeOK, NEW a \in Appointments, NEW st \in Statuses,
         NEW d \in Days, Change(a, st, d)
  PROVE  /\ appointment' \in [Appointments -> [status : Statuses \cup {"absent"},
                                              day : Days \cup {NoDay}]]
         /\ appointment'[a] = [status |-> st, day |-> d]
         /\ \A x \in Appointments : x # a => appointment'[x] = appointment[x]
         /\ rows' = rows /\ overlapped' = overlapped
BY DEF MetricsTypeOK, Change

\* The API changes an appointment; it publishes an event of the day the
\* appointment is on, or it changes nothing that a row counts, or the
\* appointment counts as reopened.
LEMMA ApiKeeps ==
  ASSUME RowsOK, NEW a \in Appointments, NEW st \in Statuses, NEW d \in Days,
         Change(a, st, d),
         \/ Publish(d)
         \/ /\ UNCHANGED events /\ d = appointment[a].day
            /\ st = appointment[a].status \/ a \in reopened',
         departed \subseteq departed', reopened \subseteq reopened',
         \/ d = appointment[a].day \/ ~Exists(a)
         \/ <<a, appointment[a].day>> \in departed'
  PROVE  RowsOK'
<1>1. MetricsTypeOK /\ NamesOK /\ OneHandler /\ CountsOK
  BY DEF RowsOK
<1>2. /\ appointment' \in [Appointments -> [status : Statuses \cup {"absent"},
                                            day : Days \cup {NoDay}]]
      /\ appointment'[a] = [status |-> st, day |-> d]
      /\ \A x \in Appointments : x # a => appointment'[x] = appointment[x]
      /\ rows' = rows /\ overlapped' = overlapped
  BY <1>1, ChangeFacts
<1>3. /\ events' \in Seq(DayEvents)
      /\ \A i \in DOMAIN events : i \in DOMAIN events' /\ events'[i] = events[i]
      /\ \A i \in DOMAIN events' :
           \/ i \in DOMAIN events
           \/ events'[i].step = "waiting" /\ events'[i].day = d /\ events'[i].read = {}
      /\ Publish(d) => \E i \in DOMAIN events' : /\ events'[i].step = "waiting"
                                                 /\ events'[i].day = d
      /\ ~Publish(d) => events' = events
  <2>1. CASE Publish(d)
    <3>1. PICK n : n = Len(events) + 1
      OBVIOUS
    <3>2. /\ events' \in Seq(DayEvents)
          /\ DOMAIN events' = DOMAIN events \cup {n}
          /\ \A i \in DOMAIN events : events'[i] = events[i]
          /\ events'[n] = [day |-> d, step |-> "waiting", read |-> {}]
      BY <1>1, <2>1, <3>1, PublishFacts
    <3>3. /\ n \in DOMAIN events' /\ events'[n].step = "waiting"
          /\ events'[n].day = d /\ events'[n].read = {}
      BY <3>2
    <3> QED
      BY <2>1, <3>2, <3>3
  <2>2. CASE UNCHANGED events /\ ~Publish(d)
    BY <1>1, <2>2 DEF MetricsTypeOK
  <2> QED
    BY <2>1, <2>2
<1>4. NoDay \notin Days
  BY DaysAssumption DEF NoDay
<1>5. MetricsTypeOK'
  <2>1. ASSUME NEW x \in Appointments, appointment'[x] # Absent
        PROVE  appointment'[x].day \in Days
    BY <1>1, <1>2, <2>1 DEF MetricsTypeOK, Exists
  <2> QED
    BY <1>1, <1>2, <1>3, <2>1 DEF MetricsTypeOK, Exists
\* Who was on a day is there yet, or has left it.
<1>6. ASSUME NEW x \in Appointments, NEW dd \in Days,
             appointment[x].day = dd \/ <<x, dd>> \in departed
      PROVE  appointment'[x].day = dd \/ <<x, dd>> \in departed'
  <2>1. CASE x = a /\ appointment[a].day = dd
    <3>1. Exists(a)
      BY <1>4, <2>1 DEF Exists, Absent
    <3> QED
      BY <1>2, <2>1, <3>1
  <2>2. CASE x # a /\ appointment[x].day = dd
    BY <1>2, <2>2
  <2> QED
    BY <1>6, <2>1, <2>2
<1>7. NamesOK'
  <2>1. ASSUME NEW dd \in Days, NEW c \in rows[dd]
        PROVE  appointment'[c[1]].day = dd \/ <<c[1], dd>> \in departed'
    <3>1. c[1] \in Appointments
      BY <1>1, SeenPairs
    <3>2. appointment[c[1]].day = dd \/ <<c[1], dd>> \in departed
      BY <1>1 DEF NamesOK, Named, IsOn
    <3> QED
      BY <1>6, <3>1, <3>2
  <2>2. ASSUME NEW i \in DOMAIN events, NEW c \in events[i].read
        PROVE  \/ appointment'[c[1]].day = events[i].day
               \/ <<c[1], events[i].day>> \in departed'
    <3>1. c[1] \in Appointments /\ events[i].day \in Days
      BY <1>1, SeenPairs
    <3>2. \/ appointment[c[1]].day = events[i].day
          \/ <<c[1], events[i].day>> \in departed
      BY <1>1 DEF NamesOK, Named, IsOn
    <3> QED
      BY <1>6, <3>1, <3>2
  <2>3. ASSUME NEW i \in DOMAIN events', NEW c \in events'[i].read
        PROVE  \/ appointment'[c[1]].day = events'[i].day
               \/ <<c[1], events'[i].day>> \in departed'
    BY <1>3, <2>2
  <2> QED
    BY <1>2, <2>1, <2>3 DEF NamesOK, Named, IsOn
<1>8. OneHandler'
  <2>1. ASSUME NEW i \in DOMAIN events', events'[i].step \in {"read", "wrote"}
        PROVE  i \in DOMAIN events /\ events'[i] = events[i]
    BY <1>3, <2>1
  <2> QED
    BY <1>1, <1>2, <2>1 DEF OneHandler, Working
<1>9. CountsOK'
  <2>1. SUFFICES ASSUME NEW dd \in Days \ overlapped, NEW x \in Appointments \ reopened',
                        appointment'[x].day = dd
                 PROVE  CountedFor(x, dd)'
    BY <1>2 DEF CountsOK, IsOn
  <2>2. CASE Publish(d) /\ dd = d
    BY <1>3, <2>2 DEF CountedFor
  <2>3. CASE ~(Publish(d) /\ dd = d)
    <3>1. appointment'[x].status = appointment[x].status /\ appointment[x].day = dd
      <4>1. CASE x = a
        <5>1. appointment'[a].day = d /\ appointment'[a].status = st
          BY <1>2
        <5>2. ~Publish(d)
          BY <2>1, <2>3, <4>1, <5>1
        <5> QED
          BY <2>1, <4>1, <5>1, <5>2
      <4>2. CASE x # a
        BY <1>2, <2>1, <4>2
      <4> QED
        BY <4>1, <4>2
    <3>2. CountedFor(x, dd)
      BY <1>1, <3>1 DEF CountsOK, IsOn
    <3>3. CASE \E i \in DOMAIN events : events[i].step = "waiting" /\ events[i].day = dd
      BY <1>3, <3>3 DEF CountedFor
    <3>4. CASE \E i \in DOMAIN events : /\ Working(i) /\ events[i].day = dd
                              /\ Counts(events[i].read, x, appointment[x].status)
      <4>1. PICK i \in DOMAIN events : /\ Working(i) /\ events[i].day = dd
                              /\ Counts(events[i].read, x, appointment[x].status)
        BY <3>4
      <4>2. i \in DOMAIN events' /\ events'[i] = events[i]
        BY <1>3
      <4>3. Working(i)' /\ Counts(events'[i].read, x, appointment'[x].status)
        BY <3>1, <4>1, <4>2 DEF Working
      <4> QED
        BY <4>1, <4>2, <4>3 DEF CountedFor
    <3>5. CASE /\ \A i \in DOMAIN events : events[i].day # dd
               /\ Counts(rows[dd], x, appointment[x].status)
      <4>1. \A i \in DOMAIN events' : events'[i].day # dd
        BY <1>3, <2>3, <3>5
      <4>2. Counts(rows'[dd], x, appointment'[x].status)
        BY <1>2, <3>1, <3>5
      <4> QED
        BY <4>1, <4>2 DEF CountedFor
    <3> QED
      BY <3>2, <3>3, <3>4, <3>5 DEF CountedFor
  <2> QED
    BY <2>2, <2>3
<1> QED
  BY <1>5, <1>7, <1>8, <1>9 DEF RowsOK

\* The API or the worker books, or the API changes an appointment.
LEMMA ApiStep ==
  ASSUME RowsOK,
         \/ \E a \in Appointments, d \in Days :
              Book(a, d) \/ BookRecurring(a, d) \/ Reschedule(a, d)
         \/ \E a \in Appointments : Cancel(a)
         \/ \E a \in Appointments, s \in Statuses : SetStatus(a, s)
  PROVE  RowsOK'
<1>0. /\ "active" \in Statuses /\ "cancelled" \in Statuses
      /\ Absent.status = "absent" /\ "absent" # "active"
  BY DEF Statuses, Absent
<1>1. ASSUME NEW a \in Appointments, Exists(a)
      PROVE  appointment[a].day \in Days
  BY <1>1 DEF RowsOK, MetricsTypeOK
<1>2. ASSUME NEW a \in Appointments, appointment[a].status = "active"
      PROVE  Exists(a)
  BY <1>0, <1>2 DEF Exists
<1>3. ASSUME NEW a \in Appointments, NEW d \in Days,
             Book(a, d) \/ BookRecurring(a, d)
      PROVE  RowsOK'
  <2>1. New(a, d)
    BY <1>3 DEF Book, BookRecurring
  <2> QED
    BY <1>0, <2>1, ApiKeeps DEF New
<1>4. ASSUME NEW a \in Appointments, NEW d \in Days, Reschedule(a, d)
      PROVE  RowsOK'
  BY <1>0, <1>4, ApiKeeps DEF Reschedule
<1>5. ASSUME NEW a \in Appointments, Cancel(a)
      PROVE  RowsOK'
  <2>1. appointment[a].day \in Days
    BY <1>1, <1>2, <1>5 DEF Cancel
  <2> QED
    BY <1>0, <1>5, <2>1, ApiKeeps DEF Cancel
<1>6. ASSUME NEW a \in Appointments, NEW s \in Statuses, SetStatus(a, s)
      PROVE  RowsOK'
  <2>1. appointment[a].day \in Days
    BY <1>1, <1>6 DEF SetStatus
  <2>2. CASE s = "active"
    <3>1. UNCHANGED events /\ reopened \subseteq reopened'
      BY <1>6, <2>2 DEF SetStatus
    <3>2. s = appointment[a].status \/ a \in reopened'
      BY <1>6, <2>2 DEF SetStatus
    <3> QED
      BY <1>6, <2>1, <3>1, <3>2, ApiKeeps DEF SetStatus
  <2>3. CASE s # "active"
    BY <1>6, <2>1, <2>3, ApiKeeps DEF SetStatus
  <2> QED
    BY <2>2, <2>3
<1> QED
  BY <1>3, <1>4, <1>5, <1>6

\* A handler goes on: its event becomes e, and the others stay.
LEMMA ReadDayKeeps ==
  ASSUME RowsOK, NEW i \in DOMAIN events, ReadDay(i)
  PROVE  RowsOK'
<1>0. MetricsTypeOK /\ NamesOK /\ OneHandler /\ CountsOK
  BY DEF RowsOK
<1>1. PICK d : d = events[i].day
  OBVIOUS
<1>2. events[i] \in DayEvents /\ d \in Days
  BY <1>0, <1>1, SeenPairs
<1>3. PICK e : e = [events[i] EXCEPT !.step = "read", !.read = CountedOn(d)]
  OBVIOUS
<1>4. CountedOn(d) \subseteq Seen
  BY <1>0 DEF CountedOn, Seen, MetricsTypeOK
<1>5. e \in DayEvents /\ e.step = "read" /\ e.day = d /\ e.read = CountedOn(d)
  BY <1>1, <1>2, <1>3, <1>4 DEF DayEvents
<1>6. Step(i, e) /\ UNCHANGED <<appointment, rows, departed, reopened>>
  BY <1>1, <1>3 DEF ReadDay
<1>7. /\ events' \in Seq(DayEvents) /\ DOMAIN events' = DOMAIN events
      /\ events'[i] = e
      /\ \A j \in DOMAIN events : j # i => events'[j] = events[j]
  BY <1>0, <1>5, <1>6, StepFacts
<1>8. /\ overlapped \subseteq overlapped'
      /\ \A j \in DOMAIN events :
           events[j].step \in {"read", "wrote"} /\ events[j].day = d => d \in overlapped'
  BY <1>1 DEF ReadDay
<1>9. MetricsTypeOK'
  BY <1>0, <1>6, <1>7 DEF MetricsTypeOK, Exists
<1>10. \A c \in CountedOn(d) : IsOn(c[1], d)
  BY DEF CountedOn
<1>11. NamesOK'
  <2>1. ASSUME NEW j \in DOMAIN events', NEW c \in events'[j].read
        PROVE  IsOn(c[1], events'[j].day) \/ <<c[1], events'[j].day>> \in departed
    BY <1>0, <1>5, <1>7, <1>10 DEF NamesOK, Named
  <2> QED
    BY <1>0, <1>6, <2>1 DEF NamesOK, Named, IsOn
<1>12. OneHandler'
  <2>1. SUFFICES ASSUME NEW j \in DOMAIN events, NEW k \in DOMAIN events,
                        events'[j].step \in {"read", "wrote"},
                        events'[k].step \in {"read", "wrote"},
                        events'[j].day = events'[k].day,
                        events'[j].day \notin overlapped', j # k
                 PROVE  FALSE
    BY <1>7 DEF OneHandler, Working
  <2>2. CASE j # i /\ k # i
    BY <1>0, <1>7, <1>8, <2>1, <2>2 DEF OneHandler, Working
  <2>3. CASE j = i
    BY <1>5, <1>7, <1>8, <2>1, <2>3
  <2>4. CASE k = i
    BY <1>5, <1>7, <1>8, <2>1, <2>4
  <2> QED
    BY <2>2, <2>3, <2>4
<1>13. CountsOK'
  <2>1. SUFFICES ASSUME NEW dd \in Days \ overlapped, NEW x \in Appointments \ reopened,
                        IsOn(x, dd)
                 PROVE  CountedFor(x, dd)'
    BY <1>6, <1>8 DEF CountsOK, IsOn
  <2>2. CASE dd = d
    <3>1. Counts(CountedOn(d), x, appointment[x].status)
      <4>1. PICK c : c = <<x, appointment[x].status>>
        OBVIOUS
      <4>2. c \in CountedOn(d) /\ c[1] = x /\ c[2] = appointment[x].status
        BY <2>1, <2>2, <4>1 DEF CountedOn
      <4>3. \A q \in CountedOn(d) : q[1] = x => q[2] = appointment[x].status
        BY DEF CountedOn
      <4> QED
        BY <4>2, <4>3 DEF Counts
    <3>2. i \in DOMAIN events' /\ Working(i)' /\ events'[i].day = d
      BY <1>5, <1>7 DEF Working
    <3>3. Counts(events'[i].read, x, appointment'[x].status)
      BY <1>5, <1>6, <1>7, <3>1
    <3> QED
      BY <2>2, <3>2, <3>3 DEF CountedFor
  <2>3. CASE dd # d
    <3>1. CountedFor(x, dd)
      BY <1>0, <2>1 DEF CountsOK
    <3>2. \A j \in DOMAIN events : events[j].day = dd => events'[j] = events[j]
      BY <1>1, <1>7, <2>3
    <3>3. \A j \in DOMAIN events' : events'[j].day = dd => events[j].day = dd
      BY <1>5, <1>7, <2>3
    <3>4. \A j \in DOMAIN events : events[j].day = dd => (Working(j)' <=> Working(j))
      BY <3>2 DEF Working
    <3> QED
      BY <1>6, <1>7, <3>1, <3>2, <3>3, <3>4 DEF CountedFor, Counts
  <2> QED
    BY <2>2, <2>3
<1> QED
  BY <1>9, <1>11, <1>12, <1>13 DEF RowsOK

\* A handler writes, or starts again: what it read is what it had read, or
\* its event waits.
LEMMA HandlerKeeps ==
  ASSUME RowsOK, NEW i \in DOMAIN events, WriteDay(i) \/ AbortDay(i)
  PROVE  RowsOK'
<1>0. MetricsTypeOK /\ NamesOK /\ OneHandler /\ CountsOK
  BY DEF RowsOK
<1>1. PICK d : d = events[i].day
  OBVIOUS
<1>2. events[i] \in DayEvents /\ d \in Days
  BY <1>0, <1>1, SeenPairs
<1>3. PICK e1 : e1 = [events[i] EXCEPT !.step = "wrote"]
  OBVIOUS
<1>4. PICK e2 : e2 = Event(d)
  OBVIOUS
<1>5. /\ e1 \in DayEvents /\ e1.step = "wrote" /\ e1.day = d
      /\ e1.read = events[i].read
      /\ e2 \in DayEvents /\ e2.step = "waiting" /\ e2.day = d /\ e2.read = {}
  BY <1>1, <1>2, <1>3, <1>4 DEF DayEvents, Event
<1>6. PICK e \in {e1, e2} : Step(i, e)
  BY <1>1, <1>3, <1>4 DEF WriteDay, AbortDay
<1>7. /\ events' \in Seq(DayEvents) /\ DOMAIN events' = DOMAIN events
      /\ events'[i] = e
      /\ \A j \in DOMAIN events : j # i => events'[j] = events[j]
  BY <1>0, <1>5, <1>6, StepFacts
<1>8. /\ UNCHANGED <<appointment, rows, overlapped, departed, reopened>>
      /\ Working(i)
  BY DEF WriteDay, AbortDay, Working
<1>9. MetricsTypeOK'
  BY <1>0, <1>7, <1>8 DEF MetricsTypeOK, Exists
<1>10. /\ e.day = d
       /\ \/ e.step = "waiting" /\ e.read = {}
          \/ e.step \in {"read", "wrote"} /\ e.read = events[i].read
  BY <1>5, <1>6
<1>11. NamesOK'
  <2>1. ASSUME NEW j \in DOMAIN events', NEW c \in events'[j].read
        PROVE  IsOn(c[1], events'[j].day) \/ <<c[1], events'[j].day>> \in departed
    BY <1>0, <1>1, <1>7, <1>10 DEF NamesOK, Named
  <2> QED
    BY <1>0, <1>8, <2>1 DEF NamesOK, Named, IsOn
<1>12. OneHandler'
  <2>1. \A j \in DOMAIN events : /\ events'[j].day = events[j].day
                                 /\ events'[j].step \in {"read", "wrote"} => Working(j)
    BY <1>1, <1>7, <1>8, <1>10 DEF Working
  <2> QED
    BY <1>0, <1>7, <1>8, <2>1 DEF OneHandler, Working
<1>13. CountsOK'
  <2>1. SUFFICES ASSUME NEW dd \in Days \ overlapped, NEW x \in Appointments \ reopened,
                        IsOn(x, dd)
                 PROVE  CountedFor(x, dd)'
    BY <1>8 DEF CountsOK, IsOn
  <2>2. CountedFor(x, dd)
    BY <1>0, <2>1 DEF CountsOK
  <2>3. CASE \E j \in DOMAIN events : events[j].step = "waiting" /\ events[j].day = dd
    <3>1. PICK j \in DOMAIN events : events[j].step = "waiting" /\ events[j].day = dd
      BY <2>3
    <3>2. j # i
      BY <1>8, <3>1 DEF Working
    <3> QED
      BY <1>7, <3>1, <3>2 DEF CountedFor
  <2>4. CASE \E j \in DOMAIN events : /\ Working(j) /\ events[j].day = dd
                              /\ Counts(events[j].read, x, appointment[x].status)
    <3>1. PICK j \in DOMAIN events : /\ Working(j) /\ events[j].day = dd
                              /\ Counts(events[j].read, x, appointment[x].status)
      BY <2>4
    <3>2. events'[j].day = dd /\ \/ events'[j].step = "waiting"
                                 \/ /\ events'[j].step \in {"read", "wrote"}
                                    /\ events'[j].read = events[j].read
      BY <1>1, <1>7, <1>10, <3>1 DEF Working
    <3>3. CASE events'[j].step = "waiting"
      BY <1>7, <3>2, <3>3 DEF CountedFor
    <3>4. CASE /\ events'[j].step \in {"read", "wrote"}
               /\ events'[j].read = events[j].read
      <4>1. Working(j)' /\ Counts(events'[j].read, x, appointment'[x].status)
        BY <1>8, <3>1, <3>4 DEF Working
      <4> QED
        BY <1>7, <3>2, <4>1 DEF CountedFor
    <3> QED
      BY <3>2, <3>3, <3>4
  <2>5. CASE /\ \A j \in DOMAIN events : events[j].day # dd
             /\ Counts(rows[dd], x, appointment[x].status)
    <3>1. \A j \in DOMAIN events' : events'[j].day # dd
      BY <1>1, <1>7, <1>10, <2>5
    <3>2. Counts(rows'[dd], x, appointment'[x].status)
      BY <1>8, <2>5
    <3> QED
      BY <3>1, <3>2 DEF CountedFor
  <2> QED
    BY <2>2, <2>3, <2>4, <2>5 DEF CountedFor
<1> QED
  BY <1>9, <1>11, <1>12, <1>13 DEF RowsOK

\* A handler commits: unless the day has overlapped it was the only one, so
\* what it read is what the row is to count.
LEMMA CommitDayKeeps ==
  ASSUME RowsOK, NEW i \in DOMAIN events, CommitDay(i)
  PROVE  RowsOK'
<1>0. MetricsTypeOK /\ NamesOK /\ OneHandler /\ CountsOK
  BY DEF RowsOK
<1>1. PICK d, read : d = events[i].day /\ read = events[i].read
  OBVIOUS
<1>2. events[i] \in DayEvents /\ d \in Days /\ read \subseteq Seen
  BY <1>0, <1>1, SeenPairs DEF DayEvents
<1>3. /\ events' = RemoveAt(events, i)
      /\ rows' = [rows EXCEPT ![d] = Replaced(d, read)]
      /\ UNCHANGED <<appointment, overlapped, departed, reopened>>
      /\ Working(i)
  BY <1>1 DEF CommitDay, Working
<1>4. /\ events' \in Seq(DayEvents)
      /\ \A j \in DOMAIN events' : \E k \in DOMAIN events \ {i} : events'[j] = events[k]
      /\ \A k \in DOMAIN events \ {i} :
           \E j \in DOMAIN events' : events'[j] = events[k]
      /\ \A j, h \in DOMAIN events' : j # h =>
           \E k, m \in DOMAIN events \ {i} :
             k # m /\ events'[j] = events[k] /\ events'[h] = events[m]
  <2>1. /\ events' \in Seq(DayEvents)
        /\ \A j \in DOMAIN events' :
             LET k == IF j < i THEN j ELSE j + 1
             IN k \in DOMAIN events \ {i} /\ events'[j] = events[k]
        /\ \A k \in DOMAIN events \ {i} :
             \E j \in DOMAIN events' : events'[j] = events[k]
        /\ DOMAIN events' \subseteq Nat /\ i \in Nat
    BY <1>0, <1>3, CommitFacts
  <2>2. ASSUME NEW j \in DOMAIN events'
        PROVE  \E k \in DOMAIN events \ {i} : /\ events'[j] = events[k]
                                              /\ k = IF j < i THEN j ELSE j + 1
    BY <2>1
  <2>3. ASSUME NEW j \in DOMAIN events', NEW h \in DOMAIN events', j # h
        PROVE  \E k, m \in DOMAIN events \ {i} :
                 k # m /\ events'[j] = events[k] /\ events'[h] = events[m]
    <3>1. PICK k \in DOMAIN events \ {i} : /\ events'[j] = events[k]
                                           /\ k = IF j < i THEN j ELSE j + 1
      BY <2>2
    <3>2. PICK m \in DOMAIN events \ {i} : /\ events'[h] = events[m]
                                           /\ m = IF h < i THEN h ELSE h + 1
      BY <2>2
    <3>3. j \in Nat /\ h \in Nat /\ i \in Nat
      BY <2>1
    <3>4. k # m
      BY <2>3, <3>1, <3>2, <3>3
    <3> QED
      BY <3>1, <3>2, <3>4
  <2> QED
    BY <2>1, <2>2, <2>3
<1>5. /\ rows' \in [Days -> SUBSET Seen]
      /\ rows'[d] = IF read = {} THEN rows[d] ELSE read
      /\ \A dd \in Days : dd # d => rows'[dd] = rows[dd]
  <2>1. PICK r : r = Replaced(d, read)
    OBVIOUS
  <2>2. r = (IF read = {} THEN rows[d] ELSE read) /\ r \subseteq Seen
    BY <1>0, <1>2, <2>1 DEF Replaced, MetricsTypeOK
  <2> QED
    BY <1>0, <1>2, <1>3, <2>1, <2>2 DEF MetricsTypeOK
<1>6. MetricsTypeOK'
  BY <1>0, <1>3, <1>4, <1>5 DEF MetricsTypeOK, Exists
<1>7. NamesOK'
  <2>1. ASSUME NEW dd \in Days, NEW c \in rows'[dd]
        PROVE  IsOn(c[1], dd) \/ <<c[1], dd>> \in departed
    BY <1>0, <1>1, <1>5 DEF NamesOK, Named
  <2>2. ASSUME NEW j \in DOMAIN events', NEW c \in events'[j].read
        PROVE  IsOn(c[1], events'[j].day) \/ <<c[1], events'[j].day>> \in departed
    BY <1>0, <1>4 DEF NamesOK, Named
  <2> QED
    BY <1>3, <2>1, <2>2 DEF NamesOK, Named, IsOn
<1>8. OneHandler'
  <2>1. ASSUME NEW j \in DOMAIN events', NEW h \in DOMAIN events',
               events'[j].step \in {"read", "wrote"},
               events'[h].step \in {"read", "wrote"},
               events'[j].day = events'[h].day,
               events'[j].day \notin overlapped, j # h
        PROVE  FALSE
    <3>1. PICK k \in DOMAIN events \ {i}, m \in DOMAIN events \ {i} :
            k # m /\ events'[j] = events[k] /\ events'[h] = events[m]
      BY <1>4, <2>1
    <3> QED
      BY <1>0, <2>1, <3>1 DEF OneHandler, Working
  <2> QED
    BY <1>3, <2>1 DEF OneHandler, Working
<1>9. CountsOK'
  <2>1. SUFFICES ASSUME NEW dd \in Days \ overlapped, NEW x \in Appointments \ reopened,
                        IsOn(x, dd)
                 PROVE  CountedFor(x, dd)'
    BY <1>3 DEF CountsOK, IsOn
  <2>2. CountedFor(x, dd)
    BY <1>0, <2>1 DEF CountsOK
  <2>3. ASSUME NEW k \in DOMAIN events \ {i}
        PROVE  \E j \in DOMAIN events' : events'[j] = events[k]
    BY <1>4
  <2>4. CASE \E k \in DOMAIN events : events[k].step = "waiting" /\ events[k].day = dd
    <3>1. PICK k \in DOMAIN events : events[k].step = "waiting" /\ events[k].day = dd
      BY <2>4
    <3>2. k # i
      BY <1>3, <3>1 DEF Working
    <3> QED
      BY <2>3, <3>1, <3>2 DEF CountedFor
  <2>5. CASE /\ ~\E k \in DOMAIN events : events[k].step = "waiting" /\ events[k].day = dd
             /\ \E k \in DOMAIN events : /\ Working(k) /\ events[k].day = dd
                              /\ Counts(events[k].read, x, appointment[x].status)
    <3>1. PICK k \in DOMAIN events : /\ Working(k) /\ events[k].day = dd
                              /\ Counts(events[k].read, x, appointment[x].status)
      BY <2>5
    <3>2. CASE k # i
      <4>1. PICK j \in DOMAIN events' : events'[j] = events[k]
        BY <2>3, <3>2
      <4>2. Working(j)' /\ Counts(events'[j].read, x, appointment'[x].status)
        BY <1>3, <3>1, <4>1 DEF Working
      <4> QED
        BY <3>1, <4>1, <4>2 DEF CountedFor
    <3>3. CASE k = i
      <4>1. dd = d /\ Counts(read, x, appointment[x].status)
        BY <1>1, <3>1, <3>3
      <4>2. Counts(rows'[dd], x, appointment'[x].status)
        <5>1. read # {}
          BY <4>1 DEF Counts
        <5> QED
          BY <1>3, <1>5, <4>1, <5>1
      <4>3. \A m \in DOMAIN events \ {i} : events[m].day # dd
        <5>1. ASSUME NEW m \in DOMAIN events \ {i}, events[m].day = dd
              PROVE  FALSE
          <6>1. events[m] \in DayEvents
            BY <1>0, SeenPairs
          <6>2. Working(m)
            BY <2>5, <5>1, <6>1 DEF DayEvents, Working
          <6> QED
            BY <1>0, <3>1, <3>3, <5>1, <6>2 DEF OneHandler
        <5> QED
          BY <5>1
      <4>4. \A j \in DOMAIN events' : events'[j].day # dd
        BY <1>4, <4>3
      <4> QED
        BY <4>2, <4>4 DEF CountedFor
    <3> QED
      BY <3>2, <3>3
  <2>6. CASE /\ \A k \in DOMAIN events : events[k].day # dd
             /\ Counts(rows[dd], x, appointment[x].status)
    <3>1. dd # d /\ \A j \in DOMAIN events' : events'[j].day # dd
      BY <1>1, <1>4, <2>6
    <3>2. Counts(rows'[dd], x, appointment'[x].status)
      BY <1>3, <1>5, <2>6, <3>1
    <3> QED
      BY <3>1, <3>2 DEF CountedFor
  <2> QED
    BY <2>2, <2>4, <2>5, <2>6 DEF CountedFor
<1> QED
  BY <1>6, <1>7, <1>8, <1>9 DEF RowsOK

LEMMA RowsInit ==
  ASSUME MetricsInit
  PROVE  RowsOK
<1>1. /\ appointment = [a \in Appointments |-> Absent] /\ events = <<>>
      /\ rows = [d \in Days |-> {}]
  BY DEF MetricsInit
<1>2. Absent \in [status : Statuses \cup {"absent"}, day : Days \cup {NoDay}]
  BY DEF Absent
<1>3. MetricsTypeOK
  BY <1>1, <1>2 DEF MetricsTypeOK, Exists
<1>4. DOMAIN events = {}
  BY <1>1
<1>5. \A a \in Appointments, d \in Days : ~IsOn(a, d)
  BY <1>1, DaysAssumption DEF IsOn, Absent, NoDay
<1> QED
  BY <1>1, <1>3, <1>4, <1>5 DEF RowsOK, NamesOK, Named, OneHandler, CountsOK

LEMMA RowsStep ==
  ASSUME RowsOK, [MetricsNext]_metricsVars
  PROVE  RowsOK'
<1>1. CASE UNCHANGED metricsVars
  BY <1>1 DEF metricsVars, RowsOK, MetricsTypeOK, Exists, NamesOK, Named, IsOn,
     OneHandler, Working, CountsOK, CountedFor
<1>2. CASE MetricsNext
  BY <1>2, ApiStep, ReadDayKeeps, HandlerKeeps, CommitDayKeeps DEF MetricsNext
<1> QED
  BY <1>1, <1>2

LEMMA RowsTell ==
  ASSUME RowsOK
  PROVE  RowsAreRight
<1>0. MetricsTypeOK /\ NamesOK /\ CountsOK
  BY DEF RowsOK
<1>1. SUFFICES ASSUME AtRest, NEW d \in Days \ overlapped,
                      NEW a \in Appointments \ reopened
               PROVE  LET counted == {c[2] : c \in {x \in rows[d] : x[1] = a}} IN
                      IF IsOn(a, d) THEN counted = {appointment[a].status}
                      ELSE counted = {} \/ <<a, d>> \in departed
  BY DEF RowsAreRight
<1>2. CASE IsOn(a, d)
  <2>1. DOMAIN events = {}
    BY <1>1 DEF AtRest
  <2>2. Counts(rows[d], a, appointment[a].status)
    BY <1>0, <1>2, <2>1 DEF CountsOK, CountedFor
  <2> QED
    BY <1>2, <2>2 DEF Counts
<1>3. CASE ~IsOn(a, d)
  <2>1. ASSUME NEW c \in rows[d], c[1] = a
        PROVE  <<a, d>> \in departed
    BY <1>0, <1>3, <2>1 DEF NamesOK, Named
  <2> QED
    BY <1>3, <2>1
<1> QED
  BY <1>2, <1>3

\* Once every event is handled, the row of a day counts each of its
\* appointments once, with the status it has, but on days whose handlers
\* overlapped and for appointments that were confirmed again.
THEOREM RowsCountTheDay == MetricsSpec => []RowsAreRight
<1>1. MetricsInit => RowsOK
  BY RowsInit
<1>2. RowsOK /\ [MetricsNext]_metricsVars => RowsOK'
  BY RowsStep
<1>3. RowsOK => RowsAreRight
  BY RowsTell
<1> QED
  BY <1>1, <1>2, <1>3, PTL DEF MetricsSpec
-----------------------------------------------------------------------------
(***************************************************************************)
(* Sums and numbers, for the panels of the dashboard.  SumFunction is a    *)
(* recursive function inside; what it adds up is given in closed form by   *)
(* the numbers of what each term counts.                                   *)
(***************************************************************************)
\* A set of finite sets that is not empty has a member none of whose proper
\* subsets are members.
LEMMA SmallestSetExists ==
  ASSUME NEW S, IsFiniteSet(S), NEW C, C \subseteq SUBSET S, C # {}
  PROVE  \E s \in C : \A x \in s : s \ {x} \notin C
<1> DEFINE sizes == {Cardinality(s) : s \in C}
<1>1. \A s \in C : IsFiniteSet(s) /\ Cardinality(s) \in Nat
  BY FS_Subset, FS_CardinalityType
<1>2. PICK e \in sizes : \A d \in sizes : e <= d
  <2>1. sizes \subseteq Nat /\ sizes # {}
    BY <1>1
  <2> HIDE DEF sizes
  <2> QED
    BY <2>1, FirstExists
<1>3. PICK s \in C : Cardinality(s) = e
  BY <1>2
<1>4. ASSUME NEW x \in s, s \ {x} \in C
      PROVE  FALSE
  <2>1. Cardinality(s \ {x}) = Cardinality(s) - 1
    BY <1>1, <1>3, FS_RemoveElement
  <2>2. e <= Cardinality(s \ {x})
    BY <1>2, <1>4
  <2> QED
    BY <1>1, <1>3, <1>4, <2>1, <2>2
<1> QED
  BY <1>3, <1>4

\* The sum of a function is what a function of the subsets says that adds up
\* in the same way.
LEMMA SumUnique ==
  ASSUME NEW S, IsFiniteSet(S), NEW f \in [S -> Nat],
         NEW g \in [SUBSET S -> Nat], g[{}] = 0,
         \A s \in SUBSET S : \A x \in s : g[s] = f[x] + g[s \ {x}]
  PROVE  SumFunction(f) = g[S]
<1> DEFINE Eq(h) == h = [s \in SUBSET S |->
             IF s = {} THEN 0
             ELSE LET x == CHOOSE y \in s : TRUE IN f[x] + h[s \ {x}]]
           k == CHOOSE h : Eq(h)
<1>1. Eq(g)
  <2>1. ASSUME NEW s \in SUBSET S
        PROVE  g[s] = IF s = {} THEN 0
             ELSE LET x == CHOOSE y \in s : TRUE IN f[x] + g[s \ {x}]
    <3>1. CASE s = {}
      BY <3>1
    <3>2. CASE s # {}
      <4>1. (CHOOSE y \in s : TRUE) \in s
        BY <3>2
      <4> QED
        BY <3>2, <4>1
    <3> QED
      BY <3>1, <3>2
  <2> DEFINE r == [s \in SUBSET S |-> 
             IF s = {} THEN 0
             ELSE LET x == CHOOSE y \in s : TRUE IN f[x] + g[s \ {x}]]
  <2>2. [s \in SUBSET S |-> g[s]] = r
    BY <2>1, Zenon
  <2> QED
    BY <2>2
<1>2. Eq(k)
  <2> HIDE DEF Eq
  <2> QED
    BY <1>1
<1>3. SumFunction(f) = k[S]
  <2>1. DOMAIN f = S
    OBVIOUS
  <2> QED
    BY <2>1
    DEF SumFunction, SumFunctionOnSet, FoldFunctionOnSet, MapThenFoldSet
<1> HIDE DEF k
<1>4. ASSUME NEW s \in SUBSET S, s # {}
      PROVE  \E x \in s : k[s] = f[x] + k[s \ {x}]
  <2> DEFINE x == CHOOSE y \in s : TRUE
  <2>1. x \in s
    BY <1>4
  <2>2. k = [t \in SUBSET S |->
             IF t = {} THEN 0
             ELSE LET z == CHOOSE y \in t : TRUE IN f[z] + k[t \ {z}]]
    BY <1>2, Zenon
  <2>3. k[s] = IF s = {} THEN 0
               ELSE LET z == CHOOSE y \in s : TRUE IN f[z] + k[s \ {z}]
    BY <2>2, Zenon
  <2>4. k[s] = f[x] + k[s \ {x}]
    BY <1>4, <2>3, Zenon
  <2> QED
    BY <2>1, <2>4, Zenon
<1>5. k[{}] = 0
  BY <1>2
<1> DEFINE C == {s \in SUBSET S : k[s] # g[s]}
<1>6. C = {}
  <2> SUFFICES ASSUME C # {}
               PROVE  FALSE
    OBVIOUS
  <2>1. PICK s \in C : \A x \in s : s \ {x} \notin C
    <3>1. C \subseteq SUBSET S
      OBVIOUS
    <3> HIDE DEF C
    <3> QED
      BY <3>1, SmallestSetExists
  <2>2. s # {}
    BY <1>5, <2>1
  <2>3. PICK x \in s : k[s] = f[x] + k[s \ {x}]
    BY <1>4, <2>1, <2>2
  <2>4. k[s \ {x}] = g[s \ {x}]
    BY <2>1
  <2> QED
    BY <2>1, <2>3, <2>4
<1> QED
  BY <1>3, <1>6

\* What G maps to x, and what it maps into s.
Fiber(A, G, x) == {a \in A : G[a] = x}
Into(A, G, s) == {a \in A : G[a] \in s}

LEMMA FiberIsFinite ==
  ASSUME NEW A, IsFiniteSet(A), NEW G, NEW x
  PROVE  /\ IsFiniteSet(Fiber(A, G, x)) /\ Cardinality(Fiber(A, G, x)) \in Nat
         /\ IsFiniteSet(Into(A, G, x)) /\ Cardinality(Into(A, G, x)) \in Nat
<1>1. Fiber(A, G, x) \in SUBSET A /\ Into(A, G, x) \in SUBSET A
  BY DEF Fiber, Into
<1> QED
  BY <1>1, FS_Subset, FS_CardinalityType

\* Counting what maps into a set: one member after the other.
LEMMA FiberAdds ==
  ASSUME NEW A, IsFiniteSet(A), NEW G, NEW s, NEW x \in s
  PROVE  /\ Cardinality(Into(A, G, s)) \in Nat
         /\ Cardinality(Fiber(A, G, x)) \in Nat
         /\ Cardinality(Into(A, G, s \ {x})) \in Nat
         /\ Cardinality(Into(A, G, s))
              = Cardinality(Fiber(A, G, x))
                  + Cardinality(Into(A, G, s \ {x}))
<1> DEFINE one == Fiber(A, G, x)
           rest == Into(A, G, s \ {x})
           all == Into(A, G, s)
<1>1. IsFiniteSet(one) /\ IsFiniteSet(rest) /\ IsFiniteSet(all)
  BY FiberIsFinite
<1>2. all = one \cup rest /\ one \cap rest = {}
  BY DEF Fiber, Into
<1> HIDE DEF one, rest, all
<1>3. /\ Cardinality(one) \in Nat /\ Cardinality(rest) \in Nat
      /\ Cardinality(all) \in Nat
  BY <1>1, FS_CardinalityType
<1>4. Cardinality(one \cup rest)
        = Cardinality(one) + Cardinality(rest) - Cardinality(one \cap rest)
  BY <1>1, FS_Union
<1>5. Cardinality(one \cap rest) = 0
  BY <1>2, FS_EmptySet
<1>6. Cardinality(all) = Cardinality(one) + Cardinality(rest)
  BY <1>2, <1>3, <1>4, <1>5
<1> QED
  BY <1>3, <1>6 DEF one, rest, all

\* A sum whose terms count the members of A that map to each index counts
\* those that map to any.
LEMMA SumCounts ==
  ASSUME NEW A, IsFiniteSet(A), NEW G,
         NEW S, IsFiniteSet(S), NEW f \in [S -> Nat],
         \A x \in S : f[x] = Cardinality(Fiber(A, G, x))
  PROVE  SumFunction(f) = Cardinality(Into(A, G, S))
<1> DEFINE g == [s \in SUBSET S |-> Cardinality(Into(A, G, s))]
<1>1. g \in [SUBSET S -> Nat]
  BY FiberIsFinite
<1>2. g[{}] = 0
  <2>1. Into(A, G, {}) = {}
    BY DEF Into
  <2>2. g[{}] = Cardinality(Into(A, G, {}))
    OBVIOUS
  <2> QED
    BY <2>1, <2>2, FS_EmptySet
<1>3. ASSUME NEW s \in SUBSET S, NEW x \in s
      PROVE  g[s] = f[x] + g[s \ {x}]
  <2>1. /\ g[s] = Cardinality(Into(A, G, s))
        /\ g[s \ {x}] = Cardinality(Into(A, G, s \ {x}))
        /\ f[x] = Cardinality(Fiber(A, G, x))
    OBVIOUS
  <2> HIDE DEF g
  <2> QED
    BY <2>1, FiberAdds
<1>4. g[S] = Cardinality(Into(A, G, S))
  OBVIOUS
<1> HIDE DEF g
<1>5. \A s \in SUBSET S : \A x \in s : g[s] = f[x] + g[s \ {x}]
  BY <1>3
<1>6. SumFunction(f) = g[S]
  BY <1>1, <1>2, <1>5, SumUnique
<1> QED
  BY <1>4, <1>6

\* Two finite sets of which one is the image of the other, without two of it
\* becoming one, have as many members.
LEMMA SameNumber ==
  ASSUME NEW S, IsFiniteSet(S), NEW T, NEW h \in [S -> T],
         T = {h[x] : x \in S}, \A x, y \in S : h[x] = h[y] => x = y
  PROVE  IsFiniteSet(T) /\ Cardinality(T) = Cardinality(S)
<1>1. h \in Bijection(S, T)
  BY DEF Bijection, Injection, Surjection, IsInjective
<1> QED
  BY <1>1, FS_Bijection DEF ExistsBijection

LEMMA FiniteImage ==
  ASSUME NEW S, IsFiniteSet(S), NEW T, NEW h \in [S -> T],
         T = {h[x] : x \in S}
  PROVE  IsFiniteSet(T)
<1>1. h \in Surjection(S, T)
  BY DEF Surjection
<1> QED
  BY <1>1, FS_Surjection
-----------------------------------------------------------------------------
(***************************************************************************)
(* The panels.                                                             *)
(***************************************************************************)
Settled == /\ RowsOK /\ AtRest
           /\ overlapped = {} /\ departed = {} /\ reopened = {}

LEMMA RowsAtRest ==
  ASSUME Settled, NEW d \in Days
  PROVE  rows[d] = CountedOn(d)
<1>1. DOMAIN events = {}
  BY DEF Settled, AtRest
<1>2. rows[d] \subseteq Seen
  BY DEF Settled, RowsOK, MetricsTypeOK
<1>3. ASSUME NEW c \in rows[d]
      PROVE  IsOn(c[1], d)
  BY <1>3 DEF Settled, RowsOK, NamesOK, Named
<1>4. ASSUME NEW a \in Appointments, IsOn(a, d)
      PROVE  Counts(rows[d], a, appointment[a].status)
  <2>1. CountedFor(a, d)
    BY <1>4 DEF Settled, RowsOK, CountsOK
  <2> QED
    BY <1>1, <2>1 DEF CountedFor
<1>5. ASSUME NEW c \in rows[d]
      PROVE  c \in CountedOn(d)
  <2>1. c[1] \in Appointments /\ c = <<c[1], c[2]>>
    BY <1>2 DEF Seen
  <2>2. IsOn(c[1], d)
    BY <1>3
  <2>3. c[2] = appointment[c[1]].status
    BY <1>4, <2>1, <2>2 DEF Counts
  <2> QED
    BY <2>1, <2>2, <2>3 DEF CountedOn
<1>6. ASSUME NEW a \in Appointments, IsOn(a, d)
      PROVE  <<a, appointment[a].status>> \in rows[d]
  <2>1. PICK c \in rows[d] : c[1] = a /\ c[2] = appointment[a].status
    BY <1>4, <1>6 DEF Counts
  <2>2. c = <<c[1], c[2]>>
    BY <1>2 DEF Seen
  <2> QED
    BY <2>1, <2>2
<1> QED
  BY <1>5, <1>6 DEF CountedOn

With(s) == {a \in Appointments : appointment[a].status = s}
DayOf == [a \in Appointments |-> appointment[a].day]

LEMMA CountedIs ==
  ASSUME Settled, NEW d \in Days, NEW s \in Statuses
  PROVE  CountedIn(d, s) = Cardinality(Fiber(With(s), DayOf, d))
<1> DEFINE S == Fiber(With(s), DayOf, d)
           T == {c \in rows[d] : c[2] = s}
           h == [a \in S |-> <<a, s>>]
<1>1. IsFiniteSet(S)
  BY FS_Subset, FiniteAssumption, S \in SUBSET Appointments DEF With, Fiber
<1>2. rows[d] = CountedOn(d)
  BY RowsAtRest
<1>3. T = {h[x] : x \in S}
  <2>1. ASSUME NEW c \in T
        PROVE  c \in {h[x] : x \in S}
    <3>1. PICK a \in Appointments : /\ IsOn(a, d)
                                    /\ c = <<a, appointment[a].status>>
      BY <1>2 DEF CountedOn
    <3>2. appointment[a].status = s
      BY <3>1
    <3>3. a \in S
      BY <3>1, <3>2 DEF With, DayOf, IsOn, Fiber
    <3> QED
      BY <3>1, <3>2, <3>3
  <2>2. ASSUME NEW x \in S
        PROVE  h[x] \in T
    <3>1. /\ x \in Appointments /\ IsOn(x, d) /\ appointment[x].status = s
          /\ h[x] = <<x, s>>
      BY DEF With, DayOf, IsOn, Fiber
    <3>2. <<x, s>> \in CountedOn(d)
      BY <3>1 DEF CountedOn
    <3> QED
      BY <1>2, <3>1, <3>2
  <2> QED
    BY <2>1, <2>2
<1>4. h \in [S -> T]
  BY <1>3
<1>5. \A x, y \in S : h[x] = h[y] => x = y
  OBVIOUS
<1> HIDE DEF S, T, h
<1>6. Cardinality(T) = Cardinality(S)
  BY <1>1, <1>3, <1>4, <1>5, SameNumber
<1> QED
  BY <1>6 DEF CountedIn, S, T

LEMMA SumOverIs ==
  ASSUME Settled, NEW s \in Statuses, NEW ds, ds \subseteq Days, IsFiniteSet(ds)
  PROVE  SumOver(ds, s) = Cardinality(Into(With(s), DayOf, ds))
<1> DEFINE f == [d \in ds |-> CountedIn(d, s)]
<1>1. IsFiniteSet(With(s))
  BY FS_Subset, FiniteAssumption, With(s) \in SUBSET Appointments DEF With
<1>2. \A d \in ds : f[d] = Cardinality(Fiber(With(s), DayOf, d))
  BY CountedIs
<1>3. f \in [ds -> Nat]
  <2>1. ASSUME NEW d \in ds
        PROVE  CountedIn(d, s) \in Nat
    BY <1>1, CountedIs, FiberIsFinite
  <2> QED
    BY <2>1
<1>4. SumOver(ds, s) = SumFunction(f)
  BY DEF SumOver
<1> HIDE DEF f
<1> QED
  BY <1>1, <1>2, <1>3, <1>4, SumCounts

LEMMA SummaryIs ==
  ASSUME Settled, NEW s \in Statuses
  PROVE  Summary(s) = Cardinality(Bookings(s))
<1>1. Into(With(s), DayOf, Month) = Bookings(s)
  BY DEF With, DayOf, Bookings, Into
<1>2. SumOver(Month, s) = Cardinality(Bookings(s))
  BY <1>1, SumOverIs, FiniteAssumption, DaysAssumption
<1> QED
  BY <1>2 DEF Summary

LEMMA BookingsFinite ==
  /\ IsFiniteSet(NotCancelled)
  /\ \A s \in Statuses : /\ IsFiniteSet(Bookings(s))
                         /\ Cardinality(Bookings(s)) \in Nat
<1>1. \A s \in Statuses : Bookings(s) \in SUBSET Appointments
  BY DEF Bookings
<1>2. NotCancelled \in SUBSET Appointments
  BY <1>1 DEF NotCancelled
<1> QED
  BY <1>1, <1>2, FS_Subset, FS_CardinalityType, FiniteAssumption

LEMMA NotCancelledIs ==
  /\ NotCancelled = {a \in Appointments :
                       /\ appointment[a].status
                            \in {"active", "completed", "noShow"}
                       /\ appointment[a].day \in Month}
  /\ NotCancelled
       = Bookings("active") \cup Bookings("completed") \cup Bookings("noShow")
  BY DEF NotCancelled, Bookings, Statuses

\* The three summaries of what is not cancelled are of disjoint sets.
LEMMA BookedIs ==
  ASSUME Settled
  PROVE  Summary("active") + Summary("completed") + Summary("noShow")
           = Cardinality(NotCancelled)
<1> DEFINE x == Bookings("active")
           y == Bookings("completed")
           z == Bookings("noShow")
<1>1. /\ IsFiniteSet(x) /\ IsFiniteSet(y) /\ IsFiniteSet(z)
      /\ Cardinality(x) \in Nat /\ Cardinality(y) \in Nat
      /\ Cardinality(z) \in Nat
  BY BookingsFinite DEF Statuses
<1>2. x \cap y = {} /\ (x \cup y) \cap z = {}
  BY DEF Bookings
<1>3. /\ Summary("active") = Cardinality(x)
      /\ Summary("completed") = Cardinality(y)
      /\ Summary("noShow") = Cardinality(z)
  BY SummaryIs DEF Statuses
<1>4. NotCancelled = (x \cup y) \cup z
  BY NotCancelledIs
<1> HIDE DEF x, y, z
<1>5. Cardinality(x \cap y) = 0 /\ Cardinality((x \cup y) \cap z) = 0
  BY <1>2, FS_EmptySet
<1>6. /\ IsFiniteSet(x \cup y)
      /\ Cardinality(x \cup y)
           = Cardinality(x) + Cardinality(y) - Cardinality(x \cap y)
  BY <1>1, FS_Union
<1>7. Cardinality((x \cup y) \cup z)
        = Cardinality(x \cup y) + Cardinality(z)
            - Cardinality((x \cup y) \cap z)
  BY <1>1, <1>6, FS_Union
<1>8. Cardinality(x \cup y) = Cardinality(x) + Cardinality(y)
  BY <1>1, <1>5, <1>6
<1>9. Cardinality((x \cup y) \cup z)
        = Cardinality(x) + Cardinality(y) + Cardinality(z)
  BY <1>1, <1>5, <1>7, <1>8
<1> QED
  BY <1>3, <1>4, <1>9

\* A sum over all the classes of A counts A.
LEMMA SumOfAll ==
  ASSUME NEW A, IsFiniteSet(A), NEW G, NEW S, IsFiniteSet(S),
         NEW f \in [S -> Nat],
         \A x \in S : f[x] = Cardinality(Fiber(A, G, x)),
         \A a \in A : G[a] \in S
  PROVE  SumFunction(f) = Cardinality(A)
<1>1. SumFunction(f) = Cardinality(Into(A, G, S))
  BY SumCounts
<1>2. Into(A, G, S) = A
  BY DEF Into
<1> QED
  BY <1>1, <1>2

LEMMA StaffAddsUp ==
  ASSUME NEW s \in Statuses
  PROVE  SumFunction([m \in Staff |-> StaffSummary(m, s)])
           = Cardinality(Bookings(s))
<1> DEFINE A == Bookings(s)
           G == [a \in Appointments |-> Of[a].staff]
           f == [m \in Staff |-> StaffSummary(m, s)]
<1>1. A \subseteq Appointments
  BY DEF Bookings
<1>2. \A m \in Staff : {a \in A : Of[a].staff = m} = Fiber(A, G, m)
  BY <1>1 DEF Fiber
<1>3. \A m \in Staff : f[m] = Cardinality(Fiber(A, G, m))
  BY <1>2 DEF StaffSummary
<1>4. \A a \in A : G[a] \in Staff
  BY <1>1, OfAssumption
<1>5. IsFiniteSet(A) /\ IsFiniteSet(Staff)
  BY BookingsFinite, FiniteAssumption
<1> HIDE DEF A, G
<1>6. f \in [Staff -> Nat]
  <2>1. \A m \in Staff : f[m] \in Nat
    BY <1>3, <1>5, FiberIsFinite
  <2> QED
    BY <2>1
<1>7. SumFunction(f) = Cardinality(A)
  <2> HIDE DEF f
  <2> QED
    BY <1>3, <1>4, <1>5, <1>6, SumOfAll
<1> QED
  BY <1>7 DEF A

LEMMA WeekIsPartOfMonth ==
  ASSUME Settled, NEW s \in Statuses
  PROVE  SumFunction([d \in Week \cap Month |-> WeeklyBreakdown[d][s]])
           <= Cardinality(Bookings(s))
<1> DEFINE ds == Week \cap Month
           part == Into(With(s), DayOf, ds)
<1>1. [d \in ds |-> WeeklyBreakdown[d][s]] = [d \in ds |-> CountedIn(d, s)]
  BY DEF WeeklyBreakdown
<1>2. ds \subseteq Days /\ IsFiniteSet(ds)
  BY FS_Subset, ds \in SUBSET Month, FiniteAssumption, DaysAssumption
<1>3. part \in SUBSET Bookings(s)
  BY DEF With, DayOf, Bookings, Into
<1>4. SumOver(ds, s) = Cardinality(part)
  BY <1>2, SumOverIs
<1> HIDE DEF part
<1>5. Cardinality(part) <= Cardinality(Bookings(s))
  BY <1>3, BookingsFinite, FS_Subset
<1> QED
  BY <1>1, <1>4, <1>5 DEF SumOver

\* A cut list is part of the list, and the list itself if it is short enough.
LEMMA MostFacts ==
  ASSUME NEW S, IsFiniteSet(S), \A t \in S : t.bookings \in Nat, NEW n \in Nat
  PROVE  /\ Most(n, S) \subseteq S
         /\ Cardinality(S) <= n => Most(n, S) = S
<1> DEFINE Upper(T) == \A t \in T, u \in S \ T : t.bookings >= u.bookings
           Cut(T) == /\ T \in SUBSET S
                     /\ Cardinality(T) = IF Cardinality(S) <= n
                                         THEN Cardinality(S) ELSE n
                     /\ Upper(T)
<1>1. \A T \in SUBSET S : IsFiniteSet(T) /\ Cardinality(T) \in Nat
  BY FS_Subset, FS_CardinalityType
<1>2. CASE Cardinality(S) <= n
  <2>1. Cut(S)
    BY <1>2
  <2>2. Cut(Most(n, S))
    BY <2>1 DEF Most
  <2>3. Most(n, S) = S
    BY <1>2, <2>2, FS_Subset
  <2> QED
    BY <2>3
<1>3. CASE ~(Cardinality(S) <= n)
  <2> DEFINE C == {T \in SUBSET S : Cardinality(T) >= n /\ Upper(T)}
  <2>1. S \in C
    BY <1>1, <1>3
  <2>2. PICK s \in C : \A x \in s : s \ {x} \notin C
    <3>1. C \subseteq SUBSET S /\ C # {}
      BY <2>1
    <3> HIDE DEF C
    <3> QED
      BY <3>1, SmallestSetExists
  <2>3. s \in SUBSET S /\ Cardinality(s) >= n /\ Upper(s)
    OBVIOUS
  <2>4. ASSUME Cardinality(s) > n
        PROVE  FALSE
    <3>1. s # {}
      BY <2>4, FS_EmptySet
    <3> DEFINE numbers == {t.bookings : t \in s}
    <3>2. PICK e \in numbers : \A d \in numbers : e <= d
      <4>1. numbers \subseteq Nat /\ numbers # {}
        BY <2>3, <3>1
      <4> HIDE DEF numbers
      <4> QED
        BY <4>1, FirstExists
    <3>3. PICK x \in s : x.bookings = e
      BY <3>2
    <3>4. \A t \in s : t.bookings >= x.bookings
      BY <2>3, <3>2, <3>3
    <3>5. Cardinality(s \ {x}) = Cardinality(s) - 1
      BY <1>1, <2>3, FS_RemoveElement
    <3>6. Cardinality(s \ {x}) >= n
      BY <1>1, <2>3, <2>4, <3>5
    <3>7. Upper(s \ {x})
      BY <2>3, <3>4
    <3>8. s \ {x} \in C
      BY <2>3, <3>6, <3>7
    <3> QED
      BY <2>2, <3>8
  <2>5. Cardinality(s) = n
    BY <1>1, <2>3, <2>4
  <2>6. Cut(s)
    BY <1>3, <2>3, <2>5
  <2>7. Cut(Most(n, S))
    <3> HIDE DEF C
    <3> QED
      BY <2>6 DEF Most
  <2> QED
    BY <1>3, <2>7
<1> QED
  BY <1>2, <1>3

\* The numbers of some of what A is listed as add up to no more than A, and
\* those of all of it to A.
LEMMA ListAddsUp ==
  ASSUME NEW A, IsFiniteSet(A), NEW S, NEW G \in [A -> S],
         S = {G[a] : a \in A},
         \A t \in S : t.bookings = Cardinality(Fiber(A, G, t)),
         NEW T \in SUBSET S
  PROVE  /\ SumFunction([t \in T |-> t.bookings]) <= Cardinality(A)
         /\ T = S => SumFunction([t \in T |-> t.bookings]) = Cardinality(A)
<1> DEFINE f == [t \in T |-> t.bookings]
<1>1. IsFiniteSet(S) /\ IsFiniteSet(T)
  <2>1. IsFiniteSet(S)
    BY FiniteImage
  <2> QED
    BY <2>1, FS_Subset
<1>2. \A t \in T : f[t] = Cardinality(Fiber(A, G, t))
  OBVIOUS
<1>3. f \in [T -> Nat]
  <2>1. \A t \in T : f[t] \in Nat
    <3> HIDE DEF f
    <3> QED
      BY <1>2, FiberIsFinite
  <2> QED
    BY <2>1
<1>4. SumFunction(f) = Cardinality(Into(A, G, T))
  <2> HIDE DEF f
  <2> QED
    BY <1>1, <1>2, <1>3, SumCounts
<1>5. /\ Into(A, G, T) \in SUBSET A
      /\ T = S => Into(A, G, T) = A
  BY DEF Into
<1>6. Cardinality(Into(A, G, T)) <= Cardinality(A)
  BY <1>5, FS_Subset
<1> QED
  BY <1>4, <1>5, <1>6

LEMMA ByServiceIs ==
  ASSUME NEW A, A \subseteq Appointments
  PROVE  \E G \in [A -> ByService(A)] :
           /\ ByService(A) = {G[a] : a \in A}
           /\ \A t \in ByService(A) : t.bookings = Cardinality(Fiber(A, G, t))
<1> DEFINE S == ByService(A)
           n(v) == Cardinality({a \in A : Of[a].service = v})
           G == [a \in A |-> [service |-> Of[a].service,
                              bookings |-> n(Of[a].service)]]
<1>1. S = {G[a] : a \in A}
  BY DEF ByService
<1>2. ASSUME NEW t \in S
      PROVE  t.bookings = Cardinality(Fiber(A, G, t))
  <2>1. PICK b \in A : t = G[b]
    BY <1>1
  <2>2. t.service = Of[b].service /\ t.bookings = n(Of[b].service)
    BY <2>1
  <2>3. ASSUME NEW a \in A
        PROVE  G[a] = t <=> Of[a].service = Of[b].service
    <3>1. G[a].service = Of[a].service
      OBVIOUS
    <3>2. CASE Of[a].service = Of[b].service
      BY <2>1, <3>2
    <3>3. CASE Of[a].service # Of[b].service
      BY <2>2, <3>1, <3>3
    <3> QED
      BY <3>2, <3>3
  <2> HIDE DEF G
  <2>4. {a \in A : Of[a].service = Of[b].service} = Fiber(A, G, t)
    BY <2>3 DEF Fiber
  <2> QED
    BY <2>2, <2>4
<1>3. G \in [A -> S]
  BY <1>1
<1> HIDE DEF G, S
<1> QED
  BY <1>1, <1>2, <1>3 DEF S

LEMMA ByCustomerIs ==
  ASSUME NEW A, A \subseteq Appointments
  PROVE  \E G \in [A -> ByCustomer(A)] :
           /\ ByCustomer(A) = {G[a] : a \in A}
           /\ \A t \in ByCustomer(A) : t.bookings = Cardinality(Fiber(A, G, t))
<1> DEFINE S == ByCustomer(A)
           n(v) == Cardinality({a \in A : Of[a].customer = v})
           G == [a \in A |-> [customer |-> Of[a].customer,
                              bookings |-> n(Of[a].customer)]]
<1>1. S = {G[a] : a \in A}
  BY DEF ByCustomer
<1>2. ASSUME NEW t \in S
      PROVE  t.bookings = Cardinality(Fiber(A, G, t))
  <2>1. PICK b \in A : t = G[b]
    BY <1>1
  <2>2. t.customer = Of[b].customer /\ t.bookings = n(Of[b].customer)
    BY <2>1
  <2>3. ASSUME NEW a \in A
        PROVE  G[a] = t <=> Of[a].customer = Of[b].customer
    <3>1. G[a].customer = Of[a].customer
      OBVIOUS
    <3>2. CASE Of[a].customer = Of[b].customer
      BY <2>1, <3>2
    <3>3. CASE Of[a].customer # Of[b].customer
      BY <2>2, <3>1, <3>3
    <3> QED
      BY <3>2, <3>3
  <2> HIDE DEF G
  <2>4. {a \in A : Of[a].customer = Of[b].customer} = Fiber(A, G, t)
    BY <2>3 DEF Fiber
  <2> QED
    BY <2>2, <2>4
<1>3. G \in [A -> S]
  BY <1>1
<1> HIDE DEF G, S
<1> QED
  BY <1>1, <1>2, <1>3 DEF S

\* A list of the services of some appointments, cut to n.
LEMMA ServicesAddUp ==
  ASSUME NEW A, A \subseteq Appointments, NEW n \in Nat
  PROVE  LET T == Most(n, ByService(A))
             sum == SumFunction([t \in T |-> t.bookings])
         IN  /\ sum <= Cardinality(A)
             /\ Cardinality(ByService(A)) <= n => sum = Cardinality(A)
<1> DEFINE S == ByService(A)
           T == Most(n, S)
<1>1. IsFiniteSet(A)
  BY FS_Subset, FiniteAssumption
<1>2. PICK G \in [A -> S] :
        /\ S = {G[a] : a \in A}
        /\ \A t \in S : t.bookings = Cardinality(Fiber(A, G, t))
  BY ByServiceIs
<1> HIDE DEF S
<1>3. IsFiniteSet(S) /\ \A t \in S : t.bookings \in Nat
  BY <1>1, <1>2, FiniteImage, FiberIsFinite
<1>4. T \in SUBSET S /\ (Cardinality(S) <= n => T = S)
  BY <1>3, MostFacts
<1> HIDE DEF T
<1>5. /\ SumFunction([t \in T |-> t.bookings]) <= Cardinality(A)
      /\ T = S => SumFunction([t \in T |-> t.bookings]) = Cardinality(A)
  BY <1>1, <1>2, <1>4, ListAddsUp
<1> QED
  BY <1>4, <1>5 DEF S, T

(***************************************************************************)
(* A stored total counts what the API booked.  The worker books only after *)
(* the API has, so that a total is not zero where it is short.             *)
(***************************************************************************)
Counted(c) == Own(c) \ uncounted
Uncounted(c) == {a \in uncounted : Of[a].customer = c}

TotalsOK ==
  /\ total \in [Customers -> Nat]
  /\ uncounted \subseteq Appointments
  /\ \A a \in uncounted : Exists(a)
  /\ \A c \in Customers :
       /\ total[c] = Cardinality(Counted(c))
       /\ Uncounted(c) # {} => Counted(c) # {}

LEMMA OwnIsFinite ==
  ASSUME NEW c
  PROVE  /\ IsFiniteSet(Own(c)) /\ IsFiniteSet(Counted(c))
         /\ Cardinality(Own(c)) \in Nat /\ Cardinality(Counted(c)) \in Nat
<1>1. Own(c) \in SUBSET Appointments /\ Counted(c) \in SUBSET Appointments
  BY DEF Own, Counted
<1> QED
  BY <1>1, FiniteAssumption, FS_Subset, FS_CardinalityType

\* An appointment that is changed stays, and no other comes or goes.
LEMMA SameOwn ==
  ASSUME MetricsTypeOK, NEW a \in Appointments, NEW st \in Statuses,
         NEW d \in Days, Change(a, st, d)
  PROVE  /\ Exists(a)'
         /\ \A x \in Appointments : x # a => (Exists(x)' <=> Exists(x))
<1>1. /\ appointment'[a] = [status |-> st, day |-> d]
      /\ \A x \in Appointments : x # a => appointment'[x] = appointment[x]
  BY ChangeFacts
<1>2. "absent" \notin Statuses /\ Absent.status = "absent"
  BY DEF Statuses, Absent
<1>3. appointment'[a].status = st
  BY <1>1
<1> QED
  BY <1>1, <1>2, <1>3 DEF Exists

\* An appointment is new, and it is of one customer.
LEMMA OwnGrows ==
  ASSUME NEW a \in Appointments, Exists(a)',
         \A x \in Appointments : x # a => (Exists(x)' <=> Exists(x)), NEW c
  PROVE  Own(c)' = IF Of[a].customer = c THEN Own(c) \cup {a} ELSE Own(c) \ {a}
<1>1. ASSUME NEW x \in Appointments
      PROVE  x \in Own(c)' <=> /\ x = a \/ Exists(x)
                               /\ Of[x].customer = c
  BY <1>1, Zenon DEF Own
<1>2. ASSUME NEW x \in Appointments
      PROVE  x \in Own(c) <=> Exists(x) /\ Of[x].customer = c
  BY <1>2 DEF Own
<1>3. Own(c) \subseteq Appointments /\ Own(c)' \subseteq Appointments
  BY DEF Own
<1>4. CASE Of[a].customer = c
  BY <1>1, <1>2, <1>3, <1>4
<1>5. CASE Of[a].customer # c
  BY <1>1, <1>2, <1>3, <1>5
<1> QED
  BY <1>4, <1>5

LEMMA TotalsStay ==
  ASSUME TotalsOK, UNCHANGED totals,
         \A x \in Appointments : Exists(x)' <=> Exists(x)
  PROVE  TotalsOK'
<1>1. total' = total /\ uncounted' = uncounted
  BY DEF totals
<1>2. ASSUME NEW c \in Customers
      PROVE  Counted(c)' = Counted(c) /\ Uncounted(c)' = Uncounted(c)
  BY <1>1 DEF Counted, Uncounted, Own
<1> QED
  BY <1>1, <1>2 DEF TotalsOK

LEMMA TotalsBooked ==
  ASSUME RowsOK, TotalsOK, NEW a \in Appointments, NEW d \in Days,
         Book(a, d) \/ BookRecurring(a, d)
  PROVE  TotalsOK'
<1>1. New(a, d) /\ "active" \in Statuses
  BY DEF Book, BookRecurring, Statuses
<1>2. /\ ~Exists(a) /\ Exists(a)'
      /\ \A x \in Appointments : x # a => (Exists(x)' <=> Exists(x))
  BY <1>1, SameOwn DEF New, RowsOK
<1>3. a \notin uncounted /\ \A c \in Customers : a \notin Counted(c)
  BY <1>2 DEF TotalsOK, Counted, Own
<1>4. /\ Of[a].customer \in Customers
      /\ \A c \in Customers :
           Own(c)' = IF Of[a].customer = c THEN Own(c) \cup {a} ELSE Own(c)
  <2>1. ASSUME NEW c \in Customers
        PROVE  /\ a \notin Own(c)
               /\ Own(c)' = IF Of[a].customer = c THEN Own(c) \cup {a}
                                                  ELSE Own(c) \ {a}
    BY <1>2, OwnGrows DEF Own
  <2> QED
    BY <2>1, OfAssumption
<1>5. CASE Book(a, d)
  <2>1. /\ total' = [total EXCEPT ![Of[a].customer] = @ + 1]
        /\ uncounted' = uncounted
    BY <1>5 DEF Book
  <2>2. ASSUME NEW c \in Customers
        PROVE  /\ total'[c] \in Nat
               /\ total'[c] = Cardinality(Counted(c)')
               /\ Uncounted(c)' # {} => Counted(c)' # {}
    <3>1. Uncounted(c)' = Uncounted(c)
      BY <2>1 DEF Uncounted
    <3>2. CASE Of[a].customer = c
      <4>1. Counted(c)' = Counted(c) \cup {a}
        BY <1>3, <1>4, <2>1, <3>2 DEF Counted
      <4>2. Cardinality(Counted(c) \cup {a}) = Cardinality(Counted(c)) + 1
        BY <1>3, OwnIsFinite, FS_AddElement
      <4>3. total'[c] = total[c] + 1 /\ total[c] \in Nat
        BY <1>4, <2>1, <3>2 DEF TotalsOK
      <4>4. total[c] = Cardinality(Counted(c))
        BY DEF TotalsOK
      <4> QED
        BY <4>1, <4>2, <4>3, <4>4
    <3>3. CASE Of[a].customer # c
      <4>1. Counted(c)' = Counted(c)
        BY <1>4, <2>1, <3>3 DEF Counted
      <4>2. total'[c] = total[c] /\ total[c] \in Nat
        BY <2>1, <3>3 DEF TotalsOK
      <4> QED
        BY <3>1, <4>1, <4>2 DEF TotalsOK
    <3> QED
      BY <3>2, <3>3
  <2>3. total' \in [Customers -> Nat]
    BY <1>4, <2>1 DEF TotalsOK
  <2>4. \A x \in uncounted' : x \in Appointments /\ Exists(x)'
    BY <1>2, <1>3, <2>1 DEF TotalsOK
  <2> QED
    BY <2>2, <2>3, <2>4 DEF TotalsOK
<1>6. CASE BookRecurring(a, d)
  <2>1. uncounted' = uncounted \cup {a} /\ total' = total
    BY <1>6 DEF BookRecurring
  <2>2. PICK first \in Appointments \ uncounted :
          Exists(first) /\ Of[first] = Of[a]
    BY <1>6 DEF BookRecurring
  <2>3. ASSUME NEW c \in Customers
        PROVE  /\ Counted(c)' = Counted(c)
               /\ Uncounted(c)' # {} => Counted(c)' # {}
    <3>1. Counted(c)' = Counted(c)
      BY <1>3, <1>4, <2>1 DEF Counted
    <3>2. CASE Of[a].customer = c
      BY <2>2, <3>1, <3>2 DEF Counted, Own
    <3>3. CASE Of[a].customer # c
      <4>1. Uncounted(c)' = Uncounted(c)
        BY <2>1, <3>3 DEF Uncounted
      <4> QED
        BY <3>1, <4>1 DEF TotalsOK
    <3> QED
      BY <3>1, <3>2, <3>3
  <2>4. \A x \in uncounted' : x \in Appointments /\ Exists(x)'
    BY <1>2, <2>1 DEF TotalsOK
  <2> QED
    BY <2>1, <2>3, <2>4 DEF TotalsOK
<1> QED
  BY <1>5, <1>6

LEMMA TotalsStep ==
  ASSUME RowsOK, TotalsOK, [MetricsNext]_metricsVars
  PROVE  TotalsOK'
<1>1. ASSUME appointment' = appointment, UNCHANGED totals
      PROVE  TotalsOK'
  BY <1>1, TotalsStay DEF Exists
<1>2. CASE UNCHANGED metricsVars
  BY <1>1, <1>2 DEF metricsVars, totals
<1>3. ASSUME NEW i \in DOMAIN events,
             ReadDay(i) \/ WriteDay(i) \/ CommitDay(i) \/ AbortDay(i)
      PROVE  TotalsOK'
  BY <1>1, <1>3 DEF ReadDay, WriteDay, CommitDay, AbortDay
<1>4. ASSUME NEW a \in Appointments, NEW st \in Statuses, NEW d \in Days,
             Change(a, st, d), Exists(a), UNCHANGED totals
      PROVE  TotalsOK'
  BY <1>4, SameOwn, TotalsStay DEF RowsOK
<1>5. ASSUME NEW a \in Appointments, Exists(a)
      PROVE  appointment[a].day \in Days
  BY <1>5 DEF RowsOK, MetricsTypeOK
<1>6. ASSUME NEW a \in Appointments, appointment[a].status = "active"
      PROVE  Exists(a)
  BY <1>6 DEF Exists, Absent
<1>7. "active" \in Statuses /\ "cancelled" \in Statuses
  BY DEF Statuses
<1>8. ASSUME NEW a \in Appointments, NEW d \in Days, Reschedule(a, d)
      PROVE  TotalsOK'
  BY <1>4, <1>6, <1>7, <1>8 DEF Reschedule
<1>9. ASSUME NEW a \in Appointments, Cancel(a)
      PROVE  TotalsOK'
  BY <1>4, <1>5, <1>6, <1>7, <1>9 DEF Cancel
<1>10. ASSUME NEW a \in Appointments, NEW s \in Statuses, SetStatus(a, s)
       PROVE  TotalsOK'
  BY <1>4, <1>5, <1>10 DEF SetStatus
<1> QED
  BY <1>2, <1>3, <1>8, <1>9, <1>10, TotalsBooked DEF MetricsNext

LEMMA TotalsInit == MetricsInit => TotalsOK
<1> SUFFICES ASSUME MetricsInit PROVE TotalsOK
  OBVIOUS
<1>1. /\ total = [c \in Customers |-> 0] /\ uncounted = {}
      /\ \A a \in Appointments : ~Exists(a)
  BY DEF MetricsInit, Exists
<1>2. ASSUME NEW c \in Customers
      PROVE  Counted(c) = {} /\ Uncounted(c) = {}
  BY <1>1 DEF Counted, Own, Uncounted
<1> QED
  BY <1>1, <1>2, FS_EmptySet DEF TotalsOK

\* With what the worker booked added, the bookings that the page shows of a
\* customer are those that they have not cancelled.
LEMMA KeptIs ==
  ASSUME TotalsOK, NEW c \in Customers
  PROVE  /\ Cardinality(Kept(c)) \in Nat
         /\ CustomerPage(c).total + Missed(c) - CustomerPage(c).cancelled
              = Cardinality(Kept(c))
         /\ CustomerPage(c).total \in Nat
         /\ Missed(c) = 0 => CustomerPage(c).total >= Cardinality(Kept(c))
<1> DEFINE own == Own(c)
           gone == {a \in own : appointment[a].status = "cancelled"}
<1>1. /\ CustomerPage(c).cancelled = Cardinality(gone)
      /\ CustomerPage(c).total = IF total[c] # 0 THEN total[c]
                                               ELSE Cardinality(own)
  BY DEF CustomerPage
<1>2. IsFiniteSet(own) /\ IsFiniteSet(Counted(c))
  BY OwnIsFinite
<1>3. Kept(c) = own \ gone /\ own \cap gone = gone
  BY DEF Kept, Own
<1>4. gone \in SUBSET own
  OBVIOUS
<1> HIDE DEF own, gone
<1>5. /\ IsFiniteSet(gone) /\ Cardinality(gone) \in Nat
      /\ Cardinality(own) \in Nat /\ Cardinality(gone) <= Cardinality(own)
  BY <1>2, <1>4, FS_Subset, FS_CardinalityType
<1>6. Cardinality(own \ gone) = Cardinality(own) - Cardinality(own \cap gone)
  BY <1>2, FS_Difference
<1>7. Cardinality(Kept(c)) = Cardinality(own) - Cardinality(gone)
  BY <1>3, <1>6
<1>8. /\ own \ Uncounted(c) = Counted(c) /\ own \cap Uncounted(c) = Uncounted(c)
      /\ Uncounted(c) \in SUBSET own
  BY DEF own, Own, Counted, Uncounted, TotalsOK
<1>9. Cardinality(Counted(c)) = Cardinality(own) - Cardinality(Uncounted(c))
  BY <1>2, <1>8, FS_Difference
<1>10. /\ IsFiniteSet(Uncounted(c)) /\ Cardinality(Uncounted(c)) \in Nat
       /\ Cardinality(Uncounted(c)) = 0 <=> Uncounted(c) = {}
  BY <1>2, <1>8, FS_Subset, FS_CardinalityType, FS_EmptySet
<1>11. /\ total[c] = Cardinality(Counted(c)) /\ total[c] \in Nat
       /\ Uncounted(c) # {} => Counted(c) # {}
  BY DEF TotalsOK
<1>12. Cardinality(Counted(c)) = 0 <=> Counted(c) = {}
  BY <1>2, FS_EmptySet
<1>13. CustomerPage(c).total + Cardinality(Uncounted(c)) = Cardinality(own)
  BY <1>1, <1>5, <1>9, <1>10, <1>11, <1>12
<1>14. CustomerPage(c).total \in Nat
  BY <1>1, <1>5, <1>9, <1>10, <1>11, <1>12
<1>15. Missed(c) = Cardinality(Uncounted(c))
  BY DEF Missed, Uncounted
<1> QED
  BY <1>1, <1>5, <1>7, <1>10, <1>13, <1>14, <1>15

LEMMA RecurringAreListed ==
  ASSUME TotalsOK
  PROVE  /\ SumFunction([r \in RecurringCustomers |-> r.bookings])
              <= Cardinality(NotCancelled)
         /\ \A r \in RecurringCustomers :
              Missed(r.customer) = 0 => r.customer \in ListedAsRecurring
<1> DEFINE A == NotCancelled
           S == ByCustomer(A)
           again == {r \in S : r.bookings > 1}
           R == RecurringCustomers
<1>1. IsFiniteSet(A) /\ A \subseteq Appointments
  BY BookingsFinite, NotCancelledIs
<1>2. PICK G \in [A -> S] :
        /\ S = {G[a] : a \in A}
        /\ \A t \in S : t.bookings = Cardinality(Fiber(A, G, t))
  BY <1>1, ByCustomerIs
<1>3. R \in SUBSET again
  <2>1. IsFiniteSet(S) /\ \A t \in S : t.bookings \in Nat
    <3> HIDE DEF A, S
    <3> QED
      BY <1>1, <1>2, FiniteImage, FiberIsFinite
  <2>2. IsFiniteSet(again) /\ \A t \in again : t.bookings \in Nat
    BY <2>1, FS_Subset, again \in SUBSET S
  <2> HIDE DEF A, S
  <2>3. R = Most(TopShown, again)
    BY DEF RecurringCustomers, A, S
  <2> HIDE DEF again, R
  <2> QED
    BY <2>2, <2>3, MostFacts, ListsAssumption
<1>4. R \in SUBSET S
  BY <1>3
<1>5. SumFunction([r \in R |-> r.bookings]) <= Cardinality(A)
  <2> HIDE DEF A, S, R
  <2> QED
    BY <1>1, <1>2, <1>4, ListAddsUp
<1>6. ASSUME NEW r \in R, Missed(r.customer) = 0
      PROVE  r.customer \in ListedAsRecurring
  <2>1. r \in S /\ r.bookings > 1
    BY <1>3
  <2>2. PICK c \in {Of[a].customer : a \in A} :
          r = [customer |-> c,
               bookings |-> Cardinality({a \in A : Of[a].customer = c})]
    BY <2>1, Zenon DEF ByCustomer
  <2> DEFINE own == {a \in A : Of[a].customer = c}
  <2>3. r.customer = c /\ r.bookings = Cardinality(own)
    BY <2>2
  <2>4. own \in SUBSET Kept(c)
    BY <1>1, NotCancelledIs DEF Kept, Exists, Absent
  <2>5. IsFiniteSet(Kept(c))
    BY FS_Subset, FiniteAssumption, Kept(c) \in SUBSET Appointments DEF Kept
  <2>6. Cardinality(own) \in Nat
    <3>1. own \in SUBSET A
      OBVIOUS
    <3> QED
      BY <1>1, <3>1, FS_Subset, FS_CardinalityType
  <2>7. c \in Customers
    BY <1>1, OfAssumption
  <2> HIDE DEF A, S, R, own
  <2>8. Cardinality(own) <= Cardinality(Kept(c))
    BY <2>4, <2>5, FS_Subset
  <2>9. CustomerPage(c).total > 1
    BY <1>6, <2>1, <2>3, <2>6, <2>7, <2>8, KeptIs
  <2> QED
    BY <2>3, <2>7, <2>9 DEF ListedAsRecurring
<1> QED
  BY <1>5, <1>6

\* What is booked in the month is not more than what the customers kept.
LEMMA CustomersAccountForAll ==
  ASSUME TotalsOK
  PROVE  Cardinality(NotCancelled)
           <= SumFunction([c \in Customers |-> CustomerPage(c).total + Missed(c)
                                                 - CustomerPage(c).cancelled])
<1> DEFINE A == {a \in Appointments : /\ Exists(a)
                                      /\ appointment[a].status # "cancelled"}
           G == [a \in Appointments |-> Of[a].customer]
           f == [c \in Customers |-> CustomerPage(c).total + Missed(c)
                                       - CustomerPage(c).cancelled]
<1>1. IsFiniteSet(A) /\ A \subseteq Appointments
  BY FS_Subset, FiniteAssumption, A \in SUBSET Appointments
<1>2. ASSUME NEW c \in Customers
      PROVE  f[c] = Cardinality(Fiber(A, G, c)) /\ f[c] \in Nat
  <2>1. Kept(c) = Fiber(A, G, c)
    BY DEF Kept, Fiber
  <2>2. f[c] = CustomerPage(c).total + Missed(c) - CustomerPage(c).cancelled
    OBVIOUS
  <2> HIDE DEF f, A, G
  <2> QED
    BY <2>1, <2>2, KeptIs
<1>3. f \in [Customers -> Nat]
  BY <1>2
<1>4. \A a \in A : G[a] \in Customers
  BY OfAssumption
<1>5. NotCancelled \in SUBSET A
  BY NotCancelledIs DEF Exists, Absent
<1>6. SumFunction(f) = Cardinality(A)
  <2> HIDE DEF f, A, G
  <2> QED
    BY <1>1, <1>2, <1>3, <1>4, FiniteAssumption, SumOfAll
<1>7. Cardinality(NotCancelled) <= Cardinality(A)
  <2> HIDE DEF A
  <2> QED
    BY <1>1, <1>5, FS_Subset
<1> QED
  BY <1>6, <1>7

LEMMA PanelsOfRows ==
  ASSUME RowsOK, TotalsOK
  PROVE  PanelsAgree
<1> SUFFICES ASSUME Settled
             PROVE  PanelsAgree
  BY DEF Settled, PanelsAgree
<1> DEFINE booked == Summary("active") + Summary("completed")
                       + Summary("noShow")
<1>1. ASSUME NEW s \in Statuses
      PROVE  /\ Summary(s) = SumFunction([m \in Staff |-> StaffSummary(m, s)])
             /\ SumFunction([d \in Week \cap Month |-> WeeklyBreakdown[d][s]])
                  <= Summary(s)
  BY SummaryIs, StaffAddsUp, WeekIsPartOfMonth
<1>2. booked = Cardinality(NotCancelled)
  BY BookedIs
<1>3. LET listed == SumFunction([t \in TopServices |-> t.bookings]) IN
      /\ listed <= booked
      /\ Cardinality(ByService(NotCancelled)) <= TopShown => listed = booked
  <2>1. NotCancelled \subseteq Appointments
    BY NotCancelledIs
  <2> HIDE DEF booked
  <2> QED
    BY <1>2, <2>1, ServicesAddUp, ListsAssumption DEF TopServices
<1>4. /\ SumFunction([r \in RecurringCustomers |-> r.bookings]) <= booked
      /\ \A r \in RecurringCustomers :
           Missed(r.customer) = 0 => r.customer \in ListedAsRecurring
      /\ booked <= SumFunction([c \in Customers |->
                                  CustomerPage(c).total + Missed(c)
                                    - CustomerPage(c).cancelled])
  <2> HIDE DEF booked
  <2> QED
    BY <1>2, RecurringAreListed, CustomersAccountForAll
<1>5. ASSUME NEW c \in Customers
      PROVE  LET kept == CustomerPage(c).total + Missed(c)
                           - CustomerPage(c).cancelled
                 listed == SumFunction([f \in CustomerPage(c).favourites |->
                                          f.bookings])
             IN
             /\ listed <= kept
             /\ Cardinality(ByService(Kept(c))) <= FavouritesShown
                  => listed = kept
  <2>1. Kept(c) \subseteq Appointments
    BY DEF Kept
  <2>2. CustomerPage(c).favourites = Most(FavouritesShown, ByService(Kept(c)))
    BY DEF CustomerPage, Favourites
  <2>3. CustomerPage(c).total + Missed(c) - CustomerPage(c).cancelled
          = Cardinality(Kept(c))
    BY KeptIs
  <2> QED
    BY <2>1, <2>2, <2>3, ServicesAddUp, ListsAssumption
<1> QED
  BY <1>1, <1>3, <1>4, <1>5, Zenon DEF PanelsAgree

\* Whenever every event is handled, with no overlap, no rescheduling and no
\* reopening, the panels of the dashboard that count rows and those that count
\* appointments show the same, and the page of customers does but for what the
\* worker booked, which its totals are short of: PanelsAgree holds for every
\* number of appointments, customers, services and professionals.
THEOREM PanelsShowTheSame == MetricsSpec => []PanelsAgree
<1>1. MetricsInit => RowsOK /\ TotalsOK
  BY RowsInit, TotalsInit
<1>2. RowsOK /\ TotalsOK /\ [MetricsNext]_metricsVars => (RowsOK /\ TotalsOK)'
  BY RowsStep, TotalsStep
<1>3. RowsOK /\ TotalsOK => PanelsAgree
  BY PanelsOfRows
<1> QED
  BY <1>1, <1>2, <1>3, PTL DEF MetricsSpec
=============================================================================
