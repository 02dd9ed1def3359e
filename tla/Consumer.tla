------------------------------ MODULE Consumer ------------------------------
(***************************************************************************)
(* The event consumer of the Go worker: runner.go takes deliveries from    *)
(* the queue worker.appointments, several goroutines at once, and RunOnce  *)
(* of repository.go runs the handler of an event in the transaction that   *)
(* inserts the event's id into processed_events.                           *)
(*                                                                         *)
(* A delivery is acknowledged after its transaction.  RabbitMQ delivers a  *)
(* message again when it is refused or when the channel that held it is    *)
(* gone; the goroutine that held it may still be running its handler then, *)
(* with a delivery that is no longer its own.                              *)
(***************************************************************************)
EXTENDS Integers, FiniteSets

CONSTANTS
  Events,     \* events that reach the queue
  Malformed,  \* those whose payload their handler cannot decode
  Workers,    \* goroutines, of one or of several worker processes
  MaxCopies,  \* bound on the copies of an event that are published
  MaxFaults   \* bound on errors, broken connections and crashes

ASSUME MalformedAssumption == Malformed \subseteq Events
ASSUME WorkersAssumption == IsFiniteSet(Workers)
ASSUME CopiesAssumption == MaxCopies \in Nat
ASSUME FaultsAssumption == MaxFaults \in Nat

VARIABLES
  queue,      \* copies of each event that are ready for delivery
  worker,     \* what each goroutine is doing
  processed,  \* the table processed_events
  effects,    \* how often the handler of each event has taken effect
  arrived,    \* copies of each event that have been put on the queue
  faults      \* faults so far

consumerVars == <<queue, worker, processed, effects, arrived, faults>>

Phases == {"idle", "received", "handling", "done", "failed"}

\* own: the delivery still belongs to the worker's channel.
Job == [phase : Phases \ {"idle"}, event : Events, own : BOOLEAN]
NoJob == [phase |-> "idle"]

Goto(w, phase) == worker' = [worker EXCEPT ![w].phase = phase]

Fault == faults < MaxFaults /\ faults' = faults + 1

\* Another transaction has inserted e and neither committed nor rolled back:
\* an insert of the same key waits for it.
Claimed(e, w) ==
  \E v \in Workers \ {w} : worker[v].phase = "handling" /\ worker[v].event = e
-----------------------------------------------------------------------------
ConsumerInit ==
  /\ queue = [e \in Events |-> 0]
  /\ worker = [w \in Workers |-> NoJob]
  /\ processed = {}
  /\ effects = [e \in Events |-> 0]
  /\ arrived = [e \in Events |-> 0]
  /\ faults = 0

\* The exchange routes a published message to the queue.
Arrive(e) ==
  /\ arrived[e] < MaxCopies
  /\ arrived' = [arrived EXCEPT ![e] = @ + 1]
  /\ queue' = [queue EXCEPT ![e] = @ + 1]
  /\ UNCHANGED <<worker, processed, effects, faults>>

Deliver(w, e) ==
  /\ worker[w] = NoJob
  /\ queue[e] > 0
  /\ queue' = [queue EXCEPT ![e] = @ - 1]
  /\ worker' = [worker EXCEPT ![w] =
                  [phase |-> "received", event |-> e, own |-> TRUE]]
  /\ UNCHANGED <<processed, effects, arrived, faults>>

\* Mutant of Insert: the conflict on the key is not looked at.
InsertAlways(w) ==
  /\ worker[w].phase = "received"
  /\ Goto(w, "handling")
  /\ UNCHANGED <<queue, processed, effects, arrived, faults>>

\* INSERT ... ON CONFLICT DO NOTHING inserts the row: the handler runs.
Insert(w) ==
  /\ worker[w].phase = "received"
  /\ worker[w].event \notin processed
  /\ ~Claimed(worker[w].event, w)
  /\ Goto(w, "handling")
  /\ UNCHANGED <<queue, processed, effects, arrived, faults>>

\* The row is there already: RunOnce returns without running the handler.
Skip(w) ==
  /\ worker[w].phase = "received"
  /\ worker[w].event \in processed
  /\ Goto(w, "done")
  /\ UNCHANGED <<queue, processed, effects, arrived, faults>>

CommitTransaction(w) ==
  /\ worker[w].phase = "handling"
  /\ worker[w].event \notin Malformed
  /\ processed' = processed \cup {worker[w].event}
  /\ effects' = [effects EXCEPT ![worker[w].event] = @ + 1]
  /\ UNCHANGED <<queue, arrived>>

Commit(w) == CommitTransaction(w) /\ Goto(w, "done") /\ UNCHANGED faults

\* The transaction commits but the worker sees an error.
CommitUnknown(w) == CommitTransaction(w) /\ Goto(w, "failed") /\ Fault

\* The handler or a query of its transaction fails: it is rolled back.  The
\* handler of a malformed event fails every time.
HandlerFails(w) ==
  /\ \/ worker[w].phase \in {"received", "handling"} /\ Fault
     \/ /\ worker[w].phase = "handling"
        /\ worker[w].event \in Malformed
        /\ UNCHANGED faults
  /\ Goto(w, "failed")
  /\ UNCHANGED <<queue, processed, effects, arrived>>

\* Mutant of Nack: the message is refused without being put back.
NackDrop(w) ==
  /\ worker[w].phase = "failed"
  /\ worker' = [worker EXCEPT ![w] = NoJob]
  /\ UNCHANGED <<queue, processed, effects, arrived, faults>>

\* A refused delivery goes back to the queue, unless it is no longer held.
Nack(w) ==
  /\ worker[w].phase = "failed"
  /\ queue' = IF worker[w].own
              THEN [queue EXCEPT ![worker[w].event] = @ + 1] ELSE queue
  /\ worker' = [worker EXCEPT ![w] = NoJob]
  /\ UNCHANGED <<processed, effects, arrived, faults>>

Ack(w) ==
  /\ worker[w].phase = "done"
  /\ worker' = [worker EXCEPT ![w] = NoJob]
  /\ UNCHANGED <<queue, processed, effects, arrived, faults>>

Holds(w, e) == worker[w] # NoJob /\ worker[w].own /\ worker[w].event = e

\* What the broker still holds for these workers goes back to the queue.
Requeued(lost) ==
  [e \in Events |-> queue[e] + Cardinality({w \in lost : Holds(w, e)})]

\* The connection of a worker process breaks; its goroutines carry on with
\* the handlers they run.
Disconnect(lost) ==
  /\ \E w \in lost, e \in Events : Holds(w, e)
  /\ Fault
  /\ queue' = Requeued(lost)
  /\ worker' = [w \in Workers |-> IF w \in lost /\ worker[w] # NoJob
                                  THEN [worker[w] EXCEPT !.own = FALSE]
                                  ELSE worker[w]]
  /\ UNCHANGED <<processed, effects, arrived>>

\* A worker process dies: its transactions are rolled back.
Crash(lost) ==
  /\ \E w \in lost : worker[w] # NoJob
  /\ Fault
  /\ queue' = Requeued(lost)
  /\ worker' = [w \in Workers |-> IF w \in lost THEN NoJob ELSE worker[w]]
  /\ UNCHANGED <<processed, effects, arrived>>

WorkerStep(w) ==
  \/ \E e \in Events : Deliver(w, e)
  \/ Insert(w) \/ Skip(w) \/ Commit(w) \/ CommitUnknown(w) \/ HandlerFails(w)
  \/ Nack(w) \/ Ack(w)

ConsumerNext ==
  \/ \E e \in Events : Arrive(e)
  \/ \E w \in Workers : WorkerStep(w)
  \/ \E lost \in SUBSET Workers : Disconnect(lost) \/ Crash(lost)

ConsumerSpec == ConsumerInit /\ [][ConsumerNext]_consumerVars

-----------------------------------------------------------------------------
(* Properties                                                              *)

\* Every variable stays in its set.
TypeOK ==
  /\ queue \in [Events -> Nat]
  /\ worker \in [Workers -> Job \cup {NoJob}]
  /\ processed \subseteq Events
  /\ effects \in [Events -> Nat]
  /\ arrived \in [Events -> Nat]
  /\ faults \in 0..MaxFaults

\* The handler of an event takes effect at most once, however many copies of
\* it are delivered, to however many workers at the same time.
EffectAtMostOnce == \A e \in Events : effects[e] <= 1

\* An event that has arrived is not lost before it takes effect: a copy is on
\* the queue or held by a worker whose acknowledgement is still to come.
NothingLost ==
  \A e \in Events :
    arrived[e] > 0 /\ e \notin processed
      => queue[e] > 0 \/ \E w \in Workers : Holds(w, e)
=============================================================================
