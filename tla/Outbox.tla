------------------------------- MODULE Outbox -------------------------------
(***************************************************************************)
(* The publisher of the transactional outbox, event-publisher.service.ts.  *)
(* An interval starts a run every five seconds whether or not the previous *)
(* one has ended, so several runs may hold the same events.  A run reads a *)
(* batch, opens a confirm channel, and for each event publishes, waits for *)
(* the broker's confirmation and updates the row by its id.                *)
(*                                                                         *)
(* The broker may become unreachable at any time, which severs every open  *)
(* channel, the update after a confirmation may fail, and the process may  *)
(* die; MaxFaults bounds how often.                                        *)
(***************************************************************************)
EXTENDS Integers, FiniteSets

CONSTANTS
  Events,       \* outbox rows: numbers in the order of created_at
  Runs,         \* the runs of publishPending that can overlap
  BatchSize,    \* rows that a run reads
  MaxAttempts,  \* failed attempts after which a row is left alone
  MaxFaults     \* bound on outages, failed updates and crashes

ASSUME RunsAssumption == IsFiniteSet(Runs)
ASSUME EventsAssumption == Events \subseteq Nat
ASSUME BatchAssumption == BatchSize \in Nat \ {0}
ASSUME AttemptsAssumption == MaxAttempts \in Nat \ {0}
ASSUME FaultsAssumption == MaxFaults \in Nat

VARIABLES
  status,     \* of each row, "absent" before its transaction commits
  attempts,   \* failed attempts of each row
  run,        \* what each run is doing
  brokerUp,   \* RabbitMQ accepts connections
  sent,       \* copies of each event that the exchange has accepted
  faults      \* faults so far

outboxVars == <<status, attempts, run, brokerUp, sent, faults>>

Phases == {"idle", "opening", "refused", "publishing", "confirming",
           "confirmed", "failed"}

\* todo are the events a run has yet to settle, and open says that its
\* channel is.
Run == [phase : Phases, todo : SUBSET Events, open : BOOLEAN]
NoRun == [phase |-> "idle", todo |-> {}, open |-> FALSE]

Statuses == {"absent", "pending", "failed", "published"}

\* Mutant of Due: failed rows are not read again.
DueOnce(e) == status[e] = "pending" /\ attempts[e] < MaxAttempts

Due(e) == status[e] \in {"pending", "failed"} /\ attempts[e] < MaxAttempts

\* The oldest due rows, at most BatchSize of them.
Batch ==
  LET due == {e \in Events : Due(e)}
  IN {e \in due : Cardinality({d \in due : d < e}) < BatchSize}

\* The events of a batch are published in the order of created_at.
Current(r) == CHOOSE e \in run[r].todo : \A d \in run[r].todo : e <= d

Becomes(r, next) == run' = [run EXCEPT ![r] = next]

\* The row of the current event is updated: the run goes on to the next one.
Settled(r) ==
  Becomes(r, [run[r] EXCEPT !.phase = "publishing", !.todo = @ \ {Current(r)}])
-----------------------------------------------------------------------------
Init ==
  /\ status = [e \in Events |-> "absent"]
  /\ attempts = [e \in Events |-> 0]
  /\ run = [r \in Runs |-> NoRun]
  /\ brokerUp = TRUE
  /\ sent = [e \in Events |-> 0]
  /\ faults = 0

\* A transaction commits its change together with its outbox row.
Create(e) ==
  /\ status[e] = "absent"
  /\ status' = [status EXCEPT ![e] = "pending"]
  /\ UNCHANGED <<attempts, run, brokerUp, sent, faults>>

\* A run that finds no due row ends at once.
Read(r) ==
  /\ run[r] = NoRun
  /\ Batch # {}
  /\ Becomes(r, [run[r] EXCEPT !.phase = "opening", !.todo = Batch])
  /\ UNCHANGED <<status, attempts, brokerUp, sent, faults>>

OpenChannel(r) ==
  /\ run[r].phase = "opening"
  /\ brokerUp
  /\ Becomes(r, [run[r] EXCEPT !.phase = "publishing", !.open = TRUE])
  /\ UNCHANGED <<status, attempts, brokerUp, sent, faults>>

\* Without a channel every event of the batch counts a failed attempt.
ChannelRefused(r) ==
  /\ run[r].phase = "opening"
  /\ ~brokerUp
  /\ Becomes(r, [run[r] EXCEPT !.phase = "refused"])
  /\ UNCHANGED <<status, attempts, brokerUp, sent, faults>>

\* The update does not look at the row: another run may have published it.
MarkFailed(e) ==
  /\ status' = [status EXCEPT ![e] = "failed"]
  /\ attempts' = [attempts EXCEPT ![e] = @ + 1]

\* The updates of a refused batch are sent together, in no order.
MarkRefused(r, e) ==
  /\ run[r].phase = "refused"
  /\ e \in run[r].todo
  /\ MarkFailed(e)
  /\ Becomes(r, IF run[r].todo = {e} THEN NoRun
                ELSE [run[r] EXCEPT !.todo = @ \ {e}])
  /\ UNCHANGED <<brokerUp, sent, faults>>

Publish(r) ==
  /\ run[r].phase = "publishing"
  /\ run[r].todo # {}
  /\ run[r].open
  /\ sent' = [sent EXCEPT ![Current(r)] = @ + 1]
  /\ Becomes(r, [run[r] EXCEPT !.phase = "confirming"])
  /\ UNCHANGED <<status, attempts, brokerUp, faults>>

Confirm(r) ==
  /\ run[r].phase = "confirming"
  /\ run[r].open
  /\ Becomes(r, [run[r] EXCEPT !.phase = "confirmed"])
  /\ UNCHANGED <<status, attempts, brokerUp, sent, faults>>

\* Mutant of PublishFails: a lost confirmation is taken for a confirmation.
PublishFailsUnnoticed(r) ==
  /\ \/ run[r].phase = "publishing" /\ run[r].todo # {}
     \/ run[r].phase = "confirming"
  /\ ~run[r].open
  /\ Becomes(r, [run[r] EXCEPT !.phase = "confirmed"])
  /\ UNCHANGED <<status, attempts, brokerUp, sent, faults>>

\* On a severed channel a publication is refused, and the confirmation of
\* one that was sent never comes.
PublishFails(r) ==
  /\ \/ run[r].phase = "publishing" /\ run[r].todo # {}
     \/ run[r].phase = "confirming"
  /\ ~run[r].open
  /\ Becomes(r, [run[r] EXCEPT !.phase = "failed"])
  /\ UNCHANGED <<status, attempts, brokerUp, sent, faults>>

MarkPublished(r) ==
  /\ run[r].phase = "confirmed"
  /\ status' = [status EXCEPT ![Current(r)] = "published"]
  /\ Settled(r)
  /\ UNCHANGED <<attempts, brokerUp, sent, faults>>

MarkFailedAttempt(r) ==
  /\ run[r].phase = "failed"
  /\ MarkFailed(Current(r))
  /\ Settled(r)
  /\ UNCHANGED <<brokerUp, sent, faults>>

Close(r) ==
  /\ run[r].phase = "publishing"
  /\ run[r].todo = {}
  /\ Becomes(r, NoRun)
  /\ UNCHANGED <<status, attempts, brokerUp, sent, faults>>
-----------------------------------------------------------------------------
(* Faults                                                                  *)

Fault == faults < MaxFaults /\ faults' = faults + 1

BrokerDown ==
  /\ brokerUp
  /\ Fault
  /\ brokerUp' = FALSE
  /\ run' = [r \in Runs |-> [run[r] EXCEPT !.open = FALSE]]
  /\ UNCHANGED <<status, attempts, sent>>

BrokerBack ==
  /\ ~brokerUp
  /\ brokerUp' = TRUE
  /\ UNCHANGED <<status, attempts, run, sent, faults>>

\* The update after a confirmation fails: the catch block takes the event
\* for unpublished.
UpdateFails(r) ==
  /\ run[r].phase = "confirmed"
  /\ Fault
  /\ Becomes(r, [run[r] EXCEPT !.phase = "failed"])
  /\ UNCHANGED <<status, attempts, brokerUp, sent>>

\* The process dies and starts again: every run is forgotten.
Crash ==
  /\ Fault
  /\ run' = [r \in Runs |-> NoRun]
  /\ UNCHANGED <<status, attempts, brokerUp, sent>>

RunStep(r) ==
  \/ Read(r) \/ OpenChannel(r) \/ ChannelRefused(r)
  \/ \E e \in Events : MarkRefused(r, e)
  \/ Publish(r) \/ Confirm(r) \/ PublishFails(r)
  \/ MarkPublished(r) \/ MarkFailedAttempt(r) \/ Close(r)

Next ==
  \/ \E e \in Events : Create(e)
  \/ \E r \in Runs : RunStep(r) \/ UpdateFails(r)
  \/ BrokerDown \/ BrokerBack \/ Crash

Spec == Init /\ [][Next]_outboxVars

\* The interval keeps starting runs, a run does not stop halfway while the
\* process lives, and outages end.
FairSpec ==
  /\ Spec
  /\ \A r \in Runs : WF_outboxVars(RunStep(r))
  /\ WF_outboxVars(BrokerBack)
-----------------------------------------------------------------------------
(* Properties                                                              *)

\* Every variable stays in its set.
TypeOK ==
  /\ status \in [Events -> Statuses]
  /\ attempts \in [Events -> Nat]
  /\ run \in [Runs -> Run]
  /\ brokerUp \in BOOLEAN
  /\ sent \in [Events -> Nat]
  /\ faults \in 0..MaxFaults

\* An event is marked as published only after RabbitMQ has accepted it, even
\* when runs overlap and one severed channel follows another.
PublishedWasSent == \A e \in Events : status[e] = "published" => sent[e] > 0

\* However many runs overlap, each adds at most one failed attempt to a row
\* beyond the limit.
AttemptsBounded ==
  \A e \in Events : attempts[e] < MaxAttempts + Cardinality(Runs)

\* In the end every committed event is marked as published, for good, or
\* MaxAttempts attempts at it have failed.
Settles ==
  <>[](\A e \in Events : \/ status[e] \in {"absent", "published"}
                         \/ attempts[e] >= MaxAttempts)
=============================================================================
