------------------------------ MODULE Delivery ------------------------------
(***************************************************************************)
(* The event backbone: the publisher of the outbox and the consumer of the *)
(* worker, joined by the exchange and the queue of RabbitMQ.               *)
(*                                                                         *)
(* A message that the exchange accepts reaches the queue if the worker has *)
(* declared and bound it; the publisher does not ask to be told of         *)
(* messages that reach none.  An outage of the broker severs the channels  *)
(* of both sides at once, and nothing is delivered while it lasts.         *)
(* Malformed events come from elsewhere: the outbox of this version has    *)
(* none.                                                                   *)
(***************************************************************************)
EXTENDS Consumer

CONSTANTS
  Runs, BatchSize, MaxAttempts, MaxPublisherFaults,  \* see Outbox
  WorkerFirst   \* assumption: the worker has started before the first event

ASSUME WorkerFirstAssumption == WorkerFirst \in BOOLEAN

VARIABLES
  status, attempts, run, brokerUp, sent, publisherFaults,
  bound   \* the queue exists and is bound to the exchange

Committed == Events \ Malformed

ASSUME CommittedAssumption == Committed \subseteq Nat
ASSUME OutboxAssumption ==
  /\ IsFiniteSet(Runs) /\ BatchSize \in Nat \ {0}
  /\ MaxAttempts \in Nat \ {0} /\ MaxPublisherFaults \in Nat

Outbox == INSTANCE Outbox WITH Events <- Committed,
                               faults <- publisherFaults,
                               MaxFaults <- MaxPublisherFaults

outboxVars == <<status, attempts, run, brokerUp, sent, publisherFaults>>
vars == <<outboxVars, consumerVars, bound>>

Init ==
  /\ Outbox!Init
  /\ ConsumerInit
  /\ bound = FALSE

\* The exchange routes the message to the queue, or drops it.
Route(r) ==
  /\ Outbox!Publish(r)
  /\ IF bound THEN Arrive(Outbox!Current(r)) ELSE UNCHANGED consumerVars
  /\ UNCHANGED bound

\* Someone else publishes a malformed event, once.
Strange(e) ==
  /\ e \in Malformed /\ arrived[e] = 0 /\ brokerUp /\ bound
  /\ Arrive(e)
  /\ UNCHANGED <<outboxVars, bound>>

\* Everything the publisher does but publish and be cut off.
PublisherStep(r) ==
  /\ \/ Outbox!Read(r) \/ Outbox!OpenChannel(r) \/ Outbox!ChannelRefused(r)
     \/ \E e \in Committed : Outbox!MarkRefused(r, e)
     \/ Outbox!Confirm(r) \/ Outbox!PublishFails(r)
     \/ Outbox!MarkPublished(r) \/ Outbox!MarkFailedAttempt(r)
     \/ Outbox!Close(r) \/ Outbox!UpdateFails(r)
  /\ UNCHANGED <<consumerVars, bound>>

CommitEvent(e) ==
  /\ WorkerFirst => bound
  /\ Outbox!Create(e)
  /\ UNCHANGED <<consumerVars, bound>>

PublisherCrash == Outbox!Crash /\ UNCHANGED <<consumerVars, bound>>

BrokerBack == Outbox!BrokerBack /\ UNCHANGED <<consumerVars, bound>>

\* The worker starts: it declares the exchange, the queue and the bindings.
Declare ==
  /\ ~bound
  /\ brokerUp
  /\ bound' = TRUE
  /\ UNCHANGED <<outboxVars, consumerVars>>

Take(w, e) ==
  /\ brokerUp
  /\ bound
  /\ Deliver(w, e)
  /\ UNCHANGED <<outboxVars, bound>>

Work(w) ==
  /\ \/ Insert(w) \/ Skip(w) \/ Commit(w) \/ CommitUnknown(w)
     \/ HandlerFails(w) \/ Nack(w) \/ Ack(w)
  /\ UNCHANGED <<outboxVars, bound>>

ConsumerFault ==
  /\ \E lost \in SUBSET Workers : Disconnect(lost) \/ Crash(lost)
  /\ UNCHANGED <<outboxVars, bound>>

\* The broker holds durable queues and persistent messages: an outage
\* returns what the workers hold to the queue and loses nothing.
Outage ==
  /\ Outbox!BrokerDown
  /\ IF \E w \in Workers, e \in Events : Holds(w, e)
     THEN Disconnect(Workers) ELSE UNCHANGED consumerVars
  /\ UNCHANGED bound

Next ==
  \/ \E e \in Committed : CommitEvent(e)
  \/ \E e \in Malformed : Strange(e)
  \/ \E r \in Runs : Route(r) \/ PublisherStep(r)
  \/ \E w \in Workers : Work(w) \/ \E e \in Events : Take(w, e)
  \/ PublisherCrash \/ BrokerBack \/ Declare \/ ConsumerFault \/ Outage

Spec == Init /\ [][Next]_vars

\* The interval keeps starting runs, goroutines go on with what they have and
\* take what is ready, outages end and the worker starts in the end.  No
\* event is passed over for ever: the broker keeps more messages in flight
\* than malformed ones can occupy.
FairSpec ==
  /\ Spec
  /\ \A r \in Runs : WF_vars(Route(r) \/ PublisherStep(r))
  /\ \A w \in Workers :
       WF_vars(Work(w) \/ \E e \in Events : Take(w, e))
  /\ \A e \in Events : SF_vars(\E w \in Workers : Take(w, e))
  /\ WF_vars(BrokerBack)
  /\ WF_vars(Declare)
-----------------------------------------------------------------------------
(* Properties                                                              *)

\* Whatever is published twice, delivered twice or retried, each event takes
\* effect at most once, and only events that were committed do.
Promise == INSTANCE Effects
  WITH committed <- {e \in Committed : status[e] # "absent"},
       applied <- effects

ImplementsEffects == Promise!Spec

\* The publisher keeps its word inside the backbone: an event is marked as
\* published only after RabbitMQ has accepted it, although an outage severs the
\* channels of both sides and overlapping runs hold the same events.
PublishedWasSent == Outbox!PublishedWasSent

\* Every committed event takes effect, malformed ones among them or not,
\* unless MaxAttempts attempts to publish it have failed.
EffectOrGivenUp ==
  \A e \in Committed :
    status[e] # "absent" ~> (effects[e] = 1 \/ attempts[e] >= MaxAttempts)
=============================================================================
