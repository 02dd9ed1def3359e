------------------------------ MODULE Waitlist ------------------------------
(***************************************************************************)
(* The waitlist: entries are made and cancelled through the API, a handler *)
(* of the worker offers the slot of a released appointment to the first    *)
(* entry that wants it, the customer or the dashboard accepts or rejects   *)
(* the offer, and a job of the worker expires offers.                      *)
(*                                                                         *)
(* The handler locks the entry it finds until its transaction commits and  *)
(* skips entries that another transaction has locked.  An answer reads the *)
(* offer first and updates it later, in a transaction that looks at its    *)
(* status and deadline again.                                              *)
(***************************************************************************)
EXTENDS Integers, FiniteSets

CONSTANTS
  Entries,        \* waitlist entries: numbers, the first one is served first
  Appointments,   \* identifiers of appointment rows
  SlotOf,         \* the staff member's time that each of them blocks
  Workers,        \* goroutines of the worker that handle events
  Requests        \* answers to offers that can be in flight together

ASSUME EntriesAssumption == Entries \subseteq Nat

VARIABLES
  appointment,   \* status of each appointment row
  opportunity,   \* events that announce a released appointment, unhandled
  entry,         \* status of each waitlist entry
  offer,         \* status of the offer of each appointment to each entry
  match,         \* the entry each goroutine has found and locked, and for what
  request        \* the offer each answer in flight has read

vars == <<appointment, opportunity, entry, offer, match, request>>

OfferIds == Entries \X Appointments
EntryStatuses == {"absent", "waiting", "offered", "booked", "cancelled"}

\* "lapsed" is a row with status pending whose expires_at has passed.
OfferStatuses == {"none", "pending", "lapsed", "accepted", "rejected", "expired"}

NoMatch == [busy |-> FALSE]
Match == [busy : {TRUE}, entry : Entries, appointment : Appointments]
NoRequest == [answer |-> "none"]
Request == [answer : {"accept", "reject"}, offer : OfferIds]

Live(o) == offer[o] \in {"pending", "lapsed"}

\* The slot of a is blocked by an active appointment.
Blocked(a) ==
  \E b \in Appointments : appointment[b] = "active" /\ SlotOf[b] = SlotOf[a]

Locked(e) == \E w \in Workers : match[w].busy /\ match[w].entry = e

\* Mutant of Unlocked: the query does not lock what it finds.
UnlockedAlways(e) == TRUE

Unlocked(e) == ~Locked(e)

\* Events about a that no goroutine is handling.
Ready(a) ==
  opportunity[a]
    > Cardinality({w \in Workers : match[w].busy /\ match[w].appointment = a})

\* Mutant of Eligible: an entry may be offered the same appointment again.
EligibleAgain(e, a) ==
  entry[e] = "waiting" /\ \A b \in Appointments : ~Live(<<e, b>>)

Eligible(e, a) ==
  /\ entry[e] = "waiting"
  /\ \A b \in Appointments : ~Live(<<e, b>>)
  /\ offer[<<e, a>>] = "none"

Candidates(a) == {e \in Entries : Eligible(e, a) /\ Unlocked(e)}
-----------------------------------------------------------------------------
Init ==
  /\ appointment = [a \in Appointments |-> "absent"]
  /\ opportunity = [a \in Appointments |-> 0]
  /\ entry = [e \in Entries |-> "absent"]
  /\ offer = [o \in OfferIds |-> "none"]
  /\ match = [w \in Workers |-> NoMatch]
  /\ request = [h \in Requests |-> NoRequest]

\* Any booking that does not come from the waitlist.
Book(a) ==
  /\ appointment[a] = "absent"
  /\ ~Blocked(a)
  /\ appointment' = [appointment EXCEPT ![a] = "active"]
  /\ UNCHANGED <<opportunity, entry, offer, match, request>>

\* A cancellation announces the released slot.
CancelAppointment(a) ==
  /\ appointment[a] = "active"
  /\ appointment' = [appointment EXCEPT ![a] = "cancelled"]
  /\ opportunity' = [opportunity EXCEPT ![a] = @ + 1]
  /\ UNCHANGED <<entry, offer, match, request>>

Join(e) ==
  /\ entry[e] = "absent"
  /\ entry' = [entry EXCEPT ![e] = "waiting"]
  /\ UNCHANGED <<appointment, opportunity, offer, match, request>>

\* The update leaves a live offer of the entry as it is.
CancelEntry(e) ==
  /\ entry[e] \in {"waiting", "offered"}
  /\ ~Locked(e)
  /\ entry' = [entry EXCEPT ![e] = "cancelled"]
  /\ UNCHANGED <<appointment, opportunity, offer, match, request>>
-----------------------------------------------------------------------------
(* The worker's handler of an opportunity                                  *)

FindCandidate(w, a, e) ==
  /\ match[w] = NoMatch
  /\ Ready(a)
  /\ e \in Candidates(a)
  /\ \A d \in Candidates(a) : e <= d
  /\ match' = [match EXCEPT ![w] =
                 [busy |-> TRUE, entry |-> e, appointment |-> a]]
  /\ UNCHANGED <<appointment, opportunity, entry, offer, request>>

NoCandidate(w, a) ==
  /\ match[w] = NoMatch
  /\ Ready(a)
  /\ Candidates(a) = {}
  /\ opportunity' = [opportunity EXCEPT ![a] = @ - 1]
  /\ UNCHANGED <<appointment, entry, offer, match, request>>

\* The deadline counts from the event: an offer made late has lapsed already.
CreateOffer(w, status) ==
  LET m == match[w] IN
  /\ m.busy
  /\ offer' = [offer EXCEPT ![<<m.entry, m.appointment>>] = status]
  /\ entry' = [entry EXCEPT ![m.entry] = "offered"]
  /\ opportunity' = [opportunity EXCEPT ![m.appointment] = @ - 1]
  /\ match' = [match EXCEPT ![w] = NoMatch]
  /\ UNCHANGED <<appointment, request>>

\* The transaction is rolled back and the event delivered again.
HandlerFails(w) ==
  /\ match[w].busy
  /\ match' = [match EXCEPT ![w] = NoMatch]
  /\ UNCHANGED <<appointment, opportunity, entry, offer, request>>
-----------------------------------------------------------------------------
(* Answers and deadlines                                                   *)

ReadOffer(h, o, answer) ==
  /\ request[h] = NoRequest
  /\ offer[o] = "pending"
  /\ request' = [request EXCEPT ![h] = [answer |-> answer, offer |-> o]]
  /\ UNCHANGED <<appointment, opportunity, entry, offer, match>>

Finish(h) == request' = [request EXCEPT ![h] = NoRequest]

\* Mutant of StillPending: the transaction trusts what the request has read.
StillPendingAsRead(o) == offer[o] # "none"

StillPending(o) == offer[o] = "pending"

\* The appointment b takes the slot; the entry is booked whatever its status.
Accept(h, b) ==
  LET o == request[h].offer IN
  /\ request[h].answer = "accept"
  /\ StillPending(o)
  /\ appointment[b] = "absent"
  /\ SlotOf[b] = SlotOf[o[2]]
  /\ ~Blocked(b)
  /\ offer' = [offer EXCEPT ![o] = "accepted"]
  /\ appointment' = [appointment EXCEPT ![b] = "active"]
  /\ entry' = [entry EXCEPT ![o[1]] = "booked"]
  /\ Finish(h)
  /\ UNCHANGED <<opportunity, match>>

\* Entries of ended offers that were waiting for an answer wait for the next.
WaitAgain(ended) ==
  entry' = [e \in Entries |->
              IF entry[e] = "offered" /\ \E o \in ended : o[1] = e
              THEN "waiting" ELSE entry[e]]

Reject(h) ==
  LET o == request[h].offer IN
  /\ request[h].answer = "reject"
  /\ StillPending(o)
  /\ offer' = [offer EXCEPT ![o] = "rejected"]
  /\ WaitAgain({o})
  /\ opportunity' = [opportunity EXCEPT ![o[2]] = @ + 1]
  /\ Finish(h)
  /\ UNCHANGED <<appointment, match>>

\* The offer is no longer pending, its slot is taken, or the request dies.
AnswerFails(h) ==
  /\ request[h] # NoRequest
  /\ Finish(h)
  /\ UNCHANGED <<appointment, opportunity, entry, offer, match>>

\* The deadline of an offer passes.
Lapse(o) ==
  /\ offer[o] = "pending"
  /\ offer' = [offer EXCEPT ![o] = "lapsed"]
  /\ UNCHANGED <<appointment, opportunity, entry, match, request>>

\* Mutant of Overdue: offers of cancelled entries are passed over.
OverdueOffered ==
  {o \in OfferIds : offer[o] = "lapsed" /\ entry[o[1]] = "offered"}

Overdue == {o \in OfferIds : offer[o] = "lapsed"}

\* One statement of the job, with one event for each appointment.
ExpireOffers ==
  /\ Overdue # {}
  /\ offer' = [o \in OfferIds |->
                IF o \in Overdue THEN "expired" ELSE offer[o]]
  /\ WaitAgain(Overdue)
  /\ opportunity' = [a \in Appointments |->
       IF \E o \in Overdue : o[2] = a
       THEN opportunity[a] + 1 ELSE opportunity[a]]
  /\ UNCHANGED <<appointment, match, request>>
-----------------------------------------------------------------------------
Handle(w) ==
  \/ \E a \in Appointments, e \in Entries : FindCandidate(w, a, e)
  \/ \E a \in Appointments : NoCandidate(w, a)
  \/ \E status \in {"pending", "lapsed"} : CreateOffer(w, status)

Answer(h) ==
  \/ \E o \in OfferIds, answer \in {"accept", "reject"} :
       ReadOffer(h, o, answer)
  \/ \E b \in Appointments : Accept(h, b)
  \/ Reject(h)
  \/ AnswerFails(h)

Next ==
  \/ \E a \in Appointments : Book(a) \/ CancelAppointment(a)
  \/ \E e \in Entries : Join(e) \/ CancelEntry(e)
  \/ \E w \in Workers : Handle(w) \/ HandlerFails(w)
  \/ \E h \in Requests : Answer(h)
  \/ \E o \in OfferIds : Lapse(o)
  \/ ExpireOffers

Spec == Init /\ [][Next]_vars

\* Time passes and the scheduler keeps running the job.
FairSpec ==
  /\ Spec
  /\ \A o \in OfferIds : WF_vars(Lapse(o))
  /\ WF_vars(ExpireOffers)
-----------------------------------------------------------------------------
(* Properties                                                              *)

\* Every variable stays in its set.
TypeOK ==
  /\ appointment \in [Appointments -> {"absent", "active", "cancelled"}]
  /\ opportunity \in [Appointments -> Nat]
  /\ entry \in [Entries -> EntryStatuses]
  /\ offer \in [OfferIds -> OfferStatuses]
  /\ match \in [Workers -> Match \cup {NoMatch}]
  /\ request \in [Requests -> Request \cup {NoRequest}]

\* However many handlers look for candidates at the same time, an entry has
\* at most one live offer, and while it is shown as offered it has one.
OneLiveOffer ==
  \A e \in Entries :
    /\ \A a, b \in Appointments : Live(<<e, a>>) /\ Live(<<e, b>>) => a = b
    /\ entry[e] = "offered" => \E a \in Appointments : Live(<<e, a>>)

\* An entry is booked by one accepted offer, although acceptances, rejections
\* and the expiry race each other.
BookedOnce ==
  \A e \in Entries :
    /\ entry[e] = "booked"
         <=> \E a \in Appointments : offer[<<e, a>>] = "accepted"
    /\ \A a, b \in Appointments :
         offer[<<e, a>>] = "accepted" /\ offer[<<e, b>>] = "accepted" => a = b

\* Every offer ends, also those of entries that were cancelled.
EveryOfferEnds == \A o \in OfferIds : Live(o) ~> ~Live(o)

Having(statuses) == {o \in OfferIds : offer[o] \in statuses}

Promise == INSTANCE Offers
  WITH Releases <- Appointments,
       live <- Having({"pending", "lapsed"}), won <- Having({"accepted"}),
       lost <- Having({"rejected", "expired"})

\* An offer is made once, for an entry that has neither a live one nor an
\* accepted one, and ends once.
ImplementsOffers == Promise!Spec
=============================================================================
