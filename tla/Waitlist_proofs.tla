--------------------------- MODULE Waitlist_proofs ---------------------------
(***************************************************************************)
(* Proofs about Waitlist, for any entries, appointments, goroutines and    *)
(* answers in flight.  OneLiveOffer and BookedOnce are not inductive: that *)
(* a new offer is the only live one of its entry follows from Locks, which *)
(* says what cannot change under the lock of a handler, and that a live    *)
(* offer is not one of a booked entry from LiveEntries.                    *)
(***************************************************************************)
EXTENDS Waitlist, TLAPS

Typed ==
  /\ entry \in [Entries -> EntryStatuses]
  /\ offer \in [OfferIds -> OfferStatuses]
  /\ match \in [Workers -> Match \cup {NoMatch}]
  /\ request \in [Requests -> Request \cup {NoRequest}]

\* An entry that a handler has locked waits, has no live offer and none of
\* the appointment, and no other handler has locked it.
Locks ==
  \A w \in Workers :
    match[w].busy =>
      LET e == match[w].entry IN
      /\ entry[e] = "waiting"
      /\ offer[<<e, match[w].appointment>>] = "none"
      /\ \A v \in Workers : match[v].busy /\ match[v].entry = e => v = w

LiveEntries ==
  \A e \in Entries, a \in Appointments :
    Live(<<e, a>>) => entry[e] \in {"offered", "cancelled"}

Inv == Typed /\ Locks /\ LiveEntries /\ OneLiveOffer /\ BookedOnce

LEMMA InitInv == Init => Inv
<1> SUFFICES ASSUME Init PROVE Inv
  OBVIOUS
<1>1. /\ \A e \in Entries : entry[e] = "absent"
      /\ \A e \in Entries, a \in Appointments : offer[<<e, a>>] = "none"
      /\ \A w \in Workers : match[w] = NoMatch
  BY DEF Init, OfferIds
<1>2. Typed
  BY DEF Init, Typed, EntryStatuses, OfferStatuses
<1>3. Locks
  BY <1>1 DEF Locks, NoMatch
<1>4. LiveEntries /\ OneLiveOffer
  BY <1>1 DEF LiveEntries, OneLiveOffer, Live
<1>5. BookedOnce
  BY <1>1 DEF BookedOnce
<1> QED
  BY <1>2, <1>3, <1>4, <1>5 DEF Inv

LEMMA BusyMatch ==
  ASSUME Typed, NEW w \in Workers, match[w].busy
  PROVE  /\ match[w] \in Match
         /\ match[w].entry \in Entries
         /\ match[w].appointment \in Appointments
<1>1. match[w] \in Match \cup {NoMatch}
  BY DEF Typed
<1>2. match[w] # NoMatch
  BY DEF NoMatch
<1>3. match[w] \in Match
  BY <1>1, <1>2
<1> QED
  BY <1>3 DEF Match

\* Steps that change neither entries nor offers.
LEMMA RowsKept ==
  ASSUME Inv, UNCHANGED <<entry, offer>>, Typed', Locks'
  PROVE  Inv'
BY DEF Inv, LiveEntries, OneLiveOffer, BookedOnce, Live

LEMMA FindInv ==
  ASSUME Inv, NEW w \in Workers, NEW a \in Appointments, NEW e \in Entries,
         FindCandidate(w, a, e)
  PROVE  Inv'
<1>1. /\ entry[e] = "waiting" /\ offer[<<e, a>>] = "none"
      /\ \A v \in Workers : ~(match[v].busy /\ match[v].entry = e)
  BY DEF FindCandidate, Candidates, Eligible, Unlocked, Locked
<1>2. /\ match' = [match EXCEPT ![w] =
                     [busy |-> TRUE, entry |-> e, appointment |-> a]]
      /\ UNCHANGED <<entry, offer, request>>
  BY DEF FindCandidate
<1>3. Typed'
  BY <1>2 DEF Inv, Typed, Match
<1>4. \A v \in Workers :
        match'[v] = IF v = w THEN [busy |-> TRUE, entry |-> e, appointment |-> a]
                    ELSE match[v]
  BY <1>2 DEF Inv, Typed
<1>5. Locks'
  BY <1>1, <1>2, <1>4 DEF Inv, Locks
<1> QED
  BY <1>2, <1>3, <1>5, RowsKept

LEMMA CreateInv ==
  ASSUME Inv, NEW w \in Workers,
         NEW status \in {"pending", "lapsed"}, CreateOffer(w, status)
  PROVE  Inv'
<1> DEFINE e == match[w].entry
           a == match[w].appointment
<1>1. /\ e \in Entries /\ a \in Appointments /\ match[w].busy
      /\ entry[e] = "waiting"
      /\ \A v \in Workers : match[v].busy /\ match[v].entry = e => v = w
  BY BusyMatch DEF CreateOffer, Inv, Locks
<1>2. /\ offer' = [offer EXCEPT ![<<e, a>>] = status]
      /\ entry' = [entry EXCEPT ![e] = "offered"]
      /\ match' = [match EXCEPT ![w] = NoMatch]
      /\ UNCHANGED request
  BY DEF CreateOffer
<1> HIDE DEF e, a
<1>3. Typed'
  BY <1>1, <1>2 DEF Inv, Typed, EntryStatuses, OfferStatuses, OfferIds
<1>4. /\ \A d \in Entries : entry'[d] = IF d = e THEN "offered" ELSE entry[d]
      /\ \A d \in Entries, b \in Appointments :
           offer'[<<d, b>>] = IF d = e /\ b = a THEN status ELSE offer[<<d, b>>]
      /\ \A v \in Workers : match'[v] = IF v = w THEN NoMatch ELSE match[v]
  BY <1>1, <1>2 DEF Inv, Typed, OfferIds
<1>5. Locks'
  <2> SUFFICES ASSUME NEW v \in Workers, match'[v].busy
               PROVE  /\ entry'[match'[v].entry] = "waiting"
                      /\ offer'[<<match'[v].entry, match'[v].appointment>>] = "none"
                      /\ \A u \in Workers :
                           match'[u].busy /\ match'[u].entry = match'[v].entry
                             => u = v
    BY DEF Locks
  <2>1. v # w /\ match'[v] = match[v] /\ match[v].busy
    BY <1>4 DEF NoMatch
  <2>2. match[v].entry \in Entries /\ match[v].appointment \in Appointments
    BY <2>1, BusyMatch DEF Inv
  <2>3. match[v].entry # e
    BY <1>1, <2>1
  <2> QED
    BY <1>4, <2>1, <2>2, <2>3 DEF Inv, Locks, NoMatch
<1>6. \A b \in Appointments : ~Live(<<e, b>>)
  BY <1>1 DEF Inv, LiveEntries
<1>7. LiveEntries'
  BY <1>4 DEF Inv, LiveEntries, Live
<1>8. OneLiveOffer'
  <2> SUFFICES ASSUME NEW d \in Entries
               PROVE  /\ \A b, c \in Appointments :
                           Live(<<d, b>>)' /\ Live(<<d, c>>)' => b = c
                      /\ entry'[d] = "offered"
                           => \E b \in Appointments : Live(<<d, b>>)'
    BY DEF OneLiveOffer
  <2>1. CASE d = e
    <3>1. \A b \in Appointments : Live(<<d, b>>)' <=> b = a
      BY <1>1, <1>4, <1>6, <2>1 DEF Live
    <3> QED
      BY <1>1, <2>1, <3>1
  <2>2. CASE d # e
    <3>1. /\ entry'[d] = entry[d]
          /\ \A b \in Appointments : Live(<<d, b>>)' <=> Live(<<d, b>>)
      BY <1>4, <2>2 DEF Live
    <3> QED
      BY <3>1 DEF Inv, OneLiveOffer
  <2> QED
    BY <2>1, <2>2
<1>9. BookedOnce'
  <2>1. \A b \in Appointments : offer[<<e, b>>] # "accepted"
    BY <1>1 DEF Inv, BookedOnce
  <2>2. \A d \in Entries : entry'[d] = "booked" <=> entry[d] = "booked"
    BY <1>1, <1>4
  <2>3. \A d \in Entries, b \in Appointments :
          offer'[<<d, b>>] = "accepted" <=> offer[<<d, b>>] = "accepted"
    BY <1>4, <2>1
  <2>4. BookedOnce
    BY DEF Inv
  <2> QED
    BY <2>2, <2>3, <2>4, Zenon DEF BookedOnce
<1> QED
  BY <1>3, <1>5, <1>7, <1>8, <1>9 DEF Inv

\* Offers that end, and entries that may wait again.
LEMMA EndInv ==
  ASSUME Inv, NEW ended, ended \subseteq {o \in OfferIds : Live(o)},
         NEW status \in {"rejected", "expired"},
         offer' = [o \in OfferIds |-> IF o \in ended THEN status ELSE offer[o]],
         WaitAgain(ended), UNCHANGED match,
         request' \in [Requests -> Request \cup {NoRequest}]
  PROVE  Inv'
<1>1. \A e \in Entries, a \in Appointments :
        offer'[<<e, a>>] = IF <<e, a>> \in ended THEN status ELSE offer[<<e, a>>]
  BY DEF OfferIds
<1>2. \A e \in Entries :
        entry'[e] = IF entry[e] = "offered" /\ \E o \in ended : o[1] = e
                    THEN "waiting" ELSE entry[e]
  BY DEF WaitAgain
<1>3. Typed'
  BY DEF Inv, Typed, WaitAgain, EntryStatuses, OfferStatuses
<1>4. \A e \in Entries, a \in Appointments :
        <<e, a>> \in ended => Live(<<e, a>>)
  OBVIOUS
<1>5. Locks'
  <2> SUFFICES ASSUME NEW w \in Workers, match[w].busy
               PROVE  /\ entry'[match[w].entry] = "waiting"
                      /\ offer'[<<match[w].entry, match[w].appointment>>] = "none"
                      /\ \A v \in Workers :
                           match[v].busy /\ match[v].entry = match[w].entry
                             => v = w
    BY DEF Locks
  <2>1. match[w].entry \in Entries /\ match[w].appointment \in Appointments
    BY BusyMatch DEF Inv
  <2> QED
    BY <1>1, <1>2, <1>4, <2>1 DEF Inv, Locks, Live
<1>6. LiveEntries'
  <2> SUFFICES ASSUME NEW e \in Entries, NEW a \in Appointments, Live(<<e, a>>)'
               PROVE  entry'[e] \in {"offered", "cancelled"}
    BY DEF LiveEntries
  <2>1. <<e, a>> \notin ended /\ Live(<<e, a>>)
    BY <1>1 DEF Live
  <2>2. \A b \in Appointments : <<e, b>> \notin ended
    BY <1>4, <2>1 DEF Inv, OneLiveOffer
  <2>3. \A o \in ended : o[1] # e
    BY <2>2 DEF OfferIds
  <2> QED
    BY <1>2, <2>1, <2>3 DEF Inv, LiveEntries
<1>7. OneLiveOffer'
  <2> SUFFICES ASSUME NEW e \in Entries
               PROVE  /\ \A a, b \in Appointments :
                           Live(<<e, a>>)' /\ Live(<<e, b>>)' => a = b
                      /\ entry'[e] = "offered"
                           => \E a \in Appointments : Live(<<e, a>>)'
    BY DEF OneLiveOffer
  <2>1. \A a \in Appointments :
          Live(<<e, a>>)' <=> Live(<<e, a>>) /\ <<e, a>> \notin ended
    BY <1>1 DEF Live
  <2>2. ASSUME entry'[e] = "offered"
        PROVE  \E a \in Appointments : Live(<<e, a>>)'
    <3>1. entry[e] = "offered" /\ \A o \in ended : o[1] # e
      BY <1>2, <2>2
    <3>2. \A a \in Appointments : <<e, a>> \notin ended
      BY <3>1
    <3> QED
      BY <2>1, <3>1, <3>2 DEF Inv, OneLiveOffer
  <2> QED
    BY <2>1, <2>2 DEF Inv, OneLiveOffer
<1>8. BookedOnce'
  <2>1. \A e \in Entries, a \in Appointments :
          offer'[<<e, a>>] = "accepted" <=> offer[<<e, a>>] = "accepted"
    BY <1>1, <1>4 DEF Live
  <2>2. \A e \in Entries : entry'[e] = "booked" <=> entry[e] = "booked"
    BY <1>2
  <2>3. BookedOnce
    BY DEF Inv
  <2> QED
    BY <2>1, <2>2, <2>3, Zenon DEF BookedOnce
<1> QED
  BY <1>3, <1>5, <1>6, <1>7, <1>8 DEF Inv

LEMMA AcceptInv ==
  ASSUME Inv, NEW h \in Requests, NEW b \in Appointments, Accept(h, b)
  PROVE  Inv'
<1> DEFINE e == request[h].offer[1]
           a == request[h].offer[2]
<1>1. /\ e \in Entries /\ a \in Appointments
      /\ request[h].offer = <<e, a>> /\ Live(<<e, a>>)
  <2>1. request[h] \in Request \cup {NoRequest} /\ request[h].answer = "accept"
    BY DEF Accept, Inv, Typed
  <2>2. request[h] \in Request
    BY <2>1 DEF NoRequest
  <2>3. request[h].offer \in Entries \X Appointments
    BY <2>2 DEF Request, OfferIds
  <2> QED
    BY <2>3 DEF Accept, StillPending, Live
<1>2. /\ offer' = [offer EXCEPT ![<<e, a>>] = "accepted"]
      /\ entry' = [entry EXCEPT ![e] = "booked"]
      /\ request' = [request EXCEPT ![h] = NoRequest]
      /\ UNCHANGED match
  BY <1>1 DEF Accept, Finish
<1> HIDE DEF e, a
<1>3. Typed'
  BY <1>1, <1>2 DEF Inv, Typed, EntryStatuses, OfferStatuses, OfferIds
<1>4. /\ \A d \in Entries : entry'[d] = IF d = e THEN "booked" ELSE entry[d]
      /\ \A d \in Entries, c \in Appointments :
           offer'[<<d, c>>] = IF d = e /\ c = a THEN "accepted" ELSE offer[<<d, c>>]
  BY <1>1, <1>2 DEF Inv, Typed, OfferIds
<1>5. /\ entry[e] \in {"offered", "cancelled"}
      /\ \A c \in Appointments : Live(<<e, c>>) => c = a
      /\ \A c \in Appointments : offer[<<e, c>>] # "accepted"
  BY <1>1 DEF Inv, LiveEntries, OneLiveOffer, BookedOnce
<1>6. Locks'
  <2> SUFFICES ASSUME NEW w \in Workers, match[w].busy
               PROVE  /\ entry'[match[w].entry] = "waiting"
                      /\ offer'[<<match[w].entry, match[w].appointment>>] = "none"
                      /\ \A v \in Workers :
                           match[v].busy /\ match[v].entry = match[w].entry
                             => v = w
    BY <1>2 DEF Locks
  <2>1. match[w].entry \in Entries /\ match[w].appointment \in Appointments
    BY BusyMatch DEF Inv
  <2>2. match[w].entry # e
    BY <1>5 DEF Inv, Locks
  <2> QED
    BY <1>4, <2>1, <2>2 DEF Inv, Locks
<1>7. LiveEntries'
  BY <1>4, <1>5 DEF Inv, LiveEntries, Live
<1>8. OneLiveOffer'
  BY <1>4, <1>5 DEF Inv, OneLiveOffer, Live
<1>9. BookedOnce'
  <2> SUFFICES ASSUME NEW d \in Entries
               PROVE  /\ entry'[d] = "booked"
                           <=> \E c \in Appointments : offer'[<<d, c>>] = "accepted"
                      /\ \A b1, b2 \in Appointments :
                           offer'[<<d, b1>>] = "accepted"
                             /\ offer'[<<d, b2>>] = "accepted" => b1 = b2
    BY DEF BookedOnce
  <2>1. CASE d = e
    BY <1>1, <1>4, <1>5, <2>1
  <2>2. CASE d # e
    BY <1>4, <2>2 DEF Inv, BookedOnce
  <2> QED
    BY <2>1, <2>2
<1> QED
  BY <1>3, <1>6, <1>7, <1>8, <1>9 DEF Inv

LEMMA JoinInv ==
  ASSUME Inv, NEW e \in Entries, Join(e)
  PROVE  Inv'
<1>1. /\ entry[e] = "absent"
      /\ \A d \in Entries : entry'[d] = IF d = e THEN "waiting" ELSE entry[d]
      /\ UNCHANGED <<offer, match, request>>
  BY DEF Join, Inv, Typed
<1>2. Typed'
  BY DEF Join, Inv, Typed, EntryStatuses
<1>3. Locks'
  BY <1>1, BusyMatch DEF Inv, Locks
<1>4. LiveEntries'
  BY <1>1 DEF Inv, LiveEntries, Live
<1>5. OneLiveOffer'
  BY <1>1 DEF Inv, OneLiveOffer, Live
<1>6. BookedOnce'
  <2>1. \A d \in Entries : entry'[d] = "booked" <=> entry[d] = "booked"
    BY <1>1
  <2> QED
    BY <1>1, <2>1 DEF Inv, BookedOnce
<1> QED
  BY <1>2, <1>3, <1>4, <1>5, <1>6 DEF Inv

LEMMA CancelEntryInv ==
  ASSUME Inv, NEW e \in Entries, CancelEntry(e)
  PROVE  Inv'
<1>1. /\ entry[e] \in {"waiting", "offered"}
      /\ \A w \in Workers : ~(match[w].busy /\ match[w].entry = e)
      /\ \A d \in Entries : entry'[d] = IF d = e THEN "cancelled" ELSE entry[d]
      /\ UNCHANGED <<offer, match, request>>
  BY DEF CancelEntry, Locked, Inv, Typed
<1>2. Typed'
  BY DEF CancelEntry, Inv, Typed, EntryStatuses
<1>3. Locks'
  BY <1>1, BusyMatch DEF Inv, Locks
<1>4. LiveEntries'
  BY <1>1 DEF Inv, LiveEntries, Live
<1>5. OneLiveOffer'
  BY <1>1 DEF Inv, OneLiveOffer, Live
<1>6. BookedOnce'
  <2>1. \A d \in Entries : entry'[d] = "booked" <=> entry[d] = "booked"
    BY <1>1
  <2> QED
    BY <1>1, <2>1 DEF Inv, BookedOnce
<1> QED
  BY <1>2, <1>3, <1>4, <1>5, <1>6 DEF Inv

\* The deadline only turns one kind of live offer into the other.
LEMMA LapseInv ==
  ASSUME Inv, NEW o \in OfferIds, Lapse(o)
  PROVE  Inv'
<1>1. /\ UNCHANGED <<entry, match, request>>
      /\ \A p \in OfferIds : offer'[p] = IF p = o THEN "lapsed" ELSE offer[p]
      /\ offer[o] = "pending"
  BY DEF Lapse, Inv, Typed
<1>2. Typed'
  BY DEF Lapse, Inv, Typed, OfferStatuses
<1>3. \A e \in Entries, a \in Appointments :
        /\ Live(<<e, a>>)' <=> Live(<<e, a>>)
        /\ offer'[<<e, a>>] = "accepted" <=> offer[<<e, a>>] = "accepted"
        /\ offer'[<<e, a>>] = "none" <=> offer[<<e, a>>] = "none"
  BY <1>1 DEF Live, OfferIds
<1>4. Locks'
  BY <1>1, <1>3, BusyMatch DEF Inv, Locks
<1>5. LiveEntries'
  BY <1>1, <1>3 DEF Inv, LiveEntries
<1>6. OneLiveOffer'
  BY <1>1, <1>3 DEF Inv, OneLiveOffer
<1>7. BookedOnce'
  BY <1>1, <1>3 DEF Inv, BookedOnce
<1> QED
  BY <1>2, <1>4, <1>5, <1>6, <1>7 DEF Inv

\* Steps that release a lock or change neither entries, offers nor locks.
LEMMA OtherInv ==
  ASSUME Inv, UNCHANGED <<entry, offer>>,
         request' \in [Requests -> Request \cup {NoRequest}],
         \/ UNCHANGED match
         \/ \E w \in Workers : match' = [match EXCEPT ![w] = NoMatch]
  PROVE  Inv'
<1>1. Typed'
  BY DEF Inv, Typed
<1>2. \A w \in Workers : match'[w] = match[w] \/ match'[w] = NoMatch
  BY DEF Inv, Typed
<1>3. \A w \in Workers : match'[w].busy => match'[w] = match[w]
  BY <1>2 DEF NoMatch
<1>4. Locks'
  BY <1>3 DEF Inv, Locks
<1> QED
  BY <1>1, <1>4, RowsKept

LEMMA ReadInv ==
  ASSUME Inv, NEW h \in Requests, NEW o \in OfferIds,
         NEW answer \in {"accept", "reject"}, ReadOffer(h, o, answer)
  PROVE  Inv'
<1>1. [answer |-> answer, offer |-> o] \in Request
  BY DEF Request
<1> QED
  BY <1>1, OtherInv DEF ReadOffer, Inv, Typed

LEMMA RejectInv ==
  ASSUME Inv, NEW h \in Requests, Reject(h)
  PROVE  Inv'
<1> DEFINE o == request[h].offer
<1>1. request[h] \in Request \cup {NoRequest} /\ request[h].answer = "reject"
  BY DEF Reject, Inv, Typed
<1>2. request[h] \in Request
  BY <1>1 DEF NoRequest
<1>3. o \in OfferIds /\ Live(o)
  BY <1>2 DEF Request, Reject, StillPending, Live
<1>4. offer' = [p \in OfferIds |-> IF p \in {o} THEN "rejected" ELSE offer[p]]
  BY <1>3 DEF Reject, Inv, Typed
<1>5. /\ {o} \subseteq {p \in OfferIds : Live(p)}
      /\ WaitAgain({o}) /\ UNCHANGED match
      /\ request' \in [Requests -> Request \cup {NoRequest}]
  BY <1>3 DEF Reject, Finish, Inv, Typed
<1> HIDE DEF o
<1> QED
  BY <1>4, <1>5, EndInv

LEMMA ExpireInv == Inv /\ ExpireOffers => Inv'
<1> SUFFICES ASSUME Inv, ExpireOffers PROVE Inv'
  OBVIOUS
<1>1. Overdue \subseteq {o \in OfferIds : Live(o)}
  BY DEF Overdue, Live
<1>2. /\ offer' = [o \in OfferIds |-> IF o \in Overdue THEN "expired" ELSE offer[o]]
      /\ WaitAgain(Overdue) /\ UNCHANGED match
      /\ request' \in [Requests -> Request \cup {NoRequest}]
  BY DEF ExpireOffers, Inv, Typed
<1> QED
  BY <1>1, <1>2, EndInv

LEMMA NextInv == Inv /\ [Next]_vars => Inv'
<1> SUFFICES ASSUME Inv, [Next]_vars PROVE Inv'
  OBVIOUS
<1> USE OtherInv
<1>1. ASSUME NEW a \in Appointments, Book(a) \/ CancelAppointment(a) PROVE Inv'
  BY <1>1 DEF Book, CancelAppointment, Inv, Typed
<1>2. ASSUME NEW e \in Entries, Join(e) \/ CancelEntry(e) PROVE Inv'
  BY <1>2, JoinInv, CancelEntryInv
<1>3. ASSUME NEW w \in Workers, Handle(w) PROVE Inv'
  <2>1. CASE \E a \in Appointments, e \in Entries : FindCandidate(w, a, e)
    BY <2>1, FindInv
  <2>2. CASE \E a \in Appointments : NoCandidate(w, a)
    BY <2>2 DEF NoCandidate, Inv, Typed
  <2>3. CASE \E status \in {"pending", "lapsed"} : CreateOffer(w, status)
    BY <2>3, CreateInv
  <2> QED
    BY <1>3, <2>1, <2>2, <2>3 DEF Handle
<1>4. ASSUME NEW w \in Workers, HandlerFails(w) PROVE Inv'
  BY <1>4 DEF HandlerFails, Inv, Typed
<1>5. ASSUME NEW h \in Requests, Answer(h) PROVE Inv'
  <2>1. CASE \E o \in OfferIds, answer \in {"accept", "reject"} :
               ReadOffer(h, o, answer)
    BY <2>1, ReadInv
  <2>2. CASE \E b \in Appointments : Accept(h, b)
    BY <2>2, AcceptInv
  <2>3. CASE Reject(h)
    BY <2>3, RejectInv
  <2>4. CASE AnswerFails(h)
    BY <2>4 DEF AnswerFails, Finish, Inv, Typed
  <2> QED
    BY <1>5, <2>1, <2>2, <2>3, <2>4 DEF Answer
<1>6. ASSUME NEW o \in OfferIds, Lapse(o) PROVE Inv'
  BY <1>6, LapseInv
<1>7. CASE ExpireOffers
  BY <1>7, ExpireInv
<1>8. CASE UNCHANGED vars
  BY <1>8 DEF vars, Inv, Typed
<1> QED
  BY <1>1, <1>2, <1>3, <1>4, <1>5, <1>6, <1>7, <1>8 DEF Next

\* Inv holds in every reachable state.
THEOREM Invariance == Spec => []Inv
BY InitInv, NextInv, PTL DEF Spec

\* An entry never has two live offers, and one shown as offered has one.
THEOREM LiveOffersAreUnique == Spec => []OneLiveOffer
<1>1. Inv => OneLiveOffer
  BY DEF Inv
<1> QED
  BY Invariance, <1>1, PTL

\* No race of acceptances, rejections and the expiry books an entry twice.
THEOREM EntriesAreBookedOnce == Spec => []BookedOnce
<1>1. Inv => BookedOnce
  BY DEF Inv
<1> QED
  BY Invariance, <1>1, PTL
-----------------------------------------------------------------------------
(* The refinement: each step is a step of Offers or leaves it unchanged.   *)

LiveOnes == Having({"pending", "lapsed"})
WonOnes == Having({"accepted"})
LostOnes == Having({"rejected", "expired"})

Stutter == UNCHANGED <<LiveOnes, WonOnes, LostOnes>>

\* Promise!Next with the three sets by their names.
PromisedStep ==
  \/ \E e \in Entries, a \in Appointments :
       /\ ~ \E o \in LiveOnes \cup WonOnes : o[1] = e
       /\ <<e, a>> \notin LostOnes
       /\ LiveOnes' = LiveOnes \cup {<<e, a>>}
       /\ UNCHANGED <<WonOnes, LostOnes>>
  \/ \E o \in LiveOnes :
       /\ LiveOnes' = LiveOnes \ {o}
       /\ WonOnes' = WonOnes \cup {o}
       /\ UNCHANGED LostOnes
  \/ \E ended \in SUBSET LiveOnes :
       /\ ended # {}
       /\ LiveOnes' = LiveOnes \ ended
       /\ LostOnes' = LostOnes \cup ended
       /\ UNCHANGED WonOnes

LEMMA StutterStep == ASSUME UNCHANGED offer PROVE Stutter
BY DEF Stutter, LiveOnes, WonOnes, LostOnes, Having

LEMMA CreateStep ==
  ASSUME Inv, NEW w \in Workers,
         NEW status \in {"pending", "lapsed"}, CreateOffer(w, status)
  PROVE  PromisedStep
<1> DEFINE e == match[w].entry
           a == match[w].appointment
<1>1. /\ e \in Entries /\ a \in Appointments
      /\ entry[e] = "waiting" /\ offer[<<e, a>>] = "none"
  BY BusyMatch DEF CreateOffer, Inv, Locks
<1>2. offer' = [offer EXCEPT ![<<e, a>>] = status]
  BY DEF CreateOffer
<1> HIDE DEF e, a
<1>3. \A o \in OfferIds : offer'[o] = IF o = <<e, a>> THEN status ELSE offer[o]
  BY <1>2 DEF Inv, Typed
<1>4. <<e, a>> \in OfferIds
  BY <1>1 DEF OfferIds
<1>5. \A o \in LiveOnes \cup WonOnes : o[1] # e
  <2>1. \A b \in Appointments : offer[<<e, b>>] \notin {"pending", "lapsed", "accepted"}
    BY <1>1 DEF Inv, LiveEntries, BookedOnce, Live
  <2> QED
    BY <2>1 DEF LiveOnes, WonOnes, Having, OfferIds
<1>6. /\ <<e, a>> \notin LostOnes
      /\ LiveOnes' = LiveOnes \cup {<<e, a>>}
      /\ UNCHANGED <<WonOnes, LostOnes>>
  BY <1>1, <1>3, <1>4 DEF LiveOnes, WonOnes, LostOnes, Having
<1> QED
  BY <1>1, <1>5, <1>6 DEF PromisedStep

LEMMA AcceptStep ==
  ASSUME Inv, NEW h \in Requests, NEW b \in Appointments, Accept(h, b)
  PROVE  PromisedStep
<1> DEFINE o == request[h].offer
<1>1. request[h] \in Request \cup {NoRequest} /\ request[h].answer = "accept"
  BY DEF Accept, Inv, Typed
<1>2. request[h] \in Request
  BY <1>1 DEF NoRequest
<1>3. /\ o \in OfferIds /\ offer[o] = "pending"
      /\ offer' = [offer EXCEPT ![o] = "accepted"]
  BY <1>2 DEF Request, Accept, StillPending
<1> HIDE DEF o
<1>4. \A p \in OfferIds : offer'[p] = IF p = o THEN "accepted" ELSE offer[p]
  BY <1>3 DEF Inv, Typed
<1>5. /\ o \in LiveOnes
      /\ LiveOnes' = LiveOnes \ {o}
      /\ WonOnes' = WonOnes \cup {o}
      /\ UNCHANGED LostOnes
  BY <1>3, <1>4 DEF LiveOnes, WonOnes, LostOnes, Having
<1> QED
  BY <1>5 DEF PromisedStep

LEMMA EndStep ==
  ASSUME NEW ended, ended # {}, ended \subseteq {o \in OfferIds : Live(o)},
         NEW status \in {"rejected", "expired"},
         offer' = [o \in OfferIds |-> IF o \in ended THEN status ELSE offer[o]]
  PROVE  PromisedStep
<1>1. ended \in SUBSET LiveOnes
  BY DEF LiveOnes, Having, Live
<1>2. \A o \in OfferIds : offer'[o] = IF o \in ended THEN status ELSE offer[o]
  OBVIOUS
<1>3. /\ LiveOnes' = LiveOnes \ ended
      /\ LostOnes' = LostOnes \cup ended
      /\ UNCHANGED WonOnes
  BY <1>1, <1>2 DEF LiveOnes, WonOnes, LostOnes, Having
<1> QED
  BY <1>1, <1>3 DEF PromisedStep

LEMMA RejectStep ==
  ASSUME Inv, NEW h \in Requests, Reject(h)
  PROVE  PromisedStep
<1> DEFINE o == request[h].offer
<1>1. request[h] \in Request \cup {NoRequest} /\ request[h].answer = "reject"
  BY DEF Reject, Inv, Typed
<1>2. request[h] \in Request
  BY <1>1 DEF NoRequest
<1>3. o \in OfferIds /\ Live(o)
  BY <1>2 DEF Request, Reject, StillPending, Live
<1>4. offer' = [p \in OfferIds |-> IF p \in {o} THEN "rejected" ELSE offer[p]]
  BY <1>3 DEF Reject, Inv, Typed
<1>5. {o} # {} /\ {o} \subseteq {p \in OfferIds : Live(p)}
  BY <1>3
<1> HIDE DEF o
<1> QED
  BY <1>4, <1>5, EndStep

LEMMA ExpireStep == ASSUME ExpireOffers PROVE PromisedStep
<1>1. Overdue # {} /\ Overdue \subseteq {o \in OfferIds : Live(o)}
  BY DEF ExpireOffers, Overdue, Live
<1>2. offer' = [o \in OfferIds |-> IF o \in Overdue THEN "expired" ELSE offer[o]]
  BY DEF ExpireOffers
<1> QED
  BY <1>1, <1>2, EndStep

LEMMA LapseStep ==
  ASSUME Inv, NEW o \in OfferIds, Lapse(o)
  PROVE  Stutter
<1>1. /\ offer[o] = "pending"
      /\ \A p \in OfferIds : offer'[p] = IF p = o THEN "lapsed" ELSE offer[p]
  BY DEF Lapse, Inv, Typed
<1> QED
  BY <1>1 DEF Stutter, LiveOnes, WonOnes, LostOnes, Having

LEMMA StepPromised == Inv /\ [Next]_vars => PromisedStep \/ Stutter
<1> SUFFICES ASSUME Inv, [Next]_vars PROVE PromisedStep \/ Stutter
  OBVIOUS
<1>1. ASSUME UNCHANGED offer PROVE Stutter
  BY <1>1, StutterStep
<1>2. ASSUME NEW w \in Workers, Handle(w) \/ HandlerFails(w)
      PROVE  PromisedStep \/ Stutter
  BY <1>1, <1>2, CreateStep DEF Handle, FindCandidate, NoCandidate, HandlerFails
<1>3. ASSUME NEW h \in Requests, Answer(h)
      PROVE  PromisedStep \/ Stutter
  BY <1>1, <1>3, AcceptStep, RejectStep DEF Answer, ReadOffer, AnswerFails
<1>4. ASSUME NEW o \in OfferIds, Lapse(o) PROVE Stutter
  BY <1>4, LapseStep
<1>5. CASE ExpireOffers
  BY <1>5, ExpireStep
<1>6. CASE \/ \E a \in Appointments : Book(a) \/ CancelAppointment(a)
           \/ \E e \in Entries : Join(e) \/ CancelEntry(e)
           \/ UNCHANGED vars
  BY <1>1, <1>6 DEF Book, CancelAppointment, Join, CancelEntry, vars
<1> QED
  BY <1>2, <1>3, <1>4, <1>5, <1>6 DEF Next

\* The waitlist implements Offers: an offer is made once, for an entry that
\* has neither a live nor an accepted one, and ends once.
THEOREM WaitlistImplementsOffers == Spec => ImplementsOffers
<1>1. Init => Promise!Init
  BY DEF Init, Promise!Init, Having
<1>2. PromisedStep \/ Stutter
        => [Promise!Next]_<<LiveOnes, WonOnes, LostOnes>>
  BY DEF PromisedStep, Stutter, Promise!Next, Promise!Make, Promise!Busy,
         Promise!Win, Promise!Lose, LiveOnes, WonOnes, LostOnes
<1>3. Inv /\ [Next]_vars => [Promise!Next]_<<LiveOnes, WonOnes, LostOnes>>
  BY <1>2, StepPromised
<1> QED
  BY <1>1, <1>3, Invariance, PTL
     DEF Spec, ImplementsOffers, Promise!Spec, LiveOnes, WonOnes, LostOnes
=============================================================================
