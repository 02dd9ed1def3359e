------------------------------ MODULE Booking -------------------------------
(***************************************************************************)
(* The page on which the public books, in one browser.                     *)
(*                                                                         *)
(* Effects of the page send requests and go on; an answer arrives any time *)
(* later, after which the page may have changed.  An effect that runs      *)
(* again marks its earlier requests as abandoned: the page ignores what    *)
(* they bring, but not their failure, and the request for slots that       *)
(* follows a booking is never abandoned.                                   *)
(*                                                                         *)
(* A booking that the page refuses for its deposit changes nothing here,   *)
(* and the entry in the waiting list is in the module Waitlist.            *)
(***************************************************************************)
EXTENDS Site

VARIABLES
  page,     \* what the page holds
  calls,    \* its requests, with their answers once there are any
  bookings  \* what the server has booked for the page, as it was asked for

bookingVars == <<page, calls, bookings>>

Call(kind, d) ==
  [kind |-> kind, day |-> d, live |-> TRUE, step |-> "sent",
   slot |-> NoSlot, early |-> FALSE, slots |-> {}, next |-> None]

\* The page when it is opened, if it is: it loads the business first.  `first` is the
\* day of the visit, `early` and `overtaken` are explained below.
BookingInit ==
  /\ page = [first |-> 1, loading |-> TRUE, day |-> None, slots |-> {},
             chosen |-> NoSlot, booked |-> {}, busy |-> FALSE,
             next |-> None, early |-> FALSE, overtaken |-> FALSE]
  /\ calls = IF left.customer = 0 THEN {} ELSE {Call("load", 1)}
  /\ bookings = {}

\* What is shown of the slots: those not booked here under the day shown.
Visible == {s \in page.slots : <<page.day, s>> \notin page.booked}

Abandon(cs, kinds) ==
  {IF c.kind \in kinds THEN [c EXCEPT !.live = FALSE] ELSE c : c \in cs}

Looking == \E c \in calls : c.kind = "slots" /\ c.live

-----------------------------------------------------------------------------
(* The day changes: the effect forgets the slot that was chosen and looks  *)
(* for slots.  The slots of the day before stay until the answer arrives.  *)

Showing(p, d) ==
  IF d = p.day THEN p
  ELSE [p EXCEPT !.day = d, !.chosen = NoSlot, !.next = None]

LookFor(p, cs, d) ==
  IF d = p.day THEN cs
  ELSE Abandon(cs, {"slots", "next"}) \cup {Call("slots", d)}

\* The customer picks a day, or follows the link to the next one with slots.
ChooseDay(d) ==
  /\ ~page.loading /\ page.day # None /\ d # page.day
  /\ page' = Showing(page, d)
  /\ calls' = LookFor(page, calls, d)
  /\ Spend("customer") /\ UNCHANGED bookings

\* The customer picks a slot; `early` records that a request for the slots
\* of the day was under way or that the list had been overtaken.
ChooseSlot(s) ==
  /\ ~page.loading /\ s \in Visible /\ s # page.chosen
  /\ page' = [page EXCEPT !.chosen = s,
                          !.early = Looking \/ page.overtaken]
  /\ Spend("customer") /\ UNCHANGED <<calls, bookings>>

\* The customer confirms: the form is not sent twice, and only with a slot
\* that is shown.
Submit ==
  /\ ~page.loading /\ ~page.busy /\ page.chosen \in Visible
  /\ page' = [page EXCEPT !.busy = TRUE]
  /\ calls' = calls \cup {[Call("book", page.day) EXCEPT
                             !.slot = page.chosen, !.early = page.early]}
  /\ Spend("customer") /\ UNCHANGED bookings

\* After midnight the day of the visit is another one: the effect that loads
\* the page runs again, whatever the customer is doing.
Midnight ==
  /\ page.first < LastDay
  /\ page' = [page EXCEPT !.first = @ + 1, !.loading = TRUE]
  /\ calls' = Abandon(calls, {"load"}) \cup {Call("load", page.first + 1)}
  /\ Spend("customer") /\ UNCHANGED bookings

-----------------------------------------------------------------------------
(* The server answers.                                                     *)

Answered(c, answer) == calls' = (calls \ {c}) \cup {answer}

AnswerBooking(c) ==
  \/ /\ c.slot \in Free(c.slot.day)
     /\ BookAt(c.slot)
     /\ bookings' = bookings \cup
          {[day |-> c.day, slot |-> c.slot, early |-> c.early]}
     /\ Answered(c, [c EXCEPT !.step = "ok"])
  \/ /\ c.slot \notin Free(c.slot.day)
     /\ Answered(c, [c EXCEPT !.step = "failed"])
     /\ UNCHANGED <<siteVars, bookings>>

Answer(c) ==
  /\ c.step = "sent"
  /\ UNCHANGED page
  /\ \/ c.kind = "book" /\ AnswerBooking(c)
     \/ /\ c.kind \in {"load", "slots", "again", "next"}
        /\ Answered(c, [c EXCEPT
             !.step = "ok",
             !.slots = IF c.kind \in {"slots", "again"} THEN Free(c.day)
                                                        ELSE {},
             !.next = IF c.kind = "next" THEN NextFree(c.day) ELSE None])
        /\ UNCHANGED <<siteVars, bookings>>

\* A request does not get through, or its answer does not.
Lose(c) ==
  /\ c.step # "failed"
  /\ Answered(c, [Call(c.kind, c.day) EXCEPT
                    !.live = c.live, !.step = "failed", !.slot = c.slot])
  /\ Spend("faults") /\ UNCHANGED <<page, bookings>>

-----------------------------------------------------------------------------
(* An answer arrives.                                                      *)

\* The page is loaded: the form is emptied and shows the day of the visit.
LoadArrives(c) ==
  /\ c.kind = "load"
  /\ LET reset == [page EXCEPT !.chosen = NoSlot, !.loading = FALSE] IN
     \/ /\ c.live /\ c.step = "ok"
        /\ page' = Showing(reset, c.day)
        /\ calls' = LookFor(page, calls \ {c}, c.day)
     \/ /\ c.live /\ c.step = "failed"
        /\ page' = [page EXCEPT !.loading = FALSE]
        /\ calls' = calls \ {c}
     \/ ~c.live /\ UNCHANGED page /\ calls' = calls \ {c}

\* Mutant of SlotsArrive: an abandoned answer is shown like any other.
SlotsArriveMutant(c) ==
  /\ c.kind = "slots"
  /\ \/ /\ c.step = "ok"
        /\ page' = [page EXCEPT !.slots = c.slots, !.overtaken = FALSE]
     \/ /\ c.step = "failed"
        /\ page' = [page EXCEPT !.slots = {}, !.overtaken = FALSE]
  /\ calls' = calls \ {c}

\* The slots of the day; without any, the page looks for the next day that
\* has some.  A failure empties the list even if it was abandoned.
SlotsArrive(c) ==
  /\ c.kind = "slots"
  /\ \/ /\ c.step = "ok" /\ c.live
        /\ page' = [page EXCEPT !.slots = c.slots, !.overtaken = FALSE]
        /\ calls' = (calls \ {c}) \cup
             {Call("next", d) : d \in IF c.slots = {} THEN {c.day} ELSE {}}
     \/ /\ c.step = "ok" /\ ~c.live
        /\ UNCHANGED page /\ calls' = calls \ {c}
     \/ /\ c.step = "failed"
        /\ page' = [page EXCEPT !.slots = {}, !.overtaken = FALSE]
        /\ calls' = calls \ {c}

NextArrives(c) ==
  /\ c.kind = "next"
  /\ page' = CASE c.step = "failed" -> [page EXCEPT !.slots = {}]
               [] c.step = "ok" /\ c.live -> [page EXCEPT !.next = c.next]
               [] OTHER -> page
  /\ calls' = calls \ {c}

\* The answer to a booking.  If it is booked the slot is taken off the list
\* and hidden under its day, the form goes back to the day it was sent with,
\* and the slots of that day are asked for once more.
BookingArrives(c) ==
  /\ c.kind = "book"
  /\ \/ /\ c.step = "ok"
        /\ page' = Showing(
             [page EXCEPT !.busy = FALSE, !.chosen = NoSlot,
                          !.booked = @ \cup {<<c.day, c.slot>>},
                          !.slots = @ \ {c.slot}], c.day)
        /\ calls' = LookFor(page, calls \ {c}, c.day)
                      \cup {Call("again", c.day)}
     \/ /\ c.step = "failed"
        /\ page' = [page EXCEPT !.busy = FALSE]
        /\ calls' = calls \ {c}

\* What was asked for after a booking is shown under whatever day is shown
\* by now; `overtaken` records that it is another one.
AgainArrives(c) ==
  /\ c.kind = "again"
  /\ page' = IF c.step = "failed" THEN page
             ELSE [page EXCEPT !.slots = c.slots,
                               !.overtaken = c.day # page.day]
  /\ calls' = calls \ {c}

Arrive(c) ==
  /\ c.step # "sent"
  /\ \/ LoadArrives(c) \/ SlotsArrive(c) \/ NextArrives(c)
     \/ BookingArrives(c) \/ AgainArrives(c)
  /\ UNCHANGED <<siteVars, bookings>>

BookingNext ==
  \/ \E d \in Days : ChooseDay(d)
  \/ \E s \in Slots : ChooseSlot(s)
  \/ Submit \/ Midnight
  \/ \E c \in calls : Answer(c) \/ Lose(c) \/ Arrive(c)

-----------------------------------------------------------------------------
(* The day of an appointment is the day that the form showed when it was   *)
(* confirmed, unless its slot was picked while the slots of that day were  *)
(* still being fetched, or from a list that the request after an earlier   *)
(* booking had overtaken: the two windows the page leaves open, because it *)
(* keeps the old slots meanwhile and never abandons that request.          *)
BookedAsChosen == \A b \in bookings : b.slot.day = b.day \/ b.early
=============================================================================
