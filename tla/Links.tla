-------------------------------- MODULE Links -------------------------------
(***************************************************************************)
(* The pages that a customer opens from a mail: the one that moves or      *)
(* cancels one appointment, and the portal, which lists all appointments   *)
(* of the customer.                                                        *)
(*                                                                         *)
(* The page of an appointment has a form that moves it and another that    *)
(* cancels it; neither waits for the other.  The portal asks for its list  *)
(* again after everything it does, and does not look which of the answers  *)
(* is the newest.                                                          *)
(***************************************************************************)
EXTENDS Site

VARIABLES
  manage,  \* the page of the appointment Linked
  asked,   \* its requests, with their answers once there are any
  moved,   \* what the server has moved for it, as it was asked for
  portal,  \* the portal
  wanted,  \* its requests
  mine     \* the appointments of its customer

linksVars == <<manage, asked, moved, portal, wanted, mine>>

Linked == 1

Unknown == [slot |-> NoSlot, active |-> FALSE]

Ask(kind, d) ==
  [kind |-> kind, day |-> d, live |-> TRUE, step |-> "sent",
   slot |-> NoSlot, early |-> FALSE, slots |-> {}, read |-> Unknown]

Want(kind, id) ==
  [kind |-> kind, id |-> id, live |-> TRUE, step |-> "sent",
   slot |-> NoSlot, list |-> {}]

\* The pages when they are opened, if they are.  `blind` says that somebody
\* else may change what the page shows, or that an answer was lost; `early`
\* is explained below and `hurried` with the portal.
LinksInit ==
  /\ manage = [shown |-> Unknown, cancelled |-> FALSE, day |-> None,
               slots |-> {}, chosen |-> NoSlot, early |-> FALSE,
               cancelling |-> FALSE, moving |-> FALSE,
               blind |-> left.owner + left.portal > 0]
  /\ asked = IF left.link = 0 THEN {} ELSE {Ask("load", None)}
  /\ moved = {}
  /\ portal = [open |-> left.portal > 0, list |-> {}, busy |-> None,
               error |-> FALSE, hurried |-> FALSE,
               blind |-> left.owner + left.link > 0]
  /\ wanted = IF left.portal = 0 THEN {} ELSE {Want("list", None)}
  /\ mine = {Linked}

manageVars == <<manage, asked, moved>>
portalVars == <<portal, wanted, mine>>

-----------------------------------------------------------------------------
(* The page of an appointment.                                             *)

\* Mutant of Changeable: what is known of the appointment is enough.
ChangeableMutant == manage.shown.active

\* The forms can be used: the appointment is known to be active, and the
\* page has not been told that it cancelled it.
Changeable == manage.shown.active /\ ~manage.cancelled

Searching == \E c \in asked : c.kind = "slots" /\ c.live

Ignore(cs) ==
  {IF c.kind = "slots" THEN [c EXCEPT !.live = FALSE] ELSE c : c \in cs}

\* The effect that follows the appointment and the day: it forgets the slot
\* that was chosen and looks for slots, or empties the list.  The slots of
\* the day before stay until the answer arrives.
Follow(m, cs) ==
  IF m.shown.active
  THEN /\ manage' = [m EXCEPT !.chosen = NoSlot]
       /\ asked' = Ignore(cs) \cup {Ask("slots", m.day)}
  ELSE manage' = [m EXCEPT !.slots = {}] /\ asked' = Ignore(cs)

ChooseLinkDay(d) ==
  /\ Changeable /\ d # manage.day
  /\ Follow([manage EXCEPT !.day = d], asked)
  /\ Spend("link") /\ UNCHANGED <<moved, portalVars>>

\* `early` records that slots were being looked for.
ChooseLinkSlot(s) ==
  /\ Changeable /\ s \in manage.slots /\ s # manage.chosen
  /\ manage' = [manage EXCEPT !.chosen = s, !.early = Searching]
  /\ Spend("link") /\ UNCHANGED <<asked, moved, portalVars>>

SubmitMove ==
  /\ Changeable /\ ~manage.moving /\ manage.chosen \in manage.slots
  /\ manage' = [manage EXCEPT !.moving = TRUE]
  /\ asked' = asked \cup {[Ask("move", manage.day) EXCEPT
                             !.slot = manage.chosen, !.early = manage.early]}
  /\ Spend("link") /\ UNCHANGED <<moved, portalVars>>

SubmitCancel ==
  /\ Changeable /\ ~manage.cancelling
  /\ manage' = [manage EXCEPT !.cancelling = TRUE]
  /\ asked' = asked \cup {Ask("cancel", None)}
  /\ Spend("link") /\ UNCHANGED <<moved, portalVars>>

\* What the server tells of an appointment.
Known(id) == IF \E a \in agenda : a.id = id
             THEN [slot |-> (CHOOSE a \in agenda : a.id = id).slot,
                   active |-> TRUE]
             ELSE Unknown

AnswerIs(c, answer) == asked' = (asked \ {c}) \cup {answer}

\* The server changes the appointment, if it is active and the slot free.
AnswerChange(c) ==
  \/ \E a \in agenda :
       /\ a.id = Linked
       /\ \/ /\ c.kind = "cancel" /\ Remove(a) /\ UNCHANGED moved
             /\ AnswerIs(c, [c EXCEPT !.step = "ok"])
          \/ /\ c.kind = "move" /\ c.slot \in Free(c.slot.day)
             /\ Move(a, c.slot)
             /\ moved' = moved \cup
                  {[day |-> c.day, slot |-> c.slot, early |-> c.early]}
             /\ AnswerIs(c, [c EXCEPT !.step = "ok"])
          \/ /\ c.kind = "move" /\ c.slot \notin Free(c.slot.day)
             /\ AnswerIs(c, [c EXCEPT !.step = "failed"])
             /\ UNCHANGED <<siteVars, moved>>
  \/ /\ c.kind \in {"cancel", "move"} /\ ~Known(Linked).active
     /\ AnswerIs(c, [c EXCEPT !.step = "failed"])
     /\ UNCHANGED <<siteVars, moved>>

AnswerAsked(c) ==
  /\ c.step = "sent" /\ UNCHANGED <<manage, portalVars>>
  /\ \/ AnswerChange(c)
     \/ /\ c.kind = "load"
        /\ AnswerIs(c, [c EXCEPT !.step = "ok", !.read = Known(Linked)])
        /\ UNCHANGED <<siteVars, moved>>
     \/ /\ c.kind = "slots"
        /\ AnswerIs(c, IF Known(Linked).active
                       THEN [c EXCEPT !.step = "ok",
                                      !.slots = FreeFor(Linked, c.day)]
                       ELSE [c EXCEPT !.step = "failed"])
        /\ UNCHANGED <<siteVars, moved>>

\* A request does not get through, or its answer does not.
LoseAsked(c) ==
  /\ c.step # "failed"
  /\ AnswerIs(c, [c EXCEPT !.step = "failed", !.slots = {}])
  /\ manage' = [manage EXCEPT !.blind = @ \/ /\ c.step = "ok"
                                             /\ c.kind \in {"cancel", "move"}]
  /\ Spend("faults") /\ UNCHANGED <<moved, portalVars>>

LinkArrives(c) ==
  /\ c.kind = "load"
  /\ IF c.step = "ok"
     THEN Follow([manage EXCEPT !.shown = c.read, !.day = c.read.slot.day],
                 asked \ {c})
     ELSE UNCHANGED manage /\ asked' = asked \ {c}

LinkSlotsArrive(c) ==
  /\ c.kind = "slots"
  /\ manage' = IF c.live THEN [manage EXCEPT !.slots = c.slots] ELSE manage
  /\ asked' = asked \ {c}

\* The appointment becomes what the answer says, with its new day.
MoveArrives(c) ==
  /\ c.kind = "move"
  /\ LET m == [manage EXCEPT !.moving = FALSE] IN
     IF c.step = "ok"
     THEN Follow([m EXCEPT !.shown = [slot |-> c.slot, active |-> TRUE],
                           !.day = c.slot.day], asked \ {c})
     ELSE manage' = m /\ asked' = asked \ {c}

\* A cancellation is remembered beside the appointment.
CancelArrives(c) ==
  /\ c.kind = "cancel"
  /\ LET m == [manage EXCEPT !.cancelling = FALSE] IN
     IF c.step = "ok"
     THEN Follow([m EXCEPT !.shown.active = FALSE, !.cancelled = TRUE],
                 asked \ {c})
     ELSE manage' = m /\ asked' = asked \ {c}

AskedArrives(c) ==
  /\ c.step # "sent"
  /\ \/ LinkArrives(c) \/ LinkSlotsArrive(c) \/ MoveArrives(c)
     \/ CancelArrives(c)
  /\ UNCHANGED <<siteVars, moved, portalVars>>

-----------------------------------------------------------------------------
(* The portal.                                                             *)

\* The customer acts; `hurried` records that something was under way.
Act(w, p) ==
  /\ wanted' = wanted \cup {w}
  /\ portal' = [p EXCEPT !.hurried = @ \/ wanted # {}]
  /\ Spend("portal") /\ UNCHANGED <<manageVars, mine>>

\* A row that is active can be cancelled, another one booked again at a time
\* that the customer types.  Only the row acted on last has its buttons off.
CancelMine(r) ==
  /\ portal.open /\ r \in portal.list /\ r.active /\ portal.busy # r.id
  /\ Act(Want("cancel", r.id), [portal EXCEPT !.busy = r.id])

Rebook(r, s) ==
  /\ portal.open /\ r \in portal.list /\ ~r.active /\ portal.busy # r.id
  /\ Act([Want("rebook", r.id) EXCEPT !.slot = s],
         [portal EXCEPT !.busy = r.id])

\* The page is left: requests go on, but nobody waits for them.
Gone == [portal EXCEPT !.open = FALSE, !.list = {}, !.busy = None,
                       !.error = FALSE]
Deserted(ws) == {[w EXCEPT !.live = FALSE] : w \in ws}

PortalLogout ==
  /\ portal.open /\ portal' = Gone /\ wanted' = Deserted(wanted)
  /\ Spend("portal") /\ UNCHANGED <<manageVars, mine>>

\* The customer follows another login link.
FollowLoginLink ==
  /\ ~portal.open /\ \A w \in wanted : w.kind # "session"
  /\ Act(Want("session", None), portal)

MyList == {[id |-> i, slot |-> Known(i).slot, active |-> Known(i).active]
             : i \in mine}

WantIs(w, answer) == wanted' = (wanted \ {w}) \cup {answer}

AnswerWanted(w) ==
  /\ w.step = "sent" /\ UNCHANGED <<manageVars, portal>>
  /\ \/ /\ w.kind \in {"session", "list", "again"}
        /\ WantIs(w, [w EXCEPT !.step = "ok",
             !.list = IF w.kind = "session" THEN {} ELSE MyList])
        /\ UNCHANGED <<siteVars, mine>>
     \/ \E a \in agenda :
          /\ w.kind = "cancel" /\ a.id = w.id /\ Remove(a)
          /\ WantIs(w, [w EXCEPT !.step = "ok"]) /\ UNCHANGED mine
     \/ /\ w.kind = "rebook" /\ w.slot \in Free(w.slot.day)
        /\ BookAt(w.slot) /\ mine' = mine \cup {version + 1}
        /\ WantIs(w, [w EXCEPT !.step = "ok"])
     \/ /\ \/ w.kind = "cancel" /\ ~Known(w.id).active
           \/ w.kind = "rebook" /\ w.slot \notin Free(w.slot.day)
        /\ WantIs(w, [w EXCEPT !.step = "failed"])
        /\ UNCHANGED <<siteVars, mine>>

\* A request does not get through, or its answer does not, or the session
\* has expired before it is answered.
LoseWanted(w) ==
  /\ w.step \in {"sent", "ok"}
  /\ \E step \in IF w.step = "sent" THEN {"failed", "denied"}
                                    ELSE {"failed"} :
       WantIs(w, [w EXCEPT !.step = step, !.list = {}])
  /\ portal' = [portal EXCEPT !.blind = @ \/ /\ w.step = "ok"
                                             /\ w.kind \in {"cancel", "rebook"}]
  /\ Spend("faults") /\ UNCHANGED <<manageVars, mine>>

\* The list is asked for again after what has succeeded, and the buttons of
\* the row come back when it is there.
ChangeArrives(w) ==
  /\ w.kind \in {"cancel", "rebook"}
  /\ IF w.step = "ok"
     THEN /\ portal' = [portal EXCEPT !.error = FALSE]
          /\ wanted' = (wanted \ {w}) \cup {Want("again", w.id)}
     ELSE portal' = [portal EXCEPT !.busy = None] /\ wanted' = wanted \ {w}

\* Without a session the portal gives way to the login page.
ListArrives(w) ==
  /\ w.kind \in {"list", "again"}
  /\ LET p == [portal EXCEPT !.busy = IF w.kind = "again" THEN None ELSE @]
     IN \/ /\ w.step = "ok" /\ portal' = [p EXCEPT !.list = w.list]
           /\ wanted' = wanted \ {w}
        \/ /\ w.step = "failed" /\ portal' = [p EXCEPT !.error = TRUE]
           /\ wanted' = wanted \ {w}
        \/ /\ w.step = "denied" /\ portal' = Gone
           /\ wanted' = Deserted(wanted \ {w})

SessionArrives(w) ==
  /\ w.kind = "session"
  /\ IF w.step = "ok"
     THEN /\ portal' = [portal EXCEPT !.open = TRUE]
          /\ wanted' = (wanted \ {w}) \cup {Want("list", None)}
     ELSE UNCHANGED portal /\ wanted' = wanted \ {w}

WantedArrives(w) ==
  /\ w.step # "sent" /\ UNCHANGED <<siteVars, manageVars, mine>>
  /\ \/ /\ w.live
        /\ ChangeArrives(w) \/ ListArrives(w) \/ SessionArrives(w)
     \/ ~w.live /\ UNCHANGED portal /\ wanted' = wanted \ {w}

LinksNext ==
  \/ \E d \in Days : ChooseLinkDay(d)
  \/ \E s \in Slots : ChooseLinkSlot(s)
  \/ SubmitMove \/ SubmitCancel \/ PortalLogout \/ FollowLoginLink
  \/ \E c \in asked : AnswerAsked(c) \/ LoseAsked(c) \/ AskedArrives(c)
  \/ \E r \in portal.list : CancelMine(r) \/ \E s \in Slots : Rebook(r, s)
  \/ \E w \in wanted : AnswerWanted(w) \/ LoseWanted(w) \/ WantedArrives(w)

-----------------------------------------------------------------------------
(* An appointment is moved to the day that the form showed when the move   *)
(* was confirmed, unless its slot was picked while the slots of that day   *)
(* were being looked for and those of the day before still listed.         *)
MovedAsChosen == \A m \in moved : m.slot.day = m.day \/ m.early

(* Whatever order the answers come in, a page that nobody else interferes  *)
(* with and that waits for nothing offers to change the appointment if and *)
(* only if it is active, and shows the time that it has: in particular a   *)
(* move that is answered after the cancellation does not bring it back.    *)
LinkTellsTruth ==
  \/ manage.blind \/ manage.day = None
  \/ \E c \in asked : c.kind \in {"move", "cancel"}
  \/ IF Changeable THEN Known(Linked) = manage.shown
                   ELSE ~Known(Linked).active

(* A customer who waits for each answer is shown the appointments as they  *)
(* are, whatever fails, unless an error is shown or the answer of a change *)
(* was lost.  One who does not wait may be left with an older list.        *)
PortalIsCurrent ==
  \/ ~portal.open \/ portal.blind \/ portal.hurried \/ portal.error
  \/ wanted # {}
  \/ portal.list = MyList
=============================================================================
