----------------------------- MODULE Dashboard ------------------------------
(***************************************************************************)
(* The dashboard of a business, in one tab of a browser: who is signed in, *)
(* what is shown and since when, the edits that are on their way, and the  *)
(* three panels that look something up for what is selected: the form that *)
(* moves an appointment, the form of a recurring series and the customers. *)
(*                                                                         *)
(* A refresh asks for everything at once and replaces what is shown when   *)
(* the last answer is there; refreshes may overlap and the last to arrive  *)
(* wins.  An edit is sent, answered, and followed by a refresh under the   *)
(* token it began with.  Signing out empties what is shown but stops       *)
(* nothing; each view is a page of its own, so leaving it stops everything *)
(* but what the server is already doing.                                   *)
(***************************************************************************)
EXTENDS Site

CONSTANTS
  Accounts,  \* owners who may sign in at this browser
  Ours,      \* the one whose business Site is
  Clients    \* customers of the business, numbered from 1

ASSUME OursAssumption == Ours \in Accounts /\ None \notin Accounts
ASSUME ClientsAssumption == IsFiniteSet(Clients) /\ None \notin Clients

VARIABLES
  stored,   \* the token in the storage of the browser
  tab,      \* who is signed in and what is shown
  loads,    \* refreshes under way
  edits,    \* edits under way
  form,     \* the form with slots of the view, if it has one
  lookups,  \* its requests for slots
  card,     \* the customer panel
  reads     \* its requests

tabVars == <<stored, tab, loads, edits>>
formVars == <<form, lookups>>
cardVars == <<card, reads>>
dashboardVars == <<tabVars, formVars, cardVars>>

Views == {"appointments", "recurring", "customers", "setup"}

Nothing == [of |-> None, agenda |-> {}, rules |-> {}, at |-> 0]
NoForm == [appointment |-> None, day |-> None, slots |-> {},
           chosen |-> NoSlot, early |-> FALSE, typed |-> FALSE, base |-> 0]
NoCard == [selected |-> None, detail |-> None, draft |-> None,
           failed |-> FALSE, late |-> FALSE]

\* `told` is the newest version the tab has announced as saved; `crossed`
\* and `older` record what arrived out of its session or out of order.
NewTab(token, view) ==
  [token |-> token, view |-> view, shown |-> Nothing, reviews |-> None,
   told |-> 0, error |-> FALSE, crossed |-> FALSE, older |-> FALSE]

\* A refresh, after the edit of a version (0 for none).
Load(account, v) ==
  [of |-> account, step |-> "sent", read |-> Nothing, tells |-> v]

\* A view is open, with or without a token in the storage.  Where something
\* is done at the public page, the view was opened before anyone signed in;
\* where nothing is done at either, there is nobody to sign in.
DashboardInit ==
  /\ stored \in IF left.owner + left.landing = 0 THEN {None}
                                               ELSE Accounts \cup {None}
  /\ \/ /\ left.landing = 0
        /\ \E v \in Views : tab = NewTab(stored, v)
        /\ loads = IF stored = None THEN {} ELSE {Load(stored, 0)}
     \/ /\ left.landing > 0
        /\ tab = NewTab(None, "setup") /\ loads = {}
  /\ edits = {}
  /\ form = NoForm /\ lookups = {}
  /\ card = NoCard /\ reads = {}

-----------------------------------------------------------------------------
(* The panels follow what is shown.                                        *)

Present(id, sh) == id # None /\ \E a \in sh.agenda : a.id = id

LookUp(d, id) == [day |-> d, id |-> id, live |-> TRUE, step |-> "sent",
                  slots |-> {}]
Stop(requests) == {[r EXCEPT !.live = FALSE] : r \in requests}

\* The effect of the form that moves an appointment, which runs when the day
\* or the appointment is another one: without an appointment it empties the
\* list, else it looks for slots and keeps the old ones until they are there.
MoveFormBecomes(f, there) ==
  IF there
  THEN /\ form' = [f EXCEPT !.chosen = NoSlot]
       /\ lookups' = Stop(lookups) \cup {LookUp(f.day, f.appointment)}
  ELSE /\ form' = [f EXCEPT !.slots = {}]
       /\ lookups' = Stop(lookups)

\* What is shown is replaced: the form of an appointment loses or regains
\* it, and the forms of the setup take the new values, whatever was typed.
FormFollows(sh) ==
  LET before == Present(form.appointment, tab.shown)
      after == Present(form.appointment, sh)
  IN CASE tab.view = "appointments" /\ before # after ->
            MoveFormBecomes(form, after)
       [] tab.view = "setup" ->
            /\ form' = [form EXCEPT !.base = sh.at, !.typed = FALSE]
            /\ UNCHANGED lookups
       [] OTHER -> UNCHANGED formVars

Read(kind, c, a) == [kind |-> kind, client |-> c, of |-> a,
                     live |-> TRUE, step |-> "sent"]

\* The panel selects a customer and asks for the details, for account a.
CardBecomes(c, a) ==
  /\ card' = [card EXCEPT !.selected = c, !.failed = FALSE]
  /\ reads' = {IF r.kind = "detail" THEN [r EXCEPT !.live = FALSE] ELSE r
                 : r \in reads} \cup {Read("detail", c, a)}

\* The first list of customers that is shown selects the first of them.
CardFollows(sh, a) ==
  IF /\ tab.view = "customers" /\ a # None
     /\ card.selected = None /\ sh.of = Ours
  THEN CardBecomes(CHOOSE c \in Clients : \A e \in Clients : c <= e, a)
  ELSE UNCHANGED cardVars

-----------------------------------------------------------------------------
(* Sessions.                                                               *)

SignIn(a) ==
  /\ tab.token = None
  /\ stored' = a
  /\ tab' = [tab EXCEPT !.token = a, !.error = FALSE, !.told = 0]
  /\ loads' = loads \cup {Load(a, 0)}
  /\ FormFollows(tab.shown) /\ CardFollows(tab.shown, a)
  /\ Spend("owner") /\ UNCHANGED edits

\* Mutant of Logout: what is shown stays for the next account.
LogoutMutant ==
  /\ tab.token # None
  /\ stored' = None
  /\ tab' = [tab EXCEPT !.token = None, !.told = 0]
  /\ Spend("owner") /\ UNCHANGED <<loads, edits>>
  /\ form' = NoForm /\ lookups' = {} /\ card' = NoCard /\ reads' = {}

\* Everything shown is emptied except the reviews; the panels are gone, and
\* no form waits for an answer any more.
Logout ==
  /\ tab.token # None
  /\ stored' = None
  /\ tab' = [tab EXCEPT !.token = None, !.shown = Nothing, !.told = 0,
                        !.crossed = FALSE, !.older = FALSE]
  /\ edits' = {[e EXCEPT !.waits = FALSE] : e \in edits}
  /\ Spend("owner") /\ UNCHANGED loads
  /\ form' = NoForm /\ lookups' = {} /\ card' = NoCard /\ reads' = {}

\* A view is opened: a new page, which signs in with the stored token.
OpenView(v) ==
  /\ v # tab.view
  /\ tab' = NewTab(stored, v)
  /\ loads' = IF stored = None THEN {} ELSE {Load(stored, 0)}
  /\ edits' = {[e EXCEPT !.here = FALSE, !.waits = FALSE] : e \in edits}
  /\ form' = NoForm /\ lookups' = {}
  /\ card' = NoCard /\ reads' = {}
  /\ Spend("owner") /\ UNCHANGED stored

Reload ==
  /\ tab.token # None
  /\ tab' = [tab EXCEPT !.error = FALSE]
  /\ loads' = loads \cup {Load(tab.token, 0)}
  /\ Spend("owner") /\ UNCHANGED <<stored, edits, formVars, cardVars>>

-----------------------------------------------------------------------------
(* Refreshes.                                                              *)

AnswerLoad(l) ==
  /\ l.step = "sent"
  /\ loads' = (loads \ {l}) \cup
       {[l EXCEPT !.step = "ok", !.read =
           IF l.of = Ours
           THEN [of |-> l.of, agenda |-> agenda, rules |-> rules,
                 at |-> version]
           ELSE [Nothing EXCEPT !.of = l.of]]}
  /\ UNCHANGED <<siteVars, stored, tab, edits, formVars, cardVars>>

\* The request for the business fails, and with it the refresh; or another
\* one does, and what it asked for counts as empty.
LoseLoad(l) ==
  /\ \/ /\ l.step # "failed"
        /\ loads' = (loads \ {l}) \cup
             {[Load(l.of, l.tells) EXCEPT !.step = "failed"]}
     \/ /\ l.step = "ok" /\ l.read.agenda # {}
        /\ loads' = (loads \ {l}) \cup {[l EXCEPT !.read.agenda = {}]}
  /\ Spend("faults") /\ UNCHANGED <<stored, tab, edits, formVars, cardVars>>

Later(x, y) == IF x < y THEN y ELSE x

\* The refresh is shown, whoever is signed in by now.  The edit before it is
\* announced as saved even if the refresh failed.
RefreshArrives(l) ==
  /\ l.step # "sent"
  /\ loads' = loads \ {l}
  /\ LET told == IF l.of = tab.token THEN Later(tab.told, l.tells)
                                     ELSE tab.told
     IN \/ /\ l.step = "ok"
           /\ tab' = [tab EXCEPT
                !.shown = l.read, !.reviews = l.of, !.told = told,
                !.crossed = l.of # tab.token,
                !.older = l.read.at < tab.told]
           /\ FormFollows(l.read) /\ CardFollows(l.read, tab.token)
        \/ /\ l.step = "failed"
           /\ tab' = [tab EXCEPT !.error = TRUE, !.told = told]
           /\ UNCHANGED <<formVars, cardVars>>
  /\ UNCHANGED <<siteVars, stored, edits>>
-----------------------------------------------------------------------------
(* Edits.  The handlers of the dashboard differ in what they send; all but *)
(* those of the customer panel go on as EditArrives says.                  *)

\* `here` says that the page that sent it is still open, `waits` that the
\* form is.
Edit(what) ==
  [what |-> what, of |-> tab.token, here |-> TRUE, waits |-> TRUE,
   step |-> "sent",
   appointment |-> None, day |-> None, slot |-> NoSlot, early |-> FALSE,
   days |-> {}, base |-> 0, seen |-> 0, at |-> 0]

\* The error shown is cleared, but not by the form of a series.
Send(e) ==
  /\ tab.token = Ours
  /\ tab' = [tab EXCEPT !.error = @ /\ e.what = "series"]
  /\ edits' = edits \cup {e}
  /\ Spend("owner") /\ UNCHANGED <<stored, loads>>

\* An appointment is cancelled from the list that is shown.
CancelAppointment(a) ==
  /\ tab.view = "appointments" /\ a \in tab.shown.agenda
  /\ Send([Edit("cancel") EXCEPT !.appointment = a.id])
  /\ UNCHANGED <<formVars, cardVars>>

\* Something is added to the setup: a service, a professional, a rule.
AddToSetup ==
  /\ tab.view = "setup"
  /\ Send(Edit("setup")) /\ UNCHANGED <<formVars, cardVars>>

\* A form that holds what is there is changed: that of the deposits, of a
\* service or of a professional.  (That of the business is another matter: it
\* is put back to what it sent, which may be older than what is shown.)
Type ==
  /\ tab.view = "setup" /\ tab.shown.of # None /\ tab.token # None
  /\ ~form.typed /\ form' = [form EXCEPT !.typed = TRUE]
  /\ Spend("owner") /\ UNCHANGED <<tabVars, lookups, cardVars>>

\* It is saved with all its values: those it was filled with, and what was
\* typed.  `base` and `seen` are how new these and what is shown are.
SaveForm ==
  /\ tab.view = "setup" /\ form.typed
  /\ Send([Edit("setup") EXCEPT !.base = form.base, !.seen = tab.shown.at])
  /\ UNCHANGED <<formVars, cardVars>>

\* The week is opened: a rule for each day without one in what is shown, in
\* one request per day.
OpenWeek ==
  /\ tab.view = "setup" /\ tab.shown.of = Ours
  /\ Days \ tab.shown.rules # {}
  /\ Send([Edit("week") EXCEPT !.days = Days \ tab.shown.rules])
  /\ UNCHANGED <<formVars, cardVars>>

\* The form that moves an appointment opens on the day it is on.
OpenMoveForm(a) ==
  /\ tab.view = "appointments" /\ tab.token # None
  /\ a \in tab.shown.agenda /\ form.appointment # a.id
  /\ MoveFormBecomes([form EXCEPT !.appointment = a.id, !.day = a.slot.day],
                     TRUE)
  /\ Spend("owner") /\ UNCHANGED <<tabVars, cardVars>>

ChooseMoveDay(d) ==
  /\ tab.view = "appointments" /\ d # form.day
  /\ Present(form.appointment, tab.shown)
  /\ MoveFormBecomes([form EXCEPT !.day = d], TRUE)
  /\ Spend("owner") /\ UNCHANGED <<tabVars, cardVars>>

\* The form of a series looks again whenever its day changes, and empties
\* its list before it does.
ChooseSeriesDay(d) ==
  /\ tab.view = "recurring" /\ tab.token # None /\ d # form.day
  /\ form' = [form EXCEPT !.day = d, !.slots = {}, !.chosen = NoSlot]
  /\ lookups' = Stop(lookups) \cup {LookUp(d, None)}
  /\ Spend("owner") /\ UNCHANGED <<tabVars, cardVars>>

\* `early` records that the slots of the form were being looked up.
ChooseFormSlot(s) ==
  /\ s \in form.slots /\ s # form.chosen
  /\ form' = [form EXCEPT !.chosen = s,
                          !.early = \E r \in lookups : r.live]
  /\ Spend("owner") /\ UNCHANGED <<tabVars, lookups, cardVars>>

\* Either form is sent with a slot of its list.  The form that moves an
\* appointment closes at once, that of a series waits for its answer.
SubmitForm ==
  /\ form.chosen \in form.slots
  /\ \/ /\ Present(form.appointment, tab.shown)
        /\ Send([Edit("move") EXCEPT
                   !.appointment = form.appointment, !.day = form.day,
                   !.slot = form.chosen, !.early = form.early])
        /\ form' = NoForm /\ lookups' = Stop(lookups)
     \/ /\ tab.view = "recurring"
        /\ \A e \in edits : e.what # "series" \/ ~e.waits
        /\ Send([Edit("series") EXCEPT
                   !.day = form.day, !.slot = form.chosen])
        /\ UNCHANGED formVars
  /\ UNCHANGED cardVars

-----------------------------------------------------------------------------
(* The server carries out an edit.                                         *)

Outcome(e, answer) == edits' = (edits \ {e}) \cup {answer}
Accepted(e) == Outcome(e, [e EXCEPT !.step = "ok", !.at = version + 1])
Refusal(e) == Outcome(e, [e EXCEPT !.step = "failed"])

\* The rules of a week are created one by one; a day that has one by now
\* is refused, and the days before it stay open.
AnswerWeek(e) ==
  LET d == CHOOSE f \in e.days : \A g \in e.days : f <= g IN
  \/ d \in rules /\ Refusal(e) /\ UNCHANGED siteVars
  \/ /\ d \notin rules /\ OpenDay(d)
     /\ IF e.days = {d} THEN Accepted(e)
                        ELSE Outcome(e, [e EXCEPT !.days = @ \ {d}])

AnswerEdit(e) ==
  /\ e.step = "sent"
  /\ \/ e.what = "setup" /\ SetUp /\ Accepted(e)
     \/ e.what = "week" /\ AnswerWeek(e)
     \/ /\ e.what = "series"
        /\ \/ e.slot \in Free(e.slot.day) /\ BookAt(e.slot) /\ Accepted(e)
           \/ /\ e.slot \notin Free(e.slot.day)
              /\ Refusal(e) /\ UNCHANGED siteVars
     \/ /\ e.what \in {"cancel", "move"}
        /\ \A a \in agenda : a.id # e.appointment
        /\ Refusal(e) /\ UNCHANGED siteVars
     \/ \E a \in agenda :
          /\ e.what \in {"cancel", "move"} /\ a.id = e.appointment
          /\ \/ e.what = "cancel" /\ Remove(a) /\ Accepted(e)
             \/ /\ e.what = "move" /\ e.slot \in Free(e.slot.day)
                /\ Move(a, e.slot) /\ Accepted(e)
             \/ /\ e.what = "move" /\ e.slot \notin Free(e.slot.day)
                /\ Refusal(e) /\ UNCHANGED siteVars
  /\ UNCHANGED <<stored, tab, loads, formVars, cardVars>>

LoseEdit(e) ==
  /\ e.step # "failed" /\ Refusal(e)
  /\ Spend("faults") /\ UNCHANGED <<stored, tab, loads, formVars, cardVars>>

\* The form of a series is emptied once its series is created, if it is still
\* the one that sent it.
SeriesFormFollows(e) ==
  IF e.what = "series" /\ e.waits /\ e.step = "ok"
  THEN form' = NoForm /\ lookups' = Stop(lookups)
  ELSE UNCHANGED formVars

\* Mutant of EditArrives: the edit is announced without a refresh.
EditArrivesMutant(e) ==
  /\ e.step # "sent"
  /\ edits' = edits \ {e}
  /\ tab' = IF e.here /\ e.of = tab.token
            THEN [tab EXCEPT !.told = Later(tab.told, e.at),
                             !.error = @ \/ e.step = "failed"]
            ELSE tab
  /\ UNCHANGED <<siteVars, stored, loads, formVars, cardVars>>

\* The answer to an edit: a refresh with the token of the edit, or an error
\* and no refresh, whatever part of the edit was carried out; the form of a
\* series keeps its error to itself.  Nobody waits for an answer whose page
\* has been left.
EditArrives(e) ==
  /\ e.step # "sent"
  /\ edits' = edits \ {e}
  /\ loads' = IF e.here /\ e.step = "ok" THEN loads \cup {Load(e.of, e.at)}
                                        ELSE loads
  /\ tab' = IF e.here /\ (e.step = "ok" \/ e.what # "series")
            THEN [tab EXCEPT !.error = e.step = "failed"]
            ELSE tab
  /\ SeriesFormFollows(e)
  /\ UNCHANGED <<siteVars, stored, cardVars>>

-----------------------------------------------------------------------------
(* Slots for the forms.                                                    *)

\* An appointment may stay where it is as far as the list goes; one that is
\* not there any more has no list.
AnswerLookUp(r) ==
  /\ r.step = "sent"
  /\ lookups' = (lookups \ {r}) \cup
       {IF r.id = None \/ \E a \in agenda : a.id = r.id
        THEN [r EXCEPT !.step = "ok", !.slots = FreeFor(r.id, r.day)]
        ELSE [r EXCEPT !.step = "failed"]}
  /\ UNCHANGED <<siteVars, tabVars, form, cardVars>>

LoseLookUp(r) ==
  /\ r.step # "failed"
  /\ lookups' = (lookups \ {r}) \cup
       {[r EXCEPT !.step = "failed", !.slots = {}]}
  /\ Spend("faults") /\ UNCHANGED <<tabVars, form, cardVars>>

\* Only the last request counts: its slots are listed, its failure empties
\* the list.
LookUpArrives(r) ==
  /\ r.step # "sent"
  /\ lookups' = lookups \ {r}
  /\ form' = IF r.live THEN [form EXCEPT !.slots = r.slots] ELSE form
  /\ UNCHANGED <<siteVars, tabVars, cardVars>>

-----------------------------------------------------------------------------
(* The customer panel.                                                     *)

\* Another customer is selected, by a click or by a list without the first.
SelectClient(c) ==
  /\ tab.view = "customers" /\ tab.token # None
  /\ card.selected # None /\ c # card.selected
  /\ CardBecomes(c, tab.token)
  /\ Spend("owner") /\ UNCHANGED <<tabVars, formVars>>

\* The draft, or a note, is sent for the customer whose details are shown.
SaveClient ==
  /\ card.detail # None
  /\ reads' = reads \cup {Read("save", card.detail, tab.token)}
  /\ Spend("owner") /\ UNCHANGED <<tabVars, formVars, card>>

AnswerRead(r) ==
  /\ r.step = "sent"
  /\ reads' = (reads \ {r}) \cup
       {[r EXCEPT !.step = IF r.of = Ours THEN "ok" ELSE "failed"]}
  /\ UNCHANGED <<siteVars, tabVars, formVars, card>>

LoseRead(r) ==
  /\ r.step # "failed"
  /\ reads' = (reads \ {r}) \cup {[r EXCEPT !.step = "failed"]}
  /\ Spend("faults") /\ UNCHANGED <<tabVars, formVars, card>>

\* Mutant of DetailArrives: the details of a customer who is no longer
\* selected are shown too.
DetailArrivesMutant(r) ==
  /\ r.kind = "detail"
  /\ card' = IF r.step = "ok"
             THEN [card EXCEPT !.detail = r.client, !.draft = r.client,
                               !.late = FALSE]
             ELSE [card EXCEPT !.failed = TRUE]

\* The details and the draft become those of the customer, if selected yet.
DetailArrives(r) ==
  /\ r.kind = "detail"
  /\ card' = CASE ~r.live -> card
               [] r.live /\ r.step = "ok" ->
                    [card EXCEPT !.detail = r.client, !.draft = r.client,
                                 !.late = FALSE]
               [] OTHER -> [card EXCEPT !.failed = TRUE]

\* What was saved becomes the details, whoever is selected by now, and the
\* draft stays; `late` records that it is somebody else.
SaveArrives(r) ==
  /\ r.kind = "save"
  /\ card' = IF r.step = "failed" THEN card
             ELSE [card EXCEPT !.detail = r.client,
                               !.late = r.client # card.selected]

ReadArrives(r) ==
  /\ r.step # "sent"
  /\ reads' = reads \ {r}
  /\ DetailArrives(r) \/ SaveArrives(r)
  /\ UNCHANGED <<siteVars, tabVars, formVars>>

-----------------------------------------------------------------------------
DashboardNext ==
  \/ \E a \in Accounts : SignIn(a)
  \/ \E v \in Views : OpenView(v)
  \/ Logout \/ Reload
  \/ \E l \in loads : AnswerLoad(l) \/ LoseLoad(l) \/ RefreshArrives(l)
  \/ \E a \in tab.shown.agenda : CancelAppointment(a) \/ OpenMoveForm(a)
  \/ AddToSetup \/ Type \/ SaveForm \/ OpenWeek \/ SubmitForm
  \/ \E d \in Days : ChooseMoveDay(d) \/ ChooseSeriesDay(d)
  \/ \E s \in Slots : ChooseFormSlot(s)
  \/ \E e \in edits : AnswerEdit(e) \/ LoseEdit(e) \/ EditArrives(e)
  \/ \E r \in lookups : AnswerLookUp(r) \/ LoseLookUp(r) \/ LookUpArrives(r)
  \/ \E c \in Clients : SelectClient(c)
  \/ SaveClient
  \/ \E r \in reads : AnswerRead(r) \/ LoseRead(r) \/ ReadArrives(r)

-----------------------------------------------------------------------------
(* Whoever is signed in is shown the data of their own account, unless a   *)
(* refresh that another session of the tab had begun arrived meanwhile:    *)
(* signing out empties what is shown and stops nothing.  (Reviews are not  *)
(* emptied, and not meant here.)                                           *)
OwnDataShown ==
  tab.token # None => tab.shown.of \in {None, tab.token} \/ tab.crossed

\* When nothing is under way and no error is shown, what is shown is at
\* least as new as every edit announced as saved, unless a refresh that was
\* answered before such an edit arrived after it was announced.
EditsAreShown ==
  \/ loads # {} \/ tab.error \/ tab.older \/ tab.shown.of # tab.token
  \/ \E e \in edits : e.here
  \/ tab.shown.at >= tab.told

\* What a form sends agrees with what stands beside it.  A form that moves
\* an appointment or makes a series sends a slot of the day it shows; the
\* first may not if the slot was picked while the slots of that day were
\* being looked up, the second always does.  A form of the setup never sends
\* back values older than those shown, and so undoes no change its owner has
\* already seen.
FormsSendWhatTheyShow ==
  \A e \in edits :
    /\ e.what = "move" => e.slot.day = e.day \/ e.early
    /\ e.what = "series" => e.slot.day = e.day
    /\ e.what = "setup" => e.base = e.seen

\* Once they have arrived, the details shown and the draft beside them are
\* those of the customer selected, unless something saved for another one
\* arrived after the selection had changed.
DetailIsSelected ==
  \/ card.late \/ card.failed
  \/ \E r \in reads : r.kind = "detail" /\ r.live
  \/ card.detail = card.selected /\ card.draft = card.selected
=============================================================================
