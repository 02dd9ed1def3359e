------------------------------ MODULE Landing -------------------------------
(***************************************************************************)
(* The public page of the business as one visitor sees it.  If the browser *)
(* holds the token of its owner, the page lists the services and the       *)
(* professionals with buttons and forms of their own.  The token is read   *)
(* from the storage, which the dashboard in another tab changes, each time *)
(* something is sent: when the page is loaded, with an edit, and again     *)
(* with the refresh that follows the edit.                                 *)
(***************************************************************************)
EXTENDS Dashboard

VARIABLES
  landing,  \* what the page shows
  visits    \* its requests

landingVars == <<landing, visits>>

\* `managed` is the account whose setup is shown with buttons, None if there
\* are none; `typed` and `base` are of the form that is open, as in the
\* dashboard; `told` is the newest edit that the page has announced.
NoPage == [managed |-> None, at |-> 0, told |-> 0, typed |-> FALSE,
           base |-> 0, crossed |-> FALSE, older |-> FALSE]

\* A request with a token; `whose` is the account its row belongs to, and
\* `tells` the edit that a refresh will announce.
PageRequest(kind, token) ==
  [kind |-> kind, of |-> token, whose |-> None, here |-> TRUE,
   step |-> "sent", at |-> 0, tells |-> 0, base |-> 0, seen |-> 0]

LandingInit == landing = NoPage /\ visits = {}

Frozen == \E r \in visits : r.here /\ r.step = "asked"
Unaware == UNCHANGED <<tabVars, formVars, cardVars>>

\* The page is opened, or opened again: what was under way is forgotten.
Visit ==
  /\ ~Frozen /\ landing' = NoPage
  /\ visits' = {[r EXCEPT !.here = FALSE] : r \in {e \in visits :
                   e.kind \in {"save", "delete"} /\ e.step = "sent"}}
                 \cup {PageRequest("visit", stored)}
  /\ Spend("landing") /\ Unaware

\* A row is changed: its form is filled with what is shown.
TypeRow ==
  /\ landing.managed # None /\ ~landing.typed /\ ~Frozen
  /\ landing' = [landing EXCEPT !.typed = TRUE]
  /\ UNCHANGED <<siteVars, visits>> /\ Unaware

SendRow(kind, step) ==
  /\ landing.managed # None /\ stored # None /\ ~Frozen
  /\ visits' = visits \cup
       {[PageRequest(kind, stored) EXCEPT
           !.whose = landing.managed, !.step = step,
           !.base = landing.base, !.seen = landing.at]}
  /\ Unaware

\* The form of a row is sent; it closes when the row is saved.
SaveRow ==
  /\ landing.typed /\ SendRow("save", "sent")
  /\ Spend("landing") /\ UNCHANGED landing

\* The page waits for a confirmation with the token it has read already.
DeleteRow == SendRow("delete", "asked") /\ Spend("landing")
                                        /\ UNCHANGED landing

Confirm(r) ==
  /\ r.step = "asked"
  /\ visits' = visits \ {r}
       \/ visits' = (visits \ {r}) \cup {[r EXCEPT !.step = "sent"]}
  /\ UNCHANGED <<siteVars, landing>> /\ Unaware

\* The server: a row is changed for the account it belongs to only; one that
\* was deleted is still there to be changed.  (Changes of another account are
\* numbered along.)
Answers(r, answer) == visits' = (visits \ {r}) \cup {answer}

AnswerVisit(r) ==
  /\ r.step = "sent"
  /\ \/ /\ r.kind \in {"visit", "refresh"}
        /\ Answers(r, [r EXCEPT !.step = "ok", !.at = version])
        /\ UNCHANGED siteVars
     \/ /\ r.kind \in {"save", "delete"} /\ r.of = r.whose
        /\ Answers(r, [r EXCEPT !.step = "ok", !.at = version + 1])
        /\ SetUp
     \/ /\ r.kind \in {"save", "delete"} /\ r.of # r.whose
        /\ Answers(r, [r EXCEPT !.step = "failed"])
        /\ UNCHANGED siteVars
  /\ UNCHANGED landing /\ Unaware

\* An answer is lost, or that about the account alone, which the page then
\* takes to be nobody's.
LoseVisit(r) ==
  /\ r.step \in {"sent", "ok"}
  /\ \/ Answers(r, [r EXCEPT !.step = "failed"])
     \/ /\ r.kind = "visit" /\ r.step = "ok" /\ r.of # None
        /\ Answers(r, [r EXCEPT !.of = None])
  /\ Spend("faults") /\ UNCHANGED landing /\ Unaware

\* Mutant of VisitArrives: any owner has the buttons.
VisitArrivesMutant(r) ==
  /\ r.kind = "visit"
  /\ visits' = visits \ {r}
  /\ landing' = IF r.here /\ r.step = "ok"
                THEN [landing EXCEPT !.managed = r.of,
                                     !.at = r.at, !.base = r.at]
                ELSE landing

\* The page is shown, with the buttons if the account is that of the page.
VisitArrives(r) ==
  /\ r.kind = "visit"
  /\ visits' = visits \ {r}
  /\ landing' = IF r.here /\ r.step = "ok"
                THEN [landing EXCEPT
                        !.managed = IF r.of = Ours THEN Ours ELSE None,
                        !.at = r.at, !.base = r.at]
                ELSE landing

\* A row is saved: the page refreshes itself with the token that is stored by
\* now, if there is one.
RowArrives(r) ==
  /\ r.kind \in {"save", "delete"}
  /\ visits' = (visits \ {r}) \cup
       {[PageRequest("refresh", stored) EXCEPT !.tells = r.at, !.whose = r.whose]
          : x \in {y \in {r} : r.here /\ r.step = "ok" /\ stored # None}}
  /\ UNCHANGED landing

\* What the token gives is shown, whosever it is, and the edit announced; the
\* forms take the new values.
RefreshedArrives(r) ==
  /\ r.kind = "refresh"
  /\ visits' = visits \ {r}
  /\ landing' = IF r.here /\ r.step = "ok"
                THEN [landing EXCEPT
                        !.managed = r.of, !.at = r.at, !.base = r.at,
                        !.typed = FALSE, !.told = Later(@, r.tells),
                        !.crossed = @ \/ r.of # r.whose,
                        !.older = r.at < landing.told]
                ELSE landing

LandingArrives(r) ==
  /\ r.step \in {"ok", "failed"}
  /\ VisitArrives(r) \/ RowArrives(r) \/ RefreshedArrives(r)
  /\ UNCHANGED siteVars /\ Unaware

LandingNext ==
  \/ Visit \/ TypeRow \/ SaveRow \/ DeleteRow
  \/ \E r \in visits : \/ Confirm(r) \/ AnswerVisit(r)
                       \/ LoseVisit(r) \/ LandingArrives(r)

-----------------------------------------------------------------------------
(* The page of a business gives its buttons to the owner of that business  *)
(* alone, unless the account stored changed between an edit and its        *)
(* refresh; it shows every edit it has announced, unless the refreshes of  *)
(* two edits crossed; and no form of it sends back values older than those *)
(* beside it.                                                              *)
LandingIsCurrent ==
  /\ landing.managed \in {None, Ours} \/ landing.crossed
  /\ landing.at >= landing.told \/ landing.older
  /\ \A r \in visits : r.kind = "save" => r.base = r.seen
=============================================================================
