----------------------------- MODULE Customers -----------------------------
(***************************************************************************)
(* One customer of a business and what hangs on her: the risk that the     *)
(* worker calculates from her attendance, the mails that invite her to     *)
(* review an appointment or to come back, the deposits of her appointments *)
(* and the links with which she enters the portal.                         *)
(*                                                                         *)
(* The worker handles an event in one transaction, several at a time: it   *)
(* reads the attendance without a lock, writes the row of the customer and *)
(* holds it until the commit.  A campaign claims the customer in one       *)
(* transaction, sends its mail and stores the token of the mail's link     *)
(* afterwards.  Requests that close something check it first and then      *)
(* write it by its id.                                                     *)
(*                                                                         *)
(* Requests that set the status of an appointment do not overlap here:     *)
(* Appointments models those that do and the counters they write, which    *)
(* are counts of the statuses then.                                        *)
(***************************************************************************)
EXTENDS Integers, Sequences, FiniteSets

CONSTANTS
  Appointments,  \* appointments of the customer
  Runs,          \* runs of the reactivation job that may overlap
  Handlers,      \* handlers of requests that check and then write
  PastMissed, PastCame,  \* appointments missed and attended before
  MaxLinks,      \* bound on links to the portal
  MaxSteps       \* bound on changes, requests, errors and crashes together

ASSUME AppointmentsAssumption == IsFiniteSet(Appointments)
ASSUME PastAssumption == PastMissed \in Nat /\ PastCame \in Nat
ASSUME LinksAssumption == MaxLinks \in Nat
ASSUME StepsAssumption == MaxSteps \in Nat

VARIABLES
  status,      \* the status of each appointment
  customer,    \* the row of the customer
  events,      \* events of the appointments, with the state of each handler
  holder,      \* the handler that holds the customer's row, if any
  run,         \* what each run of the job is doing
  letters,     \* mails that asked the customer to come back
  cooldowns,   \* cooldowns that have passed since a campaign
  review,      \* the review of each appointment
  invitations, \* mails that asked for a review
  payment,     \* the deposit of each appointment
  link,        \* links to the portal
  request,     \* what each handler of a request has read
  alone,       \* no two requests have worked on one thing together
  settled,     \* the risk need not be out of date: see the actions
  steps

mailing == <<run, letters, cooldowns>>
risk == <<events, holder, settled>>
requests == <<request, alone>>
vars == <<status, customer, risk, mailing, review, invitations, payment,
          link, requests, steps>>

Nobody == 0
Refused == -1   \* in place of the cooldown in which a letter is sent
Idle == [step |-> "idle"]
Finished == {"completed", "no_show"}
Closed == {"rejected", "voided"}
Levels == {"low", "medium", "high"}

NewCustomer ==
  [level |-> "low", deposit |-> FALSE, optOut |-> FALSE, token |-> 0,
   contacted |-> "never", seen |-> "never"]

NoReview == [link |-> 0, rating |-> 0]

Event(type, a) ==
  [type |-> type, appointment |-> a, step |-> "waiting", missed |-> 0,
   came |-> 0, link |-> 0]

Count(s) == Cardinality({a \in Appointments : status[a] = s})
Missed == PastMissed + Count("no_show")
Came == PastCame + Count("completed")

RiskLevel(missed) ==
  CASE missed >= 3 -> "high" [] missed \in 1..2 -> "medium" [] OTHER -> "low"

\* Mutant of NeedsDeposit: what was required before stays required.
NeedsDepositStill(missed, came) == customer.deposit \/ missed > came

\* The customer missed more than half of her finished appointments.
NeedsDeposit(missed, came) == missed > came

Step == steps < MaxSteps /\ steps' = steps + 1
Working(i) == events[i].step \notin {"waiting", "done"}
-----------------------------------------------------------------------------
Init ==
  /\ status = [a \in Appointments |-> "confirmed"]
  /\ customer = [NewCustomer EXCEPT
       !.level = RiskLevel(PastMissed),
       !.deposit = PastMissed > PastCame,
       !.seen = IF PastCame > 0 THEN "recent" ELSE "never"]
  /\ events = <<>> /\ holder = Nobody /\ settled = TRUE
  /\ run = [r \in Runs |-> Idle] /\ letters = <<>> /\ cooldowns = 0
  /\ review = [a \in Appointments |-> NoReview]
  /\ invitations = {}
  /\ payment = [a \in Appointments |-> "none"]
  /\ link = [l \in 1..MaxLinks |-> "none"]
  /\ request = [h \in Handlers |-> Idle] /\ alone = TRUE
  /\ steps = 0

\* The days after which a customer counts as inactive pass.
BecomeInactive ==
  /\ customer.seen = "recent"
  /\ customer' = [customer EXCEPT !.seen = "away"]
  /\ UNCHANGED <<status, risk, mailing, review, invitations, payment, link,
                 requests, steps>>

\* The cooldown passes; it is a matter of days, a run one of minutes.
EndCooldown ==
  /\ customer.contacted = "recent"
  /\ \A r \in Runs : run[r] = Idle
  /\ customer' = [customer EXCEPT !.contacted = "passed"]
  /\ cooldowns' = cooldowns + 1
  /\ UNCHANGED <<status, risk, run, letters, review, invitations, payment,
                 link, requests, steps>>
-----------------------------------------------------------------------------
(* The owner                                                               *)

\* Any status may follow any other, or itself, which is told apart for those
\* whose event makes the worker calculate the risk again.  The risk is not
\* settled when one of them is corrected to something else.
SetStatus(a, s) ==
  /\ Step
  /\ s # status[a] \/ s \in Finished
  /\ holder = Nobody \/ {s, status[a]} \cap Finished = {}
  /\ status' = [status EXCEPT ![a] = s]
  /\ IF s \in Finished
     THEN events' = Append(events, Event(s, a)) /\ UNCHANGED settled
     ELSE /\ settled' = (settled /\ status[a] \notin Finished)
          /\ UNCHANGED events
  /\ UNCHANGED <<customer, holder, mailing, review, invitations, payment,
                 link, requests>>

\* The owner's own choice stands until the next calculation.
RequireDeposit(deposit) ==
  /\ Step
  /\ holder = Nobody
  /\ customer' = [customer EXCEPT !.deposit = deposit]
  /\ settled' = FALSE
  /\ UNCHANGED <<status, events, holder, mailing, review, invitations,
                 payment, link, requests>>

\* The update is of the name and the phone alone.
Upserted(row) == row

\* She is added in the dashboard or by a CSV file, or books once more.
Upsert ==
  /\ Step
  /\ holder = Nobody
  /\ customer' = Upserted(customer)
  /\ UNCHANGED <<status, risk, mailing, review, invitations, payment, link,
                 requests>>
-----------------------------------------------------------------------------
(* The worker calculates the risk and asks for a review                    *)

ReadAttendance(i) ==
  /\ events[i].step = "waiting"
  /\ events' = [events EXCEPT ![i].step = "read",
                              ![i].missed = Missed,
                              ![i].came = Came]
  /\ settled' = (settled /\ \A j \in DOMAIN events : ~Working(j))
  /\ UNCHANGED <<status, customer, holder, mailing, review, invitations,
                 payment, link, requests, steps>>

\* Mutant of LinkToKeep: the row of the review gets the newest link.
LinkToReplace(a, l) == l

\* The insert leaves a row alone that is there already.
LinkToKeep(a, l) == IF review[a].link = 0 THEN l ELSE review[a].link

\* The handler writes the customer's row; after a completed appointment it
\* inserts the review and mails its link.
WriteRisk(i) ==
  LET a == events[i].appointment
      fresh == Cardinality(invitations) + 1
      kept == LinkToKeep(a, fresh)
      inserts == events[i].type = "completed" /\ kept = fresh
  IN /\ events[i].step = "read"
     /\ holder = Nobody
     /\ holder' = i
     /\ events' = [events EXCEPT ![i].step = "written",
                                 ![i].link = IF inserts THEN fresh ELSE 0]
     /\ invitations' = IF inserts
          THEN invitations \cup
                 {[link |-> fresh, appointment |-> a, stored |-> FALSE]}
          ELSE invitations
     /\ UNCHANGED <<status, customer, settled, mailing, review, payment, link,
                    requests, steps>>

Stored(l) ==
  {[v EXCEPT !.stored = @ \/ v.link = l] : v \in invitations}

CommitRisk(i) ==
  LET e == events[i] IN
  /\ e.step = "written"
  /\ customer' = [customer EXCEPT
       !.level = RiskLevel(e.missed),
       !.deposit = NeedsDeposit(e.missed, e.came),
       !.seen = IF e.type = "completed" THEN "recent" ELSE @]
  /\ IF e.link # 0
     THEN /\ review' = [review EXCEPT ![e.appointment].link = e.link]
          /\ invitations' = Stored(e.link)
     ELSE UNCHANGED <<review, invitations>>
  /\ events' = [events EXCEPT ![i].step = "done"]
  /\ holder' = Nobody
  /\ UNCHANGED <<status, settled, mailing, payment, link, requests, steps>>

\* An error, or the end of the worker: the event is delivered again.
FailRisk(i) ==
  /\ Step
  /\ Working(i)
  /\ events' = [events EXCEPT ![i] = Event(@.type, @.appointment)]
  /\ holder' = IF holder = i THEN Nobody ELSE holder
  /\ UNCHANGED <<status, customer, settled, mailing, review, invitations,
                 payment, link, requests>>
-----------------------------------------------------------------------------
(* Campaigns                                                               *)

\* Mutant of Due: the time of the last mail is not looked at.
DueAlways ==
  /\ customer.level # "low"
  /\ ~customer.optOut
  /\ customer.seen = "away"

Due ==
  /\ customer.level # "low"
  /\ ~customer.optOut
  /\ customer.seen = "away"
  /\ customer.contacted # "recent"

\* Rows that are locked are skipped.
Claim(r) ==
  /\ Step
  /\ run[r] = Idle
  /\ holder = Nobody
  /\ Due
  /\ run' = [run EXCEPT ![r] = [step |-> "claimed"]]
  /\ customer' = [customer EXCEPT !.contacted = "recent"]
  /\ UNCHANGED <<status, risk, letters, cooldowns, review, invitations,
                 payment, link, requests>>

\* The mail is sent, or refused; the result is logged.
SendLetter(r) ==
  /\ run[r].step = "claimed"
  /\ run' = [run EXCEPT ![r] = [step |-> "sent",
                                link |-> Len(letters) + 1]]
  /\ \/ UNCHANGED steps /\ letters' = Append(letters, cooldowns)
     \/ Step /\ letters' = Append(letters, Refused)
  /\ UNCHANGED <<status, customer, risk, cooldowns, review, invitations,
                 payment, link, requests>>

\* The token is stored in any case, in place of the one before.
StoreToken(r) ==
  /\ run[r].step = "sent"
  /\ holder = Nobody
  /\ customer' = [customer EXCEPT !.token = run[r].link]
  /\ run' = [run EXCEPT ![r] = Idle]
  /\ UNCHANGED <<status, risk, letters, cooldowns, review, invitations,
                 payment, link, requests, steps>>

\* An error ends the run, or the worker ends.
EndRun(r) ==
  /\ Step
  /\ run[r] # Idle
  /\ run' = [run EXCEPT ![r] = Idle]
  /\ UNCHANGED <<status, customer, risk, letters, cooldowns, review,
                 invitations, payment, link, requests>>

\* The customer follows the link of a mail.
Unsubscribe(l) ==
  /\ Step
  /\ letters[l] # Refused
  /\ customer.token = l
  /\ holder = Nobody
  /\ customer' = [customer EXCEPT !.optOut = TRUE]
  /\ UNCHANGED <<status, risk, mailing, review, invitations, payment, link,
                 requests>>
-----------------------------------------------------------------------------
(* Requests that check and then write                                      *)

\* A request has found what it looks for as it must be.
Begin(h, r) ==
  /\ Step
  /\ request[h] = Idle
  /\ request' = [request EXCEPT ![h] = r]
  /\ alone' = (alone /\ \A g \in Handlers :
                 request[g] = Idle \/ request[g].step # r.step
                                   \/ request[g].of # r.of)
  /\ UNCHANGED <<status, customer, risk, mailing, review, invitations,
                 payment, link>>

Finish(h) == request' = [request EXCEPT ![h] = Idle] /\ UNCHANGED alone

\* The request fails, or its process ends.
Drop(h) ==
  /\ Step
  /\ request[h] # Idle
  /\ Finish(h)
  /\ UNCHANGED <<status, customer, risk, mailing, review, invitations,
                 payment, link>>

\* A deposit is reported with the booking or by the owner.
SubmitPayment(a) ==
  /\ Step
  /\ payment[a] = "none"
  /\ payment' = [payment EXCEPT ![a] = "submitted"]
  /\ UNCHANGED <<status, customer, risk, mailing, review, invitations, link,
                 requests>>

\* Mutant of MayBecome: a closed payment is changed like any other.
MayBecomeAny(old, new) == old # "none" /\ old # new

MayBecome(old, new) == old \notin Closed \cup {"none"} /\ old # new

ReadPayment(h, a, s) ==
  /\ MayBecome(payment[a], s)
  /\ Begin(h, [step |-> "payment", of |-> a, next |-> s])

WritePayment(h) ==
  /\ request[h].step = "payment"
  /\ payment' = [payment EXCEPT ![request[h].of] = request[h].next]
  /\ Finish(h)
  /\ UNCHANGED <<status, customer, risk, mailing, review, invitations, link,
                 steps>>

ReadReview(h, v, rating) ==
  /\ v.link = review[v.appointment].link
  /\ review[v.appointment].rating = 0
  /\ Begin(h, [step |-> "review", of |-> v.appointment, next |-> rating])

WriteReview(h) ==
  /\ request[h].step = "review"
  /\ review' = [review EXCEPT ![request[h].of].rating = request[h].next]
  /\ Finish(h)
  /\ UNCHANGED <<status, customer, risk, mailing, invitations, payment, link,
                 steps>>

\* The link is stored together with the event that makes the worker mail it.
RequestLink(l) ==
  /\ Step
  /\ link[l] = "none"
  /\ link' = [link EXCEPT ![l] = "valid"]
  /\ UNCHANGED <<status, customer, risk, mailing, review, invitations,
                 payment, requests>>

ExpireLink(l) ==
  /\ link[l] = "valid"
  /\ link' = [link EXCEPT ![l] = "expired"]
  /\ UNCHANGED <<status, customer, risk, mailing, review, invitations,
                 payment, requests, steps>>

ReadLink(h, l) ==
  /\ link[l] = "valid"
  /\ Begin(h, [step |-> "link", of |-> l])

\* The update does not look at the row again; the session follows.
WriteLink(h) ==
  /\ request[h].step = "link"
  /\ link' = [link EXCEPT ![request[h].of] =
                IF @ \in {"valid", "expired"} THEN "used" ELSE "reused"]
  /\ Finish(h)
  /\ UNCHANGED <<status, customer, risk, mailing, review, invitations,
                 payment, steps>>
-----------------------------------------------------------------------------
Owner ==
  \/ \E a \in Appointments, s \in Finished \cup {"confirmed", "cancelled"} :
       SetStatus(a, s)
  \/ \E b \in BOOLEAN : RequireDeposit(b)
  \/ Upsert

HandleEvent(i) ==
  ReadAttendance(i) \/ WriteRisk(i) \/ CommitRisk(i) \/ FailRisk(i)

Campaign(r) == Claim(r) \/ SendLetter(r) \/ StoreToken(r) \/ EndRun(r)

Check(h) ==
  \/ \E a \in Appointments, s \in {"confirmed"} \cup Closed :
       ReadPayment(h, a, s)
  \/ \E v \in invitations, n \in 1..2 : ReadReview(h, v, n)
  \/ \E l \in 1..MaxLinks : ReadLink(h, l)

Write(h) == WritePayment(h) \/ WriteReview(h) \/ WriteLink(h)

Next ==
  \/ BecomeInactive \/ EndCooldown
  \/ Owner
  \/ \E i \in DOMAIN events : HandleEvent(i)
  \/ \E r \in Runs : Campaign(r)
  \/ \E l \in DOMAIN letters : Unsubscribe(l)
  \/ \E a \in Appointments : SubmitPayment(a)
  \/ \E l \in 1..MaxLinks : RequestLink(l) \/ ExpireLink(l)
  \/ \E h \in Handlers : Check(h) \/ Write(h) \/ Drop(h)

Spec == Init /\ [][Next]_vars
-----------------------------------------------------------------------------
(* Properties                                                              *)

\* Once every event is handled, a deposit is asked of the customer exactly
\* when she missed more of her appointments than she came to, and her risk is
\* low exactly when she missed none: unless handlers overlapped, the owner
\* chose otherwise or an attendance was taken back without an event
\* (handleCustomerRiskEvent).
RiskFollowsAttendance ==
  settled /\ (\A i \in DOMAIN events : events[i].step = "done") =>
    /\ customer.deposit <=> Missed > Came
    /\ customer.level = "low" <=> Missed = 0

\* However runs overlap and fail, no two mails of the campaign reach the
\* customer within one cooldown (ClaimReactivationTargets).
OneLetterPerCooldown ==
  \A k, l \in DOMAIN letters :
    k # l /\ letters[k] # Refused => letters[k] # letters[l]

\* A link to review an appointment keeps working once the handler that mailed
\* it has committed, however often the appointment is completed again.
InvitationsWork ==
  \A v \in invitations :
    v.stored => review[v.appointment].link = v.link

\* What has been settled stays.  Whatever else is written to her row, a
\* customer who has unsubscribed is never subscribed again and claimed by no
\* campaign.  A deposit that was rejected or voided, a review that was
\* submitted and a link that was used are not changed or used again, unless
\* two requests worked on the same one together.
SettledStays ==
  [][/\ customer.optOut =>
          /\ customer'.optOut
          /\ \A r \in Runs : run[r] = Idle => run'[r] = Idle
     /\ alone' =>
          /\ \A a \in Appointments :
               /\ payment[a] \in Closed => payment'[a] = payment[a]
               /\ review[a].rating # 0 => review'[a] = review[a]
          /\ \A l \in 1..MaxLinks : link'[l] # "reused"]_vars
=============================================================================
