------------------------------ MODULE Catalog -------------------------------
(***************************************************************************)
(* What businesses set up: services, staff members and which of them offer *)
(* a service, weekly rules and exceptions, notification templates, and the *)
(* progress of the onboarding; and what is offered to customers for it.    *)
(*                                                                         *)
(* A handler works for the business of the person who calls it.  Staff     *)
(* members and services stay in their business and are never deleted, so   *)
(* the handlers that check no more than that are one step.  Those that     *)
(* check rules, and the update of the onboarding, read first and write     *)
(* what they have read later, by the identifier of a row alone.            *)
(***************************************************************************)
EXTENDS Integers

CONSTANTS
  Businesses, Services, Staff, Rules, Exceptions,  \* identifiers
  NoOne,      \* none of them
  Days,       \* days of the week; an exception is on the day of one week
  Hours,      \* pairs of times for which rules are created
  Times,      \* times that updates set
  Tasks,      \* tasks of the public page
  Requests,   \* requests that may be in flight together
  MaxWrites   \* bound on what requests change

ASSUME NoOneAssumption ==
  NoOne \notin Businesses \cup Services \cup Staff \cup Rules \cup Days
ASSUME TimesAssumption == Times \subseteq Nat /\ Hours \subseteq Nat \X Nat
ASSUME TasksAssumption ==
  Tasks \cap {"none", "completed", "advanced", "yes"} = {}
ASSUME WritesAssumption == MaxWrites \in Nat

VARIABLES
  service,     \* rows of services
  staff,       \* rows of staff members
  assigned,    \* pairs of a service and a staff member that offers it
  rule,        \* rows of weekly rules
  exception,   \* rows of exceptions
  template,    \* one template of each business
  onboarding,  \* the row of each business's onboarding, and its events
  request,     \* what each request in flight has read
  outdated,    \* staff members and businesses for which a request wrote what
               \* it had checked before another request wrote
  wasReady,    \* businesses whose setup has been complete at some time
  writes

setup == <<service, staff, assigned, exception>>
vars == <<setup, rule, template, onboarding, request, outdated, wasReady,
          writes>>

Steps == <<"business", "service", "staff", "availability", "public_page">>

None == [at |-> NoOne]
Idle == [step |-> "idle"]
Here(row, b) == {i \in DOMAIN row : row[i].at = b}
ActiveHere(row, b) == {i \in Here(row, b) : row[i].active}
-----------------------------------------------------------------------------
(* What is offered                                                         *)

RulesOn(b, d) ==
  {r \in ActiveHere(rule, b) : rule[r].day = d /\ staff[rule[r].staff].active}

ExceptionsOn(b, d, type) ==
  {x \in Here(exception, b) :
     /\ exception[x].day = d /\ exception[x].type = type
     /\ exception[x].staff = NoOne \/ staff[exception[x].staff].active}

AppliesTo(x, m) == exception[x].staff \in {m, NoOne}

\* Staff members with a window that is not blocked.  An extra opening that
\* names nobody is for the staff members in open.
Calculate(b, d, open) ==
  {m \in Staff :
     /\ \/ \E r \in RulesOn(b, d) : rule[r].staff = m
        \/ \E x \in ExceptionsOn(b, d, "extra") :
             exception[x].staff = m \/ (exception[x].staff = NoOne /\ m \in open)
     /\ ~\E x \in ExceptionsOn(b, d, "blocked") : AppliesTo(x, m)}

Assigned(v) == {m \in Staff : <<v, m>> \in assigned}

\* Customers: the assignment limits extra openings alone.
Offered(v, d) ==
  LET b == service[v].at
  IN  IF v \in ActiveHere(service, b)
        THEN Calculate(b, d, IF Assigned(v) = {}
                               THEN ActiveHere(staff, b)
                               ELSE ActiveHere(staff, b) \cap Assigned(v))
        ELSE {}

\* The preview of the owner: no assignments.
Preview(v, d) ==
  LET b == service[v].at
  IN  IF v \in ActiveHere(service, b)
        THEN Calculate(b, d, ActiveHere(staff, b)) ELSE {}
-----------------------------------------------------------------------------
Init ==
  /\ service = [v \in Services |-> None]
  /\ staff = [m \in Staff |-> None]
  /\ assigned = {}
  /\ rule = [r \in Rules |-> None]
  /\ exception = [x \in Exceptions |-> None]
  /\ template = [b \in Businesses |-> "none"]
  /\ onboarding = [b \in Businesses |->
       [current |-> "none", completed |-> FALSE, dismissed |-> FALSE,
        done |-> {}, events |-> {}]]
  /\ request = [h \in Requests |-> Idle]
  /\ outdated = {} /\ wasReady = {}
  /\ writes = 0

At(h, step) == request[h].step = step
Set(h, q) == [request EXCEPT ![h] = q]

\* Requests that have read something about one of the things are outdated.
Outdate(things) == [h \in Requests |->
  IF ~At(h, "idle") /\ request[h].of \in things
    THEN [request[h] EXCEPT !.fresh = FALSE] ELSE request[h]]

Write == writes < MaxWrites /\ writes' = writes + 1
-----------------------------------------------------------------------------
(* Onboarding                                                              *)

Ready(b) ==
  /\ ActiveHere(service, b) # {}
  /\ ActiveHere(staff, b) # {}
  /\ ActiveHere(rule, b) # {}

StepDone(b, step) ==
  CASE step = "service" -> ActiveHere(service, b) # {}
    [] step = "staff" -> ActiveHere(staff, b) # {}
    [] step = "availability" -> ActiveHere(rule, b) # {}
    [] step = "public_page" -> Ready(b)
    [] OTHER -> TRUE

NextStep(b) ==
  LET open == {i \in 1 .. 5 : ~StepDone(b, Steps[i])}
  IN  IF open = {} THEN "public_page"
      ELSE Steps[CHOOSE i \in open : \A j \in open : i <= j]

CurrentStep(b) ==
  CASE Ready(b) -> "public_page"
    [] ~Ready(b) /\ onboarding[b].current = "none" -> NextStep(b)
    [] OTHER -> onboarding[b].current

\* What the pages send: a step, a task that is done, the end of the setup, or
\* that the guide is put away; taking it up again is left out.
Input(step, task, completed, dismissed) ==
  [step |-> step, task |-> task, completed |-> completed,
   dismissed |-> dismissed]

Inputs ==
  {Input("service", "none", FALSE, "none"),
   Input("public_page", "none", TRUE, "none"),
   Input("none", "none", FALSE, "yes")}
  \cup {Input("public_page", task, FALSE, "none") : task \in Tasks}

EventOf(input, ready, current, requested) ==
  CASE input.task # "none" -> {<<input.task, requested>>}
    [] input.task = "none" /\ input.completed /\ ready ->
         {<<"completed", requested>>}
    [] input.task = "none" /\ ~(input.completed /\ ready)
         /\ input.dismissed # "none" -> {<<input.dismissed, requested>>}
    [] OTHER -> IF requested # current THEN {<<"advanced", requested>>} ELSE {}

\* Mutant of Merge: what was done before is not copied.
MergeNone(done, task, requested) ==
  IF requested = "public_page" THEN {task} \cap Tasks ELSE done

\* Tasks of other steps are not shown.
Merge(done, task, requested) ==
  IF requested = "public_page" THEN done \cup ({task} \cap Tasks) ELSE done

ReadProgress(h, b, input) ==
  LET requested == IF input.step = "none" THEN CurrentStep(b) ELSE input.step
  IN  /\ At(h, "idle")
      /\ request' = Set(h,
           [step |-> "progress", of |-> b, fresh |-> TRUE, input |-> input,
            ready |-> Ready(b), requested |-> requested,
            done |-> Merge(onboarding[b].done, input.task, requested),
            events |->
              EventOf(input, Ready(b), CurrentStep(b), requested)])
      /\ UNCHANGED <<setup, rule, template, onboarding, outdated, writes>>

Completes(q) == q.input.completed /\ q.ready

Finish(h, of) ==
  /\ request' = [Outdate({of}) EXCEPT ![h] = Idle]
  /\ outdated' = outdated \cup (IF request[h].fresh THEN {} ELSE {of})

\* One transaction writes the row and an event; the tasks are those read.
WriteProgress(h) ==
  LET q == request[h]
      old == onboarding[q.of]
  IN  /\ At(h, "progress") /\ Write
      /\ onboarding' = [onboarding EXCEPT ![q.of] =
           [current |-> q.requested, done |-> q.done,
            completed |-> old.completed \/ Completes(q),
            dismissed |-> IF q.input.dismissed = "none" THEN old.dismissed
                          ELSE q.input.dismissed = "yes",
            events |-> old.events \cup q.events]]
      /\ Finish(h, q.of)
      /\ UNCHANGED <<setup, rule, template>>
-----------------------------------------------------------------------------
(* Services, staff members, exceptions and templates                       *)

CreateService(b, v) ==
  /\ service[v] = None /\ Write
  /\ service' = [service EXCEPT ![v] = [at |-> b, active |-> TRUE]]
  /\ UNCHANGED <<staff, assigned, exception, rule, template, onboarding,
                 request, outdated>>

UpdateService(b, v, active) ==
  /\ v \in Here(service, b) /\ Write
  /\ service' = [service EXCEPT ![v].active = active]
  /\ UNCHANGED <<staff, assigned, exception, rule, template, onboarding,
                 request, outdated>>

CreateStaffMember(b, m) ==
  /\ staff[m] = None /\ Write
  /\ staff' = [staff EXCEPT ![m] = [at |-> b, active |-> TRUE]]
  /\ UNCHANGED <<service, assigned, exception, rule, template, onboarding,
                 request, outdated>>

\* Mutant of StaffOf: the business of the staff member is not compared.
StaffOfAny(b) == {m \in Staff : staff[m] # None}

\* The staff members that requireStaffMember finds.
StaffOf(b) == Here(staff, b)

\* Rules and assignments of a staff member that is deactivated stay.
UpdateStaffMember(b, m, active) ==
  /\ m \in StaffOf(b) /\ Write
  /\ staff' = [staff EXCEPT ![m].active = active]
  /\ UNCHANGED <<service, assigned, exception, rule, template, onboarding,
                 request, outdated>>

AssignStaff(b, v, m) ==
  /\ v \in Here(service, b) /\ m \in StaffOf(b) /\ Write
  /\ assigned' = assigned \cup {<<v, m>>}
  /\ UNCHANGED <<service, staff, exception, rule, template, onboarding,
                 request, outdated>>

UnassignStaff(b, v, m) ==
  /\ v \in Here(service, b) /\ <<v, m>> \in assigned /\ Write
  /\ assigned' = assigned \ {<<v, m>>}
  /\ UNCHANGED <<service, staff, exception, rule, template, onboarding,
                 request, outdated>>

\* An exception is created, or an existing one of the business replaced.
SaveException(b, x, m, d, type) ==
  /\ exception[x] = None \/ x \in Here(exception, b)
  /\ m # NoOne => m \in StaffOf(b)
  /\ Write
  /\ exception' = [exception EXCEPT ![x] =
       [at |-> b, staff |-> m, day |-> d, type |-> type]]
  /\ UNCHANGED <<service, staff, assigned, rule, template, onboarding,
                 request, outdated>>

DeleteException(b, x) ==
  /\ x \in Here(exception, b) /\ Write
  /\ exception' = [exception EXCEPT ![x] = None]
  /\ UNCHANGED <<service, staff, assigned, rule, template, onboarding,
                 request, outdated>>

SetTemplate(b, value) ==
  /\ template' = [template EXCEPT ![b] = value]
  /\ UNCHANGED <<setup, rule, onboarding, request, outdated>>

\* Mutant of ListTemplates: the text is set back to the default.
ListTemplatesAgain(b) ==
  /\ template[b] # "default" /\ Write
  /\ SetTemplate(b, "default")

\* Listing the templates creates those that are missing, by upserts.
ListTemplates(b) ==
  /\ template[b] = "none" /\ Write
  /\ SetTemplate(b, "default")

\* The key of a template is unique in its business.
CreateTemplate(b) ==
  /\ template[b] = "none" /\ Write
  /\ SetTemplate(b, "edited")

UpdateTemplate(b) ==
  /\ template[b] = "default" /\ Write
  /\ SetTemplate(b, "edited")
-----------------------------------------------------------------------------
(* Weekly rules                                                            *)

\* Mutant of Occupied: only new rules are compared with the others.
OccupiedForNew(m, d, except) ==
  except = NoOne /\ \E r \in Rules : rule[r] # None /\ rule[r].active
                      /\ rule[r].staff = m /\ rule[r].day = d

Occupied(m, d, except) ==
  \E r \in Rules \ {except} :
    /\ rule[r] # None /\ rule[r].active
    /\ rule[r].staff = m /\ rule[r].day = d

ReadNewRule(h, b, m, d, hours) ==
  /\ At(h, "idle")
  /\ m \in StaffOf(b) /\ hours[1] < hours[2] /\ ~Occupied(m, d, NoOne)
  /\ request' = Set(h,
       [step |-> "create rule", of |-> m, fresh |-> TRUE,
        row |-> [at |-> b, staff |-> m, day |-> d, from |-> hours[1],
                 to |-> hours[2], active |-> TRUE]])
  /\ UNCHANGED <<setup, rule, template, onboarding, outdated, writes>>

CreateRule(h, r) ==
  /\ At(h, "create rule") /\ rule[r] = None /\ Write
  /\ rule' = [rule EXCEPT ![r] = request[h].row]
  /\ Finish(h, request[h].of)
  /\ UNCHANGED <<setup, template, onboarding>>

\* An update gives a field a value; fields that it leaves out stay.
Changes ==
  ({"day"} \X Days) \cup ({"from", "to"} \X Times) \cup ({"active"} \X BOOLEAN)

Changed(row, change) == [row EXCEPT ![change[1]] = change[2]]

ReadRule(h, b, r, change) ==
  LET next == Changed(rule[r], change)
  IN  /\ At(h, "idle") /\ r \in Here(rule, b)
      /\ next.from < next.to
      /\ next.active => ~Occupied(rule[r].staff, next.day, r)
      /\ request' = Set(h,
           [step |-> "update rule", of |-> rule[r].staff, fresh |-> TRUE,
            row |-> r, change |-> change])
      /\ UNCHANGED <<setup, rule, template, onboarding, outdated, writes>>

UpdateRule(h) ==
  LET q == request[h]
  IN  /\ At(h, "update rule") /\ Write
      /\ rule' = [rule EXCEPT ![q.row] = Changed(@, q.change)]
      /\ Finish(h, q.of)
      /\ UNCHANGED <<setup, template, onboarding>>
-----------------------------------------------------------------------------
\* A query fails, a unique key is violated or the API dies.
Fail(h) ==
  /\ ~At(h, "idle")
  /\ request' = Set(h, Idle)
  /\ UNCHANGED <<setup, rule, template, onboarding, outdated, writes>>

SetUp(b) ==
  \/ \E v \in Services :
       \/ CreateService(b, v)
       \/ \E active \in BOOLEAN : UpdateService(b, v, active)
       \/ \E m \in Staff : AssignStaff(b, v, m) \/ UnassignStaff(b, v, m)
  \/ \E m \in Staff :
       \/ CreateStaffMember(b, m)
       \/ \E active \in BOOLEAN : UpdateStaffMember(b, m, active)
  \/ \E x \in Exceptions :
       \/ \E m \in Staff \cup {NoOne}, d \in Days, type \in {"blocked", "extra"} :
            SaveException(b, x, m, d, type)
       \/ DeleteException(b, x)
  \/ ListTemplates(b) \/ CreateTemplate(b) \/ UpdateTemplate(b)

Handle(h) ==
  \/ \E b \in Businesses :
       \/ \E input \in Inputs : ReadProgress(h, b, input)
       \/ \E m \in Staff, d \in Days, hours \in Hours :
            ReadNewRule(h, b, m, d, hours)
       \/ \E r \in Rules, change \in Changes : ReadRule(h, b, r, change)
  \/ WriteProgress(h)
  \/ \E r \in Rules : CreateRule(h, r)
  \/ UpdateRule(h)
  \/ Fail(h)

Next ==
  /\ \/ \E b \in Businesses : SetUp(b)
     \/ \E h \in Requests : Handle(h)
  /\ wasReady' = wasReady \cup {b \in Businesses : Ready(b)}

Spec == Init /\ [][Next]_vars
-----------------------------------------------------------------------------
(* Properties                                                              *)

\* What a business sets up names its own staff members and services only,
\* and its customers are offered active staff members of its own, none of
\* whom the owner's preview does not show.
TenantsAreSeparate ==
  /\ \A p \in assigned : service[p[1]].at = staff[p[2]].at
  /\ \A r \in Rules : rule[r] # None => staff[rule[r].staff].at = rule[r].at
  /\ \A x \in Exceptions :
       exception[x] # None /\ exception[x].staff # NoOne =>
         staff[exception[x].staff].at = exception[x].at
  /\ \A v \in Services, d \in Days : service[v] # None =>
       /\ Offered(v, d) \subseteq ActiveHere(staff, service[v].at)
       /\ Offered(v, d) \subseteq Preview(v, d)

\* A staff member has one active weekly rule a day, and it ends after it
\* begins, unless requests for its rules have overlapped.
OneRulePerDay ==
  \A m \in Staff \ outdated : \A r, s \in Rules :
    /\ rule[r] # None /\ rule[r].staff = m
    /\ rule[s] # None /\ rule[s].staff = m
    => /\ rule[r].from < rule[r].to
       /\ (r # s /\ rule[r].active /\ rule[s].active =>
             rule[r].day # rule[s].day)

\* A template that was written by the business keeps its text, whoever lists
\* the templates.
EditsAreKept ==
  [][\A b \in Businesses :
       template[b] = "edited" => template'[b] = "edited"]_vars

\* The onboarding counts as completed only when the setup has been complete,
\* and a task of the public page that an event tells of is done, unless
\* updates of the progress have overlapped.
OnboardingIsTrue ==
  \A b \in Businesses :
    /\ onboarding[b].completed => b \in wasReady
    /\ b \notin outdated =>
         \A task \in Tasks :
           <<task, "public_page">> \in onboarding[b].events =>
             task \in onboarding[b].done

=============================================================================
