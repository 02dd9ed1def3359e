--------------------------- MODULE Catalog_proofs ---------------------------
(***************************************************************************)
(* Proofs about Catalog, for any sets of businesses, services, staff       *)
(* members, rules, exceptions, days, times, tasks and requests.            *)
(*                                                                         *)
(* Each invariant of the catalog is proved together with what it says of   *)
(* the requests in flight: what a request has read names its own business, *)
(* and still holds as long as no other request wrote about the same thing. *)
(***************************************************************************)
EXTENDS Catalog, TLAPS

Row == [at : Businesses, active : BOOLEAN]

RuleRow ==
  [at : Businesses, staff : Staff, day : Days, from : Nat, to : Nat,
   active : BOOLEAN]

ExceptionRow ==
  [at : Businesses, staff : Staff \cup {NoOne}, day : Days,
   type : {"blocked", "extra"}]

StepNames == {"business", "service", "staff", "availability", "public_page"}
Events == (Tasks \cup {"completed", "advanced", "yes"}) \X StepNames

Onboarding ==
  [current : StepNames \cup {"none"}, completed : BOOLEAN, dismissed : BOOLEAN,
   done : SUBSET Tasks, events : SUBSET Events]

ProgressRequest ==
  [step : {"progress"}, of : Businesses, fresh : BOOLEAN, input : Inputs,
   ready : BOOLEAN, requested : StepNames, done : SUBSET Tasks,
   events : SUBSET Events]

NewRule ==
  [step : {"create rule"}, of : Staff, fresh : BOOLEAN, row : RuleRow]

RuleChange ==
  [step : {"update rule"}, of : Staff, fresh : BOOLEAN, row : Rules,
   change : Changes]

RequestState == {Idle} \cup ProgressRequest \cup NewRule \cup RuleChange

SetupOK ==
  /\ service \in [Services -> {None} \cup Row]
  /\ staff \in [Staff -> {None} \cup Row]
  /\ assigned \subseteq Services \X Staff
  /\ exception \in [Exceptions -> {None} \cup ExceptionRow]

TypeOK ==
  /\ SetupOK
  /\ rule \in [Rules -> {None} \cup RuleRow]
  /\ template \in [Businesses -> {"none", "default", "edited"}]
  /\ onboarding \in [Businesses -> Onboarding]
  /\ request \in [Requests -> RequestState]
  /\ outdated \subseteq Staff \cup Businesses
  /\ wasReady \subseteq Businesses
  /\ writes \in Nat

\* What is set up, and what a request is about to set up, names staff members
\* and services of the business it belongs to.
NamesItsOwn ==
  /\ \A p \in assigned :
       service[p[1]] # None /\ service[p[1]].at = staff[p[2]].at
  /\ \A r \in Rules : rule[r] # None => staff[rule[r].staff].at = rule[r].at
  /\ \A x \in Exceptions :
       exception[x] # None /\ exception[x].staff # NoOne =>
         staff[exception[x].staff].at = exception[x].at
  /\ \A h \in Requests : At(h, "create rule") =>
       staff[request[h].row.staff].at = request[h].row.at

\* Row may be the rule of its staff member beside the others, but for the one
\* it replaces.
MayBe(row, except) ==
  /\ row.from < row.to
  /\ row.active => ~Occupied(row.staff, row.day, except)

\* A request for a rule keeps to the staff member it has read, and while it is
\* fresh what it has checked still holds.
RulesAreChecked ==
  \A h \in Requests :
    /\ At(h, "create rule") =>
         /\ request[h].row.staff = request[h].of
         /\ request[h].fresh => MayBe(request[h].row, NoOne)
    /\ At(h, "update rule") =>
         /\ rule[request[h].row] # None
         /\ rule[request[h].row].staff = request[h].of
         /\ request[h].fresh =>
              MayBe(Changed(rule[request[h].row], request[h].change),
                    request[h].row)

\* A request of the onboarding has seen the setup complete if it says so, and
\* is about to write every task whose event it writes; while it is fresh it has
\* read every task that is done.
ProgressIsRead ==
  \A h \in Requests : At(h, "progress") =>
    LET q == request[h]
    IN  /\ q.ready => q.of \in wasReady
        /\ \A task \in Tasks :
             <<task, "public_page">> \in q.events => task \in q.done
        /\ q.fresh => onboarding[q.of].done \subseteq q.done
-----------------------------------------------------------------------------
(* Types                                                                   *)

LEMMA RowsAreSome ==
  /\ None \notin Row /\ None \notin RuleRow /\ None \notin ExceptionRow
  /\ None.at = NoOne /\ NoOne \notin Businesses /\ NoOne \notin Rules
  BY NoOneAssumption DEF None, Row, RuleRow, ExceptionRow

LEMMA ChangedRow ==
  ASSUME NEW row \in RuleRow, NEW change \in Changes
  PROVE  /\ Changed(row, change) \in RuleRow
         /\ Changed(row, change).at = row.at
         /\ Changed(row, change).staff = row.staff
<1>1. CASE change \in {"day"} \X Days
  BY <1>1 DEF Changed, RuleRow
<1>2. CASE change \in {"from", "to"} \X Times
  BY <1>2, TimesAssumption DEF Changed, RuleRow
<1>3. CASE change \in {"active"} \X BOOLEAN
  BY <1>3 DEF Changed, RuleRow
<1> QED
  BY <1>1, <1>2, <1>3 DEF Changes

LEMMA NextStepTyped == ASSUME NEW b PROVE NextStep(b) \in StepNames
<1> DEFINE open == {i \in 1 .. 5 : ~StepDone(b, Steps[i])}
           least == CHOOSE i \in open : \A j \in open : i <= j
<1>1. open \subseteq 1 .. 5
  OBVIOUS
<1> HIDE DEF open
<1>2. ASSUME open # {} PROVE \E i \in open : \A j \in open : i <= j
  <2>1. CASE 1 \in open
    BY <1>1, <2>1
  <2>2. CASE 1 \notin open /\ 2 \in open
    BY <1>1, <2>2
  <2>3. CASE 1 \notin open /\ 2 \notin open /\ 3 \in open
    BY <1>1, <2>3
  <2>4. CASE 1 \notin open /\ 2 \notin open /\ 3 \notin open /\ 4 \in open
    BY <1>1, <2>4
  <2>5. CASE 1 \notin open /\ 2 \notin open /\ 3 \notin open /\ 4 \notin open
    <3>1. \A i \in open : i = 5
      BY <1>1, <2>5
    <3> QED
      BY <1>2, <3>1
  <2> QED
    BY <2>1, <2>2, <2>3, <2>4, <2>5
<1>3. open # {} => least \in 1 .. 5
  BY <1>1, <1>2
<1>4. \A i \in 1 .. 5 : Steps[i] \in StepNames
  BY DEF Steps, StepNames
<1>5. NextStep(b) = IF open = {} THEN "public_page" ELSE Steps[least]
  BY DEF NextStep, open
<1> HIDE DEF least
<1> QED
  BY <1>3, <1>4, <1>5 DEF StepNames

LEMMA CurrentStepTyped ==
  ASSUME TypeOK, NEW b \in Businesses
  PROVE  CurrentStep(b) \in StepNames
<1>1. onboarding[b].current \in StepNames \cup {"none"}
  BY DEF TypeOK, Onboarding
<1>2. Ready(b) \in BOOLEAN
  BY DEF Ready
<1>3. "public_page" \in StepNames
  BY DEF StepNames
<1> QED
  BY <1>1, <1>2, <1>3, NextStepTyped DEF CurrentStep

LEMMA InputFields ==
  ASSUME NEW input \in Inputs
  PROVE  /\ input.step \in {"none", "service", "public_page"}
         /\ input.task \in Tasks \cup {"none"}
         /\ input.completed \in BOOLEAN /\ input.dismissed \in {"none", "yes"}
         /\ input.task # "none" => input.step = "public_page"
<1>1. CASE \E task \in Tasks : input = Input("public_page", task, FALSE, "none")
  BY <1>1, TasksAssumption DEF Input
<1>2. CASE input = Input("service", "none", FALSE, "none")
  BY <1>2 DEF Input
<1>3. CASE input = Input("public_page", "none", TRUE, "none")
  BY <1>3 DEF Input
<1>4. CASE input = Input("none", "none", FALSE, "yes")
  BY <1>4 DEF Input
<1> QED
  BY <1>1, <1>2, <1>3, <1>4 DEF Inputs

\* A request in flight, by what it does.
LEMMA RequestTyped ==
  ASSUME TypeOK, NEW h \in Requests
  PROVE  /\ At(h, "progress") => request[h] \in ProgressRequest
         /\ At(h, "create rule") => request[h] \in NewRule
         /\ At(h, "update rule") => request[h] \in RuleChange
         /\ ~At(h, "idle") => request[h] \in RequestState \ {Idle}
<1>1. request[h] \in RequestState
  BY DEF TypeOK
<1>2. /\ Idle.step = "idle"
      /\ \A q \in ProgressRequest : q.step = "progress"
      /\ \A q \in NewRule : q.step = "create rule"
      /\ \A q \in RuleChange : q.step = "update rule"
  BY DEF Idle, ProgressRequest, NewRule, RuleChange
<1> QED
  BY <1>1, <1>2 DEF At, RequestState

\* A request ends: it is idle, and the others that have read something about
\* the same thing are not fresh any more.
LEMMA FinishChanges ==
  ASSUME TypeOK, NEW h \in Requests, NEW of \in Staff \cup Businesses,
         request[h].fresh \in BOOLEAN, Finish(h, of)
  PROVE  /\ request' \in [Requests -> RequestState] /\ request'[h] = Idle
         /\ \A g \in Requests \ {h} :
              \/ request'[g] = request[g] /\ (At(g, "idle") \/ request[g].of # of)
              \/ /\ request'[g] = [request[g] EXCEPT !.fresh = FALSE]
                 /\ request[g] \in RequestState \ {Idle}
         /\ outdated \subseteq outdated' /\ outdated' \subseteq Staff \cup Businesses
         /\ ~request[h].fresh => of \in outdated'
<1>1. request' = [Outdate({of}) EXCEPT ![h] = Idle]
  BY DEF Finish
<1>2. /\ Outdate({of}) = [g \in Requests |->
            IF ~At(g, "idle") /\ request[g].of = of
              THEN [request[g] EXCEPT !.fresh = FALSE] ELSE request[g]]
  BY DEF Outdate
<1>3. \A g \in Requests : request'[g] =
        IF g = h THEN Idle
        ELSE IF ~At(g, "idle") /\ request[g].of = of
          THEN [request[g] EXCEPT !.fresh = FALSE] ELSE request[g]
  BY <1>1, <1>2
<1>4. ASSUME NEW q \in RequestState \ {Idle}
      PROVE  [q EXCEPT !.fresh = FALSE] \in RequestState
  <2>1. CASE q \in ProgressRequest
    BY <2>1 DEF RequestState, ProgressRequest
  <2>2. CASE q \in NewRule
    BY <2>2 DEF RequestState, NewRule
  <2>3. CASE q \in RuleChange
    BY <2>3 DEF RequestState, RuleChange
  <2> QED
    BY <2>1, <2>2, <2>3 DEF RequestState
<1>5. \A g \in Requests : request[g] \in RequestState /\ Idle \in RequestState
  BY DEF TypeOK, RequestState
<1>6. \A g \in Requests : ~At(g, "idle") => request[g] \in RequestState \ {Idle}
  BY RequestTyped
<1>7. \A g \in Requests : request'[g] \in RequestState
  BY <1>3, <1>4, <1>5, <1>6
<1>8. request' = [g \in Requests |-> request'[g]]
  BY <1>1, <1>2
<1>9. request' \in [Requests -> RequestState]
  BY <1>7, <1>8
<1>10. /\ outdated \subseteq outdated' /\ outdated' \subseteq Staff \cup Businesses
       /\ ~request[h].fresh => of \in outdated'
  BY DEF Finish, TypeOK
<1> QED
  BY <1>3, <1>6, <1>9, <1>10

LEMMA InitTyped == Init => TypeOK
  BY DEF Init, TypeOK, SetupOK, Onboarding, RequestState

\* The setup does not touch the rules, the onboarding and the requests.
LEMMA SetUpChanges ==
  ASSUME TypeOK, NEW b \in Businesses, SetUp(b)
  PROVE  /\ UNCHANGED <<rule, onboarding, request, outdated>>
         /\ SetupOK' /\ template' \in [Businesses -> {"none", "default", "edited"}]
         /\ writes' \in Nat
         /\ \A v \in Services : service[v] # None =>
              service'[v].at = service[v].at /\ service'[v] # None
         /\ \A m \in Staff : staff[m] # None =>
              staff'[m].at = staff[m].at /\ staff'[m] # None
<1> DEFINE Kept ==
      /\ UNCHANGED <<rule, onboarding, request, outdated>>
      /\ SetupOK' /\ template' \in [Businesses -> {"none", "default", "edited"}]
      /\ writes' \in Nat
      /\ \A v \in Services : service[v] # None =>
           service'[v].at = service[v].at /\ service'[v] # None
      /\ \A m \in Staff : staff[m] # None =>
           staff'[m].at = staff[m].at /\ staff'[m] # None
<1>1. /\ service \in [Services -> {None} \cup Row]
      /\ staff \in [Staff -> {None} \cup Row]
      /\ assigned \subseteq Services \X Staff
      /\ exception \in [Exceptions -> {None} \cup ExceptionRow]
      /\ template \in [Businesses -> {"none", "default", "edited"}]
      /\ writes \in Nat
  BY DEF TypeOK, SetupOK
<1>2. \A row \in {None} \cup Row : row.at = b =>
        \A active \in BOOLEAN :
          /\ [row EXCEPT !.active = active] \in Row
          /\ [row EXCEPT !.active = active].at = row.at
  BY RowsAreSome DEF Row
<1>3. ASSUME NEW v \in Services, CreateService(b, v) PROVE Kept
  BY <1>1, <1>3 DEF CreateService, Write, SetupOK, Row
<1>4. ASSUME NEW v \in Services, NEW active \in BOOLEAN,
             UpdateService(b, v, active)
      PROVE  Kept
  <2>1. service[v].at = b /\ service' =
          [service EXCEPT ![v] = [service[v] EXCEPT !.active = active]]
    BY <1>4 DEF UpdateService, Here
  <2> QED
    BY <1>1, <1>2, <1>4, <2>1, RowsAreSome DEF UpdateService, Write, SetupOK
<1>5. ASSUME NEW m \in Staff, CreateStaffMember(b, m) PROVE Kept
  BY <1>1, <1>5 DEF CreateStaffMember, Write, SetupOK, Row
<1>6. ASSUME NEW m \in Staff, NEW active \in BOOLEAN,
             UpdateStaffMember(b, m, active)
      PROVE  Kept
  <2>1. staff[m].at = b /\ staff' =
          [staff EXCEPT ![m] = [staff[m] EXCEPT !.active = active]]
    BY <1>6 DEF UpdateStaffMember, StaffOf, Here
  <2> QED
    BY <1>1, <1>2, <1>6, <2>1, RowsAreSome
    DEF UpdateStaffMember, Write, SetupOK
<1>7. ASSUME NEW v \in Services, NEW m \in Staff,
             AssignStaff(b, v, m) \/ UnassignStaff(b, v, m)
      PROVE  Kept
  BY <1>1, <1>7 DEF AssignStaff, UnassignStaff, Write, SetupOK
<1>8. ASSUME NEW x \in Exceptions, NEW m \in Staff \cup {NoOne}, NEW d \in Days,
             NEW type \in {"blocked", "extra"}, SaveException(b, x, m, d, type)
      PROVE  Kept
  <2>1. [at |-> b, staff |-> m, day |-> d, type |-> type] \in ExceptionRow
    BY DEF ExceptionRow
  <2> QED
    BY <1>1, <1>8, <2>1 DEF SaveException, Write, SetupOK
<1>9. ASSUME NEW x \in Exceptions, DeleteException(b, x) PROVE Kept
  BY <1>1, <1>9 DEF DeleteException, Write, SetupOK
<1>10. ASSUME ListTemplates(b) \/ CreateTemplate(b) \/ UpdateTemplate(b)
       PROVE  Kept
  BY <1>1, <1>10
  DEF ListTemplates, CreateTemplate, UpdateTemplate, SetTemplate, setup, Write,
      SetupOK
<1> HIDE DEF Kept
<1>11. Kept
  BY <1>3, <1>4, <1>5, <1>6, <1>7, <1>8, <1>9, <1>10 DEF SetUp
<1> QED
  BY <1>11 DEF Kept

\* An event of a task is one of the task that the request names.
LEMMA EventOfTyped ==
  ASSUME NEW input \in Inputs, NEW ready, NEW current,
         NEW requested \in StepNames
  PROVE  /\ EventOf(input, ready, current, requested) \subseteq Events
         /\ \A task \in Tasks : \A step :
              <<task, step>> \in EventOf(input, ready, current, requested) =>
                task = input.task
<1>1. /\ input.task \in Tasks \cup {"none"} /\ input.dismissed \in {"none", "yes"}
      /\ \A task \in Tasks : task \notin {"none", "completed", "advanced", "yes"}
  BY InputFields, TasksAssumption
<1>2. \/ /\ input.task # "none"
         /\ EventOf(input, ready, current, requested)
              = {<<input.task, requested>>}
      \/ \E name \in {"completed", "advanced", "yes"} :
           EventOf(input, ready, current, requested) \in {{<<name, requested>>}, {}}
  BY <1>1 DEF EventOf
<1> QED
  BY <1>1, <1>2 DEF Events

LEMMA MergeTyped ==
  ASSUME NEW done \in SUBSET Tasks, NEW task, NEW requested
  PROVE  /\ Merge(done, task, requested) \in SUBSET Tasks
         /\ done \subseteq Merge(done, task, requested)
         /\ requested = "public_page" /\ task \in Tasks =>
              task \in Merge(done, task, requested)
  BY DEF Merge

\* What an update of the progress reads.
LEMMA ProgressTyped ==
  ASSUME TypeOK, NEW h \in Requests, NEW b \in Businesses, NEW input \in Inputs,
         ReadProgress(h, b, input)
  PROVE  \E q \in ProgressRequest :
           /\ request' = Set(h, q) /\ q.of = b
           /\ q.ready = Ready(b) /\ onboarding[b].done \subseteq q.done
           /\ \A task \in Tasks :
                <<task, "public_page">> \in q.events => task \in q.done
<1> DEFINE requested == IF input.step = "none" THEN CurrentStep(b) ELSE input.step
           done == Merge(onboarding[b].done, input.task, requested)
           events == EventOf(input, Ready(b), CurrentStep(b), requested)
           q == [step |-> "progress", of |-> b, fresh |-> TRUE, input |-> input,
                 ready |-> Ready(b), requested |-> requested, done |-> done,
                 events |-> events]
<1>1. requested \in StepNames
  <2>1. input.step \in {"none", "service", "public_page"}
    BY InputFields
  <2> QED
    BY <2>1, CurrentStepTyped DEF StepNames
<1>2. onboarding[b].done \in SUBSET Tasks
  BY DEF TypeOK, Onboarding
<1>3. done \in SUBSET Tasks /\ onboarding[b].done \subseteq done
  BY <1>2, MergeTyped
<1>4. /\ events \in SUBSET Events
      /\ \A task \in Tasks : \A step :
           <<task, step>> \in events => task = input.task
  BY <1>1, EventOfTyped
<1>5. Ready(b) \in BOOLEAN
  BY DEF Ready
<1>6. \A task \in Tasks : <<task, "public_page">> \in events => task \in done
  <2>1. input.task \in Tasks => requested = "public_page"
    BY InputFields, TasksAssumption
  <2> QED
    BY <1>2, <1>4, <2>1, MergeTyped
<1>7. request' = Set(h, q)
  BY DEF ReadProgress
<1> HIDE DEF requested, done, events
<1>8. q \in ProgressRequest
  BY <1>1, <1>3, <1>4, <1>5 DEF ProgressRequest
<1> QED
  BY <1>3, <1>6, <1>7, <1>8

LEMMA NewRuleTyped ==
  ASSUME TypeOK, NEW h \in Requests, NEW b \in Businesses, NEW m \in Staff,
         NEW d \in Days, NEW hours \in Hours, ReadNewRule(h, b, m, d, hours)
  PROVE  \E q \in NewRule :
           /\ request' = Set(h, q) /\ q.of = m /\ q.row.staff = m
           /\ staff[m].at = q.row.at /\ MayBe(q.row, NoOne)
<1> DEFINE row == [at |-> b, staff |-> m, day |-> d, from |-> hours[1],
                   to |-> hours[2], active |-> TRUE]
           q == [step |-> "create rule", of |-> m, fresh |-> TRUE, row |-> row]
<1>1. hours[1] \in Nat /\ hours[2] \in Nat
  BY TimesAssumption
<1>2. row \in RuleRow
  BY <1>1 DEF RuleRow
<1>3. q \in NewRule
  BY <1>2 DEF NewRule
<1>4. request' = Set(h, q) /\ hours[1] < hours[2] /\ ~Occupied(m, d, NoOne)
      /\ staff[m].at = b
  BY DEF ReadNewRule, StaffOf, Here
<1> QED
  BY <1>3, <1>4 DEF MayBe

LEMMA RuleChangeTyped ==
  ASSUME TypeOK, NEW h \in Requests, NEW b \in Businesses, NEW r \in Rules,
         NEW change \in Changes, ReadRule(h, b, r, change)
  PROVE  \E q \in RuleChange :
           /\ request' = Set(h, q) /\ q.row = r /\ q.change = change
           /\ rule[r] # None /\ q.of = rule[r].staff
           /\ MayBe(Changed(rule[r], change), r)
<1> DEFINE q == [step |-> "update rule", of |-> rule[r].staff, fresh |-> TRUE,
                 row |-> r, change |-> change]
<1>1. rule[r] # None /\ rule[r] \in RuleRow
  BY RowsAreSome DEF ReadRule, Here, TypeOK
<1>2. q \in RuleChange
  BY <1>1 DEF RuleChange, RuleRow
<1>3. Changed(rule[r], change).staff = rule[r].staff
  BY <1>1, ChangedRow
<1>4. MayBe(Changed(rule[r], change), r)
  BY <1>3 DEF ReadRule, MayBe
<1>5. request' = Set(h, q)
  BY DEF ReadRule
<1> QED
  BY <1>1, <1>2, <1>4, <1>5

\* The rule that a request writes.
LEMMA RuleWritten ==
  ASSUME TypeOK, NEW h \in Requests
  PROVE  /\ \A r \in Rules : CreateRule(h, r) =>
              /\ request[h] \in NewRule
              /\ rule' = [rule EXCEPT ![r] = request[h].row]
         /\ UpdateRule(h) =>
              /\ request[h] \in RuleChange
              /\ rule' = [rule EXCEPT ![request[h].row] =
                           Changed(rule[request[h].row], request[h].change)]
  BY RequestTyped DEF CreateRule, UpdateRule

\* A step of a request, by what becomes of the request: it has read something,
\* it is dropped, or it has written and ends.
LEMMA RequestSteps ==
  ASSUME TypeOK, NEW h \in Requests, Handle(h)
  PROVE  \/ /\ UNCHANGED <<setup, rule, template, onboarding, outdated, writes>>
            /\ \/ request' = Set(h, Idle)
               \/ \E b \in Businesses, input \in Inputs : ReadProgress(h, b, input)
               \/ \E b \in Businesses, m \in Staff, d \in Days, hours \in Hours :
                    ReadNewRule(h, b, m, d, hours)
               \/ \E b \in Businesses, r \in Rules, change \in Changes :
                    ReadRule(h, b, r, change)
         \/ /\ UNCHANGED <<setup, template>> /\ writes' \in Nat
            /\ \/ WriteProgress(h) /\ rule' = rule
               \/ /\ UpdateRule(h) \/ \E r \in Rules : CreateRule(h, r)
                  /\ onboarding' = onboarding
<1>1. ASSUME NEW b \in Businesses, NEW input \in Inputs, ReadProgress(h, b, input)
      PROVE  UNCHANGED <<setup, rule, template, onboarding, outdated, writes>>
  BY <1>1 DEF ReadProgress
<1>2. ASSUME NEW b \in Businesses, NEW m \in Staff, NEW d \in Days,
             NEW hours \in Hours, ReadNewRule(h, b, m, d, hours)
      PROVE  UNCHANGED <<setup, rule, template, onboarding, outdated, writes>>
  BY <1>2 DEF ReadNewRule
<1>3. ASSUME NEW b \in Businesses, NEW r \in Rules, NEW change \in Changes,
             ReadRule(h, b, r, change)
      PROVE  UNCHANGED <<setup, rule, template, onboarding, outdated, writes>>
  BY <1>3 DEF ReadRule
<1>4. ASSUME Fail(h)
      PROVE  /\ UNCHANGED <<setup, rule, template, onboarding, outdated, writes>>
             /\ request' = Set(h, Idle)
  BY <1>4 DEF Fail
<1>0. Write => writes' \in Nat
  BY DEF Write, TypeOK
<1>5. ASSUME WriteProgress(h)
      PROVE  UNCHANGED <<setup, template>> /\ writes' \in Nat /\ rule' = rule
  BY <1>0, <1>5 DEF WriteProgress
<1>6. ASSUME NEW r \in Rules, CreateRule(h, r)
      PROVE  UNCHANGED <<setup, template, onboarding>> /\ writes' \in Nat
  BY <1>0, <1>6 DEF CreateRule
<1>7. ASSUME UpdateRule(h)
      PROVE  UNCHANGED <<setup, template, onboarding>> /\ writes' \in Nat
  BY <1>0, <1>7 DEF UpdateRule
<1> QED
  BY <1>1, <1>2, <1>3, <1>4, <1>5, <1>6, <1>7 DEF Handle

\* What a request that writes the progress of the onboarding does to it.
LEMMA ProgressWritten ==
  ASSUME TypeOK, NEW h \in Requests, WriteProgress(h)
  PROVE  /\ request[h] \in ProgressRequest
         /\ \A b \in Businesses \ {request[h].of} :
              onboarding'[b] = onboarding[b]
         /\ onboarding'[request[h].of] \in Onboarding
         /\ onboarding'[request[h].of].done = request[h].done
         /\ onboarding'[request[h].of].events =
              onboarding[request[h].of].events \cup request[h].events
         /\ onboarding'[request[h].of].completed =>
              onboarding[request[h].of].completed \/ request[h].ready
         /\ onboarding' = [b \in Businesses |-> onboarding'[b]]
<1> DEFINE q == request[h]
           old == onboarding[q.of]
           new == [current |-> q.requested, done |-> q.done,
                   completed |-> old.completed \/ Completes(q),
                   dismissed |-> IF q.input.dismissed = "none" THEN old.dismissed
                                 ELSE q.input.dismissed = "yes",
                   events |-> old.events \cup q.events]
<1>1. q \in ProgressRequest
  BY RequestTyped DEF WriteProgress
<1>2. /\ q.of \in Businesses /\ q.requested \in StepNames
      /\ q.done \in SUBSET Tasks /\ q.events \in SUBSET Events
  BY <1>1 DEF ProgressRequest
<1>3. old.dismissed \in BOOLEAN /\ old.events \in SUBSET Events
  BY <1>2 DEF TypeOK, Onboarding
<1>4. onboarding' = [onboarding EXCEPT ![q.of] = new]
  BY DEF WriteProgress
<1>5. new \in Onboarding
  <2>1. (old.completed \/ Completes(q)) \in BOOLEAN
    OBVIOUS
  <2>2. (IF q.input.dismissed = "none" THEN old.dismissed
         ELSE q.input.dismissed = "yes") \in BOOLEAN
    BY <1>3
  <2> QED
    BY <1>2, <1>3, <2>1, <2>2 DEF Onboarding
<1>6. new.completed => old.completed \/ q.ready
  BY DEF Completes
<1>7. /\ onboarding'[q.of] = new /\ onboarding' = [b \in Businesses |-> onboarding'[b]]
      /\ \A b \in Businesses \ {q.of} : onboarding'[b] = onboarding[b]
  BY <1>2, <1>4 DEF TypeOK
<1>8. new.done = q.done /\ new.events = old.events \cup q.events
  OBVIOUS
<1> HIDE DEF new
<1> QED
  BY <1>1, <1>5, <1>6, <1>7, <1>8

\* A request that writes ends, and what it wrote about may be outdated.
LEMMA WriterFinishes ==
  ASSUME TypeOK, NEW h \in Requests,
         \/ WriteProgress(h) \/ UpdateRule(h)
         \/ \E r \in Rules : CreateRule(h, r)
  PROVE  /\ request[h].of \in Staff \cup Businesses
         /\ request[h].fresh \in BOOLEAN
         /\ Finish(h, request[h].of)
<1>1. request[h] \in ProgressRequest \cup NewRule \cup RuleChange
  BY ProgressWritten, RuleWritten
<1>2. request[h].of \in Staff \cup Businesses /\ request[h].fresh \in BOOLEAN
  BY <1>1 DEF ProgressRequest, NewRule, RuleChange
<1> QED
  BY <1>2 DEF WriteProgress, UpdateRule, CreateRule

LEMMA NextTyped == TypeOK /\ RulesAreChecked /\ [Next]_vars => TypeOK'
<1> SUFFICES ASSUME TypeOK, RulesAreChecked, [Next]_vars PROVE TypeOK'
  OBVIOUS
<1>1. wasReady' \subseteq Businesses
  BY DEF Next, vars, TypeOK
<1>2. ASSUME NEW b \in Businesses, SetUp(b) PROVE TypeOK'
  BY <1>1, <1>2, SetUpChanges DEF TypeOK
<1>3. ASSUME NEW h \in Requests, Handle(h) PROVE TypeOK'
  <2>1. ASSUME NEW q \in RequestState, request' = Set(h, q),
               UNCHANGED <<setup, rule, template, onboarding, outdated, writes>>
        PROVE  TypeOK'
    <3>1. request' \in [Requests -> RequestState]
      BY <2>1 DEF TypeOK, Set
    <3> QED
      BY <1>1, <2>1, <3>1 DEF TypeOK, SetupOK, setup
  <2>2. ASSUME WriteProgress(h), rule' = rule, UNCHANGED <<setup, template>>,
               writes' \in Nat
        PROVE  TypeOK'
    <3>1. onboarding' \in [Businesses -> Onboarding]
      BY <2>2, ProgressWritten DEF TypeOK
    <3>2. /\ request' \in [Requests -> RequestState]
          /\ outdated' \subseteq Staff \cup Businesses
      BY <2>2, WriterFinishes, FinishChanges
    <3> QED
      BY <1>1, <2>2, <3>1, <3>2 DEF TypeOK, SetupOK, setup
  <2>3. ASSUME UpdateRule(h) \/ \E r \in Rules : CreateRule(h, r),
               UNCHANGED <<setup, template, onboarding>>, writes' \in Nat
        PROVE  TypeOK'
    <3>1. /\ request' \in [Requests -> RequestState]
          /\ outdated' \subseteq Staff \cup Businesses
      BY <2>3, WriterFinishes, FinishChanges
    <3>2. rule' \in [Rules -> {None} \cup RuleRow]
      <4>1. ASSUME NEW r \in Rules, CreateRule(h, r)
            PROVE  rule' \in [Rules -> {None} \cup RuleRow]
        BY <4>1, RuleWritten DEF NewRule, TypeOK
      <4>2. ASSUME UpdateRule(h)
            PROVE  rule' \in [Rules -> {None} \cup RuleRow]
        <5>1. /\ request[h].row \in Rules /\ request[h].change \in Changes
              /\ rule[request[h].row] # None
          BY <4>2, RuleWritten DEF RuleChange, UpdateRule, RulesAreChecked
        <5>2. rule[request[h].row] \in RuleRow
          BY <5>1 DEF TypeOK
        <5>3. Changed(rule[request[h].row], request[h].change) \in RuleRow
          BY <5>1, <5>2, ChangedRow
        <5> QED
          BY <4>2, <5>3, RuleWritten DEF TypeOK
      <4> QED
        BY <2>3, <4>1, <4>2
    <3> QED
      BY <1>1, <2>3, <3>1, <3>2 DEF TypeOK, SetupOK, setup
  <2> QED
    BY <1>3, <2>1, <2>2, <2>3, RequestSteps, ProgressTyped, NewRuleTyped,
       RuleChangeTyped DEF RequestState
<1>4. CASE UNCHANGED vars
  BY <1>4 DEF vars, setup, TypeOK, SetupOK
<1> QED
  BY <1>2, <1>3, <1>4 DEF Next
-----------------------------------------------------------------------------
(* Weekly rules                                                            *)

\* Requests keep what they are about when others write.
LEMMA OthersKeep ==
  ASSUME TypeOK, NEW h \in Requests, NEW of \in Staff \cup Businesses,
         request[h].fresh \in BOOLEAN, Finish(h, of), NEW g \in Requests,
         request'[g].step # "idle"
  PROVE  /\ g # h /\ request'[g].step = request[g].step
         /\ request'[g].of = request[g].of
         /\ At(g, "create rule") => request'[g].row = request[g].row
         /\ At(g, "update rule") =>
              /\ request'[g].row = request[g].row
              /\ request'[g].change = request[g].change
         /\ At(g, "progress") =>
              /\ request'[g].ready = request[g].ready
              /\ request'[g].done = request[g].done
              /\ request'[g].events = request[g].events
         /\ request'[g].fresh => request'[g] = request[g] /\ request[g].of # of
<1>1. g # h
  BY FinishChanges DEF Idle
<1>2. CASE request'[g] = request[g] /\ request[g].of # of
  BY <1>1, <1>2
<1>3. CASE /\ request'[g] = [request[g] EXCEPT !.fresh = FALSE]
           /\ request[g] \in RequestState \ {Idle}
  <2>1. CASE request[g] \in ProgressRequest
    BY <1>1, <1>3, <2>1 DEF ProgressRequest, At
  <2>2. CASE request[g] \in NewRule
    BY <1>1, <1>3, <2>2 DEF NewRule, At
  <2>3. CASE request[g] \in RuleChange
    BY <1>1, <1>3, <2>3 DEF RuleChange, At
  <2> QED
    BY <1>3, <2>1, <2>2, <2>3 DEF RequestState
<1>4. \/ request'[g] = request[g] /\ (At(g, "idle") \/ request[g].of # of)
      \/ /\ request'[g] = [request[g] EXCEPT !.fresh = FALSE]
         /\ request[g] \in RequestState \ {Idle}
  BY <1>1, FinishChanges
<1>5. request'[g] = request[g] => ~At(g, "idle")
  BY DEF At
<1> QED
  BY <1>2, <1>3, <1>4, <1>5

\* A request writes row as rule r of its staff member.
LEMMA RuleSaved ==
  ASSUME TypeOK, RulesAreChecked, OneRulePerDay, NEW h \in Requests,
         NEW r \in Rules, NEW row \in RuleRow,
         rule' = [rule EXCEPT ![r] = row],
         rule[r] = None \/ rule[r].staff = row.staff,
         request[h].fresh \in BOOLEAN, Finish(h, row.staff),
         request[h].fresh => MayBe(row, r)
  PROVE  RulesAreChecked' /\ OneRulePerDay'
<1> DEFINE m == row.staff
<1>1. /\ m \in Staff /\ row # None
      /\ rule \in [Rules -> {None} \cup RuleRow]
  BY RowsAreSome DEF RuleRow, TypeOK
<1>2. \A s \in Rules : rule'[s] = IF s = r THEN row ELSE rule[s]
  BY <1>1
<1>0. ASSUME NEW g \in Requests, request'[g].step \in {"create rule", "update rule"}
      PROVE  /\ g # h /\ request'[g].step = request[g].step
             /\ request'[g].of = request[g].of
             /\ request'[g].row = request[g].row
             /\ At(g, "update rule") => request'[g].change = request[g].change
             /\ request'[g].fresh => request'[g] = request[g] /\ request[g].of # m
  <2>1. request'[g].step # "idle"
    BY <1>0
  <2>2. /\ g # h /\ request'[g].step = request[g].step
        /\ request'[g].of = request[g].of
        /\ At(g, "create rule") => request'[g].row = request[g].row
        /\ At(g, "update rule") =>
             /\ request'[g].row = request[g].row
             /\ request'[g].change = request[g].change
        /\ request'[g].fresh => request'[g] = request[g] /\ request[g].of # m
    BY <1>1, <2>1, OthersKeep, ZenonT(60)
  <2> QED
    BY <1>0, <2>2 DEF At
<1>5. ASSUME NEW g \in Requests, At(g, "create rule")'
      PROVE  /\ request'[g].row.staff = request'[g].of
             /\ request'[g].fresh => MayBe(request[g].row, NoOne)'
  <2>1. At(g, "create rule")
    BY <1>0, <1>5 DEF At
  <2>2. request[g].row \in RuleRow
    BY <2>1, RequestTyped DEF NewRule
  <2>3. /\ request'[g].of = request[g].of /\ request'[g].row = request[g].row
        /\ request'[g].fresh => request'[g] = request[g] /\ request[g].of # m
    BY <1>0, <1>5 DEF At
  <2>4. /\ request[g].row.staff = request[g].of
        /\ request[g].fresh => MayBe(request[g].row, NoOne)
    BY <2>1 DEF RulesAreChecked
  <2>5. ASSUME request'[g].fresh PROVE MayBe(request[g].row, NoOne)'
    <3> DEFINE new == request[g].row
    <3>1. /\ new.from < new.to
          /\ new.active => ~Occupied(new.staff, new.day, NoOne)
      BY <2>3, <2>4, <2>5 DEF MayBe
    <3>2. request'[g].row = new /\ new.staff \in Staff \ {m}
      BY <2>2, <2>3, <2>4, <2>5 DEF RuleRow
    <3>3. Occupied(new.staff, new.day, NoOne)'
            <=> Occupied(new.staff, new.day, NoOne)
      BY <1>1, <1>2, <3>2, <2>3, <2>5 DEF Occupied
    <3> QED
      BY <2>3, <2>5, <3>1, <3>3 DEF MayBe
  <2>6. request'[g].row.staff = request'[g].of
    BY <2>3, <2>4, Zenon
  <2> QED
    BY <2>5, <2>6
<1>6. ASSUME NEW g \in Requests, At(g, "update rule")'
      PROVE  /\ rule'[request'[g].row] # None
             /\ rule'[request'[g].row].staff = request'[g].of
             /\ request'[g].fresh =>
                  MayBe(Changed(rule[request[g].row], request[g].change),
                        request[g].row)'
  <2>1. At(g, "update rule")
    BY <1>0, <1>6 DEF At
  <2>2. request[g].row \in Rules /\ request[g].change \in Changes
    BY <2>1, RequestTyped DEF RuleChange
  <2>3. /\ request'[g].of = request[g].of /\ request'[g].row = request[g].row
        /\ request'[g].change = request[g].change
        /\ request'[g].fresh => request'[g] = request[g] /\ request[g].of # m
    BY <1>0, <1>6, <2>1 DEF At
  <2>4. /\ rule[request[g].row] # None
        /\ rule[request[g].row].staff = request[g].of
        /\ request[g].fresh =>
             MayBe(Changed(rule[request[g].row], request[g].change),
                   request[g].row)
    BY <2>1 DEF RulesAreChecked
  <2>5. rule[request[g].row] \in RuleRow
    BY <1>1, <2>2, <2>4
  <2>6. ASSUME request'[g].fresh
        PROVE  MayBe(Changed(rule[request[g].row], request[g].change),
                     request[g].row)'
    <3> DEFINE changed == Changed(rule[request[g].row], request[g].change)
    <3>1. request'[g] = request[g] /\ request[g].of # m /\ request[g].fresh
      BY <2>3, <2>6
    <3>2. changed \in RuleRow /\ changed.staff = request[g].of
      BY <2>2, <2>4, <2>5, ChangedRow
    <3>3. rule'[request'[g].row] = rule[request[g].row]
      BY <1>1, <1>2, <2>2, <2>4, <3>1
    <3>4. changed' = changed
      BY <3>1, <3>3 DEF Changed
    <3>5. MayBe(changed, request[g].row)
      BY <2>4, <3>1
    <3> HIDE DEF changed
    <3>7. /\ changed.from < changed.to
          /\ changed.active => ~Occupied(changed.staff, changed.day, request[g].row)
      BY <3>5 DEF MayBe
    <3>8. changed.staff \in Staff \ {m}
      BY <3>1, <3>2 DEF RuleRow
    <3>9. Occupied(changed.staff, changed.day, request[g].row)'
            <=> Occupied(changed.staff, changed.day, request[g].row)
      BY <1>2, <1>1, <3>1, <3>4, <3>8 DEF Occupied
    <3> QED
      BY <3>1, <3>4, <3>7, <3>9 DEF MayBe, changed
  <2> QED
    BY <1>1, <1>2, <2>2, <2>3, <2>4, <2>6
<1>7. RulesAreChecked'
  BY <1>5, <1>6, Zenon DEF RulesAreChecked
<1>8. OneRulePerDay'
  <2> SUFFICES ASSUME NEW k \in Staff \ outdated', NEW s \in Rules, NEW t \in Rules,
                      rule'[s] # None, rule'[s].staff = k,
                      rule'[t] # None, rule'[t].staff = k
               PROVE  /\ rule'[s].from < rule'[s].to
                      /\ s # t /\ rule'[s].active /\ rule'[t].active =>
                           rule'[s].day # rule'[t].day
    BY DEF OneRulePerDay
  <2>1. k \in Staff \ outdated
    BY <1>1, FinishChanges
  <2>2. CASE k # m
    BY <1>2, <2>1, <2>2 DEF OneRulePerDay
  <2>3. CASE k = m
    <3>1. request[h].fresh
      BY <1>1, <2>3, FinishChanges
    <3>2. /\ row.from < row.to
          /\ row.active => \A o \in Rules \ {r} :
               ~(/\ rule[o] # None /\ rule[o].active
                 /\ rule[o].staff = m /\ rule[o].day = row.day)
      BY <3>1 DEF MayBe, Occupied
    <3> QED
      BY <1>2, <2>1, <2>3, <3>2 DEF OneRulePerDay
  <2> QED
    BY <2>2, <2>3
<1> QED
  BY <1>7, <1>8

\* What a request says of the rules when it has read q.
RuleChecked(q) ==
  /\ q.step = "create rule" =>
       q.row.staff = q.of /\ (q.fresh => MayBe(q.row, NoOne))
  /\ q.step = "update rule" =>
       /\ rule[q.row] # None /\ rule[q.row].staff = q.of
       /\ q.fresh => MayBe(Changed(rule[q.row], q.change), q.row)

LEMMA CheckedByEach ==
  RulesAreChecked <=> \A h \in Requests : RuleChecked(request[h])
  BY Zenon DEF RulesAreChecked, RuleChecked, At

\* Requests that are not fresh any more say less of the rules.
LEMMA StillChecked ==
  ASSUME NEW q \in RequestState \ {Idle}, RuleChecked(q)
  PROVE  RuleChecked([q EXCEPT !.fresh = FALSE])
<1>1. CASE q \in ProgressRequest
  BY <1>1 DEF ProgressRequest, RuleChecked
<1>2. CASE q \in NewRule
  BY <1>2 DEF NewRule, RuleChecked
<1>3. CASE q \in RuleChange
  BY <1>3 DEF RuleChange, RuleChecked
<1> QED
  BY <1>1, <1>2, <1>3 DEF RequestState

\* The rules stay as they are, and requests are new or say what they said.
LEMMA RulesUntouched ==
  ASSUME RulesAreChecked, OneRulePerDay, rule' = rule, outdated \subseteq outdated',
         \A g \in Requests : \/ RuleChecked(request'[g])
                            \/ request'[g] = request[g]
  PROVE  RulesAreChecked' /\ OneRulePerDay'
<1>1. ASSUME NEW g \in Requests PROVE RuleChecked(request'[g])
  BY CheckedByEach
<1>2. ASSUME NEW g \in Requests, At(g, "create rule")'
      PROVE  /\ request'[g].row.staff = request'[g].of
             /\ request'[g].fresh => MayBe(request[g].row, NoOne)'
  <2>1. /\ request'[g].row.staff = request'[g].of
        /\ request'[g].fresh => MayBe(request'[g].row, NoOne)
    BY <1>1, <1>2 DEF At, RuleChecked
  <2> QED
    BY <2>1 DEF MayBe, Occupied
<1>3. ASSUME NEW g \in Requests, At(g, "update rule")'
      PROVE  /\ rule'[request'[g].row] # None
             /\ rule'[request'[g].row].staff = request'[g].of
             /\ request'[g].fresh =>
                  MayBe(Changed(rule[request[g].row], request[g].change),
                        request[g].row)'
  <2>1. /\ rule'[request'[g].row] # None
        /\ rule'[request'[g].row].staff = request'[g].of
        /\ request'[g].fresh =>
             MayBe(Changed(rule[request'[g].row], request'[g].change),
                   request'[g].row)
    BY <1>1, <1>3 DEF At, RuleChecked
  <2> QED
    BY <2>1 DEF MayBe, Occupied, Changed
<1>4. RulesAreChecked'
  BY <1>2, <1>3, Zenon DEF RulesAreChecked
<1>5. OneRulePerDay'
  BY DEF OneRulePerDay
<1> QED
  BY <1>4, <1>5

LEMMA RulesStay ==
  ASSUME TypeOK, RulesAreChecked, OneRulePerDay, [Next]_vars
  PROVE  RulesAreChecked' /\ OneRulePerDay'
<1>1. ASSUME UNCHANGED <<rule, request, outdated>>
      PROVE  RulesAreChecked' /\ OneRulePerDay'
  BY <1>1, RulesUntouched
<1>2. ASSUME NEW h \in Requests, NEW q, RuleChecked(q), request' = Set(h, q),
             UNCHANGED <<rule, outdated>>
      PROVE  RulesAreChecked' /\ OneRulePerDay'
  <2>1. \A g \in Requests : request'[g] = IF g = h THEN q ELSE request[g]
    BY <1>2 DEF Set, TypeOK
  <2> QED
    BY <1>2, <2>1, RulesUntouched
<1>3. ASSUME NEW h \in Requests, WriteProgress(h), rule' = rule
      PROVE  RulesAreChecked' /\ OneRulePerDay'
  <2>1. RuleChecked(Idle)
    BY DEF RuleChecked, Idle
  <2>2. \A g \in Requests : RuleChecked(request[g])
    BY CheckedByEach
  <2>3. /\ request'[h] = Idle
        /\ \A g \in Requests \ {h} :
             \/ request'[g] = request[g]
             \/ /\ request'[g] = [request[g] EXCEPT !.fresh = FALSE]
                /\ request[g] \in RequestState \ {Idle}
    BY <1>3, WriterFinishes, FinishChanges
  <2>4. ASSUME NEW g \in Requests
        PROVE  RuleChecked(request'[g]) \/ request'[g] = request[g]
    <3>1. CASE g = h
      BY <2>1, <2>3, <3>1
    <3>2. CASE g # h
      BY <2>2, <2>3, <3>2, StillChecked
    <3> QED
      BY <3>1, <3>2
  <2>5. outdated \subseteq outdated'
    BY <1>3, WriterFinishes, FinishChanges
  <2> QED
    BY <1>3, <2>4, <2>5, RulesUntouched
<1>4. ASSUME NEW h \in Requests, NEW r \in Rules, CreateRule(h, r)
      PROVE  RulesAreChecked' /\ OneRulePerDay'
  <2> DEFINE row == request[h].row
  <2>1. /\ request[h] \in NewRule /\ row \in RuleRow
        /\ rule' = [rule EXCEPT ![r] = row]
    BY <1>4, RuleWritten DEF NewRule
  <2>2. /\ row.staff = request[h].of /\ rule[r] = None
        /\ request[h].fresh => MayBe(row, NoOne)
    BY <1>4 DEF CreateRule, RulesAreChecked
  <2>3. /\ Finish(h, row.staff) /\ request[h].fresh \in BOOLEAN
    <3>1. Finish(h, request[h].of) /\ request[h].fresh \in BOOLEAN
      BY <1>4, WriterFinishes
    <3> QED
      BY <2>2, <3>1
  <2>4. request[h].fresh => MayBe(row, r)
    BY <2>2, RowsAreSome DEF MayBe, Occupied
  <2> HIDE DEF row
  <2> QED
    BY <2>1, <2>2, <2>3, <2>4, RuleSaved
<1>5. ASSUME NEW h \in Requests, UpdateRule(h)
      PROVE  RulesAreChecked' /\ OneRulePerDay'
  <2> DEFINE q == request[h]
             row == Changed(rule[q.row], q.change)
  <2>1. /\ q \in RuleChange /\ q.row \in Rules /\ q.change \in Changes
        /\ rule' = [rule EXCEPT ![q.row] = row]
    BY <1>5, RuleWritten DEF RuleChange
  <2>2. /\ rule[q.row] # None /\ rule[q.row].staff = q.of
        /\ q.fresh => MayBe(row, q.row)
    BY <1>5 DEF UpdateRule, RulesAreChecked
  <2>3. rule[q.row] \in RuleRow
    BY <2>1, <2>2 DEF TypeOK
  <2>4. row \in RuleRow /\ row.staff = q.of
    BY <2>1, <2>2, <2>3, ChangedRow
  <2>5. /\ Finish(h, row.staff) /\ q.fresh \in BOOLEAN
    BY <1>5, <2>4, WriterFinishes
  <2> HIDE DEF row
  <2> QED
    BY <2>1, <2>2, <2>4, <2>5, RuleSaved
<1>6. ASSUME NEW b \in Businesses, SetUp(b)
      PROVE  RulesAreChecked' /\ OneRulePerDay'
  BY <1>1, <1>6, SetUpChanges
<1>7. ASSUME NEW h \in Requests, Handle(h)
      PROVE  RulesAreChecked' /\ OneRulePerDay'
  <2>1. \A q \in ProgressRequest \cup {Idle} : RuleChecked(q)
    <3>1. Idle.step = "idle" /\ \A q \in ProgressRequest : q.step = "progress"
      BY DEF Idle, ProgressRequest
    <3> QED
      BY <3>1 DEF RuleChecked
  <2>2. \A q \in NewRule : q.row.staff = q.of /\ MayBe(q.row, NoOne)
          => RuleChecked(q)
    BY DEF RuleChecked, NewRule
  <2>3. \A q \in RuleChange :
          /\ rule[q.row] # None /\ rule[q.row].staff = q.of
          /\ MayBe(Changed(rule[q.row], q.change), q.row)
          => RuleChecked(q)
    BY DEF RuleChecked, RuleChange
  <2>4. CASE UNCHANGED <<setup, rule, template, onboarding, outdated, writes>>
    <3>1. CASE request' = Set(h, Idle)
      BY <1>2, <2>1, <2>4, <3>1
    <3>2. ASSUME NEW b \in Businesses, NEW input \in Inputs,
                 ReadProgress(h, b, input)
          PROVE  RulesAreChecked' /\ OneRulePerDay'
      BY <1>2, <2>1, <2>4, <3>2, ProgressTyped
    <3>3. ASSUME NEW b \in Businesses, NEW m \in Staff, NEW d \in Days,
                 NEW hours \in Hours, ReadNewRule(h, b, m, d, hours)
          PROVE  RulesAreChecked' /\ OneRulePerDay'
      BY <1>2, <2>2, <2>4, <3>3, NewRuleTyped
    <3>4. ASSUME NEW b \in Businesses, NEW r \in Rules, NEW change \in Changes,
                 ReadRule(h, b, r, change)
          PROVE  RulesAreChecked' /\ OneRulePerDay'
      BY <1>2, <2>3, <2>4, <3>4, RuleChangeTyped
    <3> QED
      BY <1>3, <1>4, <1>5, <1>7, <3>1, <3>2, <3>3, <3>4, RequestSteps
  <2> QED
    BY <1>3, <1>4, <1>5, <1>7, <2>4, RequestSteps
<1> QED
  BY <1>1, <1>6, <1>7 DEF Next, vars

LEMMA InitChecked == Init => TypeOK /\ RulesAreChecked /\ OneRulePerDay
<1> SUFFICES ASSUME Init PROVE RulesAreChecked /\ OneRulePerDay
  BY InitTyped
<1>1. \A h \in Requests : request[h].step = "idle"
  BY DEF Init, Idle
<1>2. RulesAreChecked
  BY <1>1 DEF RulesAreChecked, At
<1>3. OneRulePerDay
  BY DEF Init, OneRulePerDay
<1> QED
  BY <1>2, <1>3

\* A staff member has one active rule a day for any number of rules, days and
\* requests, unless a request wrote what it had checked before another wrote
\* about the same rules (outdated).
THEOREM OneRuleEachDay == Spec => []OneRulePerDay
<1>1. Init => TypeOK /\ RulesAreChecked /\ OneRulePerDay
  BY InitChecked
<1>2. TypeOK /\ RulesAreChecked /\ OneRulePerDay /\ [Next]_vars
        => TypeOK' /\ RulesAreChecked' /\ OneRulePerDay'
  BY NextTyped, RulesStay
<1> QED
  BY <1>1, <1>2, PTL DEF Spec
-----------------------------------------------------------------------------
(* Tenants                                                                 *)

\* What was set up stays with its business.
LEMMA StayHere ==
  ASSUME TypeOK, [Next]_vars
  PROVE  /\ SetupOK
         /\ \A v \in Services : service[v] # None =>
              service'[v].at = service[v].at /\ service'[v] # None
         /\ \A m \in Staff : staff[m] # None =>
              staff'[m].at = staff[m].at /\ staff'[m] # None
<1>1. ASSUME NEW b \in Businesses, SetUp(b)
      PROVE  /\ \A v \in Services : service[v] # None =>
                  service'[v].at = service[v].at /\ service'[v] # None
             /\ \A m \in Staff : staff[m] # None =>
                  staff'[m].at = staff[m].at /\ staff'[m] # None
  BY <1>1, SetUpChanges
<1>2. ASSUME NEW h \in Requests, Handle(h)
      PROVE  service' = service /\ staff' = staff
  BY <1>2, RequestSteps DEF setup
<1>3. UNCHANGED vars => service' = service /\ staff' = staff
  BY DEF vars, setup
<1> QED
  BY <1>1, <1>2, <1>3 DEF Next, TypeOK

LEMMA NamesStay ==
  ASSUME TypeOK, RulesAreChecked, NamesItsOwn, [Next]_vars
  PROVE  NamesItsOwn'
<1>1. /\ service \in [Services -> {None} \cup Row]
      /\ staff \in [Staff -> {None} \cup Row]
      /\ assigned \subseteq Services \X Staff
      /\ exception \in [Exceptions -> {None} \cup ExceptionRow]
      /\ rule \in [Rules -> {None} \cup RuleRow]
  BY DEF TypeOK, SetupOK
\* Whose staff member it is, is known for good.
<1>2. ASSUME NEW m \in Staff, staff[m].at \in Businesses
      PROVE  staff'[m].at = staff[m].at
  BY <1>2, RowsAreSome, StayHere
<1>3. ASSUME NEW v \in Services, service[v] # None
      PROVE  /\ service[v].at \in Businesses /\ service'[v] # None
             /\ service'[v].at = service[v].at
  BY <1>1, <1>3, StayHere DEF Row
<1>4. \A row \in RuleRow : row.at \in Businesses /\ row.staff \in Staff
  BY DEF RuleRow
<1>5. \A row \in ExceptionRow :
        row.at \in Businesses /\ row.staff \in Staff \cup {NoOne}
  BY DEF ExceptionRow
\* Each part of the invariant, when what it is about is as it was.
<1>6. ASSUME NEW p \in assigned
      PROVE  service'[p[1]] # None /\ service'[p[1]].at = staff'[p[2]].at
  BY <1>1, <1>2, <1>3, <1>6 DEF NamesItsOwn
<1>7. ASSUME NEW r \in Rules, rule[r] # None
      PROVE  staff'[rule[r].staff].at = rule[r].at
  BY <1>1, <1>2, <1>4, <1>7 DEF NamesItsOwn
<1>8. ASSUME NEW x \in Exceptions, exception[x] # None,
             exception[x].staff # NoOne
      PROVE  staff'[exception[x].staff].at = exception[x].at
  BY <1>1, <1>2, <1>5, <1>8 DEF NamesItsOwn
<1>9. ASSUME NEW h \in Requests, At(h, "create rule")
      PROVE  staff'[request[h].row.staff].at = request[h].row.at
  <2>1. request[h].row \in RuleRow
    BY <1>9, RequestTyped DEF NewRule
  <2> QED
    BY <1>2, <1>4, <1>9, <2>1 DEF NamesItsOwn
\* The parts together.
<1>10. ASSUME \A p \in assigned' :
                service'[p[1]] # None /\ service'[p[1]].at = staff'[p[2]].at,
              \A r \in Rules : rule'[r] # None =>
                staff'[rule'[r].staff].at = rule'[r].at,
              \A x \in Exceptions :
                exception'[x] # None /\ exception'[x].staff # NoOne =>
                  staff'[exception'[x].staff].at = exception'[x].at,
              \A h \in Requests : request'[h].step = "create rule" =>
                staff'[request'[h].row.staff].at = request'[h].row.at
       PROVE  NamesItsOwn'
  BY <1>10, Zenon DEF NamesItsOwn, At
<1>11. \A h \in Requests : request[h].step = "create rule" =>
         staff'[request[h].row.staff].at = request[h].row.at
  BY <1>9 DEF At
<1>12. ASSUME NEW b \in Businesses, SetUp(b) PROVE NamesItsOwn'
  <2>1. rule' = rule /\ request' = request
    BY <1>12, SetUpChanges
  <2>2. ASSUME NEW p \in assigned'
        PROVE  service'[p[1]] # None /\ service'[p[1]].at = staff'[p[2]].at
    <3>1. \/ assigned' \subseteq assigned
          \/ \E v \in Services, m \in Staff :
               AssignStaff(b, v, m) /\ assigned' = assigned \cup {<<v, m>>}
      BY <1>12 DEF SetUp, CreateService, UpdateService, CreateStaffMember,
         UpdateStaffMember, AssignStaff, UnassignStaff, SaveException,
         DeleteException, ListTemplates, CreateTemplate, UpdateTemplate,
         SetTemplate, setup
    <3>2. ASSUME NEW v \in Services, NEW m \in Staff, AssignStaff(b, v, m)
          PROVE  service'[v] # None /\ service'[v].at = staff'[m].at
      BY <1>2, <1>3, <3>2, RowsAreSome DEF AssignStaff, StaffOf, Here
    <3>3. CASE p \in assigned
      BY <1>6, <3>3
    <3>4. CASE p \notin assigned
      <4>1. PICK v \in Services, m \in Staff : AssignStaff(b, v, m) /\ p = <<v, m>>
        BY <2>2, <3>1, <3>4
      <4> QED
        BY <3>2, <4>1
    <3> QED
      BY <3>3, <3>4
  <2>3. ASSUME NEW x \in Exceptions, exception'[x] # None,
               exception'[x].staff # NoOne
        PROVE  staff'[exception'[x].staff].at = exception'[x].at
    <3>1. \/ exception'[x] = exception[x] \/ exception'[x] = None
          \/ \E m \in Staff \cup {NoOne}, d \in Days, type \in {"blocked", "extra"} :
               /\ SaveException(b, x, m, d, type)
               /\ exception'[x] =
                    [at |-> b, staff |-> m, day |-> d, type |-> type]
      BY <1>1, <1>12, ZenonT(60)
      DEF SetUp, CreateService, UpdateService, CreateStaffMember,
          UpdateStaffMember, AssignStaff, UnassignStaff, SaveException,
          DeleteException, ListTemplates, CreateTemplate, UpdateTemplate,
          SetTemplate, setup
    <3>2. ASSUME NEW m \in Staff \cup {NoOne}, NEW d, NEW type,
                 SaveException(b, x, m, d, type), m # NoOne
          PROVE  staff'[m].at = b
      BY <1>2, <3>2 DEF SaveException, StaffOf, Here
    <3>3. CASE exception'[x] = exception[x]
      BY <1>8, <2>3, <3>3
    <3>4. CASE exception'[x] # exception[x]
      <4>1. PICK m \in Staff \cup {NoOne}, d \in Days, type \in {"blocked", "extra"} :
              /\ SaveException(b, x, m, d, type)
              /\ exception'[x] = [at |-> b, staff |-> m, day |-> d, type |-> type]
        BY <2>3, <3>1, <3>4
      <4>2. exception'[x].staff = m /\ exception'[x].at = b
        BY <4>1
      <4> QED
        BY <2>3, <3>2, <4>1, <4>2
    <3> QED
      BY <3>3, <3>4
  <2> QED
    BY <1>7, <1>10, <1>11, <2>1, <2>2, <2>3
<1>13. ASSUME NEW h \in Requests, Handle(h) PROVE NamesItsOwn'
  <2>1. assigned' = assigned /\ exception' = exception
    BY <1>13, RequestSteps DEF setup
  <2>2. ASSUME NEW r \in Rules, rule'[r] # None
        PROVE  staff'[rule'[r].staff].at = rule'[r].at
    <3>1. CASE rule'[r] = rule[r]
      BY <1>7, <2>2, <3>1
    <3>2. CASE CreateRule(h, r) /\ rule'[r] = request[h].row
      BY <1>9, <3>2 DEF CreateRule
    <3>3. CASE /\ UpdateRule(h) /\ r = request[h].row
               /\ rule'[r] = Changed(rule[r], request[h].change)
      <4>1. rule[r] # None /\ request[h].change \in Changes
        BY <3>3, RuleWritten DEF UpdateRule, RulesAreChecked, RuleChange
      <4>2. rule'[r].at = rule[r].at /\ rule'[r].staff = rule[r].staff
        BY <1>1, <3>3, <4>1, ChangedRow
      <4> QED
        BY <1>7, <4>1, <4>2
    <3> QED
      BY <1>1, <1>13, <3>1, <3>2, <3>3, RequestSteps, RuleWritten
  <2>3. ASSUME NEW g \in Requests, request'[g].step = "create rule"
        PROVE  staff'[request'[g].row.staff].at = request'[g].row.at
    <3>1. CASE \/ WriteProgress(h) \/ UpdateRule(h)
               \/ \E r \in Rules : CreateRule(h, r)
      <4>1. /\ request'[g].step = request[g].step
            /\ At(g, "create rule") => request'[g].row = request[g].row
        BY <2>3, <3>1, WriterFinishes, OthersKeep, ZenonT(30)
      <4> QED
        BY <1>11, <2>3, <4>1 DEF At
    <3>2. CASE UNCHANGED <<setup, rule, template, onboarding, outdated, writes>>
      <4>1. ASSUME NEW q \in RequestState, request' = Set(h, q),
                   q.step = "create rule" => staff[q.row.staff].at = q.row.at
            PROVE  staff'[request'[g].row.staff].at = request'[g].row.at
        <5>1. staff' = staff
          BY <3>2 DEF setup
        <5>2. request'[g] = IF g = h THEN q ELSE request[g]
          BY <4>1 DEF Set, TypeOK
        <5> QED
          BY <1>11, <2>3, <4>1, <5>1, <5>2
      <4>2. /\ Idle \in RequestState /\ Idle.step # "create rule"
            /\ \A q \in ProgressRequest \cup RuleChange :
                 q \in RequestState /\ q.step # "create rule"
            /\ \A q \in NewRule : q \in RequestState
        BY DEF RequestState, Idle, ProgressRequest, RuleChange
      <4>3. CASE request' = Set(h, Idle)
        BY <4>1, <4>2, <4>3
      <4>4. ASSUME NEW b \in Businesses, NEW input \in Inputs,
                   ReadProgress(h, b, input)
            PROVE  staff'[request'[g].row.staff].at = request'[g].row.at
        <5>1. PICK q \in ProgressRequest : request' = Set(h, q)
          BY <4>4, ProgressTyped
        <5> QED
          BY <4>1, <4>2, <5>1
      <4>5. ASSUME NEW b \in Businesses, NEW m \in Staff, NEW d \in Days,
                   NEW hours \in Hours, ReadNewRule(h, b, m, d, hours)
            PROVE  staff'[request'[g].row.staff].at = request'[g].row.at
        <5>1. PICK q \in NewRule : request' = Set(h, q) /\ q.row.staff = m
                                  /\ staff[m].at = q.row.at
          BY <4>5, NewRuleTyped
        <5> QED
          BY <4>1, <4>2, <5>1
      <4>6. ASSUME NEW b \in Businesses, NEW r \in Rules, NEW change \in Changes,
                   ReadRule(h, b, r, change)
            PROVE  staff'[request'[g].row.staff].at = request'[g].row.at
        <5>1. PICK q \in RuleChange : request' = Set(h, q)
          BY <4>6, RuleChangeTyped
        <5> QED
          BY <4>1, <4>2, <5>1
      <4> QED
        BY <1>13, <3>1, <4>3, <4>4, <4>5, <4>6, RequestSteps
    <3> QED
      BY <1>13, <3>1, <3>2, RequestSteps
  <2> QED
    BY <1>6, <1>8, <1>10, <2>1, <2>2, <2>3
<1>14. CASE UNCHANGED vars
  BY <1>6, <1>7, <1>8, <1>10, <1>11, <1>14 DEF vars, setup
<1> QED
  BY <1>12, <1>13, <1>14 DEF Next

\* Who is offered works for the business and is active, and the more staff
\* members an opening is for, the more are offered.
LEMMA CalculateOffers ==
  ASSUME TypeOK, NamesItsOwn, NEW b \in Businesses, NEW d,
         NEW open \in SUBSET ActiveHere(staff, b)
  PROVE  /\ Calculate(b, d, open) \subseteq ActiveHere(staff, b)
         /\ Calculate(b, d, open) \subseteq Calculate(b, d, ActiveHere(staff, b))
<1>1. /\ staff \in [Staff -> {None} \cup Row]
      /\ rule \in [Rules -> {None} \cup RuleRow]
      /\ exception \in [Exceptions -> {None} \cup ExceptionRow]
  BY DEF TypeOK, SetupOK
<1>2. ASSUME NEW r \in RulesOn(b, d), rule[r].staff \in Staff
      PROVE  rule[r].staff \in ActiveHere(staff, b)
  <2>1. r \in Rules /\ rule[r].at = b /\ staff[rule[r].staff].active
    BY <1>1, <1>2 DEF RulesOn, ActiveHere, Here
  <2>2. rule[r] # None
    BY <2>1, RowsAreSome
  <2> QED
    BY <1>1, <1>2, <2>1, <2>2 DEF NamesItsOwn, ActiveHere, Here
<1>3. ASSUME NEW x \in ExceptionsOn(b, d, "extra"), exception[x].staff \in Staff
      PROVE  exception[x].staff \in ActiveHere(staff, b)
  <2>1. exception[x].staff # NoOne
    BY <1>3, NoOneAssumption
  <2>2. x \in Exceptions /\ exception[x].at = b /\ staff[exception[x].staff].active
    BY <1>1, <1>3, <2>1 DEF ExceptionsOn, Here
  <2>3. exception[x] # None
    BY <2>2, RowsAreSome
  <2> QED
    BY <1>1, <1>3, <2>1, <2>2, <2>3 DEF NamesItsOwn, ActiveHere, Here
<1>4. Calculate(b, d, open) \subseteq ActiveHere(staff, b)
  BY <1>2, <1>3 DEF Calculate
<1>5. Calculate(b, d, open) \subseteq Calculate(b, d, ActiveHere(staff, b))
  BY DEF Calculate
<1> QED
  BY <1>4, <1>5

LEMMA OwnIsSeparate ==
  ASSUME TypeOK, NamesItsOwn
  PROVE  TenantsAreSeparate
<1>1. ASSUME NEW v \in Services, NEW d \in Days, service[v] # None
      PROVE  /\ Offered(v, d) \subseteq ActiveHere(staff, service[v].at)
             /\ Offered(v, d) \subseteq Preview(v, d)
  <2> DEFINE b == service[v].at
             open == IF Assigned(v) = {} THEN ActiveHere(staff, b)
                     ELSE ActiveHere(staff, b) \cap Assigned(v)
  <2>1. b \in Businesses
    BY <1>1 DEF TypeOK, SetupOK, Row
  <2>2. open \in SUBSET ActiveHere(staff, b)
    OBVIOUS
  <2>3. /\ Offered(v, d) =
             IF v \in ActiveHere(service, b) THEN Calculate(b, d, open) ELSE {}
        /\ Preview(v, d) =
             IF v \in ActiveHere(service, b)
               THEN Calculate(b, d, ActiveHere(staff, b)) ELSE {}
    BY DEF Offered, Preview
  <2> HIDE DEF b, open
  <2>4. /\ Calculate(b, d, open) \subseteq ActiveHere(staff, b)
        /\ Calculate(b, d, open) \subseteq Calculate(b, d, ActiveHere(staff, b))
    BY <2>1, <2>2, CalculateOffers
  <2> QED
    BY <2>3, <2>4 DEF b
<1>2. /\ \A p \in assigned : service[p[1]].at = staff[p[2]].at
      /\ \A r \in Rules : rule[r] # None => staff[rule[r].staff].at = rule[r].at
      /\ \A x \in Exceptions :
           exception[x] # None /\ exception[x].staff # NoOne =>
             staff[exception[x].staff].at = exception[x].at
  BY DEF NamesItsOwn
<1> QED
  BY <1>1, <1>2 DEF TenantsAreSeparate

\* For any number of businesses, none sets up or offers what is another's: a
\* request that checked whose staff member it is may write at any later time,
\* because a staff member never changes the business.
THEOREM SeparateTenants == Spec => []TenantsAreSeparate
<1> DEFINE IInv == TypeOK /\ RulesAreChecked /\ OneRulePerDay /\ NamesItsOwn
<1>1. Init => IInv
  <2>1. ASSUME Init PROVE NamesItsOwn
    <3>1. \A h \in Requests : request[h].step = "idle"
      BY <2>1 DEF Init, Idle
    <3>2. /\ assigned = {} /\ \A r \in Rules : rule[r] = None
          /\ \A x \in Exceptions : exception[x] = None
      BY <2>1 DEF Init
    <3> QED
      BY <3>1, <3>2 DEF NamesItsOwn, At
  <2> QED
    BY <2>1, InitChecked
<1>2. IInv /\ [Next]_vars => IInv'
  BY NextTyped, RulesStay, NamesStay
<1>3. IInv => TenantsAreSeparate
  BY OwnIsSeparate
<1> QED
  BY <1>1, <1>2, <1>3, PTL DEF Spec
-----------------------------------------------------------------------------
(* The onboarding and the templates                                        *)

LEMMA ProgressStays ==
  ASSUME TypeOK, ProgressIsRead, OnboardingIsTrue, [Next]_vars
  PROVE  ProgressIsRead' /\ OnboardingIsTrue'
<1> DEFINE
     Reads(q) ==
       /\ q.ready => q.of \in wasReady'
       /\ \A task \in Tasks :
            <<task, "public_page">> \in q.events => task \in q.done
       /\ q.fresh => onboarding'[q.of].done \subseteq q.done
     IsTrue(b) ==
       /\ onboarding'[b].completed => b \in wasReady'
       /\ b \notin outdated' =>
            \A task \in Tasks :
              <<task, "public_page">> \in onboarding'[b].events =>
                task \in onboarding'[b].done
<1>1. wasReady \subseteq wasReady'
  BY DEF Next, vars
<1>2. ASSUME \A h \in Requests :
               request'[h].step = "progress" => Reads(request'[h]),
             \A b \in Businesses : IsTrue(b)
      PROVE  ProgressIsRead' /\ OnboardingIsTrue'
  BY <1>2, Zenon DEF ProgressIsRead, OnboardingIsTrue, At
<1>3. ASSUME NEW h \in Requests, request[h].step = "progress",
             onboarding'[request[h].of].done = onboarding[request[h].of].done
      PROVE  Reads(request[h])
  BY <1>1, <1>3 DEF ProgressIsRead, At
<1>4. ASSUME NEW b \in Businesses, onboarding'[b] = onboarding[b],
             outdated \subseteq outdated'
      PROVE  IsTrue(b)
  BY <1>1, <1>4 DEF OnboardingIsTrue
<1>5. ASSUME NEW h \in Requests, WriteProgress(h)
      PROVE  ProgressIsRead' /\ OnboardingIsTrue'
  <2> DEFINE q == request[h]
  <2>1. /\ q \in ProgressRequest /\ q.of \in Businesses
        /\ \A b \in Businesses \ {q.of} : onboarding'[b] = onboarding[b]
        /\ onboarding'[q.of].done = q.done
        /\ onboarding'[q.of].events = onboarding[q.of].events \cup q.events
        /\ onboarding'[q.of].completed => onboarding[q.of].completed \/ q.ready
    BY <1>5, ProgressWritten DEF ProgressRequest
  <2>2. /\ q.ready => q.of \in wasReady
        /\ \A task \in Tasks :
             <<task, "public_page">> \in q.events => task \in q.done
        /\ q.fresh => onboarding[q.of].done \subseteq q.done
    BY <1>5 DEF WriteProgress, ProgressIsRead
  <2>3. /\ Finish(h, q.of) /\ q.of \in Staff \cup Businesses
        /\ q.fresh \in BOOLEAN
    BY <1>5, WriterFinishes
  <2>4. outdated \subseteq outdated' /\ (~q.fresh => q.of \in outdated')
    BY <2>3, FinishChanges
  <2>5. IsTrue(q.of)
    BY <1>1, <2>1, <2>2, <2>4 DEF OnboardingIsTrue
  <2>6. \A b \in Businesses : IsTrue(b)
    BY <1>4, <2>1, <2>4, <2>5
  <2>7. ASSUME NEW g \in Requests, request'[g].step = "progress"
        PROVE  Reads(request'[g])
    <3>1. /\ request'[g].step = request[g].step
          /\ request'[g].of = request[g].of
          /\ At(g, "progress") =>
               /\ request'[g].ready = request[g].ready
               /\ request'[g].done = request[g].done
               /\ request'[g].events = request[g].events
          /\ request'[g].fresh => request'[g] = request[g] /\ request[g].of # q.of
      BY <2>3, <2>7, OthersKeep, ZenonT(60)
    <3>2. At(g, "progress") /\ request[g] \in ProgressRequest
      BY <2>7, <3>1, RequestTyped DEF At
    <3>3. /\ request[g].ready => request[g].of \in wasReady
          /\ \A task \in Tasks :
               <<task, "public_page">> \in request[g].events
                 => task \in request[g].done
          /\ request[g].fresh =>
               onboarding[request[g].of].done \subseteq request[g].done
      BY <3>2 DEF ProgressIsRead
    <3>4. request[g].of \in Businesses
      BY <3>2 DEF ProgressRequest
    <3> QED
      BY <1>1, <2>1, <3>1, <3>2, <3>3, <3>4
  <2> QED
    BY <1>2, <2>6, <2>7
<1>6. ASSUME UNCHANGED <<onboarding, outdated>>, NEW h \in Requests, NEW q,
             q.step = "progress" => Reads(q), request' = Set(h, q)
      PROVE  ProgressIsRead' /\ OnboardingIsTrue'
  <2>1. \A g \in Requests : request'[g] = IF g = h THEN q ELSE request[g]
    BY <1>6 DEF Set, TypeOK
  <2>2. \A g \in Requests :
          request'[g].step = "progress" => Reads(request'[g])
    BY <1>3, <1>6, <2>1
  <2> QED
    BY <1>2, <1>4, <1>6, <2>2
<1>7. ASSUME UNCHANGED <<onboarding, outdated, request>>
      PROVE  ProgressIsRead' /\ OnboardingIsTrue'
  BY <1>2, <1>3, <1>4, <1>7
<1>8. ASSUME NEW h \in Requests, UpdateRule(h) \/ \E r \in Rules : CreateRule(h, r),
             onboarding' = onboarding
      PROVE  ProgressIsRead' /\ OnboardingIsTrue'
  <2>1. /\ Finish(h, request[h].of) /\ request[h].of \in Staff \cup Businesses
        /\ request[h].fresh \in BOOLEAN
    BY <1>8, WriterFinishes
  <2>2. outdated \subseteq outdated'
    BY <2>1, FinishChanges
  <2>3. ASSUME NEW g \in Requests, request'[g].step = "progress"
        PROVE  Reads(request'[g])
    <3>1. /\ request'[g].step = request[g].step
          /\ request'[g].of = request[g].of
          /\ At(g, "progress") =>
               /\ request'[g].ready = request[g].ready
               /\ request'[g].done = request[g].done
               /\ request'[g].events = request[g].events
          /\ request'[g].fresh => request'[g] = request[g]
      BY <2>1, <2>3, OthersKeep, ZenonT(30)
    <3>2. request[g].step = "progress"
      BY <2>3, <3>1
    <3>3. Reads(request[g])
      BY <1>3, <1>8, <3>2
    <3> QED
      BY <3>1, <3>2, <3>3 DEF At
  <2> QED
    BY <1>2, <1>4, <1>8, <2>2, <2>3
<1>9. ASSUME NEW h \in Requests, NEW b \in Businesses, NEW input \in Inputs,
             ReadProgress(h, b, input), wasReady' = wasReady \cup
               {c \in Businesses : Ready(c)}, UNCHANGED <<onboarding, outdated>>
      PROVE  ProgressIsRead' /\ OnboardingIsTrue'
  <2>1. PICK q \in ProgressRequest :
          /\ request' = Set(h, q) /\ q.of = b
          /\ q.ready = Ready(b) /\ onboarding[b].done \subseteq q.done
          /\ \A task \in Tasks :
               <<task, "public_page">> \in q.events => task \in q.done
    BY <1>9, ProgressTyped
  <2>2. Reads(q)
    BY <1>9, <2>1
  <2> QED
    BY <1>6, <1>9, <2>1, <2>2
<1> HIDE DEF Reads, IsTrue
<1>10. ASSUME NEW h \in Requests, Handle(h),
              wasReady' = wasReady \cup {c \in Businesses : Ready(c)}
       PROVE  ProgressIsRead' /\ OnboardingIsTrue'
  <2>1. /\ Idle.step # "progress" /\ \A q \in NewRule : q.step # "progress"
        /\ \A q \in RuleChange : q.step # "progress"
    BY DEF Idle, NewRule, RuleChange
  <2>2. CASE UNCHANGED <<setup, rule, template, onboarding, outdated, writes>>
    <3>1. CASE request' = Set(h, Idle)
      BY <1>6, <2>1, <2>2, <3>1
    <3>2. ASSUME NEW b \in Businesses, NEW m \in Staff, NEW d \in Days,
                 NEW hours \in Hours, ReadNewRule(h, b, m, d, hours)
          PROVE  ProgressIsRead' /\ OnboardingIsTrue'
      <4>1. PICK q \in NewRule : request' = Set(h, q)
        BY <3>2, NewRuleTyped
      <4> QED
        BY <1>6, <2>1, <2>2, <4>1
    <3>3. ASSUME NEW b \in Businesses, NEW r \in Rules, NEW change \in Changes,
                 ReadRule(h, b, r, change)
          PROVE  ProgressIsRead' /\ OnboardingIsTrue'
      <4>1. PICK q \in RuleChange : request' = Set(h, q)
        BY <3>3, RuleChangeTyped
      <4> QED
        BY <1>6, <2>1, <2>2, <4>1
    <3> QED
      BY <1>5, <1>8, <1>9, <1>10, <2>2, <3>1, <3>2, <3>3, RequestSteps
  <2> QED
    BY <1>5, <1>8, <1>10, <2>2, RequestSteps
<1>11. ASSUME NEW b \in Businesses, SetUp(b)
       PROVE  ProgressIsRead' /\ OnboardingIsTrue'
  BY <1>7, <1>11, SetUpChanges
<1> QED
  BY <1>7, <1>10, <1>11 DEF Next, vars

\* The onboarding tells the truth for any number of businesses, tasks and
\* requests: who has read the setup as complete may say so at any later time,
\* and progress is kept unless updates have overlapped (outdated).
THEOREM TrueOnboarding == Spec => []OnboardingIsTrue
<1> DEFINE IInv == /\ TypeOK /\ RulesAreChecked /\ OneRulePerDay
                   /\ ProgressIsRead /\ OnboardingIsTrue
<1>1. Init => IInv
  <2> SUFFICES ASSUME Init PROVE IInv
    OBVIOUS
  <2>1. \A h \in Requests : request[h].step = "idle"
    BY DEF Init, Idle
  <2>2. ProgressIsRead
    BY <2>1 DEF ProgressIsRead, At
  <2>3. OnboardingIsTrue
    BY DEF Init, OnboardingIsTrue
  <2> QED
    BY <2>2, <2>3, InitChecked
<1>2. IInv /\ [Next]_vars => IInv'
  BY NextTyped, RulesStay, ProgressStays
<1> QED
  BY <1>1, <1>2, PTL DEF Spec

\* No listing of the templates takes back what a business wrote: whoever lists
\* them finds an edited one, and nothing else sets one to the default.
THEOREM KeptEdits == Spec => EditsAreKept
<1>1. ASSUME TypeOK, [Next]_vars, NEW b \in Businesses, template[b] = "edited"
      PROVE  template'[b] = "edited"
  <2>1. ASSUME NEW c \in Businesses, SetUp(c) PROVE template'[b] = "edited"
    <3>1. CASE ListTemplates(c) \/ CreateTemplate(c) \/ UpdateTemplate(c)
      BY <1>1, <3>1
      DEF ListTemplates, CreateTemplate, UpdateTemplate, SetTemplate, TypeOK
    <3>2. CASE ~(ListTemplates(c) \/ CreateTemplate(c) \/ UpdateTemplate(c))
      <4>1. template' = template
        BY <2>1, <3>2
        DEF SetUp, CreateService, UpdateService, CreateStaffMember,
            UpdateStaffMember, AssignStaff, UnassignStaff, SaveException,
            DeleteException
      <4> QED
        BY <1>1, <4>1
    <3> QED
      BY <3>1, <3>2
  <2>2. ASSUME NEW h \in Requests, Handle(h) PROVE template' = template
    BY <1>1, <2>2, RequestSteps
  <2> QED
    BY <1>1, <2>1, <2>2 DEF Next, vars
<1>2. TypeOK /\ RulesAreChecked /\ OneRulePerDay /\ [Next]_vars
        => TypeOK' /\ RulesAreChecked' /\ OneRulePerDay'
  BY NextTyped, RulesStay
<1>3. Spec => []TypeOK
  BY <1>2, InitChecked, PTL DEF Spec
<1>4. TypeOK /\ [Next]_vars =>
        \A b \in Businesses : template[b] = "edited" => template'[b] = "edited"
  BY <1>1
<1> QED
  BY <1>3, <1>4, PTL DEF Spec, EditsAreKept
=============================================================================
