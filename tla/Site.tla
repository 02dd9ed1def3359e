-------------------------------- MODULE Site --------------------------------
(***************************************************************************)
(* The business as its pages in the browser see it: what is booked, on     *)
(* which days it opens, and which slots that leaves.  Other modules model  *)
(* how the server comes to these answers; here each change is one step.    *)
(* A day stands for what a slot is looked for with: a date and a service.  *)
(***************************************************************************)
EXTENDS Integers, FiniteSets

CONSTANTS
  LastDay,    \* days are numbered from 1 to LastDay
  Times,      \* the times (hours) at which a slot of a day begins
  OpenDays,   \* the days that are open at first
  Booked,     \* the slot that is booked at first
  Budgets     \* bounds on what is done at the page that books, at that of
              \* one appointment, at the portal, at the dashboard and at
              \* the public page, and on the requests that fail or whose
              \* answer is lost: each behaviour has one of these records

ASSUME DaysAssumption == LastDay \in Nat /\ OpenDays \subseteq 1..LastDay
ASSUME BookedAssumption == Booked \in [day : OpenDays, time : Times]
ASSUME BudgetsAssumption ==
         Budgets \subseteq [customer : Nat, link : Nat, portal : Nat,
                            owner : Nat, landing : Nat, faults : Nat]

VARIABLES
  agenda,    \* the appointments
  rules,     \* the days that are open
  version,   \* changes of the business so far: numbers appointments too
  left       \* how much of its budget the behaviour has left

siteVars == <<agenda, rules, version, left>>

None == 0
Days == 1..LastDay
Slots == [day : Days, time : Times]
NoSlot == [day |-> None, time |-> None]

SiteInit ==
  /\ agenda = {[id |-> 1, slot |-> Booked]}
  /\ rules = OpenDays
  /\ version = 1
  /\ left \in Budgets

\* The slots that the server offers on a day, for the appointment of an id to
\* move to or for a new one.
FreeFor(id, d) ==
  {s \in Slots : /\ s.day = d /\ d \in rules
                 /\ \A a \in agenda : a.slot # s \/ a.id = id}
Free(d) == FreeFor(None, d)

\* The first day after d with something free; None if there is none.
NextFree(d) ==
  LET open == {e \in Days : e > d /\ Free(e) # {}}
  IN IF open = {} THEN None ELSE CHOOSE e \in open : \A f \in open : e <= f

Changed == version' = version + 1 /\ UNCHANGED left

BookAt(s) == /\ agenda' = agenda \cup {[id |-> version + 1, slot |-> s]}
             /\ UNCHANGED rules /\ Changed

Remove(a) == agenda' = agenda \ {a} /\ UNCHANGED rules /\ Changed

Move(a, s) ==
  /\ agenda' = (agenda \ {a}) \cup {[a EXCEPT !.slot = s]}
  /\ UNCHANGED rules /\ Changed

OpenDay(d) == rules' = rules \cup {d} /\ UNCHANGED agenda /\ Changed

SetUp == UNCHANGED <<agenda, rules>> /\ Changed

Spend(what) == /\ left[what] > 0 /\ left' = [left EXCEPT ![what] = @ - 1]
               /\ UNCHANGED <<agenda, rules, version>>

=============================================================================
