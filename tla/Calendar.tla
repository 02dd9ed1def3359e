------------------------------ MODULE Calendar ------------------------------
(***************************************************************************)
(* What the appointments of a business promise: slots of staff members are *)
(* held, a slot is taken only while it clashes with none that is held, and *)
(* one step takes, gives back or moves one slot and touches no other.      *)
(***************************************************************************)
EXTENDS Integers

VARIABLE held   \* the set of records [staff, from, to] that are held

Clash(p, q) == p.staff = q.staff /\ p.from < q.to /\ q.from < p.to

FreeFor(slots, p) == \A q \in slots : ~Clash(p, q)

Init == held = {}

Take == \E p \in held' : FreeFor(held, p) /\ held' = held \cup {p}

GiveBack == \E p \in held : held' = held \ {p}

Move == \E p \in held, q \in held' :
          FreeFor(held \ {p}, q) /\ held' = (held \ {p}) \cup {q}

Next == Take \/ GiveBack \/ Move

Spec == Init /\ [][Next]_held
=============================================================================
