------------------------------- MODULE Offers -------------------------------
(***************************************************************************)
(* What the waitlist promises: an offer pairs an entry with a released     *)
(* appointment and is made once; an entry has one live offer at a time; an *)
(* offer ends once, and the one that is accepted is the entry's last.      *)
(***************************************************************************)

CONSTANTS Entries, Releases

VARIABLES
  live,   \* offers that can still be answered
  won,    \* offers that were accepted
  lost    \* offers that were rejected or expired

Init == live = {} /\ won = {} /\ lost = {}

Busy(e) == \E o \in live \cup won : o[1] = e

Make(e, r) ==
  /\ ~Busy(e)
  /\ <<e, r>> \notin lost
  /\ live' = live \cup {<<e, r>>}
  /\ UNCHANGED <<won, lost>>

Win(o) ==
  /\ o \in live
  /\ live' = live \ {o}
  /\ won' = won \cup {o}
  /\ UNCHANGED lost

\* One job may end several offers at once.
Lose(ended) ==
  /\ ended # {} /\ ended \subseteq live
  /\ live' = live \ ended
  /\ lost' = lost \cup ended
  /\ UNCHANGED won

Next ==
  \/ \E e \in Entries, r \in Releases : Make(e, r)
  \/ \E o \in live : Win(o)
  \/ \E ended \in SUBSET live : Lose(ended)

Spec == Init /\ [][Next]_<<live, won, lost>>
=============================================================================
