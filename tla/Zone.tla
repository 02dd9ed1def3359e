-------------------------------- MODULE Zone --------------------------------
(***************************************************************************)
(* The clock of a business: how the code turns a time of the local day     *)
(* into an instant.  A zone is its offset from UTC before and after one    *)
(* change of the clock, and the instant of the change; a zone that keeps   *)
(* its offset has twice the same.  Instants and offsets are counted in one *)
(* unit, whatever its length.                                              *)
(***************************************************************************)
EXTENDS Integers

Zones == [before : Int, after : Int, change : Int]

\* timeZoneOffsetMs: what the local clock is ahead of UTC at an instant.
Offset(z, u) == IF u < z.change THEN z.before ELSE z.after

\* What the local clock reads at an instant.
Local(z, u) == u + Offset(z, u)

\* Mutant of Zoned: the offset is looked up once.
ZonedOnce(z, l) == l - Offset(z, l)

\* dateAtZonedMinutes: the offset at the instant that the local time would be
\* in UTC leads to another, whose offset is the one that is taken.
Zoned(z, l) == l - Offset(z, l - Offset(z, l))

\* The local times the clock does show; it jumps over the others.
IsShown(z, l) == \E u \in {l - z.before, l - z.after} : Local(z, u) = l
=============================================================================
