-------------------------- MODULE MCAdmissionLimits -------------------------
(* Two requests of two clients over a midnight.  Three ticks are a day, the    *)
(* first of which is one tick old when the clock starts.                       *)
EXTENDS RequestProtector, TLC

CONSTANTS r1, r2

MCRequests == {r1, r2}
MCClients  == 1..2
Symmetry   == Permutations(MCRequests)
=============================================================================
