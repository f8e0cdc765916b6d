-------------------------- MODULE MCAdmissionSlots --------------------------
(* Four requests of two clients hand two slots on to each other.  The clock    *)
(* stands still: nothing here depends on it.                                   *)
EXTENDS RequestProtector

CONSTANTS r1, r2, r3, r4

MCRequests == {r1, r2, r3, r4}
MCClients  == 1..2
=============================================================================
