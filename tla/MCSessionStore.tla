-------------------------- MODULE MCSessionStore --------------------------
(* Three requests use three sessions of a store with room for two of them. *)
EXTENDS SessionStore, TLC

CONSTANTS r1, r2, r3, e1, e2, e3, c1

MCSessions == 1..3
MCRequests == {r1, r2, r3}
MCEntries  == {e1, e2, e3}
MCContexts == {c1}

Symmetry == Permutations(MCRequests)
=============================================================================
