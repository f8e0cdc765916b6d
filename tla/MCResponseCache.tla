-------------------------- MODULE MCResponseCache ---------------------------
(* Three keys of one session and two of another, two answers.                 *)
EXTENDS ResponseCache, TLC

CONSTANTS a1, a2

MCKeys      == {<<1, 1>>, <<1, 2>>, <<1, 3>>, <<2, 1>>, <<2, 2>>}
MCSessionOf == [k \in MCKeys |-> k[1]]
MCRank      == [k \in MCKeys |-> 3 * k[1] + k[2]]
MCAnswers   == {a1, a2}
Symmetry    == Permutations(MCAnswers)
=============================================================================
