---------------------------- MODULE MCChatMemory ----------------------------
(* Two requests for one session, or for two of which the store has room for   *)
(* one.  Two questions name a security each, one is a follow-up, one an       *)
(* aside.  The cache keeps two answers of a session for two ticks.            *)
EXTENDS ChatMemory, TLC

CONSTANTS r1, r2, e1, c1, c2, follow, term

MCSessions  == 1..1
TwoSessions == 1..2
MCRequests  == {r1, r2}
MCEntries   == {e1}
MCContexts  == {c1, c2}
MCQuestions == {c1, c2, follow, term}
FewQuestions == {c1, follow}
MCNames     == [q \in Questions |-> IF q \in Contexts THEN q ELSE NoContext]
Index       == (c1 :> 0) @@ (c2 :> 1) @@ (follow :> 2) @@ (term :> 3)
MCRank      == [k \in CacheKeys |-> (k[1] * 4 + Index[k[2]]) * (MaxRevision + 1) + k[3]]
MCAsides    == {term}
Swap        == Permutations(Requests)
None        == {}
One         == {c2}
=============================================================================
