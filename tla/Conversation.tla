---------------------------- MODULE Conversation ----------------------------
(***************************************************************************)
(* What the session store promises the chat service, without entries,      *)
(* locks, clocks or capacity: each session has a memory and at most one    *)
(* owner.  Only the owner changes the memory, one saved context or one     *)
(* recorded exchange at a time.  Sessions nobody owns may be forgotten at  *)
(* any time, and then as a whole.                                          *)
(***************************************************************************)
EXTENDS Integers

CONSTANTS Sessions, Requests, Nobody, Contexts, NoContext

VARIABLES owner, memory

vars == <<owner, memory>>

Forgotten == [context |-> NoContext, revision |-> 0]

Init ==
  /\ owner = [s \in Sessions |-> Nobody]
  /\ memory = [s \in Sessions |-> Forgotten]

\* The memories after the sessions of F are forgotten.
Without(F) == [s \in Sessions |-> IF s \in F THEN Forgotten ELSE memory[s]]

Begin(r, s) ==
  /\ owner[s] = Nobody
  /\ \A u \in Sessions : owner[u] # r
  /\ owner' = [owner EXCEPT ![s] = r]

End(s) ==
  /\ owner[s] # Nobody
  /\ owner' = [owner EXCEPT ![s] = Nobody]

Save(s, c, kept) ==
  /\ owner[s] # Nobody
  /\ memory' = [kept EXCEPT ![s].context = c]

Record(s, kept) ==
  /\ owner[s] # Nobody
  /\ memory' = [kept EXCEPT ![s].revision = @ + 1]

\* Any step may also forget sessions that nobody owns.
Next ==
  \E F \in SUBSET {s \in Sessions : owner[s] = Nobody} :
    \/ memory' = Without(F) /\ UNCHANGED owner
    \/ memory' = Without(F) /\ \E r \in Requests, s \in Sessions : Begin(r, s)
    \/ memory' = Without(F) /\ \E s \in Sessions : End(s)
    \/ UNCHANGED owner /\ \E s \in Sessions, c \in Contexts : Save(s, c, Without(F))
    \/ UNCHANGED owner /\ \E s \in Sessions : Record(s, Without(F))

Spec == Init /\ [][Next]_vars

=============================================================================
