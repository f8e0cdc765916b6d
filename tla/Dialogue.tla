------------------------------ MODULE Dialogue ------------------------------
(***************************************************************************)
(* What a conversation with the chat service is, without entries, locks,   *)
(* revisions, caches or clocks: each session has a subject, the security   *)
(* last talked about.  A question that names a security is answered about  *)
(* that one and makes it the subject; a follow-up is answered about the    *)
(* subject; an aside is about no security and leaves the subject as it is. *)
(* Answers are given one at a time, and a session's subject may be         *)
(* forgotten between two answers.                                          *)
(***************************************************************************)
CONSTANTS Sessions, Requests, Questions, Names, Asides, NoContext, NoAnswer

VARIABLES subject, reply

vars == <<subject, reply>>

\* What question q is about when the subject is c.
About(q, c) == IF q \in Asides \/ Names[q] # NoContext THEN Names[q] ELSE c

Init ==
  /\ subject = [s \in Sessions |-> NoContext]
  /\ reply = [r \in Requests |-> NoAnswer]

\* The subjects once those of the sessions F are forgotten.
Without(F) == [s \in Sessions |-> IF s \in F THEN NoContext ELSE subject[s]]

Answer(r, s, q, kept) ==
  /\ reply[r] = NoAnswer
  /\ reply' = [reply EXCEPT ![r] = <<q, About(q, kept[s])>>]
  /\ subject' = [kept EXCEPT ![s] = IF q \in Asides THEN @ ELSE About(q, @)]

\* Any step may forget; one may also give an answer, or hand one over.
Next ==
  \E F \in SUBSET Sessions :
    \/ subject' = Without(F) /\ UNCHANGED reply
    \/ subject' = Without(F) /\ \E r \in Requests : reply' = [reply EXCEPT ![r] = NoAnswer]
    \/ \E r \in Requests, s \in Sessions \ F, q \in Questions : Answer(r, s, q, Without(F))

Spec == Init /\ [][Next]_vars

=============================================================================
