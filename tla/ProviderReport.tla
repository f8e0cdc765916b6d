--------------------------- MODULE ProviderReport ---------------------------
(***************************************************************************)
(* What asking several providers at once promises: whatever they do, the   *)
(* report comes, it names each of them, a conclusion one of them had       *)
(* reached is reported as it was reached, and the others are reported as   *)
(* having failed.                                                          *)
(***************************************************************************)
CONSTANTS Providers, Conclusions, Failures

VARIABLES asking, concluded, report

vars == <<asking, concluded, report>>

Nothing == [p \in {} |-> {}]

Init == asking = FALSE /\ concluded = Nothing /\ report = Nothing

Begin == ~asking /\ asking' = TRUE /\ concluded' = Nothing /\ report' = Nothing

\* A provider answers once, before the report is made.
Conclude(p, c) ==
  /\ asking /\ p \notin DOMAIN concluded /\ report = Nothing
  /\ concluded' = [q \in DOMAIN concluded \cup {p} |-> IF q = p THEN c ELSE concluded[q]]
  /\ UNCHANGED <<asking, report>>

Report ==
  /\ asking /\ report = Nothing
  /\ \E failed \in [Providers \ DOMAIN concluded -> Failures] :
       report' = [p \in Providers |-> IF p \in DOMAIN concluded THEN concluded[p] ELSE failed[p]]
  /\ UNCHANGED <<asking, concluded>>

Return == asking /\ report # Nothing /\ asking' = FALSE /\ UNCHANGED <<concluded, report>>

Next ==
  \/ Begin \/ Report \/ Return
  \/ \E p \in Providers, c \in Conclusions : Conclude(p, c)

Spec == Init /\ [][Next]_vars /\ WF_vars(Report) /\ WF_vars(Return)
=============================================================================
