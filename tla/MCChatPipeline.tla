--------------------------- MODULE MCChatPipeline ---------------------------
(* Two requests of one client, one slot, and at most two attempts admitted.    *)
(* Deadline and timeouts are a few ticks.  Of the questions about one known    *)
(* security, one has mixed cues, so that the classifier is asked (it may say   *)
(* that a price is asked for); one is for a term, one for a term on a date,    *)
(* and one for advice.                                                         *)
EXTENDS ChatPipeline, TLC

CONSTANTS r1, r2, s1

MCRequests  == {r1, r2}
MCClients   == 1..1
MCClientOf  == [r \in Requests |-> 1]
MCDirectory == [k \in {"security_id", "ticker", "name", "alias"} |-> [t \in {k} |-> s1]]
None        == {}
NoTerms     == << >>

Ask1(cues) ==
  [cues |-> cues, spans |-> <<[first |-> 1, last |-> 2, term |-> "name"]>>, stated |-> << >>,
   malformed |-> FALSE]
Term == [Ask1({"term_cue", "term_marker"}) EXCEPT !.spans = << >>]

MCReads ==
  [q \in Questions |->
     CASE q = "mixed"  -> Ask1({"risk", "recent", "korean"})
       [] q = "term"   -> Term
       [] q = "dated"  -> [Term EXCEPT !.cues = @ \cup {"today"}]
       [] q = "advice" -> Ask1({"prohibited"})]
MCQuestions == {"mixed", "term", "dated", "advice"}
MCMayAsk    == (r1 :> Questions) @@ (r2 :> {"term"})
MCOutcomes  == {"price", "invalid_response"}
MCFailureStatuses == {"provider_unavailable"}

=============================================================================
