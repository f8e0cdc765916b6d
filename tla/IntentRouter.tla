---------------------------- MODULE IntentRouter ----------------------------
(***************************************************************************)
(* When a second opinion on the intent of a question is asked of a model,  *)
(* and what is done with the answer:                                       *)
(* src/app/services/hybrid_intent_router.py.                               *)
(***************************************************************************)
EXTENDS QueryPlanning

\* _cue_groups
CueGroups(cues) ==
  LET tables == {<<"price_move", "price_move">>, <<"risk", "risk_factors">>, <<"price", "price">>,
                 <<"multi", "multi_source_summary">>, <<"disclosure", "disclosure_summary">>,
                 <<"report", "research_report_summary">>, <<"recent_issue", "recent_issue">>,
                 <<"issue", "recent_issue">>, <<"newsword", "recent_issue">>} IN
  {t[2] : t \in {u \in tables : u[1] \in cues}}
    \cup (IF IsTerm(cues) THEN {"financial_term"} ELSE {})

\* _explicit_source_group_count: the kinds of source the question names.
SourceGroups(cues) == cues \cap {"newsword", "disclosure", "reportword"}

\* should_classify, of an enabled router
ShouldClassify(q, plan) ==
  /\ ~plan.clarify
  /\ plan.intent \in Classifiable
  /\ plan.security # NoSecurity
  /\ ~(plan.intent = "multi_source_summary" /\ Cardinality(SourceGroups(q.cues)) >= 2)
  /\ \/ Cardinality(CueGroups(q.cues)) >= 2
     \/ plan.intent \in {"price", "multi_source_summary"} /\ {"stock", "situation"} \subseteq q.cues
     \/ plan.intent = "risk_factors" /\ q.cues \cap {"recent", "today", "lately", "current"} # {}

\* mutant: the sources of the first plan are kept
RebuiltHalf(q, plan, intent) == [plan EXCEPT !.intent = intent, !.focus = Focus(q.cues, intent)]

\* _rebuild_observed: another intent for the same security and dates.
Rebuilt(q, plan, intent) ==
  Built(q, plan.security, intent,
        IF plan.range = NoRange /\ intent = "price_move"
          THEN [from |-> Today, to |-> Today] ELSE plan.range)

\* What a call to a model may come to: an intent, something else, a failure.
Failures == {"timeout", "rate_limited", "authentication_error", "provider_unavailable",
             "invalid_response", "content_blocked"}

\* HybridRoutingResult: the plan, how it was decided, and the calls that cost.
Routing(plan, mode, status, calls) ==
  [plan |-> plan, mode |-> mode, status |-> status, calls |-> calls]
Deterministic(plan) == Routing(plan, "deterministic", "not_called", 0)
Fallback(plan, status, calls) == Routing(plan, "hybrid_fallback", status, calls)
Accepted(q, plan, intent) == Routing(Rebuilt(q, plan, intent), "hybrid_llm", "accepted", 1)

\* classify, once the call is over: an intent is accepted, unless it is about a
\* security and there is none; every failure keeps the plan.
Classified(q, plan, outcome) ==
  IF outcome \in Classifiable /\ (outcome \in SecurityRequired => plan.security # NoSecurity)
    THEN Accepted(q, plan, outcome)
    ELSE Fallback(plan, IF outcome \in Classifiable THEN "invalid_response" ELSE outcome, 1)

\* The consistency HybridRoutingResult insists on when it is built.
RoutingResult(r) ==
  /\ r.calls \in 0..1
  /\ r.mode = "deterministic" => r.status = "not_called" /\ r.calls = 0
  /\ r.mode = "hybrid_llm" => r.status = "accepted" /\ r.calls = 1
  /\ r.mode = "hybrid_fallback" =>
       /\ r.status \in Failures
       /\ r.status # "rate_limited" => r.calls = 1
=============================================================================
