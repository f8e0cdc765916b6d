---------------------------- MODULE EvidencePolicy ----------------------------
(***************************************************************************)
(* What the answer may claim to rest on: EvidencePolicy.evaluate in        *)
(* src/app/evidence/policy.py, which trusts none of the stages before it.  *)
(* Identifiers, types and the basis are left out of its checks.            *)
(***************************************************************************)
EXTENDS EvidenceSelection

FailureKinds == {"invalid_query", "unauthorized", "rate_limited", "timeout",
                 "provider_unavailable", "parse_error"}
LimitingWarnings == {"stale_news", "stale_research_report", "insufficient_disclosure_coverage",
                     "unresolved_disclosure_correction"}
WarningSource ==
  [c \in LimitingWarnings \cup {"disclosure_window_extended"} |->
     CASE c = "stale_news"            -> "news"
       [] c = "stale_research_report" -> "research_report"
       [] OTHER                       -> "disclosure"]

\* _coverage_sources: only news can explain a move.
Coverage(plan) == IF plan.intent = "price_move" THEN <<"news">> ELSE plan.sources

-----------------------------------------------------------------------------
(* What it is given *)

\* _PLAN_MATRIX: the policy's own idea of what a plan must ask for.
PolicyMatrix ==
  LET row(sources, evidence, named) == [sources |-> sources, evidence |-> evidence, named |-> named]
      all == <<"news", "disclosure", "research_report">>
      recent == <<"recent_news", "disclosure", "research_report">> IN
  [financial_term          |-> row(<<"glossary">>, <<"definition">>, FALSE),
   disclosure_summary      |-> row(<<"disclosure">>, <<"disclosure">>, TRUE),
   research_report_summary |-> row(<<"research_report">>, <<"research_report">>, TRUE),
   recent_issue            |-> row(<<"news">>, <<"recent_news">>, TRUE),
   risk_factors            |-> row(all, <<"risk">> \o recent, TRUE),
   multi_source_summary    |-> row(all, recent, TRUE),
   price                   |-> row(<< >>, << >>, TRUE),
   price_move              |-> row(all, recent, TRUE)]

\* _canonical_plan and _validate_plan_matrix
PlanAccepted(plan) ==
  /\ plan.range # NoRange => plan.range.from <= plan.range.to
  /\ IF plan.clarify
       THEN /\ plan.intent \in DOMAIN PolicyMatrix \cup {"prohibited_advice", "out_of_scope"}
            /\ plan.sources = << >> /\ plan.evidence = << >> /\ plan.security = NoSecurity
       ELSE /\ plan.intent \in DOMAIN PolicyMatrix
            /\ plan.sources = PolicyMatrix[plan.intent].sources
            /\ plan.evidence = PolicyMatrix[plan.intent].evidence
            /\ PolicyMatrix[plan.intent].named => plan.security # NoSecurity

\* _canonical_provider_mapping
ProvidersAccepted(providers) ==
  /\ DOMAIN providers \subseteq {"news", "disclosure", "research_report", "glossary"}
  /\ \A s \in DOMAIN providers : providers[s] \in {"ok", "no_data"} \cup FailureKinds

\* _canonical_windows: one for each source, bounded on both sides unless it is the
\* glossary's or the user's.
WindowsAccepted(windows) ==
  /\ \A i, j \in DOMAIN windows : windows[i].source = windows[j].source => i = j
  /\ \A w \in SetOf(windows) :
       /\ w.by = "none" => w.source = "glossary" /\ w.from = NoDate /\ w.to = NoDate
       /\ w.by \in {"default", "fallback"} => w.from # NoDate /\ w.to # NoDate
       /\ w.by = "default" => w.source # "glossary"
       /\ w.by = "fallback" => w.source = "disclosure"
       /\ w.by = "user" => w.from # NoDate \/ w.to # NoDate
       /\ w.from # NoDate /\ w.to # NoDate => w.from <= w.to

\* _canonical_freshness and _canonical_warnings: evidence and warnings belong to the
\* windows' sources.
FreshnessAccepted(freshness) ==
  LET sources == {w.source : w \in SetOf(freshness.windows)} IN
  /\ WindowsAccepted(freshness.windows)
  /\ {e.source : e \in SetOf(freshness.evidence)} \subseteq sources
  /\ {WarningSource[c] : c \in freshness.warnings} \subseteq sources

\* _canonical_retrieval: something relevant, or nothing.
RetrievalAccepted(retrieval) ==
  IF retrieval.status = "ok"
    THEN /\ retrieval.evidence # << >>
         /\ \A e \in SetOf(retrieval.evidence) : e.score # NoScore /\ e.score >= Threshold
    ELSE retrieval.evidence = << >>

\* _validate_freshness_plan_contract
ContractKept(windows, plan) ==
  /\ [i \in DOMAIN windows |-> windows[i].source] = plan.sources
  /\ \A i \in DOMAIN windows :
       LET w == windows[i] IN
       IF plan.range # NoRange
         THEN w.by = "user" /\ w.from = plan.range.from /\ w.to = plan.range.to
         ELSE w.by = CASE w.source = "glossary" -> "none"
                       [] w.source = "disclosure" /\ w.by = "fallback" -> "fallback"
                       [] OTHER -> "default"

\* _validate_retrieval_occurrences: each piece is one of the fresh ones, used once.
Occurring(retrieved, fresh) ==
  LET plain(s) == [i \in DOMAIN s |-> [s[i] EXCEPT !.score = NoScore]]
      times(e, s) == Cardinality({i \in DOMAIN s : s[i] = e}) IN
  \A i \in DOMAIN retrieved :
    LET e == plain(retrieved)[i] IN times(e, plain(retrieved)) <= times(e, plain(fresh))

\* _validate_target_security
Targeted(retrieved, plan) ==
  plan.intent \in SecurityRequired => \A i \in DOMAIN retrieved : InScope(retrieved[i], plan.security)

-----------------------------------------------------------------------------
(* The decision *)

NothingFound(status) ==
  [status |-> status, evidence |-> << >>, warnings |-> {}, satisfied |-> << >>,
   missing |-> << >>, empty |-> << >>, failed |-> << >>]

\* The status, the evidence it rests on, the warnings, and of the sources which have
\* evidence, which have none, and of which that is known to be so or a failure.
Decide(plan, providers, freshness, retrieval) ==
  LET coverage == Coverage(plan)
      returned == {e.source : e \in SetOf(retrieval.evidence)}
      of(kinds) == Where(coverage, LAMBDA s : s \in DOMAIN providers /\ providers[s] \in kinds)
      missing == Where(coverage, LAMBDA s : s \notin returned)
      warnings == {c \in freshness.warnings : WarningSource[c] \in SetOf(coverage)}
      limited == missing # << >> \/ of({"no_data"} \cup FailureKinds) # << >>
                   \/ warnings \cap LimitingWarnings # {} IN
  [status    |-> IF retrieval.status # "ok"
                   THEN IF of(FailureKinds) # << >> THEN "provider_failed" ELSE "no_evidence"
                   ELSE IF limited THEN "partial" ELSE "complete",
   evidence  |-> retrieval.evidence, warnings |-> warnings,
   satisfied |-> Where(plan.sources, LAMBDA s : s \in returned),
   missing   |-> missing, empty |-> of({"no_data"}), failed |-> of(FailureKinds)]

\* _validate_decision_invariants
DecisionSound(plan, d) ==
  LET bare == d = NothingFound(d.status)
      coverage == Coverage(plan)
      ordered(s, all) == s = Where(all, LAMBDA x : x \in SetOf(s))
      limited == \/ d.missing # << >> \/ d.empty # << >> \/ d.failed # << >>
                 \/ d.warnings \cap LimitingWarnings # {} IN
  IF d.status = "blocked" THEN plan.intent = "prohibited_advice" /\ plan.clarify /\ bare
  ELSE IF plan.clarify THEN d.status = "no_evidence" /\ bare
  ELSE /\ d.missing = Where(coverage, LAMBDA s : s \notin SetOf(d.satisfied))
       /\ ordered(d.satisfied, plan.sources) /\ ordered(d.empty, coverage) /\ ordered(d.failed, coverage)
       /\ SetOf(d.empty) \cap SetOf(d.failed) = {}
       /\ CASE d.status = "complete"        -> d.evidence # << >> /\ plan.sources # << >> /\ ~limited
            [] d.status = "partial"         -> d.evidence # << >> /\ limited
            [] d.status = "provider_failed" -> d.evidence = << >> /\ d.failed # << >>
            [] d.status = "no_evidence"     -> d.evidence = << >> /\ d.failed = << >>

\* The decision, if everything is in order.
Evaluate(plan, providers, freshness, retrieval) ==
  LET decision ==
        IF plan.clarify
          THEN NothingFound(IF plan.intent = "prohibited_advice" THEN "blocked" ELSE "no_evidence")
          ELSE Decide(plan, providers, freshness, retrieval) IN
  IF /\ PlanAccepted(plan) /\ ProvidersAccepted(providers)
     /\ FreshnessAccepted(freshness) /\ RetrievalAccepted(retrieval)
     /\ plan.clarify \/ (/\ ContractKept(freshness.windows, plan)
                        /\ Occurring(retrieval.evidence, freshness.evidence)
                        /\ Targeted(retrieval.evidence, plan))
     /\ DecisionSound(plan, decision)
    THEN decision ELSE Invalid
=============================================================================
