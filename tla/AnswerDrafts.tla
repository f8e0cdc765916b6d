---------------------------- MODULE AnswerDrafts ----------------------------
(***************************************************************************)
(* From the selected evidence to an answer, with the text of a model or    *)
(* without: src/app/answer/composer.py and validators.py, and the checks   *)
(* of src/app/evidence/citations.py.                                       *)
(*                                                                         *)
(* A claim:  section, cites (identifiers of evidence, in order), words     *)
(*   (what its text speaks of), verbatim (its text is the piece it cites), *)
(*   added (it is of a report the model left aside: "fixed-report-...").   *)
(* A model's claim instead has refs (short identifiers: positions in what  *)
(*   was sent), echoes (the positions of the pieces whose words it takes   *)
(*   up) and adds (words of its own).                                      *)
(* A question, beyond what QueryPlanning reads of it:  requests (the kinds *)
(*   of sources it names); its style is among its cues ("core", "again",   *)
(*   "easy", "brief").                                                     *)
(* Evidence of the glossary has its section as the second part of its      *)
(* identifier.  The wording of texts and the locators are left out.        *)
(***************************************************************************)
EXTENDS EvidenceSelection

CONSTANTS
  Numbers,        \* words that are numbers, with their unit
  AdviceWords,    \* words that make a text advice, a promise or a guess at the user
  ContestWords,   \* words that decide a conflict nobody decided
  RiskWords,      \* _report_matches_focus: words of risk
  MildWords,      \* and of risk said to be limited
  CaveatWords,    \* _first_grounded_uncertainty: words of a caveat
  OverviewWords,  \* _prioritize_fixed_evidence: words of an overview
  TitleMark,      \* the words that introduce a title where there is no text
  TemplateWords,  \* what a template adds to a piece's text
  FactRank,       \* category_order of a disclosed fact, by its identifier
  Silent          \* no question is at hand

\* A text has finitely many numbers, and a template brings none of its own (an amount
\* told in another unit is the same number); the kinds of facts are ranked by integers.
ASSUME TextAssumption ==
  /\ IsFiniteSet(Numbers) /\ TemplateWords \cap Numbers = {}
  /\ \A f \in DOMAIN FactRank : FactRank[f] \in Nat

Advice(words) == words \cap (AdviceWords \cup ContestWords) # {}   \* is_unsafe_answer_text

SectionOrder == <<"summary", "facts", "interpretation", "inference", "positive_factors",
                  "risk_factors", "uncertainty">>
Place(section) == SelectInSeq(SectionOrder, LAMBDA s : s = section)
\* _GLOSSARY_SECTION_MAP
GlossarySection ==
  [definition |-> "summary", why_it_matters |-> "interpretation", caution |-> "uncertainty",
   formula |-> "facts", example |-> "facts"]

Ids(evidence) == {e.id : e \in SetOf(evidence)}
Cited(claim, evidence) == {e \in SetOf(evidence) : e.id \in SetOf(claim.cites)}

-----------------------------------------------------------------------------
(* validate_answer_draft *)

\* A conclusion from several pieces needs pieces about the security; a number must
\* be in a piece cited.
Supported(claim, plan, evidence) ==
  /\ (/\ plan.intent = "multi_source_summary"
      /\ claim.section \in {"interpretation", "inference"} /\ Len(claim.cites) >= 2)
        => \A e \in Cited(claim, evidence) : InScope(e, plan.security)
  /\ claim.words \cap Numbers \subseteq UNION {e.words : e \in Cited(claim, evidence)}

\* For and against need a caveat (unless something is said twice).
OneSided(claims) ==
  LET sections == {c.section : c \in SetOf(claims)} IN
  /\ {"positive_factors", "risk_factors"} \subseteq sections /\ "uncertainty" \notin sections
  /\ \A c, d \in SetOf(claims) : c.words = d.words => c.section = d.section

\* What is left of a draft; nothing, if any of it is unsafe.
ValidateDraft(claims, plan, evidence) ==
  LET accepted == Where(claims, LAMBDA c : Supported(c, plan, evidence)) IN
  IF (\E c \in SetOf(claims) : Advice(c.words)) \/ OneSided(accepted) THEN << >>
  ELSE accepted

-----------------------------------------------------------------------------
(* validate_citations *)

\* What makes it refuse its input altogether.
CitationsRefused(claims, plan, evidence) ==
  \/ plan.clarify /\ claims # << >>
  \/ \E e \in SetOf(evidence) :
       \/ e.source \notin SetOf(plan.sources) \/ e.score = NoScore \/ e.score < Threshold
       \/ plan.intent = "financial_term" /\ e.source # "glossary"

\* _target_matches
OnTarget(e, plan) ==
  IF plan.intent = "financial_term" THEN e.source = "glossary"
  ELSE plan.security # NoSecurity /\ InScope(e, plan.security)

\* _claim_is_grounded: it repeats the one piece it cites, or shares enough words with
\* what it cites, some with each piece.
GroundedIn(claim, evidence) ==
  LET cited == Cited(claim, evidence)
      overlap == claim.words \cap UNION {e.words : e \in cited} IN
  \/ Cardinality(cited) = 1 /\ claim.verbatim
  \/ /\ Cardinality(overlap) >= 2
     /\ 10 * Cardinality(overlap) >= 3 * Cardinality(claim.words)
     /\ \A e \in cited : claim.words \cap e.words # {}

Holds(claim, plan, evidence) ==
  /\ SetOf(claim.cites) \subseteq Ids(evidence)
  /\ \A e \in Cited(claim, evidence) : OnTarget(e, plan)
  /\ GroundedIn(claim, evidence)

-----------------------------------------------------------------------------
(* What an answer may use *)

\* _filter_requested_evidence: the kinds of sources the question names, if there is
\* anything of them.
Requested(q, evidence) ==
  LET named == Where(evidence, LAMBDA e : e.source \in q.requests) IN
  IF named = << >> THEN evidence ELSE named

\* _external_processing_eligible, for documents whose external flag is set
Sendable(evidence, docs) ==
  Where(evidence, LAMBDA e :
    e.source = "research_report" => e.doc \in DOMAIN docs /\ docs[e.doc].external)

\* _project_m3_evidence
Project(plan, evidence) ==
  IF Len(plan.sources) <= 1 THEN evidence ELSE SourceDiverse(evidence, plan.sources)

\* llm_eligible
Eligible(plan, evidence, docs) == Sendable(evidence, docs) # << >>

-----------------------------------------------------------------------------
(* An answer without a model: _fixed_result *)

Empty(reason, result) ==
  [mode |-> IF reason = "blocked" THEN "blocked" ELSE "fixed", result |-> result,
   claims |-> << >>, evidence |-> << >>]

\* _fixed_evidence_limit
FixedLimit(q, plan) ==
  First(<< <<plan.focus = "disclosure" /\ q.cues \cap {"core", "again"} # {}, 2>>,
           <<plan.intent = "research_report_summary" /\ "easy" \in q.cues, 2>>,
           <<q.cues \cap {"core", "brief", "easy", "again"} # {}, 3>>,
           <<plan.focus \in {"recent_events", "performance", "disclosure"}, 4>>,
           <<plan.focus \in {"positive", "risk", "outlook", "shareholder_return"}, 5>>,
           <<TRUE, 6>> >>)

\* _prioritize_fixed_evidence
Prioritize(plan, evidence) ==
  LET rank(e) == IF e.id[2] \in DOMAIN FactRank THEN FactRank[e.id[2]] ELSE 7
      overview(e) == IF e.words \cap OverviewWords # {} THEN 0 ELSE 1
      dense(e) == Cardinality(e.words \cap Numbers)
      before(a, b) ==
        CASE plan.focus = "disclosure" -> rank(a) < rank(b)
          [] plan.focus # "disclosure" /\ plan.intent = "research_report_summary" ->
               \/ overview(a) < overview(b)
               \/ overview(a) = overview(b) /\ dense(a) < dense(b)
          [] OTHER -> FALSE
      order == Ordered(DOMAIN evidence, LAMBDA i, j :
                 \/ before(evidence[i], evidence[j])
                 \/ ~before(evidence[j], evidence[i]) /\ i < j) IN
  [k \in DOMAIN order |-> evidence[order[k]]]

\* _report_matches_focus
MatchesFocus(e, plan) ==
  plan.focus = "risk" => e.words \cap RiskWords # {} /\ e.words \cap MildWords = {}

\* _fixed_claim_text: a title is retold, and so are disclosures, and reports if a
\* question is at hand.
Retold(q, plan, e) ==
  \/ e.source = "news" /\ TitleMark \in e.words
  \/ /\ e.source = "disclosure"
     /\ plan.focus = "disclosure" \/ plan.intent = "multi_source_summary"
  \/ /\ e.source = "research_report" /\ q # Silent
     /\ plan.intent = "research_report_summary" \/ plan.focus = "risk"

FixedClaim(q, plan, e, section) ==
  [section |-> section, cites |-> <<e.id>>,
   words |-> IF Retold(q, plan, e) THEN (e.words \ {TitleMark}) \cup TemplateWords ELSE e.words,
   verbatim |-> ~Retold(q, plan, e), added |-> FALSE]

\* _fixed_detail_section
DetailSection(plan) ==
  CASE plan.focus = "positive" -> "positive_factors"
    [] plan.focus = "risk"     -> "risk_factors"
    [] plan.focus = "outlook"  -> "uncertainty"
    [] OTHER                   -> "facts"

Accepted(q, plan, e) ==
  LET claim == FixedClaim(q, plan, e, "facts") IN
  /\ e.source = "research_report" /\ Retold(q, plan, e) => MatchesFocus(e, plan)
  /\ ~Advice(claim.words)
  /\ ~CitationsRefused(<<claim>>, plan, <<e>>) /\ Holds(claim, plan, <<e>>)

\* _fixed_glossary_result: all of an entry or nothing.
FixedGlossary(plan, evidence, result) ==
  LET section(e) == GlossarySection[e.id[2]]
      claims == [i \in DOMAIN evidence |->
                   FixedClaim(Silent, plan, evidence[i], section(evidence[i]))] IN
  IF /\ \A e \in SetOf(evidence) :
          /\ e.source = "glossary" /\ e.id[2] \in DOMAIN GlossarySection
          /\ Accepted(Silent, plan, e)
     /\ section(evidence[1]) = "summary"
     /\ \A i \in DOMAIN evidence : section(evidence[i]) = "summary" => i = 1
    THEN [mode |-> "fixed", result |-> result, claims |-> claims, evidence |-> evidence]
  ELSE Empty("no_evidence", result)

FixedResult(q, plan, selected, result, reason) ==
  LET evidence == IF q = Silent THEN selected ELSE Requested(q, selected)
      chosen == Top(Project(plan, Prioritize(plan, evidence)),
                    IF q = Silent THEN FixedLimit([cues |-> {}], plan) ELSE FixedLimit(q, plan))
      shown == Where(chosen, LAMBDA e : Accepted(q, plan, e)) IN
  IF plan.intent = "prohibited_advice" \/ reason = "blocked" THEN Empty("blocked", result)
  ELSE IF evidence = << >> THEN Empty(reason, result)
  ELSE IF plan.intent = "financial_term" THEN FixedGlossary(plan, evidence, result)
  ELSE IF shown = << >> THEN Empty("no_evidence", result)
  ELSE [mode |-> "fixed", result |-> result, evidence |-> shown,
        claims |-> [i \in DOMAIN shown |->
          FixedClaim(q, plan, shown[i], IF i = 1 THEN "summary" ELSE DetailSection(plan))]]

-----------------------------------------------------------------------------
(* An answer by a model: AnswerComposer.compose, once its call has succeeded *)

\* _expand_evidence_aliases
Expanded(draft, sent) ==
  [i \in DOMAIN draft |->
     LET c == draft[i] IN
     [section |-> c.section, cites |-> [k \in DOMAIN c.refs |-> sent[c.refs[k]].id],
      words |-> UNION {sent[k].words : k \in c.echoes \cap DOMAIN sent} \cup c.adds,
      verbatim |-> FALSE, added |-> FALSE]]

\* _augment_llm_uncertainty: the last caveat of the first piece that has one.
Augmented(claims, plan, sent) ==
  LET caveat == SelectInSeq(sent, LAMBDA e :
                  e.words \cap CaveatWords # {} /\ ~Advice(e.words)) IN
  IF \/ plan.intent # "recent_issue" \/ caveat = 0
     \/ \E c \in SetOf(claims) : c.section = "uncertainty"
    THEN claims
  ELSE Append(claims, [section |-> "uncertainty", cites |-> <<sent[caveat].id>>,
                       words |-> sent[caveat].words, verbatim |-> TRUE, added |-> FALSE])

\* _validate_draft_structure: a summary, then the rest in order, nothing twice.
WellFormed(claims, plan, sent) ==
  /\ claims # << >>
  /\ \A i \in DOMAIN claims : claims[i].section = "summary" <=> i = 1
  /\ \A i, j \in DOMAIN claims : i <= j => Place(claims[i].section) <= Place(claims[j].section)
  /\ \A i, j \in DOMAIN claims : i # j /\ claims[i].words = claims[j].words =>
       claims[i].section = claims[j].section /\ claims[i].cites # claims[j].cites
  /\ plan.intent = "financial_term" => \A c \in SetOf(claims) :
       {GlossarySection[e.id[2]] : e \in Cited(c, sent)} = {c.section}

\* mutant: what is left after the rejected claims are gone is not checked again
StandingUnchecked(claims, plan, sent) ==
  IF ~WellFormed(claims, plan, sent) \/ CitationsRefused(claims, plan, sent) THEN << >>
  ELSE Where(claims, LAMBDA c : Holds(c, plan, sent))

\* The claims that stand: those whose citations hold, if they still make an answer.
Standing(claims, plan, sent) ==
  LET holding == Where(claims, LAMBDA c : Holds(c, plan, sent))
      again == ValidateDraft(holding, plan, sent) IN
  IF ~WellFormed(claims, plan, sent) \/ CitationsRefused(claims, plan, sent) THEN << >>
  ELSE IF holding = claims THEN claims
  ELSE IF holding # << >> /\ holding[1].section = "summary" /\ WellFormed(again, plan, sent)
    THEN again ELSE << >>

\* _merge_fixed_report_evidence: the first two reports follow, unless the question
\* names other sources.
WithReports(claims, public, told) ==
  [mode |-> "llm", result |-> "ok",
   claims |-> claims \o [i \in DOMAIN told |-> told[i].claim],
   evidence |-> public \o [i \in DOMAIN told |-> told[i].report]]

Merged(q, plan, evidence, claims, public) ==
  LET reports == Top(Where(evidence, LAMBDA e : e.source = "research_report"), 2)
      claim(e) == [FixedClaim(q, plan, e, DetailSection(plan)) EXCEPT
                     !.words = e.words \cup TemplateWords, !.verbatim = FALSE, !.added = TRUE]
      usable(t) == /\ t.report.id \notin Ids(public)
                   /\ ~Advice(t.report.words) /\ MatchesFocus(t.report, plan)
                   /\ ~CitationsRefused(<<t.claim>>, plan, <<t.report>>)
                   /\ Holds(t.claim, plan, <<t.report>>) IN
  IF Cardinality(q.requests) >= 2 /\ "research_report" \notin q.requests
    THEN WithReports(claims, public, << >>)
  ELSE WithReports(claims, public,
         Where([i \in DOMAIN reports |-> [report |-> reports[i], claim |-> claim(reports[i])]], usable))

\* What was sent to the model for a plan.
Sent(q, plan, selected, docs) == Project(plan, Sendable(Requested(q, selected), docs))

\* What becomes of the claims that stand.
Concluded(q, plan, evidence, sent, claims) ==
  IF claims = << >> THEN FixedResult(q, plan, evidence, "invalid_response", "no_evidence")
  ELSE Merged(q, plan, evidence, claims,
              Where(sent, LAMBDA e : \E c \in SetOf(claims) : e.id \in SetOf(c.cites)))

\* What becomes of a draft about what was sent; it is refused if it cites anything else.
Examined(q, plan, evidence, sent, draft) ==
  LET drafted == Augmented(Expanded(draft, sent), plan, sent) IN
  IF sent = << >> THEN FixedResult(q, plan, evidence, "none", "no_evidence")
  ELSE IF \E c \in SetOf(draft) : ~(SetOf(c.refs) \subseteq DOMAIN sent)
    THEN FixedResult(q, plan, evidence, "invalid_response", "no_evidence")
  ELSE Concluded(q, plan, evidence, sent,
                 Standing(ValidateDraft(drafted, plan, sent), plan, sent))

\* compose, given the draft the model answers with.
Compose(q, plan, selected, docs, draft) ==
  Examined(q, plan, Requested(q, selected), Sent(q, plan, selected, docs), draft)
=============================================================================
