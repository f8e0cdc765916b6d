--------------------------- MODULE QueryPlanning ---------------------------
(***************************************************************************)
(* From a question and the session's context to a plan: QueryPlanner in    *)
(* src/app/planning/query_planner.py and what                              *)
(* src/app/services/planning_observation.py records of it.                 *)
(*                                                                         *)
(* A question is what the code's pattern tables find in its text:          *)
(*   cues       the tables with a match, by name, and single cue words     *)
(*   spans      the candidate names, longest first: first and last         *)
(*              position, and the term left once particles are stripped    *)
(*   stated     the dates and ranges it states, in order (a range may run  *)
(*              backwards, which DateRange refuses)                        *)
(*   malformed  a date that is no date                                     *)
(* A date is an integer.                                                   *)
(***************************************************************************)
EXTENDS SecurityResolver

CONSTANTS
  Today,      \* the date of the request's basis
  NoRange,    \* date_range is None
  NoContext   \* the session has no context

ASSUME TodayAssumption == Today \in Int

PriceIntents == {"price", "price_move"}
SecurityRequired ==
  {"recent_issue", "disclosure_summary", "research_report_summary", "risk_factors",
   "multi_source_summary"} \cup PriceIntents
Classifiable == SecurityRequired \cup {"financial_term"}
AllThree == <<"news", "disclosure", "research_report">>
AllEvidence == <<"recent_news", "disclosure", "research_report">>

\* SOURCE_EVIDENCE_MATRIX
Matrix ==
  [i \in Classifiable |->
     CASE i = "financial_term"          -> [sources |-> <<"glossary">>, evidence |-> <<"definition">>]
       [] i = "disclosure_summary"      -> [sources |-> <<"disclosure">>, evidence |-> <<"disclosure">>]
       [] i = "research_report_summary" ->
            [sources |-> <<"research_report">>, evidence |-> <<"research_report">>]
       [] i = "recent_issue"            -> [sources |-> <<"news">>, evidence |-> <<"recent_news">>]
       [] i = "risk_factors"            -> [sources |-> AllThree, evidence |-> <<"risk">> \o AllEvidence]
       [] i = "price"                   -> [sources |-> << >>, evidence |-> << >>]
       [] OTHER                         -> [sources |-> AllThree, evidence |-> AllEvidence]]

\* The value beside the first condition that holds; the last one always does.
First(rules) == rules[Min({i \in DOMAIN rules : rules[i][1]})][2]

IsTerm(cues) == {"term_cue", "term_marker"} \subseteq cues

\* _classify_intent
ClassifyIntent(cues) ==
  First(<< <<"trend" \in cues, "out_of_scope">>,
           <<"price_move" \in cues, "price_move">>,
           <<IsTerm(cues), "financial_term">>,
           <<"risk" \in cues, "risk_factors">>,
           <<"price" \in cues, "price">>,
           <<"multi" \in cues, "multi_source_summary">>,
           <<"disclosure" \in cues, "disclosure_summary">>,
           <<"report" \in cues, "research_report_summary">>,
           <<{"issue", "technology"} \subseteq cues
               /\ cues \cap {"recent", "latest", "lately", "newsword"} = {},
             "multi_source_summary">>,
           <<cues \cap {"recent_issue", "issue", "newsword"} # {}, "recent_issue">>,
           <<TRUE, "out_of_scope">> >>)

\* _classify_answer_focus
Focus(cues, intent) ==
  First(<< <<intent = "financial_term", "term">>,
           <<intent \in PriceIntents, intent>>,
           <<"balanced" \in cues, "balanced">>,
           <<"outlook" \in cues, "outlook">>,
           <<intent = "risk_factors", "risk">>,
           <<intent = "disclosure_summary", "disclosure">>,
           <<intent = "research_report_summary", "research_view">>,
           <<intent = "recent_issue", "recent_events">>,
           <<"positive" \in cues, "positive">>,
           <<"performance" \in cues, "performance">>,
           <<"shareholder_return" \in cues, "shareholder_return">>,
           <<"business" \in cues, "business">>,
           <<"technology" \in cues, "technology">>,
           <<"situation" \in cues, "balanced">>,
           <<TRUE, "general">> >>)

-----------------------------------------------------------------------------
(* Securities and dates *)

Inside(s, taken) == \E a \in ToSet(taken) : s.first >= a.first /\ s.last <= a.last

\* The loop of _extract_security over the candidates: those inside one already
\* resolved are not looked up.
Reading(spans) ==
  LET read ==
        FoldLeft(
          LAMBDA acc, s :
            LET r == Resolve(s.term) IN
            IF Inside(s, acc.taken) THEN acc
            ELSE [taken    |-> IF r.status = "resolved" THEN Append(acc.taken, s) ELSE acc.taken,
                  found    |-> acc.found \cup {r.security},
                  statuses |-> acc.statuses \cup {r.status}],
          [taken |-> << >>, found |-> {}, statuses |-> {}], spans) IN
  [found |-> read.found \ {NoSecurity}, statuses |-> read.statuses]

\* _extract_security: none, one, several, or one that is not clear.
Extraction(q) ==
  LET r == Reading(q.spans) IN
  IF Cardinality(r.found) > 1 THEN "several"
  ELSE IF r.statuses \cap {"ambiguous", "unsupported"} # {} THEN "unclear"
  ELSE IF r.found # {} THEN "one" ELSE "none"

NamedSecurity(q) ==
  IF Extraction(q) = "one" THEN CHOOSE s \in Reading(q.spans).found : TRUE ELSE NoSecurity

\* _parse_period: the range, and whether the question says anything about time,
\* which keeps the session's range out even when no range comes of it.
ParsePeriod(q) ==
  LET today == "today" \in q.cues
      recent == "recent" \in q.cues
      clash == \/ q.malformed
               \/ today /\ recent
               \/ (today \/ recent) /\ q.stated # << >>
               \/ Len(q.stated) > 1
      proper == q.stated # << >> /\ q.stated[1].from <= q.stated[1].to IN
  [range |-> IF clash THEN NoRange
             ELSE IF proper THEN Head(q.stated)
             ELSE IF today THEN [from |-> Today, to |-> Today] ELSE NoRange,
   suppress |-> clash \/ q.stated # << >> \/ today \/ recent]

-----------------------------------------------------------------------------
(* The session's part *)

\* What a follow-up may continue: an intent about a security, whose sources the
\* context still records.
Continued(ctx) ==
  IF /\ ctx # NoContext
     /\ ctx.intent \in SecurityRequired
     /\ ctx.sources = Matrix[ctx.intent].sources
    THEN ctx.intent ELSE "out_of_scope"

\* _is_follow_up
IsFollowUp(q) ==
  \/ "follow_up" \in q.cues
  \/ "period_word" \in q.cues /\ q.stated # << >>

\* plan's successive attempts at an intent: the words, a follow-up, the bare name
\* of another security.
Intent(q, ctx) ==
  LET base == ClassifyIntent(q.cues) IN
  IF base # "out_of_scope" THEN base
  ELSE IF IsFollowUp(q) /\ Continued(ctx) # "out_of_scope" THEN Continued(ctx)
  ELSE IF NamedSecurity(q) # NoSecurity /\ "shorthand" \in q.cues THEN Continued(ctx)
  ELSE "out_of_scope"

\* Any other question in Korean about a named security is about everything.
Widened(q, ctx) ==
  IF /\ Intent(q, ctx) = "out_of_scope"
     /\ NamedSecurity(q) # NoSecurity
     /\ "korean" \in q.cues
    THEN "multi_source_summary" ELSE Intent(q, ctx)

Subject(q, ctx, intent) ==
  IF NamedSecurity(q) = NoSecurity /\ intent \in SecurityRequired /\ ctx # NoContext
    THEN ctx.security ELSE NamedSecurity(q)

\* The dates stated, else the session's, else the basis date if a move is asked for.
Dates(q, ctx, intent) ==
  LET p == ParsePeriod(q)
      own == IF /\ p.range = NoRange /\ ~p.suppress
                /\ intent \in SecurityRequired /\ ctx # NoContext
               THEN ctx.range ELSE p.range IN
  IF own = NoRange /\ intent = "price_move" THEN [from |-> Today, to |-> Today] ELSE own

-----------------------------------------------------------------------------
(* The plan *)

\* _clarification_plan
Clarification(intent, range) ==
  [security |-> NoSecurity, intent |-> intent, focus |-> "general", range |-> range,
   sources |-> << >>, evidence |-> << >>, clarify |-> TRUE]

Built(q, security, intent, range) ==
  [security |-> security, intent |-> intent, focus |-> Focus(q.cues, intent), range |-> range,
   sources |-> Matrix[intent].sources, evidence |-> Matrix[intent].evidence, clarify |-> FALSE]

\* The end of QueryPlanner.plan, the intent being settled.
ForIntent(q, ctx, intent) ==
  IF intent = "out_of_scope" THEN Clarification("out_of_scope", NoRange)
  ELSE IF intent \in SecurityRequired /\ Subject(q, ctx, intent) = NoSecurity
    THEN Clarification(intent, ParsePeriod(q).range)
  ELSE Built(q, Subject(q, ctx, intent), intent, Dates(q, ctx, intent))

\* QueryPlanner.plan
Plan(q, ctx) ==
  LET range == ParsePeriod(q).range IN
  IF "blank" \in q.cues THEN Clarification("out_of_scope", NoRange)
  ELSE IF "prohibited" \in q.cues THEN Clarification("prohibited_advice", NoRange)
  ELSE IF Extraction(q) = "several" THEN Clarification("out_of_scope", range)
  ELSE IF Extraction(q) = "unclear" THEN Clarification(ClassifyIntent(q.cues), range)
  ELSE IF Intent(q, ctx) = "out_of_scope" /\ "trend" \in q.cues
    THEN Clarification("out_of_scope", range)
  ELSE ForIntent(q, ctx, Widened(q, ctx))

\* The planner looks names up only if the question is neither blank nor
\* prohibited; then, or if it looked none up, the observer reads the names itself.
LookedUp(q, plan) ==
  /\ q.cues \cap {"blank", "prohibited"} = {}
  /\ \/ q.spans # << >>
     \/ plan.security # NoSecurity

\* public_status, found being the securities the names resolved to.
PublicStatus(q, plan, statuses, found) ==
  First(<< <<Cardinality(found) > 1, "ambiguous">>,
           <<plan.security # NoSecurity, "resolved">>,
           <<"ambiguous" \in statuses, "ambiguous">>,
           <<"unsupported" \in statuses, "unsupported">>,
           <<~LookedUp(q, plan) /\ found # {}, "resolved">>,
           <<TRUE, "not_found">> >>)

\* The plan with what is told of it; the security as public_security_id has it.
Public(plan, status, found) ==
  [plan |-> plan, status |-> status,
   security |-> IF status # "resolved" THEN NoSecurity ELSE CHOOSE s \in found : TRUE]

Observing(q, plan, reading) ==
  LET found == reading.found \cup ({plan.security} \ {NoSecurity}) IN
  Public(plan, PublicStatus(q, plan, reading.statuses, found), found)

\* build_observed_query_plan
Observed(q, ctx) == Observing(q, Plan(q, ctx), Reading(q.spans))

\* ChatService._save_session_context: the context after a plan was answered.
SavedContext(ctx, plan) ==
  IF plan.clarify \/ plan.intent \in {"prohibited_advice", "out_of_scope"} THEN ctx
  ELSE [security |-> IF plan.security # NoSecurity THEN plan.security
                     ELSE IF ctx = NoContext THEN NoSecurity ELSE ctx.security,
        range    |-> IF plan.intent # "financial_term" THEN plan.range
                     ELSE IF ctx = NoContext THEN NoRange ELSE ctx.range,
        intent   |-> plan.intent,
        sources  |-> plan.sources]
=============================================================================
