---------------------------- MODULE RecordedService ----------------------------
(***************************************************************************)
(* One session's questions, from the plan to the answer, over recorded     *)
(* documents: what _chat_serialized in src/app/services/chat_service.py    *)
(* makes of the planner, the gateways, the evidence pipeline, the          *)
(* comparisons and the composer.                                           *)
(*                                                                         *)
(* Time is ChatPipeline's affair; here a gateway may be too slow, the      *)
(* model may fail, and an answer may come too late, at any moment.  The    *)
(* classifier is off, as it is unless it is switched on, and questions for *)
(* a price alone are left to ChatPipeline.                                 *)
(***************************************************************************)
EXTENDS SourceGateways, EvidencePolicy, EvidenceComparison, AnswerDrafts

CONSTANTS
  Questions,  \* what may be asked
  Reads,      \* what the planner and the composer read in a question
  Corpora,    \* the recordings the service may have been started with: documents,
              \* in order, and glossary, whether that is available
  Drafts,     \* what the model may answer with
  FocusTerms, \* _FOCUS_QUERY_TERMS
  LinkWords,  \* words with which a text holds a link
  PrivateWords, \* words the session store refuses: private paths, links with a path
  ContextExchanges, \* MAX_LLM_CONTEXT_EXCHANGES
  MaxTurns,   \* bound: questions asked
  Nothing

\* What was recorded was made by the providers.  A disclosure is about one security and
\* mentions no other, and nothing else has a target (disclosure.py:395-455); no
\* identifier is taken for the lack of a target.  A draft is a list of claims.
ASSUME RecordingAssumption ==
  /\ \A documents \in {c.documents : c \in Corpora} \cup {NewsDocuments} :
       /\ documents \in Seq(SetOf(documents))
       /\ \A d \in SetOf(documents) :
            /\ d.id # NoTarget /\ d.facts \in Seq(SetOf(d.facts))
            /\ d.source = "disclosure" => d.mentioned = {} /\ \E s \in d.primary : d.primary = {s}
            /\ d.notice.target # NoTarget => d.source = "disclosure" /\ d.notice.correction
  /\ \A e \in Glossary : e.sections \in Seq(SetOf(e.sections))
  /\ \A d \in Drafts : d \in Seq(SetOf(d))

\* What a session may come to be remembered by, which nothing takes for no context.
Contexts ==
  [security : {NoSecurity} \cup {NamedSecurity(Reads[q]) : q \in Questions},
   range    : {NoRange, [from |-> Today, to |-> Today]}
                \cup {ParsePeriod(Reads[q]).range : q \in Questions},
   intent   : DOMAIN PolicyMatrix,
   sources  : {PolicyMatrix[i].sources : i \in DOMAIN PolicyMatrix}]

ASSUME ContextAssumption == NoContext \notin Contexts

UnsafeWords == LinkWords \cup PathWords   \* _unsafe_prompt_string

\* What the store refuses the composer refuses too, and the composer hears of the
\* latest exchange.
ASSUME ConversationAssumption ==
  PrivateWords \subseteq UnsafeWords /\ ContextExchanges \in Nat \ {0}

VARIABLES
  corpus,     \* what the service was started with
  context,    \* the session's context
  conversation, \* of the exchanges recorded last, newest first: the unsafe words kept
  stage,      \* of the request: "idle", "planned", "fetched", "judged", "composed"
  question,   \* that was asked
  observed,   \* what planning made of it
  gathered,   \* the gateway's result
  pipeline,   \* _PipelineResult
  comparison, \* what was selected
  draft,      \* the composition
  answer,     \* what became of the last request
  talk        \* history: what was asked, the plan it was answered by, and the unsafe
              \* words said

vars == <<corpus, context, conversation, stage, question, observed, gathered, pipeline,
          comparison, draft, answer, talk>>

plan == observed.plan
selected == pipeline.budget.evidence

Init ==
  /\ corpus \in Corpora
  /\ context = NoContext /\ conversation = << >>
  /\ stage = "idle"
  /\ question = Nothing /\ observed = Nothing /\ gathered = Nothing
  /\ pipeline = Nothing /\ comparison = NoComparison /\ draft = Nothing
  /\ answer = Nothing /\ talk = << >>

\* The request ends, with an answer or with an error.
End(a) ==
  /\ answer' = a
  /\ stage' = "idle"
  /\ question' = Nothing /\ observed' = Nothing /\ gathered' = Nothing
  /\ pipeline' = Nothing /\ comparison' = NoComparison /\ draft' = Nothing

Fail ==
  /\ End([failed |-> TRUE, plan |-> plan, at |-> stage])
  /\ UNCHANGED <<corpus, context, conversation, talk>>

\* The questions for a price alone are answered from market data.
Ask(q) ==
  /\ stage = "idle" /\ Len(talk) < MaxTurns
  /\ Plan(Reads[q], context).intent # "price"
  /\ question' = q
  /\ observed' = Observed(Reads[q], context)
  /\ stage' = "planned"
  /\ answer' = Nothing
  /\ UNCHANGED <<corpus, context, conversation, gathered, pipeline, comparison, draft, talk>>

-----------------------------------------------------------------------------
(* Gathering *)

Defined == plan.intent = "financial_term" /\ ~plan.clarify

\* _source_data, which does not ask for nothing, and _glossary_data.
Fetched(slow) ==
  IF Defined THEN LookUp(corpus.glossary, Reads[question].words)
  ELSE IF plan.clarify \/ plan.sources = << >> \/ slow THEN TimeoutResult(plan.sources)
  ELSE FetchDocuments(corpus.documents, plan)

Receive(result) ==
  \/ result = Invalid /\ Fail
  \/ /\ result # Invalid
     /\ gathered' = result
     /\ stage' = "fetched"
     /\ UNCHANGED <<corpus, context, conversation, question, observed, pipeline, comparison,
                    draft, answer, talk>>

Gather ==
  /\ stage = "planned"
  /\ \E slow \in BOOLEAN :
       /\ slow => ~Defined /\ ~plan.clarify
       /\ Receive(Fetched(slow))

-----------------------------------------------------------------------------
(* Judging *)

\* RetrievalRequest, with _retrieval_query
Request ==
  [security |-> plan.security, sources |-> plan.sources, range |-> plan.range,
   words |-> Reads[question].words \cup FocusTerms[plan.focus]]

\* What a pipeline comes to, with what each stage of it was left with; nothing is
\* selected for a decision that failed.
Piped(docs, counts, decision, budget) ==
  IF decision = Invalid \/ budget = Invalid THEN Invalid
  ELSE [docs |-> docs, decision |-> decision, budget |-> budget, counts |-> counts]

Decided(docs, counts, decision, required) ==
  Piped(docs, counts, decision, SelectContext(decision.evidence, required))

Counts(normalized, filtered, freshness, retrieval) ==
  <<Len(normalized), Len(filtered), Len(freshness.evidence), Len(retrieval.evidence)>>

Retrieved(docs, normalized, filtered, freshness, retrieval) ==
  Decided(docs, Counts(normalized, filtered, freshness, retrieval),
          Evaluate(plan, gathered.statuses, freshness, retrieval), plan.sources)

\* mutant: retrieval searches what the filter let through, not what is fresh
SearchedUnfreshened(docs, normalized, filtered, freshness) ==
  IF freshness = Invalid THEN Invalid
  ELSE Retrieved(docs, normalized, filtered, freshness, RetrieveForPlan(filtered, Request, plan))

\* The filter, the freshness rules, the search and the policy, one after the other.
Searched(docs, normalized, filtered, freshness) ==
  IF freshness = Invalid THEN Invalid
  ELSE Retrieved(docs, normalized, filtered, freshness,
                 RetrieveForPlan(freshness.evidence, Request, plan))

Filtered(docs, normalized, filtered) ==
  Searched(docs, normalized, filtered, EvaluateFreshness(filtered, docs, Request))

\* _run_evidence_pipeline
EvidencePipeline ==
  LET normalized == Normalize(gathered.documents) IN
  IF plan.clarify
    THEN Decided(<< >>, <<0, 0, 0, 0>>,
                 Evaluate(plan, << >>, [windows |-> << >>, evidence |-> << >>, warnings |-> {}],
                          [status |-> "empty", evidence |-> << >>]), << >>)
  ELSE IF normalized = Invalid THEN Invalid
  ELSE Filtered(ById(gathered.documents), normalized, FilterEvidence(normalized, Request))

\* _run_glossary_pipeline
GlossaryPipeline ==
  LET found == gathered.evidence
      window == [source |-> "glossary", from |-> NoDate, to |-> NoDate, by |-> "none"]
      freshness == [windows |-> <<window>>, warnings |-> {},
                    evidence |-> [i \in DOMAIN found |-> [found[i] EXCEPT !.score = NoScore]]]
      retrieval == [status |-> IF found = << >> THEN "empty" ELSE "ok", evidence |-> found] IN
  Decided(<< >>, Counts(found, found, freshness, retrieval),
          Evaluate(plan, [s \in {"glossary"} |-> gathered.status], freshness, retrieval), << >>)

Explicit == "compare" \in Reads[question].cues   \* _EVIDENCE_COMPARISON_QUERY

\* The pipeline, with its evidence replaced by the comparison's if the question asks
\* for one in so many words (_augment_pipeline_with_comparison).
Augment(result, found, budget) ==
  IF result = Invalid \/ ~Explicit \/ found = NoComparison THEN result
  ELSE IF budget = Invalid THEN Invalid
  ELSE [result EXCEPT !.budget = budget]

Judged(found, result) ==
  \/ result = Invalid /\ Fail
  \/ /\ result # Invalid
     /\ comparison' = found
     /\ pipeline' = result
     /\ stage' = "judged"
     /\ UNCHANGED <<corpus, context, conversation, question, observed, gathered, draft, answer,
                    talk>>

Weigh(found) ==
  Judged(found, Augment(IF Defined THEN GlossaryPipeline ELSE EvidencePipeline, found,
                        SelectContext(ComparisonEvidence(found, plan.security), << >>)))

Judge ==
  /\ stage = "fetched"
  /\ Weigh(SelectComparison(Reads[question].words, "event_marker" \in Reads[question].cues, plan))

-----------------------------------------------------------------------------
(* Composing: _compose *)

Sound == pipeline.decision.status \in {"complete", "partial"} /\ selected # << >>

Composed(c) ==
  /\ draft' = c
  /\ stage' = "composed"
  /\ UNCHANGED <<corpus, context, conversation, question, observed, gathered, pipeline,
                 comparison, answer, talk>>

Reason ==
  IF pipeline.decision.status \in {"blocked", "provider_failed"} THEN pipeline.decision.status
  ELSE "no_evidence"

\* Without a model: there is nothing sound to send, no time, or nothing sendable; or
\* the call was not admitted, or it failed.
ComposeFixed ==
  /\ stage = "judged"
  /\ Composed(FixedResult(Reads[question], plan, selected, "none", Reason))

\* conversation_context: the newest exchanges that fit; the newest alone is cut to fit.
Heard ==
  IF conversation = << >> THEN {{}}
  ELSE SUBSET Head(conversation)
         \cup {UNION SetOf(Top(conversation, n)) : n \in DOMAIN conversation}

\* _audit_prompt, of the question and of what is sent: otherwise the model is not asked.
PromptSafe ==
  LET q == Reads[question]
      sent == Sent(q, plan, selected, pipeline.docs) IN
  UnsafeWords \cap (q.words \cup UNION {e.words : e \in SetOf(sent)}) = {}

\* With a model that answers with a draft, which may refer to what was sent alone.  A
\* conversation with a link or a path in it fails the request: compose looks at it before
\* its try (composer.py:230-233, 563-571), and _compose does not catch that.
ComposeWith(d) ==
  /\ stage = "judged"
  /\ Sound /\ Eligible(plan, selected, pipeline.docs)
  /\ \E heard \in Heard :
       \/ heard # {} /\ Fail
       \/ /\ heard = {} /\ PromptSafe
          /\ Composed(Compose(Reads[question], plan, selected, pipeline.docs, d))

-----------------------------------------------------------------------------
(* The response *)

\* _comparison_answer_sections: what was composed gives the summary and the
\* interpretation; the comparison gives the rest.
ComparisonSections(c, claims) ==
  LET composed(section, n) == Top(Where(claims, LAMBDA x : x.section = section), n)
      told(section, claim) ==
        [section |-> section, words |-> claim.words, verbatim |-> TRUE, added |-> FALSE,
         cites |-> SetToSeq(claim.sources)]
      summary ==
        IF c.common = << >>
          THEN <<[section |-> "summary", words |-> c.label, verbatim |-> FALSE, added |-> FALSE,
                  cites |-> [i \in DOMAIN c.articles |-> c.articles[i].id]]>>
        ELSE IF composed("summary", 1) # << >> THEN composed("summary", 1)
        ELSE <<told("summary", c.common[1])>>
      facts ==
        Where([i \in DOMAIN Top(c.common, 1) |-> told("facts", c.common[i])],
                  LAMBDA x : x.words # summary[1].words)
      interpretation ==
        IF composed("interpretation", 2) # << >> THEN composed("interpretation", 2)
        ELSE [i \in DOMAIN Top(c.different, 2) |-> told("interpretation", c.different[i])] IN
  summary \o facts \o interpretation

\* _attach_evidence_comparison
Attached(claims) ==
  LET wanted == Comparable(plan) /\ comparison # NoComparison IN
  [claims |-> IF wanted /\ Explicit THEN ComparisonSections(comparison, claims) ELSE claims,
   comparison |-> IF wanted /\ (Explicit \/ MatchesEvent(Reads[question].words, comparison))
                    THEN comparison ELSE NoComparison]

\* _deadline_safe_composition, which does not know the question
Safe(c, late) ==
  IF late /\ c.mode = "llm" THEN FixedResult(Silent, plan, selected, "timeout", "no_evidence")
  ELSE c

\* _build_response: nothing complete without evidence.
Status(c) ==
  IF pipeline.decision.status = "complete" /\ c.evidence = << >> THEN "no_evidence"
  ELSE pipeline.decision.status

\* _build_process_summary: the documents of each source that are told of, what each
\* stage was left with, and what was dropped.
Summary(c) ==
  [documents |-> [i \in DOMAIN plan.sources |->
     IF Defined THEN pipeline.counts[1]
     ELSE Len(Where(gathered.documents, LAMBDA d : d.source = plan.sources[i]))],
   statuses  |-> [i \in DOMAIN plan.sources |->
     IF Defined THEN gathered.status ELSE gathered.statuses[plan.sources[i]]],
   counts    |-> pipeline.counts, input |-> pipeline.budget.input, drops |-> pipeline.budget.drops,
   claims    |-> Len(c.claims)]

\* What is told of the composition, and of the comparison attached to it.
Told(c, attached) ==
  [failed |-> FALSE, plan |-> plan, docs |-> pipeline.docs, decision |-> pipeline.decision,
   selected |-> selected, status |-> Status(c), mode |-> c.mode, evidence |-> c.evidence,
   composed |-> c.claims, claims |-> attached.claims, process |-> Summary(c),
   comparison |-> attached.comparison, integrated |-> attached.comparison # NoComparison /\ Explicit]

\* append_exchange, which may refuse (_memory_text, session_store.py:406-416); of what it
\* keeps the composer is told the latest.
Remember(words) ==
  conversation' = IF words \cap PrivateWords # {} THEN conversation
                  ELSE Top(<<words \cap UnsafeWords>> \o conversation, ContextExchanges)

\* The response is built and recorded, its text cut to fit (_assistant_memory_text), and
\* the context saved.  What a model said is dropped if it comes too late.
Respond ==
  /\ stage = "composed"
  /\ \E late \in {FALSE, draft.mode = "llm"} :
       LET c == Safe(draft, late)
           attached == Attached(c.claims)
           asked == Reads[question].words
           said == UnsafeWords \cap UNION {x.words : x \in SetOf(attached.claims)} IN
       /\ End(Told(c, attached))
       /\ \E kept \in SUBSET said : Remember(asked \cup kept)
       /\ talk' = Append(talk, [asked |-> question, plan |-> plan,
                               unsafe |-> (UnsafeWords \cap asked) \cup said])
  /\ context' = SavedContext(context, plan)
  /\ UNCHANGED corpus

Next ==
  \/ \E q \in Questions : Ask(q)
  \/ Gather
  \/ Judge
  \/ ComposeFixed
  \/ \E d \in Drafts : ComposeWith(d)
  \/ Respond

Spec == Init /\ [][Next]_vars

-----------------------------------------------------------------------------
(* Properties *)

Delivered == answer # Nothing /\ ~answer.failed
Turn == Reads[Last(talk).asked]

\* The last security, of the turns before, that an answer was about.
Remembered ==
  LET told == {i \in 1..(Len(talk) - 1) :
                 ~talk[i].plan.clarify /\ talk[i].plan.security # NoSecurity} IN
  IF told = {} THEN NoSecurity ELSE talk[Max(told)].plan.security

Meant == IF Extraction(Turn) = "one" THEN NamedSecurity(Turn) ELSE Remembered

\* A disclosure that was not withdrawn, and that no correction at hand replaces.
Stands(e, docs, range) ==
  /\ ~docs[e.doc].notice.withdrawn
  /\ \A id \in DOMAIN docs :
       LET d == docs[id] IN
       d.notice.target # e.doc \/ d.notice.withdrawn \/ ~InRange(d.at, range)

\* One that is known to have a correction which is not at hand.
InDoubt(e, docs) ==
  /\ docs[e.doc].notice.superseded
  /\ \A id \in DOMAIN docs : docs[id].notice.target # e.doc

\* Whatever is shown as evidence is about the security the question names or, if it
\* names none, the last one talked of; it is of a kind the plan asks for, was known at
\* the basis, lies in the range the question states, and is no disclosure that was
\* withdrawn or that a correction at hand replaces.  (normalizer.py, filters.py,
\* freshness.py, query_planner.py and _save_session_context together; a comparison
\* asked for stands for its own range.)
EvidenceIsApt ==
  Delivered => \A e \in SetOf(answer.evidence) :
    \/ e.source = "glossary" /\ answer.plan.intent = "financial_term"
    \/ /\ InScope(e, Meant) /\ e.source \in SetOf(answer.plan.sources) /\ e.at <= BasisAt
       /\ answer.integrated \/ InRange(e.at, ParsePeriod(Turn).range)
       /\ e.source = "disclosure" => Stands(e, answer.docs, answer.plan.range)

\* "complete" is earned: each source that must be covered is among what was selected
\* within the limits, none of it failed or is in doubt, and something is shown.  A source
\* is lost for the size of the pieces alone, once every piece left is of a source of its
\* own.  (policy.py, selection.py and budget.py together, unless a comparison has taken
\* the place of what was selected.)
CompleteIsCovered ==
  Delivered /\ answer.status = "complete" =>
    /\ answer.evidence # << >>
    /\ answer.decision.missing = << >>
    /\ \/ answer.integrated
       \/ SetOf(Coverage(answer.plan)) \subseteq {e.source : e \in SetOf(answer.selected)}
       \/ /\ answer.process.drops.size > 0
          /\ \A i, j \in DOMAIN answer.selected :
               answer.selected[i].source = answer.selected[j].source => i = j

\* A disclosure that is known to have a correction which is not at hand is never shown
\* as if it were settled: the answer is partial, and says why.  (_has_unresolved_disclosure
\* and the policy; a price move is not covered by disclosures, whose warnings it drops.)
DoubtIsTold ==
  Delivered /\ answer.plan.intent # "price_move" =>
    \A e \in SetOf(answer.evidence) :
      e.source = "disclosure" /\ InDoubt(e, answer.docs) =>
        answer.status = "partial" /\ "unresolved_disclosure_correction" \in answer.decision.warnings

\* A turn that the composer may still be told of, and refuses: a link or a path was said
\* that the store need not have refused, and too few turns without any came after it.
Poisoned(i) ==
  /\ talk[i].unsafe # {} /\ Reads[talk[i].asked].words \cap PrivateWords = {}
  /\ Cardinality({j \in i + 1..Len(talk) : talk[j].unsafe = {}}) < ContextExchanges

\* No stage refuses what the stage before it made, with three exceptions: a request fails
\* only if it asks for a term and states a date, if a document found for it has a path in
\* its text (normalizer.py refuses what the loaders let through), or if a link or a path
\* was said in the last turns (composer.py refuses what the session store let through;
\* that a model is waited for too long is ChatPipeline's affair).  And what an answer
\* tells of the stages adds up: none was left with more than it was given, each source
\* that answered had documents and no other had, and what the policy let through is what
\* was then selected from (unless a comparison took its place).
StagesAgree ==
  /\ answer # Nothing /\ answer.failed =>
       \/ /\ answer.at = "fetched"
          /\ \/ answer.plan.intent = "financial_term" /\ answer.plan.range # NoRange
             \/ \E d \in SetOf(FetchDocuments(corpus.documents, answer.plan).documents) :
                  ~PathFree(d)
       \/ answer.at = "judged" /\ \E i \in DOMAIN talk : Poisoned(i)
  /\ Delivered =>
       LET told == answer.process IN
       /\ \A i \in 1..3 : told.counts[i + 1] <= told.counts[i]
       /\ answer.integrated \/ told.input = told.counts[4]
       /\ \A i \in DOMAIN answer.plan.sources : (told.statuses[i] = "ok") <=> (told.documents[i] > 0)

RestsOn(c, evidence) ==
  /\ c.cites # << >> /\ SetOf(c.cites) \subseteq Ids(evidence)
  /\ c.words \cap Numbers \subseteq UNION {e.words : e \in Cited(c, evidence)}
  /\ IF c.added THEN \E e \in Cited(c, evidence) : ~Advice(e.words) ELSE ~Advice(c.words)

Rests(claims, evidence) ==
  /\ \A c \in SetOf(claims) : RestsOn(c, evidence)
  /\ \A e \in SetOf(evidence) : \E c \in SetOf(claims) : e.id \in SetOf(c.cites)
  /\ ~OneSided(Where(claims, LAMBDA c : ~c.added))

\* What the composer says rests on what is shown: every claim cites evidence that is
\* shown, its numbers are in that evidence, it is no advice, and what is shown is cited.
\* Reasons for and against come with a caveat.  Of a report that was added after the
\* model had spoken the words are no advice, though its retelling is not looked at, nor
\* whether it leaves the answer one-sided.  (validators.py, citations.py and composer.py
\* together, whatever the model says.)
ClaimsRest == Delivered => Rests(answer.composed, answer.evidence)

=============================================================================
