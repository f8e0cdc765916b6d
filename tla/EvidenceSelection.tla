-------------------------- MODULE EvidenceSelection --------------------------
(***************************************************************************)
(* What of the fresh evidence answers the question, and what is kept of it *)
(* within the limits of the context: src/app/retrieval/retriever.py,       *)
(* src/app/evidence/selection.py and budget.py.                            *)
(***************************************************************************)
EXTENDS Freshness

CONSTANTS
  Idf,            \* log(1 + (n - k + 0.5) / (k + 0.5)) in hundredths: Idf[n][k], for a
                  \* word that k of n candidates have
  Threshold,      \* LOW_RELEVANCE_THRESHOLD, in hundredths
  TopK, NewsTopK, \* what is asked for, and of news alone for a price move
  SourceCap,      \* max_evidence_per_source
  CountCap,       \* max_evidence_count
  ContextCap      \* max_context_tokens and max_context_chars, in units of TotalSize

ASSUME LimitAssumption ==
  /\ {TopK, NewsTopK, SourceCap, CountCap, ContextCap, Threshold} \subseteq Nat \ {0}
  /\ Len(AllThree) <= CountCap

-----------------------------------------------------------------------------
(* source_diverse_indexes *)

\* The first item of each required source comes first, in the order required; the
\* others follow in their own order.
SourceDiverse(items, required) ==
  LET leader(s) == SelectInSeq(items, LAMBDA e : e.source = s)
      leaders == Where([i \in DOMAIN required |-> leader(required[i])], LAMBDA i : i # 0) IN
  [k \in DOMAIN leaders |-> items[leaders[k]]] \o ItemsAt(items, DOMAIN items \ SetOf(leaders))

Top(s, n) == SubSeq(s, 1, IF Len(s) < n THEN Len(s) ELSE n)

-----------------------------------------------------------------------------
(* retrieve_evidence *)

\* _score_candidates: BM25 of candidates of equal length that have a word once.
Score(e, candidates, words) ==
  LET having(w) == Cardinality({i \in DOMAIN candidates : w \in candidates[i].words}) IN
  MapThenSumSet(LAMBDA w : Idf[Len(candidates)][having(w)], words \cap e.words)

Ranked(candidates, words) ==
  LET score == [i \in DOMAIN candidates |-> Score(candidates[i], candidates, words)]
      eligible == {i \in DOMAIN candidates : score[i] >= Threshold}
      order == Ordered(eligible, LAMBDA i, j :
                 score[i] > score[j] \/ (score[i] = score[j] /\ i < j)) IN
  [k \in DOMAIN order |-> [candidates[order[k]] EXCEPT !.score = score[order[k]]]]

RetrieveEvidence(evidence, request, k) ==
  LET filtered == FilterEvidence(evidence, request)
      ranked == Ranked(filtered, request.words)
      required == IF Len(request.sources) > 1 THEN request.sources ELSE << >> IN
  IF filtered = << >> THEN [status |-> "empty", evidence |-> << >>]
  ELSE IF ranked = << >> THEN [status |-> "low_relevance", evidence |-> << >>]
  ELSE [status |-> "ok", evidence |-> Top(SourceDiverse(ranked, required), k)]

\* _retrieve_for_plan: the reason of a price move is looked for in the news first.
RetrieveForPlan(evidence, request, plan) ==
  LET news == RetrieveEvidence(evidence, [request EXCEPT !.sources = <<"news">>], NewsTopK) IN
  IF plan.intent = "price_move" /\ news.status = "ok" THEN news
  ELSE RetrieveEvidence(evidence, request, TopK)

-----------------------------------------------------------------------------
(* select_evidence_context *)

\* What the pieces add to the prompt: one for each, and one for each of its words.
TotalSize(s) == Len(s) + Cardinality(UNION {{i} \X s[i].words : i \in DOMAIN s})

\* _deduplicate: the first of the pieces that say the same of the same document.
Deduplicate(s) ==
  LET content(e) == [e EXCEPT !.score = NoScore]
      first(i) == \A j \in 1..(i - 1) : content(s[j]) # content(s[i]) IN
  ItemsAt(s, {i \in DOMAIN s : first(i)})

\* _apply_source_cap
CapSources(s) ==
  LET upTo(i) == Cardinality({j \in 1..i : s[j].source = s[i].source}) IN
  ItemsAt(s, {i \in DOMAIN s : upTo(i) <= SourceCap})

\* mutant: the pieces dropped for size are the first
CapContextFromTop(s) ==
  LET fits == {n \in 0..Len(s) : TotalSize(SubSeq(s, Len(s) - n + 1, Len(s))) <= ContextCap} IN
  SubSeq(s, Len(s) - Max(fits) + 1, Len(s))

\* _apply_context_caps: the last is dropped until the rest fits.
CapContext(s) == Top(s, Max({n \in 0..Len(s) : TotalSize(Top(s, n)) <= ContextCap}))

\* _canonical_evidence_sequence and _validate_repeated_ids: every piece was retrieved,
\* and one that occurs twice is the same twice.
Selectable(s) ==
  /\ \A i \in DOMAIN s : s[i].score # NoScore /\ s[i].score >= Threshold
  /\ \A i, j \in DOMAIN s : s[i].id = s[j].id => s[i] = s[j]

\* _audit_result: what is left is in its order, said once, and within the limits, and
\* what was dropped on the way adds up.
Audited(budget, ordered) ==
  LET left == budget.evidence
      d == budget.drops IN
  /\ left = Where(ordered, LAMBDA e : e \in SetOf(left))
  /\ Deduplicate(left) = left
  /\ Len(left) <= CountCap /\ TotalSize(left) <= ContextCap
  /\ \A i \in DOMAIN left :
       Cardinality({j \in DOMAIN left : left[j].source = left[i].source}) <= SourceCap
  /\ d.repeated >= 0 /\ d.source >= 0 /\ d.count >= 0 /\ d.size >= 0
  /\ budget.input = d.repeated + d.source + d.count + d.size + Len(left)

\* What is selected, of how many, and how many were dropped for which reason.
SelectContext(s, required) ==
  LET ordered == SourceDiverse(Deduplicate(s), required)
      capped == CapSources(ordered)
      counted == Top(capped, CountCap)
      budget == [evidence |-> CapContext(counted), input |-> Len(s),
                 drops |-> [repeated |-> Len(s) - Len(ordered), source |-> Len(ordered) - Len(capped),
                            count |-> Len(capped) - Len(counted),
                            size |-> Len(counted) - Len(CapContext(counted))]] IN
  IF Selectable(s) /\ Audited(budget, ordered) THEN budget ELSE Invalid
=============================================================================
