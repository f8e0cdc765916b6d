------------------------------ MODULE Freshness ------------------------------
(***************************************************************************)
(* Which evidence is recent enough, which disclosures a correction has     *)
(* replaced, and what must be warned of: evaluate_freshness in             *)
(* src/app/evidence/freshness.py.                                          *)
(*                                                                         *)
(* Evidence reaches it through the hard filter, so it is dated, not after  *)
(* the basis, and within the user's range, if there is one: the warnings   *)
(* missing_published_at and future_published_at never arise.               *)
(***************************************************************************)
EXTENDS SourceDocuments

CONSTANTS
  MaxAge,         \* _DEFAULT_MAX_AGE_DAYS, for each source
  FallbackAge,    \* _DISCLOSURE_FALLBACK_MAX_AGE_DAYS
  StaleAfter,     \* the age in days beyond which the newest news or report is stale
  MinDisclosures, \* _MIN_DISCLOSURE_COUNT
  NoTarget        \* correction_of is None

ASSUME WindowAssumption ==
  /\ MaxAge \in [{"news", "disclosure", "research_report"} -> Nat]
  /\ StaleAfter \in [{"news", "research_report"} -> Nat]
  /\ FallbackAge \in Nat /\ MaxAge["disclosure"] <= FallbackAge
  /\ MinDisclosures \in Nat

Age(e) == Day(BasisAt) - Day(e.at)

\* The document of a piece; docs is documents_by_id.
Notice(docs, id) == docs[id].notice
Disclosures(evidence) == {e.doc : e \in {f \in SetOf(evidence) : f.source = "disclosure"}}

-----------------------------------------------------------------------------
(* Corrections *)

\* _validate_disclosure_metadata: only a correction corrects, never itself, and a
\* disclosure of the same securities.
NoticesValid(evidence, docs) ==
  \A id \in Disclosures(evidence) :
    LET n == Notice(docs, id) IN
    n.target # NoTarget =>
      /\ n.correction /\ n.target # id
      /\ n.target \in DOMAIN docs =>
           /\ docs[n.target].source = "disclosure"
           /\ docs[n.target].primary = docs[id].primary

\* _build_active_correction_graph: the corrections at hand and what each replaces.
Edges(evidence, docs) ==
  LET active == {id \in Disclosures(evidence) : ~Notice(docs, id).withdrawn}
      correcting == {id \in active : Notice(docs, id).correction /\ Notice(docs, id).target # NoTarget} IN
  [id \in correcting |-> Notice(docs, id).target]

\* What is reached from a disclosure by following the corrections n times.
Follow(edges, id, n) ==
  LET f[k \in 0..n] == IF k = 0 THEN id
                       ELSE IF f[k - 1] \in DOMAIN edges THEN edges[f[k - 1]] ELSE f[k - 1] IN
  f[n]

\* _correction_root and _validate_acyclic_graph
Root(edges, id) == Follow(edges, id, Cardinality(DOMAIN edges))
Acyclic(edges) == \A id \in DOMAIN edges : Root(edges, id) \notin DOMAIN edges

Replaced(edges) == {edges[id] : id \in DOMAIN edges}

\* mutant: a disclosure that was corrected is shown beside its correction
VisibleAll(evidence, docs) ==
  Where(evidence, LAMBDA e : e.source = "disclosure" => ~Notice(docs, e.doc).withdrawn)

\* What is neither withdrawn nor replaced by a correction at hand.
Visible(evidence, docs) ==
  LET replaced == Replaced(Edges(evidence, docs)) IN
  Where(evidence, LAMBDA e :
    e.source = "disclosure" => ~Notice(docs, e.doc).withdrawn /\ e.doc \notin replaced)

\* mutant: a correction known only from the listing's remark is overlooked
UnsettledByEdge(retained, docs, edges) ==
  \E a, b \in Disclosures(retained) \cap DOMAIN edges :
     a # b /\ Root(edges, a) = Root(edges, b)

\* _has_unresolved_disclosure: a disclosure shown has a correction that is not at
\* hand, or corrects something unknown, or is one of two corrections of the same.
Unsettled(retained, docs, edges) ==
  \/ \E id \in Disclosures(retained) :
       \/ Notice(docs, id).superseded /\ id \notin Replaced(edges)
       \/ Notice(docs, id).correction /\ Notice(docs, id).target = NoTarget
  \/ \E a, b \in (Disclosures(retained) \cap DOMAIN edges) \ Replaced(edges) :
       a # b /\ Root(edges, a) = Root(edges, b)

-----------------------------------------------------------------------------
(* Windows *)

\* _build_windows: with too few recent disclosures, older ones are let in.
Extended(visible, request) ==
  /\ request.range = NoRange /\ "disclosure" \in SetOf(request.sources)
  /\ Cardinality({id \in Disclosures(visible) :
       \E e \in SetOf(visible) : e.doc = id /\ Age(e) <= MaxAge["disclosure"]}) < MinDisclosures

\* The window of a source, and who set it.
Windows(visible, request) ==
  [i \in DOMAIN request.sources |->
     LET s == request.sources[i]
         wide == s = "disclosure" /\ Extended(visible, request)
         age == IF wide THEN FallbackAge ELSE MaxAge[s] IN
     IF request.range # NoRange
       THEN [source |-> s, from |-> request.range.from, to |-> request.range.to, by |-> "user"]
       ELSE [source |-> s, from |-> Today - age, to |-> Today,
             by |-> IF wide THEN "fallback" ELSE "default"]]

\* _apply_windows; the user's range has been applied before.
Retained(visible, request) ==
  LET span(s) == IF s = "disclosure" /\ Extended(visible, request) THEN FallbackAge ELSE MaxAge[s] IN
  Where(visible, LAMBDA e : request.range # NoRange \/ Age(e) <= span(e.source))

-----------------------------------------------------------------------------
(* Warnings *)

\* _add_stale_warnings: the newest news, the newest report, is old.
Stale(evidence, request, s) ==
  LET ages == {Age(e) : e \in {f \in SetOf(evidence) : f.source = s}} IN
  request.range = NoRange /\ ages # {} /\ Min(ages) > StaleAfter[s]

\* evaluate_freshness: the windows, what is retained, and the codes of what is
\* warned of, each of which belongs to one source.
EvaluateFreshness(evidence, docs, request) ==
  LET edges == Edges(evidence, docs)
      visible == Visible(evidence, docs)
      retained == Retained(visible, request)
      warn(code, holds) == IF holds THEN {code} ELSE {} IN
  IF ~NoticesValid(evidence, docs) \/ ~Acyclic(edges) THEN Invalid
  ELSE [windows  |-> Windows(visible, request),
        evidence |-> retained,
        warnings |->
          warn("stale_news", Stale(evidence, request, "news"))
            \cup warn("stale_research_report", Stale(evidence, request, "research_report"))
            \cup warn("disclosure_window_extended", Extended(visible, request))
            \cup warn("insufficient_disclosure_coverage",
                      /\ request.range = NoRange /\ "disclosure" \in SetOf(request.sources)
                      /\ Cardinality(Disclosures(retained)) < MinDisclosures)
            \cup warn("unresolved_disclosure_correction", Unsettled(retained, docs, edges))]
=============================================================================
