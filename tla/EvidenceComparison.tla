-------------------------- MODULE EvidenceComparison --------------------------
(***************************************************************************)
(* The comparisons of articles about one event, prepared offline:          *)
(* src/app/services/m5_d1_evidence_comparison.py, and how chat_service.py  *)
(* puts one in the place of what was retrieved.                            *)
(*                                                                         *)
(* A cluster of articles:  event, security, terms, label (its words),      *)
(*   articles (id, publisher, at, words), common and different (claims:    *)
(*   words, sources), summary (whether it has a support_summary).          *)
(* A perspective (of a report) or a background (of a disclosure):          *)
(*   security, at, topics, official (of a background: known from the list  *)
(*   of disclosures only), words.                                          *)
(***************************************************************************)
EXTENDS EvidenceSelection

CONSTANTS
  Clusters,      \* event_clusters, a sequence
  Perspectives,  \* report_perspectives
  Backgrounds,   \* disclosure_backgrounds
  GenericTopics, \* _GENERIC_LINK_TOPICS
  PlainWords,    \* the words that never tell events apart (generic)
  ShownArticles, \* how many articles a comparison lists
  ShownTitles,   \* how many titles stand for articles without a claim
  NoComparison

\* What _validate_payload insists on.
ClaimsOf(c) == c.common \o c.different
ASSUME ComparisonAssumption ==
  /\ {ShownArticles, ShownTitles} \subseteq Nat \ {0}
  /\ Clusters \in Seq(SetOf(Clusters))
  /\ \A c \in SetOf(Clusters) :
       /\ IsFiniteSet(c.terms)
       /\ c.articles \in Seq(SetOf(c.articles)) /\ \A a \in SetOf(c.articles) : a.at \in Int
       /\ c.common \in Seq(SetOf(c.common)) /\ c.different \in Seq(SetOf(c.different))
       /\ Cardinality({a.publisher : a \in SetOf(c.articles)}) >= 2
       /\ \A claim \in SetOf(ClaimsOf(c)) : claim.sources \subseteq {a.id : a \in SetOf(c.articles)}
       /\ \A claim \in SetOf(c.common) : Cardinality(claim.sources) >= 2

Known(articles) == Where(articles, LAMBDA a : a.at <= BasisAt)

\* The best few: by rank, then by date; equals in their order.
Best(items, rank, n) ==
  LET linked == Where(items, LAMBDA x : rank[x] > 0)
      order == Ordered(DOMAIN linked, LAMBDA i, j :
                 LET a == rank[linked[i]]
                     b == rank[linked[j]] IN
                 \/ a > b
                 \/ a = b /\ linked[i].at > linked[j].at
                 \/ a = b /\ linked[i].at = linked[j].at /\ i < j) IN
  Top([k \in DOMAIN order |-> linked[order[k]]], n)

\* _select_perspectives and _select_disclosures: what shares a telling topic with
\* the event or the question.
Linked(items, security, focus, weight, n) ==
  Best(items,
       [x \in SetOf(items) |->
         IF x.security = security /\ x.at <= BasisAt /\ (focus \ GenericTopics) \cap x.topics # {}
           THEN weight[x] ELSE 0],
       n)

\* What is told of a cluster, of the articles known, to a question of those words.
Comparison(c, articles, words) ==
  LET vouched(claims) == Where(claims, LAMBDA x : x.sources \subseteq {a.id : a \in SetOf(articles)})
      focus == c.terms \cup words
      shared(x) == 100 * Cardinality((focus \ GenericTopics) \cap x.topics) IN
  [event |-> c.event, label |-> c.label, articles |-> Top(articles, ShownArticles),
   common |-> vouched(c.common), different |-> vouched(c.different),
   perspectives |->
     Linked(Perspectives, c.security, focus,
            [x \in SetOf(Perspectives) |-> shared(x) + Cardinality(focus \cap x.topics)], 3),
   backgrounds |->
     Linked(Backgrounds, c.security, focus,
            [x \in SetOf(Backgrounds) |-> shared(x) + 10 * Cardinality(focus \cap x.topics)
                                            + (IF x.official THEN 1 ELSE 0)], 2),
   summary |-> c.summary]

\* M5D1EvidenceComparisonStore.select, for a question with the given words; marked
\* when one of _EVENT_QUERY_MARKERS is among them.
Select(words, marked, security) ==
  LET own == Where(Clusters, LAMBDA c : c.security = security)
      told(cs) == words \cap UNION {c.terms : c \in SetOf(cs)}
      overlap(c) == Cardinality(words \cap c.terms)
      candidates == Where(own, LAMBDA c :
                      Len(Known(c.articles)) >= 2 /\ (told(own) # {} => overlap(c) > 0))
      latest(c) == Max({a.at : a \in SetOf(Known(c.articles))})
      best == CHOOSE i \in DOMAIN candidates : \A j \in DOMAIN candidates :
                \/ overlap(candidates[i]) > overlap(candidates[j])
                \/ /\ overlap(candidates[i]) = overlap(candidates[j])
                   /\ \/ latest(candidates[i]) > latest(candidates[j])
                      \/ latest(candidates[i]) = latest(candidates[j]) /\ i <= j IN
  IF \/ security = NoSecurity
     \/ told(Clusters) # {} /\ told(own) = {}
     \/ told(own) = {} /\ ~marked
     \/ candidates = << >>
    THEN NoComparison
  ELSE Comparison(candidates[best], Known(candidates[best].articles), words)

-----------------------------------------------------------------------------
(* chat_service.py *)

\* _comparison_request_eligible
Comparable(plan) ==
  /\ plan.security # NoSecurity /\ ~plan.clarify
  /\ plan.intent \notin {"financial_term", "price", "prohibited_advice", "out_of_scope"}

\* _select_evidence_comparison
SelectComparison(words, marked, plan) ==
  IF Comparable(plan) THEN Select(words, marked, plan.security) ELSE NoComparison

\* A piece for a claim and one of the articles that make it, or for a title.
ComparisonPiece(c, part, article, words, security) ==
  [id |-> <<c.event, part, article.id>>, doc |-> article.id, source |-> "news", at |-> article.at,
   subjects |-> {security}, mentioned |-> {}, scope |-> "company_specific",
   words |-> words, score |-> 100]

\* _comparison_prompt_evidence: claims by the articles listed, else their titles.
ComparisonEvidence(c, security) ==
  LET listed(claim) == Where(c.articles, LAMBDA a : a.id \in claim.sources)
      pieces(kind, claims) ==
        FlattenSeq([i \in DOMAIN claims |->
          [k \in DOMAIN listed(claims[i]) |->
             ComparisonPiece(c, <<kind, i>>, listed(claims[i])[k], claims[i].words, security)]])
      told == pieces("common", c.common) \o pieces("different", c.different)
      titles == Top(c.articles, ShownTitles) IN
  IF told # << >> THEN told
  ELSE [i \in DOMAIN titles |-> ComparisonPiece(c, Whole, titles[i], titles[i].words, security)]

\* _comparison_query_matches_event
MatchesEvent(words, c) == (words \cap c.label) \ PlainWords # {}
=============================================================================
