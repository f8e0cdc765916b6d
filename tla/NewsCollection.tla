---------------------------- MODULE NewsCollection ----------------------------
(***************************************************************************)
(* How the news of the recorded service comes about, up to the file a      *)
(* person is to review: the search's answers are parsed and attributed     *)
(* (src/app/providers/news.py), collected into a file of candidates        *)
(* (src/scripts/collect_naver_news_snapshot.py), and curated: one article  *)
(* for each event somebody wrote a rule and a summary for                  *)
(* (src/app/services/news_snapshot_schema.py).                             *)
(*                                                                         *)
(* An item of the search:  title, at (when it was published, NoTime if     *)
(*   that cannot be read), heading and words (the terms in its title, and  *)
(*   in its title or description), named and also (the securities its      *)
(*   title and its description name), original and link (a page with a     *)
(*   part of it and whether a login is written into it, or NoUrl).         *)
(* A document:  id, at, primary, mentioned, title, url, heading, words.    *)
(* Pages are numbers, in the order of their hashes; a document's id is its *)
(* page, or its title and time when it has none.                           *)
(***************************************************************************)
EXTENDS Integers, Sequences, FiniteSets, SequencesExt, Sublists, TLC

CONSTANTS
  Securities,    \* SUPPORTED_SECURITY_IDS, in order
  Wire,          \* what the search may return: an item by its key
  Rules,         \* of a security, in order: event, terms, band, summary
  HostOf,        \* of a page
  Queries,       \* of a security, in order: its own and the quality queries
  MaxCalls,      \* max_calls_per_security, max_calls_per_quality_query: by position
  Display,       \* items in a page of the search
  LastStart,     \* 1000: where the search lets a page start
  WindowStart, WindowEnd, Opening,   \* COLLECTION_START, COLLECTION_CUTOFF, 9 o'clock
  MinTotal, MinPreMarket, MinIntraday,   \* 5, 1, 2
  NoTime, NoUrl, Invalid

ASSUME NewsAssumption ==
  /\ {Display, MinTotal} \subseteq Nat \ {0} /\ LastStart \in Nat
  /\ WindowStart < Opening /\ Opening < WindowEnd
  /\ Securities \in Seq(ToSet(Securities)) /\ IsInjective(Securities)
  /\ \A s \in ToSet(Securities) :
       /\ Rules[s] \in Seq(ToSet(Rules[s])) /\ Len(Rules[s]) = MinTotal
       /\ \A i, j \in DOMAIN Rules[s] : Rules[s][i].summary = Rules[s][j].summary => i = j
       /\ Queries[s] \in Seq(ToSet(Queries[s])) /\ IsInjective(Queries[s])
       /\ \A n \in DOMAIN Queries[s] : MaxCalls[n] \in Nat \ {0}

\* What the search returns: times and pages are numbers.
ASSUME WireAssumption ==
  /\ NoTime \notin Int /\ NoUrl \notin Int
  /\ \A key \in DOMAIN Wire :
       /\ Wire[key].at \in Int \cup {NoTime} /\ IsFiniteSet(Wire[key].heading)
       /\ \A link \in {Wire[key].original, Wire[key].link} :
            link = NoUrl \/ {link.page, link.part} \subseteq Int

SeqMap(Op(_), s) == [i \in DOMAIN s |-> Op(s[i])]

-----------------------------------------------------------------------------
(* Parsing and attribution: normalize_naver_api_hub_news_response, for all dates. *)

\* _canonical_url drops the part of the page, and a link with a login in it.
Canonical(link) == IF link = NoUrl \/ link.login THEN NoUrl ELSE link.page

Url(item) ==
  IF Canonical(item.original) # NoUrl THEN Canonical(item.original) ELSE Canonical(item.link)

\* _document_id, and what two items are the same by
Identity(item) == IF Url(item) # NoUrl THEN Url(item) ELSE <<item.title, item.at>>

\* _attribute_item: the security must be named, and in the title if the title names
\* any.
About(item, s) ==
  \/ s \in item.named
  \/ item.named = {} /\ s \in item.also

Document(item, s) ==
  LET primary == IF s \in item.named THEN item.named ELSE {s} IN
  [id |-> Identity(item), at |-> item.at, primary |-> primary,
   mentioned |-> item.also \ primary, title |-> item.title, url |-> Url(item),
   heading |-> item.heading, words |-> item.words]

NormalizeResponse(items, s) ==
  LET parsed == Where(items, LAMBDA item : item.at # NoTime) IN
  IF items # << >> /\ parsed = << >> THEN Invalid
  ELSE LET apt == Where(parsed, LAMBDA item : About(item, s)) IN
       SeqMap(LAMBDA item : Document(item, s), KeepFirst(apt, Identity))

-----------------------------------------------------------------------------
(* Collection *)

\* collect_news_query_pages: what the pages of a search hold, as long as they are
\* full, may be asked for, and start where a page may.
Collected(found, calls) ==
  LET pages == {n \in 1 .. calls : 1 + (n - 1) * Display <= LastStart} IN
  SubSeq(found, 1, Min({Len(found), Cardinality(pages) * Display}))

InWindow(t) == WindowStart <= t /\ t <= WindowEnd
Band(t) == IF t < Opening THEN "pre_market" ELSE "intraday"   \* _news_time_band

Newest(a, b) == a.at > b.at \/ (a.at = b.at /\ a.url > b.url)

\* normalize_collected_news_pages
CollectedDocuments(items, s) ==
  LET documents == NormalizeResponse(items, s) IN
  IF documents = Invalid THEN Invalid
  ELSE Sorted(Where(documents, LAMBDA d : InWindow(d.at) /\ d.url # NoUrl), Newest)

\* calculate_news_coverage
NewsCoverage(documents, s) ==
  LET in(band) == Len(Where(documents, LAMBDA d : Band(d.at) = band)) IN
  IF \E i \in DOMAIN documents : s \notin documents[i].primary \/ ~InWindow(documents[i].at)
    THEN Invalid
    ELSE [total |-> Len(documents), pre |-> in("pre_market"), intra |-> in("intraday"),
          ready |-> /\ Len(documents) >= MinTotal
                    /\ in("pre_market") >= MinPreMarket
                    /\ in("intraday") >= MinIntraday]

\* build_merged_news_candidate_payload, of the items each query found: the documents
\* of all the queries, each once, or nothing if one of them is unreadable.
Candidates(s, runs) ==
  LET found == [n \in DOMAIN runs |-> CollectedDocuments(runs[n].items, s)]
      merged == Sorted(KeepFirst(Flat(found), LAMBDA d : d.id), Newest) IN
  IF (\E n \in DOMAIN runs : found[n] = Invalid) \/ ~IsInjective(SeqMap(LAMBDA r : r.query, runs))
    THEN Invalid
    ELSE [security |-> s, queries |-> SeqMap(LAMBDA r : r.query, runs),
          coverage |-> NewsCoverage(merged, s), documents |-> merged]

\* What run_collection writes for a security, given what the search finds for each of
\* its queries.
Harvest(s, results) ==
  Candidates(s, [n \in DOMAIN Queries[s] |->
                   [query |-> Queries[s][n],
                    items |-> SeqMap(LAMBDA key : Wire[key],
                                     Collected(results[n], MaxCalls[n]))]])

-----------------------------------------------------------------------------
(* Curation *)

Distinct(documents, Key(_)) == IsInjective(SeqMap(Key, documents))

\* _validate_candidate_documents
CandidatesSound(documents, s) ==
  /\ documents # << >>
  /\ Distinct(documents, LAMBDA d : d.id) /\ Distinct(documents, LAMBDA d : d.url)
  /\ NewsCoverage(documents, s) # Invalid

\* load_news_candidate_documents
CandidateDocuments(payload, s) ==
  LET documents == payload.documents IN
  IF /\ payload.security = s
     /\ payload.queries # << >> /\ IsInjective(payload.queries)
     /\ Head(payload.queries) = Head(Queries[s])
     /\ ToSet(payload.queries) \subseteq ToSet(Queries[s])
     /\ CandidatesSound(documents, s)
     /\ payload.coverage = NewsCoverage(documents, s)
    THEN documents ELSE Invalid

Fits(d, rule) == Band(d.at) = rule.band /\ rule.terms \cap d.words # {}

\* _curation_sort_key: the title first, then the newest, then a page nobody else was
\* taken from.
Preferred(a, b, rule, hosts) ==
  LET key(d) == <<IF rule.terms \cap d.heading # {} THEN 0 ELSE 1, -d.at,
                  IF HostOf[d.url] \in hosts THEN 1 ELSE 0, d.url>> IN
  \E i \in 1 .. 4 : key(a)[i] < key(b)[i] /\ \A j \in 1 .. i - 1 : key(a)[j] = key(b)[j]

\* What the rule takes from what is left.
Unused(d, picked) ==
  \A i \in DOMAIN picked :
    LET p == picked[i].doc IN
    d.id # p.id /\ d.url # p.url /\ d.title # p.title /\ d.at # p.at

Pick(documents, picked, rule) ==
  LET fitting == {d \in ToSet(documents) : Fits(d, rule) /\ Unused(d, picked)}
      hosts == {HostOf[picked[i].doc.url] : i \in DOMAIN picked} IN
  IF fitting = {} THEN Invalid
  ELSE [event |-> rule.event, band |-> rule.band, summary |-> rule.summary,
        doc |-> CHOOSE d \in fitting :
                  \A e \in fitting \ {d} : Preferred(d, e, rule, hosts)]

\* With what one more rule takes; nothing if it finds nothing.
Picked(documents, before, rule) ==
  LET pick == Pick(documents, before, rule) IN
  IF before = Invalid \/ pick = Invalid THEN Invalid ELSE Append(before, pick)

\* curate_news_documents: rule by rule.
Picks(documents, s) ==
  LET after[n \in 0 .. Len(Rules[s])] ==
        IF n = 0 THEN << >> ELSE Picked(documents, after[n - 1], Rules[s][n]) IN
  after[Len(Rules[s])]

\* Wrong: writes down the coverage of the candidates.
CurateUncounted(documents, s) ==
  LET picked == Picks(documents, s)
      coverage == NewsCoverage(documents, s) IN
  IF picked = Invalid THEN Invalid
  ELSE IF Len(picked) # MinTotal \/ ~coverage.ready THEN Invalid
  ELSE [security |-> s, coverage |-> coverage,
        documents |-> [i \in DOMAIN picked |->
                         [id |-> picked[i].doc.id, title |-> picked[i].doc.title,
                          band |-> picked[i].band, url |-> picked[i].doc.url,
                          at |-> picked[i].doc.at, summary |-> picked[i].summary]]]

\* build_curated_news_payload
Curate(documents, s) ==
  LET picked == Picks(documents, s)
      coverage == NewsCoverage(SeqMap(LAMBDA p : p.doc, picked), s) IN
  IF picked = Invalid THEN Invalid
  ELSE IF Len(picked) # MinTotal \/ ~coverage.ready THEN Invalid
  ELSE [security |-> s, coverage |-> coverage,
        documents |-> [i \in DOMAIN picked |->
                         [id |-> picked[i].doc.id, title |-> picked[i].doc.title,
                          band |-> picked[i].band, url |-> picked[i].doc.url,
                          at |-> picked[i].doc.at, summary |-> picked[i].summary]]]

\* What run_curation writes for a security, of the candidates it read.
CurateNews(s, payload) ==
  LET documents == CandidateDocuments(payload, s) IN
  IF documents = Invalid THEN Invalid ELSE Curate(documents, s)
=============================================================================
