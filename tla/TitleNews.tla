------------------------------- MODULE TitleNews -------------------------------
(***************************************************************************)
(* The headlines of the recorded service: src/scripts/                     *)
(* collect_m5_news_snapshot.py searches for each company on each day, and  *)
(* src/app/services/m5_news_snapshot.py keeps the headlines that are about *)
(* one company and an event, at most so many a day, and reads them again   *)
(* when the service starts.                                                *)
(*                                                                         *)
(* An item has, besides what NewsCollection says, leads: the securities    *)
(* its title names in its first fifteen characters.                        *)
(***************************************************************************)
EXTENDS NewsCollection

CONSTANTS
  TitleStart, TitleEnd,     \* COLLECTION_START, COLLECTION_END
  DayLength,                \* of a day in Seoul
  DailyCap, PeriodCap,      \* DAILY_CAP, PERIOD_CAP
  EventTerms, UnaptTerms,   \* _EVENT_TERMS; _REJECT_TERMS and _BROAD_MARKET_TERMS
  TitleCalls                \* max_calls, of a query by its position

ASSUME TitleAssumption ==
  /\ TitleStart < TitleEnd
  /\ {DayLength, DailyCap, PeriodCap} \subseteq Nat \ {0}
  /\ IsFiniteSet(EventTerms)

\* _source_url, which keeps the part of the page and passes over a login.
Address(link) == 10 * link.page + link.part
SourceUrl(item) ==
  LET usable == Where(<<item.original, item.link>>,
                          LAMBDA link : IF link = NoUrl THEN FALSE ELSE ~link.login) IN
  IF usable = << >> THEN NoUrl ELSE Address(Head(usable))

InPeriod(t) == TitleStart < t /\ t <= TitleEnd

\* What _candidates lets pass.
Apt(item, s) ==
  /\ item.at # NoTime /\ SourceUrl(item) # NoUrl
  /\ InPeriod(item.at)
  /\ s \in item.leads
  /\ item.heading \cap UnaptTerms = {}
  /\ item.heading \cap EventTerms # {}

\* The first with each page and each title, of those that passed.
FirstOfEach(items) ==
  LET kept[i \in DOMAIN items] ==
        \A j \in 1 .. i - 1 : kept[j] => /\ SourceUrl(items[j]) # SourceUrl(items[i])
                                         /\ items[j].title # items[i].title IN
  ItemsAt(items, {i \in DOMAIN items : kept[i]})

Score(item) == 4 + 2 * Cardinality(item.heading \cap EventTerms)

\* Newest first, then the better, then by id.
Before(a, b) ==
  LET key(item) == <<-item.at, -Score(item), SourceUrl(item)>> IN
  \E i \in 1 .. 3 : key(a)[i] < key(b)[i] /\ \A j \in 1 .. i - 1 : key(a)[j] = key(b)[j]

TitleDocument(item, s) ==
  [id |-> SourceUrl(item), source |-> "news", primary |-> {s}, mentioned |-> {},
   title |-> item.title, at |-> item.at, url |-> SourceUrl(item), text |-> item.title]

\* _candidates
TitleCandidates(items, s) ==
  LET apt == Where(items, LAMBDA item : Apt(item, s)) IN
  SeqMap(LAMBDA item : TitleDocument(item, s), Sorted(FirstOfEach(apt), Before))

Day(d) == d.at \div DayLength

\* Which of the candidates of its day one is.
Place(candidates, i) ==
  Cardinality({j \in 1 .. i : Day(candidates[j]) = Day(candidates[i])})

\* Of the candidates the newest of each day, the oldest days first.
Capped(candidates) ==
  LET within == ItemsAt(candidates, {i \in DOMAIN candidates : Place(candidates, i) <= DailyCap})
      days == Ordered({Day(candidates[i]) : i \in DOMAIN candidates}, <)
      byDay == Flat(SeqMap(LAMBDA day : Where(within, LAMBDA d : Day(d) = day), days))
  IN SubSeq(byDay, 1, Min({Len(byDay), PeriodCap}))

\* curate_m5_news_items, for a security
CuratedTitles(items, s) == Capped(TitleCandidates(items, s))

-----------------------------------------------------------------------------
(* The file *)

\* _canonical_document
TitleSound(d) ==
  /\ d.source = "news" /\ d.mentioned = {}
  /\ \E s \in ToSet(Securities) : d.primary = {s}
  /\ InPeriod(d.at)

\* build_m5_news_payload: no id twice.  An article kept for two companies has one id.
\* Its documents are sorted, so a set says which they are.
TitlePayload(documents) ==
  IF /\ \A i \in DOMAIN documents : TitleSound(documents[i])
     /\ IsInjective(SeqMap(LAMBDA d : d.id, documents))
    THEN LET kept == ToSet(documents) IN
         [policy |-> <<DailyCap, PeriodCap>>, documents |-> kept, sha256 |-> kept,
          counts |-> [s \in ToSet(Securities) |-> Cardinality({d \in kept : s \in d.primary})]]
    ELSE Invalid

\* load_m5_news_documents: the documents, or nothing if they make another file.
TitleDocuments(payload) ==
  IF payload = TitlePayload(SetToSeq(payload.documents)) THEN payload.documents ELSE Invalid

\* collect_m5_news and main, of what the searches for each security find.
CollectTitles(found) ==
  LET items(s) == Flat([n \in DOMAIN found[s] |->
                    SeqMap(LAMBDA key : Wire[key], Collected(found[s][n], TitleCalls[n]))]) IN
  TitlePayload(Flat(SeqMap(LAMBDA s : CuratedTitles(items(s), s), Securities)))
=============================================================================
