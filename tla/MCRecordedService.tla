--------------------------- MODULE MCRecordedService ---------------------------
(* Two companies, days of two instants, and windows of a few days; the first       *)
(* instant of day 20 is the basis.  One recording has news, a disclosure and its    *)
(* correction, and reports; one has stale news, a disclosure whose correction is    *)
(* not at hand, a withdrawn one and a report that must not be sent; one has         *)
(* disclosures that stand, and news with a link in it; one has news from after the  *)
(* basis, an old disclosure, and no glossary; one has a disclosure with a path in   *)
(* its text.                                                                        *)
EXTENDS RecordedService, TLC

CONSTANTS s1, s2, n1, n2, n3, n4, n5, d1, d2, d3, d4, d5, d6, d7, d8, p1, p2, m1, a1, a2, a3, f1, f2,
          per, E1, E2, whole

MCDirectory ==
  ("security_id" :> (("id1" :> s1) @@ ("id2" :> s2))) @@ ("ticker" :> ("t1" :> s1))
    @@ ("name" :> (("one" :> s1) @@ ("two" :> s2))) @@ ("alias" :> ("uno" :> s1))
MCAmbiguous   == "both" :> {s1, s2}
MCUnsupported == {"foreign"}

MCMaxAge     == ("news" :> 3) @@ ("disclosure" :> 6) @@ ("research_report" :> 6)
MCStaleAfter == ("news" :> 2) @@ ("research_report" :> 6)
MCIdf ==
  <<<<28>>,
    <<69, 18>>,
    <<98, 47, 13>>,
    <<120, 69, 35, 10>>,
    <<138, 87, 53, 28, 8>>,
    <<154, 102, 69, 44, 24, 7>>,
    <<167, 116, 82, 57, 37, 20, 6>>,
    <<179, 128, 94, 69, 49, 32, 18, 5>>,
    <<189, 138, 104, 79, 59, 43, 28, 16, 5>>>>

MCNumbers       == {"5%", "9%"}
MCAdviceWords   == {"buy"}
MCContestWords  == {"winner"}
MCRiskWords     == {"suit"}
MCMildWords     == {"limited"}
MCCaveatWords   == {"caveat"}
MCOverviewWords == {"overview"}
MCTitleMark     == "headline"
MCTemplateWords == {"so"}
MCLinkWords     == {"link"}
MCPathWords     == {"/page", "/home"}
MCPrivateWords  == {"/home"}
MCFactRank      == (f1 :> 1) @@ (f2 :> 0)
MCFocusTerms ==
  [f \in {"general", "recent_events", "positive", "risk", "performance", "business",
          "technology", "outlook", "shareholder_return", "disclosure", "research_view",
          "balanced", "term", "price", "price_move"} |->
     CASE f \in {"term", "price"}         -> {}
       [] f \in {"risk", "research_view"} -> {"suit", "chip"}
       [] f = "disclosure"                -> {"plant", "suit"}
       [] OTHER                           -> {"chip", "plant"}]

Plain == [correction |-> FALSE, target |-> NoTarget, superseded |-> FALSE, withdrawn |-> FALSE]
On(day) == DayLength * day   \* its first instant
Doc(id, source, day, primary, words) ==
  [id |-> id, source |-> source, at |-> On(day), primary |-> primary, mentioned |-> {},
   words |-> words, facts |-> << >>, notice |-> Plain, external |-> FALSE]
News1   == [Doc(n1, "news", 19, {s1}, {"chip", "plant", "5%"}) EXCEPT !.at = BasisAt - 1]
Ahead   == [Doc(n3, "news", 20, {s1}, {"chip", "suit", "plant"}) EXCEPT !.at = BasisAt + 1]
News2   == [Doc(n2, "news", 18, {s1, s2}, {"chip", "suit", "caveat"}) EXCEPT !.mentioned = {s1}]
News3   == [Doc(n3, "news", 19, {}, {"plant", "suit", "headline"}) EXCEPT !.mentioned = {s2}]
News4   == Doc(n4, "news", 17, {s1}, {"chip", "suit"})
Wire    == Doc(m1, "news", 17, {s1}, {"chip", "plant", "buy"})
Brief   == Doc(n5, "news", 19, {s1}, {"suit", "chip", "link"})
Listed  == Doc(d6, "disclosure", 18, {s1}, {"plant", "chip"})
Booked  == Doc(d7, "disclosure", 17, {s1}, {"plant", "suit"})
Scanned == Doc(d8, "disclosure", 18, {s1}, {"plant", "chip", "/page"})
Filed   == [Doc(d1, "disclosure", 16, {s1}, {"plant", "chip"}) EXCEPT
              !.facts = <<[id |-> f1, words |-> {"5%"}], [id |-> f2, words |-> {"suit"}]>>]
Amended == [Doc(d2, "disclosure", 18, {s1}, {"plant", "chip", "suit"}) EXCEPT
              !.notice = [Plain EXCEPT !.correction = TRUE, !.target = d1]]
Doubted == [Doc(d3, "disclosure", 15, {s1}, {"plant", "chip"}) EXCEPT !.notice.superseded = TRUE]
Void    == [Doc(d4, "disclosure", 19, {s1}, {"plant", "chip"}) EXCEPT !.notice.withdrawn = TRUE]
Aged    == Doc(d5, "disclosure", 10, {s1}, {"plant", "chip", "suit"})
Report1 == [Doc(p1, "research_report", 15, {s1}, {"chip", "suit", "5%", "overview"}) EXCEPT
              !.external = TRUE]
Report2 == Doc(p2, "research_report", 16, {s1}, {"chip", "suit", "limited"})

MCCorpora ==
  {[documents |-> <<News1, News2, Filed, Amended, Report1>>, glossary |-> TRUE],
   [documents |-> <<News4, News3, Doubted, Void, Report2>>, glossary |-> TRUE],
   [documents |-> <<Brief, Listed, Booked, Report1>>, glossary |-> TRUE],
   [documents |-> <<Ahead, Aged, Report1, Report2>>, glossary |-> FALSE],
   [documents |-> <<Scanned, Report2>>, glossary |-> FALSE]}
MCNewsDocuments == <<News4, Wire>>
MCGlossary ==
  {[id |-> per, terms |-> {"per", "multiple"},
    sections |-> <<[name |-> "definition", words |-> {"price", "profit"}],
                   [name |-> "caution", words |-> {"profit", "sector"}]>>],
   [id |-> E1, terms |-> {"margin"},
    sections |-> <<[name |-> "definition", words |-> {"profit", "sales"}]>>]}

Article(id, publisher, at) == [id |-> id, publisher |-> publisher, at |-> at, words |-> {"fab", "plant"}]
Claim(words, sources) == [words |-> words, sources |-> sources]
MCClusters ==
  <<[event |-> E1, security |-> s1, terms |-> {"fab"}, label |-> {"fab", "one"},
     articles |-> <<Article(a1, "P", On(18)), Article(a2, "Q", On(19)), Article(a3, "R", BasisAt + 1)>>,
     common |-> <<Claim({"fab", "plant", "5%"}, {a1, a2})>>,
     different |-> <<Claim({"fab", "suit"}, {a1}), Claim({"fab", "chip"}, {a2, a3})>>,
     summary |-> TRUE],
    [event |-> E2, security |-> s2, terms |-> {"strike"}, label |-> {"strike"},
     articles |-> <<Article(a1, "P", On(18)), Article(a2, "Q", On(19))>>,
     common |-> << >>, different |-> << >>, summary |-> FALSE]>>
MCPerspectives ==
  <<[security |-> s1, at |-> On(15), topics |-> {"fab", "chip"}, official |-> FALSE, words |-> {"fab"}]>>
MCBackgrounds ==
  <<[security |-> s1, at |-> On(16), topics |-> {"fab"}, official |-> TRUE, words |-> {"fab"}],
    [security |-> s1, at |-> BasisAt + 1, topics |-> {"fab"}, official |-> TRUE, words |-> {"fab"}]>>
MCGenericTopics == {"chip"}
MCPlainWords    == {"one"}

Span(term) == <<[first |-> 1, last |-> 2, term |-> term]>>
About(term, cues) ==
  [cues |-> cues \cup {"korean"}, spans |-> Span(term), stated |-> << >>, malformed |-> FALSE,
   words |-> {"chip"}, requests |-> {}]
Of(cues) == [About("none", cues) EXCEPT !.spans = << >>]
MCReads ==
  [q \in Questions |->
     CASE q = "issues"    -> About("one", {"recent_issue"})
       [] q = "filings"   -> [About("uno", {"disclosure", "core"}) EXCEPT !.words = {}]
       [] q = "risks"     -> About("one", {"risk"})
       [] q = "named"     -> [About("one", {"multi"}) EXCEPT !.requests = {"news", "disclosure"}]
       [] q = "hopes"     -> About("one", {"multi", "positive"})
       [] q = "other"     -> [About("two", {"shorthand"}) EXCEPT !.words = {"suit"}]
       [] q = "more"      -> [Of({"follow_up"}) EXCEPT !.words = {"suit"}]
       [] q = "dated"     -> [About("one", {"recent_issue"}) EXCEPT !.stated = <<[from |-> 17, to |-> 18]>>]
       [] q = "filed"     -> [About("one", {"disclosure"}) EXCEPT !.stated = <<[from |-> 15, to |-> 16]>>,
                                                                 !.words = {"chip", "link"}]
       [] q = "term"      -> [Of({"term_cue", "term_marker"}) EXCEPT !.words = {"per"}]
       [] q = "datedterm" -> [Of({"term_cue", "term_marker", "today"}) EXCEPT !.words = {"per"}]
       [] q = "advice"    -> [Of({"prohibited"}) EXCEPT !.words = {"/page"}]
       [] q = "compare"   -> [About("one", {"multi", "compare"}) EXCEPT !.words = {"fab"}]
       [] q = "report"    -> [About("one", {"report", "easy"}) EXCEPT !.words = {"fab"}]
       [] q = "move"      -> About("one", {"price_move"})
       [] q = "unclear"   -> [About("both", {"risk"}) EXCEPT !.words = {"link", "/home"}]]
MCQuestions ==
  {"issues", "filings", "risks", "named", "hopes", "other", "more", "dated", "filed", "term",
   "datedterm", "advice", "compare", "report", "move", "unclear"}

Says(section, refs, echoes, adds) ==
  [section |-> section, refs |-> refs, echoes |-> echoes, adds |-> adds]
Sum == Says("summary", <<1>>, {1}, {})
MCDrafts ==
  {<<Sum>>,
   <<Sum, Says("facts", <<1>>, {1}, {"9%"})>>,
   <<Sum, Says("interpretation", <<1, 2>>, {1, 2}, {})>>,
   <<Sum, Says("positive_factors", <<1>>, {1}, {"up"})>>,
   <<Sum, Says("positive_factors", <<1>>, {1}, {"up"}), Says("risk_factors", <<2>>, {2}, {"down"})>>,
   <<Sum, Says("positive_factors", <<1>>, {1}, {"up"}), Says("risk_factors", <<2>>, {2}, {"down"}),
     Says("uncertainty", <<2>>, {2}, {"maybe"})>>,
   <<Sum, Says("positive_factors", <<1>>, {1}, {"up"}), Says("risk_factors", <<2>>, {2}, {"down"}),
     Says("uncertainty", <<1>>, {}, {"rain"})>>,
   <<Sum, Says("positive_factors", <<1>>, {1}, {"up"}), Says("risk_factors", <<2>>, {2}, {"down"}),
     Says("uncertainty", <<3>>, {3}, {"maybe"})>>,
   <<Sum, Says("risk_factors", <<1>>, {1}, {"buy"})>>,
   <<Sum, Says("facts", <<5>>, {1}, {})>>,
   <<Says("summary", <<1>>, {}, {"rain"}), Says("facts", <<1>>, {1}, {"so"})>>}

=============================================================================
