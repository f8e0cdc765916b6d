---------------------------- MODULE MCSnapshotFiles ----------------------------
(* Two companies, two events each, two processes.  The harvests differ by a newer *)
(* article, by one whose address is signed, and by an event nobody reported; the     *)
(* filings by a claim, and by a correction and a regulator that does not answer; the  *)
(* searches by an article that names both companies.                                 *)
EXTENDS SnapshotFiles

CONSTANTS p1, p2

Page(n, part) == [page |-> n, part |-> part, login |-> FALSE]
Article(title, at, term, names, page) ==
  [title |-> title, at |-> at, heading |-> {term}, words |-> {term}, named |-> names,
   leads |-> names, also |-> {}, original |-> Page(page, 0), link |-> NoUrl]

MCSecurities == <<"a", "b">>
MCWire ==
  [a1 |-> Article("a1", 2, "deal", {"a"}, 11), a2 |-> Article("a2", 6, "strike", {"a"}, 12),
   a3 |-> Article("a3", 7, "launch", {"a"}, 13),
   a4 |-> [Article("a4", 8, "launch", {"a"}, 14) EXCEPT !.link = Page(15, 0), !.original.login = TRUE],
   a5 |-> Article("a5", 9, "launch", {"a"}, 19),
   again |-> [Article("a3 again", 7, "launch", {"a"}, 13) EXCEPT !.original = Page(13, 1)],
   aside |-> [Article("aside", 8, "launch", {}, 16) EXCEPT !.also = {"a"}],
   fund |-> [Article("fund", 9, "deal", {"a"}, 17) EXCEPT !.heading = {"deal", "etf"}],
   late |-> Article("late", 11, "launch", {"a"}, 18),
   b1 |-> Article("b1", 3, "deal", {"b"}, 21), b2 |-> Article("b2", 5, "strike", {"b"}, 22),
   b3 |-> Article("b3", 9, "launch", {"b"}, 23),
   both |-> Article("both", 8, "launch", {"a", "b"}, 31),
   undated |-> Article("undated", NoTime, "deal", {"b"}, 24)]

Events ==
  <<[event |-> "e1", terms |-> {"deal"}, band |-> "pre_market", summary |-> "of a deal"],
    [event |-> "e2", terms |-> {"launch"}, band |-> "intraday", summary |-> "of a launch"]>>
MCRules  == [s \in {"a", "b"} |-> Events]
MCHostOf == [page \in 11 .. 31 |-> page % 2]
MCQueries == [a |-> <<"qa", "qa quality">>, b |-> <<"qb">>]
MCMaxCalls == <<2, 1>>

Plain  == [a |-> <<<<"a1", "a3">>, <<"again">>>>, b |-> <<<<"b1", "b3">>>>]
Newer  == [a |-> <<<<"a4", "a1", "a2", "a3">>, <<"aside", "both">>>>, b |-> <<<<"b3", "b2", "b1">>>>]
Signed == [a |-> <<<<"a1", "a2", "a3">>, <<"a5", "late">>>>, b |-> <<<<"undated", "b1", "b2">>>>]
MCHarvests == [plain |-> Plain, newer |-> Newer, signed |-> Signed]

MCFiling == [a |-> [receipt |-> "ra", corp |-> "ca", pages |-> 2, at |-> 1],
             b |-> [receipt |-> "rb", corp |-> "cb", pages |-> 2, at |-> 2]]
Matrix2(s, claim) ==
  [receipt |-> MCFiling[s].receipt,
   facts |-> <<[id |-> 2, category |-> "profit", claim |-> claim, page |-> 2, section |-> "II",
                conflict |-> FALSE, notes |-> {}],
               [id |-> 1, category |-> "sales", claim |-> "sold", page |-> 1, section |-> "I",
                conflict |-> TRUE, notes |-> {"restated"}]>>]
Listing(s) == <<[receipt |-> MCFiling[s].receipt, corp |-> MCFiling[s].corp,
                 name |-> [kind |-> "quarterly", marker |-> Unknown], remark |-> {}]>>
Badges(s, badges) == [receipt |-> MCFiling[s].receipt, corp |-> MCFiling[s].corp, badges |-> badges]
Inquiry(s, claim, keyed, answer, page) ==
  [keyed |-> keyed, answer |-> answer, page |-> page, matrix |-> Matrix2(s, claim), pages |-> 2]
Clear    == [s \in {"a", "b"} |-> Inquiry(s, "earned", TRUE, Listing(s), Unreachable)]
Reworded == [s \in {"a", "b"} |-> Inquiry(s, "earned more", FALSE, Unreachable, Badges(s, {"listed"}))]
Doubtful ==
  [a |-> Inquiry("a", "earned", FALSE, Unreachable, Badges("a", {"listed", "corrected"})),
   b |-> Inquiry("b", "earned", TRUE, Unreachable, Unreachable)]
MCInquiries == [clear |-> Clear, reworded |-> Reworded, doubtful |-> Doubtful]

Segment(n, override, approved) ==
  [id |-> n, type |-> "text", page |-> n, section |-> "part", confidence |-> "high",
   override |-> override, approved |-> approved]
Extract(s) ==
  [identity |-> s, recommendation |-> "hold",
   segments |-> <<[id |-> 1, type |-> "text", page |-> 1, confidence |-> "high", summary |-> "theirs"]>>]
MCReport ==
  [s \in {"a", "b"} |->
     [manifest |-> s, title |-> "on " \o s, at |-> 1, url |-> 41, asset |-> NoUrl, pdf |-> "pdf",
      extract |-> Extract(s), identity |-> s, recommendation |-> "hold", pages |-> 2,
      segments |-> <<IF s = "a" THEN Segment(1, NoOverride, "theirs") ELSE Segment(1, "ours", "ours")>>]]
MCPapers == [approved |-> [s \in {"a", "b"} |-> [pdf |-> "pdf", extract |-> Extract(s), pages |-> 2]]]

Apart    == [a |-> <<<<"a1", "fund", "a4", "both">>>>, b |-> <<<<"b1", "b2", "b3">>>>]
Together == [a |-> <<<<"both", "late">>>>, b |-> <<<<"b1", "both">>>>]
MCSearches == [apart |-> Apart, together |-> Together]

MCPreviousDay == 1 :> 0 @@ 3 :> 1
MCTradingDays == {1, 3}
MCCheckpointDays == <<1, 2, 3>>
MCCheckpointTimes == <<1000, 2100>>
Bar(day, time, price) ==
  [at |-> day * 10000 + time, price |-> price, open |-> price - 1, high |-> price + 1, low |-> price - 2]
Rises(step) ==
  [k \in {"a", "b"} \X (0 .. 3) \X {1000, 1530, 2100} \X {"J", "UN"} |->
     LET price == 10 + step * k[2] + (IF k[4] = "J" THEN 0 ELSE 1) IN
     <<Bar(k[2], k[3], price + 2), Bar(k[2], k[3] - 1, price), Bar(k[2], k[3] + 5, price + 9)>>]
Gap == [Rises(1) EXCEPT ![<<"b", 3, 1000, "UN">>] = <<Bar(1, 2000, 12)>>]
MCFeeds == [slow |-> Rises(1), fast |-> Rises(3), gap |-> Gap]

LeftBy(harvest, curated, filed) ==
  [harvest |-> harvest, curated |-> curated, filed |-> filed, builtOf |-> "plain",
   builtWith |-> "clear", paper |-> "approved", search |-> "apart", feed |-> "slow"]
MCEarlier == {LeftBy("newer", "plain", "reworded")}

MCTried ==
  [harvest |-> {"signed"}, file |-> {"doubtful"}, report |-> {"approved"},
   titles |-> {"apart", "together"}, market |-> {"fast", "gap"}]

MCTerms == {"deal", "strike", "launch"}
Symmetry == Permutations({p1, p2})
=============================================================================
