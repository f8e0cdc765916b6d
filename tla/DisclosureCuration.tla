-------------------------- MODULE DisclosureCuration --------------------------
(***************************************************************************)
(* The filing of each company in the recorded service:                     *)
(* src/app/services/disclosure_snapshot_schema.py and                      *)
(* src/scripts/curate_disclosure_snapshot.py.  Somebody has written down   *)
(* what the filing says, with the pages; the script checks that, asks the  *)
(* regulator whether the filing was corrected or withdrawn since, and      *)
(* writes the document.                                                    *)
(*                                                                         *)
(* A filing (DisclosureInputSpec):  receipt, corp, pages, at.              *)
(* A matrix:  receipt (that its identity names), facts: id, category,      *)
(*   claim, page (the higher of its two), section, conflict (whether the   *)
(*   fact is said to conflict with another), notes.                        *)
(* What the regulator says of a filing:  name (kind and marker of the      *)
(*   report's name) and remark, a set of "listed", "corrected",            *)
(*   "withdrawn".                                                          *)
(***************************************************************************)
EXTENDS NewsCollection

CONSTANTS
  Filing,             \* of a security
  MinFacts,           \* 10
  RequiredCategories, OtherCategories,
  CorrectionMarkers,  \* _CORRECTION_MARKERS
  Unreachable,        \* the regulator did not answer, or not as it should
  Unknown             \* None: nobody could tell

ASSUME UnknownAssumption == Unknown \notin BOOLEAN

-----------------------------------------------------------------------------
(* What became of the filing *)

Correction(status, remark, name) == [status |-> status, remark |-> remark, name |-> name]
Pending == Correction("pending", Unknown, Unknown)

\* verify_opendart_correction_state: of the filings listed for that day, exactly one
\* is this one, and it is a quarterly report.
VerifyByApi(s, answer) ==
  LET same == IF answer = Unreachable THEN << >>
              ELSE SelectSeq(answer, LAMBDA listed : /\ listed.receipt = Filing[s].receipt
                                                     /\ listed.corp = Filing[s].corp) IN
  IF Len(same) # 1 \/ Head(same).name.kind # "quarterly" THEN Pending
  ELSE Correction("verified_official_api", Head(same).remark, Head(same).name)

\* verify_dart_viewer_correction_state, whose page does not give the report's name:
\* the badges always include that of a listed company.
VerifyByViewer(s, page) ==
  IF /\ page # Unreachable
     /\ page.receipt = Filing[s].receipt /\ page.corp = Filing[s].corp
     /\ "listed" \in page.badges /\ page.badges \subseteq {"listed", "corrected", "withdrawn"}
    THEN Correction("verified_official_viewer", page.badges, [kind |-> "quarterly", marker |-> Unknown])
    ELSE Pending

\* As run_curation asks: the interface, if there is a key, then the viewer.
Verified(s, keyed, answer, page) ==
  LET first == IF keyed THEN VerifyByApi(s, answer) ELSE Pending IN
  IF first.status = "pending" THEN VerifyByViewer(s, page) ELSE first

\* _correction_payload, with parse_report_markers
Notice(c) ==
  IF c.status = "pending"
    THEN [status |-> "pending", remark |-> Unknown, correction |-> Unknown,
          superseded |-> Unknown, withdrawn |-> Unknown]
    ELSE [status |-> c.status, remark |-> c.remark,
          correction |-> c.name.marker \in CorrectionMarkers,
          superseded |-> "corrected" \in c.remark, withdrawn |-> "withdrawn" \in c.remark]

-----------------------------------------------------------------------------
(* The document *)

Categories(facts) == {facts[i].category : i \in DOMAIN facts}

\* _validate_facts, and _validate_public_facts after it
FactsSound(s, facts) ==
  /\ \A i \in DOMAIN facts :
       /\ facts[i].category \in RequiredCategories \cup OtherCategories
       /\ facts[i].page \in 1 .. Filing[s].pages
       /\ facts[i].conflict => facts[i].notes # {}
  /\ IsInjective(SeqMap(LAMBDA f : f.id, facts))

FactsCover(facts) ==
  Len(facts) >= MinFacts /\ RequiredCategories \subseteq Categories(facts)

\* _build_document
FilingDocument(s, facts, notice) ==
  [id |-> <<Filing[s].receipt>>, source |-> "disclosure", primary |-> {s}, mentioned |-> {},
   at |-> Filing[s].at, title |-> Filing[s].receipt, url |-> Filing[s].receipt,
   text |-> SeqMap(LAMBDA f : f.claim, facts), facts |-> facts, notice |-> notice]

\* build_disclosure_snapshot_payload, of a copy of the filing with that many pages
BuildDisclosure(s, matrix, pages, c) ==
  LET facts == SortSeq(matrix.facts, LAMBDA f, g : f.id < g.id) IN
  IF /\ pages = Filing[s].pages
     /\ matrix.receipt = Filing[s].receipt
     /\ FactsSound(s, facts) /\ FactsCover(facts)
    THEN [security |-> s, pages |-> pages, correction |-> Notice(c),
          coverage |-> [count |-> Len(facts), categories |-> Categories(facts)],
          document |-> FilingDocument(s, facts, Notice(c))]
    ELSE Invalid

\* _valid_output_correction: nobody could tell, or the filing corrects no other and
\* its marks are those of the remark.
NoticeSound(n) ==
  IF n.status = "pending" THEN n = Notice(Pending)
  ELSE /\ n.status \in {"verified_official_api", "verified_official_viewer"}
       /\ n.correction = FALSE
       /\ n.superseded = ("corrected" \in n.remark) /\ n.withdrawn = ("withdrawn" \in n.remark)

\* validate_disclosure_snapshot_payload: the document, or nothing
DisclosureDocument(s, payload) ==
  LET document == payload.document
      facts == document.facts IN
  IF /\ payload.security = s /\ payload.pages = Filing[s].pages
     /\ NoticeSound(payload.correction)
     /\ document = FilingDocument(s, facts, payload.correction)
     /\ FactsSound(s, facts)
     /\ payload.coverage = [count |-> Len(facts), categories |-> Categories(facts)]
     /\ FactsCover(facts)
    THEN document ELSE Invalid

\* What run_curation writes for a company, given what it is given and hears.
CurateDisclosure(s, input) ==
  LET c == Verified(s, input.keyed, input.answer, input.page)
      payload == BuildDisclosure(s, input.matrix, input.pages, c) IN
  IF payload = Invalid THEN Invalid
  ELSE IF DisclosureDocument(s, payload) = Invalid THEN Invalid ELSE payload
=============================================================================
