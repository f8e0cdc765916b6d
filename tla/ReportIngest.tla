----------------------------- MODULE ReportIngest -----------------------------
(***************************************************************************)
(* The research reports of the recorded service: src/app/ingest/reports.py *)
(* (what a report must be before its sections become evidence),            *)
(* src/app/services/report_snapshot_schema.py and                          *)
(* src/scripts/curate_report_snapshot.py (the approved reports).           *)
(*                                                                         *)
(* A report (ReportInputSpec):  manifest, title, at, url, asset, pdf and   *)
(*   extract (the hashes that were approved), identity, recommendation,    *)
(*   pages, segments: id, type, page, section, confidence, override,       *)
(*   approved (the hash of its approved summary).                          *)
(* An extract:  identity, recommendation, segments: id, type, page,        *)
(*   confidence, summary.                                                  *)
(* Different contents have different hashes: a hash is the content.        *)
(***************************************************************************)
EXTENDS NewsCollection

CONSTANTS
  Report,         \* of a security
  ReportsAsOf,    \* REPORT_SNAPSHOT_AS_OF_DATE
  MinSections,    \* 8
  FreshDays,      \* FRESHNESS_POLICY_DAYS
  NoOverride      \* summary_override is None

ASSUME ReportAssumption ==
  \A s \in ToSet(Securities) : Report[s].segments \in Seq(ToSet(Report[s].segments))

Sha256(content) == content

-----------------------------------------------------------------------------
(* Ingestion: src/app/ingest/reports.py *)

\* _validate_permission_gate: nothing is allowed before the review, and no external
\* processing of what may not be kept.
PermissionGate(m) ==
  /\ m.review \in {"synthetic", "pending", "rejected"} => ~m.corpus /\ ~m.external
  /\ m.external => m.review = "approved" /\ m.corpus

\* validate_report_manifest
ManifestSound(m) ==
  /\ m.url # NoUrl \/ m.asset # NoUrl
  /\ m.review \in {"synthetic", "pending", "approved", "rejected"} /\ PermissionGate(m)
  /\ m.hashed \in {"synthetic", "format_only", "verified"}
  /\ m.documents # << >> /\ IsInjective(m.documents)
  /\ \A i \in DOMAIN m.documents : m.documents[i][1] = m.manifest

\* validate_normalized_report_document: what a section is about, and where it stands
SectionSound(d) ==
  /\ d.id[1] = d.manifest
  /\ d.security \notin d.mentioned
  /\ \/ d.scope = "company_specific" /\ d.mentioned = {}
     \/ d.scope = "company_centered_with_mentions" /\ d.mentioned # {}
  /\ IF d.basis = "source_section_only" THEN d.page = NoUrl
     ELSE d.basis \in {"pdf_1_based", "printed_page"} /\ d.page \in Nat \ {0}
  /\ d.checked => d.numeric

\* validate_report_bundle: the sections in the manifest's order, if they are its own
Bundle(m, sections) ==
  LET of(id) == CHOOSE i \in DOMAIN sections : sections[i].id = id
      ordered == SeqMap(LAMBDA id : sections[of(id)], m.documents)
      ids == SeqMap(LAMBDA d : d.id, sections) IN
  IF /\ sections # << >> /\ IsInjective(ids) /\ ToSet(ids) = ToSet(m.documents)
     /\ \A i \in DOMAIN sections : /\ sections[i].manifest = m.manifest
                                   /\ sections[i].security = m.security
    THEN ordered ELSE Invalid

\* _validate_corpus_build
CorpusAllowed(m, sections, source, assets) ==
  /\ m.review = "approved" /\ m.corpus /\ m.hashed = "verified"
  /\ \A i \in DOMAIN sections : sections[i].verified = "verified_against_source"
  /\ m.url = NoUrl => m.asset \in assets
  /\ Sha256(source) = m.file

\* _build_financial_document
ReportDocument(m, d, today) ==
  [id |-> d.id, source |-> "research_report", primary |-> {m.security},
   mentioned |-> d.mentioned, at |-> m.at, title |-> <<m.title, d.section>>, url |-> m.url,
   text |-> d.text, page |-> d.page, section |-> d.section, review |-> m.review,
   corpus |-> m.corpus, external |-> m.external, hashed |-> m.hashed,
   verified |-> d.verified, stale |-> today - m.at > FreshDays]

\* build_manual_research_documents, of a corpus
ResearchDocuments(m, sections, source, assets, today) ==
  LET ordered == Bundle(m, sections) IN
  IF \/ ordered = Invalid
     \/ m.at > today
     \/ ~CorpusAllowed(m, ordered, source, assets) THEN Invalid
  ELSE SeqMap(LAMBDA d : ReportDocument(m, d, today), ordered)

-----------------------------------------------------------------------------
(* The approved reports *)

\* _validate_build_input
ReportInputSound(s, input) ==
  /\ Sha256(input.pdf) = Report[s].pdf /\ Sha256(input.extract) = Report[s].extract
  /\ input.pages = Report[s].pages
  /\ Report[s].at <= ReportsAsOf

\* _validate_extract: the summaries in the order of the approved segments, each of
\* them, or what stands in for it, the one that was approved.
Summaries(s, extract) ==
  LET segments == Report[s].segments
      given == extract.segments
      of(id) == given[CHOOSE i \in DOMAIN given : given[i].id = id]
      summary(a) == IF a.override # NoOverride THEN a.override ELSE of(a.id).summary
      ids == SeqMap(LAMBDA g : g.id, given) IN
  IF \/ extract.identity # Report[s].identity
     \/ extract.recommendation # Report[s].recommendation
     \/ ~IsInjective(ids) \/ Len(given) # Len(segments)
     \/ ToSet(ids) # ToSet(SeqMap(LAMBDA a : a.id, segments))
     \/ \E a \in ToSet(segments) :
          \/ <<of(a.id).type, of(a.id).page, of(a.id).confidence>> # <<a.type, a.page, a.confidence>>
          \/ a.page > Report[s].pages
          \/ Sha256(summary(a)) # a.approved THEN Invalid
  ELSE SeqMap(summary, segments)

DocumentIds(s) == SeqMap(LAMBDA a : <<Report[s].manifest, a.id>>, Report[s].segments)

\* The manifest and the sections build_report_snapshot_payload writes down.
ApprovedManifest(s) ==
  [manifest |-> Report[s].manifest, security |-> s, title |-> Report[s].title,
   at |-> Report[s].at, url |-> Report[s].url, asset |-> Report[s].asset,
   review |-> "approved", corpus |-> TRUE, external |-> FALSE,
   file |-> Report[s].pdf, hashed |-> "verified", documents |-> DocumentIds(s)]

Sections(s, summaries) ==
  [i \in DOMAIN summaries |->
     LET a == Report[s].segments[i] IN
     [manifest |-> Report[s].manifest, id |-> <<Report[s].manifest, a.id>>, security |-> s,
      mentioned |-> {}, scope |-> "company_specific", page |-> a.page,
      basis |-> "pdf_1_based", section |-> a.section, text |-> summaries[i],
      verified |-> "verified_against_source", numeric |-> TRUE, checked |-> TRUE]]

ReportCoverage(s) ==
  LET count == Len(Report[s].segments) IN
  [count |-> count, pages |-> {Report[s].segments[i].page : i \in 1 .. count},
   ready |-> count >= MinSections]

\* build_report_snapshot_payload: it may be written without being ready.
BuildReport(s, input) ==
  LET summaries == Summaries(s, input.extract)
      m == ApprovedManifest(s)
      sections == Sections(s, summaries)
      documents == ResearchDocuments(m, sections, input.pdf, {}, ReportsAsOf) IN
  IF ~ReportInputSound(s, input) THEN Invalid
  ELSE IF summaries = Invalid THEN Invalid
  ELSE IF ~ManifestSound(m) \/ \E i \in DOMAIN sections : ~SectionSound(sections[i]) THEN Invalid
  ELSE IF documents = Invalid THEN Invalid
  ELSE [security |-> s, pdf |-> Report[s].pdf, extract |-> Report[s].extract,
        pages |-> input.pages, coverage |-> ReportCoverage(s), documents |-> documents]

\* _validate_output_documents
ReportDocumentSound(s, d, a) ==
  /\ d.id = <<Report[s].manifest, a.id>>
  /\ d.primary = {s} /\ d.mentioned = {} /\ d.url = Report[s].url
  /\ d.page = a.page /\ d.section = a.section
  /\ d.review = "approved" /\ d.corpus /\ ~d.external
  /\ d.hashed = "verified" /\ d.verified = "verified_against_source"
  /\ Sha256(d.text) = a.approved

\* validate_report_snapshot_payload: the documents, or nothing
ReportDocuments(s, payload) ==
  LET segments == Report[s].segments IN
  IF /\ payload.security = s
     /\ <<payload.pdf, payload.extract, payload.pages>> =
          <<Report[s].pdf, Report[s].extract, Report[s].pages>>
     /\ Len(payload.documents) = Len(segments)
     /\ \A i \in DOMAIN segments : ReportDocumentSound(s, payload.documents[i], segments[i])
     /\ payload.coverage = ReportCoverage(s)
    THEN payload.documents ELSE Invalid

\* What run_curation writes for a security.
CurateReport(s, input) ==
  LET payload == BuildReport(s, input) IN
  IF payload = Invalid THEN Invalid
  ELSE IF ReportDocuments(s, payload) = Invalid THEN Invalid ELSE payload
=============================================================================
