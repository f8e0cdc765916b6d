---------------------------- MODULE ServiceSnapshot ----------------------------
(***************************************************************************)
(* The snapshot the service answers from:                                  *)
(* src/app/services/service_snapshot.py.  Of the curated news, filing and  *)
(* report of each company it makes six files; whoever loads them must find *)
(* that they belong together and that every document may be served.        *)
(*                                                                         *)
(* Different contents have different hashes: a hash is the content.        *)
(***************************************************************************)
EXTENDS DisclosureCuration, ReportIngest

CONSTANTS
  Basis,          \* SERVICE_SNAPSHOT_BASIS_AT
  SectionCount,   \* 12, of a report
  LongTitles,     \* of more than 300 characters
  PathTitles,     \* that read like an absolute path
  SignedPages     \* whose address has a credential-like parameter

ASSUME ServiceAssumption == SectionCount \in Nat \ {0}

Companies == ToSet(Securities)
SourceOrder == <<"news", "disclosure", "research_report">>   \* _SOURCE_ORDER

\* _validate_public_url; a page has no login and no part any more.
PublicUrl(page) == page # NoUrl /\ page \notin SignedPages

-----------------------------------------------------------------------------
(* The documents of a source *)

NewsDocument(s, d, sequence) ==
  [id |-> <<"news", s, d.id>>, source |-> "news", primary |-> {s}, mentioned |-> {},
   at |-> d.at, title |-> d.title, url |-> d.url, text |-> d.summary, band |-> d.band,
   sequence |-> sequence]

\* _build_news_documents
NewsDocuments(s, payload) ==
  LET documents == payload.documents
      in(band) == Len(Where(documents, LAMBDA d : d.band = band)) IN
  IF /\ payload.security = s /\ Len(documents) = MinTotal
     /\ Distinct(documents, LAMBDA d : d.id)
     /\ Distinct(documents, LAMBDA d : d.url)
     /\ Distinct(documents, LAMBDA d : d.at)
     /\ \A i \in DOMAIN documents :
          /\ documents[i].title \notin LongTitles /\ PublicUrl(documents[i].url)
          /\ InWindow(documents[i].at) /\ documents[i].at <= Basis
          /\ documents[i].band = Band(documents[i].at)
     /\ payload.coverage = [total |-> MinTotal, pre |-> in("pre_market"),
                            intra |-> in("intraday"), ready |-> TRUE]
     /\ in("pre_market") >= MinPreMarket /\ in("intraday") >= MinIntraday
    THEN [i \in DOMAIN documents |-> NewsDocument(s, documents[i], i)]
    ELSE Invalid

\* _documents_from_source
DocumentsFrom(type, s, payload) ==
  IF type = "news" THEN NewsDocuments(s, payload)
  ELSE IF type = "research_report" THEN ReportDocuments(s, payload)
  ELSE LET document == DisclosureDocument(s, payload) IN
       IF document = Invalid THEN Invalid ELSE <<document>>

-----------------------------------------------------------------------------
(* What may be served *)

\* _validate_final_news_document
FinalNews(d) ==
  /\ d.sequence \in 1 .. MinTotal /\ d.title \notin LongTitles
  /\ d.band \in {"pre_market", "intraday"} /\ PublicUrl(d.url)

\* _validate_final_disclosure_document: nothing that nobody could tell of
FinalDisclosure(d) ==
  LET s == CHOOSE company \in d.primary : TRUE IN
  /\ d.id = <<Filing[s].receipt>> /\ d.url = Filing[s].receipt
  /\ Len(d.facts) >= MinFacts
  /\ d.notice.correction = FALSE /\ d.notice.superseded = FALSE /\ d.notice.withdrawn = FALSE
  /\ \A i \in DOMAIN d.facts : d.facts[i].page \in 1 .. Filing[s].pages

\* _validate_final_report_document
FinalReport(d) ==
  LET s == CHOOSE company \in d.primary : TRUE IN
  /\ d.id[1] = Report[s].manifest /\ d.page \in 1 .. Report[s].pages
  /\ d.review = "approved" /\ d.corpus /\ ~d.external
  /\ d.hashed = "verified" /\ d.verified = "verified_against_source"
  /\ PublicUrl(d.url)

\* _validate_documents, and what _assert_safe_public_payload refuses besides
Servable(d) ==
  /\ \E s \in Companies : d.primary = {s}
  /\ d.mentioned = {} /\ d.at <= Basis /\ d.title \notin PathTitles
  /\ CASE d.source = "news" -> FinalNews(d)
       [] d.source = "disclosure" -> FinalDisclosure(d)
       [] d.source = "research_report" -> FinalReport(d)

-----------------------------------------------------------------------------
(* The files *)

OfSource(documents, type, s) ==
  Where(documents, LAMBDA d : d.source = type /\ d.primary = {s})

Reports(documents) == Cardinality({documents[i].id[1] : i \in DOMAIN documents})

\* _calculate_coverage: of each company its news, its filing, and one whole report.
ServiceCoverage(documents) ==
  LET news(s, band) ==
        Len(Where(OfSource(documents, "news", s), LAMBDA d : d.band = band))
      filings(s) == OfSource(documents, "disclosure", s)
      sections(s) == OfSource(documents, "research_report", s) IN
  IF \A s \in Companies :
       /\ Len(OfSource(documents, "news", s)) = MinTotal
       /\ news(s, "pre_market") >= MinPreMarket /\ news(s, "intraday") >= MinIntraday
       /\ Len(filings(s)) = 1 /\ Len(Head(filings(s)).facts) >= MinFacts
       /\ Reports(sections(s)) = 1 /\ Len(sections(s)) = SectionCount
    THEN [s \in Companies |->
            [pre |-> news(s, "pre_market"), intra |-> news(s, "intraday"),
             facts |-> Len(Head(filings(s)).facts)]]
    ELSE Invalid

\* _permission_register, which is always the same
PermissionRegister == [news |-> "approved", disclosure |-> "approved", external |-> FALSE]

\* _source_artifacts_from_documents; the hashes of the sources are written down too,
\* and never compared.
Artifacts(documents) ==
  Flat(SeqMap(LAMBDA s :
    SeqMap(LAMBDA type :
             LET of == OfSource(documents, type, s) IN
             [type |-> type, security |-> s, documents |-> Len(of),
              reports |-> IF type = "research_report" THEN Reports(of) ELSE 0],
           SourceOrder), Securities))

\* build_snapshot_checksum, of the bytes of the four files
Checksum(files) ==
  <<files.manifest, files.documents, files.coverage, files.permission>>

\* build_snapshot_validation_report
ValidationReport(documents) == [status |-> "PASS", count |-> Len(documents)]

\* Wrong: does not compare the documents with the manifest's hash.
BelongTogetherUnhashed(files) ==
  LET manifest == files.manifest
      documents == files.documents
      ids == SeqMap(LAMBDA d : d.id, documents) IN
  /\ \A i \in DOMAIN documents : Servable(documents[i])
  /\ Len(documents) = Len(Securities) * (MinTotal + 1 + SectionCount)
  /\ ids = manifest.ids /\ IsInjective(ids)
  /\ ServiceCoverage(documents) # Invalid /\ files.coverage = ServiceCoverage(documents)
  /\ files.permission = PermissionRegister
  /\ Sha256(files.coverage) = manifest.coverage
  /\ Sha256(files.permission) = manifest.permission
  /\ manifest.artifacts = Artifacts(documents)

\* build_service_snapshot: whether the four files belong together, and each document
\* may be served.
BelongTogether(files) ==
  LET manifest == files.manifest
      documents == files.documents
      ids == SeqMap(LAMBDA d : d.id, documents) IN
  /\ Sha256(documents) = manifest.documents
  /\ \A i \in DOMAIN documents : Servable(documents[i])
  /\ Len(documents) = Len(Securities) * (MinTotal + 1 + SectionCount)
  /\ ids = manifest.ids /\ IsInjective(ids)
  /\ ServiceCoverage(documents) # Invalid /\ files.coverage = ServiceCoverage(documents)
  /\ files.permission = PermissionRegister
  /\ Sha256(files.coverage) = manifest.coverage
  /\ Sha256(files.permission) = manifest.permission
  /\ manifest.artifacts = Artifacts(documents)

\* The four files of the documents
Assembled(documents) ==
  [manifest |-> [ids |-> SeqMap(LAMBDA d : d.id, documents), documents |-> Sha256(documents),
                 coverage |-> Sha256(ServiceCoverage(documents)),
                 permission |-> Sha256(PermissionRegister), artifacts |-> Artifacts(documents)],
   documents |-> documents, coverage |-> ServiceCoverage(documents),
   permission |-> PermissionRegister]

\* run_build: the two that vouch for the four
Vouched(files) ==
  IF BelongTogether(files)
    THEN [manifest |-> files.manifest, documents |-> files.documents,
          coverage |-> files.coverage, permission |-> files.permission,
          checksum |-> Checksum(files), validation |-> ValidationReport(files.documents)]
    ELSE Invalid

\* build_service_snapshot_payloads, of the documents of each source; nothing, if one
\* has none.
Gathered(found) ==
  IF \/ \E i \in DOMAIN found : found[i] = Invalid
     \/ ServiceCoverage(Flat(found)) = Invalid THEN Invalid
  ELSE Vouched(Assembled(Flat(found)))

\* The six files, of a payload for each kind of source and company.
BuildService(sources) ==
  LET order == Flat(SeqMap(LAMBDA s : SeqMap(LAMBDA type : <<type, s>>, SourceOrder),
                                 Securities)) IN
  IF DOMAIN sources # ToSet(order) THEN Invalid
  ELSE Gathered(SeqMap(LAMBDA k : DocumentsFrom(k[1], k[2], sources[k]), order))

\* load_service_snapshot, of the six files and of the four that _validate_generated_evidence
\* reads again.
LoadService(files, again) ==
  IF /\ BelongTogether(files)
     /\ files.checksum = Checksum(again)
     /\ files.validation = ValidationReport(files.documents)
    THEN files.documents ELSE Invalid
=============================================================================
