---------------------------- MODULE SourceGateways ----------------------------
(***************************************************************************)
(* Where documents come from when the service runs on recorded data:       *)
(* src/app/services/service_snapshot_gateway.py, demo_source_gateway.py,   *)
(* m5_source_gateway.py, source_gateway.py, and the glossary of            *)
(* glossary_service.py, put together as runtime.py does.                   *)
(*                                                                         *)
(* A gateway's result:  documents, in order, and statuses, for each        *)
(*   required source.                                                      *)
(* A glossary entry:  id, terms (its name and aliases), sections (in       *)
(*   order: name and words).                                               *)
(***************************************************************************)
EXTENDS SourceDocuments

CONSTANTS
  NewsDocuments, \* _news_documents of the M5 gateway, a sequence
  Glossary       \* the approved entries

ASSUME EntriesAssumption ==
  \A e, f \in Glossary : e.terms \cap f.terms # {} => e = f

\* documents_by_id
ById(documents) ==
  [id \in {d.id : d \in SetOf(documents)} |->
     documents[SelectInSeq(documents, LAMBDA d : d.id = id)]]

\* create_source_gateway_timeout_result, of a recorded gateway
TimeoutResult(sources) ==
  [documents |-> << >>, statuses |-> [s \in SetOf(sources) |-> "timeout"]]

\* validate_source_gateway_result: documents come from sources that answered, and no
\* two have the same identifier.
Validated(result, sources) ==
  LET docs == result.documents IN
  IF /\ DOMAIN result.statuses = SetOf(sources)
     /\ \A i \in DOMAIN docs :
          docs[i].source \in SetOf(sources) /\ result.statuses[docs[i].source] = "ok"
     /\ \A i, j \in DOMAIN docs : docs[i].id = docs[j].id => i = j
    THEN result ELSE Invalid

\* fetch of the recorded gateways: the documents of the plan's security and sources.
Recorded(corpus, plan) ==
  LET selected == Where(corpus, LAMBDA d :
        plan.security \in d.primary \cup d.mentioned /\ d.source \in SetOf(plan.sources)) IN
  Validated([documents |-> selected,
             statuses |-> [s \in SetOf(plan.sources) |->
               IF \E d \in SetOf(selected) : d.source = s THEN "ok" ELSE "no_data"]],
            plan.sources)

\* M5RecordedSourceGateway.fetch: the further news of the security is added, and the
\* news count as found whatever the base said of them, unless it refused.
Joined(base, plan) ==
  LET known == {d.id : d \in SetOf(base.documents)}
      own == Where(NewsDocuments, LAMBDA d : plan.security \in d.primary)
      more == Where(own, LAMBDA d : d.id \notin known) IN
  IF base = Invalid \/ "news" \notin SetOf(plan.sources) \/ own = << >> THEN base
  ELSE Validated([documents |-> base.documents \o more,
                  statuses |-> [base.statuses EXCEPT !["news"] = "ok"]], plan.sources)

\* The gateway build_runtime puts together.
FetchDocuments(corpus, plan) == Joined(Recorded(corpus, plan), plan)

-----------------------------------------------------------------------------
(* The glossary *)

\* _evidence_for: a piece for each section of the entry.
EntryPieces(entry) ==
  [i \in DOMAIN entry.sections |->
     LET s == entry.sections[i] IN
     [id |-> <<entry.id, s.name>>, doc |-> <<entry.id, s.name>>, source |-> "glossary",
      at |-> NoDate, subjects |-> {}, mentioned |-> {}, scope |-> "industry_common",
      words |-> s.words, score |-> 100]]

\* GlossaryService.lookup: the one entry whose terms the question has; with none, or
\* several, nothing.
LookUp(available, words) ==
  LET matched == {e \in Glossary : e.terms \cap words # {}} IN
  IF ~available THEN [status |-> "parse_error", evidence |-> << >>]
  ELSE IF Cardinality(matched) # 1 THEN [status |-> "no_data", evidence |-> << >>]
  ELSE [status |-> "ok", evidence |-> EntryPieces(CHOOSE e \in matched : TRUE)]
=============================================================================
