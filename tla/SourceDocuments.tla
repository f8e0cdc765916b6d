--------------------------- MODULE SourceDocuments ---------------------------
(***************************************************************************)
(* From documents to the evidence a plan may use:                          *)
(* src/app/evidence/normalizer.py and src/app/retrieval/filters.py.        *)
(*                                                                         *)
(* A document:  id, source, at (published_at, an instant), primary and     *)
(*   mentioned (securities), words (what its title and text speak of),     *)
(*   facts (of a disclosure's verified body: id and words; else empty),    *)
(*   notice (of a disclosure: is_correction, correction_of,                *)
(*   has_subsequent_correction, is_withdrawn), external (whether it may be *)
(*   sent to a model).                                                     *)
(* Evidence:  id (document and fact), doc, source, at, subjects, mentioned,*)
(*   scope, words, score (NoScore until it is retrieved).                  *)
(* The length of texts and the shape of locators and addresses are left    *)
(* out.                                                                    *)
(***************************************************************************)
EXTENDS QueryPlanning, Sublists

CONSTANTS
  DayLength,  \* instants in a day of Seoul
  BasisAt,    \* basis_at: the instant the request is answered for
  NoDate,     \* published_at is None
  Blank,      \* a fact without an id or without a claim
  Whole,      \* the part of a document that is all of it
  PathWords,  \* words with which a text holds a local path
  NoScore,
  Invalid     \* the stage raised: the request fails

ASSUME BasisAssumption ==
  /\ DayLength \in Nat \ {0} /\ BasisAt \in Int
  /\ Today = BasisAt \div DayLength

Day(t) == t \div DayLength
SetOf(s) == ToSet(s)

-----------------------------------------------------------------------------
(* normalize_financial_documents *)

\* _map_attribution
Scope(d) ==
  CASE Cardinality(d.primary) = 1 -> "company_specific"
    [] Cardinality(d.primary) > 1 -> "multi_company"
    [] OTHER                      -> "industry_common"

Piece(d, part, words) ==
  [id |-> <<d.id, part>>, doc |-> d.id, source |-> d.source, at |-> d.at,
   subjects |-> d.primary, mentioned |-> d.mentioned, scope |-> Scope(d),
   words |-> words, score |-> NoScore]

\* _normalize_disclosure_facts: no fact is blank, and no two have the same id.
FactsValid(d) ==
  /\ \A i \in DOMAIN d.facts : d.facts[i].id # Blank
  /\ \A i, j \in DOMAIN d.facts : d.facts[i].id = d.facts[j].id => i = j

\* A disclosure with verified facts becomes one piece per fact, any other document
\* one piece (_build_evidence).
Pieces(d) ==
  IF d.source # "disclosure" \/ d.facts = << >> THEN <<Piece(d, Whole, d.words)>>
  ELSE [i \in DOMAIN d.facts |-> Piece(d, d.facts[i].id, d.words \cup d.facts[i].words)]

\* _validate_emitted_values: a path anywhere, where the loaders look at how a text begins.
PathFree(d) == \A p \in SetOf(Pieces(d)) : p.words \cap PathWords = {}

\* One bad document fails them all.
Normalize(documents) ==
  IF \A i \in DOMAIN documents : FactsValid(documents[i]) /\ PathFree(documents[i])
    THEN FlattenSeq([i \in DOMAIN documents |-> Pieces(documents[i])])
    ELSE Invalid

-----------------------------------------------------------------------------
(* filter_evidence, for a request [security, sources, range, words]; as_of is  *)
(* always the basis.                                                           *)

\* _evidence_scope_match, with the document the evidence came from
InScope(e, security) ==
  CASE e.scope = "company_specific" -> e.subjects = {security}
    [] e.scope = "multi_company"    -> security \in e.subjects
    [] OTHER                        -> security \in e.mentioned

\* _date_in_range: published by the basis, and on a day of the range, if one is
\* given.
InRange(at, range) ==
  /\ at # NoDate /\ at <= BasisAt
  /\ range # NoRange => Day(at) \in range.from .. range.to

Passes(e, request) ==
  /\ e.source \in SetOf(request.sources)
  /\ InScope(e, request.security)
  /\ InRange(e.at, request.range)

FilterEvidence(evidence, request) == Where(evidence, LAMBDA e : Passes(e, request))
=============================================================================
