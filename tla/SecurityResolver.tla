-------------------------- MODULE SecurityResolver --------------------------
(***************************************************************************)
(* The directory of supported securities and its lookup:                   *)
(* src/app/core/resolver.py.  A term is a normalized piece of text.        *)
(***************************************************************************)
EXTENDS Integers, Sequences, SequencesExt, FiniteSets

CONSTANTS
  Directory,   \* the indexes: for each kind of name, a function from terms to securities
  Ambiguous,   \* _ambiguous_terms: a function from terms to sets of securities
  Unsupported, \* _unsupported_terms, and terms shaped like a foreign ticker
  NoSecurity

Kinds == <<"security_id", "ticker", "name", "alias">>
Securities == {Directory["security_id"][t] : t \in DOMAIN Directory["security_id"]}
Owned == UNION {DOMAIN Directory[k] : k \in DOMAIN Directory}

\* What _load_fixture insists on: no term leads to two securities, and a term
\* out of support is neither a security's nor ambiguous.  (The foreign-ticker
\* shape is tried last, so a term of that shape may still be an alias.)
ASSUME DirectoryAssumption ==
  /\ DOMAIN Directory = ToSet(Kinds)
  /\ Securities # {} /\ NoSecurity \notin Securities
  /\ \A k, l \in DOMAIN Directory : \A t \in DOMAIN Directory[k] \cap DOMAIN Directory[l] :
       Directory[k][t] = Directory[l][t]
  /\ \A k \in DOMAIN Directory : \A t \in DOMAIN Directory[k] : Directory[k][t] \in Securities
  /\ \A t \in DOMAIN Ambiguous : Ambiguous[t] # {} /\ Ambiguous[t] \subseteq Securities
  /\ Unsupported \cap DOMAIN Ambiguous = {}

Resolved(s) == [status |-> "resolved", security |-> s]
Unresolved(status) == [status |-> status, security |-> NoSecurity]

\* resolve: the indexes in order, then the ambiguous and the unsupported terms.
Resolve(t) ==
  LET hits == {i \in DOMAIN Kinds : t \in DOMAIN Directory[Kinds[i]]} IN
  IF hits # {} THEN Resolved(Directory[Kinds[Min(hits)]][t])
  ELSE IF t \in DOMAIN Ambiguous THEN Unresolved("ambiguous")
  ELSE IF t \in Unsupported THEN Unresolved("unsupported")
  ELSE Unresolved("not_found")
=============================================================================
