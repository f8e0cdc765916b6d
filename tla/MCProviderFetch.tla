--------------------------- MODULE MCProviderFetch ---------------------------
(* Two providers, asked twice, for one of two queries; two attempts each, the  *)
(* second of which the total deadline may cut short.                           *)
EXTENDS ProviderFetch, TLC

CONSTANTS news, disclosure, q1, q2

MCProviders == {news, disclosure}
MCQueries   == {q1, q2}
MCSays      == (news :> {"ok", "own_timeout", "rate_limited"}) @@ (disclosure :> {"broken"})
=============================================================================
