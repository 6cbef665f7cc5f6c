----------------------------- MODULE MCService -----------------------------
(***************************************************************************)
(* A session of two commands, or a server with two request slots.          *)
(***************************************************************************)
EXTENDS Service

Slots == 1..2

\* Two of a kind where they share a cache, otherwise one.
Pairs ==
    {<<"wallet", "wallet">>, <<"check", "none">>, <<"rate", "rate">>,
     <<"history", "none">>}
=============================================================================
