----------------------------- MODULE MCSplitMint -----------------------------
(***************************************************************************)
(* Small receives for TLC: one intent, or two that do not fit together.    *)
(***************************************************************************)
EXTENDS SplitMint, TLC

CONSTANTS I1, I2, a, b, c

\* The limit has room for either amount, not for both.
Amounts == [i \in Intents |-> IF i = I1 THEN 2 ELSE 3]
Limit == 4

Symmetric == Permutations(Procs)
=============================================================================
