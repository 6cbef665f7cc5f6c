----------------------------- MODULE MCSplitMelt -----------------------------
(***************************************************************************)
(* Small wallets for TLC: two funded proofs p1, p2, and one proof per      *)
(* intent, c1 and c2, in which the mint may return change.                 *)
(***************************************************************************)
EXTENDS SplitMelt, TLC

CONSTANTS I1, I2, p1, p2, c1, c2, a, b, c

\* Two intents, each of which wants p1.
TwoChange == (I1 :> c1) @@ (I2 :> c2)
OverlappingPlans == {{p1}, {p1, p2}}

\* The same, and a plan that spends the change of the first payment.
ChangePlans == OverlappingPlans \cup {{p2, c1}}

\* The plan of p1 alone is exact: the mint may leave out its change.
ExactPlans == Intents \X {{p1}}

\* One intent with a plan of two proofs, which exceeds the maximum spend.
OneChange == I1 :> c1
OnePlan == {{p1, p2}}
NoPlan == {}

Symmetric == Permutations(Procs)
=============================================================================
