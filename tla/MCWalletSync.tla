---------------------------- MODULE MCWalletSync ----------------------------
(***************************************************************************)
(* A wallet of two proofs, one of which may have been exported, with one   *)
(* payment and one inspection call at a time.                              *)
(***************************************************************************)
EXTENDS WalletSync, TLC

CONSTANTS I1, p1, p2, c1, a, r

OneChange == I1 :> c1
Plans == {{p1}, {p2}, {p1, p2}}

\* Paying with p1 alone leaves nothing that the mint has to return.
ExactPlans == {<<I1, {p1}>>}
=============================================================================
