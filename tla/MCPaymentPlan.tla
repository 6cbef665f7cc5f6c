---------------------------- MODULE MCPaymentPlan ----------------------------
(***************************************************************************)
(* Small sums for TLC, around a limit of 4 and a boundary of 5: named, they *)
(* may exceed both.                                                        *)
(***************************************************************************)
EXTENDS PaymentPlan

Cents == 0 .. 6
=============================================================================
