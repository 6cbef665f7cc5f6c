----------------------------- MODULE PaymentPlan -----------------------------
(***************************************************************************)
(* The sums of one payment: what prepare admits and stores, and which      *)
(* receipts reconcile accepts (src/services/splitMeltService.ts).          *)
(*                                                                         *)
(* The mint is not trusted: the quote, the input fee and every answer's    *)
(* change may be any amount, and change may be missing from one answer and *)
(* present in another.  SplitMelt models who may do what when; here one    *)
(* call follows the other and only the numbers matter.  The change of a    *)
(* payment is one proof, of amount 0 when there is none.                   *)
(***************************************************************************)
EXTENDS Naturals

CONSTANTS
    Sums,               \* what the owner, the mint and the payer may name
    MaxPay,             \* the operator's limit for one payment
    MaxBoundaryAmount,  \* the largest amount that leaves the service: 2^31 - 1
    MaxFunds,           \* bound: all that the wallet ever receives
    NoLimit             \* a wallet without a limit of its own

ASSUME SumsAssumption == Sums \subseteq Nat
ASSUME LimitsAssumption == {MaxPay, MaxBoundaryAmount, MaxFunds} \subseteq Nat
ASSUME NoLimitAssumption == NoLimit \notin Nat

VARIABLES
    stage,    \* the operation's state, as far as the sums are concerned
    ownLimit, \* the wallet's maxPay
    plan,     \* the amounts of the stored and approved plan
    free,     \* the balance: unspent proofs that are not reserved
    funds,    \* everything the wallet ever received
    stored,   \* the change proof in the database
    receipt   \* the evidence returned when PAID was first written

vars == <<stage, ownLimit, plan, free, funds, stored, receipt>>

NoPlan == [amount |-> 0, feeReserve |-> 0, inputFee |-> 0, maxSpend |-> 0,
           inputTotal |-> 0, minimumChange |-> 0]
NoReceipt == [feePaid |-> 0, totalSpent |-> 0, balanceAfter |-> 0]

Init ==
    /\ stage = "NONE"
    /\ ownLimit \in Sums \cup {NoLimit}
    /\ plan = NoPlan
    /\ free \in Sums
    /\ funds = free
    /\ stored = 0
    /\ receipt = NoReceipt

\* boundaryNumber does not throw.
Supported(n) == n \in 0 .. MaxBoundaryAmount

\* Broken variant: the wallet's own limit replaces the operator's.
OwnMaxPay == IF ownLimit = NoLimit THEN MaxPay ELSE ownLimit

\* The wallet's own limit can only tighten the operator's.
EffectiveMaxPay ==
    IF ownLimit = NoLimit \/ MaxPay < ownLimit THEN MaxPay ELSE ownLimit

\* Broken variant: the sums are not compared with the boundary.
PayableUnbounded(p) ==
    /\ p.amount > 0
    /\ p.maxSpend <= EffectiveMaxPay
    /\ p.maxSpend <= p.inputTotal

\* prepare's tests of the quote, the limit and the selection.
Payable(p) ==
    /\ p.amount > 0
    /\ p.maxSpend <= EffectiveMaxPay
    /\ p.maxSpend <= p.inputTotal
    /\ Supported(p.inputTotal)

\* A quote, a coin selection and its input fee pass prepare and are stored.
Prepare(amount, reserve, fee, total) ==
    LET spend == amount + reserve + fee
        p == [amount |-> amount, feeReserve |-> reserve, inputFee |-> fee,
              maxSpend |-> spend, inputTotal |-> total,
              minimumChange |-> total - spend]
    IN  /\ stage = "NONE"
        /\ total <= free
        /\ Payable(p)
        /\ plan' = p
        /\ stage' = "PREPARED"
        /\ UNCHANGED <<ownLimit, free, funds, stored, receipt>>

\* execute reserves the selected proofs.
Execute ==
    /\ stage = "PREPARED"
    /\ stage' = "EXECUTING"
    /\ free' = free - plan.inputTotal
    /\ UNCHANGED <<ownLimit, plan, funds, stored, receipt>>

\* reconcile finds the payment unpaid and gives the proofs back.
Release ==
    /\ stage \in {"EXECUTING", "UNKNOWN"}
    /\ stage' = "UNPAID"
    /\ free' = free + plan.inputTotal
    /\ UNCHANGED <<ownLimit, plan, funds, stored, receipt>>

\* A receive of the same wallet completes.
Receive(n) ==
    /\ stage # "PAID"
    /\ funds + n <= MaxFunds
    /\ free' = free + n
    /\ funds' = funds + n
    /\ UNCHANGED <<stage, ownLimit, plan, stored, receipt>>

\* Broken variant: the fee is not compared with what was approved.
AcceptsAnyFee(change) ==
    /\ change <= plan.inputTotal
    /\ plan.amount <= plan.inputTotal - change

\* The receipt's tests: the change, the invoice amount and the fee fit.
Accepts(change) ==
    /\ change <= plan.inputTotal
    /\ plan.amount <= plan.inputTotal - change
    /\ plan.inputTotal - change - plan.amount <= plan.feeReserve + plan.inputFee

\* Broken variant: change is added although it is there already.
SaveAgain(change) ==
    /\ stored' = IF change = 0 THEN stored ELSE change
    /\ free' = free + change

\* saveChangeProofs: stored unless it is there already; other change than the
\* one that is there is a conflict.
SaveChange(change) ==
    /\ change = 0 \/ stored \in {0, change}
    /\ stored' = IF change = 0 THEN stored ELSE change
    /\ free' = IF stored = 0 THEN free + change ELSE free

\* The mint says PAID and all inputs are spent, with the change it likes; a
\* later status call may be given another answer.
Settle(change) ==
    /\ stage \in {"EXECUTING", "UNKNOWN", "PAID"}
    /\ Accepts(change)
    /\ SaveChange(change)
    /\ Supported(free')
    /\ stage' = "PAID"
    /\ receipt' = IF stage = "PAID" THEN receipt
                  ELSE [feePaid |-> plan.inputTotal - change - plan.amount,
                        totalSpent |-> plan.inputTotal - change,
                        balanceAfter |-> free']
    /\ UNCHANGED <<ownLimit, plan, funds>>

\* An answer that is refused: PAID stays, anything else becomes UNKNOWN.
Refuse(change) ==
    /\ stage \in {"EXECUTING", "UNKNOWN"}
    /\ ~Accepts(change) \/ ~Supported(free + change)
    /\ stage' = "UNKNOWN"
    /\ UNCHANGED <<ownLimit, plan, free, funds, stored, receipt>>

Next ==
    \/ \E amount, reserve, fee, total \in Sums :
         Prepare(amount, reserve, fee, total)
    \/ Execute \/ Release
    \/ \E n \in Sums : Receive(n) \/ Settle(n) \/ Refuse(n)

Spec == Init /\ [][Next]_vars

-----------------------------------------------------------------------------
(* Properties                                                              *)

\* Types; and whatever is stored in an Int column or returned is supported.
TypeOK ==
    /\ stage \in {"NONE", "PREPARED", "EXECUTING", "UNKNOWN", "UNPAID",
                "PAID"}
    /\ ownLimit \in Nat \cup {NoLimit}
    /\ plan \in [amount : Nat, feeReserve : Nat, inputFee : Nat,
                 maxSpend : Nat, inputTotal : Nat, minimumChange : Nat]
    /\ receipt \in [feePaid : Nat, totalSpent : Nat, balanceAfter : Nat]
    /\ free \in Nat /\ funds \in Nat /\ stored \in Nat
    /\ \A field \in DOMAIN plan : Supported(plan[field])
    /\ \A field \in DOMAIN receipt : Supported(receipt[field])

\* What the wallet gives away for a payment lies between the invoice amount
\* and the maximum that was approved, whatever the mint answers, and the
\* promised minimum change comes back.
SpendIsApproved ==
    stage = "PAID" =>
        /\ plan.amount <= receipt.totalSpent
        /\ receipt.totalSpent <= plan.maxSpend
        /\ receipt.feePaid <= plan.feeReserve + plan.inputFee
        /\ plan.minimumChange <= stored

\* Neither the operator's nor the owner's limit is exceeded.
LimitsHold ==
    /\ plan.maxSpend <= MaxPay
    /\ ownLimit # NoLimit => plan.maxSpend <= ownLimit

\* The balance is all that was received less what is out or spent: change
\* counts once, however often the operation is reconciled, and the receipt
\* agrees with it.
BalanceAccounts ==
    /\ stage \in {"NONE", "PREPARED", "UNPAID"} => free = funds
    /\ stage \in {"EXECUTING", "UNKNOWN"} => free + plan.inputTotal = funds
    /\ stage = "PAID" => free + plan.inputTotal = funds + stored
    /\ stage = "PAID" => receipt.balanceAfter + receipt.totalSpent = funds
=============================================================================
