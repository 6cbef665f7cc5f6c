-------------------------- MODULE PaymentPlanProofs --------------------------
(***************************************************************************)
(* The sums of a payment for all amounts, limits and boundaries.           *)
(*                                                                         *)
(* A stored plan always adds up and is covered by the balance until it is  *)
(* executed (Planned), and nothing is recorded before PAID (Recorded).     *)
(* With the types, these make the properties inductive.                    *)
(***************************************************************************)
EXTENDS PaymentPlan, TLAPS

Planned ==
    /\ plan.maxSpend = plan.amount + plan.feeReserve + plan.inputFee
    /\ plan.inputTotal = plan.maxSpend + plan.minimumChange
    /\ stage \in {"NONE", "PREPARED"} => plan.inputTotal <= free

Recorded == stage # "PAID" => stored = 0

Inv ==
    /\ TypeOK /\ Planned /\ Recorded
    /\ SpendIsApproved /\ LimitsHold /\ BalanceAccounts

\* The fields of a typed plan and receipt, as numbers.
LEMMA Fields ==
    ASSUME TypeOK
    PROVE  /\ plan.amount \in Nat /\ plan.feeReserve \in Nat
           /\ plan.inputFee \in Nat /\ plan.maxSpend \in Nat
           /\ plan.inputTotal \in Nat /\ plan.minimumChange \in Nat
           /\ receipt.feePaid \in Nat /\ receipt.totalSpent \in Nat
           /\ receipt.balanceAfter \in Nat
           /\ plan.inputTotal <= MaxBoundaryAmount
  BY LimitsAssumption DEF TypeOK, Supported

LEMMA InitInv == Init => Inv
<1> SUFFICES ASSUME Init PROVE Inv
  OBVIOUS
<1>1. TypeOK
  BY SumsAssumption, LimitsAssumption
     DEF Init, TypeOK, NoPlan, NoReceipt, Supported
<1>2. free \in Nat
  BY SumsAssumption DEF Init
<1>3. Planned /\ Recorded /\ SpendIsApproved /\ BalanceAccounts
  BY <1>2 DEF Init, NoPlan, Planned, Recorded, SpendIsApproved, BalanceAccounts
<1>4. LimitsHold
  BY SumsAssumption, LimitsAssumption DEF Init, NoPlan, LimitsHold
<1> QED
  BY <1>1, <1>3, <1>4 DEF Inv

\* The effective limit is one of the two and exceeds neither.
LEMMA EffectiveIsLeast ==
    ASSUME ownLimit \in Nat \cup {NoLimit}
    PROVE  /\ EffectiveMaxPay \in Nat
           /\ EffectiveMaxPay <= MaxPay
           /\ ownLimit # NoLimit => EffectiveMaxPay <= ownLimit
  BY LimitsAssumption DEF EffectiveMaxPay

LEMMA PrepareInv ==
    ASSUME Inv, NEW amount \in Sums, NEW reserve \in Sums, NEW fee \in Sums,
           NEW total \in Sums, Prepare(amount, reserve, fee, total)
    PROVE  Inv'
<1> DEFINE spend == amount + reserve + fee
           p == [amount |-> amount, feeReserve |-> reserve, inputFee |-> fee,
                 maxSpend |-> spend, inputTotal |-> total,
                 minimumChange |-> total - spend]
<1>1. /\ stage = "NONE" /\ stage' = "PREPARED" /\ total <= free
      /\ plan' = p /\ Payable(p)
      /\ UNCHANGED <<ownLimit, free, funds, stored, receipt>>
  BY DEF Prepare
<1>2. /\ amount \in Nat /\ reserve \in Nat /\ fee \in Nat /\ total \in Nat
      /\ free \in Nat /\ MaxBoundaryAmount \in Nat
  BY SumsAssumption, LimitsAssumption DEF Inv, TypeOK
<1>3. EffectiveMaxPay \in Nat /\ spend <= EffectiveMaxPay /\ spend <= total
      /\ total <= MaxBoundaryAmount
  BY <1>1, <1>2, EffectiveIsLeast DEF Payable, Supported, Inv, TypeOK
<1>4. TypeOK'
  <2>1. p \in [amount : Nat, feeReserve : Nat, inputFee : Nat, maxSpend : Nat,
               inputTotal : Nat, minimumChange : Nat]
    BY <1>2, <1>3
  <2>2. \A field \in DOMAIN p : p[field] \in 0 .. MaxBoundaryAmount
    BY <1>2, <1>3
  <2> QED
    BY <1>1, <2>1, <2>2 DEF Inv, TypeOK, Supported
<1>5. Planned' /\ LimitsHold'
  BY <1>1, <1>2, <1>3, EffectiveIsLeast, LimitsAssumption
     DEF Planned, LimitsHold, Inv, TypeOK
<1>6. Recorded' /\ SpendIsApproved' /\ BalanceAccounts'
  BY <1>1 DEF Recorded, SpendIsApproved, BalanceAccounts, Inv
<1> QED
  BY <1>4, <1>5, <1>6 DEF Inv

\* Steps that move proofs in or out of the balance and record nothing.
LEMMA MovesInv ==
    ASSUME Inv, Execute \/ Release \/ \E n \in Sums : Receive(n)
    PROVE  Inv'
<1> USE Fields
<1>1. CASE Execute
  BY <1>1 DEF Execute, Inv, TypeOK, Planned, Recorded, SpendIsApproved,
              LimitsHold, BalanceAccounts
<1>2. CASE Release
  BY <1>2 DEF Release, Inv, TypeOK, Planned, Recorded, SpendIsApproved,
              LimitsHold, BalanceAccounts
<1>3. ASSUME NEW n \in Sums, Receive(n) PROVE Inv'
  <2>1. n \in Nat
    BY SumsAssumption
  <2> QED
    BY <1>3, <2>1 DEF Receive, Inv, TypeOK, Planned, Recorded,
                      SpendIsApproved, LimitsHold, BalanceAccounts
<1> QED
  BY <1>1, <1>2, <1>3

LEMMA RefuseInv ==
    ASSUME Inv, NEW change \in Sums, Refuse(change)
    PROVE  Inv'
  BY DEF Refuse, Inv, TypeOK, Planned, Recorded, SpendIsApproved, LimitsHold,
         BalanceAccounts

LEMMA SettleInv ==
    ASSUME Inv, NEW change \in Sums, Settle(change)
    PROVE  Inv'
<1>1. /\ stage \in {"EXECUTING", "UNKNOWN", "PAID"} /\ stage' = "PAID"
      /\ Accepts(change) /\ SaveChange(change) /\ Supported(free')
      /\ UNCHANGED <<ownLimit, plan, funds>>
  BY DEF Settle
<1>2. change \in Nat /\ stored \in Nat /\ free \in Nat /\ funds \in Nat
      /\ MaxBoundaryAmount \in Nat
  BY SumsAssumption, LimitsAssumption DEF Inv, TypeOK
<1>3. plan.inputTotal - change \in 0 .. MaxBoundaryAmount
      /\ plan.inputTotal - change - plan.amount \in 0 .. MaxBoundaryAmount
  BY <1>1, <1>2, Fields DEF Accepts, Inv
<1>4. stored' \in Nat /\ free' \in Nat
  BY <1>1, <1>2 DEF SaveChange
<1>5. plan.minimumChange <= change
  BY <1>1, <1>2, Fields DEF Accepts, Planned, Inv
<1>6. CASE stage = "PAID"
  <2>1. receipt' = receipt
    BY <1>6 DEF Settle
  <2>2. TypeOK'
    BY <1>1, <1>4, <2>1 DEF Inv, TypeOK
  <2>3. stored <= stored' /\ free' + stored = free + stored'
    BY <1>1, <1>2 DEF SaveChange
  <2>4. SpendIsApproved'
    BY <1>1, <1>2, <1>4, <1>6, <2>1, <2>3, Fields DEF SpendIsApproved, Inv
  <2>5. BalanceAccounts'
    <3>1. /\ free + plan.inputTotal = funds + stored
          /\ receipt.balanceAfter + receipt.totalSpent = funds
      BY <1>6 DEF BalanceAccounts, Inv
    <3>2. free' + plan.inputTotal = funds + stored'
      BY <1>2, <1>4, <2>3, <3>1, Fields DEF Inv
    <3> QED
      BY <1>1, <2>1, <3>1, <3>2 DEF BalanceAccounts
  <2> QED
    BY <1>1, <2>2, <2>4, <2>5 DEF Planned, Recorded, LimitsHold, Inv
<1>7. CASE stage # "PAID"
  <2>1. receipt' = [feePaid |-> plan.inputTotal - change - plan.amount,
                    totalSpent |-> plan.inputTotal - change,
                    balanceAfter |-> free']
    BY <1>7 DEF Settle
  <2>2. stored' = change /\ free' = free + change
    BY <1>1, <1>2, <1>7 DEF SaveChange, Recorded, Inv
  <2>3. TypeOK'
    <3>1. receipt' \in [feePaid : Nat, totalSpent : Nat, balanceAfter : Nat]
      BY <1>3, <1>4, <2>1
    <3>2. \A field \in DOMAIN receipt' : Supported(receipt'[field])
      BY <1>1, <1>3, <2>1 DEF Supported
    <3> QED
      BY <1>1, <1>4, <3>1, <3>2 DEF Inv, TypeOK
  <2>4. SpendIsApproved'
    BY <1>1, <1>2, <1>5, <2>1, <2>2, Fields
       DEF Accepts, SpendIsApproved, Planned, Inv
  <2>5. BalanceAccounts'
    BY <1>1, <1>2, <1>7, <2>1, <2>2, Fields DEF BalanceAccounts, Inv
  <2> QED
    BY <1>1, <2>3, <2>4, <2>5 DEF Planned, Recorded, LimitsHold, Inv
<1> QED
  BY <1>6, <1>7

LEMMA Induction == Inv /\ [Next]_vars => Inv'
<1> SUFFICES ASSUME Inv, [Next]_vars PROVE Inv'
  OBVIOUS
<1>1. CASE UNCHANGED vars
  BY <1>1 DEF vars, Inv, TypeOK, Planned, Recorded, SpendIsApproved,
              LimitsHold, BalanceAccounts
<1>2. CASE Next
  BY <1>2, PrepareInv, MovesInv, RefuseInv, SettleInv DEF Next
<1> QED
  BY <1>1, <1>2

THEOREM Invariance == Spec => []Inv
  BY InitInv, Induction, PTL DEF Spec

\* Every number that prepare stores and reconcile returns stays within the
\* boundary of the service's Int columns, whatever the mint names.
THEOREM NumbersFit == Spec => []TypeOK
  BY Invariance, PTL DEF Inv

\* A payment never costs more than its approved maximum and returns at least
\* the promised change.
THEOREM SpendWithinApproval == Spec => []SpendIsApproved
  BY Invariance, PTL DEF Inv

\* Every stored plan respects the operator's and the owner's limit.
THEOREM SpendWithinLimits == Spec => []LimitsHold
  BY Invariance, PTL DEF Inv

\* Balance and receipt account for every unit that was received.
THEOREM BalanceIsAccounted == Spec => []BalanceAccounts
  BY Invariance, PTL DEF Inv
=============================================================================
