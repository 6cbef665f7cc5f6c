------------------------------- MODULE OneShot -------------------------------
(***************************************************************************)
(* What an approval-gated wallet operation promises, whatever it moves:    *)
(* it is planned once, a human approves that plan, the wallet commits to   *)
(* it, sends it to the mint, and the mint performs it - each at most once, *)
(* in this order, and the plan never changes on the way.                   *)
(***************************************************************************)
CONSTANTS Intents, Plans, NoPlan

VARIABLES stage, plan

Stages == {"absent", "prepared", "approved", "committed", "posted", "performed"}

Init ==
    /\ stage = [i \in Intents |-> "absent"]
    /\ plan = [i \in Intents |-> NoPlan]

Advance(i, from, to) ==
    /\ stage[i] = from
    /\ stage' = [stage EXCEPT ![i] = to]

Prepare(i, P) ==
    /\ Advance(i, "absent", "prepared")
    /\ plan' = [plan EXCEPT ![i] = P]

Approve(i) == Advance(i, "prepared", "approved") /\ UNCHANGED plan
Commit(i)  == Advance(i, "approved", "committed") /\ UNCHANGED plan
Post(i)    == Advance(i, "committed", "posted") /\ UNCHANGED plan
Perform(i) == Advance(i, "posted", "performed") /\ UNCHANGED plan

Next == \E i \in Intents :
    \/ \E P \in Plans : Prepare(i, P)
    \/ Approve(i) \/ Commit(i) \/ Post(i) \/ Perform(i)

Spec == Init /\ [][Next]_<<stage, plan>>
=============================================================================
