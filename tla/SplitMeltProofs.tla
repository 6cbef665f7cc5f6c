--------------------------- MODULE SplitMeltProofs ---------------------------
(***************************************************************************)
(* What holds of the payment for any number of processes, intents and      *)
(* proofs, under either isolation level, with or without late delivery.    *)
(*                                                                         *)
(* Type correctness comes first, one lemma per group of actions.  Each     *)
(* property then has a strengthening of its own: who may still post for    *)
(* the one-shot execution, whose proofs a row may hold for reservations,   *)
(* and what a call has learnt from the mint for PAID.  The refinement      *)
(* takes one step of OneShot from each action that advances a stage.       *)
(***************************************************************************)
EXTENDS SplitMelt, TLAPS

-----------------------------------------------------------------------------
(* Type correctness, in two halves: the shared tables and the processes.   *)

Tables ==
    /\ opState \in [Intents -> OpStates]
    /\ execCount \in [Intents -> Nat]
    /\ plan \in [Intents -> Selections \cup {{}}]
    /\ pstat \in [Proofs -> {"ABSENT", "UNSPENT", "PENDING", "SPENT"}]
    /\ resv \in [Proofs -> Intents \cup {None}]
    /\ approved \subseteq Intents /\ expired \subseteq Intents
    /\ quote \in [Intents -> {"UNPAID", "PENDING", "PAID"}]
    /\ mstat \in [Proofs -> Remote \cup {"NONE"}]
    /\ wire \subseteq Intents
    /\ posts \in [Intents -> Nat]
    /\ \A i \in Intents : opState[i] = "NONE" <=> plan[i] = {}

Calls ==
    /\ pc \in [Procs -> Labels]
    /\ ctx \in [Procs -> Contexts]
    /\ \A w \in Procs : IF pc[w] = "idle" THEN ctx[w] = Blank
                                           ELSE Job(w) \in Intents
    /\ \A w \in Procs : pc[w] = "create" => ctx[w].held \in Selections

LEMMA BlankTyped == Blank \in Contexts
  BY DEF Blank, Contexts

LEMMA FreshTyped ==
    ASSUME NEW i \in Intents, NEW P \in SUBSET Proofs
    PROVE  /\ Fresh(i, P) \in Contexts
           /\ Fresh(i, P).intent = i /\ Fresh(i, P).held = P
           /\ Fresh(i, P).quote = "NONE" /\ Fresh(i, P).direct = FALSE
           /\ Fresh(i, P).change = {}
  BY DEF Fresh, Blank, Contexts

\* Every step of a call sets the label and the memory of one process.
LEMMA CallStep ==
    ASSUME Calls, NEW w \in Procs, NEW l \in Labels, NEW r \in Contexts,
           l = "idle" => r = Blank,
           l # "idle" => r.intent \in Intents,
           l = "create" => r.held \in Selections,
           pc' = [pc EXCEPT ![w] = l],
           ctx' = [ctx EXCEPT ![w] = r]
    PROVE  Calls'
  BY DEF Calls, Job

LEMMA GotoStep ==
    ASSUME Calls, NEW w \in Procs, pc[w] # "idle",
           NEW l \in Labels \ {"idle", "create"}, Goto(w, l)
    PROVE  Calls'
  BY DEF Calls, Job, Goto

LEMMA DoneStep ==
    ASSUME Calls, NEW w \in Procs, Done(w)
    PROVE  Calls'
<1>1. "idle" \in Labels /\ Blank \in Contexts
  BY BlankTyped DEF Labels
<1> QED
  BY <1>1, CallStep DEF Done

LEMMA BeginStep ==
    ASSUME Calls, NEW w \in Procs, NEW i \in Intents,
           NEW l \in Labels \ {"idle", "create"}, Begin(w, i, l)
    PROVE  Calls'
<1> DEFINE r == Fresh(i, {})
<1>1. r \in Contexts /\ r.intent = i
  BY FreshTyped
<1>2. pc' = [pc EXCEPT ![w] = l] /\ ctx' = [ctx EXCEPT ![w] = r]
  BY DEF Begin
<1> HIDE DEF r
<1> QED
  BY <1>1, <1>2, CallStep

LEMMA ThrowStep ==
    ASSUME Calls, NEW w \in Procs, pc[w] # "idle", Throw(w)
    PROVE  Calls'
<1>1. CASE ~ctx[w].direct
  BY <1>1, DoneStep DEF Throw
<1>2. CASE ctx[w].direct
  <2> DEFINE r == Fresh(Job(w), {})
  <2>1. Job(w) \in Intents /\ "quote" \in Labels
    BY DEF Calls, Labels
  <2>2. r \in Contexts /\ r.intent = Job(w)
    BY <2>1, FreshTyped
  <2>3. pc' = [pc EXCEPT ![w] = "quote"] /\ ctx' = [ctx EXCEPT ![w] = r]
    BY <1>2 DEF Throw
  <2> HIDE DEF r
  <2> QED
    BY <2>1, <2>2, <2>3, CallStep
<1> QED
  BY <1>1, <1>2

\* A call that learns a quote state or counts proofs keeps its intent.
LEMMA LearnStep ==
    ASSUME Calls, NEW w \in Procs, pc[w] # "idle",
           NEW l \in Labels \ {"idle", "create"}, NEW r \in Contexts,
           r.intent = ctx[w].intent,
           pc' = [pc EXCEPT ![w] = l],
           ctx' = [ctx EXCEPT ![w] = r]
    PROVE  Calls'
<1>1. r.intent \in Intents
  BY DEF Calls, Job
<1> QED
  BY <1>1, CallStep

\* The mint's answer has a state of the quote and change that exists.
LEMMA ToldStep ==
    ASSUME Calls, Tables, NEW w \in Procs, pc[w] # "idle", NEW d \in BOOLEAN,
           Told(w, d)
    PROVE  Calls'
<1>1. PICK change \in SUBSET Issued(Job(w)) :
        ctx' = [ctx EXCEPT ![w].quote = quote[Job(w)], ![w].change = change,
                           ![w].direct = d]
  BY DEF Told
<1> DEFINE r == [ctx[w] EXCEPT !.quote = quote[Job(w)], !.change = change,
                               !.direct = d]
<1>2. ctx[w] \in Contexts /\ Job(w) \in Intents
  BY DEF Calls
<1>3. change \subseteq Proofs
  BY <1>1, <1>2, ChangeAssumption DEF Issued
<1>4. r \in Contexts /\ r.intent = ctx[w].intent
  BY <1>2, <1>3 DEF Contexts, Tables
<1>5. ctx' = [ctx EXCEPT ![w] = r]
  BY <1>1
<1>6. pc' = [pc EXCEPT ![w] = "proofs"] /\ "proofs" \in Labels \ {"idle", "create"}
  BY DEF Told, Labels
<1> HIDE DEF r
<1> QED
  BY <1>4, <1>5, <1>6, LearnStep

LEMMA VerdictTyped ==
    ASSUME NEW q, NEW states
    PROVE  Verdict(q, states) \in {"settle", "release", "pend", "unknown"}
  BY DEF Verdict

LEMMA CallsStep == Calls /\ Tables /\ [Next]_vars => Calls'
<1> SUFFICES ASSUME Calls, Tables, [Next]_vars PROVE Calls'
  OBVIOUS
<1> USE DEF Labels
<1>1. ASSUME NEW w \in Procs, PrepareCreate(w) PROVE Calls'
  BY <1>1, DoneStep DEF PrepareCreate
<1>2. ASSUME NEW w \in Procs, Crash(w) PROVE Calls'
  BY <1>2, DoneStep DEF Crash
<1>3. ASSUME NEW w \in Procs, ReserveRefused(w) PROVE Calls'
  BY <1>3, DoneStep DEF ReserveRefused
<1>4. ASSUME NEW w \in Procs, Settle(w) PROVE Calls'
  BY <1>4, DoneStep DEF Settle
<1>5. ASSUME NEW w \in Procs, Release(w) PROVE Calls'
  BY <1>5, DoneStep DEF Release
<1>6. ASSUME NEW w \in Procs, MarkPending(w) PROVE Calls'
  BY <1>6, DoneStep DEF MarkPending
<1>7. ASSUME NEW w \in Procs, SetUnknown(w) PROVE Calls'
  BY <1>7, DoneStep DEF SetUnknown
<1>8. ASSUME NEW w \in Procs, ExpireRefused(w) PROVE Calls'
  BY <1>8, DoneStep DEF ExpireRefused
<1>9. ASSUME NEW w \in Procs, Reserve(w) PROVE Calls'
  BY <1>9, GotoStep DEF Reserve
<1>10. ASSUME NEW w \in Procs, SendMelt(w) PROVE Calls'
  BY <1>10, GotoStep DEF SendMelt
<1>11. ASSUME NEW w \in Procs, SendFail(w) PROVE Calls'
  BY <1>11, GotoStep DEF SendFail
<1>12. ASSUME NEW w \in Procs, AwaitFail(w) PROVE Calls'
  BY <1>12, GotoStep DEF AwaitFail
<1>13. ASSUME NEW w \in Procs, MintUnreachable(w) PROVE Calls'
  BY <1>13, GotoStep DEF MintUnreachable
<1>14. ASSUME NEW w \in Procs, SettleRefused(w) PROVE Calls'
  BY <1>14, GotoStep DEF SettleRefused
<1>15. ASSUME NEW w \in Procs, ExpireRead(w) PROVE Calls'
  BY <1>15, GotoStep DEF ExpireRead
<1>16. ASSUME NEW w \in Procs, ReleaseRefused(w) PROVE Calls'
  BY <1>16, ThrowStep DEF ReleaseRefused
<1>17. ASSUME NEW w \in Procs, ExpireAtomic(w) PROVE Calls'
  BY <1>17, DoneStep, GotoStep DEF ExpireAtomic, ExpireWith
<1>18. ASSUME NEW w \in Procs, ExpireWrite(w) PROVE Calls'
  BY <1>18, DoneStep, GotoStep DEF ExpireWrite, ExpireWith
<1>19. ASSUME NEW w \in Procs, MeltReply(w) PROVE Calls'
  BY <1>19, ToldStep DEF MeltReply, Labels
<1>20. ASSUME NEW w \in Procs, CheckQuote(w) PROVE Calls'
  BY <1>20, ToldStep DEF CheckQuote, Labels
<1>21. ASSUME NEW w \in Procs, CheckQuoteBad(w) PROVE Calls'
  <2> DEFINE r == [ctx[w] EXCEPT !.quote = "BAD"]
  <2>1. ctx[w] \in Contexts /\ pc[w] # "idle" /\ Job(w) \in Intents
    BY <1>21 DEF Calls, CheckQuoteBad
  <2>2. r \in Contexts /\ r.intent = ctx[w].intent
    BY <2>1, SelectionsAssumption DEF Contexts, Tables, Mine
  <2>3. ctx' = [ctx EXCEPT ![w] = r]
    BY <1>21 DEF CheckQuoteBad
  <2> QED
    BY <1>21, <2>1, <2>2, <2>3, LearnStep DEF CheckQuoteBad
<1>22. ASSUME NEW w \in Procs, CheckProofs(w) PROVE Calls'
  <2> DEFINE r == [ctx[w] EXCEPT !.quote = "NONE"]
  <2>1. ctx[w] \in Contexts /\ pc[w] # "idle" /\ Job(w) \in Intents
    BY <1>22 DEF Calls, CheckProofs
  <2>2. r \in Contexts /\ r.intent = ctx[w].intent
    BY <2>1, SelectionsAssumption DEF Contexts, Tables, Mine
  <2>3. ctx' = [ctx EXCEPT ![w] = r]
    BY <1>22 DEF CheckProofs
  <2> QED
    BY <1>22, <2>1, <2>2, <2>3, LearnStep, VerdictTyped DEF CheckProofs
<1>23. ASSUME NEW w \in Procs, ExpireCount(w) PROVE Calls'
  <2> DEFINE r == [ctx[w] EXCEPT !.held = Mine(Job(w))]
  <2>1. ctx[w] \in Contexts /\ pc[w] # "idle" /\ Job(w) \in Intents
    BY <1>23 DEF Calls, ExpireCount
  <2>2. r \in Contexts /\ r.intent = ctx[w].intent
    BY <2>1, SelectionsAssumption DEF Contexts, Tables, Mine
  <2>3. ctx' = [ctx EXCEPT ![w] = r]
    BY <1>23 DEF ExpireCount
  <2> QED
    BY <1>23, <2>1, <2>2, <2>3, LearnStep DEF ExpireCount
<1>24. ASSUME NEW w \in Procs, NEW i \in Intents, ExecuteStart(w, i) PROVE Calls'
  BY <1>24, BeginStep DEF ExecuteStart
<1>25. ASSUME NEW w \in Procs, NEW i \in Intents, StatusStart(w, i) PROVE Calls'
  BY <1>25, BeginStep DEF StatusStart
<1>26. ASSUME NEW w \in Procs, NEW i \in Intents, NEW S \in Selections, PrepareSelect(w, i, S) PROVE Calls'
  <2> DEFINE r == Fresh(i, S)
  <2>1. S \in SUBSET Proofs /\ "create" \in Labels
    BY SelectionsAssumption
  <2>2. r \in Contexts /\ r.intent = i /\ r.held = S
    BY <2>1, FreshTyped
  <2>3. pc' = [pc EXCEPT ![w] = "create"] /\ ctx' = [ctx EXCEPT ![w] = r]
    BY <1>26 DEF PrepareSelect
  <2> HIDE DEF r
  <2> QED
    BY <2>1, <2>2, <2>3, CallStep
<1>27. ASSUME TRUE, UNCHANGED procVars PROVE Calls'
  BY <1>27 DEF procVars, Calls, Job
<1> QED
  BY <1>1, <1>2, <1>3, <1>4, <1>5, <1>6, <1>7, <1>8, <1>9, <1>10, <1>11, <1>12, <1>13, <1>14, <1>15, <1>16, <1>17, <1>18, <1>19, <1>20, <1>21, <1>22, <1>23, <1>24, <1>25, <1>26, <1>27
  DEF Next, Process, Call, Execute, Reconcile, ExpirePrepared, Mint, vars,
      Approve, Expire, MintAccept, MintRefuse, MintSettle, MintFail

\* A call past its first step works on a row that exists.
Attached ==
    \A w \in Procs : pc[w] \notin {"idle", "create"} => opState[Job(w)] # "NONE"

\* Rows are never deleted, so only the process that moves has to be looked at.
LEMMA AttachedRest ==
    ASSUME Calls, Attached, NEW w \in Procs, NEW l, NEW r,
           pc' = [pc EXCEPT ![w] = l],
           ctx' = [ctx EXCEPT ![w] = r],
           \A i \in Intents : opState[i] # "NONE" => opState'[i] # "NONE",
           l \notin {"idle", "create"} => opState'[r.intent] # "NONE"
    PROVE  Attached'
  BY DEF Calls, Attached, Job

LEMMA AttachedStep == Calls /\ Tables /\ Attached /\ [Next]_vars => Attached'
<1> SUFFICES ASSUME Calls, Tables, Attached, [Next]_vars PROVE Attached'
  OBVIOUS
<1> USE DEF shared, opVars
<1>1. ASSUME NEW w \in Procs, PrepareCreate(w) PROVE Attached'
  BY <1>1, AttachedRest DEF PrepareCreate, Done, Calls, Tables
<1>2. ASSUME NEW w \in Procs, Crash(w) PROVE Attached'
  BY <1>2, AttachedRest DEF Crash, Done, Calls, Tables
<1>3. ASSUME NEW w \in Procs, ReserveRefused(w) PROVE Attached'
  BY <1>3, AttachedRest DEF ReserveRefused, Done, Calls, Tables
<1>4. ASSUME NEW w \in Procs, Settle(w) PROVE Attached'
  BY <1>4, AttachedRest DEF Settle, Done, Calls, Tables
<1>5. ASSUME NEW w \in Procs, Release(w) PROVE Attached'
  BY <1>5, AttachedRest DEF Release, Done, Calls, Tables
<1>6. ASSUME NEW w \in Procs, MarkPending(w) PROVE Attached'
  BY <1>6, AttachedRest DEF MarkPending, Done, Calls, Tables
<1>7. ASSUME NEW w \in Procs, SetUnknown(w) PROVE Attached'
  BY <1>7, AttachedRest DEF SetUnknown, Done, Calls, Tables
<1>8. ASSUME NEW w \in Procs, ExpireRefused(w) PROVE Attached'
  BY <1>8, AttachedRest DEF ExpireRefused, Done, Calls, Tables
<1>9. ASSUME NEW w \in Procs, Reserve(w) PROVE Attached'
  BY <1>9 DEF Reserve, Goto, Calls, Tables, Attached, Job
<1>10. ASSUME NEW w \in Procs, SendMelt(w) PROVE Attached'
  BY <1>10 DEF SendMelt, Goto, Calls, Tables, Attached, Job
<1>11. ASSUME NEW w \in Procs, SendFail(w) PROVE Attached'
  BY <1>11 DEF SendFail, Goto, Calls, Tables, Attached, Job
<1>12. ASSUME NEW w \in Procs, AwaitFail(w) PROVE Attached'
  BY <1>12 DEF AwaitFail, Goto, Calls, Tables, Attached, Job
<1>13. ASSUME NEW w \in Procs, MintUnreachable(w) PROVE Attached'
  BY <1>13 DEF MintUnreachable, Goto, Calls, Tables, Attached, Job
<1>14. ASSUME NEW w \in Procs, SettleRefused(w) PROVE Attached'
  BY <1>14 DEF SettleRefused, Goto, Calls, Tables, Attached, Job
<1>15. ASSUME NEW w \in Procs, ExpireRead(w) PROVE Attached'
  BY <1>15 DEF ExpireRead, Goto, Calls, Tables, Attached, Job
<1>16. ASSUME NEW w \in Procs, MeltReply(w) PROVE Attached'
  BY <1>16 DEF MeltReply, Told, Calls, Attached, Job, Contexts
<1>17. ASSUME NEW w \in Procs, CheckQuote(w) PROVE Attached'
  BY <1>17 DEF CheckQuote, Told, Calls, Attached, Job, Contexts
<1>18. ASSUME NEW w \in Procs, CheckQuoteBad(w) PROVE Attached'
  BY <1>18 DEF CheckQuoteBad, Calls, Attached, Job, Contexts
<1>19. ASSUME NEW w \in Procs, CheckProofs(w) PROVE Attached'
  BY <1>19 DEF CheckProofs, Calls, Attached, Job, Contexts
<1>20. ASSUME NEW w \in Procs, ExpireCount(w) PROVE Attached'
  BY <1>20 DEF ExpireCount, Calls, Attached, Job, Contexts
<1>21. ASSUME NEW w \in Procs, ExpireAtomic(w) PROVE Attached'
  BY <1>21 DEF ExpireAtomic, ExpireWith, Done, Goto, Calls, Tables, Attached, Job
<1>22. ASSUME NEW w \in Procs, ExpireWrite(w) PROVE Attached'
  BY <1>22 DEF ExpireWrite, ExpireWith, Done, Goto, Calls, Tables, Attached, Job
<1>23. ASSUME NEW w \in Procs, ReleaseRefused(w) PROVE Attached'
  <2> DEFINE r == Fresh(Job(w), {})
  <2>1. Job(w) \in Intents /\ opState[Job(w)] # "NONE" /\ opState' = opState
    BY <1>23 DEF ReleaseRefused, Calls, Attached
  <2>2. r.intent = Job(w)
    BY <2>1, FreshTyped
  <2>3. CASE ctx[w].direct
    <3>1. pc' = [pc EXCEPT ![w] = "quote"] /\ ctx' = [ctx EXCEPT ![w] = r]
      BY <1>23, <2>3 DEF ReleaseRefused, Throw
    <3> HIDE DEF r
    <3> QED
      BY <2>1, <2>2, <3>1, AttachedRest
  <2>4. CASE ~ctx[w].direct
    BY <1>23, <2>1, <2>4, AttachedRest DEF ReleaseRefused, Throw, Done
  <2> QED
    BY <2>3, <2>4
<1>24. ASSUME NEW w \in Procs, NEW i \in Intents, ExecuteStart(w, i) PROVE Attached'
  <2> DEFINE r == Fresh(i, {})
  <2>1. r.intent = i
    BY FreshTyped
  <2>2. PICK l : pc' = [pc EXCEPT ![w] = l] /\ ctx' = [ctx EXCEPT ![w] = r]
    BY <1>24 DEF ExecuteStart, Begin
  <2>3. opState[i] # "NONE" /\ opState' = opState
    BY <1>24 DEF ExecuteStart, Executable
  <2> HIDE DEF r
  <2> QED
    BY <2>1, <2>2, <2>3, AttachedRest
<1>25. ASSUME NEW w \in Procs, NEW i \in Intents, StatusStart(w, i) PROVE Attached'
  <2> DEFINE r == Fresh(i, {})
  <2>1. r.intent = i
    BY FreshTyped
  <2>2. PICK l : pc' = [pc EXCEPT ![w] = l] /\ ctx' = [ctx EXCEPT ![w] = r]
    BY <1>25 DEF StatusStart, Begin
  <2>3. opState[i] # "NONE" /\ opState' = opState
    BY <1>25 DEF StatusStart, Executable
  <2> HIDE DEF r
  <2> QED
    BY <2>1, <2>2, <2>3, AttachedRest
<1>26. ASSUME NEW w \in Procs, NEW i \in Intents, NEW S \in Selections, PrepareSelect(w, i, S) PROVE Attached'
  BY <1>26 DEF PrepareSelect, Calls, Attached, Job
<1>27. ASSUME TRUE, UNCHANGED <<opState, procVars>> PROVE Attached'
  BY <1>27 DEF Attached, Job, procVars
<1> QED
  BY <1>1, <1>2, <1>3, <1>4, <1>5, <1>6, <1>7, <1>8, <1>9, <1>10, <1>11, <1>12, <1>13, <1>14, <1>15, <1>16, <1>17, <1>18, <1>19, <1>20, <1>21, <1>22, <1>23, <1>24, <1>25, <1>26, <1>27
  DEF Next, Process, Call, Execute, Reconcile, ExpirePrepared, Mint, vars,
      Approve, Expire, MintAccept, MintRefuse, MintSettle, MintFail

LEMMA TablesStep == Calls /\ Tables /\ Attached /\ [Next]_vars => Tables'
<1> SUFFICES ASSUME Calls, Tables, Attached, [Next]_vars PROVE Tables'
  OBVIOUS
<1> USE DEF Tables, OpStates, Remote, opVars, rowVars, envVars, mintVars, netVars
<1>1. ASSUME UNCHANGED shared PROVE Tables'
  BY <1>1 DEF shared
<1>2. ASSUME NEW w \in Procs, PrepareCreate(w) PROVE Tables'
  <2>1. Job(w) \in Intents /\ ctx[w].held \in Selections
    BY <1>2 DEF PrepareCreate, Calls
  <2> QED
    BY <1>2, <2>1, SelectionsAssumption DEF PrepareCreate
<1>3. ASSUME NEW w \in Procs, Reserve(w) PROVE Tables'
  <2>1. Job(w) \in Intents /\ opState[Job(w)] # "NONE"
    BY <1>3 DEF Calls, Attached, Reserve
  <2> QED
    BY <1>3, <2>1 DEF Reserve, Executable
<1>4. ASSUME NEW w \in Procs, SendMelt(w) PROVE Tables'
  <2>1. Job(w) \in Intents /\ opState[Job(w)] # "NONE"
    BY <1>4 DEF Calls, Attached, SendMelt
  <2> QED
    BY <1>4, <2>1 DEF SendMelt
<1>5. ASSUME NEW w \in Procs, AwaitFail(w) PROVE Tables'
  <2>1. Job(w) \in Intents /\ opState[Job(w)] # "NONE"
    BY <1>5 DEF Calls, Attached, AwaitFail
  <2> QED
    BY <1>5, <2>1 DEF AwaitFail, Abandon
<1>6. ASSUME NEW w \in Procs, Settle(w) PROVE Tables'
  <2>1. Job(w) \in Intents /\ opState[Job(w)] # "NONE"
    BY <1>6 DEF Calls, Attached, Settle
  <2> QED
    BY <1>6, <2>1 DEF Settle, Unreserved
<1>7. ASSUME NEW w \in Procs, Release(w) PROVE Tables'
  <2>1. Job(w) \in Intents /\ opState[Job(w)] # "NONE"
    BY <1>7 DEF Calls, Attached, Release
  <2> QED
    BY <1>7, <2>1 DEF Release, Unreserved
<1>8. ASSUME NEW w \in Procs, MarkPending(w) PROVE Tables'
  <2>1. Job(w) \in Intents /\ opState[Job(w)] # "NONE"
    BY <1>8 DEF Calls, Attached, MarkPending
  <2> QED
    BY <1>8, <2>1 DEF MarkPending
<1>9. ASSUME NEW w \in Procs, SetUnknown(w) PROVE Tables'
  <2>1. Job(w) \in Intents /\ opState[Job(w)] # "NONE"
    BY <1>9 DEF Calls, Attached, SetUnknown
  <2> QED
    BY <1>9, <2>1 DEF SetUnknown
<1>10. ASSUME NEW w \in Procs, Crash(w) PROVE Tables'
  <2>1. Job(w) \in Intents
    BY <1>10 DEF Calls, Attached, Crash
  <2> QED
    BY <1>10, <2>1 DEF Crash, Abandon
<1>11. ASSUME NEW w \in Procs, NEW held, pc[w] \notin {"idle", "create"}, ExpireWith(w, held) PROVE Tables'
  <2>1. Job(w) \in Intents /\ opState[Job(w)] # "NONE"
    BY <1>11 DEF Calls, Attached
  <2> QED
    BY <1>11, <2>1 DEF ExpireWith
<1>12. ASSUME NEW i \in Intents, Approve(i) PROVE Tables'
  BY <1>12 DEF Approve
<1>13. ASSUME NEW i \in Intents, Expire(i) PROVE Tables'
  BY <1>13 DEF Expire
<1>14. ASSUME NEW i \in Intents, MintAccept(i) PROVE Tables'
  BY <1>14 DEF MintAccept, MintSet
<1>15. ASSUME NEW i \in Intents, MintRefuse(i) PROVE Tables'
  BY <1>15 DEF MintRefuse
<1>16. ASSUME NEW i \in Intents, MintSettle(i) PROVE Tables'
  BY <1>16 DEF MintSettle
<1>17. ASSUME NEW i \in Intents, MintFail(i) PROVE Tables'
  BY <1>17 DEF MintFail, MintSet
<1> QED
  BY <1>1, <1>2, <1>3, <1>4, <1>5, <1>6, <1>7, <1>8, <1>9, <1>10, <1>11, <1>12, <1>13, <1>14, <1>15, <1>16, <1>17
  DEF Next, Process, Call, Execute, Reconcile, ExpirePrepared, Mint, vars,
      PrepareSelect, ExecuteStart, StatusStart, ReserveRefused, SendFail,
      MeltReply, Told, CheckQuote, CheckQuoteBad, CheckProofs, MintUnreachable,
      SettleRefused, ReleaseRefused, ExpireRefused, ExpireAtomic, ExpireRead,
      ExpireCount, ExpireWrite

Types == Tables /\ Calls /\ Attached

LEMMA TypesInit == Init => Types
  BY BlankTyped, NoneAssumption
  DEF Init, Types, Tables, Calls, Attached, OpStates, Remote, Labels, Funded

\* Every row, mint table and process memory keeps its type.
THEOREM TypeCorrect == Spec => []TypeOK
<1>1. Types /\ [Next]_vars => Types'
  BY CallsStep, TablesStep, AttachedStep DEF Types
<1>2. Types => TypeOK
  BY DEF Types, Tables, Calls, TypeOK
<1> QED
  BY TypesInit, <1>1, <1>2, PTL DEF Spec

-----------------------------------------------------------------------------
(* What a step of one process leaves alone                                 *)

\* A process changes its own label and its own memory only.
LEMMA Locality ==
    ASSUME Types, NEW w \in Procs, Process(w)
    PROVE  \A u \in Procs \ {w} : pc'[u] = pc[u] /\ ctx'[u] = ctx[u]
<1> USE DEF Types, Calls, Done, Goto, Begin, Throw, ExpireWith
<1>1. CASE Call(w)
  BY <1>1 DEF Call, PrepareSelect, PrepareCreate, ExecuteStart, StatusStart, Crash
<1>2. CASE Execute(w)
  BY <1>2 DEF Execute, Reserve, ReserveRefused, SendMelt, SendFail, MeltReply, Told,
              AwaitFail
<1>3. CASE Reconcile(w)
  BY <1>3 DEF Reconcile, CheckQuote, Told, CheckQuoteBad, CheckProofs,
              MintUnreachable, Settle, SettleRefused, Release, ReleaseRefused,
              MarkPending, SetUnknown
<1>4. CASE ExpirePrepared(w)
  BY <1>4 DEF ExpirePrepared, ExpireRefused, ExpireAtomic, ExpireRead,
              ExpireCount, ExpireWrite
<1> QED
  BY <1>1, <1>2, <1>3, <1>4 DEF Process

-----------------------------------------------------------------------------
(* An approval is good for one execution                                   *)

\* Why: the row leaves PREPARED for good when it is executed, so one process
\* at most stands between its reservation and its post, and only approved
\* intents get as far as the reservation.
Once ==
    /\ \A i \in Intents :
         /\ posts[i] <= execCount[i] /\ execCount[i] <= 1
         /\ execCount[i] = 1 => i \in approved
         /\ opState[i] \in {"NONE", "PREPARED"} => execCount[i] = 0
         /\ opState[i] = "NONE" => i \notin approved
         /\ i \in wire \/ quote[i] # "UNPAID" => posts[i] = 1
    /\ \A w \in Procs :
         /\ pc[w] = "send" => execCount[Job(w)] = 1 /\ posts[Job(w)] = 0
         /\ pc[w] = "reserve" => Job(w) \in approved
    /\ \A u, w \in Procs :
         pc[u] = "send" /\ pc[w] = "send" /\ u # w => Job(u) # Job(w)

\* A process step that neither reserves nor posts.
LEMMA OnceRest ==
    ASSUME Types, Once, NEW w \in Procs,
           \A u \in Procs \ {w} : pc'[u] = pc[u] /\ ctx'[u] = ctx[u],
           pc'[w] \notin {"send", "reserve"},
           UNCHANGED <<execCount, posts, approved, quote>>, wire' \subseteq wire,
           \A i \in Intents : opState'[i] \in {"NONE", "PREPARED"}
                             => opState[i] \in {"NONE", opState'[i]}
    PROVE  Once'
<1> USE DEF Once, Types, Tables, Job
<1>1. \A u \in Procs : pc'[u] \in {"send", "reserve"} =>
          u # w /\ pc'[u] = pc[u] /\ Job(u)' = Job(u)
  OBVIOUS
<1>2. (\A i \in Intents :
         /\ posts[i] <= execCount[i] /\ execCount[i] <= 1
         /\ execCount[i] = 1 => i \in approved
         /\ opState[i] \in {"NONE", "PREPARED"} => execCount[i] = 0
         /\ opState[i] = "NONE" => i \notin approved
         /\ i \in wire \/ quote[i] # "UNPAID" => posts[i] = 1)'
  OBVIOUS
<1> QED
  BY <1>1, <1>2

LEMMA OnceStep == Types /\ Once /\ [Next]_vars => Once'
<1> SUFFICES ASSUME Types, Once, [Next]_vars PROVE Once'
  OBVIOUS
<1> USE DEF shared, opVars, rowVars, envVars, mintVars, netVars
<1>1. ASSUME NEW w \in Procs, PrepareCreate(w) PROVE Once'
  <2>1. \A u \in Procs \ {w} : pc'[u] = pc[u] /\ ctx'[u] = ctx[u]
    BY <1>1, Locality DEF Process, Call
  <2>2. pc'[w] \notin {"send", "reserve"}
    BY <1>1 DEF PrepareCreate, Done, Goto, Begin, Types, Calls
  <2> QED
    BY <1>1, <2>1, <2>2, OnceRest DEF PrepareCreate, Types, Tables
<1>2. ASSUME NEW w \in Procs, Crash(w) PROVE Once'
  <2>1. \A u \in Procs \ {w} : pc'[u] = pc[u] /\ ctx'[u] = ctx[u]
    BY <1>2, Locality DEF Process, Call
  <2>2. pc'[w] \notin {"send", "reserve"}
    BY <1>2 DEF Crash, Done, Goto, Begin, Types, Calls, Abandon
  <2> QED
    BY <1>2, <2>1, <2>2, OnceRest DEF Crash, Types, Tables, Abandon
<1>3. ASSUME NEW w \in Procs, ReserveRefused(w) PROVE Once'
  <2>1. \A u \in Procs \ {w} : pc'[u] = pc[u] /\ ctx'[u] = ctx[u]
    BY <1>3, Locality DEF Process, Execute
  <2>2. pc'[w] \notin {"send", "reserve"}
    BY <1>3 DEF ReserveRefused, Done, Goto, Begin, Types, Calls
  <2> QED
    BY <1>3, <2>1, <2>2, OnceRest DEF ReserveRefused, Types, Tables
<1>4. ASSUME NEW w \in Procs, SendFail(w) PROVE Once'
  <2>1. \A u \in Procs \ {w} : pc'[u] = pc[u] /\ ctx'[u] = ctx[u]
    BY <1>4, Locality DEF Process, Execute
  <2>2. pc'[w] \notin {"send", "reserve"}
    BY <1>4 DEF SendFail, Done, Goto, Begin, Types, Calls
  <2> QED
    BY <1>4, <2>1, <2>2, OnceRest DEF SendFail, Types, Tables
<1>5. ASSUME NEW w \in Procs, MeltReply(w) PROVE Once'
  <2>1. \A u \in Procs \ {w} : pc'[u] = pc[u] /\ ctx'[u] = ctx[u]
    BY <1>5, Locality DEF Process, Execute
  <2>2. pc'[w] \notin {"send", "reserve"}
    BY <1>5 DEF MeltReply, Told, Done, Goto, Begin, Types, Calls
  <2> QED
    BY <1>5, <2>1, <2>2, OnceRest DEF MeltReply, Told, Types, Tables
<1>6. ASSUME NEW w \in Procs, AwaitFail(w) PROVE Once'
  <2>1. \A u \in Procs \ {w} : pc'[u] = pc[u] /\ ctx'[u] = ctx[u]
    BY <1>6, Locality DEF Process, Execute
  <2>2. pc'[w] \notin {"send", "reserve"}
    BY <1>6 DEF AwaitFail, Done, Goto, Begin, Types, Calls, Abandon
  <2> QED
    BY <1>6, <2>1, <2>2, OnceRest DEF AwaitFail, Types, Tables, Abandon
<1>7. ASSUME NEW w \in Procs, CheckQuote(w) PROVE Once'
  <2>1. \A u \in Procs \ {w} : pc'[u] = pc[u] /\ ctx'[u] = ctx[u]
    BY <1>7, Locality DEF Process, Reconcile
  <2>2. pc'[w] \notin {"send", "reserve"}
    BY <1>7 DEF CheckQuote, Told, Done, Goto, Begin, Types, Calls
  <2> QED
    BY <1>7, <2>1, <2>2, OnceRest DEF CheckQuote, Told, Types, Tables
<1>8. ASSUME NEW w \in Procs, CheckQuoteBad(w) PROVE Once'
  <2>1. \A u \in Procs \ {w} : pc'[u] = pc[u] /\ ctx'[u] = ctx[u]
    BY <1>8, Locality DEF Process, Reconcile
  <2>2. pc'[w] \notin {"send", "reserve"}
    BY <1>8 DEF CheckQuoteBad, Done, Goto, Begin, Types, Calls
  <2> QED
    BY <1>8, <2>1, <2>2, OnceRest DEF CheckQuoteBad, Types, Tables
<1>9. ASSUME NEW w \in Procs, CheckProofs(w) PROVE Once'
  <2>1. \A u \in Procs \ {w} : pc'[u] = pc[u] /\ ctx'[u] = ctx[u]
    BY <1>9, Locality DEF Process, Reconcile
  <2>2. pc'[w] \notin {"send", "reserve"}
    BY <1>9, VerdictTyped DEF CheckProofs, Done, Goto, Begin, Types, Calls
  <2> QED
    BY <1>9, <2>1, <2>2, OnceRest DEF CheckProofs, Types, Tables
<1>10. ASSUME NEW w \in Procs, MintUnreachable(w) PROVE Once'
  <2>1. \A u \in Procs \ {w} : pc'[u] = pc[u] /\ ctx'[u] = ctx[u]
    BY <1>10, Locality DEF Process, Reconcile
  <2>2. pc'[w] \notin {"send", "reserve"}
    BY <1>10 DEF MintUnreachable, Done, Goto, Begin, Types, Calls
  <2> QED
    BY <1>10, <2>1, <2>2, OnceRest DEF MintUnreachable, Types, Tables
<1>11. ASSUME NEW w \in Procs, Settle(w) PROVE Once'
  <2>1. \A u \in Procs \ {w} : pc'[u] = pc[u] /\ ctx'[u] = ctx[u]
    BY <1>11, Locality DEF Process, Reconcile
  <2>2. pc'[w] \notin {"send", "reserve"}
    BY <1>11 DEF Settle, Done, Goto, Begin, Types, Calls
  <2> QED
    BY <1>11, <2>1, <2>2, OnceRest DEF Settle, Types, Tables
<1>12. ASSUME NEW w \in Procs, SettleRefused(w) PROVE Once'
  <2>1. \A u \in Procs \ {w} : pc'[u] = pc[u] /\ ctx'[u] = ctx[u]
    BY <1>12, Locality DEF Process, Reconcile
  <2>2. pc'[w] \notin {"send", "reserve"}
    BY <1>12 DEF SettleRefused, Done, Goto, Begin, Types, Calls
  <2> QED
    BY <1>12, <2>1, <2>2, OnceRest DEF SettleRefused, Types, Tables
<1>13. ASSUME NEW w \in Procs, Release(w) PROVE Once'
  <2>1. \A u \in Procs \ {w} : pc'[u] = pc[u] /\ ctx'[u] = ctx[u]
    BY <1>13, Locality DEF Process, Reconcile
  <2>2. pc'[w] \notin {"send", "reserve"}
    BY <1>13 DEF Release, Done, Goto, Begin, Types, Calls
  <2> QED
    BY <1>13, <2>1, <2>2, OnceRest DEF Release, Types, Tables
<1>14. ASSUME NEW w \in Procs, ReleaseRefused(w) PROVE Once'
  <2>1. \A u \in Procs \ {w} : pc'[u] = pc[u] /\ ctx'[u] = ctx[u]
    BY <1>14, Locality DEF Process, Reconcile
  <2>2. pc'[w] \notin {"send", "reserve"}
    BY <1>14 DEF ReleaseRefused, Done, Goto, Begin, Types, Calls, Throw
  <2> QED
    BY <1>14, <2>1, <2>2, OnceRest DEF ReleaseRefused, Types, Tables, Throw
<1>15. ASSUME NEW w \in Procs, MarkPending(w) PROVE Once'
  <2>1. \A u \in Procs \ {w} : pc'[u] = pc[u] /\ ctx'[u] = ctx[u]
    BY <1>15, Locality DEF Process, Reconcile
  <2>2. pc'[w] \notin {"send", "reserve"}
    BY <1>15 DEF MarkPending, Done, Goto, Begin, Types, Calls
  <2> QED
    BY <1>15, <2>1, <2>2, OnceRest DEF MarkPending, Types, Tables
<1>16. ASSUME NEW w \in Procs, SetUnknown(w) PROVE Once'
  <2>1. \A u \in Procs \ {w} : pc'[u] = pc[u] /\ ctx'[u] = ctx[u]
    BY <1>16, Locality DEF Process, Reconcile
  <2>2. pc'[w] \notin {"send", "reserve"}
    BY <1>16 DEF SetUnknown, Done, Goto, Begin, Types, Calls
  <2> QED
    BY <1>16, <2>1, <2>2, OnceRest DEF SetUnknown, Types, Tables
<1>17. ASSUME NEW w \in Procs, ExpireRefused(w) PROVE Once'
  <2>1. \A u \in Procs \ {w} : pc'[u] = pc[u] /\ ctx'[u] = ctx[u]
    BY <1>17, Locality DEF Process, ExpirePrepared
  <2>2. pc'[w] \notin {"send", "reserve"}
    BY <1>17 DEF ExpireRefused, Done, Goto, Begin, Types, Calls
  <2> QED
    BY <1>17, <2>1, <2>2, OnceRest DEF ExpireRefused, Types, Tables
<1>18. ASSUME NEW w \in Procs, ExpireAtomic(w) PROVE Once'
  <2>1. \A u \in Procs \ {w} : pc'[u] = pc[u] /\ ctx'[u] = ctx[u]
    BY <1>18, Locality DEF Process, ExpirePrepared
  <2>2. pc'[w] \notin {"send", "reserve"}
    BY <1>18 DEF ExpireAtomic, Done, Goto, Begin, Types, Calls, ExpireWith
  <2> QED
    BY <1>18, <2>1, <2>2, OnceRest DEF ExpireAtomic, Types, Tables, ExpireWith
<1>19. ASSUME NEW w \in Procs, ExpireRead(w) PROVE Once'
  <2>1. \A u \in Procs \ {w} : pc'[u] = pc[u] /\ ctx'[u] = ctx[u]
    BY <1>19, Locality DEF Process, ExpirePrepared
  <2>2. pc'[w] \notin {"send", "reserve"}
    BY <1>19 DEF ExpireRead, Done, Goto, Begin, Types, Calls
  <2> QED
    BY <1>19, <2>1, <2>2, OnceRest DEF ExpireRead, Types, Tables
<1>20. ASSUME NEW w \in Procs, ExpireCount(w) PROVE Once'
  <2>1. \A u \in Procs \ {w} : pc'[u] = pc[u] /\ ctx'[u] = ctx[u]
    BY <1>20, Locality DEF Process, ExpirePrepared
  <2>2. pc'[w] \notin {"send", "reserve"}
    BY <1>20 DEF ExpireCount, Done, Goto, Begin, Types, Calls
  <2> QED
    BY <1>20, <2>1, <2>2, OnceRest DEF ExpireCount, Types, Tables
<1>21. ASSUME NEW w \in Procs, ExpireWrite(w) PROVE Once'
  <2>1. \A u \in Procs \ {w} : pc'[u] = pc[u] /\ ctx'[u] = ctx[u]
    BY <1>21, Locality DEF Process, ExpirePrepared
  <2>2. pc'[w] \notin {"send", "reserve"}
    BY <1>21 DEF ExpireWrite, Done, Goto, Begin, Types, Calls, ExpireWith
  <2> QED
    BY <1>21, <2>1, <2>2, OnceRest DEF ExpireWrite, Types, Tables, ExpireWith
<1>22. ASSUME NEW w \in Procs, NEW i \in Intents, StatusStart(w, i) PROVE Once'
  <2>1. \A u \in Procs \ {w} : pc'[u] = pc[u] /\ ctx'[u] = ctx[u]
    BY <1>22, Locality DEF Process, Call
  <2>2. pc'[w] \notin {"send", "reserve"}
    BY <1>22 DEF StatusStart, Done, Goto, Begin, Types, Calls
  <2> QED
    BY <1>22, <2>1, <2>2, OnceRest DEF StatusStart, Types, Tables
<1>23. ASSUME NEW w \in Procs, NEW i \in Intents, NEW S \in Selections, PrepareSelect(w, i, S) PROVE Once'
  <2>1. \A u \in Procs \ {w} : pc'[u] = pc[u] /\ ctx'[u] = ctx[u]
    BY <1>23, Locality DEF Process, Call
  <2>2. pc'[w] \notin {"send", "reserve"}
    BY <1>23 DEF PrepareSelect, Done, Goto, Begin, Types, Calls
  <2> QED
    BY <1>23, <2>1, <2>2, OnceRest DEF PrepareSelect, Types, Tables
<1>24. ASSUME NEW w \in Procs, NEW i \in Intents, ExecuteStart(w, i) PROVE Once'
  <2>1. \A u \in Procs \ {w} : pc'[u] = pc[u] /\ ctx'[u] = ctx[u]
    BY <1>24, Locality DEF Process, Call
  <2>2. pc'[w] # "send" /\ Job(w)' = i
    BY <1>24, FreshTyped DEF ExecuteStart, Begin, Types, Calls, Job
  <2> QED
    BY <1>24, <2>1, <2>2 DEF ExecuteStart, Once, Job
<1>25. ASSUME NEW w \in Procs, Reserve(w) PROVE Once'
  <2>1. \A u \in Procs \ {w} : pc'[u] = pc[u] /\ ctx'[u] = ctx[u]
    BY <1>25, Locality DEF Process, Execute
  <2>2. Job(w) \in Intents /\ Job(w)' = Job(w) /\ pc'[w] = "send"
    BY <1>25 DEF Reserve, Goto, Types, Calls, Job
  <2>3. Job(w) \in approved /\ execCount[Job(w)] = 0 /\ posts[Job(w)] = 0
    BY <1>25, <2>2 DEF Reserve, Executable, Once, Types, Tables
  <2>4. execCount' = [execCount EXCEPT ![Job(w)] = 1]
    BY <1>25, <2>2, <2>3 DEF Reserve, Types, Tables
  <2>5. \A u \in Procs \ {w} : pc'[u] = "send" => Job(u)' # Job(w) /\ Job(u)' = Job(u)
    BY <2>1, <2>3 DEF Once, Job
  <2> QED
    BY <1>25, <2>1, <2>2, <2>3, <2>4, <2>5 DEF Reserve, Once, Types, Tables, Job
<1>26. ASSUME NEW w \in Procs, SendMelt(w) PROVE Once'
  <2>1. \A u \in Procs \ {w} : pc'[u] = pc[u] /\ ctx'[u] = ctx[u]
    BY <1>26, Locality DEF Process, Execute
  <2>2. Job(w) \in Intents /\ Job(w)' = Job(w) /\ pc'[w] = "await"
    BY <1>26 DEF SendMelt, Goto, Types, Calls, Job
  <2>3. execCount[Job(w)] = 1 /\ posts[Job(w)] = 0
    BY <1>26 DEF SendMelt, Once
  <2>4. \A u \in Procs \ {w} : pc'[u] = "send" => Job(u)' # Job(w) /\ Job(u)' = Job(u)
    BY <1>26, <2>1 DEF SendMelt, Once, Job
  <2>5. posts' = [posts EXCEPT ![Job(w)] = 1]
    BY <1>26, <2>2, <2>3 DEF SendMelt, Types, Tables
  <2> QED
    BY <1>26, <2>1, <2>2, <2>3, <2>4, <2>5 DEF SendMelt, Once, Types, Tables, Job
<1>mint. ASSUME UNCHANGED <<opState, execCount, approved, posts, procVars>>, wire' \subseteq wire,
             \A i \in Intents : quote'[i] = "UNPAID" \/ quote[i] # "UNPAID" \/ i \in wire
         PROVE Once'
  BY <1>mint DEF Once, Job, procVars
<1>27. ASSUME NEW i \in Intents, Expire(i) PROVE Once'
  BY <1>27, <1>mint DEF Expire, MintSet, Types, Tables, procVars
<1>28. ASSUME NEW i \in Intents, MintAccept(i) PROVE Once'
  BY <1>28, <1>mint DEF MintAccept, MintSet, Types, Tables, procVars
<1>29. ASSUME NEW i \in Intents, MintRefuse(i) PROVE Once'
  BY <1>29, <1>mint DEF MintRefuse, MintSet, Types, Tables, procVars
<1>30. ASSUME NEW i \in Intents, MintSettle(i) PROVE Once'
  BY <1>30, <1>mint DEF MintSettle, MintSet, Types, Tables, procVars
<1>31. ASSUME NEW i \in Intents, MintFail(i) PROVE Once'
  BY <1>31, <1>mint DEF MintFail, MintSet, Types, Tables, procVars
<1>32. ASSUME NEW i \in Intents, Approve(i) PROVE Once'
  BY <1>32 DEF Approve, Once, Types, Tables, procVars, Job
<1>33. ASSUME TRUE, UNCHANGED vars PROVE Once'
  BY <1>33, <1>mint DEF vars, procVars
<1> QED
  BY <1>1, <1>2, <1>3, <1>4, <1>5, <1>6, <1>7, <1>8, <1>9, <1>10, <1>11, <1>12, <1>13, <1>14, <1>15, <1>16, <1>17, <1>18, <1>19, <1>20, <1>21, <1>22, <1>23, <1>24, <1>25, <1>26, <1>27, <1>28, <1>29, <1>30, <1>31, <1>32, <1>33
  DEF Next, Process, Call, Execute, Reconcile, ExpirePrepared, Mint

LEMMA OnceInit == Init => Once
  BY DEF Init, Once

\* However many processes execute, crash and reconcile, an approved payment is
\* posted to the mint at most once, and an unapproved one never.
THEOREM ApprovalIsOneShot == Spec => []ApprovedOnce
<1>1. Types /\ [Next]_vars => Types'
  BY CallsStep, TablesStep, AttachedStep DEF Types
<1>2. Once => ApprovedOnce
  BY DEF Once, ApprovedOnce
<1> QED
  BY TypesInit, OnceInit, OnceStep, <1>1, <1>2, PTL DEF Spec

-----------------------------------------------------------------------------
(* Reservations                                                            *)

\* ReservationIntegrity is inductive relative to Once.  Every write of a
\* reserved row is made for the intent that holds it, and moves its whole plan.
LEMMA ReservationStep ==
    Types /\ Once /\ ReservationIntegrity /\ [Next]_vars => ReservationIntegrity'
<1> SUFFICES ASSUME Types, Once, ReservationIntegrity, [Next]_vars
             PROVE  ReservationIntegrity'
  OBVIOUS
<1> USE NoneAssumption DEF ReservationIntegrity
<1>1. ASSUME UNCHANGED <<opState, execCount, plan, pstat, resv>>
      PROVE  ReservationIntegrity'
  BY <1>1
<1>2. ASSUME NEW w \in Procs, PrepareCreate(w) PROVE ReservationIntegrity'
  <2>1. Job(w) \in Intents
    BY <1>2 DEF PrepareCreate, Types, Calls
  <2>2. opState[Job(w)] = "NONE" => \A p \in Proofs : resv[p] # Job(w)
    BY <2>1 DEF Once, Types, Tables
  <2> QED
    BY <1>2, <2>1, <2>2 DEF PrepareCreate, Types, Tables, rowVars
<1>3. ASSUME NEW w \in Procs, Reserve(w) PROVE ReservationIntegrity'
  <2>1. Job(w) \in Intents
    BY <1>3 DEF Reserve, Types, Calls
  <2> DEFINE i == Job(w)
  <2>2. execCount[i] = 0 /\ \A p \in Proofs : resv[p] # i
    BY <1>3, <2>1 DEF Reserve, Executable, Once, Types, Tables
  <2>3. plan[i] \subseteq Proofs /\ \A p \in plan[i] : resv[p] = None
    BY <1>3, <2>1, <2>2, SelectionsAssumption
    DEF Reserve, Mine, Available, Free, Types, Tables
  <2>4. opState' = [opState EXCEPT ![i] = "EXECUTING"]
        /\ execCount' = [execCount EXCEPT ![i] = 1] /\ plan' = plan
    BY <1>3, <2>1, <2>2 DEF Reserve, Types, Tables
  <2>5. \A p \in Proofs :
           /\ resv'[p] = IF p \in plan[i] THEN i ELSE resv[p]
           /\ pstat'[p] = IF p \in plan[i] THEN "PENDING" ELSE pstat[p]
    BY <1>3 DEF Reserve
  <2>6. \A j \in Intents : plan[j] \subseteq Proofs
    BY SelectionsAssumption DEF Types, Tables
  <2> HIDE DEF i
  <2> QED
    BY <2>1, <2>2, <2>3, <2>4, <2>5, <2>6 DEF Types, Tables, i
<1>4. ASSUME NEW w \in Procs, Settle(w) PROVE ReservationIntegrity'
  <2>1. Job(w) \in Intents
    BY <1>4 DEF Settle, Types, Calls
  <2> DEFINE i == Job(w)
  <2>2. \A j \in Intents : plan[j] \subseteq Proofs
    BY SelectionsAssumption DEF Types, Tables
  <2>3. \A p \in Proofs : resv[p] = i => p \in Mine(i)
    BY <2>1 DEF Mine
  <2>4. \A p \in Proofs : resv'[p] = IF p \in Mine(i) THEN None ELSE resv[p]
    BY <1>4 DEF Settle, Unreserved
  <2>5. \A p \in Proofs : pstat[p] = "PENDING" /\ p \notin Mine(i)
                           => pstat'[p] = "PENDING"
    BY <1>4 DEF Settle
  <2>6. \A j \in Intents \ {i} : opState'[j] = opState[j]
    BY <1>4 DEF Settle, Types, Tables
  <2>7. execCount' = execCount /\ plan' = plan
    BY <1>4 DEF Settle
  <2>8. ASSUME NEW j \in Intents, NEW p \in Proofs, resv'[p] = j
        PROVE  /\ j # i /\ resv[p] = j
               /\ \A q \in plan[j] : q \notin Mine(i)
    BY <2>1, <2>2, <2>3, <2>4, <2>8 DEF Mine
  <2> HIDE DEF i
  <2> QED
    BY <2>1, <2>2, <2>4, <2>5, <2>6, <2>7, <2>8
<1>5. ASSUME NEW w \in Procs, Release(w) PROVE ReservationIntegrity'
  <2>1. Job(w) \in Intents
    BY <1>5 DEF Release, Types, Calls
  <2> DEFINE i == Job(w)
  <2>2. \A j \in Intents : plan[j] \subseteq Proofs
    BY SelectionsAssumption DEF Types, Tables
  <2>3. \A p \in Proofs : resv[p] = i => p \in Mine(i)
    BY <2>1 DEF Mine
  <2>4. \A p \in Proofs : resv'[p] = IF p \in Mine(i) THEN None ELSE resv[p]
    BY <1>5 DEF Release, Unreserved
  <2>5. \A p \in Proofs : pstat[p] = "PENDING" /\ p \notin Mine(i)
                           => pstat'[p] = "PENDING"
    BY <1>5 DEF Release
  <2>6. \A j \in Intents \ {i} : opState'[j] = opState[j]
    BY <1>5 DEF Release, Types, Tables
  <2>7. execCount' = execCount /\ plan' = plan
    BY <1>5 DEF Release
  <2>8. ASSUME NEW j \in Intents, NEW p \in Proofs, resv'[p] = j
        PROVE  /\ j # i /\ resv[p] = j
               /\ \A q \in plan[j] : q \notin Mine(i)
    BY <2>1, <2>2, <2>3, <2>4, <2>8 DEF Mine
  <2> HIDE DEF i
  <2> QED
    BY <2>1, <2>2, <2>4, <2>5, <2>6, <2>7, <2>8
<1>6. ASSUME NEW w \in Procs, MarkPending(w) PROVE ReservationIntegrity'
  <2>1. Job(w) \in Intents
    BY <1>6 DEF MarkPending, Types, Calls
  <2> QED
    BY <1>6, <2>1 DEF MarkPending, Types, Tables, rowVars
<1>7. ASSUME NEW w \in Procs, SetUnknown(w) PROVE ReservationIntegrity'
  <2>1. Job(w) \in Intents
    BY <1>7 DEF SetUnknown, Types, Calls
  <2> QED
    BY <1>7, <2>1 DEF SetUnknown, Types, Tables, rowVars
<1>8. ASSUME NEW w \in Procs, NEW held, Job(w) \in Intents, ExpireWith(w, held) PROVE ReservationIntegrity'
  <2> DEFINE i == Job(w)
  <2>1. \A j \in Intents : plan[j] \subseteq Proofs
    BY SelectionsAssumption DEF Types, Tables
  <2>2. \A j \in Intents : opState'[j] = opState[j]
                            \/ opState'[j] \in {"EXPIRED", "UNKNOWN"}
    BY <1>8 DEF ExpireWith, Types, Tables
  <2>3. execCount' = execCount /\ plan' = plan
    BY <1>8 DEF ExpireWith
  <2>4. CASE UNCHANGED rowVars
    BY <2>2, <2>3, <2>4 DEF rowVars
  <2>5. CASE ~UNCHANGED rowVars
    <3>1. Mine(i) = plan[i]
      BY <1>8, <2>5 DEF ExpireWith
    <3>2. \A p \in Proofs :
             /\ resv'[p] = IF p \in plan[i] THEN None ELSE resv[p]
             /\ pstat'[p] = IF p \in plan[i] THEN "UNSPENT" ELSE pstat[p]
      BY <1>8, <2>5 DEF ExpireWith
    <3>3. ASSUME NEW j \in Intents, NEW p \in Proofs, resv'[p] = j
          PROVE  resv[p] = j /\ \A q \in plan[j] : q \notin plan[i]
      BY <1>8, <2>1, <3>1, <3>2, <3>3 DEF Mine
    <3> HIDE DEF i
    <3> QED
      BY <2>1, <2>2, <2>3, <3>2, <3>3
  <2> QED
    BY <2>4, <2>5
<1>call. ASSUME NEW w \in Procs, Call(w) PROVE ReservationIntegrity'
  BY <1>call, <1>1, <1>2 DEF Call, PrepareSelect, ExecuteStart, StatusStart,
     Crash, shared, opVars, rowVars
<1>execute. ASSUME NEW w \in Procs, Execute(w) PROVE ReservationIntegrity'
  BY <1>execute, <1>1, <1>3 DEF Execute, ReserveRefused, SendMelt, SendFail,
     MeltReply, Told, AwaitFail, shared, opVars, rowVars
<1>reconcile. ASSUME NEW w \in Procs, Reconcile(w) PROVE ReservationIntegrity'
  BY <1>reconcile, <1>1, <1>4, <1>5, <1>6, <1>7
  DEF Reconcile, CheckQuote, Told, CheckQuoteBad, CheckProofs, MintUnreachable,
      SettleRefused, ReleaseRefused, shared, opVars, rowVars
<1>expire. ASSUME NEW w \in Procs, ExpirePrepared(w) PROVE ReservationIntegrity'
  <2>1. Job(w) \in Intents
    BY <1>expire DEF ExpirePrepared, ExpireRefused, ExpireAtomic, ExpireRead,
       ExpireCount, ExpireWrite, Types, Calls
  <2> QED
    BY <1>expire, <2>1, <1>1, <1>8
    DEF ExpirePrepared, ExpireRefused, ExpireAtomic, ExpireRead, ExpireCount,
        ExpireWrite, shared, opVars, rowVars
<1>env. ASSUME NEW i \in Intents, Approve(i) \/ Expire(i) \/ Mint(i) PROVE ReservationIntegrity'
  BY <1>env, <1>1 DEF Approve, Expire, Mint, MintAccept, MintRefuse, MintSettle,
     MintFail, opVars, rowVars
<1>idle. ASSUME UNCHANGED vars PROVE ReservationIntegrity'
  BY <1>idle, <1>1 DEF vars, shared, opVars, rowVars
<1> QED
  BY <1>call, <1>execute, <1>reconcile, <1>expire, <1>env, <1>idle DEF Next, Process

LEMMA ReservationInit == Init => ReservationIntegrity
  BY NoneAssumption DEF Init, ReservationIntegrity

\* A reservation is always the whole plan of one executed, unfinished payment.
THEOREM ReservationsAreWhole == Spec => []ReservationIntegrity
<1>1. Types /\ [Next]_vars => Types'
  BY CallsStep, TablesStep, AttachedStep DEF Types
<1> QED
  BY TypesInit, OnceInit, OnceStep, ReservationInit, ReservationStep, <1>1, PTL
  DEF Spec

-----------------------------------------------------------------------------
(* An expired operation was never executed (SQLite)                        *)

\* Where the expiry transaction is atomic, no process stands inside it.
Atomic == \A w \in Procs : pc[w] \notin {"count", "expwrite"}

LEMMA AtomicStep ==
    ~ReadCommitted /\ Types /\ Atomic /\ [Next]_vars => Atomic'
<1> SUFFICES ASSUME ~ReadCommitted, Types, Atomic, [Next]_vars PROVE Atomic'
  OBVIOUS
<1> USE DEF Atomic
<1>1. ASSUME NEW w \in Procs, Process(w) PROVE Atomic'
  <2>1. \A u \in Procs \ {w} : pc'[u] = pc[u]
    BY <1>1, Locality
  <2> USE DEF Types, Calls, Done, Goto, Begin, Throw, ExpireWith
  <2>2. CASE Call(w)
    BY <2>1, <2>2 DEF Call, PrepareSelect, PrepareCreate, ExecuteStart,
       StatusStart, Crash
  <2>3. CASE Execute(w)
    BY <2>1, <2>3 DEF Execute, Reserve, ReserveRefused, SendMelt, SendFail,
       MeltReply, Told, AwaitFail
  <2>4. CASE Reconcile(w)
    BY <2>1, <2>4 DEF Reconcile, CheckQuote, Told, CheckQuoteBad, CheckProofs, Verdict,
       MintUnreachable, Settle, SettleRefused, Release, ReleaseRefused,
       MarkPending, SetUnknown
  <2>5. CASE ExpirePrepared(w)
    BY <2>1, <2>5 DEF ExpirePrepared, ExpireRefused, ExpireAtomic, ExpireRead,
       ExpireCount, ExpireWrite
  <2> QED
    BY <1>1, <2>2, <2>3, <2>4, <2>5 DEF Process
<1>2. CASE \E i \in Intents : Approve(i) \/ Expire(i) \/ Mint(i)
  BY <1>2 DEF Approve, Expire, Mint, MintAccept, MintRefuse, MintSettle,
     MintFail, procVars
<1>3. CASE UNCHANGED vars
  BY <1>3 DEF vars, procVars
<1> QED
  BY <1>1, <1>2, <1>3 DEF Next

\* A row becomes EXPIRED only while it is executable, when by
\* ReservationIntegrity it holds no proof; no other step writes a reservation
\* for a row that is not PREPARED.
LEMMA ExpiryStep ==
    /\ Types /\ ReservationIntegrity /\ Atomic /\ ExpiredNeverExecuted
    /\ [Next]_vars
    => ExpiredNeverExecuted'
<1> SUFFICES ASSUME Types, ReservationIntegrity, Atomic, ExpiredNeverExecuted,
                    [Next]_vars
             PROVE  ExpiredNeverExecuted'
  OBVIOUS
<1> USE NoneAssumption DEF ExpiredNeverExecuted
\* Enough: no new EXPIRED row, no execution, no new reservation.
<1>1. ASSUME \A i \in Intents : opState'[i] = "EXPIRED" => opState[i] = "EXPIRED",
             execCount' = execCount,
             \A p \in Proofs : resv'[p] \in {resv[p], None}
      PROVE  ExpiredNeverExecuted'
  BY <1>1
<1>2. ASSUME NEW w \in Procs, Reserve(w) PROVE ExpiredNeverExecuted'
  <2>1. Job(w) \in Intents
    BY <1>2 DEF Reserve, Types, Calls
  <2> QED
    BY <1>2, <2>1 DEF Reserve, Types, Tables
<1>3. ASSUME NEW w \in Procs, ExpireAtomic(w) PROVE ExpiredNeverExecuted'
  <2>1. Job(w) \in Intents
    BY <1>3 DEF ExpireAtomic, Types, Calls
  <2> DEFINE i == Job(w)
  <2>2. execCount[i] = 0 /\ \A p \in Proofs : resv[p] # i
    BY <1>3, <2>1 DEF ExpireAtomic, Executable, ReservationIntegrity
  <2>3. execCount' = execCount /\ \A p \in Proofs : resv'[p] \in {resv[p], None}
    BY <1>3 DEF ExpireAtomic, ExpireWith, rowVars
  <2>4. \A j \in Intents \ {i} : opState'[j] = opState[j]
    BY <1>3 DEF ExpireAtomic, ExpireWith, Types, Tables
  <2> HIDE DEF i
  <2> QED
    BY <2>1, <2>2, <2>3, <2>4 DEF i
<1>4. ASSUME NEW w \in Procs, PrepareCreate(w) \/ MarkPending(w) \/ SetUnknown(w)
      PROVE  ExpiredNeverExecuted'
  <2>1. Job(w) \in Intents
    BY <1>4 DEF PrepareCreate, MarkPending, SetUnknown, Types, Calls
  <2> QED
    BY <1>1, <1>4, <2>1
    DEF PrepareCreate, MarkPending, SetUnknown, Types, Tables, rowVars
<1>5. ASSUME NEW w \in Procs, Settle(w) \/ Release(w) PROVE ExpiredNeverExecuted'
  <2>1. Job(w) \in Intents
    BY <1>5 DEF Settle, Release, Types, Calls
  <2> QED
    BY <1>1, <1>5, <2>1 DEF Settle, Release, Unreserved, Types, Tables
<1>call. ASSUME NEW w \in Procs, Call(w) PROVE ExpiredNeverExecuted'
  BY <1>call, <1>1, <1>4 DEF Call, PrepareSelect, ExecuteStart, StatusStart,
     Crash, shared, opVars, rowVars
<1>execute. ASSUME NEW w \in Procs, Execute(w) PROVE ExpiredNeverExecuted'
  BY <1>execute, <1>1, <1>2 DEF Execute, ReserveRefused, SendMelt, SendFail,
     MeltReply, Told, AwaitFail, shared, opVars, rowVars
<1>reconcile. ASSUME NEW w \in Procs, Reconcile(w) PROVE ExpiredNeverExecuted'
  BY <1>reconcile, <1>1, <1>4, <1>5
  DEF Reconcile, CheckQuote, Told, CheckQuoteBad, CheckProofs, MintUnreachable,
      SettleRefused, ReleaseRefused, shared, opVars, rowVars
<1>expire. ASSUME NEW w \in Procs, ExpirePrepared(w) PROVE ExpiredNeverExecuted'
  BY <1>expire, <1>1, <1>3
  DEF ExpirePrepared, ExpireRefused, ExpireRead, ExpireCount, ExpireWrite,
      Atomic, shared, opVars, rowVars
<1>env. ASSUME NEW i \in Intents, Approve(i) \/ Expire(i) \/ Mint(i)
        PROVE  ExpiredNeverExecuted'
  BY <1>env, <1>1 DEF Approve, Expire, Mint, MintAccept, MintRefuse, MintSettle,
     MintFail, opVars, rowVars
<1>idle. ASSUME UNCHANGED vars PROVE ExpiredNeverExecuted'
  BY <1>idle, <1>1 DEF vars, shared, opVars, rowVars
<1> QED
  BY <1>call, <1>execute, <1>reconcile, <1>expire, <1>env, <1>idle
  DEF Next, Process

LEMMA ExpiryInit == Init => Atomic /\ ExpiredNeverExecuted
  BY DEF Init, Atomic, ExpiredNeverExecuted

\* Under SQLite, an EXPIRED payment was never executed and holds no proof,
\* whatever the processes that raced for it did.
THEOREM ExpiredIsIdle ==
    ASSUME ~ReadCommitted
    PROVE  Spec => []ExpiredNeverExecuted
<1>1. Types /\ [Next]_vars => Types'
  BY CallsStep, TablesStep, AttachedStep DEF Types
<1>2. Types /\ Atomic /\ [Next]_vars => Atomic'
  BY AtomicStep
<1> QED
  BY TypesInit, OnceInit, OnceStep, ReservationInit, ReservationStep, ExpiryInit,
     ExpiryStep, <1>1, <1>2, PTL
  DEF Spec

-----------------------------------------------------------------------------
(* PAID is real                                                            *)

\* The mint's books: a quote and the inputs of its plan move together, two
\* payments under way share no input, change exists only for a paid quote.
Ledger ==
    /\ \A i \in Intents : \A p \in plan[i] :
         /\ quote[i] = "PAID" => mstat[p] = "SPENT"
         /\ quote[i] = "PENDING" => mstat[p] = "PENDING"
    /\ \A i, j \in Intents :
         quote[i] = "PENDING" /\ quote[j] = "PENDING" /\ i # j
           => plan[i] \cap plan[j] = {}
    /\ \A i \in Intents : mstat[Change[i]] # "NONE" => quote[i] = "PAID"

\* A new plan is stored only for an intent that the mint has not been paid for.
NewPlans ==
    \A w \in Procs : pc[w] = "create" /\ opState[Job(w)] = "NONE"
                     => quote[Job(w)] = "UNPAID"

LEMMA NewPlansHold == Types /\ Once => NewPlans
  BY DEF Types, Tables, Calls, Once, NewPlans

LEMMA LedgerStep == Types /\ NewPlans /\ Ledger /\ [Next]_vars => Ledger'
<1> SUFFICES ASSUME Types, NewPlans, Ledger, [Next]_vars PROVE Ledger'
  OBVIOUS
<1>plans. \A i \in Intents : plan[i] \subseteq Proofs /\ Change[i] \in Proofs
  BY SelectionsAssumption, ChangeAssumption DEF Types, Tables
<1>1. ASSUME UNCHANGED <<plan, quote, mstat>> PROVE Ledger'
  BY <1>1 DEF Ledger
<1>2. ASSUME NEW w \in Procs, PrepareCreate(w) PROVE Ledger'
  <2>1. Job(w) \in Intents
    BY <1>2 DEF PrepareCreate, Types, Calls
  <2>2. opState[Job(w)] = "NONE" => quote[Job(w)] = "UNPAID"
    BY <1>2 DEF PrepareCreate, NewPlans
  <2>3. \A i \in Intents : quote[i] # "UNPAID" => plan'[i] = plan[i]
    BY <1>2, <2>1, <2>2 DEF PrepareCreate, Types, Tables
  <2>4. UNCHANGED <<quote, mstat>>
    BY <1>2 DEF PrepareCreate, mintVars
  <2> QED
    BY <2>3, <2>4 DEF Ledger
<1>3. ASSUME NEW i \in Intents, MintAccept(i) PROVE Ledger'
  <2>1. /\ quote[i] = "UNPAID" /\ \A p \in plan[i] : mstat[p] = "UNSPENT"
        /\ plan' = plan
    BY <1>3 DEF MintAccept, opVars
  <2>2. /\ \A j \in Intents : quote'[j] = IF j = i THEN "PENDING" ELSE quote[j]
        /\ \A p \in Proofs : mstat'[p] = IF p \in plan[i] THEN "PENDING" ELSE mstat[p]
    BY <1>3 DEF MintAccept, MintSet, Types, Tables
  <2>3. \A j \in Intents : quote[j] # "UNPAID" => plan[i] \cap plan[j] = {}
    BY <2>1 DEF Ledger, Types, Tables
  <2> QED
    BY <1>plans, <2>1, <2>2, <2>3 DEF Ledger, Types, Tables
<1>4. ASSUME NEW i \in Intents, MintSettle(i) PROVE Ledger'
  <2>1. quote[i] = "PENDING" /\ plan' = plan
    BY <1>4 DEF MintSettle, opVars
  <2>2. PICK back \in SUBSET {Change[i]} : mstat' =
           [p \in Proofs |-> IF p \in plan[i] THEN "SPENT"
                            ELSE IF p \in back THEN "UNSPENT" ELSE mstat[p]]
    BY <1>4 DEF MintSettle
  <2>3. \A j \in Intents : quote'[j] = IF j = i THEN "PAID" ELSE quote[j]
    BY <1>4 DEF MintSettle, Types, Tables
  <2>4. mstat[Change[i]] = "NONE"
    BY <2>1 DEF Ledger
  <2>5. ASSUME NEW j \in Intents \ {i}, quote[j] # "UNPAID", NEW p \in plan[j]
        PROVE  mstat'[p] = mstat[p] \/ (mstat[p] = "SPENT" /\ mstat'[p] = "SPENT")
    <3>1. p \in Proofs /\ p \notin back
      BY <1>plans, <2>4, <2>5 DEF Ledger, Types, Tables
    <3>2. quote[j] = "PENDING" => p \notin plan[i]
      BY <2>1, <2>5 DEF Ledger
    <3>3. quote[j] = "PAID" => mstat[p] = "SPENT"
      BY DEF Ledger
    <3>4. mstat'[p] = IF p \in plan[i] THEN "SPENT" ELSE mstat[p]
      BY <2>2, <3>1
    <3>5. quote[j] = "PENDING" \/ quote[j] = "PAID"
      BY <2>5 DEF Types, Tables
    <3> QED
      BY <3>2, <3>3, <3>4, <3>5
  <2>6. ASSUME NEW j \in Intents \ {i}, mstat[Change[j]] = "NONE"
        PROVE  mstat'[Change[j]] = "NONE"
    <3>1. Change[j] \notin plan[i] /\ Change[j] \notin back
      BY <2>1, <2>6, ChangeAssumption DEF Ledger
    <3> QED
      BY <1>plans, <2>2, <2>6, <3>1
  <2> QED
    BY <1>plans, <2>1, <2>2, <2>3, <2>5, <2>6 DEF Ledger, Types, Tables
<1>5. ASSUME NEW i \in Intents, MintFail(i) PROVE Ledger'
  <2>1. quote[i] = "PENDING" /\ plan' = plan
    BY <1>5 DEF MintFail, opVars
  <2>2. /\ \A j \in Intents : quote'[j] = IF j = i THEN "UNPAID" ELSE quote[j]
        /\ \A p \in Proofs : mstat'[p] = IF p \in plan[i] THEN "UNSPENT" ELSE mstat[p]
    BY <1>5 DEF MintFail, MintSet, Types, Tables
  <2>3. \A j \in Intents \ {i} : quote[j] # "UNPAID" => plan[i] \cap plan[j] = {}
    BY <2>1 DEF Ledger, Types, Tables
  <2>4. \A p \in plan[i] : mstat[p] = "PENDING"
    BY <2>1 DEF Ledger
  <2> QED
    BY <1>plans, <2>1, <2>2, <2>3, <2>4 DEF Ledger, Types, Tables
<1>call. ASSUME NEW w \in Procs, Process(w) PROVE Ledger'
  BY <1>call, <1>1, <1>2
  DEF Process, Call, Execute, Reconcile, ExpirePrepared, shared, opVars, mintVars,
      PrepareSelect, ExecuteStart, StatusStart, Crash, Reserve, ReserveRefused,
      SendMelt, SendFail, MeltReply, Told, AwaitFail, CheckQuote, CheckQuoteBad,
      CheckProofs, MintUnreachable, Settle, SettleRefused, Release,
      ReleaseRefused, MarkPending, SetUnknown, ExpireRefused, ExpireAtomic,
      ExpireRead, ExpireCount, ExpireWrite, ExpireWith
<1>env. ASSUME NEW i \in Intents, Approve(i) \/ Expire(i) \/ Mint(i) PROVE Ledger'
  BY <1>env, <1>1, <1>3, <1>4, <1>5 DEF Approve, Expire, Mint, MintRefuse, opVars, mintVars
<1> QED
  BY <1>call, <1>env, <1>1 DEF Next, vars, shared, opVars, mintVars

\* A verdict that was heard from the mint stays true: PAID is final there.
Heard ==
    \A w \in Procs : ctx[w].quote = "PAID" \/ pc[w] = "settle"
                     => quote[Job(w)] = "PAID"

LEMMA HeardRest ==
    ASSUME Types, Heard, NEW w \in Procs,
           \A u \in Procs \ {w} : pc'[u] = pc[u] /\ ctx'[u] = ctx[u],
           \A i \in Intents : quote[i] = "PAID" => quote'[i] = "PAID",
           ctx'[w].quote = "PAID" \/ pc'[w] = "settle"
             => quote'[ctx'[w].intent] = "PAID"
    PROVE  Heard'
<1>1. \A u \in Procs : ctx[u].quote = "PAID" \/ pc[u] = "settle" => Job(u) \in Intents
  BY DEF Types, Calls, Blank
<1> QED
  BY <1>1 DEF Heard, Job

LEMMA HeardStep == Types /\ Heard /\ [Next]_vars => Heard'
<1> SUFFICES ASSUME Types, Heard, [Next]_vars PROVE Heard'
  OBVIOUS
<1> USE DEF shared, mintVars
<1>final. \A i \in Intents : quote[i] = "PAID" => quote'[i] = "PAID"
  <2>1. ASSUME NEW i \in Intents, Approve(i) \/ Expire(i) \/ Mint(i) 
        PROVE  \A j \in Intents : quote[j] = "PAID" => quote'[j] = "PAID"
    BY <2>1 DEF Approve, Expire, Mint, MintAccept, MintRefuse, MintSettle,
       MintFail, MintSet, Types, Tables
  <2>2. ASSUME NEW w \in Procs, Process(w) PROVE UNCHANGED quote
    BY <2>2
    DEF Process, Call, Execute, Reconcile, ExpirePrepared, PrepareSelect,
        PrepareCreate, ExecuteStart, StatusStart, Crash, Reserve,
        ReserveRefused, SendMelt, SendFail, MeltReply, Told, AwaitFail, CheckQuote,
        CheckQuoteBad, CheckProofs, MintUnreachable, Settle, SettleRefused,
        Release, ReleaseRefused, MarkPending, SetUnknown, ExpireRefused,
        ExpireAtomic, ExpireRead, ExpireCount, ExpireWrite, ExpireWith
  <2> QED
    BY <2>1, <2>2 DEF Next, vars
<1>quiet. ASSUME UNCHANGED procVars PROVE Heard'
  <2>1. \A u \in Procs : ctx[u].quote = "PAID" \/ pc[u] = "settle" => Job(u) \in Intents
    BY DEF Types, Calls, Blank
  <2> QED
    BY <1>final, <1>quiet, <2>1 DEF Heard, procVars, Job
<1>1. ASSUME NEW w \in Procs, PrepareCreate(w) PROVE Heard'
  <2>1. \A u \in Procs \ {w} : pc'[u] = pc[u] /\ ctx'[u] = ctx[u]
    BY <1>1, Locality DEF Process, Call
  <2>2. pc'[w] = "idle" /\ ctx'[w].quote = "NONE"
    BY <1>1 DEF PrepareCreate, Done, Blank, Types, Calls
  <2> QED
    BY <2>1, <2>2, <1>final, HeardRest
<1>2. ASSUME NEW w \in Procs, Crash(w) PROVE Heard'
  <2>1. \A u \in Procs \ {w} : pc'[u] = pc[u] /\ ctx'[u] = ctx[u]
    BY <1>2, Locality DEF Process, Call
  <2>2. pc'[w] = "idle" /\ ctx'[w].quote = "NONE"
    BY <1>2 DEF Crash, Done, Blank, Types, Calls
  <2> QED
    BY <2>1, <2>2, <1>final, HeardRest
<1>3. ASSUME NEW w \in Procs, ReserveRefused(w) PROVE Heard'
  <2>1. \A u \in Procs \ {w} : pc'[u] = pc[u] /\ ctx'[u] = ctx[u]
    BY <1>3, Locality DEF Process, Execute
  <2>2. pc'[w] = "idle" /\ ctx'[w].quote = "NONE"
    BY <1>3 DEF ReserveRefused, Done, Blank, Types, Calls
  <2> QED
    BY <2>1, <2>2, <1>final, HeardRest
<1>4. ASSUME NEW w \in Procs, Settle(w) PROVE Heard'
  <2>1. \A u \in Procs \ {w} : pc'[u] = pc[u] /\ ctx'[u] = ctx[u]
    BY <1>4, Locality DEF Process, Reconcile
  <2>2. pc'[w] = "idle" /\ ctx'[w].quote = "NONE"
    BY <1>4 DEF Settle, Done, Blank, Types, Calls
  <2> QED
    BY <2>1, <2>2, <1>final, HeardRest
<1>5. ASSUME NEW w \in Procs, Release(w) PROVE Heard'
  <2>1. \A u \in Procs \ {w} : pc'[u] = pc[u] /\ ctx'[u] = ctx[u]
    BY <1>5, Locality DEF Process, Reconcile
  <2>2. pc'[w] = "idle" /\ ctx'[w].quote = "NONE"
    BY <1>5 DEF Release, Done, Blank, Types, Calls
  <2> QED
    BY <2>1, <2>2, <1>final, HeardRest
<1>6. ASSUME NEW w \in Procs, MarkPending(w) PROVE Heard'
  <2>1. \A u \in Procs \ {w} : pc'[u] = pc[u] /\ ctx'[u] = ctx[u]
    BY <1>6, Locality DEF Process, Reconcile
  <2>2. pc'[w] = "idle" /\ ctx'[w].quote = "NONE"
    BY <1>6 DEF MarkPending, Done, Blank, Types, Calls
  <2> QED
    BY <2>1, <2>2, <1>final, HeardRest
<1>7. ASSUME NEW w \in Procs, SetUnknown(w) PROVE Heard'
  <2>1. \A u \in Procs \ {w} : pc'[u] = pc[u] /\ ctx'[u] = ctx[u]
    BY <1>7, Locality DEF Process, Reconcile
  <2>2. pc'[w] = "idle" /\ ctx'[w].quote = "NONE"
    BY <1>7 DEF SetUnknown, Done, Blank, Types, Calls
  <2> QED
    BY <2>1, <2>2, <1>final, HeardRest
<1>8. ASSUME NEW w \in Procs, ExpireRefused(w) PROVE Heard'
  <2>1. \A u \in Procs \ {w} : pc'[u] = pc[u] /\ ctx'[u] = ctx[u]
    BY <1>8, Locality DEF Process, ExpirePrepared
  <2>2. pc'[w] = "idle" /\ ctx'[w].quote = "NONE"
    BY <1>8 DEF ExpireRefused, Done, Blank, Types, Calls
  <2> QED
    BY <2>1, <2>2, <1>final, HeardRest
<1>9. ASSUME NEW w \in Procs, Reserve(w) PROVE Heard'
  <2>1. \A u \in Procs \ {w} : pc'[u] = pc[u] /\ ctx'[u] = ctx[u]
    BY <1>9, Locality DEF Process, Execute
  <2>2. pc'[w] # "settle" /\ ctx'[w] = ctx[w] /\ quote' = quote
    BY <1>9 DEF Reserve, Goto, Types, Calls
  <2> QED
    BY <2>1, <2>2, <1>final, HeardRest DEF Heard, Job
<1>10. ASSUME NEW w \in Procs, SendMelt(w) PROVE Heard'
  <2>1. \A u \in Procs \ {w} : pc'[u] = pc[u] /\ ctx'[u] = ctx[u]
    BY <1>10, Locality DEF Process, Execute
  <2>2. pc'[w] # "settle" /\ ctx'[w] = ctx[w] /\ quote' = quote
    BY <1>10 DEF SendMelt, Goto, Types, Calls
  <2> QED
    BY <2>1, <2>2, <1>final, HeardRest DEF Heard, Job
<1>11. ASSUME NEW w \in Procs, SendFail(w) PROVE Heard'
  <2>1. \A u \in Procs \ {w} : pc'[u] = pc[u] /\ ctx'[u] = ctx[u]
    BY <1>11, Locality DEF Process, Execute
  <2>2. pc'[w] # "settle" /\ ctx'[w] = ctx[w] /\ quote' = quote
    BY <1>11 DEF SendFail, Goto, Types, Calls
  <2> QED
    BY <2>1, <2>2, <1>final, HeardRest DEF Heard, Job
<1>12. ASSUME NEW w \in Procs, AwaitFail(w) PROVE Heard'
  <2>1. \A u \in Procs \ {w} : pc'[u] = pc[u] /\ ctx'[u] = ctx[u]
    BY <1>12, Locality DEF Process, Execute
  <2>2. pc'[w] # "settle" /\ ctx'[w] = ctx[w] /\ quote' = quote
    BY <1>12 DEF AwaitFail, Goto, Types, Calls
  <2> QED
    BY <2>1, <2>2, <1>final, HeardRest DEF Heard, Job
<1>13. ASSUME NEW w \in Procs, MintUnreachable(w) PROVE Heard'
  <2>1. \A u \in Procs \ {w} : pc'[u] = pc[u] /\ ctx'[u] = ctx[u]
    BY <1>13, Locality DEF Process, Reconcile
  <2>2. pc'[w] # "settle" /\ ctx'[w] = ctx[w] /\ quote' = quote
    BY <1>13 DEF MintUnreachable, Goto, Types, Calls
  <2> QED
    BY <2>1, <2>2, <1>final, HeardRest DEF Heard, Job
<1>14. ASSUME NEW w \in Procs, SettleRefused(w) PROVE Heard'
  <2>1. \A u \in Procs \ {w} : pc'[u] = pc[u] /\ ctx'[u] = ctx[u]
    BY <1>14, Locality DEF Process, Reconcile
  <2>2. pc'[w] # "settle" /\ ctx'[w] = ctx[w] /\ quote' = quote
    BY <1>14 DEF SettleRefused, Goto, Types, Calls
  <2> QED
    BY <2>1, <2>2, <1>final, HeardRest DEF Heard, Job
<1>15. ASSUME NEW w \in Procs, ExpireRead(w) PROVE Heard'
  <2>1. \A u \in Procs \ {w} : pc'[u] = pc[u] /\ ctx'[u] = ctx[u]
    BY <1>15, Locality DEF Process, ExpirePrepared
  <2>2. pc'[w] # "settle" /\ ctx'[w] = ctx[w] /\ quote' = quote
    BY <1>15 DEF ExpireRead, Goto, Types, Calls
  <2> QED
    BY <2>1, <2>2, <1>final, HeardRest DEF Heard, Job
<1>16. ASSUME NEW w \in Procs, MeltReply(w) PROVE Heard'
  <2>1. \A u \in Procs \ {w} : pc'[u] = pc[u] /\ ctx'[u] = ctx[u]
    BY <1>16, Locality DEF Process, Execute
  <2>2. /\ pc'[w] # "settle" /\ ctx'[w].intent = Job(w) /\ quote' = quote
        /\ ctx'[w].quote \in {ctx[w].quote, quote[Job(w)], "BAD"}
    BY <1>16 DEF MeltReply, Told, Types, Calls, Contexts, Job
  <2> QED
    BY <2>1, <2>2, <1>final, HeardRest DEF Heard
<1>17. ASSUME NEW w \in Procs, CheckQuote(w) PROVE Heard'
  <2>1. \A u \in Procs \ {w} : pc'[u] = pc[u] /\ ctx'[u] = ctx[u]
    BY <1>17, Locality DEF Process, Reconcile
  <2>2. /\ pc'[w] # "settle" /\ ctx'[w].intent = Job(w) /\ quote' = quote
        /\ ctx'[w].quote \in {ctx[w].quote, quote[Job(w)], "BAD"}
    BY <1>17 DEF CheckQuote, Told, Types, Calls, Contexts, Job
  <2> QED
    BY <2>1, <2>2, <1>final, HeardRest DEF Heard
<1>18. ASSUME NEW w \in Procs, CheckQuoteBad(w) PROVE Heard'
  <2>1. \A u \in Procs \ {w} : pc'[u] = pc[u] /\ ctx'[u] = ctx[u]
    BY <1>18, Locality DEF Process, Reconcile
  <2>2. /\ pc'[w] # "settle" /\ ctx'[w].intent = Job(w) /\ quote' = quote
        /\ ctx'[w].quote \in {ctx[w].quote, quote[Job(w)], "BAD"}
    BY <1>18 DEF CheckQuoteBad, Types, Calls, Contexts, Job
  <2> QED
    BY <2>1, <2>2, <1>final, HeardRest DEF Heard
<1>19. ASSUME NEW w \in Procs, ExpireCount(w) PROVE Heard'
  <2>1. \A u \in Procs \ {w} : pc'[u] = pc[u] /\ ctx'[u] = ctx[u]
    BY <1>19, Locality DEF Process, ExpirePrepared
  <2>2. /\ pc'[w] # "settle" /\ ctx'[w].intent = Job(w) /\ quote' = quote
        /\ ctx'[w].quote \in {ctx[w].quote, quote[Job(w)], "BAD"}
    BY <1>19 DEF ExpireCount, Types, Calls, Contexts, Job
  <2> QED
    BY <2>1, <2>2, <1>final, HeardRest DEF Heard
<1>20. ASSUME NEW w \in Procs, CheckProofs(w) PROVE Heard'
  <2>1. \A u \in Procs \ {w} : pc'[u] = pc[u] /\ ctx'[u] = ctx[u]
    BY <1>20, Locality DEF Process, Reconcile
  <2>2. /\ ctx'[w].intent = Job(w) /\ ctx'[w].quote = "NONE" /\ quote' = quote
    BY <1>20 DEF CheckProofs, Types, Calls, Contexts, Job
  <2>3. pc'[w] = "settle" => ctx[w].quote = "PAID"
    BY <1>20 DEF CheckProofs, Verdict, Types, Calls
  <2> QED
    BY <2>1, <2>2, <2>3, <1>final, HeardRest DEF Heard
<1>21. ASSUME NEW w \in Procs, ReleaseRefused(w) PROVE Heard'
  <2>1. \A u \in Procs \ {w} : pc'[u] = pc[u] /\ ctx'[u] = ctx[u]
    BY <1>21, Locality DEF Process, Reconcile
  <2>2. Job(w) \in Intents
    BY <1>21 DEF ReleaseRefused, Types, Calls
  <2>3. pc'[w] # "settle" /\ ctx'[w].quote = "NONE"
    <3>1. CASE ctx[w].direct
      <4> DEFINE r == Fresh(Job(w), {})
      <4>1. pc' = [pc EXCEPT ![w] = "quote"] /\ ctx' = [ctx EXCEPT ![w] = r]
        BY <1>21, <3>1 DEF ReleaseRefused, Throw
      <4>2. r.quote = "NONE"
        BY DEF Fresh, Blank
      <4> HIDE DEF r
      <4> QED
        BY <4>1, <4>2 DEF Types, Calls
    <3>2. CASE ~ctx[w].direct
      BY <1>21, <3>2 DEF ReleaseRefused, Throw, Done, Blank, Types, Calls
    <3> QED
      BY <3>1, <3>2
  <2> QED
    BY <2>1, <2>3, <1>final, HeardRest
<1>22. ASSUME NEW w \in Procs, ExpireAtomic(w) PROVE Heard'
  <2>1. \A u \in Procs \ {w} : pc'[u] = pc[u] /\ ctx'[u] = ctx[u]
    BY <1>22, Locality DEF Process, ExpirePrepared
  <2>2. /\ pc'[w] # "settle" /\ ctx'[w] \in {ctx[w], Blank} /\ quote' = quote
    BY <1>22 DEF ExpireAtomic, ExpireWith, Done, Goto, Types, Calls
  <2> QED
    BY <2>1, <2>2, <1>final, HeardRest DEF Heard, Job, Blank
<1>23. ASSUME NEW w \in Procs, ExpireWrite(w) PROVE Heard'
  <2>1. \A u \in Procs \ {w} : pc'[u] = pc[u] /\ ctx'[u] = ctx[u]
    BY <1>23, Locality DEF Process, ExpirePrepared
  <2>2. /\ pc'[w] # "settle" /\ ctx'[w] \in {ctx[w], Blank} /\ quote' = quote
    BY <1>23 DEF ExpireWrite, ExpireWith, Done, Goto, Types, Calls
  <2> QED
    BY <2>1, <2>2, <1>final, HeardRest DEF Heard, Job, Blank
<1>24. ASSUME NEW w \in Procs, NEW i \in Intents, ExecuteStart(w, i) PROVE Heard'
  <2>1. \A u \in Procs \ {w} : pc'[u] = pc[u] /\ ctx'[u] = ctx[u]
    BY <1>24, Locality DEF Process, Call
  <2>2. pc'[w] # "settle" /\ ctx'[w].quote = "NONE"
    BY <1>24 DEF ExecuteStart, Begin, Fresh, Blank, Types, Calls
  <2> QED
    BY <2>1, <2>2, <1>final, HeardRest
<1>25. ASSUME NEW w \in Procs, NEW i \in Intents, StatusStart(w, i) PROVE Heard'
  <2>1. \A u \in Procs \ {w} : pc'[u] = pc[u] /\ ctx'[u] = ctx[u]
    BY <1>25, Locality DEF Process, Call
  <2>2. pc'[w] # "settle" /\ ctx'[w].quote = "NONE"
    BY <1>25 DEF StatusStart, Begin, Fresh, Blank, Types, Calls
  <2> QED
    BY <2>1, <2>2, <1>final, HeardRest
<1>26. ASSUME NEW w \in Procs, NEW i \in Intents, NEW S \in Selections, PrepareSelect(w, i, S) PROVE Heard'
  <2>1. \A u \in Procs \ {w} : pc'[u] = pc[u] /\ ctx'[u] = ctx[u]
    BY <1>26, Locality DEF Process, Call
  <2>2. pc'[w] # "settle" /\ ctx'[w].quote = "NONE"
    BY <1>26, SelectionsAssumption DEF PrepareSelect, Fresh, Blank, Types, Calls
  <2> QED
    BY <2>1, <2>2, <1>final, HeardRest
<1> QED
  BY <1>quiet, <1>1, <1>2, <1>3, <1>4, <1>5, <1>6, <1>7, <1>8, <1>9, <1>10, <1>11, <1>12, <1>13, <1>14, <1>15, <1>16, <1>17, <1>18, <1>19, <1>20, <1>21, <1>22, <1>23, <1>24, <1>25, <1>26
  DEF Next, Process, Call, Execute, Reconcile, ExpirePrepared, Mint, vars,
      Approve, Expire, MintAccept, MintRefuse, MintSettle, MintFail

\* The change in a call's memory is change that the mint signed for its intent.
Handed == \A w \in Procs : ctx[w].change \subseteq Issued(Job(w))

\* A step of a call forgets its change, keeps it, or takes in what the mint has
\* signed for the same intent.
LEMMA ChangeInHand ==
    ASSUME Types, NEW w \in Procs, Process(w)
    PROVE  \/ ctx'[w].change = {}
           \/ /\ ctx'[w].intent = ctx[w].intent /\ Job(w) \in Intents
              /\ ctx'[w].change \subseteq ctx[w].change \cup Issued(Job(w))
<1> DEFINE Goal ==
           \/ ctx'[w].change = {}
           \/ /\ ctx'[w].intent = ctx[w].intent /\ Job(w) \in Intents
              /\ ctx'[w].change \subseteq ctx[w].change \cup Issued(Job(w))
<1> SUFFICES Goal
  OBVIOUS
<1>0. ctx \in [Procs -> Contexts] /\ (pc[w] # "idle" => Job(w) \in Intents)
  BY DEF Types, Calls
<1>1. ASSUME Done(w) PROVE Goal
  BY <1>0, <1>1 DEF Done, Blank
<1>2. ASSUME UNCHANGED ctx, pc[w] # "idle" PROVE Goal
  BY <1>0, <1>2
<1>3. ASSUME NEW i, NEW P, ctx' = [ctx EXCEPT ![w] = Fresh(i, P)] PROVE Goal
  <2>1. Fresh(i, P).change = {}
    BY DEF Fresh, Blank
  <2> QED
    BY <1>0, <1>3, <2>1
<1>4. ASSUME NEW d, Told(w, d), pc[w] # "idle" PROVE Goal
  <2>1. PICK change \in SUBSET Issued(Job(w)) :
          ctx' = [ctx EXCEPT ![w].quote = quote[Job(w)], ![w].change = change,
                             ![w].direct = d]
    BY <1>4 DEF Told
  <2>2. ctx'[w].intent = ctx[w].intent /\ ctx'[w].change = change
    BY <1>0, <2>1 DEF Contexts
  <2> QED
    BY <1>0, <1>4, <2>2
\* Another field is written, or the call goes on as it is, fails or returns.
<1>5. ASSUME pc[w] # "idle", ctx'[w].intent = ctx[w].intent,
             ctx'[w].change = ctx[w].change
      PROVE  Goal
  BY <1>0, <1>5
<1>6. CASE CheckQuoteBad(w) \/ CheckProofs(w) \/ ExpireCount(w)
  <2>1. /\ pc[w] # "idle" /\ ctx'[w].intent = ctx[w].intent
        /\ ctx'[w].change = ctx[w].change
    BY <1>0, <1>6 DEF CheckQuoteBad, CheckProofs, ExpireCount, Contexts
  <2> QED
    BY <1>5, <2>1
<1> HIDE DEF Goal
<1>7. CASE Call(w)
  BY <1>1, <1>3, <1>7 DEF Call, PrepareSelect, PrepareCreate, ExecuteStart,
     StatusStart, Crash, Begin
<1>8. CASE Execute(w)
  BY <1>1, <1>2, <1>4, <1>8 DEF Execute, Reserve, ReserveRefused, SendMelt,
     SendFail, MeltReply, AwaitFail, Goto
<1>9. CASE Reconcile(w)
  BY <1>1, <1>2, <1>3, <1>4, <1>6, <1>9 DEF Reconcile, CheckQuote,
     MintUnreachable, Settle, SettleRefused, Release, ReleaseRefused,
     MarkPending, SetUnknown, Throw, Goto
<1>10. CASE ExpirePrepared(w)
  BY <1>1, <1>2, <1>6, <1>10 DEF ExpirePrepared, ExpireRefused, ExpireAtomic,
     ExpireRead, ExpireWrite, ExpireWith, Goto
<1> QED
  BY <1>7, <1>8, <1>9, <1>10 DEF Process

LEMMA HandedStep == Types /\ Handed /\ [Next]_vars => Handed'
<1> SUFFICES ASSUME Types, Handed, [Next]_vars PROVE Handed'
  OBVIOUS
<1>1. \A w \in Procs : ctx[w].change # {} => Job(w) \in Intents
  BY DEF Types, Calls, Blank
\* What the mint signed stays signed.
<1>2. \A i \in Intents : Issued(i) \subseteq Issued(i)'
  <2>1. ASSUME NEW i \in Intents, Mint(i)
        PROVE  \A p \in Proofs : mstat[p] # "NONE" => mstat'[p] # "NONE"
    BY <2>1 DEF Mint, MintAccept, MintRefuse, MintSettle, MintFail, MintSet,
       mintVars, Types, Tables
  <2>2. ASSUME NEW i \in Intents, Approve(i) \/ Expire(i) PROVE UNCHANGED mstat
    BY <2>2 DEF Approve, Expire, mintVars
  <2>3. ASSUME NEW w \in Procs, Process(w) PROVE UNCHANGED mstat
    BY <2>3
    DEF Process, Call, Execute, Reconcile, ExpirePrepared, PrepareSelect,
        PrepareCreate, ExecuteStart, StatusStart, Crash, Reserve,
        ReserveRefused, SendMelt, SendFail, MeltReply, Told, AwaitFail,
        CheckQuote, CheckQuoteBad, CheckProofs, MintUnreachable, Settle,
        SettleRefused, Release, ReleaseRefused, MarkPending, SetUnknown,
        ExpireRefused, ExpireAtomic, ExpireRead, ExpireCount, ExpireWrite,
        ExpireWith, shared, mintVars
  <2>4. \A p \in Proofs : mstat[p] # "NONE" => mstat'[p] # "NONE"
    BY <2>1, <2>2, <2>3 DEF Next, vars, shared, mintVars
  <2> QED
    BY <2>4, ChangeAssumption DEF Issued
<1>3. ASSUME UNCHANGED procVars PROVE Handed'
  BY <1>1, <1>2, <1>3 DEF Handed, Job, procVars
<1>4. ASSUME NEW w \in Procs, Process(w) PROVE Handed'
  <2>1. \A u \in Procs \ {w} : ctx'[u] = ctx[u]
    BY <1>4, Locality
  <2>2. \A u \in Procs \ {w} : ctx'[u].change \subseteq Issued(Job(u))'
    BY <1>1, <1>2, <2>1 DEF Handed, Job
  <2>3. ctx'[w].change \subseteq Issued(Job(w))'
    <3>1. CASE ctx'[w].change = {}
      BY <3>1
    <3>2. CASE /\ Job(w)' = Job(w) /\ Job(w) \in Intents
               /\ ctx'[w].change \subseteq ctx[w].change \cup Issued(Job(w))
      BY <1>2, <3>2 DEF Handed
    <3> QED
      BY <1>4, <3>1, <3>2, ChangeInHand DEF Job
  <2> QED
    BY <2>2, <2>3 DEF Handed
<1> QED
  BY <1>3, <1>4 DEF Next, Mint, vars, Approve, Expire, MintAccept, MintRefuse,
     MintSettle, MintFail

LEMMA PaidStep ==
    Types /\ Once /\ Ledger /\ Heard /\ Handed /\ PaidIsReal /\ [Next]_vars
    => PaidIsReal'
<1> SUFFICES ASSUME Types, Once, Ledger, Heard, Handed, PaidIsReal, [Next]_vars
             PROVE  PaidIsReal'
  OBVIOUS
<1>plans. \A i \in Intents : plan[i] \subseteq Proofs /\ Change[i] \in Proofs
  BY SelectionsAssumption, ChangeAssumption DEF Types, Tables
<1> USE DEF PaidIsReal
\* A spent row stays spent, and a row that exists stays, unless the step is the
\* intent's own: enough for every write but Settle.
<1>1. ASSUME UNCHANGED <<plan, quote, mstat>>,
             \A i \in Intents : opState'[i] = "PAID" => opState[i] = "PAID",
             \A p \in Proofs : /\ pstat[p] = "SPENT" => pstat'[p] = "SPENT"
                               /\ pstat[p] # "ABSENT" => pstat'[p] # "ABSENT"
      PROVE  PaidIsReal'
  BY <1>plans, <1>1
<1>2. ASSUME NEW w \in Procs, PrepareCreate(w) PROVE PaidIsReal'
  <2>1. Job(w) \in Intents
    BY <1>2 DEF PrepareCreate, Types, Calls
  <2> QED
    BY <1>2, <2>1 DEF PrepareCreate, rowVars, mintVars, Types, Tables
<1>3. ASSUME NEW w \in Procs, Reserve(w) PROVE PaidIsReal'
  <2>1. Job(w) \in Intents
    BY <1>3 DEF Reserve, Types, Calls
  <2> QED
    BY <1>3, <2>1, <1>1 DEF Reserve, Available, Free, Mine, rowVars, mintVars, Types, Tables
<1>4. ASSUME NEW w \in Procs, Release(w) PROVE PaidIsReal'
  <2>1. Job(w) \in Intents
    BY <1>4 DEF Release, Types, Calls
  <2> QED
    BY <1>4, <2>1, <1>1 DEF Release, Mine, rowVars, mintVars, Types, Tables
<1>5. ASSUME NEW w \in Procs, MarkPending(w) PROVE PaidIsReal'
  <2>1. Job(w) \in Intents
    BY <1>5 DEF MarkPending, Types, Calls
  <2> QED
    BY <1>5, <2>1, <1>1 DEF MarkPending, rowVars, mintVars, Types, Tables
<1>6. ASSUME NEW w \in Procs, SetUnknown(w) PROVE PaidIsReal'
  <2>1. Job(w) \in Intents
    BY <1>6 DEF SetUnknown, Types, Calls
  <2> QED
    BY <1>6, <2>1, <1>1 DEF SetUnknown, rowVars, mintVars, Types, Tables
<1>7. ASSUME NEW w \in Procs, NEW held, Job(w) \in Intents, ExpireWith(w, held) PROVE PaidIsReal'
  <2>1. UNCHANGED <<plan, quote, mstat>>
    BY <1>7 DEF ExpireWith, mintVars
  <2>2. \A i \in Intents : opState'[i] = "PAID" => opState[i] = "PAID"
    BY <1>7 DEF ExpireWith, Types, Tables
  <2>3. \A p \in Proofs : /\ pstat[p] = "SPENT" => pstat'[p] = "SPENT"
                          /\ pstat[p] # "ABSENT" => pstat'[p] # "ABSENT"
    BY <1>7 DEF ExpireWith, Mine, rowVars
  <2> QED
    BY <1>1, <2>1, <2>2, <2>3
<1>8. ASSUME NEW w \in Procs, Settle(w) PROVE PaidIsReal'
  <2> DEFINE i == Job(w)
  <2>1. i \in Intents /\ quote[i] = "PAID" /\ UNCHANGED <<plan, quote, mstat>>
    BY <1>8 DEF Settle, Heard, Types, Calls, mintVars
  <2>2. \A p \in plan[i] : mstat[p] = "SPENT"
    BY <2>1 DEF Ledger
  <2>3. \A p \in Proofs : pstat'[p] =
          IF p \in plan[i] THEN "SPENT"
          ELSE IF p \in ctx[w].change /\ pstat[p] = "ABSENT" THEN "UNSPENT"
          ELSE pstat[p]
    BY <1>8 DEF Settle
  <2>4. <<i, plan[i]>> \notin Exact => pstat'[Change[i]] # "ABSENT"
    <3>1. <<i, plan[i]>> \notin Exact => ctx[w].change # {}
      BY <1>8 DEF Settle, ReceiptFits
    <3>2. ctx[w].change \subseteq {Change[i]}
      BY DEF Handed, Issued
    <3>3. Change[i] \in ctx[w].change => pstat'[Change[i]] # "ABSENT"
      BY <1>plans, <2>1, <2>3
    <3> QED
      BY <3>1, <3>2, <3>3
  <2>5. \A j \in Intents \ {i} : opState'[j] = opState[j]
    BY <1>8 DEF Settle, Types, Tables
  <2>6. \A p \in Proofs : /\ pstat[p] = "SPENT" => pstat'[p] = "SPENT"
                          /\ pstat[p] # "ABSENT" => pstat'[p] # "ABSENT"
    BY <2>3
  <2> HIDE DEF i
  <2> QED
    BY <1>plans, <2>1, <2>2, <2>3, <2>4, <2>5, <2>6
<1>9. ASSUME NEW i \in Intents, MintAccept(i) PROVE PaidIsReal'
  <2>1. quote[i] # "PAID" /\ UNCHANGED <<plan, opState, pstat>>
    BY <1>9 DEF MintAccept, opVars, rowVars
  <2>2. \A j \in Intents : quote[j] = "PAID" => quote'[j] = "PAID"
    BY <1>9, <2>1 DEF MintAccept, MintSet, Types, Tables
  <2>3. \A p \in Proofs : mstat[p] = "SPENT" => mstat'[p] = "SPENT"
    BY <1>9 DEF MintAccept, MintSet, Types, Tables
  <2> QED
    BY <1>plans, <2>1, <2>2, <2>3
<1>10. ASSUME NEW i \in Intents, MintSettle(i) PROVE PaidIsReal'
  <2>1. quote[i] # "PAID" /\ UNCHANGED <<plan, opState, pstat>>
    BY <1>10 DEF MintSettle, opVars, rowVars
  <2>2. \A j \in Intents : quote[j] = "PAID" => quote'[j] = "PAID"
    BY <1>10, <2>1 DEF MintSettle, MintSet, Types, Tables
  <2>3. mstat[Change[i]] = "NONE" /\ \A p \in plan[i] : mstat[p] = "PENDING"
    BY <1>10, <2>1 DEF MintSettle, Ledger
  <2>4. \A p \in Proofs : mstat[p] = "SPENT" => mstat'[p] = "SPENT"
    BY <1>10, <2>3 DEF MintSettle, Types, Tables
  <2> QED
    BY <1>plans, <2>1, <2>2, <2>4
<1>11. ASSUME NEW i \in Intents, MintFail(i) PROVE PaidIsReal'
  <2>1. quote[i] # "PAID" /\ UNCHANGED <<plan, opState, pstat>>
    BY <1>11 DEF MintFail, opVars, rowVars
  <2>2. \A j \in Intents : quote[j] = "PAID" => quote'[j] = "PAID"
    BY <1>11, <2>1 DEF MintFail, MintSet, Types, Tables
  <2>3. \A p \in plan[i] : mstat[p] = "PENDING"
    BY <1>11 DEF MintFail, Ledger
  <2>4. \A p \in Proofs : mstat[p] = "SPENT" => mstat'[p] = "SPENT"
    BY <1>11, <2>3 DEF MintFail, MintSet, Types, Tables
  <2> QED
    BY <1>plans, <2>1, <2>2, <2>4
<1>call. ASSUME NEW w \in Procs, Call(w) \/ Execute(w) PROVE PaidIsReal'
  BY <1>call, <1>1, <1>2, <1>3
  DEF Call, Execute, shared, opVars, rowVars, mintVars, PrepareSelect,
      ExecuteStart, StatusStart, Crash, ReserveRefused, SendMelt, SendFail,
      MeltReply, Told, AwaitFail
<1>reconcile. ASSUME NEW w \in Procs, Reconcile(w) PROVE PaidIsReal'
  BY <1>reconcile, <1>1, <1>4, <1>5, <1>6, <1>8
  DEF Reconcile, shared, opVars, rowVars, mintVars, CheckQuote, Told, CheckQuoteBad,
      CheckProofs, MintUnreachable, SettleRefused, ReleaseRefused
<1>expire. ASSUME NEW w \in Procs, ExpirePrepared(w) PROVE PaidIsReal'
  <2>1. Job(w) \in Intents
    BY <1>expire DEF ExpirePrepared, ExpireRefused, ExpireAtomic, ExpireRead,
       ExpireCount, ExpireWrite, Types, Calls
  <2> QED
    BY <1>expire, <2>1, <1>1, <1>7
    DEF ExpirePrepared, ExpireRefused, ExpireAtomic, ExpireRead, ExpireCount,
        ExpireWrite, shared, opVars, rowVars, mintVars
<1>env. ASSUME NEW i \in Intents, Approve(i) \/ Expire(i) \/ Mint(i) PROVE PaidIsReal'
  BY <1>env, <1>1, <1>9, <1>10, <1>11
  DEF Approve, Expire, Mint, MintRefuse, opVars, rowVars, mintVars
<1> QED
  BY <1>call, <1>reconcile, <1>expire, <1>env, <1>1
  DEF Next, Process, vars, shared, opVars, rowVars, mintVars

LEMMA PaidInit == Init => Ledger /\ Heard /\ Handed /\ PaidIsReal
  BY ChangeAssumption DEF Init, Ledger, Heard, Handed, PaidIsReal, Blank, Funded

\* The wallet never shows PAID for a payment the mint did not make, and when it
\* does, the inputs are spent on both sides and, unless the plan was exact, the
\* change is in the wallet.
THEOREM PaidMeansPaid == Spec => []PaidIsReal
<1>1. Types /\ [Next]_vars => Types'
  BY CallsStep, TablesStep, AttachedStep DEF Types
<1> QED
  BY TypesInit, OnceInit, OnceStep, PaidInit, NewPlansHold, LedgerStep, HeardStep,
     HandedStep, PaidStep, <1>1, PTL DEF Spec

-----------------------------------------------------------------------------
(* One process: what is decided stays, and the balance is spendable        *)

SoleProcess == \A u, w \in Procs : u = w

\* The wallet claims PAID only for what is paid at the mint.
PaidAtMint == \A i \in Intents : opState[i] = "PAID" => quote[i] = "PAID"

\* What the only call under way may rely on: nobody else decides its operation.
Working ==
    \A w \in Procs :
        /\ pc[w] \in {"send", "await", "quote", "proofs", "settle", "release",
                      "pend"} => opState[Job(w)] # "EXPIRED"
        /\ pc[w] \in {"release", "pend"} => opState[Job(w)] # "PAID"
        /\ pc[w] = "proofs" /\ opState[Job(w)] = "PAID"
             => ctx[w].quote \notin {"UNPAID", "PENDING"}
        /\ pc[w] \in {"count", "expwrite"} => opState[Job(w)] = "PREPARED"

\* It is enough to look at the call itself, and at what it does to its row.
LEMMA WorkingStep ==
    SoleProcess /\ Types /\ PaidAtMint /\ Working /\ [Next]_vars => Working'
<1> SUFFICES ASSUME SoleProcess, Types, PaidAtMint, Working, [Next]_vars
             PROVE  Working'
  OBVIOUS
<1>quiet. ASSUME UNCHANGED <<opState, procVars>> PROVE Working'
  BY <1>quiet DEF Working, Job, procVars
<1> SUFFICES ASSUME NEW w \in Procs, Process(w),
                    pc \in [Procs -> Labels], ctx \in [Procs -> Contexts]
             PROVE  Working'
  BY <1>quiet DEF Next, Types, Calls, vars, shared, opVars, Mint, Approve, Expire,
     MintAccept, MintRefuse, MintSettle, MintFail
\* A call that ends, or awaits what the invariant does not speak of.
<1>1. ASSUME pc'[w] \in {"idle", "create", "reserve", "unknown", "expire"}
      PROVE  Working'
  BY <1>1 DEF SoleProcess, Working
<1>2. CASE Call(w)
  <2>1. ASSUME NEW i \in Intents, StatusStart(w, i) PROVE Working'
    <3>1. /\ pc'[w] \in {"expire", "quote"} /\ ctx'[w].intent = i
          /\ pc'[w] = "quote" => opState'[i] # "EXPIRED"
      BY <2>1 DEF StatusStart, Begin, Fresh, Blank, shared, opVars
    <3> QED
      BY <1>1, <3>1 DEF SoleProcess, Working, Job
  <2>2. ASSUME NEW i \in Intents, ExecuteStart(w, i) PROVE Working'
    BY <1>1, <2>2 DEF ExecuteStart, Begin
  <2>3. ASSUME NEW i \in Intents, NEW S \in Selections, PrepareSelect(w, i, S)
        PROVE  Working'
    BY <1>1, <2>3 DEF PrepareSelect
  <2>4. ASSUME PrepareCreate(w) \/ Crash(w) PROVE Working'
    BY <1>1, <2>4 DEF PrepareCreate, Crash, Done
  <2> QED
    BY <1>2, <2>1, <2>2, <2>3, <2>4 DEF Call
<1>3. CASE Execute(w)
  <2>1. CASE ReserveRefused(w)
    BY <1>1, <2>1 DEF ReserveRefused, Done
  <2>2. CASE Reserve(w)
    <3>1. Job(w) \in Intents
      BY <2>2 DEF Reserve, Types, Calls
    <3>2. pc'[w] = "send" /\ Job(w)' = Job(w) /\ opState'[Job(w)] = "EXECUTING"
      BY <2>2, <3>1 DEF Reserve, Goto, Types, Tables, Job
    <3> QED
      BY <3>2 DEF SoleProcess, Working
  <2>3. CASE SendMelt(w) \/ SendFail(w) \/ AwaitFail(w)
    <3>1. /\ pc[w] \in {"send", "await"} /\ pc'[w] \in {"await", "quote"}
          /\ Job(w)' = Job(w) /\ opState' = opState
      BY <2>3 DEF SendMelt, SendFail, AwaitFail, Goto, shared, opVars, Job
    <3> QED
      BY <3>1 DEF SoleProcess, Working
  <2>4. CASE MeltReply(w)
    <3>1. Job(w) \in Intents
      BY <2>4 DEF MeltReply, Told, Types, Calls
    <3>2. /\ pc[w] = "await" /\ pc'[w] = "proofs" /\ opState' = opState
          /\ Job(w)' = Job(w) /\ ctx'[w].quote = quote[Job(w)]
      BY <2>4 DEF MeltReply, Told, shared, opVars, Job, Contexts
    <3> QED
      BY <3>1, <3>2 DEF SoleProcess, Working, PaidAtMint
  <2> QED
    BY <1>3, <2>1, <2>2, <2>3, <2>4 DEF Execute
<1>4. CASE Reconcile(w)
  <2>1. CASE Settle(w) \/ Release(w) \/ MarkPending(w) \/ SetUnknown(w)
    BY <1>1, <2>1 DEF Settle, Release, MarkPending, SetUnknown, Done
  <2>2. CASE MintUnreachable(w) \/ SettleRefused(w)
    BY <1>1, <2>2 DEF MintUnreachable, SettleRefused, Goto
  <2>3. CASE CheckQuote(w) \/ CheckQuoteBad(w)
    <3>1. Job(w) \in Intents
      BY <2>3 DEF CheckQuote, Told, CheckQuoteBad, Types, Calls
    <3>2. /\ pc[w] = "quote" /\ pc'[w] = "proofs" /\ opState' = opState
          /\ Job(w)' = Job(w) /\ ctx'[w].quote \in {quote[Job(w)], "BAD"}
      <4>1. ctx \in [Procs -> Contexts]
        BY DEF Types, Calls
      <4>2. CASE CheckQuote(w)
        BY <4>1, <4>2 DEF CheckQuote, Told, shared, opVars, Job, Contexts
      <4>3. CASE CheckQuoteBad(w)
        BY <4>1, <4>3 DEF CheckQuoteBad, shared, opVars, Job, Contexts
      <4> QED
        BY <2>3, <4>2, <4>3
    <3> QED
      BY <3>1, <3>2 DEF SoleProcess, Working, PaidAtMint
  <2>4. CASE CheckProofs(w)
    <3>1. /\ pc[w] = "proofs" /\ opState' = opState /\ Job(w)' = Job(w)
          /\ pc'[w] \in {"settle", "release", "pend", "unknown"}
          /\ pc'[w] \in {"release", "pend"} => ctx[w].quote \in {"UNPAID", "PENDING"}
      BY <2>4 DEF CheckProofs, Verdict, shared, opVars, Job, Contexts
    <3> QED
      BY <3>1 DEF SoleProcess, Working
  <2>5. CASE ReleaseRefused(w)
    <3>1. CASE ctx[w].direct
      <4>1. Job(w)' = Fresh(Job(w), {}).intent /\ pc'[w] = "quote"
            /\ pc[w] = "release" /\ opState' = opState
        BY <2>5, <3>1 DEF ReleaseRefused, Throw, Job, shared, opVars
      <4>2. Fresh(Job(w), {}).intent = Job(w)
        BY DEF Fresh, Blank
      <4> QED
        BY <4>1, <4>2 DEF SoleProcess, Working
    <3>2. CASE ~ctx[w].direct
      BY <1>1, <2>5, <3>2 DEF ReleaseRefused, Throw, Done
    <3> QED
      BY <3>1, <3>2
  <2> QED
    BY <1>4, <2>1, <2>2, <2>3, <2>4, <2>5 DEF Reconcile
<1>5. CASE ExpirePrepared(w)
  <2>1. CASE ExpireRefused(w)
    BY <1>1, <2>1 DEF ExpireRefused, Done
  <2>2. ASSUME NEW held, ExpireWith(w, held) PROVE Working'
    BY <1>1, <2>2 DEF ExpireWith, Done, Goto
  <2>3. CASE ExpireRead(w) \/ ExpireCount(w)
    <3>1. /\ pc'[w] \in {"count", "expwrite"} /\ opState' = opState
          /\ Job(w)' = Job(w) /\ opState[Job(w)] = "PREPARED"
      BY <2>3
      DEF ExpireRead, ExpireCount, Executable, Working, Goto, shared, opVars, Job,
          Contexts
    <3> QED
      BY <3>1 DEF SoleProcess, Working
  <2> QED
    BY <1>5, <2>1, <2>2, <2>3 DEF ExpirePrepared, ExpireAtomic, ExpireWrite
<1> QED
  BY <1>2, <1>3, <1>4, <1>5 DEF Process

LEMMA WorkingInit == Init => Working
  BY DEF Init, Working

\* Which rows a step decides anew.
Undecided ==
    \A i \in Intents : opState[i] \in {"PAID", "EXPIRED"} => opState'[i] = opState[i]

LEMMA DecidedStep == Types /\ Working /\ [Next]_vars => [Undecided]_vars
<1> SUFFICES ASSUME Types, Working, [Next]_vars PROVE Undecided
  OBVIOUS
<1>quiet. ASSUME UNCHANGED opState PROVE Undecided
  BY <1>quiet DEF Undecided
<1>1. ASSUME NEW w \in Procs, Process(w) PROVE Undecided
  <2>1. pc[w] # "idle" => Job(w) \in Intents
    BY DEF Types, Calls
  <2>2. CASE PrepareCreate(w) \/ Reserve(w)
    BY <2>1, <2>2 DEF PrepareCreate, Reserve, Executable, Undecided, Types, Tables
  <2>3. CASE Settle(w) \/ Release(w) \/ MarkPending(w) \/ SetUnknown(w)
    BY <2>1, <2>3
    DEF Settle, Release, MarkPending, SetUnknown, Working, Undecided, Types, Tables
  <2>4. CASE ExpireAtomic(w) \/ ExpireWrite(w)
    <3>1. Job(w) \in Intents /\ opState[Job(w)] = "PREPARED"
      BY <2>1, <2>4 DEF ExpireAtomic, ExpireWrite, Executable, Working
    <3>2. \A i \in Intents \ {Job(w)} : opState'[i] = opState[i]
      BY <2>4 DEF ExpireAtomic, ExpireWrite, ExpireWith, Types, Tables
    <3> QED
      BY <3>1, <3>2 DEF Undecided
  <2> QED
    BY <1>1, <1>quiet, <2>2, <2>3, <2>4
    DEF Process, Call, Execute, Reconcile, ExpirePrepared, shared, opVars,
        PrepareSelect, ExecuteStart, StatusStart, Crash, ReserveRefused, SendMelt,
        SendFail, MeltReply, Told, AwaitFail, CheckQuote, CheckQuoteBad, CheckProofs,
        MintUnreachable, SettleRefused, ReleaseRefused, ExpireRefused, ExpireRead,
        ExpireCount
<1>2. ASSUME NEW i \in Intents, Approve(i) \/ Expire(i) \/ Mint(i) PROVE Undecided
  BY <1>2, <1>quiet DEF Approve, Expire, Mint, MintAccept, MintRefuse, MintSettle,
     MintFail, opVars
<1> QED
  BY <1>1, <1>2, <1>quiet DEF Next, vars, shared, opVars

\* With one process, no status call takes PAID or EXPIRED back.
THEOREM DecisionsStand ==
    ASSUME SoleProcess
    PROVE  Spec => DecidedForever
<1>1. Types /\ [Next]_vars => Types'
  BY CallsStep, TablesStep, AttachedStep DEF Types
<1>2. Types /\ PaidIsReal /\ Working /\ [Next]_vars => Working'
  BY WorkingStep DEF PaidIsReal, PaidAtMint
<1> QED
  BY TypesInit, OnceInit, OnceStep, PaidInit, NewPlansHold, LedgerStep, HeardStep,
     HandedStep, PaidStep, WorkingInit, DecidedStep, <1>1, <1>2, PTL
  DEF Spec, DecidedForever, Undecided

\* What makes the balance spendable: the one request under way is for proofs
\* that are reserved, proofs are released only while no request is under way,
\* and change that is not stored yet is in no plan.
Backed ==
    /\ \A i \in wire : \E w \in Procs : pc[w] = "await" /\ Job(w) = i
    /\ \A w \in Procs :
         /\ pc[w] \in {"send", "await"} =>
              \A p \in plan[Job(w)] : resv[p] = Job(w)
         /\ pc[w] = "release" => \A p \in plan[Job(w)] : mstat[p] = "UNSPENT"
         /\ pc[w] = "create" => \A p \in ctx[w].held : pstat[p] # "ABSENT"
    /\ \A i \in Intents : \A p \in plan[i] : pstat[p] # "ABSENT"
    /\ \A p \in Proofs : pstat[p] = "ABSENT" => mstat[p] \in {"NONE", "UNSPENT"}

LEMMA BackedStep ==
    /\ SoleProcess /\ ~LateDelivery
    /\ Types /\ Once /\ ReservationIntegrity /\ Ledger /\ Handed /\ Working
    /\ Backed /\ NoPhantomBalance /\ [Next]_vars
    => Backed' /\ NoPhantomBalance'
<1> SUFFICES ASSUME SoleProcess, ~LateDelivery, Types, Once, ReservationIntegrity,
                    Ledger, Handed, Working, Backed, NoPhantomBalance, [Next]_vars
             PROVE  Backed' /\ NoPhantomBalance'
  OBVIOUS
<1>plans. \A i \in Intents : plan[i] \subseteq Proofs /\ Change[i] \in Proofs
  BY SelectionsAssumption, ChangeAssumption DEF Types, Tables
<1> USE NoneAssumption
<1>idle. ASSUME UNCHANGED <<plan, pstat, resv, mstat, wire, pc, ctx>>
         PROVE  Backed' /\ NoPhantomBalance'
  BY <1>idle DEF Backed, NoPhantomBalance, Free, Job
\* Nothing is under way to the mint unless the call awaits its answer.
<1>wire. ASSUME NEW w \in Procs
         PROVE  wire \subseteq {Job(w)} /\ (pc[w] # "await" => wire = {})
  BY DEF SoleProcess, Backed
\* A step of the call that leaves the rows alone and ends no longer awaiting.
<1>rest. ASSUME NEW w \in Procs, UNCHANGED <<plan, pstat, resv, mstat>>, wire' = {},
                pc'[w] \notin {"send", "await"},
                pc'[w] = "release" =>
                  \A p \in plan[ctx'[w].intent] : mstat[p] = "UNSPENT",
                pc'[w] = "create" => \A p \in ctx'[w].held : pstat[p] # "ABSENT"
         PROVE  Backed' /\ NoPhantomBalance'
  BY <1>rest DEF SoleProcess, Backed, NoPhantomBalance, Free, Job
<1>1. ASSUME NEW w \in Procs, Call(w) PROVE Backed' /\ NoPhantomBalance'
  <2> USE DEF Types, Calls
  <2>1. ASSUME NEW i \in Intents, ExecuteStart(w, i) \/ StatusStart(w, i)
        PROVE  Backed' /\ NoPhantomBalance'
    <3>1. /\ pc[w] = "idle" /\ pc'[w] \in {"expire", "reserve", "quote"}
          /\ UNCHANGED <<plan, pstat, resv, mstat, wire>>
      BY <2>1 DEF ExecuteStart, StatusStart, Begin, shared, opVars, rowVars,
         mintVars, netVars
    <3> QED
      BY <1>wire, <1>rest, <3>1
  <2>2. ASSUME NEW i \in Intents, NEW S \in Selections, PrepareSelect(w, i, S)
        PROVE  Backed' /\ NoPhantomBalance'
    <3>1. /\ pc[w] = "idle" /\ pc'[w] = "create" /\ ctx'[w] = Fresh(i, S)
          /\ UNCHANGED <<plan, pstat, resv, mstat, wire>>
      BY <2>2 DEF PrepareSelect, shared, opVars, rowVars, mintVars, netVars
    <3>2. Fresh(i, S).held = S /\ \A p \in S : pstat[p] # "ABSENT"
      BY <2>2 DEF PrepareSelect, Available, Free, Fresh, Blank
    <3> QED
      BY <1>wire, <1>rest, <3>1, <3>2
  <2>3. ASSUME Crash(w) PROVE Backed' /\ NoPhantomBalance'
    <3>1. /\ pc'[w] = "idle" /\ wire' \subseteq wire
          /\ pc[w] = "await" => wire' = wire \ {Job(w)}
          /\ UNCHANGED <<plan, pstat, resv, mstat>>
      BY <2>3 DEF Crash, Abandon, Done, opVars, rowVars, mintVars
    <3>2. wire' = {}
      BY <1>wire, <3>1
    <3> QED
      BY <1>rest, <3>1, <3>2
  <2>4. ASSUME PrepareCreate(w) PROVE Backed' /\ NoPhantomBalance'
    <3> DEFINE i == Job(w)
    <3>1. i \in Intents /\ pc[w] = "create" /\ wire = {}
      BY <2>4, <1>wire DEF PrepareCreate
    <3>2. /\ pc'[w] = "idle" /\ UNCHANGED <<pstat, resv, mstat, wire>>
          /\ \A j \in Intents : plan'[j] \in {plan[j], ctx[w].held}
      BY <2>4, <3>1 DEF PrepareCreate, Done, rowVars, mintVars, netVars, Tables
    <3>3. \A p \in ctx[w].held : pstat[p] # "ABSENT"
      BY <3>1 DEF Backed
    <3> QED
      BY <3>1, <3>2, <3>3 DEF SoleProcess, Backed, NoPhantomBalance, Free
  <2> QED
    BY <1>1, <2>1, <2>2, <2>3, <2>4 DEF Call
<1>2. ASSUME NEW w \in Procs, Execute(w) PROVE Backed' /\ NoPhantomBalance'
  <2> USE DEF Types, Calls
  <2>1. ASSUME ReserveRefused(w) \/ SendFail(w) \/ MeltReply(w) \/ AwaitFail(w)
        PROVE  Backed' /\ NoPhantomBalance'
    <3>1. /\ pc'[w] \in {"idle", "quote", "proofs"}
          /\ UNCHANGED <<plan, pstat, resv, mstat>>
      BY <2>1 DEF ReserveRefused, SendFail, MeltReply, Told, AwaitFail, Done, Goto, shared,
         opVars, rowVars, mintVars
    <3>2. wire' = {}
      BY <2>1, <1>wire DEF ReserveRefused, SendFail, MeltReply, Told, AwaitFail, Abandon,
         shared, netVars
    <3> QED
      BY <1>rest, <3>1, <3>2
  <2>2. ASSUME Reserve(w) PROVE Backed' /\ NoPhantomBalance'
    <3>1. Job(w) \in Intents /\ pc[w] = "reserve" /\ wire = {}
      BY <2>2, <1>wire DEF Reserve
    <3>2. /\ pc'[w] = "send" /\ Job(w)' = Job(w)
          /\ UNCHANGED <<plan, mstat, wire>>
          /\ \A p \in Proofs :
               /\ pstat'[p] = IF p \in plan[Job(w)] THEN "PENDING" ELSE pstat[p]
               /\ resv'[p] = IF p \in plan[Job(w)] THEN Job(w) ELSE resv[p]
      BY <2>2 DEF Reserve, Goto, Job, mintVars, netVars
    <3> HIDE DEF Types, Calls
    <3> QED
      BY <1>plans, <3>1, <3>2 DEF SoleProcess, Backed, NoPhantomBalance, Free
  <2>3. ASSUME SendMelt(w) PROVE Backed' /\ NoPhantomBalance'
    <3>1. /\ pc[w] = "send" /\ pc'[w] = "await" /\ Job(w)' = Job(w)
          /\ wire' = wire \cup {Job(w)} /\ UNCHANGED <<plan, pstat, resv, mstat>>
      BY <2>3 DEF SendMelt, Goto, Job, opVars, rowVars, mintVars
    <3>2. wire' = {Job(w)}
      BY <1>wire, <3>1
    <3> QED
      BY <3>1, <3>2 DEF SoleProcess, Backed, NoPhantomBalance, Free
  <2> QED
    BY <1>2, <2>1, <2>2, <2>3 DEF Execute
<1>3. ASSUME NEW w \in Procs, Reconcile(w) PROVE Backed' /\ NoPhantomBalance'
  <2> USE DEF Types, Calls
  <2>1. pc[w] # "await" /\ wire = {} /\ wire' = wire /\ UNCHANGED <<plan, mstat>>
    BY <1>3, <1>wire DEF Reconcile, CheckQuote, Told, CheckQuoteBad, CheckProofs,
       MintUnreachable, Settle, SettleRefused, Release, ReleaseRefused, MarkPending,
       SetUnknown, shared, opVars, mintVars, netVars
  <2>2. ASSUME CheckProofs(w) PROVE Backed' /\ NoPhantomBalance'
    <3>1. /\ pc'[w] \in {"settle", "release", "pend", "unknown"}
          /\ ctx'[w].intent = Job(w) /\ UNCHANGED rowVars
          /\ pc'[w] = "release" => {mstat[p] : p \in plan[Job(w)]} = {"UNSPENT"}
      BY <2>2 DEF CheckProofs, Verdict, shared, Job, Contexts
    <3> QED
      BY <1>rest, <2>1, <3>1 DEF rowVars
  <2>3. ASSUME \/ CheckQuote(w) \/ CheckQuoteBad(w) \/ MintUnreachable(w)
               \/ SettleRefused(w) \/ ReleaseRefused(w) \/ MarkPending(w)
               \/ SetUnknown(w)
        PROVE  Backed' /\ NoPhantomBalance'
    <3>1. pc'[w] \in {"idle", "quote", "proofs", "unknown"} /\ UNCHANGED rowVars
      BY <2>3 DEF CheckQuote, Told, CheckQuoteBad, MintUnreachable, SettleRefused,
         ReleaseRefused, MarkPending, SetUnknown, Throw, Done, Goto, shared
    <3> QED
      BY <1>rest, <2>1, <3>1 DEF rowVars
  <2>4. ASSUME Settle(w) PROVE Backed' /\ NoPhantomBalance'
    <3>1. Job(w) \in Intents /\ pc'[w] = "idle"
      BY <2>4 DEF Settle, Done
    <3>2. \A p \in Proofs :
            /\ pstat'[p] = IF p \in plan[Job(w)] THEN "SPENT"
                           ELSE IF p \in ctx[w].change /\ pstat[p] = "ABSENT"
                                THEN "UNSPENT" ELSE pstat[p]
            /\ resv'[p] = IF p \in Mine(Job(w)) THEN None ELSE resv[p]
      BY <2>4 DEF Settle, Unreserved
    <3>3. \A p \in Proofs : /\ p \in ctx[w].change => mstat[p] # "NONE"
                            /\ p \in Mine(Job(w)) => p \in plan[Job(w)]
      BY DEF Handed, Issued, Mine
    <3> HIDE DEF Types, Calls
    <3> QED
      BY <1>plans, <2>1, <3>1, <3>2, <3>3
      DEF SoleProcess, Backed, NoPhantomBalance, Free
  <2>5. ASSUME Release(w) PROVE Backed' /\ NoPhantomBalance'
    <3>1. Job(w) \in Intents /\ pc[w] = "release" /\ pc'[w] = "idle"
      BY <2>5 DEF Release, Done
    <3>2. \A p \in Proofs :
            /\ pstat'[p] = IF p \in plan[Job(w)] THEN "UNSPENT" ELSE pstat[p]
            /\ resv'[p] = IF p \in Mine(Job(w)) THEN None ELSE resv[p]
      BY <2>5 DEF Release, Unreserved
    <3>3. \A p \in Proofs : p \in Mine(Job(w)) => p \in plan[Job(w)]
      BY DEF Mine
    <3>4. \A p \in plan[Job(w)] : mstat[p] = "UNSPENT"
      BY <3>1 DEF Backed
    <3> HIDE DEF Types, Calls
    <3> QED
      BY <1>plans, <2>1, <3>1, <3>2, <3>3, <3>4
      DEF SoleProcess, Backed, NoPhantomBalance, Free
  <2> QED
    BY <1>3, <2>2, <2>3, <2>4, <2>5 DEF Reconcile
<1>4. ASSUME NEW w \in Procs, ExpirePrepared(w) PROVE Backed' /\ NoPhantomBalance'
  <2> USE DEF Types, Calls
  <2>1. /\ wire = {} /\ wire' = wire /\ UNCHANGED <<plan, mstat>>
        /\ pc'[w] \in {"idle", "unknown", "count", "expwrite"}
    BY <1>4, <1>wire DEF ExpirePrepared, ExpireRefused, ExpireAtomic, ExpireRead,
       ExpireCount, ExpireWrite, ExpireWith, Done, Goto, shared, opVars, mintVars,
       netVars
  <2>2. UNCHANGED rowVars
    <3>1. ASSUME NEW held, ExpireWith(w, held), Job(w) \in Intents,
                 opState[Job(w)] = "PREPARED"
          PROVE  UNCHANGED rowVars
      \* A row in PREPARED holds nothing, and its plan is not empty.
      <4>1. Mine(Job(w)) = {} /\ plan[Job(w)] # {}
        BY <3>1, <1>plans DEF Mine, ReservationIntegrity, Tables
      <4> QED
        BY <3>1, <4>1 DEF ExpireWith
    <3> QED
      BY <1>4, <3>1 DEF ExpirePrepared, ExpireRefused, ExpireAtomic, ExpireRead,
         ExpireCount, ExpireWrite, Executable, Working, shared
  <2> QED
    BY <1>rest, <2>1, <2>2 DEF rowVars
<1>5. ASSUME NEW i \in Intents, MintAccept(i) PROVE Backed' /\ NoPhantomBalance'
  <2>1. PICK w \in Procs : pc[w] = "await" /\ Job(w) = i
    BY <1>5 DEF MintAccept, Backed
  <2>2. /\ UNCHANGED <<plan, pstat, resv, pc, ctx>> /\ wire' \subseteq wire
        /\ \A p \in Proofs : mstat'[p] = IF p \in plan[i] THEN "PENDING" ELSE mstat[p]
    BY <1>5 DEF MintAccept, MintSet, opVars, rowVars, procVars
  <2>3. \A p \in plan[i] : resv[p] = i
    BY <2>1 DEF Backed
  <2> QED
    BY <1>plans, <2>1, <2>2, <2>3
    DEF SoleProcess, Backed, NoPhantomBalance, Free, Job
<1>6. ASSUME NEW i \in Intents, MintSettle(i) \/ MintFail(i)
      PROVE  Backed' /\ NoPhantomBalance'
  <2>1. UNCHANGED <<plan, pstat, resv, pc, ctx, wire>> /\ quote[i] = "PENDING"
    BY <1>6 DEF MintSettle, MintFail, opVars, rowVars, netVars, procVars
  <2>2. \A p \in Proofs :
          /\ p \in plan[i] => mstat'[p] \in {"SPENT", "UNSPENT"}
          /\ p \notin plan[i] => mstat'[p] \in {mstat[p], "UNSPENT"}
    BY <1>6 DEF MintSettle, MintFail, MintSet
  <2>3. \A p \in plan[i] : mstat[p] = "PENDING"
    BY <2>1 DEF Ledger
  <2>4. ASSUME NEW w \in Procs, pc[w] = "release", NEW p \in plan[Job(w)]
        PROVE  mstat'[p] = "UNSPENT"
    <3>1. Job(w) \in Intents
      BY <2>4 DEF Types, Calls
    <3> QED
      BY <1>plans, <2>2, <2>3, <2>4, <3>1 DEF Backed
  <2> QED
    BY <1>plans, <2>1, <2>2, <2>3, <2>4 DEF Backed, NoPhantomBalance, Free, Job
<1>7. ASSUME NEW i \in Intents, MintRefuse(i) \/ Approve(i) \/ Expire(i)
      PROVE  Backed' /\ NoPhantomBalance'
  <2>1. UNCHANGED <<plan, pstat, resv, mstat, pc, ctx>> /\ wire' \subseteq wire
    BY <1>7 DEF MintRefuse, Approve, Expire, opVars, rowVars, mintVars, netVars,
       procVars
  <2> QED
    BY <2>1 DEF Backed, NoPhantomBalance, Free, Job
<1> QED
  BY <1>1, <1>2, <1>3, <1>4, <1>5, <1>6, <1>7, <1>idle
  DEF Next, Process, Mint, vars, shared, opVars, rowVars, mintVars, netVars, procVars

LEMMA BackedInit == Init => Backed /\ NoPhantomBalance
  BY DEF Init, Backed, NoPhantomBalance, Free, Funded

\* With one process and no late requests, every proof that the wallet counts as
\* balance can be spent at the mint, whatever crashes, is lost or is refused.
THEOREM BalanceIsSpendable ==
    ASSUME SoleProcess, ~LateDelivery
    PROVE  Spec => []NoPhantomBalance
<1>1. Types /\ [Next]_vars => Types'
  BY CallsStep, TablesStep, AttachedStep DEF Types
<1>2. Types /\ PaidIsReal /\ Working /\ [Next]_vars => Working'
  BY WorkingStep DEF PaidIsReal, PaidAtMint
<1>3. /\ Types /\ Once /\ ReservationIntegrity /\ Ledger /\ Handed /\ Working
      /\ Backed /\ NoPhantomBalance /\ [Next]_vars
      => Backed' /\ NoPhantomBalance'
  BY BackedStep
<1> QED
  BY TypesInit, OnceInit, OnceStep, ReservationInit, ReservationStep, PaidInit,
     NewPlansHold, LedgerStep, HeardStep, HandedStep, PaidStep, WorkingInit,
     BackedInit, <1>1, <1>2, <1>3, PTL
  DEF Spec

-----------------------------------------------------------------------------
(* The service implements OneShot                                          *)

StageMap == [i \in Intents |-> Stage(i)]
Refined == OneShotPayment!Next \/ UNCHANGED <<StageMap, plan>>

\* One intent advances, the others stay: an abstract step.
LEMMA AdvanceStep ==
    ASSUME NEW i \in Intents, NEW from, NEW to,
           Stage(i) = from, Stage(i)' = to,
           \A j \in Intents \ {i} : Stage(j)' = Stage(j)
    PROVE  OneShotPayment!Advance(i, from, to)
  BY DEF OneShotPayment!Advance

LEMMA StageStep == Types /\ Once /\ [Next]_vars => Refined
<1> SUFFICES ASSUME Types, Once, [Next]_vars PROVE Refined
  OBVIOUS
<1>1. ASSUME UNCHANGED <<plan, posts, execCount, approved>>,
             \A i \in Intents : opState'[i] = "NONE" <=> opState[i] = "NONE",
             \A i \in Intents : quote'[i] = "PAID" <=> quote[i] = "PAID"
      PROVE  Refined
  BY <1>1 DEF Refined, StageMap, Stage
<1>2. ASSUME NEW w \in Procs, PrepareCreate(w) PROVE Refined
  <2>1. PICK i \in Intents : i = Job(w) /\ ctx[w].held \in Selections
    BY <1>2 DEF PrepareCreate, Types, Calls
  <2>2. UNCHANGED <<posts, execCount, approved, quote>>
    BY <1>2 DEF PrepareCreate, envVars, mintVars, netVars
  <2>3. CASE opState[i] # "NONE"
    BY <1>2, <1>1, <2>1, <2>2, <2>3 DEF PrepareCreate
  <2>4. CASE opState[i] = "NONE"
    <3>1. /\ opState' = [opState EXCEPT ![i] = "PREPARED"]
          /\ plan' = [plan EXCEPT ![i] = ctx[w].held]
      BY <1>2, <2>1, <2>4 DEF PrepareCreate
    <3>2. posts[i] = 0 /\ execCount[i] = 0 /\ i \notin approved /\ quote[i] # "PAID"
      BY <2>1, <2>4 DEF Once, Types, Tables
    <3>3. Stage(i) = "absent" /\ Stage(i)' = "prepared"
      BY <2>1, <2>2, <2>4, <3>1, <3>2 DEF Stage, Types, Tables
    <3>4. \A j \in Intents \ {i} : Stage(j)' = Stage(j)
      BY <2>2, <3>1 DEF Stage, Types, Tables
    <3>5. OneShotPayment!Prepare(i, ctx[w].held)
      BY <2>1, <3>1, <3>3, <3>4, AdvanceStep DEF OneShotPayment!Prepare
    <3> QED
      BY <2>1, <3>5 DEF Refined, OneShotPayment!Next
  <2> QED
    BY <2>3, <2>4
<1>3. ASSUME NEW w \in Procs, Reserve(w) PROVE Refined
  <2>1. PICK i \in Intents : i = Job(w)
    BY <1>3 DEF Reserve, Types, Calls
  <2>2. quote[i] # "PAID" /\ posts[i] = 0 /\ execCount[i] = 0 /\ i \in approved
    BY <1>3, <2>1 DEF Reserve, Once, Types, Tables, Executable
  <2>3. Stage(i) = "approved" /\ Stage(i)' = "committed"
    BY <1>3, <2>1, <2>2 DEF Reserve, Stage, Types, Tables, opVars, envVars, mintVars, netVars
  <2>4. \A j \in Intents \ {i} : Stage(j)' = Stage(j)
    BY <1>3, <2>1 DEF Reserve, Stage, Types, Tables, opVars, envVars, mintVars, netVars
  <2>5. plan' = plan
    BY <1>3 DEF Reserve, opVars
  <2> QED
    BY <2>1, <2>3, <2>4, <2>5, AdvanceStep DEF Refined, OneShotPayment!Next, OneShotPayment!Commit
<1>4. ASSUME NEW w \in Procs, SendMelt(w) PROVE Refined
  <2>1. PICK i \in Intents : i = Job(w)
    BY <1>4 DEF SendMelt, Types, Calls
  <2>2. quote[i] # "PAID" /\ posts[i] = 0 /\ execCount[i] = 1
    BY <1>4, <2>1 DEF SendMelt, Once, Types, Tables
  <2>3. Stage(i) = "committed" /\ Stage(i)' = "posted"
    BY <1>4, <2>1, <2>2 DEF SendMelt, Stage, Types, Tables, opVars, envVars, mintVars, netVars
  <2>4. \A j \in Intents \ {i} : Stage(j)' = Stage(j)
    BY <1>4, <2>1 DEF SendMelt, Stage, Types, Tables, opVars, envVars, mintVars, netVars
  <2>5. plan' = plan
    BY <1>4 DEF SendMelt, opVars
  <2> QED
    BY <2>1, <2>3, <2>4, <2>5, AdvanceStep DEF Refined, OneShotPayment!Next, OneShotPayment!Post
<1>5. ASSUME NEW i \in Intents, Approve(i) PROVE Refined
  <2>1. i \in Intents
    OBVIOUS
  <2>2. quote[i] # "PAID" /\ posts[i] = 0 /\ execCount[i] = 0 /\ opState[i] # "NONE"
    BY <1>5, <2>1 DEF Approve, Once, Types, Tables
  <2>3. Stage(i) = "prepared" /\ Stage(i)' = "approved"
    BY <1>5, <2>1, <2>2 DEF Approve, Stage, Types, Tables, opVars, envVars, mintVars, netVars
  <2>4. \A j \in Intents \ {i} : Stage(j)' = Stage(j)
    BY <1>5, <2>1 DEF Approve, Stage, Types, Tables, opVars, envVars, mintVars, netVars
  <2>5. plan' = plan
    BY <1>5 DEF Approve, opVars
  <2> QED
    BY <2>1, <2>3, <2>4, <2>5, AdvanceStep DEF Refined, OneShotPayment!Next, OneShotPayment!Approve
<1>6. ASSUME NEW i \in Intents, MintSettle(i) PROVE Refined
  <2>1. i \in Intents
    OBVIOUS
  <2>2. quote[i] # "PAID" /\ posts[i] = 1
    BY <1>6, <2>1 DEF MintSettle, Once, Types, Tables
  <2>3. Stage(i) = "posted" /\ Stage(i)' = "performed"
    BY <1>6, <2>1, <2>2 DEF MintSettle, Stage, Types, Tables, opVars, envVars, mintVars, netVars
  <2>4. \A j \in Intents \ {i} : Stage(j)' = Stage(j)
    BY <1>6, <2>1 DEF MintSettle, Stage, Types, Tables, opVars, envVars, mintVars, netVars
  <2>5. plan' = plan
    BY <1>6 DEF MintSettle, opVars
  <2> QED
    BY <2>1, <2>3, <2>4, <2>5, AdvanceStep DEF Refined, OneShotPayment!Next, OneShotPayment!Perform
<1>7. ASSUME NEW i \in Intents, MintAccept(i) PROVE Refined
  <2>1. UNCHANGED <<plan, posts, execCount, approved, opState>>
    BY <1>7 DEF MintAccept, opVars, envVars, netVars
  <2>2. \A j \in Intents : quote'[j] = "PAID" <=> quote[j] = "PAID"
    BY <1>7 DEF MintAccept, MintSet, Types, Tables
  <2> QED
    BY <1>1, <2>1, <2>2
<1>8. ASSUME NEW i \in Intents, MintFail(i) PROVE Refined
  <2>1. UNCHANGED <<plan, posts, execCount, approved, opState>>
    BY <1>8 DEF MintFail, opVars, envVars, netVars
  <2>2. \A j \in Intents : quote'[j] = "PAID" <=> quote[j] = "PAID"
    BY <1>8 DEF MintFail, MintSet, Types, Tables
  <2> QED
    BY <1>1, <2>1, <2>2
<1>9. ASSUME NEW w \in Procs, Settle(w) PROVE Refined
  <2>1. Job(w) \in Intents /\ opState[Job(w)] # "NONE"
    BY <1>9 DEF Settle, Types, Calls, Attached
  <2>2. UNCHANGED <<plan, posts, execCount, approved, quote>>
    BY <1>9 DEF Settle, envVars, mintVars, netVars
  <2>3. \A i \in Intents : opState'[i] = "NONE" <=> opState[i] = "NONE"
    BY <1>9, <2>1 DEF Settle, Types, Tables
  <2> QED
    BY <1>1, <2>2, <2>3
<1>10. ASSUME NEW w \in Procs, Release(w) PROVE Refined
  <2>1. Job(w) \in Intents /\ opState[Job(w)] # "NONE"
    BY <1>10 DEF Release, Types, Calls, Attached
  <2>2. UNCHANGED <<plan, posts, execCount, approved, quote>>
    BY <1>10 DEF Release, envVars, mintVars, netVars
  <2>3. \A i \in Intents : opState'[i] = "NONE" <=> opState[i] = "NONE"
    BY <1>10, <2>1 DEF Release, Types, Tables
  <2> QED
    BY <1>1, <2>2, <2>3
<1>11. ASSUME NEW w \in Procs, MarkPending(w) PROVE Refined
  <2>1. Job(w) \in Intents /\ opState[Job(w)] # "NONE"
    BY <1>11 DEF MarkPending, Types, Calls, Attached
  <2>2. UNCHANGED <<plan, posts, execCount, approved, quote>>
    BY <1>11 DEF MarkPending, envVars, mintVars, netVars
  <2>3. \A i \in Intents : opState'[i] = "NONE" <=> opState[i] = "NONE"
    BY <1>11, <2>1 DEF MarkPending, Types, Tables
  <2> QED
    BY <1>1, <2>2, <2>3
<1>12. ASSUME NEW w \in Procs, SetUnknown(w) PROVE Refined
  <2>1. Job(w) \in Intents /\ opState[Job(w)] # "NONE"
    BY <1>12 DEF SetUnknown, Types, Calls, Attached
  <2>2. UNCHANGED <<plan, posts, execCount, approved, quote>>
    BY <1>12 DEF SetUnknown, envVars, mintVars, netVars
  <2>3. \A i \in Intents : opState'[i] = "NONE" <=> opState[i] = "NONE"
    BY <1>12, <2>1 DEF SetUnknown, Types, Tables
  <2> QED
    BY <1>1, <2>2, <2>3
<1>13. ASSUME NEW w \in Procs, NEW held, Job(w) \in Intents, opState[Job(w)] # "NONE", ExpireWith(w, held) PROVE Refined
  <2>1. UNCHANGED <<plan, posts, execCount, approved, quote>>
    BY <1>13 DEF ExpireWith, envVars, mintVars, netVars
  <2>2. \A i \in Intents : opState'[i] = "NONE" <=> opState[i] = "NONE"
    BY <1>13 DEF ExpireWith, Types, Tables
  <2> QED
    BY <1>1, <2>1, <2>2
<1>quiet. ASSUME UNCHANGED <<opVars, approved, quote, posts>> PROVE Refined
  BY <1>quiet, <1>1 DEF opVars
<1>call. ASSUME NEW w \in Procs, Call(w) \/ Execute(w) PROVE Refined
  BY <1>call, <1>quiet, <1>2, <1>3, <1>4
  DEF Call, Execute, shared, envVars, mintVars, netVars, PrepareSelect,
      ExecuteStart, StatusStart, Crash, ReserveRefused, SendFail, MeltReply, Told,
      AwaitFail
<1>reconcile. ASSUME NEW w \in Procs, Reconcile(w) PROVE Refined
  BY <1>reconcile, <1>quiet, <1>9, <1>10, <1>11, <1>12
  DEF Reconcile, shared, envVars, mintVars, netVars, CheckQuote, Told, CheckQuoteBad,
      CheckProofs, MintUnreachable, SettleRefused, ReleaseRefused
<1>expire. ASSUME NEW w \in Procs, ExpirePrepared(w) PROVE Refined
  <2>1. Job(w) \in Intents /\ opState[Job(w)] # "NONE"
    BY <1>expire DEF ExpirePrepared, ExpireRefused, ExpireAtomic, ExpireRead,
       ExpireCount, ExpireWrite, Types, Calls, Attached
  <2> QED
    BY <1>expire, <2>1, <1>quiet, <1>13
    DEF ExpirePrepared, ExpireRefused, ExpireAtomic, ExpireRead, ExpireCount,
        ExpireWrite, shared, envVars, mintVars, netVars
<1>env. ASSUME NEW i \in Intents, Approve(i) \/ Expire(i) \/ Mint(i) PROVE Refined
  BY <1>env, <1>quiet, <1>5, <1>6, <1>7, <1>8 DEF Expire, Mint, MintRefuse,
     envVars, mintVars, netVars
<1>idle. ASSUME UNCHANGED vars PROVE Refined
  BY <1>idle, <1>quiet DEF vars, shared, envVars, mintVars, netVars
<1> QED
  BY <1>call, <1>reconcile, <1>expire, <1>env, <1>idle DEF Next, Process

LEMMA StageInit == Init => OneShotPayment!Init
  BY DEF Init, Stage, OneShotPayment!Init

\* The service implements the one-shot operation: planned, approved, committed,
\* posted and performed in this order, each once, with an unchanging plan.
THEOREM OneShotImplemented == Spec => ImplementsOneShot
<1>1. Types /\ [Next]_vars => Types'
  BY CallsStep, TablesStep, AttachedStep DEF Types
<1>2. Refined => [OneShotPayment!Next]_<<StageMap, plan>>
  BY DEF Refined
<1> QED
  BY TypesInit, OnceInit, OnceStep, StageInit, StageStep, <1>1, <1>2, PTL
  DEF Spec, ImplementsOneShot, OneShotPayment!Spec, StageMap
=============================================================================
