--------------------------- MODULE SplitMintProofs ---------------------------
(***************************************************************************)
(* What holds of the receive for any number of processes and intents, any  *)
(* amounts and limit, under either isolation level, with or without late   *)
(* delivery.                                                               *)
(*                                                                         *)
(* One inductive invariant carries all theorems.  Rows relates the tables, *)
(* Sound(w) says what a call may rely on at the await it stands at - facts *)
(* that no other process can take back - and Apart keeps two calls from    *)
(* asking for the same quote or posting the same outputs.                  *)
(*                                                                         *)
(* Three facts hold while calls do not overlap.  Restorable says that      *)
(* posted outputs stay stored until their proofs are; Settled says which   *)
(* rows are past changing; and Shares bounds the sum over the proofs held  *)
(* and the receives that may still bring some, for which the lemmas about  *)
(* Total (sums over finite sets) are stated and proved first.              *)
(***************************************************************************)
EXTENDS SplitMint, TLAPS, FiniteSetTheorems

Tables ==
    /\ opState \in [Intents -> OpStates]
    /\ execCount \in [Intents -> Nat]
    /\ outputs \in [Intents -> {"NONE", "STORED", "ERASED"}]
    /\ coin \in [Intents -> {"ABSENT", "UNSPENT", "PENDING", "SPENT"}]
    /\ approved \subseteq Intents /\ expired \subseteq Intents
    /\ quote \in [Intents -> {"NONE", "UNPAID", "PAID", "ISSUED"}]
    /\ wire \subseteq Intents
    /\ posts \in [Intents -> Nat]

Paid(i) == quote[i] \in {"PAID", "ISSUED"}

Rows ==
    \A i \in Intents :
        /\ opState[i] = "NONE" => quote[i] = "NONE"
        /\ outputs[i] # "NONE" => quote[i] # "NONE"
        /\ opState[i] \in {"PREPARED", "PAID"} \/ i \in approved
             => outputs[i] # "NONE"
        /\ posts[i] <= execCount[i] /\ execCount[i] <= 1
        /\ execCount[i] = 1 => i \in approved /\ Paid(i)
        /\ opState[i] = "PAID" => Paid(i)
        /\ i \in wire \/ quote[i] = "ISSUED" => posts[i] = 1
        /\ coin[i] # "ABSENT" => quote[i] = "ISSUED"
        /\ opState[i] = "ISSUED" => coin[i] # "ABSENT"

\* What a call may rely on while it waits.
Sound(w) ==
    LET i == Job(w) IN
    /\ IF pc[w] = "idle" THEN ctx[w] = Blank ELSE i \in Intents
    /\ pc[w] = "ask" => opState[i] # "NONE" /\ quote[i] = "NONE"
    /\ pc[w] = "store" => quote[i] # "NONE" /\ opState[i] # "NONE"
    /\ pc[w] = "unknown" => opState[i] # "NONE"
    /\ pc[w] \notin {"idle", "ask", "store", "unknown"} => outputs[i] # "NONE"
    /\ pc[w] = "paid" => Paid(i)
    /\ pc[w] \in {"save", "saving"} => quote[i] = "ISSUED"
    /\ pc[w] \in {"reread", "expire", "reserve"} => ctx[w].goal = "execute"
    /\ ctx[w].goal = "execute" => i \in approved
    /\ pc[w] \in {"load", "send"} => execCount[i] = 1 /\ posts[i] = 0

Apart ==
    \A u, w \in Procs : u # w /\ Job(u) = Job(w) =>
        /\ ~(pc[u] = "ask" /\ pc[w] = "ask")
        /\ ~(pc[u] \in {"load", "send"} /\ pc[w] \in {"load", "send"})

Calls ==
    /\ pc \in [Procs -> Labels] /\ ctx \in [Procs -> Contexts]
    /\ \A w \in Procs : Sound(w)
    /\ Apart

Inv == Tables /\ Rows /\ Calls

-----------------------------------------------------------------------------
(* Steps of one process                                                    *)

\* The process that moves is w.
Moves(w) ==
    /\ pc' \in [Procs -> Labels] /\ ctx' \in [Procs -> Contexts]
    /\ \A u \in Procs \ {w} : pc'[u] = pc[u] /\ ctx'[u] = ctx[u]

LEMMA BlankTyped == Blank \in Contexts /\ Blank.goal = "reconcile"
  BY DEF Blank, Contexts

LEMMA RowTyped ==
    ASSUME Tables, NEW i \in Intents, NEW g \in {"reconcile", "execute", "mint"}
    PROVE  Row(i, g) \in Contexts /\ Row(i, g).intent = i /\ Row(i, g).goal = g
  BY DEF Row, Contexts, Tables

LEMMA GotoMoves ==
    ASSUME Calls, NEW w \in Procs, NEW l \in Labels, Goto(w, l)
    PROVE  Moves(w) /\ pc'[w] = l /\ ctx'[w] = ctx[w] /\ Job(w)' = Job(w)
  BY DEF Goto, Moves, Calls, Job

LEMMA ReadMoves ==
    ASSUME Tables, Calls, NEW w \in Procs, NEW l \in Labels, NEW i \in Intents,
           NEW g \in {"reconcile", "execute", "mint"}, Read(w, i, g, l)
    PROVE  Moves(w) /\ pc'[w] = l /\ Job(w)' = i /\ ctx'[w].goal = g
<1> DEFINE r == Row(i, g)
<1>1. r \in Contexts /\ r.intent = i /\ r.goal = g
  BY RowTyped
<1>2. pc' = [pc EXCEPT ![w] = l] /\ ctx' = [ctx EXCEPT ![w] = r]
  BY DEF Read
<1> HIDE DEF r
<1> QED
  BY <1>1, <1>2 DEF Moves, Calls, Job

LEMMA DoneMoves ==
    ASSUME Calls, NEW w \in Procs, Done(w)
    PROVE  Moves(w) /\ pc'[w] = "idle" /\ ctx'[w] = Blank
  BY BlankTyped DEF Done, Moves, Calls, Labels

LEMMA CatchMoves ==
    ASSUME Calls, NEW w \in Procs, Catch(w)
    PROVE  /\ Moves(w) /\ pc'[w] = "check" /\ Job(w)' = Job(w)
           /\ ctx'[w].goal = "reconcile"
  BY DEF Catch, Moves, Calls, Labels, Contexts, Job

\* Nothing a call relies on is taken back, and only the call that is about to
\* ask for a quote, or to post outputs, touches them.
Kept(w) ==
    \A i \in Intents :
        /\ opState[i] # "NONE" => opState'[i] # "NONE"
        /\ outputs[i] # "NONE" => outputs'[i] # "NONE"
        /\ quote[i] # "NONE" => quote'[i] # "NONE"
        /\ Paid(i) => Paid(i)'
        /\ quote[i] = "ISSUED" => quote'[i] = "ISSUED"
        /\ i \in approved => i \in approved'
        /\ execCount[i] = 1 => execCount'[i] = 1
        /\ quote[i] = "NONE" => quote'[i] = "NONE"
                                \/ (pc[w] = "ask" /\ Job(w) = i)
        /\ posts'[i] = posts[i] \/ (pc[w] = "send" /\ Job(w) = i)

LEMMA CallsStep ==
    ASSUME Inv, NEW w \in Procs, Moves(w), Kept(w), Sound(w)',
           pc'[w] = "ask" => opState[ctx'[w].intent] = "NONE",
           pc'[w] \in {"load", "send"} =>
               \/ execCount[ctx'[w].intent] = 0
               \/ pc[w] = "load" /\ Job(w)' = Job(w)
    PROVE  Calls'
<1>1. ASSUME NEW u \in Procs \ {w} PROVE Sound(u)'
  <2>1. Sound(u) /\ pc'[u] = pc[u] /\ ctx'[u] = ctx[u] /\ Job(u)' = Job(u)
    BY DEF Inv, Calls, Moves, Job
  <2>2. CASE pc[u] = "idle"
    BY <2>1, <2>2, BlankTyped DEF Sound, Job
  <2>3. CASE pc[u] # "idle"
    <3>1. Job(u) \in Intents
      BY <2>1, <2>3 DEF Sound
    <3>2. Job(u) = Job(w) => /\ ~(pc[u] = "ask" /\ pc[w] = "ask")
                            /\ ~(pc[u] \in {"load", "send"} /\ pc[w] = "send")
      BY DEF Inv, Calls, Apart
    <3> QED
      BY <2>1, <2>3, <3>1, <3>2 DEF Sound, Kept
  <2> QED
    BY <2>2, <2>3
<1>2. Apart'
  <2>1. ASSUME NEW u \in Procs \ {w}, Job(u)' = Job(w)'
        PROVE  /\ ~(pc'[u] = "ask" /\ pc'[w] = "ask")
               /\ ~(pc'[u] \in {"load", "send"} /\ pc'[w] \in {"load", "send"})
    <3>1. /\ Sound(u) /\ pc'[u] = pc[u] /\ Job(u) = ctx'[w].intent
          /\ Job(u) = Job(w) => ~(pc[u] \in {"load", "send"} /\ pc[w] = "load")
      BY <2>1 DEF Inv, Calls, Moves, Job, Apart
    <3> QED
      BY <3>1 DEF Sound, Job
  <2>2. ASSUME NEW u \in Procs \ {w}, NEW v \in Procs \ {w}, u # v, Job(u)' = Job(v)'
        PROVE  /\ ~(pc'[u] = "ask" /\ pc'[v] = "ask")
               /\ ~(pc'[u] \in {"load", "send"} /\ pc'[v] \in {"load", "send"})
    BY <2>2 DEF Inv, Calls, Moves, Job, Apart
  <2> QED
    BY <2>1, <2>2 DEF Apart
<1> QED
  BY <1>1, <1>2 DEF Calls, Moves

\* A step that only moves its process.
LEMMA QuietStep ==
    ASSUME Inv, NEW w \in Procs, UNCHANGED shared, Moves(w), Sound(w)',
           pc'[w] \notin {"ask", "load"},
           pc'[w] = "send" => pc[w] = "load" /\ Job(w)' = Job(w)
    PROVE  Inv'
<1>1. Tables' /\ Rows'
  BY DEF Inv, Tables, Rows, Paid, shared, opVars, envVars, netVars
<1>2. Kept(w)
  BY DEF Kept, Paid, shared, opVars, envVars, netVars
<1> QED
  BY <1>1, <1>2, CallsStep DEF Inv

\* A call that ends keeps no promise.
LEMMA IdleSound == ASSUME NEW w, pc'[w] = "idle", ctx'[w] = Blank PROVE Sound(w)'
  BY BlankTyped DEF Sound, Job

LEMMA VerdictTyped ==
    ASSUME NEW q \in {"UNPAID", "PAID", "ISSUED"}, NEW n \in Nat
    PROVE  /\ Verdict(q, n) \in {"restore", "unknown", "paid", "unpaid"}
           /\ Verdict(q, n) = "paid" => q = "PAID"
  BY DEF Verdict

\* Steps of a call that write nothing.
LEMMA QuietActions ==
    ASSUME Inv, NEW w \in Procs,
           \/ \E i \in Intents : StatusStart(w, i) \/ ExecuteStart(w, i)
           \/ QuoteFail(w) \/ CheckQuote(w) \/ CheckFail(w) \/ ReadClock(w)
           \/ Restore(w) \/ RestoreFail(w)
           \/ SaveSeen(w) \/ SaveRead(w) \/ SaveFail(w)
           \/ Reread(w) \/ ReserveRefused(w) \/ Load(w) \/ SendFail(w)
           \/ MintReply(w)
    PROVE  Inv'
<1> USE DEF Labels
<1>here. Sound(w) /\ Rows /\ Calls /\ Tables /\ ctx[w] \in Contexts
  BY DEF Inv, Calls
<1>same. UNCHANGED shared => \A i : (Paid(i)' = Paid(i))
  BY DEF shared, Paid
<1> USE DEF shared, opVars, envVars, netVars
<1>1. ASSUME NEW i \in Intents, StatusStart(w, i) PROVE Inv'
  <2>1. /\ Moves(w) /\ pc'[w] = "check" /\ Job(w)' = i /\ ctx'[w].goal = "reconcile"
        /\ outputs[i] # "NONE"
    BY <1>1, <1>here, ReadMoves DEF StatusStart, Reconcilable
  <2> QED
    BY <1>1, <2>1, QuietStep DEF StatusStart, Sound
<1>2. ASSUME NEW i \in Intents, ExecuteStart(w, i) PROVE Inv'
  <2>1. /\ Moves(w) /\ pc'[w] = "check" /\ Job(w)' = i
        /\ outputs[i] # "NONE" /\ i \in approved
    BY <1>2, <1>here, ReadMoves DEF ExecuteStart, Reconcilable
  <2> QED
    BY <1>2, <2>1, QuietStep DEF ExecuteStart, Sound
<1>3. CASE QuoteFail(w)
  <2>1. Moves(w) /\ pc'[w] = "unknown" /\ ctx'[w] = ctx[w] /\ Job(w)' = Job(w)
    BY <1>3, <1>here, GotoMoves DEF QuoteFail
  <2> QED
    BY <1>3, <1>here, <2>1, QuietStep DEF QuoteFail, Sound
<1>4. CASE CheckQuote(w)
  <2> DEFINE l == Verdict(quote[Job(w)], ctx[w].count)
  <2>1. Job(w) \in Intents /\ outputs[Job(w)] # "NONE" /\ quote[Job(w)] # "NONE"
        /\ opState[Job(w)] # "NONE"
    BY <1>4, <1>here DEF CheckQuote, Sound, Rows
  <2>2. /\ l \in {"restore", "unknown", "paid", "unpaid"}
        /\ l = "paid" => quote[Job(w)] = "PAID"
    BY <1>here, <2>1, VerdictTyped DEF Tables, Contexts
  <2> HIDE DEF l
  <2>3. Moves(w) /\ pc'[w] = l /\ ctx'[w] = ctx[w] /\ Job(w)' = Job(w)
    BY <1>4, <1>here, <2>2, GotoMoves DEF CheckQuote, l
  <2> QED
    BY <1>4, <1>here, <2>1, <2>2, <2>3, QuietStep DEF CheckQuote, Sound, Paid
<1>5. CASE CheckFail(w) \/ RestoreFail(w)
  <2>1. Moves(w) /\ pc'[w] = "unknown" /\ ctx'[w] = ctx[w] /\ Job(w)' = Job(w)
    BY <1>5, <1>here, GotoMoves DEF CheckFail, RestoreFail
  <2>2. Job(w) \in Intents /\ opState[Job(w)] # "NONE"
    BY <1>5, <1>here DEF CheckFail, RestoreFail, Sound, Rows
  <2> QED
    BY <1>5, <1>here, <2>1, <2>2, QuietStep DEF CheckFail, RestoreFail, Sound
<1>6. CASE ReadClock(w)
  <2>1. /\ Moves(w) /\ pc'[w] \in {"expired", "unknown", "prepared"}
        /\ ctx'[w] = ctx[w] /\ Job(w)' = Job(w)
    BY <1>6, <1>here, GotoMoves DEF ReadClock
  <2>2. Job(w) \in Intents /\ opState[Job(w)] # "NONE" /\ outputs[Job(w)] # "NONE"
    BY <1>6, <1>here DEF ReadClock, Sound, Rows
  <2> QED
    BY <1>6, <1>here, <2>1, <2>2, QuietStep DEF ReadClock, Sound
<1>7. CASE Restore(w) \/ MintReply(w)
  <2>1. Moves(w) /\ pc'[w] = "save" /\ ctx'[w] = ctx[w] /\ Job(w)' = Job(w)
    BY <1>7, <1>here, GotoMoves DEF Restore, MintReply
  <2> QED
    BY <1>7, <1>here, <2>1, QuietStep DEF Restore, MintReply, Sound
<1>8. CASE SaveSeen(w) \/ ReserveRefused(w)
  <2>1. Moves(w) /\ pc'[w] = "idle" /\ ctx'[w] = Blank
    BY <1>8, <1>here, DoneMoves DEF SaveSeen, ReserveRefused
  <2> QED
    BY <1>8, <2>1, IdleSound, QuietStep DEF SaveSeen, ReserveRefused
<1>9. CASE SaveRead(w)
  <2>1. Moves(w) /\ pc'[w] = "saving" /\ ctx'[w] = ctx[w] /\ Job(w)' = Job(w)
    BY <1>9, <1>here, GotoMoves DEF SaveRead
  <2> QED
    BY <1>9, <1>here, <2>1, QuietStep DEF SaveRead, Sound
<1>10. CASE SaveFail(w)
  <2>1. /\ Moves(w) /\ pc'[w] \in {"check", "unknown"} /\ Job(w)' = Job(w)
        /\ ctx'[w].goal = "execute" => ctx[w].goal = "execute"
    BY <1>10, <1>here, GotoMoves, CatchMoves DEF SaveFail
  <2>2. Job(w) \in Intents /\ opState[Job(w)] # "NONE" /\ outputs[Job(w)] # "NONE"
    BY <1>10, <1>here DEF SaveFail, Sound, Rows
  <2> QED
    BY <1>10, <1>here, <2>1, <2>2, QuietStep DEF SaveFail, Sound
<1>11. CASE Reread(w)
  <2>1. CASE pc'[w] = "idle"
    <3>1. Moves(w) /\ ctx'[w] = Blank
      BY <1>11, <1>here, <2>1, DoneMoves, GotoMoves DEF Reread
    <3> QED
      BY <1>11, <2>1, <3>1, IdleSound, QuietStep DEF Reread
  <2>2. CASE pc'[w] # "idle"
    <3>1. /\ Moves(w) /\ pc'[w] \in {"expire", "reserve"}
          /\ ctx'[w] = ctx[w] /\ Job(w)' = Job(w)
      BY <1>11, <1>here, <2>2, GotoMoves, DoneMoves DEF Reread
    <3> QED
      BY <1>11, <1>here, <3>1, QuietStep DEF Reread, Sound
  <2> QED
    BY <2>1, <2>2
<1>12. CASE Load(w)
  <2>1. Moves(w) /\ pc'[w] = "send" /\ Job(w)' = Job(w) /\ ctx'[w].goal = "mint"
    BY <1>12, <1>here, ReadMoves DEF Load, Sound
  <2> QED
    BY <1>12, <1>here, <2>1, QuietStep DEF Load, Sound
<1>13. CASE SendFail(w)
  <2>1. /\ Moves(w) /\ pc'[w] = "check" /\ Job(w)' = Job(w)
        /\ ctx'[w].goal = "reconcile"
    BY <1>13, <1>here, CatchMoves DEF SendFail
  <2> QED
    BY <1>13, <1>here, <2>1, QuietStep DEF SendFail, Sound
<1> QED
  BY <1>1, <1>2, <1>3, <1>4, <1>5, <1>6, <1>7, <1>8, <1>9, <1>10, <1>11, <1>12,
     <1>13

-----------------------------------------------------------------------------
(* Steps that write                                                        *)

LEMMA ReconciledMoves ==
    ASSUME Calls, NEW w \in Procs, Reconciled(w)
    PROVE  /\ Moves(w)
           /\ \/ pc'[w] = "idle" /\ ctx'[w] = Blank
              \/ /\ pc'[w] = "reread" /\ ctx'[w] = ctx[w] /\ Job(w)' = Job(w)
                 /\ ctx[w].goal = "execute"
  BY DoneMoves, GotoMoves DEF Reconciled, Labels

\* reconcile's writes change one row's state, and erase its outputs at most.
LEMMA ReconciledStep ==
    ASSUME Inv, NEW w \in Procs, Reconciled(w), Tables', Rows', Kept(w),
           Job(w) \in approved => Job(w) \in approved' /\ outputs'[Job(w)] # "NONE"
    PROVE  Inv'
<1>1. Moves(w) /\ Sound(w)
  BY ReconciledMoves DEF Inv, Calls
<1>2. CASE pc'[w] = "idle" /\ ctx'[w] = Blank
  BY <1>1, <1>2, IdleSound, CallsStep DEF Inv
<1>3. CASE /\ pc'[w] = "reread" /\ ctx'[w] = ctx[w] /\ Job(w)' = Job(w)
           /\ ctx[w].goal = "execute"
  <2>1. Job(w) \in approved /\ Job(w) \in Intents
    BY <1>1, <1>3 DEF Sound, Inv, Tables
  <2>2. Sound(w)'
    BY <1>3, <2>1, BlankTyped DEF Sound, Tables
  <2> QED
    BY <1>1, <1>3, <2>2, CallsStep DEF Inv
<1> QED
  BY <1>2, <1>3, ReconciledMoves DEF Inv

LEMMA ReconcileWrites ==
    ASSUME Inv, NEW w \in Procs,
           MarkPaid(w) \/ MarkPrepared(w) \/ MarkExpired(w) \/ SetUnknown(w)
    PROVE  Inv'
<1> DEFINE i == Job(w)
<1>1. /\ i \in Intents /\ opState[i] # "NONE"
      /\ pc[w] = "paid" => Paid(i)
      /\ pc[w] # "unknown" => outputs[i] # "NONE"
  BY DEF Inv, Calls, Sound, Rows, MarkPaid, MarkPrepared, MarkExpired, SetUnknown
<1>2. /\ UNCHANGED <<execCount, coin, approved, expired, quote, wire, posts>>
      /\ Reconciled(w)
      /\ \A j \in Intents \ {i} : opState'[j] = opState[j] /\ outputs'[j] = outputs[j]
      /\ \/ /\ opState'[i] = "PAID" /\ outputs'[i] = outputs[i] /\ pc[w] = "paid"
         \/ /\ opState'[i] = "PREPARED" /\ outputs'[i] = outputs[i]
            /\ pc[w] = "prepared"
         \/ opState'[i] = "EXPIRED" /\ outputs'[i] = "ERASED" /\ outputs[i] # "NONE"
         \/ opState'[i] = "UNKNOWN" /\ outputs'[i] = outputs[i]
         \/ opState'[i] = opState[i] /\ outputs'[i] = outputs[i]
  BY <1>1 DEF MarkPaid, MarkPrepared, MarkExpired, SetUnknown, SetState, Inv,
              Tables, envVars, netVars
<1>3. Tables'
  BY <1>1, <1>2 DEF MarkPaid, MarkPrepared, MarkExpired, SetUnknown, SetState,
     Inv, Tables, OpStates
<1> HIDE DEF i
<1>4. Rows'
  <2>1. /\ opState'[i] # "NONE"
        /\ opState'[i] = "ISSUED" => opState[i] = "ISSUED"
        /\ opState'[i] = "PAID" => Paid(i)
        /\ opState'[i] \in {"PREPARED", "PAID"} => outputs'[i] # "NONE"
        /\ outputs'[i] # "NONE" <=> outputs[i] # "NONE"
    BY <1>1, <1>2 DEF Inv, Rows
  <2> QED
    BY <1>1, <1>2, <2>1 DEF Inv, Rows, Paid
<1>5. Kept(w)
  BY <1>1, <1>2 DEF Inv, Kept, Paid, Tables
<1> QED
  BY <1>1, <1>2, <1>3, <1>4, <1>5, ReconciledStep DEF Inv, Rows, i

LEMMA PrepareWrites ==
    ASSUME Inv, NEW w \in Procs,
           \/ \E i \in Intents : PrepareStart(w, i)
           \/ QuoteAnswer(w) \/ StorePlan(w)
    PROVE  Inv'
<1> USE DEF Labels, opVars, envVars, netVars
<1>here. Sound(w) /\ Rows /\ Calls /\ Tables
  BY DEF Inv, Calls
<1>1. ASSUME NEW i \in Intents, PrepareStart(w, i) PROVE Inv'
  <2>1. /\ Moves(w) /\ pc'[w] = "ask" /\ Job(w)' = i /\ ctx'[w].goal = "reconcile"
    BY <1>1, <1>here, ReadMoves DEF PrepareStart
  <2>2. /\ opState[i] = "NONE" /\ quote[i] = "NONE" /\ opState'[i] = "CREATING"
        /\ \A j \in Intents \ {i} : opState'[j] = opState[j]
        /\ UNCHANGED <<execCount, outputs, coin, approved, expired, quote, wire, posts>>
    BY <1>1, <1>here DEF PrepareStart, SetState, Tables, Rows
  <2>3. Tables'
    BY <1>1, <1>here DEF PrepareStart, SetState, Tables, OpStates
  <2>4. Rows' /\ Kept(w)
    BY <1>here, <2>2 DEF Rows, Paid, Kept, Tables
  <2>5. Sound(w)'
    BY <2>1, <2>2 DEF Sound
  <2> QED
    BY <2>1, <2>2, <2>3, <2>4, <2>5, CallsStep DEF Inv, Job
<1>2. CASE QuoteAnswer(w)
  <2> DEFINE i == Job(w)
  <2>1. /\ Moves(w) /\ pc'[w] = "store" /\ Job(w)' = i /\ ctx'[w] = ctx[w]
    BY <1>2, <1>here, GotoMoves DEF QuoteAnswer
  <2>2. /\ i \in Intents /\ opState[i] # "NONE"
        /\ quote[i] = "NONE" /\ quote' = [quote EXCEPT ![i] = "UNPAID"]
        /\ UNCHANGED <<execCount, opState, outputs, coin, approved, expired, wire, posts>>
    BY <1>2, <1>here DEF QuoteAnswer, Sound
  <2>3. Tables'
    BY <1>here, <2>2 DEF Tables
  <2>4. Rows'
    BY <1>here, <2>2 DEF Rows, Paid, Tables
  <2>5. Kept(w)
    BY <1>2, <1>here, <2>2 DEF QuoteAnswer, Kept, Paid, Tables
  <2>6. Sound(w)'
    BY <1>here, <1>2, <2>1, <2>2 DEF QuoteAnswer, Sound, Tables
  <2> QED
    BY <2>1, <2>3, <2>4, <2>5, <2>6, CallsStep DEF Inv
<1>3. CASE StorePlan(w)
  <2> DEFINE i == Job(w)
  <2>1. Moves(w) /\ pc'[w] = "idle" /\ ctx'[w] = Blank
    BY <1>3, <1>here, DoneMoves DEF StorePlan
  <2>2. /\ i \in Intents /\ quote[i] # "NONE" /\ opState[i] # "NONE"
        /\ opState' = [opState EXCEPT ![i] = "PREPARED"]
        /\ outputs' = [outputs EXCEPT ![i] = "STORED"]
        /\ UNCHANGED <<execCount, coin, approved, expired, quote, wire, posts>>
    BY <1>3, <1>here DEF StorePlan, SetState, Sound
  <2>3. Tables'
    BY <1>here, <2>2 DEF Tables, OpStates
  <2>4. Rows' /\ Kept(w)
    BY <1>here, <2>2 DEF Rows, Paid, Kept, Tables
  <2> QED
    BY <2>1, <2>3, <2>4, IdleSound, CallsStep DEF Inv
<1> QED
  BY <1>1, <1>2, <1>3

LEMMA ExecuteWrites ==
    ASSUME Inv, NEW w \in Procs,
           ExpireApproval(w) \/ Reserve(w) \/ SendMint(w) \/ AwaitFail(w)
    PROVE  Inv'
<1> USE DEF Labels, opVars, envVars, netVars
<1>here. Sound(w) /\ Rows /\ Calls /\ Tables
  BY DEF Inv, Calls
<1>1. CASE ExpireApproval(w)
  <2> DEFINE i == Job(w)
  <2>1. Moves(w) /\ pc'[w] = "idle" /\ ctx'[w] = Blank
    BY <1>1, <1>here, DoneMoves DEF ExpireApproval
  <2>2. /\ i \in Intents
        /\ \A j \in Intents : \/ opState'[j] = opState[j]
                              \/ opState'[j] = "EXPIRED" /\ opState[j] # "NONE"
        /\ UNCHANGED <<execCount, outputs, coin, approved, expired, quote, wire, posts>>
    BY <1>1, <1>here DEF ExpireApproval, SetState, Sound, Tables
  <2>3. Tables'
    BY <1>1, <1>here, <2>2 DEF ExpireApproval, SetState, Tables, OpStates
  <2>4. Rows' /\ Kept(w)
    BY <1>here, <2>2 DEF Rows, Paid, Kept, Tables
  <2> QED
    BY <2>1, <2>3, <2>4, IdleSound, CallsStep DEF Inv
<1>2. CASE Reserve(w)
  <2> DEFINE i == Job(w)
  <2>1. Moves(w) /\ pc'[w] = "load" /\ Job(w)' = i /\ ctx'[w] = ctx[w]
    BY <1>2, <1>here, GotoMoves DEF Reserve
  <2>2. /\ i \in Intents /\ i \in approved /\ Paid(i) /\ outputs[i] # "NONE"
        /\ execCount[i] = 0 /\ posts[i] = 0 /\ opState[i] # "NONE"
    BY <1>2, <1>here DEF Reserve, Reservable, Sound, Rows, Tables
  <2>3. /\ opState' = [opState EXCEPT ![i] = "EXECUTING"]
        /\ execCount' = [execCount EXCEPT ![i] = 1]
        /\ UNCHANGED <<outputs, coin, approved, expired, quote, wire, posts>>
    BY <1>2, <1>here, <2>2 DEF Reserve, SetState, Tables
  <2>4. Tables'
    BY <1>here, <2>2, <2>3 DEF Tables, OpStates
  <2>5. Rows' /\ Kept(w)
    BY <1>here, <2>2, <2>3 DEF Rows, Paid, Kept, Tables
  <2>6. Sound(w)'
    BY <1>here, <2>1, <2>2, <2>3 DEF Sound, Tables, Paid
  <2> QED
    BY <2>1, <2>2, <2>4, <2>5, <2>6, CallsStep DEF Inv, Job
<1>3. CASE SendMint(w)
  <2> DEFINE i == Job(w)
  <2>1. Moves(w) /\ pc'[w] = "await" /\ Job(w)' = i /\ ctx'[w] = ctx[w]
    BY <1>3, <1>here, GotoMoves DEF SendMint
  <2>2. /\ i \in Intents /\ execCount[i] = 1 /\ posts[i] = 0 /\ outputs[i] # "NONE"
        /\ pc[w] = "send"
    BY <1>3, <1>here DEF SendMint, Sound
  <2>3. /\ posts' = [posts EXCEPT ![i] = 1] /\ wire' = wire \cup {i}
        /\ UNCHANGED <<opState, execCount, outputs, coin, approved, expired, quote>>
    BY <1>3, <1>here, <2>2 DEF SendMint, Tables
  <2>4. Tables'
    BY <1>here, <2>2, <2>3 DEF Tables
  <2>5. Rows' /\ Kept(w)
    BY <1>here, <2>2, <2>3 DEF Rows, Paid, Kept, Tables
  <2>6. Sound(w)'
    BY <1>here, <2>1, <2>2, <2>3 DEF Sound, Tables
  <2> QED
    BY <2>1, <2>4, <2>5, <2>6, CallsStep DEF Inv
<1>4. CASE AwaitFail(w)
  <2>1. /\ Moves(w) /\ pc'[w] = "check" /\ Job(w)' = Job(w)
        /\ ctx'[w].goal = "reconcile"
    BY <1>4, <1>here, CatchMoves DEF AwaitFail
  <2>2. /\ wire' \subseteq wire
        /\ UNCHANGED <<opState, execCount, outputs, coin, approved, expired, quote, posts>>
    BY <1>4 DEF AwaitFail, Abandon
  <2>3. Tables' /\ Rows' /\ Kept(w)
    BY <1>here, <2>2 DEF Tables, Rows, Paid, Kept
  <2>4. Sound(w)'
    BY <1>here, <1>4, <2>1, <2>2 DEF AwaitFail, Sound
  <2> QED
    BY <2>1, <2>3, <2>4, CallsStep DEF Inv
<1> QED
  BY <1>1, <1>2, <1>3, <1>4

LEMMA EndWrites ==
    ASSUME Inv, NEW w \in Procs, SaveWrite(w) \/ Crash(w)
    PROVE  Inv'
<1> USE DEF opVars, envVars, netVars
<1>here. Sound(w) /\ Rows /\ Calls /\ Tables
  BY DEF Inv, Calls
<1>1. Moves(w) /\ Sound(w)' /\ pc'[w] = "idle"
  BY <1>here, DoneMoves, IdleSound DEF SaveWrite, Crash
<1>2. CASE SaveWrite(w)
  <2> DEFINE i == Job(w)
  <2>1. /\ i \in Intents /\ quote[i] = "ISSUED"
        /\ coin' = [coin EXCEPT ![i] = "UNSPENT"]
        /\ opState' = [opState EXCEPT ![i] = "ISSUED"]
        /\ outputs' = [outputs EXCEPT ![i] = "ERASED"]
        /\ UNCHANGED <<execCount, approved, expired, quote, wire, posts>>
    BY <1>2, <1>here DEF SaveWrite, SetState, Sound
  <2>2. Tables' /\ Rows' /\ Kept(w)
    BY <1>here, <2>1 DEF Tables, OpStates, Rows, Paid, Kept
  <2> QED
    BY <1>1, <2>2, CallsStep DEF Inv
<1>3. CASE Crash(w)
  <2>1. /\ wire' \subseteq wire
        /\ UNCHANGED <<opState, execCount, outputs, coin, approved, expired, quote, posts>>
    BY <1>3 DEF Crash, Abandon
  <2>2. Tables' /\ Rows' /\ Kept(w)
    BY <1>here, <2>1 DEF Tables, Rows, Paid, Kept
  <2> QED
    BY <1>1, <2>2, CallsStep DEF Inv
<1> QED
  BY <1>2, <1>3

\* Steps of the human, the clock, the payer, the mint and the payments.
LEMMA Surroundings ==
    ASSUME Inv, UNCHANGED <<pc, ctx, opState, execCount, outputs, posts>>,
           Tables', Rows',
           \A i \in Intents :
              /\ i \in approved => i \in approved'
              /\ quote[i] = "NONE" <=> quote'[i] = "NONE"
              /\ Paid(i) => Paid(i)'
              /\ quote[i] = "ISSUED" => quote'[i] = "ISSUED"
    PROVE  Inv'
<1>1. ASSUME NEW w \in Procs PROVE Sound(w)'
  BY BlankTyped DEF Inv, Calls, Sound, Job
<1>2. Apart'
  BY DEF Inv, Calls, Apart, Job
<1> QED
  BY <1>1, <1>2 DEF Inv, Calls

LEMMA InvStep == Inv /\ [Next]_vars => Inv'
<1> SUFFICES ASSUME Inv, [Next]_vars PROVE Inv'
  OBVIOUS
<1> USE DEF opVars, envVars, netVars, procVars
<1>1. ASSUME NEW w \in Procs, Process(w) PROVE Inv'
  BY <1>1, QuietActions, ReconcileWrites, PrepareWrites, ExecuteWrites, EndWrites
  DEF Process, Call, Prepare, Reconcile, Execute
<1>2. ASSUME NEW i \in Intents, Approve(i) PROVE Inv'
  <2>1. Tables' /\ Rows'
    BY <1>2 DEF Inv, Tables, Rows, Paid, Approve
  <2> QED
    BY <1>2, <2>1, Surroundings DEF Approve, Paid
<1>3. ASSUME NEW i \in Intents, Expire(i) \/ PaymentMoves(i) PROVE Inv'
  <2>1. Tables' /\ Rows'
    BY <1>3 DEF Inv, Tables, Rows, Paid, Expire, PaymentMoves
  <2> QED
    BY <1>3, <2>1, Surroundings DEF Expire, PaymentMoves, Paid
<1>4. ASSUME NEW i \in Intents, Pay(i) \/ Mint(i) PROVE Inv'
  <2>1. Tables' /\ Rows'
    BY <1>4 DEF Inv, Tables, Rows, Paid, Pay, Mint, MintSign, MintRefuse
  <2> QED
    BY <1>4, <2>1, Surroundings DEF Inv, Tables, Pay, Mint, MintSign, MintRefuse, Paid
<1>5. CASE UNCHANGED vars
  <2>1. Tables' /\ Rows'
    BY <1>5 DEF Inv, Tables, Rows, Paid, vars, shared
  <2> QED
    BY <1>5, <2>1, Surroundings DEF vars, shared, Paid
<1> QED
  BY <1>1, <1>2, <1>3, <1>4, <1>5 DEF Next

LEMMA InvInit == Init => Inv
  BY BlankTyped
  DEF Init, Inv, Tables, Rows, Calls, Sound, Apart, Paid, OpStates, Labels, Blank,
      Job

-----------------------------------------------------------------------------
(* Theorems                                                                *)

\* Every row, the quotes and every call in progress keep their types.
THEOREM TypeCorrect == Spec => []TypeOK
<1>1. Inv => TypeOK
  BY DEF Inv, Tables, Rows, Calls, Sound, TypeOK
<1> QED
  BY InvInit, InvStep, <1>1, PTL DEF Spec

\* However many processes execute, reconcile and crash, and however stale
\* their writes: outputs are posted at most once, for an approved paid quote.
THEOREM ApprovalIsOneShot == Spec => []ApprovedOnce
<1>1. Inv => ApprovedOnce
  BY DEF Inv, Tables, Rows, Paid, ApprovedOnce
<1> QED
  BY InvInit, InvStep, <1>1, PTL DEF Spec

\* The wallet only counts proofs that the mint has signed, and ISSUED is never
\* claimed without them.
THEOREM IssuedMeansIssued == Spec => []IssuedIsReal
<1>1. Inv => IssuedIsReal
  BY DEF Inv, Rows, IssuedIsReal
<1> QED
  BY InvInit, InvStep, <1>1, PTL DEF Spec

-----------------------------------------------------------------------------
(* One process: what the mint has signed can be recovered                  *)

SoleProcess == \A u, w \in Procs : u = w

\* Outputs that were posted stay stored until their proofs are: the row that is
\* about to lose them by expiry was never executed, and a call posts the
\* outputs that its row still has.
Restorable ==
    /\ \A i \in Intents :
         posts[i] > 0 => coin[i] # "ABSENT" \/ outputs[i] = "STORED"
    /\ \A w \in Procs :
         /\ pc[w] \in {"unpaid", "expired"} => execCount[Job(w)] = 0
         /\ pc[w] = "send" /\ ctx[w].outputs => outputs[Job(w)] = "STORED"

LEMMA RestorableStep ==
    SoleProcess /\ Inv /\ Restorable /\ [Next]_vars => Restorable'
<1> SUFFICES ASSUME SoleProcess, Inv, Restorable, [Next]_vars
             PROVE  Restorable'
  OBVIOUS
<1> USE DEF envVars, netVars
<1>here. Tables /\ Rows /\ Calls /\ \A w \in Procs : Sound(w)
  BY DEF Inv, Calls
\* Calls that end, or go where the invariant does not speak of them, and write
\* neither outputs nor posts.
<1>quiet. ASSUME UNCHANGED <<posts, coin, outputs, execCount, pc, ctx>>
          PROVE  Restorable'
  BY <1>quiet DEF Restorable, Job
<1>calm. ASSUME NEW w \in Procs, pc'[w] \notin {"unpaid", "expired", "send"},
                UNCHANGED <<posts, coin, outputs>>
         PROVE  Restorable'
  BY <1>calm DEF SoleProcess, Restorable
<1>1. ASSUME NEW w \in Procs, Call(w) \/ Prepare(w) PROVE Restorable'
  <2>1. CASE StorePlan(w)
    <3>1. /\ pc'[w] = "idle" /\ UNCHANGED <<posts, coin>>
          /\ outputs' = [outputs EXCEPT ![Job(w)] = "STORED"]
      BY <1>here, <2>1, DoneMoves DEF StorePlan
    <3> QED
      BY <1>here, <3>1 DEF SoleProcess, Restorable, Tables
  <2>2. CASE ~StorePlan(w)
    <3>1. UNCHANGED <<posts, coin, outputs>>
      BY <1>1, <2>2
      DEF Call, Prepare, PrepareStart, ExecuteStart, StatusStart, Crash, QuoteAnswer,
          QuoteFail, shared, opVars
    <3>2. pc'[w] \in {"ask", "check", "store", "unknown", "idle"}
      BY <1>1, <1>here, <2>2
      DEF Call, Prepare, PrepareStart, ExecuteStart, StatusStart, Crash, QuoteAnswer,
          QuoteFail, Read, Goto, Done, Calls
    <3> QED
      BY <1>calm, <3>1, <3>2
  <2> QED
    BY <2>1, <2>2
<1>2. ASSUME NEW w \in Procs, Reconcile(w) PROVE Restorable'
  <2>1. CASE CheckQuote(w)
    <3>1. PICK i \in Intents : i = Job(w) /\ quote[i] # "NONE"
      BY <1>here, <2>1 DEF CheckQuote, Sound, Rows
    <3>2. ctx[w].count \in Nat /\ ctx'[w] = ctx[w] /\ Job(w)' = i
      BY <1>here, <2>1, <3>1 DEF CheckQuote, Goto, Calls, Contexts, Job
    <3>3. pc'[w] = Verdict(quote[i], ctx[w].count)
      BY <1>here, <2>1, <3>1 DEF CheckQuote, Goto, Calls
    <3>4. pc'[w] \in {"restore", "unknown", "paid", "unpaid"}
      BY <1>here, <3>1, <3>2, <3>3 DEF Verdict, Tables
    <3>5. pc'[w] = "unpaid" => quote[i] = "UNPAID"
      BY <1>here, <3>1, <3>2, <3>3 DEF Verdict, Tables
    <3>6. quote[i] = "UNPAID" => execCount[i] = 0
      BY <1>here, <3>1 DEF Rows, Paid, Tables
    <3>7. UNCHANGED <<posts, coin, outputs, execCount>>
      BY <2>1 DEF CheckQuote, shared, opVars
    <3> QED
      BY <3>2, <3>4, <3>5, <3>6, <3>7 DEF SoleProcess, Restorable
  <2>2. CASE ReadClock(w)
    <3>1. /\ pc[w] = "unpaid" /\ Job(w)' = Job(w)
          /\ pc'[w] \in {"expired", "unknown", "prepared"}
          /\ UNCHANGED <<posts, coin, outputs, execCount>>
      BY <1>here, <2>2 DEF ReadClock, Goto, Calls, Job, shared, opVars
    <3> QED
      BY <3>1 DEF SoleProcess, Restorable
  <2>3. CASE MarkExpired(w)
    <3>1. /\ Job(w) \in Intents /\ posts[Job(w)] = 0
          /\ outputs' = [outputs EXCEPT ![Job(w)] = "ERASED"]
          /\ UNCHANGED <<posts, coin>>
      BY <1>here, <2>3 DEF MarkExpired, Restorable, Sound, Rows, Tables
    <3>2. pc'[w] \in {"reread", "idle"}
      BY <1>here, <2>3 DEF MarkExpired, Reconciled, Goto, Done, Calls
    <3> QED
      BY <1>here, <3>1, <3>2 DEF SoleProcess, Restorable, Tables
  <2>4. CASE SaveWrite(w)
    <3>1. /\ Job(w) \in Intents
          /\ coin' = [coin EXCEPT ![Job(w)] = "UNSPENT"]
          /\ outputs' = [outputs EXCEPT ![Job(w)] = "ERASED"]
          /\ UNCHANGED posts
      BY <1>here, <2>4 DEF SaveWrite, Sound
    <3>2. pc'[w] = "idle"
      BY <1>here, <2>4, DoneMoves DEF SaveWrite
    <3> QED
      BY <1>here, <3>1, <3>2 DEF SoleProcess, Restorable, Tables
  <2>5. CASE ~CheckQuote(w) /\ ~ReadClock(w) /\ ~MarkExpired(w) /\ ~SaveWrite(w)
    <3>1. UNCHANGED <<posts, coin, outputs>>
      BY <1>2, <2>5
      DEF Reconcile, CheckFail, Restore, RestoreFail, MarkPaid, MarkPrepared,
          SetUnknown, SaveSeen, SaveRead, SaveFail, shared, opVars
    <3>2. pc'[w] \in {"unknown", "save", "saving", "reread", "check", "idle"}
      BY <1>2, <1>here, <2>5
      DEF Reconcile, CheckFail, Restore, RestoreFail, MarkPaid, MarkPrepared,
          SetUnknown, SaveSeen, SaveRead, SaveFail, Catch, Reconciled, Goto, Done,
          Calls
    <3> QED
      BY <1>calm, <3>1, <3>2
  <2> QED
    BY <2>1, <2>2, <2>3, <2>4, <2>5
<1>3. ASSUME NEW w \in Procs, Execute(w) PROVE Restorable'
  <2>1. CASE Load(w)
    <3>1. PICK i \in Intents : i = Job(w)
      BY <1>here, <2>1 DEF Load, Sound
    <3>2. ctx'[w] = Row(i, "mint") /\ pc'[w] = "send"
      BY <1>here, <2>1, <3>1 DEF Load, Read, Calls
    <3>read. Row(i, "mint").outputs = (outputs[i] = "STORED")
      BY Zenon DEF Row
    <3>3. Job(w)' = i /\ (ctx'[w].outputs => outputs[i] = "STORED")
      <4>1. Job(w)' = i
        BY <3>2 DEF Row, Job
      <4>2. ctx'[w].outputs => outputs[i] = "STORED"
        BY <3>read, <3>2, Zenon
      <4> QED
        BY <4>1, <4>2
    <3>4. UNCHANGED <<posts, coin, outputs>>
      BY <2>1 DEF Load, shared, opVars
    <3> QED
      BY <3>2, <3>3, <3>4 DEF SoleProcess, Restorable
  <2>2. CASE SendMint(w)
    <3>1. /\ Job(w) \in Intents /\ outputs[Job(w)] = "STORED"
          /\ posts' = [posts EXCEPT ![Job(w)] = @ + 1]
          /\ UNCHANGED <<coin, outputs>>
      BY <1>here, <2>2 DEF SendMint, Restorable, Sound, opVars
    <3>2. pc'[w] = "await"
      BY <1>here, <2>2 DEF SendMint, Goto, Calls
    <3> QED
      BY <1>here, <3>1, <3>2 DEF SoleProcess, Restorable, Tables
  <2>3. CASE ~Load(w) /\ ~SendMint(w)
    <3>1. UNCHANGED <<posts, coin, outputs>>
      BY <1>3, <2>3
      DEF Execute, Reread, ExpireApproval, Reserve, ReserveRefused, SendFail,
          MintReply, AwaitFail, shared, opVars
    <3>2. pc'[w] \in {"expire", "reserve", "load", "save", "check", "idle"}
      BY <1>3, <1>here, <2>3
      DEF Execute, Reread, ExpireApproval, Reserve, ReserveRefused, SendFail,
          MintReply, AwaitFail, Catch, Goto, Done, Calls
    <3> QED
      BY <1>calm, <3>1, <3>2
  <2> QED
    BY <2>1, <2>2, <2>3
<1>4. ASSUME NEW i \in Intents, Approve(i) \/ Expire(i) \/ Pay(i) \/ Mint(i)
      PROVE  Restorable'
  BY <1>4, <1>quiet
  DEF Approve, Expire, Pay, Mint, MintSign, MintRefuse, opVars, procVars
<1>5. ASSUME NEW i \in Intents, PaymentMoves(i) PROVE Restorable'
  <2>1. /\ UNCHANGED <<posts, outputs, execCount, pc, ctx>>
        /\ \A j \in Intents : coin[j] # "ABSENT" => coin'[j] # "ABSENT"
    BY <1>5, <1>here DEF PaymentMoves, opVars, procVars, Tables
  <2> QED
    BY <2>1 DEF Restorable, Job
<1> QED
  BY <1>1, <1>2, <1>3, <1>4, <1>5, <1>quiet
  DEF Next, Process, vars, shared, opVars, procVars

LEMMA RestorableInit == Init => Restorable
  BY DEF Init, Restorable, Blank

\* With one wallet process, whatever the mint has signed is in the wallet or
\* can be restored from the outputs in the row: no crash, failed transaction,
\* late request or expiry erases outputs that were posted.
THEOREM SignedIsRecoverable ==
    ASSUME SoleProcess
    PROVE  Spec => []Recoverable
<1>1. Inv /\ Restorable => Recoverable
  BY DEF Inv, Rows, Restorable, Recoverable
<1>2. Inv /\ Restorable /\ [Next]_vars => Restorable'
  BY RestorableStep
<1> QED
  BY InvInit, InvStep, RestorableInit, <1>1, <1>2, PTL DEF Spec

-----------------------------------------------------------------------------
(* Sums over finite sets of intents                                        *)

Pick(S) == CHOOSE i \in S : TRUE

\* g computes the totals of the subsets of S.
Sums(g, S) ==
    g = [s \in SUBSET S |-> IF s = {} THEN 0
                            ELSE Amount[Pick(s)] + g[s \ {Pick(s)}]]

LEMMA TotalIs ==
    ASSUME NEW S
    PROVE  Total(S) = (CHOOSE g : Sums(g, S))[S]
<1>1. Total(S) = (CHOOSE g : g = [s \in SUBSET S |->
                    IF s = {} THEN 0
                    ELSE Amount[CHOOSE x \in s : TRUE]
                         + g[s \ {CHOOSE x \in s : TRUE}]])[S]
  BY DEF Total, MapThenSumSet, MapThenFoldSet
<1> QED
  BY <1>1 DEF Sums, Pick

\* Induction on finite sets: a set of them has a smallest member.
LEMMA SmallestSet ==
    ASSUME NEW C, \A S \in C : IsFiniteSet(S), NEW S0 \in C
    PROVE  \E S \in C : \A T \in C : T \subseteq S => T = S
<1> DEFINE R == StrictSubsetOrdering(S0)
           D == {T \in C : T \subseteq S0}
<1>1. IsWellFoundedOn(R, FiniteSubsetsOf(S0))
  BY FS_StrictSubsetOrderingWellFounded
<1>2. D \subseteq FiniteSubsetsOf(S0) /\ S0 \in D
  BY DEF FiniteSubsetsOf
<1>3. \A s, t \in SUBSET S0 : <<s, t>> \in R <=> s \subseteq t /\ s # t
  BY DEF StrictSubsetOrdering
<1> HIDE DEF R, D
<1>4. \E x \in D : \A y \in D : ~ (<<y, x>> \in R)
  BY <1>1, <1>2, WFMin
<1> QED
  BY <1>3, <1>4 DEF D

LEMMA Picked == ASSUME NEW S, S # {} PROVE Pick(S) \in S
  BY DEF Pick

\* Two functions that compute totals agree where both are defined.
LEMMA SumsAgree ==
    ASSUME NEW S, NEW T, NEW g, NEW h, Sums(g, S), Sums(h, T),
           NEW s, s \subseteq S, s \subseteq T, IsFiniteSet(s)
    PROVE  g[s] = h[s]
<1> SUFFICES ASSUME g[s] # h[s] PROVE FALSE
  OBVIOUS
<1> DEFINE C == {t \in SUBSET s : g[t] # h[t]}
<1>1. s \in C /\ \A t \in C : IsFiniteSet(t)
  BY FS_Subset
<1>2. PICK t \in C : \A u \in C : u \subseteq t => u = t
  <2> HIDE DEF C
  <2> QED
    BY <1>1, SmallestSet
<1>3. t \in SUBSET S /\ t \in SUBSET T /\ g[t] # h[t]
  OBVIOUS
<1>4. t # {}
  BY <1>3 DEF Sums
<1> DEFINE p == Pick(t)
           u == t \ {p}
<1>5. g[t] = Amount[p] + g[u] /\ h[t] = Amount[p] + h[u]
  BY <1>3, <1>4 DEF Sums
<1>6. u \subseteq t /\ u # t /\ u \in SUBSET s
  BY <1>4, Picked
<1>7. g[u] = h[u]
  <2> HIDE DEF u
  <2> QED
    BY <1>2, <1>6
<1> QED
  BY <1>3, <1>5, <1>7

LEMMA SumsExist ==
    ASSUME NEW S, IsFiniteSet(S)
    PROVE  \E g : Sums(g, S)
<1> SUFFICES ASSUME ~ \E g : Sums(g, S) PROVE FALSE
  OBVIOUS
<1> DEFINE C == {s \in SUBSET S : ~ \E g : Sums(g, s)}
<1>1. PICK t \in C : \A u \in C : u \subseteq t => u = t
  <2>1. S \in C /\ \A s \in C : IsFiniteSet(s)
    BY FS_Subset
  <2> HIDE DEF C
  <2> QED
    BY <2>1, SmallestSet
<1> DEFINE F(s) == IF s = {} THEN 0 ELSE Amount[Pick(s)] + Total(s \ {Pick(s)})
           G == [s \in SUBSET t |-> F(s)]
<1>2. ASSUME NEW u, u \subseteq t, u # t PROVE F(u) = Total(u)
  <2>1. IsFiniteSet(u)
    BY <1>2, FS_Subset
  <2>2. PICK g : Sums(g, u) /\ Total(u) = g[u]
    <3>1. u \in SUBSET S /\ \E g : Sums(g, u)
      BY <1>1, <1>2
    <3> QED
      BY <3>1, TotalIs
  <2>3. CASE u = {}
    BY <2>2, <2>3 DEF Sums
  <2>4. CASE u # {}
    <3> DEFINE v == u \ {Pick(u)}
    <3>1. v \subseteq u /\ v \subseteq t /\ v # t
      BY <1>2, <2>4
    <3>2. PICK h : Sums(h, v) /\ Total(v) = h[v]
      <4>1. v \in SUBSET S /\ \E f : Sums(f, v)
        BY <1>1, <3>1
      <4> QED
        BY <4>1, TotalIs
    <3>3. g[u] = Amount[Pick(u)] + g[v]
      BY <2>2, <2>4 DEF Sums
    <3>4. g[v] = h[v]
      <4>1. IsFiniteSet(v)
        BY <2>1, <3>1, FS_Subset
      <4> HIDE DEF v
      <4> QED
        BY <2>2, <3>1, <3>2, <4>1, SumsAgree
    <3> QED
      BY <2>2, <2>4, <3>2, <3>3, <3>4
  <2> QED
    BY <2>3, <2>4
<1>3. ASSUME NEW s \in SUBSET t, s # {} PROVE G[s \ {Pick(s)}] = Total(s \ {Pick(s)})
  <2>1. s \ {Pick(s)} \in SUBSET t /\ s \ {Pick(s)} # t
    BY <1>3, Picked
  <2> QED
    BY <1>2, <2>1
<1>4. \A s \in SUBSET t :
        F(s) = IF s = {} THEN 0 ELSE Amount[Pick(s)] + G[s \ {Pick(s)}]
  BY <1>3
<1>5. G = [s \in SUBSET t |-> F(s)]
  OBVIOUS
<1> HIDE DEF G, F
<1>6. Sums(G, t)
  BY <1>4, <1>5 DEF Sums
<1> QED
  BY <1>1, <1>6

\* The total of a finite set, one member at a time.
LEMMA TotalStep ==
    ASSUME NEW S, IsFiniteSet(S)
    PROVE  /\ S = {} => Total(S) = 0
           /\ S # {} => Total(S) = Amount[Pick(S)] + Total(S \ {Pick(S)})
<1> DEFINE T == S \ {Pick(S)}
<1>1. PICK g : Sums(g, S) /\ Total(S) = g[S]
  BY SumsExist, TotalIs
<1>2. PICK h : Sums(h, T) /\ Total(T) = h[T]
  <2>1. IsFiniteSet(T)
    BY FS_Subset
  <2> HIDE DEF T
  <2> QED
    BY <2>1, SumsExist, TotalIs
<1>3. g[T] = h[T]
  <2>1. IsFiniteSet(T) /\ T \subseteq S
    BY FS_Subset
  <2> HIDE DEF T
  <2> QED
    BY <1>1, <1>2, <2>1, SumsAgree
<1>4. S = {} => g[S] = 0
  BY <1>1 DEF Sums
<1>5. S # {} => g[S] = Amount[Pick(S)] + g[T]
  BY <1>1 DEF Sums
<1> QED
  BY <1>1, <1>2, <1>3, <1>4, <1>5

LEMMA TotalNat ==
    ASSUME NEW S \in SUBSET Intents, IsFiniteSet(S)
    PROVE  Total(S) \in Nat
<1> SUFFICES ASSUME Total(S) \notin Nat PROVE FALSE
  OBVIOUS
<1> DEFINE C == {s \in SUBSET S : Total(s) \notin Nat}
<1>1. PICK t \in C : \A u \in C : u \subseteq t => u = t
  <2>1. S \in C /\ \A s \in C : IsFiniteSet(s)
    BY FS_Subset
  <2> HIDE DEF C
  <2> QED
    BY <2>1, SmallestSet
<1>2. IsFiniteSet(t)
  BY FS_Subset
<1>empty. t # {}
  <2>1. t = {} => Total(t) = 0
    BY <1>2, TotalStep
  <2> QED
    BY <2>1
<1>3. Total(t) = Amount[Pick(t)] + Total(t \ {Pick(t)}) /\ Pick(t) \in t
  BY <1>2, <1>empty, TotalStep, Picked
<1>4. Total(t \ {Pick(t)}) \in Nat
  BY <1>1, <1>3
<1> QED
  BY <1>3, <1>4, AmountAssumption

\* Whichever member is taken out.
LEMMA TotalLess ==
    ASSUME NEW S \in SUBSET Intents, IsFiniteSet(S), NEW x \in S
    PROVE  Total(S) = Amount[x] + Total(S \ {x})
<1> SUFFICES ASSUME Total(S) # Amount[x] + Total(S \ {x}) PROVE FALSE
  OBVIOUS
<1> DEFINE C == {s \in SUBSET S : \E y \in s : Total(s) # Amount[y] + Total(s \ {y})}
<1>1. PICK t \in C : \A u \in C : u \subseteq t => u = t
  <2>1. S \in C /\ \A s \in C : IsFiniteSet(s)
    BY FS_Subset
  <2> HIDE DEF C
  <2> QED
    BY <2>1, SmallestSet
<1>2. PICK y \in t : Total(t) # Amount[y] + Total(t \ {y})
  OBVIOUS
<1> DEFINE p == Pick(t)
<1>3. IsFiniteSet(t) /\ p \in t /\ t \subseteq S
  BY <1>2, FS_Subset, Picked
<1>4. Total(t) = Amount[p] + Total(t \ {p}) /\ p # y
  BY <1>2, <1>3, TotalStep
<1> HIDE DEF p
<1>5. Total(t \ {p}) = Amount[y] + Total((t \ {p}) \ {y})
  BY <1>1, <1>2, <1>3, <1>4
<1>6. Total(t \ {y}) = Amount[p] + Total((t \ {y}) \ {p})
  BY <1>1, <1>2, <1>3, <1>4
<1>7. (t \ {p}) \ {y} = (t \ {y}) \ {p} /\ Total((t \ {y}) \ {p}) \in Nat
  BY <1>3, TotalNat, FS_Subset
<1> QED
  BY <1>2, <1>3, <1>4, <1>5, <1>6, <1>7, AmountAssumption

LEMMA TotalMore ==
    ASSUME NEW S \in SUBSET Intents, IsFiniteSet(S), NEW x \in Intents
    PROVE  IsFiniteSet(S \cup {x}) /\ Total(S \cup {x}) <= Total(S) + Amount[x]
<1>1. IsFiniteSet(S \cup {x})
  BY FS_AddElement
<1>2. Total(S) \in Nat /\ Amount[x] \in Nat
  BY TotalNat, AmountAssumption
<1>3. CASE x \in S
  <2>1. S \cup {x} = S
    BY <1>3
  <2>2. Total(S \cup {x}) = Total(S)
    BY <2>1, Zenon
  <2> QED
    BY <1>1, <1>2, <2>2
<1>4. CASE x \notin S
  <2>1. (S \cup {x}) \ {x} = S
    BY <1>4
  <2>2. Total(S \cup {x}) = Amount[x] + Total((S \cup {x}) \ {x})
    BY <1>1, TotalLess
  <2>3. Total((S \cup {x}) \ {x}) = Total(S)
    BY <2>1, Zenon
  <2> QED
    BY <1>1, <1>2, <2>2, <2>3
<1> QED
  BY <1>3, <1>4

LEMMA TotalMonotone ==
    ASSUME NEW T \in SUBSET Intents, IsFiniteSet(T), NEW S, S \subseteq T
    PROVE  Total(S) <= Total(T)
<1> SUFFICES ASSUME ~(Total(S) <= Total(T)) PROVE FALSE
  OBVIOUS
<1> DEFINE C == {s \in SUBSET T : S \subseteq s /\ ~(Total(S) <= Total(s))}
<1>1. PICK t \in C : \A u \in C : u \subseteq t => u = t
  <2>1. T \in C /\ \A s \in C : IsFiniteSet(s)
    BY FS_Subset
  <2> HIDE DEF C
  <2> QED
    BY <2>1, SmallestSet
<1>2. IsFiniteSet(t) /\ IsFiniteSet(S) /\ S \subseteq t /\ ~(Total(S) <= Total(t))
  BY FS_Subset
<1>3. Total(S) \in Nat
  BY <1>2, TotalNat
<1>4. PICK x \in t : x \notin S
  <2>1. t # S
    BY <1>2, <1>3
  <2> QED
    BY <1>2, <2>1
<1>5. Total(S) <= Total(t \ {x})
  BY <1>1, <1>4
<1>6. Total(t) = Amount[x] + Total(t \ {x}) /\ Total(t \ {x}) \in Nat
  BY <1>2, TotalLess, TotalNat, FS_Subset
<1> QED
  BY <1>2, <1>3, <1>5, <1>6, AmountAssumption

LEMMA TotalUnion ==
    ASSUME NEW S \in SUBSET Intents, IsFiniteSet(S),
           NEW T \in SUBSET Intents, IsFiniteSet(T)
    PROVE  Total(S \cup T) <= Total(S) + Total(T)
<1> SUFFICES ASSUME ~(Total(S \cup T) <= Total(S) + Total(T)) PROVE FALSE
  OBVIOUS
<1> DEFINE C == {s \in SUBSET T : ~(Total(S \cup s) <= Total(S) + Total(s))}
<1>1. PICK t \in C : \A u \in C : u \subseteq t => u = t
  <2>1. T \in C /\ \A s \in C : IsFiniteSet(s)
    BY FS_Subset
  <2> HIDE DEF C
  <2> QED
    BY <2>1, SmallestSet
<1>2. IsFiniteSet(t) /\ ~(Total(S \cup t) <= Total(S) + Total(t))
  BY FS_Subset
<1>3. Total(S) \in Nat /\ Total(t) \in Nat /\ IsFiniteSet(S \cup t)
  BY <1>2, TotalNat, FS_Union
<1>4. PICK x \in t : TRUE
  <2>1. CASE t = {}
    <3>1. Total(t) = 0 /\ S \cup t = S
      BY <1>2, <2>1, TotalStep
    <3>2. Total(S \cup t) = Total(S)
      BY <3>1, Zenon
    <3> QED
      BY <1>2, <1>3, <3>1, <3>2
  <2> QED
    BY <2>1
<1> DEFINE u == t \ {x}
<1>5. Total(S \cup u) <= Total(S) + Total(u)
  BY <1>1, <1>4
<1>6. u \in SUBSET Intents /\ IsFiniteSet(u) /\ S \cup t = (S \cup u) \cup {x}
  BY <1>2, <1>4, FS_Subset
<1>7. IsFiniteSet(S \cup u) /\ Total(t) = Amount[x] + Total(u)
  BY <1>2, <1>6, FS_Union, TotalLess
<1> HIDE DEF u
<1>8. /\ Total((S \cup u) \cup {x}) <= Total(S \cup u) + Amount[x]
      /\ Total((S \cup u) \cup {x}) \in Nat /\ Total(S \cup u) \in Nat
      /\ Total(u) \in Nat /\ Amount[x] \in Nat
  <2>1. x \in Intents
    OBVIOUS
  <2> QED
    BY <1>3, <1>6, <1>7, <2>1, TotalMore, TotalNat, AmountAssumption
<1>9. Total(S \cup t) = Total((S \cup u) \cup {x})
  BY <1>6, Zenon
<1> QED
  BY <1>2, <1>3, <1>5, <1>7, <1>8, <1>9

-----------------------------------------------------------------------------
(* One process: the balance limit                                          *)

\* A receive whose share of the limit may still turn into balance.  An expired
\* one that was never executed may not, although a late payment can make its
\* row PAID again: execute stops short of it, unless it was past its last look
\* at the clock.
Live(i) ==
    /\ Active(i)
    /\ \/ i \notin expired
       \/ execCount[i] = 1
       \/ \E w \in Procs : pc[w] = "reserve" /\ Job(w) = i

Counted == Held \cup {i \in Intents : Live(i)}
Begun == {i \in Intents : opState[i] # "NONE"}

\* An EXPIRED row is past its expiry and was never executed; a call in progress
\* never works on an ISSUED row, nor saves into one that awaits no proofs.
Settled ==
    /\ \A i \in Intents : opState[i] = "EXPIRED" => i \in expired /\ execCount[i] = 0
    /\ \A w \in Procs :
         /\ pc[w] # "idle" => opState[Job(w)] # "ISSUED"
         /\ pc[w] \in {"expire", "expired"} => Job(w) \in expired
         /\ pc[w] = "saving" => Awaited(Job(w))

Shares ==
    /\ IsFiniteSet(Begun)
    /\ Total(Counted) <= MaxBalance
    /\ Settled

LEMMA SettledStep ==
    SoleProcess /\ Inv /\ Restorable /\ Settled /\ [Next]_vars => Settled'
<1> SUFFICES ASSUME SoleProcess, Inv, Restorable, Settled, [Next]_vars
             PROVE  Settled'
  OBVIOUS
<1> USE DEF envVars, netVars
<1>here. Tables /\ Rows /\ Calls /\ \A w \in Procs : Sound(w)
  BY DEF Inv, Calls
<1>quiet. ASSUME UNCHANGED <<opState, execCount, pc, ctx>>, expired \subseteq expired'
          PROVE  Settled'
  BY <1>quiet DEF Settled, Awaited, Job
\* The rows stay; the call ends, or goes on for the same intent.
<1>calm. ASSUME NEW w \in Procs, UNCHANGED <<opState, execCount, expired>>,
                \/ pc'[w] = "idle"
                \/ /\ Job(w)' = Job(w) /\ pc[w] # "idle"
                   /\ pc'[w] \notin {"expire", "expired", "saving"}
         PROVE  Settled'
  BY <1>calm DEF SoleProcess, Settled
\* One row is written, and the call ends or reads it again.
<1>write. ASSUME NEW w \in Procs, NEW i \in Intents, NEW s,
                 opState' = [opState EXCEPT ![i] = s],
                 s = "EXPIRED" => i \in expired /\ execCount'[i] = 0,
                 \A j \in Intents \ {i} : execCount'[j] = execCount[j],
                 s # "EXPIRED" \/ execCount' = execCount,
                 UNCHANGED expired,
                 \/ pc'[w] = "idle"
                 \/ /\ Job(w)' = i /\ s # "ISSUED"
                    /\ pc'[w] \notin {"expire", "expired", "saving"}
          PROVE  Settled'
  <2>1. \A j \in Intents \ {i} : opState'[j] = opState[j]
    BY <1>write, <1>here DEF Tables
  <2>2. opState'[i] = s
    BY <1>write, <1>here DEF Tables
  <2> QED
    BY <1>write, <2>1, <2>2 DEF SoleProcess, Settled
<1>1. ASSUME NEW w \in Procs, Call(w) \/ Prepare(w) PROVE Settled'
  <2>1. ASSUME NEW i \in Intents, PrepareStart(w, i) PROVE Settled'
    <3>1. pc'[w] = "ask" /\ Job(w)' = i
      BY <1>here, <2>1, ReadMoves DEF PrepareStart, Labels
    <3> QED
      BY <1>write, <2>1, <3>1 DEF PrepareStart, SetState
  <2>2. ASSUME NEW i \in Intents, ExecuteStart(w, i) \/ StatusStart(w, i) PROVE Settled'
    <3>1. pc'[w] = "check" /\ Job(w)' = i /\ opState[i] # "ISSUED"
      BY <1>here, <2>2, ReadMoves DEF ExecuteStart, StatusStart, Reconcilable, Labels
    <3>2. UNCHANGED <<opState, execCount, expired>>
      BY <2>2 DEF ExecuteStart, StatusStart, shared, opVars
    <3> QED
      BY <3>1, <3>2 DEF SoleProcess, Settled
  <2>3. CASE StorePlan(w)
    <3>1. pc'[w] = "idle" /\ Job(w) \in Intents
      BY <1>here, <2>3, DoneMoves DEF StorePlan, Sound
    <3> QED
      BY <1>write, <2>3, <3>1 DEF StorePlan, SetState
  <2>4. CASE Crash(w) \/ QuoteAnswer(w) \/ QuoteFail(w)
    <3>1. UNCHANGED <<opState, execCount, expired>>
      BY <2>4 DEF Crash, QuoteAnswer, QuoteFail, shared, opVars
    <3>2. \/ pc'[w] = "idle"
          \/ Job(w)' = Job(w) /\ pc[w] # "idle" /\ pc'[w] \in {"store", "unknown"}
      BY <1>here, <2>4 DEF Crash, QuoteAnswer, QuoteFail, Done, Goto, Calls, Job
    <3> QED
      BY <1>calm, <3>1, <3>2
  <2> QED
    BY <1>1, <2>1, <2>2, <2>3, <2>4 DEF Call, Prepare
<1>2. ASSUME NEW w \in Procs, Reconcile(w) PROVE Settled'
  <2>here. Job(w) \in Intents /\ pc[w] # "idle"
    BY <1>2, <1>here
    DEF Reconcile, Sound, CheckQuote, CheckFail, ReadClock, Restore, RestoreFail,
        MarkPaid, MarkPrepared, MarkExpired, SetUnknown, SaveSeen, SaveRead,
        SaveWrite, SaveFail
  <2>1. CASE MarkPaid(w) \/ MarkPrepared(w) \/ MarkExpired(w) \/ SetUnknown(w)
    <3>1. /\ pc'[w] = "idle" \/ (pc'[w] = "reread" /\ Job(w)' = Job(w))
          /\ UNCHANGED <<execCount, expired>>
      BY <1>here, <2>1, ReconciledMoves
      DEF MarkPaid, MarkPrepared, MarkExpired, SetUnknown
    <3>2. PICK s : /\ opState' = [opState EXCEPT ![Job(w)] = s]
                   /\ \/ s \in {"PAID", "PREPARED", "UNKNOWN"}
                      \/ s = "EXPIRED" /\ pc[w] = "expired"
                      \/ s = opState[Job(w)]
      BY <2>1 DEF MarkPaid, MarkPrepared, MarkExpired, SetUnknown, SetState
    <3>3. /\ s = "EXPIRED" => Job(w) \in expired /\ execCount[Job(w)] = 0
          /\ s # "ISSUED"
      BY <2>here, <3>2 DEF Settled, Restorable
    <3> QED
      BY <1>write, <2>here, <3>1, <3>2, <3>3
  <2>2. CASE SaveWrite(w)
    <3>1. pc'[w] = "idle"
      BY <1>here, <2>2, DoneMoves DEF SaveWrite
    <3> QED
      BY <1>write, <2>here, <2>2, <3>1 DEF SaveWrite, SetState
  <2>3. CASE SaveRead(w) \/ ReadClock(w)
    <3>1. /\ UNCHANGED <<opState, execCount, expired>> /\ Job(w)' = Job(w)
          /\ \/ pc'[w] = "saving" /\ Awaited(Job(w))
             \/ pc'[w] = "expired" /\ Job(w) \in expired
             \/ pc'[w] \in {"unknown", "prepared"}
      BY <1>here, <2>3 DEF SaveRead, ReadClock, Goto, Calls, Job, shared, opVars
    <3> QED
      BY <2>here, <3>1 DEF SoleProcess, Settled, Awaited
  <2>4. CASE \/ CheckQuote(w) \/ CheckFail(w) \/ Restore(w) \/ RestoreFail(w)
             \/ SaveSeen(w) \/ SaveFail(w)
    <3>1. UNCHANGED <<opState, execCount, expired>>
      BY <2>4 DEF CheckQuote, CheckFail, Restore, RestoreFail, SaveSeen, SaveFail,
                  shared, opVars
    <3>2. Verdict(quote[Job(w)], ctx[w].count) \notin {"expire", "expired", "saving"}
          \/ ~CheckQuote(w)
      <4>1. CASE CheckQuote(w)
        <5>1. quote[Job(w)] \in {"UNPAID", "PAID", "ISSUED"} /\ ctx[w].count \in Nat
          BY <1>here, <2>here, <4>1 DEF CheckQuote, Sound, Rows, Tables, Calls, Contexts
        <5> QED
          BY <5>1, VerdictTyped
      <4> QED
        BY <4>1
    <3>3. pc'[w] = "idle" \/ (Job(w)' = Job(w)
                              /\ pc'[w] \notin {"expire", "expired", "saving"})
      BY <1>here, <2>4, <3>2, CatchMoves
      DEF CheckQuote, CheckFail, Restore, RestoreFail, SaveSeen, SaveFail, Goto, Done,
          Calls, Job
    <3> QED
      BY <1>calm, <2>here, <3>1, <3>3
  <2> QED
    BY <1>2, <2>1, <2>2, <2>3, <2>4 DEF Reconcile
<1>3. ASSUME NEW w \in Procs, Execute(w) PROVE Settled'
  <2>here. Job(w) \in Intents /\ pc[w] # "idle"
    BY <1>3, <1>here
    DEF Execute, Sound, Reread, ExpireApproval, Reserve, ReserveRefused, Load,
        SendMint, SendFail, MintReply, AwaitFail
  <2>1. CASE Reread(w)
    <3>1. /\ UNCHANGED <<opState, execCount, expired>>
          /\ \/ pc'[w] = "idle"
             \/ Job(w)' = Job(w) /\ pc'[w] = "expire" /\ Job(w) \in expired
             \/ Job(w)' = Job(w) /\ pc'[w] = "reserve"
      BY <1>here, <2>1 DEF Reread, Goto, Done, Calls, Job, shared, opVars
    <3> QED
      BY <2>here, <3>1 DEF SoleProcess, Settled
  <2>2. CASE ExpireApproval(w)
    <3>1. pc'[w] = "idle" /\ pc[w] = "expire" /\ UNCHANGED <<execCount, expired>>
      BY <1>here, <2>2, DoneMoves DEF ExpireApproval
    <3>2. PICK s : /\ opState' = [opState EXCEPT ![Job(w)] = s]
                   /\ \/ s = "EXPIRED" /\ execCount[Job(w)] = 0
                      \/ s = opState[Job(w)]
      BY <2>2 DEF ExpireApproval, SetState
    <3>3. s = "EXPIRED" => Job(w) \in expired /\ execCount[Job(w)] = 0
      BY <2>here, <3>1, <3>2 DEF Settled
    <3> QED
      BY <1>write, <2>here, <3>1, <3>2, <3>3
  <2>3. CASE Reserve(w)
    <3>1. /\ pc'[w] = "load" /\ Job(w)' = Job(w) /\ UNCHANGED expired
          /\ opState' = [opState EXCEPT ![Job(w)] = "EXECUTING"]
          /\ \A j \in Intents \ {Job(w)} : execCount'[j] = execCount[j]
      BY <1>here, <2>3 DEF Reserve, SetState, Goto, Calls, Job, Tables
    <3> QED
      BY <1>write, <2>here, <3>1
  <2>4. CASE \/ ReserveRefused(w) \/ Load(w) \/ SendMint(w) \/ SendFail(w)
             \/ MintReply(w) \/ AwaitFail(w)
    <3>1. UNCHANGED <<opState, execCount, expired>>
      BY <2>4 DEF ReserveRefused, Load, SendMint, SendFail, MintReply, AwaitFail,
                  shared, opVars
    <3>2. \/ pc'[w] = "idle"
          \/ Job(w)' = Job(w) /\ pc'[w] \notin {"expire", "expired", "saving"}
      <4>1. CASE Load(w)
        BY <1>here, <2>here, <4>1, ReadMoves DEF Load, Labels
      <4> QED
        BY <1>here, <2>4, <4>1, CatchMoves
        DEF ReserveRefused, SendMint, SendFail, MintReply, AwaitFail, Goto, Done,
            Calls, Job
    <3> QED
      BY <1>calm, <2>here, <3>1, <3>2
  <2> QED
    BY <1>3, <2>1, <2>2, <2>3, <2>4 DEF Execute
<1>4. ASSUME NEW i \in Intents,
             Approve(i) \/ Expire(i) \/ Pay(i) \/ Mint(i) \/ PaymentMoves(i)
      PROVE  Settled'
  BY <1>4, <1>quiet
  DEF Approve, Expire, Pay, Mint, MintSign, MintRefuse, PaymentMoves, opVars, procVars
<1> QED
  BY <1>1, <1>2, <1>3, <1>4, <1>quiet DEF Next, Process, vars, shared, opVars, procVars

\* A receive joins those counted against the limit only when it is prepared.
LEMMA CountedStep ==
    ASSUME SoleProcess, Inv, Restorable, Settled, [Next]_vars,
           \A w \in Procs, i \in Intents : ~PrepareStart(w, i)
    PROVE  Counted' \subseteq Counted /\ Begun' \subseteq Begun
<1> USE DEF envVars, netVars
<1>here. Tables /\ Rows /\ Calls /\ \A w \in Procs : Sound(w)
  BY DEF Inv, Calls
<1> DEFINE Goal == Counted' \subseteq Counted /\ Begun' \subseteq Begun
\* Only the call moves.
<1>calm. ASSUME NEW w \in Procs, UNCHANGED <<opState, execCount, coin, expired>>,
                pc'[w] = "reserve" => pc[w] = "reserve" /\ Job(w)' = Job(w)
         PROVE  Goal
  BY <1>calm DEF SoleProcess, Counted, Held, Live, Active, Begun
\* Only rows' surroundings move.
<1>quiet. ASSUME UNCHANGED <<opState, execCount, pc, ctx>>, expired \subseteq expired',
                 Held' \subseteq Held
          PROVE  Goal
  BY <1>quiet DEF Counted, Live, Active, Begun, Job
\* One row is written: it was active, or is not, or cannot be executed.
<1>write. ASSUME NEW w \in Procs, NEW i \in Intents, NEW s,
                 opState' = [opState EXCEPT ![i] = s], opState[i] # "NONE",
                 UNCHANGED <<execCount, coin, expired>>, pc'[w] # "reserve",
                 \/ Active(i)
                 \/ s \in {"NONE", "ISSUED", "EXPIRED"}
                 \/ i \in expired /\ execCount[i] = 0
          PROVE  Goal
  <2>1. \A j \in Intents \ {i} : opState'[j] = opState[j]
    BY <1>write, <1>here DEF Tables
  <2>2. opState'[i] = s
    BY <1>write, <1>here DEF Tables
  <2>3. Live(i)' => Live(i)
    BY <1>write, <2>2 DEF SoleProcess, Live, Active
  <2>4. \A j \in Intents \ {i} : Live(j)' => Live(j)
    BY <1>write, <2>1 DEF SoleProcess, Live, Active
  <2> QED
    BY <1>write, <2>1, <2>3, <2>4 DEF Counted, Held, Begun
\* A row that was begun and is not ISSUED is active or past its expiry.
<1>active. ASSUME NEW i \in Intents, opState[i] \notin {"NONE", "ISSUED"}
           PROVE  Active(i) \/ (i \in expired /\ execCount[i] = 0)
  BY <1>active, <1>here DEF Settled, Active, Tables, OpStates
<1>1. ASSUME NEW w \in Procs, Call(w) \/ Prepare(w) PROVE Goal
  <2>1. CASE StorePlan(w)
    <3>1. /\ pc'[w] = "idle" /\ Job(w) \in Intents
          /\ opState[Job(w)] \notin {"NONE", "ISSUED"}
      BY <1>here, <2>1, DoneMoves DEF StorePlan, Sound, Settled
    <3> QED
      BY <1>active, <1>write, <2>1, <3>1 DEF StorePlan, SetState
  <2>2. CASE ~StorePlan(w)
    <3>1. UNCHANGED <<opState, execCount, coin, expired>>
      BY <1>1, <2>2
      DEF Call, Prepare, ExecuteStart, StatusStart, Crash, QuoteAnswer, QuoteFail,
          shared, opVars
    <3>2. pc'[w] # "reserve"
      BY <1>1, <1>here, <2>2
      DEF Call, Prepare, ExecuteStart, StatusStart, Crash, QuoteAnswer, QuoteFail,
          Read, Goto, Done, Calls
    <3> QED
      BY <1>calm, <3>1, <3>2
  <2> QED
    BY <2>1, <2>2
<1>2. ASSUME NEW w \in Procs, Reconcile(w) PROVE Goal
  <2>here. Job(w) \in Intents /\ opState[Job(w)] \notin {"NONE", "ISSUED"}
    BY <1>2, <1>here
    DEF Reconcile, Sound, Settled, Rows, CheckQuote, CheckFail, ReadClock, Restore,
        RestoreFail, MarkPaid, MarkPrepared, MarkExpired, SetUnknown, SaveSeen,
        SaveRead, SaveWrite, SaveFail
  <2>1. CASE MarkPaid(w) \/ MarkPrepared(w) \/ MarkExpired(w) \/ SetUnknown(w)
    <3>1. pc'[w] \in {"idle", "reread"} /\ UNCHANGED <<execCount, coin, expired>>
      BY <1>here, <2>1, ReconciledMoves
      DEF MarkPaid, MarkPrepared, MarkExpired, SetUnknown
    <3>2. PICK s : opState' = [opState EXCEPT ![Job(w)] = s]
      BY <2>1 DEF MarkPaid, MarkPrepared, MarkExpired, SetUnknown, SetState
    <3> QED
      BY <1>active, <1>write, <2>here, <3>1, <3>2
  <2>2. CASE SaveWrite(w)
    <3> DEFINE i == Job(w)
    <3>1. /\ pc'[w] = "idle"
          /\ opState' = [opState EXCEPT ![i] = "ISSUED"]
          /\ coin' = [coin EXCEPT ![i] = "UNSPENT"]
          /\ UNCHANGED <<execCount, expired>>
      BY <1>here, <2>2, DoneMoves DEF SaveWrite, SetState
    <3>2. Awaited(i) /\ execCount[i] = 1
      <4>1. quote[i] = "ISSUED" /\ Awaited(i)
        BY <1>here, <2>2 DEF SaveWrite, Sound, Settled
      <4> QED
        BY <1>here, <2>here, <4>1 DEF Rows, Tables
    <3>3. Live(i)
      BY <3>2 DEF Live, Active, Awaited
    <3>4. /\ \A j \in Intents \ {i} : opState'[j] = opState[j] /\ coin'[j] = coin[j]
          /\ opState'[i] = "ISSUED"
      BY <1>here, <2>here, <3>1 DEF Tables
    <3>5. \A j \in Intents \ {i} : Live(j)' => Live(j)
      BY <3>1, <3>4 DEF SoleProcess, Live, Active
    <3> QED
      BY <2>here, <3>3, <3>4, <3>5 DEF Counted, Held, Begun, Live, Active
  <2>3. CASE \/ CheckQuote(w) \/ CheckFail(w) \/ ReadClock(w) \/ Restore(w)
             \/ RestoreFail(w) \/ SaveSeen(w) \/ SaveRead(w) \/ SaveFail(w)
    <3>1. UNCHANGED <<opState, execCount, coin, expired>>
      BY <2>3 DEF CheckQuote, CheckFail, ReadClock, Restore, RestoreFail, SaveSeen,
                  SaveRead, SaveFail, shared, opVars
    <3>2. pc'[w] # "reserve"
      <4>1. CASE CheckQuote(w)
        <5>1. quote[Job(w)] \in {"UNPAID", "PAID", "ISSUED"} /\ ctx[w].count \in Nat
          BY <1>here, <2>here, <4>1 DEF CheckQuote, Sound, Rows, Tables, Calls, Contexts
        <5>2. Verdict(quote[Job(w)], ctx[w].count) # "reserve"
          BY <5>1, VerdictTyped
        <5> QED
          BY <1>here, <4>1, <5>2 DEF CheckQuote, Goto, Calls
      <4> QED
        BY <1>here, <2>3, <4>1
        DEF CheckFail, ReadClock, Restore, RestoreFail, SaveSeen, SaveRead, SaveFail,
            Catch, Goto, Done, Calls
    <3> QED
      BY <1>calm, <3>1, <3>2
  <2> QED
    BY <1>2, <2>1, <2>2, <2>3 DEF Reconcile
<1>3. ASSUME NEW w \in Procs, Execute(w) PROVE Goal
  <2>here. Job(w) \in Intents
    BY <1>3, <1>here
    DEF Execute, Sound, Reread, ExpireApproval, Reserve, ReserveRefused, Load,
        SendMint, SendFail, MintReply, AwaitFail
  <2>1. CASE Reread(w)
    <3>1. /\ UNCHANGED <<opState, execCount, coin, expired>>
          /\ \/ pc'[w] \in {"idle", "expire"}
             \/ /\ Job(w)' = Job(w) /\ pc'[w] = "reserve"
                /\ execCount[Job(w)] = 0 /\ Job(w) \notin expired
      BY <1>here, <2>1 DEF Reread, Reservable, Goto, Done, Calls, Job, shared, opVars
    <3> QED
      BY <3>1 DEF SoleProcess, Counted, Held, Live, Active, Begun
  <2>2. CASE ExpireApproval(w)
    <3>1. /\ pc'[w] = "idle" /\ UNCHANGED <<execCount, coin, expired>>
          /\ opState[Job(w)] \notin {"NONE", "ISSUED"}
      BY <1>here, <2>2, DoneMoves DEF ExpireApproval, Sound, Rows, Settled
    <3>2. PICK s : opState' = [opState EXCEPT ![Job(w)] = s]
      BY <2>2 DEF ExpireApproval, SetState
    <3> QED
      BY <1>active, <1>write, <2>here, <3>1, <3>2
  <2>3. CASE Reserve(w)
    <3> DEFINE i == Job(w)
    <3>1. /\ pc'[w] = "load" /\ UNCHANGED <<coin, expired>>
          /\ \A j \in Intents \ {i} : execCount'[j] = execCount[j]
          /\ \A j \in Intents \ {i} : opState'[j] = opState[j]
          /\ opState[i] = "PAID" /\ pc[w] = "reserve"
      BY <1>here, <2>3 DEF Reserve, Reservable, SetState, Goto, Calls, Tables
    <3>2. Live(i)
      BY <3>1 DEF Live, Active
    <3>3. \A j \in Intents \ {i} : Live(j)' => Live(j)
      BY <3>1 DEF SoleProcess, Live, Active
    <3> QED
      BY <2>here, <3>1, <3>2, <3>3 DEF Counted, Held, Begun
  <2>4. CASE \/ ReserveRefused(w) \/ Load(w) \/ SendMint(w) \/ SendFail(w)
             \/ MintReply(w) \/ AwaitFail(w)
    <3>1. UNCHANGED <<opState, execCount, coin, expired>>
      BY <2>4 DEF ReserveRefused, Load, SendMint, SendFail, MintReply, AwaitFail,
                  shared, opVars
    <3>2. pc'[w] # "reserve"
      BY <1>here, <2>4
      DEF ReserveRefused, Load, SendMint, SendFail, MintReply, AwaitFail, Catch, Goto,
          Done, Read, Calls
    <3> QED
      BY <1>calm, <3>1, <3>2
  <2> QED
    BY <1>3, <2>1, <2>2, <2>3, <2>4 DEF Execute
<1>4. ASSUME NEW i \in Intents, PaymentMoves(i) PROVE Goal
  <2>1. Held' \subseteq Held /\ UNCHANGED <<opState, execCount, pc, ctx, expired>>
    BY <1>4, <1>here DEF PaymentMoves, Held, Tables, opVars, procVars
  <2> QED
    BY <1>quiet, <2>1
<1>5. ASSUME NEW i \in Intents, Approve(i) \/ Expire(i) \/ Pay(i) \/ Mint(i) PROVE Goal
  <2>1. UNCHANGED <<opState, execCount, pc, ctx, coin>> /\ expired \subseteq expired'
    BY <1>5 DEF Approve, Expire, Pay, Mint, MintSign, MintRefuse, opVars, procVars
  <2> QED
    BY <1>quiet, <2>1 DEF Held
<1>6. CASE UNCHANGED vars
  BY <1>6, <1>quiet DEF vars, shared, opVars, procVars, Held
<1> QED
  BY <1>1, <1>2, <1>3, <1>4, <1>5, <1>6 DEF Next, Process

LEMMA SharesStep ==
    SoleProcess /\ Inv /\ Restorable /\ Shares /\ [Next]_vars => Shares'
<1> SUFFICES ASSUME SoleProcess, Inv, Restorable, Shares, [Next]_vars
             PROVE  Shares'
  OBVIOUS
<1>here. Tables /\ Rows /\ Calls
  BY DEF Inv
<1>1. Settled'
  BY SettledStep DEF Shares
<1>2. Counted \subseteq Begun /\ Begun \subseteq Intents
  BY <1>here DEF Counted, Held, Live, Active, Begun, Rows
<1>3. IsFiniteSet(Counted) /\ Counted \in SUBSET Intents
  BY <1>2, FS_Subset DEF Shares
<1>4. CASE \A w \in Procs, i \in Intents : ~PrepareStart(w, i)
  <2>1. Counted' \subseteq Counted /\ Begun' \subseteq Begun
    BY <1>4, CountedStep DEF Shares
  <2>2. IsFiniteSet(Begun') /\ IsFiniteSet(Counted')
    BY <1>3, <2>1, FS_Subset DEF Shares
  <2>3. Total(Counted') <= Total(Counted)
    BY <1>3, <2>1, TotalMonotone
  <2>4. Total(Counted') \in Nat /\ Total(Counted) \in Nat
    BY <1>3, <2>1, <2>2, TotalNat
  <2>5. Total(Counted)' = Total(Counted')
    BY DEF Total, MapThenSumSet, MapThenFoldSet
  <2> QED
    BY <1>1, <2>2, <2>3, <2>4, <2>5, LimitAssumption DEF Shares
<1>5. ASSUME NEW w \in Procs, NEW i \in Intents, PrepareStart(w, i) PROVE Shares'
  <2> DEFINE On == {j \in Intents : Active(j)}
  <2>1. /\ opState' = [opState EXCEPT ![i] = "CREATING"]
        /\ UNCHANGED <<execCount, coin, expired>> /\ pc'[w] = "ask" /\ Fits(i)
    BY <1>5, <1>here, ReadMoves DEF PrepareStart, SetState, envVars, Labels
  <2>2. /\ \A j \in Intents \ {i} : opState'[j] = opState[j]
        /\ \A j \in Intents \ {i} : Live(j)' => Live(j)
    BY <1>here, <2>1 DEF SoleProcess, Tables, Live, Active
  <2>3. Begun' \subseteq Begun \cup {i} /\ Counted' \subseteq (Held \cup On) \cup {i}
    BY <2>1, <2>2 DEF Begun, Counted, Held, Live
  <2>4. IsFiniteSet(Begun')
    <3>1. IsFiniteSet(Begun \cup {i})
      BY FS_AddElement DEF Shares
    <3> QED
      BY <2>3, <3>1, FS_Subset
  <2>5. /\ IsFiniteSet(Held) /\ Held \in SUBSET Intents
        /\ IsFiniteSet(On) /\ On \in SUBSET Intents
    <3>1. Held \subseteq Begun /\ On \subseteq Begun
      BY <1>here DEF Held, Begun, Active, Rows
    <3> QED
      BY <1>2, <3>1, FS_Subset DEF Shares
  <2>6. Total(Held) + Total(On) + Amount[i] <= MaxBalance
    BY <2>1 DEF Fits
  <2> HIDE DEF On
  <2>7. IsFiniteSet(Held \cup On) /\ Total(Held \cup On) <= Total(Held) + Total(On)
    BY <2>5, FS_Union, TotalUnion
  <2>8. /\ IsFiniteSet((Held \cup On) \cup {i})
        /\ Total((Held \cup On) \cup {i}) <= Total(Held \cup On) + Amount[i]
    BY <2>5, <2>7, TotalMore
  <2>9. Total(Counted') <= Total((Held \cup On) \cup {i})
    BY <2>3, <2>5, <2>8, TotalMonotone
  <2>10. /\ Total(Held) \in Nat /\ Total(On) \in Nat /\ Total(Held \cup On) \in Nat
         /\ Amount[i] \in Nat
    BY <2>5, <2>7, TotalNat, AmountAssumption
  <2>11. Total((Held \cup On) \cup {i}) \in Nat
    BY <2>5, <2>8, TotalNat
  <2>12. Total(Counted') \in Nat
    <3>1. Counted' \in SUBSET Intents /\ IsFiniteSet(Counted')
      BY <2>3, <2>5, <2>8, FS_Subset
    <3> QED
      BY <3>1, TotalNat
  <2>13. Total(Counted)' = Total(Counted')
    BY DEF Total, MapThenSumSet, MapThenFoldSet
  <2>14. Total(Counted') <= MaxBalance
    BY <2>6, <2>7, <2>8, <2>9, <2>10, <2>11, <2>12, LimitAssumption
  <2> QED
    BY <1>1, <2>4, <2>13, <2>14 DEF Shares
<1> QED
  BY <1>4, <1>5

LEMMA SharesInit == Init => Shares
<1> SUFFICES ASSUME Init PROVE Shares
  OBVIOUS
<1>1. Begun = {} /\ Counted = {}
  BY DEF Init, Begun, Counted, Held, Live, Active
<1>2. IsFiniteSet({}) /\ Total({}) = 0
  BY FS_EmptySet, TotalStep
<1>3. IsFiniteSet(Begun) /\ Total(Counted) = 0
  BY <1>1, <1>2, Zenon
<1>4. Settled
  BY DEF Init, Settled
<1> QED
  BY <1>3, <1>4, LimitAssumption DEF Shares

\* With one wallet process the balance stays within the limit: every receive
\* that may still be issued was counted when the next one was admitted, and an
\* expired one that a late payment revives is never issued.
THEOREM BalanceStaysCapped ==
    ASSUME SoleProcess
    PROVE  Spec => []BalanceCap
<1>1. Inv /\ Shares => BalanceCap
  <2> SUFFICES ASSUME Inv, Shares PROVE BalanceCap
    OBVIOUS
  <2>1. Counted \subseteq Begun /\ Begun \subseteq Intents /\ Held \subseteq Counted
    BY DEF Inv, Counted, Held, Live, Active, Begun, Rows
  <2>2. /\ IsFiniteSet(Counted) /\ IsFiniteSet(Held)
        /\ Counted \in SUBSET Intents /\ Held \in SUBSET Intents
    BY <2>1, FS_Subset DEF Shares
  <2>3. Total(Held) <= Total(Counted) /\ Total(Held) \in Nat /\ Total(Counted) \in Nat
    BY <2>1, <2>2, TotalMonotone, TotalNat
  <2> QED
    BY <2>3, LimitAssumption DEF Shares, BalanceCap
<1>2. Inv /\ Restorable /\ Shares /\ [Next]_vars => Shares'
  BY SharesStep
<1>3. Inv /\ Restorable /\ [Next]_vars => Restorable'
  BY RestorableStep
<1> QED
  BY InvInit, InvStep, RestorableInit, SharesInit, <1>1, <1>2, <1>3, PTL DEF Spec

\* With one wallet process ISSUED is final: no call is still at work on a row
\* that became ISSUED.  (Two processes can take it back.)
THEOREM IssuedIsFinal ==
    ASSUME SoleProcess
    PROVE  Spec => IssuedForever
<1> DEFINE Final == \A i \in Intents : opState[i] = "ISSUED" => opState'[i] = "ISSUED"
<1>1. ASSUME Inv, Settled, [Next]_vars PROVE Final
  <2>1. ASSUME NEW w \in Procs, NEW i \in Intents, i = Job(w), pc[w] # "idle",
               \E s : opState' = [opState EXCEPT ![i] = s]
        PROVE  Final
    <3>1. opState[i] # "ISSUED"
      BY <1>1, <2>1 DEF Settled
    <3> QED
      BY <1>1, <2>1, <3>1 DEF Inv, Tables
  <2>2. ASSUME NEW w \in Procs,
               \/ StorePlan(w) \/ MarkPaid(w) \/ MarkPrepared(w) \/ MarkExpired(w)
               \/ SetUnknown(w) \/ SaveWrite(w) \/ ExpireApproval(w) \/ Reserve(w)
        PROVE  Final
    <3>1. pc[w] # "idle" /\ \E s : opState' = [opState EXCEPT ![Job(w)] = s]
      BY <2>2 DEF StorePlan, MarkPaid, MarkPrepared, MarkExpired, SetUnknown,
                  SaveWrite, ExpireApproval, Reserve, SetState
    <3>2. Job(w) \in Intents
      BY <1>1, <3>1 DEF Inv, Calls, Sound
    <3> QED
      BY <2>1, <3>1, <3>2
  <2>3. ASSUME NEW w \in Procs, NEW i \in Intents, PrepareStart(w, i) PROVE Final
    BY <1>1, <2>3 DEF PrepareStart, SetState, Inv, Tables
  <2> QED
    BY <1>1, <2>2, <2>3
    DEF Next, Process, Call, Prepare, Reconcile, Execute, ExecuteStart, StatusStart,
        Crash, QuoteAnswer, QuoteFail, CheckQuote, CheckFail, ReadClock, Restore,
        RestoreFail, SaveSeen, SaveRead, SaveFail, Reread, ReserveRefused, Load,
        SendMint, SendFail, MintReply, AwaitFail, Approve, Expire, Pay, Mint, MintSign,
        MintRefuse, PaymentMoves, vars, shared, opVars
<1>2. Inv /\ Restorable /\ Shares /\ [Next]_vars => Shares'
  BY SharesStep
<1>3. Inv /\ Restorable /\ [Next]_vars => Restorable'
  BY RestorableStep
<1>4. Inv /\ Shares /\ [Next]_vars => [Final]_vars
  BY <1>1 DEF Shares
<1> QED
  BY InvInit, InvStep, RestorableInit, SharesInit, <1>2, <1>3, <1>4, PTL
  DEF Spec, IssuedForever

-----------------------------------------------------------------------------
(* The service implements OneShot                                          *)

StageMap == [i \in Intents |-> Stage(i)]
PlanMap == [i \in Intents |-> Planned(i)]
Refined == OneShotReceive!Next \/ UNCHANGED <<StageMap, PlanMap>>

\* One intent advances, the others stay: an abstract step.
LEMMA AdvanceStep ==
    ASSUME NEW i \in Intents, NEW from, NEW to,
           Stage(i) = from, Stage(i)' = to,
           \A j \in Intents \ {i} : Stage(j)' = Stage(j)
    PROVE  OneShotReceive!Advance(i, from, to)
  BY DEF OneShotReceive!Advance

LEMMA StageStep == Inv /\ [Next]_vars => Refined
<1> SUFFICES ASSUME Inv, [Next]_vars PROVE Refined
  OBVIOUS
<1> USE DEF envVars, netVars
<1>here. Rows /\ Tables /\ \A w \in Procs : Sound(w)
  BY DEF Inv, Calls
<1>1. ASSUME UNCHANGED <<posts, execCount, approved>>,
             \A i \in Intents : outputs'[i] = "NONE" <=> outputs[i] = "NONE",
             \A i \in Intents : quote'[i] = "ISSUED" <=> quote[i] = "ISSUED"
      PROVE  Refined
  BY <1>1 DEF Refined, StageMap, PlanMap, Stage, Planned
<1>2. ASSUME NEW w \in Procs, StorePlan(w) PROVE Refined
  <2>1. PICK i \in Intents : i = Job(w)
    BY <1>2, <1>here DEF StorePlan, Sound
  <2>2. /\ UNCHANGED <<posts, execCount, approved, quote>>
        /\ outputs' = [outputs EXCEPT ![i] = "STORED"]
    BY <1>2, <2>1 DEF StorePlan
  <2>3. CASE outputs[i] # "NONE"
    BY <1>1, <1>here, <2>1, <2>2, <2>3 DEF Tables
  <2>4. CASE outputs[i] = "NONE"
    <3>1. posts[i] = 0 /\ execCount[i] = 0 /\ i \notin approved /\ quote[i] # "ISSUED"
      BY <1>here, <2>1, <2>4 DEF Rows, Tables
    <3>2. Stage(i) = "absent" /\ Stage(i)' = "prepared"
      BY <1>here, <2>1, <2>2, <2>4, <3>1 DEF Stage, Tables
    <3>3. \A j \in Intents \ {i} : Stage(j)' = Stage(j) /\ Planned(j)' = Planned(j)
      BY <1>here, <2>2 DEF Stage, Planned, Tables
    <3>4. Planned(i)' = "locked quote"
      BY <1>here, <2>1, <2>2 DEF Planned, Tables
    <3>5. PlanMap' = [PlanMap EXCEPT ![i] = "locked quote"]
      BY <3>3, <3>4 DEF PlanMap
    <3>6. OneShotReceive!Prepare(i, "locked quote")
      BY <2>1, <3>2, <3>3, <3>5, AdvanceStep DEF OneShotReceive!Prepare, PlanMap
    <3> QED
      BY <2>1, <3>6 DEF Refined, OneShotReceive!Next
  <2> QED
    BY <2>3, <2>4
<1>3. ASSUME NEW w \in Procs, Reserve(w) PROVE Refined
  <2>1. PICK i \in Intents : i = Job(w)
    BY <1>3, <1>here DEF Reserve, Sound
  <2>2. /\ posts[i] = 0 /\ execCount[i] = 0 /\ quote[i] # "ISSUED" /\ i \in approved
        /\ execCount' = [execCount EXCEPT ![i] = 1]
        /\ UNCHANGED <<outputs, approved, quote, posts>>
    BY <1>3, <1>here, <2>1 DEF Reserve, Reservable, Sound, Rows, Tables
  <2>3. Stage(i) = "approved" /\ Stage(i)' = "committed"
    BY <1>here, <2>1, <2>2 DEF Stage, Tables
  <2>4. \A j \in Intents \ {i} : Stage(j)' = Stage(j)
    BY <1>here, <2>2 DEF Stage, Tables
  <2>5. UNCHANGED PlanMap
    BY <2>2 DEF PlanMap, Planned
  <2> QED
    BY <2>1, <2>3, <2>4, <2>5, AdvanceStep
    DEF Refined, OneShotReceive!Next, OneShotReceive!Commit, PlanMap
<1>4. ASSUME NEW w \in Procs, SendMint(w) PROVE Refined
  <2>1. PICK i \in Intents : i = Job(w)
    BY <1>4, <1>here DEF SendMint, Sound
  <2>post. posts[i] = 0 /\ execCount[i] = 1
    BY <1>4, <1>here, <2>1 DEF SendMint, Sound
  <2>2. /\ posts[i] = 0 /\ execCount[i] = 1 /\ quote[i] # "ISSUED"
        /\ posts' = [posts EXCEPT ![i] = 1]
        /\ UNCHANGED <<outputs, execCount, approved, quote>>
    BY <1>4, <1>here, <2>1, <2>post DEF SendMint, Rows, opVars
  <2>3. Stage(i) = "committed" /\ Stage(i)' = "posted"
    BY <1>here, <2>1, <2>2 DEF Stage, Tables
  <2>4. \A j \in Intents \ {i} : Stage(j)' = Stage(j)
    BY <1>here, <2>2 DEF Stage, Tables
  <2>5. UNCHANGED PlanMap
    BY <2>2 DEF PlanMap, Planned
  <2> QED
    BY <2>1, <2>3, <2>4, <2>5, AdvanceStep
    DEF Refined, OneShotReceive!Next, OneShotReceive!Post, PlanMap
<1>5. ASSUME NEW i \in Intents, Approve(i) PROVE Refined
  <2>1. /\ posts[i] = 0 /\ execCount[i] = 0 /\ quote[i] # "ISSUED"
        /\ outputs[i] # "NONE" /\ i \notin approved
        /\ approved' = approved \cup {i}
        /\ UNCHANGED <<outputs, execCount, posts, quote>>
    BY <1>5, <1>here DEF Approve, Rows, Tables, opVars
  <2>2. Stage(i) = "prepared" /\ Stage(i)' = "approved"
    BY <2>1 DEF Stage
  <2>3. \A j \in Intents \ {i} : Stage(j)' = Stage(j)
    BY <2>1 DEF Stage
  <2>4. UNCHANGED PlanMap
    BY <2>1 DEF PlanMap, Planned
  <2> QED
    BY <2>2, <2>3, <2>4, AdvanceStep
    DEF Refined, OneShotReceive!Next, OneShotReceive!Approve, PlanMap
<1>6. ASSUME NEW i \in Intents, MintSign(i) PROVE Refined
  <2>1. /\ posts[i] = 1 /\ quote[i] = "PAID"
        /\ quote' = [quote EXCEPT ![i] = "ISSUED"]
        /\ UNCHANGED <<outputs, execCount, posts, approved>>
    BY <1>6, <1>here DEF MintSign, Rows, Tables, opVars
  <2>2. Stage(i) = "posted" /\ Stage(i)' = "performed"
    BY <1>here, <2>1 DEF Stage, Tables
  <2>3. \A j \in Intents \ {i} : Stage(j)' = Stage(j)
    BY <1>here, <2>1 DEF Stage, Tables
  <2>4. UNCHANGED PlanMap
    BY <2>1 DEF PlanMap, Planned
  <2> QED
    BY <2>2, <2>3, <2>4, AdvanceStep
    DEF Refined, OneShotReceive!Next, OneShotReceive!Perform, PlanMap
<1>7. ASSUME NEW w \in Procs, MarkExpired(w) \/ SaveWrite(w) PROVE Refined
  <2>1. /\ Job(w) \in Intents /\ outputs[Job(w)] # "NONE"
        /\ outputs' = [outputs EXCEPT ![Job(w)] = "ERASED"]
        /\ UNCHANGED <<posts, execCount, approved, quote>>
    BY <1>7, <1>here DEF MarkExpired, SaveWrite, Sound
  <2> QED
    BY <1>1, <1>here, <2>1 DEF Tables
<1>8. ASSUME NEW w \in Procs, QuoteAnswer(w) PROVE Refined
  <2>1. /\ Job(w) \in Intents /\ quote[Job(w)] = "NONE"
        /\ quote' = [quote EXCEPT ![Job(w)] = "UNPAID"]
        /\ UNCHANGED <<posts, execCount, approved, outputs>>
    BY <1>8, <1>here DEF QuoteAnswer, Sound, opVars
  <2> QED
    BY <1>1, <1>here, <2>1 DEF Tables
<1>9. ASSUME NEW i \in Intents, Pay(i) PROVE Refined
  <2>1. /\ quote[i] = "UNPAID" /\ quote' = [quote EXCEPT ![i] = "PAID"]
        /\ UNCHANGED <<posts, execCount, approved, outputs>>
    BY <1>9 DEF Pay, opVars
  <2> QED
    BY <1>1, <1>here, <2>1 DEF Tables
<1>quiet. ASSUME UNCHANGED <<outputs, execCount, approved, quote, posts>> PROVE Refined
  BY <1>quiet, <1>1
<1>call. ASSUME NEW w \in Procs, Call(w) \/ Prepare(w) PROVE Refined
  BY <1>call, <1>quiet, <1>2, <1>8
  DEF Call, Prepare, PrepareStart, ExecuteStart, StatusStart, Crash, QuoteFail,
      shared, opVars
<1>execute. ASSUME NEW w \in Procs, Execute(w) PROVE Refined
  BY <1>execute, <1>quiet, <1>3, <1>4
  DEF Execute, Reread, ExpireApproval, ReserveRefused, Load, SendFail, MintReply,
      AwaitFail, shared, opVars
<1>reconcile. ASSUME NEW w \in Procs, Reconcile(w) PROVE Refined
  BY <1>reconcile, <1>quiet, <1>7
  DEF Reconcile, CheckQuote, CheckFail, ReadClock, Restore, RestoreFail, MarkPaid,
      MarkPrepared, SetUnknown, SaveSeen, SaveRead, SaveFail, shared, opVars
<1>env. ASSUME NEW i \in Intents,
               Expire(i) \/ Mint(i) \/ PaymentMoves(i)
        PROVE  Refined
  BY <1>env, <1>quiet, <1>6 DEF Expire, Mint, MintRefuse, PaymentMoves, opVars
<1> QED
  BY <1>5, <1>9, <1>call, <1>execute, <1>reconcile, <1>env, <1>quiet
  DEF Next, Process, vars, shared, opVars

LEMMA StageInit == Init => OneShotReceive!Init
  BY DEF Init, Stage, Planned, OneShotReceive!Init

\* The receive implements the one-shot operation: planned, approved,
\* committed, posted and performed in this order, each once.
THEOREM OneShotImplemented == Spec => ImplementsOneShot
<1>1. Refined => [OneShotReceive!Next]_<<StageMap, PlanMap>>
  BY DEF Refined
<1> QED
  BY InvInit, InvStep, StageInit, StageStep, <1>1, PTL
  DEF Spec, ImplementsOneShot, OneShotReceive!Spec, StageMap, PlanMap
=============================================================================
