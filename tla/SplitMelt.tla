------------------------------ MODULE SplitMelt ------------------------------
(***************************************************************************)
(* The approval-gated payment: src/services/splitMeltService.ts run by     *)
(* several wallet processes against one database and one mint.             *)
(*                                                                         *)
(* prepare stores a plan (a quote and the exact proofs that pay it)        *)
(* without reserving anything; a human approves it outside the wallet;     *)
(* execute reserves the proofs and posts the melt to the mint once; status *)
(* reconciles the row with what the mint answers.  Every awaited call      *)
(* (database statement or transaction, HTTP request) is one action, so two *)
(* processes interleave exactly where the code awaits.                     *)
(*                                                                         *)
(* The mint and its HTTP channel are external: they are modelled from the  *)
(* answers that the service distinguishes.                                 *)
(***************************************************************************)
EXTENDS Naturals, FiniteSets

CONSTANTS
    Procs,          \* wallet processes (CLI processes or HTTP handlers)
    Intents,        \* payment intent identifiers
    Proofs,         \* every ecash proof the wallet can ever hold
    Change,         \* the proof in which the mint returns an intent's change
    Selections,     \* the proof sets coin selection may return
    Exact,          \* <<intent, selection>> whose total is the maximum spend
    None,           \* "no intent": a free proof, an idle process
    ReadCommitted,  \* TRUE: PostgreSQL's default isolation; FALSE: SQLite
    LateDelivery    \* TRUE: a request whose caller gave up may still arrive

ASSUME ChangeAssumption ==
    /\ Change \in [Intents -> Proofs]
    /\ \A i, j \in Intents : Change[i] = Change[j] => i = j
ASSUME SelectionsAssumption ==
    Selections \subseteq (SUBSET Proofs) \ {{}}
ASSUME ExactAssumption == Exact \subseteq Intents \X Selections
ASSUME NoneAssumption == None \notin Intents
ASSUME FlagAssumption ==
    ReadCommitted \in BOOLEAN /\ LateDelivery \in BOOLEAN

VARIABLES
    opState, execCount, plan,   \* MeltOperation rows
    pstat, resv,                \* Proof rows: status and reservedByIntentId
    approved, expired,          \* signatures given; quotes past their expiry
    quote, mstat,               \* at the mint: quote and proof states
    wire, posts,                \* melts sent and not yet seen; melts ever sent
    pc, ctx                     \* what each process is about to await

opVars   == <<opState, execCount, plan>>
rowVars  == <<pstat, resv>>
envVars  == <<approved, expired>>
mintVars == <<quote, mstat>>
netVars  == <<wire, posts>>
procVars == <<pc, ctx>>
shared   == <<opVars, rowVars, envVars, mintVars, netVars>>
vars == <<shared, procVars>>

Funded == Proofs \ {Change[i] : i \in Intents}

OpStates  == {"NONE", "PREPARED", "EXECUTING", "PENDING", "UNKNOWN",
              "PAID", "UNPAID", "EXPIRED"}
Labels    == {"idle", "create", "reserve", "send", "await", "quote", "proofs",
              "settle", "release", "pend", "unknown",
              "expire", "count", "expwrite"}
Remote    == {"UNSPENT", "PENDING", "SPENT"}

\* What a call keeps in memory across its awaits: the operation it works on,
\* the quote state it was told and the change that came with it, whether that
\* was completeMelt's own answer, and the proofs it selected or counted.
Contexts == [intent : Intents \cup {None},
             quote  : {"NONE", "UNPAID", "PENDING", "PAID", "BAD"},
             change : SUBSET Proofs,
             direct : BOOLEAN,
             held   : SUBSET Proofs]

Blank == [intent |-> None, quote |-> "NONE", change |-> {}, direct |-> FALSE,
          held |-> {}]
Fresh(i, P) == [Blank EXCEPT !.intent = i, !.held = P]

Job(w) == ctx[w].intent

Init ==
    /\ opState = [i \in Intents |-> "NONE"]
    /\ execCount = [i \in Intents |-> 0]
    /\ plan = [i \in Intents |-> {}]
    /\ pstat = [p \in Proofs |-> IF p \in Funded THEN "UNSPENT" ELSE "ABSENT"]
    /\ resv = [p \in Proofs |-> None]
    /\ approved = {}
    /\ expired = {}
    /\ quote = [i \in Intents |-> "UNPAID"]
    /\ mstat = [p \in Proofs |-> IF p \in Funded THEN "UNSPENT" ELSE "NONE"]
    /\ wire = {}
    /\ posts = [i \in Intents |-> 0]
    /\ pc = [w \in Procs |-> "idle"]
    /\ ctx = [w \in Procs |-> Blank]

-----------------------------------------------------------------------------
(* Control flow of one call                                                *)

Goto(w, l) ==
    /\ pc' = [pc EXCEPT ![w] = l]
    /\ UNCHANGED ctx

\* A call begins: the process takes the intent and awaits l.
Begin(w, i, l) ==
    /\ pc[w] = "idle"
    /\ pc' = [pc EXCEPT ![w] = l]
    /\ ctx' = [ctx EXCEPT ![w] = Fresh(i, {})]

\* Broken variant: the operation is still in memory for the next call.
DoneKeepsContext(w) == Goto(w, "idle")

\* The call returns or throws to its caller.
Done(w) ==
    /\ pc' = [pc EXCEPT ![w] = "idle"]
    /\ ctx' = [ctx EXCEPT ![w] = Blank]

\* reconcile throws.  Inside execute's try block (a direct result) the catch
\* clause reconciles again, this time asking the mint for the quote.
Throw(w) ==
    IF ctx[w].direct
    THEN /\ pc' = [pc EXCEPT ![w] = "quote"]
         /\ ctx' = [ctx EXCEPT ![w] = Fresh(Job(w), {})]
    ELSE Done(w)

Free(p) == pstat[p] = "UNSPENT" /\ resv[p] = None

\* Broken variant: one proof is enough (updateMany's count is not compared).
AnyAvailable(P) == \E p \in P : Free(p)

Available(P) == \A p \in P : Free(p)

\* The proofs of the plan that are reserved for i.
Mine(i) == {p \in plan[i] : pstat[p] = "PENDING" /\ resv[p] = i}

\* reservedByIntentId once the reservation of i is given up.
KeepReserved(i) == resv    \* broken variant: only the status is written
Unreserved(i) == [p \in Proofs |-> IF p \in Mine(i) THEN None ELSE resv[p]]

\* The row may still be executed or expired.
ExecutableAgain(i) == opState[i] # "NONE"    \* broken variant
Executable(i) == opState[i] = "PREPARED" /\ execCount[i] = 0

-----------------------------------------------------------------------------
(* prepare                                                                 *)

\* Coin selection reads the free proofs; nothing is reserved.
PrepareSelect(w, i, S) ==
    /\ opState[i] = "NONE"
    /\ Available(S)
    /\ pc[w] = "idle"
    /\ pc' = [pc EXCEPT ![w] = "create"]
    /\ ctx' = [ctx EXCEPT ![w] = Fresh(i, S)]
    /\ UNCHANGED shared

\* The transaction that stores the plan, unless the intent exists by now.
PrepareCreate(w) ==
    LET i == Job(w) IN
    /\ pc[w] = "create"
    /\ IF opState[i] = "NONE"
       THEN /\ opState' = [opState EXCEPT ![i] = "PREPARED"]
            /\ plan' = [plan EXCEPT ![i] = ctx[w].held]
       ELSE UNCHANGED <<opState, plan>>
    /\ Done(w)
    /\ UNCHANGED <<execCount, rowVars, envVars, mintVars, netVars>>

\* The human signs the payload of a prepared operation with approval-tool,
\* which refuses an expired one.
Approve(i) ==
    /\ opState[i] = "PREPARED"
    /\ i \notin approved \cup expired
    /\ approved' = approved \cup {i}
    /\ UNCHANGED <<opVars, rowVars, expired, mintVars, netVars, procVars>>

\* The quote's expiry passes.
Expire(i) ==
    /\ opState[i] = "PREPARED"
    /\ i \notin expired
    /\ expired' = expired \cup {i}
    /\ UNCHANGED <<opVars, rowVars, approved, mintVars, netVars, procVars>>

-----------------------------------------------------------------------------
(* execute                                                                 *)

\* Broken variant: the approval signature is not verified.
ExecuteUnsigned(w, i) ==
    /\ Executable(i)
    /\ Begin(w, i, IF i \in expired THEN "expire" ELSE "reserve")
    /\ UNCHANGED shared

\* Read the row, verify the signature, test the state and the clock.
ExecuteStart(w, i) ==
    /\ i \in approved
    /\ Executable(i)
    /\ Begin(w, i, IF i \in expired THEN "expire" ELSE "reserve")
    /\ UNCHANGED shared

\* reserveExecution: proofs and operation move in one transaction or not at
\* all.  Both updates are conditional, so the outcome is that of an atomic
\* step under either isolation level.
Reserve(w) ==
    LET i == Job(w) IN
    /\ pc[w] = "reserve"
    /\ Executable(i)
    /\ Mine(i) = plan[i] \/ Available(plan[i])
    /\ pstat' = [p \in Proofs |-> IF p \in plan[i] THEN "PENDING" ELSE pstat[p]]
    /\ resv' = [p \in Proofs |-> IF p \in plan[i] THEN i ELSE resv[p]]
    /\ opState' = [opState EXCEPT ![i] = "EXECUTING"]
    /\ execCount' = [execCount EXCEPT ![i] = @ + 1]
    /\ Goto(w, "send")
    /\ UNCHANGED <<plan, envVars, mintVars, netVars>>

\* The operation left PREPARED, or an approved proof is no longer available.
ReserveRefused(w) ==
    LET i == Job(w) IN
    /\ pc[w] = "reserve"
    /\ ~Executable(i) \/ (Mine(i) # plan[i] /\ ~Available(plan[i]))
    /\ Done(w)
    /\ UNCHANGED shared

\* completeMelt posts the stored inputs and outputs.
SendMelt(w) ==
    LET i == Job(w) IN
    /\ pc[w] = "send"
    /\ wire' = wire \cup {i}
    /\ posts' = [posts EXCEPT ![i] = @ + 1]
    /\ Goto(w, "await")
    /\ UNCHANGED <<opVars, rowVars, envVars, mintVars>>

\* getWallet or restoredPreview throws before anything is sent.
SendFail(w) ==
    /\ pc[w] = "send"
    /\ Goto(w, "quote")
    /\ UNCHANGED shared

\* The change the mint signed for i, if it signed any.
Issued(i) == {p \in {Change[i]} : mstat[p] # "NONE"}

\* The mint tells w the state of its quote, with the signed change or without.
Told(w, direct) ==
    LET i == Job(w) IN
    /\ pc' = [pc EXCEPT ![w] = "proofs"]
    /\ \E change \in SUBSET Issued(i) :
         ctx' = [ctx EXCEPT ![w].quote = quote[i], ![w].change = change,
                            ![w].direct = direct]
    /\ UNCHANGED shared

\* completeMelt resolves with the quote as the mint sees it.
MeltReply(w) ==
    /\ pc[w] = "await"
    /\ Job(w) \notin wire
    /\ Told(w, TRUE)

\* A request whose caller is gone: lost, unless it may still arrive.
Abandon(i) == wire' = IF LateDelivery THEN wire ELSE wire \ {i}

\* completeMelt rejects: a refusal, a timeout, a broken connection.
AwaitFail(w) ==
    /\ pc[w] = "await"
    /\ Abandon(Job(w))
    /\ Goto(w, "quote")
    /\ UNCHANGED <<opVars, rowVars, envVars, mintVars, posts>>

-----------------------------------------------------------------------------
(* reconcile: two questions to the mint, then one write                    *)

\* checkMeltQuoteBolt11 answers.
CheckQuote(w) ==
    /\ pc[w] = "quote"
    /\ Told(w, FALSE)

\* An answer that quoteMatches or validPreimage rejects.
CheckQuoteBad(w) ==
    /\ pc[w] = "quote"
    /\ pc' = [pc EXCEPT ![w] = "proofs"]
    /\ ctx' = [ctx EXCEPT ![w].quote = "BAD"]
    /\ UNCHANGED shared

\* Broken variants: a payment under way counts as paid; whatever is not paid
\* counts as unpaid.
VerdictOptimistic(q, states) ==
    IF q \in {"PAID", "PENDING"} THEN "settle" ELSE "release"
VerdictHasty(q, states) ==
    CASE q = "PAID" /\ states = {"SPENT"} -> "settle"
      [] OTHER                            -> "release"

\* The write that a quote state and the set of proof states call for.
Verdict(q, states) ==
    CASE q = "PAID"    /\ states = {"SPENT"}   -> "settle"
      [] q = "UNPAID"  /\ states = {"UNSPENT"} -> "release"
      [] q = "PENDING" /\ states = {"PENDING"} -> "pend"
      [] OTHER                                 -> "unknown"

\* checkProofsStates answers, later than the quote.  From here on the call
\* knows only what it is going to write.
CheckProofs(w) ==
    /\ pc[w] = "proofs"
    /\ pc' = [pc EXCEPT ![w] = Verdict(ctx[w].quote,
                                       {mstat[p] : p \in plan[Job(w)]})]
    /\ ctx' = [ctx EXCEPT ![w].quote = "NONE"]
    /\ UNCHANGED shared

\* Either question fails.
MintUnreachable(w) ==
    /\ pc[w] \in {"quote", "proofs"}
    /\ Goto(w, "unknown")
    /\ UNCHANGED shared

\* Broken variant: the fee in the receipt is not compared with the maximum.
AnyReceipt(i, change) == TRUE

\* The receipt's tests.  Without change the whole plan counts as spent, which
\* exceeds the approved maximum unless the plan is exact.
ReceiptFits(i, change) == change # {} \/ <<i, plan[i]>> \in Exact

\* PAID: reserved proofs become SPENT, all planned proofs must be SPENT then,
\* the change in the answer is stored unless it already is, and the row
\* becomes PAID.
Settle(w) ==
    LET i == Job(w) IN
    /\ pc[w] = "settle"
    /\ ReceiptFits(i, ctx[w].change)
    /\ \A p \in plan[i] : pstat[p] = "SPENT" \/ p \in Mine(i)
    /\ pstat' = [p \in Proofs |->
                   IF p \in plan[i] THEN "SPENT"
                   ELSE IF p \in ctx[w].change /\ pstat[p] = "ABSENT" THEN "UNSPENT"
                   ELSE pstat[p]]
    /\ resv' = Unreserved(i)
    /\ opState' = [opState EXCEPT ![i] = "PAID"]
    /\ Done(w)
    /\ UNCHANGED <<execCount, plan, envVars, mintVars, netVars>>

\* The receipt is rejected, change cannot be restored, or the local proofs
\* disagree: the transaction rolls back.
SettleRefused(w) ==
    /\ pc[w] = "settle"
    /\ Goto(w, "unknown")
    /\ UNCHANGED shared

\* UNPAID: reserved proofs are released and all planned proofs must be
\* UNSPENT then.
Release(w) ==
    LET i == Job(w) IN
    /\ pc[w] = "release"
    /\ \A p \in plan[i] : pstat[p] = "UNSPENT" \/ p \in Mine(i)
    /\ pstat' = [p \in Proofs |-> IF p \in plan[i] THEN "UNSPENT" ELSE pstat[p]]
    /\ resv' = Unreserved(i)
    /\ opState' = [opState EXCEPT ![i] = "UNPAID"]
    /\ Done(w)
    /\ UNCHANGED <<execCount, plan, envVars, mintVars, netVars>>

\* PROOF_STATE_MISMATCH leaves reconcile as an exception.
ReleaseRefused(w) ==
    LET i == Job(w) IN
    /\ pc[w] = "release"
    /\ \E p \in plan[i] : pstat[p] # "UNSPENT" /\ p \notin Mine(i)
    /\ Throw(w)
    /\ UNCHANGED shared

\* PENDING is written whatever the row says by now.
MarkPending(w) ==
    /\ pc[w] = "pend"
    /\ opState' = [opState EXCEPT ![Job(w)] = "PENDING"]
    /\ Done(w)
    /\ UNCHANGED <<execCount, plan, rowVars, envVars, mintVars, netVars>>

\* Broken variant: setUnknown updates whatever row it finds.
SetUnknownAlways(w) ==
    /\ pc[w] = "unknown"
    /\ opState' = [opState EXCEPT ![Job(w)] = "UNKNOWN"]
    /\ Done(w)
    /\ UNCHANGED <<execCount, plan, rowVars, envVars, mintVars, netVars>>

\* setUnknown spares PAID and EXPIRED rows.
SetUnknown(w) ==
    LET i == Job(w) IN
    /\ pc[w] = "unknown"
    /\ opState' = [opState EXCEPT ![i] =
                     IF @ \in {"PAID", "EXPIRED"} THEN @ ELSE "UNKNOWN"]
    /\ Done(w)
    /\ UNCHANGED <<execCount, plan, rowVars, envVars, mintVars, netVars>>

-----------------------------------------------------------------------------
(* expirePrepared                                                          *)

\* The writes of the transaction, given the reserved proofs it counted.  The
\* row is updated without a condition; releasing fails if a proof moved.
ExpireWith(w, held) ==
    LET i == Job(w) IN
    /\ IF held = plan[i] /\ Mine(i) = plan[i]
       THEN /\ pstat' = [p \in Proofs |->
                           IF p \in plan[i] THEN "UNSPENT" ELSE pstat[p]]
            /\ resv' = [p \in Proofs |->
                          IF p \in plan[i] THEN None ELSE resv[p]]
       ELSE UNCHANGED rowVars
    /\ IF held = plan[i] /\ Mine(i) # plan[i]
       THEN Goto(w, "unknown") /\ UNCHANGED opState
       ELSE /\ opState' = [opState EXCEPT ![i] =
                             IF held \in {{}, plan[i]} THEN "EXPIRED"
                             ELSE "UNKNOWN"]
            /\ Done(w)
    /\ UNCHANGED <<execCount, plan, envVars, mintVars, netVars>>

\* The guard at the head of the transaction fails.
ExpireRefused(w) ==
    /\ pc[w] = "expire" /\ ~Executable(Job(w))
    /\ Done(w)
    /\ UNCHANGED shared

\* SQLite: a transaction whose reads are overtaken by a writer aborts, so the
\* whole of it is one step.
ExpireAtomic(w) ==
    /\ ~ReadCommitted
    /\ pc[w] = "expire" /\ Executable(Job(w))
    /\ ExpireWith(w, Mine(Job(w)))

\* PostgreSQL: every statement of the transaction sees the rows committed by
\* then, so findUnique, count and the writes are three steps.
ExpireRead(w) ==
    /\ ReadCommitted
    /\ pc[w] = "expire" /\ Executable(Job(w))
    /\ Goto(w, "count")
    /\ UNCHANGED shared

ExpireCount(w) ==
    /\ pc[w] = "count"
    /\ pc' = [pc EXCEPT ![w] = "expwrite"]
    /\ ctx' = [ctx EXCEPT ![w].held = Mine(Job(w))]
    /\ UNCHANGED shared

ExpireWrite(w) ==
    /\ pc[w] = "expwrite"
    /\ ExpireWith(w, ctx[w].held)

-----------------------------------------------------------------------------
(* status, failures                                                        *)

\* Broken variants: UNKNOWN, or PAID, is returned like EXPIRED.
StatusSkipsPaid(w, i) ==
    /\ \/ /\ opState[i] = "PREPARED" /\ i \in expired
          /\ Begin(w, i, "expire")
       \/ /\ opState[i] \in {"EXECUTING", "PENDING", "UNKNOWN", "UNPAID"}
          /\ Begin(w, i, "quote")
    /\ UNCHANGED shared

StatusSkipsUnknown(w, i) ==
    /\ \/ /\ opState[i] = "PREPARED" /\ i \in expired
          /\ Begin(w, i, "expire")
       \/ /\ opState[i] \in {"EXECUTING", "PENDING", "PAID", "UNPAID"}
          /\ Begin(w, i, "quote")
    /\ UNCHANGED shared

\* A prepared row past its expiry is expired; EXPIRED is returned as it is;
\* every other row, PAID and UNPAID included, is reconciled.
StatusStart(w, i) ==
    /\ \/ /\ opState[i] = "PREPARED" /\ i \in expired
          /\ Begin(w, i, "expire")
       \/ /\ opState[i] \notin {"NONE", "PREPARED", "EXPIRED"}
          /\ Begin(w, i, "quote")
    /\ UNCHANGED shared

\* The process dies, or a database call outside the try blocks rejects.  (When
\* that happens inside execute's own try block, execute reconciles once more:
\* here, the crash followed by a status call.)
Crash(w) ==
    /\ pc[w] # "idle"
    /\ IF pc[w] = "await" THEN Abandon(Job(w)) ELSE UNCHANGED wire
    /\ Done(w)
    /\ UNCHANGED <<opVars, rowVars, envVars, mintVars, posts>>

-----------------------------------------------------------------------------
(* The mint (external)                                                     *)

MintSet(i, q, s) ==
    /\ quote' = [quote EXCEPT ![i] = q]
    /\ mstat' = [p \in Proofs |-> IF p \in plan[i] THEN s ELSE mstat[p]]

\* The melt arrives and the Lightning payment starts.
MintAccept(i) ==
    /\ i \in wire
    /\ quote[i] = "UNPAID" /\ \A p \in plan[i] : mstat[p] = "UNSPENT"
    /\ MintSet(i, "PENDING", "PENDING")
    /\ wire' = wire \ {i}
    /\ UNCHANGED <<opVars, rowVars, envVars, posts, procVars>>

\* The melt is refused, or lost on the way.
MintRefuse(i) ==
    /\ i \in wire
    /\ wire' = wire \ {i}
    /\ UNCHANGED <<opVars, rowVars, envVars, mintVars, posts, procVars>>

\* The payment succeeds; the mint signs change or has none to give.
MintSettle(i) ==
    /\ quote[i] = "PENDING"
    /\ quote' = [quote EXCEPT ![i] = "PAID"]
    /\ \E back \in SUBSET {Change[i]} :
         mstat' = [p \in Proofs |-> IF p \in plan[i] THEN "SPENT"
                                    ELSE IF p \in back THEN "UNSPENT"
                                    ELSE mstat[p]]
    /\ UNCHANGED <<opVars, rowVars, envVars, netVars, procVars>>

\* The payment fails and the mint gives the inputs back.
MintFail(i) ==
    /\ quote[i] = "PENDING"
    /\ MintSet(i, "UNPAID", "UNSPENT")
    /\ UNCHANGED <<opVars, rowVars, envVars, netVars, procVars>>

-----------------------------------------------------------------------------
Reconcile(w) ==
    \/ CheckQuote(w) \/ CheckQuoteBad(w) \/ CheckProofs(w)
    \/ MintUnreachable(w) \/ Settle(w) \/ SettleRefused(w)
    \/ Release(w) \/ ReleaseRefused(w) \/ MarkPending(w)
    \/ SetUnknown(w)

Execute(w) ==
    \/ Reserve(w) \/ ReserveRefused(w) \/ SendMelt(w) \/ SendFail(w)
    \/ MeltReply(w) \/ AwaitFail(w)

ExpirePrepared(w) ==
    \/ ExpireRefused(w) \/ ExpireAtomic(w) \/ ExpireRead(w)
    \/ ExpireCount(w) \/ ExpireWrite(w)

Call(w) ==
    \/ \E i \in Intents :
         \/ \E S \in Selections : PrepareSelect(w, i, S)
         \/ ExecuteStart(w, i)
         \/ StatusStart(w, i)
    \/ PrepareCreate(w)
    \/ Crash(w)

Process(w) == Call(w) \/ Execute(w) \/ Reconcile(w) \/ ExpirePrepared(w)

Mint(i) == MintAccept(i) \/ MintRefuse(i) \/ MintSettle(i) \/ MintFail(i)

Next ==
    \/ \E w \in Procs : Process(w)
    \/ \E i \in Intents : Approve(i) \/ Expire(i) \/ Mint(i)

Spec == Init /\ [][Next]_vars

\* The answer in hand has the change that the mint signed.
Complete(w) == ctx[w].change = Issued(Job(w))

\* What the liveness properties assume: the owner keeps asking for the status,
\* outages of the mint, answers without the change it signed and failures of a
\* call do not last, and the mint ends every Lightning payment it has started.
FairSpec ==
    /\ Spec
    /\ \A w \in Procs :
         /\ \A i \in Intents : SF_vars(StatusStart(w, i))
         /\ WF_vars(PrepareCreate(w)) /\ WF_vars(Execute(w))
         /\ WF_vars(ExpirePrepared(w)) /\ WF_vars(Reconcile(w))
         /\ SF_vars(CheckQuote(w) /\ Complete(w)')
         /\ SF_vars(CheckProofs(w) /\ ctx[w].quote # "BAD" /\ Complete(w))
         /\ SF_vars(Settle(w) /\ Complete(w)) /\ SF_vars(Release(w))
    /\ \A i \in Intents :
         /\ WF_vars(MintAccept(i) \/ MintRefuse(i))
         /\ WF_vars(MintSettle(i) \/ MintFail(i))

-----------------------------------------------------------------------------
(* Properties                                                              *)

\* Types, and two facts of storage: a row has a plan exactly when it exists,
\* and a process between calls remembers nothing of the last one.
TypeOK ==
    /\ opState \in [Intents -> OpStates]
    /\ execCount \in [Intents -> Nat]
    /\ plan \in [Intents -> Selections \cup {{}}]
    /\ pstat \in [Proofs -> {"ABSENT", "UNSPENT", "PENDING", "SPENT"}]
    /\ resv \in [Proofs -> Intents \cup {None}]
    /\ approved \subseteq Intents /\ expired \subseteq Intents
    /\ quote \in [Intents -> {"UNPAID", "PENDING", "PAID"}]
    /\ mstat \in [Proofs -> Remote \cup {"NONE"}]
    /\ wire \subseteq Intents
    /\ posts \in [Intents -> Nat]
    /\ pc \in [Procs -> Labels]
    /\ ctx \in [Procs -> Contexts]
    /\ \A i \in Intents : opState[i] = "NONE" <=> plan[i] = {}
    /\ \A w \in Procs : IF pc[w] = "idle" THEN ctx[w] = Blank
                                           ELSE Job(w) \in Intents

\* An approval is good for one execution: however many processes execute,
\* crash and reconcile, the melt of an intent is posted at most once, and
\* only after the human approved that intent.
ApprovedOnce ==
    \A i \in Intents :
        /\ posts[i] <= execCount[i] /\ execCount[i] <= 1
        /\ execCount[i] = 1 => i \in approved

\* A reservation is all of an executed plan or none of it, it is held by
\* proofs that are PENDING, and no finished operation holds one.
ReservationIntegrity ==
    \A i \in Intents : \A p \in Proofs :
        resv[p] = i =>
            /\ execCount[i] = 1
            /\ opState[i] \notin {"PREPARED", "PAID", "UNPAID"}
            /\ p \in plan[i]
            /\ \A q \in plan[i] : resv[q] = i /\ pstat[q] = "PENDING"

\* PAID is never claimed for a payment that the mint has not made or whose
\* guaranteed change is missing: the quote is paid, the plan is spent on both
\* sides, and a plan that exceeds the maximum spend has brought its change into
\* the wallet.  (An exact plan may be PAID with the rest of its fee reserve
\* signed at the mint and not in the wallet: see ChangeRecovered.)
PaidIsReal ==
    \A i \in Intents :
        opState[i] = "PAID" =>
            /\ quote[i] = "PAID"
            /\ \A p \in plan[i] : pstat[p] = "SPENT" /\ mstat[p] = "SPENT"
            /\ <<i, plan[i]>> \notin Exact => pstat[Change[i]] # "ABSENT"

\* What the wallet counts as balance can be spent at the mint.
NoPhantomBalance ==
    \A p \in Proofs : Free(p) => mstat[p] = "UNSPENT"

\* EXPIRED promises that nothing was sent and nothing is held back.
ExpiredNeverExecuted ==
    \A i \in Intents :
        opState[i] = "EXPIRED" =>
            execCount[i] = 0 /\ \A p \in Proofs : resv[p] # i

\* No later status call takes PAID or EXPIRED back.
DecidedForever ==
    [][\A i \in Intents : opState[i] \in {"PAID", "EXPIRED"}
                             => opState'[i] = opState[i]]_vars

\* The mint keeps change that it owes: no receipt of its will ever fit.
Withheld(i) ==
    quote[i] = "PAID" /\ Issued(i) = {} /\ <<i, plan[i]>> \notin Exact

\* An operation that was executed is resolved by asking for its status, unless
\* the mint keeps change that it owes.
ExecutedIsResolved ==
    \A i \in Intents :
        execCount[i] = 1 ~> opState[i] \in {"PAID", "UNPAID"} \/ Withheld(i)

\* How the rows, the signatures and the mint read as a one-shot operation.
Stage(i) ==
    IF quote[i] = "PAID" THEN "performed"
    ELSE IF posts[i] > 0 THEN "posted"
    ELSE IF execCount[i] > 0 THEN "committed"
    ELSE IF i \in approved THEN "approved"
    ELSE IF opState[i] # "NONE" THEN "prepared"
    ELSE "absent"

OneShotPayment ==
    INSTANCE OneShot WITH Plans <- Selections, NoPlan <- {},
                          stage <- [i \in Intents |-> Stage(i)]

\* The service implements the one-shot operation it promises.
ImplementsOneShot == OneShotPayment!Spec

\* A payment that the mint made is eventually recorded as PAID, unless the mint
\* keeps change that it owes.
PaymentRecorded ==
    \A i \in Intents : quote[i] = "PAID" ~> opState[i] = "PAID" \/ Withheld(i)

\* Change that the mint signed is eventually in the wallet, also if the payment
\* became PAID by an answer that left it out: later status calls reconcile PAID
\* rows again and store what a complete answer brings.
ChangeRecovered ==
    \A i \in Intents : Issued(i) # {} ~> pstat[Change[i]] # "ABSENT"
=============================================================================
