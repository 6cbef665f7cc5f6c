------------------------------ MODULE SplitMint ------------------------------
(***************************************************************************)
(* The approval-gated receive: src/services/splitMintService.ts run by     *)
(* several wallet processes against one database and one mint.             *)
(*                                                                         *)
(* prepare takes a share of the balance limit, asks the mint for a locked  *)
(* quote and stores the outputs to be signed; somebody pays the invoice;   *)
(* execute posts the outputs once; status reconciles the row with the      *)
(* quote and, when the mint has signed, restores the signatures (NUT-09).  *)
(* Every awaited call is one action.  A call works on the row as it read   *)
(* it at its beginning, so what it writes may be stale by then.            *)
(*                                                                         *)
(* The mint, the payer and the HTTP channel are external.                  *)
(***************************************************************************)
EXTENDS Naturals, FiniteSets, FiniteSetsExt

CONSTANTS
    Procs,          \* wallet processes
    Intents,        \* receive intent identifiers
    Amount,         \* the amount each intent receives
    MaxBalance,     \* the effective balance limit of the wallet
    None,           \* "no intent": an idle process
    ReadCommitted,  \* TRUE: PostgreSQL's default isolation; FALSE: SQLite
    LateDelivery    \* TRUE: a request whose caller gave up may still arrive

ASSUME AmountAssumption == Amount \in [Intents -> Nat \ {0}]
ASSUME LimitAssumption == MaxBalance \in Nat
ASSUME NoneAssumption == None \notin Intents
ASSUME FlagAssumption ==
    ReadCommitted \in BOOLEAN /\ LateDelivery \in BOOLEAN

VARIABLES
    opState, execCount, outputs,  \* MintOperation rows
    coin,                         \* the Proof rows of what an intent received
    approved, expired,            \* signatures given; quotes past their expiry
    quote,                        \* the quote at the mint
    wire, posts,                  \* mint requests not yet seen; ever sent
    pc, ctx                       \* what each process is about to await

opVars   == <<opState, execCount, outputs>>
envVars  == <<approved, expired>>
netVars  == <<wire, posts>>
procVars == <<pc, ctx>>
shared   == <<opVars, coin, envVars, quote, netVars>>
vars == <<shared, procVars>>

OpStates == {"NONE", "CREATING", "PREPARED", "PAID", "EXECUTING", "UNKNOWN",
             "ISSUED", "EXPIRED"}
Labels   == {"idle", "ask", "store", "check", "restore", "save", "saving",
             "unpaid", "paid", "prepared", "expired", "unknown",
             "reread", "expire", "reserve", "load", "send", "await"}

\* What a call keeps in memory: the operation as it read it (its execution
\* count, whether it still held the outputs), and what the call is in the
\* middle of: a reconciliation of its own, one at the head of execute, or the
\* storing of what completeMint returned.
Contexts == [intent  : Intents \cup {None},
             count   : Nat,
             outputs : BOOLEAN,
             goal    : {"reconcile", "execute", "mint"}]

Blank == [intent |-> None, count |-> 0, outputs |-> FALSE,
          goal |-> "reconcile"]

\* The row of i as a call reads it now.
Row(i, goal) == [intent |-> i, count |-> execCount[i],
                 outputs |-> outputs[i] = "STORED", goal |-> goal]

Job(w) == ctx[w].intent

Init ==
    /\ opState = [i \in Intents |-> "NONE"]
    /\ execCount = [i \in Intents |-> 0]
    /\ outputs = [i \in Intents |-> "NONE"]
    /\ coin = [i \in Intents |-> "ABSENT"]
    /\ approved = {}
    /\ expired = {}
    /\ quote = [i \in Intents |-> "NONE"]
    /\ wire = {}
    /\ posts = [i \in Intents |-> 0]
    /\ pc = [w \in Procs |-> "idle"]
    /\ ctx = [w \in Procs |-> Blank]

-----------------------------------------------------------------------------
(* Control flow of one call                                                *)

Goto(w, l) ==
    /\ pc' = [pc EXCEPT ![w] = l]
    /\ UNCHANGED ctx

Read(w, i, goal, l) ==
    /\ pc' = [pc EXCEPT ![w] = l]
    /\ ctx' = [ctx EXCEPT ![w] = Row(i, goal)]

\* Broken variant: the operation is still in memory for the next call.
DoneKeepsContext(w) == Goto(w, "idle")

\* The call returns or throws to its caller.
Done(w) ==
    /\ pc' = [pc EXCEPT ![w] = "idle"]
    /\ ctx' = [ctx EXCEPT ![w] = Blank]

\* reconcile returns: to the caller, or to execute, which reads the row again.
Reconciled(w) ==
    IF ctx[w].goal = "execute" THEN Goto(w, "reread") ELSE Done(w)

\* execute's catch clause: reconcile the operation read after reserving it.
Catch(w) ==
    /\ pc' = [pc EXCEPT ![w] = "check"]
    /\ ctx' = [ctx EXCEPT ![w].goal = "reconcile"]

SetState(i, s) == opState' = [opState EXCEPT ![i] = s]

-----------------------------------------------------------------------------
(* prepare                                                                 *)

\* Broken variant: an uncertain receive no longer counts against the limit.
ActiveUntilUnknown(i) ==
    opState[i] \in {"CREATING", "PREPARED", "PAID", "EXECUTING"}

\* A receive that may still turn into balance.
Active(i) ==
    opState[i] \in {"CREATING", "PREPARED", "PAID", "EXECUTING", "UNKNOWN"}

Total(S) == MapThenSumSet(LAMBDA i : Amount[i], S)

Held == {i \in Intents : coin[i] \in {"UNSPENT", "PENDING"}}

\* Unspent and pending proofs, active receives and the new one stay within
\* the limit.
Fits(i) ==
    Total(Held) + Total({j \in Intents : Active(j)}) + Amount[i] <= MaxBalance

\* The serializable transaction that claims the intent and its share.
PrepareStart(w, i) ==
    /\ pc[w] = "idle"
    /\ opState[i] = "NONE"
    /\ Fits(i)
    /\ SetState(i, "CREATING")
    /\ Read(w, i, "reconcile", "ask")
    /\ UNCHANGED <<execCount, outputs, coin, envVars, quote, netVars>>

\* The mint answers createLockedMintQuote with a usable quote.
QuoteAnswer(w) ==
    /\ pc[w] = "ask"
    /\ quote' = [quote EXCEPT ![Job(w)] = "UNPAID"]
    /\ Goto(w, "store")
    /\ UNCHANGED <<opVars, coin, envVars, netVars>>

\* It does not answer, or not with a usable quote; or the plan is rejected.
QuoteFail(w) ==
    /\ pc[w] \in {"ask", "store"}
    /\ Goto(w, "unknown")
    /\ UNCHANGED shared

\* The quote and the outputs are stored, whatever the row says by now.
StorePlan(w) ==
    LET i == Job(w) IN
    /\ pc[w] = "store"
    /\ SetState(i, "PREPARED")
    /\ outputs' = [outputs EXCEPT ![i] = "STORED"]
    /\ Done(w)
    /\ UNCHANGED <<execCount, coin, envVars, quote, netVars>>

\* The human signs the payload that prepare returned, whatever has become of
\* the row, with approval-tool, which refuses an expired one.
Approve(i) ==
    /\ outputs[i] # "NONE"
    /\ i \notin approved \cup expired
    /\ approved' = approved \cup {i}
    /\ UNCHANGED <<opVars, coin, expired, quote, netVars, procVars>>

\* The quote's expiry passes on the wallet's clock.
Expire(i) ==
    /\ outputs[i] = "STORED"
    /\ i \notin expired
    /\ expired' = expired \cup {i}
    /\ UNCHANGED <<opVars, coin, approved, quote, netVars, procVars>>

-----------------------------------------------------------------------------
(* status, and the reconciliation that begins execute                      *)

\* The operation is read.  An ISSUED row is returned as it is, and so is one
\* that never got a quote.
Reconcilable(i) == opState[i] # "ISSUED" /\ outputs[i] # "NONE"

StatusStart(w, i) ==
    /\ pc[w] = "idle"
    /\ Reconcilable(i)
    /\ Read(w, i, "reconcile", "check")
    /\ UNCHANGED shared

ExecuteUnsigned(w, i) ==    \* broken variant
    /\ pc[w] = "idle"
    /\ Reconcilable(i)
    /\ Read(w, i, "execute", "check")
    /\ UNCHANGED shared

\* execute verifies hashes and signature, then reconciles first.
ExecuteStart(w, i) ==
    /\ pc[w] = "idle"
    /\ i \in approved
    /\ Reconcilable(i)
    /\ Read(w, i, "execute", "check")
    /\ UNCHANGED shared

\* Broken variant: after an execution, a quote still PAID goes by the clock.
VerdictExpiresPaid(q, count) ==
    CASE q = "ISSUED"            -> "restore"
      [] q = "PAID" /\ count = 0 -> "paid"
      [] OTHER                   -> "unpaid"

\* What reconcile does with the mint's answer, given the execution count of
\* the row in memory.
Verdict(q, count) ==
    CASE q = "ISSUED"            -> "restore"
      [] q = "PAID" /\ count > 0 -> "unknown"
      [] q = "PAID" /\ count = 0 -> "paid"
      [] q = "UNPAID"            -> "unpaid"

\* The mint answers checkMintQuoteBolt11 with the stored quote.
CheckQuote(w) ==
    /\ pc[w] = "check"
    /\ Goto(w, Verdict(quote[Job(w)], ctx[w].count))
    /\ UNCHANGED shared

\* The answer UNPAID arrives: the wallet looks at its own clock.
ReadClock(w) ==
    /\ pc[w] = "unpaid"
    /\ Goto(w, IF Job(w) \in expired THEN "expired"
               ELSE IF ctx[w].count > 0 THEN "unknown" ELSE "prepared")
    /\ UNCHANGED shared

\* It fails, or the answer does not match the stored quote.
CheckFail(w) ==
    /\ pc[w] = "check"
    /\ Goto(w, "unknown")
    /\ UNCHANGED shared

\* The quote is PAID and, in memory, not executed: the row becomes PAID.
MarkPaid(w) ==
    /\ pc[w] = "paid"
    /\ SetState(Job(w), "PAID")
    /\ Reconciled(w)
    /\ UNCHANGED <<execCount, outputs, coin, envVars, quote, netVars>>

\* The quote is UNPAID and in time.
MarkPrepared(w) ==
    /\ pc[w] = "prepared"
    /\ SetState(Job(w), "PREPARED")
    /\ Reconciled(w)
    /\ UNCHANGED <<execCount, outputs, coin, envVars, quote, netVars>>

\* The quote is UNPAID past its expiry: keys and outputs are erased.
MarkExpired(w) ==
    LET i == Job(w) IN
    /\ pc[w] = "expired"
    /\ SetState(i, "EXPIRED")
    /\ outputs' = [outputs EXCEPT ![i] = "ERASED"]
    /\ Reconciled(w)
    /\ UNCHANGED <<execCount, coin, envVars, quote, netVars>>

\* setUnknown spares ISSUED and EXPIRED rows.
SetUnknown(w) ==
    LET i == Job(w) IN
    /\ pc[w] = "unknown"
    /\ SetState(i, IF opState[i] \in {"ISSUED", "EXPIRED"} THEN opState[i]
                   ELSE "UNKNOWN")
    /\ Reconciled(w)
    /\ UNCHANGED <<execCount, outputs, coin, envVars, quote, netVars>>

\* NUT-09: the mint returns its signatures on the outputs held in memory.
Restore(w) ==
    /\ pc[w] = "restore"
    /\ ctx[w].outputs /\ quote[Job(w)] = "ISSUED"
    /\ Goto(w, "save")
    /\ UNCHANGED shared

\* No outputs in memory, no answer, or a mismatch.
RestoreFail(w) ==
    /\ pc[w] = "restore"
    /\ Goto(w, "unknown")
    /\ UNCHANGED shared

-----------------------------------------------------------------------------
(* saveIssuedProofs: one transaction                                       *)

\* Another call has stored them already.
SaveSeen(w) ==
    /\ pc[w] = "save"
    /\ opState[Job(w)] = "ISSUED"
    /\ Done(w)
    /\ UNCHANGED shared

AwaitedOnlyExecuting(i) == opState[i] = "EXECUTING"    \* broken variant

\* The row waits for issued proofs.
Awaited(i) == opState[i] \in {"EXECUTING", "UNKNOWN"}

\* PostgreSQL: the row may change between its read and its update.
SaveRead(w) ==
    /\ ReadCommitted
    /\ pc[w] = "save" /\ Awaited(Job(w))
    /\ Goto(w, "saving")
    /\ UNCHANGED shared

\* Broken variant: the row is written and the proofs are not.
SaveRowOnly(w) ==
    LET i == Job(w) IN
    /\ \/ pc[w] = "saving"
       \/ ~ReadCommitted /\ pc[w] = "save" /\ Awaited(i)
    /\ SetState(i, "ISSUED")
    /\ outputs' = [outputs EXCEPT ![i] = "ERASED"]
    /\ Done(w)
    /\ UNCHANGED <<execCount, coin, envVars, quote, netVars>>

\* Proofs are created unless they exist, unspent and not reserved; the row
\* becomes ISSUED and gives up its outputs.
SaveWrite(w) ==
    LET i == Job(w) IN
    /\ \/ pc[w] = "saving"
       \/ ~ReadCommitted /\ pc[w] = "save" /\ Awaited(i)
    /\ coin[i] \in {"ABSENT", "UNSPENT"}
    /\ coin' = [coin EXCEPT ![i] = "UNSPENT"]
    /\ SetState(i, "ISSUED")
    /\ outputs' = [outputs EXCEPT ![i] = "ERASED"]
    /\ Done(w)
    /\ UNCHANGED <<execCount, envVars, quote, netVars>>

\* The row does not wait for proofs, a proof conflicts, or the transaction
\* fails: recovery ends in UNKNOWN, and execute reconciles.
SaveFail(w) ==
    /\ pc[w] \in {"save", "saving"}
    /\ IF ctx[w].goal = "mint" THEN Catch(w) ELSE Goto(w, "unknown")
    /\ UNCHANGED shared

-----------------------------------------------------------------------------
(* execute, after its reconciliation                                       *)

\* Broken variant: the execution count is not part of the condition.
ReservableAgain(i) == opState[i] = "PAID"

Reservable(i) == opState[i] = "PAID" /\ execCount[i] = 0

\* The row is read again: expired approval, ready to issue, or neither.
Reread(w) ==
    LET i == Job(w) IN
    /\ pc[w] = "reread"
    /\ IF execCount[i] = 0 /\ i \in expired THEN Goto(w, "expire")
       ELSE IF Reservable(i) THEN Goto(w, "reserve")
       ELSE Done(w)
    /\ UNCHANGED shared

\* A prepared or paid row expires; its outputs stay.
ExpireApproval(w) ==
    LET i == Job(w) IN
    /\ pc[w] = "expire"
    /\ SetState(i, IF opState[i] \in {"PREPARED", "PAID"} /\ execCount[i] = 0
                   THEN "EXPIRED" ELSE opState[i])
    /\ Done(w)
    /\ UNCHANGED <<execCount, outputs, coin, envVars, quote, netVars>>

\* The conditional update that makes the execution the only one.
Reserve(w) ==
    LET i == Job(w) IN
    /\ pc[w] = "reserve"
    /\ Reservable(i)
    /\ SetState(i, "EXECUTING")
    /\ execCount' = [execCount EXCEPT ![i] = @ + 1]
    /\ Goto(w, "load")
    /\ UNCHANGED <<outputs, coin, envVars, quote, netVars>>

ReserveRefused(w) ==
    /\ pc[w] = "reserve"
    /\ ~Reservable(Job(w))
    /\ Done(w)
    /\ UNCHANGED shared

\* The reserved row is read once more; its outputs are what will be posted.
Load(w) ==
    /\ pc[w] = "load"
    /\ Read(w, Job(w), "mint", "send")
    /\ UNCHANGED shared

\* completeMint posts the outputs.
SendMint(w) ==
    LET i == Job(w) IN
    /\ pc[w] = "send"
    /\ ctx[w].outputs
    /\ wire' = wire \cup {i}
    /\ posts' = [posts EXCEPT ![i] = @ + 1]
    /\ Goto(w, "await")
    /\ UNCHANGED <<opVars, coin, envVars, quote>>

\* restoredPreview finds no outputs, or getWallet throws.
SendFail(w) ==
    /\ pc[w] = "send"
    /\ Catch(w)
    /\ UNCHANGED shared

\* completeMint resolves with the proofs.
MintReply(w) ==
    LET i == Job(w) IN
    /\ pc[w] = "await"
    /\ i \notin wire /\ quote[i] = "ISSUED"
    /\ Goto(w, "save")
    /\ UNCHANGED shared

\* A request whose caller is gone: lost, unless it may still arrive.
Abandon(i) == wire' = IF LateDelivery THEN wire ELSE wire \ {i}

\* completeMint rejects: a refusal, a timeout, a broken connection.
AwaitFail(w) ==
    /\ pc[w] = "await"
    /\ Abandon(Job(w))
    /\ Catch(w)
    /\ UNCHANGED <<opVars, coin, envVars, quote, posts>>

\* The process dies, or a database call rejects and the call throws.
Crash(w) ==
    /\ pc[w] # "idle"
    /\ IF pc[w] = "await" THEN Abandon(Job(w)) ELSE UNCHANGED wire
    /\ Done(w)
    /\ UNCHANGED <<opVars, coin, envVars, quote, posts>>

-----------------------------------------------------------------------------
(* The payer, the mint (external), and payments with what was received     *)

\* The invoice is paid, perhaps when the wallet's clock has passed the expiry
\* and the mint's has not.
Pay(i) ==
    /\ quote[i] = "UNPAID" /\ outputs[i] # "NONE"
    /\ quote' = [quote EXCEPT ![i] = "PAID"]
    /\ UNCHANGED <<opVars, coin, envVars, netVars, procVars>>

\* The mint signs the outputs of a paid quote.
MintSign(i) ==
    /\ i \in wire /\ quote[i] = "PAID"
    /\ quote' = [quote EXCEPT ![i] = "ISSUED"]
    /\ wire' = wire \ {i}
    /\ UNCHANGED <<opVars, coin, envVars, posts, procVars>>

\* The request is refused, or lost on the way.
MintRefuse(i) ==
    /\ i \in wire
    /\ wire' = wire \ {i}
    /\ UNCHANGED <<opVars, coin, envVars, quote, posts, procVars>>

\* A payment reserves the received proofs, then spends or releases them.
PaymentMoves(i) ==
    /\ \/ coin[i] = "UNSPENT" /\ coin' = [coin EXCEPT ![i] = "PENDING"]
       \/ coin[i] = "PENDING" /\ coin' = [coin EXCEPT ![i] = "SPENT"]
       \/ coin[i] = "PENDING" /\ coin' = [coin EXCEPT ![i] = "UNSPENT"]
    /\ UNCHANGED <<opVars, envVars, quote, netVars, procVars>>

-----------------------------------------------------------------------------
Prepare(w) == QuoteAnswer(w) \/ QuoteFail(w) \/ StorePlan(w)

Reconcile(w) ==
    \/ CheckQuote(w) \/ CheckFail(w) \/ ReadClock(w)
    \/ Restore(w) \/ RestoreFail(w)
    \/ MarkPaid(w) \/ MarkPrepared(w) \/ MarkExpired(w) \/ SetUnknown(w)
    \/ SaveSeen(w) \/ SaveRead(w) \/ SaveWrite(w) \/ SaveFail(w)

Execute(w) ==
    \/ Reread(w) \/ ExpireApproval(w) \/ Reserve(w) \/ ReserveRefused(w)
    \/ Load(w) \/ SendMint(w) \/ SendFail(w) \/ MintReply(w) \/ AwaitFail(w)

Call(w) ==
    \/ \E i \in Intents :
         PrepareStart(w, i) \/ ExecuteStart(w, i) \/ StatusStart(w, i)
    \/ Crash(w)

Process(w) == Call(w) \/ Prepare(w) \/ Reconcile(w) \/ Execute(w)

Mint(i) == MintSign(i) \/ MintRefuse(i)

Next ==
    \/ \E w \in Procs : Process(w)
    \/ \E i \in Intents :
         Approve(i) \/ Expire(i) \/ Pay(i) \/ Mint(i) \/ PaymentMoves(i)

Spec == Init /\ [][Next]_vars

\* What the liveness property assumes: the owner keeps asking for the status,
\* calls run on, and outages of the mint and of the database do not last.
FairSpec ==
    /\ Spec
    /\ \A w \in Procs :
         /\ WF_vars(Prepare(w)) /\ WF_vars(Execute(w)) /\ WF_vars(Reconcile(w))
         /\ \A i \in Intents :
              /\ SF_vars(StatusStart(w, i))
              /\ SF_vars(Job(w) = i /\ CheckQuote(w))
              /\ SF_vars(Job(w) = i /\ Restore(w))
              /\ SF_vars(Job(w) = i /\ (SaveWrite(w) \/ SaveSeen(w)))

-----------------------------------------------------------------------------
(* Properties                                                              *)

\* Types, and two facts of storage: outputs are stored together with the
\* quote, and a process between calls remembers nothing of the last one.
TypeOK ==
    /\ opState \in [Intents -> OpStates]
    /\ execCount \in [Intents -> Nat]
    /\ outputs \in [Intents -> {"NONE", "STORED", "ERASED"}]
    /\ coin \in [Intents -> {"ABSENT", "UNSPENT", "PENDING", "SPENT"}]
    /\ approved \subseteq Intents /\ expired \subseteq Intents
    /\ quote \in [Intents -> {"NONE", "UNPAID", "PAID", "ISSUED"}]
    /\ wire \subseteq Intents
    /\ posts \in [Intents -> Nat]
    /\ pc \in [Procs -> Labels]
    /\ ctx \in [Procs -> Contexts]
    /\ \A i \in Intents : outputs[i] # "NONE" => quote[i] # "NONE"
    /\ \A w \in Procs : IF pc[w] = "idle" THEN ctx[w] = Blank
                                           ELSE Job(w) \in Intents

\* An approval is good for one issuance: however stale the writes of other
\* calls are, the outputs of an intent are posted at most once, after the
\* human approved it and the invoice was paid.
ApprovedOnce ==
    \A i \in Intents :
        /\ posts[i] <= execCount[i] /\ execCount[i] <= 1
        /\ execCount[i] = 1 => i \in approved /\ quote[i] \in {"PAID", "ISSUED"}

\* What the wallet counts as received was signed by the mint, and a row that
\* says ISSUED has its proofs.
IssuedIsReal ==
    \A i \in Intents :
        /\ coin[i] # "ABSENT" => quote[i] = "ISSUED"
        /\ opState[i] = "ISSUED" => coin[i] # "ABSENT"

\* The balance never exceeds the limit that the owner reviewed.
BalanceCap == Total(Held) <= MaxBalance

\* What the mint has signed can be recovered: the proofs are in the wallet,
\* or the outputs needed to restore them are, in the row or in a running call.
Recoverable ==
    \A i \in Intents :
        quote[i] = "ISSUED" =>
            \/ coin[i] # "ABSENT"
            \/ outputs[i] = "STORED"
            \/ \E w \in Procs : Job(w) = i /\ ctx[w].outputs

\* ISSUED is a terminal state.
IssuedForever ==
    [][\A i \in Intents : opState[i] = "ISSUED" => opState'[i] = "ISSUED"]_vars

\* How the rows, the signatures and the mint read as a one-shot operation.
Stage(i) ==
    IF quote[i] = "ISSUED" THEN "performed"
    ELSE IF posts[i] > 0 THEN "posted"
    ELSE IF execCount[i] > 0 THEN "committed"
    ELSE IF i \in approved THEN "approved"
    ELSE IF outputs[i] # "NONE" THEN "prepared"
    ELSE "absent"

\* The plan of a receive is its locked quote with the outputs to be signed.
Planned(i) == IF outputs[i] = "NONE" THEN "no plan" ELSE "locked quote"

OneShotReceive ==
    INSTANCE OneShot WITH Plans <- {"locked quote"}, NoPlan <- "no plan",
                          stage <- [i \in Intents |-> Stage(i)],
                          plan <- [i \in Intents |-> Planned(i)]

\* The service implements the one-shot operation it promises.
ImplementsOneShot == OneShotReceive!Spec

\* Proofs that the mint signed are eventually in the wallet.
IssuedIsRecorded ==
    \A i \in Intents : quote[i] = "ISSUED" ~> opState[i] = "ISSUED"
=============================================================================
