------------------------------ MODULE WalletSync ------------------------------
(***************************************************************************)
(* The calls that compare proofs with the mint, beside the payments of     *)
(* SplitMelt: syncProofsStateWithMint (GET /v1/wallet, and balance and     *)
(* sync of the CLI), POST /v1/wallet/check, and restore-audit on a         *)
(* restored database (src/services/walletService.ts).                      *)
(*                                                                         *)
(* These calls read rows, ask the mint and write status alone, by secret:  *)
(* no write looks at the reservation or at the status the row has by then. *)
(* A proof that was exported in a token, before the one-shot send was      *)
(* disabled, is PENDING without a reservation, and its receiver may redeem *)
(* it at any time.                                                         *)
(***************************************************************************)
EXTENDS SplitMelt

CONSTANTS
    Readers,     \* concurrent inspection calls
    Token,       \* proofs that may have been exported in a token
    NoBackup     \* no copy of the database was made yet

ASSUME TokenAssumption == Token \subseteq Funded

VARIABLES
    exported,    \* proofs of the one token that was exported
    stray,       \* history: change that no row or receipt vouches for
    rpc, rctx,   \* where each inspection call is, and what it remembers
    ready,       \* calls whose last audit answered funded_restore_ready
    backup,      \* a copy of the database
    restored     \* the database is that copy

readVars == <<rpc, rctx, ready>>
copyVars == <<exported, stray, backup, restored>>
allVars  == <<vars, readVars, copyVars>>

Database == [state |-> opState, count |-> execCount, plan |-> plan,
             status |-> pstat, reserved |-> resv]

\* What an inspection call keeps across its awaits: the proofs it asks about,
\* those to be written, and whether the rows it has read allow readiness.
Seen == [held : SUBSET Proofs, spent : SUBSET Proofs, other : SUBSET Proofs,
         clean : BOOLEAN]
Unseen == [held |-> {}, spent |-> {}, other |-> {}, clean |-> FALSE]

SyncInit ==
    /\ Init
    /\ exported = {}
    /\ stray = {}
    /\ rpc = [r \in Readers |-> "idle"]
    /\ rctx = [r \in Readers |-> Unseen]
    /\ ready = {}
    /\ backup = NoBackup
    /\ restored = FALSE

-----------------------------------------------------------------------------
(* Reading and writing proof rows                                          *)

\* Broken variant: loadProofs returns reserved proofs as well.
LoadAllProofs(status) == {p \in Proofs : pstat[p] = status}

\* loadProofs: only what no payment has reserved.
LoadProofs(status) == {p \in Proofs : pstat[p] = status /\ resv[p] = None}

\* updateProofsStatus: by secret alone, whatever the rows say by now.
UpdateStatus(P, status) ==
    pstat' = [p \in Proofs |-> IF p \in P /\ pstat[p] # "ABSENT" THEN status
                               ELSE pstat[p]]

\* The proofs of P that the mint reports in that state.
Reported(P, state) == {p \in P : mstat[p] = state}

OtherVars == <<opVars, resv, envVars, mintVars, netVars, procVars, copyVars>>

Turn(r, l, c) ==
    /\ rpc' = [rpc EXCEPT ![r] = l]
    /\ rctx' = [rctx EXCEPT ![r] = c]

\* Broken variant: what the call has seen stays for the next one.
ReturnRemembers(r) == Turn(r, "idle", rctx[r])

\* The call returns.
Return(r) == Turn(r, "idle", Unseen)

\* The mint does not answer, a database call rejects, or the process dies.
ReadFail(r) ==
    /\ rpc[r] # "idle"
    /\ Return(r)
    /\ UNCHANGED <<vars, ready, copyVars>>

-----------------------------------------------------------------------------
(* syncProofsStateWithMint                                                 *)

\* Without pending proofs there is nothing to ask.
SyncRead(r) ==
    LET pending == LoadProofs("PENDING") IN
    /\ rpc[r] = "idle"
    /\ pending # {}
    /\ Turn(r, "sync", [Unseen EXCEPT !.held = pending])
    /\ UNCHANGED <<vars, ready, copyVars>>

\* checkProofsStates answers; what is pending at the mint is left alone.
SyncAsk(r) ==
    LET held == rctx[r].held IN
    /\ rpc[r] = "sync"
    /\ Turn(r, "spent", [Unseen EXCEPT !.spent = Reported(held, "SPENT"),
                                       !.other = Reported(held, "UNSPENT")])
    /\ UNCHANGED <<vars, ready, copyVars>>

WriteSpent(r) ==
    /\ rpc[r] = "spent"
    /\ UpdateStatus(rctx[r].spent, "SPENT")
    /\ Turn(r, "unspent", [rctx[r] EXCEPT !.spent = {}])
    /\ UNCHANGED <<OtherVars, ready>>

WriteUnspent(r) ==
    /\ rpc[r] = "unspent"
    /\ UpdateStatus(rctx[r].other, "UNSPENT")
    /\ Return(r)
    /\ UNCHANGED <<OtherVars, ready>>

-----------------------------------------------------------------------------
(* POST /v1/wallet/check                                                   *)

\* The mint is asked about every proof of the token; no row is read.
CheckAsk(r) ==
    /\ rpc[r] = "idle"
    /\ exported # {}
    /\ Turn(r, "chkspent", [Unseen EXCEPT !.spent = Reported(exported, "SPENT"),
                                          !.other = Reported(exported, "PENDING")])
    /\ UNCHANGED <<vars, ready, copyVars>>

CheckSpent(r) ==
    /\ rpc[r] = "chkspent"
    /\ UpdateStatus(rctx[r].spent, "SPENT")
    /\ Turn(r, "chkpending", [rctx[r] EXCEPT !.spent = {}])
    /\ UNCHANGED <<OtherVars, ready>>

CheckPending(r) ==
    /\ rpc[r] = "chkpending"
    /\ UpdateStatus(rctx[r].other, "PENDING")
    /\ Return(r)
    /\ UNCHANGED <<OtherVars, ready>>

-----------------------------------------------------------------------------
(* restore-audit                                                           *)

Stored == {p \in Proofs : pstat[p] # "ABSENT"}

\* findMany over all rows.  held: the proofs to ask about; other: those that
\* are stored as UNSPENT, the rest being SPENT.  A reserved or pending row
\* rules readiness out, because the mint's PENDING does as well.
AuditRead(r) ==
    /\ rpc[r] = "idle"
    /\ Turn(r, "audit",
            [Unseen EXCEPT !.held = Stored,
                           !.other = {p \in Stored : pstat[p] = "UNSPENT"},
                           !.clean = \A p \in Stored : pstat[p] # "PENDING"
                                                       /\ resv[p] = None])
    /\ ready' = ready \ {r}
    /\ UNCHANGED <<vars, copyVars>>

\* The mint reports every proof in the state in which it is stored, and some
\* of them UNSPENT.
Agrees(c) ==
    /\ c.other # {}
    /\ c.other = Reported(c.held, "UNSPENT")
    /\ c.held \ c.other = Reported(c.held, "SPENT")

AuditAsk(r) ==
    /\ rpc[r] = "audit"
    /\ Turn(r, "count", [Unseen EXCEPT !.clean = rctx[r].clean /\ Agrees(rctx[r])])
    /\ UNCHANGED <<vars, ready, copyVars>>

\* Broken variant: UNKNOWN counts as finished.
OpenUnlessUnknown == {i \in Intents : opState[i] \in {"PREPARED", "EXECUTING", "PENDING"}}

\* The payments that are counted as unresolved.
Unresolved ==
    {i \in Intents : opState[i] \in {"PREPARED", "EXECUTING", "PENDING", "UNKNOWN"}}

\* The operations are counted last, and the audit answers.
AuditCount(r) ==
    /\ rpc[r] = "count"
    /\ ready' = IF rctx[r].clean /\ Unresolved = {} THEN ready \cup {r} ELSE ready
    /\ Return(r)
    /\ UNCHANGED <<vars, copyVars>>

-----------------------------------------------------------------------------
(* What happens around these calls                                         *)

\* A one-shot send of an earlier version: the proofs of P were exported.
Export(P) ==
    /\ exported = {} /\ P # {}
    /\ backup = NoBackup
    /\ \A i \in Intents : opState[i] = "NONE"
    /\ \A w \in Procs : pc[w] = "idle"
    /\ exported' = P
    /\ UpdateStatus(P, "PENDING")
    /\ UNCHANGED <<opVars, resv, envVars, mintVars, netVars, procVars,
                   readVars, stray, backup, restored>>

\* The receiver of the token swaps it at the mint.
Redeem ==
    /\ exported # {}
    /\ exported = Reported(exported, "UNSPENT")
    /\ mstat' = [p \in Proofs |-> IF p \in exported THEN "SPENT" ELSE mstat[p]]
    /\ UNCHANGED <<opVars, rowVars, envVars, quote, netVars, procVars,
                   readVars, copyVars>>

\* The database is copied, once.
Backup ==
    /\ backup = NoBackup
    /\ backup' = Database
    /\ UNCHANGED <<vars, readVars, exported, stray, restored>>

\* The device is lost and its last copy is put in place, with no call running
\* and no request under way.  (The mint knows the inputs of a payment only by
\* the row's plan here, so it has ended those that the copy knows nothing of.)
Restore ==
    /\ backup # NoBackup /\ ~restored
    /\ \A i \in Intents : quote[i] = "PENDING" => backup.plan[i] = plan[i]
    /\ opState' = backup.state
    /\ execCount' = backup.count
    /\ plan' = backup.plan
    /\ pstat' = backup.status
    /\ resv' = backup.reserved
    /\ restored' = TRUE
    /\ wire' = {}
    /\ pc' = [w \in Procs |-> "idle"]
    /\ ctx' = [w \in Procs |-> Blank]
    /\ rpc' = [r \in Readers |-> "idle"]
    /\ rctx' = [r \in Readers |-> Unseen]
    /\ ready' = {}
    /\ UNCHANGED <<envVars, mintVars, posts, exported, stray, backup>>

\* Proofs that left the wallet, and change that may be missing unnoticed: of a
\* payment that spent such proofs alone, or whose plan is exact, so that it may
\* be PAID by an answer without change.
Doubtful == exported \cup stray

\* Payments go on; a restored wallet begins no new one.
Payments ==
    /\ Next
    /\ restored => \A w \in Procs : pc'[w] # "create"
    /\ stray' = stray \cup
         {Change[i] : i \in {j \in Intents : /\ quote[j] # "PAID" /\ quote'[j] = "PAID"
                                             /\ \/ plan[j] \subseteq Doubtful
                                                \/ <<j, plan[j]>> \in Exact}}
    /\ UNCHANGED <<readVars, exported, backup, restored>>

Sync(r) == SyncRead(r) \/ SyncAsk(r) \/ WriteSpent(r) \/ WriteUnspent(r)
Check(r) == CheckAsk(r) \/ CheckSpent(r) \/ CheckPending(r)
Audit(r) == AuditRead(r) \/ AuditAsk(r) \/ AuditCount(r)

SyncNext ==
    \/ Payments
    \/ \E r \in Readers : Sync(r) \/ Check(r) \/ Audit(r) \/ ReadFail(r)
    \/ \E P \in SUBSET Token : Export(P)
    \/ Redeem \/ Backup \/ Restore

SyncSpec == SyncInit /\ [][SyncNext]_allVars

-----------------------------------------------------------------------------
(* Properties                                                              *)

\* Types, and one fact: a call that has returned remembers nothing.
SyncTypeOK ==
    /\ TypeOK
    /\ exported \subseteq Token /\ stray \subseteq Proofs
    /\ rpc \in [Readers -> {"idle", "sync", "spent", "unspent", "chkspent",
                            "chkpending", "audit", "count"}]
    /\ rctx \in [Readers -> Seen]
    /\ ready \subseteq Readers
    /\ \A r \in Readers : rpc[r] = "idle" => rctx[r] = Unseen
    /\ restored \in BOOLEAN

\* Whatever inspection calls run beside them, payments made with proofs that
\* never left the wallet keep their reservations whole.
OwnReservation ==
    \A i \in Intents : \A p \in Proofs :
        (resv[p] = i /\ plan[i] \cap exported = {}) =>
            /\ execCount[i] = 1
            /\ opState[i] \notin {"PREPARED", "PAID", "UNPAID"}
            /\ \A q \in plan[i] : resv[q] = i /\ pstat[q] = "PENDING"

\* An audit that answers "ready" is right about the payments when it answers:
\* whatever ran while it read, asked and counted, and however many payments the
\* restored copy has missed, every proof that they had to spend or to bring is
\* stored in the state the mint has it in, guaranteed change included, and none
\* is reserved.  Left out are proofs that the audit cannot know to be missing
\* (Doubtful); receives are not part of this module, and what was received
\* after the copy was made is never asked about.
AuditSound ==
    [][\A r \in Readers : r \in ready' \ ready =>
         \A p \in Proofs \ Doubtful :
             /\ resv[p] = None
             /\ pstat[p] = IF mstat[p] = "NONE" THEN "ABSENT" ELSE mstat[p]]_allVars

\* Until a copy is restored, the balance made of proofs that never left the
\* wallet can be spent, although status writes may be late.
OwnBalanceReal ==
    ~restored => \A p \in Proofs \ exported : Free(p) => mstat[p] = "UNSPENT"
=============================================================================
