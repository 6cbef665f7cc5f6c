# Formal model of the Minibits Ippon wallet

TLA+ modules, TLC runs and TLAPS proofs about the approval-gated Cashu wallet in
this repository. Paths below are relative to the repository root; line numbers
refer to the commit that this directory was written against.

The wallet holds ecash proofs of one or more Cashu mints and moves them over
Lightning. A payment (`pay-prepare`, `pay-execute`, `pay-status`) or a receive
(`receive-prepare`, `receive-execute`, `receive-status`) is planned first, signed
by a human outside the wallet, executed once, and reconciled with the mint for
as long as its outcome is uncertain. Every difficulty of the program lies in
that last part: two databases, several processes, a mint that answers late or
not at all, and crashes anywhere between two awaits.

## 1. Inventory

| component | state it keeps | operations | interacts through |
|---|---|---|---|
| **Payment service** `src/services/splitMeltService.ts` | `MeltOperation` rows (state, executionCount, selected proofs), `Proof` rows (status, reservedByIntentId) | `prepare`, `execute`, `status`; inside them `reserveExecution`, `expirePrepared`, `reconcile`, `setUnknown`, `saveChangeProofs` | database, mint, approval capability |
| **Receive service** `src/services/splitMintService.ts` | `MintOperation` rows (state, executionCount, outputs, keys), `Proof` rows | `prepare`, `execute`, `status`; inside them `reconcile`, `restoreIssuedProofs`, `saveIssuedProofs`, `setUnknown` | database, mint, approval capability |
| **Approval capability** `src/services/approvalCapability.ts`, `scripts/approval-tool.mjs` | none (a public key in the environment) | build and verify a payload; sign it outside | called by both `execute`s |
| **Wallet service** `src/services/walletService.ts` | `Proof` rows | `syncProofsStateWithMint`, `updateProofsStatus`, `checkTokenState`, `auditRestoredProofs` | database, mint; used by everything |
| **Keyset cache** (same file) | one `Wallet` instance of cashu-ts per mint, with its keysets, the one it is bound to and the time of its last load | `getWallet`, `refreshKeysets`, `decodeToken` | mint; called before every use of a mint |
| **HTTP API** `src/routes/`, `src/handlers/`, `src/app.ts` | none | wallet creation, balance (which synchronises), history, token check, rates; the mutating routes only reject | calls the services concurrently |
| **Command line** `src/cli.ts` | the promise of the running command | one command at a time; waits before closing | calls the services |
| **Exchange rates** `src/services/exchangeRateService.ts` | rate cache, one request in flight | `getExchangeRate` | an HTTP service |
| **Database** `prisma/` | all rows; PostgreSQL (READ COMMITTED) or SQLite | statements, interactive transactions | every service |
| **Mint** (external) | quotes, proof states, signatures | quote, melt, mint, check, restore | HTTP |

### What is hard, and what makes each part correct

*Payment.* Proofs, the operation row and the mint's own state must agree although
they change in different places and at different times. Correct means: posted at
most once and only as approved; proofs reserved all or none; PAID only if paid,
with the guaranteed change in the wallet; the balance spendable; a finished state
final; an uncertain one eventually resolved, and signed change eventually stored. The threats are two processes executing, polling and expiring the
same row, a crash between reservation and answer, a request that is still on its
way when its caller gives up, and writes that are decided on answers which are
out of date when they are written.

*Receive.* The outputs stored in the row are the only key to the ecash that the
mint signs. Correct means: posted at most once, approved and paid; stored proofs
are issued proofs; signed outputs stay recoverable until the proofs are stored;
the balance limit holds over everything that may still arrive. `reconcile`
updates rows by key alone, so a stale call is the main threat.

*Wallet service.* Synchronisation and token check write proof states by secret,
without regard to the reservation or to what the row says by then; correct means
that they only ever write proofs that no payment has planned. The audit of a
restored copy reads, asks the mint and counts in three steps, and must not
answer "ready" over a copy that the mint has left behind.

*Keyset cache.* One instance serves every caller while keysets rotate and expire
at the mint. Loads overlap and their answers overtake one another; a failed
refresh is tolerated while the old binding is usable. Correct means: whoever
gets a wallet can make outputs with it, sees the mint as it was a bounded time
ago, and no good token is refused for want of a keyset that the mint has listed.

*Command line.* Input arrives faster than it is worked off and answers carry no
identifier. Correct means: one command at a time, in order, one line each,
whatever fails; at the close every accepted command first, then the database.

*Exchange rates.* A request is shared, raced by a timer, stamped with a time from
before it was made, and backed by an entry read before it was awaited. Correct
means: a bounded age unless the caller's own fetch failed, the newest known rate
if it did, and an answer in any case.

*History.* A page is cut from two tables that are read apart. Correct means: a
client that reads to the end misses nothing that was there when it began.

`PROJECT.json` lists every hazard at its line, with the properties that would
catch it.

## 2. Modules

| module | models | state and actions |
|---|---|---|
| `OneShot` | what any approval-gated operation promises | a stage per intent, absent, prepared, approved, committed, posted, performed, and the plan, fixed from the first step on |
| `SplitMelt` | the payment service, any number of processes | below |
| `SplitMint` | the receive service, any number of processes | below |
| `PaymentPlan` | the sums of one payment: limits, plan, receipt, balance | `Prepare`, `Execute`, `Settle`, `Refuse`, `Release` and a concurrent `Receive`; the mint may name any amount |
| `WalletSync` | synchronisation, token check and restore audit beside the payments of `SplitMelt`, any number of them | below |
| `KeysetCache` | the cached instance of one mint, its callers, the mint's keysets | below |
| `ExchangeRate` | the rate cache and the shared fetch | below |
| `CliSession` | the chain of commands, their output, the close | below |
| `History` | the history, read page by page while operations are added | below |
| `Service` | the composition: one process as a session or as a server, over the four modules before | below |
| `MCSplitMelt`, `MCSplitMint`, `MCPaymentPlan`, `MCWalletSync`, `MCService` | the instances for TLC | |
| `SplitMeltProofs`, `SplitMintProofs`, `PaymentPlanProofs`, `WalletSyncProofs`, `KeysetCacheProofs`, `ExchangeRateProofs`, `CliSessionProofs`, `ServiceProofs` | theorems | |

**Processes.** A process (`Procs`) is a CLI session or one HTTP request. `pc[w]`
is what it is about to await, `ctx[w]` what it remembers across awaits: the
intent, the quote state and the change it was told, the proofs it selected or
counted (`SplitMelt`), or the operation as it read it (`SplitMint`). An action runs from
one await to the next, so processes interleave where the code can be
interrupted and nowhere else. `Crash` ends a call at any await; the rows stay.

**Transactions.** A transaction is one action where its own conditional updates
make it equivalent to one (`reserveExecution`: both updates name the state they
expect and are counted), or where its isolation is serializable (the receive's
`prepare`). `expirePrepared` and `saveIssuedProofs` read first and update
unconditionally: with `ReadCommitted` (PostgreSQL's default) they are split into
their statements, without it (SQLite, where a transaction overtaken by a writer
aborts) they are one step. The reconciling transactions of the payment update
the proofs conditionally and re-count them, and are one step.

**The mint and the network** are external. `wire` holds requests sent and not
yet seen by the mint. A caller that gives up (`AwaitFail`, `Crash`) loses the
request unless `LateDelivery` lets it arrive later.

**SplitMelt.** `opState`, `execCount`, `plan` are the `MeltOperation` columns
`state`, `executionCount`, `selectedProofsJson`; `pstat`, `resv` are the `Proof`
columns `status`, `reservedByIntentId`; `approved` and `expired` are the signatures
given and the quotes past their expiry; `quote`, `mstat` are what the mint says;
`posts` counts melts ever sent. `PrepareSelect`/`PrepareCreate` are `prepare`;
`ExecuteStart`, `Reserve`, `SendMelt`, `MeltReply`, `AwaitFail` are `execute`;
`CheckQuote`, `CheckProofs` and the write that `Verdict` selects (`Settle`,
`Release`, `MarkPending`, `SetUnknown`) are `reconcile`; `Expire...` are
`expirePrepared`; `StatusStart` is `status`. Hashes, invoice and preimage are
abstracted to "matches" (`CheckQuoteBad`, `SettleRefused` are the mismatches).
A status or execute that only returns what it read is a stutter.
An answer about the quote carries the change that the mint has signed, or leaves
it out (`Told`, `ctx[w].change`), and `Settle` stores what the answer carried. Without
change the whole plan counts as spent, and the receipt's test (`ReceiptFits`, lines
452-466) then refuses PAID unless the plan's total is exactly the approved
maximum; `Exact` is the set of such plans, the sums themselves are in
`PaymentPlan`. So a row becomes PAID without its change for an exact plan only,
whose change is what the mint saved of the fee reserve; a later status call
reconciles PAID rows again and stores what it is then told.

**SplitMint.** `outputs` stands for `outputDataJson` and the keys (absent, stored,
erased), `coin` for the `Proof` rows that an intent receives. `PrepareStart`,
`QuoteAnswer`, `StorePlan` are `prepare`; `CheckQuote`, `ReadClock`, the writes
`MarkPaid`, `MarkPrepared`, `MarkExpired`, `SetUnknown` and `Restore` are
`reconcile`; `SaveRead`, `SaveWrite`, `SaveSeen`, `SaveFail` are
`saveIssuedProofs`; `Reread`, `ExpireApproval`, `Reserve`, `Load`, `SendMint`,
`MintReply`, `AwaitFail` are the rest of `execute`. `PaymentMoves` is what payments
do to received proofs.

**PaymentPlan.** `plan` holds the amounts that `prepare` stores, `free` the
unreserved balance, `stored` the change proof, `receipt` the evidence of the
first PAID answer. `Payable` is the conjunction of `prepare`'s tests (the tests of
single amounts follow from those of the sum, since nothing exceeds the supported
proof total), `Accepts` that of the receipt's, `SaveChange` is
`saveChangeProofs` for change of one proof.

**WalletSync** extends `SplitMelt`: every step of a payment is a step here
(`Payments`), and `Readers` are inspection calls. `rpc[r]` is what such a call is
about to await, `rctx[r]` what it remembers: the proofs it asks about and the two
sets it will write, one `updateMany` after the other. `SyncRead`, `SyncAsk`,
`WriteSpent`, `WriteUnspent` are `syncProofsStateWithMint`; `CheckAsk`, `CheckSpent`,
`CheckPending` are the handler of `POST /v1/wallet/check`; `AuditRead`, `AuditAsk`,
`AuditCount` are the audit, and `ready` holds the calls it last told "ready".
`Export` stands for what a one-shot send of an earlier version left in the
database (proofs PENDING without a reservation, which is what the
synchronisation is there for); the receiver redeems them at any time (`Redeem`).
`Backup` and `Restore` copy the database once and put the copy in place later,
`exported` being a fact about the world and not a row. `stray` is a history
variable: the change of payments made with exported proofs alone, or with an exact
plan (`Doubtful` is the exported proofs and these), see below. Left out: the audit's
count of receives and its limit on the number of proofs; receives made after the
copy are invisible to the audit, which asks about stored proofs only.
`checkProofsStates` answers as one step.

**KeysetCache.** An instance of cashu-ts is `inst[c]`, named after the call that made
it; `entry` says which one is cached. Its `view` is what the last load listed
(`known`: how many keysets, `live`: the active ones), `bound` its keyset, `age` the
time since `keysetsLoadedAt`, and `seen`, which the code does not have, the time
since the mint gave that view. `kpc[c]` is what a call awaits and `job[c]` what it
remembers. An answer is given by the mint (`MintGives`) and applied later, so two
loads of one instance may be applied in the other order. `BeginKeys` is the head of
`getWallet` or of `decodeToken`; `Created`, `Refreshed`, `RefreshFail`, `Retried` are
what follows an await. `checkTokenState` is a `decodeToken` and then a `getWallet`,
two calls one after the other here. Which keyset is the cheapest is left open.

**ExchangeRate.** An entry is the age of its stamp and the age of its data; the
rate itself does not matter. `Resolve` is one step because the promise of a fetch
resumes everybody who awaits it in one go: each stores all rates with a stamp of
its own (`Latest`: the last write is that of whoever began last) or, if its own
currency is missing, stores nothing and falls back.

**CliSession.** `cmd[n]` is the n-th command, `after[n]` the promise it is chained
to, `lines` the output. A command is of a kind, by what it awaits: nothing
(`local`), one database access (`query`), or a look-up and then a service
(`service`). `LateLines` lets readline deliver lines after the close.

**History.** A row is its place in the final order, new rows may appear at any
place (in the code: at or near the front, since the order is by creation; the
model is more general). `ReadMelts` and `ReadMints` are the two queries,
`ShowPage` is merge, sort, slice and the client's decision to go on. `MaxOffset` is
the schema's maximum: a client may be stopped by it before it has seen everything,
and is not told that it has.

**Service** joins them by what they share. In `cli` mode the command at work is
the only caller of the cache, and calls it as often as it likes; in `api` mode
each slot serves one route again and again (`GET /wallet`: `getWallet`; `POST
/wallet/check`: `decodeToken` and `getWallet`; rates; history). Time is common to
both caches (`Tick`). What the services do with the wallet they are handed is in
the modules of those services; what joins the two halves is that a session has
one command at work, the instance with one process there.

Operators that say "broken variant" are used by no action; they are the mutants
that show each property can fail.

## 3. Runs

| run | instance | shows |
|---|---|---|
| `melt_postgres` | 3 processes, 1 payment by an exact plan or one with change, READ COMMITTED, late delivery | `TypeOK`, `ApprovedOnce`, `ReservationIntegrity`, `PaidIsReal`, and that the service implements `OneShot` |
| `melt_serial` | 1 process, 2 payments, overlapping plans, one spending the other's change | `ReservationIntegrity`, `NoPhantomBalance`, `ExpiredNeverExecuted`, `DecidedForever` |
| `melt_live` | 1 process, 1 payment by an exact plan or one with change, fairness | `ExecutedIsResolved`, `PaymentRecorded`, `ChangeRecovered` |
| `melt_expire_race` | 2 processes, READ COMMITTED | **violated**: `ExpiredNeverExecuted` |
| `melt_late` | 1 process, late delivery, fairness | **violated**: `PaymentRecorded` |
| `mint_concurrent` | 3 processes, 1 receive, READ COMMITTED, late delivery | `TypeOK`, `ApprovedOnce`, `IssuedIsReal`, implements `OneShot` |
| `mint_serial` | 1 process, 2 receives that do not fit the limit together, late delivery, fairness | `BalanceCap`, `Recoverable`, `IssuedIsRecorded` |
| `plan_sums` | all sums from 0 to 6, limit 4, boundary 5, up to 8 received | `TypeOK`, `SpendIsApproved`, `LimitsHold`, `BalanceAccounts` |
| `wallet_sync` | 1 process, 1 payment of either proof or both, 1 inspection call, 1 exported proof, one copy, one restore | `SyncTypeOK`, `OwnReservation`, `OwnBalanceReal`, `AuditSound` |
| `service` | a session of 2 commands, or a server with 2 slots; 2 keysets, 2 currencies, 5 rows; fairness | `TypeOK`, `HandedIsUsable`, `HandedIsRecent`, `RefusedForCause`, `CliViewAdvances`, `RateIsRecent`, `FallbackIsNewest`, `AskAnswered`, `LinesPair`, `OneAtATime`, `DrainedFirst`, `SessionEnds`, `NothingSkipped` |
| `mint_regress` | 2 processes, SQLite | **violated**: `IssuedForever` |
| `mint_erased` | 2 processes, SQLite | **violated**: `Recoverable` |

**Bounds.** No counter needs one: `execCount` and `posts` stay at most 1 because
`ApprovedOnce` holds, and everything else is finite. Three processes on one row
are an execution, a reconciliation that is out of date and a third one that acts
in between, which is what every race found here needs at most; processes are
interchangeable, hence the symmetry in runs of safety properties. Two payments
with two funded proofs are enough for overlapping plans, the second change-spending
plan gives a chain of two payments. Two receives of 2 and 3 under a limit of 4
are the smallest pair of which either fits and both do not. The sums of
`plan_sums` include zero and lie on both sides of limit and boundary; its funds
are bounded by `MaxFunds`.

`service` runs two calls of each kind at once, which is what it takes for an
overtaken load, a lost race for the cache, or a shared fetch; one call of
`decodeToken` runs against a changing mint. Two keysets are one rotation, with
expiry before, after or during it. `KeysetTtl`, `Latency`, `RateTtl` and
`FetchTimeout` of one tick each distinguish "before", "at" and "after" every
comparison; ages are capped one tick beyond the last of them, where no comparison
changes any more. Two commands are a predecessor and a successor. Five rows with
a page of one and a `MaxOffset` of 3 give four pages, with a client that finishes
and one that is stopped. What a behaviour never looks at stands still
(`KeysUnused`, `HistoryUnused`), and `Mixes` names the routes that share a cache. The
theorems of section 4 have none of these bounds.

`wallet_sync` has one inspection call at a time, interleaved at its every await
with a payment, a redemption, the copy and the restore (844,630 states); the
theorems of section 4 cover any number of calls and payments. `Backup` and `Restore` happen at most once, `Restore`
with no call running; a restored wallet begins no new payment (the copy may know
nothing of a payment whose proofs it holds as UNSPENT, and the audit is the
operator's means to find that out), but it resumes those it has. Payments that
the copy does not know have ended at the mint by then, because the mint knows
their inputs only by the row in this model.

The three properties of `wallet_sync` speak of proofs that were never exported,
and `AuditSound` also leaves out the change in `stray`. If the copy knows nothing
of a payment, its missing change shows only in the state of what it spent, and a
proof that was handed out may be SPENT for another reason. And a payment by an
exact plan may be PAID with its change still at the mint: the audit asks about
stored proofs, so it answers "ready" over such a wallet, and so it does when a
receive was issued after the copy was made. `AuditSound` claims neither. For exported ones the plain forms of `SplitMelt` do fail, and for a reason
in the code: a synchronisation that finds an exported proof UNSPENT at the mint
returns it to the balance, a payment reserves it, and a token check or a second,
slower synchronisation then writes the state it was told before over the
reserved row. One-step `send` is disabled in this fork (`README.md:84`), so a
database holds such proofs only from before; the properties leave them out.

**Fairness** (`FairSpec`). The owner keeps asking for the status (strong fairness
of `StatusStart`, because an expired or busy process disables it from time to
time), also of a PAID row, which is what `ChangeRecovered` needs; a call that has
started runs on (weak fairness); outages, wrong answers and answers without the
signed change do not last (strong fairness of the answer that has it all, of the
question after it and of the write, in a call that keeps being repeated); the
mint finishes the Lightning payments it has started. A mint that signs no change
for a plan which exceeds the maximum is excused by `Withheld`: no receipt of its
will ever fit, and the row stays UNKNOWN. In `Service`: time passes and the fetch timer fires (`Tick`, `TimerFires`: a
`setTimeout`), loads end, be it with an error (`CallsGoOn`), an open promise chain
goes on (`SessionGoesOn`), and a command, which makes finitely many calls, returns
(`ServiceReturns`, strong because it is between two calls again and again).
CoinGecko owes nothing, and nobody has to close a session.
There is no background job in the code: without the owner's status
calls nothing is resolved, and no property claims otherwise. Crashes are never
ruled out, they just do not happen to every call.

All runs say `CHECK_DEADLOCK FALSE`: a wallet whose intents are all finished and
whose processes are idle has nothing left to do, and a session that has ended
neither.

### What the violated runs show

1. `melt_expire_race`. Process `a` starts `execute` in time, `b` polls the status after
   expiry. `b`'s transaction reads PREPARED (line 304), `a` commits its reservation,
   `b` updates the row by key alone (line 341): an operation that is being
   posted reads EXPIRED, which no status call reconciles. Its proofs are released
   or reserved; only `a` itself, still under way, may write over it once more.
2. `melt_late`. The POST is slow; its caller gives up and reconciles, the mint
   says UNPAID and UNSPENT, the proofs are released. The POST then arrives and
   pays. From now on the local proofs are UNSPENT and not reserved, so
   the PAID branch always fails at its count (473-475) and the operation stays
   UNKNOWN, its change unclaimed.
3. `mint_regress`. A status call reads the row and is told PAID; another process
   executes and stores ISSUED; the first writes PAID by key alone (line 519).
4. `mint_erased`. A status call is told UNPAID; the invoice is paid and another
   process posts the outputs; the clock passes the expiry and the status call
   writes EXPIRED, erasing the outputs (line 532). If the poster dies before it
   stores the proofs, what the mint signed cannot be restored.

`BalanceCap` also fails with two processes: a paid receive whose approval expired
stops counting against the limit, a second `prepare` takes its share, and a stale
reconciliation writes PAID over it while the other process is already past its
expiry test. It is checked and proved for one process. `OwnBalanceReal` and
`AuditSound` fail with two processes, or with one and late delivery, for the reason
of `melt_late`: proofs are released while somebody's request for them is still on
its way.

## 4. Proofs

For every set of processes, intents and proofs, both settings of the flags, and
for any number of callers, keysets, currencies, commands and rows:

| theorem | module (both: of `SplitMelt` and `SplitMint`) | states |
|---|---|---|
| `TypeCorrect` | both | `Spec => []TypeOK` |
| `ApprovalIsOneShot` | both | `Spec => []ApprovedOnce` |
| `ReservationsAreWhole` | `SplitMeltProofs` | `Spec => []ReservationIntegrity` |
| `PaidMeansPaid` | `SplitMeltProofs` | `Spec => []PaidIsReal` |
| `IssuedMeansIssued` | `SplitMintProofs` | `Spec => []IssuedIsReal` |
| `OneShotImplemented` | both | `Spec => ImplementsOneShot` |
| `NumbersFit` | `PaymentPlanProofs` | `Spec => []TypeOK`: no amount leaves the boundary |
| `SpendWithinApproval` | `PaymentPlanProofs` | `Spec => []SpendIsApproved` |
| `SpendWithinLimits` | `PaymentPlanProofs` | `Spec => []LimitsHold` |
| `BalanceIsAccounted` | `PaymentPlanProofs` | `Spec => []BalanceAccounts` |
| `InspectionTyped` | `WalletSyncProofs` | `SyncSpec => []SyncTypeOK` |
| `InspectionHarmless` | `WalletSyncProofs` | `SyncSpec => []OwnReservation` |
| `OwnBalanceStaysReal` | `WalletSyncProofs` | `SyncSpec => []OwnBalanceReal`, assuming one process and `~LateDelivery` |
| `ReadyIsRight` | `WalletSyncProofs` | `SyncSpec => AuditSound`, assuming one process and `~LateDelivery` |
| `ExpiredIsIdle` | `SplitMeltProofs` | `Spec => []ExpiredNeverExecuted`, assuming SQLite (`~ReadCommitted`) |
| `DecisionsStand` | `SplitMeltProofs` | `Spec => DecidedForever`, assuming one process (`SoleProcess`) |
| `BalanceIsSpendable` | `SplitMeltProofs` | `Spec => []NoPhantomBalance`, assuming one process and `~LateDelivery` |
| `SignedIsRecoverable` | `SplitMintProofs` | `Spec => []Recoverable`, assuming one process; with two it is false (`mint_erased`) |
| `BalanceStaysCapped` | `SplitMintProofs` | `Spec => []BalanceCap`, assuming one process |
| `IssuedIsFinal` | `SplitMintProofs` | `Spec => IssuedForever`, assuming one process; with two it is false (`mint_regress`) |
| `HandedUsable`, `HandedRecent`, `RefusalsHaveCause` | `KeysetCacheProofs` | `KeysSpec` implies `HandedIsUsable`, `HandedIsRecent`, `[]RefusedForCause` |
| `RatesAreRecent`, `FallbacksAreNewest` | `ExchangeRateProofs` | `RateSpec` implies `[]RateIsRecent`, `[]FallbackIsNewest` |
| `LinesMatch`, `CommandsExclude`, `SessionDrains` | `CliSessionProofs` | `CliSpec` implies `[]LinesPair`, `[]OneAtATime`, `DrainedFirst` |
| `HistoryComplete` | `ServiceProofs` | `HistorySpec => []NothingSkipped` |
| `Composition` | `ServiceProofs` | `Spec` of the process implies `KeysSpec`, `RateSpec`, `CliSpec` and `HistorySpec` |
| `PartsKeepTheirPromises`, `TypesCorrect` | `ServiceProofs` | hence all of the above of the composed process, and `[]TypeOK` |
| `ViewAdvances` | `ServiceProofs` | `Spec => CliViewAdvances` |

They assume what the modules assume of their constants: every intent has a change
proof of its own, selections are non-empty sets of proofs, `None` is no intent,
received amounts are positive, sums and limits are natural numbers, exported
proofs are funded ones, the fetch timer is no longer than the rates' time-to-live
(5 s and 2 min in the code), a page has at least one row.

*Payment.* `ApprovedOnce` is not inductive: that the row is still executable when
the reservation commits says nothing of a process that already holds the right to
post. The invariant adds that right: a process at `send` works on an intent with
execution count 1 and no post yet, and no two processes are there for the same
intent; the reservation, which increments the count, is the only way in. For
reservations it adds that a row in PREPARED was never executed and holds no
proof, which is what makes the expiry transaction harmless to `resv` even when
it overwrites a row. For PAID it adds what a process at `settle` has learnt
(`Heard`): the quote is paid and the plan spent at the mint, both of which are
final there, however old the answer is; and that the change it holds is change
the mint has signed for its intent (`Handed`), so that what `ReceiptFits` asks for is
what the row then has.

*Receive.* One inductive invariant, `Inv == Tables /\ Rows /\ Calls`. `Rows` says
what the columns say together; `Calls` says, per label, what is true of a call
that has got there (`Sound`): a call at `save` or `restore` has been told ISSUED,
and ISSUED is final at the mint; a call at `reread`, `reserve` or `send` has an
approved intent; only one call may post (`Apart`). It is shown kept action by
action; stale writes of `opState` are harmless because nothing in it trusts that
column alone, which is the point: the execution count is what protects the
receive, not its state.

*Sums.* The properties are inductive once the plan is known to add up
(`Planned`: the maximum is the sum of its parts, the proof total the maximum plus
the minimum change) and nothing to be recorded before PAID (`Recorded`). The
step that matters is a second `Settle` with a different answer: stored change
never shrinks, and what is added to it is added to the balance once.

*Inspection.* A status write cannot be harmless by its own guard, since it has
none. The invariant says which proofs it can reach: a row that is PENDING
without a reservation was exported, so that a synchronisation asks about, and
later writes, exported proofs only (`Inspecting`); a plan without exported
proofs is out of its reach. The facts about rows are stated for rows in general
(`RowFacts`), because they must hold of the copy as well: `Restore` replaces the rows
and nothing else has to be said about their age. The steps of payments reuse
the lemmas of `SplitMeltProofs` for types and tables.

*Expiry.* Where the expiry transaction is atomic nobody stands inside it
(`Atomic`), so a row becomes EXPIRED only while it is executable, when by
`ReservationIntegrity` it holds no proof; and EXPIRED rows are never reserved. Under
READ COMMITTED the first half fails, as `melt_expire_race` shows.

*One process.* Some facts hold only while calls do not overlap, as the CLI
arranges, and are proved under `SoleProcess`. For `DecidedForever` the invariant
says that nobody but the call itself decides its operation (`Working`): from the
reservation to the last write the row is not EXPIRED, and a call about to release
or to write PENDING does not find PAID. For `NoPhantomBalance` it says (`Backed`) that
the one request under way is for proofs that are reserved, that proofs are
released only with no request under way (which late delivery breaks, see
`melt_late`), and that change not stored yet is in no plan. For `Recoverable` it
says (`Restorable`) that outputs which were posted stay stored until their
proofs are: a call on its way to EXPIRED has seen a quote UNPAID and works on a
row that was never executed, and a call posts outputs that its row still has.
Late requests do no harm here: the mint signs only what was posted.

*Balance limit.* `BalanceCap` bounds a sum over the receives whose proofs are held.
It is not inductive, because a receive under way will add to it: the invariant
(`Shares`) bounds the sum over the held ones and those that may still be held
(`Live`: active, and either not past the expiry, or executed, or past the last
look at the clock), and says that only finitely many receives have begun. A
receive joins this set in `PrepareStart` only, behind the test of the limit
(`CountedStep`). A late payment can make an EXPIRED row PAID again, and so `Active`,
but that row is past its expiry and was never executed (`Settled`), and `execute`
stops short of it: it stays out of the sum, rightly.
`Total` is a fold, and no theorem of the library says what a fold computes. The
lemmas about it work on functions that satisfy the fold's equation on the subsets
of a set (`Sums`): two of them agree where both are defined (`SumsAgree`), and a
finite set has one (`SumsExist`), each shown by taking a smallest set for which it
fails. `SmallestSet` gets that from the well-foundedness of strict inclusion on
finite subsets, whose theorems need no operator parameter. `IssuedIsFinal` is a
corollary of `Settled`: no call in progress works on an ISSUED row.

*Balance beside inspection.* `BalanceIsSpendable` is about `SplitMelt` alone. Here
the rows have other writers, so the payment's steps are first reduced to a few
effects (`EffectsOfNext`: mark, plan, reserve, settle, release, accept, pay, fail) and
each fact is shown for these and for what the others do to rows (`Aside`). `Own`
says that a proof which never left the wallet and counts as balance is UNSPENT
at the mint, and that a proof the mint has, the row has or is about to have; it
rests on `Sending` (a request under way is for proofs its operation still
reserves, which needs one process and no late delivery) and on `HonestRows` (a
row says SPENT of such a proof only if a PAID operation spent it, and PAID means
stored change, unless the plan is exact).

*Audit.* After a restore `Own` is lost, and the audit has to find that out. A copy
is wrong about a payment it knows nothing of in two ways: about what the payment
spent, or by missing its change. The invariant (`Tells`, `Traces`) says that the
second never comes alone: while change is missing, some proof of the wallet's own
that the copy has as live, or as change it is expecting, is SPENT at the mint.
Change of exact plans is left out of this (`Loose`, `Taint`): its absence leaves no
such trace. The invariant is kept along chains of payments, where the change of one is spent by the
next. `Reading` says what the audit knows between reading the rows and asking the
mint, however payments go on in between: what it did not read and the rows have
by now was bought with something it did read. Hence if its answer agrees, rows
and mint agreed when it came (`InSync`), and from there on no payment of the
restored wallet, resumed or not, breaks the agreement except while it is
unresolved, which is what the audit counts last.

*Keyset cache.* `HandedIsRecent` is a fact about two clocks. The invariant relates
them: an instance was seen at most `Latency` before it was stamped (`Stamped`), and
an answer under way is not older than that; it holds for every order in which
answers are applied, because the stamp is set by the same step that applies one.
`Held` says that a call past its first load has an instance in hand and one is
cached, and that only a call with a token loads a second time.

*Rates.* Only the asker whose fetch is under way can be named by `inFlight`
(`OneFetch`), everybody who waits awaits that fetch and began no earlier than it
(`Waiter`); the entry that each remembers is therefore still the cached one, which
is `FallbackIsNewest`, and data are not older than their stamp by more than one fetch
(`Worth`, `Recent`).

*Session.* Every command is chained to the one before it (`Chained`), and a promise
resolves only with its line; order, exclusion and the drain follow.

*History.* An operation not shown yet is not on an earlier page, and is either in
what the queries read or beyond the row that says there is more (`Ahead`, in
`HistoryInv`): insertions only push rows to later places, and the `offset + limit +
1` first rows of two tables contain the `offset + limit + 1` first of their union
(by cardinality).

*Composition.* Each part's step is a step of the process or leaves the part alone,
so the parts' theorems carry over without a new invariant. Only `CliViewAdvances`
is about two parts at once: its invariant is that a caller of the cache is a
command at work (`AtWork`), of which there is one by `OneAtATime`, and that the one
answer under way is not older than the view it replaces (`Fits`).

*Refinement.* `Stage` maps the rows, signatures and mint to a stage of `OneShot`.
Each action advances the stage of one intent by one, with the plan unchanged
after `prepare`, or leaves both alone.

**Only model-checked**: the liveness properties `ExecutedIsResolved`,
`PaymentRecorded`, `ChangeRecovered`, `IssuedIsRecorded`, `AskAnswered` and `SessionEnds`, which need
fairness and are outside the prover's logic. Every safety property of a passing
run is a theorem. `SoleProcess` is what the code's CLI arranges (one process with one
command at work, `OneAtATime`); a server, or a second process on the same database,
is outside of it. `~LateDelivery` is not arranged by the code: it is an assumption
about the network, and `melt_late` shows what is lost without it.

## 5. Not modelled, and the plan

- Hashes, signatures, invoices and keys as data; JSON and HTTP schemas; bearer
  authentication; rate limiting; logging; Nostr key conversion. They are functions
  of one input and keep nothing across an await.
- `POST /v1/wallet` and `wallet create`: one insert with a fresh key. Most other
  mutating routes only reject in this fork.
- `sendProofs`, `receiveToken`, `meltProofs`, `saveProofs` and `ensureKeysetsKnown`:
  exported, but nothing calls them any more. Proofs that a send left PENDING
  in an earlier version are `Export` in `WalletSync`.
- `getWalletBalance` reads two sums without a transaction; they are shown and
  nothing is decided on them.
- Start-up: database selection, file permissions, Prisma migrations.
- The regtest harness (`scripts/regtest-*.mjs`), which is test tooling: the faults
  it injects are the models' `Crash`, `AwaitFail` and late requests.

- Answers that carry part of the signed change: the change of an intent is one
  proof, present in an answer or not.

What could still be added: several mints, each with a cached instance of its own (nothing is shared between them); and the
two violated runs of the receive in one instance.
