--------------------------- MODULE WalletSyncProofs ---------------------------
(***************************************************************************)
(* What holds of payments and inspection calls together.                   *)
(*                                                                         *)
(* Any number of processes and calls: inspection does not disturb payments *)
(* made with proofs that never left the wallet.  A proof is PENDING        *)
(* without a reservation only if it was exported, and these are the proofs *)
(* that inspection calls ask about and write.  This holds of the rows and  *)
(* of every copy of them that a restore may put in place, so the invariant *)
(* is stated for rows in general.                                          *)
(*                                                                         *)
(* One process, no late requests: the balance made of such proofs can be   *)
(* spent, and an audit that answers ready is right.  First comes what each *)
(* step of a payment does, in a few kinds (EffectsOfNext), then what rows  *)
(* say of the mint while the wallet is its own (Own, Sending), how a row   *)
(* of a copy gives away what the mint has seen since (Tells), and last     *)
(* what an audit knows between its questions (Auditing).                   *)
(***************************************************************************)
EXTENDS WalletSync, SplitMeltProofs

-----------------------------------------------------------------------------
\* What holds of the rows of operations (state, executions, plan) and of
\* proofs (status, reservation) if the proofs in X were exported.
RowTypes(state, count, plans, status, held) ==
    /\ state \in [Intents -> OpStates]
    /\ count \in [Intents -> Nat]
    /\ plans \in [Intents -> Selections \cup {{}}]
    /\ status \in [Proofs -> {"ABSENT", "UNSPENT", "PENDING", "SPENT"}]
    /\ held \in [Proofs -> Intents \cup {None}]
    /\ \A i \in Intents : state[i] = "NONE" <=> plans[i] = {}

RowFacts(state, count, plans, status, held, X) ==
    /\ \A i \in Intents : /\ count[i] <= 1
                          /\ state[i] \in {"NONE", "PREPARED"} => count[i] = 0
    /\ \A i \in Intents : \A p \in Proofs :
         held[p] = i => count[i] = 1 /\ p \in plans[i]
    /\ \A i \in Intents : \A p \in Proofs :
         (held[p] = i /\ plans[i] \cap X = {}) =>
             /\ state[i] \notin {"PREPARED", "PAID", "UNPAID"}
             /\ \A q \in plans[i] : held[q] = i /\ status[q] = "PENDING"
    /\ \A p \in Proofs : status[p] = "PENDING" /\ held[p] = None => p \in X

Rows == RowFacts(opState, execCount, plan, pstat, resv, exported)

Copied ==
    backup # NoBackup =>
      /\ RowTypes(backup.state, backup.count, backup.plan, backup.status,
                  backup.reserved)
      /\ RowFacts(backup.state, backup.count, backup.plan, backup.status,
                  backup.reserved, exported)

\* An inspection call remembers exported proofs only, unless it is an audit,
\* which writes nothing.
Inspecting ==
    /\ exported \subseteq Token /\ stray \subseteq Proofs
    /\ rpc \in [Readers -> {"idle", "sync", "spent", "unspent", "chkspent",
                            "chkpending", "audit", "count"}]
    /\ rctx \in [Readers -> Seen]
    /\ ready \subseteq Readers
    /\ restored \in BOOLEAN
    /\ \A r \in Readers : rpc[r] = "idle" => rctx[r] = Unseen
    /\ \A r \in Readers : rpc[r] # "audit" =>
         /\ rctx[r].held \subseteq exported
         /\ rctx[r].spent \subseteq exported
         /\ rctx[r].other \subseteq exported

-----------------------------------------------------------------------------
(* Payments                                                                *)

\* Every write of a reserved row is made for the intent that holds it, and
\* what is given up is no longer PENDING.
LEMMA RowsStep ==
    Types /\ Rows /\ [Next]_vars /\ exported' = exported => Rows'
<1> SUFFICES ASSUME Types, Rows, [Next]_vars, exported' = exported
             PROVE  Rows'
  OBVIOUS
<1>0. \A j \in Intents : plan[j] \subseteq Proofs
  BY SelectionsAssumption DEF Types, Tables
<1> USE NoneAssumption DEF Rows, RowFacts
<1>1. ASSUME UNCHANGED <<opState, execCount, plan, pstat, resv>>
      PROVE  Rows'
  BY <1>1
<1>2. ASSUME NEW w \in Procs, PrepareCreate(w) PROVE Rows'
  <2>1. Job(w) \in Intents
    BY <1>2 DEF PrepareCreate, Types, Calls
  <2>2. opState[Job(w)] = "NONE" => \A p \in Proofs : resv[p] # Job(w)
    BY <2>1 DEF Types, Tables
  <2> QED
    BY <1>2, <2>1, <2>2 DEF PrepareCreate, Types, Tables, rowVars
<1>3. ASSUME NEW w \in Procs, Reserve(w) PROVE Rows'
  <2>1. Job(w) \in Intents
    BY <1>3 DEF Reserve, Types, Calls
  <2> DEFINE i == Job(w)
  <2>2. execCount[i] = 0 /\ \A p \in Proofs : resv[p] # i
    BY <1>3, <2>1 DEF Reserve, Executable, Types, Tables
  <2>3. \A p \in plan[i] : resv[p] = None
    BY <1>3, <1>0, <2>1, <2>2 DEF Reserve, Mine, Available, Free, Types, Tables
  <2>4. opState' = [opState EXCEPT ![i] = "EXECUTING"]
        /\ execCount' = [execCount EXCEPT ![i] = 1] /\ plan' = plan
    BY <1>3, <2>1, <2>2 DEF Reserve, Types, Tables
  <2>5. \A p \in Proofs :
           /\ resv'[p] = IF p \in plan[i] THEN i ELSE resv[p]
           /\ pstat'[p] = IF p \in plan[i] THEN "PENDING" ELSE pstat[p]
    BY <1>3 DEF Reserve
  <2> HIDE DEF i
  <2> QED
    BY <1>0, <2>1, <2>2, <2>3, <2>4, <2>5 DEF Types, Tables, i
\* PAID and UNPAID: the planned proofs get one status, and what is reserved
\* and PENDING is given up.
<1>4. ASSUME NEW i \in Intents, NEW s \in {"SPENT", "UNSPENT"},
             NEW t \in {"PAID", "UNPAID"}, plan' = plan, execCount' = execCount,
             opState' = [opState EXCEPT ![i] = t], resv' = Unreserved(i),
             \A p \in plan[i] : pstat[p] = s \/ p \in Mine(i),
             \A p \in plan[i] : pstat'[p] = s,
             \A p \in Proofs \ plan[i] : pstat'[p] \in {pstat[p], "UNSPENT"}
                                       /\ (pstat[p] = "PENDING" => pstat'[p] = "PENDING")
      PROVE  Rows'
  <2>1. \A p \in Proofs : resv'[p] = IF p \in Mine(i) THEN None ELSE resv[p]
    BY <1>4 DEF Unreserved
  <2>2. \A p \in Mine(i) : p \in plan[i] /\ pstat[p] = "PENDING" /\ resv[p] = i
    BY DEF Mine
  <2>3. \A p \in Proofs : pstat[p] = "PENDING" /\ p \notin Mine(i)
                           => p \notin plan[i] /\ pstat'[p] = "PENDING"
    BY <1>4
  <2>4. \A p \in Proofs : pstat'[p] = "PENDING" => pstat[p] = "PENDING" /\ p \notin Mine(i)
    BY <1>4, <2>2
  <2>5. \A j \in Intents \ {i} : opState'[j] = opState[j]
    BY <1>4 DEF Types, Tables
  <2>6. ASSUME NEW p \in Proofs, resv'[p] = i, plan[i] \cap exported = {}
        PROVE  FALSE
    BY <2>1, <2>2, <2>6 DEF Mine
  <2>7. ASSUME NEW j \in Intents, NEW p \in Proofs, resv'[p] = j,
               plan[j] \cap exported = {}
        PROVE  /\ j # i /\ resv[p] = j
               /\ \A q \in plan[j] : q \notin Mine(i)
    BY <1>0, <2>1, <2>2, <2>6, <2>7
  <2>8. \A j \in Intents : \A p \in Proofs :
          resv'[p] = j => execCount[j] = 1 /\ p \in plan[j]
    BY <2>1
  <2>9. \A j \in Intents : opState'[j] \in {"NONE", "PREPARED"} => execCount[j] = 0
    BY <1>4, <2>5 DEF Types, Tables
  <2>10. \A p \in Proofs : pstat'[p] = "PENDING" /\ resv'[p] = None => p \in exported
    BY <2>1, <2>4
  <2> QED
    BY <1>0, <1>4, <2>1, <2>3, <2>5, <2>7, <2>8, <2>9, <2>10
<1>5. ASSUME NEW w \in Procs, Settle(w) PROVE Rows'
  <2>1. Job(w) \in Intents
    BY <1>5 DEF Settle, Types, Calls
  <2> QED
    BY <1>0, <1>4, <1>5, <2>1 DEF Settle
<1>6. ASSUME NEW w \in Procs, Release(w) PROVE Rows'
  <2>1. Job(w) \in Intents
    BY <1>6 DEF Release, Types, Calls
  <2> QED
    BY <1>0, <1>4, <1>6, <2>1 DEF Release
<1>8. ASSUME NEW w \in Procs, MarkPending(w) \/ SetUnknown(w) PROVE Rows'
  <2>1. Job(w) \in Intents
    BY <1>8 DEF MarkPending, SetUnknown, Types, Calls
  <2>2. \A j \in Intents : opState'[j] \in {opState[j], "PENDING", "UNKNOWN"}
    BY <1>8, <2>1 DEF MarkPending, SetUnknown, Types, Tables
  <2>3. UNCHANGED <<execCount, plan, pstat, resv>>
    BY <1>8 DEF MarkPending, SetUnknown, rowVars
  <2> QED
    BY <2>2, <2>3
<1>9. ASSUME NEW w \in Procs, NEW held, Job(w) \in Intents, ExpireWith(w, held)
      PROVE  Rows'
  <2> DEFINE i == Job(w)
  <2>1. \A j \in Intents : opState'[j] \in {opState[j], "EXPIRED", "UNKNOWN"}
    BY <1>9 DEF ExpireWith, Types, Tables
  <2>2. execCount' = execCount /\ plan' = plan
    BY <1>9 DEF ExpireWith
  <2>3. CASE UNCHANGED rowVars
    BY <2>1, <2>2, <2>3 DEF rowVars
  <2>4. CASE ~UNCHANGED rowVars
    <3>1. \A p \in plan[i] : resv[p] = i /\ pstat[p] = "PENDING"
      BY <1>9, <2>4 DEF ExpireWith, Mine
    <3>2. \A p \in Proofs :
             /\ resv'[p] = IF p \in plan[i] THEN None ELSE resv[p]
             /\ pstat'[p] = IF p \in plan[i] THEN "UNSPENT" ELSE pstat[p]
      BY <1>9, <2>4 DEF ExpireWith
    <3>3. ASSUME NEW j \in Intents, NEW p \in Proofs, resv'[p] = j,
                 plan[j] \cap exported = {}
          PROVE  resv[p] = j /\ \A q \in plan[j] : q \notin plan[i]
      BY <1>0, <1>9, <3>1, <3>2, <3>3
    <3> HIDE DEF i
    <3> QED
      BY <1>0, <2>1, <2>2, <3>2, <3>3
  <2> QED
    BY <2>3, <2>4
<1>call. ASSUME NEW w \in Procs, Call(w) PROVE Rows'
  BY <1>call, <1>1, <1>2 DEF Call, PrepareSelect, ExecuteStart, StatusStart,
     Crash, shared, opVars, rowVars
<1>execute. ASSUME NEW w \in Procs, Execute(w) PROVE Rows'
  BY <1>execute, <1>1, <1>3 DEF Execute, ReserveRefused, SendMelt, SendFail,
     MeltReply, Told, AwaitFail, shared, opVars, rowVars
<1>reconcile. ASSUME NEW w \in Procs, Reconcile(w) PROVE Rows'
  BY <1>reconcile, <1>1, <1>5, <1>6, <1>8
  DEF Reconcile, CheckQuote, Told, CheckQuoteBad, CheckProofs, MintUnreachable,
      SettleRefused, ReleaseRefused, shared, opVars, rowVars
<1>expire. ASSUME NEW w \in Procs, ExpirePrepared(w) PROVE Rows'
  <2>1. Job(w) \in Intents
    BY <1>expire DEF ExpirePrepared, ExpireRefused, ExpireAtomic, ExpireRead,
       ExpireCount, ExpireWrite, Types, Calls
  <2> QED
    BY <1>expire, <2>1, <1>1, <1>9
    DEF ExpirePrepared, ExpireRefused, ExpireAtomic, ExpireRead, ExpireCount,
        ExpireWrite, shared, opVars, rowVars
<1>env. ASSUME NEW i \in Intents, Approve(i) \/ Expire(i) \/ Mint(i) PROVE Rows'
  BY <1>env, <1>1 DEF Approve, Expire, Mint, MintAccept, MintRefuse, MintSettle,
     MintFail, opVars, rowVars
<1>idle. ASSUME UNCHANGED vars PROVE Rows'
  BY <1>idle, <1>1 DEF vars, shared, opVars, rowVars
<1> QED
  BY <1>call, <1>execute, <1>reconcile, <1>expire, <1>env, <1>idle DEF Next, Process

-----------------------------------------------------------------------------
(* Inspection calls                                                        *)

Inv == Types /\ Rows /\ Copied /\ Inspecting

\* A status write over exported proofs touches no payment that uses others.
LEMMA WriteStep ==
    ASSUME Types, Rows, Copied, NEW P \in SUBSET exported,
           NEW status \in {"UNSPENT", "PENDING", "SPENT"},
           UpdateStatus(P, status), UNCHANGED OtherVars
    PROVE  Types' /\ Rows' /\ Copied'
<1>1. UNCHANGED <<opState, execCount, plan, resv, approved, expired, quote,
                  mstat, wire, posts, pc, ctx, exported, backup>>
  BY DEF OtherVars, opVars, envVars, mintVars, netVars, procVars, copyVars
<1>2. pstat' = [p \in Proofs |-> IF p \in P /\ pstat[p] # "ABSENT" THEN status
                                 ELSE pstat[p]]
  BY DEF UpdateStatus
<1>3. Types'
  BY <1>1, <1>2 DEF Types, Tables, Calls, Attached, Job
<1>4. Rows'
  BY <1>1, <1>2, SelectionsAssumption DEF Rows, RowFacts, Types, Tables
<1>5. Copied'
  BY <1>1 DEF Copied
<1> QED
  BY <1>3, <1>4, <1>5

\* A step that leaves the rows, the copies and the processes alone.
LEMMA StillStep ==
    ASSUME Types, Rows, Copied, UNCHANGED <<vars, copyVars>>
    PROVE  Types' /\ Rows' /\ Copied'
<1>1. UNCHANGED <<opState, execCount, plan, pstat, resv, approved, expired, quote,
                  mstat, wire, posts, pc, ctx, exported, backup>>
  BY DEF vars, shared, opVars, rowVars, envVars, mintVars, netVars, procVars,
         copyVars
<1> QED
  BY <1>1 DEF Types, Tables, Calls, Attached, Job, Rows, RowFacts, Copied

\* What one call remembers changes; the other calls keep what they know.
LEMMA TurnStep ==
    ASSUME Inspecting, NEW r \in Readers, NEW c \in Seen,
           NEW l \in {"idle", "sync", "spent", "unspent", "chkspent",
                      "chkpending", "audit", "count"},
           Turn(r, l, c), UNCHANGED copyVars, ready' \subseteq Readers,
           l = "idle" => c = Unseen,
           l # "audit" => /\ c.held \subseteq exported
                          /\ c.spent \subseteq exported
                          /\ c.other \subseteq exported
    PROVE  Inspecting'
  BY DEF Inspecting, Turn, copyVars

LEMMA UnseenTyped == /\ Unseen \in Seen /\ Unseen.held = {}
                     /\ Unseen.spent = {} /\ Unseen.other = {}
  BY DEF Unseen, Seen

LEMMA ReaderStep ==
    ASSUME Inv, NEW r \in Readers,
           Sync(r) \/ Check(r) \/ Audit(r) \/ ReadFail(r)
    PROVE  Inv'
<1> USE DEF Inv
<1>1. rctx[r] \in Seen /\ exported \subseteq Proofs
  BY TokenAssumption DEF Inspecting, Funded
<1>2. ASSUME ReadFail(r) PROVE Inv'
  <2>1. ready' \subseteq Readers /\ UNCHANGED copyVars /\ Turn(r, "idle", Unseen)
    BY <1>2 DEF ReadFail, Return, Inspecting
  <2> QED
    BY <1>2, <2>1, UnseenTyped, TurnStep, StillStep DEF ReadFail
<1>3. ASSUME SyncRead(r) PROVE Inv'
  <2> DEFINE c == [Unseen EXCEPT !.held = LoadProofs("PENDING")]
  <2>1. LoadProofs("PENDING") \subseteq exported
    BY DEF LoadProofs, Rows, RowFacts
  <2>2. c \in Seen /\ c.held \subseteq exported /\ c.spent \subseteq exported
        /\ c.other \subseteq exported
    BY <1>1, <2>1 DEF Unseen, Seen
  <2>3. Turn(r, "sync", c) /\ ready' \subseteq Readers /\ UNCHANGED copyVars
    BY <1>3 DEF SyncRead, Inspecting
  <2> HIDE DEF c
  <2> QED
    BY <1>3, <2>2, <2>3, TurnStep, StillStep DEF SyncRead
<1>4. ASSUME SyncAsk(r) PROVE Inv'
  <2> DEFINE c == [Unseen EXCEPT !.spent = Reported(rctx[r].held, "SPENT"),
                                 !.other = Reported(rctx[r].held, "UNSPENT")]
  <2>1. rctx[r].held \subseteq exported
    BY <1>4 DEF SyncAsk, Inspecting
  <2>2. c \in Seen /\ c.held \subseteq exported /\ c.spent \subseteq exported
        /\ c.other \subseteq exported
    BY <1>1, <2>1 DEF Unseen, Seen, Reported
  <2>3. Turn(r, "spent", c) /\ ready' \subseteq Readers /\ UNCHANGED copyVars
    BY <1>4 DEF SyncAsk, Inspecting
  <2> HIDE DEF c
  <2> QED
    BY <1>4, <2>2, <2>3, TurnStep, StillStep DEF SyncAsk
<1>5. ASSUME CheckAsk(r) PROVE Inv'
  <2> DEFINE c == [Unseen EXCEPT !.spent = Reported(exported, "SPENT"),
                                 !.other = Reported(exported, "PENDING")]
  <2>1. c \in Seen /\ c.held \subseteq exported /\ c.spent \subseteq exported
        /\ c.other \subseteq exported
    BY <1>1 DEF Unseen, Seen, Reported
  <2>2. Turn(r, "chkspent", c) /\ ready' \subseteq Readers /\ UNCHANGED copyVars
    BY <1>5 DEF CheckAsk, Inspecting
  <2> HIDE DEF c
  <2> QED
    BY <1>5, <2>1, <2>2, TurnStep, StillStep DEF CheckAsk
\* The four writes.
<1>6. ASSUME WriteSpent(r) \/ CheckSpent(r) PROVE Inv'
  <2> DEFINE c == [rctx[r] EXCEPT !.spent = {}]
  <2>1. /\ rctx[r].held \subseteq exported /\ rctx[r].spent \subseteq exported
        /\ rctx[r].other \subseteq exported
    BY <1>6 DEF WriteSpent, CheckSpent, Inspecting
  <2>2. c \in Seen /\ c.held \subseteq exported /\ c.spent \subseteq exported
        /\ c.other \subseteq exported
    BY <1>1, <2>1 DEF Seen
  <2>3. /\ UpdateStatus(rctx[r].spent, "SPENT") /\ UNCHANGED OtherVars
        /\ Turn(r, "unspent", c) \/ Turn(r, "chkpending", c)
        /\ ready' \subseteq Readers /\ UNCHANGED copyVars
    BY <1>6 DEF WriteSpent, CheckSpent, OtherVars, Inspecting
  <2> HIDE DEF c
  <2>4. Inspecting'
    BY <2>2, <2>3, TurnStep
  <2> QED
    BY <2>1, <2>3, <2>4, WriteStep
<1>7. ASSUME WriteUnspent(r) \/ CheckPending(r) PROVE Inv'
  <2>1. rctx[r].other \subseteq exported
    BY <1>7 DEF WriteUnspent, CheckPending, Inspecting
  <2>2. /\ UNCHANGED OtherVars /\ Turn(r, "idle", Unseen)
        /\ \/ UpdateStatus(rctx[r].other, "UNSPENT")
           \/ UpdateStatus(rctx[r].other, "PENDING")
        /\ ready' \subseteq Readers /\ UNCHANGED copyVars
    BY <1>7 DEF WriteUnspent, CheckPending, OtherVars, Return, Inspecting
  <2>3. Inspecting'
    BY <2>2, UnseenTyped, TurnStep
  <2> QED
    BY <2>1, <2>2, <2>3, WriteStep
\* The audit writes nothing.
<1>8. ASSUME Audit(r) PROVE Inv'
  <2>1. ready' \subseteq Readers /\ UNCHANGED <<vars, copyVars>>
    BY <1>8 DEF Audit, AuditRead, AuditAsk, AuditCount, Inspecting
  <2>2. ASSUME AuditRead(r) PROVE Inspecting'
    <3> DEFINE other == {p \in Stored : pstat[p] = "UNSPENT"}
               clean == \A p \in Stored : pstat[p] # "PENDING" /\ resv[p] = None
               c == [Unseen EXCEPT !.held = Stored, !.other = other,
                                   !.clean = clean]
    <3>1. Stored \subseteq Proofs /\ other \subseteq Proofs
      BY DEF Stored
    <3>2. clean \in BOOLEAN
      OBVIOUS
    <3>3. Turn(r, "audit", c)
      BY <2>2 DEF AuditRead
    <3> HIDE DEF other, clean
    <3>4. c \in Seen
      BY <3>1, <3>2 DEF Unseen, Seen
    <3> HIDE DEF c
    <3> QED
      BY <2>1, <3>3, <3>4, TurnStep
  <2>3. ASSUME AuditAsk(r) PROVE Inspecting'
    <3> DEFINE clean == rctx[r].clean /\ Agrees(rctx[r])
               c == [Unseen EXCEPT !.clean = clean]
    <3>1. clean \in BOOLEAN
      BY <1>1 DEF Seen
    <3>2. Turn(r, "count", c)
      BY <2>3 DEF AuditAsk
    <3> HIDE DEF clean
    <3>3. c \in Seen /\ c.held = {} /\ c.spent = {} /\ c.other = {}
      BY <3>1 DEF Unseen, Seen
    <3> HIDE DEF c
    <3> QED
      BY <2>1, <3>2, <3>3, TurnStep
  <2>4. ASSUME AuditCount(r) PROVE Inspecting'
    BY <2>1, <2>4, UnseenTyped, TurnStep DEF AuditCount, Return
  <2> QED
    BY <1>8, <2>1, <2>2, <2>3, <2>4, StillStep DEF Audit
<1> QED
  BY <1>2, <1>3, <1>4, <1>5, <1>6, <1>7, <1>8 DEF Sync, Check

-----------------------------------------------------------------------------
(* Exports, redemptions, copies                                            *)

LEMMA AroundStep ==
    ASSUME Inv, (\E P \in SUBSET Token : Export(P)) \/ Redeem \/ Backup \/ Restore
    PROVE  Inv'
<1> USE DEF Inv
<1>1. ASSUME NEW P \in SUBSET Token, Export(P) PROVE Inv'
  <2>1. UNCHANGED <<opState, execCount, plan, resv, approved, expired, quote,
                    mstat, wire, posts, pc, ctx, rpc, rctx, ready, stray,
                    backup, restored>>
        /\ exported = {} /\ exported' = P /\ backup = NoBackup
    BY <1>1 DEF Export, opVars, envVars, mintVars, netVars, procVars, readVars
  <2>2. \A i \in Intents : opState[i] = "NONE" /\ plan[i] = {} /\ execCount[i] = 0
    BY <1>1 DEF Export, Types, Tables, Rows, RowFacts
  <2>3. \A p \in Proofs : resv[p] = None
    BY <2>2 DEF Types, Tables, Rows, RowFacts
  <2>4. pstat' = [p \in Proofs |-> IF p \in P /\ pstat[p] # "ABSENT"
                                   THEN "PENDING" ELSE pstat[p]]
    BY <1>1 DEF Export, UpdateStatus
  <2>6. Types'
    BY <2>1, <2>4 DEF Types, Tables, Calls, Attached, Job
  <2>7. Rows'
    BY <2>1, <2>2, <2>3, <2>4, NoneAssumption DEF Rows, RowFacts, Types, Tables
  <2>8. Inspecting'
    BY <2>1 DEF Inspecting
  <2> QED
    BY <2>1, <2>6, <2>7, <2>8 DEF Copied
<1>2. ASSUME Redeem PROVE Inv'
  <2>1. UNCHANGED <<opState, execCount, plan, pstat, resv, approved, expired,
                    quote, wire, posts, pc, ctx, rpc, rctx, ready, exported,
                    stray, backup, restored>>
    BY <1>2 DEF Redeem, opVars, rowVars, envVars, netVars, procVars, readVars,
                copyVars
  <2>2. mstat' \in [Proofs -> Remote \cup {"NONE"}]
    BY <1>2 DEF Redeem, Types, Tables, Remote
  <2>3. Types'
    BY <2>1, <2>2 DEF Types, Tables, Calls, Attached, Job
  <2> QED
    BY <2>1, <2>3 DEF Rows, RowFacts, Copied, Inspecting
<1>3. ASSUME Backup PROVE Inv'
  <2>1. UNCHANGED <<vars, readVars, exported, stray, restored>> /\ backup' = Database
    BY <1>3 DEF Backup
  <2>2. UNCHANGED <<opState, execCount, plan, pstat, resv, approved, expired,
                    quote, mstat, wire, posts, pc, ctx, rpc, rctx, ready>>
    BY <2>1 DEF vars, shared, opVars, rowVars, envVars, mintVars, netVars,
                procVars, readVars
  <2>3. Types' /\ Rows' /\ Inspecting'
    BY <2>1, <2>2 DEF Types, Tables, Calls, Attached, Job, Rows, RowFacts,
                      Inspecting
  <2>4. /\ backup'.state = opState /\ backup'.count = execCount
        /\ backup'.plan = plan /\ backup'.status = pstat
        /\ backup'.reserved = resv
    BY <2>1 DEF Database
  <2>5. Copied'
    BY <2>1, <2>4 DEF Copied, Types, Tables, RowTypes, Rows
  <2> QED
    BY <2>3, <2>5
<1>4. ASSUME Restore PROVE Inv'
  <2>1. /\ opState' = backup.state /\ execCount' = backup.count
        /\ plan' = backup.plan /\ pstat' = backup.status
        /\ resv' = backup.reserved /\ backup # NoBackup
        /\ wire' = {} /\ ready' = {} /\ restored' = TRUE
        /\ pc' = [w \in Procs |-> "idle"] /\ ctx' = [w \in Procs |-> Blank]
        /\ rpc' = [r \in Readers |-> "idle"]
        /\ rctx' = [r \in Readers |-> Unseen]
        /\ UNCHANGED <<approved, expired, quote, mstat, posts, exported, stray,
                        backup>>
    BY <1>4 DEF Restore, envVars, mintVars
  <2>2. Types'
    BY <2>1, BlankTyped
    DEF Copied, RowTypes, Types, Tables, Calls, Attached, Labels
  <2>3. Rows' /\ Copied'
    BY <2>1 DEF Copied, Rows
  <2>4. Inspecting'
    BY <2>1, UnseenTyped DEF Inspecting
  <2> QED
    BY <2>2, <2>3, <2>4
<1> QED
  BY <1>1, <1>2, <1>3, <1>4

-----------------------------------------------------------------------------
LEMMA InvInit == SyncInit => Inv
<1> SUFFICES ASSUME SyncInit PROVE Inv
  OBVIOUS
<1>1. Types
  BY TypesInit DEF SyncInit
<1>2. Rows
  BY NoneAssumption DEF SyncInit, Init, Rows, RowFacts
<1>3. Inspecting
  BY UnseenTyped DEF SyncInit, Inspecting
<1> QED
  BY <1>1, <1>2, <1>3 DEF Inv, Copied, SyncInit

LEMMA InvStep == Inv /\ [SyncNext]_allVars => Inv'
<1> SUFFICES ASSUME Inv, [SyncNext]_allVars PROVE Inv'
  OBVIOUS
<1>1. ASSUME [Next]_vars, UNCHANGED <<readVars, exported, backup, restored>>,
             stray' \subseteq Proofs
      PROVE  Inv'
  <2>1. UNCHANGED <<rpc, rctx, ready, exported, backup, restored>>
    BY <1>1 DEF readVars
  <2>2. Types' /\ Rows'
    BY <1>1, <2>1, CallsStep, TablesStep, AttachedStep, RowsStep DEF Inv, Types
  <2> QED
    BY <1>1, <2>1, <2>2 DEF Inv, Copied, Inspecting
<1>2. CASE Payments
  <2>1. stray' \subseteq Proofs
    BY <1>2, ChangeAssumption DEF Payments, Inv, Inspecting
  <2> QED
    BY <1>1, <1>2, <2>1 DEF Payments
<1>3. CASE UNCHANGED allVars
  BY <1>1, <1>3 DEF allVars, copyVars, Inv, Inspecting
<1> QED
  BY <1>2, <1>3, ReaderStep, AroundStep DEF SyncNext

\* Tables, memory and inspection calls keep their types, for any number of
\* concurrent calls and through a restored copy.
THEOREM InspectionTyped == SyncSpec => []SyncTypeOK
<1>1. Inv => SyncTypeOK
  <2> SUFFICES ASSUME Inv PROVE SyncTypeOK
    OBVIOUS
  <2>1. TypeOK
    BY DEF Inv, Types, Tables, Calls, TypeOK
  <2> QED
    BY <2>1 DEF Inv, Inspecting, SyncTypeOK
<1> QED
  BY InvInit, InvStep, <1>1, PTL DEF SyncSpec

\* Balance queries, token checks and audits, however many at once, never break
\* the reservation of a payment whose proofs were never exported.
THEOREM InspectionHarmless == SyncSpec => []OwnReservation
<1>1. Inv => OwnReservation
  BY DEF Inv, Rows, RowFacts, OwnReservation
<1> QED
  BY InvInit, InvStep, <1>1, PTL DEF SyncSpec

-----------------------------------------------------------------------------
(* One process: what a step of a payment does to rows and to the mint      *)

\* The operation was executed and is not known to be decided.
Owing(state, i) == state[i] \in {"EXECUTING", "PENDING", "UNKNOWN"}

\* The effects that steps of payments have on rows and on the mint.
Rest == <<pstat, resv, quote, mstat>>

Marking ==
    /\ UNCHANGED <<plan, Rest>>
    /\ \A i \in Intents :
         \/ opState'[i] = opState[i]
         \/ opState[i] \notin {"NONE", "PAID"} /\ Owing(opState', i)
         \/ opState[i] = "PREPARED" /\ opState'[i] = "EXPIRED"

Planning(w, i) ==
    /\ pc[w] = "create" /\ Job(w) = i /\ opState[i] = "NONE" /\ plan[i] = {}
    /\ \A j \in Intents : /\ opState'[j] = IF j = i THEN "PREPARED" ELSE opState[j]
                          /\ plan'[j] = IF j = i THEN ctx[w].held ELSE plan[j]
    /\ ctx[w].held # {}
    /\ UNCHANGED Rest

Reserving(i) ==
    /\ opState[i] = "PREPARED"
    /\ \A p \in plan[i] : pstat[p] = "UNSPENT" /\ resv[p] = None
    /\ \A p \in Proofs : /\ pstat'[p] = IF p \in plan[i] THEN "PENDING" ELSE pstat[p]
                         /\ resv'[p] = IF p \in plan[i] THEN i ELSE resv[p]
    /\ \A j \in Intents : opState'[j] = IF j = i THEN "EXECUTING" ELSE opState[j]
    /\ UNCHANGED <<plan, quote, mstat>>

\* The planned proofs get one status and no longer are reserved.
Ending(i, status, state) ==
    /\ \A p \in plan[i] : \/ pstat[p] = status
                          \/ pstat[p] = "PENDING" /\ resv[p] = i
    /\ \A p \in plan[i] : pstat'[p] = status
    /\ \A p \in Proofs : resv'[p] = IF p \in plan[i] /\ pstat[p] = "PENDING"
                                       /\ resv[p] = i THEN None ELSE resv[p]
    /\ \A j \in Intents : opState'[j] = IF j = i THEN state ELSE opState[j]
    /\ UNCHANGED <<plan, quote, mstat>>

\* Change is stored if the answer had it, and the answer had it unless the
\* plan is exact.
Settling(i) ==
    /\ quote[i] = "PAID" /\ plan[i] # {}
    /\ \A p \in Proofs \ plan[i] :
         \/ pstat'[p] = pstat[p]
         \/ /\ p = Change[i] /\ mstat[p] # "NONE"
            /\ pstat[p] = "ABSENT" /\ pstat'[p] = "UNSPENT"
    /\ <<i, plan[i]>> \notin Exact => pstat'[Change[i]] # "ABSENT"
    /\ Ending(i, "SPENT", "PAID")

Releasing(w, i) ==
    /\ pc[w] = "release" /\ Job(w) = i /\ opState[i] # "PAID"
    /\ \A p \in Proofs \ plan[i] : pstat'[p] = pstat[p]
    /\ Ending(i, "UNSPENT", "UNPAID")

\* At the mint: the quote of i and its inputs move, and nothing else but change.
Moving(i, q, s, back) ==
    /\ \A j \in Intents : quote'[j] = IF j = i THEN q ELSE quote[j]
    /\ \A p \in Proofs : mstat'[p] = IF p \in plan[i] THEN s
                                     ELSE IF p \in back THEN "UNSPENT" ELSE mstat[p]
    /\ UNCHANGED <<opState, plan, pstat, resv>>

Accepting(i) ==
    /\ i \in wire /\ quote[i] = "UNPAID" /\ \A p \in plan[i] : mstat[p] = "UNSPENT"
    /\ Moving(i, "PENDING", "PENDING", {})
Paying(i) ==
    /\ quote[i] = "PENDING"
    /\ \E back \in SUBSET {Change[i]} : Moving(i, "PAID", "SPENT", back)
Failing(i) ==
    /\ quote[i] = "PENDING"
    /\ Moving(i, "UNPAID", "UNSPENT", {})

LEMMA EffectsOfNext ==
    ASSUME Types, Rows, Heard, Handed, Working, [Next]_vars
    PROVE  \/ Marking
           \/ \E w \in Procs : \E i \in Intents : Planning(w, i) \/ Releasing(w, i)
           \/ \E i \in Intents : \/ Reserving(i) \/ Settling(i)
                                 \/ Accepting(i) \/ Paying(i) \/ Failing(i)
<1> DEFINE Goal ==
           \/ Marking
           \/ \E w \in Procs : \E i \in Intents : Planning(w, i) \/ Releasing(w, i)
           \/ \E i \in Intents : \/ Reserving(i) \/ Settling(i)
                                 \/ Accepting(i) \/ Paying(i) \/ Failing(i)
<1>still. ASSUME UNCHANGED <<opState, plan, Rest>> PROVE Marking
  BY <1>still DEF Marking
<1>1. ASSUME NEW w \in Procs, PrepareCreate(w) PROVE Goal
  <2>1. Job(w) \in Intents
    BY <1>1 DEF PrepareCreate, Types, Calls
  <2>2. CASE opState[Job(w)] = "NONE"
    <3>1. ctx[w].held # {}
      BY <1>1, SelectionsAssumption DEF PrepareCreate, Types, Calls
    <3>2. Planning(w, Job(w))
      BY <1>1, <2>1, <2>2, <3>1
      DEF PrepareCreate, Planning, Types, Tables, Rest, rowVars, mintVars
    <3> QED
      BY <2>1, <3>2
  <2>3. CASE opState[Job(w)] # "NONE"
    BY <1>1, <1>still, <2>3 DEF PrepareCreate, Rest, rowVars, mintVars
  <2> QED
    BY <2>2, <2>3
<1>2. ASSUME NEW w \in Procs, Reserve(w) PROVE Goal
  <2>1. Job(w) \in Intents
    BY <1>2 DEF Reserve, Types, Calls
  <2>2. execCount[Job(w)] = 0 /\ plan[Job(w)] \subseteq Proofs
    BY <1>2, <2>1, SelectionsAssumption DEF Reserve, Executable, Types, Tables
  <2>3. \A p \in plan[Job(w)] : resv[p] # Job(w)
    BY <2>1, <2>2 DEF Rows, RowFacts
  <2>4. \A p \in plan[Job(w)] : pstat[p] = "UNSPENT" /\ resv[p] = None
    BY <1>2, <2>3 DEF Reserve, Mine, Available, Free
  <2>5. Reserving(Job(w))
    BY <1>2, <2>1, <2>4 DEF Reserve, Executable, Reserving, Types, Tables, mintVars
  <2> QED
    BY <2>1, <2>5
<1>3. ASSUME NEW w \in Procs, Settle(w) PROVE Goal
  <2>1. Job(w) \in Intents /\ quote[Job(w)] = "PAID"
    BY <1>3 DEF Settle, Types, Calls, Heard
  <2>2. plan[Job(w)] \subseteq Proofs
    BY <2>1, SelectionsAssumption DEF Types, Tables
  <2>3. Ending(Job(w), "SPENT", "PAID")
    BY <1>3, <2>1, <2>2
    DEF Settle, Mine, Unreserved, Ending, Types, Tables, mintVars
  <2>4. plan[Job(w)] # {}
    BY <1>3, <2>1 DEF Settle, Types, Tables, Attached
  <2>5. \A p \in ctx[w].change : p = Change[Job(w)] /\ mstat[p] # "NONE"
    BY DEF Handed, Issued
  <2>6. \A p \in Proofs \ plan[Job(w)] :
           \/ pstat'[p] = pstat[p]
           \/ /\ p = Change[Job(w)] /\ mstat[p] # "NONE"
              /\ pstat[p] = "ABSENT" /\ pstat'[p] = "UNSPENT"
    BY <1>3, <2>5 DEF Settle
  <2>7. ASSUME <<Job(w), plan[Job(w)]>> \notin Exact
        PROVE  pstat'[Change[Job(w)]] # "ABSENT"
    <3>1. Change[Job(w)] \in ctx[w].change /\ Change[Job(w)] \in Proofs
      BY <1>3, <2>1, <2>5, <2>7, ChangeAssumption DEF Settle, ReceiptFits
    <3> QED
      BY <1>3, <3>1 DEF Settle
  <2>8. Settling(Job(w))
    BY <2>1, <2>3, <2>4, <2>6, <2>7 DEF Settling
  <2> QED
    BY <2>1, <2>8
<1>4. ASSUME NEW w \in Procs, Release(w) PROVE Goal
  <2>1. Job(w) \in Intents /\ opState[Job(w)] # "PAID"
    BY <1>4 DEF Release, Types, Calls, Working
  <2>2. plan[Job(w)] \subseteq Proofs
    BY <2>1, SelectionsAssumption DEF Types, Tables
  <2>3. Ending(Job(w), "UNSPENT", "UNPAID")
    BY <1>4, <2>1, <2>2
    DEF Release, Mine, Unreserved, Ending, Types, Tables, mintVars
  <2>4. Releasing(w, Job(w))
    BY <1>4, <2>1, <2>3 DEF Release, Releasing
  <2> QED
    BY <2>1, <2>4
<1>5. ASSUME NEW w \in Procs, MarkPending(w) \/ SetUnknown(w) PROVE Marking
  <2>1. Job(w) \in Intents
    BY <1>5 DEF MarkPending, SetUnknown, Types, Calls
  <2>2. opState[Job(w)] # "NONE"
    BY <1>5, <2>1 DEF MarkPending, SetUnknown, Types, Attached
  <2> QED
    BY <1>5, <2>1, <2>2
    DEF MarkPending, SetUnknown, Marking, Owing, Working, Types, Tables, Rest,
        rowVars, mintVars
<1>6. ASSUME NEW w \in Procs, NEW held, ExpireWith(w, held), Job(w) \in Intents,
             opState[Job(w)] = "PREPARED"
      PROVE  Marking
  \* A row in PREPARED holds nothing, and its plan is not empty.
  <2>1. Mine(Job(w)) = {} /\ plan[Job(w)] # {}
    <3>1. plan[Job(w)] # {} /\ plan[Job(w)] \subseteq Proofs
      BY <1>6, SelectionsAssumption DEF Types, Tables
    <3>2. \A p \in plan[Job(w)] : resv[p] # Job(w)
      BY <1>6, <3>1 DEF Rows, RowFacts
    <3> QED
      BY <3>1, <3>2 DEF Mine
  <2>2. UNCHANGED rowVars
    BY <1>6, <2>1 DEF ExpireWith
  <2> QED
    BY <1>6, <2>2 DEF ExpireWith, Marking, Owing, Types, Tables, Rest, rowVars, mintVars
<1>call. ASSUME NEW w \in Procs, Process(w) PROVE Goal
  <2>1. Call(w) => Goal
    BY <1>1, <1>still DEF Call, PrepareSelect, ExecuteStart, StatusStart,
       Crash, shared, opVars, rowVars, mintVars, Rest
  <2>2. Execute(w) => Goal
    BY <1>2, <1>still DEF Execute, ReserveRefused, SendMelt, SendFail,
       MeltReply, Told, AwaitFail, shared, opVars, rowVars, mintVars, Rest
  <2>3. Reconcile(w) => Goal
    BY <1>3, <1>4, <1>5, <1>still
    DEF Reconcile, CheckQuote, Told, CheckQuoteBad, CheckProofs, MintUnreachable,
      SettleRefused, ReleaseRefused, shared, opVars, rowVars, mintVars, Rest
  <2>4. ExpirePrepared(w) => Goal
    <3>1. pc[w] # "idle" => Job(w) \in Intents
      BY DEF Types, Calls
    <3> QED
      BY <3>1, <1>6, <1>still
      DEF ExpirePrepared, ExpireRefused, ExpireAtomic, ExpireRead, ExpireCount,
        ExpireWrite, Executable, Working, shared, opVars, rowVars, mintVars, Rest
  <2> QED
    BY <1>call, <2>1, <2>2, <2>3, <2>4 DEF Process
<1>mint. ASSUME NEW i \in Intents, Mint(i) PROVE Goal
  <2>1. MintAccept(i) => Accepting(i)
    BY DEF MintAccept, MintSet, Accepting, Moving, Types, Tables, opVars, rowVars
  <2>2. ASSUME MintSettle(i) PROVE Paying(i)
    <3>1. PICK back \in SUBSET {Change[i]} :
            mstat' = [p \in Proofs |-> IF p \in plan[i] THEN "SPENT"
                                       ELSE IF p \in back THEN "UNSPENT"
                                       ELSE mstat[p]]
      BY <2>2 DEF MintSettle
    <3>2. /\ quote[i] = "PENDING" /\ UNCHANGED <<opState, plan, pstat, resv>>
          /\ \A j \in Intents : quote'[j] = IF j = i THEN "PAID" ELSE quote[j]
      BY <2>2 DEF MintSettle, Types, Tables, opVars, rowVars
    <3>3. Moving(i, "PAID", "SPENT", back)
      BY <3>1, <3>2 DEF Moving
    <3> QED
      BY <3>2, <3>3 DEF Paying
  <2>3. MintFail(i) => Failing(i)
    BY DEF MintFail, MintSet, Failing, Moving, Types, Tables, opVars, rowVars
  <2>4. MintRefuse(i) => Marking
    BY <1>still DEF MintRefuse, opVars, rowVars, mintVars, Rest
  <2> QED
    BY <1>mint, <2>1, <2>2, <2>3, <2>4 DEF Mint
<1>env. ASSUME NEW i \in Intents, Approve(i) \/ Expire(i) PROVE Goal
  BY <1>env, <1>still DEF Approve, Expire, opVars, rowVars, mintVars, Rest
<1>idle. ASSUME UNCHANGED vars PROVE Goal
  BY <1>idle, <1>still DEF vars, shared, opVars, rowVars, mintVars, Rest
<1> QED
  BY <1>call, <1>mint, <1>env, <1>idle DEF Next

-----------------------------------------------------------------------------
(* One process: what rows, mint and the call under way know of each other  *)

\* The mint, beyond its books: a payment has inputs, and no proof pays twice.
Apart ==
    /\ \A i, j \in Intents : quote[i] = "PAID" /\ quote[j] = "PAID" /\ i # j
         => plan[i] \cap plan[j] = {}
    /\ \A i \in Intents : quote[i] = "PENDING" => plan[i] # {}

Honest(state, plans, status, held) ==
    /\ \A i \in Intents : \A p \in Proofs \ exported :
         held[p] = i => status[p] = "PENDING" /\ Owing(state, i)
    /\ \A p \in Proofs : status[p] = "ABSENT" =>
         p \notin Funded /\ \A i \in Intents : p \notin plans[i]
    /\ \A i \in Intents : state[i] = "PAID" =>
         /\ quote[i] = "PAID"
         /\ \A p \in plans[i] \ exported : status[p] = "SPENT"
         /\ <<i, plans[i]>> \notin Exact => status[Change[i]] # "ABSENT"
    /\ \A p \in Proofs \ exported : status[p] = "SPENT" =>
         \E k \in Intents : p \in plans[k] /\ state[k] = "PAID"
    /\ \A p \in Proofs : status[p] # "ABSENT" => mstat[p] # "NONE"

Sending ==
    /\ \A i \in wire : \E w \in Procs : pc[w] = "await" /\ Job(w) = i
    /\ \A w \in Procs :
         /\ pc[w] \in {"send", "await"} =>
              /\ \A p \in plan[Job(w)] : resv[p] = Job(w)
              /\ Owing(opState, Job(w))
         /\ (pc[w] = "proofs" /\ ctx[w].quote = "UNPAID") \/ pc[w] = "release"
               => quote[Job(w)] = "UNPAID"
         /\ pc[w] = "release" =>
              \A p \in plan[Job(w)] \ exported : mstat[p] = "UNSPENT"
         /\ pc[w] = "create" => \A p \in ctx[w].held : pstat[p] # "ABSENT"

HonestRows == Honest(opState, plan, pstat, resv)

Core == /\ Types /\ Rows /\ NewPlans /\ Ledger /\ Heard /\ Handed /\ Working
        /\ Apart /\ HonestRows /\ Sending

LEMMA PlansTyped ==
    Types => \A i \in Intents : plan[i] \subseteq Proofs /\ Change[i] \in Proofs
  BY SelectionsAssumption, ChangeAssumption DEF Types, Tables

LEMMA ApartStep == Core /\ [Next]_vars => Apart'
<1> SUFFICES ASSUME Core, [Next]_vars PROVE Apart'
  OBVIOUS
<1> USE DEF Core
<1>1. ASSUME Marking PROVE Apart'
  BY <1>1 DEF Marking, Rest, Apart
<1>2. ASSUME NEW w \in Procs, NEW i \in Intents, Planning(w, i) PROVE Apart'
  <2>1. quote[i] = "UNPAID"
    BY <1>2 DEF Planning, NewPlans
  <2> QED
    BY <1>2, <2>1 DEF Planning, Rest, Apart
<1>3. ASSUME NEW w \in Procs, NEW i \in Intents, Releasing(w, i) PROVE Apart'
  BY <1>3 DEF Releasing, Ending, Apart
<1>4. ASSUME NEW i \in Intents, Reserving(i) \/ Settling(i) PROVE Apart'
  BY <1>4 DEF Reserving, Settling, Ending, Apart
<1>5. ASSUME NEW i \in Intents, Accepting(i) PROVE Apart'
  <2>1. PICK w \in Procs : pc[w] = "await" /\ Job(w) = i
    BY <1>5 DEF Accepting, Sending
  <2>2. plan[i] # {}
    BY <2>1 DEF Types, Tables, Attached
  <2> QED
    BY <1>5, <2>2 DEF Accepting, Moving, Apart
<1>6. ASSUME NEW i \in Intents, Paying(i) PROVE Apart'
  BY <1>6 DEF Paying, Moving, Apart, Ledger
<1>7. ASSUME NEW i \in Intents, Failing(i) PROVE Apart'
  BY <1>7 DEF Failing, Moving, Apart
<1> QED
  BY <1>1, <1>2, <1>3, <1>4, <1>5, <1>6, <1>7, EffectsOfNext

\* What the rows say of proofs that never left the wallet.
LEMMA HonestStep ==
    Core /\ [Next]_vars /\ exported' = exported => HonestRows'
<1> SUFFICES ASSUME Core, [Next]_vars, exported' = exported PROVE HonestRows'
  OBVIOUS
<1>plans. \A i \in Intents : plan[i] \subseteq Proofs /\ Change[i] \in Proofs
  BY PlansTyped DEF Core
<1> USE NoneAssumption DEF Core, HonestRows, Honest
<1>1. ASSUME Marking PROVE HonestRows'
  BY <1>1 DEF Marking, Rest, Owing
<1>2. ASSUME NEW w \in Procs, NEW i \in Intents, Planning(w, i) PROVE HonestRows'
  <2>1. \A p \in ctx[w].held : p \in Proofs /\ pstat[p] # "ABSENT"
    BY <1>2, SelectionsAssumption DEF Planning, Sending, Types, Calls
  <2> QED
    BY <1>2, <2>1 DEF Planning, Rest, Owing
<1>3. ASSUME NEW w \in Procs, NEW i \in Intents, Releasing(w, i) PROVE HonestRows'
  <2>1. \A p \in Proofs \ exported : pstat[p] = "SPENT" => p \notin plan[i]
    BY <1>3 DEF Releasing, Ending
  <2>2. \A p \in Proofs \ exported : resv'[p] # i
    BY <1>3 DEF Releasing, Ending, Rows, RowFacts
  <2> QED
    BY <1>plans, <1>3, <2>1, <2>2 DEF Releasing, Ending, Owing
<1>4. ASSUME NEW i \in Intents, Reserving(i) PROVE HonestRows'
  BY <1>plans, <1>4 DEF Reserving, Owing
<1>5. ASSUME NEW i \in Intents, Settling(i) PROVE HonestRows'
  <2>1. \A p \in Proofs \ exported : resv'[p] # i
    BY <1>5 DEF Settling, Ending, Rows, RowFacts
  <2>2. \A p \in Proofs : pstat[p] # "ABSENT" => pstat'[p] # "ABSENT"
    BY <1>5 DEF Settling, Ending
  <2> QED
    BY <1>plans, <1>5, <2>1, <2>2 DEF Settling, Ending, Owing
<1>6. ASSUME NEW i \in Intents, Accepting(i) PROVE HonestRows'
  BY <1>plans, <1>6 DEF Accepting, Moving, Owing
<1>7. ASSUME NEW i \in Intents, Paying(i) PROVE HonestRows'
  BY <1>plans, <1>7 DEF Paying, Moving, Owing
<1>8. ASSUME NEW i \in Intents, Failing(i) PROVE HonestRows'
  BY <1>plans, <1>8 DEF Failing, Moving, Owing, Ledger
<1> QED
  BY <1>1, <1>2, <1>3, <1>4, <1>5, <1>6, <1>7, <1>8, EffectsOfNext

LEMMA SendingStep ==
    SoleProcess /\ ~LateDelivery /\ Core /\ [Next]_vars /\ exported' = exported
      => Sending'
<1> SUFFICES ASSUME SoleProcess, ~LateDelivery, Core, [Next]_vars,
                    exported' = exported
             PROVE  Sending'
  OBVIOUS
<1> USE DEF Core
<1>plans. \A i \in Intents : plan[i] \subseteq Proofs /\ Change[i] \in Proofs
  BY PlansTyped
<1>idle. ASSUME UNCHANGED <<opState, plan, pstat, resv, quote, mstat, pc, ctx>>,
                wire' \subseteq wire
         PROVE  Sending'
  BY <1>idle DEF Sending, Owing, Job
\* Nothing is under way to the mint unless the call awaits its answer.
<1>wire. ASSUME NEW w \in Procs
         PROVE  wire \subseteq {Job(w)} /\ (pc[w] # "await" => wire = {})
  BY DEF SoleProcess, Sending
\* The call ends, or goes on to what the invariant does not speak of.
<1>done. ASSUME NEW w \in Procs, wire' = {},
                pc'[w] \notin {"send", "await", "proofs", "release", "create"}
         PROVE  Sending'
  BY <1>done DEF SoleProcess, Sending
<1>rest. ASSUME NEW w \in Procs, wire' = {},
                UNCHANGED <<plan, pstat, quote, mstat>>,
                pc'[w] \notin {"send", "await"},
                (pc'[w] = "proofs" /\ ctx'[w].quote = "UNPAID") \/ pc'[w] = "release"
                  => quote[ctx'[w].intent] = "UNPAID",
                pc'[w] = "release" =>
                  \A p \in plan[ctx'[w].intent] \ exported : mstat[p] = "UNSPENT",
                pc'[w] = "create" => \A p \in ctx'[w].held : pstat[p] # "ABSENT"
         PROVE  Sending'
  BY <1>rest DEF SoleProcess, Sending, Job
<1>1. ASSUME NEW w \in Procs, Call(w) PROVE Sending'
  <2> USE DEF Types, Calls
  <2>1. ASSUME NEW i \in Intents, ExecuteStart(w, i) \/ StatusStart(w, i)
        PROVE  Sending'
    <3>1. /\ pc[w] = "idle" /\ pc'[w] \in {"expire", "reserve", "quote"}
          /\ wire' = wire
      BY <2>1 DEF ExecuteStart, StatusStart, Begin, shared, netVars
    <3> QED
      BY <1>wire, <1>done, <3>1
  <2>2. ASSUME NEW i \in Intents, NEW S \in Selections, PrepareSelect(w, i, S)
        PROVE  Sending'
    <3>1. /\ pc[w] = "idle" /\ pc'[w] = "create" /\ ctx'[w] = Fresh(i, S)
          /\ UNCHANGED <<plan, pstat, quote, mstat, wire>>
      BY <2>2 DEF PrepareSelect, shared, opVars, rowVars, mintVars, netVars
    <3>2. Fresh(i, S).held = S /\ \A p \in S : pstat[p] # "ABSENT"
      BY <2>2 DEF PrepareSelect, Available, Free, Fresh, Blank
    <3> QED
      BY <1>wire, <1>rest, <3>1, <3>2
  <2>3. ASSUME Crash(w) PROVE Sending'
    <3>1. /\ pc'[w] = "idle" /\ wire' \subseteq wire
          /\ pc[w] = "await" => wire' = wire \ {Job(w)}
      BY <2>3 DEF Crash, Abandon, Done
    <3>2. wire' = {}
      BY <1>wire, <3>1
    <3> QED
      BY <1>done, <3>1, <3>2
  <2>4. ASSUME PrepareCreate(w) PROVE Sending'
    <3>1. pc[w] = "create" /\ pc'[w] = "idle" /\ wire' = wire
      BY <2>4 DEF PrepareCreate, Done, netVars
    <3> QED
      BY <1>wire, <1>done, <3>1
  <2> QED
    BY <1>1, <2>1, <2>2, <2>3, <2>4 DEF Call
<1>2. ASSUME NEW w \in Procs, Execute(w) PROVE Sending'
  <2> USE DEF Types, Calls
  <2>1. ASSUME ReserveRefused(w) \/ SendFail(w) \/ AwaitFail(w)
        PROVE  Sending'
    <3>1. pc'[w] \in {"idle", "quote"}
      BY <2>1 DEF ReserveRefused, SendFail, AwaitFail, Done, Goto
    <3>2. wire' = {}
      BY <2>1, <1>wire DEF ReserveRefused, SendFail, AwaitFail, Abandon,
         shared, netVars
    <3> QED
      BY <1>done, <3>1, <3>2
  <2>2. ASSUME MeltReply(w) PROVE Sending'
    <3>1. /\ pc'[w] = "proofs" /\ ctx'[w].intent = Job(w)
          /\ ctx'[w].quote = quote[Job(w)]
          /\ UNCHANGED <<plan, pstat, quote, mstat>>
      BY <2>2 DEF MeltReply, Told, shared, opVars, rowVars, mintVars, Job, Contexts
    <3>2. wire' = {}
      BY <2>2, <1>wire DEF MeltReply, Told, shared, netVars
    <3> QED
      BY <1>rest, <3>1, <3>2
  <2>3. ASSUME Reserve(w) PROVE Sending'
    <3>1. Job(w) \in Intents /\ pc[w] = "reserve" /\ wire = {}
      BY <2>3, <1>wire DEF Reserve
    <3>2. /\ pc'[w] = "send" /\ Job(w)' = Job(w) /\ wire' = wire /\ plan' = plan
          /\ opState'[Job(w)] = "EXECUTING"
          /\ \A p \in plan[Job(w)] : resv'[p] = Job(w)
      BY <1>plans, <2>3, <3>1 DEF Reserve, Goto, Job, mintVars, netVars, Tables
    <3> HIDE DEF Types, Calls
    <3> QED
      BY <3>1, <3>2 DEF SoleProcess, Sending, Owing
  <2>4. ASSUME SendMelt(w) PROVE Sending'
    <3>1. /\ pc[w] = "send" /\ pc'[w] = "await" /\ Job(w)' = Job(w)
          /\ wire' = wire \cup {Job(w)} /\ UNCHANGED <<opState, plan, resv>>
      BY <2>4 DEF SendMelt, Goto, Job, opVars, rowVars
    <3>2. wire' = {Job(w)}
      BY <1>wire, <3>1
    <3> QED
      BY <3>1, <3>2 DEF SoleProcess, Sending, Owing
  <2> QED
    BY <1>2, <2>1, <2>2, <2>3, <2>4 DEF Execute
<1>3. ASSUME NEW w \in Procs, Reconcile(w) PROVE Sending'
  <2> USE DEF Types, Calls
  <2>1. pc[w] # "await" /\ wire = {} /\ wire' = {}
    BY <1>3, <1>wire DEF Reconcile, CheckQuote, Told, CheckQuoteBad, CheckProofs,
       MintUnreachable, Settle, SettleRefused, Release, ReleaseRefused, MarkPending,
       SetUnknown, shared, netVars
  <2>2. ASSUME CheckProofs(w) PROVE Sending'
    <3>1. /\ pc'[w] \in {"settle", "release", "pend", "unknown"}
          /\ ctx'[w].intent = Job(w) /\ UNCHANGED <<plan, pstat, quote, mstat>>
          /\ pc'[w] = "release" => /\ {mstat[p] : p \in plan[Job(w)]} = {"UNSPENT"}
                                   /\ pc[w] = "proofs" /\ ctx[w].quote = "UNPAID"
      BY <2>2 DEF CheckProofs, Verdict, shared, Job, Contexts, opVars, rowVars,
         mintVars
    <3>2. pc'[w] = "release" => \A p \in plan[Job(w)] : mstat[p] = "UNSPENT"
      BY <3>1
    <3>3. pc'[w] = "release" => quote[Job(w)] = "UNPAID"
      BY <3>1 DEF Sending
    <3> HIDE DEF Types, Calls, Core
    <3> QED
      BY <1>rest, <2>1, <3>1, <3>2, <3>3
  <2>3. ASSUME CheckQuote(w) \/ CheckQuoteBad(w) PROVE Sending'
    <3>1. /\ pc'[w] = "proofs" /\ ctx'[w].intent = Job(w)
          /\ ctx'[w].quote \in {quote[Job(w)], "BAD"}
          /\ UNCHANGED <<plan, pstat, quote, mstat>>
      <4>1. CASE CheckQuote(w)
        BY <4>1 DEF CheckQuote, Told, shared, opVars, rowVars, mintVars, Job,
           Contexts
      <4>2. CASE CheckQuoteBad(w)
        BY <4>2 DEF CheckQuoteBad, shared, opVars, rowVars, mintVars, Job, Contexts
      <4> QED
        BY <2>3, <4>1, <4>2
    <3> QED
      BY <1>rest, <2>1, <3>1
  <2>4. ASSUME \/ MintUnreachable(w) \/ Settle(w) \/ SettleRefused(w)
               \/ Release(w) \/ ReleaseRefused(w) \/ MarkPending(w)
               \/ SetUnknown(w)
        PROVE  Sending'
    <3>1. pc'[w] \in {"idle", "quote", "unknown"}
      BY <2>4 DEF MintUnreachable, Settle, SettleRefused, Release,
         ReleaseRefused, MarkPending, SetUnknown, Throw, Done, Goto
    <3> QED
      BY <1>done, <2>1, <3>1
  <2> QED
    BY <1>3, <2>2, <2>3, <2>4 DEF Reconcile
<1>4. ASSUME NEW w \in Procs, ExpirePrepared(w) PROVE Sending'
  <2>1. wire' = {} /\ pc'[w] \in {"idle", "unknown", "count", "expwrite"}
    BY <1>4, <1>wire DEF ExpirePrepared, ExpireRefused, ExpireAtomic, ExpireRead,
       ExpireCount, ExpireWrite, ExpireWith, Done, Goto, shared, netVars, Types, Calls
  <2> QED
    BY <1>done, <2>1
<1>5. ASSUME NEW i \in Intents, MintAccept(i) PROVE Sending'
  <2>1. PICK w \in Procs : pc[w] = "await" /\ Job(w) = i
    BY <1>5 DEF MintAccept, Sending
  <2>2. UNCHANGED <<opState, plan, pstat, resv, pc, ctx>> /\ wire' \subseteq wire
    BY <1>5 DEF MintAccept, MintSet, opVars, rowVars, procVars
  <2> QED
    BY <2>1, <2>2 DEF SoleProcess, Sending, Owing, Job
<1>6. ASSUME NEW i \in Intents, MintSettle(i) \/ MintFail(i)
      PROVE  Sending'
  <2>1. /\ UNCHANGED <<opState, plan, pstat, resv, pc, ctx, wire>>
        /\ quote[i] = "PENDING"
    BY <1>6 DEF MintSettle, MintFail, opVars, rowVars, netVars, procVars
  <2>2. /\ \A j \in Intents \ {i} : quote'[j] = quote[j]
        /\ \A p \in Proofs \ plan[i] : mstat'[p] \in {mstat[p], "UNSPENT"}
    BY <1>6 DEF MintSettle, MintFail, MintSet, Types, Tables
  <2>3. \A p \in plan[i] : mstat[p] = "PENDING"
    BY <2>1 DEF Ledger
  <2>4. ASSUME NEW w \in Procs, quote[Job(w)] = "UNPAID", pc[w] \in {"proofs", "release"}
        PROVE  quote'[Job(w)] = "UNPAID"
    BY <2>1, <2>2, <2>4 DEF Types, Calls
  <2>5. ASSUME NEW w \in Procs, pc[w] = "release", NEW p \in plan[Job(w)] \ exported
        PROVE  mstat'[p] = "UNSPENT"
    <3>1. Job(w) \in Intents
      BY <2>5 DEF Types, Calls
    <3> QED
      BY <1>plans, <2>2, <2>3, <2>5, <3>1 DEF Sending
  <2> QED
    BY <1>plans, <2>1, <2>4, <2>5 DEF Sending, Owing, Job
<1>7. ASSUME NEW i \in Intents, MintRefuse(i) \/ Approve(i) \/ Expire(i)
      PROVE  Sending'
  <2>1. UNCHANGED <<opState, plan, pstat, resv, quote, mstat, pc, ctx>>
        /\ wire' \subseteq wire
    BY <1>7 DEF MintRefuse, Approve, Expire, opVars, rowVars, mintVars, netVars,
       procVars
  <2> QED
    BY <2>1, <1>idle
<1> QED
  BY <1>1, <1>2, <1>3, <1>4, <1>5, <1>6, <1>7, <1>idle
  DEF Next, Process, Mint, vars, shared, opVars, rowVars, mintVars, netVars, procVars

\* A proof that never left the wallet is worth what the rows say; change that
\* is not stored is that of a payment still to be resolved, or of an exact plan.
Valued(p) ==
    /\ Free(p) => mstat[p] = "UNSPENT"
    /\ pstat[p] = "ABSENT" /\ mstat[p] # "NONE" =>
         /\ mstat[p] = "UNSPENT"
         /\ \E i \in Intents : /\ p = Change[i]
                               /\ Owing(opState, i) \/ <<i, plan[i]>> \in Exact

\* The wallet knows of the payment that the mint is making.
Expected(i) == quote[i] = "PENDING" => Owing(opState, i)

LEMMA ValuedStep ==
    ASSUME Core, [Next]_vars, NEW p \in Proofs, p \notin exported, Valued(p),
           \A i \in Intents : p = Change[i] /\ quote[i] = "PENDING"
                              /\ quote'[i] = "PAID" => Owing(opState, i)
    PROVE  Valued(p)'
<1>plans. \A i \in Intents : plan[i] \subseteq Proofs /\ Change[i] \in Proofs
  BY PlansTyped DEF Core
<1>exact. \A i \in Intents : <<i, plan[i]>> \in Exact => plan[i] # {}
  BY ExactAssumption, SelectionsAssumption
<1> USE NoneAssumption DEF Valued, Free
<1>1. ASSUME Marking PROVE Valued(p)'
  BY <1>1 DEF Marking, Rest, Owing
<1>2. ASSUME NEW w \in Procs, NEW i \in Intents, Planning(w, i) PROVE Valued(p)'
  BY <1>exact, <1>2 DEF Planning, Rest, Owing
<1>3. ASSUME NEW w \in Procs, NEW i \in Intents, Releasing(w, i) PROVE Valued(p)'
  <2>1. quote[i] = "UNPAID" /\ (p \in plan[i] => mstat[p] = "UNSPENT")
    BY <1>3 DEF Releasing, Core, Sending
  <2>2. p # Change[i] \/ mstat[p] = "NONE"
    BY <2>1 DEF Core, Ledger
  <2> QED
    BY <1>3, <2>1, <2>2 DEF Releasing, Ending, Owing
<1>4. ASSUME NEW i \in Intents, Reserving(i) PROVE Valued(p)'
  BY <1>4 DEF Reserving, Owing
<1>5. ASSUME NEW i \in Intents, Settling(i) PROVE Valued(p)'
  BY <1>5 DEF Settling, Ending, Owing
<1>6. ASSUME NEW i \in Intents, Accepting(i) PROVE Valued(p)'
  <2>1. PICK w \in Procs : pc[w] = "await" /\ Job(w) = i
    BY <1>6 DEF Accepting, Core, Sending
  <2>2. p \in plan[i] => resv[p] = i /\ pstat[p] # "ABSENT"
    BY <2>1 DEF Core, Sending, HonestRows, Honest
  <2> QED
    BY <1>6, <2>2 DEF Accepting, Moving, Owing
<1>7. ASSUME NEW i \in Intents, Paying(i) PROVE Valued(p)'
  <2>1. p \in plan[i] => mstat[p] = "PENDING"
    BY <1>7 DEF Paying, Core, Ledger
  <2>2. quote'[i] = "PAID"
    BY <1>7 DEF Paying, Moving
  <2> QED
    BY <1>7, <2>1, <2>2 DEF Paying, Moving, Owing
<1>8. ASSUME NEW i \in Intents, Failing(i) PROVE Valued(p)'
  <2>1. p \in plan[i] => mstat[p] = "PENDING"
    BY <1>8 DEF Failing, Core, Ledger
  <2> QED
    BY <1>8, <2>1 DEF Failing, Moving, Owing
<1> QED
  BY <1>1, <1>2, <1>3, <1>4, <1>5, <1>6, <1>7, <1>8, EffectsOfNext DEF Core

LEMMA ExpectedStep ==
    ASSUME Core, [Next]_vars, NEW i \in Intents, Expected(i)
    PROVE  Expected(i)'
<1> USE DEF Expected
<1>1. ASSUME Marking PROVE Expected(i)'
  BY <1>1 DEF Marking, Rest, Owing
<1>2. ASSUME NEW w \in Procs, NEW j \in Intents, Planning(w, j) PROVE Expected(i)'
  BY <1>2 DEF Planning, Rest, Owing
<1>3. ASSUME NEW w \in Procs, NEW j \in Intents, Releasing(w, j) PROVE Expected(i)'
  BY <1>3 DEF Releasing, Ending, Owing, Core, Sending
<1>4. ASSUME NEW j \in Intents, Reserving(j) \/ Settling(j) PROVE Expected(i)'
  BY <1>4 DEF Reserving, Settling, Ending, Owing
<1>5. ASSUME NEW j \in Intents, Accepting(j) PROVE Expected(i)'
  <2>1. PICK w \in Procs : pc[w] = "await" /\ Job(w) = j
    BY <1>5 DEF Accepting, Core, Sending
  <2>2. Owing(opState, j)
    BY <2>1 DEF Core, Sending
  <2> QED
    BY <1>5, <2>2 DEF Accepting, Moving, Owing
<1>6. ASSUME NEW j \in Intents, Paying(j) \/ Failing(j) PROVE Expected(i)'
  BY <1>6 DEF Paying, Failing, Moving, Owing
<1> QED
  BY <1>1, <1>2, <1>3, <1>4, <1>5, <1>6, EffectsOfNext DEF Core

-----------------------------------------------------------------------------
(* One process: the same beside inspection calls and across a restore      *)

\* What a restore takes back: rows, but never what the mint has seen.
Begun == /\ ~restored => Once
         /\ restored => /\ backup # NoBackup
                        /\ \A w \in Procs : pc[w] # "create"

CopyFacts ==
    backup # NoBackup =>
      /\ Honest(backup.state, backup.plan, backup.status, backup.reserved)
      /\ ~restored => \A i \in Intents : backup.plan[i] \in {{}, plan[i]}

Ground == Inv /\ Ledger /\ Heard /\ Handed /\ Working /\ Apart /\ HonestRows
          /\ Sending /\ Begun /\ CopyFacts

LEMMA GroundCore == Ground => Core
<1> SUFFICES ASSUME Ground PROVE Core
  OBVIOUS
<1>1. restored \in BOOLEAN /\ Types /\ Rows
  BY DEF Ground, Inv, Inspecting
<1>2. NewPlans
  BY <1>1, NewPlansHold DEF Ground, Begun, NewPlans
<1> QED
  BY <1>1, <1>2 DEF Ground, Core

\* The mint takes nothing back.
LEMMA MintGrows ==
    ASSUME Core, [Next]_vars
    PROVE  /\ \A i \in Intents : quote[i] = "PAID" =>
                /\ quote'[i] = "PAID"
                /\ mstat[Change[i]] = "NONE" => mstat'[Change[i]] = "NONE"
           /\ \A p \in Proofs : /\ mstat[p] # "NONE" => mstat'[p] # "NONE"
                                /\ mstat[p] = "SPENT" => mstat'[p] = "SPENT"
<1> DEFINE Goal ==
           /\ \A i \in Intents : quote[i] = "PAID" =>
                /\ quote'[i] = "PAID"
                /\ mstat[Change[i]] = "NONE" => mstat'[Change[i]] = "NONE"
           /\ \A p \in Proofs : /\ mstat[p] # "NONE" => mstat'[p] # "NONE"
                                /\ mstat[p] = "SPENT" => mstat'[p] = "SPENT"
<1>plans. \A i \in Intents : plan[i] \subseteq Proofs /\ Change[i] \in Proofs
  BY PlansTyped DEF Core
<1>1. ASSUME UNCHANGED <<quote, mstat>> PROVE Goal
  BY <1>1
<1>2. ASSUME NEW i \in Intents, Accepting(i) PROVE Goal
  BY <1>plans, <1>2 DEF Accepting, Moving
<1>3. ASSUME NEW i \in Intents, Paying(i) PROVE Goal
  <2>1. \A p \in plan[i] : mstat[p] = "PENDING"
    BY <1>3 DEF Paying, Core, Ledger
  <2>2. mstat[Change[i]] = "NONE"
    BY <1>3 DEF Paying, Core, Ledger
  <2> QED
    BY <1>plans, <1>3, <2>1, <2>2, ChangeAssumption DEF Paying, Moving
<1>4. ASSUME NEW i \in Intents, Failing(i) PROVE Goal
  <2>1. \A p \in plan[i] : mstat[p] = "PENDING"
    BY <1>4 DEF Failing, Core, Ledger
  <2> QED
    BY <1>plans, <1>4, <2>1 DEF Failing, Moving
<1> HIDE DEF Goal
<1>5. Marking => Goal
  BY <1>1 DEF Marking, Rest
<1>6. \A w \in Procs : \A i \in Intents : Planning(w, i) \/ Releasing(w, i) => Goal
  BY <1>1 DEF Planning, Releasing, Ending, Rest
<1>7. \A i \in Intents : Reserving(i) \/ Settling(i) => Goal
  BY <1>1 DEF Reserving, Settling, Ending
<1>8. Goal
  BY <1>2, <1>3, <1>4, <1>5, <1>6, <1>7, EffectsOfNext DEF Core
<1> QED
  BY <1>8 DEF Goal

\* Plans, once made, stay.
LEMMA PlansStay ==
    ASSUME Core, [Next]_vars
    PROVE  \A i \in Intents : plan[i] \in {{}, plan'[i]}
<1>1. ASSUME plan' = plan PROVE \A i \in Intents : plan[i] \in {{}, plan'[i]}
  BY <1>1
<1> QED
  BY <1>1, EffectsOfNext DEF Core, Marking, Planning, Releasing, Reserving, Settling,
     Ending, Accepting, Paying, Failing, Moving

LEMMA GroundPays ==
    ASSUME SoleProcess, ~LateDelivery, Ground, [Next]_vars,
           UNCHANGED <<readVars, exported, backup, restored>>, stray' \subseteq Proofs,
           restored => \A w \in Procs : pc'[w] # "create"
    PROVE  Ground'
<1>1. Core
  BY GroundCore
<1>2. Types' /\ Rows'
  BY <1>1, CallsStep, TablesStep, AttachedStep, RowsStep DEF Core, Types
<1>3. Inv'
  BY <1>2 DEF Ground, Inv, Copied, Inspecting, readVars
<1>4. PaidAtMint
  BY <1>1 DEF Core, HonestRows, Honest, PaidAtMint
<1>5. /\ Ledger' /\ Heard' /\ Handed' /\ Working' /\ Apart' /\ HonestRows'
      /\ Sending'
  BY <1>1, <1>4, LedgerStep, HeardStep, HandedStep, WorkingStep, ApartStep,
     HonestStep, SendingStep DEF Core
<1>6. Begun'
  BY <1>1, OnceStep DEF Core, Ground, Begun
<1>7. CopyFacts'
  <2> SUFFICES ASSUME backup # NoBackup PROVE CopyFacts'
    BY DEF CopyFacts
  <2>1. backup' = backup /\ exported' = exported /\ restored' = restored
    OBVIOUS
  <2>2. Honest(backup.state, backup.plan, backup.status, backup.reserved)'
    BY <1>1, <2>1, MintGrows DEF Ground, CopyFacts, Honest, Owing
  <2>3. (~restored => \A i \in Intents : backup.plan[i] \in {{}, plan[i]})'
    BY <1>1, <2>1, PlansStay DEF Ground, CopyFacts
  <2> QED
    BY <2>2, <2>3 DEF CopyFacts
<1> QED
  BY <1>3, <1>5, <1>6, <1>7 DEF Ground

\* What inspection calls, an export and the receiver of a token do: nothing to
\* proofs that never left the wallet.
Aside ==
    /\ UNCHANGED <<opState, plan, resv, quote, wire, pc, ctx, restored, backup, stray>>
    /\ UNCHANGED <<execCount, approved, posts>>
    /\ exported \subseteq exported' /\ exported' \subseteq Token
    /\ \A p \in Proofs :
         /\ p \notin exported' => pstat'[p] = pstat[p] /\ mstat'[p] = mstat[p]
         /\ pstat'[p] = "ABSENT" <=> pstat[p] = "ABSENT"
         /\ mstat'[p] = "NONE" <=> mstat[p] = "NONE"
         /\ mstat[p] # "UNSPENT" => mstat'[p] = mstat[p]
    /\ exported' # exported => /\ backup = NoBackup
                               /\ \A i \in Intents : plan[i] = {}

LEMMA StatusAside ==
    ASSUME Inv, NEW P \in SUBSET exported, NEW status \in {"UNSPENT", "PENDING", "SPENT"},
           UpdateStatus(P, status), UNCHANGED OtherVars
    PROVE  Aside
<1>1. UNCHANGED <<opState, execCount, plan, resv, approved, quote,
                  mstat, wire, posts, pc, ctx, exported, stray, backup, restored>>
  BY DEF OtherVars, opVars, envVars, mintVars, netVars, procVars, copyVars
<1>2. \A p \in Proofs : pstat'[p] = IF p \in P /\ pstat[p] # "ABSENT" THEN status
                                    ELSE pstat[p]
  BY DEF UpdateStatus
<1>3. exported \subseteq Token
  BY DEF Inv, Inspecting
<1> QED
  BY <1>1, <1>2, <1>3 DEF Aside

LEMMA StillAside == ASSUME Inv, UNCHANGED <<vars, copyVars>> PROVE Aside
  BY DEF Inv, Inspecting, Aside, vars, shared, opVars, rowVars, envVars, mintVars,
     netVars, procVars, copyVars

LEMMA ReaderAside ==
    ASSUME Inv, NEW r \in Readers, Sync(r) \/ Check(r) \/ Audit(r) \/ ReadFail(r)
    PROVE  Aside
<1>1. CASE WriteSpent(r) \/ CheckSpent(r)
  <2>1. rctx[r].spent \subseteq exported
    BY <1>1 DEF WriteSpent, CheckSpent, Inv, Inspecting
  <2> QED
    BY <1>1, <2>1, StatusAside DEF WriteSpent, CheckSpent
<1>2. CASE WriteUnspent(r) \/ CheckPending(r)
  <2>1. rctx[r].other \subseteq exported
    BY <1>2 DEF WriteUnspent, CheckPending, Inv, Inspecting
  <2> QED
    BY <1>2, <2>1, StatusAside DEF WriteUnspent, CheckPending
<1>3. CASE ~(WriteSpent(r) \/ CheckSpent(r) \/ WriteUnspent(r) \/ CheckPending(r))
  BY <1>3, StillAside
  DEF Sync, SyncRead, SyncAsk, Check, CheckAsk, Audit, AuditRead, AuditAsk,
      AuditCount, ReadFail
<1> QED
  BY <1>1, <1>2, <1>3

LEMMA TokenAside ==
    ASSUME Inv, (\E P \in SUBSET Token : Export(P)) \/ Redeem
    PROVE  Aside
<1>1. ASSUME NEW P \in SUBSET Token, Export(P) PROVE Aside
  <2>1. /\ UNCHANGED <<opState, execCount, plan, resv, approved, quote, mstat,
                       wire, posts, pc, ctx, restored, backup, stray>>
        /\ exported = {} /\ exported' = P /\ backup = NoBackup
        /\ \A i \in Intents : opState[i] = "NONE"
    BY <1>1 DEF Export, opVars, envVars, mintVars, netVars, procVars
  <2>2. \A p \in Proofs : pstat'[p] = IF p \in P /\ pstat[p] # "ABSENT"
                                      THEN "PENDING" ELSE pstat[p]
    BY <1>1 DEF Export, UpdateStatus
  <2>3. \A i \in Intents : plan[i] = {}
    BY <2>1 DEF Inv, Types, Tables
  <2> QED
    BY <2>1, <2>2, <2>3 DEF Aside
<1>2. ASSUME Redeem PROVE Aside
  <2>1. /\ UNCHANGED <<opState, execCount, plan, pstat, resv, approved, quote,
                       wire, posts, pc, ctx, restored, backup, exported, stray>>
        /\ \A p \in Proofs : mstat'[p] = IF p \in exported THEN "SPENT" ELSE mstat[p]
        /\ \A p \in exported : mstat[p] = "UNSPENT"
    BY <1>2 DEF Redeem, Reported, opVars, rowVars, envVars, netVars, procVars,
       copyVars
  <2> QED
    BY <2>1 DEF Aside, Inv, Inspecting
<1> QED
  BY <1>1, <1>2

LEMMA GroundAside ==
    ASSUME Ground, Aside, Inv'
    PROVE  Ground'
<1>plans. \A i \in Intents : plan[i] \subseteq Proofs /\ Change[i] \in Proofs
                             /\ Change[i] \notin Token
  BY PlansTyped, TokenAssumption DEF Ground, Inv, Funded
<1>1. Ledger'
  BY <1>plans DEF Ground, Aside, Ledger
<1>2. Heard' /\ Working' /\ Apart' /\ Begun'
  BY DEF Ground, Aside, Heard, Working, Apart, Begun, Once, Job
<1>handed. Handed'
  <2>1. \A w \in Procs : ctx[w].change \subseteq Proofs
    BY DEF Ground, Inv, Types, Calls, Contexts
  <2> QED
    BY <2>1 DEF Ground, Aside, Handed, Issued, Job
<1>3. HonestRows'
  BY <1>plans DEF Ground, Aside, HonestRows, Honest, Owing
<1>4. Sending'
  <2>1. \A w \in Procs : pc[w] = "create" => ctx[w].held \subseteq Proofs
    BY SelectionsAssumption DEF Ground, Inv, Types, Calls
  <2>2. \A w \in Procs : pc[w] = "release" => plan[Job(w)] \subseteq Proofs
    BY <1>plans DEF Ground, Inv, Types, Calls
  <2> QED
    BY <2>1, <2>2 DEF Ground, Aside, Sending, Owing, Job
<1>5. CopyFacts'
  BY <1>plans DEF Ground, Aside, CopyFacts, Honest, Owing
<1> QED
  BY <1>1, <1>2, <1>handed, <1>3, <1>4, <1>5 DEF Ground

LEMMA GroundCopies ==
    ASSUME Ground, Backup \/ Restore, Inv'
    PROVE  Ground'
<1>1. CASE Backup
  <2>1. UNCHANGED <<opState, execCount, plan, pstat, resv, approved, quote, mstat,
                    wire, posts, pc, ctx, exported, restored>>
        /\ backup = NoBackup /\ backup' = Database
    BY <1>1 DEF Backup, vars, shared, opVars, rowVars, envVars, mintVars, netVars,
       procVars
  <2>2. /\ Ledger' /\ Heard' /\ Handed' /\ Working' /\ Apart' /\ Begun' /\ Sending'
        /\ HonestRows'
    BY <2>1 DEF Ground, Ledger, Heard, Handed, Issued, Working, Apart, Begun, Once,
       Sending, HonestRows, Honest, Owing, Job
  <2>3. /\ backup'.state = opState /\ backup'.plan = plan /\ backup'.status = pstat
        /\ backup'.reserved = resv
    BY <2>1 DEF Database
  <2>4. CopyFacts'
    BY <2>1, <2>3 DEF CopyFacts, Ground, HonestRows, Honest, Owing
  <2> QED
    BY <2>2, <2>4 DEF Ground
<1>2. CASE Restore
  <2>1. /\ opState' = backup.state /\ plan' = backup.plan /\ pstat' = backup.status
        /\ resv' = backup.reserved /\ backup # NoBackup /\ ~restored
        /\ wire' = {} /\ restored' = TRUE
        /\ pc' = [w \in Procs |-> "idle"] /\ ctx' = [w \in Procs |-> Blank]
        /\ UNCHANGED <<quote, mstat, exported, backup>>
        /\ \A i \in Intents : quote[i] = "PENDING" => backup.plan[i] = plan[i]
    BY <1>2 DEF Restore, mintVars
  <2>2. \A i \in Intents : plan'[i] \in {{}, plan[i]}
    BY <2>1 DEF Ground, CopyFacts
  <2>3. Ledger' /\ Apart'
    BY <2>1, <2>2 DEF Ground, Ledger, Apart
  <2>4. Heard' /\ Handed' /\ Working' /\ Begun' /\ Sending'
    BY <2>1 DEF Heard, Handed, Working, Begun, Sending, Blank
  <2>5. HonestRows'
    BY <2>1 DEF Ground, CopyFacts, HonestRows, Honest, Owing
  <2>6. CopyFacts'
    BY <2>1 DEF Ground, CopyFacts, Honest, Owing
  <2> QED
    BY <2>3, <2>4, <2>5, <2>6 DEF Ground
<1> QED
  BY <1>1, <1>2

LEMMA GroundInit == SyncInit => Ground
<1> SUFFICES ASSUME SyncInit PROVE Ground
  OBVIOUS
<1>1. Inv /\ Init /\ Once
  BY InvInit, OnceInit DEF SyncInit
<1>2. Ledger /\ Heard /\ Handed
  BY <1>1, PaidInit
<1>3. Working /\ Apart /\ Sending /\ Begun
  BY <1>1, WorkingInit DEF Init, SyncInit, Apart, Sending, Begun
<1>4. HonestRows
  BY <1>1, NoneAssumption DEF Init, HonestRows, Honest, Funded
<1> QED
  BY <1>1, <1>2, <1>3, <1>4 DEF Ground, CopyFacts, SyncInit

LEMMA PaymentsGround ==
    ASSUME SoleProcess, ~LateDelivery, Ground, Payments
    PROVE  Ground'
<1>1. stray' \subseteq Proofs
  BY ChangeAssumption DEF Payments, Ground, Inv, Inspecting
<1> QED
  BY <1>1, GroundPays DEF Payments

\* The three kinds of step beside payments.
LEMMA SyncKinds ==
    ASSUME Inv, [SyncNext]_allVars
    PROVE  Payments \/ Aside \/ Backup \/ Restore
<1>1. UNCHANGED allVars => Aside
  BY StillAside DEF allVars
<1> QED
  BY <1>1, ReaderAside, TokenAside DEF SyncNext

LEMMA GroundStep ==
    SoleProcess /\ ~LateDelivery /\ Ground /\ [SyncNext]_allVars => Ground'
<1> SUFFICES ASSUME SoleProcess, ~LateDelivery, Ground, [SyncNext]_allVars
             PROVE  Ground'
  OBVIOUS
<1>1. Inv /\ Inv'
  BY InvStep DEF Ground
<1> QED
  BY <1>1, SyncKinds, PaymentsGround, GroundAside, GroundCopies

-----------------------------------------------------------------------------
(* The balance of proofs that never left                                   *)

Own == ~restored => /\ \A p \in Proofs \ exported : Valued(p)
                    /\ \A i \in Intents : Expected(i)

LEMMA OwnStep == Ground /\ Own /\ [SyncNext]_allVars => Own'
<1> SUFFICES ASSUME Ground, Own, [SyncNext]_allVars, ~restored' PROVE Own'
  BY DEF Own
<1>1. Core /\ Inv
  BY GroundCore DEF Ground
<1>2. CASE Payments
  <2>1. /\ [Next]_vars /\ exported' = exported /\ ~restored
    BY <1>2 DEF Payments
  <2>2. ASSUME NEW p \in Proofs \ exported PROVE Valued(p)'
    BY <1>1, <2>1, ValuedStep DEF Own, Expected
  <2>3. ASSUME NEW i \in Intents PROVE Expected(i)'
    BY <1>1, <2>1, ExpectedStep DEF Own
  <2> QED
    BY <2>1, <2>2, <2>3 DEF Own
<1>3. CASE Aside
  BY <1>3 DEF Aside, Own, Valued, Expected, Free, Owing
<1>4. CASE Backup
  BY <1>4 DEF Backup, vars, shared, opVars, rowVars, mintVars, Own, Valued,
     Expected, Free, Owing
<1>5. CASE Restore
  BY <1>5 DEF Restore
<1> QED
  BY <1>1, <1>2, <1>3, <1>4, <1>5, SyncKinds

LEMMA OwnInit == SyncInit => Own
  BY DEF SyncInit, Init, Own, Valued, Expected, Free, Funded

\* With one process and no late requests: until a copy is restored, the balance
\* made of proofs that never left the wallet can be spent at the mint, whatever
\* inspection calls write beside the payments.
THEOREM OwnBalanceStaysReal ==
    ASSUME SoleProcess, ~LateDelivery
    PROVE  SyncSpec => []OwnBalanceReal
<1>1. Ground /\ [SyncNext]_allVars => Ground'
  BY GroundStep
<1>2. Own => OwnBalanceReal
  BY DEF Own, Valued, OwnBalanceReal
<1> QED
  BY GroundInit, OwnInit, OwnStep, <1>1, <1>2, PTL DEF SyncSpec

-----------------------------------------------------------------------------
(* Audits                                                                  *)

\* The rows may lack the change of this payment unnoticed: its plan has doubtful
\* proofs alone, or is exact.
Loose(i) == plan[i] \subseteq Doubtful \/ <<i, plan[i]>> \in Exact

\* Change of such a payment is doubtful.
Taint ==
    \A i \in Intents : quote[i] = "PAID" /\ plan[i] # {} /\ Loose(i)
                       => Change[i] \in Doubtful

\* The rows give away what the mint has seen since they were copied: where
\* change is missing and even its payment is unknown, some proof that never
\* left is spent that no row knows to be spent.
Tells(status, plans, q) ==
    /\ q \in Proofs \ Doubtful /\ mstat[q] = "SPENT"
    /\ \A k \in Intents : q \in plans[k] => quote[k] # "PAID"
    /\ \/ status[q] \in {"UNSPENT", "PENDING"}
       \/ status[q] = "ABSENT" /\ \E k \in Intents : q = Change[k] /\ plans[k] # {}

Telling(status, plans) ==
    \A i \in Intents :
        /\ Change[i] \notin Doubtful /\ status[Change[i]] = "ABSENT"
        /\ mstat[Change[i]] # "NONE" /\ plans[i] = {}
        => \E q \in Proofs : Tells(status, plans, q)

Traces == /\ restored => Telling(pstat, plan)
          /\ backup # NoBackup /\ ~restored => Telling(backup.status, backup.plan)

\* The rows agree with the mint, as far as proofs are concerned that are not
\* doubtful, except for payments that are still to be resolved.
InSync == /\ \A p \in Proofs \ Doubtful : Valued(p)
          /\ \A i \in Intents : Expected(i) \/ plan[i] \subseteq Doubtful

\* What an audit of a restored copy knows between its two questions.
Reading(r) ==
    LET c == rctx[r] IN
    /\ \A p \in c.held \ exported : p \notin c.other => pstat[p] = "SPENT"
    /\ \A i \in Intents : plan[i] \subseteq c.held
    /\ \A p \in Proofs \ Doubtful : pstat[p] # "ABSENT" /\ p \notin c.held =>
         \E q \in c.other : mstat[q] = "SPENT"

Auditing ==
    \A r \in Readers : rctx[r].clean =>
        /\ rpc[r] = "audit" /\ restored => Reading(r)
        /\ rpc[r] = "count" => InSync

\* What becomes doubtful did not exist before.
LEMMA DoubtGrows ==
    ASSUME Core, Payments
    PROVE  /\ exported' = exported /\ Doubtful \subseteq Doubtful'
           /\ \A p \in Doubtful' : p \in Doubtful \/ mstat[p] = "NONE"
           /\ \A i \in Intents : /\ quote[i] # "PAID" /\ quote'[i] = "PAID"
                                 /\ Loose(i)
                                 => Change[i] \in Doubtful'
<1>1. /\ exported' = exported
      /\ stray' = stray \cup
           {Change[i] : i \in {j \in Intents : /\ quote[j] # "PAID" /\ quote'[j] = "PAID"
                                               /\ Loose(j)}}
  BY DEF Payments, Loose
<1>2. \A i \in Intents : quote[i] # "PAID" => mstat[Change[i]] = "NONE"
  BY DEF Core, Ledger
<1> QED
  BY <1>1, <1>2 DEF Doubtful

\* How quotes and plans move together.
LEMMA QuotesMove ==
    ASSUME Core, [Next]_vars
    PROVE  /\ \A i \in Intents : quote[i] # "UNPAID" => plan'[i] = plan[i]
           /\ \A i \in Intents : quote[i] # "PAID" /\ quote'[i] = "PAID" =>
                quote[i] = "PENDING" /\ \A p \in plan[i] : mstat'[p] = "SPENT"
           /\ \A i \in Intents : plan'[i] = plan[i] \/ quote'[i] = "UNPAID"
<1> DEFINE Goal ==
           /\ \A i \in Intents : quote[i] # "UNPAID" => plan'[i] = plan[i]
           /\ \A i \in Intents : quote[i] # "PAID" /\ quote'[i] = "PAID" =>
                quote[i] = "PENDING" /\ \A p \in plan[i] : mstat'[p] = "SPENT"
           /\ \A i \in Intents : plan'[i] = plan[i] \/ quote'[i] = "UNPAID"
<1>plans. \A i \in Intents : plan[i] \subseteq Proofs
  BY PlansTyped DEF Core
<1>1. ASSUME UNCHANGED <<plan, quote>> PROVE Goal
  BY <1>1
<1>2. ASSUME NEW w \in Procs, NEW i \in Intents, Planning(w, i) PROVE Goal
  <2>1. quote[i] = "UNPAID"
    BY <1>2 DEF Planning, Core, NewPlans
  <2> QED
    BY <1>2, <2>1 DEF Planning, Rest
<1>3. ASSUME NEW i \in Intents, Accepting(i) \/ Failing(i) PROVE Goal
  BY <1>3 DEF Accepting, Failing, Moving
<1>4. ASSUME NEW i \in Intents, Paying(i) PROVE Goal
  BY <1>plans, <1>4 DEF Paying, Moving
<1> HIDE DEF Goal
<1>5. Goal
  BY <1>1, <1>2, <1>3, <1>4, EffectsOfNext
  DEF Core, Marking, Rest, Releasing, Reserving, Settling, Ending
<1> QED
  BY <1>5 DEF Goal

LEMMA TaintStep == Ground /\ Taint /\ [SyncNext]_allVars => Taint'
<1> SUFFICES ASSUME Ground, Taint, [SyncNext]_allVars PROVE Taint'
  OBVIOUS
<1>1. Core /\ Inv
  BY GroundCore DEF Ground
<1>2. CASE Payments
  <2>1. ASSUME NEW i \in Intents, quote'[i] = "PAID", plan'[i] # {}, Loose(i)'
        PROVE  Change[i] \in Doubtful'
    <3>1. [Next]_vars
      BY <1>2 DEF Payments
    <3>2. quote[i] \in {"PENDING", "PAID"} /\ plan'[i] = plan[i]
      BY <1>1, <2>1, <3>1, QuotesMove
    <3>3. \A p \in plan[i] : mstat[p] # "NONE"
      BY <1>1, <3>2 DEF Core, Ledger
    <3>4. Loose(i)
      BY <1>1, <1>2, <2>1, <3>2, <3>3, DoubtGrows DEF Loose
    <3> QED
      BY <1>1, <1>2, <2>1, <3>2, <3>4, DoubtGrows DEF Taint
  <2> QED
    BY <2>1 DEF Taint
<1>3. CASE Aside
  BY <1>3 DEF Aside, Taint, Loose, Doubtful
<1>4. CASE Backup
  BY <1>4 DEF Backup, vars, shared, opVars, mintVars, Taint, Loose,
     Doubtful
<1>5. CASE Restore
  <2>1. \A i \in Intents : plan'[i] \in {{}, plan[i]}
    BY <1>5 DEF Restore, Ground, CopyFacts
  <2> QED
    BY <1>5, <2>1 DEF Restore, mintVars, Taint, Loose, Doubtful
<1> QED
  BY <1>1, <1>2, <1>3, <1>4, <1>5, SyncKinds

\* Before a copy is restored the rows agree with the mint.
LEMMA OwnInSync == Ground /\ Own /\ ~restored => InSync
  BY DEF Own, InSync, Doubtful

LEMMA InSyncStep ==
    ASSUME Ground, InSync, Payments \/ Aside \/ Backup
    PROVE  InSync'
<1>1. Core
  BY GroundCore
<1>2. CASE Payments
  <2>1. [Next]_vars
    BY <1>2 DEF Payments
  <2>2. ASSUME NEW p \in Proofs \ Doubtful' PROVE Valued(p)'
    <3>1. p \notin Doubtful /\ p \notin exported
      BY <1>1, <1>2, <2>2, DoubtGrows DEF Doubtful
    <3>2. ASSUME NEW i \in Intents, p = Change[i], quote[i] = "PENDING",
                 quote'[i] = "PAID"
          PROVE  Owing(opState, i)
      BY <1>1, <1>2, <2>2, <3>2, DoubtGrows DEF InSync, Expected, Loose
    <3> QED
      BY <1>1, <2>1, <3>1, <3>2, ValuedStep DEF InSync
  <2>3. ASSUME NEW i \in Intents PROVE (Expected(i) \/ plan[i] \subseteq Doubtful)'
    <3>1. CASE Expected(i)
      BY <1>1, <2>1, <3>1, ExpectedStep
    <3>2. CASE plan[i] \subseteq Doubtful
      BY <1>1, <1>2, <2>1, <3>2, QuotesMove, DoubtGrows DEF Expected
    <3> QED
      BY <3>1, <3>2 DEF InSync
  <2> QED
    BY <2>2, <2>3 DEF InSync
<1>3. CASE Aside
  <2>1. Doubtful \subseteq Doubtful' /\ exported' \subseteq Doubtful'
    BY <1>3 DEF Aside, Doubtful
  <2>2. ASSUME NEW p \in Proofs \ Doubtful' PROVE Valued(p)'
    BY <1>3, <2>1, <2>2 DEF Aside, InSync, Valued, Free, Owing
  <2>3. ASSUME NEW i \in Intents PROVE (Expected(i) \/ plan[i] \subseteq Doubtful)'
    BY <1>3, <2>1 DEF Aside, InSync, Expected, Owing
  <2> QED
    BY <2>2, <2>3 DEF InSync
<1>4. CASE Backup
  BY <1>4 DEF Backup, vars, shared, opVars, rowVars, mintVars, InSync, Valued,
     Expected, Free, Owing, Doubtful
<1> QED
  BY <1>2, <1>3, <1>4

\* A restored wallet makes no new plan.
LEMMA RestoredPlans == ASSUME Ground, restored, [Next]_vars PROVE plan' = plan
<1>1. Core
  BY GroundCore
<1> QED
  BY <1>1, EffectsOfNext
  DEF Core, Ground, Begun, Marking, Planning, Releasing, Reserving, Settling,
     Ending, Accepting, Paying, Failing, Moving

\* A telltale proof goes on to tell: in a copy, while payments go on.
LEMMA TellsInCopy ==
    ASSUME Ground, Payments, ~restored, backup # NoBackup, NEW q,
           Tells(backup.status, backup.plan, q)
    PROVE  Tells(backup.status, backup.plan, q)'
<1>1. Core /\ [Next]_vars /\ backup' = backup
  BY GroundCore DEF Payments
<1>2. q \in Proofs \ Doubtful' /\ mstat'[q] = "SPENT"
  BY <1>1, MintGrows, DoubtGrows DEF Tells
<1>3. ASSUME NEW k \in Intents, q \in backup.plan[k] PROVE quote'[k] # "PAID"
  <2>1. q \in plan[k]
    BY <1>3 DEF Ground, CopyFacts
  <2>2. quote[k] # "PENDING" /\ quote[k] # "PAID"
    BY <1>1, <1>3, <2>1 DEF Tells, Core, Ledger
  <2> QED
    BY <1>1, <2>2, QuotesMove
<1> QED
  BY <1>1, <1>2, <1>3 DEF Tells

\* The same in the rows of a restored copy.
LEMMA TellsInRows ==
    ASSUME Ground, Payments, restored, NEW q, Tells(pstat, plan, q)
    PROVE  Tells(pstat, plan, q)'
<1>1. Core /\ [Next]_vars
  BY GroundCore DEF Payments
<1>2. q \in Proofs \ Doubtful' /\ mstat'[q] = "SPENT"
  BY <1>1, MintGrows, DoubtGrows DEF Tells
<1>3. plan' = plan
  BY <1>1, RestoredPlans
<1>4. ASSUME NEW k \in Intents, q \in plan[k] PROVE quote'[k] # "PAID"
  <2>1. quote[k] # "PENDING" /\ quote[k] # "PAID"
    BY <1>1, <1>4 DEF Tells, Core, Ledger
  <2> QED
    BY <1>1, <2>1, QuotesMove
<1>5. pstat[q] \in {"UNSPENT", "PENDING"} => pstat'[q] \in {"UNSPENT", "PENDING"}
  <2>1. ASSUME NEW i \in Intents, Settling(i)
        PROVE  q \notin plan[i]
    BY <2>1 DEF Settling, Tells
  <2> QED
    BY <1>1, <2>1, EffectsOfNext
    DEF Core, Tells, Marking, Rest, Planning, Releasing, Reserving, Settling, Ending,
        Accepting, Paying, Failing, Moving
<1>6. pstat[q] = "ABSENT" => pstat'[q] \in {"ABSENT", "UNSPENT"}
  <2>1. pstat[q] = "ABSENT" => \A i \in Intents : q \notin plan[i]
    BY <1>1 DEF Core, HonestRows, Honest, Tells
  <2> QED
    BY <1>1, <2>1, EffectsOfNext
    DEF Core, Tells, Marking, Rest, Planning, Releasing, Reserving, Settling, Ending,
        Accepting, Paying, Failing, Moving
<1> QED
  BY <1>2, <1>3, <1>4, <1>5, <1>6 DEF Tells

\* Rows are not deleted, and what a payment has spent stays spent.
LEMMA RowsGrow ==
    ASSUME Core, [Next]_vars
    PROVE  \A p \in Proofs : /\ pstat[p] # "ABSENT" => pstat'[p] # "ABSENT"
                             /\ pstat[p] = "SPENT" => pstat'[p] = "SPENT"
<1> DEFINE Goal == \A p \in Proofs :
                             /\ pstat[p] # "ABSENT" => pstat'[p] # "ABSENT"
                             /\ pstat[p] = "SPENT" => pstat'[p] = "SPENT"
<1>1. ASSUME UNCHANGED pstat PROVE Goal
  BY <1>1
<1>2. ASSUME NEW w \in Procs, NEW i \in Intents, Releasing(w, i) PROVE Goal
  BY <1>2 DEF Releasing, Ending
<1>3. ASSUME NEW i \in Intents, Reserving(i) PROVE Goal
  BY <1>3 DEF Reserving
<1>4. ASSUME NEW i \in Intents, Settling(i) PROVE Goal
  BY <1>4 DEF Settling, Ending
<1> HIDE DEF Goal
<1>5. Goal
  BY <1>1, <1>2, <1>3, <1>4, EffectsOfNext
  DEF Core, Marking, Rest, Planning, Accepting, Paying, Failing, Moving
<1> QED
  BY <1>5 DEF Goal

\* Change appears where a payment is settled at the mint.
LEMMA ChangeAppears ==
    ASSUME Core, [Next]_vars, NEW i \in Intents, mstat[Change[i]] = "NONE",
           mstat'[Change[i]] # "NONE"
    PROVE  quote[i] = "PENDING" /\ quote'[i] = "PAID"
<1>plans. \A j \in Intents : plan[j] \subseteq Proofs /\ Change[j] \in Proofs
  BY PlansTyped DEF Core
<1>1. \A j \in Intents : Change[i] \notin plan[j]
  BY <1>plans DEF Core, HonestRows, Honest
<1>2. ASSUME NEW j \in Intents, Paying(j) PROVE i = j
  BY <1>plans, <1>1, <1>2, ChangeAssumption DEF Paying, Moving
<1>3. \E j \in Intents : Paying(j)
  BY <1>plans, <1>1, EffectsOfNext
  DEF Core, Marking, Rest, Planning, Releasing, Reserving, Settling, Ending,
      Accepting, Failing, Moving
<1> QED
  BY <1>2, <1>3 DEF Paying, Moving

LEMMA TellingInCopy ==
    ASSUME Ground, Payments, ~restored, backup # NoBackup,
           Telling(backup.status, backup.plan)
    PROVE  Telling(backup.status, backup.plan)'
<1>1. Core /\ [Next]_vars /\ backup' = backup /\ Types
  BY GroundCore DEF Payments, Core
<1>plans. \A j \in Intents : plan[j] \subseteq Proofs /\ Change[j] \in Proofs
  BY <1>1, PlansTyped
<1>copy. /\ Honest(backup.state, backup.plan, backup.status, backup.reserved)
         /\ \A i \in Intents : backup.plan[i] \in {{}, plan[i]}
         /\ backup.status \in [Proofs -> {"ABSENT", "UNSPENT", "PENDING", "SPENT"}]
  BY DEF Ground, CopyFacts, Inv, Copied, RowTypes
<1> SUFFICES ASSUME NEW i \in Intents, Change[i] \notin Doubtful',
                    backup.status[Change[i]] = "ABSENT",
                    mstat'[Change[i]] # "NONE", backup.plan[i] = {}
             PROVE  \E q \in Proofs : Tells(backup.status, backup.plan, q)'
  BY <1>1 DEF Telling
<1>2. ASSUME NEW k \in Intents, Change[k] \notin Doubtful,
             backup.status[Change[k]] = "ABSENT", mstat[Change[k]] # "NONE",
             backup.plan[k] = {}
      PROVE  \E q \in Proofs : Tells(backup.status, backup.plan, q)'
  BY <1>2, TellsInCopy DEF Telling
<1>3. CASE mstat[Change[i]] # "NONE"
  BY <1>1, <1>2, <1>3, DoubtGrows
\* The payment has just been made: one of its proofs tells, or another does.
<1>4. CASE mstat[Change[i]] = "NONE"
  <2>1. quote[i] = "PENDING" /\ quote'[i] = "PAID"
    BY <1>1, <1>4, ChangeAppears
  <2>2. ~(plan[i] \subseteq Doubtful)
    BY <1>1, <2>1, DoubtGrows DEF Loose
  <2>3. PICK q \in plan[i] : q \notin Doubtful
    BY <2>2
  <2>4. q \in Proofs /\ mstat[q] = "PENDING" /\ mstat'[q] = "SPENT"
    BY <1>1, <1>plans, <2>1, QuotesMove DEF Core, Ledger
  <2>5. q \notin Doubtful'
    BY <1>1, <2>3, <2>4, DoubtGrows
  <2>6. ASSUME NEW k \in Intents, q \in backup.plan[k]
        PROVE  quote[k] # "PAID" /\ quote'[k] # "PAID"
    <3>1. q \in plan[k] /\ k # i
      BY <1>copy, <2>6
    <3>2. quote[k] # "PAID"
      BY <1>1, <2>4, <3>1 DEF Core, Ledger
    <3>3. quote[k] # "PENDING"
      BY <1>1, <2>1, <2>3, <3>1 DEF Core, Ledger
    <3> QED
      BY <1>1, <3>2, <3>3, QuotesMove
  <2>7. CASE backup.status[q] \in {"UNSPENT", "PENDING"}
    BY <1>1, <2>4, <2>5, <2>6, <2>7 DEF Tells
  <2>8. ASSUME backup.status[q] = "SPENT" PROVE FALSE
    <3>1. PICK k \in Intents : q \in backup.plan[k] /\ backup.state[k] = "PAID"
      BY <1>copy, <2>3, <2>4, <2>8 DEF Honest, Doubtful
    <3> QED
      BY <1>copy, <2>6, <3>1 DEF Honest
  <2>9. CASE backup.status[q] = "ABSENT"
    <3>1. PICK k \in Intents : q = Change[k]
      BY <1>copy, <2>4, <2>9 DEF Honest, Funded
    <3>2. CASE backup.plan[k] # {}
      BY <1>1, <2>4, <2>5, <2>6, <2>9, <3>1, <3>2 DEF Tells
    <3>3. CASE backup.plan[k] = {}
      BY <1>2, <2>3, <2>4, <2>9, <3>1, <3>3
    <3> QED
      BY <3>2, <3>3
  <2> QED
    BY <1>copy, <2>4, <2>7, <2>8, <2>9
<1> QED
  BY <1>3, <1>4

LEMMA TellingInRows ==
    ASSUME Ground, Payments, restored, Telling(pstat, plan)
    PROVE  Telling(pstat, plan)'
<1>1. Core /\ [Next]_vars
  BY GroundCore DEF Payments
<1>2. plan' = plan
  BY <1>1, RestoredPlans
<1> SUFFICES ASSUME NEW i \in Intents, Change[i] \notin Doubtful',
                    pstat'[Change[i]] = "ABSENT", mstat'[Change[i]] # "NONE",
                    plan[i] = {}
             PROVE  \E q \in Proofs : Tells(pstat, plan, q)'
  BY <1>2 DEF Telling
<1>3. pstat[Change[i]] = "ABSENT"
  BY <1>1, RowsGrow, ChangeAssumption
<1>4. mstat[Change[i]] # "NONE"
  BY <1>1, ChangeAppears DEF Core, Apart
<1>5. Change[i] \notin Doubtful
  BY <1>1, DoubtGrows
<1>6. PICK q \in Proofs : Tells(pstat, plan, q)
  BY <1>3, <1>4, <1>5 DEF Telling
<1> QED
  BY <1>6, TellsInRows

LEMMA TracesStep == Ground /\ Own /\ Traces /\ [SyncNext]_allVars => Traces'
<1> SUFFICES ASSUME Ground, Own, Traces, [SyncNext]_allVars PROVE Traces'
  OBVIOUS
<1>1. Inv /\ restored \in BOOLEAN
  BY DEF Ground, Inv, Inspecting
<1>2. CASE Payments
  BY <1>2, TellingInCopy, TellingInRows DEF Traces, Payments
<1>3. CASE Aside
  <2>1. \A i \in Intents : Change[i] \in Proofs /\ Change[i] \notin Token
    BY ChangeAssumption, TokenAssumption DEF Funded
  <2>2. CASE backup # NoBackup
    <3>1. /\ backup' = backup /\ restored' = restored /\ quote' = quote /\ plan' = plan
          /\ exported' = exported /\ Doubtful' = Doubtful /\ exported \subseteq Token
      BY <1>1, <1>3, <2>2 DEF Aside, Doubtful, Inv, Inspecting
    <3>2. \A p \in Proofs : /\ p \notin exported => pstat'[p] = pstat[p]
                            /\ mstat'[p] = "NONE" <=> mstat[p] = "NONE"
                            /\ mstat[p] = "SPENT" => mstat'[p] = "SPENT"
      BY <1>3, <3>1 DEF Aside
    <3>3. \A i \in Intents : pstat'[Change[i]] = pstat[Change[i]]
      BY <2>1, <3>1, <3>2
    <3>4. ASSUME NEW q, Tells(pstat, plan, q) PROVE Tells(pstat, plan, q)'
      BY <3>1, <3>2, <3>4 DEF Tells, Doubtful
    <3>5. ASSUME NEW q, Tells(backup.status, backup.plan, q)
          PROVE  Tells(backup.status, backup.plan, q)'
      BY <3>1, <3>2, <3>5 DEF Tells
    <3>6. Telling(pstat, plan) => Telling(pstat, plan)'
      BY <2>1, <3>1, <3>2, <3>3, <3>4 DEF Telling
    <3>7. Telling(backup.status, backup.plan) => Telling(backup.status, backup.plan)'
      BY <2>1, <3>1, <3>2, <3>5 DEF Telling
    <3> QED
      BY <3>1, <3>6, <3>7 DEF Traces
  <2>3. CASE backup = NoBackup
    BY <1>3, <2>3 DEF Aside, Traces, Ground, Begun
  <2> QED
    BY <2>2, <2>3
<1>4. CASE Backup
  <2>1. /\ backup = NoBackup /\ backup' = Database /\ restored' = restored
        /\ UNCHANGED <<opState, plan, pstat, quote, mstat, exported, stray>>
    BY <1>4 DEF Backup, vars, shared, opVars, rowVars, mintVars
  <2>2. ~restored
    BY <2>1 DEF Ground, Begun
  <2>3. backup'.status = pstat /\ backup'.plan = plan
    BY <2>1 DEF Database
  <2>4. ASSUME NEW i \in Intents, Change[i] \notin Doubtful,
               pstat[Change[i]] = "ABSENT", mstat[Change[i]] # "NONE"
        PROVE  plan[i] # {}
    <3>1. Valued(Change[i])
      BY <2>2, <2>4, ChangeAssumption DEF Own, Doubtful
    <3>2. Owing(opState, i) \/ <<i, plan[i]>> \in Exact
      BY <2>4, <3>1, ChangeAssumption DEF Valued
    <3> QED
      BY <1>1, <3>2, ExactAssumption, SelectionsAssumption
      DEF Owing, Inv, Types, Tables
  <2>5. Telling(backup.status, backup.plan)'
    BY <2>1, <2>3, <2>4 DEF Telling, Doubtful
  <2> QED
    BY <2>1, <2>2, <2>5 DEF Traces
<1>5. CASE Restore
  <2>1. /\ pstat' = backup.status /\ plan' = backup.plan /\ backup # NoBackup
        /\ ~restored /\ restored' /\ UNCHANGED <<quote, mstat, exported, stray>>
    BY <1>5 DEF Restore, mintVars
  <2>2. Telling(pstat, plan)'
    BY <2>1 DEF Traces, Telling, Tells, Doubtful
  <2> QED
    BY <2>1, <2>2 DEF Traces
<1> QED
  BY <1>1, <1>2, <1>3, <1>4, <1>5, SyncKinds

\* A restored copy on which the audit's two answers agree is in step with the
\* mint: change that is missing would have been given away.
LEMMA AgreedInSync ==
    ASSUME Ground, Taint, Telling(pstat, plan), NEW r \in Readers,
           Reading(r), Agrees(rctx[r])
    PROVE  InSync
<1>1. Core /\ Inv /\ Types
  BY GroundCore DEF Ground, Inv
<1>plans. \A j \in Intents : plan[j] \subseteq Proofs /\ Change[j] \in Proofs
  BY <1>1, PlansTyped
<1> DEFINE c == rctx[r]
\* The mint reports what is not stored as UNSPENT as SPENT, and all of the
\* rest as UNSPENT.
<1>2. \A p \in c.held : IF p \in c.other THEN mstat[p] = "UNSPENT"
                                         ELSE mstat[p] = "SPENT"
  BY DEF Agrees, Reported
<1>3. \A p \in c.other : mstat[p] = "UNSPENT"
  BY DEF Agrees, Reported
<1>4. \A p \in Proofs \ Doubtful : pstat[p] # "ABSENT" => p \in c.held
  BY <1>3 DEF Reading
<1>5. \A p \in Proofs \ Doubtful : p \in c.held /\ mstat[p] = "SPENT"
                                   => pstat[p] = "SPENT"
  BY <1>3 DEF Reading, Doubtful
<1> HIDE DEF c
\* What a payment of the wallet has spent is recorded, and its change stored.
<1>6. ASSUME NEW i \in Intents, plan[i] # {}, mstat[Change[i]] # "NONE",
             Change[i] \notin Doubtful
      PROVE  pstat[Change[i]] # "ABSENT"
  <2>1. quote[i] = "PAID"
    BY <1>1, <1>6 DEF Core, Ledger
  <2>2. PICK q \in plan[i] : q \notin Doubtful
    BY <1>6, <2>1 DEF Taint, Loose
  <2>3. q \in Proofs /\ q \in c.held /\ mstat[q] = "SPENT"
    BY <1>1, <1>plans, <2>1, <2>2 DEF Core, Ledger, Reading, c
  <2>4. pstat[q] = "SPENT"
    BY <1>5, <2>2, <2>3
  <2>5. PICK k \in Intents : q \in plan[k] /\ opState[k] = "PAID"
    BY <1>1, <2>2, <2>3, <2>4 DEF Core, HonestRows, Honest, Doubtful
  <2>6. quote[k] = "PAID"
    BY <1>1, <2>5 DEF Core, HonestRows, Honest
  <2>7. k = i
    BY <1>1, <2>1, <2>2, <2>5, <2>6 DEF Core, Apart
  <2> QED
    BY <1>1, <1>6, <2>1, <2>5, <2>7 DEF Core, HonestRows, Honest, Taint, Loose
<1>7. ASSUME NEW p \in Proofs \ Doubtful PROVE Valued(p)
  <2>1. Free(p) => mstat[p] = "UNSPENT"
    BY <1>2, <1>4, <1>5, <1>7 DEF Free
  <2>2. ASSUME pstat[p] = "ABSENT", mstat[p] # "NONE" PROVE FALSE
    <3>1. PICK i \in Intents : p = Change[i]
      BY <1>1, <2>2 DEF Core, HonestRows, Honest, Funded
    <3>2. plan[i] = {}
      BY <1>6, <1>7, <2>2, <3>1
    <3>3. PICK q \in Proofs : Tells(pstat, plan, q)
      BY <1>7, <2>2, <3>1, <3>2 DEF Telling
    <3>4. pstat[q] = "ABSENT"
      BY <1>4, <1>5, <3>3 DEF Tells
    <3>5. PICK k \in Intents : q = Change[k] /\ plan[k] # {}
      BY <3>3, <3>4 DEF Tells
    <3> QED
      BY <1>6, <3>3, <3>4, <3>5 DEF Tells
  <2> QED
    BY <2>1, <2>2 DEF Valued
<1>8. ASSUME NEW i \in Intents PROVE Expected(i)
  <2>1. ASSUME quote[i] = "PENDING" PROVE FALSE
    <3>1. PICK q \in plan[i] : mstat[q] = "PENDING"
      BY <1>1, <2>1 DEF Core, Apart, Ledger
    <3>2. q \in c.held
      BY <3>1 DEF Reading, c
    <3> QED
      BY <1>2, <3>1, <3>2
  <2> QED
    BY <2>1 DEF Expected
<1> QED
  BY <1>7, <1>8 DEF InSync

\* While payments go on beside an audit of a restored copy, its knowledge holds.
LEMMA ReadingStep ==
    ASSUME Ground, Taint, restored, NEW r \in Readers, Reading(r),
           rctx[r].held \subseteq Proofs, Payments \/ Aside, rctx'[r] = rctx[r]
    PROVE  Reading(r)'
<1>1. Core /\ Inv
  BY GroundCore DEF Ground
<1>plans. \A j \in Intents : plan[j] \subseteq Proofs /\ Change[j] \in Proofs
  BY <1>1, PlansTyped DEF Core
<1>2. CASE Payments
  <2>1. [Next]_vars /\ exported' = exported
    BY <1>2 DEF Payments
  <2>2. plan' = plan
    BY <2>1, RestoredPlans
  <2>3. ASSUME NEW p \in rctx[r].held \ exported, p \notin rctx[r].other
        PROVE  pstat'[p] = "SPENT"
    BY <1>1, <2>1, <2>3, RowsGrow DEF Reading
  <2>4. ASSUME NEW p \in Proofs \ Doubtful', pstat'[p] # "ABSENT", p \notin rctx[r].held
        PROVE  \E q \in rctx[r].other : mstat'[q] = "SPENT"
    <3>1. p \notin Doubtful
      BY <1>1, <1>2, <2>4, DoubtGrows
    <3>2. ASSUME NEW q \in rctx[r].other, mstat[q] = "SPENT"
          PROVE  mstat'[q] = "SPENT"
      <4>1. q \in Proofs
        BY <1>1, <3>2 DEF Inv, Inspecting, Seen
      <4> QED
        BY <1>1, <2>1, <3>2, <4>1, MintGrows
    <3>3. CASE pstat[p] # "ABSENT"
      BY <2>4, <3>1, <3>2, <3>3 DEF Reading
    \* Change was stored just now: its payment spent a proof that was read.
    <3>4. CASE pstat[p] = "ABSENT"
      <4>1. PICK i \in Intents : /\ quote[i] = "PAID" /\ plan[i] # {}
                                 /\ p = Change[i] /\ mstat[p] # "NONE"
        <5>1. \A j \in Intents : p \notin plan[j]
          BY <1>1, <3>4 DEF Core, HonestRows, Honest
        <5> QED
          BY <1>1, <2>1, <2>4, <3>4, <5>1, EffectsOfNext
          DEF Core, Marking, Rest, Planning, Releasing, Reserving, Settling, Ending,
              Accepting, Paying, Failing, Moving
      <4>2. PICK q \in plan[i] : q \notin Doubtful
        BY <3>1, <4>1 DEF Taint, Loose
      <4>3. q \in Proofs /\ q \in rctx[r].held /\ mstat[q] = "SPENT"
        BY <1>1, <1>plans, <4>1, <4>2 DEF Core, Ledger, Reading
      <4>4. q \in rctx[r].other
        <5>1. SUFFICES ASSUME q \notin rctx[r].other PROVE FALSE
          OBVIOUS
        <5>2. pstat[q] = "SPENT"
          BY <4>2, <4>3, <5>1 DEF Reading, Doubtful
        <5>3. PICK k \in Intents : q \in plan[k] /\ opState[k] = "PAID"
          BY <1>1, <4>2, <4>3, <5>2 DEF Core, HonestRows, Honest, Doubtful
        <5>4. k = i
          BY <1>1, <4>1, <4>2, <5>3 DEF Core, HonestRows, Honest, Apart
        <5> QED
          BY <1>1, <3>1, <3>4, <4>1, <5>3, <5>4
          DEF Core, HonestRows, Honest, Taint, Loose
      <4> QED
        BY <3>2, <4>3, <4>4
    <3> QED
      BY <3>3, <3>4
  <2> QED
    BY <2>1, <2>2, <2>3, <2>4 DEF Reading
<1>3. CASE Aside
  <2>1. /\ plan' = plan /\ exported' = exported /\ Doubtful' = Doubtful
    BY <1>3 DEF Aside, Ground, Begun, Doubtful
  <2>2. rctx[r].other \subseteq Proofs
    BY <1>1 DEF Inv, Inspecting, Seen
  <2> QED
    BY <1>3, <2>1, <2>2 DEF Aside, Reading
<1> QED
  BY <1>2, <1>3

\* An inspection call moves alone; which calls go on to audit and to count.
LEMMA ReaderMoves ==
    ASSUME Inv, [SyncNext]_allVars, NEW r \in Readers
    PROVE  \/ rpc'[r] = rpc[r] /\ rctx'[r] = rctx[r] /\ ~Restore
           \/ rpc'[r] \notin {"audit", "count"}
           \/ AuditRead(r) \/ AuditAsk(r)
<1>1. rpc \in [Readers -> {"idle", "sync", "spent", "unspent", "chkspent",
                           "chkpending", "audit", "count"}]
      /\ rctx \in [Readers -> Seen]
  BY DEF Inv, Inspecting
<1>2. CASE Restore
  BY <1>2 DEF Restore
<1>3. CASE UNCHANGED readVars /\ ~Restore
  BY <1>3 DEF readVars
<1>4. ASSUME NEW x \in Readers, Sync(x) \/ Check(x) \/ ReadFail(x) \/ AuditCount(x),
             ~Restore
      PROVE  \/ rpc'[r] = rpc[r] /\ rctx'[r] = rctx[r]
             \/ rpc'[r] \notin {"audit", "count"}
  BY <1>1, <1>4
  DEF Sync, SyncRead, SyncAsk, WriteSpent, WriteUnspent, Check, CheckAsk, CheckSpent,
      CheckPending, AuditCount, ReadFail, Return, Turn
<1>5. ASSUME NEW x \in Readers, AuditRead(x) \/ AuditAsk(x), ~Restore
      PROVE  \/ rpc'[r] = rpc[r] /\ rctx'[r] = rctx[r]
             \/ AuditRead(r) \/ AuditAsk(r)
  BY <1>1, <1>5 DEF AuditRead, AuditAsk, Turn
<1> QED
  BY <1>2, <1>3, <1>4, <1>5
  DEF SyncNext, Payments, Audit, Export, Redeem, Backup, allVars

LEMMA AuditingStep ==
    Ground /\ Own /\ Taint /\ Traces /\ Auditing /\ [SyncNext]_allVars => Auditing'
<1> SUFFICES ASSUME Ground, Own, Taint, Traces, Auditing, [SyncNext]_allVars,
                    NEW r \in Readers, rctx'[r].clean
             PROVE  /\ rpc'[r] = "audit" /\ restored' => Reading(r)'
                    /\ rpc'[r] = "count" => InSync'
  BY DEF Auditing
<1>1. Core /\ Inv /\ Types
  BY GroundCore DEF Ground, Inv
<1>2. CASE rpc'[r] = rpc[r] /\ rctx'[r] = rctx[r] /\ ~Restore
  <2>1. Payments \/ Aside \/ Backup
    BY <1>1, <1>2, SyncKinds
  <2>2. ASSUME rpc[r] = "count" PROVE InSync'
    BY <1>2, <2>1, <2>2, InSyncStep DEF Auditing
  <2>3. ASSUME rpc[r] = "audit", restored' PROVE Reading(r)'
    <3>1. restored /\ (Payments \/ Aside)
      BY <2>1, <2>3 DEF Payments, Aside, Backup, Ground, Begun
    <3>2. rctx[r].held \subseteq Proofs
      BY <1>1 DEF Inv, Inspecting, Seen
    <3> QED
      BY <1>2, <2>3, <3>1, <3>2, ReadingStep DEF Auditing
  <2> QED
    BY <1>2, <2>2, <2>3
<1>3. CASE AuditRead(r)
  <2>1. /\ rpc'[r] = "audit" /\ UNCHANGED <<plan, pstat, resv, mstat, exported, stray>>
        /\ rctx'[r].held = Stored
        /\ rctx'[r].other = {p \in Stored : pstat[p] = "UNSPENT"}
        /\ rctx'[r].clean = \A p \in Stored : pstat[p] # "PENDING" /\ resv[p] = None
    BY <1>1, <1>3 DEF AuditRead, Turn, Unseen, vars, shared, opVars, rowVars, mintVars,
       copyVars, Inv, Inspecting
  <2>2. \A p \in Stored : pstat[p] \in {"UNSPENT", "SPENT"}
    <3>1. \A p \in Stored : pstat[p] # "PENDING" /\ resv[p] = None
      BY <2>1, Zenon
    <3> QED
      BY <1>1, <3>1 DEF Stored, Types, Tables
  <2>3. \A i \in Intents : plan[i] \subseteq Stored
    BY <1>1, PlansTyped DEF Core, HonestRows, Honest, Stored
  <2>4. Reading(r)'
    BY <2>1, <2>2, <2>3 DEF Reading, Stored
  <2> QED
    BY <2>1, <2>4
<1>4. CASE AuditAsk(r)
  <2>1. /\ rpc[r] = "audit" /\ rpc'[r] = "count" /\ UNCHANGED <<vars, copyVars>>
        /\ rctx[r].clean /\ Agrees(rctx[r])
    BY <1>1, <1>4 DEF AuditAsk, Turn, Unseen, Inv, Inspecting
  <2>2. InSync
    <3>1. CASE ~restored
      BY <3>1, OwnInSync
    <3>2. CASE restored
      BY <2>1, <3>2, AgreedInSync DEF Auditing, Traces
    <3> QED
      BY <3>1, <3>2
  <2>3. InSync'
    BY <2>1, <2>2 DEF vars, shared, opVars, rowVars, mintVars, copyVars, InSync, Valued,
       Expected, Free, Owing, Doubtful
  <2> QED
    BY <2>1, <2>3
<1> QED
  BY <1>1, <1>2, <1>3, <1>4, ReaderMoves

LEMMA AuditsInit == SyncInit => Taint /\ Traces /\ Auditing
<1> SUFFICES ASSUME SyncInit PROVE Taint /\ Traces /\ Auditing
  OBVIOUS
<1>1. \A r \in Readers : ~rctx[r].clean
  BY DEF SyncInit, Unseen
<1> QED
  BY <1>1 DEF SyncInit, Init, Taint, Traces, Auditing

\* Which answers a step may give.
Answers ==
    \A r \in Readers : r \in ready' \ ready =>
        \A p \in Proofs \ Doubtful :
            /\ resv[p] = None
            /\ pstat[p] = IF mstat[p] = "NONE" THEN "ABSENT" ELSE mstat[p]

LEMMA AnswersRight ==
    Ground /\ Taint /\ Auditing /\ [SyncNext]_allVars => [Answers]_allVars
<1> SUFFICES ASSUME Ground, Taint, Auditing, [SyncNext]_allVars, NEW r \in Readers,
                    r \in ready' \ ready, NEW p \in Proofs \ Doubtful
             PROVE  /\ resv[p] = None
                    /\ pstat[p] = IF mstat[p] = "NONE" THEN "ABSENT" ELSE mstat[p]
  BY DEF Answers
<1>1. Core /\ Inv /\ Types /\ Rows
  BY GroundCore DEF Ground, Inv
\* Only the last step of a call that is clean answers "ready".
<1>2. AuditCount(r) /\ rctx[r].clean /\ Unresolved = {}
  <2>1. ASSUME NEW x \in Readers, AuditCount(x)
        PROVE  x = r /\ rctx[r].clean /\ Unresolved = {}
    BY <2>1 DEF AuditCount
  <2>2. \E x \in Readers : AuditCount(x)
    BY DEF SyncNext, Payments, Sync, SyncRead, SyncAsk, WriteSpent, WriteUnspent, Check,
       CheckAsk, CheckSpent, CheckPending, Audit, AuditRead, AuditAsk, ReadFail, Export,
       Redeem, Backup, Restore, readVars, allVars
  <2> QED
    BY <2>1, <2>2
<1>3. InSync
  BY <1>2 DEF AuditCount, Auditing
<1>4. \A i \in Intents : ~Owing(opState, i)
  BY <1>2 DEF Unresolved, Owing
<1>5. p \notin exported
  BY DEF Doubtful
<1>6. resv[p] = None
  BY <1>1, <1>4, <1>5 DEF Core, HonestRows, Honest, Types, Tables
<1>7. pstat[p] \in {"ABSENT", "UNSPENT", "SPENT"}
  BY <1>1, <1>5, <1>6 DEF Rows, RowFacts, Types, Tables
<1>8. CASE pstat[p] = "UNSPENT"
  BY <1>3, <1>6, <1>8 DEF InSync, Valued, Free
<1>9. CASE pstat[p] = "ABSENT"
  <2>1. ASSUME mstat[p] # "NONE" PROVE FALSE
    <3>1. PICK i \in Intents : p = Change[i] /\ <<i, plan[i]>> \in Exact
      BY <1>3, <1>4, <1>9, <2>1 DEF InSync, Valued
    <3>2. quote[i] = "PAID" /\ plan[i] # {}
      BY <1>1, <2>1, <3>1, ExactAssumption, SelectionsAssumption DEF Core, Ledger
    <3> QED
      BY <3>1, <3>2 DEF Taint, Loose
  <2> QED
    BY <1>6, <1>9, <2>1
<1>10. CASE pstat[p] = "SPENT"
  <2>1. PICK k \in Intents : p \in plan[k] /\ opState[k] = "PAID"
    BY <1>1, <1>5, <1>10 DEF Core, HonestRows, Honest
  <2>2. quote[k] = "PAID"
    BY <1>1, <2>1 DEF Core, HonestRows, Honest
  <2>3. mstat[p] = "SPENT"
    BY <1>1, <2>1, <2>2 DEF Core, Ledger
  <2> QED
    BY <1>6, <1>10, <2>3
<1> QED
  BY <1>6, <1>7, <1>8, <1>9, <1>10

\* With one process and no late requests, an audit answers "ready" only when
\* rows and mint agree on every proof that payments had to spend or to bring,
\* however many payments the restored copy has missed and whatever other
\* inspection calls and payments do between its reads and its questions.  It is
\* not proved of proofs that left the wallet, of change that stems from such
\* proofs alone or from an exact plan, or of what was received after the copy
\* was made: there the audit may be wrong.
THEOREM ReadyIsRight ==
    ASSUME SoleProcess, ~LateDelivery
    PROVE  SyncSpec => AuditSound
<1>1. Ground /\ [SyncNext]_allVars => Ground'
  BY GroundStep
<1> QED
  BY GroundInit, OwnInit, OwnStep, TaintStep, TracesStep, AuditsInit, AuditingStep,
     AnswersRight, <1>1, PTL
  DEF SyncSpec, AuditSound, Answers
=============================================================================
