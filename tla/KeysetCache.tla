----------------------------- MODULE KeysetCache -----------------------------
(***************************************************************************)
(* The cache of mint keysets in src/services/walletService.ts: getWallet,  *)
(* refreshKeysets and decodeToken, called by several requests at once.     *)
(*                                                                         *)
(* One cached wallet instance serves everybody.  It holds the keysets that *)
(* the mint listed when it was last loaded and is bound to one of them,    *)
(* with which it makes outputs.  The mint replaces its active keyset, and  *)
(* keysets expire, at any time.  An answer of the mint is given (MintGives)*)
(* before it is applied, so two loads of one instance may be applied in    *)
(* the other order.  Ages are counted in ticks and stop at a cap beyond    *)
(* every comparison.                                                       *)
(***************************************************************************)
EXTENDS Naturals, FiniteSets

CONSTANTS
    Callers,    \* calls that may be under way at once
    MaxKeyset,  \* bound: keysets are numbered 1..MaxKeyset as the mint adds them
    KeysetTtl,  \* KEYSET_TTL_MS
    Latency,    \* how long an answer of the mint may be under way
    Absent      \* no instance, no answer

ASSUME KeysetAssumption ==
    /\ MaxKeyset \in Nat \ {0} /\ KeysetTtl \in Nat /\ Latency \in Nat
    /\ Absent \notin Callers

VARIABLES
    listed, active, past,   \* at the mint: keysets 1..listed, those that sign,
                            \* and those whose expiry has passed
    entry,                  \* _wallets: the caller whose instance is cached
    inst,                   \* the instance that each caller made, if any
    kpc, job                \* what each call awaits, and what it remembers

mintKeys == <<listed, active, past>>
keysVars == <<mintKeys, entry, inst, kpc, job>>

Keysets   == 1..MaxKeyset
Unlisted  == MaxKeyset + 1      \* the keyset of a token no mint ever issued
Awaiting  == {"create", "refresh", "retry"}
KeyLabels == Awaiting \cup {"idle", "given", "refused"}

Views == [known : 0..MaxKeyset, live : SUBSET Keysets]
Instances == [bound : 0..MaxKeyset, view : Views,
              age  : 0..KeysetTtl + 1,              \* since keysetsLoadedAt
              seen : 0..KeysetTtl + Latency + 1]    \* since the mint gave it
Answers == [view : Views, delay : 0..Latency]
Jobs == [token : 0..Unlisted, on : Callers \cup {Absent},
         answer : Answers \cup {Absent}, failed : BOOLEAN]

NoInstance == [bound |-> 0, view |-> [known |-> 0, live |-> {}],
               age |-> 0, seen |-> 0]
NoJob == [token |-> 0, on |-> Absent, answer |-> Absent, failed |-> FALSE]

KeysInit ==
    /\ listed = 1 /\ active = {1} /\ past = {}
    /\ entry = Absent
    /\ inst = [c \in Callers |-> NoInstance]
    /\ kpc = [c \in Callers |-> "idle"]
    /\ job = [c \in Callers |-> NoJob]

-----------------------------------------------------------------------------
(* The instance                                                            *)

\* isBoundKeysetUsable: what the instance itself knows of its keyset.
Usable(w) == w.bound \in w.view.live /\ w.bound \notin past

Stale(w) == w.age > KeysetTtl

\* loadMint(true), and keysetsLoadedAt: the binding is not touched.
Loaded(w, a) == [bound |-> w.bound, view |-> a.view, age |-> 0, seen |-> a.delay]

\* Broken variant: the binding is left as it is.
NeverRebound(w) == {w}

\* Rebinding after a load, to an active keyset if the mint has one.
Rebound(w) ==
    IF Usable(w) \/ w.view.live = {} THEN {w}
    ELSE {[w EXCEPT !.bound = k] : k \in w.view.live}

\* refreshKeysets throws after loading: no active keyset to bind.
Unbindable(w) == ~Usable(w) /\ w.view.live = {}

-----------------------------------------------------------------------------
(* One call: getWallet, and for a token (token # 0) decodeToken after it   *)

\* What a call remembers when it has asked for nothing.
Asking(token, o, failed) ==
    [token |-> token, on |-> o, answer |-> Absent, failed |-> failed]

\* The call j has the answer a of the mint.
Answered(j, a) ==
    [token |-> j.token, on |-> j.on, answer |-> a, failed |-> j.failed]

Refuse(c) ==
    /\ kpc' = [kpc EXCEPT ![c] = "refused"]
    /\ job' = [job EXCEPT ![c] = Asking(job[c].token, job[c].on, TRUE)]

\* Does the instance resolve the keyset that the token names?
Knows(w, token) == token <= w.view.known

\* Broken variant: decoding fails without asking the mint again.
GiveOnce(c, token, o, failed) ==
    /\ kpc' = [kpc EXCEPT ![c] =
                 IF Knows(inst'[entry'], token) THEN "given" ELSE "refused"]
    /\ job' = [job EXCEPT ![c] =
                 Asking(token, IF token = 0 THEN o ELSE entry', failed)]

\* getWallet returns instance o.  A token is decoded with the keysets of the
\* instance that is cached by now.
Give(c, token, o, failed) ==
    /\ kpc' = [kpc EXCEPT ![c] =
                 IF Knows(inst'[entry'], token) THEN "given" ELSE "retry"]
    /\ job' = [job EXCEPT ![c] =
                 Asking(token, IF token = 0 THEN o ELSE entry', failed)]

\* The call begins and runs to its first await, or to its end.  A token names
\* its keyset by the short identifier that only the cache can resolve: one
\* that the mint lists, or one it never did.
BeginKeys(c, token) ==
    /\ kpc[c] = "idle"
    /\ token \in 0..listed \cup {Unlisted}
    /\ UNCHANGED <<mintKeys, entry, inst>>
    /\ IF entry # Absent /\ ~Stale(inst[entry]) /\ Usable(inst[entry])
       THEN Give(c, token, entry, FALSE)
       ELSE /\ kpc' = [kpc EXCEPT ![c] = IF entry = Absent THEN "create"
                                         ELSE "refresh"]
            /\ job' = [job EXCEPT ![c] = Asking(token, entry, FALSE)]

\* The first load of an instance of one's own, which cashu-ts binds to an
\* active keyset.  Whoever is the last to store one has it cached.
Created(c) ==
    /\ kpc[c] = "create" /\ job[c].answer # Absent
    /\ \E k \in job[c].answer.view.live :
         inst' = [inst EXCEPT ![c] =
                    [Loaded(NoInstance, job[c].answer) EXCEPT !.bound = k]]
    /\ entry' = c
    /\ Give(c, job[c].token, c, FALSE)
    /\ UNCHANGED mintKeys

\* The mint cannot be reached, or has no active keyset.
CreateFail(c) ==
    /\ kpc[c] = "create"
    /\ Refuse(c)
    /\ UNCHANGED <<mintKeys, entry, inst>>

\* The load of instance o is answered: its view and its binding change.
Refresh(c, o) ==
    /\ job[c].answer # Absent
    /\ \E w \in Rebound(Loaded(inst[o], job[c].answer)) :
         inst' = [inst EXCEPT ![o] = w]
    /\ UNCHANGED <<mintKeys, entry>>

\* getWallet's refresh is answered.
Refreshed(c) ==
    LET o == job[c].on IN
    /\ kpc[c] = "refresh"
    /\ Refresh(c, o)
    /\ IF Unbindable(inst'[o]) THEN Refuse(c) ELSE Give(c, job[c].token, o, FALSE)

\* Broken variant: a failed refresh counts as one (the stamp is renewed).
RefreshFailStamped(c) ==
    /\ kpc[c] = "refresh"
    /\ inst' = [inst EXCEPT ![job[c].on].age = 0]
    /\ UNCHANGED <<mintKeys, entry>>
    /\ IF Usable(inst[job[c].on])
       THEN Give(c, job[c].token, job[c].on, TRUE)
       ELSE Refuse(c)

\* It fails, which is tolerable while the old binding is usable.
RefreshFail(c) ==
    /\ kpc[c] = "refresh"
    /\ UNCHANGED <<mintKeys, entry, inst>>
    /\ IF Usable(inst[job[c].on])
       THEN Give(c, job[c].token, job[c].on, TRUE)
       ELSE Refuse(c)

\* decodeToken refreshes once more for a keyset it does not know and decodes
\* again; ensureKeysetsKnown takes the same course.
Retried(c) ==
    LET o == job[c].on IN
    /\ kpc[c] = "retry"
    /\ Refresh(c, o)
    /\ IF Unbindable(inst'[o]) THEN Refuse(c)
       ELSE /\ kpc' = [kpc EXCEPT ![c] = IF Knows(inst'[o], job[c].token)
                                           THEN "given" ELSE "refused"]
            /\ job' = [job EXCEPT ![c] = Answered(job[c], Absent)]

RetryFail(c) ==
    /\ kpc[c] = "retry"
    /\ Refuse(c)
    /\ UNCHANGED <<mintKeys, entry, inst>>

\* The caller is done with the wallet; an instance that lost the race for the
\* cache is garbage once no call refers to it.
EndKeys(c) ==
    /\ kpc[c] \in {"given", "refused"}
    /\ kpc' = [kpc EXCEPT ![c] = "idle"]
    /\ job' = [job EXCEPT ![c] = NoJob]
    /\ inst' = [d \in Callers |->
                  IF d = entry \/ \E e \in Callers \ {c} : job[e].on = d
                  THEN inst[d] ELSE NoInstance]
    /\ UNCHANGED <<mintKeys, entry>>

-----------------------------------------------------------------------------
(* The mint (external), and time                                           *)

\* A load of c is answered with what the mint lists now.
MintGives(c) ==
    /\ kpc[c] \in Awaiting /\ job[c].answer = Absent
    /\ job' = [job EXCEPT ![c] =
                 Answered(job[c], [view |-> [known |-> listed, live |-> active],
                                   delay |-> 0])]
    /\ UNCHANGED <<mintKeys, entry, inst, kpc>>

\* NUT-02: a new keyset replaces the active one.
Rotate ==
    /\ listed < MaxKeyset
    /\ listed' = listed + 1
    /\ active' = {listed + 1}
    /\ UNCHANGED <<past, entry, inst, kpc, job>>

\* A keyset's announced expiry passes.
ExpireKeyset(k) ==
    /\ k \in active
    /\ past' = past \cup {k}
    /\ active' = active \ {k}
    /\ UNCHANGED <<listed, entry, inst, kpc, job>>

Upto(n, cap) == IF n < cap THEN n + 1 ELSE cap

\* Time passes, no further than an answer under way allows.
KeysTick ==
    /\ \A c \in Callers : job[c].answer # Absent => job[c].answer.delay < Latency
    /\ inst' = [c \in Callers |->
                  IF inst[c] = NoInstance THEN NoInstance
                  ELSE [bound |-> inst[c].bound, view |-> inst[c].view,
                        age  |-> Upto(inst[c].age, KeysetTtl + 1),
                        seen |-> Upto(inst[c].seen, KeysetTtl + Latency + 1)]]
    /\ job' = [c \in Callers |->
                 IF job[c].answer = Absent THEN job[c]
                 ELSE Answered(job[c], [view  |-> job[c].answer.view,
                                        delay |-> job[c].answer.delay + 1])]
    /\ UNCHANGED <<mintKeys, entry, kpc>>

-----------------------------------------------------------------------------
AnswerKeys(c) ==
    \/ Created(c) \/ CreateFail(c) \/ Refreshed(c) \/ RefreshFail(c)
    \/ Retried(c) \/ RetryFail(c)

\* Everything but the beginning of calls and the passing of time.
KeysStep ==
    \/ \E c \in Callers : AnswerKeys(c) \/ MintGives(c) \/ EndKeys(c)
    \/ Rotate
    \/ \E k \in Keysets : ExpireKeyset(k)

KeysNext ==
    \/ \E c \in Callers : \E token \in 0..Unlisted : BeginKeys(c, token)
    \/ KeysStep
    \/ KeysTick

KeysSpec == KeysInit /\ [][KeysNext]_keysVars

-----------------------------------------------------------------------------
(* Properties                                                              *)

KeysTypeOK ==
    /\ listed \in Keysets /\ active \subseteq Keysets /\ past \subseteq Keysets
    /\ entry \in Callers \cup {Absent}
    /\ inst \in [Callers -> Instances]
    /\ kpc \in [Callers -> KeyLabels]
    /\ job \in [Callers -> Jobs]

\* getWallet returns to its caller.
HandsOut(c) == kpc[c] # "given" /\ kpc'[c] = "given" /\ job'[c].token = 0
Handed(c) == inst'[job'[c].on]

\* Whoever gets a wallet, from whatever mix of loads, can make outputs with
\* it: it is bound to a keyset that its last load found active, and one that
\* has not expired, unless it expired while that very load was under way.
HandedIsUsable ==
    [][\A c \in Callers : HandsOut(c) =>
         /\ Handed(c).bound \in Handed(c).view.live
         /\ Handed(c).bound \notin past \/ Handed(c).age = 0]_keysVars

\* A wallet that is handed out shows the mint as it was no longer ago than
\* the time-to-live and one answer under way, unless the call's own refresh
\* has just failed: however loads overlap, the stamp never flatters the view.
HandedIsRecent ==
    [][\A c \in Callers : HandsOut(c) =>
         Handed(c).seen <= KeysetTtl + Latency \/ job'[c].failed]_keysVars

\* A call is refused only after a load of its own has failed, or for a token
\* whose keyset the mint has never listed: a stale cache refuses no token.
RefusedForCause ==
    \A c \in Callers :
        kpc[c] = "refused" => job[c].failed \/ job[c].token = Unlisted
=============================================================================
