------------------------------ MODULE Service ------------------------------
(***************************************************************************)
(* One running process of src/index.ts: a command-line session or an HTTP  *)
(* server, over the keyset cache, the exchange rates and the history.      *)
(*                                                                         *)
(* A session works on one command at a time; a server's requests interleave*)
(* at every await.  Each request slot serves requests of one route, one    *)
(* after the other; time is shared.                                        *)
(***************************************************************************)
EXTENDS KeysetCache, ExchangeRate, CliSession, History

CONSTANT Mixes      \* what routes the slots may serve: [Callers -> Routes]

Routes == {"wallet", "check", "rate", "history", "none"}

ASSUME ServiceAssumption ==
    /\ Askers = Callers /\ Commands \subseteq Callers
    /\ Mixes \subseteq [Callers -> Routes]

VARIABLES mode, route       \* INTERACTION_MODE; the route that a slot serves

vars == <<mode, route, keysVars, rateVars, cliVars, historyVars>>

\* Nobody looks at the keysets, or at the history.
KeysUnused == mode = "api" /\ ~\E c \in Callers : route[c] \in {"wallet", "check"}
HistoryUnused == ~\E c \in Callers : route[c] = "history"

\* What nobody looks at stands still: no visible behaviour is lost by that,
\* and the instances stay small.
Init ==
    /\ KeysInit /\ RateInit /\ CliInit /\ HistoryInit
    /\ \/ mode = "cli" /\ route = [c \in Callers |-> "none"]
       \/ mode = "api" /\ route \in Mixes
    /\ HistoryUnused => rows = {}

-----------------------------------------------------------------------------
\* A command at work in a service calls getWallet as often as it likes and
\* returns between two calls.
Work(n) ==
    \/ BeginKeys(n, 0) /\ UNCHANGED cliVars
    \/ kpc[n] = "idle" /\ WorkDone(n) /\ UNCHANGED keysVars

SessionActs ==
    /\ mode = "cli"
    /\ \/ CliStep /\ UNCHANGED keysVars
       \/ \E n \in Commands : cmd[n].at = "work" /\ Work(n)
    /\ UNCHANGED <<mode, route, rateVars, historyVars>>

\* GET /v1/wallet synchronises; POST /v1/wallet/check decodes and asks.
RequestsWallet ==
    /\ mode = "api"
    /\ \E c \in Callers :
         \/ route[c] = "wallet" /\ BeginKeys(c, 0)
         \/ route[c] = "check" /\ \E token \in 0..Unlisted : BeginKeys(c, token)
    /\ UNCHANGED <<mode, route, rateVars, cliVars, historyVars>>

RequestsRate ==
    /\ mode = "api"
    /\ \E c \in Callers, currency \in Currencies :
         route[c] = "rate" /\ Ask(c, currency)
    /\ UNCHANGED <<mode, route, keysVars, cliVars, historyVars>>

RequestsHistory ==
    /\ ~HistoryUnused
    /\ HistoryNext
    /\ UNCHANGED <<mode, route, keysVars, rateVars, cliVars>>

KeysAct ==
    /\ ~KeysUnused /\ KeysStep
    /\ UNCHANGED <<mode, route, rateVars, cliVars, historyVars>>

RatesAct ==
    /\ RateStep
    /\ UNCHANGED <<mode, route, keysVars, cliVars, historyVars>>

Tick ==
    /\ KeysTick /\ RateTick
    /\ UNCHANGED <<mode, route, cliVars, historyVars>>

Next ==
    \/ SessionActs
    \/ RequestsWallet \/ RequestsRate \/ RequestsHistory
    \/ KeysAct \/ RatesAct
    \/ Tick

Spec == Init /\ [][Next]_vars

-----------------------------------------------------------------------------
\* What goes on by itself: loads end (be it with an error), handlers continue,
\* a closed session closes down.
CallsGoOn ==
    /\ \E c \in Callers : AnswerKeys(c) \/ EndKeys(c)
    /\ UNCHANGED <<mode, route, rateVars, cliVars, historyVars>>

SessionGoesOn ==
    /\ mode = "cli"
    /\ Disconnect \/ EndSession \/ \E n \in Commands : RunCommand(n)
    /\ UNCHANGED <<mode, route, keysVars, rateVars, historyVars>>

\* A command returns.
ServiceReturns ==
    /\ mode = "cli"
    /\ \E n \in Commands : kpc[n] = "idle" /\ WorkDone(n)
    /\ UNCHANGED <<mode, route, keysVars, rateVars, historyVars>>

TimerFires ==
    /\ \E o \in Askers : FetchTimesOut(o)
    /\ UNCHANGED <<mode, route, keysVars, cliVars, historyVars>>

\* Fairness: time passes and timers fire, a session goes on, and a command
\* makes finitely many calls (it is between two of them again and again, and
\* returns at last).  Nothing is assumed of CoinGecko or of the clients.
FairSpec ==
    /\ Spec
    /\ WF_vars(Tick) /\ WF_vars(TimerFires)
    /\ WF_vars(CallsGoOn) /\ WF_vars(SessionGoesOn) /\ SF_vars(ServiceReturns)

-----------------------------------------------------------------------------
(* Properties                                                              *)

TypeOK ==
    /\ mode \in {"cli", "api"} /\ route \in [Callers -> Routes]
    /\ KeysTypeOK /\ RateTypeOK /\ CliTypeOK /\ HistoryTypeOK

\* In a session the wallet's knowledge of the mint only advances: an answer
\* that is overtaken by a later one is never applied after it, because no two
\* commands have a load under way.  (Two HTTP requests may.)
CliViewAdvances ==
    [][mode = "cli" /\ entry # Absent =>
         /\ entry' = entry
         /\ inst'[entry].view.known >= inst[entry].view.known]_vars
=============================================================================
