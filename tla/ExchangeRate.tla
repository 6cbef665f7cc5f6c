---------------------------- MODULE ExchangeRate ----------------------------
(***************************************************************************)
(* src/services/exchangeRateService.ts: getExchangeRate, asked by several  *)
(* HTTP requests at once.                                                  *)
(*                                                                         *)
(* Rates are cached per currency.  One fetch brings all currencies, is     *)
(* shared by everybody who asks while it is under way, and is raced by a   *)
(* timer.  Its promise resolves everybody's await in one go, in the order  *)
(* in which they asked.  A rate is stamped with the time at which the call *)
(* that stores it began; what its data is worth is their age, "data".      *)
(***************************************************************************)
EXTENDS Naturals, FiniteSets

CONSTANTS
    Askers,         \* calls that may be under way at once
    Currencies,     \* SUPPORTED_CURRENCIES
    RateTtl,        \* RATE_CACHE_TTL_MS
    FetchTimeout,   \* RATE_FETCH_TIMEOUT_MS
    NoRate          \* nothing cached, no fetch, no price yet

ASSUME RateAssumption ==
    /\ RateTtl \in Nat \ {0} /\ FetchTimeout \in 0..RateTtl
    /\ Currencies # {}
    /\ NoRate \notin Askers \cup Nat
    /\ NoRate \notin [age : Nat, data : Nat \cup {NoRate}]

VARIABLES
    rateCache,  \* per currency: the ages of the stamp and of the data
    inFlight,   \* inFlightRateRequest: the asker whose fetch it is
    fetch,      \* per asker: its own fetch, with its age and its data
    ask         \* per asker: its call

rateVars == <<rateCache, inFlight, fetch, ask>>

Horizon == RateTtl + FetchTimeout
Entries == [stamp : 0..RateTtl, data : 0..Horizon]
Fetches == [age : 0..FetchTimeout, data : 0..FetchTimeout \cup {NoRate}]
\* cache is the entry found at the beginning, got the answer; failed says
\* that the call's own fetch brought no rate.
Asks == [at : {"idle", "wait", "answered", "failed"},
         currency : Currencies, age : 0..FetchTimeout,
         on : Askers \cup {NoRate}, cache : Entries \cup {NoRate},
         got : Entries \cup {NoRate}, failed : BOOLEAN]

Idle == [at |-> "idle", currency |-> CHOOSE c \in Currencies : TRUE, age |-> 0,
         on |-> NoRate, cache |-> NoRate, got |-> NoRate, failed |-> FALSE]

RateInit ==
    /\ rateCache = [c \in Currencies |-> NoRate]
    /\ inFlight = NoRate
    /\ fetch = [a \in Askers |-> NoRate]
    /\ ask = [a \in Askers |-> Idle]

-----------------------------------------------------------------------------
FreshInclusive(e) == e # NoRate /\ e.stamp <= RateTtl   \* broken variant
Fresh(e) == e # NoRate /\ e.stamp < RateTtl

\* The fetch that a caller awaits: the one under way, or one of its own.
OwnFetch(a) == a      \* broken variant: the one under way is not shared
Shared(a) == IF inFlight = NoRate THEN a ELSE inFlight

\* A call for currency c that awaits o's fetch; and one that is over.
Waits(c, o) ==
    [at |-> "wait", currency |-> c, age |-> 0, on |-> o,
     cache |-> rateCache[c], got |-> NoRate, failed |-> FALSE]
Over(c, got, failed) ==
    [at |-> IF got = NoRate THEN "failed" ELSE "answered", currency |-> c,
     age |-> 0, on |-> NoRate, cache |-> NoRate, got |-> got, failed |-> failed]

\* getExchangeRate up to its await: a fresh entry is returned; otherwise the
\* entry found is kept for the catch clause and the fetch awaited.
Ask(a, c) ==
    /\ ask[a].at = "idle"
    /\ UNCHANGED rateCache
    /\ IF Fresh(rateCache[c])
       THEN /\ ask' = [ask EXCEPT ![a] = Over(c, rateCache[c], FALSE)]
            /\ UNCHANGED <<inFlight, fetch>>
       ELSE /\ ask' = [ask EXCEPT ![a] = Waits(c, Shared(a))]
            /\ inFlight' = Shared(a)
            /\ fetch' = IF Shared(a) # a THEN fetch
                        ELSE [fetch EXCEPT ![a] = [age |-> 0, data |-> NoRate]]

Waiting(o) == {a \in Askers : ask[a].at = "wait" /\ ask[a].on = o}

\* What a caller returns from its catch clause: the entry that it found when
\* it began, or nothing.
Fallback(q) == Over(q.currency, q.cache, TRUE)

\* What a caller returns when its rate has come, stamped with its beginning.
Served(q, data) == Over(q.currency, [stamp |-> q.age, data |-> data], FALSE)

\* Of the callers in S, who store their entries one after the other in the
\* order in which they began, those whose entries are left.
Latest(S) == {a \in S : \A b \in S : ask[a].age <= ask[b].age}

\* The promise of o's fetch resolves with the rates of the currencies in good:
\* inFlightRateRequest is cleared, then every caller goes on.  A caller whose
\* own currency is missing throws before it stores anything.
Resolve(o, good) ==
    LET lucky == {a \in Waiting(o) : ask[a].currency \in good} IN
    /\ inFlight' = NoRate
    /\ fetch' = [fetch EXCEPT ![o] = NoRate]
    /\ ask' = [a \in Askers |->
                 IF a \in lucky THEN Served(ask[a], fetch[o].data)
                 ELSE IF a \in Waiting(o) THEN Fallback(ask[a]) ELSE ask[a]]
    /\ IF lucky = {} THEN UNCHANGED rateCache
       ELSE \E a \in Latest(lucky) :
              rateCache' = [c \in Currencies |->
                IF c \in good THEN [stamp |-> ask[a].age, data |-> fetch[o].data]
                ELSE rateCache[c]]

\* CoinGecko (external) reads its prices.
Price(o) ==
    /\ fetch[o] # NoRate /\ fetch[o].data = NoRate
    /\ fetch' = [fetch EXCEPT ![o] = [age |-> fetch[o].age, data |-> 0]]
    /\ UNCHANGED <<rateCache, inFlight, ask>>

\* Its answer arrives: some or all of the currencies.
Arrive(o) ==
    /\ fetch[o] # NoRate /\ fetch[o].data # NoRate
    /\ \E good \in (SUBSET Currencies) \ {{}} : Resolve(o, good)

\* An HTTP error, a body without prices, a broken connection.
FetchFail(o) ==
    /\ fetch[o] # NoRate
    /\ Resolve(o, {})

\* Broken variant: the timer is never set to less than forever.
FetchHangs(o) ==
    /\ fetch[o] # NoRate /\ fetch[o].age > FetchTimeout
    /\ Resolve(o, {})

\* The timer wins the race.
FetchTimesOut(o) ==
    /\ fetch[o] # NoRate /\ fetch[o].age = FetchTimeout
    /\ Resolve(o, {})

\* The HTTP response is sent.
EndAsk(a) ==
    /\ ask[a].at \in {"answered", "failed"}
    /\ ask' = [ask EXCEPT ![a] = Idle]
    /\ UNCHANGED <<rateCache, inFlight, fetch>>

-----------------------------------------------------------------------------
Capped(n, cap) == IF n < cap THEN n + 1 ELSE cap

Older(e) ==
    IF e = NoRate THEN NoRate
    ELSE [stamp |-> Capped(e.stamp, RateTtl), data |-> Capped(e.data, Horizon)]

\* Time passes, no further than the timer of a fetch.
RateTick ==
    /\ \A o \in Askers : fetch[o] # NoRate => fetch[o].age < FetchTimeout
    /\ rateCache' = [c \in Currencies |-> Older(rateCache[c])]
    /\ fetch' = [o \in Askers |->
                   IF fetch[o] = NoRate THEN NoRate
                   ELSE [age  |-> fetch[o].age + 1,
                         data |-> IF fetch[o].data = NoRate THEN NoRate
                                  ELSE fetch[o].data + 1]]
    /\ ask' = [a \in Askers |->
                 IF ask[a].at # "wait" THEN ask[a]
                 ELSE [at |-> "wait", currency |-> ask[a].currency,
                       age |-> ask[a].age + 1, on |-> ask[a].on,
                       cache |-> Older(ask[a].cache),
                       got |-> NoRate, failed |-> FALSE]]
    /\ UNCHANGED inFlight

\* Everything but the beginning of calls and the passing of time.
RateStep ==
    \E a \in Askers :
        Price(a) \/ Arrive(a) \/ FetchFail(a) \/ FetchTimesOut(a) \/ EndAsk(a)

RateNext ==
    \/ \E a \in Askers, c \in Currencies : Ask(a, c)
    \/ RateStep
    \/ RateTick

RateSpec == RateInit /\ [][RateNext]_rateVars

-----------------------------------------------------------------------------
(* Properties                                                              *)

RateTypeOK ==
    /\ rateCache \in [Currencies -> Entries \cup {NoRate}]
    /\ inFlight \in Askers \cup {NoRate}
    /\ fetch \in [Askers -> Fetches \cup {NoRate}]
    /\ ask \in [Askers -> Asks]

\* A rate that is returned is never older than the time-to-live and one fetch
\* together, unless the caller's own fetch failed: neither the early stamp,
\* nor sharing, nor an old fallback of somebody else lets older data through.
RateIsRecent ==
    \A a \in Askers :
        ask[a].at = "answered" /\ ~ask[a].failed => ask[a].got.data < Horizon

\* The fallback that a waiting caller holds is still what the cache holds: it
\* never returns an old rate while a newer one has been stored since it began.
FallbackIsNewest ==
    \A a \in Askers :
        ask[a].at = "wait" => ask[a].cache = rateCache[ask[a].currency]

\* Every call is answered, whether or not CoinGecko ever answers.
AskAnswered == \A a \in Askers : ask[a].at = "wait" ~> ask[a].at # "wait"
=============================================================================
