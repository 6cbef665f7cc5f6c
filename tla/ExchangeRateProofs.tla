------------------------- MODULE ExchangeRateProofs -------------------------
(***************************************************************************)
(* Proofs about the exchange rates, for any number of callers and          *)
(* currencies, any time-to-live and any timeout below it.                  *)
(***************************************************************************)
EXTENDS ExchangeRate, TLAPS

\* There is at most one fetch, it is the one in flight, whoever began it waits
\* for it, and its data are no older than itself.
OneFetch ==
    /\ inFlight # NoRate => fetch[inFlight] # NoRate
    /\ \A o \in Askers : fetch[o] # NoRate =>
         /\ inFlight = o /\ ask[o].at = "wait"
         /\ fetch[o].data # NoRate => fetch[o].data <= fetch[o].age

\* A waiting caller awaits that fetch, which began before it asked or when it
\* asked, and holds the entry that is cached.
Waiter(a) ==
    ask[a].at = "wait" =>
        /\ inFlight = ask[a].on /\ ask[a].on \in Askers
        /\ ask[a].age <= fetch[ask[a].on].age
        /\ ask[a].cache = rateCache[ask[a].currency]

\* An entry is stamped at most one fetch later than its data.
Worth(e) == e # NoRate => e.data <= e.stamp + FetchTimeout

Recent(a) == ask[a].at = "answered" /\ ~ask[a].failed => ask[a].got.data < Horizon

RateInv ==
    /\ RateTypeOK
    /\ OneFetch
    /\ \A a \in Askers : Waiter(a)
    /\ \A c \in Currencies : Worth(rateCache[c])
    /\ \A a \in Askers : Recent(a)

\* The types of a call that is over.
LEMMA OverType ==
  ASSUME NEW c \in Currencies, NEW got \in Entries \cup {NoRate},
         NEW failed \in BOOLEAN
  PROVE  /\ Over(c, got, failed) \in Asks
         /\ Over(c, got, failed).at # "wait"
         /\ Over(c, got, failed).at = "answered" => got # NoRate
         /\ Over(c, got, failed).got = got /\ Over(c, got, failed).failed = failed
  BY RateAssumption DEF Over, Asks

LEMMA OlderType ==
  ASSUME NEW e \in Entries \cup {NoRate}, Worth(e)
  PROVE  Older(e) \in Entries \cup {NoRate} /\ Worth(Older(e))
<1>1. CASE e = NoRate
  BY <1>1 DEF Older
<1>2. CASE e # NoRate
  <2>1. Older(e) = [stamp |-> Capped(e.stamp, RateTtl), data |-> Capped(e.data, Horizon)]
    BY <1>2 DEF Older
  <2>2. e.stamp \in 0..RateTtl /\ e.data \in 0..Horizon /\ e.data <= e.stamp + FetchTimeout
    BY <1>2 DEF Entries, Worth
  <2>3. /\ Capped(e.stamp, RateTtl) \in 0..RateTtl
        /\ Capped(e.data, Horizon) \in 0..Horizon
        /\ Capped(e.data, Horizon) <= Capped(e.stamp, RateTtl) + FetchTimeout
    BY <2>2, RateAssumption DEF Capped, Horizon
  <2> QED BY <2>1, <2>3 DEF Entries, Worth
<1> QED BY <1>1, <1>2

LEMMA IdleType == Idle \in Asks /\ Idle.at = "idle"
<1>1. (CHOOSE c \in Currencies : TRUE) \in Currencies
  BY RateAssumption
<1> QED BY <1>1, RateAssumption DEF Idle, Asks

LEMMA RateInitInv == RateInit => RateInv
<1> SUFFICES ASSUME RateInit PROVE RateInv
  OBVIOUS
<1>1. RateTypeOK
  BY IdleType DEF RateInit, RateTypeOK
<1>2. OneFetch /\ \A a \in Askers : Waiter(a) /\ Recent(a)
  BY IdleType DEF RateInit, OneFetch, Waiter, Recent
<1>3. \A c \in Currencies : Worth(rateCache[c])
  BY DEF RateInit, Worth
<1> QED BY <1>1, <1>2, <1>3 DEF RateInv

LEMMA AskInv ==
  ASSUME RateInv, NEW a \in Askers, NEW c \in Currencies, Ask(a, c)
  PROVE  RateInv'
<1>1. CASE Fresh(rateCache[c])
  <2> DEFINE q == Over(c, rateCache[c], FALSE)
  <2>1. rateCache[c] \in Entries /\ rateCache[c].data < Horizon
    BY <1>1, RateAssumption
    DEF Fresh, RateInv, RateTypeOK, Worth, Entries, Horizon
  <2>2. q \in Asks /\ q.at # "wait" /\ q.got = rateCache[c]
    BY <2>1, OverType
  <2>3. ask' = [ask EXCEPT ![a] = q] /\ UNCHANGED <<rateCache, inFlight, fetch>>
    BY <1>1 DEF Ask
  <2> HIDE DEF q
  <2>4. RateTypeOK'
    BY <2>2, <2>3 DEF RateInv, RateTypeOK
  <2>5. OneFetch' /\ \A d \in Currencies : Worth(rateCache[d])'
    BY <2>3 DEF Ask, RateInv, RateTypeOK, OneFetch, Worth
  <2>6. \A b \in Askers : Waiter(b)' /\ Recent(b)'
    BY <2>1, <2>2, <2>3 DEF RateInv, RateTypeOK, Waiter, Recent
  <2> QED BY <2>4, <2>5, <2>6 DEF RateInv
<1>2. CASE ~Fresh(rateCache[c])
  <2> DEFINE o == Shared(a)  q == Waits(c, o)  f == [age |-> 0, data |-> NoRate]
  <2>1. o \in Askers /\ (o = a \/ o = inFlight) /\ (inFlight # NoRate => o = inFlight)
    BY DEF Shared, RateInv, RateTypeOK
  <2>2. /\ q \in Asks /\ q.at = "wait" /\ q.on = o /\ q.age = 0
        /\ q.cache = rateCache[c] /\ q.currency = c
    BY <2>1, RateAssumption DEF RateInv, RateTypeOK, Waits, Asks
  <2>3. /\ ask' = [ask EXCEPT ![a] = q] /\ inFlight' = o /\ rateCache' = rateCache
        /\ fetch' = IF o # a THEN fetch ELSE [fetch EXCEPT ![a] = f]
    BY <1>2 DEF Ask
  <2>4. f \in Fetches /\ f # NoRate /\ f.age = 0 /\ f.data = NoRate
    BY RateAssumption DEF Fetches
  <2> HIDE DEF q, o, f
  <2>5. RateTypeOK'
    BY <2>1, <2>2, <2>3, <2>4 DEF RateInv, RateTypeOK
  <2>6. inFlight = NoRate => \A b \in Askers : fetch[b] = NoRate /\ ask[b].at # "wait"
    BY RateAssumption DEF RateInv, OneFetch, Waiter
  <2>7. fetch'[o] # NoRate /\ fetch'[o] \in Fetches /\ fetch'[o].age >= 0
    BY <2>1, <2>3, <2>4, <2>5, <2>6, RateAssumption
    DEF RateInv, RateTypeOK, OneFetch, Fetches
  <2>8. OneFetch'
    BY <2>1, <2>2, <2>3, <2>4, <2>6, <2>7 DEF RateInv, RateTypeOK, OneFetch
  <2>9. \A b \in Askers : Recent(b)'
    BY <2>2, <2>3 DEF RateInv, RateTypeOK, Recent
  <2>10. ASSUME NEW b \in Askers PROVE Waiter(b)'
    <3>1. CASE b = a
      BY <2>1, <2>2, <2>3, <2>7, <3>1 DEF RateInv, RateTypeOK, Waiter
    <3>2. CASE b # a /\ inFlight # NoRate
      <4>1. inFlight # a
        BY <3>2 DEF RateInv, OneFetch, RateTypeOK, Ask
      <4>2. ask'[b] = ask[b] /\ UNCHANGED <<rateCache, inFlight, fetch>>
        BY <2>1, <2>3, <3>2, <4>1 DEF RateInv, RateTypeOK
      <4> QED BY <4>2 DEF RateInv, Waiter
    <3>3. CASE b # a /\ inFlight = NoRate
      BY <2>3, <2>6, <3>3 DEF RateInv, RateTypeOK, Waiter
    <3> QED BY <3>1, <3>2, <3>3
  <2> QED BY <2>3, <2>5, <2>8, <2>9, <2>10 DEF RateInv
<1> QED BY <1>1, <1>2

\* When a fetch resolves nobody waits any longer.
LEMMA ResolveInv ==
  ASSUME RateInv, NEW o \in Askers, NEW good \in SUBSET Currencies,
         fetch[o] # NoRate, fetch[o].data # NoRate \/ good = {},
         Resolve(o, good)
  PROVE  RateInv'
<1> DEFINE lucky == {a \in Waiting(o) : ask[a].currency \in good}
           d == fetch[o].data
<1>1. inFlight = o /\ \A a \in Askers : ask[a].at = "wait" => a \in Waiting(o)
  BY DEF RateInv, OneFetch, Waiter, Waiting
<1>2. \A p \in Askers : p # o => fetch[p] = NoRate
  BY <1>1 DEF RateInv, OneFetch
<1>3. inFlight' = NoRate /\ fetch' = [p \in Askers |-> NoRate]
  <2>1. inFlight' = NoRate /\ fetch' = [fetch EXCEPT ![o] = NoRate]
    BY DEF Resolve
  <2> QED BY <1>2, <2>1 DEF RateInv, RateTypeOK
<1>4. lucky # {} => d \in 0..FetchTimeout
  BY DEF RateInv, RateTypeOK, Fetches
<1>5. ASSUME NEW a \in Askers
      PROVE  ask'[a] \in Asks /\ ask'[a].at # "wait" /\ Recent(a)'
  <2>1. ask[a] \in Asks
    BY DEF RateInv, RateTypeOK
  <2>2. CASE a \in lucky
    <3>1. ask'[a] = Served(ask[a], d)
      BY <2>2 DEF Resolve
    <3>2. [stamp |-> ask[a].age, data |-> d] \in Entries
      BY <1>4, <2>1, <2>2, RateAssumption DEF Asks, Entries, Horizon
    <3>3. ask[a].currency \in Currencies
      BY <2>1 DEF Asks
    <3> DEFINE e == [stamp |-> ask[a].age, data |-> d]
               q == Over(ask[a].currency, e, FALSE)
    <3>4. q \in Asks /\ q.at # "wait" /\ q.got = e
      BY <3>2, <3>3, OverType
    <3>5. ask'[a] = q
      BY <3>1 DEF Served
    <3>6. e.data < Horizon
      BY <1>4, <2>2, RateAssumption DEF Horizon
    <3> HIDE DEF q, e
    <3> QED BY <3>4, <3>5, <3>6 DEF Recent
  <2>3. CASE a \in Waiting(o) \ lucky
    <3>1. ask'[a] = Over(ask[a].currency, ask[a].cache, TRUE)
      BY <2>3 DEF Resolve, Fallback
    <3>2. ask[a].currency \in Currencies /\ ask[a].cache \in Entries \cup {NoRate}
      BY <2>1 DEF Asks
    <3> DEFINE q == Over(ask[a].currency, ask[a].cache, TRUE)
    <3>3. q \in Asks /\ q.at # "wait" /\ q.failed = TRUE
      BY <3>2, OverType
    <3> HIDE DEF q
    <3>4. ask'[a] = q
      BY <3>1 DEF q
    <3> QED BY <3>3, <3>4 DEF Recent
  <2>4. CASE a \notin Waiting(o)
    <3>1. ask'[a] = ask[a]
      BY <2>4 DEF Resolve
    <3> QED BY <1>1, <2>1, <2>4, <3>1 DEF RateInv, Recent
  <2> QED BY <2>2, <2>3, <2>4
<1>6. ask' \in [Askers -> Asks]
  BY <1>5 DEF Resolve
<1>7. /\ rateCache' \in [Currencies -> Entries \cup {NoRate}]
      /\ \A c \in Currencies : Worth(rateCache[c])'
  <2>1. CASE lucky = {}
    BY <2>1 DEF Resolve, RateInv, RateTypeOK, Worth
  <2>2. CASE lucky # {}
    <3>1. PICK a \in Latest(lucky) :
            rateCache' = [c \in Currencies |->
                IF c \in good THEN [stamp |-> ask[a].age, data |-> d]
                ELSE rateCache[c]]
      BY <2>2 DEF Resolve
    <3>2. ask[a].age \in 0..FetchTimeout
      BY <3>1 DEF Latest, Waiting, RateInv, RateTypeOK, Asks
    <3>3. /\ [stamp |-> ask[a].age, data |-> d] \in Entries
          /\ Worth([stamp |-> ask[a].age, data |-> d])
      BY <1>4, <2>2, <3>2, RateAssumption DEF Entries, Worth, Horizon
    <3> QED BY <3>1, <3>3 DEF RateInv, RateTypeOK, Worth
  <2> QED BY <2>1, <2>2
<1>8. RateTypeOK'
  BY <1>3, <1>6, <1>7 DEF RateTypeOK
<1>9. OneFetch' /\ \A a \in Askers : Waiter(a)'
  BY <1>3, <1>5 DEF OneFetch, Waiter
<1> QED BY <1>5, <1>7, <1>8, <1>9 DEF RateInv

LEMMA PriceInv ==
  ASSUME RateInv, NEW o \in Askers, Price(o)
  PROVE  RateInv'
<1> DEFINE f == [age |-> fetch[o].age, data |-> 0]
<1>1. f \in Fetches /\ f # NoRate /\ f.age = fetch[o].age /\ f.data = 0 /\ f.age >= 0
  BY RateAssumption DEF Price, RateInv, RateTypeOK, Fetches
<1>2. fetch' = [fetch EXCEPT ![o] = f] /\ UNCHANGED <<rateCache, inFlight, ask>>
  BY DEF Price
<1> HIDE DEF f
<1>3. RateTypeOK'
  BY <1>1, <1>2 DEF RateInv, RateTypeOK
<1>4. inFlight = o /\ ask[o].at = "wait"
  BY DEF Price, RateInv, OneFetch
<1>5. fetch'[o] = f /\ \A p \in Askers \ {o} : fetch'[p] = fetch[p]
  BY <1>1, <1>2 DEF RateInv, RateTypeOK
<1>6. fetch'[o].age = fetch[o].age /\ \A p \in Askers \ {o} : fetch'[p] = fetch[p]
  BY <1>1, <1>5
<1>10. OneFetch'
  <2>1. inFlight' # NoRate => fetch'[inFlight'] # NoRate
    BY <1>1, <1>2, <1>4, <1>5
  <2>2. ASSUME NEW p \in Askers, fetch'[p] # NoRate
        PROVE  /\ inFlight' = p /\ ask'[p].at = "wait"
               /\ fetch'[p].data # NoRate => fetch'[p].data <= fetch'[p].age
    <3>1. CASE p = o
      BY <1>1, <1>2, <1>4, <1>5, <3>1
    <3>2. CASE p # o
      BY <1>2, <1>5, <2>2, <3>2 DEF RateInv, OneFetch
    <3> QED BY <3>1, <3>2
  <2> QED BY <2>1, <2>2 DEF OneFetch
<1>7. \A a \in Askers : Waiter(a)'
  BY <1>2, <1>6 DEF RateInv, Waiter
<1>8. \A a \in Askers : Recent(a)'
  BY <1>2 DEF RateInv, Recent
<1>9. \A c \in Currencies : Worth(rateCache[c])'
  BY <1>2 DEF RateInv, Worth
<1> QED BY <1>3, <1>7, <1>8, <1>9, <1>10 DEF RateInv

LEMMA EndAskInv ==
  ASSUME RateInv, NEW a \in Askers, EndAsk(a)
  PROVE  RateInv'
<1>1. ask' = [ask EXCEPT ![a] = Idle] /\ UNCHANGED <<rateCache, inFlight, fetch>>
  BY DEF EndAsk
<1>2. RateTypeOK'
  BY <1>1, IdleType DEF RateInv, RateTypeOK
<1>3. OneFetch' /\ \A c \in Currencies : Worth(rateCache[c])'
  BY <1>1 DEF EndAsk, RateInv, RateTypeOK, OneFetch, Worth
<1>4. \A b \in Askers : Waiter(b)' /\ Recent(b)'
  BY <1>1, IdleType DEF RateInv, RateTypeOK, Waiter, Recent
<1> QED BY <1>2, <1>3, <1>4 DEF RateInv

LEMMA RateTickInv == RateInv /\ RateTick => RateInv'
<1> SUFFICES ASSUME RateInv, RateTick PROVE RateInv'
  OBVIOUS
<1>1. ASSUME NEW c \in Currencies
      PROVE  /\ rateCache'[c] = Older(rateCache[c])
             /\ rateCache'[c] \in Entries \cup {NoRate} /\ Worth(rateCache[c])'
  BY OlderType DEF RateTick, RateInv, RateTypeOK, Worth
<1>2. ASSUME NEW o \in Askers
      PROVE  /\ fetch'[o] \in Fetches \cup {NoRate}
             /\ fetch[o] = NoRate => fetch'[o] = NoRate
             /\ fetch[o] # NoRate =>
                  /\ fetch'[o] # NoRate /\ fetch[o].age < FetchTimeout
                  /\ fetch[o].age \in 0..FetchTimeout
                  /\ fetch'[o].age = fetch[o].age + 1
                  /\ fetch'[o].data # NoRate => fetch'[o].data <= fetch'[o].age
  <2>1. CASE fetch[o] = NoRate
    BY <2>1 DEF RateTick
  <2>2. CASE fetch[o] # NoRate
    <3> DEFINE x == IF fetch[o].data = NoRate THEN NoRate ELSE fetch[o].data + 1
    <3>1. /\ fetch[o].age \in 0..FetchTimeout /\ fetch[o].age < FetchTimeout
          /\ fetch[o].data \in 0..FetchTimeout \cup {NoRate}
          /\ fetch[o].data # NoRate => fetch[o].data <= fetch[o].age
      BY <2>2 DEF RateTick, RateInv, RateTypeOK, OneFetch, Fetches
    <3>2. fetch'[o] = [age |-> fetch[o].age + 1, data |-> x]
      BY <2>2 DEF RateTick
    <3>3. x \in 0..FetchTimeout \cup {NoRate} /\ (x # NoRate => x <= fetch[o].age + 1)
      BY <3>1, RateAssumption
    <3>4. fetch[o].age + 1 \in 0..FetchTimeout
      BY <3>1, RateAssumption
    <3> HIDE DEF x
    <3>5. [age |-> fetch[o].age + 1, data |-> x] \in Fetches
      BY <3>3, <3>4 DEF Fetches
    <3>6. [age |-> fetch[o].age + 1, data |-> x] # NoRate
      BY <3>3, <3>4, RateAssumption
    <3> QED BY <2>2, <3>1, <3>2, <3>3, <3>5, <3>6
  <2> QED BY <2>1, <2>2
<1>3. ASSUME NEW a \in Askers
      PROVE  /\ ask'[a] \in Asks /\ Recent(a)' /\ Waiter(a)'
             /\ ask'[a].at = ask[a].at
  <2>1. ask[a] \in Asks
    BY DEF RateInv, RateTypeOK
  <2>2. CASE ask[a].at # "wait"
    <3>1. ask'[a] = ask[a]
      BY <2>2 DEF RateTick
    <3> QED BY <2>1, <2>2, <3>1 DEF RateInv, Recent, Waiter
  <2>3. CASE ask[a].at = "wait"
    <3> DEFINE o == ask[a].on
    <3>1. /\ inFlight = o /\ o \in Askers /\ fetch[o] # NoRate
          /\ ask[a].age <= fetch[o].age
          /\ ask[a].cache = rateCache[ask[a].currency]
      BY <2>3, RateAssumption DEF RateInv, Waiter, OneFetch
    <3>2. /\ ask[a].age \in 0..FetchTimeout /\ ask[a].currency \in Currencies
      BY <2>1 DEF Asks
    <3>3. fetch'[o].age = fetch[o].age + 1 /\ fetch[o].age < FetchTimeout
          /\ fetch[o].age \in 0..FetchTimeout
      BY <1>2, <3>1
    <3>4. Older(ask[a].cache) = rateCache'[ask[a].currency]
          /\ Older(ask[a].cache) \in Entries \cup {NoRate}
      BY <1>1, <3>1, <3>2
    <3>5. ask'[a] = [at |-> "wait", currency |-> ask[a].currency,
                     age |-> ask[a].age + 1, on |-> ask[a].on,
                     cache |-> Older(ask[a].cache),
                     got |-> NoRate, failed |-> FALSE]
      BY <2>3 DEF RateTick
    <3>6. ask[a].age + 1 \in 0..FetchTimeout /\ ask[a].age + 1 <= fetch'[o].age
      BY <3>1, <3>2, <3>3, RateAssumption
    <3>7. inFlight' = inFlight
      BY DEF RateTick
    <3> QED BY <2>3, <3>1, <3>2, <3>4, <3>5, <3>6, <3>7 DEF Asks, Recent, Waiter
  <2> QED BY <2>2, <2>3
<1>4. RateTypeOK'
  BY <1>1, <1>2, <1>3 DEF RateTick, RateInv, RateTypeOK
<1>5. OneFetch'
  BY <1>2, <1>3 DEF RateTick, RateInv, RateTypeOK, OneFetch
<1> QED BY <1>1, <1>3, <1>4, <1>5 DEF RateInv

LEMMA RateStepInv == RateInv /\ [RateNext]_rateVars => RateInv'
<1> SUFFICES ASSUME RateInv, [RateNext]_rateVars PROVE RateInv'
  OBVIOUS
<1>1. ASSUME NEW o \in Askers, Arrive(o) PROVE RateInv'
  BY <1>1, ResolveInv DEF Arrive
<1>2. ASSUME NEW o \in Askers, FetchFail(o) \/ FetchTimesOut(o) PROVE RateInv'
  BY <1>2, ResolveInv DEF FetchFail, FetchTimesOut
<1>3. CASE UNCHANGED rateVars
  BY <1>3 DEF rateVars, RateInv, RateTypeOK, OneFetch, Waiter, Worth, Recent
<1> QED
  BY <1>1, <1>2, <1>3, AskInv, PriceInv, EndAskInv, RateTickInv DEF RateNext, RateStep

LEMMA RateInvariant == RateSpec => []RateInv
<1>1. RateInv /\ [RateNext]_rateVars => RateInv'
  BY RateStepInv
<1> QED BY RateInitInv, <1>1, PTL DEF RateSpec

\* The rate cache's state keeps its type.
THEOREM RateTypesCorrect == RateSpec => []RateTypeOK
<1>1. RateInv => RateTypeOK
  BY DEF RateInv
<1> QED BY <1>1, RateInvariant, PTL

\* A rate that is returned is younger than the time-to-live and one fetch
\* together, unless the caller's own fetch failed.
THEOREM RatesAreRecent == RateSpec => []RateIsRecent
<1>1. RateInv => RateIsRecent
  BY DEF RateInv, Recent, RateIsRecent
<1> QED BY <1>1, RateInvariant, PTL

\* The fallback of a waiting caller is what the cache holds.
THEOREM FallbacksAreNewest == RateSpec => []FallbackIsNewest
<1>1. RateInv => FallbackIsNewest
  BY DEF RateInv, Waiter, FallbackIsNewest
<1> QED BY <1>1, RateInvariant, PTL
=============================================================================
