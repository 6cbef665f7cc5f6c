---------------------------- MODULE ServiceProofs ----------------------------
(***************************************************************************)
(* Proofs about the history, for any number of rows and any page size, and *)
(* about the process that the parts run in: it implements each of them, so *)
(* that what is proved of a part holds of the process, and in a session    *)
(* the wallet's knowledge of the mint only advances.                       *)
(***************************************************************************)
EXTENDS Service, KeysetCacheProofs, ExchangeRateProofs, CliSessionProofs, TLAPS,
        FiniteSetTheorems, WellFoundedInduction

-----------------------------------------------------------------------------
(* The history                                                             *)

\* The rows of S before p.
Below(S, p) == {q \in S : q < p}

LEMMA PlaceIs ==
  ASSUME NEW S \in SUBSET Rows, NEW p \in Rows
  PROVE  /\ Place(S, p) = Cardinality(Below(S, p)) /\ Place(S, p) \in Nat
         /\ IsFiniteSet(S) /\ IsFiniteSet(Below(S, p))
<1>1. IsFiniteSet(S)
  BY HistoryAssumption, FS_Subset
<1>2. Below(S, p) \in SUBSET S
  BY DEF Below
<1>3. IsFiniteSet(Below(S, p))
  BY <1>1, <1>2, FS_Subset
<1>4. Cardinality(Below(S, p)) \in Nat
  BY <1>3, FS_CardinalityType
<1> QED BY <1>1, <1>3, <1>4 DEF Place, Below

\* More rows, a later place.
LEMMA PlaceGrows ==
  ASSUME NEW S \in SUBSET Rows, NEW T \in SUBSET Rows, NEW p \in Rows,
         Below(S, p) \subseteq Below(T, p)
  PROVE  Place(S, p) <= Place(T, p)
<1>1. IsFiniteSet(Below(T, p))
  BY PlaceIs
<1>2. Cardinality(Below(S, p)) <= Cardinality(Below(T, p))
  BY <1>1, FS_Subset
<1> QED BY <1>2, PlaceIs

\* A set of places that is not empty has a first one.
LEMMA HasLeast ==
  ASSUME NEW T \in SUBSET Nat, T # {}
  PROVE  \E t \in T : \A q \in T : ~(q < t)
<1> DEFINE R == OpToRel(<, Nat)
<1>1. IsWellFoundedOn(R, Nat)
  BY NatLessThanWellFounded
<1>2. \A x, y \in Nat : <<x, y>> \in R <=> x < y
  BY DEF OpToRel
<1> HIDE DEF R
<1>3. \E t \in T : \A q \in T : ~(<<q, t>> \in R)
  BY <1>1, WFMin
<1> QED BY <1>2, <1>3

\* Cutting a list off after n rows drops no row before p, or leaves n before it.
LEMMA FirstKeeps ==
  ASSUME NEW S \in SUBSET Rows, NEW n \in Nat, NEW p \in Rows
  PROVE  \/ Below(First(S, n), p) = Below(S, p)
         \/ Place(First(S, n), p) >= n
<1> DEFINE F == First(S, n)  T == {q \in S : q < p /\ q \notin F}
<1>1. CASE T = {}
  BY <1>1 DEF Below, First
<1>2. CASE T # {}
  <2>1. T \in SUBSET Nat /\ F \in SUBSET Rows
    BY HistoryAssumption DEF First
  <2>2. PICK t \in T : \A q \in T : ~(q < t)
    BY <1>2, <2>1, HasLeast
  <2>3. t \in Rows /\ ~(Place(S, t) < n) /\ Place(S, t) \in Nat
    BY <2>2, PlaceIs DEF First
  <2>4. ASSUME NEW q \in Below(S, t) PROVE q \in Below(F, p)
    <3>1. q \in S /\ q < t /\ t < p /\ q \in Nat /\ t \in Nat /\ p \in Nat
      BY <2>1, <2>2, HistoryAssumption DEF Below
    <3>2. q < p /\ q \in F
      BY <2>2, <3>1
    <3> QED BY <3>2 DEF Below
  <2>5. Cardinality(Below(S, t)) <= Cardinality(Below(F, p))
    BY <2>1, <2>4, PlaceIs, FS_Subset
  <2> QED BY <2>1, <2>3, <2>5, PlaceIs
<1> QED BY <1>1, <1>2

\* What the page in the making is taken from: what a query has returned, and
\* the table as long as it has not been read.
Source ==
    (IF reading \in {"mints", "page"} THEN melts ELSE rows \cap Payments)
    \cup (IF reading \in {"melts", "page"} THEN mints ELSE rows \ Payments)

\* An operation not shown yet is not on an earlier page, and it is in reach of
\* the queries, or beyond the row that says there is more.
Ahead(p) ==
    /\ Place(Source, p) >= offset
    /\ p \in Source \/ Place(Source, p) >= Take

HistoryInv ==
    /\ HistoryTypeOK
    /\ old \subseteq rows
    /\ reading = "idle" => offset = 0
    /\ melts \subseteq rows /\ mints \subseteq rows
    /\ reading \in {"both", "melts", "mints", "page"} =>
         \A p \in old \ seen : Ahead(p)
    /\ NothingSkipped

LEMMA HistoryInitInv == HistoryInit => HistoryInv
  BY HistoryAssumption
  DEF HistoryInit, HistoryInv, HistoryTypeOK, NothingSkipped

LEMMA BeginHistoryInv == HistoryInv /\ BeginHistory => HistoryInv'
<1> SUFFICES ASSUME HistoryInv, BeginHistory PROVE HistoryInv'
  OBVIOUS
<1>1. Source' = rows /\ offset' = 0 /\ rows' = rows /\ old' = rows
      /\ reading' = "both" /\ UNCHANGED <<melts, mints, seen>>
  BY DEF BeginHistory, Source, HistoryInv
<1>2. HistoryTypeOK' /\ NothingSkipped'
  BY <1>1, HistoryAssumption DEF HistoryInv, HistoryTypeOK, NothingSkipped
<1>3. ASSUME NEW p \in old' \ seen' PROVE Ahead(p)'
  <2>1. Place(rows, p) \in Nat
    BY <1>1, <1>3, PlaceIs DEF HistoryInv, HistoryTypeOK
  <2>2. Place(Source, p)' = Place(rows, p)
    BY <1>1 DEF Place
  <2> QED BY <1>1, <1>3, <2>1, <2>2 DEF Ahead
<1> QED BY <1>1, <1>2, <1>3 DEF HistoryInv

\* A query, cut off, loses nobody's reach.
LEMMA CutKeeps ==
  ASSUME NEW S \in SUBSET Rows, NEW N \in SUBSET Rows, NEW p \in Rows,
         NEW n \in Nat, NEW m \in Nat, m <= n,
         Place(S \cup N, p) >= m, p \in S \cup N \/ Place(S \cup N, p) >= n
  PROVE  LET F == First(S, n) IN
         Place(F \cup N, p) >= m /\ (p \in F \cup N \/ Place(F \cup N, p) >= n)
<1> DEFINE F == First(S, n)
<1>1. F \in SUBSET S /\ F \in SUBSET Rows /\ F \cup N \in SUBSET Rows
      /\ S \cup N \in SUBSET Rows
  BY DEF First
<1>2. Place(F, p) <= Place(F \cup N, p) /\ Place(F, p) \in Nat /\ Place(F \cup N, p) \in Nat
  <2>1. Below(F, p) \subseteq Below(F \cup N, p)
    BY DEF Below
  <2> QED BY <1>1, <2>1, PlaceGrows, PlaceIs
<1>3. CASE Place(F, p) >= n
  BY <1>2, <1>3
<1>4. CASE Below(F, p) = Below(S, p)
  <2>1. Below(F \cup N, p) = Below(S \cup N, p)
    BY <1>4 DEF Below
  <2>2. Place(F \cup N, p) = Place(S \cup N, p)
    BY <1>1, <2>1, PlaceIs
  <2>3. Place(F, p) = Place(S, p)
    BY <1>1, <1>4, PlaceIs
  <2>4. p \in S => p \in F \/ Place(S, p) >= n
    BY <1>1, <1>2, <2>3 DEF First
  <2> QED BY <1>2, <2>2, <2>3, <2>4
<1> QED BY <1>3, <1>4, FirstKeeps

LEMMA OffsetType ==
  HistoryInv => offset \in Nat /\ Limit \in Nat \ {0} /\ Take \in Nat /\ offset <= Take
  BY HistoryAssumption DEF HistoryInv, HistoryTypeOK, Take

LEMMA ReadMeltsInv == HistoryInv /\ ReadMelts => HistoryInv'
<1> SUFFICES ASSUME HistoryInv, ReadMelts PROVE HistoryInv'
  OBVIOUS
<1> DEFINE S == rows \cap Payments
           N == IF reading = "melts" THEN mints ELSE rows \ Payments
<1>1. /\ reading \in {"both", "melts"} /\ reading' \in {"mints", "page"}
      /\ melts' = First(S, Take) /\ UNCHANGED <<rows, offset, mints, old, seen>>
  BY DEF ReadMelts
<1>2. Source = S \cup N
  BY <1>1 DEF Source
<1>3. Source' = melts' \cup N
  BY DEF ReadMelts, Source
<1>4. melts' \subseteq rows /\ rows \in SUBSET Rows /\ S \in SUBSET Rows
      /\ N \in SUBSET Rows
  BY <1>1 DEF First, HistoryInv, HistoryTypeOK
<1>5. HistoryTypeOK' /\ NothingSkipped'
  BY <1>1, <1>4 DEF HistoryInv, HistoryTypeOK, NothingSkipped
<1>6. ASSUME NEW p \in old' \ seen' PROVE Ahead(p)'
  <2>1. Ahead(p) /\ p \in Rows
    BY <1>1, <1>6 DEF HistoryInv, HistoryTypeOK
  <2>2. /\ Place(First(S, Take) \cup N, p) >= offset
        /\ p \in First(S, Take) \cup N \/ Place(First(S, Take) \cup N, p) >= Take
    BY <1>2, <1>4, <2>1, CutKeeps, OffsetType DEF Ahead
  <2>3. Place(Source, p)' = Place(Source', p) /\ Take' = Take
    BY <1>1 DEF Place, Take
  <2> QED BY <1>1, <1>3, <2>2, <2>3 DEF Ahead
<1> QED BY <1>1, <1>4, <1>5, <1>6 DEF HistoryInv

LEMMA ReadMintsInv == HistoryInv /\ ReadMints => HistoryInv'
<1> SUFFICES ASSUME HistoryInv, ReadMints PROVE HistoryInv'
  OBVIOUS
<1> DEFINE S == rows \ Payments
           N == IF reading = "mints" THEN melts ELSE rows \cap Payments
<1>1. /\ reading \in {"both", "mints"} /\ reading' \in {"melts", "page"}
      /\ mints' = First(S, Take) /\ UNCHANGED <<rows, offset, melts, old, seen>>
  BY DEF ReadMints
<1>2. Source = S \cup N
  BY <1>1 DEF Source
<1>3. Source' = mints' \cup N
  BY DEF ReadMints, Source
<1>4. mints' \subseteq rows /\ rows \in SUBSET Rows /\ S \in SUBSET Rows
      /\ N \in SUBSET Rows
  BY <1>1 DEF First, HistoryInv, HistoryTypeOK
<1>5. HistoryTypeOK' /\ NothingSkipped'
  BY <1>1, <1>4 DEF HistoryInv, HistoryTypeOK, NothingSkipped
<1>6. ASSUME NEW p \in old' \ seen' PROVE Ahead(p)'
  <2>1. Ahead(p) /\ p \in Rows
    BY <1>1, <1>6 DEF HistoryInv, HistoryTypeOK
  <2>2. /\ Place(First(S, Take) \cup N, p) >= offset
        /\ p \in First(S, Take) \cup N \/ Place(First(S, Take) \cup N, p) >= Take
    BY <1>2, <1>4, <2>1, CutKeeps, OffsetType DEF Ahead
  <2>3. Place(Source, p)' = Place(Source', p) /\ Take' = Take
    BY <1>1 DEF Place, Take
  <2> QED BY <1>1, <1>3, <2>2, <2>3 DEF Ahead
<1> QED BY <1>1, <1>4, <1>5, <1>6 DEF HistoryInv

\* Who is not shown by a page comes after it, and then there is more.
LEMMA PageShows ==
  ASSUME HistoryInv, NEW M \in SUBSET Rows, NEW p \in Rows,
         Place(M, p) >= offset, p \in M \/ Place(M, p) >= Take,
         p \notin Slice(M, offset, offset + Limit)
  PROVE  Place(M, p) >= offset + Limit /\ HasMore(M)
<1>1. /\ offset \in Nat /\ Limit \in Nat /\ Take = offset + Limit + 1
      /\ Place(M, p) \in Nat /\ Cardinality(M) \in Nat
      /\ Place(M, p) = Cardinality(Below(M, p))
  BY OffsetType, PlaceIs, FS_CardinalityType DEF Take
<1>2. Place(M, p) >= offset + Limit
  BY <1>1 DEF Slice
<1>3. CASE p \in M
  <2>1. Below(M, p) \in SUBSET (M \ {p})
    BY <1>3, HistoryAssumption DEF Below
  <2>2. IsFiniteSet(M \ {p}) /\ Cardinality(M \ {p}) = Cardinality(M) - 1
    BY <1>3, PlaceIs, FS_RemoveElement
  <2>3. Cardinality(Below(M, p)) <= Cardinality(M) - 1
    BY <2>1, <2>2, FS_Subset
  <2> QED BY <1>1, <1>2, <2>3 DEF HasMore
<1>4. CASE p \notin M
  <2>1. Below(M, p) \in SUBSET M
    BY DEF Below
  <2>2. Cardinality(Below(M, p)) <= Cardinality(M)
    BY <2>1, PlaceIs, FS_Subset
  <2> QED BY <1>1, <1>2, <1>4, <2>2 DEF HasMore
<1> QED BY <1>3, <1>4

LEMMA ShowPageInv == HistoryInv /\ ShowPage => HistoryInv'
<1> SUFFICES ASSUME HistoryInv, ShowPage PROVE HistoryInv'
  OBVIOUS
<1> DEFINE M == melts \cup mints
<1>1. /\ reading = "page" /\ melts' = {} /\ mints' = {}
      /\ rows' = rows /\ old' = old
      /\ seen' = seen \cup Slice(M, offset, offset + Limit)
  BY DEF ShowPage
<1>2. \/ ~HasMore(M) /\ reading' = "finished" /\ offset' = offset
      \/ HasMore(M) /\ reading' = "refused" /\ offset' = offset
      \/ /\ HasMore(M) /\ reading' = "both" /\ offset' = offset + Limit
         /\ offset + Limit <= MaxOffset
  BY DEF ShowPage, Admitted
<1>3. Source = M /\ M \in SUBSET rows /\ M \in SUBSET Rows /\ rows \in SUBSET Rows
  BY <1>1 DEF Source, HistoryInv, HistoryTypeOK
<1>4. ASSUME NEW p \in old' \ seen'
      PROVE  p \in Rows /\ Place(M, p) >= offset + Limit /\ HasMore(M)
  <2>1. p \in Rows /\ Ahead(p) /\ p \notin Slice(M, offset, offset + Limit)
    BY <1>1, <1>4 DEF HistoryInv, HistoryTypeOK
  <2> QED BY <1>3, <2>1, PageShows DEF Ahead
<1>5. NothingSkipped'
  BY <1>2, <1>4 DEF NothingSkipped
<1>6. HistoryTypeOK'
  <2>1. seen' \subseteq Rows
    BY <1>1, <1>3 DEF Slice, HistoryInv, HistoryTypeOK
  <2>2. offset' \in 0..MaxOffset
    BY <1>2, HistoryAssumption DEF HistoryInv, HistoryTypeOK
  <2> QED BY <1>1, <1>2, <2>1, <2>2 DEF HistoryInv, HistoryTypeOK
<1>7. ASSUME reading' = "both", NEW p \in old' \ seen' PROVE Ahead(p)'
  <2>1. Source' = rows /\ offset' = offset + Limit
    BY <1>1, <1>2, <1>7 DEF Source
  <2>2. Below(M, p) \subseteq Below(rows, p) /\ p \in rows
    BY <1>1, <1>3, <1>7 DEF Below, HistoryInv
  <2>3. Place(M, p) <= Place(rows, p) /\ Place(M, p) \in Nat /\ Place(rows, p) \in Nat
    BY <1>3, <1>4, <1>7, <2>2, PlaceGrows, PlaceIs
  <2>4. Place(Source, p)' = Place(rows, p)
    BY <2>1 DEF Place
  <2>5. Place(rows, p) >= offset + Limit
    BY <1>4, <1>7, <2>3, OffsetType
  <2> QED BY <2>1, <2>2, <2>4, <2>5 DEF Ahead
<1> QED BY <1>1, <1>2, <1>5, <1>6, <1>7 DEF HistoryInv

LEMMA NewRowInv ==
  ASSUME HistoryInv, NEW r \in Rows, NewRow(r)
  PROVE  HistoryInv'
<1>1. rows' = rows \cup {r} /\ UNCHANGED <<offset, reading, melts, mints, old, seen>>
  BY DEF NewRow
<1>2. Source \subseteq Source' /\ Source \in SUBSET Rows /\ Source' \in SUBSET Rows
  BY <1>1 DEF Source, HistoryInv, HistoryTypeOK
<1>3. ASSUME reading \in {"both", "melts", "mints", "page"}, NEW p \in old \ seen
      PROVE  Ahead(p)'
  <2>1. Ahead(p) /\ p \in Rows
    BY <1>3 DEF HistoryInv, HistoryTypeOK
  <2>2. Below(Source, p) \subseteq Below(Source', p)
    BY <1>2 DEF Below
  <2>3. Place(Source, p) <= Place(Source', p) /\ Place(Source, p) \in Nat
        /\ Place(Source', p) \in Nat
    BY <1>2, <2>1, <2>2, PlaceGrows, PlaceIs
  <2>4. Place(Source, p)' = Place(Source', p) /\ Take' = Take
    BY <1>1 DEF Place, Take
  <2> QED BY <1>1, <1>2, <2>1, <2>3, <2>4, OffsetType DEF Ahead
<1> QED BY <1>1, <1>3 DEF HistoryInv, HistoryTypeOK, NothingSkipped

LEMMA HistoryStepInv == HistoryInv /\ [HistoryNext]_historyVars => HistoryInv'
<1> SUFFICES ASSUME HistoryInv, [HistoryNext]_historyVars PROVE HistoryInv'
  OBVIOUS
<1>1. CASE UNCHANGED historyVars
  <2>1. UNCHANGED <<rows, offset, reading, melts, mints, old, seen>>
    BY <1>1 DEF historyVars
  <2>2. Source' = Source
    BY <2>1 DEF Source
  <2>3. \A p : Ahead(p)' <=> Ahead(p)
    BY <2>1, <2>2 DEF Ahead, Place, Take
  <2> QED BY <2>1, <2>3 DEF HistoryInv, HistoryTypeOK, NothingSkipped
<1> QED
  BY <1>1, BeginHistoryInv, ReadMeltsInv, ReadMintsInv, ShowPageInv, NewRowInv
  DEF HistoryNext, HistoryStep

LEMMA HistoryInvariant == HistorySpec => []HistoryInv
<1>1. HistoryInv /\ [HistoryNext]_historyVars => HistoryInv'
  BY HistoryStepInv
<1> QED BY HistoryInitInv, <1>1, PTL DEF HistorySpec

\* A client that pages to the end has been shown what was there when it began.
THEOREM HistoryComplete == HistorySpec => []NothingSkipped
<1>1. HistoryInv => NothingSkipped
  BY DEF HistoryInv
<1> QED BY <1>1, HistoryInvariant, PTL

-----------------------------------------------------------------------------
(* The process implements its parts                                        *)

LEMMA StepsOfParts ==
  ASSUME [Next]_vars
  PROVE  [KeysNext]_keysVars /\ [RateNext]_rateVars /\ [CliNext]_cliVars
         /\ [HistoryNext]_historyVars
<1>1. CASE SessionActs
  <2>1. UNCHANGED rateVars /\ UNCHANGED historyVars
    BY <1>1 DEF SessionActs
  <2>2. CASE CliStep /\ UNCHANGED keysVars
    BY <2>1, <2>2 DEF CliNext
  <2>3. ASSUME NEW n \in Commands, Work(n)
        PROVE  [KeysNext]_keysVars /\ [CliNext]_cliVars
    <3>1. n \in Callers /\ 0 \in 0..Unlisted
      BY ServiceAssumption, KeysetAssumption DEF Unlisted
    <3>2. CASE BeginKeys(n, 0) /\ UNCHANGED cliVars
      BY <3>1, <3>2 DEF KeysNext
    <3>3. CASE WorkDone(n) /\ UNCHANGED keysVars
      BY <3>3 DEF CliNext
    <3> QED BY <2>3, <3>2, <3>3 DEF Work
  <2> QED BY <1>1, <2>1, <2>2, <2>3 DEF SessionActs
<1>2. CASE RequestsWallet
  <2>1. UNCHANGED rateVars /\ UNCHANGED cliVars /\ UNCHANGED historyVars
    BY <1>2 DEF RequestsWallet
  <2>2. 0 \in 0..Unlisted
    BY KeysetAssumption DEF Unlisted
  <2> QED BY <1>2, <2>1, <2>2 DEF RequestsWallet, KeysNext
<1>3. CASE RequestsRate
  BY <1>3, ServiceAssumption DEF RequestsRate, RateNext
<1>4. CASE RequestsHistory
  BY <1>4 DEF RequestsHistory
<1>5. CASE KeysAct
  BY <1>5 DEF KeysAct, KeysNext
<1>6. CASE RatesAct
  BY <1>6 DEF RatesAct, RateNext
<1>7. CASE Tick
  BY <1>7 DEF Tick, KeysNext, RateNext
<1>8. CASE UNCHANGED vars
  BY <1>8 DEF vars
<1> QED BY <1>1, <1>2, <1>3, <1>4, <1>5, <1>6, <1>7, <1>8 DEF Next

\* The process is each of its parts, seen through its variables.
THEOREM Composition == Spec => KeysSpec /\ RateSpec /\ CliSpec /\ HistorySpec
<1>1. Init => KeysInit /\ RateInit /\ CliInit /\ HistoryInit
  BY DEF Init
<1>2. [Next]_vars => [KeysNext]_keysVars /\ [RateNext]_rateVars
                       /\ [CliNext]_cliVars /\ [HistoryNext]_historyVars
  BY StepsOfParts
<1> QED BY <1>1, <1>2, PTL DEF Spec, KeysSpec, RateSpec, CliSpec, HistorySpec

\* All of the process's state keeps its type.
THEOREM TypesCorrect == Spec => []TypeOK
<1> DEFINE ModeOK == mode \in {"cli", "api"} /\ route \in [Callers -> Routes]
<1>1. Init => ModeOK
  BY ServiceAssumption DEF Init, Routes
<1>2. ModeOK /\ [Next]_vars => ModeOK'
  BY DEF Next, SessionActs, RequestsWallet, RequestsRate, RequestsHistory, KeysAct,
     RatesAct, Tick, vars
<1>3. Spec => []ModeOK
  BY <1>1, <1>2, PTL DEF Spec
<1>4. HistoryInv => HistoryTypeOK
  BY DEF HistoryInv
<1>5. ModeOK /\ KeysTypeOK /\ RateTypeOK /\ CliTypeOK /\ HistoryTypeOK => TypeOK
  BY DEF TypeOK
<1> QED
  BY <1>3, <1>4, <1>5, Composition, KeysTypesCorrect, RateTypesCorrect,
     CliTypesCorrect, HistoryInvariant, PTL

\* What is proved of the parts holds of the process.
THEOREM PartsKeepTheirPromises ==
  Spec => /\ []RefusedForCause /\ HandedIsUsable /\ HandedIsRecent
          /\ []RateIsRecent /\ []FallbackIsNewest
          /\ []LinesPair /\ []OneAtATime /\ DrainedFirst
          /\ []NothingSkipped
  BY Composition, RefusalsHaveCause, HandedUsable, HandedRecent, RatesAreRecent,
     FallbacksAreNewest, LinesMatch, CommandsExclude, SessionDrains,
     HistoryComplete, PTL

-----------------------------------------------------------------------------
(* In a session one load at a time is under way                            *)

\* What a call's load, if it has one, will do to the cached view.
Fits(c) ==
    /\ kpc[c] = "create" => entry = Absent
    /\ kpc[c] \in {"refresh", "retry"} => job[c].on = entry
    /\ job[c].answer # Absent =>
         /\ kpc[c] \in Awaiting /\ job[c].answer.view.known <= listed
         /\ entry # Absent => inst[entry].view.known <= job[c].answer.view.known

\* Only the command at work calls the wallet.
AtWork(c) == kpc[c] # "idle" => c \in Commands /\ cmd[c].at = "work"

SessionInv ==
    mode = "cli" =>
        /\ \A c \in Callers : AtWork(c) /\ Fits(c)
        /\ entry # Absent => inst[entry].view.known <= listed

\* The view that is cached after a step is no older than the one before.
Advanced ==
    entry # Absent =>
        entry' = entry /\ inst'[entry].view.known >= inst[entry].view.known

LEMMA Alone ==
  ASSUME CliInv, SessionInv, mode = "cli", NEW c \in Callers, NEW d \in Callers,
         c # d, kpc[c] # "idle"
  PROVE  kpc[d] = "idle"
<1> SUFFICES ASSUME kpc[d] # "idle" PROVE FALSE
  OBVIOUS
<1>1. /\ c \in Commands /\ d \in Commands
      /\ cmd[c].at = "work" /\ cmd[d].at = "work"
  BY DEF SessionInv, AtWork
<1>2. c < d \/ d < c
  BY <1>1, CliAssumption DEF Commands
<1> QED BY <1>1, <1>2 DEF CliInv, OneAtATime

\* The call of the command at work goes on: the others are idle.
LEMMA CallFits ==
  ASSUME SessionInv, mode = "cli", mode' = mode, UNCHANGED <<cmd, listed>>,
         NEW c \in Callers, c \in Commands, cmd[c].at = "work",
         \A d \in Callers \ {c} : kpc[d] = "idle", Others(c),
         Fits(c)', entry' # Absent => inst'[entry'].view.known <= listed
  PROVE  SessionInv'
<1>1. \A d \in Callers \ {c} : Fits(d)'
  BY DEF SessionInv, Fits, Awaiting, Others
<1>2. \A d \in Callers : AtWork(d)'
  BY DEF AtWork, Others
<1> QED BY <1>1, <1>2 DEF SessionInv

LEMMA CallAdvances ==
  ASSUME KeysInv, CliInv, SessionInv, mode = "cli", mode' = mode,
         UNCHANGED <<cmd>>, NEW c \in Callers,
         \/ AnswerKeys(c) \/ MintGives(c) \/ EndKeys(c)
         \/ BeginKeys(c, 0) /\ c \in Commands /\ cmd[c].at = "work"
  PROVE  SessionInv' /\ Advanced
<1>1. \/ kpc[c] # "idle"
      \/ kpc[c] = "idle" /\ BeginKeys(c, 0) /\ c \in Commands /\ cmd[c].at = "work"
  BY DEF AnswerKeys, Created, CreateFail, Refreshed, RefreshFail, Retried, RetryFail,
     MintGives, Awaiting, EndKeys, BeginKeys
<1>2. c \in Commands /\ cmd[c].at = "work"
  BY <1>1 DEF SessionInv, AtWork
<1>3. ASSUME NEW d \in Callers \ {c} PROVE kpc[d] = "idle"
  <2>1. CASE kpc[c] # "idle"
    BY <1>3, <2>1, Alone
  <2>2. CASE kpc[c] = "idle"
    <3> SUFFICES ASSUME kpc[d] # "idle" PROVE FALSE
      OBVIOUS
    <3>1. d \in Commands /\ cmd[d].at = "work"
      BY DEF SessionInv, AtWork
    <3>2. c < d \/ d < c
      BY <1>2, <1>3, <3>1, CliAssumption DEF Commands
    <3> QED BY <1>2, <3>1, <3>2 DEF CliInv, OneAtATime
  <2> QED BY <2>1, <2>2
<1>4. Fits(c) /\ (entry # Absent => inst[entry].view.known <= listed)
  BY DEF SessionInv
<1>5. /\ kpc \in [Callers -> KeyLabels] /\ job \in [Callers -> Jobs]
      /\ inst \in [Callers -> Instances] /\ entry \in Callers \cup {Absent}
      /\ listed \in Nat
  BY KeysetAssumption DEF KeysInv, KeysTypeOK, Keysets
<1>6. \A x \in Callers : inst[x].view.known \in Nat
  BY <1>5, KeysetAssumption DEF Instances, Views
<1>7. CASE BeginKeys(c, 0)
  <2>1. UNCHANGED <<mintKeys, entry, inst>> /\ Others(c)
    BY <1>5, <1>7 DEF BeginKeys, Give, Others
  <2>2. job'[c].answer = Absent
    BY <1>5, <1>7 DEF BeginKeys, Give, Asking
  <2>3. kpc'[c] = "create" => entry = Absent
    BY <1>5, <1>7 DEF BeginKeys, Give
  <2>4. kpc'[c] \in {"refresh", "retry"} => job'[c].on = entry'
    BY <1>5, <1>7, <2>1 DEF BeginKeys, Give, Asking
  <2>5. Fits(c)'
    BY <2>1, <2>2, <2>3, <2>4 DEF Fits
  <2>6. Advanced
    BY <1>5, <1>6, <2>1 DEF Advanced
  <2> QED BY <1>2, <1>3, <1>4, <2>1, <2>5, <2>6, CallFits DEF mintKeys
<1>8. CASE Created(c)
  <2>1. entry = Absent /\ entry' = c /\ UNCHANGED mintKeys
    BY <1>4, <1>8 DEF Created, Fits
  <2>2. Give(c, job[c].token, c, FALSE)
    BY <1>8 DEF Created
  <2>3. job'[c].answer = Absent /\ Others(c) /\ kpc'[c] # "create"
        /\ (kpc'[c] \in {"refresh", "retry"} => job'[c].on = entry')
    BY <1>5, <2>1, <2>2 DEF Give, Asking, Others, Knows
  <2>4. inst'[c].view = job[c].answer.view
    BY <1>5, <1>8 DEF Created, Loaded
  <2>5. job[c].answer.view.known <= listed
    BY <1>4, <1>8 DEF Created, Fits
  <2>6. Fits(c)' /\ Advanced
    BY <2>1, <2>3 DEF Fits, Advanced
  <2> QED BY <1>2, <1>3, <2>1, <2>3, <2>4, <2>5, <2>6, CallFits DEF mintKeys
<1>9. CASE CreateFail(c) \/ RetryFail(c) \/ (RefreshFail(c) /\ Refuse(c))
  <2>1. UNCHANGED <<mintKeys, entry, inst>> /\ Refuse(c)
    BY <1>9 DEF CreateFail, RetryFail, RefreshFail
  <2>2. kpc'[c] = "refused" /\ job'[c].answer = Absent /\ Others(c)
    BY <2>1, RefuseIs DEF KeysInv
  <2>3. Fits(c)'
    BY <2>2 DEF Fits
  <2>4. Advanced
    BY <1>5, <1>6, <2>1 DEF Advanced
  <2> QED BY <1>2, <1>3, <1>4, <2>1, <2>2, <2>3, <2>4, CallFits DEF mintKeys
<1>10. CASE RefreshFail(c) /\ ~Refuse(c)
  <2>1. UNCHANGED <<mintKeys, entry, inst>> /\ Give(c, job[c].token, job[c].on, TRUE)
    BY <1>10 DEF RefreshFail
  <2>2. job'[c].answer = Absent /\ Others(c) /\ kpc'[c] \in {"given", "retry"}
        /\ (kpc'[c] \in {"refresh", "retry"} => job'[c].on = entry')
    <3>1. 0 <= inst'[entry'].view.known
      BY <1>5, <1>6, <1>10, <2>1 DEF RefreshFail, KeysInv, Held
    <3> QED BY <1>5, <2>1, <3>1 DEF Give, Asking, Others, Knows
  <2>3. Fits(c)'
    BY <2>2 DEF Fits
  <2>4. Advanced
    BY <1>5, <1>6, <2>1 DEF Advanced
  <2> QED BY <1>2, <1>3, <1>4, <2>1, <2>2, <2>3, <2>4, CallFits DEF mintKeys
<1>11. CASE Refreshed(c) \/ Retried(c)
  <2> DEFINE o == job[c].on
  <2>1. kpc[c] \in {"refresh", "retry"} /\ Refresh(c, o)
    BY <1>11 DEF Refreshed, Retried
  <2>2. /\ o \in Callers /\ UNCHANGED <<mintKeys, entry>>
        /\ job[c].answer \in Answers /\ inst'[o].view = job[c].answer.view
        /\ inst' \in [Callers -> Instances] /\ entry \in Callers
    BY <2>1, RefreshIs
  <2>3. o = entry /\ job[c].answer # Absent
    BY <1>4, <2>1 DEF Fits, Refresh
  <2>4. /\ inst'[entry].view.known >= inst[entry].view.known
        /\ inst'[entry].view.known <= listed
    BY <1>4, <1>5, <1>6, <2>2, <2>3, KeysetAssumption DEF Fits, Answers, Views
  <2>5. job'[c].answer = Absent /\ Others(c)
        /\ kpc'[c] \in {"given", "retry", "refused"}
        /\ (kpc'[c] = "retry" => job'[c].on = entry')
    <3>1. CASE Refuse(c)
      BY <1>5, <3>1 DEF Refuse, Asking, Others
    <3>2. CASE Give(c, job[c].token, o, FALSE)
      BY <1>5, <2>2, <2>3, <3>2 DEF Give, Asking, Others
    <3>3. CASE /\ kpc' = [kpc EXCEPT ![c] = IF Knows(inst'[o], job[c].token)
                                           THEN "given" ELSE "refused"]
               /\ job' = [job EXCEPT ![c] = Answered(job[c], Absent)]
      BY <1>5, <3>3 DEF Answered, Others
    <3> QED BY <1>11, <3>1, <3>2, <3>3 DEF Refreshed, Retried
  <2>6. Fits(c)' /\ Advanced
    BY <2>2, <2>4, <2>5 DEF Fits, Advanced
  <2> QED BY <1>2, <1>3, <2>2, <2>4, <2>5, <2>6, CallFits DEF mintKeys
<1>12. CASE MintGives(c)
  <2> DEFINE a == [view |-> [known |-> listed, live |-> active], delay |-> 0]
  <2>1. UNCHANGED <<mintKeys, entry, inst, kpc>> /\ Others(c)
    BY <1>5, <1>12 DEF MintGives, Others
  <2>2. job'[c].answer = a /\ job'[c].on = job[c].on /\ kpc[c] \in Awaiting
    BY <1>5, <1>12 DEF MintGives, Answered
  <2>3. Fits(c)'
    BY <1>4, <1>5, <2>1, <2>2 DEF Fits, mintKeys
  <2>4. Advanced
    BY <1>5, <1>6, <2>1 DEF Advanced
  <2> QED BY <1>2, <1>3, <1>4, <2>1, <2>3, <2>4, CallFits DEF mintKeys
<1>13. CASE EndKeys(c)
  <2>1. UNCHANGED <<mintKeys, entry>> /\ Others(c)
        /\ kpc'[c] = "idle" /\ job'[c].answer = Absent
    BY <1>5, <1>13 DEF EndKeys, Others, NoJob
  <2>2. entry # Absent => inst'[entry] = inst[entry]
    BY <1>5, <1>13 DEF EndKeys
  <2>3. Fits(c)'
    BY <2>1 DEF Fits
  <2>4. Advanced
    BY <1>5, <1>6, <2>1, <2>2 DEF Advanced
  <2>5. entry' # Absent => inst'[entry'].view.known <= listed
    BY <1>4, <2>1, <2>2
  <2> QED BY <1>2, <1>3, <2>1, <2>3, <2>4, <2>5, CallFits DEF mintKeys
<1> QED
  BY <1>7, <1>8, <1>9, <1>10, <1>11, <1>12, <1>13 DEF AnswerKeys

\* A step that touches neither the calls nor the instances' views.
LEMMA BesideFits ==
  ASSUME KeysInv, SessionInv, mode = "cli", mode' = mode,
         UNCHANGED <<entry, kpc>>, listed' \in Nat, listed <= listed',
         \A x \in Callers : inst'[x].view = inst[x].view,
         \A c \in Callers :
            /\ job'[c].on = job[c].on
            /\ job'[c].answer # Absent =>
                 job[c].answer # Absent /\ job'[c].answer.view = job[c].answer.view,
         \A c \in Callers : AtWork(c)'
  PROVE  SessionInv' /\ Advanced
<1>1. /\ inst \in [Callers -> Instances] /\ entry \in Callers \cup {Absent}
      /\ listed \in Nat /\ job \in [Callers -> Jobs]
  BY KeysetAssumption DEF KeysInv, KeysTypeOK, Keysets
<1>2. \A x \in Callers : inst[x].view.known \in Nat
  BY <1>1, KeysetAssumption DEF Instances, Views
<1>3. ASSUME NEW c \in Callers, job[c].answer # Absent
      PROVE  job[c].answer.view.known \in Nat
  BY <1>1, <1>3, KeysetAssumption DEF Jobs, Answers, Views
<1>4. Advanced
  BY <1>1, <1>2 DEF Advanced
<1>5. ASSUME NEW c \in Callers PROVE Fits(c)'
  BY <1>1, <1>2, <1>3 DEF SessionInv, Fits
<1>6. entry' # Absent => inst'[entry'].view.known <= listed'
  BY <1>1, <1>2 DEF SessionInv
<1> QED BY <1>4, <1>5, <1>6 DEF SessionInv

LEMMA SessionStep ==
  ASSUME KeysInv, CliInv, SessionInv, mode = "cli", [Next]_vars
  PROVE  SessionInv' /\ Advanced
<1> DEFINE Same ==
      /\ \A x \in Callers : inst'[x].view = inst[x].view
      /\ \A c \in Callers :
            /\ job'[c].on = job[c].on
            /\ job'[c].answer # Absent =>
                 job[c].answer # Absent /\ job'[c].answer.view = job[c].answer.view
<1>1. mode' = mode
  BY DEF Next, SessionActs, RequestsWallet, RequestsRate, RequestsHistory, KeysAct,
     RatesAct, Tick, vars
<1>2. listed \in Nat /\ \A c \in Callers : AtWork(c)
  BY KeysetAssumption DEF KeysInv, KeysTypeOK, Keysets, SessionInv
<1>3. CASE UNCHANGED keysVars /\ \A c \in Callers : AtWork(c)'
  <2>1. UNCHANGED <<entry, kpc, listed>> /\ Same
    BY <1>3 DEF keysVars, mintKeys
  <2>2. listed' \in Nat /\ listed <= listed'
    BY <1>2, <2>1
  <2> QED BY <1>1, <1>3, <2>1, <2>2, BesideFits
<1>4. CASE SessionActs
  <2>1. CASE CliStep /\ UNCHANGED keysVars
    <3>1. ASSUME NEW n \in Commands, cmd[n].at = "work" PROVE cmd'[n] = cmd[n]
      <4>1. ASSUME NEW kind \in Kinds, AcceptLine(kind) PROVE cmd'[n] = cmd[n]
        <5>1. currentOp + 1 \in Commands /\ currentOp \in Nat
          BY <4>1, CliAssumption DEF AcceptLine, CliInv, CliTypeOK
        <5>2. cmd[currentOp + 1].at = "absent"
          BY <5>1 DEF CliInv, Chained
        <5> QED BY <3>1, <4>1, <5>2 DEF AcceptLine, CliInv, CliTypeOK
      <4>2. ASSUME NEW m \in Commands, RunCommand(m) PROVE cmd'[n] = cmd[n]
        <5>1. m # n
          BY <3>1, <4>2 DEF RunCommand, StartCommand, QueryDone, LookupDone
        <5> QED
          BY <4>2, <5>1 DEF RunCommand, StartCommand, QueryDone, LookupDone,
             AnswerLine, MoveTo, Move, CliInv, CliTypeOK
      <4>3. CASE Close \/ Disconnect \/ EndSession
        BY <4>3 DEF Close, Disconnect, EndSession
      <4> QED BY <2>1, <4>1, <4>2, <4>3 DEF CliStep
    <3>2. \A c \in Callers : AtWork(c)'
      BY <1>2, <2>1, <3>1 DEF AtWork, keysVars
    <3> QED BY <1>3, <2>1, <3>2
  <2>2. ASSUME NEW n \in Commands, cmd[n].at = "work", Work(n)
        PROVE  SessionInv' /\ Advanced
    <3>1. n \in Callers
      BY ServiceAssumption
    <3>2. CASE BeginKeys(n, 0) /\ UNCHANGED cliVars
      <4>1. UNCHANGED <<cmd>>
        BY <3>2 DEF cliVars
      <4> QED BY <1>1, <2>2, <3>1, <3>2, <4>1, CallAdvances
    <3>3. CASE kpc[n] = "idle" /\ WorkDone(n) /\ UNCHANGED keysVars
      <4>1. \A m \in Commands \ {n} : cmd'[m] = cmd[m]
        BY <3>3 DEF WorkDone, AnswerLine, Move, CliInv, CliTypeOK
      <4>2. \A c \in Callers : AtWork(c)'
        BY <1>2, <3>3, <4>1 DEF AtWork, keysVars
      <4> QED BY <1>3, <3>3, <4>2
    <3> QED BY <2>2, <3>2, <3>3 DEF Work
  <2> QED BY <1>4, <2>1, <2>2 DEF SessionActs
<1>5. CASE KeysAct
  <2>1. UNCHANGED <<cmd>>
    BY <1>5 DEF KeysAct, cliVars
  <2>2. ASSUME NEW c \in Callers, AnswerKeys(c) \/ MintGives(c) \/ EndKeys(c)
        PROVE  SessionInv' /\ Advanced
    BY <1>1, <2>1, <2>2, CallAdvances
  <2>3. CASE Rotate \/ \E k \in Keysets : ExpireKeyset(k)
    <3>1. UNCHANGED <<entry, kpc, inst, job>> /\ (listed' = listed \/ listed' = listed + 1)
      BY <2>3 DEF Rotate, ExpireKeyset
    <3>2. listed' \in Nat /\ listed <= listed' /\ Same
      BY <1>2, <3>1
    <3>3. \A c \in Callers : AtWork(c)'
      BY <1>2, <2>1, <3>1 DEF AtWork
    <3> QED BY <1>1, <3>1, <3>2, <3>3, BesideFits
  <2> QED BY <1>5, <2>2, <2>3 DEF KeysAct, KeysStep
<1>6. CASE Tick
  <2>1. KeysTick /\ UNCHANGED <<cmd>>
    BY <1>6 DEF Tick, cliVars
  <2>2. Same
    BY <2>1, TickIs
  <2>3. UNCHANGED <<entry, kpc, listed>>
    BY <2>1 DEF KeysTick, mintKeys
  <2>4. \A c \in Callers : AtWork(c)'
    BY <1>2, <2>1, <2>3 DEF AtWork
  <2>5. listed' \in Nat /\ listed <= listed'
    BY <1>2, <2>3
  <2> QED BY <1>1, <2>2, <2>3, <2>4, <2>5, BesideFits
<1>7. CASE RequestsRate \/ RequestsHistory \/ RatesAct \/ UNCHANGED vars
  <2>1. UNCHANGED keysVars /\ UNCHANGED <<cmd>>
    BY <1>7 DEF RequestsRate, RequestsHistory, RatesAct, vars, cliVars
  <2>2. \A c \in Callers : AtWork(c)'
    BY <1>2, <2>1 DEF AtWork, keysVars
  <2> QED BY <1>3, <2>1, <2>2
<1>8. ~RequestsWallet
  BY DEF RequestsWallet
<1> QED BY <1>4, <1>5, <1>6, <1>7, <1>8 DEF Next

\* Every session's view of the mint advances, whatever the mint's answers.
THEOREM ViewAdvances == Spec => CliViewAdvances
<1>1. Init => SessionInv
  BY DEF Init, KeysInit, SessionInv, AtWork, Fits, NoJob
<1>2. KeysInv /\ CliInv /\ SessionInv /\ [Next]_vars => SessionInv'
  <2> SUFFICES ASSUME KeysInv, CliInv, SessionInv, [Next]_vars PROVE SessionInv'
    OBVIOUS
  <2>1. CASE mode = "cli"
    BY <2>1, SessionStep
  <2>2. CASE mode # "cli"
    BY <2>2 DEF SessionInv, Next, SessionActs, RequestsWallet, RequestsRate,
       RequestsHistory, KeysAct, RatesAct, Tick, vars
  <2> QED BY <2>1, <2>2
<1>3. KeysInv /\ CliInv /\ SessionInv /\ [Next]_vars =>
        [mode = "cli" /\ entry # Absent =>
           /\ entry' = entry
           /\ inst'[entry].view.known >= inst[entry].view.known]_vars
  BY SessionStep DEF Advanced
<1>4. Spec => []KeysInv /\ []CliInv
  BY Composition, KeysInvariant, CliInvariant, PTL
<1>5. Spec => []SessionInv
  BY <1>1, <1>2, <1>4, PTL DEF Spec
<1> QED BY <1>3, <1>4, <1>5, PTL DEF Spec, CliViewAdvances
=============================================================================
