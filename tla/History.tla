------------------------------ MODULE History ------------------------------
(***************************************************************************)
(* GET /v1/wallet/transactions in src/routes/protectedRoutes.ts: the       *)
(* history of payments and receives, read page by page by a client while   *)
(* other processes go on creating operations.                              *)
(*                                                                         *)
(* A row is known by its place in the order of the answer (newest first,   *)
(* then type, then intent): rows are numbers, 1 the first.  Which numbers  *)
(* are payments is arbitrary, and a new row may appear at any place.       *)
(***************************************************************************)
EXTENDS Naturals, FiniteSets

CONSTANTS
    Rows,       \* the places at which there may ever be a row
    Payments,   \* those of MeltOperation; the others are of MintOperation
    Limit,      \* rows per page
    MaxOffset   \* largest offset that the route's schema admits

ASSUME HistoryAssumption ==
    /\ Rows \subseteq Nat /\ IsFiniteSet(Rows) /\ Payments \subseteq Rows
    /\ Limit \in Nat \ {0} /\ MaxOffset \in Nat

VARIABLES
    rows,           \* the rows in the database
    offset, reading,     \* the client's page, and its request's next step
    melts, mints,   \* what the two queries of the request returned
    old, seen       \* rows there when the client began; rows it was shown

historyVars == <<rows, offset, reading, melts, mints, old, seen>>

HistoryInit ==
    /\ rows \in SUBSET Rows
    /\ offset = 0 /\ reading = "idle"
    /\ melts = {} /\ mints = {}
    /\ old = {} /\ seen = {}

-----------------------------------------------------------------------------
\* How many rows of S come before p.
Place(S, p) == Cardinality({q \in S : q < p})

First(S, n) == {p \in S : Place(S, p) < n}      \* orderBy ..., take: n
Slice(S, m, n) == {p \in S : m <= Place(S, p) /\ Place(S, p) < n}

TakePage == Limit + 1       \* broken variant: enough for the first page only
Take == offset + Limit + 1

\* The client begins to read, at offset 0.
BeginHistory ==
    /\ reading = "idle"
    /\ old' = rows
    /\ reading' = "both"
    /\ UNCHANGED <<rows, offset, melts, mints, seen>>

\* Promise.all: the two queries run in either order.
ReadMelts ==
    /\ reading \in {"both", "melts"}
    /\ melts' = First(rows \cap Payments, Take)
    /\ reading' = IF reading = "both" THEN "mints" ELSE "page"
    /\ UNCHANGED <<rows, offset, mints, old, seen>>

ReadMints ==
    /\ reading \in {"both", "mints"}
    /\ mints' = First(rows \ Payments, Take)
    /\ reading' = IF reading = "both" THEN "melts" ELSE "page"
    /\ UNCHANGED <<rows, offset, melts, old, seen>>

\* The schema's maximum; broken variant: there is none.
AdmittedAny(o) == TRUE
Admitted(o) == o <= MaxOffset

HasMore(S) == Cardinality(S) > offset + Limit

\* Merge, sort, slice.  The client goes on while there is more, if it may.
ShowPage ==
    LET merged == melts \cup mints IN
    /\ reading = "page"
    /\ seen' = seen \cup Slice(merged, offset, offset + Limit)
    /\ melts' = {} /\ mints' = {}
    /\ IF ~HasMore(merged)
       THEN reading' = "finished" /\ UNCHANGED offset
       ELSE IF ~Admitted(offset + Limit)
       THEN reading' = "refused" /\ UNCHANGED offset
       ELSE reading' = "both" /\ offset' = offset + Limit
    /\ UNCHANGED <<rows, old>>

\* An operation is prepared by another process.
NewRow(p) ==
    /\ p \in Rows \ rows
    /\ rows' = rows \cup {p}
    /\ UNCHANGED <<offset, reading, melts, mints, old, seen>>

HistoryStep == BeginHistory \/ ReadMelts \/ ReadMints \/ ShowPage

HistoryNext == HistoryStep \/ \E p \in Rows : NewRow(p)

HistorySpec == HistoryInit /\ [][HistoryNext]_historyVars

-----------------------------------------------------------------------------
(* Properties                                                              *)

HistoryTypeOK ==
    /\ rows \subseteq Rows /\ offset \in 0..MaxOffset
    /\ reading \in {"idle", "both", "melts", "mints", "page", "finished", "refused"}
    /\ melts \subseteq Rows /\ mints \subseteq Rows
    /\ old \subseteq Rows /\ seen \subseteq Rows

\* A client that reads until there is no more has been shown every operation
\* that existed when it began, although the two tables are read at different
\* times and rows are inserted at any time and place.
NothingSkipped == reading = "finished" => old \subseteq seen
=============================================================================
