-------------------------------- MODULE LastN --------------------------------
(***************************************************************************)
(* getLastNQueryResults (app/vtstorage/lastnoptimization.go): the newest   *)
(* Limit rows of a query, found by halving the time range until it holds   *)
(* fewer than twice the rows that are missing, and then reaching back.     *)
(*                                                                         *)
(* Rows are told apart by their _time only: a set of rows is a bag, a      *)
(* function from times to counts.  Rows are stored while the search runs.  *)
(***************************************************************************)
EXTENDS Integers, FiniteSets, Functions

CONSTANTS
    Times,     \* timestamps of rows, in nanoseconds
    First,     \* the time filter of the query is First..Last
    Last,
    Limit,     \* offset+limit of the query
    Second,    \* nsecsPerSecond, the grain below which halving does not pay
    MaxRows,   \* bound: rows stored before the search
    MaxSame,   \* bound: of them with one timestamp
    MaxLate    \* bound: rows stored during the search

ASSUME LastNAssumption ==
    /\ Times \subseteq Nat /\ First \in Nat /\ Last \in Nat /\ Times \subseteq First..Last
    /\ Limit \in Nat \ {0} /\ Second \in Nat \ {0}
    /\ MaxRows \in Nat /\ MaxSame \in Nat /\ MaxLate \in Nat

VARIABLES
    rows,          \* stored rows that match the query
    phase,         \* "first", "search", "done" or "failed"
    start, end,    \* the range under search, [start ... end)
    n,             \* rows still missing
    found,         \* rowsFound
    lastNonEmpty,  \* lastNonEmptyRows
    returned,      \* rows returned
    path,          \* history: which return was taken
    known          \* history: rows stored when the search began

lastNVars == <<rows, phase, start, end, n, found, lastNonEmpty, returned, path, known>>

None == [t \in Times |-> 0]
Size(b) == SumFunction(b)
Plus(a, b) == [t \in Times |-> a[t] + b[t]]
Bags(size, same) == {b \in [Times -> 0..same] : Size(b) <= size}

LastNInit ==
    /\ rows \in Bags(MaxRows, MaxSame)
    /\ phase = "first"
    /\ start = First
    /\ end = Last
    /\ n = Limit
    /\ found = None
    /\ lastNonEmpty = None
    /\ returned = None
    /\ path = "none"
    /\ known = rows

-----------------------------------------------------------------------------
(* Queries.  The filter of the original query stays in force.              *)

RowsIn(from, to) == [t \in Times |-> IF from <= t /\ t <= to THEN rows[t] ELSE 0]

(* "offset 0 | limit k" without a sort returns any k of the rows.          *)
Limited(b, k) ==
    IF Size(b) <= k THEN {b}
    ELSE LET S == {t \in Times : b[t] > 0}
             Cuts == {c \in [S -> 0..k] : Size(c) = k /\ \A t \in S : c[t] <= b[t]}
         IN  {[t \in Times |-> IF t \in S THEN c[t] ELSE 0] : c \in Cuts}

(* Variant: the rows are cut from the oldest end.                          *)
OldestOf(b, k) ==
    [t \in Times |->
        LET older == SumFunctionOnSet(b, {u \in Times : u < t})
        IN  IF older >= k THEN 0 ELSE IF older + b[t] <= k THEN b[t] ELSE k - older]

(* getLastNRows: the k rows with the biggest timestamps.                   *)
NewestOf(b, k) ==
    [t \in Times |->
        LET newer == SumFunctionOnSet(b, {u \in Times : u > t})
        IN  IF newer >= k THEN 0 ELSE IF newer + b[t] <= k THEN b[t] ELSE k - newer]

(* Go divides towards zero; a range that is reached back to may begin      *)
(* before 1970.                                                            *)
Half(x) == IF x >= 0 THEN x \div 2 ELSE - ((- x) \div 2)
HalfOf(from, to) == Half(to) - Half(from)

CanApplyLastNResultsOptimization(from, to) == HalfOf(from, to) > Second

Return(b, how) ==
    /\ phase' = "done"
    /\ returned' = NewestOf(b, Limit)
    /\ path' = how
    /\ UNCHANGED <<rows, known, start, end, n, found, lastNonEmpty>>

-----------------------------------------------------------------------------
(* Up to 2*Limit rows are asked for; fewer are all there are.              *)
FirstFast ==
    /\ phase = "first"
    /\ Size(RowsIn(First, Last)) < 2 * Limit
    /\ Return(RowsIn(First, Last), "fast")

FirstSlow ==
    /\ phase = "first"
    /\ Size(RowsIn(First, Last)) >= 2 * Limit
    /\ phase' = "search"
    /\ end' = Last + 1
    /\ start' = First + HalfOf(First, Last + 1)
    /\ UNCHANGED <<rows, known, n, found, lastNonEmpty, returned, path>>

Probed == RowsIn(start, end - 1)

(* A range of one nanosecond cannot be adjusted any more.                  *)
Narrowest ==
    /\ phase = "search"
    /\ HalfOf(start, end) <= 0
    /\ \E some \in Limited(Probed, 2 * n) :
         Return(Plus(Plus(found, lastNonEmpty), some), "narrowest")

IsFull(k) == HalfOf(start, end) > 0 /\ Size(Probed) >= 2 * k

(* The range holds too many rows: search its newer half ...                *)
SearchNewerHalf ==
    /\ phase = "search"
    /\ IsFull(n)
    /\ CanApplyLastNResultsOptimization(start, end)
    /\ start' = start + HalfOf(start, end)
    /\ lastNonEmpty' \in Limited(Probed, 2 * n)
    /\ UNCHANGED <<rows, known, phase, end, n, found, returned, path>>

(* ... or, when it is short, sort it.  getLogRowsLastN is given end, not   *)
(* end-1, and its filter includes both ends.                               *)
SortShortRange ==
    /\ phase = "search"
    /\ IsFull(n)
    /\ ~ CanApplyLastNResultsOptimization(start, end)
    /\ Return(Plus(found, NewestOf(RowsIn(start, end), n)), "sorted")

Enough ==
    /\ phase = "search"
    /\ HalfOf(start, end) > 0
    /\ ~ IsFull(n)
    /\ Size(found) + Size(Probed) >= Limit
    /\ \E some \in Limited(Probed, 2 * n) : Return(Plus(found, some), "enough")

(* Variants: the older range overlaps the one just searched, or is the     *)
(* same range again.                                                       *)
OlderOverlapping(from, to) == [start |-> from - HalfOf(from, to), end |-> from + 1]
OlderSame(from, to) == [start |-> from, end |-> to]

Older(from, to) == [start |-> from - HalfOf(from, to), end |-> from]

ReachBack ==
    /\ phase = "search"
    /\ HalfOf(start, end) > 0
    /\ ~ IsFull(n)
    /\ Size(found) + Size(Probed) < Limit
    /\ found' = Plus(found, Probed)
    /\ n' = n - Size(Probed)
    /\ start' = Older(start, end).start
    /\ end' = Older(start, end).end
    /\ UNCHANGED <<rows, known, phase, lastNonEmpty, returned, path>>

(* An error of a query is returned as it is.                               *)
Fail ==
    /\ phase \in {"first", "search"}
    /\ phase' = "failed"
    /\ UNCHANGED <<rows, known, start, end, n, found, lastNonEmpty, returned, path>>

(* A row is stored meanwhile.                                              *)
Ingest(t) ==
    /\ phase \in {"first", "search"}
    /\ Size(rows) - Size(known) < MaxLate
    /\ rows' = [rows EXCEPT ![t] = @ + 1]
    /\ UNCHANGED <<phase, start, end, n, found, lastNonEmpty, returned, path, known>>

SearchStep ==
    \/ FirstFast \/ FirstSlow
    \/ Narrowest \/ SearchNewerHalf \/ SortShortRange \/ Enough \/ ReachBack

LastNNext == SearchStep \/ Fail \/ \E t \in Times : Ingest(t)

(* Only the queries of the search are assumed to return.                   *)
LastNSpec == LastNInit /\ [][LastNNext]_lastNVars
FairLastNSpec == LastNSpec /\ WF_lastNVars(SearchStep)

-----------------------------------------------------------------------------
(* Properties.                                                             *)

(* The rows found so far are those from the end of the range on, each      *)
(* once, and n is what is missing: halving and reaching back never skip or *)
(* repeat a row, whatever is stored meanwhile.                             *)
FoundIsTail ==
    phase = "search" =>
        /\ Size(found) + n = Limit
        /\ \A t \in Times :
             IF t < end THEN found[t] = 0
             ELSE known[t] <= found[t] /\ found[t] <= rows[t]

(* A search that ends because the range holds few enough rows returns      *)
(* Limit rows, and no row that was there when it began is newer than one   *)
(* returned and left out.                                                  *)
EnoughIsNewest ==
    path \in {"fast", "enough"} =>
        /\ Size(returned) >= IF Size(known) < Limit THEN Size(known) ELSE Limit
        /\ \A t \in Times : returned[t] <= rows[t]
        /\ \A t, u \in Times : t < u /\ returned[t] > 0 => returned[u] >= known[u]

(* The search ends, on every distribution of rows over time.               *)
SearchEnds == (phase = "search") ~> (phase \in {"done", "failed"})
=============================================================================
