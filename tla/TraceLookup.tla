----------------------------- MODULE TraceLookup -----------------------------
(***************************************************************************)
(* GetTrace of the Jaeger API (app/vtselect/traces/query/query.go) and of  *)
(* the Tempo API (traces/tempo/query.go): finding the spans of one trace   *)
(* by its ID while the index and the spans keep coming in.                 *)
(*                                                                         *)
(* Ingestion is the abstract index OneIndexMap, which TraceIndex is        *)
(* checked to implement; its one key is the trace that is looked up.  A    *)
(* query walks back from now in windows of Step, one storage query per     *)
(* window, until a window holds an index row, and then fetches the spans   *)
(* of the row's time range.  A Tempo request may give the window: with a   *)
(* start there is no second one, with an end alone the first one changes.  *)
(***************************************************************************)
EXTENDS OneIndexMap, FiniteSetsExt

CONSTANTS
    Trace,       \* the key that is looked up
    FirstNow,    \* the first reading of the clock
    MaxNow,      \* bound: the last reading of the clock
    MaxSpans,    \* bound: spans stored
    Windows,     \* [start, end] of requests; 0 is not given
    Skew,        \* how far a sender's clock may be ahead
    Step,        \* -search.traceSearchStep
    Retention    \* -retentionPeriod

ASSUME LookupAssumption ==
    /\ Keys = {Trace}
    /\ FirstNow \in Nat /\ MaxNow \in Nat /\ MaxSpans \in Nat /\ Skew \in Nat
    /\ Step \in Nat \ {0} /\ Retention \in Nat
    /\ \A w \in Windows : w.start \in Int /\ w.end \in Nat

VARIABLES
    now,         \* the clock
    spans,       \* stored spans of the trace; a span's _time is its end
    pc,          \* where the query is
    asked,       \* currentTime of the query
    given,       \* its start and end, if any
    lo, hi,      \* the window being searched
    range,       \* hull of the rows of the window that was hit
    result,      \* spans returned
    outcome,     \* how the query ended
    knownIndex,  \* history: index rows when the query began
    knownSpans   \* history: spans when the query began

vars == <<live, index, now, spans, pc, asked, given, lo, hi, range, result, outcome,
          knownIndex, knownSpans>>
ingestVars == <<live, index, now, spans>>
queryVars  == <<pc, asked, given, lo, hi, range, result, outcome, knownIndex, knownSpans>>

NoWindow == [start |-> 0, end |-> 0]
NoRange == [start |-> 0, end |-> 0]

LookupInit ==
    /\ Init
    /\ now = FirstNow
    /\ spans = {}
    /\ pc = "idle"
    /\ asked = FirstNow
    /\ given = NoWindow
    /\ lo = FirstNow
    /\ hi = FirstNow
    /\ range = NoRange
    /\ result = {}
    /\ outcome = "none"
    /\ knownIndex = {}
    /\ knownSpans = {}

-----------------------------------------------------------------------------
(* Ingestion.                                                              *)

(* A span is pushed to the index and stored.                               *)
StoreSpan(start, end) ==
    /\ Cardinality(spans) < MaxSpans
    /\ start <= end
    /\ end <= now + Skew
    /\ Accept(Trace, start, end)
    /\ spans' = spans \cup {[start |-> start, end |-> end]}
    /\ UNCHANGED <<now, queryVars>>

(* The index worker publishes the hull it holds.                           *)
PublishIndex ==
    /\ live # [k \in {} |-> 0]
    /\ Publish({Trace})
    /\ UNCHANGED <<now, spans, queryVars>>

Advance ==
    /\ now < MaxNow
    /\ now' = now + 1
    /\ UNCHANGED <<live, index, spans, queryVars>>

-----------------------------------------------------------------------------
(* The query.                                                              *)

(* RunQuery refuses a time range that ends before the retention.           *)
OutOfRetention(end) == end < now - Retention

(* Rows of the index stream by their _time, which is the row's start; both *)
(* ends of the filter are included.                                        *)
RowsBetween(from, to) == {r \in index : from <= r.start /\ r.start <= to}

GetTrace ==
    /\ pc = "idle"
    /\ pc' = "scan"
    /\ asked' = now
    /\ \E w \in Windows :
          /\ given' = w
          /\ lo' = IF w.start = 0 THEN now - Step ELSE w.start
          /\ hi' = IF w.end = 0 THEN now ELSE w.end
    /\ range' = NoRange
    /\ result' = {}
    /\ outcome' = "none"
    /\ knownIndex' = index
    /\ knownSpans' = spans
    /\ UNCHANGED ingestVars

(* Variants: the two ends are moved in the wrong order, or not at all.     *)
NextWindowSwapped(low, high) == [lo |-> low - Step, hi |-> low - Step]
NextWindowSame(low, high) == [lo |-> low, hi |-> high]

(* Where the scan goes on after a window without a row.                    *)
NextWindow(low, high) == [lo |-> low - Step, hi |-> low]

ScanMiss ==
    /\ pc = "scan"
    /\ lo > 0
    /\ ~ OutOfRetention(hi)
    /\ RowsBetween(lo, hi) = {}
    /\ given.start = 0
    /\ lo' = NextWindow(lo, hi).lo
    /\ hi' = NextWindow(lo, hi).hi
    /\ UNCHANGED <<ingestVars, pc, asked, given, range, result, outcome, knownIndex, knownSpans>>

(* Variant: the range of a single row is taken.                            *)
HullOfOne(R) == LET r == CHOOSE r \in R : TRUE IN [start |-> r.start, end |-> r.end]

(* Hull of the rows found: stats min(start), max(end).                     *)
HullOf(R) == [start |-> Min({r.start : r \in R}), end |-> Max({r.end : r \in R})]

ScanHit ==
    /\ pc = "scan"
    /\ lo > 0
    /\ ~ OutOfRetention(hi)
    /\ RowsBetween(lo, hi) # {}
    /\ range' = HullOf(RowsBetween(lo, hi))
    /\ pc' = "fetch"
    /\ UNCHANGED <<ingestVars, asked, given, lo, hi, result, outcome, knownIndex, knownSpans>>

(* ErrOutOfRetention, from the storage or after the last window, and an    *)
(* empty window of the request's own: the trace is reported as empty.      *)
ScanEnds ==
    /\ pc = "scan"
    /\ lo <= 0 \/ OutOfRetention(hi) \/ (given.start # 0 /\ RowsBetween(lo, hi) = {})
    /\ pc' = "done"
    /\ outcome' = "empty"
    /\ UNCHANGED <<ingestVars, asked, given, lo, hi, range, result, knownIndex, knownSpans>>

(* findSpansByTraceIDAndTime; here ErrOutOfRetention is an error.          *)
SpansIn(r) == {s \in spans : r.start <= s.end /\ s.end <= r.end}

FindSpans ==
    /\ pc = "fetch"
    /\ pc' = "done"
    /\ IF OutOfRetention(range.end)
       THEN outcome' = "error" /\ UNCHANGED result
       ELSE outcome' = "found" /\ result' = SpansIn(range)
    /\ UNCHANGED <<ingestVars, asked, given, lo, hi, range, knownIndex, knownSpans>>

(* Any other error of a storage query ends the lookup with that error.     *)
QueryFails ==
    /\ pc \in {"scan", "fetch"}
    /\ pc' = "done"
    /\ outcome' = "error"
    /\ UNCHANGED <<ingestVars, asked, given, lo, hi, range, result, knownIndex, knownSpans>>

Answered ==
    /\ pc = "done"
    /\ pc' = "idle"
    /\ outcome' = "none"
    /\ result' = {}
    /\ range' = NoRange
    /\ knownIndex' = {}
    /\ knownSpans' = {}
    /\ asked' = FirstNow
    /\ given' = NoWindow
    /\ lo' = FirstNow
    /\ hi' = FirstNow
    /\ UNCHANGED ingestVars

QueryStep == GetTrace \/ ScanMiss \/ ScanHit \/ ScanEnds \/ FindSpans \/ QueryFails \/ Answered

LookupNext ==
    \/ \E start, end \in 1..(MaxNow + Skew) : StoreSpan(start, end)
    \/ PublishIndex
    \/ Advance
    \/ QueryStep

(* Only the storage queries of a lookup are assumed to return.             *)
LookupSpec == LookupInit /\ [][LookupNext]_vars
FairLookupSpec == LookupSpec /\ WF_vars(ScanMiss \/ ScanHit \/ ScanEnds \/ FindSpans)

-----------------------------------------------------------------------------
(* Properties.                                                             *)

(* The latest row the request asks for.                                    *)
Latest == IF given.end = 0 THEN asked ELSE given.end

(* No window begins at or before 1970: the walk ends up to a step after    *)
(* it, and does not begin when the clock is that young itself.             *)
TooOldToBeWalked(r) ==
    \/ r.start <= Step /\ now <= Retention + Step
    \/ given.start = 0 /\ asked <= Step

(* A lookup that comes back empty has looked everywhere it was asked to:   *)
(* no row published before it began starts between the retention and the   *)
(* present, or in the window of the request.  No gap opens between         *)
(* windows, whatever is published meanwhile.  A negative start is outside  *)
(* of this: it becomes a range before all time and finds nothing.          *)
EmptyMeansAbsent ==
    outcome = "empty" /\ given.start >= 0 =>
        \A r \in knownIndex : \/ r.start < now - Retention
                              \/ r.start > Latest
                              \/ TooOldToBeWalked(r)
                              \/ given.start # 0 /\ r.start < given.start

(* A lookup that finds rows returns every span, stored before it began,    *)
(* that some published row of the window it hit accounts for.              *)
HitWindowIsComplete ==
    outcome = "found" =>
        \A r \in knownIndex :
            lo <= r.start /\ r.start <= hi =>
                {s \in knownSpans : r.start <= s.end /\ s.end <= r.end} \subseteq result

(* Every lookup ends.                                                      *)
LookupEnds == (pc = "scan") ~> (pc = "done")
=============================================================================
