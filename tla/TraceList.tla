------------------------------ MODULE TraceList ------------------------------
(***************************************************************************)
(* Listing traces: the Jaeger API (query.go, jaeger.go) and the Tempo API  *)
(* (tempo/query.go, tempo.go), while spans keep coming in.                 *)
(*                                                                         *)
(* The last traces with a matching span are searched in a window that ends *)
(* at the end of the request and starts earlier with every try; then all   *)
(* their spans are fetched from a wider range, and summarised or grouped   *)
(* in the order in which the storage delivers them.                        *)
(*                                                                         *)
(* The unit of time is a minute.  A span is a row with its trace, its      *)
(* time, whether the filter matches it, and whether it has no parent.      *)
(***************************************************************************)
EXTENDS Integers, Sequences, FiniteSets, FiniteSetsExt, SequencesExt

CONSTANTS
    Traces,      \* trace IDs
    Times,       \* times of spans
    MaxInt64,    \* the latest time there is: spans may be dated in the future
    Now,         \* the clock, which stands still during a search
    Requests,    \* [start, end, limit, preview] as the client writes them; limit 0 is no limit
    MaxRows,     \* bound on the spans stored
    MaxTraces,   \* -search.maxTraces
    Window,      \* -search.traceMaxDurationWindow
    Offset,      \* -search.latencyOffset
    Zone,        \* by how much the process's local time is ahead of UTC
    Retention    \* -retentionPeriod
ASSUME ListAssumption ==
    /\ MaxInt64 \in Nat /\ Times \subseteq 0..MaxInt64 /\ Now \in Nat /\ MaxRows \in Nat /\ MaxTraces \in Nat \ {0}
    /\ Window \in Nat /\ Offset \in Nat /\ Zone \in Int /\ Retention \in Nat
    /\ \A q \in Requests : q.start \in Int /\ q.end \in Int /\ q.limit \in Int /\ q.preview \in Nat

VARIABLES
    rows,        \* spans stored
    pc,          \* where the search is
    q,           \* the request: api, range, limit
    from, step,  \* currentStartTime and step of findTraceIDsSplitTimeRange
    ids,         \* traceIDList
    earliest,    \* maxStartTimeStr: in spite of its name, the earliest time seen: what it reads, and when that is
    scanned,     \* history: the spans stored when ids was found
    pending,     \* fetched spans that are not delivered yet
    shown        \* per trace: its summary or its spans
vars == <<rows, pc, q, from, step, ids, earliest, scanned, pending, shown>>

Rows == [trace : Traces, time : Times, match : BOOLEAN, root : BOOLEAN]
NoRequest == [api |-> "none", start |-> 0, end |-> 0, until |-> 0, limit |-> 0, preview |-> 0]
Nobody == [t \in {} |-> 0]
Earlier(a, b) == IF a < b THEN a ELSE b
Later(a, b) == IF a > b THEN a ELSE b

(* A formatted time is compared as a string, which ignores its zone.  Rows *)
(* carry UTC; the end of the request is formatted in local time.           *)
Stamp(time, zone) == [reads |-> time + zone, at |-> time]

Init ==
    /\ rows = {} /\ pc = "idle" /\ q = NoRequest /\ from = 0 /\ step = 1 /\ ids = <<>> /\ earliest = Stamp(0, 0)
    /\ scanned = {} /\ pending = {} /\ shown = Nobody

(* Nothing is stored while fetched rows are delivered: they are a copy.    *)
Store ==
    /\ Cardinality(rows) < MaxRows /\ pc \in {"idle", "scan", "fetch"}
    /\ \E r \in Rows \ rows : rows' = rows \cup {r}
    /\ UNCHANGED <<pc, q, from, step, ids, earliest, scanned, pending, shown>>

(***************************************************************************)
(* Parameters.                                                             *)
(***************************************************************************)
DefaultLimit == [jaeger |-> Earlier(20, MaxTraces), tempo |-> 100]
\* parseTempoAPIParam: a range the wrong way round becomes its last ten minutes.
TempoParams(p) ==
    [start |-> IF p.start > p.end THEN p.end - 10 ELSE p.start, end |-> p.end,
     limit |-> IF p.limit > MaxTraces THEN MaxTraces ELSE IF p.limit > 0 THEN p.limit ELSE DefaultLimit.tempo]
\* parseJaegerTraceQueryParam
JaegerAccepts(p) == p.limit \in 0..MaxTraces
JaegerParams(p) == [start |-> p.start, end |-> p.end, limit |-> IF p.limit = 0 THEN DefaultLimit.jaeger ELSE p.limit]

\* Fresh traces wait for the latency offset: getTraceIDList moves the end back.
Visible(end) == Earlier(end, Now - Offset)

(* The Jaeger API changes its end for the second query, too: its parameters are shared. *)
Begin(api, params, preview) ==
    /\ q' = [api |-> api, start |-> params.start, end |-> Visible(params.end),
             until |-> IF api = "jaeger" THEN Visible(params.end) ELSE params.end,
             limit |-> params.limit, preview |-> preview]
    /\ pc' = "scan" /\ from' = Visible(params.end) - 1 /\ step' = 1 /\ ids' = <<>> /\ earliest' = Stamp(Visible(params.end), Zone)
    /\ UNCHANGED <<rows, scanned, pending, shown>>

SearchTraces == pc = "idle" /\ \E p \in Requests : Begin("tempo", TempoParams(p), p.preview)
GetTraces == pc = "idle" /\ \E p \in Requests : JaegerAccepts(p) /\ Begin("jaeger", JaegerParams(p), 0)

(***************************************************************************)
(* findTraceIDsSplitTimeRange                                              *)
(***************************************************************************)
Matching(stored, lo, hi) == {r \in stored : r.match /\ lo <= r.time /\ r.time <= hi}
LastMatch(stored, t) == Max({r.time : r \in {r \in stored : r.trace = t}})

\* last 1 by (_time) partition by (trace_id) | sort by (_time) desc | limit: traces of one time come in any order.
\* Variant: the limit comes without the sort.
AnyTraces(stored, limit) ==
    {SubSeq(s, 1, Earlier(limit, Len(s))) : s \in SetToSeqs({r.trace : r \in stored})}
NewestFirst(stored, s) == \A i, j \in DOMAIN s : i < j => LastMatch(stored, s[i]) >= LastMatch(stored, s[j])
NewestTraces(stored, limit) ==
    {SubSeq(s, 1, Earlier(limit, Len(s))) : s \in {s \in SetToSeqs({r.trace : r \in stored}) : NewestFirst(stored, s)}}

\* RunQuery refuses a range that ends before the retention.
OutOfRetention == q.end < Now - Retention
\* The earliest last match listed, if it reads earlier than what was seen before.  Variant: as its name says, the latest.
LastMatches(found, stored) == {LastMatch(stored, t) : t \in ToSet(found)}
SeenLatest(found, stored) ==
    IF \E last \in LastMatches(found, stored) : last > earliest.reads
    THEN Stamp(Max(LastMatches(found, stored)), 0) ELSE earliest
Seen(found, stored) ==
    IF \E last \in LastMatches(found, stored) : last < earliest.reads
    THEN Stamp(Min(LastMatches(found, stored)), 0) ELSE earliest

Try ==
    /\ pc = "scan" /\ from > q.start /\ ~OutOfRetention
    /\ LET matching == Matching(rows, from, q.end) IN \E found \in NewestTraces(matching, q.limit) :
       /\ earliest' = Seen(found, matching)
       /\ \/ Len(found) = q.limit /\ ids' = found /\ scanned' = rows /\ pc' = "fetch" /\ UNCHANGED <<from, step>>
          \/ Len(found) # q.limit /\ step' = step * 5 /\ from' = from - step' /\ UNCHANGED <<ids, scanned, pc>>
    /\ UNCHANGED <<rows, q, pending, shown>>

LastTry ==
    /\ pc = "scan" /\ from <= q.start /\ ~OutOfRetention
    /\ LET matching == Matching(rows, q.start, q.end) IN \E found \in NewestTraces(matching, q.limit) :
          ids' = found /\ earliest' = Seen(found, matching)
    /\ scanned' = rows /\ pc' = "fetch" /\ UNCHANGED <<rows, q, from, step, pending, shown>>

\* Out of retention is an empty list in the loop; in the last try it is an error like any other.
ScanEnds ==
    /\ pc = "scan" /\ OutOfRetention /\ pc' = IF from > q.start THEN "done" ELSE "failed"
    /\ UNCHANGED <<rows, q, from, step, ids, earliest, scanned, pending, shown>>
QueryFails ==
    pc \in {"scan", "fetch"} /\ pc' = "failed" /\ UNCHANGED <<rows, q, from, step, ids, earliest, scanned, pending, shown>>

(***************************************************************************)
(* GetTraceList, second query.                                             *)
(***************************************************************************)
Fetch ==
    /\ pc = "fetch" /\ ids # <<>>
    /\ pending' = {r \in rows : /\ r.trace \in ToSet(ids)
                                /\ earliest.at - Window <= r.time /\ r.time <= q.until + Window
                                /\ q.api = "tempo" => r.match \/ r.root}
    /\ pc' = IF q.api = "tempo" THEN "summarise" ELSE "group"
    /\ shown' = IF q.api = "tempo" THEN Nobody ELSE [t \in ToSet(ids) |-> {}]
    /\ UNCHANGED <<rows, q, from, step, ids, earliest, scanned>>
NothingListed == pc = "fetch" /\ ids = <<>> /\ pc' = "done" /\ UNCHANGED <<rows, q, from, step, ids, earliest, scanned, pending, shown>>

(***************************************************************************)
(* summarySearchTracesResult: a root replaces what was gathered before it. *)
(***************************************************************************)
\* Variant: the range begins at zero.
NoRootSinceZero == [root |-> FALSE, start |-> 0, end |-> 0, spans |-> <<>>]
NoRootYet == [root |-> FALSE, start |-> MaxInt64, end |-> 0, spans |-> <<>>]
Summarise ==
    /\ pc = "summarise"
    /\ \E r \in pending :
          LET old == IF r.trace \in DOMAIN shown THEN shown[r.trace] ELSE NoRootYet
              widened == [old EXCEPT !.start = Earlier(@, r.time), !.end = Later(@, r.time)]
              rooted == IF r.root THEN [widened EXCEPT !.root = TRUE, !.start = r.time, !.end = r.time] ELSE widened
              kept == IF Len(old.spans) < q.preview THEN [rooted EXCEPT !.spans = Append(@, r)] ELSE rooted IN
          /\ pending' = pending \ {r}
          /\ shown' = [t \in DOMAIN shown \cup {r.trace} |-> IF t = r.trace THEN kept ELSE shown[t]]
    /\ UNCHANGED <<rows, pc, q, from, step, ids, earliest, scanned>>

\* processGetTracesRequest puts each span under its trace.
GroupSpan ==
    /\ pc = "group"
    /\ \E r \in pending :
          pending' = pending \ {r} /\ shown' = [shown EXCEPT ![r.trace] = @ \cup {r}]
    /\ UNCHANGED <<rows, pc, q, from, step, ids, earliest, scanned>>

WriteResponse ==
    /\ pc \in {"summarise", "group"} /\ pending = {} /\ pc' = "done"
    /\ UNCHANGED <<rows, q, from, step, ids, earliest, scanned, pending, shown>>

Next ==
    \/ Store \/ SearchTraces \/ GetTraces \/ Try \/ LastTry \/ ScanEnds \/ QueryFails \/ Fetch \/ NothingListed
    \/ Summarise \/ GroupSpan \/ WriteResponse
Spec == Init /\ [][Next]_vars

(***************************************************************************)
(* Properties.                                                             *)
(***************************************************************************)

(***************************************************************************)
(* Widening the window gives the list that one search of the whole range   *)
(* would give: no trace twice, as many as there are up to the limit, and   *)
(* none left out that matched later than one that is listed                *)
(* (findTraceIDsSplitTimeRange).                                           *)
(***************************************************************************)
ListIsNewest ==
    LET inRange == Matching(scanned, q.start, q.end)
        listed == ToSet(ids)
        others == {r.trace : r \in inRange} \ listed IN
    pc = "fetch" =>
        /\ Cardinality(listed) = Len(ids)
        /\ listed \subseteq {r.trace : r \in inRange}
        /\ Len(ids) = Earlier(q.limit, Cardinality(listed) + Cardinality(others))
        /\ \A t \in listed, u \in others : LastMatch(inRange, t) >= LastMatch(inRange, u)

(***************************************************************************)
(* "adjust start time and end time with max duration window to make sure   *)
(* all spans are included" (GetTraceList): every span that was stored when *)
(* its trace was listed, and that is no further than the window from its   *)
(* trace's last match, is shown by the Jaeger API; the Tempo API previews  *)
(* matching and root spans only.                                           *)
(***************************************************************************)
NearbySpansShown ==
    LET inRange == Matching(scanned, q.start, q.end)
        Near(t) == {r \in scanned : r.trace = t /\ LastMatch(inRange, t) - Window <= r.time
                                                /\ r.time <= LastMatch(inRange, t) + Window} IN
    pc = "done" /\ ids # <<>> =>
        \A t \in ToSet(ids) :
            IF q.api = "jaeger" THEN Near(t) \subseteq shown[t]
            ELSE /\ t \in DOMAIN shown
                 /\ Len(shown[t].spans) >= Earlier(q.preview, Cardinality({r \in Near(t) : r.match \/ r.root}))

(***************************************************************************)
(* In whatever order the storage delivers them, a trace whose root was     *)
(* stored near its matches is shown with a root, in a range that contains  *)
(* a root's and no time that is none of its spans'; a preview repeats no   *)
(* span and keeps to its size (summarySearchTracesResult).                 *)
(***************************************************************************)
SummaryShowsRoot ==
    pc \in {"summarise", "done"} /\ q.api = "tempo" =>
        \A t \in DOMAIN shown :
            LET delivered == {r \in rows \ pending : r.trace = t} s == shown[t] IN
            /\ t \in ToSet(ids) /\ s.start <= s.end
            /\ {s.start, s.end} \subseteq {r.time : r \in delivered}
            /\ s.root => \E r \in delivered : r.root /\ s.start <= r.time /\ r.time <= s.end
            /\ pc = "done" => (s.root = \E r \in delivered : r.root /\ earliest.at - Window <= r.time /\ r.time <= q.until + Window)
            /\ ToSet(s.spans) \subseteq delivered /\ Cardinality(ToSet(s.spans)) = Len(s.spans) /\ Len(s.spans) <= q.preview
=============================================================================
