----------------------------- MODULE TraceIndex -----------------------------
(***************************************************************************)
(* The trace-ID index of a VictoriaTraces process with local storage       *)
(* (single-node or vtstorage): app/vtinsert/insertutil.                    *)
(*                                                                         *)
(* A request handler pushes every span twice: first its time range to the  *)
(* index worker of its trace, then the row itself to the request's log     *)
(* message processor (lmp).  The worker keeps one hull                     *)
(* [min start, max end] per trace in two generations of a map, cur and     *)
(* prev.  On every tick it hands prev to the lmp of the index stream and   *)
(* turns cur into prev.  The module covers the handlers, the workers, both *)
(* kinds of lmp and the shutdown order of app/victoria-traces/main.go.     *)
(***************************************************************************)
EXTENDS Integers, FiniteSets

CONSTANTS
    Tenants,      \* tenants that ingest
    TraceIDs,     \* trace IDs of the spans
    NoTrace,      \* the trace ID of a span that carries none
    Spans,        \* the spans clients send, each once; a retry is one more span
    Times,        \* the readings of time.Now()
    Handlers,     \* goroutines that serve insert requests
    Workers,      \* index workers, one per available CPU
    WorkerOf      \* the worker that owns a key

(* A key is (tenant, trace ID): index_helper.go keeps tenants apart.       *)
Keys == Tenants \X TraceIDs

ASSUME SpansAssumption ==
    /\ Spans # {}
    /\ Spans \subseteq [id : Nat, tenant : Tenants, trace : TraceIDs \cup {NoTrace},
                        start : Nat, end : Nat, wide : BOOLEAN]
ASSUME TimesAssumption == Times \subseteq Nat \ {0}
ASSUME WorkerAssumption == WorkerOf \in [Keys -> Workers]
ASSUME NoTraceAssumption == NoTrace \notin TraceIDs

VARIABLES
    cur,          \* cur[w]: traceIDIndexMapCur, accepts new keys
    prev,         \* prev[w]: traceIDIndexMapPrev, only updated
    idxRows,      \* idxRows[w]: rows in the lmps of the index stream
    exited,       \* workers whose goroutine has returned
    pc,           \* pc[h]: where handler h is
    span,         \* span[h]: the span handler h works on
    rows,         \* rows[h]: spans in the lmp of h's request
    storedSpans,  \* span rows handed to the storage
    storedIndex,  \* index rows handed to the storage
    stage,        \* where the process is in its life
    pushed,       \* history: ranges pushed, with the ticks they have seen
    dropped,      \* history: spans dropped for want of a trace ID or as too wide
    rejected      \* history: spans refused because stopCh was closed

vars == <<cur, prev, idxRows, exited, pc, span, rows, storedSpans,
          storedIndex, stage, pushed, dropped, rejected>>
workerVars  == <<cur, prev, idxRows, exited>>
handlerVars == <<pc, span, rows, dropped, rejected>>

(* Bounds that are known: a zero in a span means the field is missing.     *)
Moment == Nat \ {0}
Hull   == [start : Moment, end : Moment]
Row    == [key : Keys, start : Moment, end : Moment]
Point  == [span : Spans, start : Moment, end : Moment, age : 0..2]

Low(a, b)  == IF a <= b THEN a ELSE b
High(a, b) == IF a >= b THEN a ELSE b

KeyOf(s) == <<s.tenant, s.trace>>

(* The local variable of a handler that is between two spans.              *)
Unset == CHOOSE s \in Spans : TRUE

(* A map that holds nothing yet.                                           *)
EmptyMap == [k \in {} |-> 0]

(* Go's m[k] = e.                                                          *)
Put(m, k, e) == [x \in DOMAIN m \cup {k} |-> IF x = k THEN e ELSE m[x]]

Widen(e, start, end) == [start |-> Low(start, e.start), end |-> High(end, e.end)]

(* Variant: only cur is looked up.                                         *)
PushCurOnly(c, p, k, start, end) ==
    [cur |-> Put(c, k, IF k \in DOMAIN c THEN Widen(c[k], start, end)
                       ELSE [start |-> start, end |-> end]),
     prev |-> p]

(* Variant: an update moves the entry of prev back to cur.                 *)
PushKeepsAlive(c, p, k, start, end) ==
    IF k \in DOMAIN p
    THEN [cur |-> Put(c, k, Widen(p[k], start, end)),
          prev |-> [x \in DOMAIN p \ {k} |-> p[x]]]
    ELSE PushCurOnly(c, p, k, start, end)

(* The body of mustPushIndex: a known key is updated where it is, a new    *)
(* one goes to cur.                                                        *)
PushEntry(c, p, k, start, end) ==
    IF k \in DOMAIN c
    THEN [cur |-> Put(c, k, Widen(c[k], start, end)), prev |-> p]
    ELSE IF k \in DOMAIN p
    THEN [cur |-> c, prev |-> Put(p, k, Widen(p[k], start, end))]
    ELSE [cur |-> Put(c, k, [start |-> start, end |-> end]), prev |-> p]

(* flushIndexInMap over a whole map: one index row per entry.              *)
RowsOf(m) == {[key |-> k, start |-> m[k].start, end |-> m[k].end] : k \in DOMAIN m}

Init ==
    /\ cur = [w \in Workers |-> EmptyMap]
    /\ prev = [w \in Workers |-> EmptyMap]
    /\ idxRows = [w \in Workers |-> {}]
    /\ exited = {}
    /\ pc = [h \in Handlers |-> "idle"]
    /\ span = [h \in Handlers |-> Unset]
    /\ rows = [h \in Handlers |-> {}]
    /\ storedSpans = {}
    /\ storedIndex = {}
    /\ stage = "serving"
    /\ pushed = {}
    /\ dropped = {}
    /\ rejected = {}

-----------------------------------------------------------------------------
(* Request handlers.                                                       *)

(* The servers hand a request to a handler, which creates the request's    *)
(* trace processor.  Nothing new is accepted once shutdown has begun.      *)
NewTraceProcessor(h) ==
    /\ stage = "serving"
    /\ pc[h] = "idle"
    /\ pc' = [pc EXCEPT ![h] = "open"]
    /\ UNCHANGED <<workerVars, span, rows, dropped, rejected, storedSpans, storedIndex, stage, pushed>>

Sent == {p.span : p \in pushed} \cup dropped \cup rejected
            \cup {span[h] : h \in {g \in Handlers : pc[g] = "checked"}}

(* AddRow without a trace ID: the span is dropped, the request goes on.    *)
DropSpan(h, s) ==
    /\ stage # "aborted"
    /\ pc[h] = "open"
    /\ s \notin Sent
    /\ s.trace = NoTrace
    /\ dropped' = dropped \cup {s}
    /\ UNCHANGED <<workerVars, pc, span, rows, rejected, storedSpans, storedIndex, stage, pushed>>

(* AddRow up to the select on stopCh in pushIndexToQueue: the answer is    *)
(* acted upon later, without a lock.                                       *)
CheckStop(h, s) ==
    /\ stage # "aborted"
    /\ pc[h] = "open"
    /\ s \notin Sent
    /\ s.trace # NoTrace
    /\ IF stage \in {"serving", "draining"}
       THEN /\ pc' = [pc EXCEPT ![h] = "checked"]
            /\ span' = [span EXCEPT ![h] = s]
            /\ UNCHANGED rejected
       ELSE /\ rejected' = rejected \cup {s}
            /\ UNCHANGED <<pc, span>>
    /\ UNCHANGED <<workerVars, rows, dropped, storedSpans, storedIndex, stage, pushed>>

(* Variant: a missing field is taken as it is.                             *)
ReadingAsIs(field) == {field}

(* A start or end field of the span, read off the clock when missing.      *)
Reading(field) == IF field = 0 THEN Times ELSE {field}

(* mustPushIndex under worker.mu.                                          *)
MustPushIndex(h, start, end) ==
    LET s == span[h]
        k == KeyOf(s)
        w == WorkerOf[k]
        m == PushEntry(cur[w], prev[w], k, start, end)
    IN  /\ stage # "aborted"
        /\ pc[h] = "checked"
        /\ cur' = [cur EXCEPT ![w] = m.cur]
        /\ prev' = [prev EXCEPT ![w] = m.prev]
        /\ pushed' = pushed \cup {[span |-> s, start |-> start, end |-> end, age |-> 0]}
        /\ pc' = [pc EXCEPT ![h] = "pushed"]
        /\ UNCHANGED <<idxRows, exited, span, rows, dropped, rejected, storedSpans, storedIndex, stage>>

(* lmp.AddRow: a row with too many fields is dropped, although its range   *)
(* is in the index; a full lmp is flushed at once.                         *)
AddRow(h) ==
    /\ stage # "aborted"
    /\ pc[h] = "pushed"
    /\ IF span[h].wide
       THEN /\ dropped' = dropped \cup {span[h]}
            /\ UNCHANGED <<rows, storedSpans>>
       ELSE /\ UNCHANGED dropped
            /\ \/ /\ rows' = [rows EXCEPT ![h] = @ \cup {span[h]}]
                  /\ UNCHANGED storedSpans
               \/ /\ storedSpans' = storedSpans \cup rows[h] \cup {span[h]}
                  /\ rows' = [rows EXCEPT ![h] = {}]
    /\ pc' = [pc EXCEPT ![h] = "open"]
    /\ span' = [span EXCEPT ![h] = Unset]
    /\ UNCHANGED <<workerVars, rejected, storedIndex, stage, pushed>>

(* MustClose at the end of the request flushes what is left.               *)
MustClose(h) ==
    /\ stage # "aborted"
    /\ pc[h] = "open"
    /\ storedSpans' = storedSpans \cup rows[h]
    /\ rows' = [rows EXCEPT ![h] = {}]
    /\ pc' = [pc EXCEPT ![h] = "idle"]
    /\ UNCHANGED <<workerVars, span, dropped, rejected, storedIndex, stage, pushed>>

-----------------------------------------------------------------------------
(* Index workers.                                                          *)

Running(w) == stage # "aborted" /\ w \notin exited

Aged(p, w) ==
    IF WorkerOf[KeyOf(p.span)] = w /\ p.age < 2 THEN [p EXCEPT !.age = @ + 1] ELSE p

(* Variants: the wrong generation is flushed, or none.                     *)
DueFromCur(w) == RowsOf(cur[w])
DueNothing(w) == RowsOf(prev[w]) \ RowsOf(prev[w])
Due(w) == RowsOf(prev[w])

(* The ticker fires: prev is flushed, cur becomes prev, cur starts empty.  *)
Tick(w) ==
    /\ Running(w)
    /\ idxRows' = [idxRows EXCEPT ![w] = @ \cup Due(w)]
    /\ prev' = [prev EXCEPT ![w] = cur[w]]
    /\ cur' = [cur EXCEPT ![w] = EmptyMap]
    /\ pushed' = {Aged(p, w) : p \in pushed}
    /\ UNCHANGED <<exited, handlerVars, storedSpans, storedIndex, stage>>

(* Variant: the lmps of the index have no periodic flush.                  *)
FlushWhenStopped(w, t) ==
    /\ Running(w)
    /\ stage = "stopped"
    /\ {r \in idxRows[w] : r.key[1] = t} # {}
    /\ UNCHANGED vars

(* One tenant's lmp of the index stream is flushed, by its periodic timer  *)
(* or because it is full.                                                  *)
FlushIndexRows(w, t) ==
    LET out == {r \in idxRows[w] : r.key[1] = t}
    IN  /\ Running(w)
        /\ out # {}
        /\ storedIndex' = storedIndex \cup out
        /\ idxRows' = [idxRows EXCEPT ![w] = @ \ out]
        /\ UNCHANGED <<cur, prev, exited, handlerVars, storedSpans, stage, pushed>>

(* Variant: the stop branch flushes only what is due.                      *)
AtStopPrevOnly(w) == idxRows[w] \cup RowsOf(prev[w])
AtStop(w) == idxRows[w] \cup RowsOf(prev[w]) \cup RowsOf(cur[w])

(* The stopCh branch of run: both maps are flushed, every lmp is closed,   *)
(* the goroutine returns.  The maps are left as they are.                  *)
StopWorker(w) ==
    /\ stage = "stopping"
    /\ Running(w)
    /\ storedIndex' = storedIndex \cup AtStop(w)
    /\ idxRows' = [idxRows EXCEPT ![w] = {}]
    /\ exited' = exited \cup {w}
    /\ UNCHANGED <<cur, prev, handlerVars, storedSpans, stage, pushed>>

-----------------------------------------------------------------------------
(* The life of the process: main.go and vtinsert.Stop.                     *)

(* SIGTERM: the HTTP and gRPC servers stop accepting requests.             *)
Sigterm ==
    /\ stage = "serving"
    /\ stage' = "draining"
    /\ UNCHANGED <<workerVars, handlerVars, storedSpans, storedIndex, pushed>>

Drained == \A h \in Handlers : pc[h] = "idle"

(* Both servers have waited for their handlers: stopCh is closed.          *)
MustStopIndexWorker ==
    /\ stage = "draining"
    /\ Drained
    /\ stage' = "stopping"
    /\ UNCHANGED <<workerVars, handlerVars, storedSpans, storedIndex, pushed>>

(* A handler outlives the grace period: logger.Fatalf ends the process.    *)
DrainTimeout ==
    /\ stage = "draining"
    /\ ~ Drained
    /\ stage' = "aborted"
    /\ UNCHANGED <<workerVars, handlerVars, storedSpans, storedIndex, pushed>>

(* indexWorkerWg.Wait returns.                                             *)
Stopped ==
    /\ stage = "stopping"
    /\ exited = Workers
    /\ stage' = "stopped"
    /\ UNCHANGED <<workerVars, handlerVars, storedSpans, storedIndex, pushed>>

-----------------------------------------------------------------------------
HandlerStep(h) ==
    \/ NewTraceProcessor(h)
    \/ \E s \in Spans : DropSpan(h, s) \/ CheckStop(h, s)
    \/ \E start \in Reading(span[h].start), end \in Reading(span[h].end) :
            MustPushIndex(h, start, end)
    \/ AddRow(h)
    \/ MustClose(h)

WorkerStep(w) ==
    \/ Tick(w)
    \/ \E t \in Tenants : FlushIndexRows(w, t)
    \/ StopWorker(w)

ProcessStep == Sigterm \/ MustStopIndexWorker \/ DrainTimeout \/ Stopped

Next ==
    \/ \E h \in Handlers : HandlerStep(h)
    \/ \E w \in Workers : WorkerStep(w)
    \/ ProcessStep

(* The tickers of the workers and of the index lmps fire again and again,  *)
(* and a worker that can see the closed stopCh takes that branch.  Nothing *)
(* is assumed about handlers.                                              *)
Fairness ==
    \A w \in Workers :
        /\ WF_vars(Tick(w))
        /\ WF_vars(StopWorker(w))
        /\ \A t \in Tenants : WF_vars(FlushIndexRows(w, t))

Spec == Init /\ [][Next]_vars
FairSpec == Spec /\ Fairness

-----------------------------------------------------------------------------
(* Properties.                                                             *)

IsMap(m) == DOMAIN m \subseteq Keys /\ m \in [DOMAIN m -> Hull]

(* Type invariant of the worker, handler and history state.                *)
TypeOK ==
    /\ cur = [w \in Workers |-> cur[w]]
    /\ prev = [w \in Workers |-> prev[w]]
    /\ \A w \in Workers : IsMap(cur[w]) /\ IsMap(prev[w])
    /\ idxRows \in [Workers -> SUBSET Row]
    /\ exited \subseteq Workers
    /\ pc \in [Handlers -> {"idle", "open", "checked", "pushed"}]
    /\ span \in [Handlers -> Spans]
    /\ rows \in [Handlers -> SUBSET Spans]
    /\ storedSpans \subseteq Spans
    /\ storedIndex \subseteq Row
    /\ stage \in {"serving", "draining", "stopping", "stopped", "aborted"}
    /\ pushed \subseteq Point
    /\ dropped \subseteq Spans
    /\ rejected \subseteq Spans

Flushed == storedIndex \cup UNION {idxRows[w] : w \in Workers}
Held    == UNION {RowsOf(cur[w]) \cup RowsOf(prev[w]) : w \in Workers}
AllRows == Flushed \cup Held

(* r is an index row of s's own tenant and trace.                          *)
Belongs(r, s) == r.key = <<s.tenant, s.trace>>
Covers(r, p)  == Belongs(r, p.span) /\ r.start <= p.start /\ p.end <= r.end

(* A trace is buffered once: by the worker that owns its key, and in only  *)
(* one of the two generations, so no update can go to a stale twin.        *)
OneEntryPerKey ==
    \A w \in Workers :
        /\ DOMAIN cur[w] \cap DOMAIN prev[w] = {}
        /\ \A k \in DOMAIN cur[w] \cup DOMAIN prev[w] : WorkerOf[k] = w

(* Whatever the interleaving of handlers, ticks and shutdown, a span that  *)
(* is stored or about to be is covered by an index row of its trace that   *)
(* is held, buffered or stored: the index is never behind the spans.       *)
StoredSpanIsIndexed ==
    \A s \in storedSpans \cup UNION {rows[h] : h \in Handlers} :
        \E p \in pushed : p.span = s /\ \E r \in AllRows : Covers(r, p)

(* A range leaves the maps within two ticks of its worker, however often   *)
(* its trace is updated in between: a busy trace cannot starve itself.     *)
OldRangesHaveLeft ==
    \A p \in pushed : p.age = 2 => \E r \in Flushed : Covers(r, p)

(* After a clean shutdown no span was refused ("this should not happen"),  *)
(* and every span that was pushed is in the storage, but for the ones too  *)
(* wide, and so is an index row that covers it.                            *)
CleanStopKeepsAll ==
    stage = "stopped" => rejected = {} /\
        \A p \in pushed :
            /\ p.span \in storedSpans \cup dropped
            /\ \E r \in storedIndex : Covers(r, p)

(* A span in the storage becomes findable by trace ID: a covering index    *)
(* row reaches the storage, unless the process is killed first.            *)
EventuallyIndexed ==
    \A s \in Spans :
        s \in storedSpans ~>
            \/ \E r \in storedIndex : /\ Belongs(r, s)
                                      /\ s.start # 0 => r.start <= s.start
                                      /\ s.end <= r.end
            \/ stage = "aborted"

(* The two generations of all workers together are one map that publishes  *)
(* each key's hull whole and then forgets it.                              *)
LiveKeys ==
    {k \in Keys : LET w == WorkerOf[k]
                  IN  w \notin exited /\ k \in DOMAIN cur[w] \cup DOMAIN prev[w]}
LiveHull(k) ==
    LET w == WorkerOf[k] IN IF k \in DOMAIN cur[w] THEN cur[w][k] ELSE prev[w][k]

OneMap == INSTANCE OneIndexMap WITH
    live <- [k \in LiveKeys |-> LiveHull(k)], index <- Flushed
Bounds == Times \cup {s.start : s \in Spans} \cup {s.end : s \in Spans}

ImplementsOneMap ==
    OneMap!Init /\ [][OneMap!Next(Bounds)]_<<[k \in LiveKeys |-> LiveHull(k)], Flushed>>
=============================================================================
