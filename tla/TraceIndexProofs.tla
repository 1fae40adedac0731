-------------------------- MODULE TraceIndexProofs --------------------------
(***************************************************************************)
(* Theorems about TraceIndex, for any tenants, traces, spans, handlers and *)
(* workers.                                                                *)
(***************************************************************************)
EXTENDS TraceIndex, TLAPS

HullCovers(e, p) == e.start <= p.start /\ p.end <= e.end

(* Where the range p is, by the ticks it has seen: in cur only while it    *)
(* has seen none, in prev only while it has seen at most one.              *)
Placed(p) ==
    LET k == KeyOf(p.span)
        w == WorkerOf[k]
    IN  \/ \E r \in Flushed : Covers(r, p)
        \/ p.age <= 1 /\ k \in DOMAIN prev[w] /\ HullCovers(prev[w][k], p)
        \/ p.age = 0 /\ k \in DOMAIN cur[w] /\ HullCovers(cur[w][k], p)

HandlersInv ==
    \A h \in Handlers :
        /\ pc[h] \in {"checked", "pushed"} => span[h].trace # NoTrace
        /\ pc[h] = "pushed" => \E p \in pushed : p.span = span[h]
        /\ \A s \in rows[h] : \E p \in pushed : p.span = s

StoredInv == \A s \in storedSpans : \E p \in pushed : p.span = s

PointsInv == \A p \in pushed : p.span.trace # NoTrace /\ Placed(p)

(* Where the span of a range is: an lmp holds it until it is stored.       *)
Kept(s) ==
    \/ s \in storedSpans \cup dropped
    \/ \E h \in Handlers : s \in rows[h] \/ (pc[h] = "pushed" /\ span[h] = s)

SpansInv ==
    /\ \A p \in pushed : Kept(p.span)
    /\ \A h \in Handlers : pc[h] = "idle" => rows[h] = {}

(* Workers stop after all handlers, and leave nothing behind.              *)
ShutdownInv ==
    /\ rejected = {}
    /\ stage \in {"stopping", "stopped"} => Drained
    /\ exited # {} => stage \in {"stopping", "stopped"}
    /\ stage = "stopped" => exited = Workers
    /\ \A w \in exited :
          /\ idxRows[w] = {}
          /\ RowsOf(cur[w]) \cup RowsOf(prev[w]) \subseteq storedIndex

IndexInv ==
    /\ TypeOK /\ OneEntryPerKey /\ HandlersInv /\ StoredInv /\ PointsInv
    /\ SpansInv /\ ShutdownInv

-----------------------------------------------------------------------------
LEMMA EmptyMapType == IsMap(EmptyMap)
BY DEF IsMap, EmptyMap

LEMMA KeyType ==
    ASSUME NEW s \in Spans, s.trace # NoTrace
    PROVE  KeyOf(s) \in Keys /\ WorkerOf[KeyOf(s)] \in Workers
BY SpansAssumption, WorkerAssumption DEF KeyOf, Keys

LEMMA ReadingType ==
    ASSUME NEW s \in Spans
    PROVE  Reading(s.start) \subseteq Moment /\ Reading(s.end) \subseteq Moment
BY SpansAssumption, TimesAssumption DEF Reading, Moment

(* Storing an entry yields a map again.                                    *)
LEMMA PutType ==
    ASSUME NEW m, IsMap(m), NEW k \in Keys, NEW e \in Hull
    PROVE  IsMap(Put(m, k, e))
BY DEF IsMap, Put

LEMMA WidenType ==
    ASSUME NEW e \in Hull, NEW start \in Moment, NEW end \in Moment
    PROVE  /\ Widen(e, start, end) \in Hull
           /\ Widen(e, start, end).start <= e.start
           /\ Widen(e, start, end).start <= start
           /\ e.end <= Widen(e, start, end).end
           /\ end <= Widen(e, start, end).end
BY DEF Widen, Hull, Low, High, Moment

(* mustPushIndex keeps both maps well formed and adds no key but its own.  *)
LEMMA PushEntryType ==
    ASSUME NEW c, IsMap(c), NEW p, IsMap(p), NEW k \in Keys,
           NEW start \in Moment, NEW end \in Moment
    PROVE  LET m == PushEntry(c, p, k, start, end)
           IN  /\ IsMap(m.cur) /\ IsMap(m.prev)
               /\ DOMAIN m.prev = DOMAIN p
               /\ DOMAIN m.cur = IF k \in DOMAIN p \ DOMAIN c THEN DOMAIN c
                                 ELSE DOMAIN c \cup {k}
<1>1. [start |-> start, end |-> end] \in Hull
  BY DEF Hull
<1>2. CASE k \in DOMAIN c
  <2>1. c[k] \in Hull
    BY <1>2 DEF IsMap
  <2>2. IsMap(Put(c, k, Widen(c[k], start, end)))
    BY <2>1, PutType, WidenType
  <2> QED BY <1>2, <2>2 DEF PushEntry, Put
<1>3. CASE k \notin DOMAIN c /\ k \in DOMAIN p
  <2>1. p[k] \in Hull
    BY <1>3 DEF IsMap
  <2>2. IsMap(Put(p, k, Widen(p[k], start, end)))
    BY <2>1, PutType, WidenType
  <2> QED BY <1>3, <2>2 DEF PushEntry, Put
<1>4. CASE k \notin DOMAIN c /\ k \notin DOMAIN p
  <2>1. IsMap(Put(c, k, [start |-> start, end |-> end]))
    BY <1>1, PutType
  <2> QED BY <1>4, <2>1 DEF PushEntry, Put
<1> QED BY <1>2, <1>3, <1>4

(* mustPushIndex only widens, and leaves the pushed range covered.         *)
LEMMA PushEntryCovers ==
    ASSUME NEW c, IsMap(c), NEW p, IsMap(p), NEW k \in Keys,
           NEW start \in Moment, NEW end \in Moment
    PROVE  LET m == PushEntry(c, p, k, start, end)
           IN  /\ \A x \in DOMAIN c : /\ x \in DOMAIN m.cur
                                      /\ m.cur[x].start <= c[x].start
                                      /\ c[x].end <= m.cur[x].end
               /\ \A x \in DOMAIN p : /\ x \in DOMAIN m.prev
                                      /\ m.prev[x].start <= p[x].start
                                      /\ p[x].end <= m.prev[x].end
               /\ \/ /\ k \in DOMAIN m.cur
                     /\ m.cur[k].start <= start /\ end <= m.cur[k].end
                  \/ /\ k \in DOMAIN m.prev
                     /\ m.prev[k].start <= start /\ end <= m.prev[k].end
<1>0. /\ \A x \in DOMAIN c : /\ c[x] \in Hull
                             /\ c[x].start <= c[x].start /\ c[x].end <= c[x].end
      /\ \A x \in DOMAIN p : /\ p[x] \in Hull
                             /\ p[x].start <= p[x].start /\ p[x].end <= p[x].end
      /\ start <= start /\ end <= end
  BY DEF IsMap, Hull, Moment
<1>2. CASE k \in DOMAIN c
  <2> DEFINE e == Widen(c[k], start, end)
  <2>1. /\ e.start <= c[k].start /\ e.start <= start
        /\ c[k].end <= e.end /\ end <= e.end
    BY <1>0, <1>2, WidenType
  <2>2. PushEntry(c, p, k, start, end) = [cur |-> Put(c, k, e), prev |-> p]
    BY <1>2 DEF PushEntry
  <2> HIDE DEF e
  <2> QED BY <1>0, <1>2, <2>1, <2>2 DEF Put
<1>3. CASE k \notin DOMAIN c /\ k \in DOMAIN p
  <2> DEFINE e == Widen(p[k], start, end)
  <2>1. /\ e.start <= p[k].start /\ e.start <= start
        /\ p[k].end <= e.end /\ end <= e.end
    BY <1>0, <1>3, WidenType
  <2>2. PushEntry(c, p, k, start, end) = [cur |-> c, prev |-> Put(p, k, e)]
    BY <1>3 DEF PushEntry
  <2> HIDE DEF e
  <2> QED BY <1>0, <1>3, <2>1, <2>2 DEF Put
<1>4. CASE k \notin DOMAIN c /\ k \notin DOMAIN p
  <2> DEFINE e == [start |-> start, end |-> end]
  <2>1. e.start = start /\ e.end = end
    OBVIOUS
  <2>2. PushEntry(c, p, k, start, end) = [cur |-> Put(c, k, e), prev |-> p]
    BY <1>4 DEF PushEntry
  <2> HIDE DEF e
  <2> QED BY <1>0, <1>4, <2>1, <2>2 DEF Put
<1> QED BY <1>2, <1>3, <1>4

LEMMA RowsOfType ==
    ASSUME NEW m, IsMap(m)
    PROVE  RowsOf(m) \subseteq Row
BY DEF IsMap, RowsOf, Row, Hull

LEMMA AgedType ==
    ASSUME NEW p \in Point, NEW w
    PROVE  /\ Aged(p, w) \in Point
           /\ Aged(p, w).span = p.span
           /\ Aged(p, w).start = p.start
           /\ Aged(p, w).end = p.end
           /\ WorkerOf[KeyOf(p.span)] # w => Aged(p, w).age = p.age
           /\ WorkerOf[KeyOf(p.span)] = w /\ p.age = 0 => Aged(p, w).age = 1
           /\ WorkerOf[KeyOf(p.span)] = w /\ p.age >= 1 => Aged(p, w).age = 2
BY DEF Aged, Point

-----------------------------------------------------------------------------
(* Type correctness: maps stay maps of hulls with known bounds, whatever   *)
(* the spans lack.                                                         *)
LEMMA UnsetType == Unset \in Spans
BY SpansAssumption DEF Unset

LEMMA TypeInit == Init => TypeOK
BY EmptyMapType, UnsetType DEF Init, TypeOK

LEMMA PushType ==
    ASSUME TypeOK, HandlersInv, NEW h \in Handlers,
           NEW start \in Reading(span[h].start), NEW end \in Reading(span[h].end),
           MustPushIndex(h, start, end)
    PROVE  TypeOK'
<1> DEFINE s == span[h]
           k == KeyOf(s)
           w == WorkerOf[k]
           m == PushEntry(cur[w], prev[w], k, start, end)
<1>1. s \in Spans /\ k \in Keys /\ w \in Workers
  BY KeyType DEF TypeOK, HandlersInv, MustPushIndex
<1>2. start \in Moment /\ end \in Moment
  BY <1>1, ReadingType
<1>3. IsMap(cur[w]) /\ IsMap(prev[w])
  BY <1>1 DEF TypeOK
<1>4. IsMap(m.cur) /\ IsMap(m.prev)
  BY <1>1, <1>2, <1>3, PushEntryType
<1>5. /\ cur' = [cur EXCEPT ![w] = m.cur]
      /\ prev' = [prev EXCEPT ![w] = m.prev]
      /\ pushed' = pushed \cup {[span |-> s, start |-> start, end |-> end, age |-> 0]}
      /\ pc' = [pc EXCEPT ![h] = "pushed"]
      /\ UNCHANGED <<idxRows, exited, span, rows, dropped, rejected, storedSpans, storedIndex, stage>>
  BY DEF MustPushIndex
<1> HIDE DEF s, k, w, m
<1>6. pushed' \subseteq Point
  BY <1>1, <1>2, <1>5 DEF TypeOK, Point
<1>7. /\ cur' = [x \in Workers |-> cur'[x]]
      /\ prev' = [x \in Workers |-> prev'[x]]
      /\ \A x \in Workers : IsMap(cur'[x]) /\ IsMap(prev'[x])
  BY <1>4, <1>5 DEF TypeOK
<1> QED BY <1>5, <1>6, <1>7 DEF TypeOK

LEMMA TickType ==
    ASSUME TypeOK, NEW w \in Workers, Tick(w)
    PROVE  TypeOK'
<1>1. IsMap(cur[w]) /\ IsMap(EmptyMap) /\ RowsOf(prev[w]) \subseteq Row
  BY EmptyMapType, RowsOfType DEF TypeOK
<1>2. /\ cur' = [x \in Workers |-> cur'[x]]
      /\ prev' = [x \in Workers |-> prev'[x]]
      /\ \A x \in Workers : IsMap(cur'[x]) /\ IsMap(prev'[x])
  BY <1>1 DEF Tick, TypeOK
<1>3. pushed' \subseteq Point
  BY AgedType DEF Tick, TypeOK
<1>4. idxRows' \in [Workers -> SUBSET Row]
  BY <1>1 DEF Tick, Due, TypeOK
<1> QED BY <1>2, <1>3, <1>4 DEF Tick, TypeOK, handlerVars

LEMMA TypeStep == TypeOK /\ HandlersInv /\ [Next]_vars => TypeOK'
<1> SUFFICES ASSUME TypeOK, HandlersInv, [Next]_vars PROVE TypeOK'
  OBVIOUS
<1>1. ASSUME NEW h \in Handlers, NewTraceProcessor(h) PROVE TypeOK'
  BY <1>1 DEF NewTraceProcessor, TypeOK, workerVars
<1>2. ASSUME NEW h \in Handlers, NEW s \in Spans, DropSpan(h, s) PROVE TypeOK'
  BY <1>2 DEF DropSpan, TypeOK, workerVars
<1>3. ASSUME NEW h \in Handlers, NEW s \in Spans, CheckStop(h, s) PROVE TypeOK'
  BY <1>3 DEF CheckStop, TypeOK, workerVars
<1>4. ASSUME NEW h \in Handlers,
             NEW start \in Reading(span[h].start), NEW end \in Reading(span[h].end),
             MustPushIndex(h, start, end)
      PROVE  TypeOK'
  BY <1>4, PushType
<1>5. ASSUME NEW h \in Handlers, AddRow(h) PROVE TypeOK'
  BY <1>5, UnsetType DEF AddRow, TypeOK, workerVars
<1>6. ASSUME NEW h \in Handlers, MustClose(h) PROVE TypeOK'
  BY <1>6 DEF MustClose, TypeOK, workerVars
<1>7. ASSUME NEW w \in Workers, Tick(w) PROVE TypeOK'
  BY <1>7, TickType
<1>8. ASSUME NEW w \in Workers, NEW t \in Tenants, FlushIndexRows(w, t) PROVE TypeOK'
  BY <1>8 DEF FlushIndexRows, TypeOK, handlerVars
<1>9. ASSUME NEW w \in Workers, StopWorker(w) PROVE TypeOK'
  <2>1. RowsOf(prev[w]) \subseteq Row /\ RowsOf(cur[w]) \subseteq Row
    BY RowsOfType DEF TypeOK
  <2> QED BY <1>9, <2>1 DEF StopWorker, AtStop, TypeOK, handlerVars
<1>10. CASE ProcessStep
  BY <1>10 DEF ProcessStep, Sigterm, MustStopIndexWorker, DrainTimeout, Stopped,
                TypeOK, workerVars, handlerVars
<1>11. CASE UNCHANGED vars
  BY <1>11 DEF TypeOK, vars
<1> QED
  BY <1>1, <1>2, <1>3, <1>4, <1>5, <1>6, <1>7, <1>8, <1>9, <1>10, <1>11
  DEF Next, HandlerStep, WorkerStep

-----------------------------------------------------------------------------
(* A span is pushed to the index before it enters an lmp or the storage.   *)
LEMMA HandlersStep ==
    TypeOK /\ HandlersInv /\ StoredInv /\ [Next]_vars => HandlersInv' /\ StoredInv'
<1> SUFFICES ASSUME TypeOK, HandlersInv, StoredInv, [Next]_vars
             PROVE  HandlersInv' /\ StoredInv'
  OBVIOUS
<1> USE DEF TypeOK, HandlersInv, StoredInv
<1>1. ASSUME NEW h \in Handlers, NewTraceProcessor(h) PROVE HandlersInv' /\ StoredInv'
  BY <1>1 DEF NewTraceProcessor
<1>2. ASSUME NEW h \in Handlers, NEW s \in Spans, DropSpan(h, s)
      PROVE  HandlersInv' /\ StoredInv'
  BY <1>2 DEF DropSpan
<1>3. ASSUME NEW h \in Handlers, NEW s \in Spans, CheckStop(h, s)
      PROVE  HandlersInv' /\ StoredInv'
  BY <1>3 DEF CheckStop
<1>4. ASSUME NEW h \in Handlers,
             NEW start \in Reading(span[h].start), NEW end \in Reading(span[h].end),
             MustPushIndex(h, start, end)
      PROVE  HandlersInv' /\ StoredInv'
  <2> DEFINE new == [span |-> span[h], start |-> start, end |-> end, age |-> 0]
  <2>1. /\ pushed' = pushed \cup {new} /\ new.span = span[h]
        /\ pc' = [pc EXCEPT ![h] = "pushed"] /\ pc[h] = "checked"
        /\ UNCHANGED <<span, rows, storedSpans>>
    BY <1>4 DEF MustPushIndex
  <2> QED BY <2>1
<1>5. ASSUME NEW h \in Handlers, AddRow(h) PROVE HandlersInv' /\ StoredInv'
  <2>1. \A s \in rows[h] \cup {span[h]} : \E p \in pushed : p.span = s
    BY <1>5 DEF AddRow
  <2> QED BY <1>5, <2>1 DEF AddRow
<1>6. ASSUME NEW h \in Handlers, MustClose(h) PROVE HandlersInv' /\ StoredInv'
  BY <1>6 DEF MustClose
<1>7. ASSUME NEW w \in Workers, Tick(w) PROVE HandlersInv' /\ StoredInv'
  <2>1. \A p \in pushed : \E q \in pushed' : q.span = p.span
    BY <1>7, AgedType DEF Tick
  <2> QED BY <1>7, <2>1 DEF Tick, handlerVars
<1>8. ASSUME NEW w \in Workers, NEW t \in Tenants, FlushIndexRows(w, t)
      PROVE  HandlersInv' /\ StoredInv'
  BY <1>8 DEF FlushIndexRows, handlerVars
<1>9. ASSUME NEW w \in Workers, StopWorker(w) PROVE HandlersInv' /\ StoredInv'
  BY <1>9 DEF StopWorker, handlerVars
<1>10. CASE ProcessStep
  BY <1>10 DEF ProcessStep, Sigterm, MustStopIndexWorker, DrainTimeout, Stopped, handlerVars
<1>11. CASE UNCHANGED vars
  BY <1>11 DEF vars
<1> QED
  BY <1>1, <1>2, <1>3, <1>4, <1>5, <1>6, <1>7, <1>8, <1>9, <1>10, <1>11
  DEF Next, HandlerStep, WorkerStep

(* Only mustPushIndex and the tick touch the maps.                         *)
LEMMA MapsUnchanged ==
    ASSUME [Next]_vars,
           ~ \E h \in Handlers : \E start \in Reading(span[h].start), end \in Reading(span[h].end) :
                 MustPushIndex(h, start, end),
           ~ \E w \in Workers : Tick(w)
    PROVE  UNCHANGED <<cur, prev, pushed>>
BY DEF Next, HandlerStep, WorkerStep, ProcessStep, vars, workerVars, handlerVars,
       NewTraceProcessor, DropSpan, CheckStop, AddRow, MustClose, FlushIndexRows,
       StopWorker, Sigterm, MustStopIndexWorker, DrainTimeout, Stopped

LEMMA OneEntryStep ==
    TypeOK /\ HandlersInv /\ OneEntryPerKey /\ [Next]_vars => OneEntryPerKey'
<1> SUFFICES ASSUME TypeOK, HandlersInv, OneEntryPerKey, [Next]_vars
             PROVE  OneEntryPerKey'
  OBVIOUS
<1>1. ASSUME NEW h \in Handlers,
             NEW start \in Reading(span[h].start), NEW end \in Reading(span[h].end),
             MustPushIndex(h, start, end)
      PROVE  OneEntryPerKey'
  <2> DEFINE k == KeyOf(span[h])
             w == WorkerOf[k]
             m == PushEntry(cur[w], prev[w], k, start, end)
  <2>1. /\ span[h] \in Spans /\ k \in Keys /\ w \in Workers
        /\ start \in Moment /\ end \in Moment
    BY <1>1, KeyType, ReadingType DEF TypeOK, HandlersInv, MustPushIndex
  <2>2. IsMap(cur[w]) /\ IsMap(prev[w])
    BY <2>1 DEF TypeOK
  <2>3. /\ cur' = [cur EXCEPT ![w] = m.cur]
        /\ prev' = [prev EXCEPT ![w] = m.prev]
    BY <1>1 DEF MustPushIndex
  <2>4. WorkerOf[k] = w
    OBVIOUS
  <2> HIDE DEF k, w
  <2>5. /\ DOMAIN m.prev = DOMAIN prev[w]
        /\ DOMAIN m.cur = IF k \in DOMAIN prev[w] \ DOMAIN cur[w] THEN DOMAIN cur[w]
                          ELSE DOMAIN cur[w] \cup {k}
    BY <2>1, <2>2, PushEntryType
  <2> HIDE DEF m
  <2>6. /\ cur'[w] = m.cur /\ prev'[w] = m.prev
        /\ \A x \in Workers \ {w} : cur'[x] = cur[x] /\ prev'[x] = prev[x]
    BY <2>1, <2>3 DEF TypeOK
  <2> QED BY <2>1, <2>4, <2>5, <2>6 DEF OneEntryPerKey
<1>2. ASSUME NEW w \in Workers, Tick(w) PROVE OneEntryPerKey'
  BY <1>2 DEF Tick, OneEntryPerKey, TypeOK, EmptyMap
<1> QED BY <1>1, <1>2, MapsUnchanged DEF OneEntryPerKey

-----------------------------------------------------------------------------
(* Every range pushed keeps its place: the maps only widen, a tick moves   *)
(* it one generation on, and what is flushed stays flushed.                *)
FlushedStays == Flushed \subseteq Flushed'

LEMMA PlacedFrame ==
    ASSUME PointsInv, UNCHANGED <<cur, prev, pushed>>, FlushedStays
    PROVE  PointsInv'
BY DEF PointsInv, Placed, FlushedStays

LEMMA PushPlaced ==
    ASSUME TypeOK, HandlersInv, PointsInv, NEW h \in Handlers,
           NEW start \in Reading(span[h].start), NEW end \in Reading(span[h].end),
           MustPushIndex(h, start, end)
    PROVE  PointsInv'
<1> DEFINE k == KeyOf(span[h])
           w == WorkerOf[k]
           m == PushEntry(cur[w], prev[w], k, start, end)
           new == [span |-> span[h], start |-> start, end |-> end, age |-> 0]
<1>1. /\ span[h] \in Spans /\ k \in Keys /\ w \in Workers /\ span[h].trace # NoTrace
      /\ start \in Moment /\ end \in Moment
  BY KeyType, ReadingType DEF TypeOK, HandlersInv, MustPushIndex
<1>2. IsMap(cur[w]) /\ IsMap(prev[w])
  BY <1>1 DEF TypeOK
<1>3. /\ cur' = [cur EXCEPT ![w] = m.cur]
      /\ prev' = [prev EXCEPT ![w] = m.prev]
      /\ pushed' = pushed \cup {new}
      /\ UNCHANGED <<idxRows, storedIndex>>
  BY DEF MustPushIndex
<1>4. /\ new.span = span[h] /\ new.start = start /\ new.end = end /\ new.age = 0
      /\ KeyOf(new.span) = k /\ WorkerOf[KeyOf(new.span)] = w
  OBVIOUS
<1> HIDE DEF k, w, new
<1>5. /\ \A x \in DOMAIN cur[w] : /\ x \in DOMAIN m.cur
                                  /\ m.cur[x].start <= cur[w][x].start
                                  /\ cur[w][x].end <= m.cur[x].end
      /\ \A x \in DOMAIN prev[w] : /\ x \in DOMAIN m.prev
                                   /\ m.prev[x].start <= prev[w][x].start
                                   /\ prev[w][x].end <= m.prev[x].end
      /\ \/ /\ k \in DOMAIN m.cur
            /\ m.cur[k].start <= start /\ end <= m.cur[k].end
         \/ /\ k \in DOMAIN m.prev
            /\ m.prev[k].start <= start /\ end <= m.prev[k].end
  BY <1>1, <1>2, PushEntryCovers
<1>6. IsMap(m.cur) /\ IsMap(m.prev)
  BY <1>1, <1>2, PushEntryType
<1> HIDE DEF m
<1>7. /\ cur'[w] = m.cur /\ prev'[w] = m.prev
      /\ \A x \in Workers \ {w} : cur'[x] = cur[x] /\ prev'[x] = prev[x]
  BY <1>1, <1>3 DEF TypeOK
<1>8. Flushed' = Flushed
  BY <1>3 DEF Flushed
<1>9. ASSUME NEW n, n = new PROVE Placed(n)' /\ n.span.trace # NoTrace
  BY <1>1, <1>4, <1>5, <1>7, <1>9 DEF Placed, HullCovers
<1>10. ASSUME NEW p \in pushed PROVE Placed(p)'
  <2> DEFINE q == KeyOf(p.span)
             v == WorkerOf[q]
  <2>1. /\ v \in Workers /\ Placed(p) /\ IsMap(cur[v]) /\ IsMap(prev[v])
        /\ p.start \in Moment /\ p.end \in Moment
    BY KeyType DEF TypeOK, PointsInv, Point
  <2>2. CASE \E r \in Flushed : Covers(r, p)
    BY <2>2, <1>8 DEF Placed
  <2>3. CASE p.age <= 1 /\ q \in DOMAIN prev[v] /\ HullCovers(prev[v][q], p)
    <3>1. q \in DOMAIN prev'[v] /\ HullCovers(prev'[v][q], p)
      BY <2>1, <2>3, <1>5, <1>6, <1>7 DEF HullCovers, IsMap, Hull, Moment
    <3> QED BY <2>3, <3>1 DEF Placed
  <2>4. CASE p.age = 0 /\ q \in DOMAIN cur[v] /\ HullCovers(cur[v][q], p)
    <3>1. q \in DOMAIN cur'[v] /\ HullCovers(cur'[v][q], p)
      BY <2>1, <2>4, <1>5, <1>6, <1>7 DEF HullCovers, IsMap, Hull, Moment
    <3> QED BY <2>4, <3>1 DEF Placed
  <2> QED BY <2>1, <2>2, <2>3, <2>4 DEF Placed
<1> QED BY <1>3, <1>9, <1>10 DEF PointsInv

LEMMA TickPlaced ==
    ASSUME TypeOK, PointsInv, NEW w \in Workers, Tick(w)
    PROVE  PointsInv'
<1>1. /\ idxRows'[w] = idxRows[w] \cup RowsOf(prev[w])
      /\ cur'[w] = EmptyMap /\ prev'[w] = cur[w]
      /\ \A x \in Workers \ {w} : /\ idxRows'[x] = idxRows[x]
                                  /\ cur'[x] = cur[x] /\ prev'[x] = prev[x]
      /\ storedIndex' = storedIndex
      /\ pushed' = {Aged(p, w) : p \in pushed}
  BY DEF Tick, Due, TypeOK
<1>2. Flushed \cup RowsOf(prev[w]) \subseteq Flushed'
  BY <1>1 DEF Flushed
<1>3. ASSUME NEW p \in pushed, NEW a, a = Aged(p, w) PROVE Placed(a)'
  <2> DEFINE q == KeyOf(p.span)
             v == WorkerOf[q]
  <2>1. /\ v \in Workers /\ Placed(p) /\ p \in Point /\ p.span.trace # NoTrace
        /\ p.age \in 0..2 /\ p.span \in Spans
    BY KeyType DEF TypeOK, PointsInv, Point
  <2>2. /\ a.span = p.span /\ a.start = p.start /\ a.end = p.end
        /\ v # w => a.age = p.age
        /\ v = w /\ p.age = 0 => a.age = 1
        /\ v = w /\ p.age >= 1 => a.age = 2
    BY <1>3, <2>1, AgedType
  <2>3. CASE \E r \in Flushed : Covers(r, p)
    BY <2>3, <2>2, <1>2 DEF Placed, Covers, Belongs
  <2>4. CASE p.age <= 1 /\ q \in DOMAIN prev[v] /\ HullCovers(prev[v][q], p)
    <3>1. CASE v = w
      <4> DEFINE r == [key |-> q, start |-> prev[w][q].start, end |-> prev[w][q].end]
      <4>1. r \in Flushed'
        BY <3>1, <2>4, <1>2 DEF RowsOf
      <4>2. Covers(r, a)
        BY <3>1, <2>2, <2>4 DEF Covers, Belongs, HullCovers, KeyOf
      <4> QED BY <4>1, <4>2 DEF Placed
    <3>2. CASE v # w
      BY <3>2, <2>1, <2>2, <2>4, <1>1 DEF Placed, HullCovers
    <3> QED BY <3>1, <3>2
  <2>5. CASE p.age = 0 /\ q \in DOMAIN cur[v] /\ HullCovers(cur[v][q], p)
    <3>1. CASE v = w
      BY <3>1, <2>1, <2>2, <2>5, <1>1 DEF Placed, HullCovers
    <3>2. CASE v # w
      BY <3>2, <2>1, <2>2, <2>5, <1>1 DEF Placed, HullCovers
    <3> QED BY <3>1, <3>2
  <2> QED BY <2>1, <2>3, <2>4, <2>5 DEF Placed
<1>4. \A p \in pushed : p.span.trace # NoTrace /\ Aged(p, w).span = p.span
  BY AgedType DEF PointsInv, TypeOK
<1> QED BY <1>1, <1>3, <1>4 DEF PointsInv

LEMMA PointsStep ==
    TypeOK /\ HandlersInv /\ PointsInv /\ [Next]_vars => PointsInv'
<1> SUFFICES ASSUME TypeOK, HandlersInv, PointsInv, [Next]_vars PROVE PointsInv'
  OBVIOUS
<1>1. ASSUME NEW h \in Handlers,
             NEW start \in Reading(span[h].start), NEW end \in Reading(span[h].end),
             MustPushIndex(h, start, end)
      PROVE  PointsInv'
  BY <1>1, PushPlaced
<1>2. ASSUME NEW w \in Workers, Tick(w) PROVE PointsInv'
  BY <1>2, TickPlaced
<1>3. ASSUME NEW w \in Workers, NEW t \in Tenants, FlushIndexRows(w, t) PROVE FlushedStays
  BY <1>3 DEF FlushIndexRows, FlushedStays, Flushed, TypeOK
<1>4. ASSUME NEW w \in Workers, StopWorker(w) PROVE FlushedStays
  BY <1>4 DEF StopWorker, AtStop, FlushedStays, Flushed, TypeOK
<1>5. ASSUME UNCHANGED <<idxRows, storedIndex>> PROVE FlushedStays
  BY <1>5 DEF FlushedStays, Flushed
<1>6. CASE \E w \in Workers : StopWorker(w) \/ \E t \in Tenants : FlushIndexRows(w, t)
  <2>1. UNCHANGED <<cur, prev, pushed>>
    BY <1>6 DEF StopWorker, FlushIndexRows
  <2> QED BY <1>3, <1>4, <1>6, <2>1, PlacedFrame
<1>7. CASE /\ ~ \E h \in Handlers : \E start \in Reading(span[h].start), end \in Reading(span[h].end) :
                  MustPushIndex(h, start, end)
           /\ ~ \E w \in Workers : \/ Tick(w) \/ StopWorker(w)
                                   \/ \E t \in Tenants : FlushIndexRows(w, t)
  <2>1. UNCHANGED <<idxRows, storedIndex>>
    BY <1>7 DEF Next, HandlerStep, WorkerStep, ProcessStep, vars, workerVars, handlerVars,
                NewTraceProcessor, DropSpan, CheckStop, AddRow, MustClose,
                Sigterm, MustStopIndexWorker, DrainTimeout, Stopped
  <2>2. UNCHANGED <<cur, prev, pushed>>
    BY <1>7, MapsUnchanged
  <2> QED BY <1>5, <2>1, <2>2, PlacedFrame
<1> QED BY <1>1, <1>2, <1>6, <1>7

-----------------------------------------------------------------------------
(* A span that was pushed leaves an lmp only for the storage, or is        *)
(* dropped as too wide.                                                    *)
LEMMA SpansStep ==
    TypeOK /\ SpansInv /\ [Next]_vars => SpansInv'
<1> SUFFICES ASSUME TypeOK, SpansInv, [Next]_vars PROVE SpansInv'
  OBVIOUS
<1> USE DEF TypeOK, SpansInv, Kept
<1>1. ASSUME NEW h \in Handlers, NewTraceProcessor(h) PROVE SpansInv'
  BY <1>1 DEF NewTraceProcessor
<1>2. ASSUME NEW h \in Handlers, NEW s \in Spans, DropSpan(h, s) PROVE SpansInv'
  BY <1>2 DEF DropSpan
<1>3. ASSUME NEW h \in Handlers, NEW s \in Spans, CheckStop(h, s) PROVE SpansInv'
  <2>1. /\ UNCHANGED <<rows, storedSpans, dropped, pushed>>
        /\ \A g \in Handlers : pc[g] # "open" => pc'[g] = pc[g] /\ span'[g] = span[g]
        /\ \A g \in Handlers : pc'[g] = "idle" => pc[g] = "idle"
        /\ pc[h] = "open"
    BY <1>3 DEF CheckStop
  <2> QED BY <2>1
<1>4. ASSUME NEW h \in Handlers,
             NEW start \in Reading(span[h].start), NEW end \in Reading(span[h].end),
             MustPushIndex(h, start, end)
      PROVE  SpansInv'
  <2> DEFINE new == [span |-> span[h], start |-> start, end |-> end, age |-> 0]
  <2>1. /\ pushed' = pushed \cup {new} /\ new.span = span[h]
        /\ pc' = [pc EXCEPT ![h] = "pushed"] /\ pc[h] = "checked"
        /\ UNCHANGED <<span, rows, storedSpans, dropped>>
    BY <1>4 DEF MustPushIndex
  <2> QED BY <2>1
<1>5. ASSUME NEW h \in Handlers, AddRow(h) PROVE SpansInv'
  <2>1. /\ UNCHANGED pushed
        /\ pc' = [pc EXCEPT ![h] = "open"] /\ span' = [span EXCEPT ![h] = Unset]
        /\ storedSpans \cup dropped \subseteq storedSpans' \cup dropped'
        /\ \A g \in Handlers \ {h} : rows'[g] = rows[g]
        /\ \A s \in rows[h] \cup {span[h]} : s \in storedSpans' \cup dropped' \cup rows'[h]
    <3>1. CASE span[h].wide
      BY <1>5, <3>1 DEF AddRow
    <3>2. CASE ~ span[h].wide /\ rows' = [rows EXCEPT ![h] = @ \cup {span[h]}]
      BY <1>5, <3>2 DEF AddRow
    <3>3. CASE ~ span[h].wide /\ rows' = [rows EXCEPT ![h] = {}]
               /\ storedSpans' = storedSpans \cup rows[h] \cup {span[h]}
      BY <1>5, <3>3 DEF AddRow
    <3> QED BY <1>5, <3>1, <3>2, <3>3 DEF AddRow
  <2>2. ASSUME NEW s, Kept(s) PROVE Kept(s)'
    <3>1. CASE s \in storedSpans \cup dropped
      BY <2>1, <3>1
    <3>2. ASSUME NEW g \in Handlers, s \in rows[g] \/ (pc[g] = "pushed" /\ span[g] = s)
          PROVE  Kept(s)'
      <4>1. CASE g = h
        BY <2>1, <3>2, <4>1
      <4>2. CASE g # h
        BY <2>1, <3>2, <4>2
      <4> QED BY <4>1, <4>2
    <3> QED BY <2>2, <3>1, <3>2
  <2> QED BY <2>1, <2>2
<1>6. ASSUME NEW h \in Handlers, MustClose(h) PROVE SpansInv'
  BY <1>6 DEF MustClose
<1>7. ASSUME NEW w \in Workers, Tick(w) PROVE SpansInv'
  <2>1. \A q \in pushed' : \E p \in pushed : q.span = p.span
    BY <1>7, AgedType DEF Tick
  <2> QED BY <1>7, <2>1 DEF Tick, handlerVars
<1>8. ASSUME NEW w \in Workers, NEW t \in Tenants, FlushIndexRows(w, t) PROVE SpansInv'
  BY <1>8 DEF FlushIndexRows, handlerVars
<1>9. ASSUME NEW w \in Workers, StopWorker(w) PROVE SpansInv'
  BY <1>9 DEF StopWorker, handlerVars
<1>10. CASE ProcessStep
  BY <1>10 DEF ProcessStep, Sigterm, MustStopIndexWorker, DrainTimeout, Stopped, handlerVars
<1>11. CASE UNCHANGED vars
  BY <1>11 DEF vars
<1> QED
  BY <1>1, <1>2, <1>3, <1>4, <1>5, <1>6, <1>7, <1>8, <1>9, <1>10, <1>11
  DEF Next, HandlerStep, WorkerStep

(* Nothing is left for a handler to do once the workers are told to stop.  *)
LEMMA ShutdownStep ==
    TypeOK /\ ShutdownInv /\ [Next]_vars => ShutdownInv'
<1> SUFFICES ASSUME TypeOK, ShutdownInv, [Next]_vars PROVE ShutdownInv'
  OBVIOUS
<1> USE DEF ShutdownInv, Drained
<1>1. ASSUME NEW h \in Handlers, HandlerStep(h) PROVE ShutdownInv'
  <2>1. stage \notin {"stopping", "stopped"} /\ exited = {} /\ UNCHANGED <<stage, exited>>
    <3>1. UNCHANGED <<stage, exited>>
      BY <1>1 DEF HandlerStep, NewTraceProcessor, DropSpan, CheckStop, MustPushIndex,
                  AddRow, MustClose, workerVars
    <3>2. stage = "serving" \/ pc[h] # "idle"
      BY <1>1 DEF HandlerStep, NewTraceProcessor, DropSpan, CheckStop, MustPushIndex,
                  AddRow, MustClose
    <3> QED BY <3>1, <3>2
  <2>2. UNCHANGED rejected
    BY <1>1, <2>1 DEF HandlerStep, NewTraceProcessor, DropSpan, CheckStop, MustPushIndex,
                      AddRow, MustClose, TypeOK
  <2> QED BY <2>1, <2>2
<1>2. ASSUME NEW w \in Workers, Tick(w) PROVE ShutdownInv'
  <2>1. /\ w \notin exited
        /\ \A v \in exited : UNCHANGED <<idxRows[v], cur[v], prev[v]>>
        /\ UNCHANGED <<exited, rejected, pc, stage, storedIndex>>
    BY <1>2 DEF Tick, Running, TypeOK, handlerVars
  <2>2. \A v \in exited : RowsOf(cur[v])' = RowsOf(cur[v]) /\ RowsOf(prev[v])' = RowsOf(prev[v])
    BY <2>1 DEF RowsOf
  <2> QED BY <2>1, <2>2
<1>3. ASSUME NEW w \in Workers, NEW t \in Tenants, FlushIndexRows(w, t) PROVE ShutdownInv'
  <2>1. /\ \A v \in exited : UNCHANGED <<idxRows[v], cur[v], prev[v]>>
        /\ UNCHANGED <<cur, prev, exited, rejected, pc, stage>>
        /\ storedIndex \subseteq storedIndex'
    BY <1>3 DEF FlushIndexRows, Running, TypeOK, handlerVars
  <2> QED BY <2>1 DEF RowsOf
<1>4. ASSUME NEW w \in Workers, StopWorker(w) PROVE ShutdownInv'
  <2>1. /\ stage = "stopping" /\ exited' = exited \cup {w}
        /\ UNCHANGED <<cur, prev, rejected, pc, stage>>
        /\ storedIndex' = storedIndex \cup AtStop(w)
        /\ idxRows' = [idxRows EXCEPT ![w] = {}]
    BY <1>4 DEF StopWorker, handlerVars
  <2>2. /\ idxRows'[w] = {} /\ \A v \in Workers \ {w} : idxRows'[v] = idxRows[v]
        /\ exited \subseteq Workers
        /\ RowsOf(cur[w]) \cup RowsOf(prev[w]) \subseteq storedIndex'
    BY <2>1 DEF TypeOK, AtStop
  <2> QED BY <2>1, <2>2 DEF RowsOf
<1>5. CASE ProcessStep
  BY <1>5 DEF ProcessStep, Sigterm, MustStopIndexWorker, DrainTimeout, Stopped, TypeOK,
              workerVars, handlerVars, RowsOf
<1>6. CASE UNCHANGED vars
  BY <1>6 DEF vars, RowsOf
<1> QED BY <1>1, <1>2, <1>3, <1>4, <1>5, <1>6 DEF Next, WorkerStep

-----------------------------------------------------------------------------
LEMMA IndexInvInit == Init => IndexInv
BY TypeInit DEF Init, IndexInv, OneEntryPerKey, HandlersInv, StoredInv, PointsInv, EmptyMap,
                SpansInv, ShutdownInv, Drained

LEMMA IndexInvStep == IndexInv /\ [Next]_vars => IndexInv'
BY TypeStep, OneEntryStep, HandlersStep, PointsStep, SpansStep, ShutdownStep DEF IndexInv

LEMMA IndexInvariant == Spec => []IndexInv
BY IndexInvInit, IndexInvStep, PTL DEF Spec

(* The maps of every worker hold hulls with known bounds under keys of     *)
(* some tenant and trace, whatever fields the spans lack.                  *)
THEOREM TypeCorrect == Spec => []TypeOK
<1>1. IndexInv => TypeOK
  BY DEF IndexInv
<1> QED BY <1>1, IndexInvariant, PTL

(* No trace is ever buffered twice, nor by a worker that does not own it.  *)
THEOREM OneEntry == Spec => []OneEntryPerKey
<1>1. IndexInv => OneEntryPerKey
  BY DEF IndexInv
<1> QED BY <1>1, IndexInvariant, PTL

(* A range is out of the maps after two ticks of its worker, for any rate  *)
(* of updates to its trace.                                                *)
THEOREM LeavesInTwoTicks == Spec => []OldRangesHaveLeft
<1>1. IndexInv => OldRangesHaveLeft
  BY DEF IndexInv, PointsInv, Placed, OldRangesHaveLeft
<1> QED BY <1>1, IndexInvariant, PTL

(* Some index row, held, buffered or stored, covers every stored span.     *)
THEOREM NoSpanWithoutIndex == Spec => []StoredSpanIsIndexed
<1>1. IndexInv => StoredSpanIsIndexed
  <2> SUFFICES ASSUME IndexInv, NEW p \in pushed
               PROVE  \E r \in AllRows : Covers(r, p)
    BY DEF IndexInv, StoredSpanIsIndexed, HandlersInv, StoredInv
  <2> DEFINE k == KeyOf(p.span)
             w == WorkerOf[k]
             Row1(m) == [key |-> k, start |-> m[k].start, end |-> m[k].end]
  <2>1. Placed(p) /\ k \in Keys /\ w \in Workers
    BY KeyType DEF IndexInv, PointsInv, TypeOK, Point
  <2>2. CASE \E r \in Flushed : Covers(r, p)
    BY <2>2 DEF AllRows
  <2>3. CASE k \in DOMAIN prev[w] /\ HullCovers(prev[w][k], p)
    <3>1. Row1(prev[w]) \in AllRows
      BY <2>1, <2>3 DEF AllRows, Held, RowsOf
    <3>2. Covers(Row1(prev[w]), p)
      BY <2>3 DEF Covers, Belongs, HullCovers, KeyOf
    <3> QED BY <3>1, <3>2
  <2>4. CASE k \in DOMAIN cur[w] /\ HullCovers(cur[w][k], p)
    <3>1. Row1(cur[w]) \in AllRows
      BY <2>1, <2>4 DEF AllRows, Held, RowsOf
    <3>2. Covers(Row1(cur[w]), p)
      BY <2>4 DEF Covers, Belongs, HullCovers, KeyOf
    <3> QED BY <3>1, <3>2
  <2> QED BY <2>1, <2>2, <2>3, <2>4 DEF Placed
<1> QED BY <1>1, IndexInvariant, PTL

(* A clean shutdown leaves every span and a covering row in the storage.   *)
THEOREM CleanStopIsClean == Spec => []CleanStopKeepsAll
<1>1. IndexInv => CleanStopKeepsAll
  <2> SUFFICES ASSUME IndexInv, stage = "stopped", NEW p \in pushed
               PROVE  p.span \in storedSpans \cup dropped /\ \E r \in storedIndex : Covers(r, p)
    BY DEF CleanStopKeepsAll, IndexInv, ShutdownInv
  <2> DEFINE k == KeyOf(p.span)
             w == WorkerOf[k]
             RowFrom(m) == [key |-> k, start |-> m[k].start, end |-> m[k].end]
  <2>1. \A h \in Handlers : pc[h] = "idle" /\ rows[h] = {}
    BY DEF IndexInv, ShutdownInv, SpansInv, Drained
  <2>2. p.span \in storedSpans \cup dropped
    BY <2>1 DEF IndexInv, SpansInv, Kept
  <2>3. \A v \in Workers : /\ idxRows[v] = {}
                           /\ RowsOf(cur[v]) \cup RowsOf(prev[v]) \subseteq storedIndex
    BY DEF IndexInv, ShutdownInv
  <2>4. Placed(p) /\ k \in Keys /\ w \in Workers
    BY KeyType DEF IndexInv, PointsInv, TypeOK, Point
  <2>5. CASE \E r \in Flushed : Covers(r, p)
    BY <2>2, <2>3, <2>5 DEF Flushed
  <2>6. CASE k \in DOMAIN prev[w] /\ HullCovers(prev[w][k], p)
    <3>1. RowFrom(prev[w]) \in storedIndex
      BY <2>3, <2>4, <2>6 DEF RowsOf
    <3>2. Covers(RowFrom(prev[w]), p)
      BY <2>6 DEF Covers, Belongs, HullCovers, KeyOf
    <3> QED BY <2>2, <3>1, <3>2
  <2>7. CASE k \in DOMAIN cur[w] /\ HullCovers(cur[w][k], p)
    <3>1. RowFrom(cur[w]) \in storedIndex
      BY <2>3, <2>4, <2>7 DEF RowsOf
    <3>2. Covers(RowFrom(cur[w]), p)
      BY <2>7 DEF Covers, Belongs, HullCovers, KeyOf
    <3> QED BY <2>2, <3>1, <3>2
  <2> QED BY <2>2, <2>4, <2>5, <2>6, <2>7 DEF Placed
<1> QED BY <1>1, IndexInvariant, PTL

-----------------------------------------------------------------------------
(* The refinement: the generations of all workers are one map.             *)
Live == [k \in LiveKeys |-> LiveHull(k)]

(* The entry of a key, whichever generation holds it.                      *)
LEMMA LiveEntry ==
    ASSUME OneEntryPerKey, NEW w \in Workers, w \notin exited, NEW k \in Keys
    PROVE  /\ k \in DOMAIN cur[w] => k \in LiveKeys /\ LiveHull(k) = cur[w][k]
           /\ k \in DOMAIN prev[w] => k \in LiveKeys /\ LiveHull(k) = prev[w][k]
           /\ WorkerOf[k] = w /\ k \in LiveKeys => k \in DOMAIN cur[w] \cup DOMAIN prev[w]
BY DEF OneEntryPerKey, LiveKeys, LiveHull

(* A key of a worker that keeps its two maps keeps its entry.              *)
LEMMA LiveFrame ==
    ASSUME NEW k \in Keys,
           WorkerOf[k] \in exited' <=> WorkerOf[k] \in exited,
           UNCHANGED <<cur[WorkerOf[k]], prev[WorkerOf[k]]>>
    PROVE  (k \in LiveKeys' <=> k \in LiveKeys) /\ LiveHull(k)' = LiveHull(k)
BY DEF LiveKeys, LiveHull

LEMMA StutterMaps ==
    ASSUME UNCHANGED <<cur, prev, exited>>
    PROVE  UNCHANGED Live
BY DEF Live, LiveKeys, LiveHull

(* Widening an entry is joining a range to it.                             *)
LEMMA WidenIsJoin ==
    ASSUME NEW m, NEW k \in DOMAIN m, m[k] \in Hull, NEW start \in Moment, NEW end \in Moment
    PROVE  Widen(m[k], start, end) = [start |-> IF start < m[k].start THEN start ELSE m[k].start,
                                      end   |-> IF end > m[k].end THEN end ELSE m[k].end]
BY DEF Widen, Low, High, Hull, Moment

(* mustPushIndex accepts the range for the key, in whatever map it is.     *)
LEMMA PushAccepts ==
    ASSUME IndexInv, NEW h \in Handlers,
           NEW start \in Reading(span[h].start), NEW end \in Reading(span[h].end),
           MustPushIndex(h, start, end),
           NEW k, k = KeyOf(span[h]), NEW w, w = WorkerOf[k]
    PROVE  OneMap!Accept(k, start, end)
<1> DEFINE m == PushEntry(cur[w], prev[w], k, start, end)
<1>1. /\ span[h] \in Spans /\ k \in Keys /\ w \in Workers
      /\ start \in Moment /\ end \in Moment
  BY KeyType, ReadingType DEF IndexInv, TypeOK, HandlersInv, MustPushIndex
<1>2. /\ cur' = [cur EXCEPT ![w] = m.cur]
      /\ prev' = [prev EXCEPT ![w] = m.prev]
      /\ UNCHANGED <<idxRows, exited, storedIndex>>
  BY DEF MustPushIndex
<1>3. exited = {} /\ OneEntryPerKey /\ OneEntryPerKey'
  <2>1. exited = {}
    BY DEF IndexInv, ShutdownInv, Drained, MustPushIndex
  <2>2. [Next]_vars
    BY DEF Next, HandlerStep
  <2> QED BY <2>1, <2>2, IndexInvStep DEF IndexInv
<1>4. IsMap(cur[w]) /\ IsMap(prev[w]) /\ DOMAIN cur[w] \cap DOMAIN prev[w] = {}
  BY <1>1, <1>3 DEF IndexInv, TypeOK, OneEntryPerKey
<1>5. WorkerOf[k] = w
  OBVIOUS
<1>6. /\ DOMAIN m.prev = DOMAIN prev[w]
      /\ DOMAIN m.cur = IF k \in DOMAIN prev[w] \ DOMAIN cur[w] THEN DOMAIN cur[w]
                        ELSE DOMAIN cur[w] \cup {k}
  BY <1>4 DEF PushEntry, Put
<1>7. /\ \A x \in DOMAIN m.cur \ {k} : m.cur[x] = cur[w][x]
      /\ \A x \in DOMAIN m.prev \ {k} : m.prev[x] = prev[w][x]
  BY <1>4 DEF PushEntry, Put
<1> DEFINE e == IF k \in DOMAIN cur[w] THEN Widen(cur[w][k], start, end)
                ELSE IF k \in DOMAIN prev[w] THEN Widen(prev[w][k], start, end)
                ELSE [start |-> start, end |-> end]
<1>8. (k \in DOMAIN m.cur => m.cur[k] = e) /\ (k \notin DOMAIN m.cur => m.prev[k] = e)
  <2>1. CASE k \in DOMAIN cur[w]
    BY <2>1 DEF PushEntry, Put
  <2>2. CASE k \notin DOMAIN cur[w] /\ k \in DOMAIN prev[w]
    BY <2>2 DEF PushEntry, Put
  <2>3. CASE k \notin DOMAIN cur[w] /\ k \notin DOMAIN prev[w]
    BY <2>3 DEF PushEntry, Put
  <2> QED BY <2>1, <2>2, <2>3
<1> HIDE DEF m
<1>9. /\ cur'[w] = m.cur /\ prev'[w] = m.prev
      /\ \A x \in Workers \ {w} : cur'[x] = cur[x] /\ prev'[x] = prev[x]
  BY <1>1, <1>2 DEF IndexInv, TypeOK
<1>10. LiveKeys' = LiveKeys \cup {k}
  <2>1. ASSUME NEW x \in Keys PROVE x \in LiveKeys' <=> x \in LiveKeys \cup {k}
    <3>1. CASE WorkerOf[x] = w
      BY <1>1, <1>2, <1>3, <1>5, <1>6, <1>9, <3>1 DEF LiveKeys
    <3>2. CASE WorkerOf[x] # w
      <4>1. WorkerOf[x] \in Workers /\ x # k
        BY <1>5, <3>2, WorkerAssumption
      <4>2. x \in LiveKeys' <=> x \in LiveKeys
        BY <1>2, <1>9, <3>2, <4>1, LiveFrame
      <4> QED BY <4>1, <4>2
    <3> QED BY <3>1, <3>2
  <2> QED BY <1>1, <2>1 DEF LiveKeys
<1>11. ASSUME NEW x \in LiveKeys, x # k PROVE LiveHull(x)' = LiveHull(x)
  <2>1. x \in Keys /\ WorkerOf[x] \in Workers
    BY WorkerAssumption DEF LiveKeys
  <2>2. CASE WorkerOf[x] = w
    BY <1>6, <1>7, <1>9, <1>11, <2>2 DEF LiveHull, LiveKeys
  <2>3. CASE WorkerOf[x] # w
    BY <1>2, <1>9, <2>1, <2>3, LiveFrame
  <2> QED BY <2>2, <2>3
<1>12. LiveHull(k)' = e
  <2>1. LiveHull(k)' = IF k \in DOMAIN cur'[w] THEN cur'[w][k] ELSE prev'[w][k]
    BY <1>5 DEF LiveHull
  <2> QED BY <1>8, <1>9, <2>1
<1>13. e = IF k \notin LiveKeys THEN [start |-> start, end |-> end]
           ELSE [start |-> IF start < LiveHull(k).start THEN start ELSE LiveHull(k).start,
                 end   |-> IF end > LiveHull(k).end THEN end ELSE LiveHull(k).end]
  <2>1. k \in LiveKeys <=> k \in DOMAIN cur[w] \cup DOMAIN prev[w]
    BY <1>1, <1>3, <1>5 DEF LiveKeys
  <2>2. CASE k \in DOMAIN cur[w]
    <3>1. cur[w][k] \in Hull /\ LiveHull(k) = cur[w][k]
      BY <1>4, <1>5, <2>2 DEF IsMap, LiveHull
    <3> QED BY <1>1, <2>1, <2>2, <3>1, WidenIsJoin
  <2>3. CASE k \notin DOMAIN cur[w] /\ k \in DOMAIN prev[w]
    <3>1. prev[w][k] \in Hull /\ LiveHull(k) = prev[w][k]
      BY <1>4, <1>5, <2>3 DEF IsMap, LiveHull
    <3> QED BY <1>1, <2>1, <2>3, <3>1, WidenIsJoin
  <2>4. CASE k \notin DOMAIN cur[w] \cup DOMAIN prev[w]
    BY <2>1, <2>4
  <2> QED BY <2>2, <2>3, <2>4
<1> HIDE DEF e
<1>14. Live' = OneMap!Join(Live, k, start, end)
  <2>1. DOMAIN Live = LiveKeys /\ \A x \in LiveKeys : Live[x] = LiveHull(x)
    BY DEF Live
  <2>2. Live' = [x \in LiveKeys \cup {k} |-> IF x # k THEN Live[x] ELSE e]
    <3>1. Live' = [x \in LiveKeys \cup {k} |-> LiveHull(x)']
      BY <1>10 DEF Live
    <3> QED BY <1>11, <1>12, <2>1, <3>1
  <2> QED BY <1>13, <2>1, <2>2 DEF OneMap!Join
<1>15. Flushed' = Flushed
  BY <1>2 DEF Flushed
<1> QED BY <1>14, <1>15 DEF OneMap!Accept, Live

(* A tick publishes the keys of prev, as they are.                         *)
LEMMA TickPublishes ==
    ASSUME IndexInv, NEW w \in Workers, Tick(w)
    PROVE  OneMap!Publish(DOMAIN prev[w]) /\ DOMAIN prev[w] \subseteq LiveKeys
<1>1. /\ w \notin exited
      /\ idxRows'[w] = idxRows[w] \cup RowsOf(prev[w])
      /\ cur'[w] = EmptyMap /\ prev'[w] = cur[w]
      /\ \A x \in Workers \ {w} : /\ idxRows'[x] = idxRows[x]
                                  /\ cur'[x] = cur[x] /\ prev'[x] = prev[x]
      /\ UNCHANGED <<exited, storedIndex>>
  BY DEF Tick, Due, Running, IndexInv, TypeOK
<1>2. /\ OneEntryPerKey
      /\ DOMAIN cur[w] \subseteq Keys /\ DOMAIN prev[w] \subseteq Keys
      /\ DOMAIN cur[w] \cap DOMAIN prev[w] = {}
      /\ \A k \in DOMAIN cur[w] \cup DOMAIN prev[w] : WorkerOf[k] = w
  BY DEF IndexInv, TypeOK, IsMap, OneEntryPerKey
<1>3. \A k \in DOMAIN prev[w] : k \in LiveKeys /\ LiveHull(k) = prev[w][k]
  BY <1>1, <1>2, LiveEntry
<1>4. Flushed' = Flushed \cup {[key |-> k, start |-> Live[k].start, end |-> Live[k].end] :
                                k \in DOMAIN prev[w]}
  <2>1. Flushed' = Flushed \cup RowsOf(prev[w])
    BY <1>1 DEF Flushed
  <2> QED BY <1>3, <2>1 DEF RowsOf, Live
<1>5. LiveKeys' = LiveKeys \ DOMAIN prev[w]
  <2>1. ASSUME NEW k \in Keys PROVE k \in LiveKeys' <=> k \in LiveKeys \ DOMAIN prev[w]
    <3>1. CASE WorkerOf[k] = w
      BY <1>1, <1>2, <3>1 DEF LiveKeys, EmptyMap
    <3>2. CASE WorkerOf[k] # w
      <4>1. WorkerOf[k] \in Workers /\ k \notin DOMAIN prev[w]
        BY <1>2, <3>2, WorkerAssumption
      <4> QED BY <1>1, <3>2, <4>1, LiveFrame
    <3> QED BY <3>1, <3>2
  <2> QED BY <2>1 DEF LiveKeys
<1>6. ASSUME NEW k \in LiveKeys' PROVE LiveHull(k)' = LiveHull(k)
  <2>1. k \in Keys /\ WorkerOf[k] \in Workers /\ k \in LiveKeys /\ k \notin DOMAIN prev[w]
    BY <1>5, WorkerAssumption DEF LiveKeys
  <2>2. CASE WorkerOf[k] = w
    BY <1>1, <1>2, <2>1, <2>2 DEF LiveHull, LiveKeys, EmptyMap
  <2>3. CASE WorkerOf[k] # w
    BY <1>1, <2>1, <2>3, LiveFrame
  <2> QED BY <2>2, <2>3
<1>7. Live' = [k \in DOMAIN Live \ DOMAIN prev[w] |-> Live[k]]
  BY <1>5, <1>6 DEF Live
<1> QED BY <1>3, <1>4, <1>7 DEF OneMap!Publish, Live

(* The stop branch publishes every key of the worker at once.              *)
LEMMA StopPublishes ==
    ASSUME IndexInv, NEW w \in Workers, StopWorker(w)
    PROVE  /\ OneMap!Publish(DOMAIN cur[w] \cup DOMAIN prev[w])
           /\ DOMAIN cur[w] \cup DOMAIN prev[w] \subseteq LiveKeys
<1> DEFINE K == DOMAIN cur[w] \cup DOMAIN prev[w]
<1>1. /\ w \notin exited /\ exited' = exited \cup {w}
      /\ storedIndex' = storedIndex \cup idxRows[w] \cup RowsOf(prev[w]) \cup RowsOf(cur[w])
      /\ idxRows'[w] = {} /\ \A x \in Workers \ {w} : idxRows'[x] = idxRows[x]
      /\ UNCHANGED <<cur, prev>>
  BY DEF StopWorker, AtStop, Running, IndexInv, TypeOK
<1>2. /\ OneEntryPerKey
      /\ DOMAIN cur[w] \subseteq Keys /\ DOMAIN prev[w] \subseteq Keys
      /\ DOMAIN cur[w] \cap DOMAIN prev[w] = {}
      /\ \A k \in K : WorkerOf[k] = w
  BY DEF IndexInv, TypeOK, IsMap, OneEntryPerKey
<1>3. /\ \A k \in DOMAIN prev[w] : k \in LiveKeys /\ LiveHull(k) = prev[w][k]
      /\ \A k \in DOMAIN cur[w] : k \in LiveKeys /\ LiveHull(k) = cur[w][k]
  BY <1>1, <1>2, LiveEntry
<1>4. Flushed' = Flushed \cup {[key |-> k, start |-> Live[k].start, end |-> Live[k].end] : k \in K}
  <2>1. Flushed' = Flushed \cup RowsOf(prev[w]) \cup RowsOf(cur[w])
    BY <1>1 DEF Flushed
  <2>2. {[key |-> k, start |-> Live[k].start, end |-> Live[k].end] : k \in K}
            = RowsOf(prev[w]) \cup RowsOf(cur[w])
    BY <1>3 DEF RowsOf, Live
  <2> QED BY <2>1, <2>2
<1>5. LiveKeys' = LiveKeys \ K
  <2>1. ASSUME NEW k \in Keys PROVE k \in LiveKeys' <=> k \in LiveKeys \ K
    BY <1>1, <1>2 DEF LiveKeys
  <2> QED BY <2>1 DEF LiveKeys
<1>6. \A k \in LiveKeys' : LiveHull(k)' = LiveHull(k)
  BY <1>1 DEF LiveHull
<1>7. Live' = [k \in DOMAIN Live \ K |-> Live[k]]
  BY <1>5, <1>6 DEF Live
<1> QED BY <1>3, <1>4, <1>7 DEF OneMap!Publish, Live

LEMMA StepRefines ==
    IndexInv /\ [Next]_vars => [OneMap!Next(Bounds)]_<<Live, Flushed>>
<1> SUFFICES ASSUME IndexInv, [Next]_vars PROVE [OneMap!Next(Bounds)]_<<Live, Flushed>>
  OBVIOUS
<1>0. DOMAIN Live = LiveKeys
  BY DEF Live
<1>1. ASSUME NEW h \in Handlers,
             NEW start \in Reading(span[h].start), NEW end \in Reading(span[h].end),
             MustPushIndex(h, start, end)
      PROVE  OneMap!Next(Bounds)
  <2>1. span[h] \in Spans /\ KeyOf(span[h]) \in Keys
    BY <1>1, KeyType DEF IndexInv, TypeOK, HandlersInv, MustPushIndex
  <2>2. start \in Bounds /\ end \in Bounds
    BY <2>1 DEF Reading, Bounds
  <2>3. OneMap!Accept(KeyOf(span[h]), start, end)
    BY <1>1, PushAccepts
  <2> QED BY <2>1, <2>2, <2>3 DEF OneMap!Next
<1>2. ASSUME NEW w \in Workers, Tick(w) PROVE OneMap!Next(Bounds)
  BY <1>2, <1>0, TickPublishes DEF OneMap!Next, Live
<1>3. ASSUME NEW w \in Workers, StopWorker(w) PROVE OneMap!Next(Bounds)
  BY <1>3, <1>0, StopPublishes DEF OneMap!Next, Live
<1>4. ASSUME NEW w \in Workers, NEW t \in Tenants, FlushIndexRows(w, t)
      PROVE  UNCHANGED <<Live, Flushed>>
  <2>1. PICK out \in SUBSET idxRows[w] :
            /\ storedIndex' = storedIndex \cup out
            /\ idxRows' = [idxRows EXCEPT ![w] = @ \ out]
            /\ UNCHANGED <<cur, prev, exited>>
    BY <1>4 DEF FlushIndexRows
  <2>2. Flushed' = Flushed
    BY <2>1 DEF Flushed, IndexInv, TypeOK
  <2> QED BY <2>1, <2>2, StutterMaps
<1>5. ASSUME /\ ~ \E h \in Handlers : \E start \in Reading(span[h].start), end \in Reading(span[h].end) :
                    MustPushIndex(h, start, end)
             /\ ~ \E w \in Workers : \/ Tick(w) \/ StopWorker(w)
                                     \/ \E t \in Tenants : FlushIndexRows(w, t)
      PROVE  UNCHANGED <<Live, Flushed>>
  <2>1. UNCHANGED <<cur, prev, exited, idxRows, storedIndex>>
    BY <1>5 DEF Next, HandlerStep, WorkerStep, ProcessStep, vars, workerVars, handlerVars,
                NewTraceProcessor, DropSpan, CheckStop, AddRow, MustClose,
                Sigterm, MustStopIndexWorker, DrainTimeout, Stopped
  <2> QED BY <2>1, StutterMaps DEF Flushed
<1> QED BY <1>1, <1>2, <1>3, <1>4, <1>5

(* The generations of all workers together behave like one map that        *)
(* publishes the whole hull of a key and then forgets it.                  *)
THEOREM ImplementsMap == Spec => ImplementsOneMap
<1>1. Init => OneMap!Init
  <2> SUFFICES ASSUME Init PROVE OneMap!Init
    OBVIOUS
  <2>1. LiveKeys = {}
    <3>1. \A k \in Keys : WorkerOf[k] \in Workers
      BY WorkerAssumption
    <3> QED BY <3>1 DEF Init, LiveKeys, EmptyMap
  <2>2. Flushed = {}
    BY DEF Init, Flushed
  <2> QED BY <2>1, <2>2 DEF OneMap!Init
<1>2. IndexInv /\ [Next]_vars =>
          [OneMap!Next(Bounds)]_<<[k \in LiveKeys |-> LiveHull(k)], Flushed>>
  BY StepRefines DEF Live
<1> QED BY <1>1, <1>2, IndexInvariant, PTL DEF Spec, ImplementsOneMap
=============================================================================
