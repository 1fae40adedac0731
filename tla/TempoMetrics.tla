----------------------------- MODULE TempoMetrics -----------------------------
(***************************************************************************)
(* The Tempo metrics API (app/vtselect/traces/tempo/metrics_*.go): a       *)
(* TraceQL metrics query becomes LogsQL statistics over the stored rows,   *)
(* whose result is arranged into series, or, for compare(), facets of two  *)
(* windows that are set against each other.  Time is in seconds, durations *)
(* in nanoseconds; a block of results is a set, because rows are collected *)
(* under a lock and ordered afterwards.                                    *)
(***************************************************************************)
EXTENDS TraceQLMeaning, FiniteSetsExt
CONSTANTS
    Corpus,               \* the spans in storage: a sequence of [span, trace, at, took]
    IndexedAt,            \* when rows of the internal index stream were written
    Ladder,               \* upper ends of the buckets of a LogsQL histogram
    MaxCompareAttributes, \* maxCompareAttributes
    MaxExemplars          \* defaultMaxExemplars

ASSUME CorpusAssumption == \A j \in DOMAIN Corpus : Corpus[j].span \in Spans

Stored ==
    {[id |-> j, at |-> Corpus[j].at, took |-> Corpus[j].took, isSpan |-> TRUE,
      cols |-> Row(Corpus[j].span) @@ ServiceName :> "svc" @@ <<"", "trace_id">> :> Corpus[j].trace] : j \in DOMAIN Corpus}
    \cup {[id |-> 0, at |-> t, took |-> 0, isSpan |-> FALSE, cols |-> <<"", "trace_id_idx">> :> "t"] : t \in IndexedAt}

\* RunQuery after AddTimeFilter.
Found(text, w) == {r \in Stored : r.at >= w.start /\ r.at <= w.end /\ LogsQL(text, r.cols)}

(***************************************************************************)
(* Parameters, and the translation of the query.                           *)
(***************************************************************************)
\* A missing or swapped start is one hour back; a step that is not positive is 1% of the range, at least a second.
QueryRange(start, end, step) ==
    LET from == IF start > end THEN end - 3600 ELSE start IN
    [start |-> from, end |-> end, step |-> IF step > 0 THEN step ELSE Max({1, (end - from) \div 100})]

Words(f) == OrAll(Text(f))

\* baseFilterStr and the filter are concatenated.
BaseFilter(f) == <<Test(ServiceName, "!=", ""), <<"and">>>> \o Words(f)

\* Variant: the selection is not restricted by the base.
SelectionAlone(base, sel) == IF Words(sel) = <<<<"*">>>> THEN base ELSE Words(sel)
SelectionFilter(base, sel) == IF Words(sel) = <<<<"*">>>> THEN base ELSE base \o <<<<"and">>>> \o Words(sel)

ByFields(c) == [j \in DOMAIN c.by |-> TraceQLFieldToVTField(FieldOf(c.by[j]))]
\* metricsToLogsQLStats: a column for each quantile, or one.
StatsColumns(c) == IF c.fn = "quantile_over_time" THEN c.quantiles ELSE <<"value">>
InSeconds(c) == c.field = "duration" /\ c.fn \notin {"histogram_over_time", "count_over_time", "rate"}

(***************************************************************************)
(* executeStatsQuery.                                                      *)
(***************************************************************************)
Percent == "0.5" :> 50 @@ "0.9" :> 90
Stat(fn, column, rows) ==
    LET took == {r.took : r \in rows}
        total == MapThenSumSet(LAMBDA r : r.took, rows) IN
    CASE fn = "min_over_time" -> Min(took)
      [] fn = "max_over_time" -> Max(took)
      [] fn = "sum_over_time" -> total
      [] fn = "avg_over_time" -> total \div Cardinality(rows)
      [] fn = "quantile_over_time" ->
           Min({d \in took : 100 * Cardinality({r \in rows : r.took <= d}) >= Percent[column] * Cardinality(rows)})
      [] OTHER -> Cardinality(rows)

\* tempoBucketNs: the next power of two; 0 is dropped by the caller.
TempoBucket(hi) == IF hi < 1 THEN 0 ELSE Min({n \in {2^k : k \in 0..10} : n >= hi})
Bin(r) == TempoBucket(Min({hi \in Ladder : r.took <= hi}))

GroupOf(r, by, step) == <<r.at - (r.at % step), [j \in DOMAIN by |-> Column(r.cols, by[j])]>>

\* marshalLabels and filterByFields: what identifies a series, and what it shows.
\* Variant: the values of the labels are left out of the key.
KeyOfColumn(col, values, bin) == <<col, bin>>
SeriesKey(col, values, bin) == <<col, values, bin>>
Shown(by, values) == {<<VTFieldToTraceQL(by[j]), values[j]>> : j \in DOMAIN by}

StatsPoints(c, by, rows, step) ==
    LET Of(g) == {r \in rows : GroupOf(r, by, step) = g}
        Point(g, col, bin, extra, value) ==
            [key |-> SeriesKey(col, g[2], bin), labels |-> Shown(by, g[2]) \cup extra, at |-> g[1], value |-> value]
        Columns == StatsColumns(c)
        Quantile(col) == IF c.fn = "quantile_over_time" THEN {<<<<"", "p">>, Columns[col]>>} ELSE {}
        Bins(g) == {Bin(r) : r \in Of(g)} \ {0}
    IN UNION {IF c.fn = "histogram_over_time"
              THEN {Point(g, 1, b, {<<<<"", "__bucket">>, ToString(b)>>}, Cardinality({r \in Of(g) : Bin(r) = b})) : b \in Bins(g)}
              ELSE {Point(g, col, 0, Quantile(col), Stat(c.fn, Columns[col], Of(g))) : col \in DOMAIN Columns}
              : g \in {GroupOf(r, by, step) : r \in rows}}

\* transformToTempoSeriesImpl.
TempoSeries(points, seconds) ==
    {LET of == {p \in points : p.key = key} IN
     [labels |-> (CHOOSE p \in of : TRUE).labels, unit |-> IF seconds THEN "s" ELSE "ns", exemplars |-> <<>>,
      samples |-> SetToSortSeq({[at |-> p.at, value |-> p.value] : p \in of}, LAMBDA x, y : x.at < y.at)]
     : key \in {p.key : p \in points}}

(***************************************************************************)
(* Exemplars: one row for each piece of the range, one for each trace.     *)
(***************************************************************************)
\* Variant: a trace may come again.
EveryRow(rows) == rows
OnePerTrace(rows) == {CHOOSE r \in rows : Column(r.cols, <<"", "trace_id">>) = t
                        : t \in {Column(r.cols, <<"", "trace_id">>) : r \in rows}}

CollectExemplars(text, w) ==
    LET bucket == Max({1, (w.end - w.start) \div MaxExemplars})
        rows == {r \in Found(text, w) : Column(r.cols, <<"", "trace_id">>) # ""}
        any == {CHOOSE r \in rows : r.at \div bucket = b : b \in {r.at \div bucket : r \in rows}}
    IN {[trace |-> Column(r.cols, <<"", "trace_id">>), at |-> r.at, value |-> r.took] : r \in OnePerTrace(any)}

Distance(x, y) == IF x < y THEN y - x ELSE x - y
\* Of two samples equally near the earlier one.
Snapped(x, samples) ==
    LET nearest == Min({Distance(x.at, samples[j].at) : j \in DOMAIN samples}) IN
    [x EXCEPT !.value = samples[Min({j \in DOMAIN samples : Distance(x.at, samples[j].at) = nearest})].value]

\* attachExemplarsToSeries, round-robin whatever the labels of a series.
Attach(series, exemplars) ==
    [i \in DOMAIN series |->
        LET mine == {j \in DOMAIN exemplars : j % Len(series) = i - 1}
            sorted == SetToSortSeq(mine, <) IN
        [series[i] EXCEPT !.exemplars = [k \in DOMAIN sorted |-> Snapped(exemplars[sorted[k]], series[i].samples)]]]

MetricsQueryRange(q, w) ==
    LET c == MetricsComponents(q)
        series == TempoSeries(StatsPoints(c, ByFields(c), Found(BaseFilter(q.f), w), w.step), InSeconds(c))
    IN Attach(SetToSeq(series), SetToSeq(CollectExemplars(BaseFilter(q.f), w)))

(***************************************************************************)
(* compare(): the facets of a base and of a selection.                     *)
(***************************************************************************)
\* Each storage node answers for its own rows, and leaves out the fields on which all of them agree.
Nodes == {0, 1}
Values(rows, field) == {Column(r.cols, field) : r \in rows} \ {""}
Hits(rows, field, v) == Cardinality({r \in rows : Column(r.cols, field) = v})
Agreed(rows, field) == \E v \in Values(rows, field) : Hits(rows, field, v) = Cardinality(rows)
HitsOfNodes(rows, field, v) ==
    LET Of(n) == {r \in rows : r.id % 2 = n}
    IN MapThenSumSet(LAMBDA n : IF Agreed(Of(n), field) THEN 0 ELSE Hits(Of(n), field, v), Nodes)

\* runFacetsQuery: the values of each field with their hits.
Facets(rows) ==
    LET fields == UNION {DOMAIN r.cols : r \in rows}
        shown(f) == {v \in Values(rows, f) : HitsOfNodes(rows, f, v) > 0}
    IN [f \in fields |-> [v \in shown(f) |-> HitsOfNodes(rows, f, v)]]
FacetOf(facets, f) == IF f \in DOMAIN facets THEN facets[f] ELSE <<>>
SumOf(counts) == MapThenSumSet(LAMBDA v : counts[v], DOMAIN counts)

compareExcludedFields == {<<"", "trace_id">>, <<"", "trace_id_idx">>}

\* The coverage shift in thousandths, and the base-2 logarithm in place of log(1 + hits).
Share(hits, total) == IF total = 0 THEN 0 ELSE (1000 * hits) \div total
Log(n) == Max({k \in 0..10 : 2^k <= n + 1})
Score(c) == c.shift * Log(Max({c.hitsBase, c.hitsSel}))

Candidates(base, sel, baseTotal, selTotal) ==
    LET Of(f) == LET b == FacetOf(base, f)
                     s == FacetOf(sel, f) IN
                 [attr |-> f, base |-> b, sel |-> s, hitsBase |-> SumOf(b), hitsSel |-> SumOf(s),
                  shift |-> Distance(Share(SumOf(s), selTotal), Share(SumOf(b), baseTotal))]
        Excluded(f) == f \in compareExcludedFields \/ f[1] \in {Scopes.event, Scopes.link}
    IN {c \in {Of(f) : f \in {g \in DOMAIN base \cup DOMAIN sel : ~Excluded(g)}} :
            c.shift > 1 /\ c.hitsBase + c.hitsSel > 0}

\* The n best by a score; among equals any.
Top(n, S, score(_)) ==
    LET sorted == SetToSortSeq(S, LAMBDA x, y : score(x) > score(y))
    IN {sorted[j] : j \in 1..Min({n, Len(sorted)})}

StatusCodeToName(code) ==
    IF \E n \in DOMAIN StatusCodes : StatusCodes[n] = code THEN CHOOSE n \in DOMAIN StatusCodes : StatusCodes[n] = code ELSE code
\* remapStatusValues: the counts under the names of the codes.
Remapped(f, counts) ==
    IF f # <<"", "status_code">> THEN counts
    ELSE [n \in {StatusCodeToName(v) : v \in DOMAIN counts} |-> counts[CHOOSE v \in DOMAIN counts : StatusCodeToName(v) = n]]

Count(counts, v) == IF v \in DOMAIN counts THEN counts[v] ELSE 0

\* buildCompareSeries: for each attribute its best values in pairs, and the totals.
CompareSeries(c, topN, baseTotal, selTotal) ==
    LET b == Remapped(c.attr, c.base)
        s == Remapped(c.attr, c.sel)
        name == VTFieldToTraceQL(c.attr)
        best == Top(topN, DOMAIN b \cup DOMAIN s, LAMBDA v : Count(b, v) + Count(s, v))
    IN UNION {{[meta |-> "baseline", attr |-> name, value |-> v, count |-> Count(b, v)],
               [meta |-> "selection", attr |-> name, value |-> v, count |-> Count(s, v)]} : v \in best}
       \cup {[meta |-> "baseline_total", attr |-> name, value |-> "", count |-> baseTotal],
             [meta |-> "selection_total", attr |-> name, value |-> "", count |-> selTotal]}

CompareRows(base, selected, topN) ==
    LET all == Candidates(Facets(base), Facets(selected), Cardinality(base), Cardinality(selected))
    IN UNION {CompareSeries(c, topN, Cardinality(base), Cardinality(selected)) : c \in Top(MaxCompareAttributes, all, Score)}
ExecuteCompare(q, sel, w, selWindow, topN) ==
    CompareRows(Found(BaseFilter(q.f), w), Found(SelectionFilter(BaseFilter(q.f), sel), selWindow), topN)

(***************************************************************************)
(* Properties, of the queries that users compose in TraceQLMeaning.        *)
(***************************************************************************)
Window == QueryRange(1, 6, 2)
Metric(fn) == ParseQuery(query \o <<"|">> \o fn)
Over(f) == Found(BaseFilter(f), Window)
Understood == NoPipe /\ parsed.ok
Sum(series) == FoldFunction(LAMBDA x, y : x.value + y, 0, series.samples)
AllSamples(answer) == FoldFunction(LAMBDA x, y : Sum(x) + y, 0, answer)
OnePerTime(series) ==
    \A j \in 2..Len(series.samples) : series.samples[j - 1].at < series.samples[j].at
Counts(answer, rows) ==
    AllSamples(answer) = Cardinality(rows) /\ \A j \in DOMAIN answer : OnePerTime(answer[j])

(***************************************************************************)
(* Grouped or not, a count over time counts every row that the translated  *)
(* filter finds in the range once, a histogram every row that took time,   *)
(* and no series has two samples for one time (addPoint's key).            *)
(***************************************************************************)
CountsAddUp ==
    Understood =>
        LET Answer(fn) == MetricsQueryRange(Metric(fn), Window)
            rows == Over(parsed.f)
        IN /\ Counts(Answer(<<"count_over_time", "(", ")", "by", "(", "name", ",", "span.a", ")">>), rows)
           /\ Counts(Answer(<<"histogram_over_time", "(", "duration", ")", "by", "(", "status", ")">>), {r \in rows : r.took > 0})

LeadTo(traces, answer) ==
    LET shown == {<<i, k>> \in (DOMAIN answer) \X (1..Len(Corpus)) : k \in DOMAIN answer[i].exemplars}
        At(p) == answer[p[1]].exemplars[p[2]]
    IN /\ \A p, o \in shown : At(p).trace = At(o).trace => p = o
       /\ \A p \in shown : /\ At(p).trace \in traces
                           /\ \E j \in DOMAIN answer[p[1]].samples : answer[p[1]].samples[j].value = At(p).value
       /\ answer # <<>> => (shown # {}) = (traces # {})

(***************************************************************************)
(* Every exemplar leads to a trace with a span that the query found, none  *)
(* twice, and lies on the line of a sample (collectExemplars,              *)
(* snapExemplarValues); with one series none is lost.                      *)
(***************************************************************************)
ExemplarsLeadToSpans ==
    Understood => LeadTo({Column(r.cols, <<"", "trace_id">>) : r \in Over(parsed.f)} \ {""},
                         MetricsQueryRange(Metric(<<"max_over_time", "(", "duration", ")">>), Window))

\* No alternatives outside of an "and", so the joined texts keep their meaning.
Joinable(f) == Peeled(f).k # "or"

Consistent(shown, rows) ==
    LET Of(meta) == {x \in shown : x.meta = meta}
        Value(v) == IF v \in DOMAIN StatusCodes THEN StatusCodes[v] ELSE v
    IN \A x \in Of("baseline") :
          LET pair == {y \in Of("selection") : y.attr = x.attr /\ y.value = x.value}
              has == {r \in rows : Column(r.cols, TraceQLFieldToVTField(x.attr)) = Value(x.value)}
          IN /\ Cardinality(pair) = 1
             /\ x.count <= Cardinality(has)
             /\ Joinable(parsed.f) => \A y \in pair : y.count <= x.count

(***************************************************************************)
(* compare() shows each value of an attribute as a pair, baseline and      *)
(* selection, and no count is more than the rows that have the value; a    *)
(* selection from the same window never shows more than its baseline,      *)
(* unless alternatives were joined without parentheses                     *)
(* (executeCompareQuery, buildCompareSeries).                              *)
(***************************************************************************)
CompareIsConsistent ==
    Understood => \A t \in Tests :
        Consistent(ExecuteCompare(parsed, ParseFilter(<<"{">> \o t \o <<"}">>, 1).tree, Window, Window, 2), Over(parsed.f))
=============================================================================
