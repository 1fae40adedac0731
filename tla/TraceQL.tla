------------------------------- MODULE TraceQL -------------------------------
(***************************************************************************)
(* The TraceQL front end (lib/traceql): the recursive-descent parser from  *)
(* tokens to a filter tree and a list of pipes, and the translation of the *)
(* tree into a LogsQL filter.                                              *)
(*                                                                         *)
(* A token is a string; one token stands for a whole compound token, "" is *)
(* the end of the query, and letters are lower case.  A parser returns a   *)
(* record with the tree and the place of the next token, or Bad.           *)
(***************************************************************************)
EXTENDS Integers, Sequences, SequencesExt

Ops == {">", "<", ">=", "<=", "=", "=~", "!=", "!~"}
Ends == {"|", ")", "}", ""}
Symbols == Ops \cup Ends \cup {"{", "(", ",", "||", "&&", "!", "-", "*"}
Tok(s, i) == IF i \in DOMAIN s THEN s[i] ELSE ""

Bad == [ok |-> FALSE]
Got(t, i) == [ok |-> TRUE, tree |-> t, at |-> i]

Noop == [k |-> "noop"]
Cmp(f, op, v) == [k |-> "cmp", field |-> f, op |-> op, value |-> v]
Group(f) == [k |-> "trace", f |-> f]
Join(k, fs) == IF Len(fs) = 1 THEN fs[1] ELSE [k |-> k, fs |-> fs]

\* nextCompoundToken: symbols need quotes, keywords do not.
IsCompound(t) == t \notin Symbols

(***************************************************************************)
(* Filters.  "and" binds tighter than "or"; the stop set of parseFilterAnd *)
(* has "||" but not "or".                                                  *)
(***************************************************************************)
ParseFilterCommon(s, i, field) ==
    IF IsCompound(Tok(s, i + 1)) THEN Got(Cmp(field, Tok(s, i), Tok(s, i + 1)), i + 2) ELSE Bad

ParseFilterTrue(s, i, field) ==
    IF Tok(s, i) = "true" /\ field = "" /\ Tok(s, i + 1) \notin Ops THEN Got(Noop, i + 1) ELSE Bad

RECURSIVE ParseFilterOr(_, _, _), ParseFilterAnd(_, _, _), ParseFilterGeneric(_, _, _)

\* The closing token follows what was parsed.
Closed(s, r, token) == IF r.ok /\ Tok(s, r.at) = token THEN Got(r.tree, r.at + 1) ELSE Bad
Grouped(r) == IF r.ok THEN Got(Group(r.tree), r.at) ELSE Bad

ParseFilterParens(s, i) ==
    IF Tok(s, i + 1) = "" THEN Got([k |-> "or", fs |-> <<>>], i + 1)
    ELSE Closed(s, ParseFilterOr(s, i + 1, <<>>), ")")

ParseFilterCurlyBrackets(s, i) ==
    IF Tok(s, i + 1) = "}" THEN Got(Group([k |-> "and", fs |-> <<>>]), i + 2)
    ELSE Grouped(Closed(s, ParseFilterOr(s, i + 1, <<>>), "}"))

\* The first word of a filter is its field name; a second one is a phrase.
ParseFilterPhrase(s, i, field) ==
    CASE ~IsCompound(Tok(s, i)) -> Bad
      [] field = "" -> ParseFilterGeneric(s, i + 1, Tok(s, i))
      [] OTHER -> Got([k |-> "phrase", field |-> field, value |-> Tok(s, i)], i + 1)

ParseFilterGeneric(s, i, field) ==
    LET t == Tok(s, i)
        adjacent == Tok(s, i - 1) \in {"", "{", "(", "||", "&&"} IN
    CASE t \in {"{", "("} /\ ~adjacent -> Bad
      [] t = "{" -> ParseFilterCurlyBrackets(s, i)
      [] t = "(" -> ParseFilterParens(s, i)
      [] t \in Ops -> ParseFilterCommon(s, i, field)
      [] t \in {"&&", "||", "and", "or", "not", "!", "-"} -> Bad
      [] t \in {"true", "false"} -> ParseFilterTrue(s, i, field)
      [] OTHER -> ParseFilterPhrase(s, i, field)

\* r is the operand just parsed, fs those before it.
AndRest(s, r, fs) ==
    CASE ~r.ok -> Bad
      [] r.ok /\ Tok(s, r.at) \in Ends \cup {"||"} -> Got(Join("and", Append(fs, r.tree)), r.at)
      [] r.ok /\ Tok(s, r.at) \in {"and", "&&"} -> ParseFilterAnd(s, r.at + 1, Append(fs, r.tree))
      [] OTHER -> Bad
ParseFilterAnd(s, i, fs) == AndRest(s, ParseFilterGeneric(s, i, ""), fs)

OrRest(s, r, fs) ==
    CASE ~r.ok -> Bad
      [] r.ok /\ Tok(s, r.at) \in Ends -> Got(Join("or", Append(fs, r.tree)), r.at)
      [] r.ok /\ Tok(s, r.at) \in {"or", "||"} -> ParseFilterOr(s, r.at + 1, Append(fs, r.tree))
      [] OTHER -> Bad
ParseFilterOr(s, i, fs) == OrRest(s, ParseFilterAnd(s, i, <<>>), fs)

ParseFilter(s, i) == IF Tok(s, i) \in Ends THEN Bad ELSE ParseFilterOr(s, i, <<>>)

(***************************************************************************)
(* Pipes: a call with its arguments, and a comparison after the            *)
(* aggregating ones.                                                       *)
(***************************************************************************)
OnField == {"sum", "avg", "min", "max"}
FieldOverTime == {"min_over_time", "max_over_time", "avg_over_time", "sum_over_time", "histogram_over_time"}
Hints == {"select", "by", "with"}
Metrics == FieldOverTime \cup {"rate", "count_over_time", "quantile_over_time", "compare"}
PipeNames == OnField \cup Hints \cup Metrics \cup {"count"}

\* A call with no comparison, and no arguments but its fields.
Call(fn, args) == [k |-> fn, args |-> args, sel |-> Noop, cond |-> <<>>]

RECURSIVE CommaSeparated(_, _, _)
CommaSeparated(s, i, fields) ==
    CASE ~(IsCompound(Tok(s, i)) \/ Tok(s, i) = "*") -> Bad
      [] Tok(s, i + 1) = "," -> CommaSeparated(s, i + 2, Append(fields, Tok(s, i)))
      [] OTHER -> Got(Append(fields, Tok(s, i)), i + 1)

\* The arguments between the parentheses of a call that opens at i.
Arguments(s, i) ==
    IF Tok(s, i) # "(" THEN Bad
    ELSE IF Tok(s, i + 1) = ")" THEN Got(<<>>, i + 2)
    ELSE Closed(s, CommaSeparated(s, i + 1, <<>>), ")")

ArgumentsFit(fn, args) ==
    /\ fn \in {"count", "rate", "count_over_time"} => args = <<>>
    /\ fn \in OnField \cup FieldOverTime => Len(args) = 1
    /\ fn = "quantile_over_time" => Len(args) >= 2
    /\ fn \in {"select", "by"} => args # <<>>
    /\ fn \notin {"select", "by"} => \A j \in DOMAIN args : args[j] # "*"

IsNumber(t) == t \in {"5", "20", "10ms"}
WithCondition(s, p, i) ==
    CASE Tok(s, i) \notin Ops \ {"=~", "!~"} -> Got(p, i)
      [] IsNumber(Tok(s, i + 1)) -> Got([p EXCEPT !.cond = <<Tok(s, i), Tok(s, i + 1)>>], i + 2)
      [] OTHER -> Bad

\* with(...) is skipped to its matching parenthesis.
RECURSIVE SkipWith(_, _, _)
SkipWith(s, i, depth) ==
    CASE depth = 0 -> Got(Call("with", <<>>), i)
      [] Tok(s, i) = "" -> Bad
      [] OTHER -> SkipWith(s, i + 1, depth + (CASE Tok(s, i) = "(" -> 1 [] Tok(s, i) = ")" -> -1 [] OTHER -> 0))

(***************************************************************************)
(* compare({selection}, topN, start, end) cuts the selection out token by  *)
(* token, joins it with blanks and parses it as a query of its own, whose  *)
(* errors are ignored: a compound token does not survive the blanks.       *)
(***************************************************************************)
Compound == {"my-svc"}
Spaced(t) == IF t \in Compound THEN <<"my", "-", "svc">> ELSE <<t>>

\* Variant: braces are not counted.
FirstCut(s, i, depth) == CHOOSE j \in i..(Len(s) + 1) :
    Tok(s, j) \in {",", ")", ""} /\ \A k \in i..(j - 1) : Tok(s, k) \notin {",", ")"}
RECURSIVE SelectionEnd(_, _, _)
SelectionEnd(s, i, depth) ==
    IF Tok(s, i) = "" \/ (depth = 0 /\ Tok(s, i) \in {",", ")"}) THEN i
    ELSE SelectionEnd(s, i + 1, depth + (CASE Tok(s, i) = "{" -> 1 [] Tok(s, i) = "}" -> -1 [] OTHER -> 0))

\* A pipe behind the filter never parses: its parenthesis ended the cut.
FilterOf(text, r) == IF r.ok /\ Tok(text, r.at) = "" THEN r.tree ELSE Noop
SelectionOf(tokens) ==
    LET text == FlattenSeq([j \in DOMAIN tokens |-> Spaced(tokens[j])]) IN FilterOf(text, ParseFilter(text, 1))

\* An argument that is no compound token reads as "".
RECURSIVE CompareArguments(_, _, _)
CompareArguments(s, i, args) ==
    CASE Tok(s, i) # "," -> Got(args, i)
      [] IsCompound(Tok(s, i + 1)) -> CompareArguments(s, i + 2, Append(args, Tok(s, i + 1)))
      [] OTHER -> CompareArguments(s, i + 1, Append(args, ""))

Comparing(sel, r) == IF r.ok THEN Got([Call("compare", r.tree) EXCEPT !.sel = sel], r.at) ELSE Bad
ParsePipeCompare(s, i) ==
    LET end == SelectionEnd(s, i + 2, 0) IN
    IF Tok(s, i + 1) # "(" THEN Bad
    ELSE Comparing(SelectionOf(SubSeq(s, i + 2, end - 1)), Closed(s, CompareArguments(s, end, <<>>), ")"))

ParsePipeCall(s, i) ==
    LET r == Arguments(s, i + 1) IN
    IF ~r.ok \/ ~ArgumentsFit(Tok(s, i), r.tree) THEN Bad
    ELSE IF Tok(s, i) \in {"select", "by"} THEN Got(Call(Tok(s, i), r.tree), r.at)
    ELSE WithCondition(s, Call(Tok(s, i), r.tree), r.at)

ParsePipe(s, i) ==
    CASE Tok(s, i) = "compare" -> ParsePipeCompare(s, i)
      [] Tok(s, i) = "with" -> IF Tok(s, i + 1) = "(" THEN SkipWith(s, i + 2, 1) ELSE Bad
      [] Tok(s, i) \in PipeNames -> ParsePipeCall(s, i)
      [] OTHER -> Bad

RECURSIVE ParsePipes(_, _, _)
PipesRest(s, r, ps) ==
    CASE ~r.ok -> Bad
      [] r.ok /\ Tok(s, r.at) = "|" -> ParsePipes(s, r.at + 1, Append(ps, r.tree))
      [] r.ok /\ Tok(s, r.at) \in {")", ""} -> Got(Append(ps, r.tree), r.at)
      [] r.ok /\ Tok(s, r.at) \in PipeNames -> ParsePipes(s, r.at, Append(ps, r.tree))
      [] OTHER -> Bad
ParsePipes(s, i, ps) == PipesRest(s, ParsePipe(s, i), ps)

Whole(s, f, ps) ==
    IF ps.ok /\ Tok(s, ps.at) = "" THEN [ok |-> TRUE, f |-> f.tree, pipes |-> ps.tree] ELSE Bad
QueryRest(s, f) ==
    IF ~f.ok THEN Bad
    ELSE Whole(s, f, IF Tok(s, f.at) = "|" THEN ParsePipes(s, f.at + 1, <<>>) ELSE Got(<<>>, f.at))
ParseQuery(s) == QueryRest(s, ParseFilter(s, 1))

(***************************************************************************)
(* What callers ask of a parsed query.                                     *)
(***************************************************************************)
IsMetricsQuery(q) == \E j \in DOMAIN q.pipes : q.pipes[j].k \in Metrics

\* Function, field and quantiles of the last pipe that has them, and the last grouping.
MetricsComponents(q) ==
    LET Step(c, p) ==
          CASE p.k = "by" -> [c EXCEPT !.by = p.args]
            [] p.k \in FieldOverTime \cup {"count_over_time"} ->
                 [c EXCEPT !.fn = p.k, !.field = IF p.args = <<>> THEN "" ELSE p.args[1]]
            [] p.k = "quantile_over_time" -> [c EXCEPT !.fn = p.k, !.field = p.args[1], !.quantiles = Tail(p.args)]
            [] p.k = "compare" -> [c EXCEPT !.fn = p.k, !.sel = p.sel]
            [] p.k = "rate" -> [c EXCEPT !.fn = p.k]
            [] OTHER -> c
    IN FoldLeft(Step, [fn |-> "", field |-> "", quantiles |-> <<>>, by |-> <<>>, sel |-> Noop], q.pipes)

(***************************************************************************)
(* The translation.  A field is a scope and a name; a LogsQL text is a     *)
(* sequence of words, the words of a comparison being one test.            *)
(***************************************************************************)
Scopes == [resource |-> "resource_attr:", span |-> "span_attr:", event |-> "event:event_attr:",
           link |-> "link:link_attr:", instrumentation |-> "scope_attr:"]
ServiceName == <<"resource_attr:", "service.name">>

TraceQLFieldToVTField(f) ==
    CASE f[1] \in DOMAIN Scopes -> <<Scopes[f[1]], f[2]>>
      [] f = <<"", "status">> -> <<"", "status_code">>
      [] f \in {<<"", "service.name">>, <<".", "service.name">>} -> ServiceName
      [] OTHER -> f
VTFieldToTraceQL(v) ==
    CASE \E sc \in DOMAIN Scopes : Scopes[sc] = v[1] -> <<CHOOSE sc \in DOMAIN Scopes : Scopes[sc] = v[1], v[2]>>
      [] v = <<"", "status_code">> -> <<"", "status">>
      [] OTHER -> v

StatusCodes == [unset |-> "0", ok |-> "1", error |-> "2"]
KindCodes == [unspecified |-> "0", internal |-> "1", server |-> "2", client |-> "3", producer |-> "4", consumer |-> "5"]
Nanoseconds == "10ms" :> "10000000"

\* The fields that the tokens of a query name; any other token is a field of the span itself.
FieldNames == "span.a" :> <<"span", "a">> @@ "resource.service.name" :> <<"resource", "service.name">>
              @@ ".service.name" :> <<".", "service.name">>
FieldOf(t) == IF t \in DOMAIN FieldNames THEN FieldNames[t] ELSE <<"", t>>

\* Variant: durations keep their unit.
ValueAsWritten(field, v) == IF field = <<"", "status_code">> /\ v \in DOMAIN StatusCodes THEN StatusCodes[v] ELSE v
ValueIn(field, v) ==
    CASE field = <<"", "status_code">> /\ v \in DOMAIN StatusCodes -> StatusCodes[v]
      [] field = <<"", "kind">> /\ v \in DOMAIN KindCodes -> KindCodes[v]
      [] v \in DOMAIN Nanoseconds -> Nanoseconds[v]
      [] OTHER -> v

Test(field, op, v) == <<"test", field, op, v>>
CmpText(f) ==
    LET field == TraceQLFieldToVTField(FieldOf(f.field)) IN
    CASE f.field = "traceDuration" -> <<<<"*">>>>
      [] f.field = "nestedSetParent" /\ f.op = "<" /\ f.value = "0" -> <<Test(<<"", "parent_span_id">>, "=", "")>>
      [] f.value = "nil" /\ f.op \in {"=", "!="} -> <<Test(field, f.op, "")>>
      [] OTHER -> <<Test(field, f.op, ValueIn(field, f.value))>>

Parenthesised(text) == <<<<"(">>>> \o text \o <<<<")">>>>
Joined(texts, word) ==
    FlattenSeq([j \in DOMAIN texts |-> IF j = 1 THEN texts[j] ELSE <<<<word>>>> \o texts[j]])

\* A filter without a text selects everything.
OrAll(text) == IF text = <<>> THEN <<<<"*">>>> ELSE text

\* Only an operand that is itself an "or" gets parentheses: a group around it hides it.
RECURSIVE Text(_)
\* Variant: no operand gets them.
BareOperand(f) == Text(f)
OperandText(f) == IF f.k = "or" THEN Parenthesised(Text(f)) ELSE Text(f)
Text(f) ==
    CASE f.k = "noop" -> <<<<"*">>>>
      [] f.k = "cmp" -> CmpText(f)
      [] f.k = "phrase" -> <<Test(FieldOf(f.field), "=", f.value)>>
      [] f.k = "trace" -> OrAll(Text(f.f))
      [] f.k = "and" -> Joined([j \in DOMAIN f.fs |-> OperandText(f.fs[j])], "and")
      [] f.k = "or" -> Joined([j \in DOMAIN f.fs |-> Text(f.fs[j])], "or")

\* All comparisons of the trace's duration, wherever they stand, narrow the result by a join.
RECURSIVE TraceDurationFilters(_)
TraceDurationFilters(f) ==
    CASE f.k = "cmp" -> IF f.field = "traceDuration" THEN <<f>> ELSE <<>>
      [] f.k = "trace" -> TraceDurationFilters(f.f)
      [] f.k \in {"and", "or"} -> FlattenSeq([j \in DOMAIN f.fs |-> TraceDurationFilters(f.fs[j])])
      [] OTHER -> <<>>
=============================================================================
