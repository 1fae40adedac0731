---------------------------- MODULE TraceQLMeaning ----------------------------
(***************************************************************************)
(* A user composes a TraceQL query; the Tempo API translates it and        *)
(* LogsQL answers it over the rows that spans are stored as.  The spans    *)
(* the user means are kept beside the query as it grows; the properties    *)
(* compare them with the ones that LogsQL answers for the translation.     *)
(***************************************************************************)
EXTENDS TraceQL, FiniteSets
CONSTANTS
    Tests,      \* comparisons the user can write, as token sequences
    Pipelines,  \* pipelines the user can append, as token sequences that start with "|"
    MaxSize     \* bound on the tokens of a query

VARIABLES
    query,  \* its tokens
    meant,  \* the spans meant by each of its alternatives
    parsed  \* the query as ParseQuery understands it
vars == <<query, meant, parsed>>

(***************************************************************************)
(* Spans as OTLP has them, and the row of one.                             *)
(***************************************************************************)
Spans == [name : {"x", "y"}, status : {"ok", "error"}, a : {"", "x"}, traceDuration : {"10000000", "2"}]
Row(sp) == <<"", "name">> :> sp.name @@ <<"", "status_code">> :> StatusCodes[sp.status]
           @@ <<"span_attr:", "a">> :> sp.a
Column(row, field) == IF field \in DOMAIN row THEN row[field] ELSE ""

Compare(x, op, y) == IF op = "=" THEN x = y ELSE x # y

\* The spans that pass a comparison, in the names of TraceQL.
Passing(test) ==
    LET Value(sp) == CASE test[1] = "name" -> sp.name
                       [] test[1] = "status" -> sp.status
                       [] test[1] = "span.a" -> sp.a
                       [] test[1] = "traceDuration" -> sp.traceDuration
        against == CASE test[3] = "nil" -> "" [] test[3] = "10ms" -> "10000000" [] OTHER -> test[3]
    IN {sp \in Spans : Compare(Value(sp), test[2], against)}

(***************************************************************************)
(* LogsQL: "or" divides a text first, then "and"; both skip parentheses.   *)
(***************************************************************************)
Depth(text, j) ==
    Cardinality({i \in 1..(j - 1) : text[i] = <<"(">>}) - Cardinality({i \in 1..j : text[i] = <<")">>})
Dividers(text, word) == {j \in DOMAIN text : text[j] = <<word>> /\ Depth(text, j) = 0}

RECURSIVE LogsQL(_, _)
LogsQL(text, row) ==
    LET ors == Dividers(text, "or")
        ands == Dividers(text, "and")
        Left(j) == SubSeq(text, 1, j - 1)
        Right(j) == SubSeq(text, j + 1, Len(text)) IN
    CASE ors # {} -> \E j \in ors : LogsQL(Left(j), row) \/ LogsQL(Right(j), row)
      [] ors = {} /\ ands # {} -> \A j \in ands : LogsQL(Left(j), row) /\ LogsQL(Right(j), row)
      [] ors = {} /\ ands = {} /\ text[1] = <<"(">> -> LogsQL(SubSeq(text, 2, Len(text) - 1), row)
      [] text = <<<<"*">>>> -> TRUE
      [] OTHER -> Compare(Column(row, text[1][2]), text[1][3], text[1][4])

\* Query.String: the text, and the join over the traces whose duration passes all the comparisons.
Answers(f, sp) ==
    /\ LogsQL(Text(f), Row(sp))
    /\ \A j \in DOMAIN TraceDurationFilters(f) :
          LET d == TraceDurationFilters(f)[j] IN Compare(sp.traceDuration, d.op, ValueIn(<<"", "duration">>, d.value))

(***************************************************************************)
(* The user.                                                               *)
(***************************************************************************)
Init == \E t \in Tests : query = t /\ meant = <<Passing(t)>> /\ parsed = ParseQuery(t)
NoPipe == \A j \in DOMAIN query : query[j] # "|"
Ask(tokens, sets) == query' = tokens /\ meant' = sets /\ parsed' = ParseQuery(tokens)
Extend(tokens, sets) == NoPipe /\ Len(tokens) <= MaxSize /\ Ask(tokens, sets)
\* What is appended by "&&" restricts the last alternative only.
Narrowed(spans) == [meant EXCEPT ![Len(meant)] = @ \cap spans]
Wanted == UNION {meant[j] : j \in DOMAIN meant}

Conjoin == \E t \in Tests : Extend(query \o <<"&&">> \o t, Narrowed(Passing(t)))
ConjoinGroup == \E t, u \in Tests :
    Extend(query \o <<"&&", "{">> \o t \o <<"||">> \o u \o <<"}">>, Narrowed(Passing(t) \cup Passing(u)))
Disjoin == \E t \in Tests : Extend(t \o <<"||">> \o query, <<Passing(t)>> \o meant)
Brace == Extend(<<"{">> \o query \o <<"}">>, <<Wanted>>)
Parenthesise == Extend(<<"(">> \o query \o <<")">>, <<Wanted>>)
SelectAll == Extend(query \o <<"&&", "{", "}">>, meant)
AppendPipeline == NoPipe /\ \E p \in Pipelines : Ask(query \o p, meant)

Next == Conjoin \/ ConjoinGroup \/ Disjoin \/ Brace \/ Parenthesise \/ SelectAll \/ AppendPipeline
Spec == Init /\ [][Next]_vars

(***************************************************************************)
(* Properties.                                                             *)
(***************************************************************************)
RECURSIVE Subtrees(_), Peeled(_)
Subtrees(f) ==
    {f} \cup (CASE f.k = "trace" -> Subtrees(f.f)
               [] f.k \in {"and", "or"} -> UNION {Subtrees(f.fs[j]) : j \in DOMAIN f.fs}
               [] OTHER -> {})
Peeled(f) == IF f.k = "trace" THEN Peeled(f.f) ELSE f

\* A brace group of alternatives as an operand of "and".
GroupUnderAnd(f) == f.k = "and" /\ \E j \in DOMAIN f.fs : f.fs[j].k = "trace" /\ Peeled(f.fs[j]).k = "or"
DurationUnderOr(f) == f.k = "or" /\ TraceDurationFilters(f) # <<>>

Tree == parsed.f
Answered == {sp \in Spans : Answers(Tree, sp)}

(***************************************************************************)
(* Every query is understood, and no span that it asks for is left out by  *)
(* its translation: flattened groups may widen the answer at most.  A      *)
(* trace's duration compared in one of several alternatives is outside of  *)
(* this: the join of Query.String applies it to the others too.            *)
(***************************************************************************)
NoSpanMissed ==
    /\ parsed.ok
    /\ (\A f \in Subtrees(Tree) : ~DurationUnderOr(f)) => Wanted \subseteq Answered

(***************************************************************************)
(* Alternatives grouped by parentheses keep their group: unless braces     *)
(* hide alternatives below an "and", LogsQL answers exactly the spans the  *)
(* query means (filterAnd.String).                                         *)
(***************************************************************************)
ParenthesesAreKept ==
    (\A f \in Subtrees(Tree) : ~DurationUnderOr(f) /\ ~GroupUnderAnd(f)) => Answered = Wanted

Selects(whole, alone) == alone.ok => whole.ok /\ MetricsComponents(whole).sel = alone.f /\ IsMetricsQuery(whole)

(***************************************************************************)
(* compare() runs the selection its text means alone: cutting it out up to *)
(* a comma or parenthesis outside braces, joining and parsing it again     *)
(* changes nothing (parsePipeCompare).                                     *)
(***************************************************************************)
CompareSelectsTheSame ==
    LET inner == <<"{">> \o query \o <<"}">> IN
    NoPipe => Selects(ParseQuery(<<"true", "|", "compare", "(">> \o inner \o <<",", "5", ")", "by", "(", "name", ")">>),
                      ParseQuery(inner))
=============================================================================
