------------------------------- MODULE SpanRow -------------------------------
(***************************************************************************)
(* A span from the wire to the row it is stored as, and back.              *)
(*                                                                         *)
(* An OTLP request in protobuf is decoded message by message: resource,    *)
(* scope, span (app/vtinsert/opentelemetry/pb.go).  All three levels add   *)
(* to one list of fields, which is cut back when a message ends.  A        *)
(* finished span is pushed: indexed by its trace ID and stored.  The same  *)
(* span in a JSON request takes another path (opentelemetry.go).  The      *)
(* Tempo and the Jaeger API rebuild spans from rows (model.go of each).    *)
(*                                                                         *)
(* A field is a name and a text; its name is a prefix, a key and, for      *)
(* events and links, an index, each of which may be empty.                 *)
(***************************************************************************)
EXTENDS Integers, Sequences, FiniteSets, SequencesExt

CONSTANTS
    MaxFields,   \* bound on the fields that a client puts into the spans of a request
    MaxSpans,    \* bound on the spans of a request
    Attributes,  \* what a client writes: attributes,
    Events,      \* events
    Links,       \* and links of a span,
    SpanTimes,   \* its times,
    SpanKinds,   \* and its kind
    Clock,       \* what time.Now() returns
    W,           \* 2^64, at which the unsigned numbers of the wire wrap
    Decimal,     \* strconv.FormatUint
    Strings      \* the texts of the wire

(***************************************************************************)
(* An attribute is written as its leaves: the path of keys that leads to a *)
(* value, and the value.  One whose value is missing has no leaf.  Decimal *)
(* texts tell numbers apart, and times fit into 63 bits until 2262.  A     *)
(* link names a trace.                                                     *)
(***************************************************************************)
Leaf  == [path : Seq(Strings), val : Strings]
Event == [time : 0..(W - 1), name : Strings, attrs : Seq(Leaf)]
Link  == [trace : Strings, span : Strings, attrs : Seq(Leaf)]

ASSUME BoundsAssumption ==
    /\ W \in Nat /\ W > 2 /\ MaxFields \in 0..(W - 1) /\ MaxSpans \in 0..(W - 1)
    /\ Clock \in 1..(W - 1) /\ SpanTimes \subseteq 1..(W \div 2 - 1) /\ SpanKinds \subseteq 0..(W \div 2 - 1)
ASSUME DecimalAssumption ==
    /\ Decimal \in [0..(W - 1) -> Strings]
    /\ \A n \in 0..(W - 1) : Decimal[n] # "" /\ \A m \in 0..(W - 1) : Decimal[m] = Decimal[n] => m = n
ASSUME ClientAssumption ==
    /\ {"", "b", "c", "d", "t1", "s1", "p", "n", "m"} \subseteq Strings
    /\ Attributes \subseteq Seq(Leaf)
    /\ Events \subseteq Event /\ \A ev \in Events : ev.time < W \div 2
    /\ Links \subseteq Link /\ \A ln \in Links : ln.trace # ""

VARIABLES
    level,    \* the message being decoded, or the answer
    fs,       \* the fields decoded so far
    common,   \* commonFieldsLen of decodeResourceSpans and of decodeScopeSpans
    local,    \* eventIdx, linkIdx and the fields that decodeSpan keeps for the tail
    sent,     \* what the client wrote: resource, scope and the span on the wire
    used,     \* fields spent
    pushed    \* spans pushed: the row, its time, its index range, and what was sent
decodeVars == <<level, fs, common, local, sent, used, pushed>>

Dec(n) == Decimal[n]
\* ParseInt refuses 2^63 and more.
Number(text) == IF text = "" THEN 0 ELSE CHOOSE n \in 0..(W - 1) : Dec(n) = text
FitsInt(text) == Number(text) < W \div 2

\* No prefix, or no index.
Blank == ""
Field(name, text) == [n |-> name, v |-> text]
Present(name, text) == IF text = "" THEN <<>> ELSE <<Field(name, text)>>
PresentNumber(name, n) == IF n = 0 THEN <<>> ELSE <<Field(name, Dec(n))>>

(***************************************************************************)
(* Attributes.  A key-value list is flattened with dots, and an empty text *)
(* becomes "-", for a stored field cannot be empty.                        *)
(***************************************************************************)
Dotted(path) == FoldLeft(LAMBDA parent, key : IF parent = "" THEN key ELSE parent \o "." \o key, "", path)
KeyValues(attrs) == [j \in DOMAIN attrs |-> <<Dotted(attrs[j].path), IF attrs[j].val = "" THEN "-" ELSE attrs[j].val>>]
AttributeFields(attrs, prefix, index) ==
    [j \in DOMAIN attrs |-> Field(<<prefix, KeyValues(attrs)[j][1], index>>, KeyValues(attrs)[j][2])]

(***************************************************************************)
(* The protobuf path.                                                      *)
(***************************************************************************)
NoSpan == [trace |-> "", id |-> "", parent |-> "", name |-> "", kind |-> 0, start |-> 0, end |-> 0,
           message |-> "", code |-> 0, attrs |-> <<>>, events |-> <<>>, links |-> <<>>]
\* decodeSpan's variables at its start.
NoLocal == [eventIdx |-> 0, linkIdx |-> 0, trace |-> "", code |-> 0, start |-> 0, end |-> 0]

DecodeInit ==
    /\ level = "request" /\ fs = <<>> /\ common = [resource |-> 0, scope |-> 0]
    /\ local = NoLocal
    /\ sent = [resource |-> <<>>, scope |-> <<>>, span |-> NoSpan, last |-> 0] /\ used = 0 /\ pushed = <<>>

\* Resources and scopes differ by the number of spans before them.
OwnAttribute == <<[path |-> <<"b", "c">>, val |-> Dec(Len(pushed))], [path |-> <<"b", "d">>, val |-> ""]>>

DecodeResource ==
    /\ level = "request" /\ Len(pushed) < MaxSpans
    /\ fs' = AttributeFields(OwnAttribute, "resource_attr:", Blank) /\ sent' = [sent EXCEPT !.resource = OwnAttribute]
    /\ level' = "resource" /\ common' = [common EXCEPT !.resource = Len(fs')]
    /\ UNCHANGED <<local, used, pushed>>

DecodeScopeSpans ==
    /\ level = "resource" /\ Len(pushed) < MaxSpans
    /\ fs' = fs \o AttributeFields(OwnAttribute, "scope_attr:", Blank) /\ sent' = [sent EXCEPT !.scope = OwnAttribute]
    /\ level' = "scope" /\ common' = [common EXCEPT !.scope = Len(fs')]
    /\ UNCHANGED <<local, used, pushed>>

Write(number, span) == sent' = [sent EXCEPT !.last = number, !.span = span]

\* The IDs come first on the wire; the trace ID is kept for the tail.
BeginSpan ==
    /\ level = "scope" /\ Len(pushed) < MaxSpans
    /\ \E trace \in {"t1", ""} :
          /\ local' = [NoLocal EXCEPT !.trace = trace]
          /\ Write(2, [NoSpan EXCEPT !.trace = trace, !.id = "s1"])
    /\ fs' = Append(fs, Field(<<Blank, "span_id", Blank>>, "s1"))
    /\ level' = "span" /\ UNCHANGED <<common, used, pushed>>

\* Encoders write fields in the order of their numbers, but for repeated ones of one span.
Reading(number) ==
    /\ level = "span" /\ used < MaxFields /\ sent.last <= number
    /\ used' = used + 1 /\ UNCHANGED <<level, common, pushed>>

DecodeParent ==
    /\ Reading(4) /\ sent.span.parent = "" /\ Write(4, [sent.span EXCEPT !.parent = "p"])
    /\ fs' = Append(fs, Field(<<Blank, "parent_span_id", Blank>>, "p")) /\ UNCHANGED local
DecodeNameAndKind ==
    /\ Reading(5) /\ sent.span.name = "" /\ \E k \in SpanKinds :
          /\ Write(5, [sent.span EXCEPT !.name = "n", !.kind = k])
          /\ fs' = fs \o <<Field(<<Blank, "name", Blank>>, "n")>> \o PresentNumber(<<Blank, "kind", Blank>>, k)
    /\ UNCHANGED local
\* Two fields; either may be missing.
DecodeTimes ==
    /\ Reading(7) /\ sent.span.start = 0 /\ sent.span.end = 0
    /\ \E start, end \in {0} \cup SpanTimes :
          /\ local' = [local EXCEPT !.start = start, !.end = end]
          /\ Write(8, [sent.span EXCEPT !.start = start, !.end = end])
    /\ UNCHANGED fs
DecodeAttribute ==
    /\ Reading(9) /\ \E kv \in Attributes :
          /\ ToSet(kv) \cap ToSet(sent.span.attrs) = {}
          /\ fs' = fs \o AttributeFields(kv, "span_attr:", Blank)
          /\ Write(9, [sent.span EXCEPT !.attrs = @ \o kv])
    /\ UNCHANGED local
DecodeEvent ==
    /\ Reading(11) /\ \E ev \in Events :
          LET index == Dec(local.eventIdx) IN
          /\ fs' = fs \o PresentNumber(<<"event:", "event_time_unix_nano", index>>, ev.time)
                      \o Present(<<"event:", "event_name", index>>, ev.name)
                      \o AttributeFields(ev.attrs, "event:event_attr:", index)
          /\ Write(11, [sent.span EXCEPT !.events = Append(@, ev)])
    /\ local' = [local EXCEPT !.eventIdx = @ + 1]
DecodeLink ==
    /\ Reading(11) /\ \E ln \in Links :
          LET index == Dec(local.linkIdx) IN
          /\ fs' = fs \o <<Field(<<"link:", "trace_id", index>>, ln.trace), Field(<<"link:", "span_id", index>>, ln.span)>>
                      \o AttributeFields(ln.attrs, "link:link_attr:", index)
          /\ Write(11, [sent.span EXCEPT !.links = Append(@, ln)])
    /\ local' = [local EXCEPT !.linkIdx = @ + 1]
DecodeStatus ==
    /\ Reading(15) /\ sent.span.message = ""
    /\ Write(15, [sent.span EXCEPT !.message = "m", !.code = 2])
    /\ fs' = Append(fs, Field(<<Blank, "status_message", Blank>>, "m")) /\ local' = [local EXCEPT !.code = 2]

(***************************************************************************)
(* PushRow: the range that the trace ID is indexed with is read from the   *)
(* row backwards; a missing time is the clock's.  No trace ID, no row.     *)
(***************************************************************************)
Text(row, name) == IF \E f \in row : f.n = name THEN (CHOOSE f \in row : f.n = name).v ELSE ""
OrNow(n) == IF n = 0 THEN Clock ELSE n
IndexRange(row) == <<OrNow(Number(Text(row, <<Blank, "start_time", Blank>>))), OrNow(Number(Text(row, <<Blank, "end_time", Blank>>)))>>
\* A row in the storage: unordered, and without empty fields.
RowOf(fields) == {f \in fields : f.v # ""}

\* pushTraceToIndexQueue and the row, with what the client meant beside it.
PushRow(time, fields) ==
    LET row == RowOf(ToSet(fields)) IN
    IF Text(row, <<Blank, "trace_id", Blank>>) = "" THEN UNCHANGED pushed
    ELSE pushed' = Append(pushed, [row |-> row, time |-> time, range |-> IndexRange(row),
                                       sent |-> [resource |-> sent.resource, scope |-> sent.scope, span |-> sent.span]])

TailFields ==
    (IF local.start > 0 /\ local.end > 0 THEN <<Field(<<Blank, "duration", Blank>>, Dec((local.end - local.start) % W))>> ELSE <<>>)
    \o <<Field(<<Blank, "status_code", Blank>>, Dec(local.code))>>
    \o PresentNumber(<<Blank, "start_time", Blank>>, local.start) \o PresentNumber(<<Blank, "end_time", Blank>>, local.end)
    \o Present(<<Blank, "trace_id", Blank>>, local.trace)

\* fs.Fields[:commonFieldsLen].  Variant: the fields of the message stay.
CutToNothing(n) == fs
CutTo(n) == SubSeq(fs, 1, n)

EndSpan ==
    /\ level = "span" /\ PushRow(local.start, fs \o TailFields)
    /\ fs' = CutTo(common.scope)
    /\ local' = NoLocal /\ Write(0, NoSpan)
    /\ level' = "scope" /\ UNCHANGED <<common, used>>

EndScopeSpans ==
    /\ level = "scope" /\ fs' = CutTo(common.resource)
    /\ level' = "resource" /\ UNCHANGED <<common, local, sent, used, pushed>>
EndResourceSpans ==
    /\ level = "resource" /\ fs' = <<>>
    /\ level' = "request" /\ UNCHANGED <<common, local, sent, used, pushed>>
EndRequest ==
    level = "request" /\ pushed # <<>> /\ level' = "answered" /\ UNCHANGED <<fs, common, local, sent, used, pushed>>

\* A message that ends early fails the request; the spans before it stay stored.
Malformed ==
    level \notin {"answered", "refused"} /\ level' = "refused" /\ fs' = <<>> /\ UNCHANGED <<common, local, sent, used, pushed>>

DecodeNext ==
    \/ DecodeResource \/ DecodeScopeSpans \/ BeginSpan \/ DecodeParent \/ DecodeNameAndKind \/ DecodeTimes
    \/ DecodeAttribute \/ DecodeEvent \/ DecodeLink \/ DecodeStatus \/ EndSpan \/ EndScopeSpans \/ EndResourceSpans
    \/ EndRequest \/ Malformed
DecodeSpec == DecodeInit /\ [][DecodeNext]_decodeVars

(***************************************************************************)
(* The JSON path: every field is written, set or not.                      *)
(***************************************************************************)
\* The index of the j-th event or link.  Variant: it counts from one.
IndexFromOne(j) == Dec(j)
IndexOf(j) == Dec(j - 1)

PushFieldsFromSpan(s) ==
    LET sp == s.span
        plain == [span_id |-> sp.id, parent_span_id |-> sp.parent, name |-> sp.name, kind |-> Dec(sp.kind),
                  start_time |-> Dec(sp.start), end_time |-> Dec(sp.end), duration |-> Dec((sp.end - sp.start) % W),
                  status_message |-> sp.message, status_code |-> Dec(sp.code), trace_id |-> sp.trace]
        EventFields(j) ==
            {Field(<<"event:", "event_time_unix_nano", IndexOf(j)>>, Dec(sp.events[j].time)),
             Field(<<"event:", "event_name", IndexOf(j)>>, sp.events[j].name)}
            \cup ToSet(AttributeFields(sp.events[j].attrs, "event:event_attr:", IndexOf(j)))
        LinkFields(j) ==
            {Field(<<"link:", "trace_id", IndexOf(j)>>, sp.links[j].trace), Field(<<"link:", "span_id", IndexOf(j)>>, sp.links[j].span)}
            \cup ToSet(AttributeFields(sp.links[j].attrs, "link:link_attr:", IndexOf(j)))
    IN {Field(<<Blank, k, Blank>>, plain[k]) : k \in DOMAIN plain}
       \cup ToSet(AttributeFields(s.resource, "resource_attr:", Blank)) \cup ToSet(AttributeFields(s.scope, "scope_attr:", Blank))
       \cup ToSet(AttributeFields(sp.attrs, "span_attr:", Blank))
       \cup (UNION {EventFields(j) : j \in DOMAIN sp.events}) \cup (UNION {LinkFields(j) : j \in DOMAIN sp.links})
JSONTime(s) == s.span.end

(***************************************************************************)
(* Back from a row.  Events and links are collected by index, then read    *)
(* off for as many indexes as there are: an index with no field is Nothing *)
(* (a nil pointer) and the last one is not reached.                        *)
(***************************************************************************)
Nothing == [nothing |-> TRUE]
AttributesOf(row, prefix, index) == {<<f.n[2], f.v>> : f \in {g \in row : g.n[1] = prefix /\ g.n[3] = index}}
Indexes(row, prefixes) == {f.n[3] : f \in {g \in row : g.n[1] \in prefixes}}
Collected(items) ==
    [j \in 1..Cardinality(DOMAIN items) |-> IF Dec(j - 1) \in DOMAIN items THEN items[Dec(j - 1)] ELSE Nothing]

EventOf(row, index) ==
    [time |-> Number(Text(row, <<"event:", "event_time_unix_nano", index>>)),
     name |-> Text(row, <<"event:", "event_name", index>>), attrs |-> AttributesOf(row, "event:event_attr:", index)]
LinkOf(row, index) ==
    [trace |-> Text(row, <<"link:", "trace_id", index>>), span |-> Text(row, <<"link:", "span_id", index>>),
     attrs |-> AttributesOf(row, "link:link_attr:", index)]
EventsOf(row) == Collected([index \in Indexes(row, {"event:", "event:event_attr:"}) |-> EventOf(row, index)])
LinksOf(row) == Collected([index \in Indexes(row, {"link:", "link:link_attr:"}) |-> LinkOf(row, index)])

RowToSpan(row) ==
    LET Plain(k) == Text(row, <<Blank, k, Blank>>) IN
    [trace |-> Plain("trace_id"), id |-> Plain("span_id"), parent |-> Plain("parent_span_id"),
     name |-> Plain("name"), kind |-> Number(Plain("kind")),
     start |-> Number(Plain("start_time")), end |-> Number(Plain("end_time")),
     message |-> Plain("status_message"), code |-> Number(Plain("status_code")),
     attrs |-> AttributesOf(row, "span_attr:", Blank), resource |-> AttributesOf(row, "resource_attr:", Blank),
     scope |-> AttributesOf(row, "scope_attr:", Blank), events |-> EventsOf(row), links |-> LinksOf(row)]

\* Whether a link names the parent.  Variant: the span itself is compared.
NamesItself(ln, span) == ln.trace = span.trace /\ ln.span = span.id
NamesParent(ln, span) == ln.trace = span.trace /\ ln.span = span.parent

(***************************************************************************)
(* Jaeger: the parent comes first; a link to it is no reference of its     *)
(* own, the last of them tells the type.                                   *)
(***************************************************************************)
RefType == <<"opentracing.ref_type", "child_of">>
ReferencesOf(span) ==
    LET Type(ln) == IF RefType \in ln.attrs THEN "CHILD_OF" ELSE "FOLLOWS_FROM"
        parents == IF span.parent = "" THEN {} ELSE {0}
        again == {j \in DOMAIN span.links : span.parent # "" /\ NamesParent(span.links[j], span)}
    IN [r \in parents \cup (DOMAIN span.links \ again) |->
            IF r = 0 THEN <<span.trace, span.parent, IF again = {} THEN "CHILD_OF" ELSE Type(span.links[Max(again)])>>
            ELSE <<span.links[r].trace, span.links[r].span, Type(span.links[r])>>]

Kinds == <<"internal", "server", "client", "producer", "consumer">>
FieldsToSpan(row) ==
    LET span == RowToSpan(row)
        duration == Text(row, <<Blank, "duration", Blank>>) IN
    IF span.trace = "" \/ span.id = "" \/ ~FitsInt(duration) THEN Nothing
    ELSE [id |-> span.id, duration |-> Number(duration), references |-> ReferencesOf(span), logs |-> span.events,
          kind |-> IF span.kind \in DOMAIN Kinds THEN Kinds[span.kind] ELSE "",
          error |-> CASE span.code = 1 -> "false" [] span.code = 2 -> "true" [] OTHER -> "unset"]

(***************************************************************************)
(* Properties.                                                             *)
(***************************************************************************)
FlatSet(attrs) == ToSet(KeyValues(attrs))
\* An event that carries nothing has no field.
EveryEventHasAField(sp) == \A j \in DOMAIN sp.events : sp.events[j] # [time |-> 0, name |-> "", attrs |-> <<>>]
Timed(sp) == sp.start > 0 /\ sp.end > 0

\* The span as the client meant it, in the shape that the read-back has.
Meant(s) ==
    [trace |-> s.span.trace, id |-> s.span.id, parent |-> s.span.parent, name |-> s.span.name, kind |-> s.span.kind,
     start |-> s.span.start, end |-> s.span.end, message |-> s.span.message, code |-> s.span.code,
     attrs |-> FlatSet(s.span.attrs), resource |-> FlatSet(s.resource), scope |-> FlatSet(s.scope),
     events |-> [j \in DOMAIN s.span.events |-> [s.span.events[j] EXCEPT !.attrs = FlatSet(@)]],
     links |-> [j \in DOMAIN s.span.links |-> [s.span.links[j] EXCEPT !.attrs = FlatSet(@)]]]

(***************************************************************************)
(* The Tempo API returns each span as it was sent: its own resource and    *)
(* scope and nothing of its neighbours in the request, events and links    *)
(* complete and in order (the shared field list of decodeResourceSpans,    *)
(* rowsToResourceSpans).  An event that carries nothing at all is outside  *)
(* of this: it has no field, and the events after it are mixed up.         *)
(***************************************************************************)
ReadBackAsSent ==
    \A j \in DOMAIN pushed :
        LET s == pushed[j].sent IN EveryEventHasAField(s.span) => RowToSpan(pushed[j].row) = Meant(s)

(***************************************************************************)
(* Whether a client sends protobuf or JSON, both APIs show the same span,  *)
(* and both find it in the range that its trace is indexed with; a span    *)
(* that lacks a time or ends before it starts is outside of this.          *)
(***************************************************************************)
BothPathsAgree ==
    \A j \in DOMAIN pushed :
        LET entry == pushed[j]
            json == RowOf(PushFieldsFromSpan(entry.sent)) IN
        EveryEventHasAField(entry.sent.span) =>
            /\ RowToSpan(json) = RowToSpan(entry.row)
            /\ Timed(entry.sent.span) => FieldsToSpan(json) = FieldsToSpan(entry.row)
            /\ Timed(entry.sent.span) /\ entry.sent.span.start <= entry.sent.span.end =>
                  /\ IndexRange(json) = entry.range
                  /\ {entry.time, JSONTime(entry.sent)} \subseteq entry.range[1]..entry.range[2]

(***************************************************************************)
(* The Jaeger API shows every span that does not end before it starts,     *)
(* with one reference for its parent and for every other span it links to, *)
(* and none for anything else (fieldsToSpan).                              *)
(***************************************************************************)
JaegerShowsAll ==
    \A j \in DOMAIN pushed :
        LET sp == pushed[j].sent.span
            shown == FieldsToSpan(pushed[j].row)
            Named(r) == <<shown.references[r][1], shown.references[r][2]>>
            parent == IF sp.parent = "" THEN {} ELSE {<<sp.trace, sp.parent>>}
            linked == {<<sp.links[l].trace, sp.links[l].span>> : l \in DOMAIN sp.links} IN
        Timed(sp) /\ sp.start <= sp.end =>
            /\ shown # Nothing
            /\ {Named(r) : r \in DOMAIN shown.references} = parent \cup linked
            /\ \A r, o \in DOMAIN shown.references : Named(r) \in parent /\ Named(o) \in parent => r = o
=============================================================================
