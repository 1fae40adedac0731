------------------------------ MODULE MCSpanRow ------------------------------
(* A small instance of SpanRow for TLC.                                    *)
EXTENDS SpanRow

Value(path, val) == [path |-> path, val |-> val]

(* An empty text and a nested list; an event without attributes, one with  *)
(* nothing else and one with nothing; links to a stranger and, with either *)
(* type, to the parent.                                                    *)
SomeAttributes == {<<Value(<<"a">>, "")>>, <<Value(<<"b", "c">>, "x"), Value(<<"b", "d">>, "")>>}
SomeEvents == {[time |-> 1, name |-> "e", attrs |-> <<>>], [time |-> 0, name |-> "", attrs |-> <<Value(<<"a">>, "")>>],
               [time |-> 0, name |-> "", attrs |-> <<>>]}
SomeLinks == {[trace |-> "t2", span |-> "s2", attrs |-> <<>>], [trace |-> "t1", span |-> "p", attrs |-> <<>>],
              [trace |-> "t1", span |-> "p", attrs |-> <<Value(<<"opentracing.ref_type">>, "child_of")>>]}
Digits == [n \in 0..7 |-> <<"0", "1", "2", "3", "4", "5", "6", "7">>[n + 1]]
AnyString == STRING
=============================================================================
