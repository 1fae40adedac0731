------------------------------ MODULE MCTraceQL ------------------------------
EXTENDS TempoMetrics
SomeTests == {<<"name", "=", "x">>, <<"status", "!=", "error">>, <<"span.a", "=", "nil">>, <<"traceDuration", "=", "10ms">>}
SomePipelines == {<<"|", "rate", "(", ")", "by", "(", "name", ")", "|", "with", "(", "a", "=", "(", "b", ")", ")">>,
                  <<"|", "quantile_over_time", "(", "span.a", ",", "0.5", ")", ">", "5", "|", "select", "(", "name", ",", "*", ")">>,
                  <<"|", "count", "(", ")", ">", "20", "|", "avg", "(", "a", ")", "|", "select", "(", "name", ")", "|", "max_over_time", "(", "a", ")">>}
Of(name, status, a, trace, at, took) ==
    [span |-> [name |-> name, status |-> status, a |-> a, traceDuration |-> "2"], trace |-> trace, at |-> at, took |-> took]
SomeCorpus == <<Of("x", "ok", "", "t1", 1, 3), Of("x", "error", "x", "t1", 2, 0), Of("y", "error", "", "t2", 3, 9),
                Of("x", "ok", "", "t2", 3, 4), Of("y", "ok", "x", "t3", 7, 4), Of("x", "error", "", "t3", 2, 2)>>
=============================================================================
