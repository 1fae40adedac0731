------------------------------ MODULE NetSelect ------------------------------
(***************************************************************************)
(* One request of vtselect to all its nodes, and the handlers that serve   *)
(* it: app/vtstorage/netselect/netselect.go and                            *)
(* app/vtselect/internalselect/internalselect.go.  One goroutine per node  *)
(* sends the request; the node queues it for a slot, runs it and streams   *)
(* its answer.  The goroutines share a context: an error of one node may   *)
(* cancel the others, and what a node reports after that is not counted.   *)
(* The answer is made of the errors that were recorded, in the order of    *)
(* the -storageNode list.                                                  *)
(***************************************************************************)
EXTENDS Integers, FiniteSetsExt

CONSTANTS
    N,        \* number of nodes
    Blocks,   \* data blocks in the full response of a node to a query
    Middle,   \* the nodes that are vtselects with nodes of their own
    Hits,     \* Hits[n][v]: how often node n has seen the value v
    Limit     \* limit of a request for values

ASSUME NAssumption == N \in Nat \ {0}
ASSUME BlocksAssumption == Blocks \in Nat
ASSUME MiddleAssumption == Middle \subseteq 1..N
(* The same finitely many values at every node.  The limit 0, which stands *)
(* for none, is left out.                                                  *)
ASSUME HitsAssumption ==
    /\ Hits \in [1..N -> [DOMAIN Hits[1] -> Nat]] /\ IsFiniteSet(DOMAIN Hits[1])
    /\ Limit \in Nat \ {0}

Nodes == 1..N

(* "query" streams data blocks, "values" asks for values with hits (of     *)
(* fields, streams and so on), "delete" starts or stops a deletion.        *)
Ops == {"query", "values", "delete"}

(* "unavailable": the connection failed.  "config": not a 200 status.      *)
(* "retention": the node's retention is over before the query's range      *)
(* ends.  "broken": the response was cut or is garbled.                    *)
Errors == {"unavailable", "config", "retention", "broken"}

VARIABLES
    op,         \* the kind of the request
    partial,    \* AllowPartialResponse of the query
    pc,         \* pc[n]: where the goroutine of node n is
    got,        \* got[n]: blocks of n handed to writeBlock
    err,        \* err[n]: what sn.runQuery returned
    errs,       \* errs[n]: what handleError left
    cancelled,  \* the shared context is cancelled
    answer,     \* what the request returned
    stopped,    \* history: the caller closed stopCh
    own,        \* history: errors met while the context was alive
    srv,        \* srv[n]: where the handler of the request is at node n
    status,     \* status[n]: what n has sent in front of the body
    sent,       \* sent[n]: blocks in the body
    end,        \* end[n]: how the body ended
    silent      \* history: the nodes that kept an error to themselves

client == <<op, partial, pc, got, err, errs, cancelled, answer, stopped, own>>
server == <<srv, status, sent, end, silent>>
vars == <<client, server>>

Init ==
    /\ op \in Ops
    /\ partial \in IF op = "delete" THEN {FALSE} ELSE BOOLEAN
    /\ pc = [n \in Nodes |-> "asked"]
    /\ got = [n \in Nodes |-> 0]
    /\ err = [n \in Nodes |-> "none"]
    /\ errs = [n \in Nodes |-> "none"]
    /\ cancelled = FALSE
    /\ answer = "none"
    /\ stopped = FALSE
    /\ own = [n \in Nodes |-> "none"]
    /\ srv = [n \in Nodes |-> "away"]
    /\ status = [n \in Nodes |-> "none"]
    /\ sent = [n \in Nodes |-> 0]
    /\ end = [n \in Nodes |-> "open"]
    /\ silent = {}

BlocksOf(n) == IF op = "query" THEN Blocks ELSE 0

-----------------------------------------------------------------------------
(* The handler at a node: RequestHandler and what it calls.                *)

Arrive(n) ==
    /\ pc[n] = "asked" /\ srv[n] = "away"
    /\ srv' = [srv EXCEPT ![n] = "queued"]
    /\ UNCHANGED <<client, status, sent, end, silent>>

(* The others that hold the node's slots come and go.                      *)
TakeSlot(n) ==
    /\ srv[n] = "queued"
    /\ srv' = [srv EXCEPT ![n] = "running"]
    /\ UNCHANGED <<client, status, sent, end, silent>>

(* A full buffer goes out; the first one brings the status with it.        *)
SendBlock(n) ==
    /\ srv[n] = "running"
    /\ sent[n] < BlocksOf(n)
    /\ sent' = [sent EXCEPT ![n] = @ + 1]
    /\ status' = [status EXCEPT ![n] = "ok"]
    /\ UNCHANGED <<client, srv, end, silent>>

(* The handler returns, and so gives its slot back.                        *)
Reply(n, st, e) ==
    /\ srv' = [srv EXCEPT ![n] = "replied"]
    /\ status' = [status EXCEPT ![n] = IF @ = "none" THEN st ELSE @]
    /\ end' = [end EXCEPT ![n] = e]

(* The remaining buffers and the statistics are sent.                      *)
Complete(n) ==
    /\ srv[n] = "running"
    /\ sent[n] = BlocksOf(n)
    /\ Reply(n, "ok", "eof")
    /\ UNCHANGED <<client, sent, silent>>

(* Only the header can say so: behind a block it says nothing.             *)
OutOfRetention(n) ==
    /\ srv[n] = "running" /\ op = "query"
    /\ n \notin Middle => sent[n] = 0
    /\ Reply(n, "retention", "eof")
    /\ silent' = IF sent[n] > 0 THEN silent \cup {n} ELSE silent
    /\ UNCHANGED <<client, sent>>

(* Variant: the connection is left as it is after a failure.               *)
ClosedNormally(n) ==
    /\ srv[n] = "running"
    /\ Reply(n, "failed", "eof")
    /\ UNCHANGED <<client, sent, silent>>
(* httpserver.Errorf: a 502 status, or the connection is aborted.          *)
Fail(n) ==
    /\ srv[n] = "running"
    /\ Reply(n, "failed", IF status[n] = "none" THEN "eof" ELSE "cut")
    /\ UNCHANGED <<client, sent, silent>>

(* A connection to a node below was reset: IsTrivialNetworkError takes the *)
(* error for one of the handler's own client.                              *)
FailSilently(n) ==
    /\ srv[n] = "running" /\ n \in Middle
    /\ Reply(n, "ok", "eof")
    /\ silent' = silent \cup {n}
    /\ UNCHANGED <<client, sent>>

(* Variant: a request that waits for a slot does not look at its context.  *)
GoneOnceRunning(n) == srv[n] = "running" /\ (cancelled \/ pc[n] \notin {"asked", "streaming"})
(* net/http cancels the context of a request whose client has gone.        *)
Gone(n) == cancelled \/ pc[n] \notin {"asked", "streaming"}
SeeClientGone(n) ==
    /\ srv[n] \in {"queued", "running"}
    /\ Gone(n)
    /\ Reply(n, "failed", "cut")
    /\ UNCHANGED <<client, sent, silent>>

HandlerStep(n) ==
    \/ Arrive(n) \/ TakeSlot(n) \/ SendBlock(n) \/ Complete(n) \/ OutOfRetention(n)
    \/ Fail(n) \/ FailSilently(n) \/ SeeClientGone(n)

-----------------------------------------------------------------------------
(* A node's goroutine: sn.runQuery and its like.                           *)

Return(n, e) ==
    /\ pc' = [pc EXCEPT ![n] = "returned"]
    /\ err' = [err EXCEPT ![n] = e]
    /\ own' = [own EXCEPT ![n] = IF cancelled THEN @ ELSE e]
    /\ UNCHANGED <<op, partial, got, errs, cancelled, answer, stopped, server>>

(* The node takes the request and answers 200.                             *)
Accepted(n) ==
    /\ pc[n] = "asked"
    /\ status[n] = "ok"
    /\ pc' = [pc EXCEPT ![n] = "streaming"]
    /\ UNCHANGED <<op, partial, got, err, errs, cancelled, answer, stopped, own, server>>

Refused(n) ==
    /\ pc[n] = "asked"
    /\ \/ status[n] = "failed" /\ Return(n, "config")
       \/ status[n] = "retention" /\ Return(n, "retention")

ReadBlock(n) ==
    /\ pc[n] = "streaming"
    /\ got[n] < sent[n]
    /\ got' = [got EXCEPT ![n] = @ + 1]
    /\ UNCHANGED <<op, partial, pc, err, errs, cancelled, answer, stopped, own, server>>

(* An empty body is a whole answer to a query and to a deletion; values    *)
(* start with their number.                                                *)
Readable(n) == op = "values" => n \notin silent

(* io.EOF on a block boundary: the node is through.                        *)
EndOfStream(n) ==
    /\ pc[n] = "streaming"
    /\ got[n] = sent[n]
    /\ end[n] = "eof"
    /\ Return(n, IF Readable(n) THEN "none" ELSE "broken")

(* The node or the network goes down; after the status this is not an      *)
(* errUnavailableBackend.                                                  *)
ConnectionLost(n) ==
    \/ pc[n] = "asked" /\ status[n] = "none" /\ Return(n, "unavailable")
    \/ pc[n] = "streaming" /\ Return(n, "broken")

(* The request is aborted by the cancelled context.                        *)
Abort(n) ==
    /\ cancelled
    /\ pc[n] \in {"asked", "streaming"}
    /\ Return(n, IF pc[n] = "asked" THEN "unavailable" ELSE "broken")

-----------------------------------------------------------------------------
(* handleError, in the two steps between which other nodes may run.        *)

(* Variant: the context is not looked at.                                  *)
OverriddenNever == FALSE
(* "The context error overrides all the other errors."                     *)
Overridden == cancelled

CheckContext(n) ==
    /\ pc[n] = "returned"
    /\ pc' = [pc EXCEPT ![n] = IF err[n] = "none" \/ Overridden THEN "handled" ELSE "failing"]
    /\ UNCHANGED <<op, partial, got, err, errs, cancelled, answer, stopped, own, server>>

(* Variant: no error cancels the other nodes.                              *)
CancelsNever(e) == e \notin Errors
(* The errors that cancel the other nodes.                                 *)
Cancels(e) == ~ partial \/ e # "unavailable"

RecordError(n) ==
    /\ pc[n] = "failing"
    /\ pc' = [pc EXCEPT ![n] = "handled"]
    /\ errs' = [errs EXCEPT ![n] = err[n]]
    /\ cancelled' = (cancelled \/ Cancels(err[n]))
    /\ UNCHANGED <<op, partial, got, err, answer, stopped, own, server>>

-----------------------------------------------------------------------------
(* The caller.                                                             *)

(* stopCh is closed: the client has gone or has got enough rows.           *)
StopQuery ==
    /\ answer = "none"
    /\ ~ stopped
    /\ stopped' = TRUE
    /\ cancelled' = TRUE
    /\ UNCHANGED <<op, partial, pc, got, err, errs, answer, own, server>>

(* Variant: the first node speaks for all.                                 *)
FirstErrorOfFirst(es) == IF es[1] = "none" THEN "ok" ELSE es[1]

(* getFirstError; "all" stands for "all the vtstorage nodes are            *)
(* unavailable".                                                           *)
FirstError(es) ==
    LET decisive == {n \in Nodes : es[n] # IF partial THEN "unavailable" ELSE "none"}
    IN  IF decisive = {} THEN (IF partial THEN "all" ELSE "ok")
        ELSE LET e == es[Min(decisive)] IN IF e = "none" THEN "ok" ELSE e

(* wg.Wait has returned; the deferred cancel ends what is left.            *)
Answer ==
    /\ answer = "none"
    /\ \A n \in Nodes : pc[n] = "handled"
    /\ answer' = FirstError(errs)
    /\ cancelled' = TRUE
    /\ UNCHANGED <<op, partial, pc, got, err, errs, stopped, own, server>>

-----------------------------------------------------------------------------
(* The values of all nodes.                                                *)

SeenBy(n) == {v \in DOMAIN Hits[n] : Hits[n][v] > 0}
(* A storage with more values than the limit names some, without hits.     *)
ValuesOf(n) ==
    IF Cardinality(SeenBy(n)) <= Limit THEN [v \in SeenBy(n) |-> Hits[n][v]]
    ELSE [v \in CHOOSE S \in kSubset(Limit, SeenBy(n)) : TRUE |-> 0]

HasZeroHits(vhs) == \E v \in DOMAIN vhs : vhs[v] = 0
(* Variant: what a node left out is not noticed.                           *)
NeverZero(vhs) == FALSE /\ vhs = vhs
NeedReset(vhs) == HasZeroHits(vhs)

(* logstorage.MergeValuesWithHits with its limit.                          *)
MergeValuesWithHits(a) ==
    LET all == UNION {DOMAIN a[n] : n \in Nodes}
        sum == [v \in all |-> MapThenSumSet(LAMBDA n : IF v \in DOMAIN a[n] THEN a[n][v] ELSE 0, Nodes)]
        reset == (\E n \in Nodes : NeedReset(a[n])) \/ Cardinality(all) > Limit
        kept == IF Cardinality(all) > Limit THEN CHOOSE S \in kSubset(Limit, all) : TRUE ELSE all
    IN [v \in kept |-> IF reset THEN 0 ELSE sum[v]]

(* The merged answer; a node that failed has left nothing.                 *)
Merged == MergeValuesWithHits([n \in Nodes |-> IF err[n] = "none" THEN ValuesOf(n) ELSE <<>>])

-----------------------------------------------------------------------------
NodeStep(n) ==
    \/ Accepted(n) \/ Refused(n) \/ ReadBlock(n) \/ EndOfStream(n) \/ ConnectionLost(n) \/ Abort(n)
    \/ CheckContext(n) \/ RecordError(n)

Next == (\E n \in Nodes : HandlerStep(n) \/ NodeStep(n)) \/ StopQuery \/ Answer

(* A node may hang.  Only a cancelled request is sure to return, because   *)
(* net/http watches the context on both sides.                             *)
Fairness ==
    /\ \A n \in Nodes : /\ WF_vars(Abort(n)) /\ WF_vars(CheckContext(n)) /\ WF_vars(RecordError(n))
                        /\ WF_vars(SeeClientGone(n))
    /\ WF_vars(Answer)

Spec == Init /\ [][Next]_vars
FairSpec == Spec /\ Fairness

-----------------------------------------------------------------------------
(* Properties.                                                             *)

(* Without partial responses an answer that is no error holds every block  *)
(* of every node, and every node has done what was asked: however          *)
(* cancellation and errors interleave, an error is never lost, unless a    *)
(* vtselect in between kept it to itself.                                  *)
CompleteOrError ==
    answer = "ok" /\ ~ partial /\ ~ stopped =>
        \A n \in Nodes \ silent : got[n] = BlocksOf(n) /\ srv[n] = "replied"

(* The error that is reported is one a node met on its own, not the echo   *)
(* of the cancellation it set off.                                         *)
CauseIsReal ==
    answer \in Errors => \E n \in Nodes : own[n] = answer

(* A value that is reported with hits is reported with those of all nodes; *)
(* what some node left out is never counted as if it had not been there.   *)
HitsAreTotal ==
    op = "values" /\ answer = "ok" /\ ~ partial /\ ~ stopped =>
        \A v \in DOMAIN Merged : Merged[v] \in {0, MapThenSumSet(LAMBDA n : Hits[n][v], Nodes)}

(* A query that must fail fails at once, even if the other nodes hang.     *)
FailsFast ==
    ((\E n \in Nodes : pc[n] = "failing") /\ ~ partial) ~> (answer # "none")

(* Whatever happened, once the request has returned every node gets the    *)
(* slot back that it took (RequestHandler, -internalselect.maxConcurrent   *)
(* Requests).                                                              *)
SlotsComeBack ==
    (answer # "none") ~> \A n \in Nodes : srv[n] \notin {"queued", "running"}
=============================================================================
