---------------------------- MODULE MCTraceIndex ----------------------------
(* A small instance of TraceIndex for TLC.                                 *)
EXTENDS TraceIndex

CONSTANTS t1, t2, tr, w1, w2, h1, h2, none

Sp(id, tenant, trace, start, end, wide) ==
    [id |-> id, tenant |-> tenant, trace |-> trace, start |-> start, end |-> end, wide |-> wide]

(* One trace ID used by two tenants.  The two spans of t2 overlap, and one *)
(* may come a tick or more after the other.  The span of t1 has no start   *)
(* and is too wide to be stored; the last one carries no trace ID.         *)
MixedSpans == {Sp(1, t1, tr, 0, 3, TRUE), Sp(2, t2, tr, 2, 4, FALSE),
               Sp(3, t2, tr, 1, 3, FALSE), Sp(4, t1, none, 1, 2, FALSE)}

(* Every tenant has a worker of its own.                                   *)
ByTenant == [k \in Keys |-> IF k[1] = t1 THEN w1 ELSE w2]
=============================================================================
