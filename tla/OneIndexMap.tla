----------------------------- MODULE OneIndexMap -----------------------------
(***************************************************************************)
(* What the trace-ID index promises, without generations, workers or       *)
(* buffers: one map from a key to the hull of the ranges accepted for it   *)
(* since its last publication, and the set of index rows published.  Any   *)
(* set of keys may be published at any time; a published key starts afresh.*)
(***************************************************************************)
EXTENDS Integers

CONSTANTS Keys

VARIABLES
    live,     \* live[k]: hull of the ranges of k not yet published
    index     \* index rows published, never changed again

Join(m, k, start, end) ==
    [x \in DOMAIN m \cup {k} |->
        IF x # k THEN m[x]
        ELSE IF k \notin DOMAIN m THEN [start |-> start, end |-> end]
        ELSE [start |-> IF start < m[k].start THEN start ELSE m[k].start,
              end   |-> IF end > m[k].end THEN end ELSE m[k].end]]

Init ==
    /\ live = [k \in {} |-> 0]
    /\ index = {}

Accept(k, start, end) ==
    /\ live' = Join(live, k, start, end)
    /\ UNCHANGED index

Publish(K) ==
    /\ index' = index \cup {[key |-> k, start |-> live[k].start, end |-> live[k].end] : k \in K}
    /\ live' = [k \in DOMAIN live \ K |-> live[k]]

(* A key of no range is never published, and ranges are never made up:     *)
(* start and end come from the environment.                                *)
Next(Bounds) ==
    \/ \E k \in Keys : \E start, end \in Bounds : Accept(k, start, end)
    \/ \E K \in SUBSET DOMAIN live : Publish(K)
=============================================================================
