----------------------------- MODULE MCNetInsert -----------------------------
(* Small instances of NetInsert for TLC.                                   *)
EXTENDS NetInsert, TLC

CONSTANTS r1, r2, w1

(* A row with a trace ID, and one without that may overflow its buffer.    *)
HomesOfTwo == (r1 :> {1}) @@ (r2 :> {1, 2})
HomesOfOne == r1 :> {1}
=============================================================================
