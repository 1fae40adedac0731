----------------------------- MODULE MCNetSelect -----------------------------
(* A small instance of NetSelect for TLC: the second node has more values  *)
(* than the limit.                                                         *)
EXTENDS NetSelect
SomeValues == <<[a |-> 1, b |-> 0], [a |-> 1, b |-> 2]>>
=============================================================================
