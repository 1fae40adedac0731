------------------------------- MODULE MCLastN -------------------------------
(* A small instance of LastN for TLC: a range that does not halve evenly.  *)
EXTENDS LastN
Odd == 1..9
=============================================================================
