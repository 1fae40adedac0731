---------------------------- MODULE MCTraceLookup ----------------------------
(* Small instances of TraceLookup for TLC.                                 *)
EXTENDS TraceLookup
CONSTANT tr
SomeWindows == {[start |-> 0, end |-> 0], [start |-> 3, end |-> 5], [start |-> 0, end |-> 4], [start |-> -10, end |-> 0]}
=============================================================================
