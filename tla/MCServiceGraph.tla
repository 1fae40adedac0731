--------------------------- MODULE MCServiceGraph ---------------------------
(* A small instance for TLC.  The first tenant makes more pairs of         *)
(* services than the limit, the second calls more databases than theirs;   *)
(* a call and a database call lie on the boundary of two windows, and one  *)
(* parent and child are of the same service.                               *)
EXTENDS ServiceGraph
Sent(t, id, parent, kind, service, db, at) ==
    [tenant |-> t, id |-> id, parent |-> parent, kind |-> kind, service |-> service, db |-> db, at |-> at]
SomeSpans ==
    {Sent(1, "c", None, 4, "shop", None, 4), Sent(1, "s", "c", 5, "cart", None, 4),
     Sent(1, "d", "c", 2, "bank", None, 7), Sent(2, "c", None, 3, "mail", "pg", 8),
     Sent(2, "k", "c", 2, "mail", None, 11), Sent(2, "i", "c", 3, "mail", "my", 10)}
=============================================================================
