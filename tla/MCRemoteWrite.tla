--------------------------- MODULE MCRemoteWrite ---------------------------
(* Small instances of RemoteWrite for TLC.                                 *)
EXTENDS RemoteWrite
CONSTANTS r1, r2, r3, p1, w1, w2
=============================================================================
