-------------------------- MODULE MCServerProcess --------------------------
(* The instance of ServerProcess that TLC checks.                          *)
EXTENDS ServerProcess

CONSTANTS t1, r1, s1, s2, p1, p2
=============================================================================
