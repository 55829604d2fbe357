-------------------------- MODULE MCSignedRequests --------------------------
(***************************************************************************)
(* Two requests, one signed before the server's clock starts to run and    *)
(* one dated a little ahead of it.                                         *)
(***************************************************************************)
EXTENDS SignedRequests

CONSTANTS early, late

Signed == [t \in {early, late} |-> IF t = early THEN 0 ELSE 3]
=============================================================================
