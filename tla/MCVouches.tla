----------------------------- MODULE MCVouches -----------------------------
(* The instance of Vouches that TLC checks.                                *)
EXTENDS Vouches

CONSTANTS c, x, k0
=============================================================================
