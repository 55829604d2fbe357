-------------------------- MODULE MCFederationPull --------------------------
(***************************************************************************)
(* Instances of FederationPull for TLC.                                    *)
(***************************************************************************)
EXTENDS FederationPull

CONSTANTS t1

OneThread == [i \in Ids |-> t1]
=============================================================================
