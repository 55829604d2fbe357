----------------------------- MODULE Membership -----------------------------
(***************************************************************************)
(* What a room promises about membership, without requests, tables or      *)
(* transactions.  Each device is a stranger, then pending, then accepted,  *)
(* and may be removed from either; no step goes back.  The key epoch       *)
(* advances only together with the removal of a current member.            *)
(***************************************************************************)
EXTENDS Naturals

CONSTANTS Device, Founder

VARIABLES stage, epoch

vars == <<stage, epoch>>

Stages == {"stranger", "pending", "accepted", "removed"}

TypeOK == stage \in [Device -> Stages] /\ epoch \in Nat

Init ==
  /\ stage = [d \in Device |-> IF d = Founder THEN "accepted" ELSE "stranger"]
  /\ epoch = 0

Member(d) == stage[d] \in {"pending", "accepted"}

Join(d) ==
  /\ stage[d] = "stranger"
  /\ stage' = [stage EXCEPT ![d] = "pending"]
  /\ UNCHANGED epoch

Admit(d) ==
  /\ stage[d] = "pending"
  /\ stage' = [stage EXCEPT ![d] = "accepted"]
  /\ UNCHANGED epoch

\* One signing key may stand on several rows, and a leave covers them all.
Leave(S) ==
  /\ \A d \in S : Member(d)
  /\ stage' = [d \in Device |-> IF d \in S THEN "removed" ELSE stage[d]]
  /\ UNCHANGED epoch

\* A rekey removes one member and hands the new key to the members in S,
\* which accepts those of them that were still pending.
Rekey(d, S) ==
  /\ Member(d)
  /\ d \notin S
  /\ \A s \in S : Member(s)
  /\ stage' = [x \in Device |-> IF x = d THEN "removed"
                                ELSE IF x \in S THEN "accepted"
                                ELSE stage[x]]
  /\ epoch' = epoch + 1

Next ==
  \/ \E d \in Device : Join(d) \/ Admit(d)
  \/ \E S \in SUBSET Device : Leave(S)
  \/ \E d \in Device, S \in SUBSET Device : Rekey(d, S)

Spec == Init /\ [][Next]_vars
=============================================================================
