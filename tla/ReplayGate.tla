----------------------------- MODULE ReplayGate -----------------------------
(***************************************************************************)
(* What a handler of signed requests is promised by the table of nonces,   *)
(* without clocks, windows or pruning: of the requests that wait for an    *)
(* answer, the first with its tuple passes and every other one is refused, *)
(* for ever.                                                               *)
(***************************************************************************)
EXTENDS Naturals

CONSTANTS Workers, Tuples, NoTuple

VARIABLES
  waiting,   \* per worker: the tuple it waits to have judged
  passes     \* per tuple: how often it has passed

vars == <<waiting, passes>>

Init ==
  /\ waiting = [w \in Workers |-> NoTuple]
  /\ passes = [t \in Tuples |-> 0]

Deliver(w, t) ==
  /\ waiting[w] = NoTuple
  /\ waiting' = [waiting EXCEPT ![w] = t]
  /\ UNCHANGED passes

Judged(w) ==
  /\ waiting[w] \in Tuples
  /\ waiting' = [waiting EXCEPT ![w] = NoTuple]

Pass(w) ==
  /\ Judged(w)
  /\ passes[waiting[w]] = 0
  /\ passes' = [passes EXCEPT ![waiting[w]] = 1]

Refuse(w) ==
  /\ Judged(w)
  /\ passes[waiting[w]] = 1
  /\ UNCHANGED passes

\* A restart answers nobody, and forgets nothing.
Restart ==
  /\ waiting' = [w \in Workers |-> NoTuple]
  /\ UNCHANGED passes

Next ==
  \/ \E w \in Workers :
       \/ Pass(w) \/ Refuse(w)
       \/ \E t \in Tuples : Deliver(w, t)
  \/ Restart

Spec == Init /\ [][Next]_vars
=============================================================================
