------------------------ MODULE SignedRequestsProofs ------------------------
(***************************************************************************)
(* A signed request is accepted at most once, and the first delivery that  *)
(* is in time is, for every window, pruning age, delay and skew that       *)
(* satisfy PruningAssumption.                                              *)
(***************************************************************************)
EXTENDS SignedRequests, TLAPS

\* Every reachable state is well typed.
THEOREM TypeCorrect == Spec => []TypeOK
<1> USE ClockAssumption DEF TypeOK
<1>1. Init => TypeOK
  BY DEF Init
<1>2. TypeOK /\ [Next]_vars => TypeOK'
  <2> SUFFICES ASSUME TypeOK, [Next]_vars PROVE TypeOK'
    OBVIOUS
  <2>1. ASSUME NEW w \in Workers, NEW t \in Tuples, CheckWindow(w, t)
        PROVE  TypeOK'
    BY <2>1 DEF CheckWindow
  <2>2. ASSUME NEW w \in Workers, record(w) PROVE TypeOK'
    BY <2>2 DEF record
  <2>3. CASE prune_older_than
    BY <2>3 DEF prune_older_than, handler
  <2>4. CASE Crash
    BY <2>4 DEF Crash
  <2>5. CASE Tick
    BY <2>5 DEF Tick, handler
  <2>6. CASE Drift
    BY <2>6 DEF Drift, handler
  <2>7. CASE UNCHANGED vars
    BY <2>7 DEF vars
  <2>8. QED BY <2>1, <2>2, <2>3, <2>4, <2>5, <2>6, <2>7 DEF Next
<1>3. QED BY <1>1, <1>2, PTL DEF Spec

\* The request's time is over: no delivery that passed the window is left.
Expired(t) == clock > ts[t] + Window + MaxDelay

\* A worker that waits for its insert checked the window not long ago.
InTime(w) ==
  pc[w] = "record" =>
    /\ checkedAt[w] <= clock /\ clock <= checkedAt[w] + MaxDelay
    /\ checkedAt[w] <= ts[req[w]] + Window
    /\ ts[req[w]] - Window <= checkedAt[w]

\* A stored tuple was stored when its request was in time, and accepted; a
\* tuple that was accepted is either still stored or its time is over.
Remembered(t) ==
  /\ seen_at[t] # NoTime => /\ seen_at[t] >= ts[t] - Window - MaxSkew
                            /\ accepted[t] = 1
  /\ accepted[t] <= 1
  /\ accepted[t] = 1 => seen_at[t] # NoTime \/ Expired(t)

NonceInv == (\A w \in Workers : InTime(w)) /\ (\A t \in Tuples : Remembered(t))

\* The table remembers every tuple for as long as it matters.
THEOREM NonceInvariant == Spec => []NonceInv
<1> USE ClockAssumption, PruningAssumption
<1>1. Init => NonceInv
  BY DEF Init, NonceInv, InTime, Remembered
<1>2. TypeOK /\ NonceInv /\ [Next]_vars => NonceInv'
  <2> SUFFICES ASSUME TypeOK, NonceInv, [Next]_vars PROVE NonceInv'
    OBVIOUS
  <2> USE DEF TypeOK, NonceInv, InTime, Remembered, Expired
  <2>1. ASSUME NEW w \in Workers, NEW t \in Tuples, CheckWindow(w, t)
        PROVE  NonceInv'
    BY <2>1 DEF CheckWindow
  <2>2. ASSUME NEW w \in Workers, record(w) PROVE NonceInv'
    <3> DEFINE t == req[w]
    <3>1. /\ t \in Tuples /\ ~Expired(t)
          /\ clock + skew >= ts[t] - Window - MaxSkew
      BY <2>2 DEF record
    <3>2. \A v \in Workers : InTime(v)'
      BY <2>2 DEF record
    <3>3. ASSUME NEW u \in Tuples PROVE Remembered(u)'
      <4>1. CASE u = t /\ seen_at[t] = NoTime
        BY <2>2, <3>1, <4>1 DEF record
      <4>2. CASE u # t \/ seen_at[t] # NoTime
        BY <2>2, <3>1, <4>2 DEF record
      <4>3. QED BY <4>1, <4>2
    <3>4. QED BY <3>2, <3>3
  <2>3. CASE prune_older_than
    <3>1. ASSUME NEW t \in Tuples, seen_at[t] # NoTime,
                 seen_at[t] < clock + skew - PruneAge
          PROVE  Expired(t)
      BY <3>1
    <3>2. QED BY <2>3, <3>1 DEF prune_older_than, handler
  <2>4. CASE Crash
    BY <2>4 DEF Crash
  <2>5. CASE Tick
    BY <2>5 DEF Tick, handler
  <2>6. CASE Drift
    BY <2>6 DEF Drift, handler
  <2>7. CASE UNCHANGED vars
    BY <2>7 DEF vars
  <2>8. QED BY <2>1, <2>2, <2>3, <2>4, <2>5, <2>6, <2>7 DEF Next
<1>3. QED BY <1>1, <1>2, TypeCorrect, PTL DEF Spec

\* A signed request takes effect at most once.
THEOREM SignedRequestsAcceptedOnce == Spec => []AcceptedOnce
<1>1. NonceInv => AcceptedOnce
  BY DEF NonceInv, Remembered, AcceptedOnce
<1>2. QED BY <1>1, NonceInvariant, PTL

\* Only who waits for the insert has a request.
IdleInv == \A w \in Workers : pc[w] = "idle" => req[w] = NoTuple

LEMMA IdleInvariant == Spec => []IdleInv
<1>1. Init => IdleInv
  BY DEF Init, IdleInv
<1>2. TypeOK /\ IdleInv /\ [Next]_vars => IdleInv'
  BY DEF TypeOK, IdleInv, Next, vars, handler, CheckWindow, record, Crash,
         prune_older_than, Tick, Drift
<1>3. QED BY <1>1, <1>2, TypeCorrect, PTL DEF Spec

\* With the clocks, the window and the pruning that it has, the table judges
\* as one that keeps every tuple for ever.
THEOREM RefinesReplayGate == Spec => ImplementsReplayGate
<1> USE ClockAssumption
<1>1. Init => G!Init
  BY DEF Init, G!Init
<1>2. TypeOK /\ NonceInv /\ IdleInv /\ [Next]_vars => [G!Next]_G!vars
  <2> SUFFICES ASSUME TypeOK, NonceInv, IdleInv, [Next]_vars
               PROVE  [G!Next]_G!vars
    OBVIOUS
  <2> USE DEF TypeOK
  <2>1. ASSUME NEW w \in Workers, NEW t \in Tuples, CheckWindow(w, t)
        PROVE  G!Deliver(w, t)
    BY <2>1 DEF CheckWindow, IdleInv, G!Deliver
  <2>2. ASSUME NEW w \in Workers, record(w) PROVE G!Pass(w) \/ G!Refuse(w)
    <3>1. PICK t \in Tuples : req[w] = t
      BY <2>2 DEF record
    <3>2. ~Expired(t) /\ Remembered(t)
      BY <2>2, <3>1 DEF record, NonceInv, InTime, Expired
    <3>3. G!Judged(w)
      BY <2>2, <3>1 DEF record, G!Judged
    <3>4. CASE seen_at[t] = NoTime
      <4>1. accepted[t] = 0
        BY <3>2, <3>4 DEF Remembered
      <4>2. accepted' = [accepted EXCEPT ![t] = 1]
        BY <2>2, <3>1, <3>4, <4>1 DEF record
      <4>3. QED BY <3>1, <3>3, <4>1, <4>2 DEF G!Pass
    <3>5. CASE seen_at[t] # NoTime
      <4>1. accepted[t] = 1 /\ accepted' = accepted
        BY <2>2, <3>1, <3>2, <3>5 DEF record, Remembered
      <4>2. QED BY <3>1, <3>3, <4>1 DEF G!Refuse
    <3>6. QED BY <3>4, <3>5
  <2>3. CASE Crash
    BY <2>3 DEF Crash, G!Restart, G!Next
  <2>4. CASE prune_older_than \/ Tick \/ Drift \/ UNCHANGED vars
    BY <2>4 DEF prune_older_than, Tick, Drift, handler, vars, G!vars
  <2>5. QED BY <2>1, <2>2, <2>3, <2>4 DEF Next, G!Next
<1>3. QED BY <1>1, <1>2, TypeCorrect, NonceInvariant, IdleInvariant, PTL
             DEF Spec, ImplementsReplayGate, G!Spec
=============================================================================
