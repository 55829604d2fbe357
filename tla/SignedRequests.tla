--------------------------- MODULE SignedRequests ---------------------------
(***************************************************************************)
(* How a signed room request is accepted at most once.  Its handler        *)
(* compares the signed ts with the server's clock, later records the tuple *)
(* (kind, sig_pubkey, ts) in request_nonces, and goes on only if the tuple *)
(* was new.  The retention worker deletes old tuples by the database's     *)
(* clock.  The tuple forgets what the window would have refused, provided  *)
(* it is kept long enough.                                                 *)
(*                                                                         *)
(* A request is identified with its tuple.  It may be delivered any number *)
(* of times, at any time, to several workers at once.                      *)
(***************************************************************************)
EXTENDS Integers

CONSTANTS
  Workers,     \* requests served at the same time
  Tuples,      \* (kind, sig_pubkey, ts) tuples signed by some client
  ts,          \* the signed time of each
  Window,      \* 60: the accepted difference from the server's clock
  PruneAge,    \* 600: the age at which the retention worker deletes a tuple
  MaxDelay,    \* longest time from the window check to the insert
  MaxSkew,     \* bound on the database clock's distance from the server's
  MaxClock,    \* bound: how far the clock runs
  NoTuple,     \* no request in the slot
  NoTime       \* the tuple is not stored

VARIABLES
  clock,       \* unix_timestamp() of the server
  skew,        \* now() of the database minus clock
  seen_at,     \* request_nonces
  pc, req,     \* per worker: the next step and the request
  checkedAt,   \* per worker: when it compared ts with the clock
  accepted     \* history: how often the handler's body was reached

vars == <<clock, skew, seen_at, pc, req, checkedAt, accepted>>
handler == <<pc, req, checkedAt>>

ASSUME ClockAssumption ==
  /\ ts \in [Tuples -> Int]
  /\ Window \in Nat /\ PruneAge \in Nat /\ MaxDelay \in Nat
  /\ MaxSkew \in Nat /\ MaxClock \in Int
  /\ NoTime \notin Int /\ NoTuple \notin Tuples

\* A tuple must outlive every delivery that could still pass the window: it is
\* stored no earlier than ts - Window and wanted until ts + Window + MaxDelay,
\* on clocks that disagree by MaxSkew each time.
ASSUME PruningAssumption == PruneAge >= 2 * Window + MaxDelay + 2 * MaxSkew

Init ==
  /\ clock = 0
  /\ skew \in -MaxSkew..MaxSkew
  /\ seen_at = [t \in Tuples |-> NoTime]
  /\ pc = [w \in Workers |-> "idle"]
  /\ req = [w \in Workers |-> NoTuple]
  /\ checkedAt = [w \in Workers |-> 0]
  /\ accepted = [t \in Tuples |-> 0]

\* A delivery that is in time goes on to the insert; one that is not is
\* answered with 400 and leaves no trace.
CheckWindow(w, t) ==
  /\ pc[w] = "idle"
  /\ clock - ts[t] <= Window /\ ts[t] - clock <= Window
  /\ pc' = [pc EXCEPT ![w] = "record"]
  /\ req' = [req EXCEPT ![w] = t]
  /\ checkedAt' = [checkedAt EXCEPT ![w] = clock]
  /\ UNCHANGED <<clock, skew, seen_at, accepted>>

\* INSERT ... ON CONFLICT DO NOTHING; one row inserted means a new tuple.
record(w) ==
  LET t == req[w] IN
  /\ pc[w] = "record"
  /\ IF seen_at[t] = NoTime
       THEN /\ seen_at' = [seen_at EXCEPT ![t] = clock + skew]
            /\ accepted' = [accepted EXCEPT ![t] = @ + 1]
       ELSE UNCHANGED <<seen_at, accepted>>
  /\ pc' = [pc EXCEPT ![w] = "idle"]
  /\ req' = [req EXCEPT ![w] = NoTuple]
  /\ UNCHANGED <<clock, skew, checkedAt>>

\* The server stops: the requests it was serving are gone, the tuples are not.
Crash ==
  /\ pc' = [w \in Workers |-> "idle"]
  /\ req' = [w \in Workers |-> NoTuple]
  /\ UNCHANGED <<clock, skew, seen_at, checkedAt, accepted>>

\* Variant: tuples deleted as soon as the window has passed since their insert.
prune_at_window ==
  /\ seen_at' = [t \in Tuples |->
       IF seen_at[t] # NoTime /\ seen_at[t] < clock + skew - Window
         THEN NoTime ELSE seen_at[t]]
  /\ UNCHANGED <<clock, skew, handler, accepted>>

\* DELETE ... WHERE seen_at < now() - age
prune_older_than ==
  /\ seen_at' = [t \in Tuples |->
       IF seen_at[t] # NoTime /\ seen_at[t] < clock + skew - PruneAge
         THEN NoTime ELSE seen_at[t]]
  /\ UNCHANGED <<clock, skew, handler, accepted>>

\* Time passes, but no handler waits longer than MaxDelay for its insert.
Tick ==
  /\ clock < MaxClock
  /\ \A w \in Workers : pc[w] = "record" => clock < checkedAt[w] + MaxDelay
  /\ clock' = clock + 1
  /\ UNCHANGED <<skew, seen_at, handler, accepted>>

\* The clocks of the server and the database drift or are adjusted.
Drift ==
  /\ skew' \in -MaxSkew..MaxSkew
  /\ UNCHANGED <<clock, seen_at, handler, accepted>>

Next ==
  \/ \E w \in Workers : record(w) \/ \E t \in Tuples : CheckWindow(w, t)
  \/ prune_older_than \/ Crash \/ Tick \/ Drift

Spec == Init /\ [][Next]_vars

-----------------------------------------------------------------------------
\* Types; a worker that waits for its insert has a request.
TypeOK ==
  /\ clock \in Int
  /\ skew \in -MaxSkew..MaxSkew
  /\ seen_at \in [Tuples -> Int \cup {NoTime}]
  /\ pc \in [Workers -> {"idle", "record"}]
  /\ req \in [Workers -> Tuples \cup {NoTuple}]
  /\ checkedAt \in [Workers -> Int]
  /\ accepted \in [Tuples -> Nat]
  /\ \A w \in Workers : pc[w] = "record" => req[w] \in Tuples

\* A signed request takes effect at most once: not when it is delivered
\* twice at the same time, nor after its tuple has been deleted, nor across
\* a restart, whatever the clocks do within their bounds.
AcceptedOnce == \A t \in Tuples : accepted[t] <= 1

G == INSTANCE ReplayGate WITH waiting <- req, passes <- accepted

\* Though old tuples are deleted, clocks drift and the server restarts, the
\* table judges as if it kept every tuple: a request that is in time passes if
\* it is the first of its tuple, and is refused as a replay only if it is not.
ImplementsReplayGate == G!Spec
=============================================================================
