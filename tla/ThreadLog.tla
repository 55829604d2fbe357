----------------------------- MODULE ThreadLog -----------------------------
(***************************************************************************)
(* What the readers of a board are promised about its threads, without     *)
(* requests, tables or ids.  A thread that is open is a log of numbered    *)
(* posts: a number, once given, keeps its post until the thread expires,   *)
(* and the only thing that may happen to that post is to be scrubbed,      *)
(* once.  The posts of a thread go all together.                           *)
(*                                                                         *)
(* log[t][n] is the set of posts to be found under number n of thread t.   *)
(***************************************************************************)
EXTENDS Naturals, Sequences

CONSTANTS
  Thread,
  Post,      \* a post with its content: records with the fields body, author,
             \* day and opening
  Blank,     \* the body of a scrubbed post
  NoAuthor   \* the author of an anonymous or scrubbed post

VARIABLES open, log

vars == <<open, log>>

Init ==
  /\ open = {}
  /\ log = [t \in Thread |-> <<>>]

Open(t) ==
  /\ t \notin open
  /\ open' = open \cup {t}
  /\ UNCHANGED log

\* Dates follow the numbers.  Only an opening post may be older than a reply
\* that took a number before it.
InOrder(t, post) ==
  \A n \in DOMAIN log[t] : \A p \in log[t][n] : post.opening \/ p.day <= post.day

\* One post takes the next number.  It is read off the new log, so that Post
\* need not be finite.
Write(t) ==
  LET n == Len(log[t]) + 1 IN
  /\ t \in open
  /\ n \in DOMAIN log'[t]
  /\ \E post \in log'[t][n] :
       /\ post \in Post /\ InOrder(t, post)
       /\ log' = [log EXCEPT ![t] = Append(@, {post})]
  /\ UNCHANGED open

Scrub(t, n) ==
  /\ \E p \in log[t][n] : p.body # Blank
  /\ log' = [log EXCEPT ![t][n] =
               {[p EXCEPT !.body = Blank, !.author = NoAuthor] : p \in @}]
  /\ UNCHANGED open

Expire(T) ==
  /\ T # {} /\ T \subseteq open
  /\ open' = open \ T
  /\ log' = [t \in Thread |-> IF t \in T THEN <<>> ELSE log[t]]

Next ==
  \/ \E t \in Thread :
       \/ Open(t) \/ Write(t)
       \/ \E n \in DOMAIN log[t] : Scrub(t, n)
  \/ \E T \in SUBSET Thread : Expire(T)

Spec == Init /\ [][Next]_vars
=============================================================================
