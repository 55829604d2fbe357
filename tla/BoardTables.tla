---------------------------- MODULE BoardTables ----------------------------
(***************************************************************************)
(* The public tables of one board -- threads, posts and what refers to     *)
(* them -- and the statements db/threads.rs, db/posts.rs, moderation/      *)
(* rules.rs and db/retention.rs run against them.  As in RoomTables, every *)
(* operator is one SQL statement, evaluated on the committed rows.         *)
(*                                                                         *)
(* A date is a day number.                                                 *)
(***************************************************************************)
EXTENDS Naturals, FiniteSets

CONSTANTS
  ThreadIds,     \* client-minted thread ids
  Authors,       \* thread-local signing keys
  Bodies,        \* post texts
  NoAuthor,      \* SQL NULL in posts.pubkey
  Blank,         \* the body of a scrubbed row
  Never,         \* SQL NULL in threads.expires_at and boards.retention_days
  RetentionDays  \* boards.retention_days

ASSUME BoardAssumption ==
  /\ NoAuthor \notin Authors
  /\ Blank \notin Bodies
  /\ Never \notin Nat
  /\ RetentionDays \in Nat \cup {Never}

ThreadRow == [there   : BOOLEAN,              \* whether the row exists
              created : Nat,
              expires : Nat \cup {Never},
              count   : Nat]                  \* post_count

NoThread == [there |-> FALSE, created |-> 0, expires |-> Never, count |-> 0]

PostRow == [id      : Nat,                    \* posts.id, in minting order
            thread  : ThreadIds,
            seq     : Nat,
            body    : Bodies \cup {Blank},
            author  : Authors \cup {NoAuthor},
            day     : Nat,                    \* created_at
            opening : BOOLEAN]                \* history: create_thread wrote it

-----------------------------------------------------------------------------
Exists(threads, t) == threads[t].there

PostsIn(posts, t) == {p \in posts : p.thread = t}

\* What a reader sees of a post, and of a thread under each of its numbers
\* (see ThreadLog).
Shown(p) == [body |-> p.body, author |-> p.author, day |-> p.day,
             opening |-> p.opening]

LogOf(threads, posts, t) ==
  [n \in 1..threads[t].count |->
     {Shown(p) : p \in {q \in PostsIn(posts, t) : q.seq = n}}]

\* COALESCE(MAX(seq), 0) + 1
MaxOrZero(seqs) ==
  IF seqs = {} THEN 0 ELSE CHOOSE m \in seqs : \A n \in seqs : n <= m

NextSeq(posts, t) == MaxOrZero({p.seq : p \in PostsIn(posts, t)}) + 1

\* Whether an INSERT INTO posts meets UNIQUE (thread_id, seq).
SeqTaken(posts, t, n) == \E p \in PostsIn(posts, t) : p.seq = n

pubkey_signed_in_thread(posts, t, key) ==
  \E p \in PostsIn(posts, t) : p.author = key

\* SELECT MIN(seq) without a row to aggregate is one NULL, which the query's
\* result type cannot hold.
signer_first_seq_fails(posts, t, key) == ~pubkey_signed_in_thread(posts, t, key)

\* posts.created_at > now() - interval '24 hours': the date stands for its
\* midnight, which is less than a day ago exactly if the date is today's.
is_recent_duplicate(posts, body, day) ==
  \E p \in posts : p.body = body /\ p.day >= day

\* UPDATE threads SET post_count = post_count + 1
Counted(threads, t) == [threads EXCEPT ![t].count = @ + 1]

\* The WHERE clause of the sweep's first DELETE.
Due(threads, t, day) ==
  /\ threads[t].there
  /\ \/ threads[t].expires # Never /\ threads[t].expires <= day
     \/ RetentionDays # Never /\ threads[t].created + RetentionDays < day

DueThreads(threads, day) == {t \in ThreadIds : Due(threads, t, day)}

\* rooms.origin_thread has no ON DELETE clause: a DELETE that would take away
\* a room's origin thread fails as a whole.
Pinned(rooms, ts) == \E r \in rooms : r.origin \in ts

DeleteThreads(threads, ts) ==
  [t \in ThreadIds |-> IF t \in ts THEN NoThread ELSE threads[t]]
=============================================================================
