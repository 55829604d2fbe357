---------------------------- MODULE PublicBoard ----------------------------
(***************************************************************************)
(* The server side of one public board: the handlers of logic/posts.rs and *)
(* logic/reports.rs, the creation of a room from a thread, and the         *)
(* retention sweep's deletion of threads.  A handler is a chain of awaited *)
(* statements; a step here is the code from one await to the next.  The    *)
(* only transactions are the insert of a post with its counter and the     *)
(* author's delete, each one step.                                         *)
(*                                                                         *)
(* Requests are well formed, carry their proof of work, are signed when    *)
(* they name a key and arrive inside the +-60s window.  Vouches are left   *)
(* out.  The database's session runs in UTC, as today_utc() does.          *)
(***************************************************************************)
EXTENDS BoardTables

CONSTANTS
  Workers,   \* requests served at the same time
  Workload,  \* the requests callers may submit, any number of times
  Creators,  \* signing keys of the devices that create rooms
  Refused,   \* bodies the content rules or the classifier reject
  Seconds,   \* values of the signed ts field
  MaxPosts,  \* bound: posts minted
  MaxDay,    \* bound: days the clock may advance
  NoReq      \* no request in the slot

VARIABLES
  threads,   \* threads
  posts,     \* posts
  removals,  \* post_removals, the ids in it
  reports,   \* reports, the post ids they name
  rooms,     \* rooms, their origin_thread and creator_thread_pubkey
  actions,   \* moderation_actions, the bodies whose hash is logged
  nonces,    \* request_nonces
  minted,    \* post ids minted so far (in the code, random and unrepeated)
  day,       \* the clock
  pc, req,   \* per worker: the next step of its handler, and its request
  seq,       \* per worker: the seq its INSERT has computed
  date,      \* per worker: today_utc(), as the handler has read it
  unread     \* per worker: rows whose signer_first_seq is still to be read

tables == <<threads, posts, removals, reports, rooms, actions, nonces>>
worker == <<pc, req, seq, date, unread>>
vars == <<tables, minted, day, worker>>

Key == Authors \cup {NoAuthor}

ThreadRequests == [op : {"thread"}, thread : ThreadIds, body : Bodies, key : Key,
                   lifetime : (Nat \ {0}) \cup {Never}]
PostRequests   == [op : {"post"}, thread : ThreadIds, body : Bodies, key : Key]
ListRequests   == [op : {"list"}, thread : ThreadIds]
RoomRequests   == [op : {"room"}, thread : ThreadIds, key : Key, invited : Key,
                   sig : Creators, ts : Seconds]
DeleteRequests == [op : {"delete"}, post : Nat, key : Authors, ts : Seconds]
ReportRequests == [op : {"report"}, post : Nat]

Requests == ThreadRequests \cup PostRequests \cup ListRequests
              \cup RoomRequests \cup DeleteRequests \cup ReportRequests

ASSUME WorkloadAssumption ==
  /\ Workload \subseteq Requests
  /\ NoReq \notin Requests
  /\ Refused \subseteq Bodies /\ IsFiniteSet(Workers)
  /\ MaxPosts \in Nat /\ MaxDay \in Nat

FirstStep == [thread |-> "moderate", post |-> "post_thread", list |-> "list_rows",
              room |-> "room_nonce", delete |-> "delete_nonce",
              report |-> "report_post"]

Init ==
  /\ threads = [t \in ThreadIds |-> NoThread]
  /\ posts = {} /\ removals = {} /\ reports = {} /\ rooms = {}
  /\ actions = {} /\ nonces = {}
  /\ minted = 0
  /\ day = 0
  /\ pc = [w \in Workers |-> "idle"]
  /\ req = [w \in Workers |-> NoReq]
  /\ seq = [w \in Workers |-> 0]
  /\ date = [w \in Workers |-> 0]
  /\ unread = [w \in Workers |-> {}]

-----------------------------------------------------------------------------
(* Plumbing.                                                               *)

Moves(w, step) == pc' = [pc EXCEPT ![w] = step] /\ UNCHANGED <<day, req>>

Goto(w, step) == Moves(w, step) /\ UNCHANGED <<seq, date, unread>>

\* A step that only reads: it goes on when the check holds.
Check(w, holds, step) ==
  /\ IF holds THEN Goto(w, step) ELSE Goto(w, "err")
  /\ UNCHANGED <<tables, minted>>

RecordNonce(w, sig, step) ==
  LET n == <<req[w].op, sig, req[w].ts>> IN
  /\ IF n \in nonces THEN Goto(w, "err") ELSE Goto(w, step)
  /\ nonces' = nonces \cup {n}
  /\ UNCHANGED <<threads, posts, removals, reports, rooms, actions, minted>>

Writing == {w \in Workers : req[w] \in ThreadRequests \cup PostRequests}

\* The request one worker takes up.  A post beyond MaxPosts is not submitted.
Submit(w) ==
  /\ pc[w] = "idle"
  /\ \E r \in Workload :
       /\ r.op \in {"thread", "post"} => minted + Cardinality(Writing) < MaxPosts
       /\ req' = [req EXCEPT ![w] = r]
       /\ pc' = [pc EXCEPT ![w] = FirstStep[r.op]]
  /\ UNCHANGED <<tables, minted, day, seq, date, unread>>

Reply(w) ==
  /\ pc[w] \in {"ok", "err"}
  /\ req' = [req EXCEPT ![w] = NoReq]
  /\ pc' = [pc EXCEPT ![w] = "idle"]
  /\ seq' = [seq EXCEPT ![w] = 0]
  /\ date' = [date EXCEPT ![w] = 0]
  /\ unread' = [unread EXCEPT ![w] = {}]
  /\ UNCHANGED <<tables, minted, day>>

\* The server stops and starts again: requests are lost, rows are not.
Crash ==
  /\ pc' = [w \in Workers |-> "idle"]
  /\ req' = [w \in Workers |-> NoReq]
  /\ seq' = [w \in Workers |-> 0]
  /\ date' = [w \in Workers |-> 0]
  /\ unread' = [w \in Workers |-> {}]
  /\ UNCHANGED <<tables, minted, day>>

Tick ==
  /\ day < MaxDay
  /\ day' = day + 1
  /\ UNCHANGED <<tables, minted, worker>>

-----------------------------------------------------------------------------
(* create_thread and create_post                                           *)

\* The two reads of create_post that find the thread and its board: only the
\* later one decides.
PostThread(w) ==
  /\ pc[w] = "post_thread"
  /\ Check(w, Exists(threads, req[w].thread), "moderate")

\* Variant: without the duplicate rule.
RejectedUnlessRepeated(body) == body \in Refused

Rejected(body) ==
  body \in Refused \/ is_recent_duplicate(posts, body, day)

Moderate(w) ==
  /\ pc[w] = "moderate"
  /\ IF Rejected(req[w].body) THEN Goto(w, "log")
     ELSE Goto(w, IF req[w].op = "thread" THEN "thread_insert" ELSE "post_seq")
  /\ UNCHANGED <<tables, minted>>

LogReject(w) ==
  /\ pc[w] = "log"
  /\ actions' = actions \cup {req[w].body}
  /\ Goto(w, "err")
  /\ UNCHANGED <<threads, posts, removals, reports, rooms, nonces, minted>>

\* Committed before the opening post is written.  Both carry one date.
ThreadInsert(w) ==
  LET r == req[w] IN
  /\ pc[w] = "thread_insert"
  /\ IF Exists(threads, r.thread)
       THEN UNCHANGED threads /\ Goto(w, "err")
       ELSE /\ threads' = [threads EXCEPT ![r.thread] =
                 [there |-> TRUE, created |-> day, count |-> 0,
                  expires |-> IF r.lifetime = Never THEN Never
                              ELSE day + r.lifetime]]
            /\ date' = [date EXCEPT ![w] = day]
            /\ Moves(w, "post_seq")
            /\ UNCHANGED <<seq, unread>>
  /\ UNCHANGED <<posts, removals, reports, rooms, actions, nonces, minted>>

\* INSERT INTO posts computes the seq in the snapshot it starts with ...
PostSeq(w) ==
  /\ pc[w] = "post_seq"
  /\ IF Exists(threads, req[w].thread)
       THEN /\ seq' = [seq EXCEPT ![w] = NextSeq(posts, req[w].thread)]
            /\ date' = [date EXCEPT ![w] = IF req[w].op = "post" THEN day ELSE @]
            /\ Moves(w, "post_insert")
            /\ UNCHANGED unread
       ELSE Goto(w, "err")
  /\ UNCHANGED <<tables, minted>>

NewPost(w) ==
  LET r == req[w] IN
  [id |-> minted, thread |-> r.thread, seq |-> seq[w], body |-> r.body,
   author |-> r.key, day |-> date[w],
   opening |-> r.op = "thread"]

\* Variant: the insert without UNIQUE (thread_id, seq).
InsertTwice(w) ==
  LET r == req[w] p == NewPost(w) IN
  /\ pc[w] = "post_insert"
  /\ posts' = posts \cup {p}
  /\ threads' = Counted(threads, r.thread)
  /\ minted' = minted + 1
  /\ Goto(w, "ok")
  /\ UNCHANGED <<removals, reports, rooms, actions, nonces>>

\* ... and fails when another one has committed that seq since.  Answering
\* create_post involves the author's first seq.
PostInsert(w) ==
  LET r == req[w] p == NewPost(w) IN
  /\ pc[w] = "post_insert"
  /\ IF SeqTaken(posts, r.thread, seq[w])
       THEN Goto(w, "err") /\ UNCHANGED <<posts, threads, minted>>
       ELSE /\ posts' = posts \cup {p}
            /\ threads' = Counted(threads, r.thread)
            /\ minted' = minted + 1
            /\ IF r.op = "post" /\ r.key # NoAuthor
                 THEN /\ unread' = [unread EXCEPT ![w] = {p}]
                      /\ Moves(w, "first_seq")
                      /\ UNCHANGED <<seq, date>>
                 ELSE Goto(w, "ok")
  /\ UNCHANGED <<removals, reports, rooms, actions, nonces>>

-----------------------------------------------------------------------------
(* list_posts                                                              *)

ListRows(w) ==
  /\ pc[w] = "list_rows"
  /\ IF Exists(threads, req[w].thread)
       THEN /\ unread' = [unread EXCEPT ![w] =
                 {p \in PostsIn(posts, req[w].thread) : p.author # NoAuthor}]
            /\ Moves(w, "first_seq")
            /\ UNCHANGED <<seq, date>>
       ELSE Goto(w, "err")
  /\ UNCHANGED <<tables, minted>>

\* One more query for every signed row, in the order of the rows.
FirstSeq(w) ==
  /\ pc[w] = "first_seq"
  /\ IF unread[w] = {} THEN Goto(w, "ok")
     ELSE \E p \in unread[w] :
            /\ \A q \in unread[w] : p.seq <= q.seq
            /\ IF signer_first_seq_fails(posts, p.thread, p.author)
                 THEN Goto(w, "err")
                 ELSE /\ unread' = [unread EXCEPT ![w] = @ \ {p}]
                      /\ Moves(w, "first_seq")
                      /\ UNCHANGED <<seq, date>>
  /\ UNCHANGED <<tables, minted>>

-----------------------------------------------------------------------------
(* delete_post                                                             *)

DeleteNonce(w) ==
  pc[w] = "delete_nonce" /\ RecordNonce(w, req[w].key, "delete_author")

\* Variant: any signed post may be deleted.
DeleteUnowned(w) ==
  /\ pc[w] = "delete_author"
  /\ Check(w, \E p \in posts : p.id = req[w].post /\ p.author # NoAuthor,
           "delete_commit")

DeleteAuthor(w) ==
  /\ pc[w] = "delete_author"
  /\ Check(w, \E p \in posts : p.id = req[w].post /\ p.author = req[w].key,
           "delete_commit")

Scrub(p) == [p EXCEPT !.body = Blank, !.author = NoAuthor]

\* Variant: the row is deleted, not scrubbed.
DeleteRow(w) ==
  LET id == req[w].post IN
  /\ pc[w] = "delete_commit"
  /\ posts' = {p \in posts : p.id # id}
  /\ Goto(w, "ok")
  /\ UNCHANGED <<threads, removals, reports, rooms, actions, nonces, minted>>

\* Variant: the tombstone without the scrub.
TombstoneOnly(w) ==
  /\ pc[w] = "delete_commit"
  /\ removals' = removals \cup {req[w].post}
  /\ Goto(w, "ok")
  /\ UNCHANGED <<threads, posts, reports, rooms, actions, nonces, minted>>

\* The tombstone refers to the post: it fails if the post is gone, and does
\* nothing if the post has one.
DeleteCommit(w) ==
  LET id == req[w].post IN
  /\ pc[w] = "delete_commit"
  /\ IF id \in removals \/ \A p \in posts : p.id # id
       THEN Goto(w, "err") /\ UNCHANGED <<posts, removals>>
       ELSE /\ removals' = removals \cup {id}
            /\ posts' = {IF p.id = id THEN Scrub(p) ELSE p : p \in posts}
            /\ Goto(w, "ok")
  /\ UNCHANGED <<threads, reports, rooms, actions, nonces, minted>>

-----------------------------------------------------------------------------
(* report_post and the creation of a room                                  *)

ReportPost(w) ==
  /\ pc[w] = "report_post"
  /\ Check(w, \E p \in posts : p.id = req[w].post, "report_insert")

\* reports.post_id refers to posts.
ReportInsert(w) ==
  /\ pc[w] = "report_insert"
  /\ IF \E p \in posts : p.id = req[w].post
       THEN reports' = reports \cup {req[w].post} /\ Goto(w, "ok")
       ELSE UNCHANGED reports /\ Goto(w, "err")
  /\ UNCHANGED <<threads, posts, removals, rooms, actions, nonces, minted>>

RoomNonce(w) == pc[w] = "room_nonce" /\ RecordNonce(w, req[w].sig, "room_signed")

SignedIn(t, key) == key = NoAuthor \/ pubkey_signed_in_thread(posts, t, key)

\* The provenance key must have signed in the thread; so must the keys of the
\* allowlist, looked up afterwards.
RoomSigned(w) ==
  /\ pc[w] = "room_signed"
  /\ Check(w, SignedIn(req[w].thread, req[w].key), "room_allowlist")

RoomAllowlist(w) ==
  /\ pc[w] = "room_allowlist"
  /\ Check(w, SignedIn(req[w].thread, req[w].invited), "room_insert")

\* Variant: origin_thread without the foreign key.
RoomUnchecked(w) ==
  LET r == req[w] IN
  /\ pc[w] = "room_insert"
  /\ rooms' = rooms \cup {[origin |-> r.thread, key |-> r.key]}
  /\ Goto(w, "ok")
  /\ UNCHANGED <<threads, posts, removals, reports, actions, nonces, minted>>

\* rooms.origin_thread refers to threads.
RoomInsert(w) ==
  LET r == req[w] IN
  /\ pc[w] = "room_insert"
  /\ IF Exists(threads, r.thread)
       THEN /\ rooms' = rooms \cup {[origin |-> r.thread, key |-> r.key]}
            /\ Goto(w, "ok")
       ELSE UNCHANGED rooms /\ Goto(w, "err")
  /\ UNCHANGED <<threads, posts, removals, reports, actions, nonces, minted>>

-----------------------------------------------------------------------------
\* The sweep's DELETE FROM threads, with what cascades from it.  It waits for
\* the foreign-key lock of an INSERT under way.  (The lock is taken with the
\* INSERT's snapshot here; that leaves out only a thread that is deleted and
\* created again inside one INSERT.)
DeleteDueThreads ==
  LET ts   == DueThreads(threads, day)
      gone == {p.id : p \in {q \in posts : q.thread \in ts}} IN
  /\ ts # {} /\ ~Pinned(rooms, ts)
  /\ \A w \in Workers : pc[w] = "post_insert" => req[w].thread \notin ts
  /\ threads' = DeleteThreads(threads, ts)
  /\ posts' = {p \in posts : p.thread \notin ts}
  /\ removals' = removals \ gone
  /\ reports' = reports \ gone
  /\ UNCHANGED <<rooms, actions, nonces, minted, day, worker>>

Handler(w) ==
  \/ PostThread(w) \/ Moderate(w) \/ LogReject(w)
  \/ ThreadInsert(w) \/ PostSeq(w) \/ PostInsert(w)
  \/ ListRows(w) \/ FirstSeq(w)
  \/ DeleteNonce(w) \/ DeleteAuthor(w) \/ DeleteCommit(w)
  \/ ReportPost(w) \/ ReportInsert(w)
  \/ RoomNonce(w) \/ RoomSigned(w) \/ RoomAllowlist(w) \/ RoomInsert(w)

Next ==
  \/ Tick \/ Crash \/ DeleteDueThreads
  \/ \E w \in Workers : Submit(w) \/ Handler(w) \/ Reply(w)

Spec == Init /\ [][Next]_vars

-----------------------------------------------------------------------------
(* Properties.                                                             *)

\* Types, and that a worker's step belongs to the request it serves.
TypeOK ==
  /\ threads \in [ThreadIds -> ThreadRow]
  /\ posts \subseteq PostRow
  /\ removals \subseteq Nat /\ reports \subseteq Nat
  /\ rooms \subseteq [origin : ThreadIds, key : Key]
  /\ actions \subseteq Bodies
  /\ nonces \subseteq {"room", "delete"} \X (Authors \cup Creators) \X Seconds
  /\ minted \in Nat /\ day \in Nat
  /\ req \in [Workers -> Requests \cup {NoReq}]
  /\ seq \in [Workers -> Nat] /\ date \in [Workers -> Nat]
  /\ unread \in [Workers -> SUBSET PostRow]
  /\ pc \in [Workers -> {"idle", "ok", "err", "post_thread", "moderate", "log",
       "thread_insert", "post_seq", "post_insert", "list_rows", "first_seq",
       "delete_nonce", "delete_author", "delete_commit", "report_post",
       "report_insert", "room_nonce", "room_signed", "room_allowlist",
       "room_insert"}]
  /\ \A w \in Workers :
       /\ pc[w] \in {"moderate", "log", "post_seq", "post_insert"}
            => req[w] \in ThreadRequests \cup PostRequests
       /\ pc[w] = "thread_insert" => req[w] \in ThreadRequests
       /\ pc[w] = "post_thread" => req[w] \in PostRequests
       /\ pc[w] = "list_rows" => req[w] \in ListRequests
       /\ pc[w] \in {"delete_nonce", "delete_author", "delete_commit"}
            => req[w] \in DeleteRequests
       /\ pc[w] \in {"report_post", "report_insert"} => req[w] \in ReportRequests
       /\ pc[w] \in {"room_nonce", "room_signed", "room_allowlist", "room_insert"}
            => req[w] \in RoomRequests

\* Replies that race, authors who delete and sweeps leave every thread
\* numbered 1..post_count without a gap or a repetition: >>N means one post.
ThreadsNumbered ==
  /\ \A t \in ThreadIds :
       {p.seq : p \in PostsIn(posts, t)} = 1..threads[t].count
  /\ \A p, q \in posts :
       p.thread = q.thread /\ p.seq = q.seq => p = q

\* A post keeps its number, date and key for as long as its thread stays: all
\* that may happen to it is to be scrubbed, and that is never undone.
PostsAreStable ==
  [][\A p \in posts :
       threads'[p.thread].there => p \in posts' \/ Scrub(p) \in posts']_vars

\* The content of a post goes only at the request of the key that signed it,
\* though the key is compared in one statement and scrubbed in a later one.
OnlyAuthorDeletes ==
  [][\A p \in posts :
       p.body # Blank /\ Scrub(p) \in posts' =>
         \E w \in Workers : /\ pc[w] = "delete_commit"
                            /\ req[w].post = p.id /\ req[w].key = p.author]_vars

\* A tombstone and a scrubbed row always go together, so that a post which is
\* shown as removed leaves nothing behind in the database.
TombstonesAreScrubbed ==
  removals = {p.id : p \in {q \in posts : q.body = Blank}}

\* No sweep leaves a row behind that refers to a deleted one, whatever posts,
\* reports and rooms are being written while it runs.
ReferencesResolve ==
  LET ids == {p.id : p \in posts} IN
  /\ \A p \in posts : threads[p.thread].there
  /\ removals \cup reports \subseteq ids
  /\ \A r \in rooms : threads[r.origin].there

\* The same text is posted on one day at most once for every request that can
\* be served at the same time, across threads, expiries and deletions: only
\* requests that were all compared before the first of them was inserted repeat
\* one another.
RepeatsBounded ==
  \A b \in Bodies, d \in 0..day :
    Cardinality({p \in posts : p.body = b /\ p.day = d}) <= Cardinality(Workers)

L == INSTANCE ThreadLog WITH
       Thread <- ThreadIds,
       Post <- [body : Bodies, author : Key, day : Nat, opening : BOOLEAN],
       open <- {t \in ThreadIds : threads[t].there},
       log <- [t \in ThreadIds |-> LogOf(threads, posts, t)]

\* To its readers every thread is the log of ThreadLog, though numbers are
\* computed in one statement and taken in a later one, dates are read before
\* that, and deletes and sweeps run in between.
ImplementsThreadLog == L!Spec
=============================================================================
