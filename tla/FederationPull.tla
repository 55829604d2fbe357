--------------------------- MODULE FederationPull ---------------------------
(***************************************************************************)
(* Federation between two servers: the origin, whose posts and takedowns   *)
(* are served as an event stream (federation/route.rs, db/federation.rs),  *)
(* and a peer that pulls them (federation/pull.rs).  A pull is one request *)
(* that the origin answers with two queries, the ingestion of one event    *)
(* after the other, and the save of the cursors.                           *)
(*                                                                         *)
(* Events come from the origin as it sent them: signatures are checked and *)
(* hold.  The peer's moderation may accept or refuse any post, because its *)
(* verdict depends on what else that server holds.  Lifetimes and threads  *)
(* are in PublicBoard; here a thread is what its posts have in common.     *)
(***************************************************************************)
EXTENDS Integers, FiniteSets

CONSTANTS
  Ids,        \* the origin's post ids: random bytes, ordered by the database
  Signed,     \* those of them that are signed with a thread key
  ThreadOf,   \* the thread each of them is posted in
  NoCursor,   \* a cursor that is absent: everything is still to come
  NoPeer,     \* no row in federation_peers
  PageLimit,  \* EVENTS_PAGE_LIMIT
  Horizon,    \* pull_horizon_days
  CopyDays,   \* boards.retention_days on the pulling server
  MaxCopies,  \* bound: rows inserted by the pull worker
  MaxDay      \* bound: days the clock may advance

PostRow    == [id : Ids, day : Nat, at : Nat, blank : BOOLEAN]
RemovalRow == [id : Ids, day : Nat, at : Nat]      \* `at`, in both, is history:
                                                   \* the day it was committed
DraftRow   == [id : Ids, day : Nat]
CopyRow    == [local : Nat, id : Ids, day : Nat, blank : BOOLEAN]

Position == [day : Int, id : Nat]
Cursor   == Position \cup {NoCursor}
Cursors  == [post : Cursor, removal : Cursor]
Inbox    == [posts : SUBSET PostRow, removals : SUBSET RemovalRow]
PeerRow  == [enabled : BOOLEAN, cursors : Cursors]

ASSUME FederationAssumption ==
  /\ NoCursor \notin Position /\ NoPeer \notin PeerRow
  /\ Ids \subseteq Nat \ {0} /\ IsFiniteSet(Ids)
  /\ Signed \subseteq Ids
  /\ PageLimit \in Nat \ {0}
  /\ Horizon \in Nat /\ CopyDays \in Nat
  /\ MaxCopies \in Nat /\ MaxDay \in Nat

VARIABLES
  day,       \* the date on both servers
  used,      \* the origin: ids given to posts so far
  drafts,    \* the origin: posts about to be inserted, with the date they carry
  deletions, \* the origin: author deletes about to be committed, likewise
  posts,     \* the origin: posts
  removals,  \* the origin: post_removals
  peer,      \* the puller: its federation_peers row for the origin
  copies,    \* the puller: posts that came from the origin
  hidden,    \* the puller: post_removals, the local ids in it
  minted,    \* the puller: local ids minted so far
  pc,        \* the pull worker: what it does next
  inbox,     \* the pull worker: events received and not yet applied
  next_cursor, \* the pull worker: the cursors it will save
  delivered, \* history: posts whose ingestion has ended, however
  heard,     \* history: takedowns whose ingestion has ended, however
  told       \* history: takedowns among them that were applied without an error

origin == <<used, drafts, deletions, posts, removals>>
puller == <<peer, copies, hidden, minted>>
worker == <<pc, inbox, next_cursor>>
history == <<delivered, heard, told>>
vars == <<day, origin, puller, worker, history>>

-----------------------------------------------------------------------------
(* Cursors.  Days are numbers; ids compare as the database compares bytes. *)

PositionOf(e) == [day |-> e.day, id |-> e.id]

Positions(rows) == {PositionOf(e) : e \in rows}

\* (a.created_at, a.id) < (b.created_at, b.id)
Precedes(a, b) == a.day < b.day \/ (a.day = b.day /\ a.id < b.id)

After(cursor, e) == cursor = NoCursor \/ Precedes(cursor, e)

Later(rows, cursor) == {e \in rows : After(cursor, e)}

\* ORDER BY created_at, id LIMIT page_limit
IsPage(page, rows, cursor) ==
  /\ \A e \in page, f \in Later(rows, cursor) \ page : Precedes(e, f)
  /\ Cardinality(page) <= PageLimit
  /\ Cardinality(page) < PageLimit => page = Later(rows, cursor)

IsFirst(e, rows) == \A f \in rows : ~Precedes(f, e)
IsLast(e, rows)  == \A f \in rows : ~Precedes(e, f)

\* The position of the page's last event; the old cursor if there is none.
IsNextCursor(new, page, old) ==
  \/ page = {} /\ new = old
  \/ \E e \in page : IsLast(e, page) /\ new = PositionOf(e)

\* A synthetic position older than every event of the horizon's first day.
backfill_cursor ==
  IF Horizon = 0 THEN NoCursor ELSE [day |-> day - Horizon, id |-> 0]

NoCursors == [post |-> NoCursor, removal |-> NoCursor]
NoEvents  == [posts |-> {}, removals |-> {}]

Init ==
  /\ day = 0
  /\ used = {} /\ drafts = {} /\ deletions = {} /\ posts = {} /\ removals = {}
  /\ peer = NoPeer
  /\ copies = {} /\ hidden = {} /\ minted = 0
  /\ pc = "asleep" /\ inbox = NoEvents /\ next_cursor = NoCursors
  /\ delivered = {} /\ heard = {} /\ told = {}

-----------------------------------------------------------------------------
(* The origin.  A handler reads today_utc() before its statement runs.     *)

Tick ==
  /\ day < MaxDay
  /\ day' = day + 1
  /\ UNCHANGED <<origin, puller, worker, history>>

BeginPost(i) ==
  /\ i \notin used
  /\ used' = used \cup {i}
  /\ drafts' = drafts \cup {[id |-> i, day |-> day]}
  /\ UNCHANGED <<day, deletions, posts, removals, puller, worker, history>>

InsertPost(d) ==
  /\ drafts' = drafts \ {d}
  /\ posts' = posts \cup
       {[id |-> d.id, day |-> d.day, at |-> day, blank |-> FALSE]}
  /\ UNCHANGED <<day, used, deletions, removals, puller, worker, history>>

BeginDelete(p) ==
  /\ p.id \in Signed /\ ~p.blank
  /\ deletions' = deletions \cup {[id |-> p.id, day |-> day]}
  /\ UNCHANGED <<day, used, drafts, posts, removals, puller, worker, history>>

Blanked(p) == [p EXCEPT !.blank = TRUE]

\* The tombstone and the scrub are one transaction.
CommitDelete(d) ==
  /\ deletions' = deletions \ {d}
  /\ IF (\E p \in posts : p.id = d.id) /\ \A r \in removals : r.id # d.id
       THEN /\ removals' = removals \cup
                 {[id |-> d.id, day |-> d.day, at |-> day]}
            /\ posts' = {IF p.id = d.id THEN Blanked(p) ELSE p : p \in posts}
       ELSE UNCHANGED <<posts, removals>>
  /\ UNCHANGED <<day, used, drafts, puller, worker, history>>

In(t, e) == ThreadOf[e.id] = t

\* The sweep takes a thread of an earlier day with everything in it.
ExpireThread(t) ==
  /\ \E p \in posts : In(t, p) /\ p.day < day
  /\ posts' = {p \in posts : ~In(t, p)}
  /\ removals' = {r \in removals : ~In(t, r)}
  /\ drafts' = {d \in drafts : ~In(t, d)}
  /\ UNCHANGED <<day, used, deletions, puller, worker, history>>

-----------------------------------------------------------------------------
(* The puller's operator, its authors and its sweep.                       *)

Registered == [enabled |-> TRUE, cursors |-> [post    |-> backfill_cursor,
                                               removal |-> backfill_cursor]]

\* Variant: ON CONFLICT also takes the new row's cursor.
AddPeerAfresh ==
  /\ peer' = Registered
  /\ UNCHANGED <<day, origin, copies, hidden, minted, worker, history>>

AddPeer ==
  /\ peer' = IF peer = NoPeer THEN Registered
             ELSE [peer EXCEPT !.enabled = TRUE]
  /\ UNCHANGED <<day, origin, copies, hidden, minted, worker, history>>

set_enabled ==
  /\ peer # NoPeer
  /\ \E enabled \in BOOLEAN : peer' = [peer EXCEPT !.enabled = enabled]
  /\ UNCHANGED <<day, origin, copies, hidden, minted, worker, history>>

\* The author of a copied post deletes the copy.
DeleteCopy(c) ==
  /\ c.id \in Signed /\ ~c.blank /\ c.local \notin hidden
  /\ hidden' = hidden \cup {c.local}
  /\ copies' = {IF d = c THEN Blanked(d) ELSE d : d \in copies}
  /\ UNCHANGED <<day, origin, peer, minted, worker, history>>

SweepCopies(t) ==
  /\ \E c \in copies : In(t, c) /\ c.day + CopyDays < day
  /\ copies' = {c \in copies : ~In(t, c)}
  /\ hidden' = hidden \ {c.local : c \in {d \in copies : In(t, d)}}
  /\ UNCHANGED <<day, origin, peer, minted, worker, history>>

-----------------------------------------------------------------------------
(* The pull worker: run_once for this peer.                                *)

\* The peers and their cursors are read once, at the head of the cycle.
Wake ==
  /\ pc = "asleep"
  /\ peer # NoPeer /\ peer.enabled
  /\ pc' = "fetch"
  /\ next_cursor' = peer.cursors
  /\ UNCHANGED <<day, origin, puller, inbox, history>>

\* The origin answers with two queries, posts first.
ReadPosts ==
  /\ pc = "fetch"
  /\ pc' = "fetch_removals"
  /\ \E page \in SUBSET Later(posts, next_cursor.post) :
       /\ IsPage(page, posts, next_cursor.post)
       /\ inbox' = [inbox EXCEPT !.posts = page]
       /\ \E c \in Positions(page) \cup {next_cursor.post} :
            /\ IsNextCursor(c, page, next_cursor.post)
            /\ next_cursor' = [next_cursor EXCEPT !.post = c]
  /\ UNCHANGED <<day, origin, puller, history>>

ReadRemovals ==
  /\ pc = "fetch_removals"
  /\ pc' = "apply"
  /\ \E page \in SUBSET Later(removals, next_cursor.removal) :
       /\ IsPage(page, removals, next_cursor.removal)
       /\ inbox' = [inbox EXCEPT !.removals = page]
       /\ \E c \in Positions(page) \cup {next_cursor.removal} :
            /\ IsNextCursor(c, page, next_cursor.removal)
            /\ next_cursor' = [next_cursor EXCEPT !.removal = c]
  /\ UNCHANGED <<day, origin, puller, history>>

Sleep == pc' = "asleep" /\ inbox' = NoEvents /\ next_cursor' = NoCursors

\* No answer, or one that is refused as a whole.
FetchFails ==
  /\ pc \in {"fetch", "fetch_removals"}
  /\ Sleep
  /\ UNCHANGED <<day, origin, puller, history>>

CopyOf(p) == [local |-> minted, id |-> p.id, day |-> p.day, blank |-> p.blank]

\* Variant: without ON CONFLICT (origin_server_id, origin_post_id).
insert_unconditionally(p) ==
  /\ copies' = copies \cup {CopyOf(p)}
  /\ minted' = minted + 1

insert_federated(p) ==
  IF \E c \in copies : c.id = p.id
    THEN UNCHANGED <<copies, minted>>
    ELSE /\ copies' = copies \cup {CopyOf(p)}
         /\ minted' = minted + 1

PostIngested(p) ==
  /\ pc = "apply" /\ p \in inbox.posts /\ IsFirst(p, inbox.posts)
  /\ inbox' = [inbox EXCEPT !.posts = @ \ {p}]
  /\ delivered' = delivered \cup {p.id}
  /\ UNCHANGED <<day, origin, peer, hidden, pc, next_cursor, heard, told>>

CopyPost(p) ==
  /\ minted < MaxCopies
  /\ PostIngested(p)
  /\ insert_federated(p)

\* Refused by moderation, or failed; the worker goes on with the next event.
SkipPost(p) == PostIngested(p) /\ UNCHANGED <<copies, minted>>

RemovalIngested(r) ==
  /\ r \in inbox.removals /\ IsFirst(r, inbox.removals)
  /\ inbox' = [inbox EXCEPT !.removals = @ \ {r}]
  /\ heard' = heard \cup {r.id}
  /\ UNCHANGED <<day, origin, peer, copies, minted, pc, next_cursor, delivered>>

\* Variant: takedowns are applied before the posts.
ApplyRemovalFirst(r) ==
  /\ pc = "apply"
  /\ RemovalIngested(r)
  /\ hidden' = hidden \cup {c.local : c \in {d \in copies : d.id = r.id}}
  /\ told' = told \cup {r.id}

\* Posts come first, so that a takedown finds the copy made from the same
\* answer.  A takedown that finds none is dropped.
ApplyRemoval(r) ==
  /\ pc = "apply" /\ inbox.posts = {}
  /\ RemovalIngested(r)
  /\ hidden' = hidden \cup {c.local : c \in {d \in copies : d.id = r.id}}
  /\ told' = told \cup {r.id}

FailRemoval(r) ==
  /\ pc = "apply" /\ inbox.posts = {}
  /\ RemovalIngested(r)
  /\ UNCHANGED <<hidden, told>>

\* Variant: the cursors are saved as soon as the answer is there.
SaveCursorEarly ==
  /\ pc = "apply"
  /\ peer' = [peer EXCEPT !.cursors = next_cursor]
  /\ Sleep
  /\ UNCHANGED <<day, origin, copies, hidden, minted, history>>

SaveCursor ==
  /\ pc = "apply" /\ inbox = NoEvents
  /\ peer' = [peer EXCEPT !.cursors = next_cursor]
  /\ Sleep
  /\ UNCHANGED <<day, origin, copies, hidden, minted, history>>

\* The puller stops and starts again.
Crash ==
  /\ pc # "asleep"
  /\ Sleep
  /\ UNCHANGED <<day, origin, puller, history>>

Origin ==
  \/ \E i \in Ids : BeginPost(i)
  \/ \E d \in drafts : InsertPost(d)
  \/ \E p \in posts : BeginDelete(p)
  \/ \E d \in deletions : CommitDelete(d)
  \/ \E i \in Ids : ExpireThread(ThreadOf[i])

Puller ==
  \/ AddPeer \/ set_enabled
  \/ \E c \in copies : DeleteCopy(c)
  \/ \E i \in Ids : SweepCopies(ThreadOf[i])

Ingest ==
  \/ \E p \in inbox.posts : CopyPost(p) \/ SkipPost(p)
  \/ \E r \in inbox.removals : ApplyRemoval(r) \/ FailRemoval(r)

Pull == Wake \/ ReadPosts \/ ReadRemovals \/ FetchFails \/ Ingest \/ SaveCursor

Next == Tick \/ Origin \/ Puller \/ Pull \/ Crash

Spec == Init /\ [][Next]_vars

-----------------------------------------------------------------------------
(* Properties.                                                             *)

\* Types, and that a worker which is busy has a row to save its cursors in.
TypeOK ==
  /\ day \in Nat
  /\ used \subseteq Ids
  /\ drafts \subseteq DraftRow /\ deletions \subseteq DraftRow
  /\ posts \subseteq PostRow /\ removals \subseteq RemovalRow
  /\ peer \in PeerRow \cup {NoPeer}
  /\ copies \subseteq CopyRow /\ hidden \subseteq Nat /\ minted \in Nat
  /\ pc \in {"asleep", "fetch", "fetch_removals", "apply"}
  /\ inbox \in Inbox
  /\ next_cursor \in Cursors
  /\ delivered \subseteq Ids /\ heard \subseteq Ids /\ told \subseteq Ids
  /\ peer = NoPeer => pc = "asleep"

\* A post of the origin has one copy at most, although a crash between the
\* ingestion and the save of the cursor makes the peer send it again.
OneCopyEach == \A c, d \in copies : c.id = d.id => c = d

\* What a takedown was about is not shown: the copy has lost its content or has
\* its tombstone, in whatever order the two streams brought post and takedown.
RemovedStaysHidden ==
  \A c \in copies : c.id \in told /\ ~c.blank => c.local \in hidden

NotBefore(new, old) ==
  old = NoCursor \/ (new # NoCursor /\ ~Precedes(new, old))

\* No crash, retry, defederation or second registration of a peer moves its
\* cursors back.
CursorsOnlyAdvance ==
  [][peer # NoPeer /\ peer' # peer =>
       /\ peer' # NoPeer
       /\ NotBefore(peer'.cursors.post, peer.cursors.post)
       /\ NotBefore(peer'.cursors.removal, peer.cursors.removal)]_vars

\* A cursor passes nothing of an earlier day by: what lies between its old and
\* its new position has been ingested, or was committed on the day of the new
\* position or later, when the answer had been read.
PassesOnly(rows, arrived, old, new) ==
  \A e \in rows :
    After(old, e) /\ ~After(new, e) => e.id \in arrived \/ e.at >= new.day

EarlierDaysArrive ==
  [][peer # NoPeer /\ peer' # peer =>
       /\ PassesOnly(posts, delivered, peer.cursors.post, peer'.cursors.post)
       /\ PassesOnly(removals, heard,
                     peer.cursors.removal, peer'.cursors.removal)]_vars

\* A copy shows its content unless it was blanked or has a tombstone.
Shows(tombstones, c) == ~c.blank /\ c.local \notin tombstones

Shown(rows, tombstones) == {c.id : c \in {d \in rows : Shows(tombstones, d)}}

Withheld(rows, tombstones) ==
  {c.id : c \in {d \in rows : ~Shows(tombstones, d)}}

R == INSTANCE Replica WITH
       Post <- Ids,
       shown <- Shown(copies, hidden), withheld <- Withheld(copies, hidden)

\* To its readers the peer is a Replica, though posts and takedowns come in two
\* streams that are read one after the other, are sent again after a crash, and
\* are dropped by the sweeps of both servers.
ImplementsReplica == R!Spec

-----------------------------------------------------------------------------
(* A statement of the source that the code does not keep.                  *)

\* "ordered by (created_at|removed_at, id) so peers can resume from a stable
\* cursor": ids are random, and a post inserted later on the cursor's day with
\* a smaller id lies behind the cursor for good.  (For a peer that pulls the
\* full history.)
NothingBehindTheCursor ==
  peer # NoPeer =>
    \A p \in posts : After(peer.cursors.post, p) \/ p.id \in delivered
=============================================================================
