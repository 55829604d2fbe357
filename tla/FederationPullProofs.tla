------------------------ MODULE FederationPullProofs ------------------------
(***************************************************************************)
(* Theorems about FederationPull for every set of post ids, every page     *)
(* limit, horizon and retention age.                                       *)
(***************************************************************************)
EXTENDS FederationPull, TLAPS

\* What the proofs need of the constants.
LEMMA ConstantTypes ==
  /\ Ids \subseteq Nat /\ Horizon \in Nat /\ CopyDays \in Nat
  /\ Signed \subseteq Ids
  /\ NoCursor \notin Position /\ NoPeer \notin PeerRow
BY FederationAssumption

-----------------------------------------------------------------------------
(* Types.                                                                  *)

\* The position of a row is a cursor.
LEMMA PositionType ==
  ASSUME NEW e, e.id \in Nat, e.day \in Int
  PROVE  PositionOf(e) \in Position
BY DEF PositionOf, Position

\* An answer replaces one field of the inbox, and one of the cursors.
LEMMA AnswerType ==
  ASSUME NEW b \in Inbox, NEW n \in Cursors, NEW c \in Cursor,
         NEW ps \in SUBSET PostRow, NEW rs \in SUBSET RemovalRow
  PROVE  /\ [b EXCEPT !.posts = ps] \in Inbox
         /\ [b EXCEPT !.removals = rs] \in Inbox
         /\ [n EXCEPT !.post = c] \in Cursors
         /\ [n EXCEPT !.removal = c] \in Cursors
BY DEF Inbox, Cursors

\* A row has a day and an id, which are numbers.
LEMMA RowFields ==
  /\ \A e \in PostRow : e.id \in Nat /\ e.day \in Int
  /\ \A e \in RemovalRow : e.id \in Nat /\ e.day \in Int
<1>1. \A e \in PostRow : e.id \in Ids /\ e.day \in Nat
  BY DEF PostRow
<1>2. \A e \in RemovalRow : e.id \in Ids /\ e.day \in Nat
  BY DEF RemovalRow
<1>3. Ids \subseteq Nat /\ Nat \subseteq Int
  BY ConstantTypes
<1>4. QED BY ONLY <1>1, <1>2, <1>3

\* The worker's two reads keep the types.
LEMMA ReadsType ==
  ASSUME TypeOK, ReadPosts \/ ReadRemovals
  PROVE  TypeOK'
<1>1. /\ posts \in SUBSET PostRow /\ removals \in SUBSET RemovalRow
      /\ inbox \in Inbox /\ next_cursor \in Cursors
  BY DEF TypeOK
<1>2. CASE ReadPosts
  <2>0. PICK page \in SUBSET Later(posts, next_cursor.post) :
          /\ inbox' = [inbox EXCEPT !.posts = page]
          /\ \E c \in Positions(page) \cup {next_cursor.post} :
               next_cursor' = [next_cursor EXCEPT !.post = c]
    BY <1>2 DEF ReadPosts
  <2>1. PICK c \in Positions(page) \cup {next_cursor.post} :
          next_cursor' = [next_cursor EXCEPT !.post = c]
    BY <2>0
  <2>2. page \in SUBSET PostRow
    BY <1>1 DEF Later
  <2>3. c \in Cursor
    <3>1. next_cursor.post \in Cursor
      BY <1>1 DEF Cursors
    <3>2. \A e \in page : PositionOf(e) \in Position
      BY <2>2, RowFields, PositionType
    <3>3. QED BY <3>1, <3>2 DEF Positions, Cursor
  <2>4. inbox' \in Inbox
    BY <1>1, <2>0, <2>2 DEF Inbox
  <2>5. next_cursor' \in Cursors
    BY <1>1, <2>1, <2>3, AnswerType
  <2>6. QED
    BY <1>2, <2>4, <2>5
    DEF ReadPosts, TypeOK, vars, origin, puller, worker, history
<1>3. CASE ReadRemovals
  <2>0. PICK page \in SUBSET Later(removals, next_cursor.removal) :
          /\ inbox' = [inbox EXCEPT !.removals = page]
          /\ \E c \in Positions(page) \cup {next_cursor.removal} :
               next_cursor' = [next_cursor EXCEPT !.removal = c]
    BY <1>3 DEF ReadRemovals
  <2>1. PICK c \in Positions(page) \cup {next_cursor.removal} :
          next_cursor' = [next_cursor EXCEPT !.removal = c]
    BY <2>0
  <2>2. page \in SUBSET RemovalRow
    BY <1>1 DEF Later
  <2>3. c \in Cursor
    <3>1. next_cursor.removal \in Cursor
      BY <1>1 DEF Cursors
    <3>2. \A e \in page : PositionOf(e) \in Position
      BY <2>2, RowFields, PositionType
    <3>3. QED BY <3>1, <3>2 DEF Positions, Cursor
  <2>4. inbox' \in Inbox
    BY <1>1, <2>0, <2>2 DEF Inbox
  <2>5. next_cursor' \in Cursors
    BY <1>1, <2>1, <2>3, AnswerType
  <2>6. QED
    BY <1>3, <2>4, <2>5
    DEF ReadRemovals, TypeOK, vars, origin, puller, worker, history
<1>4. QED BY <1>2, <1>3

\* The state the worker sleeps in is well typed.
LEMMA AsleepType ==
  /\ NoEvents \in Inbox
  /\ NoCursors \in Cursors
BY DEF NoEvents, NoCursors, Cursors, Cursor, Inbox

\* Every step keeps the types.
LEMMA TypeStep ==
  ASSUME TypeOK, [Next]_vars
  PROVE  TypeOK'
<1> USE DEF TypeOK, vars, origin, puller, worker, history
<1>1. CASE Tick
  BY <1>1 DEF Tick
<1>2. ASSUME NEW i \in Ids, BeginPost(i) PROVE TypeOK'
  BY <1>2 DEF BeginPost, DraftRow
<1>3. ASSUME NEW d \in drafts, InsertPost(d) PROVE TypeOK'
  <2>1. d.id \in Ids /\ d.day \in Nat
    BY <1>3 DEF DraftRow
  <2>2. [id |-> d.id, day |-> d.day, at |-> day, blank |-> FALSE] \in PostRow
    BY <2>1 DEF PostRow
  <2>3. QED BY <1>3, <2>2 DEF InsertPost
<1>4. ASSUME NEW p \in posts, BeginDelete(p) PROVE TypeOK'
  BY <1>4 DEF BeginDelete, DraftRow, PostRow
<1>5. ASSUME NEW d \in deletions, CommitDelete(d) PROVE TypeOK'
  <2>1. \A p \in PostRow : Blanked(p) \in PostRow
    BY DEF Blanked, PostRow
  <2>2. posts' \subseteq PostRow
    BY <1>5, <2>1 DEF CommitDelete
  <2>3. removals' \subseteq RemovalRow
    BY <1>5 DEF CommitDelete, DraftRow, RemovalRow
  <2>4. QED BY <1>5, <2>2, <2>3 DEF CommitDelete
<1>6. ASSUME NEW i \in Ids, ExpireThread(ThreadOf[i]) PROVE TypeOK'
  BY <1>6 DEF ExpireThread
<1>7. CASE AddPeer
  <2>1. Registered \in PeerRow
    BY ConstantTypes DEF Registered, backfill_cursor, PeerRow, Cursors, Cursor, Position
  <2>2. peer' \in PeerRow
    BY <1>7, <2>1 DEF AddPeer, PeerRow
  <2>3. QED BY <1>7, <2>2, ConstantTypes DEF AddPeer
<1>8. CASE set_enabled
  <2>1. peer' \in PeerRow
    BY <1>8 DEF set_enabled, PeerRow
  <2>2. QED BY <1>8, <2>1, ConstantTypes DEF set_enabled
<1>9. ASSUME NEW c \in copies, DeleteCopy(c) PROVE TypeOK'
  <2>1. \A d \in CopyRow : Blanked(d) \in CopyRow /\ d.local \in Nat
    BY DEF Blanked, CopyRow
  <2>2. QED BY <1>9, <2>1 DEF DeleteCopy
<1>10. ASSUME NEW i \in Ids, SweepCopies(ThreadOf[i]) PROVE TypeOK'
  BY <1>10 DEF SweepCopies
<1>11. CASE Wake
  BY <1>11 DEF Wake, PeerRow
<1>12. CASE ReadPosts \/ ReadRemovals
  BY <1>12, ReadsType
<1>13. CASE FetchFails \/ Crash
  BY <1>13, AsleepType DEF FetchFails, Crash, Sleep
<1>14. ASSUME NEW p \in inbox.posts, CopyPost(p) \/ SkipPost(p) PROVE TypeOK'
  <2>1. p \in PostRow /\ p.id \in Ids
    BY DEF PostRow, Inbox
  <2>2. CopyOf(p) \in CopyRow
    BY <2>1 DEF CopyOf, CopyRow, PostRow
  <2>3. copies' \subseteq CopyRow /\ minted' \in Nat
    BY <1>14, <2>2 DEF CopyPost, SkipPost, insert_federated
  <2>4. QED BY <1>14, <2>1, <2>3 DEF CopyPost, SkipPost, PostIngested, Inbox
<1>15. ASSUME NEW r \in inbox.removals, ApplyRemoval(r) \/ FailRemoval(r)
       PROVE  TypeOK'
  <2>1. r.id \in Ids
    BY DEF RemovalRow, Inbox
  <2>2. hidden' \subseteq Nat
    <3>1. \A c \in copies : c.local \in Nat
      BY DEF CopyRow
    <3>2. {c.local : c \in {d \in copies : d.id = r.id}} \subseteq Nat
      BY <3>1
    <3>3. \/ hidden' = hidden
          \/ hidden' = hidden \cup
                         {c.local : c \in {d \in copies : d.id = r.id}}
      BY <1>15 DEF ApplyRemoval, FailRemoval
    <3>4. QED BY <3>2, <3>3
  <2>3. inbox' \in Inbox
    BY <1>15, AnswerType DEF ApplyRemoval, FailRemoval, RemovalIngested, Inbox
  <2>4. QED BY <1>15, <2>1, <2>2, <2>3 DEF ApplyRemoval, FailRemoval, RemovalIngested
<1>16. CASE SaveCursor
  <2>1. peer' \in PeerRow
    BY <1>16 DEF SaveCursor, PeerRow
  <2>2. QED BY <1>16, <2>1, AsleepType DEF SaveCursor, Sleep
<1>17. CASE UNCHANGED vars
  BY <1>17
<1>18. QED
  BY <1>1, <1>2, <1>3, <1>4, <1>5, <1>6, <1>7, <1>8, <1>9, <1>10, <1>11, <1>12,
     <1>13, <1>14, <1>15, <1>16, <1>17 DEF Next, Origin, Puller, Pull, Ingest

\* Every reachable state is well typed, and a busy worker has a peer's row.
THEOREM TypeCorrect == Spec => []TypeOK
<1>1. Init => TypeOK
  BY AsleepType DEF Init, TypeOK
<1>2. QED BY <1>1, TypeStep, PTL DEF Spec

-----------------------------------------------------------------------------
(* One copy of each post.  The step that could make a second is the        *)
(* ingestion of a post that an earlier pull had ingested already; local    *)
(* ids are told apart because the counter is ahead of all of them.         *)

CopiesInv ==
  /\ \A c \in copies : c.local < minted
  /\ \A c, d \in copies : c.local = d.local => c = d
  /\ OneCopyEach

\* The set of copies changes in three ways only.
LEMMA CopiesChange ==
  ASSUME TypeOK, [Next]_vars
  PROVE  \/ copies' = copies /\ minted' = minted
         \/ \E c \in copies : DeleteCopy(c)
         \/ \E i \in Ids : SweepCopies(ThreadOf[i])
         \/ \E p \in inbox.posts : CopyPost(p) /\ \A c \in copies : c.id # p.id
<1> USE DEF vars, puller, origin, worker
<1>1. CASE Tick \/ Origin
  BY <1>1 DEF Tick, Origin, BeginPost, InsertPost, BeginDelete, CommitDelete,
              ExpireThread
<1>2. CASE AddPeer \/ set_enabled
  BY <1>2 DEF AddPeer, set_enabled
<1>3. CASE Wake \/ ReadPosts \/ ReadRemovals \/ FetchFails \/ SaveCursor \/ Crash
  BY <1>3 DEF Wake, ReadPosts, ReadRemovals, FetchFails, SaveCursor, Crash
<1>4. ASSUME NEW p \in inbox.posts, CopyPost(p)
      PROVE  \/ copies' = copies /\ minted' = minted
             \/ CopyPost(p) /\ \A c \in copies : c.id # p.id
  BY <1>4 DEF CopyPost, insert_federated
<1>5. ASSUME NEW p \in inbox.posts, SkipPost(p)
      PROVE  copies' = copies /\ minted' = minted
  BY <1>5 DEF SkipPost
<1>6. ASSUME NEW r \in inbox.removals, ApplyRemoval(r) \/ FailRemoval(r)
      PROVE  copies' = copies /\ minted' = minted
  BY <1>6 DEF ApplyRemoval, FailRemoval, RemovalIngested
<1>7. CASE UNCHANGED vars
  BY <1>7
<1>8. QED
  BY <1>1, <1>2, <1>3, <1>4, <1>5, <1>6, <1>7 DEF Next, Puller, Pull, Ingest

LEMMA CopiesStep ==
  ASSUME TypeOK, CopiesInv, [Next]_vars
  PROVE  CopiesInv'
<1> USE DEF CopiesInv, OneCopyEach
<1>1. CASE copies' = copies /\ minted' = minted
  BY <1>1
<1>2. ASSUME NEW c \in copies, DeleteCopy(c) PROVE CopiesInv'
  <2>1. \A d \in copies : /\ Blanked(d).local = d.local
                          /\ Blanked(d).id = d.id
    BY DEF TypeOK, CopyRow, Blanked
  <2>2. copies' = {IF d = c THEN Blanked(d) ELSE d : d \in copies}
    BY <1>2 DEF DeleteCopy
  <2>3. minted' = minted
    BY <1>2 DEF DeleteCopy
  <2>4. QED BY <2>1, <2>2, <2>3
<1>3. ASSUME NEW i \in Ids, SweepCopies(ThreadOf[i]) PROVE CopiesInv'
  BY <1>3 DEF SweepCopies
<1>4. ASSUME NEW p \in inbox.posts, CopyPost(p), \A c \in copies : c.id # p.id
      PROVE  CopiesInv'
  <2>1. copies' = copies \cup {CopyOf(p)} /\ minted' = minted + 1
    BY <1>4 DEF CopyPost, insert_federated
  <2>2. CopyOf(p).local = minted /\ CopyOf(p).id = p.id
    BY DEF CopyOf
  <2>3. minted \in Nat /\ \A c \in copies : c.local \in Nat
    BY DEF TypeOK, CopyRow
  <2>4. \A c \in copies' : c.local < minted'
    BY <2>1, <2>2, <2>3
  <2>5. \A c, d \in copies' : c.local = d.local => c = d
    BY <2>1, <2>2, <2>3
  <2>6. OneCopyEach'
    BY <1>4, <2>1, <2>2
  <2>7. QED BY <2>4, <2>5, <2>6
<1>5. QED BY <1>1, <1>2, <1>3, <1>4, CopiesChange

\* However often the same events are pulled, the peer keeps one copy of a post.
THEOREM OneCopyEachHolds == Spec => []OneCopyEach
<1>1. Init => CopiesInv
  BY DEF Init, CopiesInv, OneCopyEach
<1>2. TypeOK /\ CopiesInv /\ [Next]_vars => CopiesInv'
  BY CopiesStep
<1>3. CopiesInv => OneCopyEach
  BY DEF CopiesInv
<1>4. QED BY <1>1, <1>2, <1>3, TypeCorrect, PTL DEF Spec

-----------------------------------------------------------------------------
(* What is taken down stays hidden.  By itself the property is not         *)
(* inductive: the post could arrive after its takedown, with its content.  *)
(* It cannot, because a takedown exists only once no row of the post and   *)
(* no row about to be inserted has content (Gone), and because the worker  *)
(* reads posts first and applies posts first (InboxInv).                   *)

OriginInv ==
  /\ \A d \in drafts : d.id \in used
  /\ \A p \in posts : p.id \in used
  /\ \A d, e \in drafts : d.id = e.id => d = e
  /\ \A d \in drafts, p \in posts : d.id # p.id

Gone(i) ==
  /\ i \in used
  /\ \A d \in drafts : d.id # i
  /\ \A p \in posts : p.id = i => p.blank

GoneInv ==
  /\ \A r \in removals : Gone(r.id)
  /\ \A r \in inbox.removals : Gone(r.id)
  /\ \A i \in told : Gone(i)

InboxInv ==
  /\ pc \in {"asleep", "fetch"} => inbox = NoEvents
  /\ pc = "fetch_removals" => inbox.removals = {}
  /\ \A p \in inbox.posts : p.id \in told => p.blank

\* The origin's rows change in five ways, and the worker in none of them.
LEMMA OriginChange ==
  ASSUME [Next]_vars
  PROVE  \/ UNCHANGED <<used, drafts, posts, removals>>
         \/ /\ UNCHANGED <<worker, told>>
            /\ \/ \E i \in Ids : BeginPost(i)
               \/ \E d \in drafts : InsertPost(d)
               \/ \E d \in deletions : CommitDelete(d)
               \/ \E i \in Ids : ExpireThread(ThreadOf[i])
<1> USE DEF vars, origin
<1>1. CASE Tick
  BY <1>1 DEF Tick
<1>2. CASE Origin
  BY <1>2 DEF Origin, BeginPost, InsertPost, BeginDelete, CommitDelete,
              ExpireThread, worker, history
<1>3. CASE Puller
  BY <1>3 DEF Puller, AddPeer, set_enabled, DeleteCopy, SweepCopies
<1>4. CASE Wake \/ ReadPosts \/ ReadRemovals \/ FetchFails \/ SaveCursor \/ Crash
  BY <1>4 DEF Wake, ReadPosts, ReadRemovals, FetchFails, SaveCursor, Crash
<1>5. CASE Ingest
  BY <1>5 DEF Ingest, CopyPost, SkipPost, PostIngested, ApplyRemoval,
              FailRemoval, RemovalIngested
<1>6. CASE UNCHANGED vars
  BY <1>6
<1>7. QED BY <1>1, <1>2, <1>3, <1>4, <1>5, <1>6 DEF Next, Pull

\* An id is given once, to a row that is drafted and then inserted.
LEMMA OriginStep ==
  ASSUME TypeOK, OriginInv, [Next]_vars
  PROVE  OriginInv'
<1> USE DEF OriginInv
<1>1. CASE UNCHANGED <<used, drafts, posts, removals>>
  BY <1>1
<1>2. ASSUME NEW i \in Ids, BeginPost(i) PROVE OriginInv'
  BY <1>2 DEF BeginPost
<1>3. ASSUME NEW d \in drafts, InsertPost(d) PROVE OriginInv'
  BY <1>3 DEF InsertPost
<1>4. ASSUME NEW d \in deletions, CommitDelete(d) PROVE OriginInv'
  <2>1. \A p \in posts : Blanked(p).id = p.id
    BY DEF TypeOK, PostRow, Blanked
  <2>2. \A p \in posts' : \E q \in posts : p.id = q.id
    BY <1>4, <2>1 DEF CommitDelete
  <2>3. used' = used /\ drafts' = drafts
    BY <1>4 DEF CommitDelete
  <2>4. QED BY <2>2, <2>3
<1>5. ASSUME NEW i \in Ids, ExpireThread(ThreadOf[i]) PROVE OriginInv'
  BY <1>5 DEF ExpireThread
<1>6. QED BY <1>1, <1>2, <1>3, <1>4, <1>5, OriginChange

\* What is gone does not come back.
LEMMA GoneStays ==
  ASSUME TypeOK, OriginInv, [Next]_vars, NEW i, Gone(i)
  PROVE  Gone(i)'
<1> USE DEF Gone
<1>1. CASE UNCHANGED <<used, drafts, posts, removals>>
  BY <1>1
<1>2. ASSUME NEW j \in Ids, BeginPost(j) PROVE Gone(i)'
  BY <1>2 DEF BeginPost
<1>3. ASSUME NEW d \in drafts, InsertPost(d) PROVE Gone(i)'
  BY <1>3 DEF InsertPost
<1>4. ASSUME NEW d \in deletions, CommitDelete(d) PROVE Gone(i)'
  <2>1. \A p \in posts : Blanked(p).id = p.id /\ Blanked(p).blank
    BY DEF TypeOK, PostRow, Blanked
  <2>2. \A p \in posts' : p \in posts \/ p.blank
    BY <1>4, <2>1 DEF CommitDelete
  <2>3. used' = used /\ drafts' = drafts
    BY <1>4 DEF CommitDelete
  <2>4. QED BY <2>2, <2>3
<1>5. ASSUME NEW j \in Ids, ExpireThread(ThreadOf[j]) PROVE Gone(i)'
  BY <1>5 DEF ExpireThread
<1>6. QED BY <1>1, <1>2, <1>3, <1>4, <1>5, OriginChange

\* A takedown is written together with the scrub of the post it is about.
LEMMA RemovedIsGone ==
  ASSUME TypeOK, OriginInv, GoneInv, [Next]_vars
  PROVE  \A r \in removals' : Gone(r.id)'
<1>1. \A r \in removals : Gone(r.id)'
  BY GoneStays DEF GoneInv
<1>2. CASE UNCHANGED <<used, drafts, posts, removals>>
  BY <1>1, <1>2
<1>3. ASSUME NEW i \in Ids, BeginPost(i) \/ ExpireThread(ThreadOf[i])
      PROVE  removals' \subseteq removals
  BY <1>3 DEF BeginPost, ExpireThread
<1>4. ASSUME NEW d \in drafts, InsertPost(d) PROVE removals' = removals
  BY <1>4 DEF InsertPost
<1>5. ASSUME NEW d \in deletions, CommitDelete(d), removals' # removals
      PROVE  /\ \A r \in removals' : r \in removals \/ r.id = d.id
             /\ Gone(d.id)'
  <2>1. PICK q \in posts : q.id = d.id
    BY <1>5 DEF CommitDelete
  <2>2. /\ removals' = removals \cup {[id |-> d.id, day |-> d.day, at |-> day]}
        /\ posts' = {IF p.id = d.id THEN Blanked(p) ELSE p : p \in posts}
        /\ used' = used /\ drafts' = drafts
    BY <1>5 DEF CommitDelete
  <2>3. \A p \in posts : Blanked(p).id = p.id /\ Blanked(p).blank
    BY DEF TypeOK, PostRow, Blanked
  <2>4. \A p \in posts' : p.id = d.id => p.blank
    BY <2>2, <2>3
  <2>5. d.id \in used /\ \A e \in drafts : e.id # d.id
    BY <2>1 DEF OriginInv
  <2>6. QED BY <2>2, <2>4, <2>5 DEF Gone
<1>6. QED BY <1>1, <1>2, <1>3, <1>4, <1>5, OriginChange

\* What the worker holds came from the tables, and what it has been told of it
\* held.
LEMMA InboxChange ==
  ASSUME TypeOK, [Next]_vars
  PROVE  /\ \A r \in inbox'.removals : r \in inbox.removals \/ r \in removals
         /\ \A p \in inbox'.posts : \/ p \in inbox.posts
                                    \/ pc = "fetch" /\ p \in posts
         /\ \A i \in told' : \/ i \in told
                            \/ /\ inbox.posts = {}
                               /\ \E r \in inbox.removals : i = r.id
<1>1. CASE UNCHANGED <<inbox, told>>
  BY <1>1
<1>2. CASE Tick \/ Origin \/ Puller \/ Wake
  BY <1>1, <1>2 DEF Tick, Origin, BeginPost, InsertPost, BeginDelete,
      CommitDelete, ExpireThread, Puller, AddPeer, set_enabled, DeleteCopy,
      SweepCopies, Wake, worker, history
<1>3. CASE FetchFails \/ SaveCursor \/ Crash
  BY <1>3 DEF FetchFails, SaveCursor, Crash, Sleep, NoEvents, history
<1>4. CASE ReadPosts
  <2>1. PICK page \in SUBSET Later(posts, next_cursor.post) :
          inbox' = [inbox EXCEPT !.posts = page]
    BY <1>4 DEF ReadPosts
  <2>2. inbox'.posts = page /\ inbox'.removals = inbox.removals
    BY <2>1 DEF TypeOK, Inbox
  <2>3. page \subseteq posts
    BY DEF Later
  <2>4. told' = told /\ pc = "fetch"
    BY <1>4 DEF ReadPosts, history
  <2>5. QED BY <2>2, <2>3, <2>4
<1>5. CASE ReadRemovals
  <2>1. PICK page \in SUBSET Later(removals, next_cursor.removal) :
          inbox' = [inbox EXCEPT !.removals = page]
    BY <1>5 DEF ReadRemovals
  <2>2. inbox'.removals = page /\ inbox'.posts = inbox.posts
    BY <2>1 DEF TypeOK, Inbox
  <2>3. page \subseteq removals
    BY DEF Later
  <2>4. told' = told
    BY <1>5 DEF ReadRemovals, history
  <2>5. QED BY <2>2, <2>3, <2>4
<1>6. ASSUME NEW p \in inbox.posts, PostIngested(p)
      PROVE  /\ inbox'.posts \subseteq inbox.posts
             /\ inbox'.removals = inbox.removals /\ told' = told
  BY <1>6 DEF PostIngested, TypeOK, Inbox
<1>7. ASSUME NEW r \in inbox.removals, ApplyRemoval(r) \/ FailRemoval(r)
      PROVE  /\ inbox'.removals \subseteq inbox.removals
             /\ inbox'.posts = inbox.posts /\ inbox.posts = {}
             /\ told' \subseteq told \cup {r.id}
  BY <1>7 DEF ApplyRemoval, FailRemoval, RemovalIngested, TypeOK, Inbox
<1>8. CASE UNCHANGED vars
  BY <1>1, <1>8 DEF vars, worker, history
<1>9. QED
  BY <1>2, <1>3, <1>4, <1>5, <1>6, <1>7, <1>8
     DEF Next, Pull, Ingest, CopyPost, SkipPost

LEMMA GoneStep ==
  ASSUME TypeOK, OriginInv, GoneInv, [Next]_vars
  PROVE  GoneInv'
<1>1. \A r \in removals' : Gone(r.id)'
  BY RemovedIsGone
<1>2. \A r \in removals : Gone(r.id)'
  BY GoneStays DEF GoneInv
<1>3. \A r \in inbox.removals : Gone(r.id)'
  BY GoneStays DEF GoneInv
<1>4. \A i \in told : Gone(i)'
  BY GoneStays DEF GoneInv
<1>5. \A r \in inbox'.removals : Gone(r.id)'
  BY <1>2, <1>3, InboxChange
<1>6. \A i \in told' : Gone(i)'
  BY <1>3, <1>4, InboxChange
<1>7. QED BY <1>1, <1>5, <1>6 DEF GoneInv

LEMMA InboxStep ==
  ASSUME TypeOK, GoneInv, InboxInv, [Next]_vars
  PROVE  InboxInv'
<1> USE DEF InboxInv
<1>1. \A p \in inbox'.posts : p.id \in told' => p.blank
  <2>1. SUFFICES ASSUME NEW p \in inbox'.posts, p.id \in told' PROVE p.blank
    OBVIOUS
  <2>2. CASE p \in inbox.posts
    BY <2>1, <2>2, InboxChange
  <2>3. CASE pc = "fetch" /\ p \in posts /\ p \notin inbox.posts
    <3>1. inbox.removals = {}
      BY <2>3 DEF NoEvents
    <3>2. p.id \in told
      BY <2>1, <3>1, InboxChange
    <3>3. QED BY <2>3, <3>2 DEF GoneInv, Gone
  <2>4. QED BY <2>2, <2>3, InboxChange
<1>2. CASE UNCHANGED <<pc, inbox>>
  BY <1>1, <1>2
<1>3. CASE Tick \/ Origin \/ Puller
  BY <1>2, <1>3 DEF Tick, Origin, BeginPost, InsertPost, BeginDelete,
      CommitDelete, ExpireThread, Puller, AddPeer, set_enabled, DeleteCopy,
      SweepCopies, worker
<1>4. CASE Wake
  BY <1>1, <1>4 DEF Wake
<1>5. CASE FetchFails \/ SaveCursor \/ Crash
  BY <1>1, <1>5 DEF FetchFails, SaveCursor, Crash, Sleep, NoEvents
<1>6. CASE ReadPosts
  <2>1. inbox'.removals = inbox.removals
    BY <1>6 DEF ReadPosts, TypeOK, Inbox
  <2>2. inbox.removals = {} /\ pc' = "fetch_removals"
    BY <1>6 DEF ReadPosts, NoEvents
  <2>3. QED BY <1>1, <2>1, <2>2
<1>7. CASE ReadRemovals \/ Ingest
  <2>1. pc' = "apply"
    BY <1>7 DEF ReadRemovals, Ingest, CopyPost, SkipPost, PostIngested,
                ApplyRemoval, FailRemoval, RemovalIngested
  <2>2. QED BY <1>1, <2>1
<1>8. CASE UNCHANGED vars
  BY <1>2, <1>8 DEF vars, worker
<1>9. QED BY <1>3, <1>4, <1>5, <1>6, <1>7, <1>8 DEF Next, Pull

\* A takedown in the step finds every copy of its post; a copy made in the
\* step is one of a post that was not taken down, or has no content.
LEMMA HiddenStep ==
  ASSUME TypeOK, CopiesInv, InboxInv, RemovedStaysHidden, [Next]_vars
  PROVE  RemovedStaysHidden'
<1> USE DEF RemovedStaysHidden
<1>1. CASE UNCHANGED <<copies, hidden, told>>
  BY <1>1
<1>2. CASE Tick \/ Origin \/ AddPeer \/ set_enabled
  BY <1>1, <1>2 DEF Tick, Origin, BeginPost, InsertPost, BeginDelete,
      CommitDelete, ExpireThread, AddPeer, set_enabled, puller, history
<1>3. CASE Wake \/ ReadPosts \/ ReadRemovals \/ FetchFails \/ SaveCursor \/ Crash
  BY <1>1, <1>3 DEF Wake, ReadPosts, ReadRemovals, FetchFails, SaveCursor,
      Crash, puller, history
<1>4. ASSUME NEW c \in copies, DeleteCopy(c) PROVE RemovedStaysHidden'
  <2>1. \A d \in copies : Blanked(d).blank
    BY DEF TypeOK, CopyRow, Blanked
  <2>2. \A d \in copies' : d \in copies \/ d.blank
    BY <1>4, <2>1 DEF DeleteCopy
  <2>3. hidden \subseteq hidden' /\ told' = told
    BY <1>4 DEF DeleteCopy, history
  <2>4. QED BY <2>2, <2>3
<1>5. ASSUME NEW i \in Ids, SweepCopies(ThreadOf[i]) PROVE RemovedStaysHidden'
  <2>1. /\ copies' \subseteq copies
        /\ \A c \in copies' : c \in copies /\ ~In(ThreadOf[i], c)
        /\ hidden' = hidden \ {c.local : c \in {d \in copies : In(ThreadOf[i], d)}}
        /\ told' = told
    BY <1>5 DEF SweepCopies, history
  <2>2. \A c, d \in copies : c.local = d.local => c = d
    BY DEF CopiesInv
  <2>3. QED BY <2>1, <2>2
<1>6. ASSUME NEW p \in inbox.posts, CopyPost(p) \/ SkipPost(p)
      PROVE  RemovedStaysHidden'
  <2>1. hidden' = hidden /\ told' = told
    BY <1>6 DEF CopyPost, SkipPost, PostIngested
  <2>2. copies' = copies \/ copies' = copies \cup {CopyOf(p)}
    BY <1>6 DEF CopyPost, SkipPost, insert_federated
  <2>3. CopyOf(p).id = p.id /\ CopyOf(p).blank = p.blank
    BY DEF CopyOf
  <2>4. p.id \in told => p.blank
    BY DEF InboxInv
  <2>5. QED BY <2>1, <2>2, <2>3, <2>4
<1>7. ASSUME NEW r \in inbox.removals, ApplyRemoval(r) PROVE RemovedStaysHidden'
  BY <1>7 DEF ApplyRemoval, RemovalIngested
<1>8. ASSUME NEW r \in inbox.removals, FailRemoval(r) PROVE RemovedStaysHidden'
  BY <1>8 DEF FailRemoval, RemovalIngested
<1>9. CASE UNCHANGED vars
  BY <1>1, <1>9 DEF vars, puller, history
<1>10. QED
  BY <1>2, <1>3, <1>4, <1>5, <1>6, <1>7, <1>8, <1>9 DEF Next, Puller, Pull, Ingest

HiddenInv == /\ CopiesInv /\ OriginInv /\ GoneInv /\ InboxInv
             /\ RemovedStaysHidden

LEMMA HiddenInvCorrect == Spec => []HiddenInv
<1>1. Init => HiddenInv
  BY DEF Init, HiddenInv, CopiesInv, OneCopyEach, OriginInv, GoneInv, InboxInv,
         NoEvents, RemovedStaysHidden
<1>2. TypeOK /\ HiddenInv /\ [Next]_vars => HiddenInv'
  BY CopiesStep, OriginStep, GoneStep, InboxStep, HiddenStep DEF HiddenInv
<1>3. QED BY <1>1, <1>2, TypeCorrect, PTL DEF Spec

\* A copy whose takedown was applied is hidden or has no content, whichever of
\* the two arrived first and however often either was pulled.
THEOREM RemovedStaysHiddenHolds == Spec => []RemovedStaysHidden
<1>1. HiddenInv => RemovedStaysHidden
  BY DEF HiddenInv
<1>2. QED BY <1>1, HiddenInvCorrect, PTL

-----------------------------------------------------------------------------
(* To its readers the peer is a Replica.  Only four steps show.            *)

\* What a row says of a copy.
LEMMA CopyFields ==
  ASSUME TypeOK
  PROVE  /\ \A c \in copies : /\ c.id \in Ids /\ Blanked(c).blank
                              /\ Blanked(c).id = c.id
         /\ \A p \in inbox.posts : p.id \in Ids
         /\ \A r \in inbox.removals : r.id \in Ids
BY DEF TypeOK, CopyRow, Blanked, Inbox, PostRow, RemovalRow

LEMMA DeleteWithholds ==
  ASSUME TypeOK, CopiesInv, NEW c \in copies, DeleteCopy(c)
  PROVE  R!Withhold(c.id)
<1> DEFINE S == Shown(copies, hidden)  S2 == Shown(copies', hidden')
           W == Withheld(copies, hidden)  W2 == Withheld(copies', hidden')
<1>1. /\ hidden' = hidden \cup {c.local} /\ told' = told
      /\ copies' = {IF d = c THEN Blanked(d) ELSE d : d \in copies}
      /\ Shows(hidden, c)
  BY DEF DeleteCopy, Shows, history
<1>2. copies' = (copies \ {c}) \cup {Blanked(c)}
  BY <1>1
<1>3. ~Shows(hidden', Blanked(c)) /\ Blanked(c).id = c.id
  BY CopyFields DEF Shows
<1>4. \A d \in copies \ {c} : /\ Shows(hidden', d) <=> Shows(hidden, d)
                              /\ d.id # c.id
  BY <1>1 DEF Shows, CopiesInv, OneCopyEach
<1>5. c.id \in S
  BY <1>1 DEF Shown
<1>6. S2 = S \ {c.id}
  BY <1>1, <1>2, <1>3, <1>4 DEF Shown
<1>7. W2 = W \cup {c.id}
  BY <1>1, <1>2, <1>3, <1>4 DEF Withheld
<1>8. QED BY <1>1, <1>5, <1>6, <1>7 DEF R!Withhold

LEMMA SweepExpires ==
  ASSUME CopiesInv, NEW i \in Ids, SweepCopies(ThreadOf[i])
  PROVE  R!Expire
<1>1. /\ \A c \in copies' : c \in copies /\ ~In(ThreadOf[i], c)
      /\ hidden' = hidden \ {c.local : c \in {d \in copies :
                                                In(ThreadOf[i], d)}}
      /\ told' = told
  BY DEF SweepCopies, history
<1>2. \A c \in copies' : c \in copies /\ (Shows(hidden', c) <=> Shows(hidden, c))
  BY <1>1 DEF Shows, CopiesInv
<1>3. Shown(copies', hidden') \subseteq Shown(copies, hidden)
  BY <1>2 DEF Shown
<1>4. Withheld(copies', hidden') \subseteq Withheld(copies, hidden)
  BY <1>2 DEF Withheld
<1>5. QED BY <1>1, <1>3, <1>4 DEF R!Expire

LEMMA CopyArrives ==
  ASSUME InboxInv, NEW p \in inbox.posts, CopyPost(p),
         \A c \in copies : c.id # p.id
  PROVE  R!Arrive(p.id)
<1> DEFINE S == Shown(copies, hidden)  S2 == Shown(copies', hidden')
           W == Withheld(copies, hidden)  W2 == Withheld(copies', hidden')
<1>1. /\ copies' = copies \cup {CopyOf(p)} /\ hidden' = hidden /\ told' = told
  BY DEF CopyPost, PostIngested, insert_federated
<1>2. CopyOf(p).id = p.id /\ CopyOf(p).blank = p.blank
  BY DEF CopyOf
<1>3. p.id \notin S \cup W
  BY DEF Shown, Withheld
<1>4. CASE Shows(hidden, CopyOf(p))
  <2>1. p.id \notin told
    BY <1>2, <1>4 DEF Shows, InboxInv
  <2>2. S2 = S \cup {p.id}
    BY <1>1, <1>2, <1>4 DEF Shown
  <2>3. W2 = W
    BY <1>1, <1>2, <1>4 DEF Withheld
  <2>4. QED BY <1>1, <1>3, <2>1, <2>2, <2>3 DEF R!Arrive
<1>5. CASE ~Shows(hidden, CopyOf(p))
  <2>1. S2 = S
    BY <1>1, <1>2, <1>5 DEF Shown
  <2>2. W2 = W \cup {p.id}
    BY <1>1, <1>2, <1>5 DEF Withheld
  <2>3. QED BY <1>1, <1>3, <2>1, <2>2 DEF R!Arrive
<1>6. QED BY <1>4, <1>5

LEMMA RemovalTakesDown ==
  ASSUME CopiesInv, NEW r \in inbox.removals, ApplyRemoval(r)
  PROVE  R!TakeDown(r.id)
<1> DEFINE S == Shown(copies, hidden)  S2 == Shown(copies', hidden')
           W == Withheld(copies, hidden)  W2 == Withheld(copies', hidden')
<1>1. /\ copies' = copies /\ told' = told \cup {r.id}
      /\ hidden' = hidden \cup {c.local : c \in {d \in copies : d.id = r.id}}
  BY DEF ApplyRemoval, RemovalIngested
<1>2. \A c \in copies : Shows(hidden', c) <=> Shows(hidden, c) /\ c.id # r.id
  BY <1>1 DEF Shows, CopiesInv
<1>3. S2 = S \ {r.id}
  BY <1>1, <1>2 DEF Shown
<1>4. W2 = W \cup (S \cap {r.id})
  BY <1>1, <1>2 DEF Shown, Withheld
<1>5. QED BY <1>1, <1>3, <1>4 DEF R!TakeDown

\* The copies, their tombstones and the applied takedowns change in four ways.
LEMMA SeenChange ==
  ASSUME TypeOK, [Next]_vars
  PROVE  \/ UNCHANGED <<copies, hidden, told>>
         \/ \E c \in copies : DeleteCopy(c)
         \/ \E i \in Ids : SweepCopies(ThreadOf[i])
         \/ \E p \in inbox.posts : CopyPost(p) /\ \A c \in copies : c.id # p.id
         \/ \E r \in inbox.removals : ApplyRemoval(r)
<1> USE DEF vars, puller, history
<1>1. CASE Tick \/ Origin
  BY <1>1 DEF Tick, Origin, BeginPost, InsertPost, BeginDelete, CommitDelete,
              ExpireThread
<1>2. CASE Puller
  BY <1>2 DEF Puller, AddPeer, set_enabled
<1>3. CASE Wake \/ ReadPosts \/ ReadRemovals \/ FetchFails \/ SaveCursor \/ Crash
  BY <1>3 DEF Wake, ReadPosts, ReadRemovals, FetchFails, SaveCursor, Crash
<1>4. ASSUME NEW p \in inbox.posts, CopyPost(p)
      PROVE  \/ UNCHANGED <<copies, hidden, told>>
             \/ CopyPost(p) /\ \A c \in copies : c.id # p.id
  BY <1>4 DEF CopyPost, PostIngested, insert_federated
<1>5. ASSUME NEW p \in inbox.posts, SkipPost(p)
      PROVE  UNCHANGED <<copies, hidden, told>>
  BY <1>5 DEF SkipPost, PostIngested
<1>6. ASSUME NEW r \in inbox.removals, FailRemoval(r)
      PROVE  UNCHANGED <<copies, hidden, told>>
  BY <1>6 DEF FailRemoval, RemovalIngested
<1>7. CASE UNCHANGED vars
  BY <1>7
<1>8. QED
  BY <1>1, <1>2, <1>3, <1>4, <1>5, <1>6, <1>7 DEF Next, Pull, Ingest

\* What a reader of the peer sees of a post is withheld for good once its
\* takedown has been applied, and until the copy goes once it has been hidden.
THEOREM RefinesReplica == Spec => ImplementsReplica
<1>1. Init => R!Init
  BY DEF Init, R!Init, Shown, Withheld
<1>2. TypeOK /\ HiddenInv /\ [Next]_vars => [R!Next]_R!vars
  <2> SUFFICES ASSUME TypeOK, HiddenInv, [Next]_vars PROVE [R!Next]_R!vars
    OBVIOUS
  <2> USE DEF HiddenInv
  <2>1. CASE UNCHANGED <<copies, hidden, told>>
    BY <2>1 DEF R!vars, Shown, Withheld, Shows
  <2>2. ASSUME NEW c \in copies, DeleteCopy(c) PROVE R!Next
    BY <2>2, DeleteWithholds, CopyFields DEF R!Next
  <2>3. ASSUME NEW i \in Ids, SweepCopies(ThreadOf[i]) PROVE R!Next
    BY <2>3, SweepExpires DEF R!Next
  <2>4. ASSUME NEW p \in inbox.posts, CopyPost(p), \A c \in copies : c.id # p.id
        PROVE  R!Next
    BY <2>4, CopyArrives, CopyFields DEF R!Next
  <2>5. ASSUME NEW r \in inbox.removals, ApplyRemoval(r) PROVE R!Next
    BY <2>5, RemovalTakesDown, CopyFields DEF R!Next
  <2>6. QED BY <2>1, <2>2, <2>3, <2>4, <2>5, SeenChange
<1>3. QED BY <1>1, <1>2, TypeCorrect, HiddenInvCorrect, PTL
             DEF Spec, ImplementsReplica, R!Spec

-----------------------------------------------------------------------------
(* The cursors.  A pull in progress knows where it started and where it    *)
(* will save; what lies between is in its inbox, has been ingested, or was *)
(* committed behind its back on the day of the new position or later.      *)

Within(cursor) == cursor = NoCursor \/ cursor.day <= day

DaysInv ==
  /\ \A d \in drafts : d.day <= day
  /\ \A d \in deletions : d.day <= day
  /\ \A p \in posts : p.day <= day
  /\ \A r \in removals : r.day <= day
  /\ peer # NoPeer => /\ Within(peer.cursors.post)
                      /\ Within(peer.cursors.removal)
  /\ Within(next_cursor.post) /\ Within(next_cursor.removal)

IdsOf(rows) == {e.id : e \in rows}

PostsInv ==
  pc # "asleep" =>
    /\ pc = "fetch" => next_cursor.post = peer.cursors.post
    /\ NotBefore(next_cursor.post, peer.cursors.post)
    /\ PassesOnly(posts, delivered \cup IdsOf(inbox.posts),
                  peer.cursors.post, next_cursor.post)

RemovalsInv ==
  pc # "asleep" =>
    /\ pc \in {"fetch", "fetch_removals"} =>
         next_cursor.removal = peer.cursors.removal
    /\ NotBefore(next_cursor.removal, peer.cursors.removal)
    /\ PassesOnly(removals, heard \cup IdsOf(inbox.removals),
                  peer.cursors.removal, next_cursor.removal)

\* A page advances the cursor, and what the cursor passes is on the page.
LEMMA PageAdvances ==
  ASSUME NEW rows, \A e \in rows : e.id \in Nat /\ e.day \in Int,
         NEW old \in Cursor, NEW page \in SUBSET Later(rows, old),
         IsPage(page, rows, old), NEW new, IsNextCursor(new, page, old)
  PROVE  /\ NotBefore(new, old)
         /\ \A e \in rows : After(old, e) /\ ~After(new, e) => e \in page
<1>1. CASE page = {} /\ new = old
  <2>1. old # NoCursor => old.day \in Int /\ old.id \in Nat
    BY DEF Cursor, Position
  <2>2. QED BY <1>1, <2>1 DEF NotBefore, Precedes
<1>2. ASSUME NEW f \in page, IsLast(f, page), new = PositionOf(f)
      PROVE  /\ NotBefore(new, old)
             /\ \A e \in rows : After(old, e) /\ ~After(new, e) => e \in page
  <2>1. f \in rows /\ After(old, f) /\ f.id \in Nat /\ f.day \in Int
    BY DEF Later
  <2>2. new.day = f.day /\ new.id = f.id
    BY <1>2 DEF PositionOf
  <2>3. new # NoCursor
    BY <1>2, <2>1, PositionType, ConstantTypes
  <2>4. old # NoCursor => old.day \in Int /\ old.id \in Nat
    BY DEF Cursor, Position
  <2>5. NotBefore(new, old)
    BY <2>1, <2>2, <2>3, <2>4 DEF NotBefore, After, Precedes
  <2>6. ASSUME NEW e \in rows, After(old, e), ~After(new, e), e \notin page
        PROVE  FALSE
    <3>1. e \in Later(rows, old) \ page
      BY <2>6 DEF Later
    <3>2. Precedes(f, e)
      BY <3>1 DEF IsPage
    <3>3. After(new, e)
      BY <2>2, <3>2 DEF After, Precedes
    <3>4. QED BY <2>6, <3>3
  <2>7. QED BY <2>5, <2>6
<1>3. QED BY <1>1, <1>2 DEF IsNextCursor

\* No cursor lies in the future.
LEMMA DaysStep ==
  ASSUME TypeOK, DaysInv, [Next]_vars
  PROVE  DaysInv'
<1> USE DEF DaysInv, Within
<1>0. /\ day \in Nat
      /\ \A d \in drafts : d.day \in Nat
      /\ \A d \in deletions : d.day \in Nat
      /\ \A p \in posts : p.day \in Nat
      /\ \A r \in removals : r.day \in Nat
      /\ peer # NoPeer => /\ peer \in PeerRow
                          /\ peer.cursors.post \in Cursor
                          /\ peer.cursors.removal \in Cursor
      /\ next_cursor.post \in Cursor /\ next_cursor.removal \in Cursor
  BY DEF TypeOK, DraftRow, PostRow, RemovalRow, PeerRow, Cursors
<1>1. \A c \in Cursor : c # NoCursor => c.day \in Int
  BY DEF Cursor, Position
<1>2. CASE Tick
  BY <1>0, <1>1, <1>2 DEF Tick, origin, puller, worker
<1>3. ASSUME NEW i \in Ids, BeginPost(i) PROVE DaysInv'
  BY <1>0, <1>3 DEF BeginPost, puller, worker
<1>4. ASSUME NEW d \in drafts, InsertPost(d) PROVE DaysInv'
  BY <1>0, <1>4 DEF InsertPost, puller, worker
<1>5. ASSUME NEW p \in posts, BeginDelete(p) PROVE DaysInv'
  BY <1>0, <1>5 DEF BeginDelete, puller, worker
<1>6. ASSUME NEW d \in deletions, CommitDelete(d) PROVE DaysInv'
  <2>1. \A p \in posts : Blanked(p).day = p.day
    BY DEF TypeOK, PostRow, Blanked
  <2>2. \A p \in posts' : p.day <= day
    BY <1>6, <2>1 DEF CommitDelete
  <2>3. \A r \in removals' : r.day <= day
    BY <1>6 DEF CommitDelete
  <2>4. /\ day' = day /\ drafts' = drafts /\ deletions' \subseteq deletions
        /\ peer' = peer /\ next_cursor' = next_cursor
    BY <1>6 DEF CommitDelete, puller, worker
  <2>5. QED BY <2>2, <2>3, <2>4
<1>7. ASSUME NEW i \in Ids, ExpireThread(ThreadOf[i]) PROVE DaysInv'
  BY <1>7 DEF ExpireThread, puller, worker
<1>8. CASE AddPeer
  <2>1. backfill_cursor = NoCursor \/ backfill_cursor.day <= day
    BY <1>0, ConstantTypes DEF backfill_cursor
  <2>2. /\ peer = NoPeer => peer' = Registered
        /\ peer # NoPeer => peer' # NoPeer /\ peer'.cursors = peer.cursors
    BY <1>0, <1>8, ConstantTypes DEF AddPeer, PeerRow
  <2>3. /\ Registered.cursors.post = backfill_cursor
        /\ Registered.cursors.removal = backfill_cursor
    BY DEF Registered
  <2>4. day' = day /\ UNCHANGED <<origin, worker>>
    BY <1>8 DEF AddPeer
  <2>5. QED BY <2>1, <2>2, <2>3, <2>4 DEF origin, worker
<1>9. CASE set_enabled
  <2>1. peer # NoPeer /\ peer'.cursors = peer.cursors
    BY <1>0, <1>9 DEF set_enabled, PeerRow
  <2>2. QED BY <1>9, <2>1 DEF set_enabled, origin, worker
<1>10. CASE \/ \E c \in copies : DeleteCopy(c)
            \/ \E i \in Ids : SweepCopies(ThreadOf[i])
  BY <1>10 DEF DeleteCopy, SweepCopies, origin, worker
<1>11. CASE Wake
  BY <1>11 DEF Wake, origin, puller
<1>12. CASE ReadPosts
  <2>1. PICK page \in SUBSET Later(posts, next_cursor.post) :
          \E c \in Positions(page) \cup {next_cursor.post} :
            next_cursor' = [next_cursor EXCEPT !.post = c]
    BY <1>12 DEF ReadPosts
  <2>2. PICK c \in Positions(page) \cup {next_cursor.post} :
          next_cursor' = [next_cursor EXCEPT !.post = c]
    BY <2>1
  <2>3. c = NoCursor \/ c.day <= day
    BY <2>1 DEF Positions, PositionOf, Later
  <2>4. next_cursor'.post = c /\ next_cursor'.removal = next_cursor.removal
    BY <2>2 DEF TypeOK, Cursors
  <2>5. QED BY <1>12, <2>3, <2>4 DEF ReadPosts, origin, puller
<1>13. CASE ReadRemovals
  <2>1. PICK page \in SUBSET Later(removals, next_cursor.removal) :
          \E c \in Positions(page) \cup {next_cursor.removal} :
            next_cursor' = [next_cursor EXCEPT !.removal = c]
    BY <1>13 DEF ReadRemovals
  <2>2. PICK c \in Positions(page) \cup {next_cursor.removal} :
          next_cursor' = [next_cursor EXCEPT !.removal = c]
    BY <2>1
  <2>3. c = NoCursor \/ c.day <= day
    BY <2>1 DEF Positions, PositionOf, Later
  <2>4. next_cursor'.removal = c /\ next_cursor'.post = next_cursor.post
    BY <2>2 DEF TypeOK, Cursors
  <2>5. QED BY <1>13, <2>3, <2>4 DEF ReadRemovals, origin, puller
<1>14. CASE FetchFails \/ Crash
  BY <1>14 DEF FetchFails, Crash, Sleep, NoCursors, origin, puller
<1>15. CASE Ingest
  BY <1>15 DEF Ingest, CopyPost, SkipPost, PostIngested, ApplyRemoval,
      FailRemoval, RemovalIngested, origin
<1>16. CASE SaveCursor
  <2>1. peer # NoPeer
    BY <1>16 DEF SaveCursor, TypeOK
  <2>2. peer'.cursors = next_cursor
    BY <1>0, <1>16, <2>1 DEF SaveCursor, PeerRow
  <2>3. QED BY <1>16, <2>2 DEF SaveCursor, Sleep, NoCursors, origin
<1>17. CASE UNCHANGED vars
  BY <1>17 DEF vars, origin, puller, worker
<1>18. QED
  BY <1>2, <1>3, <1>4, <1>5, <1>6, <1>7, <1>8, <1>9, <1>10, <1>11, <1>12,
     <1>13, <1>14, <1>15, <1>16, <1>17 DEF Next, Origin, Puller, Pull

\* Rows that are there already, with the same position and the same day of
\* commitment, and rows committed today, are no obstacle to a cursor.
LEMMA PassesMore ==
  ASSUME NEW rows, NEW more, NEW arrived, NEW landed, NEW old, NEW new,
         PassesOnly(rows, arrived, old, new), arrived \subseteq landed,
         day \in Nat, new \in Cursor, Within(new),
         \A e \in more :
           \/ \E f \in rows : e.id = f.id /\ e.day = f.day /\ e.at = f.at
           \/ e.at = day
  PROVE  PassesOnly(more, landed, old, new)
<1>1. SUFFICES ASSUME NEW e \in more, After(old, e), ~After(new, e)
               PROVE  e.id \in landed \/ e.at >= new.day
  BY DEF PassesOnly
<1>2. CASE \E f \in rows : e.id = f.id /\ e.day = f.day /\ e.at = f.at
  <2>1. PICK f \in rows : e.id = f.id /\ e.day = f.day /\ e.at = f.at
    BY <1>2
  <2>2. After(old, f) /\ ~After(new, f)
    BY <1>1, <2>1 DEF After, Precedes
  <2>3. QED BY <2>1, <2>2 DEF PassesOnly
<1>3. CASE e.at = day
  <2>1. new # NoCursor
    BY <1>1 DEF After
  <2>2. new.day \in Int /\ new.day <= day
    BY <2>1 DEF Cursor, Position, Within
  <2>3. QED BY <1>3, <2>2
<1>4. QED BY <1>2, <1>3

\* The row of a peer stays, and only the worker's save changes its cursors.
LEMMA PeerKept ==
  ASSUME TypeOK, [Next]_vars, peer # NoPeer
  PROVE  peer' # NoPeer /\ (SaveCursor \/ peer'.cursors = peer.cursors)
<1>1. peer \in PeerRow /\ NoPeer \notin PeerRow
  BY ConstantTypes DEF TypeOK
<1>2. CASE peer' = peer
  BY <1>2
<1>3. CASE AddPeer \/ set_enabled
  <2>1. peer' \in PeerRow /\ peer'.cursors = peer.cursors
    BY <1>1, <1>3 DEF AddPeer, set_enabled, PeerRow
  <2>2. QED BY <1>1, <2>1
<1>4. CASE Tick \/ Origin
  BY <1>2, <1>4 DEF Tick, Origin, BeginPost, InsertPost, BeginDelete,
      CommitDelete, ExpireThread, puller
<1>5. CASE \/ \E c \in copies : DeleteCopy(c)
           \/ \E i \in Ids : SweepCopies(ThreadOf[i])
  BY <1>2, <1>5 DEF DeleteCopy, SweepCopies
<1>6. CASE Wake \/ ReadPosts \/ ReadRemovals \/ FetchFails \/ Crash
  BY <1>2, <1>6 DEF Wake, ReadPosts, ReadRemovals, FetchFails, Crash, puller
<1>7. CASE Ingest
  BY <1>2, <1>7 DEF Ingest, CopyPost, SkipPost, PostIngested, ApplyRemoval,
      FailRemoval, RemovalIngested
<1>8. CASE SaveCursor
  <2>1. peer' \in PeerRow
    BY <1>1, <1>8 DEF SaveCursor, TypeOK, PeerRow
  <2>2. QED BY <1>1, <1>8, <2>1
<1>9. CASE UNCHANGED vars
  BY <1>2, <1>9 DEF vars, puller
<1>10. QED
  BY <1>3, <1>4, <1>5, <1>6, <1>7, <1>8, <1>9 DEF Next, Puller, Pull

\* A busy worker's peer keeps its cursors until the worker saves them.
LEMMA CursorsKept ==
  ASSUME TypeOK, [Next]_vars, pc # "asleep", pc' # "asleep"
  PROVE  peer'.cursors = peer.cursors
BY PeerKept DEF TypeOK, SaveCursor, Sleep

\* What the origin does to its rows, as far as a cursor can tell.
LEMMA OriginRows ==
  ASSUME TypeOK, [Next]_vars
  PROVE  /\ \A e \in posts' :
              \/ \E f \in posts : e.id = f.id /\ e.day = f.day /\ e.at = f.at
              \/ e.at = day
         /\ \A e \in removals' :
              \/ \E f \in removals : e.id = f.id /\ e.day = f.day /\ e.at = f.at
              \/ e.at = day
<1>1. CASE UNCHANGED <<used, drafts, posts, removals>>
  BY <1>1
<1>2. ASSUME NEW i \in Ids, BeginPost(i)
      PROVE  UNCHANGED <<posts, removals>>
  BY <1>2 DEF BeginPost
<1>3. ASSUME NEW d \in drafts, InsertPost(d)
      PROVE  /\ \A e \in posts' : e \in posts \/ e.at = day
             /\ removals' = removals
  BY <1>3 DEF InsertPost
<1>4. ASSUME NEW d \in deletions, CommitDelete(d)
      PROVE  /\ \A e \in posts' : \E f \in posts :
                  e.id = f.id /\ e.day = f.day /\ e.at = f.at
             /\ \A e \in removals' : e \in removals \/ e.at = day
  <2>1. \A p \in posts : /\ Blanked(p).id = p.id /\ Blanked(p).day = p.day
                         /\ Blanked(p).at = p.at
    BY DEF TypeOK, PostRow, Blanked
  <2>2. \A e \in posts' : \E f \in posts :
          e.id = f.id /\ e.day = f.day /\ e.at = f.at
    BY <1>4, <2>1 DEF CommitDelete
  <2>3. \A e \in removals' : e \in removals \/ e.at = day
    BY <1>4 DEF CommitDelete
  <2>4. QED BY <2>2, <2>3
<1>5. ASSUME NEW i \in Ids, ExpireThread(ThreadOf[i])
      PROVE  posts' \subseteq posts /\ removals' \subseteq removals
  BY <1>5 DEF ExpireThread
<1>6. QED BY <1>1, <1>2, <1>3, <1>4, <1>5, OriginChange

\* The stream of posts moves when a pull starts and when it reads; otherwise
\* what has arrived, or is about to, only grows.
LEMMA PostsChange ==
  ASSUME TypeOK, [Next]_vars, pc' # "asleep"
  PROVE  \/ Wake
         \/ ReadPosts
         \/ /\ pc # "asleep" /\ (pc' = "fetch" => pc = "fetch")
            /\ next_cursor'.post = next_cursor.post
            /\ delivered \cup IdsOf(inbox.posts) \subseteq
                 delivered' \cup IdsOf(inbox'.posts)
<1>1. CASE UNCHANGED <<worker, delivered>>
  BY <1>1 DEF worker
<1>2. CASE Tick \/ Origin \/ Puller
  BY <1>1, <1>2 DEF Tick, Origin, BeginPost, InsertPost, BeginDelete,
      CommitDelete, ExpireThread, Puller, AddPeer, set_enabled, DeleteCopy,
      SweepCopies, history
<1>3. CASE ReadRemovals
  <2>1. /\ next_cursor'.post = next_cursor.post
        /\ inbox'.posts = inbox.posts
    BY <1>3 DEF ReadRemovals, TypeOK, Cursors, Inbox
  <2>2. QED BY <1>3, <2>1 DEF ReadRemovals, history
<1>4. CASE FetchFails \/ SaveCursor \/ Crash
  BY <1>4 DEF FetchFails, SaveCursor, Crash, Sleep
<1>5. ASSUME NEW p \in inbox.posts, PostIngested(p)
      PROVE  /\ pc = "apply" /\ UNCHANGED <<pc, next_cursor>>
             /\ delivered \cup IdsOf(inbox.posts) \subseteq
                  delivered' \cup IdsOf(inbox'.posts)
  <2>1. inbox'.posts = inbox.posts \ {p} /\ delivered' = delivered \cup {p.id}
    BY <1>5 DEF PostIngested, TypeOK, Inbox
  <2>2. QED BY <1>5, <2>1 DEF PostIngested, IdsOf
<1>6. ASSUME NEW r \in inbox.removals, ApplyRemoval(r) \/ FailRemoval(r)
      PROVE  /\ pc = "apply" /\ UNCHANGED <<pc, next_cursor, delivered>>
             /\ inbox'.posts = inbox.posts
  BY <1>6 DEF ApplyRemoval, FailRemoval, RemovalIngested, TypeOK, Inbox
<1>7. CASE UNCHANGED vars
  BY <1>1, <1>7 DEF vars, history
<1>8. QED
  BY <1>2, <1>3, <1>4, <1>5, <1>6, <1>7
     DEF Next, Pull, Ingest, CopyPost, SkipPost

LEMMA PostsInvStep ==
  ASSUME TypeOK, DaysInv, PostsInv, [Next]_vars
  PROVE  PostsInv'
<1>0. SUFFICES ASSUME pc' # "asleep" PROVE PostsInv'
  BY DEF PostsInv
<1>1. CASE Wake
  <2>1. next_cursor' = peer.cursors /\ peer' = peer /\ pc' = "fetch"
    BY <1>1 DEF Wake, puller
  <2>2. peer.cursors.post \in Cursor
    BY <1>1 DEF Wake, TypeOK, PeerRow, Cursors
  <2>3. NotBefore(peer.cursors.post, peer.cursors.post)
    BY <2>2 DEF NotBefore, Precedes, Cursor, Position
  <2>4. QED BY <2>1, <2>3 DEF PostsInv, PassesOnly
<1>2. CASE ReadPosts
  <2>1. /\ pc # "asleep" /\ pc' # "fetch"
        /\ next_cursor.post = peer.cursors.post
        /\ peer' = peer /\ posts' = posts
    BY <1>2 DEF ReadPosts, PostsInv, origin, puller
  <2>2. PICK page \in SUBSET Later(posts, next_cursor.post) :
          /\ IsPage(page, posts, next_cursor.post)
          /\ inbox' = [inbox EXCEPT !.posts = page]
          /\ \E c \in Positions(page) \cup {next_cursor.post} :
               /\ IsNextCursor(c, page, next_cursor.post)
               /\ next_cursor' = [next_cursor EXCEPT !.post = c]
    BY <1>2 DEF ReadPosts
  <2>3. PICK c \in Positions(page) \cup {next_cursor.post} :
          /\ IsNextCursor(c, page, next_cursor.post)
          /\ next_cursor' = [next_cursor EXCEPT !.post = c]
    BY <2>2
  <2>4. inbox'.posts = page /\ next_cursor'.post = c
    BY <2>2, <2>3 DEF TypeOK, Inbox, Cursors
  <2>5. \A e \in posts : e.id \in Nat /\ e.day \in Int
    BY RowFields DEF TypeOK
  <2>6. next_cursor.post \in Cursor
    BY DEF TypeOK, Cursors
  <2>7. /\ NotBefore(c, next_cursor.post)
        /\ \A e \in posts :
             After(next_cursor.post, e) /\ ~After(c, e) => e \in page
    BY <2>2, <2>3, <2>5, <2>6, PageAdvances
  <2>8. QED BY <2>1, <2>4, <2>7 DEF PostsInv, PassesOnly, IdsOf
<1>3. CASE /\ pc # "asleep" /\ (pc' = "fetch" => pc = "fetch")
           /\ next_cursor'.post = next_cursor.post
           /\ delivered \cup IdsOf(inbox.posts) \subseteq
                delivered' \cup IdsOf(inbox'.posts)
  <2>1. peer'.cursors = peer.cursors
    BY <1>0, <1>3, CursorsKept
  <2>2. day \in Nat /\ next_cursor.post \in Cursor /\ Within(next_cursor.post)
    BY DEF TypeOK, DaysInv, Cursors
  <2>3. PassesOnly(posts, delivered \cup IdsOf(inbox.posts),
                   peer.cursors.post, next_cursor.post)
    BY <1>3 DEF PostsInv
  <2>4. PassesOnly(posts', delivered' \cup IdsOf(inbox'.posts),
                   peer.cursors.post, next_cursor.post)
    BY <1>3, <2>2, <2>3, OriginRows, PassesMore
  <2>5. QED BY <1>3, <2>1, <2>4 DEF PostsInv, PassesOnly
<1>4. QED BY <1>0, <1>1, <1>2, <1>3, PostsChange

\* The same for the stream of takedowns.
LEMMA RemovalsChange ==
  ASSUME TypeOK, [Next]_vars, pc' # "asleep"
  PROVE  \/ Wake
         \/ ReadRemovals
         \/ /\ pc # "asleep"
            /\ pc' \in {"fetch", "fetch_removals"} =>
                 pc \in {"fetch", "fetch_removals"}
            /\ next_cursor'.removal = next_cursor.removal
            /\ heard \cup IdsOf(inbox.removals) \subseteq
                 heard' \cup IdsOf(inbox'.removals)
<1>1. CASE UNCHANGED <<worker, heard>>
  BY <1>1 DEF worker
<1>2. CASE Tick \/ Origin \/ Puller
  BY <1>1, <1>2 DEF Tick, Origin, BeginPost, InsertPost, BeginDelete,
      CommitDelete, ExpireThread, Puller, AddPeer, set_enabled, DeleteCopy,
      SweepCopies, history
<1>3. CASE ReadPosts
  <2>1. /\ next_cursor'.removal = next_cursor.removal
        /\ inbox'.removals = inbox.removals
    BY <1>3 DEF ReadPosts, TypeOK, Cursors, Inbox
  <2>2. QED BY <1>3, <2>1 DEF ReadPosts, history
<1>4. CASE FetchFails \/ SaveCursor \/ Crash
  BY <1>4 DEF FetchFails, SaveCursor, Crash, Sleep
<1>5. ASSUME NEW p \in inbox.posts, PostIngested(p)
      PROVE  /\ pc = "apply" /\ UNCHANGED <<pc, next_cursor, heard>>
             /\ inbox'.removals = inbox.removals
  BY <1>5 DEF PostIngested, TypeOK, Inbox
<1>6. ASSUME NEW r \in inbox.removals, ApplyRemoval(r) \/ FailRemoval(r)
      PROVE  /\ pc = "apply" /\ UNCHANGED <<pc, next_cursor>>
             /\ heard \cup IdsOf(inbox.removals) \subseteq
                  heard' \cup IdsOf(inbox'.removals)
  <2>1. RemovalIngested(r) /\ pc = "apply"
    BY <1>6 DEF ApplyRemoval, FailRemoval
  <2>2. inbox'.removals = inbox.removals \ {r} /\ heard' = heard \cup {r.id}
    BY <2>1 DEF RemovalIngested, TypeOK, Inbox
  <2>3. QED BY <2>1, <2>2 DEF RemovalIngested, IdsOf
<1>7. CASE UNCHANGED vars
  BY <1>1, <1>7 DEF vars, history
<1>8. QED
  BY <1>2, <1>3, <1>4, <1>5, <1>6, <1>7
     DEF Next, Pull, Ingest, CopyPost, SkipPost

LEMMA RemovalsInvStep ==
  ASSUME TypeOK, DaysInv, RemovalsInv, [Next]_vars
  PROVE  RemovalsInv'
<1>0. SUFFICES ASSUME pc' # "asleep" PROVE RemovalsInv'
  BY DEF RemovalsInv
<1>1. CASE Wake
  <2>1. next_cursor' = peer.cursors /\ peer' = peer /\ pc' = "fetch"
    BY <1>1 DEF Wake, puller
  <2>2. peer.cursors.removal \in Cursor
    BY <1>1 DEF Wake, TypeOK, PeerRow, Cursors
  <2>3. NotBefore(peer.cursors.removal, peer.cursors.removal)
    BY <2>2 DEF NotBefore, Precedes, Cursor, Position
  <2>4. QED BY <2>1, <2>3 DEF RemovalsInv, PassesOnly
<1>2. CASE ReadRemovals
  <2>1. /\ pc # "asleep" /\ pc' \notin {"fetch", "fetch_removals"}
        /\ next_cursor.removal = peer.cursors.removal
        /\ peer' = peer /\ removals' = removals
    BY <1>2 DEF ReadRemovals, RemovalsInv, origin, puller
  <2>2. PICK page \in SUBSET Later(removals, next_cursor.removal) :
          /\ IsPage(page, removals, next_cursor.removal)
          /\ inbox' = [inbox EXCEPT !.removals = page]
          /\ \E c \in Positions(page) \cup {next_cursor.removal} :
               /\ IsNextCursor(c, page, next_cursor.removal)
               /\ next_cursor' = [next_cursor EXCEPT !.removal = c]
    BY <1>2 DEF ReadRemovals
  <2>3. PICK c \in Positions(page) \cup {next_cursor.removal} :
          /\ IsNextCursor(c, page, next_cursor.removal)
          /\ next_cursor' = [next_cursor EXCEPT !.removal = c]
    BY <2>2
  <2>4. inbox'.removals = page /\ next_cursor'.removal = c
    BY <2>2, <2>3 DEF TypeOK, Inbox, Cursors
  <2>5. \A e \in removals : e.id \in Nat /\ e.day \in Int
    BY RowFields DEF TypeOK
  <2>6. next_cursor.removal \in Cursor
    BY DEF TypeOK, Cursors
  <2>7. /\ NotBefore(c, next_cursor.removal)
        /\ \A e \in removals :
             After(next_cursor.removal, e) /\ ~After(c, e) => e \in page
    BY <2>2, <2>3, <2>5, <2>6, PageAdvances
  <2>8. QED BY <2>1, <2>4, <2>7 DEF RemovalsInv, PassesOnly, IdsOf
<1>3. CASE /\ pc # "asleep"
           /\ pc' \in {"fetch", "fetch_removals"} =>
                pc \in {"fetch", "fetch_removals"}
           /\ next_cursor'.removal = next_cursor.removal
           /\ heard \cup IdsOf(inbox.removals) \subseteq
                heard' \cup IdsOf(inbox'.removals)
  <2>1. peer'.cursors = peer.cursors
    BY <1>0, <1>3, CursorsKept
  <2>2. day \in Nat /\ next_cursor.removal \in Cursor /\ Within(next_cursor.removal)
    BY DEF TypeOK, DaysInv, Cursors
  <2>3. PassesOnly(removals, heard \cup IdsOf(inbox.removals),
                   peer.cursors.removal, next_cursor.removal)
    BY <1>3 DEF RemovalsInv
  <2>4. PassesOnly(removals', heard' \cup IdsOf(inbox'.removals),
                   peer.cursors.removal, next_cursor.removal)
    BY <1>3, <2>2, <2>3, OriginRows, PassesMore
  <2>5. QED BY <1>3, <2>1, <2>4 DEF RemovalsInv, PassesOnly
<1>4. QED BY <1>0, <1>1, <1>2, <1>3, RemovalsChange

-----------------------------------------------------------------------------
(* The two action properties.                                              *)

CursorInv == DaysInv /\ PostsInv /\ RemovalsInv

LEMMA CursorInvCorrect == Spec => []CursorInv
<1>1. Init => CursorInv
  BY DEF Init, CursorInv, DaysInv, Within, PostsInv, RemovalsInv, NoCursors
<1>2. TypeOK /\ CursorInv /\ [Next]_vars => CursorInv'
  BY DaysStep, PostsInvStep, RemovalsInvStep DEF CursorInv
<1>3. QED BY <1>1, <1>2, TypeCorrect, PTL DEF Spec

\* A step that saves the cursors saves those of the pull, which is complete.
LEMMA SaveStep ==
  ASSUME TypeOK, SaveCursor
  PROVE  /\ pc # "asleep" /\ peer # NoPeer
         /\ peer'.cursors = next_cursor
         /\ inbox.posts = {} /\ inbox.removals = {}
BY DEF SaveCursor, TypeOK, PeerRow, NoEvents

\* No step of either server, and no crash, moves a peer's cursors back.
THEOREM CursorsAdvance == Spec => CursorsOnlyAdvance
<1>1. ASSUME TypeOK, CursorInv, [Next]_vars, peer # NoPeer
      PROVE  /\ peer' # NoPeer
             /\ NotBefore(peer'.cursors.post, peer.cursors.post)
             /\ NotBefore(peer'.cursors.removal, peer.cursors.removal)
  <2>1. peer' # NoPeer /\ (SaveCursor \/ peer'.cursors = peer.cursors)
    BY <1>1, PeerKept
  <2>2. CASE SaveCursor
    BY <1>1, <2>1, <2>2, SaveStep DEF CursorInv, PostsInv, RemovalsInv
  <2>3. CASE peer'.cursors = peer.cursors
    <3>1. peer.cursors.post \in Cursor /\ peer.cursors.removal \in Cursor
      BY <1>1 DEF TypeOK, PeerRow, Cursors
    <3>2. \A c \in Cursor : NotBefore(c, c)
      BY DEF NotBefore, Precedes, Cursor, Position
    <3>3. QED BY <2>1, <2>3, <3>1, <3>2
  <2>4. QED BY <2>1, <2>2, <2>3
<1>2. TypeOK /\ CursorInv /\ [Next]_vars =>
        [peer # NoPeer /\ peer' # peer =>
           /\ peer' # NoPeer
           /\ NotBefore(peer'.cursors.post, peer.cursors.post)
           /\ NotBefore(peer'.cursors.removal, peer.cursors.removal)]_vars
  BY <1>1
<1>3. QED
  BY <1>2, TypeCorrect, CursorInvCorrect, PTL DEF Spec, CursorsOnlyAdvance

\* Saved cursors pass nothing of an earlier day that has not been ingested.
THEOREM EarlierDaysArriveHolds == Spec => EarlierDaysArrive
<1>1. ASSUME TypeOK, CursorInv, [Next]_vars, peer # NoPeer
      PROVE  /\ PassesOnly(posts, delivered, peer.cursors.post, peer'.cursors.post)
             /\ PassesOnly(removals, heard,
                           peer.cursors.removal, peer'.cursors.removal)
  <2>1. SaveCursor \/ peer'.cursors = peer.cursors
    BY <1>1, PeerKept
  <2>2. CASE SaveCursor
    BY <1>1, <2>2, SaveStep DEF CursorInv, PostsInv, RemovalsInv, IdsOf
  <2>3. CASE peer'.cursors = peer.cursors
    BY <2>3 DEF PassesOnly
  <2>4. QED BY <2>1, <2>2, <2>3
<1>2. TypeOK /\ CursorInv /\ [Next]_vars =>
        [peer # NoPeer /\ peer' # peer =>
           /\ PassesOnly(posts, delivered, peer.cursors.post, peer'.cursors.post)
           /\ PassesOnly(removals, heard,
                         peer.cursors.removal, peer'.cursors.removal)]_vars
  BY <1>1
<1>3. QED
  BY <1>2, TypeCorrect, CursorInvCorrect, PTL DEF Spec, EarlierDaysArrive
=============================================================================
