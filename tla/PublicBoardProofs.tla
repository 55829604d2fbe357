------------------------- MODULE PublicBoardProofs -------------------------
(***************************************************************************)
(* Theorems about PublicBoard for every set of threads, keys, texts and    *)
(* workers, every workload and every retention policy.                     *)
(***************************************************************************)
EXTENDS PublicBoard, FiniteSetTheorems, SequenceTheorems, TLAPS

\* Deleting threads yields a table of threads.
LEMMA DeleteThreadsType ==
  ASSUME NEW ths \in [ThreadIds -> ThreadRow], NEW ts \in SUBSET ThreadIds
  PROVE  DeleteThreads(ths, ts) \in [ThreadIds -> ThreadRow]
BY DEF DeleteThreads, NoThread, ThreadRow

\* Counting a post yields a table of threads.
LEMMA CountedType ==
  ASSUME NEW ths \in [ThreadIds -> ThreadRow], NEW t \in ThreadIds
  PROVE  Counted(ths, t) \in [ThreadIds -> ThreadRow]
BY DEF Counted, ThreadRow

\* The greatest of the numbers 1..n is n, and 0 if there are none.
LEMMA MaxOfInterval ==
  ASSUME NEW n \in Nat
  PROVE  MaxOrZero(1..n) = n
<1>1. CASE n = 0
  BY <1>1 DEF MaxOrZero
<1>2. CASE n # 0
  <2> DEFINE Top(m) == m \in 1..n /\ \A k \in 1..n : k <= m
  <2>1. Top(n)
    BY <1>2
  <2>2. ASSUME NEW m, Top(m) PROVE m = n
    BY <2>1, <2>2
  <2>3. (CHOOSE m \in 1..n : \A k \in 1..n : k <= m) = n
    <3>1. Top(CHOOSE m : Top(m))
      BY <2>1, Zenon
    <3>2. QED BY <3>1, <2>2, Zenon
  <2>4. 1..n # {}
    BY <2>1
  <2>5. QED BY <2>3, <2>4, Zenon DEF MaxOrZero
<1>3. QED BY <1>1, <1>2


\* One number more.
LEMMA IntervalGrows ==
  ASSUME NEW n \in Nat
  PROVE  1..n \cup {n + 1} = 1..(n + 1)
OBVIOUS

-----------------------------------------------------------------------------
(* The inductive invariant.                                                *)

\* Post ids name one post each, and none of the posts to come.
IdsUnique ==
  /\ \A p \in posts : p.id < minted
  /\ \A p, q \in posts : p.id = q.id => p = q

\* A scrubbed row has no author.
BlankIsAnonymous == \A p \in posts : p.body = Blank => p.author = NoAuthor

\* The seq an INSERT has computed is in use or the next one.
SeqIsCurrent ==
  \A w \in Workers : pc[w] = "post_insert" =>
    /\ threads[req[w].thread].there
    /\ seq[w] \in 1..(threads[req[w].thread].count + 1)

\* A delete that has passed the ownership check names a post of its key, or
\* one that has been scrubbed since, or one that is gone.
DeleteIsOwned ==
  \A w \in Workers : pc[w] = "delete_commit" =>
    /\ req[w].post < minted
    /\ \A p \in posts : p.id = req[w].post => p.author = req[w].key \/ p.body = Blank

BoardInv ==
  /\ TypeOK
  /\ IdsUnique /\ BlankIsAnonymous
  /\ ThreadsNumbered /\ TombstonesAreScrubbed /\ ReferencesResolve
  /\ SeqIsCurrent /\ DeleteIsOwned

-----------------------------------------------------------------------------
(* Types.                                                                  *)

\* A step from a well-typed state with numbered threads leads to a well-typed
\* state.  The numbering is what makes the computed seq a number.
LEMMA TypeStep ==
  ASSUME TypeOK, ThreadsNumbered, [Next]_vars
  PROVE  TypeOK'
<1> USE WorkloadAssumption, BoardAssumption DEF TypeOK
<1>1. ASSUME NEW w \in Workers, Submit(w) PROVE TypeOK'
  BY <1>1 DEF Submit, tables, Requests, ThreadRequests, PostRequests,
              ListRequests, RoomRequests, DeleteRequests, ReportRequests,
              FirstStep
<1>2. ASSUME NEW w \in Workers, Reply(w) PROVE TypeOK'
  BY <1>2 DEF Reply, tables
<1>3. CASE Crash
  BY <1>3 DEF Crash, tables
<1>4. CASE Tick
  BY <1>4 DEF Tick, tables, worker
<1>5. ASSUME NEW w \in Workers,
             PostThread(w) \/ Moderate(w) \/ DeleteAuthor(w) \/ ReportPost(w)
               \/ RoomSigned(w) \/ RoomAllowlist(w)
      PROVE  TypeOK'
  <2>1. CASE PostThread(w) \/ DeleteAuthor(w) \/ ReportPost(w)
    <3>1. CASE PostThread(w)
      BY <3>1 DEF PostThread, Check, Goto, Moves, tables
    <3>2. CASE DeleteAuthor(w)
      BY <3>2 DEF DeleteAuthor, Check, Goto, Moves, tables
    <3>3. CASE ReportPost(w)
      BY <3>3 DEF ReportPost, Check, Goto, Moves, tables
    <3>4. QED BY <2>1, <3>1, <3>2, <3>3
  <2>2. CASE RoomSigned(w) \/ RoomAllowlist(w)
    BY <1>5, <2>2 DEF RoomSigned, RoomAllowlist, Check, Goto, Moves, tables
  <2>3. CASE Moderate(w)
    <3>1. req[w].op = "thread" => req[w] \in ThreadRequests
      BY <2>3 DEF Moderate, ThreadRequests, PostRequests
    <3>2. /\ req[w] \in ThreadRequests \cup PostRequests
          /\ UNCHANGED <<tables, minted, day, req, seq, date, unread>>
          /\ \E s \in {"log", "thread_insert", "post_seq"} :
               /\ pc' = [pc EXCEPT ![w] = s]
               /\ s = "thread_insert" => req[w].op = "thread"
      BY <2>3 DEF Moderate, Goto, Moves
    <3>3. PICK s \in {"log", "thread_insert", "post_seq"} :
            /\ pc' = [pc EXCEPT ![w] = s]
            /\ s = "thread_insert" => req[w].op = "thread"
      BY <3>2
    <3>4. QED BY <3>1, <3>2, <3>3 DEF tables
  <2>4. QED BY <1>5, <2>1, <2>2, <2>3
<1>6. ASSUME NEW w \in Workers, LogReject(w) PROVE TypeOK'
  BY <1>6 DEF LogReject, Goto, Moves, ThreadRequests, PostRequests
<1>7. ASSUME NEW w \in Workers, ThreadInsert(w) PROVE TypeOK'
  <2>1. threads' \in [ThreadIds -> ThreadRow]
    <3>1. /\ req[w] \in ThreadRequests /\ req[w].thread \in ThreadIds
          /\ req[w].lifetime \in Nat \cup {Never}
      BY <1>7 DEF ThreadInsert, ThreadRequests
    <3>2. [there |-> TRUE, created |-> day, count |-> 0,
           expires |-> IF req[w].lifetime = Never THEN Never
                       ELSE day + req[w].lifetime] \in ThreadRow
      BY <3>1 DEF ThreadRow
    <3>3. QED BY <1>7, <3>1, <3>2 DEF ThreadInsert
  <2>2. QED BY <1>7, <2>1 DEF ThreadInsert, Goto, Moves
<1>8. ASSUME NEW w \in Workers, PostSeq(w) PROVE TypeOK'
  <2>1. NextSeq(posts, req[w].thread) \in Nat
    <3>1. req[w].thread \in ThreadIds
      BY <1>8 DEF PostSeq, ThreadRequests, PostRequests
    <3>2. /\ threads[req[w].thread].count \in Nat
          /\ {p.seq : p \in PostsIn(posts, req[w].thread)}
               = 1..threads[req[w].thread].count
      BY <3>1 DEF ThreadsNumbered, ThreadRow
    <3>3. NextSeq(posts, req[w].thread) = threads[req[w].thread].count + 1
      BY <3>2, MaxOfInterval, Zenon DEF NextSeq
    <3>4. QED BY <3>2, <3>3
  <2>2. QED BY <1>8, <2>1 DEF PostSeq, Goto, Moves, tables
<1>9. ASSUME NEW w \in Workers, PostInsert(w) PROVE TypeOK'
  <2>1. /\ req[w] \in ThreadRequests \cup PostRequests
        /\ req[w].thread \in ThreadIds
        /\ NewPost(w) \in PostRow
    BY <1>9 DEF PostInsert, NewPost, PostRow, ThreadRequests, PostRequests, Key
  <2>2. Counted(threads, req[w].thread) \in [ThreadIds -> ThreadRow]
    BY <2>1, CountedType
  <2>3. QED BY <1>9, <2>1, <2>2 DEF PostInsert, Goto, Moves
<1>10. ASSUME NEW w \in Workers, ListRows(w) \/ FirstSeq(w) PROVE TypeOK'
  <2>1. CASE ListRows(w)
    BY <1>10, <2>1 DEF ListRows, PostsIn, Goto, Moves, tables
  <2>2. CASE FirstSeq(w)
    <3>1. unread' \in [Workers -> SUBSET PostRow]
      BY <2>2 DEF FirstSeq, Goto
    <3>2. QED BY <2>2, <3>1 DEF FirstSeq, Goto, Moves, tables
  <2>3. QED BY <1>10, <2>1, <2>2
<1>11. ASSUME NEW w \in Workers, DeleteNonce(w) \/ RoomNonce(w) PROVE TypeOK'
  <2>1. CASE DeleteNonce(w)
    <3>1. <<req[w].op, req[w].key, req[w].ts>>
            \in {"room", "delete"} \X (Authors \cup Creators) \X Seconds
      BY <2>1 DEF DeleteNonce, DeleteRequests
    <3>2. QED BY <2>1, <3>1 DEF DeleteNonce, RecordNonce, Goto, Moves
  <2>2. CASE RoomNonce(w)
    <3>1. <<req[w].op, req[w].sig, req[w].ts>>
            \in {"room", "delete"} \X (Authors \cup Creators) \X Seconds
      BY <2>2 DEF RoomNonce, RoomRequests
    <3>2. QED BY <2>2, <3>1 DEF RoomNonce, RecordNonce, Goto, Moves
  <2>3. QED BY <1>11, <2>1, <2>2
<1>12. ASSUME NEW w \in Workers, DeleteCommit(w) PROVE TypeOK'
  <2>1. \A p \in PostRow : Scrub(p) \in PostRow
    BY DEF Scrub, PostRow
  <2>2. posts' \subseteq PostRow
    BY <1>12, <2>1 DEF DeleteCommit
  <2>3. QED BY <1>12, <2>2 DEF DeleteCommit, Goto, Moves, DeleteRequests
<1>13. ASSUME NEW w \in Workers, ReportInsert(w) PROVE TypeOK'
  <2>1. req[w].post \in Nat
    BY <1>13 DEF ReportInsert, ReportRequests
  <2>2. QED BY <1>13, <2>1 DEF ReportInsert, Goto, Moves
<1>14. ASSUME NEW w \in Workers, RoomInsert(w) PROVE TypeOK'
  BY <1>14 DEF RoomInsert, Goto, Moves, RoomRequests
<1>15. CASE DeleteDueThreads
  <2>1. threads' \in [ThreadIds -> ThreadRow]
    BY <1>15, DeleteThreadsType DEF DeleteDueThreads, DueThreads
  <2>2. QED BY <1>15, <2>1 DEF DeleteDueThreads, worker
<1>16. CASE UNCHANGED vars
  BY <1>16 DEF vars, tables, worker
<1>17. QED
  BY <1>1, <1>2, <1>3, <1>4, <1>5, <1>6, <1>7, <1>8, <1>9, <1>10, <1>11,
     <1>12, <1>13, <1>14, <1>15, <1>16 DEF Next, Handler

-----------------------------------------------------------------------------
(* What a step leaves alone.                                               *)

rowTables == <<threads, posts, removals, reports, rooms, minted>>

\* A worker that is about to insert or to delete was so before the step, with
\* the same request, or its own handler step has just brought it there.
LEMMA WorkerFrame ==
  ASSUME TypeOK, [Next]_vars, NEW w \in Workers,
         pc'[w] \in {"post_insert", "delete_commit"}
  PROVE  /\ req'[w] = req[w]
         /\ \/ pc'[w] = pc[w] /\ seq'[w] = seq[w] /\ date'[w] = date[w]
            \/ pc'[w] = "post_insert" /\ PostSeq(w)
            \/ pc'[w] = "delete_commit" /\ DeleteAuthor(w)
<1> USE DEF TypeOK
<1>1. ASSUME NEW v \in Workers, Submit(v) \/ Reply(v)
      PROVE  /\ pc'[w] = pc[w] /\ req'[w] = req[w]
             /\ seq'[w] = seq[w] /\ date'[w] = date[w]
  BY <1>1, WorkloadAssumption
     DEF Submit, Reply, FirstStep, Requests, ThreadRequests, PostRequests,
         ListRequests, RoomRequests, DeleteRequests, ReportRequests
<1>2. CASE Crash
  BY <1>2 DEF Crash
<1>3. CASE Tick \/ DeleteDueThreads \/ UNCHANGED vars
  BY <1>3 DEF Tick, DeleteDueThreads, vars, worker
<1>4. ASSUME NEW v \in Workers, Handler(v), ~(w = v /\ (PostSeq(w) \/ DeleteAuthor(w)))
      PROVE  /\ pc'[w] = pc[w] /\ req'[w] = req[w]
             /\ seq'[w] = seq[w] /\ date'[w] = date[w]
  BY <1>4 DEF Handler, PostThread, Moderate, LogReject, ThreadInsert, PostSeq,
       PostInsert, ListRows, FirstSeq, DeleteNonce, DeleteAuthor, DeleteCommit,
       ReportPost, ReportInsert, RoomNonce, RoomSigned, RoomAllowlist,
       RoomInsert, RecordNonce, Check, Goto, Moves
<1>5. CASE PostSeq(w) \/ DeleteAuthor(w)
  BY <1>5 DEF PostSeq, DeleteAuthor, Check, Goto, Moves
<1>6. QED BY <1>1, <1>2, <1>3, <1>4, <1>5 DEF Next

\* Six kinds of step write the rows that refer to one another.
LEMMA RowsFrame ==
  ASSUME [Next]_vars, rowTables' # rowTables
  PROVE  \/ DeleteDueThreads
         \/ \E w \in Workers :
              \/ ThreadInsert(w) \/ PostInsert(w) \/ DeleteCommit(w)
              \/ ReportInsert(w) \/ RoomInsert(w)
BY DEF Next, Handler, Submit, Reply, Crash, Tick, PostThread, Moderate,
       LogReject, PostSeq, ListRows, FirstSeq, DeleteNonce, DeleteAuthor,
       ReportPost, RoomNonce, RoomSigned, RoomAllowlist, RecordNonce, Check,
       tables, vars, rowTables

-----------------------------------------------------------------------------
(* One lemma for each kind of step that writes rows, about the parts of the *)
(* invariant that speak of rows only.                                       *)

RowInv ==
  /\ IdsUnique /\ BlankIsAnonymous
  /\ ThreadsNumbered /\ TombstonesAreScrubbed /\ ReferencesResolve

\* A thread is inserted where there was none, so it starts without posts.
LEMMA ThreadInsertKeepsRows ==
  ASSUME BoardInv, NEW w \in Workers, ThreadInsert(w)
  PROVE  RowInv'
<1> USE DEF BoardInv, TypeOK
<1> DEFINE t == req[w].thread
<1>1. CASE Exists(threads, t)
  <2>1. UNCHANGED rowTables
    BY <1>1 DEF ThreadInsert, rowTables
  <2>2. QED
    BY <2>1 DEF rowTables, RowInv, IdsUnique, BlankIsAnonymous,
                ThreadsNumbered, TombstonesAreScrubbed, ReferencesResolve
<1>2. CASE ~Exists(threads, t)
  <2>1. /\ t \in ThreadIds
        /\ UNCHANGED <<posts, removals, reports, rooms, minted>>
        /\ threads' \in [ThreadIds -> ThreadRow]
        /\ threads'[t].there /\ threads'[t].count = 0
        /\ \A u \in ThreadIds \ {t} : threads'[u] = threads[u]
    <3>1. t \in ThreadIds
      BY DEF ThreadInsert, ThreadRequests
    <3>2. threads' \in [ThreadIds -> ThreadRow]
      BY TypeStep DEF Next, Handler
    <3>3. QED BY <1>2, <3>1, <3>2 DEF ThreadInsert
  <2>2. PostsIn(posts, t) = {}
    BY <1>2 DEF ReferencesResolve, PostsIn, Exists
  <2>3. ThreadsNumbered'
    BY <2>1, <2>2 DEF ThreadsNumbered, PostsIn
  <2>4. ReferencesResolve'
    BY <2>1 DEF ReferencesResolve, PostRow
  <2>5. QED
    BY <2>1, <2>3, <2>4 DEF RowInv, IdsUnique, BlankIsAnonymous,
                            TombstonesAreScrubbed
<1>3. QED BY <1>1, <1>2

\* The seq computed for the new post is the next one, or the insert fails.
LEMMA PostInsertKeepsRows ==
  ASSUME BoardInv, NEW w \in Workers, PostInsert(w)
  PROVE  RowInv'
<1> USE DEF BoardInv, TypeOK
<1> DEFINE t == req[w].thread
           n == threads[t].count
           p == NewPost(w)
<1>1. CASE SeqTaken(posts, t, seq[w])
  <2>1. UNCHANGED rowTables
    BY <1>1 DEF PostInsert, rowTables
  <2>2. QED
    BY <2>1 DEF rowTables, RowInv, IdsUnique, BlankIsAnonymous,
                ThreadsNumbered, TombstonesAreScrubbed, ReferencesResolve
<1>2. CASE ~SeqTaken(posts, t, seq[w])
  <2>1. /\ t \in ThreadIds /\ n \in Nat /\ threads[t].there
        /\ seq[w] \in 1..(n + 1)
        /\ req[w].body \in Bodies
    <3>1. pc[w] = "post_insert" /\ req[w] \in ThreadRequests \cup PostRequests
      BY DEF PostInsert
    <3>2. t \in ThreadIds /\ req[w].body \in Bodies
      BY <3>1 DEF ThreadRequests, PostRequests
    <3>3. QED BY <3>1, <3>2 DEF SeqIsCurrent, ThreadRow
  <2>2. /\ posts' = posts \cup {p}
        /\ threads' = Counted(threads, t)
        /\ minted' = minted + 1
        /\ UNCHANGED <<removals, reports, rooms>>
    BY <1>2 DEF PostInsert
  <2>3. /\ p.id = minted /\ p.thread = t /\ p.seq = seq[w] /\ p.body # Blank
    BY <2>1, BoardAssumption DEF NewPost
  <2>4. seq[w] = n + 1
    <3>1. {q.seq : q \in PostsIn(posts, t)} = 1..n
      BY <2>1 DEF ThreadsNumbered
    <3>2. seq[w] \notin 1..n
      BY <1>2, <3>1 DEF SeqTaken
    <3>3. QED BY <2>1, <3>2
  <2>5. /\ threads' \in [ThreadIds -> ThreadRow]
        /\ threads'[t].there /\ threads'[t].count = n + 1
        /\ \A u \in ThreadIds \ {t} : threads'[u] = threads[u]
    BY <2>1, <2>2, CountedType DEF Counted, ThreadRow
  <2>6. IdsUnique'
    BY <2>2, <2>3 DEF IdsUnique, PostRow
  <2>7. ThreadsNumbered'
    <3>1. ASSUME NEW u \in ThreadIds
          PROVE  {q.seq : q \in PostsIn(posts', u)} = 1..threads'[u].count
      <4>1. CASE u = t
        <5>1. {q.seq : q \in PostsIn(posts', t)} = 1..n \cup {n + 1}
          BY <2>1, <2>2, <2>3, <2>4 DEF ThreadsNumbered, PostsIn
        <5>2. 1..n \cup {n + 1} = 1..(n + 1)
          BY <2>1, IntervalGrows
        <5>3. threads'[u].count = n + 1 /\ PostsIn(posts', u) = PostsIn(posts', t)
          BY <4>1, <2>5
        <5>4. QED BY <5>1, <5>2, <5>3, Zenon
      <4>2. CASE u # t
        <5>1. PostsIn(posts', u) = PostsIn(posts, u)
          BY <4>2, <2>2, <2>3 DEF PostsIn
        <5>2. QED BY <4>2, <5>1, <2>5 DEF ThreadsNumbered
      <4>3. QED BY <4>1, <4>2
    <3>2. ASSUME NEW q \in posts', NEW r \in posts',
                 q.thread = r.thread, q.seq = r.seq
          PROVE  q = r
      BY <3>2, <1>2, <2>2, <2>3 DEF ThreadsNumbered, SeqTaken, PostsIn
    <3>3. QED BY <3>1, <3>2 DEF ThreadsNumbered
  <2>8. TombstonesAreScrubbed' /\ BlankIsAnonymous'
    BY <2>2, <2>3 DEF TombstonesAreScrubbed, BlankIsAnonymous
  <2>9. ReferencesResolve'
    <3>1. \A q \in posts' : threads'[q.thread].there
      BY <2>2, <2>3, <2>5 DEF ReferencesResolve, PostRow
    <3>2. removals' \cup reports' \subseteq {q.id : q \in posts'}
      BY <2>2 DEF ReferencesResolve
    <3>3. \A r \in rooms' : threads'[r.origin].there
      BY <2>2, <2>5 DEF ReferencesResolve
    <3>4. QED BY <3>1, <3>2, <3>3 DEF ReferencesResolve
  <2>10. QED BY <2>6, <2>7, <2>8, <2>9 DEF RowInv
<1>3. QED BY <1>1, <1>2

\* Tombstone and scrub come together; nothing is renumbered.
LEMMA DeleteCommitKeepsRows ==
  ASSUME BoardInv, NEW w \in Workers, DeleteCommit(w)
  PROVE  RowInv'
<1> USE DEF BoardInv, TypeOK
<1> DEFINE id == req[w].post
           After(p) == IF p.id = id THEN Scrub(p) ELSE p
<1>1. CASE id \in removals \/ \A p \in posts : p.id # id
  <2>1. UNCHANGED rowTables
    BY <1>1 DEF DeleteCommit, rowTables
  <2>2. QED
    BY <2>1 DEF rowTables, RowInv, IdsUnique, BlankIsAnonymous,
                ThreadsNumbered, TombstonesAreScrubbed, ReferencesResolve
<1>2. CASE ~(id \in removals \/ \A p \in posts : p.id # id)
  <2>1. /\ removals' = removals \cup {id}
        /\ posts' = {After(p) : p \in posts}
        /\ UNCHANGED <<threads, reports, rooms, minted>>
    BY <1>2 DEF DeleteCommit
  <2>2. \A p \in PostRow :
          /\ After(p).id = p.id /\ After(p).thread = p.thread
          /\ After(p).seq = p.seq
          /\ p.id = id => After(p).body = Blank /\ After(p).author = NoAuthor
          /\ p.id # id => After(p) = p
    BY DEF Scrub, PostRow
  <2>3. \A q \in posts' : \E p \in posts : q = After(p)
    BY <2>1
  <2> HIDE DEF After
  <2>4. IdsUnique'
    <3>1. \A q \in posts' : q.id < minted'
      BY <2>1, <2>2 DEF IdsUnique
    <3>2. ASSUME NEW q \in posts', NEW r \in posts', q.id = r.id PROVE q = r
      BY <2>1, <2>2, <3>2 DEF IdsUnique
    <3>3. QED BY <3>1, <3>2 DEF IdsUnique
  <2>5. ThreadsNumbered'
    <3>1. ASSUME NEW t \in ThreadIds
          PROVE  {q.seq : q \in PostsIn(posts', t)} = 1..threads'[t].count
      <4>1. {q.seq : q \in PostsIn(posts', t)} = {p.seq : p \in PostsIn(posts, t)}
        BY <2>1, <2>2 DEF PostsIn
      <4>2. QED BY <4>1, <2>1 DEF ThreadsNumbered
    <3>2. ASSUME NEW q \in posts', NEW r \in posts',
                 q.thread = r.thread, q.seq = r.seq
          PROVE  q = r
      BY <2>1, <2>2, <3>2 DEF ThreadsNumbered
    <3>3. QED BY <3>1, <3>2 DEF ThreadsNumbered
  <2>6. TombstonesAreScrubbed'
    <3>1. {q.id : q \in {r \in posts' : r.body = Blank}}
            = {p.id : p \in {r \in posts : r.body = Blank}} \cup {id}
      BY <1>2, <2>1, <2>2
    <3>2. QED BY <3>1, <2>1 DEF TombstonesAreScrubbed
  <2>7. BlankIsAnonymous'
    BY <2>1, <2>2 DEF BlankIsAnonymous
  <2>8. ReferencesResolve'
    <3>1. {q.id : q \in posts'} = {p.id : p \in posts}
      BY <2>1, <2>2
    <3>2. \A q \in posts' : threads'[q.thread].there
      BY <2>1, <2>2 DEF ReferencesResolve
    <3>3. QED BY <1>2, <2>1, <3>1, <3>2 DEF ReferencesResolve
  <2>9. QED BY <2>4, <2>5, <2>6, <2>7, <2>8 DEF RowInv
<1>3. QED BY <1>1, <1>2

\* A sweep deletes whole threads, none of them a room's origin.
LEMMA SweepKeepsRows ==
  ASSUME BoardInv, DeleteDueThreads
  PROVE  RowInv'
<1> USE DEF BoardInv, TypeOK
<1> DEFINE ts == DueThreads(threads, day)
           gone == {p.id : p \in {q \in posts : q.thread \in ts}}
<1>1. /\ ts \subseteq ThreadIds
      /\ \A r \in rooms : r.origin \notin ts
      /\ \A t \in ThreadIds :
           threads'[t] = IF t \in ts THEN NoThread ELSE threads[t]
      /\ posts' = {p \in posts : p.thread \notin ts}
      /\ removals' = removals \ gone /\ reports' = reports \ gone
      /\ UNCHANGED <<rooms, minted>>
  BY DEF DeleteDueThreads, DeleteThreads, DueThreads, Pinned
<1> HIDE DEF ts
<1>2. IdsUnique' /\ BlankIsAnonymous'
  BY <1>1 DEF IdsUnique, BlankIsAnonymous
<1>3. ThreadsNumbered'
  <2>1. ASSUME NEW t \in ThreadIds
        PROVE  {q.seq : q \in PostsIn(posts', t)} = 1..threads'[t].count
    <3>1. CASE t \in ts
      <4>1. PostsIn(posts', t) = {} /\ threads'[t].count = 0
        BY <1>1, <3>1 DEF PostsIn, NoThread
      <4>2. QED BY <4>1
    <3>2. CASE t \notin ts
      <4>1. PostsIn(posts', t) = PostsIn(posts, t)
        BY <1>1, <3>2 DEF PostsIn
      <4>2. QED BY <1>1, <3>2, <4>1 DEF ThreadsNumbered
    <3>3. QED BY <3>1, <3>2
  <2>2. QED BY <1>1, <2>1 DEF ThreadsNumbered
<1>4. TombstonesAreScrubbed'
  <2>1. ASSUME NEW p \in posts PROVE p.id \in gone <=> p.thread \in ts
    BY DEF IdsUnique
  <2>2. QED BY <1>1, <2>1 DEF TombstonesAreScrubbed
<1>5. ReferencesResolve'
  <2>1. \A p \in posts' : threads'[p.thread].there
    BY <1>1 DEF ReferencesResolve, PostRow
  <2>2. removals' \cup reports' \subseteq {p.id : p \in posts'}
    <3>1. ASSUME NEW id \in removals' \cup reports' PROVE \E p \in posts' : p.id = id
      <4>1. id \in removals \cup reports /\ id \notin gone
        BY <1>1
      <4>2. PICK p \in posts : p.id = id
        BY <4>1 DEF ReferencesResolve
      <4>3. p.thread \notin ts
        BY <4>1, <4>2
      <4>4. QED BY <1>1, <4>2, <4>3
    <3>2. QED BY <3>1
  <2>3. \A r \in rooms' : threads'[r.origin].there
    BY <1>1 DEF ReferencesResolve
  <2>4. QED BY <2>1, <2>2, <2>3 DEF ReferencesResolve
<1>6. QED BY <1>2, <1>3, <1>4, <1>5 DEF RowInv

\* A report and a room are inserted only while what they refer to is there.
LEMMA ReferringInsertKeepsRows ==
  ASSUME BoardInv, NEW w \in Workers, ReportInsert(w) \/ RoomInsert(w)
  PROVE  RowInv'
<1> USE DEF BoardInv
<1>1. UNCHANGED <<threads, posts, removals, minted>>
  BY DEF ReportInsert, RoomInsert
<1>2. ReferencesResolve'
  BY <1>1 DEF ReferencesResolve, ReportInsert, RoomInsert, Exists
<1>3. QED
  BY <1>1, <1>2 DEF RowInv, IdsUnique, BlankIsAnonymous, ThreadsNumbered,
                    TombstonesAreScrubbed

-----------------------------------------------------------------------------
(* The invariant and what follows from it.                                 *)

\* Every step keeps the rows in order, whichever worker takes it.
LEMMA RowStep ==
  ASSUME BoardInv, [Next]_vars
  PROVE  RowInv'
<1>1. CASE rowTables' = rowTables
  BY <1>1 DEF BoardInv, rowTables, RowInv, IdsUnique, BlankIsAnonymous,
              ThreadsNumbered, TombstonesAreScrubbed, ReferencesResolve
<1>2. CASE rowTables' # rowTables
  BY <1>2, RowsFrame, ThreadInsertKeepsRows, PostInsertKeepsRows,
     DeleteCommitKeepsRows, SweepKeepsRows, ReferringInsertKeepsRows
<1>3. QED BY <1>1, <1>2

\* While an INSERT is under way its thread stays, and its count only grows.
LEMMA CountsGrow ==
  ASSUME BoardInv, [Next]_vars, NEW t \in ThreadIds, threads[t].there,
         ~DeleteDueThreads \/ t \notin DueThreads(threads, day)
  PROVE  threads'[t].there /\ threads'[t].count >= threads[t].count
<1> USE DEF BoardInv, TypeOK
<1>0. threads[t].count \in Nat
  BY DEF ThreadRow
<1>1. CASE threads' = threads
  BY <1>0, <1>1
<1>2. CASE threads' # threads /\ DeleteDueThreads
  BY <1>0, <1>2 DEF DeleteDueThreads, DeleteThreads
<1>3. ASSUME threads' # threads, NEW w \in Workers, ThreadInsert(w)
      PROVE  threads'[t].there /\ threads'[t].count >= threads[t].count
  <2>1. req[w].thread \in ThreadIds /\ req[w].thread # t
    BY <1>3 DEF ThreadInsert, ThreadRequests, Exists
  <2>2. QED BY <1>0, <1>3, <2>1 DEF ThreadInsert
<1>4. ASSUME threads' # threads, NEW w \in Workers, PostInsert(w)
      PROVE  threads'[t].there /\ threads'[t].count >= threads[t].count
  <2>1. req[w].thread \in ThreadIds
    BY <1>4 DEF PostInsert, ThreadRequests, PostRequests
  <2>2. threads' = Counted(threads, req[w].thread)
    BY <1>4 DEF PostInsert
  <2>3. QED BY <1>0, <2>1, <2>2 DEF Counted, ThreadRow
<1>5. ASSUME threads' # threads
      PROVE  DeleteDueThreads \/ \E w \in Workers : ThreadInsert(w) \/ PostInsert(w)
  BY <1>5, RowsFrame DEF rowTables, DeleteCommit, ReportInsert, RoomInsert
<1>6. QED BY <1>1, <1>2, <1>3, <1>4, <1>5

\* An INSERT's seq stays current until the INSERT is over.
LEMMA SeqStep ==
  ASSUME BoardInv, [Next]_vars
  PROVE  SeqIsCurrent'
<1> USE DEF BoardInv, TypeOK
<1> SUFFICES ASSUME NEW w \in Workers, pc'[w] = "post_insert"
             PROVE  /\ threads'[req'[w].thread].there
                    /\ seq'[w] \in 1..(threads'[req'[w].thread].count + 1)
  BY DEF SeqIsCurrent
<1>1. CASE pc'[w] = pc[w] /\ seq'[w] = seq[w]
  <2> DEFINE t == req[w].thread
  <2>1. /\ t \in ThreadIds /\ req'[w] = req[w]
        /\ threads[t].there /\ seq[w] \in 1..(threads[t].count + 1)
        /\ threads[t].count \in Nat
    <3>1. req[w] \in ThreadRequests \cup PostRequests
      BY <1>1
    <3>2. t \in ThreadIds
      BY <3>1 DEF ThreadRequests, PostRequests
    <3>3. QED BY <1>1, <3>2, WorkerFrame DEF SeqIsCurrent, ThreadRow
  <2>2. ~DeleteDueThreads \/ t \notin DueThreads(threads, day)
    BY <1>1 DEF DeleteDueThreads
  <2>3. threads'[t].there /\ threads'[t].count >= threads[t].count
    BY <2>1, <2>2, CountsGrow
  <2>4. threads'[t].count \in Nat
    BY <2>1, TypeStep DEF ThreadRow
  <2>5. QED BY <1>1, <2>1, <2>3, <2>4
<1>2. CASE PostSeq(w)
  <2> DEFINE t == req[w].thread
  <2>1. /\ t \in ThreadIds /\ req'[w] = req[w] /\ threads' = threads
        /\ threads[t].there /\ threads[t].count \in Nat
        /\ seq'[w] = NextSeq(posts, t)
    <3>1. req[w] \in ThreadRequests \cup PostRequests
      BY <1>2 DEF PostSeq
    <3>2. t \in ThreadIds
      BY <3>1 DEF ThreadRequests, PostRequests
    <3>3. QED BY <1>2, <3>2 DEF PostSeq, Exists, Goto, Moves, tables, ThreadRow
  <2>2. NextSeq(posts, t) = threads[t].count + 1
    BY <2>1, MaxOfInterval DEF NextSeq, ThreadsNumbered
  <2>3. QED BY <2>1, <2>2
<1>3. QED BY <1>1, <1>2, WorkerFrame

\* Posts only appear with a new id, disappear, or are scrubbed.
LEMMA PostsFrame ==
  ASSUME BoardInv, [Next]_vars, NEW q \in posts'
  PROVE  \/ q \in posts
         \/ q.id = minted /\ q.body # Blank
         \/ \E p \in posts, w \in Workers :
              q = Scrub(p) /\ DeleteCommit(w) /\ p.id = req[w].post
<1> USE DEF BoardInv, TypeOK
<1>1. CASE DeleteDueThreads
  BY <1>1 DEF DeleteDueThreads
<1>2. ASSUME NEW w \in Workers, ThreadInsert(w) \/ ReportInsert(w) \/ RoomInsert(w)
      PROVE  posts' = posts
  BY <1>2 DEF ThreadInsert, ReportInsert, RoomInsert
<1>3. ASSUME NEW w \in Workers, PostInsert(w)
      PROVE  q \in posts \/ (q.id = minted /\ q.body # Blank)
  <2>1. req[w].body \in Bodies
    BY <1>3 DEF PostInsert, ThreadRequests, PostRequests
  <2>2. QED BY <1>3, <2>1, BoardAssumption DEF PostInsert, NewPost
<1>4. ASSUME NEW w \in Workers, DeleteCommit(w)
      PROVE  q \in posts \/ \E p \in posts : q = Scrub(p) /\ p.id = req[w].post
  BY <1>4 DEF DeleteCommit
<1>5. CASE rowTables' = rowTables
  BY <1>5 DEF rowTables
<1>6. QED BY <1>1, <1>2, <1>3, <1>4, <1>5, RowsFrame

\* A delete stays owned until it is carried out.
LEMMA DeleteStep ==
  ASSUME BoardInv, [Next]_vars
  PROVE  DeleteIsOwned'
<1> USE DEF BoardInv, TypeOK
<1> SUFFICES ASSUME NEW w \in Workers, pc'[w] = "delete_commit"
             PROVE  /\ req'[w].post < minted'
                    /\ \A p \in posts' : p.id = req'[w].post =>
                         p.author = req'[w].key \/ p.body = Blank
  BY DEF DeleteIsOwned
<1>1. minted' \in Nat /\ minted' >= minted
  <2>1. minted' = minted \/ minted' = minted + 1
    BY RowsFrame DEF rowTables, ThreadInsert, PostInsert, DeleteCommit,
                     ReportInsert, RoomInsert, DeleteDueThreads
  <2>2. QED BY <2>1
<1>2. CASE pc'[w] = pc[w]
  <2>1. /\ req'[w] = req[w] /\ req[w].post \in Nat /\ req[w].post < minted
        /\ \A p \in posts : p.id = req[w].post =>
             p.author = req[w].key \/ p.body = Blank
    BY <1>2, WorkerFrame DEF DeleteIsOwned, DeleteRequests
  <2>2. ASSUME NEW q \in posts', q.id = req[w].post
        PROVE  q.author = req[w].key \/ q.body = Blank
    <3>1. CASE q \in posts
      BY <2>1, <2>2, <3>1
    <3>2. CASE q.id = minted
      BY <2>1, <2>2, <3>2
    <3>3. CASE \E p \in posts : q = Scrub(p)
      BY <3>3 DEF Scrub, PostRow
    <3>4. QED BY <3>1, <3>2, <3>3, PostsFrame
  <2>3. QED BY <1>1, <2>1, <2>2
<1>3. CASE DeleteAuthor(w)
  <2>1. req'[w] = req[w] /\ posts' = posts /\ minted' = minted
    BY <1>3 DEF DeleteAuthor, Check, Goto, Moves, tables
  <2>2. \E p \in posts : p.id = req[w].post /\ p.author = req[w].key
    BY <1>3 DEF DeleteAuthor, Check, Goto, Moves
  <2>3. QED BY <2>1, <2>2 DEF IdsUnique
<1>4. QED BY <1>2, <1>3, WorkerFrame

\* The invariant holds in every reachable state.
THEOREM BoardInvariant == Spec => []BoardInv
<1>1. Init => BoardInv
  <2>1. Init => TypeOK
    BY BoardAssumption, WorkloadAssumption
       DEF Init, TypeOK, NoThread, ThreadRow
  <2>2. ASSUME Init PROVE ThreadsNumbered
    <3>1. \A t \in ThreadIds : PostsIn(posts, t) = {} /\ threads[t].count = 0
      BY <2>2 DEF Init, PostsIn, NoThread
    <3>2. QED BY <2>2, <3>1 DEF ThreadsNumbered, Init
  <2>3. Init => /\ IdsUnique /\ BlankIsAnonymous /\ TombstonesAreScrubbed
                /\ ReferencesResolve /\ SeqIsCurrent /\ DeleteIsOwned
    BY DEF Init, IdsUnique, BlankIsAnonymous, TombstonesAreScrubbed,
           ReferencesResolve, SeqIsCurrent, DeleteIsOwned
  <2>4. QED BY <2>1, <2>2, <2>3 DEF BoardInv
<1>2. BoardInv /\ [Next]_vars => BoardInv'
  BY TypeStep, RowStep, SeqStep, DeleteStep DEF BoardInv, RowInv
<1>3. QED
  BY <1>1, <1>2, PTL DEF Spec

\* Every reachable state is well typed.
THEOREM TypeCorrect == Spec => []TypeOK
<1>1. BoardInv => TypeOK
  BY DEF BoardInv
<1>2. QED BY <1>1, BoardInvariant, PTL

\* However replies race, every thread stays numbered 1..post_count.
THEOREM ThreadsAreNumbered == Spec => []ThreadsNumbered
<1>1. BoardInv => ThreadsNumbered
  BY DEF BoardInv
<1>2. QED BY <1>1, BoardInvariant, PTL

\* A removed post has left nothing behind, and only removed posts are blank.
THEOREM RemovedPostsAreScrubbed == Spec => []TombstonesAreScrubbed
<1>1. BoardInv => TombstonesAreScrubbed
  BY DEF BoardInv
<1>2. QED BY <1>1, BoardInvariant, PTL

\* No row refers to one a sweep has deleted.
THEOREM ReferencesAreKept == Spec => []ReferencesResolve
<1>1. BoardInv => ReferencesResolve
  BY DEF BoardInv
<1>2. QED BY <1>1, BoardInvariant, PTL

\* Posts keep their number and content until their author scrubs them or
\* their thread expires.
THEOREM PostsStayStable == Spec => PostsAreStable
<1>1. BoardInv /\ [Next]_vars =>
        [\A p \in posts :
           threads'[p.thread].there => p \in posts' \/ Scrub(p) \in posts']_vars
  <2> SUFFICES ASSUME BoardInv, [Next]_vars, NEW p \in posts,
                      threads'[p.thread].there
               PROVE  p \in posts' \/ Scrub(p) \in posts'
    OBVIOUS
  <2>1. CASE DeleteDueThreads
    <3>1. p.thread \in ThreadIds
      BY DEF BoardInv, TypeOK, PostRow
    <3>2. QED
      BY <2>1, <3>1 DEF DeleteDueThreads, DeleteThreads, NoThread
  <2>2. ASSUME NEW w \in Workers,
               ThreadInsert(w) \/ PostInsert(w) \/ ReportInsert(w) \/ RoomInsert(w)
        PROVE  p \in posts'
    BY <2>2 DEF ThreadInsert, PostInsert, ReportInsert, RoomInsert
  <2>3. ASSUME NEW w \in Workers, DeleteCommit(w)
        PROVE  p \in posts' \/ Scrub(p) \in posts'
    BY <2>3 DEF DeleteCommit
  <2>4. CASE rowTables' = rowTables
    BY <2>4 DEF rowTables
  <2>5. QED BY <2>1, <2>2, <2>3, <2>4, RowsFrame
<1>2. QED BY <1>1, BoardInvariant, PTL DEF Spec, PostsAreStable

\* Only the key that signed a post takes its content away.
THEOREM DeletesAreAuthors == Spec => OnlyAuthorDeletes
<1>1. BoardInv /\ [Next]_vars =>
        [\A p \in posts :
           p.body # Blank /\ Scrub(p) \in posts' =>
             \E w \in Workers : /\ pc[w] = "delete_commit"
                                /\ req[w].post = p.id /\ req[w].key = p.author]_vars
  <2> SUFFICES ASSUME BoardInv, [Next]_vars, NEW p \in posts,
                      p.body # Blank, Scrub(p) \in posts'
               PROVE  \E w \in Workers :
                        /\ pc[w] = "delete_commit"
                        /\ req[w].post = p.id /\ req[w].key = p.author
    OBVIOUS
  <2> DEFINE q == Scrub(p)
  <2>0. p \in PostRow /\ q.id = p.id /\ q.body = Blank /\ p.id < minted
    BY DEF BoardInv, TypeOK, IdsUnique, Scrub, PostRow
  <2>1. q \notin posts
    BY <2>0 DEF BoardInv, IdsUnique
  <2>2. PICK r \in posts, w \in Workers :
          q = Scrub(r) /\ DeleteCommit(w) /\ r.id = req[w].post
    BY <2>0, <2>1, PostsFrame
  <2>3. r.id = p.id
    BY <2>0, <2>2 DEF Scrub, BoardInv, TypeOK, PostRow
  <2>4. pc[w] = "delete_commit" /\ req[w].post = p.id
    BY <2>2, <2>3 DEF DeleteCommit
  <2>5. req[w].key = p.author
    BY <2>0, <2>4 DEF BoardInv, DeleteIsOwned
  <2>6. QED BY <2>4, <2>5
<1>2. QED BY <1>1, BoardInvariant, PTL DEF Spec, OnlyAuthorDeletes

-----------------------------------------------------------------------------
(* Repeated texts.                                                         *)

Alike(b, d) == {p \in posts : p.body = b /\ p.day = d}

\* A worker that carries the date its post will have.
Dated(w) == pc[w] = "post_insert" \/ (pc[w] = "post_seq" /\ req[w].op = "thread")

\* The workers that have compared text `b` and may insert it with date `d`.
Compared(b, d) ==
  {w \in Workers : /\ pc[w] \in {"thread_insert", "post_seq", "post_insert"}
                   /\ req[w].body = b
                   /\ IF Dated(w) THEN date[w] = d ELSE day = d}

\* Dates lie in the past.  Once a text is there with a date, nobody compares
\* it with success on that day, so that its copies and those still to come all
\* belong to workers that had compared it when the first copy was inserted.
RepeatInv ==
  /\ IsFiniteSet(posts)
  /\ \A p \in posts : p.day <= day
  /\ \A w \in Workers : date[w] <= day
  /\ \A b \in Bodies, d \in Nat :
       Alike(b, d) = {} \/
         Cardinality(Alike(b, d)) + Cardinality(Compared(b, d))
           <= Cardinality(Workers)

\* Subsets of finite sets are finite and not larger.
LEMMA SmallerSet ==
  ASSUME NEW S, NEW T, IsFiniteSet(T), S \subseteq T
  PROVE  /\ IsFiniteSet(S)
         /\ Cardinality(S) \in Nat /\ Cardinality(T) \in Nat
         /\ Cardinality(S) <= Cardinality(T)
BY FS_Subset, FS_CardinalityType

\* One element more adds at most one.
LEMMA OneMore ==
  ASSUME NEW S, NEW x, IsFiniteSet(S)
  PROVE  /\ IsFiniteSet(S \cup {x})
         /\ Cardinality(S) \in Nat /\ Cardinality(S \cup {x}) \in Nat
         /\ Cardinality(S \cup {x}) <= Cardinality(S) + 1
<1>1. IsFiniteSet(S \cup {x}) /\ Cardinality(S) \in Nat
  BY FS_AddElement, FS_CardinalityType
<1>2. Cardinality(S \cup {x}) = Cardinality(S) \/
      Cardinality(S \cup {x}) = Cardinality(S) + 1
  BY FS_AddElement
<1>3. QED BY <1>1, <1>2

\* Fewer copies and fewer workers that may add one keep the bound.
LEMMA FewerRepeats ==
  ASSUME RepeatInv, NEW b \in Bodies, NEW d \in Nat,
         Alike(b, d)' \subseteq Alike(b, d),
         Alike(b, d) = {} \/ Compared(b, d)' \subseteq Compared(b, d)
  PROVE  Alike(b, d)' = {} \/
           Cardinality(Alike(b, d)') + Cardinality(Compared(b, d)')
             <= Cardinality(Workers)
<1> DEFINE A == Alike(b, d)  C == Compared(b, d)
           B == Alike(b, d)'  D == Compared(b, d)'
<1> SUFFICES ASSUME B # {}
             PROVE  Cardinality(B) + Cardinality(D) <= Cardinality(Workers)
  OBVIOUS
<1>1. /\ A # {} /\ B \subseteq A /\ D \subseteq C
      /\ A \subseteq posts /\ C \subseteq Workers
  BY DEF Alike, Compared
<1>2. IsFiniteSet(A) /\ IsFiniteSet(C)
  BY <1>1, FS_Subset, WorkloadAssumption DEF RepeatInv
<1>3. Cardinality(A) + Cardinality(C) <= Cardinality(Workers)
  BY <1>1 DEF RepeatInv
<1> HIDE DEF A, B, C, D
<1>4. /\ Cardinality(B) <= Cardinality(A) /\ Cardinality(D) <= Cardinality(C)
      /\ Cardinality(A) \in Nat /\ Cardinality(B) \in Nat
      /\ Cardinality(C) \in Nat /\ Cardinality(D) \in Nat
  BY <1>1, <1>2, SmallerSet
<1>5. Cardinality(Workers) \in Nat
  BY FS_CardinalityType, WorkloadAssumption
<1>6. QED BY <1>3, <1>4, <1>5

\* A worker comes to be among those that have compared a text only by
\* comparing it, on a day on which nobody has posted it.
LEMMA ComparedFrame ==
  ASSUME TypeOK, [Next]_vars, \A v \in Workers : date[v] <= day,
         NEW b \in Bodies, NEW d \in Nat, d <= day,
         Alike(b, d) # {}
  PROVE  Compared(b, d)' \subseteq Compared(b, d)
<1> USE DEF TypeOK
<1> SUFFICES ASSUME NEW w \in Workers, w \in Compared(b, d)'
             PROVE  w \in Compared(b, d)
  BY DEF Compared
<1>0. /\ pc'[w] \in {"thread_insert", "post_seq", "post_insert"}
      /\ req'[w].body = b
      /\ IF pc'[w] = "post_insert" \/ (pc'[w] = "post_seq" /\ req'[w].op = "thread")
           THEN date'[w] = d ELSE day' = d
  BY DEF Compared, Dated
<1>1. CASE /\ pc'[w] = pc[w] /\ req'[w] = req[w] /\ date'[w] = date[w]
           /\ day' = day \/ day' = day + 1
  BY <1>0, <1>1 DEF Compared, Dated
<1>2. CASE Moderate(w)
  <2>1. ~Rejected(req[w].body) /\ req'[w] = req[w] /\ day' = day
    BY <1>0, <1>2 DEF Moderate, Goto, Moves
  <2>2. \A p \in posts : p.body = b => p.day < day
    BY <1>0, <2>1 DEF Rejected, is_recent_duplicate, PostRow
  <2>3. d # day
    BY <2>2 DEF Alike, PostRow
  <2>4. /\ pc'[w] = IF req[w].op = "thread" THEN "thread_insert" ELSE "post_seq"
    BY <1>2, <2>1 DEF Moderate, Goto, Moves
  <2>5. QED BY <1>0, <2>1, <2>3, <2>4
<1>3. CASE ThreadInsert(w)
  <2>1. /\ pc[w] = "thread_insert" /\ req'[w] = req[w] /\ day' = day
        /\ pc'[w] = "post_seq" /\ date'[w] = day
    BY <1>0, <1>3 DEF ThreadInsert, Goto, Moves
  <2>2. req[w].op = "thread"
    BY <2>1 DEF ThreadRequests
  <2>3. QED BY <1>0, <2>1, <2>2 DEF Compared, Dated
<1>4. CASE PostSeq(w)
  <2>1. /\ pc[w] = "post_seq" /\ req'[w] = req[w] /\ day' = day
        /\ pc'[w] = "post_insert"
        /\ date'[w] = IF req[w].op = "post" THEN day ELSE date[w]
    BY <1>0, <1>4 DEF PostSeq, Goto, Moves
  <2>2. req[w].op \in {"thread", "post"}
    BY <2>1 DEF ThreadRequests, PostRequests
  <2>3. QED BY <1>0, <2>1, <2>2 DEF Compared, Dated
<1>5. ASSUME NEW v \in Workers, Submit(v) \/ Reply(v)
      PROVE  pc'[w] = pc[w] /\ req'[w] = req[w] /\ date'[w] = date[w] /\ day' = day
  BY <1>0, <1>5, WorkloadAssumption
     DEF Submit, Reply, FirstStep, Requests, ThreadRequests, PostRequests,
         ListRequests, RoomRequests, DeleteRequests, ReportRequests
<1>6. ~Crash
  BY <1>0 DEF Crash
<1>7. CASE Tick \/ DeleteDueThreads \/ UNCHANGED vars
  BY <1>1, <1>7 DEF Tick, DeleteDueThreads, vars, worker
<1>8. ASSUME NEW v \in Workers, Handler(v),
             ~(w = v /\ (Moderate(w) \/ ThreadInsert(w) \/ PostSeq(w)))
      PROVE  pc'[w] = pc[w] /\ req'[w] = req[w] /\ date'[w] = date[w] /\ day' = day
  BY <1>0, <1>8
     DEF Handler, PostThread, Moderate, LogReject, ThreadInsert, PostSeq,
       PostInsert, ListRows, FirstSeq, DeleteNonce, DeleteAuthor, DeleteCommit,
       ReportPost, ReportInsert, RoomNonce, RoomSigned, RoomAllowlist,
       RoomInsert, RecordNonce, Check, Goto, Moves
<1>9. QED
  BY <1>1, <1>2, <1>3, <1>4, <1>5, <1>6, <1>7, <1>8 DEF Next

\* An insert makes one worker that might have added a copy into one copy.
LEMMA InsertRepeats ==
  ASSUME TypeOK, RepeatInv, NEW w \in Workers, PostInsert(w),
         ~SeqTaken(posts, req[w].thread, seq[w]),
         NEW b \in Bodies, NEW d \in Nat, Alike(b, d)' # {}
  PROVE  Cardinality(Alike(b, d)') + Cardinality(Compared(b, d)')
           <= Cardinality(Workers)
<1> DEFINE p == NewPost(w)
           A == Alike(b, d)  C == Compared(b, d)
           B == Alike(b, d)'  D == Compared(b, d)'
<1>1. /\ pc[w] = "post_insert" /\ p.body = req[w].body /\ p.day = date[w]
      /\ posts' = posts \cup {p} /\ day' = day /\ req' = req /\ date' = date
      /\ pc'[w] \in {"ok", "first_seq"}
      /\ \A v \in Workers \ {w} : pc'[v] = pc[v]
  BY DEF PostInsert, NewPost, Goto, Moves, TypeOK
<1>2. A \subseteq posts /\ C \subseteq Workers /\ D \subseteq C \ {w}
  BY <1>1 DEF Alike, Compared, Dated
<1>3. IsFiniteSet(A) /\ IsFiniteSet(C) /\ IsFiniteSet(Workers)
  BY <1>2, FS_Subset, WorkloadAssumption DEF RepeatInv
<1>4. A # {} => Cardinality(A) + Cardinality(C) <= Cardinality(Workers)
  BY DEF RepeatInv
<1>5. CASE p.body = b /\ p.day = d
  <2>1. B = A \cup {p} /\ w \in C
    BY <1>1, <1>5 DEF Alike, Compared, Dated
  <2> HIDE DEF A, B, C, D, p
  <2>2. /\ Cardinality(B) <= Cardinality(A) + 1 /\ Cardinality(B) \in Nat
        /\ Cardinality(A) \in Nat
    BY <1>3, <2>1, OneMore
  <2>3. /\ Cardinality(C \ {w}) = Cardinality(C) - 1 /\ IsFiniteSet(C \ {w})
        /\ Cardinality(C) \in Nat
    BY <1>3, <2>1, FS_RemoveElement, FS_CardinalityType
  <2>4. Cardinality(D) <= Cardinality(C) - 1 /\ Cardinality(D) \in Nat
    BY <1>2, <2>3, SmallerSet
  <2>5. Cardinality(C) <= Cardinality(Workers) /\ Cardinality(Workers) \in Nat
    BY <1>2, <1>3, SmallerSet
  <2>6. CASE A = {}
    <3>1. Cardinality(A) = 0
      BY <2>6, FS_EmptySet
    <3>2. QED BY <2>2, <2>3, <2>4, <2>5, <3>1 DEF B, D
  <2>7. CASE A # {}
    BY <1>4, <2>2, <2>3, <2>4, <2>5, <2>7 DEF B, D
  <2>8. QED BY <2>6, <2>7
<1>6. CASE ~(p.body = b /\ p.day = d)
  <2>1. B \subseteq A /\ D \subseteq C
    BY <1>1, <1>2, <1>6 DEF Alike
  <2>2. QED BY <2>1, FewerRepeats
<1>7. QED BY <1>5, <1>6

\* No other step adds a copy.
LEMMA AlikeFrame ==
  ASSUME TypeOK, [Next]_vars,
         ~ \E w \in Workers : PostInsert(w) /\ ~SeqTaken(posts, req[w].thread, seq[w]),
         NEW b \in Bodies, NEW d \in Nat
  PROVE  Alike(b, d)' \subseteq Alike(b, d)
<1>1. CASE rowTables' = rowTables
  BY <1>1 DEF rowTables, Alike
<1>2. CASE DeleteDueThreads
  BY <1>2 DEF DeleteDueThreads, Alike
<1>3. ASSUME NEW w \in Workers, DeleteCommit(w)
      PROVE  Alike(b, d)' \subseteq Alike(b, d)
  <2>1. b # Blank
    BY BoardAssumption
  <2>2. \A p \in posts : Scrub(p).body = Blank
    BY DEF Scrub, TypeOK, PostRow
  <2>3. QED BY <1>3, <2>1, <2>2 DEF DeleteCommit, Alike
<1>4. ASSUME NEW w \in Workers,
             ThreadInsert(w) \/ PostInsert(w) \/ ReportInsert(w) \/ RoomInsert(w)
      PROVE  posts' = posts
  BY <1>4 DEF ThreadInsert, PostInsert, ReportInsert, RoomInsert
<1>5. QED BY <1>1, <1>2, <1>3, <1>4, RowsFrame DEF Alike

\* The invariant holds in every reachable state.
THEOREM RepeatInvariant == Spec => []RepeatInv
<1>1. Init => RepeatInv
  BY FS_EmptySet DEF Init, RepeatInv, Alike
<1>2. TypeOK /\ TypeOK' /\ RepeatInv /\ [Next]_vars => RepeatInv'
  <2> SUFFICES ASSUME TypeOK, TypeOK', RepeatInv, [Next]_vars PROVE RepeatInv'
    OBVIOUS
  <2>1. day \in Nat /\ day' \in Nat /\ (day' = day \/ day' = day + 1)
    BY DEF TypeOK, Next, Handler, Tick, Crash, DeleteDueThreads, Submit, Reply,
       PostThread, Moderate, LogReject, ThreadInsert, PostSeq,
       PostInsert, ListRows, FirstSeq, DeleteNonce, DeleteAuthor, DeleteCommit,
       ReportPost, ReportInsert, RoomNonce, RoomSigned, RoomAllowlist,
       RoomInsert, RecordNonce, Check, Goto, Moves, vars
  <2>2. IsFiniteSet(posts') /\ \A p \in posts' : p.day <= day'
    <3>1. CASE rowTables' = rowTables
      BY <2>1, <3>1 DEF rowTables, RepeatInv, TypeOK, PostRow
    <3>2. CASE DeleteDueThreads
      BY <2>1, <3>2, FS_Subset DEF DeleteDueThreads, RepeatInv, TypeOK, PostRow
    <3>3. ASSUME NEW w \in Workers, DeleteCommit(w)
          PROVE  IsFiniteSet(posts') /\ \A p \in posts' : p.day <= day'
      <4> DEFINE After(p) == IF p.id = req[w].post THEN Scrub(p) ELSE p
      <4>1. posts' = posts \/ posts' = {After(p) : p \in posts}
        BY <3>3 DEF DeleteCommit
      <4>2. \A p \in posts : After(p).day = p.day /\ p.day \in Nat
        BY DEF Scrub, TypeOK, PostRow
      <4> HIDE DEF After
      <4>3. IsFiniteSet({After(p) : p \in posts})
        <5> DEFINE f == [p \in posts |-> After(p)]
        <5>1. f \in Surjection(posts, {After(p) : p \in posts})
          BY DEF Surjection
        <5> HIDE DEF f
        <5>2. QED BY <5>1, FS_Surjection DEF RepeatInv
      <4>4. IsFiniteSet(posts')
        BY <4>1, <4>3 DEF RepeatInv
      <4>5. \A p \in posts : p.day <= day
        BY DEF RepeatInv
      <4>6. day' = day
        BY <3>3 DEF DeleteCommit, Goto, Moves
      <4>7. \A p \in posts' : p.day <= day'
        BY <4>1, <4>2, <4>5, <4>6
      <4>8. QED BY <4>4, <4>7
    <3>4. ASSUME NEW w \in Workers, PostInsert(w)
          PROVE  IsFiniteSet(posts') /\ \A p \in posts' : p.day <= day'
      <4>1. posts' = posts \/ posts' = posts \cup {NewPost(w)}
        BY <3>4 DEF PostInsert
      <4>2. NewPost(w).day = date[w] /\ date[w] <= day /\ date[w] \in Nat
        BY DEF NewPost, RepeatInv, TypeOK
      <4>3. IsFiniteSet(posts \cup {NewPost(w)})
        BY OneMore DEF RepeatInv
      <4>4. IsFiniteSet(posts')
        BY <4>1, <4>3 DEF RepeatInv
      <4>5. day' = day
        BY <3>4 DEF PostInsert, Goto, Moves
      <4>6. \A p \in posts : p.day <= day
        BY DEF RepeatInv
      <4>7. \A p \in posts' : p.day <= day'
        BY <4>1, <4>2, <4>5, <4>6
      <4>8. QED BY <4>4, <4>7
    <3>5. ASSUME NEW w \in Workers,
                 ThreadInsert(w) \/ ReportInsert(w) \/ RoomInsert(w)
          PROVE  posts' = posts
      BY <3>5 DEF ThreadInsert, ReportInsert, RoomInsert
    <3>6. CASE posts' = posts
      BY <2>1, <3>6 DEF RepeatInv, TypeOK, PostRow
    <3>7. QED BY <3>1, <3>2, <3>3, <3>4, <3>5, <3>6, RowsFrame
  <2>3. \A w \in Workers : date'[w] <= day'
    <3> SUFFICES ASSUME NEW w \in Workers PROVE date'[w] <= day'
      OBVIOUS
    <3>1. date'[w] \in {0, day, date[w]}
      <4>1. date \in [Workers -> Nat]
        BY DEF TypeOK
      <4>2. CASE Tick \/ Crash \/ DeleteDueThreads \/ UNCHANGED vars
        BY <4>2 DEF Tick, Crash, DeleteDueThreads, vars, worker
      <4>3. ASSUME NEW v \in Workers, Submit(v) \/ Reply(v)
            PROVE  date'[w] \in {0, day, date[w]}
        BY <4>1, <4>3 DEF Submit, Reply
      <4>4. ASSUME NEW v \in Workers, ThreadInsert(v) \/ PostSeq(v)
            PROVE  date'[w] \in {0, day, date[w]}
        BY <4>1, <4>4 DEF ThreadInsert, PostSeq, Goto
      <4>5. ASSUME NEW v \in Workers, Handler(v), ~ThreadInsert(v), ~PostSeq(v)
            PROVE  date' = date
        BY <4>5 DEF Handler, PostThread, Moderate, LogReject, PostInsert,
           ListRows, FirstSeq, DeleteNonce, DeleteAuthor, DeleteCommit,
           ReportPost, ReportInsert, RoomNonce, RoomSigned, RoomAllowlist,
           RoomInsert, RecordNonce, Check, Goto
      <4>6. QED BY <4>2, <4>3, <4>4, <4>5 DEF Next
    <3>2. QED BY <2>1, <3>1 DEF RepeatInv, TypeOK
  <2>4. ASSUME NEW b \in Bodies, NEW d \in Nat
        PROVE  Alike(b, d)' = {} \/
                 Cardinality(Alike(b, d)') + Cardinality(Compared(b, d)')
                   <= Cardinality(Workers)
    <3>1. CASE \E w \in Workers :
                 PostInsert(w) /\ ~SeqTaken(posts, req[w].thread, seq[w])
      BY <3>1, InsertRepeats
    <3>2. CASE ~ \E w \in Workers :
                 PostInsert(w) /\ ~SeqTaken(posts, req[w].thread, seq[w])
      <4>1. Alike(b, d)' \subseteq Alike(b, d)
        BY <3>2, AlikeFrame
      <4>2. Alike(b, d) = {} \/ Compared(b, d)' \subseteq Compared(b, d)
        <5>1. Alike(b, d) # {} => d <= day
          BY DEF Alike, RepeatInv
        <5>2. QED BY <5>1, ComparedFrame DEF RepeatInv
      <4>3. QED BY <4>1, <4>2, FewerRepeats
    <3>3. QED BY <3>1, <3>2
  <2>5. QED BY <2>2, <2>3, <2>4 DEF RepeatInv
<1>3. QED BY <1>1, <1>2, TypeCorrect, PTL DEF Spec

\* A text is repeated on one day only by requests served together.
THEOREM RepeatsAreBounded == Spec => []RepeatsBounded
<1>1. TypeOK /\ RepeatInv => RepeatsBounded
  <2> SUFFICES ASSUME TypeOK, RepeatInv, NEW b \in Bodies, NEW d \in 0..day
               PROVE  Cardinality(Alike(b, d)) <= Cardinality(Workers)
    BY DEF RepeatsBounded, Alike
  <2>1. /\ d \in Nat /\ Alike(b, d) \subseteq posts
        /\ Compared(b, d) \subseteq Workers
    BY DEF TypeOK, Alike, Compared
  <2>2. /\ Cardinality(Alike(b, d)) \in Nat
        /\ Cardinality(Compared(b, d)) \in Nat /\ Cardinality(Workers) \in Nat
    BY <2>1, SmallerSet, WorkloadAssumption DEF RepeatInv
  <2>3. Alike(b, d) = {} => Cardinality(Alike(b, d)) = 0
    BY FS_EmptySet
  <2>4. QED BY <2>1, <2>2, <2>3 DEF RepeatInv
<1>2. QED BY <1>1, TypeCorrect, RepeatInvariant, PTL
-----------------------------------------------------------------------------
(* Every thread is a log.                                                  *)

\* The seq with which an INSERT of a reply can succeed goes with a date that
\* no post of the thread is past.
LogInv ==
  \A w \in Workers :
    /\ pc[w] = "post_insert" /\ req[w].op = "post"
    /\ seq[w] = threads[req[w].thread].count + 1
    => \A p \in PostsIn(posts, req[w].thread) : p.day <= date[w]

\* A row that a step leaves behind was there before, with the same date, or is
\* counted as one more post of its thread.
LEMMA NewRows ==
  ASSUME BoardInv, [Next]_vars, NEW q \in posts'
  PROVE  \/ \E p \in posts : p.thread = q.thread /\ p.day = q.day
         \/ threads'[q.thread].count = threads[q.thread].count + 1
<1> USE DEF BoardInv, TypeOK
<1>1. CASE posts' \subseteq posts
  BY <1>1
<1>2. ASSUME NEW w \in Workers, PostInsert(w), q \notin posts
      PROVE  threads'[q.thread].count = threads[q.thread].count + 1
  <2>1. q = NewPost(w) /\ threads' = Counted(threads, req[w].thread)
    BY <1>2 DEF PostInsert
  <2>2. q.thread = req[w].thread /\ req[w].thread \in ThreadIds
    BY <1>2, <2>1 DEF NewPost, PostInsert, ThreadRequests, PostRequests
  <2>3. QED BY <2>1, <2>2 DEF Counted, ThreadRow
<1>3. ASSUME NEW w \in Workers, DeleteCommit(w)
      PROVE  \E p \in posts : p.thread = q.thread /\ p.day = q.day
  <2>1. q \in posts \/ \E p \in posts : q = Scrub(p)
    BY <1>3 DEF DeleteCommit
  <2>2. \A p \in posts : Scrub(p).thread = p.thread /\ Scrub(p).day = p.day
    BY DEF Scrub, PostRow
  <2>3. QED BY <2>1, <2>2
<1>4. QED
  BY <1>1, <1>2, <1>3, RowsFrame
     DEF rowTables, DeleteDueThreads, ThreadInsert, ReportInsert, RoomInsert

\* An INSERT under way keeps its date, and who takes its number first makes
\* the number one that is in use.
LEMMA LogStep ==
  ASSUME BoardInv, RepeatInv, LogInv, [Next]_vars
  PROVE  LogInv'
<1> USE DEF BoardInv, TypeOK
<1> SUFFICES ASSUME NEW w \in Workers, pc'[w] = "post_insert",
                    req'[w].op = "post",
                    seq'[w] = threads'[req'[w].thread].count + 1,
                    NEW q \in PostsIn(posts', req'[w].thread)
             PROVE  q.day <= date'[w]
  BY DEF LogInv
<1> DEFINE t == req[w].thread
<1>0. q \in posts' /\ q.thread = t /\ req'[w] = req[w]
  BY WorkerFrame DEF PostsIn
<1>1. CASE pc'[w] = pc[w] /\ seq'[w] = seq[w] /\ date'[w] = date[w]
  <2>1. /\ t \in ThreadIds /\ threads[t].there /\ threads[t].count \in Nat
        /\ seq[w] \in 1..(threads[t].count + 1)
    <3>1. req[w] \in ThreadRequests \cup PostRequests
      BY <1>1
    <3>2. t \in ThreadIds
      BY <3>1 DEF ThreadRequests, PostRequests
    <3>3. QED BY <1>1, <3>2 DEF SeqIsCurrent, ThreadRow
  <2>2. ~DeleteDueThreads \/ t \notin DueThreads(threads, day)
    BY <1>1 DEF DeleteDueThreads
  <2>3. threads'[t].count \in Nat /\ threads'[t].count >= threads[t].count
    BY <2>1, <2>2, CountsGrow, TypeStep DEF ThreadRow
  <2>4. threads'[t].count = threads[t].count /\ seq[w] = threads[t].count + 1
    BY <1>0, <1>1, <2>1, <2>3
  <2>5. \A p \in PostsIn(posts, t) : p.day <= date[w]
    BY <1>0, <1>1, <2>4 DEF LogInv
  <2>6. threads'[q.thread].count # threads[q.thread].count + 1
    BY <1>0, <2>1, <2>4
  <2>7. PICK p \in posts : p.thread = q.thread /\ p.day = q.day
    BY <1>0, <2>6, NewRows
  <2>8. QED BY <1>0, <1>1, <2>5, <2>7 DEF PostsIn
<1>2. CASE PostSeq(w)
  <2>1. posts' = posts /\ date'[w] = day
    BY <1>0, <1>2 DEF PostSeq, Goto, Moves, tables
  <2>2. QED BY <1>0, <2>1 DEF RepeatInv
<1>3. QED BY <1>1, <1>2, WorkerFrame

\* The dates of a thread follow its numbers in every reachable state.
THEOREM LogInvariant == Spec => []LogInv
<1>1. Init => LogInv
  BY DEF Init, LogInv
<1>2. BoardInv /\ RepeatInv /\ LogInv /\ [Next]_vars => LogInv'
  BY LogStep
<1>3. QED BY <1>1, <1>2, BoardInvariant, RepeatInvariant, PTL DEF Spec

\* What a thread may show under a number.
ShownPost == [body : Bodies \cup {Blank}, author : Key, day : Nat,
              opening : BOOLEAN]

\* A thread is a sequence as long as its count.
LEMMA LogType ==
  ASSUME NEW ths \in [ThreadIds -> ThreadRow], NEW rows \in SUBSET PostRow,
         NEW t \in ThreadIds
  PROVE  /\ LogOf(ths, rows, t) \in Seq(SUBSET ShownPost)
         /\ Len(LogOf(ths, rows, t)) = ths[t].count
         /\ DOMAIN LogOf(ths, rows, t) = 1..ths[t].count
         /\ ths[t].count \in Nat
<1> DEFINE n == ths[t].count
           log == LogOf(ths, rows, t)
<1>1. n \in Nat
  BY DEF ThreadRow
<1>2. \A p \in rows : Shown(p) \in ShownPost
  BY DEF PostRow, Key, Shown, ShownPost
<1>3. log \in [1..n -> SUBSET ShownPost]
  BY <1>2 DEF LogOf, PostsIn
<1>4. log \in Seq(SUBSET ShownPost)
  BY <1>1, <1>3, SeqDef
<1>5. DOMAIN log = 1..n
  BY <1>3
<1>6. DOMAIN log = 1..Len(log) /\ Len(log) \in Nat
  BY <1>4, LenProperties
<1>7. Len(log) = n
  BY <1>1, <1>5, <1>6
<1>8. QED BY <1>1, <1>4, <1>5, <1>7

\* A scrubbed post is shown without its body and author.
LEMMA ShownScrubbed ==
  ASSUME NEW p \in PostRow
  PROVE  Shown(Scrub(p)) = [Shown(p) EXCEPT !.body = Blank, !.author = NoAuthor]
<1> DEFINE row(b, a) == [body |-> b, author |-> a, day |-> p.day,
                         opening |-> p.opening]
<1>1. /\ Scrub(p).body = Blank /\ Scrub(p).author = NoAuthor
      /\ Scrub(p).day = p.day /\ Scrub(p).opening = p.opening
  BY DEF Scrub, PostRow
<1>2. Shown(Scrub(p)) = row(Blank, NoAuthor)
  BY <1>1 DEF Shown
<1>3. [row(p.body, p.author) EXCEPT !.body = Blank] = row(Blank, p.author)
  OBVIOUS
<1>4. [row(Blank, p.author) EXCEPT !.author = NoAuthor] = row(Blank, NoAuthor)
  OBVIOUS
<1>5. Shown(p) = row(p.body, p.author)
  BY DEF Shown
<1> HIDE DEF row
<1>6. [Shown(p) EXCEPT !.body = Blank, !.author = NoAuthor] =
        row(Blank, NoAuthor)
  <2>1. [Shown(p) EXCEPT !.body = Blank] = row(Blank, p.author)
    BY <1>3, <1>5
  <2>2. [[Shown(p) EXCEPT !.body = Blank] EXCEPT !.author = NoAuthor] =
          row(Blank, NoAuthor)
    BY <1>4, <2>1
  <2>3. QED BY <2>2
<1>7. QED BY <1>2, <1>6

\* The threads that exist and the logs they are: what ThreadLog speaks of.
Opened == {t \in ThreadIds : threads[t].there}
Logs == [t \in ThreadIds |-> LogOf(threads, posts, t)]

\* A thread's log before and after a step.
Old(t) == LogOf(threads, posts, t)
New(t) == LogOf(threads', posts', t)

\* A thread that is inserted is opened, with nothing in it.
LEMMA InsertOpens ==
  ASSUME BoardInv, NEW w \in Workers, ThreadInsert(w), threads' # threads
  PROVE  \E t \in ThreadIds : L!Open(t)
<1> USE DEF BoardInv, TypeOK
<1> DEFINE t == req[w].thread
<1>1. /\ t \in ThreadIds /\ posts' = posts /\ ~threads[t].there
      /\ threads'[t].there /\ threads'[t].count = 0
      /\ \A u \in ThreadIds \ {t} : threads'[u] = threads[u]
  BY DEF ThreadInsert, ThreadRequests, Exists
<1>2. threads[t].count = 0
  <2>1. PostsIn(posts, t) = {}
    BY <1>1 DEF ReferencesResolve, PostsIn
  <2>2. 1..threads[t].count = {} /\ threads[t].count \in Nat
    BY <1>1, <2>1 DEF ThreadsNumbered, ThreadRow
  <2>3. QED BY <2>2
<1>3. \A u \in ThreadIds : New(u) = Old(u)
  <2>1. \A u \in ThreadIds : threads'[u].count = threads[u].count
    BY <1>1, <1>2
  <2>2. QED BY <1>1, <2>1 DEF Old, New, LogOf
<1>4. Opened' = Opened \cup {t}
  BY <1>1 DEF Opened
<1>5. QED BY <1>1, <1>3, <1>4 DEF L!Open, Opened, Old, New

\* A post that is inserted takes the next number of its log.
LEMMA InsertWrites ==
  ASSUME BoardInv, BoardInv', LogInv, NEW w \in Workers, PostInsert(w),
         ~SeqTaken(posts, req[w].thread, seq[w])
  PROVE  \E t \in ThreadIds : L!Write(t)
<1> USE DEF BoardInv, TypeOK
<1> DEFINE t == req[w].thread
           p == NewPost(w)
           k == threads[t].count + 1
<1>1. req[w] \in ThreadRequests \cup PostRequests /\ pc[w] = "post_insert"
  BY DEF PostInsert
<1>2. /\ t \in ThreadIds /\ threads[t].there /\ threads[t].count \in Nat
      /\ seq[w] = k
  <2>1. t \in ThreadIds
    BY <1>1 DEF ThreadRequests, PostRequests
  <2>2. threads[t].there /\ seq[w] \in 1..k /\ threads[t].count \in Nat
    BY <1>1, <2>1 DEF SeqIsCurrent, ThreadRow
  <2>3. seq[w] \notin {q.seq : q \in PostsIn(posts, t)}
    BY DEF SeqTaken
  <2>4. seq[w] \notin 1..threads[t].count
    BY <2>1, <2>3 DEF ThreadsNumbered
  <2>5. QED BY <2>1, <2>2, <2>4
<1>3. /\ posts' = posts \cup {p} /\ threads' = Counted(threads, t)
      /\ p.thread = t /\ p.seq = k
  BY <1>2 DEF PostInsert, NewPost
<1>4. /\ \A u \in ThreadIds : threads'[u].there = threads[u].there
      /\ threads'[t].count = k
      /\ \A u \in ThreadIds \ {t} : threads'[u] = threads[u]
  BY <1>2, <1>3 DEF Counted, ThreadRow
<1>5. \A u \in ThreadIds \ {t} : New(u) = Old(u)
  <2>1. \A u \in ThreadIds \ {t} : PostsIn(posts', u) = PostsIn(posts, u)
    BY <1>3 DEF PostsIn
  <2>2. QED BY <1>4, <2>1 DEF Old, New, LogOf
<1>6. Shown(p) \in [body : Bodies, author : Key, day : Nat, opening : BOOLEAN]
  BY <1>1 DEF Shown, NewPost, Key, ThreadRequests, PostRequests
<1>7. New(t)[k] = {Shown(p)}
  <2>1. {q \in PostsIn(posts', t) : q.seq = k} = {p}
    BY <1>2, <1>3 DEF PostsIn, SeqTaken
  <2>2. New(t)[k] = {Shown(r) : r \in {q \in PostsIn(posts', t) : q.seq = k}}
    BY <1>2, <1>4 DEF Old, New, LogOf
  <2>3. QED BY <2>1, <2>2
<1>8. \A n \in 1..threads[t].count : New(t)[n] = Old(t)[n]
  <2> SUFFICES ASSUME NEW n \in 1..threads[t].count
               PROVE  New(t)[n] = Old(t)[n]
    OBVIOUS
  <2>1. n \in 1..threads'[t].count /\ n # k
    BY <1>2, <1>4
  <2>2. {q \in PostsIn(posts', t) : q.seq = n} = {q \in PostsIn(posts, t) : q.seq = n}
    BY <1>3, <2>1 DEF PostsIn
  <2>3. QED BY <2>1, <2>2 DEF Old, New, LogOf
<1>9. New(t) = Append(Old(t), {Shown(p)})
  <2> DEFINE S == SUBSET ShownPost
             old == Old(t)  new == New(t)
             app == Append(old, {Shown(p)})
  <2>1. old \in Seq(S) /\ Len(old) = threads[t].count
    BY <1>2, LogType DEF Old, New
  <2>2. new \in Seq(S) /\ Len(new) = k
    BY <1>2, <1>4, LogType DEF Old, New
  <2>3. {Shown(p)} \in S
    BY <1>6 DEF ShownPost
  <2> HIDE DEF S, old, new
  <2>4. /\ app \in Seq(S) /\ Len(app) = Len(old) + 1
        /\ \A n \in 1..Len(old) : app[n] = old[n]
        /\ app[Len(old) + 1] = {Shown(p)}
    BY <2>1, <2>3, AppendProperties
  <2> HIDE DEF app
  <2>5. ASSUME NEW n \in 1..Len(new) PROVE new[n] = app[n]
    <3>1. n = k \/ n \in 1..threads[t].count
      BY <1>2, <2>2
    <3>2. CASE n = k
      BY <1>7, <2>1, <2>4, <3>2 DEF new
    <3>3. CASE n \in 1..threads[t].count
      BY <1>8, <2>1, <2>4, <3>3 DEF new, old
    <3>4. QED BY <3>1, <3>2, <3>3
  <2>6. new = app
    BY <1>2, <2>1, <2>2, <2>4, <2>5, SeqEqual
  <2>7. QED BY <2>6 DEF new, app, old
<1>10. ASSUME NEW n \in 1..threads[t].count, NEW q \in Old(t)[n]
       PROVE  Shown(p).opening \/ q.day <= Shown(p).day
  <2>1. PICK r \in PostsIn(posts, t) : q = Shown(r)
    BY <1>10 DEF Old, New, LogOf
  <2>2. CASE req[w].op = "post"
    <3>1. r.day <= date[w]
      BY <1>1, <1>2, <2>1, <2>2 DEF LogInv
    <3>2. QED BY <2>1, <3>1 DEF Shown, NewPost
  <2>3. CASE req[w].op = "thread"
    BY <2>3 DEF Shown, NewPost
  <2>4. QED BY <1>1, <2>2, <2>3 DEF ThreadRequests, PostRequests
<1>11. L!Write(t)
  <2>1. Opened' = Opened /\ t \in Opened
    BY <1>2, <1>4 DEF Opened
  <2>2. Logs' = [Logs EXCEPT ![t] = Append(@, {Shown(p)})]
    BY <1>2, <1>5, <1>9 DEF Old, New, Logs
  <2>3. Logs[t] = Old(t) /\ Logs'[t] = New(t)
    BY <1>2 DEF Old, New, Logs
  <2>4. DOMAIN Logs[t] = 1..threads[t].count /\ Len(Logs[t]) + 1 = k
    <3>1. /\ DOMAIN Old(t) = 1..threads[t].count
          /\ Len(Old(t)) = threads[t].count
      <4>1. DOMAIN Old(t) = 1..threads[t].count
        BY DEF Old, LogOf
      <4>2. Len(Old(t)) = threads[t].count
        BY <1>2, LogType DEF Old
      <4>3. QED BY <4>1, <4>2
    <3>2. Len(Logs[t]) = threads[t].count
      BY <2>3, <3>1, Zenon
    <3>3. DOMAIN Logs[t] = 1..threads[t].count
      BY <2>3, <3>1, Zenon
    <3>4. QED BY <3>2, <3>3, Zenon
  <2>5. DOMAIN Logs'[t] = 1..k /\ Logs'[t][k] = {Shown(p)}
    <3>1. DOMAIN New(t) = 1..k
      BY <1>4 DEF New, LogOf
    <3>2. DOMAIN Logs'[t] = 1..k
      BY <2>3, <3>1, Zenon
    <3>3. Logs'[t][k] = {Shown(p)}
      BY <1>7, <2>3, Zenon
    <3>4. QED BY <3>2, <3>3
  <2>6. k \in DOMAIN Logs'[t]
    BY <1>2, <2>5
  <2>7. \A n \in DOMAIN Logs[t] : \A q \in Logs[t][n] :
          Shown(p).opening \/ q.day <= Shown(p).day
    BY <1>10, <2>3, <2>4
  <2>8. QED
    BY <1>6, <2>1, <2>2, <2>4, <2>5, <2>6, <2>7
       DEF L!Write, L!InOrder, Opened, Logs
<1>12. QED BY <1>2, <1>11

\* A delete that is committed scrubs the post under one number.
LEMMA DeleteScrubs ==
  ASSUME BoardInv, BoardInv', NEW w \in Workers, DeleteCommit(w), posts' # posts
  PROVE  \E t \in ThreadIds : \E n \in DOMAIN Old(t) : L!Scrub(t, n)
<1> USE DEF BoardInv, TypeOK
<1> DEFINE id == req[w].post
<1>1. /\ id \notin removals /\ \E p \in posts : p.id = id
      /\ posts' = {IF p.id = id THEN Scrub(p) ELSE p : p \in posts}
      /\ threads' = threads
  BY DEF DeleteCommit
<1>2. PICK p \in posts : p.id = id
  BY <1>1
<1> DEFINE t == p.thread  n == p.seq
<1>3. \A q \in posts : q.id = id => q = p
  BY <1>2 DEF IdsUnique
<1>4. posts' = (posts \ {p}) \cup {Scrub(p)}
  BY <1>1, <1>2, <1>3
<1>5. /\ p \in PostRow /\ Scrub(p).thread = t /\ Scrub(p).seq = n
      /\ Scrub(p).day = p.day /\ Scrub(p).opening = p.opening
      /\ Scrub(p).body = Blank /\ Scrub(p).author = NoAuthor
  BY DEF Scrub, PostRow
<1>6. p.body # Blank
  BY <1>1, <1>2 DEF TombstonesAreScrubbed
<1>7. t \in ThreadIds /\ n \in 1..threads[t].count /\ threads[t].count \in Nat
  BY <1>5 DEF ThreadsNumbered, PostsIn, PostRow, ThreadRow
<1>8. {q \in PostsIn(posts, t) : q.seq = n} = {p}
  BY DEF ThreadsNumbered, PostsIn
<1>9. {q \in PostsIn(posts', t) : q.seq = n} = {Scrub(p)}
  BY <1>4, <1>5, <1>8 DEF PostsIn
<1>10. Old(t)[n] = {Shown(p)} /\ New(t)[n] = {Shown(Scrub(p))}
  <2>1. /\ Old(t)[n] = {Shown(r) : r \in {q \in PostsIn(posts, t) : q.seq = n}}
        /\ New(t)[n] = {Shown(r) : r \in {q \in PostsIn(posts', t) : q.seq = n}}
    BY <1>1, <1>7 DEF Old, New, LogOf
  <2>2. QED BY <1>8, <1>9, <2>1
<1>11. ASSUME NEW u \in ThreadIds, NEW m \in 1..threads[u].count, u # t \/ m # n
       PROVE  New(u)[m] = Old(u)[m]
  <2>1. {q \in PostsIn(posts', u) : q.seq = m} = {q \in PostsIn(posts, u) : q.seq = m}
    BY <1>4, <1>5, <1>11 DEF PostsIn
  <2>2. QED BY <1>1, <2>1 DEF Old, New, LogOf
<1>12. Shown(Scrub(p)) = [Shown(p) EXCEPT !.body = Blank, !.author = NoAuthor]
  BY <1>5, ShownScrubbed
<1>13. \A u \in ThreadIds : DOMAIN Old(u) = 1..threads[u].count
                         /\ DOMAIN New(u) = 1..threads[u].count
  BY <1>1 DEF Old, New, LogOf
<1>14. Logs' = [Logs EXCEPT ![t][n] =
                  {[q EXCEPT !.body = Blank, !.author = NoAuthor] : q \in @}]
  <2>1. ASSUME NEW u \in ThreadIds \ {t} PROVE New(u) = Old(u)
    BY <1>1, <1>11 DEF Old, New, LogOf
  <2>2. New(t) = [Old(t) EXCEPT ![n] =
                       {[q EXCEPT !.body = Blank, !.author = NoAuthor] : q \in @}]
    <3> DEFINE new == [Old(t) EXCEPT ![n] =
                         {[q EXCEPT !.body = Blank, !.author = NoAuthor] : q \in @}]
    <3>1. new[n] = New(t)[n]
      BY <1>7, <1>10, <1>12, <1>13
    <3>2. \A m \in 1..threads[t].count : New(t)[m] = new[m]
      BY <1>7, <1>11, <3>1, <1>13
    <3>3. new = [m \in 1..threads[t].count |-> new[m]]
      BY <1>7, <1>13
    <3>4. New(t) = [m \in 1..threads[t].count |-> New(t)[m]]
      BY <1>1 DEF Old, New, LogOf
    <3> HIDE DEF new
    <3>5. New(t) = new
      BY <3>2, <3>3, <3>4
    <3>6. QED BY <3>5 DEF new
  <2>3. QED BY <1>7, <2>1, <2>2 DEF Old, New, Logs
<1>15. L!Scrub(t, n)
  <2>1. Opened' = Opened
    BY <1>1 DEF Opened
  <2>2. Logs[t][n] = {Shown(p)} /\ Shown(p).body # Blank
    BY <1>6, <1>7, <1>10 DEF Old, New, Logs, Shown
  <2>3. QED BY <1>14, <2>1, <2>2 DEF L!Scrub, Opened, Logs
<1>16. QED BY <1>7, <1>13, <1>15

\* A sweep that deletes closes the threads that are due, and only those.
LEMMA SweepExpires ==
  ASSUME BoardInv, DeleteDueThreads
  PROVE  \E T \in SUBSET ThreadIds : L!Expire(T)
<1> USE DEF BoardInv, TypeOK
<1>0. PICK ts : ts = DueThreads(threads, day)
  OBVIOUS
<1>1. /\ ts # {} /\ ts \subseteq Opened
      /\ \A t \in ThreadIds :
           threads'[t] = IF t \in ts THEN NoThread ELSE threads[t]
      /\ posts' = {p \in posts : p.thread \notin ts}
  BY <1>0 DEF DeleteDueThreads, DeleteThreads, DueThreads, Due, Opened
<1>2. Opened' = Opened \ ts
  BY <1>1 DEF Opened, NoThread
<1>3. ASSUME NEW t \in ts PROVE New(t) = <<>>
  <2>1. t \in ThreadIds /\ threads'[t].count = 0
    BY <1>1, <1>3 DEF NoThread, Opened
  <2>2. QED BY <2>1 DEF Old, New, LogOf
<1>4. ASSUME NEW t \in ThreadIds \ ts PROVE New(t) = Old(t)
  <2>1. PostsIn(posts', t) = PostsIn(posts, t)
    BY <1>1, <1>4 DEF PostsIn
  <2>2. QED BY <1>1, <1>4, <2>1 DEF Old, New, LogOf
<1>5. Logs' = [t \in ThreadIds |-> IF t \in ts THEN <<>> ELSE Logs[t]]
  BY <1>3, <1>4 DEF Old, New, Logs
<1>6. L!Expire(ts)
  BY <1>1, <1>2, <1>5 DEF L!Expire, Opened, Logs
<1>7. ts \in SUBSET ThreadIds
  BY <1>1 DEF Opened
<1>8. QED BY <1>6, <1>7

\* To its readers every thread is a numbered log, in which posts stay where
\* they are, are scrubbed at most once, and go only with the thread.
THEOREM RefinesThreadLog == Spec => ImplementsThreadLog
<1>1. Init => L!Init
  <2> SUFFICES ASSUME Init PROVE L!Init
    OBVIOUS
  <2>1. Opened = {} /\ \A t \in ThreadIds : threads[t].count = 0
    BY DEF Init, Opened, NoThread
  <2>2. \A t \in ThreadIds : Old(t) = <<>>
    BY <2>1 DEF Old, New, LogOf
  <2>3. QED BY <2>1, <2>2 DEF L!Init, Opened, Old
<1>2. BoardInv /\ BoardInv' /\ LogInv /\ [Next]_vars => [L!Next]_L!vars
  <2> SUFFICES ASSUME BoardInv, BoardInv', LogInv, [Next]_vars
               PROVE  [L!Next]_L!vars
    OBVIOUS
  <2>1. ASSUME threads' = threads, posts' = posts PROVE UNCHANGED L!vars
    BY <2>1 DEF L!vars, LogOf
  <2>2. CASE DeleteDueThreads
    BY <2>2, SweepExpires DEF L!Next
  <2>3. ASSUME NEW w \in Workers, ThreadInsert(w) PROVE [L!Next]_L!vars
    <3>1. posts' = posts
      BY <2>3 DEF ThreadInsert
    <3>2. CASE threads' = threads
      BY <2>1, <3>1, <3>2
    <3>3. CASE threads' # threads
      BY <2>3, <3>3, InsertOpens DEF L!Next
    <3>4. QED BY <3>2, <3>3
  <2>4. ASSUME NEW w \in Workers, PostInsert(w) PROVE [L!Next]_L!vars
    <3>1. CASE SeqTaken(posts, req[w].thread, seq[w])
      BY <2>1, <2>4, <3>1 DEF PostInsert
    <3>2. CASE ~SeqTaken(posts, req[w].thread, seq[w])
      BY <2>4, <3>2, InsertWrites DEF L!Next
    <3>3. QED BY <3>1, <3>2
  <2>5. ASSUME NEW w \in Workers, DeleteCommit(w) PROVE [L!Next]_L!vars
    <3>1. threads' = threads
      BY <2>5 DEF DeleteCommit
    <3>2. CASE posts' = posts
      BY <2>1, <3>1, <3>2
    <3>3. CASE posts' # posts
      <4>1. PICK t \in ThreadIds : \E n \in DOMAIN Old(t) : L!Scrub(t, n)
        BY <2>5, <3>3, DeleteScrubs
      <4>2. Logs[t] = Old(t)
        BY DEF Old, New, Logs
      <4>3. QED BY <4>1, <4>2 DEF L!Next, Logs
    <3>4. QED BY <3>2, <3>3
  <2>6. ASSUME NEW w \in Workers, ReportInsert(w) \/ RoomInsert(w)
        PROVE  [L!Next]_L!vars
    BY <2>1, <2>6 DEF ReportInsert, RoomInsert
  <2>7. CASE rowTables' = rowTables
    BY <2>1, <2>7 DEF rowTables
  <2>8. QED BY <2>2, <2>3, <2>4, <2>5, <2>6, <2>7, RowsFrame
<1>3. QED
  BY <1>1, <1>2, BoardInvariant, LogInvariant, PTL
     DEF Spec, ImplementsThreadLog, L!Spec
=============================================================================
