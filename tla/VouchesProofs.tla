--------------------------- MODULE VouchesProofs ---------------------------
(***************************************************************************)
(* Theorems about Vouches for every set of devices, posts and runs, every  *)
(* ring size and every bound.                                              *)
(***************************************************************************)
EXTENDS Vouches, TLAPS

-----------------------------------------------------------------------------
(* Types.                                                                  *)

\* The statements on the members' table keep it a table of rows.
LEMMA MembersTyped ==
  ASSUME rows \in [Boxes -> Row], NEW b \in Boxes, Member(b)
  PROVE  rows' \in [Boxes -> Row]
<1> USE VouchAssumption
<1>1. ASSUME NEW day \in 0..LastDay, Join(b, day) PROVE rows' \in [Boxes -> Row]
  BY <1>1 DEF Join, add_member, NewRow, Row
<1>2. ASSUME NEW inviter \in Boxes, Grant(b, inviter)
      PROVE  rows' \in [Boxes -> Row]
  BY <1>2 DEF Grant, grant_wrap, Row
<1>3. ASSUME Leave(b) PROVE rows' \in [Boxes -> Row]
  BY <1>3 DEF Leave, soft_remove_by_sig, Row
<1>4. ASSUME Remove(b) PROVE rows' \in [Boxes -> Row]
  BY <1>4 DEF Remove, remove_and_rekey, Row
<1>5. QED BY <1>1, <1>2, <1>3, <1>4 DEF Member

\* A run of maintainVouching that moves on is still a run.
LEMMA TurnType ==
  ASSUME NEW u \in Turn, NEW step \in {"idle", "off", "on", "signed", "checked"},
         NEW epoch \in Nat
  PROVE  /\ [u EXCEPT !.step = step, !.epoch = epoch] \in Turn
         /\ [u EXCEPT !.step = step] \in Turn
BY DEF Turn

\* A post that is under way keeps its author and its epoch as it moves on.
LEMMA PostType ==
  ASSUME NEW p \in Post, p.step # "none",
         NEW step \in {"built", "checked", "shown", "removed"}
  PROVE  /\ [p EXCEPT !.step = step] \in Post
         /\ [p EXCEPT !.step = step].step = step
         /\ [p EXCEPT !.step = step].by = p.by
         /\ [p EXCEPT !.step = step].epoch = p.epoch
BY DEF Post, NoPost

\* A step of the author or the server moves one post on.
LEMMA PostMoves ==
  ASSUME TypeOK, NEW i \in Posts, Author(i)
  PROVE  /\ post' \in [Posts -> Post]
         /\ \A j \in Posts : j # i => post'[j] = post[j]
         /\ \/ post'[i] = NoPost /\ post[i].step = "built"
            \/ /\ post'[i].step = "built" /\ post[i].step = "none"
               /\ RosterEpoch > 0 /\ post'[i].epoch = RosterEpoch
               /\ post'[i].by \in Boxes /\ post'[i].by \in rosters[RosterEpoch]
            \/ /\ post[i].step # "none" /\ post'[i].step # "none"
               /\ post'[i].by = post[i].by /\ post'[i].epoch = post[i].epoch
               /\ post[i].step \in {"shown", "removed"} =>
                    post'[i].step \in {"shown", "removed"}
<1> DEFINE Goal ==
      /\ post' \in [Posts -> Post]
      /\ \A j \in Posts : j # i => post'[j] = post[j]
      /\ \/ post'[i] = NoPost /\ post[i].step = "built"
         \/ /\ post'[i].step = "built" /\ post[i].step = "none"
            /\ RosterEpoch > 0 /\ post'[i].epoch = RosterEpoch
            /\ post'[i].by \in Boxes /\ post'[i].by \in rosters[RosterEpoch]
         \/ /\ post[i].step # "none" /\ post'[i].step # "none"
            /\ post'[i].by = post[i].by /\ post'[i].epoch = post[i].epoch
            /\ post[i].step \in {"shown", "removed"} =>
                 post'[i].step \in {"shown", "removed"}
<1>0. post \in [Posts -> Post] /\ RosterEpoch \in Nat
  BY DEF TypeOK, RosterEpoch
<1>1. ASSUME NEW b \in Boxes, BuildVouch(i, b) PROVE Goal
  BY <1>0, <1>1 DEF BuildVouch, OnTheRing, Post
<1>2. ASSUME NEW step \in {"checked", "shown", "removed"},
             post[i].step # "none",
             post[i].step \in {"shown", "removed"} => step = "removed",
             post' = [post EXCEPT ![i] = [@ EXCEPT !.step = step]]
      PROVE  Goal
  <2> DEFINE p == [post[i] EXCEPT !.step = step]
  <2>0. post[i] \in Post /\ step \in {"built", "checked", "shown", "removed"}
    BY <1>0
  <2>1. p \in Post /\ p.step = step /\ p.by = post[i].by /\ p.epoch = post[i].epoch
    BY <2>0, <1>2, PostType
  <2> HIDE DEF p
  <2>2. post' = [post EXCEPT ![i] = p]
    BY <1>2 DEF p
  <2>3. QED BY <1>0, <1>2, <2>1, <2>2
<1>3. ASSUME CheckVouch(i) PROVE Goal
  BY <1>3, <1>2 DEF CheckVouch
<1>4. ASSUME RefuseVouch(i) PROVE Goal
  BY <1>0, <1>4 DEF RefuseVouch, Post
<1>5. ASSUME InsertPost(i) PROVE Goal
  BY <1>5, <1>2 DEF InsertPost
<1>6. ASSUME RemovePost(i) PROVE Goal
  BY <1>6, <1>2 DEF RemovePost
<1>7. QED BY <1>1, <1>3, <1>4, <1>5, <1>6, VouchAssumption DEF Author

\* A step of the reader's page leaves the server and the other pages alone.
LEMMA ReaderFrame == Reader => UNCHANGED server
BY DEF Reader, ServeList, AnswerRoster, LoseAnswer, Render, Judge, Supersede

\* The other steps leave the reader's page alone.
LEMMA ServerFrame ==
  ASSUME \/ \E b \in Boxes : Member(b)
         \/ \E t \in Turns : Maintain(t) \/ Enable(t) \/ LoseRoster(t)
         \/ \E i \in Posts : Author(i)
  PROVE  UNCHANGED reader
<1>1. ASSUME NEW b \in Boxes, Member(b) PROVE UNCHANGED reader
  BY <1>1 DEF Member, Join, Grant, Leave, Remove
<1>2. ASSUME NEW t \in Turns, Maintain(t) \/ Enable(t) \/ LoseRoster(t)
      PROVE  UNCHANGED reader
  BY <1>2 DEF Maintain, Enable, LoseRoster, ReadMembers, Resign, KeepRoster,
    CheckRoster, RefuseRoster, InsertRoster, ConflictRoster, published
<1>3. ASSUME NEW i \in Posts, Author(i) PROVE UNCHANGED reader
  BY <1>3 DEF Author, BuildVouch, CheckVouch, RefuseVouch, InsertPost,
    RemovePost, board
<1>4. QED BY <1>1, <1>2, <1>3

\* Every reachable state is well typed.
THEOREM VouchesTyped == Spec => []TypeOK
<1> USE VouchAssumption
<1>1. Init => TypeOK
  BY DEF Init, TypeOK, Row, NewRow, NoRow, Turn, IdleTurn, Post, NewPage,
    Cache, NoCache
<1>2. TypeOK /\ [Next]_vars => TypeOK'
  <2> SUFFICES ASSUME TypeOK, [Next]_vars PROVE TypeOK'
    OBVIOUS
  <2>1. ASSUME NEW b \in Boxes, Member(b) PROVE TypeOK'
    <3>1. rows' \in [Boxes -> Row]
      BY <2>1, MembersTyped DEF TypeOK
    <3>2. UNCHANGED <<rosters, turn, post, reader, faults>>
      BY <2>1 DEF Member, Join, Grant, Leave, Remove
    <3>3. removedAt' \in [Boxes -> Nat]
      BY <2>1 DEF Member, Join, Grant, Leave, Remove, TypeOK, RosterEpoch
    <3>4. QED BY <3>1, <3>2, <3>3 DEF TypeOK, reader
  <2>2. ASSUME NEW t \in Turns, Maintain(t) \/ Enable(t) \/ LoseRoster(t)
        PROVE  TypeOK'
    <3>1. UNCHANGED published
      BY <2>2 DEF Maintain, Enable, LoseRoster, ReadMembers, Resign,
        KeepRoster, CheckRoster, RefuseRoster, InsertRoster, ConflictRoster
    <3>2. faults' \in 0..MaxFaults
      BY <2>2 DEF Maintain, Enable, LoseRoster, ReadMembers, Resign,
        KeepRoster, CheckRoster, RefuseRoster, InsertRoster, ConflictRoster,
        TypeOK
    <3>3. rosters' \in Seq(SUBSET Boxes)
      <4>1. ASSUME InsertRoster(t) PROVE rosters' \in Seq(SUBSET Boxes)
        <5>1. turn[t].ring \in SUBSET Boxes /\ rosters \in Seq(SUBSET Boxes)
          BY DEF TypeOK, Turn
        <5>2. QED BY <4>1, <5>1 DEF InsertRoster
      <4>2. ASSUME ~InsertRoster(t) PROVE rosters' = rosters
        BY <2>2, <4>2 DEF Maintain, Enable, LoseRoster, ReadMembers, Resign,
          KeepRoster, CheckRoster, RefuseRoster, ConflictRoster
      <4>3. QED BY <4>1, <4>2 DEF TypeOK
    <3>4. turn' \in [Turns -> Turn]
      <4>0. turn \in [Turns -> Turn] /\ IdleTurn \in Turn /\ RosterEpoch \in Nat
        BY DEF TypeOK, IdleTurn, Turn, RosterEpoch
      <4>1. ASSUME ReadMembers(t) PROVE turn' \in [Turns -> Turn]
        BY <4>0, <4>1 DEF ReadMembers, Turn, Accepted, Active
      <4>2. ASSUME Enable(t) PROVE turn' \in [Turns -> Turn]
        BY <4>0, <4>2, TurnType DEF Enable
      <4>3. ASSUME Resign(t) PROVE turn' \in [Turns -> Turn]
        <5>1. turn[t] \in Turn /\ RosterEpoch + 1 \in Nat
          BY <4>0
        <5>2. [turn[t] EXCEPT !.step = "signed", !.epoch = RosterEpoch + 1] \in Turn
          BY <5>1, TurnType
        <5>3. QED BY <4>0, <4>3, <5>2 DEF Resign
      <4>4. ASSUME CheckRoster(t) PROVE turn' \in [Turns -> Turn]
        BY <4>0, <4>4, TurnType DEF CheckRoster
      <4>5. CASE turn' = [turn EXCEPT ![t] = IdleTurn]
        BY <4>0, <4>5
      <4>6. QED BY <2>2, <4>1, <4>2, <4>3, <4>4, <4>5 DEF Maintain, LoseRoster,
        KeepRoster, RefuseRoster, InsertRoster, ConflictRoster
    <3>5. QED BY <3>1, <3>2, <3>3, <3>4 DEF TypeOK, published, reader
  <2>3. ASSUME NEW i \in Posts, Author(i) PROVE TypeOK'
    <3>1. UNCHANGED board
      BY <2>3 DEF Author, BuildVouch, CheckVouch, RefuseVouch, InsertPost,
        RemovePost
    <3>2. QED BY <2>3, <3>1, PostMoves DEF TypeOK, board, reader
  <2>4. ASSUME Reader PROVE TypeOK'
    <3>0. UNCHANGED server
      BY <2>4, ReaderFrame
    <3>1. ASSUME ServeList PROVE TypeOK'
      BY <3>0, <3>1 DEF ServeList, TypeOK, server, Shown
    <3>2. ASSUME AnswerRoster PROVE TypeOK'
      <4>1. PICK who \in creator_sig_pubkey(rows) :
              cache' = [cache EXCEPT !.step = "known", !.epoch = RosterEpoch,
                                     !.creator = who]
        BY <3>2 DEF AnswerRoster
      <4>2. who \in Sigs \cup {NoSig}
        BY <4>1 DEF creator_sig_pubkey, NoInviterRows, TypeOK, Row
      <4>3. cache' \in Cache
        <5>1. cache \in Cache /\ RosterEpoch \in Nat
          BY DEF TypeOK, RosterEpoch
        <5>2. QED BY <4>1, <4>2, <5>1 DEF Cache
      <4>4. QED BY <3>0, <3>2, <4>3 DEF AnswerRoster, TypeOK, server
    <3>3. ASSUME LoseAnswer PROVE TypeOK'
      BY <3>0, <3>3 DEF LoseAnswer, TypeOK, server, Cache
    <3>4. ASSUME NEW a \in answers, Render(a) PROVE TypeOK'
      <4>1. cache' \in Cache
        <5>1. \/ cache' = cache
              \/ cache' = [step |-> "asked", epoch |-> 0, creator |-> NoSig,
                           before |-> Stored]
          BY <3>4 DEF Render, NoCache
        <5>2. Stored \in SUBSET Posts /\ cache \in Cache
          BY DEF Stored, TypeOK
        <5>3. QED BY <5>1, <5>2 DEF Cache
      <4>2. page' = [render |-> a.render, current |-> a.posts,
                     verdict |-> [i \in Posts |-> "none"]]
        BY <3>4 DEF Render, NewPage
      <4>3. a.render \in 1..MaxLists /\ a.posts \in SUBSET Posts
        BY DEF TypeOK
      <4>4. judging' \subseteq (1..MaxLists) \X Posts
        BY <3>4, <4>3 DEF Render, TypeOK
      <4>5. page' \in [render : 0..MaxLists, current : SUBSET Posts,
                       verdict : [Posts -> {"none", "ok", "failed"}]]
        BY <4>2, <4>3
      <4>6. answers' \subseteq answers /\ lists' = lists
        BY <3>4 DEF Render
      <4>7. QED BY <3>0, <4>1, <4>4, <4>5, <4>6 DEF TypeOK, server
    <3>5. ASSUME NEW r \in 1..MaxLists, NEW i \in Posts, Judge(r, i)
          PROVE  TypeOK'
      <4>1. PICK v \in {"ok", "failed"} :
              page' = [page EXCEPT !.verdict = [@ EXCEPT ![i] = v]]
        BY <3>5 DEF Judge
      <4>2. page' \in [render : 0..MaxLists, current : SUBSET Posts,
                       verdict : [Posts -> {"none", "ok", "failed"}]]
        BY <4>1 DEF TypeOK
      <4>3. judging' \subseteq judging /\ UNCHANGED <<answers, lists, cache>>
        BY <3>5 DEF Judge
      <4>4. QED BY <3>0, <4>2, <4>3 DEF TypeOK, server
    <3>6. ASSUME NEW r \in 1..MaxLists, NEW i \in Posts, Supersede(r, i)
          PROVE  TypeOK'
      BY <3>0, <3>6 DEF Supersede, TypeOK, server
    <3>7. QED BY <2>4, <3>1, <3>2, <3>3, <3>4, <3>5, <3>6 DEF Reader
  <2>5. CASE UNCHANGED vars
    BY <2>5 DEF vars, TypeOK
  <2>6. QED BY <2>1, <2>2, <2>3, <2>4, <2>5 DEF Next
<1>3. QED BY <1>1, <1>2, PTL DEF Spec

-----------------------------------------------------------------------------
(* A removed member's vouches.                                             *)

\* The invariant behind RemovedVouchOldRosters.  A row carries its own device's
\* key.  A ring that the server has compared with the live members, and one
\* that is published, names a removed member only up to the epoch after the one
\* at which he left; and a vouch names a member of the roster it cites.
RosterInv ==
  /\ \A b \in Boxes : rows[b].status # "absent" => rows[b].sig = b
  /\ \A t \in Turns :
       turn[t].step \in {"signed", "checked"} => turn[t].epoch <= RosterEpoch + 1
  /\ \A t \in Turns : \A b \in turn[t].ring :
       (turn[t].step = "checked" /\ rows[b].status = "removed") =>
         turn[t].epoch <= removedAt[b] + 1
  /\ \A e \in 1..RosterEpoch : \A b \in rosters[e] :
       rows[b].status = "removed" => e <= removedAt[b] + 1
  /\ \A i \in Posts :
       post[i].step # "none" =>
         /\ post[i].by \in Boxes
         /\ post[i].epoch \in 1..RosterEpoch
         /\ post[i].by \in rosters[post[i].epoch]

\* A change of membership leaves a removed row removed, marks the row it
\* removes with the roster of the moment, and keeps the keys of the rows.
LEMMA MemberSteps ==
  ASSUME TypeOK, RosterInv, NEW b \in Boxes, Member(b)
  PROVE  /\ UNCHANGED <<rosters, turn, post>>
         /\ \A c \in Boxes :
              /\ rows'[c].status # "absent" => rows'[c].sig = c
              /\ rows'[c].status = "removed" =>
                   \/ rows[c].status = "removed" /\ removedAt'[c] = removedAt[c]
                   \/ removedAt'[c] = RosterEpoch
<1> USE VouchAssumption
<1> DEFINE Goal == /\ UNCHANGED <<rosters, turn, post>>
                   /\ \A c \in Boxes :
                        /\ rows'[c].status # "absent" => rows'[c].sig = c
                        /\ rows'[c].status = "removed" =>
                             \/ /\ rows[c].status = "removed"
                                /\ removedAt'[c] = removedAt[c]
                             \/ removedAt'[c] = RosterEpoch
<1>0. /\ rows \in [Boxes -> Row] /\ removedAt \in [Boxes -> Nat]
      /\ \A c \in Boxes : rows[c].status # "absent" => rows[c].sig = c
  BY DEF TypeOK, RosterInv
<1>1. ASSUME NEW day \in 0..LastDay, Join(b, day) PROVE Goal
  BY <1>0, <1>1 DEF Join, add_member, NewRow, Row
<1>2. ASSUME NEW inviter \in Boxes, Grant(b, inviter) PROVE Goal
  <2>1. /\ UNCHANGED <<rosters, turn, post, removedAt>>
        /\ rows' = [rows EXCEPT ![b].wrap = CreatorKey, ![b].inviter = inviter]
    BY <1>2 DEF Grant, grant_wrap
  <2>2. \A c \in Boxes : rows'[c].status = rows[c].status /\ rows'[c].sig = rows[c].sig
    BY <1>0, <2>1 DEF Row
  <2>3. QED BY <1>0, <2>1, <2>2
<1>3. ASSUME Leave(b) PROVE Goal
  <2>1. /\ UNCHANGED <<rosters, turn, post>>
        /\ removedAt' = [removedAt EXCEPT ![b] = RosterEpoch]
        /\ rows' = soft_remove_by_sig(rows, b)
    BY <1>3 DEF Leave
  <2>2. RowsOfSig(rows, b) \subseteq {b}
    BY <1>0 DEF RowsOfSig, Active
  <2>3. \A c \in Boxes : c # b => rows'[c] = rows[c] /\ removedAt'[c] = removedAt[c]
    BY <1>0, <2>1, <2>2 DEF soft_remove_by_sig
  <2>4. rows'[b].status # "absent" => rows'[b].sig = b
    BY <1>0, <2>1 DEF soft_remove_by_sig, RowsOfSig, Active, Row
  <2>5. removedAt'[b] = RosterEpoch
    BY <1>0, <2>1
  <2>6. QED BY <1>0, <2>1, <2>3, <2>4, <2>5
<1>4. ASSUME Remove(b) PROVE Goal
  <2>1. /\ UNCHANGED <<rosters, turn, post>>
        /\ removedAt' = [removedAt EXCEPT ![b] = RosterEpoch]
        /\ rows' = remove_and_rekey(rows, b, Active(rows) \ {b}, CreatorKey)
        /\ rows[b].status = "active"
    BY <1>4 DEF Remove, Active
  <2>2. \A c \in Boxes : c # b =>
          /\ rows'[c].status = rows[c].status /\ rows'[c].sig = rows[c].sig
          /\ removedAt'[c] = removedAt[c]
    BY <1>0, <2>1 DEF remove_and_rekey, Row
  <2>3. rows'[b].sig = b /\ removedAt'[b] = RosterEpoch
    BY <1>0, <2>1 DEF remove_and_rekey, Row
  <2>4. QED BY <1>0, <2>1, <2>2, <2>3
<1>5. QED BY <1>1, <1>2, <1>3, <1>4 DEF Member

\* RosterInv is inductive.
LEMMA RosterInvariant == Spec => []RosterInv
<1> USE VouchAssumption
<1>1. Init => RosterInv
  BY DEF Init, RosterInv, NewRow, NoRow, IdleTurn, NoPost, RosterEpoch
<1>2. TypeOK /\ RosterInv /\ [Next]_vars => RosterInv'
  <2> SUFFICES ASSUME TypeOK, RosterInv, [Next]_vars PROVE RosterInv'
    OBVIOUS
  <2>0. /\ RosterEpoch \in Nat /\ removedAt \in [Boxes -> Nat]
        /\ turn \in [Turns -> Turn] /\ rosters \in Seq(SUBSET Boxes)
        /\ post \in [Posts -> Post]
    BY DEF TypeOK, RosterEpoch
  <2>1. ASSUME NEW b \in Boxes, Member(b) PROVE RosterInv'
    <3>1. UNCHANGED <<rosters, turn, post>> /\ RosterEpoch' = RosterEpoch
      BY <2>1, MemberSteps DEF RosterEpoch
    <3>2. ASSUME NEW c \in Boxes, rows'[c].status = "removed",
                 NEW e \in Nat, e <= RosterEpoch + 1,
                 rows[c].status = "removed" => e <= removedAt[c] + 1
          PROVE  e <= removedAt'[c] + 1
      BY <2>0, <2>1, <3>2, MemberSteps
    <3>3. \A t \in Turns : \A c \in turn'[t].ring :
            (turn'[t].step = "checked" /\ rows'[c].status = "removed") =>
              turn'[t].epoch <= removedAt'[c] + 1
      <4> SUFFICES ASSUME NEW t \in Turns, NEW c \in turn[t].ring,
                          turn[t].step = "checked", rows'[c].status = "removed"
                   PROVE  turn[t].epoch <= removedAt'[c] + 1
        BY <3>1
      <4>1. c \in Boxes /\ turn[t].epoch \in Nat
        BY <2>0 DEF Turn
      <4>2. /\ turn[t].epoch <= RosterEpoch + 1
            /\ rows[c].status = "removed" => turn[t].epoch <= removedAt[c] + 1
        BY DEF RosterInv
      <4>3. QED BY <3>2, <4>1, <4>2
    <3>4. \A e \in 1..RosterEpoch : \A c \in rosters[e] :
            rows'[c].status = "removed" => e <= removedAt'[c] + 1
      <4> SUFFICES ASSUME NEW e \in 1..RosterEpoch, NEW c \in rosters[e],
                          rows'[c].status = "removed"
                   PROVE  e <= removedAt'[c] + 1
        OBVIOUS
      <4>1. c \in Boxes /\ e \in Nat /\ e <= RosterEpoch + 1
        BY <2>0 DEF RosterEpoch
      <4>2. rows[c].status = "removed" => e <= removedAt[c] + 1
        BY DEF RosterInv
      <4>3. QED BY <3>2, <4>1, <4>2
    <3>5. \A c \in Boxes : rows'[c].status # "absent" => rows'[c].sig = c
      BY <2>1, MemberSteps
    <3>6. QED BY <3>1, <3>3, <3>4, <3>5 DEF RosterInv
  <2>2. ASSUME NEW t \in Turns, Maintain(t) \/ Enable(t) \/ LoseRoster(t),
               ~InsertRoster(t)
        PROVE  RosterInv'
    <3>1. UNCHANGED <<rows, post, removedAt, rosters>> /\ RosterEpoch' = RosterEpoch
      BY <2>2 DEF Maintain, Enable, LoseRoster, ReadMembers, Resign, KeepRoster,
        CheckRoster, RefuseRoster, ConflictRoster, published, RosterEpoch
    <3>2. \A u \in Turns : u # t => turn'[u] = turn[u]
      BY <2>0, <2>2 DEF Maintain, Enable, LoseRoster, ReadMembers, Resign,
        KeepRoster, CheckRoster, RefuseRoster, ConflictRoster
    <3>3. /\ turn'[t].step \in {"signed", "checked"} =>
               turn'[t].epoch <= RosterEpoch + 1
          /\ turn'[t].step = "checked" => turn'[t].ring \subseteq Accepted(rows)
      <4>1. ASSUME ReadMembers(t)
            PROVE  turn'[t].step \notin {"signed", "checked"}
        BY <2>0, <4>1 DEF ReadMembers
      <4>2. ASSUME Enable(t)
            PROVE  turn'[t].step = "signed" /\ turn'[t].epoch <= RosterEpoch + 1
        BY <2>0, <4>2 DEF Enable, Turn
      <4>3. ASSUME Resign(t)
            PROVE  turn'[t].step = "signed" /\ turn'[t].epoch = RosterEpoch + 1
        <5>1. turn' = [turn EXCEPT ![t] =
                [turn[t] EXCEPT !.step = "signed", !.epoch = RosterEpoch + 1]]
          BY <4>3 DEF Resign
        <5>2. QED BY <2>0, <5>1 DEF Turn
      <4>4. ASSUME CheckRoster(t)
            PROVE  /\ turn'[t].epoch = RosterEpoch + 1
                   /\ turn'[t].ring \subseteq Accepted(rows)
        <5>1. turn'[t].epoch = turn[t].epoch /\ turn'[t].ring = turn[t].ring
          BY <2>0, <4>4 DEF CheckRoster, Turn
        <5>2. turn[t].ring = {rows[b].sig : b \in Accepted(rows)}
          BY <4>4 DEF CheckRoster, RosterAcceptable, RingIsLive
        <5>3. \A b \in Accepted(rows) : rows[b].sig = b
          BY DEF RosterInv, Accepted, Active
        <5>4. turn[t].ring \subseteq Accepted(rows)
          BY <5>2, <5>3
        <5>5. QED BY <4>4, <5>1, <5>4 DEF CheckRoster, RosterAcceptable
      <4>5. ASSUME turn' = [turn EXCEPT ![t] = IdleTurn]
            PROVE  turn'[t].step = "idle"
        BY <2>0, <4>5 DEF IdleTurn
      <4>6. QED BY <2>0, <2>2, <4>1, <4>2, <4>3, <4>4, <4>5 DEF Maintain,
        LoseRoster, KeepRoster, RefuseRoster, ConflictRoster
    <3>4. \A b \in Accepted(rows) : rows[b].status # "removed"
      BY DEF Accepted, Active
    <3>5. QED BY <3>1, <3>2, <3>3, <3>4 DEF RosterInv
  <2>3. ASSUME NEW t \in Turns, InsertRoster(t) PROVE RosterInv'
    <3>1. /\ rosters' = Append(rosters, turn[t].ring)
          /\ turn' = [turn EXCEPT ![t] = IdleTurn]
          /\ turn[t].step = "checked" /\ turn[t].epoch = RosterEpoch + 1
          /\ UNCHANGED <<rows, post, removedAt>>
      BY <2>3 DEF InsertRoster, published
    <3>2. turn[t].ring \in SUBSET Boxes
      BY <2>0 DEF Turn
    <3>3. /\ RosterEpoch' = RosterEpoch + 1
          /\ rosters'[RosterEpoch + 1] = turn[t].ring
          /\ \A e \in 1..RosterEpoch : rosters'[e] = rosters[e]
      BY <2>0, <3>1, <3>2 DEF RosterEpoch
    <3>4. \A u \in Turns :
            \/ turn'[u].step = "idle"
            \/ turn'[u] = turn[u]
      BY <2>0, <3>1 DEF IdleTurn
    <3>5. \A u \in Turns : turn[u].epoch \in Nat
      BY <2>0 DEF Turn
    <3>6. \A e \in 1..RosterEpoch' : \A b \in rosters'[e] :
            rows[b].status = "removed" => e <= removedAt[b] + 1
      <4> SUFFICES ASSUME NEW e \in 1..RosterEpoch', NEW b \in rosters'[e],
                          rows[b].status = "removed"
                   PROVE  e <= removedAt[b] + 1
        OBVIOUS
      <4>1. CASE e = RosterEpoch + 1
        BY <3>1, <3>3, <4>1 DEF RosterInv
      <4>2. CASE e # RosterEpoch + 1
        <5>1. e \in 1..RosterEpoch
          BY <2>0, <3>3, <4>2
        <5>2. QED BY <3>3, <5>1 DEF RosterInv
      <4>3. QED BY <4>1, <4>2
    <3>7. \A u \in Turns : turn'[u].step \in {"signed", "checked"} =>
            turn'[u].epoch <= RosterEpoch' + 1
      BY <2>0, <3>3, <3>4, <3>5 DEF RosterInv
    <3>8. \A u \in Turns : \A b \in turn'[u].ring :
            (turn'[u].step = "checked" /\ rows[b].status = "removed") =>
              turn'[u].epoch <= removedAt[b] + 1
      BY <3>4 DEF RosterInv
    <3>9. \A i \in Posts :
            post[i].step # "none" =>
              /\ post[i].by \in Boxes /\ post[i].epoch \in 1..RosterEpoch'
              /\ post[i].by \in rosters'[post[i].epoch]
      BY <2>0, <3>3 DEF RosterInv
    <3>10. QED BY <3>1, <3>6, <3>7, <3>8, <3>9 DEF RosterInv
  <2>4. ASSUME NEW i \in Posts, Author(i) PROVE RosterInv'
    <3>1. UNCHANGED <<rows, rosters, turn, removedAt>> /\ RosterEpoch' = RosterEpoch
      BY <2>4 DEF Author, BuildVouch, CheckVouch, RefuseVouch, InsertPost,
        RemovePost, board, RosterEpoch
    <3>2. \A j \in Posts :
            post'[j].step # "none" =>
              /\ post'[j].by \in Boxes /\ post'[j].epoch \in 1..RosterEpoch
              /\ post'[j].by \in rosters[post'[j].epoch]
      <4>1. ASSUME NEW j \in Posts, j # i PROVE post'[j] = post[j]
        BY <2>4, <4>1, PostMoves
      <4>2. post'[i].step # "none" =>
              /\ post'[i].by \in Boxes /\ post'[i].epoch \in 1..RosterEpoch
              /\ post'[i].by \in rosters[post'[i].epoch]
        BY <2>0, <2>4, PostMoves DEF RosterInv, NoPost
      <4>3. QED BY <4>1, <4>2 DEF RosterInv
    <3>3. QED BY <3>1, <3>2 DEF RosterInv
  <2>5. ASSUME Reader PROVE RosterInv'
    BY <2>5, ReaderFrame DEF server, RosterInv, RosterEpoch
  <2>6. CASE UNCHANGED vars
    BY <2>6 DEF vars, RosterInv, RosterEpoch
  <2>7. QED BY <2>1, <2>2, <2>3, <2>4, <2>5, <2>6 DEF Next
<1>3. QED BY <1>1, <1>2, VouchesTyped, PTL DEF Spec

\* The server stores no vouch of a removed member over a roster that was
\* compared with the live members after he was removed.
THEOREM RemovedVouchesAge == Spec => []RemovedVouchOldRosters
<1>1. RosterInv => RemovedVouchOldRosters
  BY DEF RosterInv, RemovedVouchOldRosters, Shown
<1>2. QED BY <1>1, RosterInvariant, PTL

-----------------------------------------------------------------------------
(* The reader's page.                                                      *)

\* The invariant behind VerdictsMatchThePage: a render happens once, and the
\* calls of verifyVouch that belong to the current one are about its posts.
RenderInv ==
  /\ VerdictsMatchThePage
  /\ \A a \in answers : a.render <= lists
  /\ \A a, b \in answers : a.render = b.render => a = b
  /\ \A r \in 1..MaxLists, i \in Posts :
       <<r, i>> \in judging =>
         /\ r <= lists
         /\ \A a \in answers : a.render # r
         /\ r = page.render => i \in page.current

\* RenderInv is inductive, and with it every verdict is about the page.
THEOREM VerdictsAreCurrent == Spec => []VerdictsMatchThePage
<1> USE VouchAssumption
<1>1. Init => RenderInv
  BY DEF Init, RenderInv, VerdictsMatchThePage, NewPage
<1>2. TypeOK /\ RenderInv /\ [Next]_vars => RenderInv'
  <2> SUFFICES ASSUME TypeOK, RenderInv, [Next]_vars PROVE RenderInv'
    OBVIOUS
  <2>0. /\ lists \in Nat /\ page.verdict \in [Posts -> {"none", "ok", "failed"}]
        /\ page \in [render : 0..MaxLists, current : SUBSET Posts,
                     verdict : [Posts -> {"none", "ok", "failed"}]]
        /\ \A a \in answers : a.render \in 1..MaxLists /\ a.posts \subseteq Posts
    BY DEF TypeOK
  <2>1. CASE UNCHANGED reader
    BY <2>1 DEF reader, RenderInv, VerdictsMatchThePage
  <2>2. ASSUME ServeList PROVE RenderInv'
    <3>1. PICK n \in Nat : n = lists + 1
      BY <2>0
    <3>2. /\ lists' = n /\ UNCHANGED <<page, judging>>
          /\ answers' = answers \cup {[render |-> n, posts |-> Shown]}
      BY <2>2, <3>1 DEF ServeList
    <3>3. \A a \in answers : a.render < n
      BY <2>0, <3>1 DEF RenderInv
    <3>4. \A a \in answers' : a \in answers \/ (a.render = n /\ a.posts = Shown)
      BY <3>2
    <3>5. \A a, b \in answers' : a.render = b.render => a = b
      BY <2>0, <3>1, <3>2, <3>3 DEF RenderInv
    <3>6. \A r \in 1..MaxLists, i \in Posts :
            <<r, i>> \in judging =>
              /\ r < n /\ \A a \in answers' : a.render # r
              /\ r = page.render => i \in page.current
      BY <2>0, <3>1, <3>4 DEF RenderInv
    <3>7. \A a \in answers' : a.render <= n
      BY <2>0, <3>1, <3>3, <3>4
    <3>8. QED BY <2>0, <3>1, <3>2, <3>5, <3>6, <3>7 DEF RenderInv,
      VerdictsMatchThePage
  <2>3. ASSUME AnswerRoster \/ LoseAnswer PROVE RenderInv'
    BY <2>3 DEF AnswerRoster, LoseAnswer, RenderInv, VerdictsMatchThePage
  <2>4. ASSUME NEW a \in answers, Render(a) PROVE RenderInv'
    <3>1. /\ answers' = answers \ {a} /\ lists' = lists
          /\ judging' = judging \cup ({a.render} \X a.posts)
          /\ page' = [render |-> a.render, current |-> a.posts,
                      verdict |-> [i \in Posts |-> "none"]]
      BY <2>4 DEF Render, NewPage
    <3>2. \A b \in answers' : b \in answers /\ b.render # a.render
      BY <3>1 DEF RenderInv
    <3>3. \A r \in 1..MaxLists, i \in Posts :
            <<r, i>> \in judging' =>
              /\ r <= lists
              /\ \A b \in answers' : b.render # r
              /\ r = a.render => i \in a.posts
      <4> SUFFICES ASSUME NEW r \in 1..MaxLists, NEW i \in Posts,
                          <<r, i>> \in judging'
                   PROVE  /\ r <= lists
                          /\ \A b \in answers' : b.render # r
                          /\ r = a.render => i \in a.posts
        OBVIOUS
      <4>1. CASE <<r, i>> \in judging
        BY <3>2, <4>1 DEF RenderInv
      <4>2. CASE r = a.render /\ i \in a.posts
        BY <3>2, <4>2 DEF RenderInv
      <4>3. QED BY <3>1, <4>1, <4>2
    <3>4. VerdictsMatchThePage'
      BY <3>1 DEF VerdictsMatchThePage
    <3>5. page'.render = a.render /\ page'.current = a.posts
      BY <3>1
    <3>6. QED BY <3>1, <3>2, <3>3, <3>4, <3>5 DEF RenderInv
  <2>5. ASSUME NEW r \in 1..MaxLists, NEW i \in Posts, Judge(r, i)
        PROVE  RenderInv'
    <3>1. PICK v \in {"ok", "failed"} :
            page' = [page EXCEPT !.verdict = [@ EXCEPT ![i] = v]]
      BY <2>5 DEF Judge
    <3>2. /\ page'.render = page.render /\ page'.current = page.current
          /\ \A j \in Posts : j # i => page'.verdict[j] = page.verdict[j]
      BY <2>0, <3>1
    <3>3. i \in page.current
      BY <2>5 DEF Judge, IsCurrent, RenderInv
    <3>4. judging' \subseteq judging /\ UNCHANGED <<answers, lists>>
      BY <2>5 DEF Judge
    <3>5. VerdictsMatchThePage'
      BY <3>2, <3>3 DEF RenderInv, VerdictsMatchThePage
    <3>6. QED BY <3>2, <3>4, <3>5 DEF RenderInv
  <2>6. ASSUME NEW r \in 1..MaxLists, NEW i \in Posts, Supersede(r, i)
        PROVE  RenderInv'
    BY <2>6 DEF Supersede, RenderInv, VerdictsMatchThePage
  <2>7. ASSUME Reader PROVE RenderInv'
    BY <2>7, <2>2, <2>3, <2>4, <2>5, <2>6 DEF Reader
  <2>8. CASE UNCHANGED vars
    BY <2>1, <2>8 DEF vars, reader
  <2>9. QED BY <2>1, <2>7, <2>8, ServerFrame DEF Next
<1>3. RenderInv => VerdictsMatchThePage
  BY DEF RenderInv
<1>4. QED BY <1>1, <1>2, <1>3, VouchesTyped, PTL DEF Spec

\* The invariant behind OldVouchesStand: a post that was stored when the page
\* asked cites a roster that the answer covers, and nothing is judged before
\* the request is settled.
CacheInv ==
  /\ OldVouchesStand
  /\ cache.step = "none" => cache.before = {}
  /\ cache.step \in {"none", "asked"} =>
       \A i \in Posts : page.verdict[i] = "none"
  /\ \A i \in cache.before :
       /\ i \in Posts
       /\ post[i].step \in {"shown", "removed"}
       /\ cache.step = "known" => post[i].epoch \in 1..cache.epoch

\* CacheInv is inductive, so older vouches are not spoiled by later rosters.
THEOREM StoredVouchesHold == Spec => []OldVouchesStand
<1> USE VouchAssumption
<1>1. Init => CacheInv
  BY DEF Init, CacheInv, OldVouchesStand, NewPage, NoCache
<1>2. TypeOK /\ RosterInv /\ CacheInv /\ [Next]_vars => CacheInv'
  <2> SUFFICES ASSUME TypeOK, RosterInv, CacheInv, [Next]_vars PROVE CacheInv'
    OBVIOUS
  <2>0. /\ RosterEpoch \in Nat /\ cache \in Cache /\ post \in [Posts -> Post]
        /\ page \in [render : 0..MaxLists, current : SUBSET Posts,
                     verdict : [Posts -> {"none", "ok", "failed"}]]
    BY DEF TypeOK, RosterEpoch
  <2>1. ASSUME UNCHANGED <<page, cache, post>> PROVE CacheInv'
    BY <2>1 DEF CacheInv, OldVouchesStand
  <2>2. ASSUME NEW b \in Boxes, Member(b) PROVE CacheInv'
    BY <2>1, <2>2 DEF Member, Join, Grant, Leave, Remove, reader
  <2>3. ASSUME NEW t \in Turns, Maintain(t) \/ Enable(t) \/ LoseRoster(t)
        PROVE  CacheInv'
    BY <2>1, <2>3 DEF Maintain, Enable, LoseRoster, ReadMembers, Resign,
      KeepRoster, CheckRoster, RefuseRoster, InsertRoster, ConflictRoster,
      published, reader
  <2>4. ASSUME NEW i \in Posts, Author(i) PROVE CacheInv'
    <3>1. UNCHANGED <<page, cache>>
      BY <2>4, ServerFrame DEF reader
    <3>2. \A j \in cache.before :
            j \in Posts /\ post[j].step \in {"shown", "removed"}
      BY DEF CacheInv
    <3>3. \A j \in cache.before :
            /\ post'[j].step \in {"shown", "removed"}
            /\ post'[j].epoch = post[j].epoch
      BY <2>4, <3>2, PostMoves
    <3>4. QED BY <3>1, <3>3 DEF CacheInv, OldVouchesStand
  <2>5. ASSUME ServeList PROVE CacheInv'
    BY <2>1, <2>5 DEF ServeList, server
  <2>6. ASSUME AnswerRoster PROVE CacheInv'
    <3>1. PICK who \in creator_sig_pubkey(rows) :
            cache' = [cache EXCEPT !.step = "known", !.epoch = RosterEpoch,
                                   !.creator = who]
      BY <2>6 DEF AnswerRoster
    <3>2. cache'.step = "known" /\ cache'.epoch = RosterEpoch
          /\ cache'.before = cache.before
      BY <2>0, <3>1 DEF Cache
    <3>3. UNCHANGED <<page, post>> /\ cache.step = "asked"
      BY <2>6 DEF AnswerRoster, server
    <3>4. \A i \in cache.before :
            i \in Posts /\ post[i].step # "none" /\ page.verdict[i] = "none"
      BY <3>3 DEF CacheInv
    <3>5. \A i \in cache.before : post[i].epoch \in 1..RosterEpoch
      BY <3>4 DEF RosterInv
    <3>6. QED BY <3>2, <3>3, <3>4, <3>5 DEF CacheInv, OldVouchesStand
  <2>7. ASSUME LoseAnswer PROVE CacheInv'
    <3>1. /\ cache'.step = "failed" /\ cache'.before = cache.before
          /\ UNCHANGED <<page, post>>
      BY <2>0, <2>7 DEF LoseAnswer, server, Cache
    <3>2. QED BY <3>1 DEF CacheInv, OldVouchesStand
  <2>8. ASSUME NEW a \in answers, Render(a) PROVE CacheInv'
    <3>1. \A i \in Posts : page'.verdict[i] = "none"
      BY <2>8 DEF Render, NewPage
    <3>2. post' = post
      BY <2>8 DEF Render, server
    <3>3. CASE cache' = cache
      BY <3>1, <3>2, <3>3 DEF CacheInv, OldVouchesStand
    <3>4. CASE cache' = [step |-> "asked", epoch |-> 0, creator |-> NoSig,
                         before |-> Stored]
      BY <3>1, <3>2, <3>4 DEF CacheInv, OldVouchesStand, Stored
    <3>5. QED BY <2>8, <3>3, <3>4 DEF Render, NoCache
  <2>9. ASSUME NEW r \in 1..MaxLists, NEW i \in Posts, Judge(r, i)
        PROVE  CacheInv'
    <3>1. PICK v \in {"ok", "failed"} :
            /\ v = "ok" <=> Verifies(i)
            /\ page' = [page EXCEPT !.verdict = [@ EXCEPT ![i] = v]]
      BY <2>9 DEF Judge
    <3>2. UNCHANGED <<cache, post>> /\ cache.step \in {"known", "failed"}
      BY <2>9 DEF Judge, Settled, server
    <3>3. /\ \A j \in Posts : j # i => page'.verdict[j] = page.verdict[j]
          /\ page'.verdict[i] = v
      BY <2>0, <3>1
    <3>4. (i \in cache.before /\ v = "failed") =>
            cache.step = "failed" \/ cache.creator # Creator
      BY <3>1, <3>2 DEF Verifies, CacheInv
    <3>5. QED BY <3>2, <3>3, <3>4 DEF CacheInv, OldVouchesStand
  <2>10. ASSUME NEW r \in 1..MaxLists, NEW i \in Posts, Supersede(r, i)
         PROVE  CacheInv'
    BY <2>1, <2>10 DEF Supersede, server
  <2>11. ASSUME Reader PROVE CacheInv'
    BY <2>11, <2>5, <2>6, <2>7, <2>8, <2>9, <2>10 DEF Reader
  <2>12. CASE UNCHANGED vars
    BY <2>1, <2>12 DEF vars
  <2>13. QED BY <2>2, <2>3, <2>4, <2>11, <2>12 DEF Next
<1>3. CacheInv => OldVouchesStand
  BY DEF CacheInv
<1>4. QED BY <1>1, <1>2, <1>3, VouchesTyped, RosterInvariant, PTL DEF Spec
=============================================================================
