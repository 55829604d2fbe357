------------------------------ MODULE Vouches ------------------------------
(***************************************************************************)
(* Vouches: a member of a private room signs a public post in the name of  *)
(* the room, and a reader of the thread verifies it.  The room's creator   *)
(* publishes the ring of accepted members as numbered signed rosters       *)
(* (client pages/room.ts maintainVouching, server logic/rooms.rs), a       *)
(* member's page builds a vouch over the current ring (lib/vouch.ts), the  *)
(* server compares it with the current roster and stores it with the post  *)
(* (logic/posts.rs), and a thread page judges the vouches it shows with    *)
(* the one roster answer it keeps (lib/vouch.ts, pages/thread.ts).         *)
(*                                                                         *)
(* One room, one thread, one life of one reader's page (a reload begins    *)
(* another); changes of membership are single steps, RoomServer has them.  *)
(* A device makes one box key and one signing key per room, so one value   *)
(* stands for both.  A ring signature is the member who made it: it        *)
(* verifies over exactly the ring and epoch it was made for.               *)
(***************************************************************************)
EXTENDS RoomTables, Sequences

CONSTANTS
  Creator, CreatorKey,  \* the device and the key the room is created with
  LastDay,              \* bound: the days on which members join are 0..LastDay
  Turns,                \* bound: runs of maintainVouching under way at once
  Posts,                \* bound: the vouched posts of the thread
  Vouchers,             \* bound: the devices that vouch for them
  MaxRing,              \* VOUCH_MAX_RING
  MaxLists,             \* bound: requests for the thread's posts
  MaxFaults             \* bound: requests of the creator's page that are lost

VARIABLES
  rows,       \* room_members
  rosters,    \* room_rosters by epoch; its length is rooms.roster_epoch
  turn,       \* the creator's page: each run of maintainVouching
  post,       \* each vouched post, from its author's page into the table
  answers,    \* lists of posts on their way to the reader
  lists,      \* requests for the posts so far
  page,       \* the reader: currentPosts and verdicts
  cache,      \* the reader: the room's entry in rosterCache
  judging,    \* the reader: calls of verifyVouch that have not returned
  removedAt,  \* history: the roster epoch when a member was removed
  faults      \* requests of the creator's page lost so far

vars == <<rows, rosters, turn, post, answers, lists, page, cache, judging,
          removedAt, faults>>

ASSUME VouchAssumption ==
  /\ Sigs = Boxes
  /\ Creator \in Boxes /\ CreatorKey \in Keys /\ Vouchers \subseteq Boxes
  /\ LastDay \in Nat /\ MaxRing \in Nat \ {0}
  /\ MaxLists \in Nat /\ MaxFaults \in Nat

\* A run has the member list, which said that vouching is off or on; it has
\* sent a roster; the server has checked it.
Turn == [step : {"idle", "off", "on", "signed", "checked"}, epoch : Nat,
         ring : SUBSET Boxes]

IdleTurn == [step |-> "idle", epoch |-> 0, ring |-> {}]

NoPost == [step |-> "none", by |-> NoBox, epoch |-> 0]

\* A post exists only with a voucher and the epoch of a published roster.
Post == {NoPost} \cup
        [step : {"built", "checked", "shown", "removed"}, by : Boxes,
         epoch : Nat \ {0}]

Cache == [step : {"none", "asked", "failed", "known"}, epoch : Nat,
          creator : Sigs \cup {NoSig},
          before : SUBSET Posts]   \* history: posts stored when it was asked for

NoCache == [step |-> "none", epoch |-> 0, creator |-> NoSig, before |-> {}]

\* `render` tells the renders of the page apart; 0 before the first.
NewPage == [render |-> 0, current |-> {}, verdict |-> [i \in Posts |-> "none"]]

Init ==
  /\ rows = [b \in Boxes |-> IF b = Creator
                               THEN NewRow(Creator, CreatorKey, 0) ELSE NoRow]
  /\ rosters = <<>>
  /\ turn = [t \in Turns |-> IdleTurn]
  /\ post = [i \in Posts |-> NoPost]
  /\ answers = {} /\ lists = 0
  /\ page = NewPage /\ cache = NoCache /\ judging = {}
  /\ removedAt = [b \in Boxes |-> 0] /\ faults = 0

RosterEpoch == Len(rosters)
Stored == {i \in Posts : post[i].step \in {"shown", "removed"}}
Shown == {i \in Posts : post[i].step = "shown"}

reader == <<answers, lists, page, cache, judging>>

-----------------------------------------------------------------------------
(* The members.  Dates do not go back, and a row keeps the day it was made. *)

Join(b, day) ==
  /\ rows[b].status = "absent"
  /\ \A c \in Boxes : rows[c].joined <= day
  /\ rows' = add_member(rows, b, b, day)
  /\ UNCHANGED <<rosters, turn, post, reader, removedAt, faults>>

Grant(b, inviter) ==
  /\ inviter \in Accepted(rows)
  /\ GrantMatches(rows, b, inviter)
  /\ rows' = grant_wrap(rows, b, CreatorKey, inviter)
  /\ UNCHANGED <<rosters, turn, post, reader, removedAt, faults>>

Leave(b) ==
  /\ is_member(rows, b)
  /\ rows' = soft_remove_by_sig(rows, b)
  /\ removedAt' = [removedAt EXCEPT ![b] = RosterEpoch]
  /\ UNCHANGED <<rosters, turn, post, reader, faults>>

\* The creator removes a member and wraps a new key for all the others,
\* the pending ones among them.
Remove(b) ==
  /\ b \in Active(rows) \ {Creator} /\ Creator \in Active(rows)
  /\ rows' = remove_and_rekey(rows, b, Active(rows) \ {b}, CreatorKey)
  /\ removedAt' = [removedAt EXCEPT ![b] = RosterEpoch]
  /\ UNCHANGED <<rosters, turn, post, reader, faults>>

-----------------------------------------------------------------------------
(* Rosters: the creator's page and the server's post_roster.               *)

published == <<rows, post, reader, removedAt>>

\* What the page takes from a member list: the accepted ring, and whether
\* vouching is on.  It acts on it only if the first row without an inviter
\* is its own.
ReadMembers(t) ==
  /\ turn[t].step \in {"idle", "off"}
  /\ Creator \in Active(rows) /\ Creator \in creator_sig_pubkey(rows)
  /\ \E step \in {"off", "on"} :
       /\ step = "on" <=> RosterEpoch > 0
       /\ turn' = [turn EXCEPT ![t] =
            [step |-> step, epoch |-> 0, ring |-> Accepted(rows)]]
  /\ UNCHANGED <<published, rosters, faults>>

\* The button, on a page whose list said that vouching is off.
Enable(t) ==
  /\ turn[t].step = "off"
  /\ turn' = [turn EXCEPT ![t] = [@ EXCEPT !.step = "signed", !.epoch = 1]]
  /\ UNCHANGED <<published, rosters, faults>>

\* Variant: re-sign only when somebody is missing from the roster.
AnyMissing(ring, roster) == ~(ring \subseteq roster)

Differs(ring, roster) == ring # roster

\* A second request, for the roster: the ring of the first is signed under
\* the epoch that follows the one it finds.
Resign(t) ==
  /\ turn[t].step = "on"
  /\ Differs(turn[t].ring, rosters[RosterEpoch])
  /\ turn' = [turn EXCEPT ![t] =
       [@ EXCEPT !.step = "signed", !.epoch = RosterEpoch + 1]]
  /\ UNCHANGED <<published, rosters, faults>>

KeepRoster(t) ==
  /\ turn[t].step = "on"
  /\ ~Differs(turn[t].ring, rosters[RosterEpoch])
  /\ turn' = [turn EXCEPT ![t] = IdleTurn]
  /\ UNCHANGED <<published, rosters, faults>>

\* Variant: the ring is not compared with the live members.
RosterSigned(t) ==
  /\ turn[t].epoch = RosterEpoch + 1
  /\ turn[t].ring # {} /\ Cardinality(turn[t].ring) <= MaxRing

\* post_roster up to its insert.  The epoch and the members are two reads;
\* the first is repeated by the insert, so only the second matters here.
RosterAcceptable(t) ==
  /\ turn[t].epoch = RosterEpoch + 1
  /\ turn[t].ring # {} /\ Cardinality(turn[t].ring) <= MaxRing
  /\ RingIsLive(rows, turn[t].ring)

CheckRoster(t) ==
  /\ turn[t].step = "signed"
  /\ RosterAcceptable(t)
  /\ Creator \in creator_sig_pubkey(rows)
  /\ turn' = [turn EXCEPT ![t] = [@ EXCEPT !.step = "checked"]]
  /\ UNCHANGED <<published, rosters, faults>>

\* The other answers of post_roster: the signature is checked against the
\* creator the query picks, which a tie on the first day makes another.
RefuseRoster(t) ==
  /\ turn[t].step = "signed"
  /\ ~RosterAcceptable(t) \/ (\E who \in creator_sig_pubkey(rows) : who # Creator)
  /\ turn' = [turn EXCEPT ![t] = IdleTurn]
  /\ UNCHANGED <<published, rosters, faults>>

\* UPDATE rooms ... WHERE roster_epoch = $2 - 1, and the roster with it.
InsertRoster(t) ==
  /\ turn[t].step = "checked" /\ turn[t].epoch = RosterEpoch + 1
  /\ rosters' = Append(rosters, turn[t].ring)
  /\ turn' = [turn EXCEPT ![t] = IdleTurn]
  /\ UNCHANGED <<published, faults>>

ConflictRoster(t) ==
  /\ turn[t].step = "checked" /\ turn[t].epoch # RosterEpoch + 1
  /\ turn' = [turn EXCEPT ![t] = IdleTurn]
  /\ UNCHANGED <<published, rosters, faults>>

\* The request for the roster, or the one that publishes it, is lost.
LoseRoster(t) ==
  /\ turn[t].step \in {"on", "signed"}
  /\ faults < MaxFaults /\ faults' = faults + 1
  /\ turn' = [turn EXCEPT ![t] = IdleTurn]
  /\ UNCHANGED <<published, rosters>>

-----------------------------------------------------------------------------
(* Vouched posts: buildVouch on the author's page, validate_vouch and the  *)
(* insert on the server.                                                   *)

board == <<rows, rosters, turn, reader, removedAt, faults>>

\* The author's page asks for the roster: its key must be on the ring, and
\* the ring must be signed by the creator the answer names.
OnTheRing(b) ==
  /\ RosterEpoch > 0 /\ b \in rosters[RosterEpoch]
  /\ Creator \in creator_sig_pubkey(rows)

BuildVouch(i, b) ==
  /\ post[i].step = "none"
  /\ OnTheRing(b)
  /\ post' = [post EXCEPT ![i] = [step |-> "built", by |-> b, epoch |-> RosterEpoch]]
  /\ UNCHANGED board

CheckVouch(i) ==
  /\ post[i].step = "built" /\ post[i].epoch = RosterEpoch
  /\ post' = [post EXCEPT ![i] = [@ EXCEPT !.step = "checked"]]
  /\ UNCHANGED board

\* 409: the author may submit again, with a new vouch.
RefuseVouch(i) ==
  /\ post[i].step = "built" /\ post[i].epoch # RosterEpoch
  /\ post' = [post EXCEPT ![i] = NoPost]
  /\ UNCHANGED board

\* The insert, with whatever roster stands by now.
InsertPost(i) ==
  /\ post[i].step = "checked"
  /\ post' = [post EXCEPT ![i] = [@ EXCEPT !.step = "shown"]]
  /\ UNCHANGED board

\* A removed post is listed without its vouch.
RemovePost(i) ==
  /\ post[i].step = "shown"
  /\ post' = [post EXCEPT ![i] = [@ EXCEPT !.step = "removed"]]
  /\ UNCHANGED board

-----------------------------------------------------------------------------
(* The reader's page.                                                      *)

server == <<rows, rosters, turn, post, removedAt, faults>>

\* The server answers one of the page's requests for the posts.  Requests
\* overlap: a reply that was just sent starts another.  Lists that are served
\* before there is a vouched post show none and are left out.
ServeList ==
  /\ lists < MaxLists /\ Stored # {}
  /\ lists' = lists + 1
  /\ answers' = answers \cup {[render |-> lists', posts |-> Shown]}
  /\ UNCHANGED <<server, page, cache, judging>>

\* verifyAllVouches calls verifyVouch for every vouch of the answer at once;
\* the first call of the page's life asks for the roster.
Render(a) ==
  /\ a \in answers
  /\ answers' = answers \ {a}
  /\ page' = [NewPage EXCEPT !.render = a.render, !.current = a.posts]
  /\ judging' = judging \cup ({a.render} \X a.posts)
  /\ cache' \in IF cache.step = "none" /\ a.posts # {}
                  THEN {[NoCache EXCEPT !.step = "asked", !.before = Stored]}
                  ELSE {cache}
  /\ UNCHANGED <<server, lists>>

AnswerRoster ==
  /\ cache.step = "asked" /\ RosterEpoch > 0
  /\ \E who \in creator_sig_pubkey(rows) :
       cache' = [cache EXCEPT !.step = "known", !.epoch = RosterEpoch,
                              !.creator = who]
  /\ UNCHANGED <<server, answers, lists, page, judging>>

\* The request fails once, and its null is kept for the page's life.
LoseAnswer ==
  /\ cache.step = "asked"
  /\ cache' = [cache EXCEPT !.step = "failed"]
  /\ UNCHANGED <<server, answers, lists, page, judging>>

\* Variant: a vouch must cite the roster that stands.
CitesCurrent(i) ==
  /\ cache.step = "known"
  /\ post[i].epoch = cache.epoch /\ cache.creator = Creator

\* verifyVouch: a signed roster up to the one the page knows of, under the
\* creator's key the page was told.
Verifies(i) ==
  /\ cache.step = "known"
  /\ post[i].epoch \in 1..cache.epoch /\ cache.creator = Creator

\* Variant: a failed request is not caught.
Answered == cache.step = "known"

Settled == cache.step \in {"known", "failed"}

\* Variant: no test for a newer render.
AnyRender(r) == r \in Nat

IsCurrent(r) == r = page.render

Judge(r, i) ==
  /\ <<r, i>> \in judging /\ Settled
  /\ IsCurrent(r)
  /\ judging' = judging \ {<<r, i>>}
  /\ \E verdict \in {"ok", "failed"} :
       /\ verdict = "ok" <=> Verifies(i)
       /\ page' = [page EXCEPT !.verdict = [@ EXCEPT ![i] = verdict]]
  /\ UNCHANGED <<server, answers, lists, cache>>

Supersede(r, i) ==
  /\ <<r, i>> \in judging /\ Settled
  /\ ~IsCurrent(r)
  /\ judging' = judging \ {<<r, i>>}
  /\ UNCHANGED <<server, answers, lists, page, cache>>

-----------------------------------------------------------------------------
Member(b) ==
  \/ \E day \in 0..LastDay : Join(b, day)
  \/ \E inviter \in Boxes : Grant(b, inviter)
  \/ Leave(b) \/ Remove(b)

Maintain(t) ==
  \/ ReadMembers(t) \/ Resign(t) \/ KeepRoster(t)
  \/ CheckRoster(t) \/ RefuseRoster(t)
  \/ InsertRoster(t) \/ ConflictRoster(t)

Author(i) ==
  \/ \E b \in Vouchers : BuildVouch(i, b)
  \/ CheckVouch(i) \/ RefuseVouch(i) \/ InsertPost(i) \/ RemovePost(i)

Reader ==
  \/ ServeList \/ AnswerRoster \/ LoseAnswer
  \/ \E a \in answers : Render(a)
  \/ \E r \in 1..MaxLists, i \in Posts : Judge(r, i) \/ Supersede(r, i)

Next ==
  \/ \E b \in Boxes : Member(b)
  \/ \E t \in Turns : Maintain(t) \/ Enable(t) \/ LoseRoster(t)
  \/ \E i \in Posts : Author(i)
  \/ Reader

Spec == Init /\ [][Next]_vars

\* The creator keeps a page of the room open whose timer keeps firing, and
\* only MaxFaults of its requests are lost; the reader's request for the
\* roster is answered or fails, and its promises settle.
FairSpec ==
  /\ Spec
  /\ \A t \in Turns : WF_vars(Maintain(t))
  /\ WF_vars(AnswerRoster \/ LoseAnswer)
  /\ \A r \in 1..MaxLists, i \in Posts : WF_vars(Judge(r, i))

-----------------------------------------------------------------------------
(* Properties.                                                             *)

\* Every variable holds values of its kind, and a vouch names a roster.
TypeOK ==
  /\ rows \in [Boxes -> Row]
  /\ rosters \in Seq(SUBSET Boxes)
  /\ turn \in [Turns -> Turn]
  /\ post \in [Posts -> Post]
  /\ answers \subseteq [render : 1..MaxLists, posts : SUBSET Posts]
  /\ lists \in 0..MaxLists
  /\ page \in [render : 0..MaxLists, current : SUBSET Posts,
               verdict : [Posts -> {"none", "ok", "failed"}]]
  /\ cache \in Cache
  /\ judging \subseteq (1..MaxLists) \X Posts
  /\ removedAt \in [Boxes -> Nat]
  /\ faults \in 0..MaxFaults

\* A vouch stored for a removed member cites at most one roster that was
\* published after the removal: the one whose comparison with the live members
\* (logic/rooms.rs post_roster) came before it.
RemovedVouchOldRosters ==
  \A i \in Shown :
    rows[post[i].by].status = "removed" =>
      post[i].epoch <= removedAt[post[i].by] + 1

\* A page never holds a verdict on a post that its current render does not
\* show with a vouch, however its requests for the posts overlap
\* (pages/thread.ts verifyAllVouches).
VerdictsMatchThePage ==
  \A i \in Posts : page.verdict[i] # "none" => i \in page.current

\* A vouch that was stored before the page asked for the roster fails only if
\* that request failed or named another creator: later rosters, and the
\* removal of its author, do not spoil it (lib/vouch.ts verifyVouch).
OldVouchesStand ==
  \A i \in cache.before :
    page.verdict[i] = "failed" =>
      cache.step = "failed" \/ cache.creator # Creator

\* Every vouch on the page is judged in the end, or the page shows another
\* list: a lost roster request does not leave its badge pending.
EveryVouchJudged ==
  \A i \in Posts :
    (i \in page.current /\ page.verdict[i] = "none")
      ~> (i \notin page.current \/ page.verdict[i] # "none")

\* The room can keep its roster: vouching is on, the creator is a member that
\* no row ties with, and the ring fits.
Maintainable ==
  /\ RosterEpoch > 0
  /\ Creator \in Active(rows)
  /\ creator_sig_pubkey(rows) = {Creator}
  /\ Cardinality(Accepted(rows)) <= MaxRing

\* Once that stays so, the published roster comes to be the set of accepted
\* members and stays it (pages/room.ts maintainVouching).
RosterFollowsMembers ==
  <>[]Maintainable => <>[](RosterEpoch > 0 /\ rosters[RosterEpoch] = Accepted(rows))
=============================================================================
