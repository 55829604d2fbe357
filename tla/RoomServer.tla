----------------------------- MODULE RoomServer -----------------------------
(***************************************************************************)
(* The server side of one private room: the handlers of logic/rooms.rs     *)
(* that change membership, keys and rosters.  A handler is a chain of      *)
(* awaited database statements with no transaction around them (only       *)
(* remove_and_rekey and insert_roster open one), so between any two of its *)
(* steps the statements of other requests run.  Each step here is the code *)
(* from one await to the next.                                             *)
(*                                                                         *)
(* Requests are well formed, correctly signed and inside the +-60s window; *)
(* the window itself is modelled in SignedRequests.  A statement that has  *)
(* to wait for a row lock evaluates its condition on the row again when it *)
(* gets the lock, as READ COMMITTED does.                                  *)
(***************************************************************************)
EXTENDS RoomTables

CONSTANTS
  Workers,     \* requests served at the same time (ConcurrencyLimitLayer)
  Workload,    \* the signed requests callers may submit, any number of times
  Admitted,    \* boxes whose holder can prove an allowlisted thread key
  Creator, CreatorSig, CreatorKey,  \* the row inserted with the room
  MaxMembers,  \* MAX_ROOM_MEMBERS
  MaxRing,     \* VOUCH_MAX_RING
  Seconds,     \* values of the signed ts field
  MaxDay,      \* bound: days the clock may advance
  NoReq        \* no request in the slot

VARIABLES
  rows,         \* room_members
  currentEpoch, \* rooms.current_epoch
  rosterEpoch,  \* rooms.roster_epoch; vouching_enabled is rosterEpoch >= 1
  rosters,      \* room_rosters, with the key that signed each row
  nonces,       \* request_nonces
  day,          \* today_utc()
  pc, req       \* per worker: the next step of its handler, and its request

tables == <<rows, currentEpoch, rosterEpoch, rosters, nonces>>
vars == <<rows, currentEpoch, rosterEpoch, rosters, nonces, day, pc, req>>

JoinRequests   == [op : {"join"}, box : Boxes, sig : Sigs]
LeaveRequests  == [op : {"leave"}, sig : Sigs, ts : Seconds]
WrapRequests   == [op : {"wrap"}, sig : Sigs, by : Boxes, target : Boxes,
                   key : Keys, ts : Seconds]
RemoveRequests == [op : {"remove"}, sig : Sigs, target : Boxes,
                   covers : SUBSET Boxes, count : Nat, key : Keys, ts : Seconds]
RosterRequests == [op : {"roster"}, sig : Sigs, ring : SUBSET Sigs, epoch : Nat]

Requests == JoinRequests \cup LeaveRequests \cup WrapRequests
              \cup RemoveRequests \cup RosterRequests

ASSUME WorkloadAssumption ==
  /\ Workload \subseteq Requests
  /\ NoReq \notin Requests
  /\ Creator \in Boxes /\ CreatorSig \in Sigs /\ CreatorKey \in Keys

ASSUME BoundsAssumption ==
  /\ IsFiniteSet(Workers) /\ Workers # {}
  /\ IsFiniteSet(Boxes)
  /\ MaxMembers \in Nat \ {0}
  /\ MaxRing \in Nat /\ MaxDay \in Nat

JoinSteps   == {"join_check", "join_count", "join_insert"}
LeaveSteps  == {"leave_nonce", "leave_member", "leave_remove"}
WrapSteps   == {"wrap_pair", "wrap_nonce", "wrap_find", "wrap_store"}
RemoveSteps == {"remove_nonce", "remove_creator", "remove_begin", "remove_commit"}
RosterSteps == {"roster_epoch", "roster_creator", "roster_live", "roster_insert"}

FirstStep == [join |-> "join_check", leave |-> "leave_nonce",
              wrap |-> "wrap_pair", remove |-> "remove_nonce",
              roster |-> "roster_epoch"]

Init ==
  /\ rows = [b \in Boxes |-> IF b = Creator
                               THEN NewRow(CreatorSig, CreatorKey, 0)
                               ELSE NoRow]
  /\ currentEpoch = 0
  /\ rosterEpoch = 0
  /\ rosters = {}
  /\ nonces = {}
  /\ day = 0
  /\ pc = [w \in Workers |-> "idle"]
  /\ req = [w \in Workers |-> NoReq]

-----------------------------------------------------------------------------
(* Plumbing shared by the handlers.                                        *)

Goto(w, step) == pc' = [pc EXCEPT ![w] = step] /\ UNCHANGED <<day, req>>

\* An open remove_and_rekey transaction holds the lock of its target's row.
LockedBy(w) == IF pc[w] = "remove_commit" THEN {req[w].target} ELSE {}
LockedByOthers(w) == UNION {LockedBy(v) : v \in Workers \ {w}}

Nonce(r) ==
  <<r.op, IF r.op = "wrap" THEN r.target ELSE NoBox, r.sig, r.ts>>

\* Variant: the row count is not looked at.
RecordNonceBlindly(w, step) ==
  /\ Goto(w, step)
  /\ nonces' = nonces \cup {Nonce(req[w])}
  /\ UNCHANGED <<rows, currentEpoch, rosterEpoch, rosters>>

\* INSERT ... ON CONFLICT DO NOTHING, and what its row count is used for.
RecordNonce(w, step) ==
  /\ IF Nonce(req[w]) \in nonces THEN Goto(w, "err") ELSE Goto(w, step)
  /\ nonces' = nonces \cup {Nonce(req[w])}
  /\ UNCHANGED <<rows, currentEpoch, rosterEpoch, rosters>>

\* A step that only reads: it goes on when the check holds.
Check(w, holds, step) ==
  /\ IF holds THEN Goto(w, step) ELSE Goto(w, "err")
  /\ UNCHANGED tables

Submit(w) ==
  /\ pc[w] = "idle"
  /\ \E r \in Workload :
       /\ req' = [req EXCEPT ![w] = r]
       /\ pc' = [pc EXCEPT ![w] = FirstStep[r.op]]
  /\ UNCHANGED <<tables, day>>

Reply(w) ==
  /\ pc[w] \in {"ok", "err"}
  /\ req' = [req EXCEPT ![w] = NoReq]
  /\ pc' = [pc EXCEPT ![w] = "idle"]
  /\ UNCHANGED <<tables, day>>

NextDay ==
  /\ day < MaxDay
  /\ day' = day + 1
  /\ UNCHANGED <<tables, pc, req>>

-----------------------------------------------------------------------------
(* join                                                                    *)

JoinCheck(w) ==
  /\ pc[w] = "join_check"
  /\ Check(w, req[w].box \in Admitted,
           IF is_member_by_box(rows, req[w].box) THEN "join_insert"
                                                 ELSE "join_count")

\* Variant: no cap.
JoinUncounted(w) == pc[w] = "join_count" /\ Check(w, TRUE, "join_insert")

JoinCount(w) ==
  /\ pc[w] = "join_count"
  /\ Check(w, active_member_count(rows) < MaxMembers, "join_insert")

JoinInsert(w) ==
  /\ pc[w] = "join_insert"
  /\ rows' = add_member(rows, req[w].box, req[w].sig, day)
  /\ Goto(w, "ok")
  /\ UNCHANGED <<currentEpoch, rosterEpoch, rosters, nonces>>

-----------------------------------------------------------------------------
(* leave                                                                   *)

LeaveNonce(w) == pc[w] = "leave_nonce" /\ RecordNonce(w, "leave_member")

LeaveMember(w) ==
  /\ pc[w] = "leave_member"
  /\ Check(w, is_member(rows, req[w].sig), "leave_remove")

\* `rows_affected() == 1`: with any other count the caller is told that the
\* membership was already gone, and the rows stay flipped.
LeaveRemove(w) ==
  LET flipped == RowsOfSig(rows, req[w].sig) IN
  /\ pc[w] = "leave_remove"
  /\ flipped \cap LockedByOthers(w) = {}
  /\ rows' = soft_remove_by_sig(rows, req[w].sig)
  /\ Goto(w, IF Cardinality(flipped) = 1 THEN "ok" ELSE "err")
  /\ UNCHANGED <<currentEpoch, rosterEpoch, rosters, nonces>>

-----------------------------------------------------------------------------
(* wrap                                                                    *)

WrapPair(w) ==
  /\ pc[w] = "wrap_pair"
  /\ Check(w, is_active_member_pair(rows, req[w].sig, req[w].by), "wrap_nonce")

WrapNonce(w) == pc[w] = "wrap_nonce" /\ RecordNonce(w, "wrap_find")

\* The UPDATE finds its row, and the inviter, in the snapshot it starts with...
WrapFind(w) ==
  LET r == req[w] IN
  /\ pc[w] = "wrap_find"
  /\ Check(w, GrantMatches(rows, r.target, r.by), "wrap_store")

\* ... and writes the row once it has the lock, if the row still qualifies.
WrapStore(w) ==
  LET r == req[w] IN
  /\ pc[w] = "wrap_store"
  /\ r.target \notin LockedByOthers(w)
  /\ IF Ungranted(rows, r.target)
       THEN rows' = grant_wrap(rows, r.target, r.key, r.by) /\ Goto(w, "ok")
       ELSE UNCHANGED rows /\ Goto(w, "err")
  /\ UNCHANGED <<currentEpoch, rosterEpoch, rosters, nonces>>

-----------------------------------------------------------------------------
(* remove_and_rekey: the nonce, the authority check, then one transaction. *)

RemoveNonce(w) == pc[w] = "remove_nonce" /\ RecordNonce(w, "remove_creator")

RemoveCreator(w) ==
  LET r == req[w] IN
  /\ pc[w] = "remove_creator"
  /\ Check(w, is_creator_by_sig(rows, r.sig) /\ r.target \notin r.covers,
           "remove_begin")

\* Variant: rows_affected() of the flip is not looked at.
RemoveAnyTarget(w) ==
  LET r == req[w] IN
  /\ pc[w] = "remove_begin"
  /\ r.target \notin LockedByOthers(w)
  /\ Check(w, WrapsAccepted(rows, r.target, r.covers, r.count), "remove_commit")

\* Flip the target (taking its row lock) and compare the wraps with the
\* survivors.  Nothing is visible to others yet.
RemoveBegin(w) ==
  LET r == req[w] IN
  /\ pc[w] = "remove_begin"
  /\ r.target \notin LockedByOthers(w)
  /\ Check(w, /\ r.target \in Active(rows)
              /\ WrapsAccepted(rows, r.target, r.covers, r.count),
           "remove_commit")

\* Overwrite the wraps of the rows that are active by now, bump the epoch,
\* commit.  The updates wait for rows another open transaction has flipped.
RemoveCommit(w) ==
  LET r == req[w] IN
  /\ pc[w] = "remove_commit"
  /\ r.covers \cap LockedByOthers(w) = {}
  /\ rows' = remove_and_rekey(rows, r.target, r.covers, r.key)
  /\ currentEpoch' = currentEpoch + 1
  /\ Goto(w, "ok")
  /\ UNCHANGED <<rosterEpoch, rosters, nonces>>

\* Variant: nobody breaks a deadlock.
NeverAborts(w) == FALSE

\* The transaction is rolled back: a deadlock, a lost connection, a crash.
RemoveAbort(w) ==
  /\ pc[w] = "remove_commit"
  /\ Goto(w, "err")
  /\ UNCHANGED tables

-----------------------------------------------------------------------------
(* post_roster                                                             *)

RosterEpoch(w) ==
  LET r == req[w] IN
  /\ pc[w] = "roster_epoch"
  /\ Check(w, /\ r.epoch = rosterEpoch + 1
              /\ r.ring # {} /\ Cardinality(r.ring) <= MaxRing,
           "roster_creator")

RosterCreator(w) ==
  /\ pc[w] = "roster_creator"
  /\ \E creator \in creator_sig_pubkey(rows) :
       Check(w, creator = req[w].sig, "roster_live")

RosterLive(w) ==
  /\ pc[w] = "roster_live"
  /\ Check(w, RingIsLive(rows, req[w].ring), "roster_insert")

\* Variant: neither the WHERE clause nor the primary key.
AnySlot(epoch) == TRUE

\* UPDATE rooms ... WHERE roster_epoch = $2 - 1, and the rosters' primary key.
RosterSlotFree(epoch) ==
  rosterEpoch + 1 = epoch /\ \A s \in rosters : s.epoch # epoch

RosterInsert(w) ==
  LET r == req[w] IN
  /\ pc[w] = "roster_insert"
  /\ IF RosterSlotFree(r.epoch)
       THEN /\ rosterEpoch' = r.epoch
            /\ rosters' = rosters \cup
                 {[epoch |-> r.epoch, ring |-> r.ring, signer |-> r.sig]}
            /\ Goto(w, "ok")
       ELSE UNCHANGED <<rosterEpoch, rosters>> /\ Goto(w, "err")
  /\ UNCHANGED <<rows, currentEpoch, nonces>>

-----------------------------------------------------------------------------
Handler(w) ==
  \/ JoinCheck(w) \/ JoinCount(w) \/ JoinInsert(w)
  \/ LeaveNonce(w) \/ LeaveMember(w) \/ LeaveRemove(w)
  \/ WrapPair(w) \/ WrapNonce(w) \/ WrapFind(w) \/ WrapStore(w)
  \/ RemoveNonce(w) \/ RemoveCreator(w) \/ RemoveBegin(w)
  \/ RemoveCommit(w) \/ RemoveAbort(w)
  \/ RosterEpoch(w) \/ RosterCreator(w) \/ RosterLive(w) \/ RosterInsert(w)

Next == NextDay \/ \E w \in Workers : Submit(w) \/ Handler(w) \/ Reply(w)

Spec == Init /\ [][Next]_vars

\* Tokio polls every task and every statement returns, so a handler that can
\* step does.  Callers owe nothing, so Submit and NextDay are not fair.
FairSpec ==
  Spec /\ \A w \in Workers : WF_vars(Handler(w)) /\ WF_vars(Reply(w))

-----------------------------------------------------------------------------
(* Properties.                                                             *)

\* Types, and that a worker's step belongs to the request it serves.
TypeOK ==
  /\ rows \in [Boxes -> Row]
  /\ currentEpoch \in Nat
  /\ rosterEpoch \in Nat
  /\ rosters \subseteq [epoch : Nat, ring : SUBSET Sigs, signer : Sigs]
  /\ nonces \subseteq {"leave", "wrap", "remove"} \X (Boxes \cup {NoBox})
                      \X Sigs \X Seconds
  /\ day \in 0..MaxDay
  /\ pc \in [Workers -> {"idle", "ok", "err"} \cup JoinSteps \cup LeaveSteps
                         \cup WrapSteps \cup RemoveSteps \cup RosterSteps]
  /\ req \in [Workers -> Requests \cup {NoReq}]
  /\ \A w \in Workers :
       /\ pc[w] \in JoinSteps   => req[w] \in JoinRequests
       /\ pc[w] \in LeaveSteps  => req[w] \in LeaveRequests
       /\ pc[w] \in WrapSteps   => req[w] \in WrapRequests
       /\ pc[w] \in RemoveSteps => req[w] \in RemoveRequests
       /\ pc[w] \in RosterSteps => req[w] \in RosterRequests

\* The member cap is checked in one statement and the row inserted in a later
\* one, so concurrent joins can pass it together; but they overshoot by less
\* than the number of requests served at once, however many joins, leaves and
\* removals have gone before.
JoinOvershootBounded ==
  active_member_count(rows) < MaxMembers + Cardinality(Workers)

\* Every key epoch was paid for by a removal of its own: two rekeys never
\* remove the same member, and a member who leaves while a rekey that targets
\* him is open is not counted twice.
EpochCountsRemovals == currentEpoch <= Cardinality(Removed(rows))

PastNonce(w) ==
  pc[w] \in {"leave_member", "leave_remove", "wrap_find", "wrap_store",
            "remove_creator", "remove_begin", "remove_commit"}

\* Two deliveries of one signed request never both get past the nonce, even
\* when they are served at the same time.
SignedRequestOnce ==
  \A v, w \in Workers :
    v # w /\ PastNonce(v) /\ PastNonce(w) => Nonce(req[v]) # Nonce(req[w])

\* Whatever publishes race, the stored rosters are numbered 1..rosterEpoch
\* with one roster per number: a vouch that cites an epoch finds one ring.
RosterChain ==
  /\ {s.epoch : s \in rosters} = 1..rosterEpoch
  /\ \A s, t \in rosters : s.epoch = t.epoch => s = t

WasAccepted(sig) ==
  \E b \in Boxes : rows[b].sig = sig /\ rows[b].wrap # NoKey

\* A published ring may name members who have left since it was compared with
\* the live set, but never a key that was not accepted into the room.
RosterMembersWereAccepted ==
  \A s \in rosters : \A sig \in s.ring : WasAccepted(sig)

\* The signer of a roster is the creator or somebody who joined on the
\* creator's first day: the date column cannot tell those apart.
RosterSignerFromFirstDay ==
  \A s \in rosters :
    \E b \in Boxes : /\ rows[b].sig = s.signer
                     /\ rows[b].status # "absent"
                     /\ rows[b].joined = rows[Creator].joined

\* The row of a removed member who held a key never changes again: no rekey
\* that was under way when he left hands him the new key, and rejoining with
\* the same box key changes nothing.
RemovedMemberFrozen ==
  [][\A b \in Boxes :
       rows[b].status = "removed" /\ rows[b].wrap # NoKey
         => rows'[b] = rows[b]]_vars

\* Of two members who grant a joiner his key at the same time one is refused:
\* a stored key changes only together with the epoch, and the inviter on
\* record is the one whose grant was stored.
KeyChangesWithEpoch ==
  [][\A b \in Boxes :
       rows[b].wrap # NoKey =>
         /\ rows'[b].inviter = rows[b].inviter
         /\ rows'[b].wrap # rows[b].wrap => currentEpoch' = currentEpoch + 1]_vars

\* Every request a worker takes up is answered, in spite of row locks held by
\* open transactions.
EveryRequestAnswered ==
  \A w \in Workers : pc[w] # "idle" ~> pc[w] = "idle"

\* The tables implement the abstract membership of Membership.
M == INSTANCE Membership WITH
       Device <- Boxes, Founder <- Creator,
       stage <- [b \in Boxes |-> Stage(rows, b)], epoch <- currentEpoch

\* Membership only moves forward and the epoch advances only with a removal.
ImplementsMembership == M!Spec
=============================================================================
