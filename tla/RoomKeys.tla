------------------------------ MODULE RoomKeys ------------------------------
(***************************************************************************)
(* The room keys of one private room as the members' browsers hold them    *)
(* (client pages/room.ts and lib/roomkey.ts), together with the rows of    *)
(* the server they are synchronised with.  A page polls the member list,   *)
(* grants its key to pending joiners, adopts a rotated key, and on the     *)
(* creator's click removes a member and rotates the key.                   *)
(*                                                                         *)
(* The server's writes are single steps here; RoomServer has their         *)
(* statements.  The member list stays two statements, the rows and then    *)
(* the epoch, because a page uses the two answers together.                *)
(*                                                                         *)
(* A browser makes one box key and one signing key per room, so one value  *)
(* stands for both.                                                        *)
(***************************************************************************)
EXTENDS RoomTables

CONSTANTS
  Creator, CreatorKey,  \* the device and the key the room is created with
  Pages,        \* bound: the devices that keep a page of the room open
  JoinDay,      \* the day of the joins; the room is created on day 0
  MaxWorking,           \* bound: polls of one page whose follow-up is unfinished
  MaxFaults,            \* bound: lost requests and answers, reloads, wiped entries
  NoStore, NoTick, NoRekey

VARIABLES
  rows,         \* room_members
  currentEpoch, \* rooms.current_epoch
  stored,       \* per device: the localStorage entry of the room
  page,         \* per device: memberCache, currentEpoch and amCreator
  asking,       \* per device: the poll whose request is under way
  working,      \* per device: the polls whose answer is being acted on
  rekey,        \* per device: the removal under way
  made,         \* the room keys generated so far
  barred,       \* history: keys put in force since a device was removed
  faults        \* faults so far

vars == <<rows, currentEpoch, stored, page, asking, working, rekey, made,
          barred, faults>>

ASSUME KeysAssumption ==
  /\ Sigs = Boxes
  /\ Creator \in Boxes /\ CreatorKey \in Keys
  /\ Pages \subseteq Boxes
  /\ JoinDay \in Nat /\ MaxWorking \in Nat /\ MaxFaults \in Nat

\* Stored keys, the one appended last, and the last epoch seen.
Stored == [keys : SUBSET Keys, newest : Keys \cup {NoKey}, epoch : Nat]

Page == [cache : SUBSET Boxes, epoch : Nat, creator : BOOLEAN]

\* A poll holds the keys as they were when it started and, later, its answer.
Asking == [step : {"rows", "epoch"}, newest : Keys \cup {NoKey}, seen : Nat,
           active : SUBSET Boxes, pending : SUBSET Boxes,
           mine : Keys \cup {NoKey}, creator : BOOLEAN]

Working == [newest : Keys, seen : Nat, pending : SUBSET Boxes,
            mine : Keys \cup {NoKey}]

Rekey == [step : {"sent", "done"}, target : Boxes, covers : SUBSET Boxes,
          key : Keys, epoch : Nat]

NewPage == [cache |-> {}, epoch |-> 0, creator |-> FALSE]

Init ==
  /\ rows = [b \in Boxes |-> IF b = Creator
                               THEN NewRow(Creator, CreatorKey, 0) ELSE NoRow]
  /\ currentEpoch = 0
  /\ stored = [d \in Boxes |->
                 IF d = Creator
                   THEN [keys |-> {CreatorKey}, newest |-> CreatorKey, epoch |-> 0]
                   ELSE NoStore]
  /\ page = [d \in Boxes |-> NewPage]
  /\ asking = [d \in Boxes |-> NoTick]
  /\ working = [d \in Boxes |-> {}]
  /\ rekey = [d \in Boxes |-> NoRekey]
  /\ made = {CreatorKey}
  /\ barred = [d \in Boxes |-> {}]
  /\ faults = 0

-----------------------------------------------------------------------------
(* Storage.                                                                *)

\* Variant: a missing entry is created instead of reported.
AppendOrCreate(entry, key, epoch) ==
  IF entry = NoStore
    THEN [keys |-> {key}, newest |-> key, epoch |-> epoch]
    ELSE [keys   |-> entry.keys \cup {key},
          newest |-> IF key \in entry.keys THEN entry.newest ELSE key,
          epoch  |-> IF epoch > entry.epoch THEN epoch ELSE entry.epoch]

\* Variant: the epoch is not recorded.
AppendKeyOnly(entry, key, epoch) ==
  IF entry = NoStore
    THEN NoStore
    ELSE [keys   |-> entry.keys \cup {key},
          newest |-> IF key \in entry.keys THEN entry.newest ELSE key,
          epoch  |-> entry.epoch]

\* appendRoomKey: a key already held is not appended again, the epoch only
\* grows, and an entry that is gone stays gone.
appendRoomKey(entry, key, epoch) ==
  IF entry = NoStore
    THEN NoStore
    ELSE [keys   |-> entry.keys \cup {key},
          newest |-> IF key \in entry.keys THEN entry.newest ELSE key,
          epoch  |-> IF epoch > entry.epoch THEN epoch ELSE entry.epoch]

Keyed(d) == stored[d] # NoStore /\ stored[d].newest # NoKey

Fault == faults < MaxFaults /\ faults' = faults + 1

server == <<rows, currentEpoch, barred>>

-----------------------------------------------------------------------------
(* Polling the member list.                                                *)

TickStart(d) ==
  /\ d \in Pages /\ stored[d] # NoStore
  /\ asking[d] = NoTick
  /\ asking' = [asking EXCEPT ![d] =
       [step |-> "rows", newest |-> stored[d].newest, seen |-> stored[d].epoch,
        active |-> {}, pending |-> {}, mine |-> NoKey, creator |-> FALSE]]
  /\ UNCHANGED <<server, stored, page, working, rekey, made, faults>>

\* The member check and the rows.  The page takes the first row without an
\* inviter for the creator's; rows of one date come in any order.
ReadRows(d) ==
  /\ asking[d] # NoTick /\ asking[d].step = "rows"
  /\ is_member(rows, d)
  /\ \E first \in creator_sig_pubkey(rows) :
       asking' = [asking EXCEPT ![d] = [@ EXCEPT
         !.step = "epoch",
         !.active = IF first = d THEN Active(rows) ELSE {},
         !.pending = Pending(rows) \ {d}, !.mine = rows[d].wrap,
         !.creator = (first = d)]]
  /\ UNCHANGED <<server, stored, page, working, rekey, made, faults>>

\* Not a member (any more): 403, and the next tick tries again.
ReadRefused(d) ==
  /\ asking[d] # NoTick /\ asking[d].step = "rows"
  /\ ~ is_member(rows, d)
  /\ asking' = [asking EXCEPT ![d] = NoTick]
  /\ UNCHANGED <<server, stored, page, working, rekey, made, faults>>

TickLost(d) ==
  /\ asking[d] # NoTick
  /\ Fault
  /\ asking' = [asking EXCEPT ![d] = NoTick]
  /\ UNCHANGED <<server, stored, page, working, rekey, made>>

\* The epoch is read after the rows, by a statement of its own.
SetPage(d) == [page EXCEPT ![d] = [cache |-> asking[d].active,
                                   epoch |-> currentEpoch,
                                   creator |-> asking[d].creator]]

\* maybeAdoptNewEpoch: `w` is the poll, `epoch` the page's epoch by now, which
\* a later answer may have set.
Adopted(entry, epoch, w) ==
  IF epoch > w.seen /\ w.mine # NoKey
    THEN appendRoomKey(entry, w.mine, epoch) ELSE entry

\* The answer of a poll that started with keys.  With nobody to grant a key
\* the page goes on to the epoch without another await on the network.
AnswerKeyed(d) ==
  LET a == asking[d]
      w == [newest |-> a.newest, seen |-> a.seen, pending |-> a.pending,
            mine |-> a.mine]
  IN
  /\ a # NoTick /\ a.step = "epoch" /\ a.newest # NoKey
  /\ Cardinality(working[d]) < MaxWorking
  /\ page' = SetPage(d)
  /\ IF a.pending = {}
       THEN /\ stored' = [stored EXCEPT ![d] = Adopted(@, currentEpoch, w)]
            /\ UNCHANGED working
       ELSE /\ working' = [working EXCEPT ![d] = @ \cup {w}]
            /\ UNCHANGED stored
  /\ asking' = [asking EXCEPT ![d] = NoTick]
  /\ UNCHANGED <<server, rekey, made, faults>>

CanUnwrap(d, a) == a.mine # NoKey /\ stored[d] # NoStore

\* maybeUnwrap: the first key, stored under the epoch of the answer, and a
\* reload of the page.
AnswerUnwrap(d) ==
  LET a == asking[d] IN
  /\ a # NoTick /\ a.step = "epoch" /\ a.newest = NoKey
  /\ asking' = [asking EXCEPT ![d] = NoTick]
  /\ IF CanUnwrap(d, a)
       THEN /\ stored' = [stored EXCEPT ![d] = appendRoomKey(@, a.mine, currentEpoch)]
            /\ page' = [page EXCEPT ![d] = NewPage]
            /\ working' = [working EXCEPT ![d] = {}]
       ELSE page' = SetPage(d) /\ UNCHANGED <<stored, working>>
  /\ UNCHANGED <<server, rekey, made, faults>>

-----------------------------------------------------------------------------
(* Acting on an answer: grants first, then the new epoch.                  *)

\* Variant: the key the storage holds by now.
KeyHeldNow(d, w) == IF Keyed(d) THEN stored[d].newest ELSE w.newest

\* maybeGrantPending wraps the newest key the poll started with.
GrantKey(d, w) == w.newest

Granted(d, w, b) == [working EXCEPT ![d] = (@ \ {w}) \cup
                       {[w EXCEPT !.pending = @ \ {b}]}]

\* A refusal, because someone else was first or either is gone, is ignored.
GrantPending(d) ==
  \E w \in working[d] : \E b \in w.pending :
    /\ working' = Granted(d, w, b)
    /\ rows' = IF is_active_member_pair(rows, d, d) /\ GrantMatches(rows, b, d)
                 THEN grant_wrap(rows, b, GrantKey(d, w), d) ELSE rows
    /\ UNCHANGED <<currentEpoch, stored, page, asking, rekey, made, barred, faults>>

GrantLost(d) ==
  \E w \in working[d] : \E b \in w.pending :
    /\ Fault
    /\ working' = Granted(d, w, b)
    /\ UNCHANGED <<server, stored, page, asking, rekey, made>>

AdoptNewEpoch(d) ==
  \E w \in working[d] :
    /\ w.pending = {}
    /\ working' = [working EXCEPT ![d] = @ \ {w}]
    /\ stored' = [stored EXCEPT ![d] = Adopted(@, page[d].epoch, w)]
    /\ UNCHANGED <<server, page, asking, rekey, made, faults>>

-----------------------------------------------------------------------------
(* Removing a member and rotating the key.                                 *)

\* A fresh key is wrapped for everyone the page last saw, the target excepted.
RemoveMember(d, target) ==
  /\ page[d].creator /\ Keyed(d)
  /\ rekey[d] = NoRekey
  /\ target \in page[d].cache \ {d}
  /\ made # Keys
  /\ LET key == CHOOSE k \in Keys : k \notin made IN
       /\ made' = made \cup {key}
       /\ rekey' = [rekey EXCEPT ![d] =
            [step |-> "sent", target |-> target, key |-> key,
             covers |-> page[d].cache \ {target}, epoch |-> 0]]
  /\ UNCHANGED <<server, stored, page, asking, working, faults>>

\* Variant: the removal of a member who may have left meanwhile.
RemovalUnchecked(d) ==
  LET r == rekey[d] IN
  /\ is_creator_by_sig(rows, d)
  /\ WrapsAccepted(rows, r.target, r.covers, Cardinality(r.covers))

RemovalAllowed(d) ==
  LET r == rekey[d] IN
  /\ is_creator_by_sig(rows, d)
  /\ r.target \in Active(rows)
  /\ WrapsAccepted(rows, r.target, r.covers, Cardinality(r.covers))

RekeyServe(d) ==
  LET r == rekey[d] IN
  /\ r # NoRekey /\ r.step = "sent"
  /\ RemovalAllowed(d)
  /\ rows' = remove_and_rekey(rows, r.target, r.covers, r.key)
  /\ currentEpoch' = currentEpoch + 1
  /\ barred' = [b \in Boxes |-> IF b \in Removed(rows')
                                  THEN barred[b] \cup {r.key} ELSE barred[b]]
  /\ rekey' = [rekey EXCEPT ![d] =
                 [@ EXCEPT !.step = "done", !.epoch = currentEpoch + 1]]
  /\ UNCHANGED <<stored, page, asking, working, made, faults>>

RekeyRefused(d) ==
  /\ rekey[d] # NoRekey /\ rekey[d].step = "sent"
  /\ ~ RemovalAllowed(d)
  /\ rekey' = [rekey EXCEPT ![d] = NoRekey]
  /\ UNCHANGED <<server, stored, page, asking, working, made, faults>>

RekeyDone(d) ==
  LET r == rekey[d] IN
  /\ r # NoRekey /\ r.step = "done"
  /\ stored' = [stored EXCEPT ![d] = appendRoomKey(@, r.key, r.epoch)]
  /\ rekey' = [rekey EXCEPT ![d] = NoRekey]
  /\ UNCHANGED <<server, page, asking, working, made, faults>>

\* The request is lost, or its answer; the page forgets the key.
RekeyLost(d) ==
  /\ rekey[d] # NoRekey
  /\ Fault
  /\ rekey' = [rekey EXCEPT ![d] = NoRekey]
  /\ UNCHANGED <<server, stored, page, asking, working, made>>

-----------------------------------------------------------------------------
(* Joining, leaving, forgetting, reloading.                                *)

Join(d) ==
  /\ rows[d].status = "absent"
  /\ rows' = add_member(rows, d, d, JoinDay)
  /\ stored' = [stored EXCEPT ![d] = [keys |-> {}, newest |-> NoKey, epoch |-> 0]]
  /\ UNCHANGED <<currentEpoch, page, asking, working, rekey, made, barred, faults>>

\* Other tabs, and this one until it is gone, run on after the entry is wiped.
Leave(d) ==
  /\ d \in Pages /\ stored[d] # NoStore /\ is_member(rows, d)
  /\ Fault
  /\ rows' = soft_remove_by_sig(rows, d)
  /\ stored' = [stored EXCEPT ![d] = NoStore]
  /\ UNCHANGED <<currentEpoch, page, asking, working, rekey, made, barred>>

\* The answer to a leave is lost: the member is out and keeps his keys.
LeaveLost(d) ==
  /\ d \in Pages /\ stored[d] # NoStore /\ is_member(rows, d)
  /\ Fault
  /\ rows' = soft_remove_by_sig(rows, d)
  /\ UNCHANGED <<currentEpoch, stored, page, asking, working, rekey, made, barred>>

\* "Forget on this device".
Forget(d) ==
  /\ d \in Pages /\ stored[d] # NoStore
  /\ Fault
  /\ stored' = [stored EXCEPT ![d] = NoStore]
  /\ UNCHANGED <<server, page, asking, working, rekey, made>>

Reload(d) ==
  /\ d \in Pages /\ stored[d] # NoStore
  /\ Fault
  /\ page' = [page EXCEPT ![d] = NewPage]
  /\ asking' = [asking EXCEPT ![d] = NoTick]
  /\ working' = [working EXCEPT ![d] = {}]
  /\ rekey' = [rekey EXCEPT ![d] = NoRekey]
  /\ UNCHANGED <<server, stored, made>>

-----------------------------------------------------------------------------
Poll(d) == \/ TickStart(d) \/ ReadRows(d) \/ ReadRefused(d)
           \/ AnswerKeyed(d) \/ AnswerUnwrap(d)

Follow(d) == GrantPending(d) \/ AdoptNewEpoch(d)

Rotate(d) == RekeyServe(d) \/ RekeyRefused(d) \/ RekeyDone(d)

Next == \E d \in Boxes :
  \/ Poll(d) \/ Follow(d) \/ Rotate(d)
  \/ TickLost(d) \/ GrantLost(d) \/ RekeyLost(d)
  \/ \E target \in Boxes : RemoveMember(d, target)
  \/ Join(d) \/ Leave(d) \/ LeaveLost(d) \/ Forget(d) \/ Reload(d)

Spec == Init /\ [][Next]_vars

\* The pages in Pages stay open: the interval timers fire, the server
\* answers, and what an answer started runs on.  Users owe nothing.
FairSpec == Spec /\ \A d \in Pages :
                      WF_vars(Poll(d)) /\ WF_vars(Follow(d))

-----------------------------------------------------------------------------
(* Properties.                                                             *)

TypeOK ==
  /\ rows \in [Boxes -> Row]
  /\ currentEpoch \in Nat
  /\ stored \in [Boxes -> Stored \cup {NoStore}]
  /\ page \in [Boxes -> Page]
  /\ asking \in [Boxes -> Asking \cup {NoTick}]
  /\ working \in [Boxes -> SUBSET Working]
  /\ rekey \in [Boxes -> Rekey \cup {NoRekey}]
  /\ made \subseteq Keys
  /\ barred \in [Boxes -> SUBSET Keys]
  /\ faults \in 0..MaxFaults

\* A key put in force when a device was removed, or later, never reaches it:
\* it is never wrapped for the device's row, though the grant statement does
\* not look at the recipient's removal, and never in the device's storage.
\* It rests on every poll reading its keys before it asks for the rows.
RemovedNeverKeyed ==
  \A d \in Boxes :
    /\ rows[d].wrap \notin barred[d]
    /\ stored[d] # NoStore => stored[d].keys \cap barred[d] = {}

\* Once a device has wiped the room's keys, nothing that was under way in its
\* tabs, a grant, an adoption, a rotation, brings an entry back.
WipedStaysWiped ==
  [][\A d \in Boxes : rows[d].status # "absent" /\ stored[d] = NoStore
                        => stored'[d] = NoStore]_vars

\* What the pages do to the rows, with answers lost and members leaving in the
\* middle of it, is the membership of Membership.
M == INSTANCE Membership WITH
       Device <- Boxes, Founder <- Creator,
       stage <- [b \in Boxes |-> Stage(rows, b)], epoch <- currentEpoch

ImplementsMembership == M!Spec

KeyHolder(d) == is_member(rows, d) /\ Keyed(d)

\* A member's page that stays open catches up: a joiner gets a key, whoever
\* invited him, and a rotation is noticed, whatever was lost on the way, as
\* long as some member with a key keeps a page open too.
Behind(d) == ~ Keyed(d) \/ stored[d].epoch < currentEpoch

Served(d) == /\ is_member(rows, d) /\ stored[d] # NoStore
             /\ \E h \in Pages : KeyHolder(h)

MembersCatchUp ==
  \A d \in Pages : Served(d) /\ Behind(d) ~> ~ Served(d) \/ ~ Behind(d)

-----------------------------------------------------------------------------
(* A statement of the source's documentation that the code does not keep.  *)

\* "every message after the rekey is opaque to them": a member who has seen
\* the epoch of the room, has nothing under way and will not look for another
\* key before the next removal sends under a key a removed member holds.
Settled(d) == asking[d] = NoTick /\ working[d] = {} /\ rekey[d] = NoRekey

RemovedCannotReadOn ==
  \A d, r \in Boxes :
    /\ KeyHolder(d) /\ stored[d].epoch = currentEpoch /\ Settled(d)
    /\ barred[r] # {} /\ stored[r] # NoStore
    => stored[d].newest \notin stored[r].keys
=============================================================================
