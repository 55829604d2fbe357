--------------------------- MODULE RoomKeysProofs ---------------------------
(***************************************************************************)
(* Theorems about RoomKeys for every set of devices and keys and every     *)
(* bound.                                                                  *)
(***************************************************************************)
EXTENDS RoomKeys, TLAPS

-----------------------------------------------------------------------------
(* Types.                                                                  *)

\* Appending a key to an entry, or to none, yields an entry, or none.
LEMMA AppendType ==
  ASSUME NEW entry \in Stored \cup {NoStore}, NEW key \in Keys,
         NEW epoch \in Nat
  PROVE  appendRoomKey(entry, key, epoch) \in Stored \cup {NoStore}
BY DEF appendRoomKey, Stored

\* Adopting an epoch yields an entry, or none.
LEMMA AdoptType ==
  ASSUME NEW entry \in Stored \cup {NoStore}, NEW w \in Working,
         NEW epoch \in Nat
  PROVE  Adopted(entry, epoch, w) \in Stored \cup {NoStore}
<1>1. w.mine # NoKey => w.mine \in Keys
  BY DEF Working
<1>2. QED BY <1>1, AppendType DEF Adopted

\* A poll that has been answered is a poll to act on.
LEMMA AnswerType ==
  ASSUME NEW a \in Asking, a.newest # NoKey
  PROVE  [newest |-> a.newest, seen |-> a.seen, pending |-> a.pending,
          mine |-> a.mine] \in Working
BY DEF Asking, Working

\* One recipient less is still a poll to act on.
LEMMA GrantedType ==
  ASSUME NEW w \in Working, NEW b \in Boxes
  PROVE  [w EXCEPT !.pending = @ \ {b}] \in Working
BY DEF Working

\* A removal draws a key that was not made before.
LEMMA FreshKey ==
  ASSUME TypeOK, NEW d \in Boxes, NEW target \in Boxes, RemoveMember(d, target)
  PROVE  \E key \in Keys \ made :
           /\ made' = made \cup {key}
           /\ rekey' = [rekey EXCEPT ![d] =
                [step |-> "sent", target |-> target, key |-> key,
                 covers |-> page[d].cache \ {target}, epoch |-> 0]]
<1>1. \E k \in Keys : k \notin made
  BY DEF TypeOK, RemoveMember
<1>2. (CHOOSE k \in Keys : k \notin made) \in Keys \ made
  BY <1>1
<1>3. QED BY <1>2 DEF RemoveMember

\* Storing a wrapped key yields a table of rows.
LEMMA GrantedRowType ==
  ASSUME NEW rs \in [Boxes -> Row], NEW box \in Boxes, NEW key \in Keys,
         NEW by \in Boxes
  PROVE  grant_wrap(rs, box, key, by) \in [Boxes -> Row]
BY DEF grant_wrap, Row

\* The rows a poll has read complete its record.
LEMMA ReadType ==
  ASSUME NEW a \in Asking, NEW active \in SUBSET Boxes,
         NEW pending \in SUBSET Boxes, NEW mine \in Keys \cup {NoKey},
         NEW creator \in BOOLEAN
  PROVE  [a EXCEPT !.step = "epoch", !.active = active, !.pending = pending,
                   !.mine = mine, !.creator = creator] \in Asking
BY DEF Asking

\* A removal that was served is still a removal.
LEMMA ServedType ==
  ASSUME NEW r \in Rekey, NEW epoch \in Nat
  PROVE  [r EXCEPT !.step = "done", !.epoch = epoch] \in Rekey
BY DEF Rekey

\* Every reachable state is well typed.
THEOREM KeysTyped == Spec => []TypeOK
<1> USE KeysAssumption
<1>1. Init => TypeOK
  BY DEF Init, TypeOK, Row, NewRow, NoRow, Stored, Page, NewPage
<1>2. TypeOK /\ [Next]_vars => TypeOK'
  <2> SUFFICES ASSUME TypeOK, [Next]_vars PROVE TypeOK'
    OBVIOUS
  <2> USE DEF TypeOK
  <2>1. ASSUME NEW d \in Boxes, TickStart(d) PROVE TypeOK'
    BY <2>1 DEF TickStart, server, Asking, Stored
  <2>2. ASSUME NEW d \in Boxes, ReadRows(d) PROVE TypeOK'
    <3>1. asking[d] \in Asking /\ rows[d].wrap \in Keys \cup {NoKey}
      BY <2>2 DEF ReadRows, Row
    <3>2. Active(rows) \in SUBSET Boxes /\ Pending(rows) \in SUBSET Boxes
      BY DEF Active, Pending
    <3>3. PICK first : asking' = [asking EXCEPT ![d] =
            [asking[d] EXCEPT !.step = "epoch",
               !.active = IF first = d THEN Active(rows) ELSE {},
               !.pending = Pending(rows) \ {d}, !.mine = rows[d].wrap,
               !.creator = (first = d)]]
      BY <2>2 DEF ReadRows
    <3>4. asking' \in [Boxes -> Asking \cup {NoTick}]
      BY <3>1, <3>2, <3>3, ReadType
    <3>5. QED BY <2>2, <3>4 DEF ReadRows, server
  <2>3. ASSUME NEW d \in Boxes, ReadRefused(d) \/ TickLost(d) PROVE TypeOK'
    BY <2>3 DEF ReadRefused, TickLost, server, Fault
  <2>4. ASSUME NEW d \in Boxes, AnswerKeyed(d) PROVE TypeOK'
    <3> DEFINE a == asking[d]
               w == [newest |-> a.newest, seen |-> a.seen,
                     pending |-> a.pending, mine |-> a.mine]
    <3>1. a \in Asking /\ w \in Working
      BY <2>4, AnswerType DEF AnswerKeyed
    <3>2. Adopted(stored[d], currentEpoch, w) \in Stored \cup {NoStore}
      BY <3>1, AdoptType
    <3>3. page' \in [Boxes -> Page]
      BY <2>4, <3>1 DEF AnswerKeyed, SetPage, Page, Asking
    <3>4. stored' \in [Boxes -> Stored \cup {NoStore}]
      BY <2>4, <3>2 DEF AnswerKeyed
    <3>5. working' \in [Boxes -> SUBSET Working]
      BY <2>4, <3>1 DEF AnswerKeyed
    <3>6. QED BY <2>4, <3>3, <3>4, <3>5 DEF AnswerKeyed, server
  <2>5. ASSUME NEW d \in Boxes, AnswerUnwrap(d) PROVE TypeOK'
    <3>1. asking[d] \in Asking
      BY <2>5 DEF AnswerUnwrap
    <3>2. page' \in [Boxes -> Page]
      <4>1. SetPage(d) \in [Boxes -> Page]
        BY <3>1 DEF SetPage, Page, Asking
      <4>2. [page EXCEPT ![d] = NewPage] \in [Boxes -> Page]
        BY DEF NewPage, Page
      <4>3. QED BY <2>5, <4>1, <4>2 DEF AnswerUnwrap
    <3>3. CanUnwrap(d, asking[d]) =>
            appendRoomKey(stored[d], asking[d].mine, currentEpoch)
              \in Stored \cup {NoStore}
      BY <3>1, AppendType DEF CanUnwrap, Asking
    <3>4. stored' \in [Boxes -> Stored \cup {NoStore}]
      BY <2>5, <3>3 DEF AnswerUnwrap
    <3>5. QED BY <2>5, <3>2, <3>4 DEF AnswerUnwrap, server
  <2>6. ASSUME NEW d \in Boxes, GrantPending(d) PROVE TypeOK'
    <3>1. PICK w \in working[d] : \E b \in w.pending :
            /\ working' = Granted(d, w, b)
            /\ rows' = IF is_active_member_pair(rows, d, d)
                            /\ GrantMatches(rows, b, d)
                         THEN grant_wrap(rows, b, GrantKey(d, w), d) ELSE rows
      BY <2>6 DEF GrantPending
    <3>2. PICK b \in w.pending :
            /\ working' = Granted(d, w, b)
            /\ rows' = IF is_active_member_pair(rows, d, d)
                            /\ GrantMatches(rows, b, d)
                         THEN grant_wrap(rows, b, GrantKey(d, w), d) ELSE rows
      BY <3>1
    <3>3. w \in Working /\ b \in Boxes
      BY <3>1, <3>2 DEF Working
    <3>4. working' \in [Boxes -> SUBSET Working]
      BY <3>2, <3>3, GrantedType DEF Granted
    <3>5. rows' \in [Boxes -> Row]
      BY <3>2, <3>3, GrantedRowType DEF GrantKey, Working
    <3>6. QED BY <2>6, <3>4, <3>5 DEF GrantPending
  <2>7. ASSUME NEW d \in Boxes, GrantLost(d) PROVE TypeOK'
    <3>1. PICK w \in working[d] : \E b \in w.pending :
            working' = Granted(d, w, b)
      BY <2>7 DEF GrantLost
    <3>2. PICK b \in w.pending : working' = Granted(d, w, b)
      BY <3>1
    <3>3. w \in Working /\ b \in Boxes
      BY <3>1, <3>2 DEF Working
    <3>4. working' \in [Boxes -> SUBSET Working]
      BY <3>2, <3>3, GrantedType DEF Granted
    <3>5. QED BY <2>7, <3>4 DEF GrantLost, Fault, server
  <2>8. ASSUME NEW d \in Boxes, AdoptNewEpoch(d) PROVE TypeOK'
    <3>1. PICK w \in working[d] :
            /\ working' = [working EXCEPT ![d] = @ \ {w}]
            /\ stored' = [stored EXCEPT ![d] = Adopted(@, page[d].epoch, w)]
      BY <2>8 DEF AdoptNewEpoch
    <3>2. w \in Working /\ page[d].epoch \in Nat
      BY <3>1 DEF Page
    <3>3. Adopted(stored[d], page[d].epoch, w) \in Stored \cup {NoStore}
      BY <3>2, AdoptType
    <3>4. QED BY <2>8, <3>1, <3>3 DEF AdoptNewEpoch, server
  <2>9. ASSUME NEW d \in Boxes, NEW target \in Boxes, RemoveMember(d, target)
        PROVE  TypeOK'
    <3>1. PICK key \in Keys \ made :
            /\ made' = made \cup {key}
            /\ rekey' = [rekey EXCEPT ![d] =
                 [step |-> "sent", target |-> target, key |-> key,
                  covers |-> page[d].cache \ {target}, epoch |-> 0]]
      BY <2>9, FreshKey
    <3>2. page[d].cache \ {target} \in SUBSET Boxes
      BY DEF Page
    <3>3. rekey' \in [Boxes -> Rekey \cup {NoRekey}]
      BY <3>1, <3>2 DEF Rekey
    <3>4. QED BY <2>9, <3>1, <3>3 DEF RemoveMember, server
  <2>10. ASSUME NEW d \in Boxes, RekeyServe(d) PROVE TypeOK'
    <3>1. rekey[d] \in Rekey
      BY <2>10 DEF RekeyServe
    <3>2. rows' \in [Boxes -> Row]
      BY <2>10, <3>1 DEF RekeyServe, remove_and_rekey, Rekey, Row
    <3>3. barred' \in [Boxes -> SUBSET Keys]
      BY <2>10, <3>1 DEF RekeyServe, Rekey
    <3>4. rekey' \in [Boxes -> Rekey \cup {NoRekey}]
      <4>1. rekey' = [rekey EXCEPT ![d] =
              [rekey[d] EXCEPT !.step = "done", !.epoch = currentEpoch + 1]]
        BY <2>10 DEF RekeyServe
      <4>2. currentEpoch + 1 \in Nat
        OBVIOUS
      <4>3. [rekey[d] EXCEPT !.step = "done", !.epoch = currentEpoch + 1] \in Rekey
        BY <3>1, <4>2, ServedType, Zenon
      <4>4. QED BY <4>1, <4>3
    <3>5. QED BY <2>10, <3>2, <3>3, <3>4 DEF RekeyServe
  <2>11. ASSUME NEW d \in Boxes, RekeyRefused(d) \/ RekeyLost(d) PROVE TypeOK'
    BY <2>11 DEF RekeyRefused, RekeyLost, Fault, server
  <2>12. ASSUME NEW d \in Boxes, RekeyDone(d) PROVE TypeOK'
    <3>1. rekey[d].key \in Keys /\ rekey[d].epoch \in Nat
      BY <2>12 DEF RekeyDone, Rekey
    <3>2. appendRoomKey(stored[d], rekey[d].key, rekey[d].epoch)
            \in Stored \cup {NoStore}
      BY <3>1, AppendType
    <3>3. QED BY <2>12, <3>2 DEF RekeyDone, server
  <2>13. ASSUME NEW d \in Boxes, Join(d) PROVE TypeOK'
    BY <2>13 DEF Join, add_member, NewRow, Row, Stored
  <2>14. ASSUME NEW d \in Boxes, Leave(d) \/ LeaveLost(d) PROVE TypeOK'
    <3>1. rows' \in [Boxes -> Row]
      BY <2>14 DEF Leave, LeaveLost, soft_remove_by_sig, Row
    <3>2. QED BY <2>14, <3>1 DEF Leave, LeaveLost, Fault
  <2>15. ASSUME NEW d \in Boxes, Forget(d) \/ Reload(d) PROVE TypeOK'
    <3>1. NewPage \in Page
      BY DEF NewPage, Page
    <3>2. CASE Forget(d)
      BY <3>2 DEF Forget, Fault, server
    <3>3. CASE Reload(d)
      BY <3>1, <3>3 DEF Reload, Fault, server
    <3>4. QED BY <2>15, <3>2, <3>3
  <2>16. CASE UNCHANGED vars
    BY <2>16 DEF vars
  <2>17. QED
    BY <2>1, <2>2, <2>3, <2>4, <2>5, <2>6, <2>7, <2>8, <2>9, <2>10, <2>11,
       <2>12, <2>13, <2>14, <2>15, <2>16 DEF Next, Poll, Follow, Rotate
<1>3. QED BY <1>1, <1>2, PTL DEF Spec

-----------------------------------------------------------------------------
(* Removed devices and the keys put in force since.                        *)

\* The device's row, storage or polls hold the key.
InHand(d, k) ==
  \/ rows[d].wrap = k
  \/ stored[d] # NoStore /\ (k \in stored[d].keys \/ k = stored[d].newest)
  \/ asking[d] # NoTick /\ (asking[d].newest = k \/ asking[d].mine = k)
  \/ \E w \in working[d] : w.newest = k \/ w.mine = k

RowsInv ==
  \A b \in Boxes : /\ rows[b].status # "absent" => rows[b].sig = b
                   /\ barred[b] # {} => rows[b].status = "removed"
                   /\ barred[b] \subseteq made

\* Whatever a device holds was made and is not barred to it.
HandsInv ==
  \A d \in Boxes, k \in Keys : InHand(d, k) => k \in made /\ k \notin barred[d]

\* Whoever a page is about to grant its key is not barred from it.
GrantsInv ==
  \A d \in Boxes :
    /\ asking[d] # NoTick =>
         \A b \in asking[d].pending : asking[d].newest \notin barred[b]
    /\ \A w \in working[d] : \A b \in w.pending : w.newest \notin barred[b]

\* The key of a removal that has not been served is in nobody's hands yet.
RekeyInv ==
  \A d \in Boxes : rekey[d] # NoRekey =>
    /\ rekey[d].key \in made \ barred[d]
    /\ rekey[d].target # d
    /\ \A e \in Boxes \ {d} : rekey[e] # NoRekey => rekey[e].key # rekey[d].key
    /\ rekey[d].step = "sent" =>
         \A e \in Boxes : ~ InHand(e, rekey[d].key) /\ rekey[d].key \notin barred[e]

KeyInv == RowsInv /\ HandsInv /\ GrantsInv /\ RekeyInv

\* A step that brings no key into any hand, bars none, makes none and starts
\* no removal keeps the invariant.
LEMMA QuietStep ==
  ASSUME TypeOK, TypeOK', KeyInv, RowsInv', GrantsInv',
         UNCHANGED <<made, barred>>,
         \A d \in Boxes : rekey'[d] = rekey[d] \/ rekey'[d] = NoRekey,
         \A d \in Boxes, k \in Keys : InHand(d, k)' => InHand(d, k)
  PROVE  KeyInv'
<1>1. HandsInv'
  BY DEF KeyInv, HandsInv
<1>2. RekeyInv'
  <2>1. \A d \in Boxes : rekey[d] # NoRekey => rekey[d].key \in Keys
    BY DEF TypeOK, Rekey
  <2>2. QED BY <2>1 DEF KeyInv, RekeyInv
<1>3. QED BY <1>1, <1>2 DEF KeyInv

\* A step that hands one key to one device keeps the invariant if the key is
\* not barred to the device and is not that of a removal still to be served.
LEMMA HandOver ==
  ASSUME TypeOK, TypeOK', KeyInv, RowsInv', GrantsInv',
         UNCHANGED <<made, barred>>,
         NEW b \in Boxes, NEW key \in made \ barred[b],
         \A d \in Boxes : rekey'[d] # NoRekey =>
           rekey'[d] = rekey[d] /\ (rekey[d].step = "sent" => rekey[d].key # key),
         \A d \in Boxes, k \in Keys :
           InHand(d, k)' => InHand(d, k) \/ (d = b /\ k = key)
  PROVE  KeyInv'
<1>1. HandsInv'
  BY DEF KeyInv, HandsInv
<1>2. RekeyInv'
  <2>1. \A d \in Boxes : rekey[d] # NoRekey => rekey[d].key \in Keys
    BY DEF TypeOK, Rekey
  <2>2. QED BY <2>1 DEF KeyInv, RekeyInv
<1>3. QED BY <1>1, <1>2 DEF KeyInv

\* What an entry holds after a key was appended.
LEMMA AppendHolds ==
  ASSUME NEW entry, NEW key, NEW epoch, NEW k,
         appendRoomKey(entry, key, epoch) # NoStore,
         \/ k \in appendRoomKey(entry, key, epoch).keys
         \/ k = appendRoomKey(entry, key, epoch).newest
  PROVE  /\ entry # NoStore
         /\ k = key \/ k \in entry.keys \/ k = entry.newest
BY DEF appendRoomKey

\* Adopting an epoch brings only the key of the poll's answer.
LEMMA AdoptHolds ==
  ASSUME NEW entry, NEW w, NEW epoch, NEW k \in Keys,
         Adopted(entry, epoch, w) # NoStore,
         \/ k \in Adopted(entry, epoch, w).keys
         \/ k = Adopted(entry, epoch, w).newest
  PROVE  /\ entry # NoStore
         /\ k = w.mine \/ k \in entry.keys \/ k = entry.newest
BY AppendHolds DEF Adopted

\* A grant takes the recipient off the poll's list and changes nothing else.
LEMMA GrantedPoll ==
  ASSUME TypeOK, NEW d \in Boxes, NEW w \in working[d], NEW b \in w.pending,
         working' = Granted(d, w, b)
  PROVE  \E v \in Working :
           /\ v.newest = w.newest /\ v.mine = w.mine
           /\ v.pending = w.pending \ {b}
           /\ working' = [working EXCEPT ![d] = (@ \ {w}) \cup {v}]
<1>1. w \in Working /\ b \in Boxes
  BY DEF TypeOK, Working
<1>2. [w EXCEPT !.pending = @ \ {b}] \in Working
  BY <1>1, GrantedType
<1>3. /\ [w EXCEPT !.pending = @ \ {b}].newest = w.newest
      /\ [w EXCEPT !.pending = @ \ {b}].mine = w.mine
      /\ [w EXCEPT !.pending = @ \ {b}].pending = w.pending \ {b}
  BY <1>1 DEF Working
<1>4. QED BY <1>2, <1>3, Zenon DEF Granted

\* A grant changes the recipient's wrapped key and inviter.
LEMMA GrantedRow ==
  ASSUME NEW rs \in [Boxes -> Row], NEW box \in Boxes, NEW key, NEW by,
         NEW e \in Boxes
  PROVE  /\ grant_wrap(rs, box, key, by)[e].status = rs[e].status
         /\ grant_wrap(rs, box, key, by)[e].sig = rs[e].sig
         /\ grant_wrap(rs, box, key, by)[e].wrap
              = IF e = box THEN key ELSE rs[e].wrap
<1>1. rs[box] \in Row
  OBVIOUS
<1>2. QED BY <1>1 DEF grant_wrap, Row

\* A removal flips its target, hands the key to survivors only, and nothing else.
LEMMA RekeyedRow ==
  ASSUME NEW rs \in [Boxes -> Row], NEW target \in Boxes,
         NEW covers \in SUBSET Boxes, NEW key, NEW e \in Boxes
  PROVE  LET new == remove_and_rekey(rs, target, covers, key)[e] IN
         /\ new.sig = rs[e].sig
         /\ new.status = IF e = target THEN "removed" ELSE rs[e].status
         /\ \/ new.wrap = rs[e].wrap
            \/ e # target /\ rs[e].status = "active" /\ new.wrap = key
<1>1. rs[e] \in Row
  OBVIOUS
<1>2. CASE e = target
  BY <1>1, <1>2 DEF remove_and_rekey, Row
<1>3. CASE e # target /\ e \in covers /\ e \in Active(rs)
  <2>1. rs[e].status = "active"
    BY <1>3 DEF Active
  <2>2. QED BY <1>1, <1>3, <2>1 DEF remove_and_rekey, Row
<1>4. CASE e # target /\ ~ (e \in covers /\ e \in Active(rs))
  BY <1>4 DEF remove_and_rekey
<1>5. QED BY <1>2, <1>3, <1>4

\* A leave changes the status of the leaver's rows and nothing else.
LEMMA LeaveRows ==
  ASSUME NEW rs \in [Boxes -> Row], NEW d, NEW e \in Boxes
  PROVE  /\ soft_remove_by_sig(rs, d)[e].wrap = rs[e].wrap
         /\ soft_remove_by_sig(rs, d)[e].sig = rs[e].sig
         /\ soft_remove_by_sig(rs, d)[e].status
              = IF e \in RowsOfSig(rs, d) THEN "removed" ELSE rs[e].status
<1>1. rs[e] \in Row
  OBVIOUS
<1>2. CASE e \in RowsOfSig(rs, d)
  BY <1>1, <1>2 DEF soft_remove_by_sig, Row
<1>3. CASE e \notin RowsOfSig(rs, d)
  BY <1>3 DEF soft_remove_by_sig
<1>4. QED BY <1>2, <1>3

\* No key put in force when a device was removed, or later, reaches it.
THEOREM RemovedStayOut == Spec => []RemovedNeverKeyed
<1> USE KeysAssumption
<1>1. Init => KeyInv
  BY NullAssumption DEF Init, KeyInv, RowsInv, HandsInv, GrantsInv, RekeyInv, InHand,
     NewRow, NoRow
<1>2. TypeOK /\ TypeOK' /\ KeyInv /\ [Next]_vars => KeyInv'
  <2> SUFFICES ASSUME TypeOK, TypeOK', KeyInv, [Next]_vars PROVE KeyInv'
    OBVIOUS
  <2> USE DEF RowsInv, GrantsInv
  <2>1. ASSUME NEW d \in Boxes, TickStart(d) PROVE KeyInv'
    <3>1. \A e \in Boxes, k \in Keys : InHand(e, k)' => InHand(e, k)
      BY <2>1, NullAssumption DEF TickStart, TypeOK, InHand, server
    <3>2. RowsInv' /\ GrantsInv'
      BY <2>1 DEF TickStart, TypeOK, KeyInv, server
    <3>3. QED BY <2>1, <3>1, <3>2, QuietStep DEF TickStart, server
  <2>2. ASSUME NEW d \in Boxes, ReadRows(d) PROVE KeyInv'
    <3>1. /\ asking'[d].newest = asking[d].newest
          /\ asking'[d].mine = rows[d].wrap
          /\ asking'[d].pending = Pending(rows) \ {d}
          /\ \A e \in Boxes \ {d} : asking'[e] = asking[e]
      <4>1. asking[d] \in Asking
        BY <2>2 DEF ReadRows, TypeOK
      <4>2. QED BY <2>2, <4>1 DEF ReadRows, TypeOK, Asking
    <3>2. \A e \in Boxes, k \in Keys : InHand(e, k)' => InHand(e, k)
      BY <2>2, <3>1 DEF ReadRows, TypeOK, InHand, server
    <3>3. \A b \in Pending(rows) : barred[b] = {}
      BY DEF KeyInv, Pending, Active
    <3>4. RowsInv' /\ GrantsInv'
      BY <2>2, <3>1, <3>3 DEF ReadRows, KeyInv, server
    <3>5. QED BY <2>2, <3>2, <3>4, QuietStep DEF ReadRows, server
  <2>3. ASSUME NEW d \in Boxes, ReadRefused(d) \/ TickLost(d) PROVE KeyInv'
    <3>1. \A e \in Boxes, k \in Keys : InHand(e, k)' => InHand(e, k)
      BY <2>3 DEF ReadRefused, TickLost, TypeOK, InHand, server
    <3>2. RowsInv' /\ GrantsInv'
      BY <2>3 DEF ReadRefused, TickLost, TypeOK, KeyInv, server
    <3>3. QED BY <2>3, <3>1, <3>2, QuietStep DEF ReadRefused, TickLost, server
  <2>4. ASSUME NEW d \in Boxes, AnswerKeyed(d) PROVE KeyInv'
    <3> DEFINE a == asking[d]
    <3>1. a \in Asking /\ a # NoTick /\ a.newest # NoKey
      BY <2>4 DEF AnswerKeyed, TypeOK
    <3>2. PICK w \in Working :
            w = [newest |-> a.newest, seen |-> a.seen, pending |-> a.pending,
                 mine |-> a.mine]
      BY <3>1, AnswerType
    <3>3. w.newest = a.newest /\ w.mine = a.mine /\ w.pending = a.pending
      BY <3>2
    <3>4. /\ working' = working \/ working' = [working EXCEPT ![d] = @ \cup {w}]
          /\ \/ stored' = stored
             \/ stored' = [stored EXCEPT ![d] = Adopted(@, currentEpoch, w)]
      BY <2>4, <3>2 DEF AnswerKeyed
    <3>5. \A e \in Boxes : \A v \in working'[e] : v \in working[e] \/ (e = d /\ v = w)
      BY <3>4 DEF TypeOK
    <3>6. \A e \in Boxes : \/ stored'[e] = stored[e]
                          \/ (e = d /\ stored'[d] = Adopted(stored[d], currentEpoch, w))
      BY <3>4 DEF TypeOK
    <3>7. ASSUME NEW e \in Boxes, NEW k \in Keys, InHand(e, k)' PROVE InHand(e, k)
      <4>1. CASE stored'[e] # NoStore /\ (k \in stored'[e].keys \/ k = stored'[e].newest)
        <5>1. CASE stored'[e] = stored[e]
          BY <4>1, <5>1 DEF InHand
        <5>2. CASE e = d /\ stored'[d] = Adopted(stored[d], currentEpoch, w)
          <6>1. /\ Adopted(stored[d], currentEpoch, w) # NoStore
                /\ \/ k \in Adopted(stored[d], currentEpoch, w).keys
                   \/ k = Adopted(stored[d], currentEpoch, w).newest
            BY <4>1, <5>2
          <6>2. /\ stored[d] # NoStore
                /\ k = w.mine \/ k \in stored[d].keys \/ k = stored[d].newest
            BY <6>1, AdoptHolds
          <6>3. QED BY <3>1, <3>3, <5>2, <6>2 DEF InHand
        <5>3. QED BY <3>6, <5>1, <5>2
      <4>2. CASE ~ (stored'[e] # NoStore
                      /\ (k \in stored'[e].keys \/ k = stored'[e].newest))
        BY <2>4, <3>1, <3>3, <3>5, <3>7, <4>2
           DEF AnswerKeyed, InHand, TypeOK, server
      <4>3. QED BY <4>1, <4>2
    <3>8. \A e \in Boxes : asking'[e] \in {asking[e], NoTick}
      BY <2>4 DEF AnswerKeyed, TypeOK
    <3>9. GrantsInv'
      BY <2>4, <3>1, <3>3, <3>5, <3>8 DEF AnswerKeyed, KeyInv, server
    <3>10. RowsInv'
      BY <2>4 DEF AnswerKeyed, KeyInv, server
    <3>11. QED BY <2>4, <3>7, <3>9, <3>10, QuietStep DEF AnswerKeyed, server
  <2>5. ASSUME NEW d \in Boxes, AnswerUnwrap(d) PROVE KeyInv'
    <3>1. \A e \in Boxes : stored'[e] = stored[e]
            \/ /\ e = d /\ CanUnwrap(d, asking[d])
               /\ stored'[d] = appendRoomKey(stored[d], asking[d].mine, currentEpoch)
      BY <2>5 DEF AnswerUnwrap, TypeOK
    <3>2. \A e \in Boxes : working'[e] \subseteq working[e]
      BY <2>5 DEF AnswerUnwrap, TypeOK
    <3>3. ASSUME NEW e \in Boxes, NEW k \in Keys, InHand(e, k)' PROVE InHand(e, k)
      <4>1. CASE stored'[e] # NoStore /\ (k \in stored'[e].keys \/ k = stored'[e].newest)
        BY <2>5, <3>1, <4>1, AppendHolds DEF InHand, AnswerUnwrap
      <4>2. CASE ~ (stored'[e] # NoStore
                      /\ (k \in stored'[e].keys \/ k = stored'[e].newest))
        BY <2>5, <3>2, <3>3, <4>2 DEF AnswerUnwrap, InHand, TypeOK, server
      <4>3. QED BY <4>1, <4>2
    <3>4. RowsInv' /\ GrantsInv'
      BY <2>5, <3>2 DEF AnswerUnwrap, TypeOK, KeyInv, server
    <3>5. QED BY <2>5, <3>3, <3>4, QuietStep DEF AnswerUnwrap, server
  <2>6. ASSUME NEW d \in Boxes, GrantPending(d) PROVE KeyInv'
    <3>1. PICK w \in working[d] : \E b \in w.pending :
            /\ working' = Granted(d, w, b)
            /\ rows' \in {rows, grant_wrap(rows, b, w.newest, d)}
            /\ rows' # rows => GrantMatches(rows, b, d)
      BY <2>6 DEF GrantPending, GrantKey
    <3>2. PICK b \in w.pending :
            /\ working' = Granted(d, w, b)
            /\ rows' \in {rows, grant_wrap(rows, b, w.newest, d)}
            /\ rows' # rows => GrantMatches(rows, b, d)
      BY <3>1
    <3>3. w \in Working /\ b \in Boxes /\ w.newest \in Keys
      BY <3>2 DEF TypeOK, Working
    <3>4. PICK v \in Working :
            /\ v.newest = w.newest /\ v.mine = w.mine
            /\ v.pending = w.pending \ {b}
            /\ working' = [working EXCEPT ![d] = (@ \ {w}) \cup {v}]
      BY <3>2, GrantedPoll
    <3>5. \A e \in Boxes :
            /\ rows'[e].status = rows[e].status
            /\ rows'[e].sig = rows[e].sig
            /\ \/ rows'[e].wrap = rows[e].wrap
               \/ (e = b /\ rows'[e].wrap = w.newest)
      BY <3>2, <3>3, GrantedRow DEF TypeOK
    <3>6. \A e \in Boxes, k \in Keys :
            InHand(e, k)' => InHand(e, k) \/ (e = b /\ k = w.newest)
      BY <2>6, <3>4, <3>5 DEF GrantPending, InHand, TypeOK
    <3>7. InHand(d, w.newest)
      BY DEF InHand
    <3>8. w.newest \in made \ barred[b]
      BY <3>2, <3>3, <3>7 DEF KeyInv, HandsInv
    <3>9. \A e \in Boxes : rekey[e] # NoRekey /\ rekey[e].step = "sent"
                          => rekey[e].key # w.newest
      BY <3>7 DEF KeyInv, RekeyInv
    <3>10. UNCHANGED <<made, barred, rekey>>
      BY <2>6 DEF GrantPending
    <3>11. RowsInv'
      <4>1. made' = made /\ barred' = barred
        BY <3>10
      <4>2. ASSUME NEW e \in Boxes
            PROVE  rows'[e].status = rows[e].status /\ rows'[e].sig = rows[e].sig
        BY <3>5
      <4>3. RowsInv
        BY DEF KeyInv
      <4>4. QED BY <4>1, <4>2, <4>3
    <3>12. GrantsInv'
      BY <2>6, <3>4 DEF GrantPending, KeyInv, TypeOK
    <3>13. QED BY <3>3, <3>6, <3>8, <3>9, <3>10, <3>11, <3>12, HandOver
  <2>7. ASSUME NEW d \in Boxes, GrantLost(d) PROVE KeyInv'
    <3>1. PICK w \in working[d] : \E b \in w.pending : working' = Granted(d, w, b)
      BY <2>7 DEF GrantLost
    <3>2. PICK b \in w.pending : working' = Granted(d, w, b)
      BY <3>1
    <3>3. PICK v \in Working :
            /\ v.newest = w.newest /\ v.mine = w.mine
            /\ v.pending = w.pending \ {b}
            /\ working' = [working EXCEPT ![d] = (@ \ {w}) \cup {v}]
      BY <3>2, GrantedPoll
    <3>4. \A e \in Boxes, k \in Keys : InHand(e, k)' => InHand(e, k)
      BY <2>7, <3>3 DEF GrantLost, InHand, TypeOK, server
    <3>5. RowsInv' /\ GrantsInv'
      BY <2>7, <3>3 DEF GrantLost, KeyInv, TypeOK, server
    <3>6. QED BY <2>7, <3>4, <3>5, QuietStep DEF GrantLost, server
  <2>8. ASSUME NEW d \in Boxes, AdoptNewEpoch(d) PROVE KeyInv'
    <3>1. PICK w \in working[d] :
            /\ working' = [working EXCEPT ![d] = @ \ {w}]
            /\ stored' = [stored EXCEPT ![d] = Adopted(@, page[d].epoch, w)]
      BY <2>8 DEF AdoptNewEpoch
    <3>2. ASSUME NEW e \in Boxes, NEW k \in Keys, InHand(e, k)' PROVE InHand(e, k)
      <4>1. CASE stored'[e] # NoStore /\ (k \in stored'[e].keys \/ k = stored'[e].newest)
        <5>1. CASE e # d
          BY <3>1, <4>1, <5>1 DEF InHand, TypeOK
        <5>2. CASE e = d
          <6>1. stored'[d] = Adopted(stored[d], page[d].epoch, w)
            BY <3>1 DEF TypeOK
          <6>2. /\ stored[d] # NoStore
                /\ k = w.mine \/ k \in stored[d].keys \/ k = stored[d].newest
            BY <4>1, <5>2, <6>1, AdoptHolds, Zenon
          <6>3. QED BY <5>2, <6>2 DEF InHand
        <5>3. QED BY <5>1, <5>2
      <4>2. CASE ~ (stored'[e] # NoStore
                      /\ (k \in stored'[e].keys \/ k = stored'[e].newest))
        BY <2>8, <3>1, <3>2, <4>2 DEF AdoptNewEpoch, InHand, TypeOK, server
      <4>3. QED BY <4>1, <4>2
    <3>3. RowsInv' /\ GrantsInv'
      BY <2>8, <3>1 DEF AdoptNewEpoch, TypeOK, KeyInv, server
    <3>4. QED BY <2>8, <3>2, <3>3, QuietStep DEF AdoptNewEpoch, server
  <2>9. ASSUME NEW d \in Boxes, NEW target \in Boxes, RemoveMember(d, target)
        PROVE  KeyInv'
    <3>1. PICK key \in Keys \ made :
            /\ made' = made \cup {key}
            /\ rekey' = [rekey EXCEPT ![d] =
                 [step |-> "sent", target |-> target, key |-> key,
                  covers |-> page[d].cache \ {target}, epoch |-> 0]]
      BY <2>9, FreshKey
    <3>2. /\ UNCHANGED <<rows, barred, stored, asking, working>>
          /\ target # d
      BY <2>9 DEF RemoveMember, server
    <3>3. \A e \in Boxes, k \in Keys : InHand(e, k)' <=> InHand(e, k)
      BY <3>2 DEF InHand
    <3>4. \A e \in Boxes : ~ InHand(e, key) /\ key \notin barred[e]
      BY <3>1 DEF KeyInv, HandsInv
    <3>5. /\ rekey'[d].step = "sent" /\ rekey'[d].key = key /\ rekey'[d].target = target
          /\ \A e \in Boxes \ {d} : rekey'[e] = rekey[e]
      BY <3>1 DEF TypeOK
    <3>6. \A e \in Boxes \ {d} : rekey[e] # NoRekey =>
            rekey[e].key \in Keys /\ rekey[e].key # key
      BY <3>1 DEF KeyInv, RekeyInv, TypeOK
    <3>7. RekeyInv'
      BY <3>1, <3>2, <3>3, <3>4, <3>5, <3>6 DEF KeyInv, RekeyInv
    <3>8. RowsInv' /\ GrantsInv'
      BY <3>1, <3>2 DEF KeyInv
    <3>9. HandsInv'
      BY <3>1, <3>2, <3>3 DEF KeyInv, HandsInv
    <3>10. QED BY <3>7, <3>8, <3>9 DEF KeyInv
  <2>10. ASSUME NEW d \in Boxes, RekeyServe(d) PROVE KeyInv'
    <3> DEFINE r == rekey[d]
    <3>1. r \in Rekey /\ r # NoRekey /\ r.step = "sent" /\ r.target # d
      BY <2>10 DEF RekeyServe, TypeOK, KeyInv, RekeyInv
    <3>2. r.key \in Keys /\ r.target \in Boxes /\ r.covers \in SUBSET Boxes
      BY <3>1 DEF Rekey
    <3>3. \A e \in Boxes :
            /\ rows'[e].sig = rows[e].sig
            /\ rows'[e].status = IF e = r.target THEN "removed" ELSE rows[e].status
            /\ \/ rows'[e].wrap = rows[e].wrap
               \/ (/\ e # r.target /\ rows[e].status = "active"
                   /\ rows'[e].wrap = r.key)
      BY <2>10, <3>2, RekeyedRow DEF RekeyServe, TypeOK
    <3>4. rows[d].status = "active"
      BY <2>10 DEF RekeyServe, RemovalAllowed, is_creator_by_sig, Active, KeyInv
    <3>5. rows[r.target].status = "active"
      BY <2>10 DEF RekeyServe, RemovalAllowed, Active
    <3>6. \A e \in Boxes :
            /\ rows'[e].status = "removed" => barred'[e] = barred[e] \cup {r.key}
            /\ rows'[e].status # "removed" => barred'[e] = barred[e]
      BY <2>10 DEF RekeyServe, Removed
    <3>7. \A e \in Boxes : ~ InHand(e, r.key) /\ r.key \notin barred[e]
      BY <3>1 DEF KeyInv, RekeyInv
    <3>8. /\ UNCHANGED <<stored, asking, working, made>>
          /\ r.key \in made
      BY <2>10, <3>1 DEF RekeyServe, KeyInv, RekeyInv
    <3>9. \A e \in Boxes, k \in Keys :
            InHand(e, k)' => \/ InHand(e, k)
                            \/ (k = r.key /\ barred'[e] = {})
      <4>1. \A e \in Boxes : rows[e].status = "active" => barred[e] = {}
        BY DEF KeyInv
      <4>2. QED BY <3>3, <3>6, <3>8, <4>1 DEF InHand
    <3>10. RowsInv'
      BY <3>3, <3>5, <3>6, <3>8 DEF KeyInv
    <3>11. HandsInv'
      BY <3>6, <3>7, <3>8, <3>9 DEF KeyInv, HandsInv
    <3>12. GrantsInv'
      <4>1. \A e \in Boxes : asking[e] # NoTick => asking[e].newest # r.key
        BY <3>7 DEF InHand
      <4>2. \A e \in Boxes : \A w \in working[e] : w.newest # r.key
        BY <3>7 DEF InHand
      <4>3. \A e \in Boxes : asking[e] # NoTick => asking[e].pending \subseteq Boxes
        BY DEF TypeOK, Asking
      <4>4. \A e \in Boxes : \A w \in working[e] : w.pending \subseteq Boxes
        BY DEF TypeOK, Working
      <4>5. \A b \in Boxes : barred'[b] \subseteq barred[b] \cup {r.key}
        BY <3>6
      <4>6. QED BY <3>8, <4>1, <4>2, <4>3, <4>4, <4>5 DEF KeyInv
    <3>13. /\ rekey'[d] # NoRekey => rekey'[d].key = r.key /\ rekey'[d].target = r.target
                                     /\ rekey'[d].step = "done"
           /\ \A e \in Boxes \ {d} : rekey'[e] = rekey[e]
      <4>1. rekey' = [rekey EXCEPT ![d] =
              [@ EXCEPT !.step = "done", !.epoch = currentEpoch + 1]]
        BY <2>10 DEF RekeyServe
      <4>2. QED BY <3>1, <4>1 DEF TypeOK, Rekey
    <3>14. RekeyInv'
      <4>1. ASSUME NEW e \in Boxes \ {d}, rekey[e] # NoRekey
            PROVE  /\ rekey[e].key \in Keys /\ rekey[e].key # r.key
                   /\ rekey[e].key \notin barred'[e]
                   /\ rekey[e].step = "sent" =>
                        \A f \in Boxes : ~ InHand(f, rekey[e].key)'
                                         /\ rekey[e].key \notin barred'[f]
        <5>1. rekey[e].key # r.key
          BY <3>1, <4>1 DEF KeyInv, RekeyInv
        <5>2. rekey[e].key \in Keys
          BY <4>1 DEF TypeOK, Rekey
        <5>3. rekey[e].key \notin barred'[e]
          <6>1. rekey[e].key \notin barred[e]
            BY <4>1 DEF KeyInv, RekeyInv
          <6>2. QED BY <3>6, <5>1, <6>1
        <5>4. ASSUME rekey[e].step = "sent", NEW f \in Boxes
              PROVE  ~ InHand(f, rekey[e].key)' /\ rekey[e].key \notin barred'[f]
          <6>1. ~ InHand(f, rekey[e].key) /\ rekey[e].key \notin barred[f]
            BY <4>1, <5>4 DEF KeyInv, RekeyInv
          <6>2. rekey'[e].key = rekey[e].key
            BY <3>13
          <6>3. ~ InHand(f, rekey[e].key)'
            BY <3>9, <5>1, <5>2, <6>1, <6>2
          <6>4. QED BY <3>6, <5>1, <6>1, <6>3
        <5>5. QED BY <5>1, <5>2, <5>3, <5>4
      <4>2. r.key \notin barred'[d]
        BY <3>1, <3>3, <3>4, <3>6, <3>7
      <4>3. QED BY <3>1, <3>8, <3>13, <4>1, <4>2 DEF KeyInv, RekeyInv
    <3>15. QED BY <3>10, <3>11, <3>12, <3>14 DEF KeyInv
  <2>11. ASSUME NEW d \in Boxes, RekeyRefused(d) \/ RekeyLost(d) PROVE KeyInv'
    <3>1. \A e \in Boxes, k \in Keys : InHand(e, k)' => InHand(e, k)
      BY <2>11 DEF RekeyRefused, RekeyLost, InHand, server
    <3>2. RowsInv' /\ GrantsInv'
      BY <2>11 DEF RekeyRefused, RekeyLost, KeyInv, server
    <3>3. QED BY <2>11, <3>1, <3>2, QuietStep DEF RekeyRefused, RekeyLost, TypeOK, server
  <2>12. ASSUME NEW d \in Boxes, RekeyDone(d) PROVE KeyInv'
    <3> DEFINE r == rekey[d]
    <3>1. r # NoRekey /\ r.key \in made \ barred[d] /\ r.key \in Keys
      BY <2>12 DEF RekeyDone, KeyInv, RekeyInv, TypeOK, Rekey
    <3>2. stored' = [stored EXCEPT ![d] = appendRoomKey(@, r.key, r.epoch)]
      BY <2>12 DEF RekeyDone
    <3>3. ASSUME NEW e \in Boxes, NEW k \in Keys, InHand(e, k)'
          PROVE  InHand(e, k) \/ (e = d /\ k = r.key)
      <4>1. CASE stored'[e] # NoStore /\ (k \in stored'[e].keys \/ k = stored'[e].newest)
        <5>1. CASE e # d
          BY <3>2, <4>1, <5>1 DEF InHand, TypeOK
        <5>2. CASE e = d
          <6>1. stored'[d] = appendRoomKey(stored[d], r.key, r.epoch)
            BY <3>2 DEF TypeOK
          <6>2. /\ appendRoomKey(stored[d], r.key, r.epoch) # NoStore
                /\ \/ k \in appendRoomKey(stored[d], r.key, r.epoch).keys
                   \/ k = appendRoomKey(stored[d], r.key, r.epoch).newest
            BY <4>1, <5>2, <6>1
          <6>3. /\ stored[d] # NoStore
                /\ k = r.key \/ k \in stored[d].keys \/ k = stored[d].newest
            BY <6>2, AppendHolds
          <6>4. QED BY <5>2, <6>3 DEF InHand
        <5>3. QED BY <5>1, <5>2
      <4>2. CASE ~ (stored'[e] # NoStore
                      /\ (k \in stored'[e].keys \/ k = stored'[e].newest))
        BY <2>12, <3>3, <4>2 DEF RekeyDone, InHand, server
      <4>3. QED BY <4>1, <4>2
    <3>4. \A e \in Boxes : rekey'[e] # NoRekey =>
            rekey'[e] = rekey[e] /\ rekey[e].key # r.key
      BY <2>12, <3>1 DEF RekeyDone, TypeOK, KeyInv, RekeyInv
    <3>5. RowsInv' /\ GrantsInv'
      BY <2>12 DEF RekeyDone, KeyInv, server
    <3>6. UNCHANGED <<made, barred>>
      BY <2>12 DEF RekeyDone, server
    <3>7. QED BY <3>1, <3>3, <3>4, <3>5, <3>6, HandOver
  <2>13. ASSUME NEW d \in Boxes, Join(d) PROVE KeyInv'
    <3>1. /\ rows' = [rows EXCEPT ![d] = NewRow(d, NoKey, JoinDay)]
          /\ stored' = [stored EXCEPT ![d] =
                          [keys |-> {}, newest |-> NoKey, epoch |-> 0]]
      BY <2>13 DEF Join, add_member
    <3>2. \A e \in Boxes \ {d} : rows'[e] = rows[e] /\ stored'[e] = stored[e]
      BY <3>1 DEF TypeOK
    <3>3. /\ rows'[d].wrap = NoKey /\ rows'[d].sig = d
          /\ stored'[d].keys = {} /\ stored'[d].newest = NoKey
      BY <3>1 DEF TypeOK, NewRow
    <3>4. \A e \in Boxes, k \in Keys : InHand(e, k)' => InHand(e, k)
      BY <2>13, <3>2, <3>3, NullAssumption DEF Join, InHand
    <3>5. RowsInv'
      BY <2>13, <3>2, <3>3 DEF Join, KeyInv
    <3>6. GrantsInv'
      BY <2>13 DEF Join, KeyInv
    <3>7. QED BY <2>13, <3>4, <3>5, <3>6, QuietStep DEF Join
  <2>14. ASSUME NEW d \in Boxes, Leave(d) \/ LeaveLost(d) PROVE KeyInv'
    <3>1. /\ rows' = soft_remove_by_sig(rows, d)
          /\ \A e \in Boxes : stored'[e] \in {stored[e], NoStore}
      BY <2>14 DEF Leave, LeaveLost, TypeOK
    <3>2. \A e \in Boxes :
            /\ rows'[e].wrap = rows[e].wrap
            /\ rows'[e].sig = rows[e].sig
            /\ rows'[e].status
                 = IF e \in RowsOfSig(rows, d) THEN "removed" ELSE rows[e].status
      <4>1. rows \in [Boxes -> Row]
        BY DEF TypeOK
      <4>2. QED BY <3>1, <4>1, LeaveRows
    <3>3. \A e \in RowsOfSig(rows, d) : rows[e].status = "active"
      BY DEF RowsOfSig, Active
    <3>4. \A e \in Boxes, k \in Keys : InHand(e, k)' => InHand(e, k)
      BY <2>14, <3>1, <3>2 DEF Leave, LeaveLost, InHand
    <3>5. RowsInv'
      BY <2>14, <3>2, <3>3 DEF Leave, LeaveLost, KeyInv
    <3>6. GrantsInv'
      BY <2>14 DEF Leave, LeaveLost, KeyInv
    <3>7. QED BY <2>14, <3>4, <3>5, <3>6, QuietStep DEF Leave, LeaveLost
  <2>15. ASSUME NEW d \in Boxes, Forget(d) \/ Reload(d) PROVE KeyInv'
    <3>1. \A e \in Boxes, k \in Keys : InHand(e, k)' => InHand(e, k)
      BY <2>15 DEF Forget, Reload, InHand, TypeOK, server
    <3>2. RowsInv' /\ GrantsInv'
      BY <2>15 DEF Forget, Reload, KeyInv, TypeOK, server
    <3>3. QED BY <2>15, <3>1, <3>2, QuietStep DEF Forget, Reload, TypeOK, server
  <2>16. CASE UNCHANGED vars
    BY <2>16 DEF vars, KeyInv, HandsInv, RekeyInv, InHand
  <2>17. QED
    BY <2>1, <2>2, <2>3, <2>4, <2>5, <2>6, <2>7, <2>8, <2>9, <2>10, <2>11,
       <2>12, <2>13, <2>14, <2>15, <2>16 DEF Next, Poll, Follow, Rotate
<1>3. TypeOK /\ KeyInv => RemovedNeverKeyed
  BY DEF RemovedNeverKeyed, KeyInv, HandsInv, RowsInv, InHand, TypeOK, Stored, Row
<1>4. QED BY <1>1, <1>2, <1>3, KeysTyped, PTL DEF Spec

-----------------------------------------------------------------------------
(* Wiped entries.                                                          *)

\* Nothing is appended to an entry that is gone.
LEMMA GoneStaysGone ==
  ASSUME NEW key, NEW epoch, NEW w
  PROVE  /\ appendRoomKey(NoStore, key, epoch) = NoStore
         /\ Adopted(NoStore, epoch, w) = NoStore
BY DEF appendRoomKey, Adopted

\* A device that has wiped the room's keys gets no entry from what was under
\* way in its tabs.
THEOREM WipedIsFinal == Spec => WipedStaysWiped
<1>1. TypeOK /\ [Next]_vars =>
        [\A d \in Boxes : rows[d].status # "absent" /\ stored[d] = NoStore
                          => stored'[d] = NoStore]_vars
  <2> SUFFICES ASSUME TypeOK, Next, NEW e \in Boxes,
                      rows[e].status # "absent", stored[e] = NoStore
               PROVE  stored'[e] = NoStore
    BY DEF vars
  <2>1. PICK d \in Boxes : \/ Poll(d) \/ Follow(d) \/ Rotate(d)
                          \/ TickLost(d) \/ GrantLost(d) \/ RekeyLost(d)
                          \/ \E target \in Boxes : RemoveMember(d, target)
                          \/ Join(d) \/ Leave(d) \/ LeaveLost(d)
                          \/ Forget(d) \/ Reload(d)
    BY DEF Next
  <2>2. \/ stored' = stored
        \/ \E x : stored' = [stored EXCEPT ![d] = x] /\ (d = e => x = NoStore)
    <3>1. CASE Poll(d)
      <4>1. CASE AnswerKeyed(d)
        <5>1. PICK w : stored' = stored
                \/ stored' = [stored EXCEPT ![d] = Adopted(stored[d], currentEpoch, w)]
          BY <4>1 DEF AnswerKeyed
        <5>2. d = e => Adopted(stored[d], currentEpoch, w) = NoStore
          BY GoneStaysGone
        <5>3. QED BY <5>1, <5>2
      <4>2. CASE AnswerUnwrap(d)
        BY <4>2 DEF AnswerUnwrap, CanUnwrap
      <4>3. QED BY <3>1, <4>1, <4>2 DEF Poll, TickStart, ReadRows, ReadRefused
    <3>2. CASE Follow(d)
      <4>1. CASE AdoptNewEpoch(d)
        <5>1. PICK w : stored' = [stored EXCEPT ![d] =
                                    Adopted(stored[d], page[d].epoch, w)]
          BY <4>1 DEF AdoptNewEpoch
        <5>2. d = e => Adopted(stored[d], page[d].epoch, w) = NoStore
          BY GoneStaysGone
        <5>3. QED BY <5>1, <5>2
      <4>2. QED BY <3>2, <4>1 DEF Follow, GrantPending
    <3>3. CASE Rotate(d)
      <4>1. CASE RekeyDone(d)
        <5>1. stored' = [stored EXCEPT ![d] =
                appendRoomKey(stored[d], rekey[d].key, rekey[d].epoch)]
          BY <4>1 DEF RekeyDone
        <5>2. d = e => appendRoomKey(stored[d], rekey[d].key, rekey[d].epoch) = NoStore
          BY GoneStaysGone
        <5>3. QED BY <5>1, <5>2
      <4>2. QED BY <3>3, <4>1 DEF Rotate, RekeyServe, RekeyRefused
    <3>4. CASE Join(d)
      <4>1. d # e
        BY <3>4 DEF Join
      <4>2. QED BY <3>4, <4>1 DEF Join
    <3>5. CASE Leave(d) \/ Forget(d)
      BY <3>5 DEF Leave, Forget
    <3>6. QED BY <2>1, <3>1, <3>2, <3>3, <3>4, <3>5 DEF TickLost, GrantLost,
              RekeyLost, RemoveMember, LeaveLost, Reload
  <2>3. QED BY <2>2 DEF TypeOK
<1>2. QED BY <1>1, KeysTyped, PTL DEF Spec, WipedStaysWiped

-----------------------------------------------------------------------------
(* The rows implement the abstract membership.                             *)

\* The stage a row stands for, by its status and its wrapped key.
LEMMA StageCases ==
  ASSUME NEW rs \in [Boxes -> Row], NEW b \in Boxes
  PROVE  /\ rs[b].status = "absent" => Stage(rs, b) = "stranger"
         /\ rs[b].status = "removed" => Stage(rs, b) = "removed"
         /\ rs[b].status = "active" /\ rs[b].wrap = NoKey
              => Stage(rs, b) = "pending"
         /\ rs[b].status = "active" /\ rs[b].wrap # NoKey
              => Stage(rs, b) = "accepted"
         /\ rs[b].status \in {"absent", "active", "removed"}
BY DEF Row, Stage, Pending, Active

\* A browser that joins is one device that is pending.
LEMMA JoinImplements ==
  ASSUME TypeOK, NEW d \in Boxes, Join(d)
  PROVE  M!Join(d)
<1>1. rows' = [rows EXCEPT ![d] = NewRow(d, NoKey, JoinDay)]
  BY DEF Join, add_member
<1>2. rows[d].status = "absent" /\ currentEpoch' = currentEpoch
  BY DEF Join
<1>3. \A b \in Boxes : Stage(rows', b) = IF b = d THEN "pending" ELSE Stage(rows, b)
  BY <1>1 DEF Stage, Pending, Active, NewRow, TypeOK
<1>4. QED BY <1>2, <1>3, StageCases DEF M!Join, TypeOK

\* A leave, whether its answer arrives or not, takes out active rows only.
LEMMA LeaveImplements ==
  ASSUME TypeOK, NEW d \in Boxes, Leave(d) \/ LeaveLost(d)
  PROVE  M!Leave(RowsOfSig(rows, d)) /\ RowsOfSig(rows, d) \subseteq Boxes
<1> DEFINE out == RowsOfSig(rows, d)
<1>1. rows' = soft_remove_by_sig(rows, d) /\ currentEpoch' = currentEpoch
  BY DEF Leave, LeaveLost
<1>2. out \subseteq Boxes /\ \A b \in out : rows[b].status = "active"
  BY DEF RowsOfSig, Active
<1>3. \A b \in Boxes : Stage(rows', b) = IF b \in out THEN "removed" ELSE Stage(rows, b)
  BY <1>1 DEF soft_remove_by_sig, Stage, Pending, Active, TypeOK, Row
<1>4. \A b \in out : Stage(rows, b) \in {"pending", "accepted"}
  BY <1>2, StageCases DEF TypeOK
<1>5. QED BY <1>1, <1>2, <1>3, <1>4 DEF M!Leave, M!Member

\* A grant that is stored admits a pending device, or is for a removed one,
\* whose stage does not change; one that is refused stores nothing.
LEMMA GrantImplements ==
  ASSUME TypeOK, NEW d \in Boxes, GrantPending(d)
  PROVE  (\E b \in Boxes : M!Admit(b)) \/ UNCHANGED M!vars
<1>1. PICK w \in working[d] : \E b \in w.pending :
        rows' = IF is_active_member_pair(rows, d, d) /\ GrantMatches(rows, b, d)
                  THEN grant_wrap(rows, b, w.newest, d) ELSE rows
  BY DEF GrantPending, GrantKey
<1>2. PICK b \in w.pending :
        rows' = IF is_active_member_pair(rows, d, d) /\ GrantMatches(rows, b, d)
                  THEN grant_wrap(rows, b, w.newest, d) ELSE rows
  BY <1>1
<1>3. /\ b \in Boxes /\ w.newest # NoKey /\ currentEpoch' = currentEpoch
  BY NullAssumption DEF TypeOK, Working, GrantPending
<1>4. CASE rows' = rows
  BY <1>3, <1>4 DEF M!vars
<1>5. CASE rows' # rows
  <2>1. Ungranted(rows, b) /\ rows' = grant_wrap(rows, b, w.newest, d)
    BY <1>2, <1>5 DEF GrantMatches
  <2>2. /\ rows[b].wrap = NoKey /\ rows[b].status \in {"active", "removed"}
        /\ rows'[b].status = rows[b].status /\ rows'[b].wrap = w.newest
        /\ \A x \in Boxes \ {b} : rows'[x] = rows[x]
    BY <1>3, <2>1 DEF Ungranted, grant_wrap, TypeOK, Row
  <2>3. CASE rows[b].status = "active"
    <3>1. \A x \in Boxes : Stage(rows', x) =
            IF x = b THEN "accepted" ELSE Stage(rows, x)
      BY <1>3, <2>2, <2>3 DEF Stage, Pending, Active
    <3>2. Stage(rows, b) = "pending"
      BY <1>3, <2>2, <2>3, StageCases DEF TypeOK
    <3>3. QED BY <1>3, <3>1, <3>2 DEF M!Admit
  <2>4. CASE rows[b].status = "removed"
    <3>1. \A x \in Boxes : Stage(rows', x) = Stage(rows, x)
      BY <2>2, <2>4 DEF Stage, Pending, Active
    <3>2. QED BY <1>3, <3>1 DEF M!vars
  <2>5. QED BY <2>2, <2>3, <2>4
<1>6. QED BY <1>4, <1>5

\* A removal that the server serves, whether or not its answer arrives, takes
\* out one member and hands the key to others.
LEMMA RekeyImplements ==
  ASSUME TypeOK, NEW d \in Boxes, RekeyServe(d)
  PROVE  \E target \in Boxes, S \in SUBSET Boxes : M!Rekey(target, S)
<1> DEFINE r == rekey[d]
           S == r.covers \ {r.target}
<1>1. r \in Rekey
  BY DEF TypeOK, RekeyServe
<1>2. /\ r.target \in Boxes /\ rows[r.target].status = "active"
      /\ r.covers \subseteq Active(rows) \ {r.target}
      /\ r.key # NoKey /\ currentEpoch' = currentEpoch + 1
      /\ rows' = remove_and_rekey(rows, r.target, r.covers, r.key)
  BY <1>1, NullAssumption
     DEF RekeyServe, RemovalAllowed, WrapsAccepted, Active, Rekey
<1>3. \A b \in Boxes : Stage(rows', b) =
        IF b = r.target THEN "removed"
        ELSE IF b \in S THEN "accepted" ELSE Stage(rows, b)
  BY <1>2 DEF remove_and_rekey, Stage, Pending, Active, TypeOK, Row
<1>4. /\ S \subseteq Boxes /\ r.target \notin S
      /\ \A b \in S \cup {r.target} : Stage(rows, b) \in {"pending", "accepted"}
  BY <1>2, StageCases DEF Active, TypeOK
<1>5. M!Rekey(r.target, S)
  BY <1>2, <1>3, <1>4 DEF M!Rekey, M!Member
<1>6. QED BY <1>2, <1>4, <1>5

\* No poll, grant, removal, lost answer or wiped entry makes the rows do what
\* the abstract membership would not.
THEOREM KeysRefineMembership == Spec => ImplementsMembership
<1>1. Init => M!Init
  <2> SUFFICES ASSUME Init PROVE M!Init
    OBVIOUS
  <2>1. \A b \in Boxes :
          Stage(rows, b) = IF b = Creator THEN "accepted" ELSE "stranger"
    BY KeysAssumption, NullAssumption
       DEF Init, Stage, NewRow, NoRow, Pending, Active
  <2>2. QED BY <2>1 DEF Init, M!Init
<1>2. TypeOK /\ [Next]_vars => [M!Next]_M!vars
  <2> SUFFICES ASSUME TypeOK, [Next]_vars PROVE [M!Next]_M!vars
    OBVIOUS
  <2>1. ASSUME UNCHANGED <<rows, currentEpoch>> PROVE UNCHANGED M!vars
    BY <2>1 DEF M!vars
  <2>2. ASSUME NEW d \in Boxes, Join(d) PROVE M!Next
    BY <2>2, JoinImplements DEF M!Next
  <2>3. ASSUME NEW d \in Boxes, Leave(d) \/ LeaveLost(d) PROVE M!Next
    BY <2>3, LeaveImplements DEF M!Next
  <2>4. ASSUME NEW d \in Boxes, GrantPending(d) PROVE [M!Next]_M!vars
    BY <2>4, GrantImplements DEF M!Next
  <2>5. ASSUME NEW d \in Boxes, RekeyServe(d) PROVE M!Next
    BY <2>5, RekeyImplements DEF M!Next
  <2>6. ASSUME NEW d \in Boxes,
               \/ Poll(d) \/ AdoptNewEpoch(d) \/ RekeyRefused(d) \/ RekeyDone(d)
               \/ TickLost(d) \/ GrantLost(d) \/ RekeyLost(d)
               \/ \E target \in Boxes : RemoveMember(d, target)
               \/ Forget(d) \/ Reload(d)
        PROVE  UNCHANGED <<rows, currentEpoch>>
    BY <2>6 DEF Poll, TickStart, ReadRows, ReadRefused, AnswerKeyed, AnswerUnwrap,
       AdoptNewEpoch, RekeyRefused, RekeyDone, TickLost, GrantLost, RekeyLost,
       RemoveMember, Forget, Reload, server
  <2>7. QED BY <2>1, <2>2, <2>3, <2>4, <2>5, <2>6 DEF Next, Follow, Rotate, vars
<1>3. QED BY <1>1, <1>2, KeysTyped, PTL DEF Spec, ImplementsMembership, M!Spec
=============================================================================
