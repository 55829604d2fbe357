-------------------------- MODULE RoomServerProofs --------------------------
(***************************************************************************)
(* Theorems about RoomServer for every set of devices, keys, workers and   *)
(* every workload.                                                         *)
(***************************************************************************)
EXTENDS RoomServer, FiniteSetTheorems, TLAPS

-----------------------------------------------------------------------------
(* The statements keep the table well typed.                               *)

\* Inserting a joiner's row yields a table of rows.
LEMMA AddMemberType ==
  ASSUME NEW rs \in [Boxes -> Row], NEW box \in Boxes, NEW sig \in Sigs,
         NEW today \in Nat
  PROVE  add_member(rs, box, sig, today) \in [Boxes -> Row]
BY DEF add_member, NewRow, Row

\* Flipping the rows of a signing key yields a table of rows.
LEMMA SoftRemoveType ==
  ASSUME NEW rs \in [Boxes -> Row], NEW sig \in Sigs
  PROVE  soft_remove_by_sig(rs, sig) \in [Boxes -> Row]
BY DEF soft_remove_by_sig, Row

\* Storing a wrapped key yields a table of rows.
LEMMA GrantType ==
  ASSUME NEW rs \in [Boxes -> Row], NEW box \in Boxes, NEW key \in Keys,
         NEW by \in Boxes
  PROVE  grant_wrap(rs, box, key, by) \in [Boxes -> Row]
BY DEF grant_wrap, Row

\* A rekey yields a table of rows.
LEMMA RekeyType ==
  ASSUME NEW rs \in [Boxes -> Row], NEW target \in Boxes,
         NEW covers \in SUBSET Boxes, NEW key \in Keys
  PROVE  remove_and_rekey(rs, target, covers, key) \in [Boxes -> Row]
BY DEF remove_and_rekey, Row

-----------------------------------------------------------------------------
(* Type correctness.                                                       *)

\* Every reachable state is well typed, and every worker's step belongs to the
\* kind of request it serves.
THEOREM TypeCorrect == Spec => []TypeOK
<1> USE WorkloadAssumption, BoundsAssumption
    DEF JoinSteps, LeaveSteps, WrapSteps, RemoveSteps, RosterSteps
<1>1. Init => TypeOK
  BY DEF Init, TypeOK, Row, NewRow, NoRow
<1>2. TypeOK /\ [Next]_vars => TypeOK'
  <2> SUFFICES ASSUME TypeOK, [Next]_vars PROVE TypeOK'
    OBVIOUS
  <2> USE DEF TypeOK
  <2>1. ASSUME NEW w \in Workers, Submit(w) PROVE TypeOK'
    BY <2>1 DEF Submit, tables, Requests, JoinRequests, LeaveRequests,
                WrapRequests, RemoveRequests, RosterRequests, FirstStep
  <2>2. ASSUME NEW w \in Workers, Reply(w) PROVE TypeOK'
    BY <2>2 DEF Reply, tables
  <2>3. CASE NextDay
    BY <2>3 DEF NextDay, tables
  <2>4. ASSUME NEW w \in Workers,
               JoinCheck(w) \/ JoinCount(w)
                 \/ LeaveMember(w) \/ WrapPair(w) \/ WrapFind(w) \/ RemoveCreator(w)
                 \/ RemoveBegin(w) \/ RemoveAbort(w) \/ RosterEpoch(w)
                 \/ RosterCreator(w) \/ RosterLive(w)
        PROVE  TypeOK'
    BY <2>4 DEF JoinCheck, JoinCount, LeaveMember, WrapPair, WrapFind, RemoveCreator,
                RemoveBegin, RemoveAbort, RosterEpoch, RosterCreator,
                RosterLive, Check, Goto, tables
  <2>5. ASSUME NEW w \in Workers, JoinInsert(w) PROVE TypeOK'
    <3>1. rows' \in [Boxes -> Row]
      BY <2>5, AddMemberType DEF JoinInsert, JoinRequests
    <3>2. QED BY <2>5, <3>1 DEF JoinInsert, Goto
  <2>6. ASSUME NEW w \in Workers,
               LeaveNonce(w) \/ WrapNonce(w) \/ RemoveNonce(w)
        PROVE  TypeOK'
    BY <2>6 DEF LeaveNonce, WrapNonce, RemoveNonce, RecordNonce, Nonce, Goto,
                LeaveRequests, WrapRequests, RemoveRequests
  <2>7. ASSUME NEW w \in Workers, LeaveRemove(w) PROVE TypeOK'
    <3>1. rows' \in [Boxes -> Row]
      BY <2>7, SoftRemoveType DEF LeaveRemove, LeaveRequests
    <3>2. QED BY <2>7, <3>1 DEF LeaveRemove, Goto
  <2>8. ASSUME NEW w \in Workers, WrapStore(w) PROVE TypeOK'
    <3>1. rows' \in [Boxes -> Row]
      BY <2>8, GrantType DEF WrapStore, WrapRequests
    <3>2. QED BY <2>8, <3>1 DEF WrapStore, Goto
  <2>9. ASSUME NEW w \in Workers, RemoveCommit(w) PROVE TypeOK'
    <3>1. rows' \in [Boxes -> Row]
      BY <2>9, RekeyType DEF RemoveCommit, RemoveRequests
    <3>2. QED BY <2>9, <3>1 DEF RemoveCommit, Goto
  <2>10. ASSUME NEW w \in Workers, RosterInsert(w) PROVE TypeOK'
    BY <2>10 DEF RosterInsert, Goto, RosterRequests
  <2>11. CASE UNCHANGED vars
    BY <2>11 DEF vars
  <2>12. QED
    BY <2>1, <2>2, <2>3, <2>4, <2>5, <2>6, <2>7, <2>8, <2>9, <2>10, <2>11
       DEF Next, Handler
<1>3. QED
  BY <1>1, <1>2, PTL DEF Spec

-----------------------------------------------------------------------------
(* What a step leaves alone.                                               *)

\* A handler step of w keeps the requests and the other workers' positions.
LEMMA HandlerFrame ==
  ASSUME TypeOK, NEW w \in Workers, Handler(w)
  PROVE  /\ req' = req
         /\ \A v \in Workers \ {w} : pc'[v] = pc[v]
BY DEF TypeOK, JoinSteps, LeaveSteps, WrapSteps, RemoveSteps, RosterSteps,
       Handler, JoinCheck, JoinCount, JoinInsert, LeaveNonce, LeaveMember,
       LeaveRemove, WrapPair, WrapNonce, WrapFind, WrapStore, RemoveNonce, RemoveCreator,
       RemoveBegin, RemoveCommit, RemoveAbort, RosterEpoch, RosterCreator,
       RosterLive, RosterInsert, RecordNonce, Check, Goto

\* Taking a request up or answering it touches no table and no other worker;
\* a request that was just taken up is at its handler's first step.
LEMMA SlotFrame ==
  ASSUME TypeOK, NEW w \in Workers, Submit(w) \/ Reply(w)
  PROVE  /\ UNCHANGED <<tables, day>>
         /\ \A v \in Workers \ {w} : pc'[v] = pc[v] /\ req'[v] = req[v]
         /\ pc'[w] \in {"idle", "join_check", "leave_nonce", "wrap_pair",
                        "remove_nonce", "roster_epoch"}
BY WorkloadAssumption
   DEF TypeOK, Submit, Reply, FirstStep, Requests, JoinRequests,
       LeaveRequests, WrapRequests, RemoveRequests, RosterRequests

\* Only four handler steps write room_members.
LEMMA RowsFrame ==
  ASSUME NEW w \in Workers, Handler(w), rows' # rows
  PROVE  JoinInsert(w) \/ LeaveRemove(w) \/ WrapStore(w) \/ RemoveCommit(w)
BY DEF Handler, JoinCheck, JoinCount, LeaveNonce, LeaveMember, WrapPair,
       WrapNonce, WrapFind, RemoveNonce, RemoveCreator, RemoveBegin, RemoveAbort,
       RosterEpoch, RosterCreator, RosterLive, RosterInsert, RecordNonce,
       Check, tables

-----------------------------------------------------------------------------
(* A signed request is admitted once.                                      *)

\* Whoever is past the nonce check has his nonce stored, and nobody else's
\* nonce is the same.
NonceInv ==
  /\ \A w \in Workers : PastNonce(w) => Nonce(req[w]) \in nonces
  /\ SignedRequestOnce

\* Two deliveries of one signed request never both pass the nonce check.
THEOREM ReplaysAreStopped == Spec => []SignedRequestOnce
<1> USE DEF NonceInv, SignedRequestOnce, PastNonce
<1>1. Init => NonceInv
  BY DEF Init
<1>2. TypeOK /\ NonceInv /\ [Next]_vars => NonceInv'
  <2> SUFFICES ASSUME TypeOK, NonceInv, [Next]_vars PROVE NonceInv'
    OBVIOUS
  <2>1. ASSUME NEW w \in Workers, Submit(w) \/ Reply(w) PROVE NonceInv'
    BY <2>1, SlotFrame DEF tables, Nonce
  <2>2. CASE NextDay
    BY <2>2 DEF NextDay, tables, Nonce
  <2>3. ASSUME NEW w \in Workers,
               LeaveNonce(w) \/ WrapNonce(w) \/ RemoveNonce(w)
        PROVE  NonceInv'
    <3>1. nonces' = nonces \cup {Nonce(req[w])}
      BY <2>3 DEF LeaveNonce, WrapNonce, RemoveNonce, RecordNonce
    <3>2. pc'[w] # "err" => Nonce(req[w]) \notin nonces
      BY <2>3 DEF LeaveNonce, WrapNonce, RemoveNonce, RecordNonce, Goto, TypeOK
    <3>3. QED BY <2>3, <3>1, <3>2, HandlerFrame DEF Nonce, Handler
  <2>4. ASSUME NEW w \in Workers, Handler(w),
               ~(LeaveNonce(w) \/ WrapNonce(w) \/ RemoveNonce(w))
        PROVE  NonceInv'
    <3>1. nonces' = nonces
      BY <2>4 DEF Handler, JoinCheck, JoinCount, JoinInsert, LeaveMember,
                  LeaveRemove, WrapPair, WrapFind, WrapStore, RemoveCreator, RemoveBegin,
                  RemoveCommit, RemoveAbort, RosterEpoch, RosterCreator,
                  RosterLive, RosterInsert, Check, tables
    <3>2. PastNonce(w)' => PastNonce(w)
      BY <2>4 DEF Handler, JoinCheck, JoinCount, JoinInsert, LeaveMember,
                  LeaveRemove, WrapPair, WrapFind, WrapStore, RemoveCreator, RemoveBegin,
                  RemoveCommit, RemoveAbort, RosterEpoch, RosterCreator,
                  RosterLive, RosterInsert, Check, Goto, TypeOK
    <3>3. QED BY <2>4, <3>1, <3>2, HandlerFrame DEF Nonce
  <2>5. CASE UNCHANGED vars
    BY <2>5 DEF vars, Nonce
  <2>6. QED
    BY <2>1, <2>2, <2>3, <2>4, <2>5 DEF Next
<1>3. NonceInv => SignedRequestOnce
  OBVIOUS
<1>4. QED
  BY <1>1, <1>2, <1>3, TypeCorrect, PTL DEF Spec

-----------------------------------------------------------------------------
(* Key epochs and removals.                                                *)

\* An open rekey transaction holds the row of an active target, no two hold
\* the same one, and there are at least as many removed rows as epochs.
RekeyInv ==
  /\ \A w \in Workers : pc[w] = "remove_commit" => req[w].target \in Active(rows)
  /\ \A v, w \in Workers :
       v # w /\ pc[v] = "remove_commit" /\ pc[w] = "remove_commit"
         => req[v].target # req[w].target
  /\ EpochCountsRemovals

\* The target of another worker's open transaction is locked.
LEMMA LockHeld ==
  ASSUME NEW v \in Workers, NEW w \in Workers, v # w, pc[v] = "remove_commit"
  PROVE  req[v].target \in LockedByOthers(w)
BY DEF LockedByOthers, LockedBy

\* A subset of a finite set is no larger than the set.
LEMMA SubsetCardinality ==
  ASSUME NEW R, NEW S, IsFiniteSet(S), R \subseteq S
  PROVE  /\ Cardinality(R) \in Nat /\ Cardinality(S) \in Nat
         /\ Cardinality(R) <= Cardinality(S)
BY FS_Subset, FS_CardinalityType

\* The sets of active and of removed rows are finite.
LEMMA RowSetsFinite ==
  ASSUME NEW rs
  PROVE  IsFiniteSet(Active(rs)) /\ IsFiniteSet(Removed(rs))
BY BoundsAssumption, FS_Subset DEF Active, Removed

\* The invariant about open rekey transactions holds throughout.
LEMMA RekeyInvariant == Spec => []RekeyInv
<1> USE DEF RekeyInv, EpochCountsRemovals
<1>1. Init => RekeyInv
  BY RowSetsFinite, FS_CardinalityType DEF Init
<1>2. TypeOK /\ RekeyInv /\ [Next]_vars => RekeyInv'
  <2> SUFFICES ASSUME TypeOK, RekeyInv, [Next]_vars PROVE RekeyInv'
    OBVIOUS
  <2>1. ASSUME NEW w \in Workers, Submit(w) \/ Reply(w) PROVE RekeyInv'
    BY <2>1, SlotFrame DEF tables
  <2>2. CASE NextDay
    BY <2>2 DEF NextDay, tables
  <2>3. ASSUME NEW w \in Workers, Handler(w), UNCHANGED rows PROVE RekeyInv'
    <3>1. CASE RemoveCommit(w)
      <4>1. req[w].target \in Active(rows) /\ req[w].target \in Boxes
        BY <3>1 DEF RemoveCommit, Active
      <4>2. rows'[req[w].target].status = "removed"
        BY <3>1, <4>1 DEF RemoveCommit, remove_and_rekey, TypeOK, Row
      <4>3. QED BY <2>3, <4>1, <4>2 DEF Active
    <3>2. CASE RemoveBegin(w)
      <4>1. /\ req[w].target \notin LockedByOthers(w)
            /\ pc'[w] = "remove_commit" => req[w].target \in Active(rows)
            /\ UNCHANGED <<req, rows, currentEpoch>>
        BY <3>2 DEF RemoveBegin, Check, Goto, TypeOK, tables
      <4>2. QED BY <2>3, <4>1, HandlerFrame, LockHeld
    <3>3. CASE ~RemoveCommit(w) /\ ~RemoveBegin(w)
      <4>1. pc'[w] # "remove_commit" /\ currentEpoch' = currentEpoch
        BY <2>3, <3>3
           DEF Handler, JoinCheck, JoinCount, JoinInsert, LeaveNonce,
               LeaveMember, LeaveRemove, WrapPair, WrapNonce, WrapFind, WrapStore,
               RemoveNonce, RemoveCreator, RemoveAbort, RosterEpoch,
               RosterCreator, RosterLive, RosterInsert, RecordNonce, Check,
               Goto, TypeOK, tables
      <4>2. QED BY <2>3, <4>1, HandlerFrame
    <3>4. QED BY <3>1, <3>2, <3>3
  <2>4. ASSUME NEW w \in Workers, JoinInsert(w) PROVE RekeyInv'
    <3>1. Active(rows) \subseteq Active(rows') /\ Removed(rows') = Removed(rows)
      BY <2>4 DEF JoinInsert, add_member, NewRow, Active, Removed, TypeOK,
                  JoinSteps, JoinRequests
    <3>2. pc'[w] = "ok" /\ currentEpoch' = currentEpoch
      BY <2>4 DEF JoinInsert, Goto, TypeOK
    <3>3. QED BY <2>4, <3>1, <3>2, HandlerFrame DEF Handler
  <2>5. ASSUME NEW w \in Workers, WrapStore(w) PROVE RekeyInv'
    <3>1. Active(rows') = Active(rows) /\ Removed(rows') = Removed(rows)
      BY <2>5 DEF WrapStore, grant_wrap, Active, Removed, TypeOK, Row,
                  WrapSteps, WrapRequests
    <3>2. pc'[w] # "remove_commit" /\ currentEpoch' = currentEpoch
      BY <2>5 DEF WrapStore, Goto, TypeOK
    <3>3. QED BY <2>5, <3>1, <3>2, HandlerFrame DEF Handler
  <2>6. ASSUME NEW w \in Workers, LeaveRemove(w) PROVE RekeyInv'
    <3> DEFINE flipped == RowsOfSig(rows, req[w].sig)
    <3>1. /\ Active(rows') = Active(rows) \ flipped
          /\ Removed(rows) \subseteq Removed(rows')
      BY <2>6 DEF LeaveRemove, soft_remove_by_sig, RowsOfSig, Active, Removed,
                  TypeOK, Row
    <3>2. pc'[w] # "remove_commit" /\ currentEpoch' = currentEpoch
      BY <2>6 DEF LeaveRemove, Goto, TypeOK
    <3>3. \A v \in Workers \ {w} :
            pc[v] = "remove_commit" => req[v].target \notin flipped
      BY <2>6, LockHeld DEF LeaveRemove
    <3>4. currentEpoch' <= Cardinality(Removed(rows'))
      BY <3>1, <3>2, RowSetsFinite, SubsetCardinality DEF TypeOK
    <3>5. QED BY <2>6, <3>1, <3>2, <3>3, <3>4, HandlerFrame DEF Handler
  <2>7. ASSUME NEW w \in Workers, RemoveCommit(w) PROVE RekeyInv'
    <3> DEFINE target == req[w].target
    <3>1. target \in Active(rows) /\ target \in Boxes /\ target \notin Removed(rows)
      BY <2>7 DEF RemoveCommit, Active, Removed
    <3>2. /\ Active(rows') = Active(rows) \ {target}
          /\ Removed(rows') = Removed(rows) \cup {target}
      BY <2>7, <3>1 DEF RemoveCommit, remove_and_rekey, Active, Removed,
                        TypeOK, Row
    <3>3. pc'[w] = "ok" /\ currentEpoch' = currentEpoch + 1
      BY <2>7 DEF RemoveCommit, Goto, TypeOK
    <3>4. Cardinality(Removed(rows')) = Cardinality(Removed(rows)) + 1
      BY <3>1, <3>2, RowSetsFinite, FS_AddElement
    <3>5. currentEpoch' <= Cardinality(Removed(rows'))
      BY <3>3, <3>4, RowSetsFinite, FS_CardinalityType DEF TypeOK
    <3>6. QED
      BY <2>7, <3>2, <3>3, <3>5, HandlerFrame DEF Handler, RemoveCommit
  <2>8. CASE UNCHANGED vars
    BY <2>8 DEF vars
  <2>9. QED
    BY <2>1, <2>2, <2>3, <2>4, <2>5, <2>6, <2>7, <2>8, RowsFrame DEF Next
<1>3. QED
  BY <1>1, <1>2, TypeCorrect, PTL DEF Spec

\* Each key epoch was paid for by a removal of its own.
THEOREM EpochsAreRemovals == Spec => []EpochCountsRemovals
<1>1. RekeyInv => EpochCountsRemovals
  BY DEF RekeyInv
<1>2. QED
  BY <1>1, RekeyInvariant, PTL

-----------------------------------------------------------------------------
(* The member cap.                                                         *)

\* The joins that have passed the count and will add a row.
Admissions ==
  {w \in Workers : pc[w] = "join_insert" /\ rows[req[w].box].status = "absent"}

\* Counting the rows still to come, the overshoot is below the number of
\* workers: a join that passes the count sees fewer than MaxMembers rows, and
\* all joins that passed it before have either inserted already or are among
\* the workers.
CapInv ==
  Cardinality(Active(rows)) + Cardinality(Admissions)
    < MaxMembers + Cardinality(Workers)

\* The set of admissions is finite and no larger than the set of workers.
LEMMA AdmissionsFinite ==
  /\ IsFiniteSet(Admissions)
  /\ Cardinality(Admissions) \in Nat
  /\ Cardinality(Workers) \in Nat
  /\ Cardinality(Admissions) <= Cardinality(Workers)
BY BoundsAssumption, FS_Subset, FS_CardinalityType DEF Admissions

\* A step that adds neither a row nor an admission keeps the bound.
LEMMA CapShrinks ==
  ASSUME CapInv, Active(rows') \subseteq Active(rows),
         Admissions' \subseteq Admissions
  PROVE  CapInv'
<1>1. /\ Cardinality(Active(rows')) <= Cardinality(Active(rows))
      /\ Cardinality(Active(rows')) \in Nat /\ Cardinality(Active(rows)) \in Nat
  BY RowSetsFinite, SubsetCardinality
<1>2. /\ Cardinality(Admissions') <= Cardinality(Admissions)
      /\ Cardinality(Admissions') \in Nat
  BY AdmissionsFinite, SubsetCardinality
<1>3. QED BY <1>1, <1>2, AdmissionsFinite, BoundsAssumption DEF CapInv

\* Concurrent joins overshoot the cap by less than the number of requests
\* served at once.
THEOREM CapOvershoot == Spec => []JoinOvershootBounded
<1>1. Init => CapInv
  <2> SUFFICES ASSUME Init PROVE CapInv
    OBVIOUS
  <2>1. Active(rows) = {Creator}
    BY WorkloadAssumption DEF Init, Active, NewRow, NoRow
  <2>2. Admissions = {}
    BY DEF Init, Admissions
  <2>3. Cardinality(Active(rows)) = 1
    BY <2>1, FS_Singleton
  <2>4. Cardinality(Admissions) = 0
    BY <2>2, FS_EmptySet
  <2>5. Cardinality(Workers) \in Nat /\ Cardinality(Workers) # 0
    BY BoundsAssumption, FS_EmptySet, FS_CardinalityType
  <2>6. QED BY <2>3, <2>4, <2>5, BoundsAssumption DEF CapInv
<1>2. TypeOK /\ CapInv /\ [Next]_vars => CapInv'
  <2> SUFFICES ASSUME TypeOK, CapInv, [Next]_vars PROVE CapInv'
    OBVIOUS
  <2>1. ASSUME NEW w \in Workers, Submit(w) \/ Reply(w) PROVE CapInv'
    <3>1. Admissions' \subseteq Admissions
      BY <2>1, SlotFrame DEF Admissions, tables
    <3>2. QED BY <2>1, <3>1, SlotFrame, CapShrinks DEF tables
  <2>2. CASE NextDay \/ UNCHANGED vars
    BY <2>2, CapShrinks DEF NextDay, tables, vars, Admissions
  <2>3. ASSUME NEW w \in Workers, JoinCount(w), pc'[w] = "join_insert"
        PROVE  CapInv'
    <3>1. Cardinality(Active(rows')) < MaxMembers
      BY <2>3 DEF JoinCount, Check, Goto, TypeOK, tables, active_member_count
    <3>2. /\ Cardinality(Admissions') <= Cardinality(Workers)
          /\ Cardinality(Admissions') \in Nat
      <4>1. Admissions' \subseteq Workers
        BY DEF Admissions
      <4>2. QED BY <4>1, BoundsAssumption, SubsetCardinality
    <3>3. Cardinality(Active(rows')) \in Nat
      BY RowSetsFinite, FS_CardinalityType
    <3>4. QED
      BY <3>1, <3>2, <3>3, AdmissionsFinite, BoundsAssumption DEF CapInv
  <2>4. ASSUME NEW w \in Workers, JoinInsert(w), w \in Admissions PROVE CapInv'
    <3> DEFINE box == req[w].box
    <3>1. box \in Boxes /\ box \notin Active(rows)
      BY <2>4 DEF Admissions, Active, TypeOK, JoinSteps, JoinRequests
    <3>2. Active(rows') = Active(rows) \cup {box}
      BY <2>4, <3>1 DEF JoinInsert, add_member, NewRow, Admissions, Active,
                        TypeOK
    <3>3. Admissions' \subseteq Admissions \ {w}
      <4>1. pc'[w] = "ok"
        BY <2>4 DEF JoinInsert, Goto, TypeOK
      <4>2. \A b \in Boxes : rows'[b].status = "absent" => rows[b].status = "absent"
        BY <2>4, <3>1 DEF JoinInsert, add_member, NewRow, TypeOK
      <4>3. \A v \in Workers : pc[v] = "join_insert" => req[v].box \in Boxes
        BY DEF TypeOK, JoinSteps, JoinRequests
      <4>4. QED BY <2>4, <4>1, <4>2, <4>3, HandlerFrame DEF Admissions, Handler
    <3>4. /\ Cardinality(Active(rows')) = Cardinality(Active(rows)) + 1
          /\ Cardinality(Active(rows)) \in Nat
      BY <3>1, <3>2, RowSetsFinite, FS_AddElement, FS_CardinalityType
    <3>5. Cardinality(Admissions \ {w}) = Cardinality(Admissions) - 1
      BY <2>4, AdmissionsFinite, FS_RemoveElement
    <3>6. /\ Cardinality(Admissions') \in Nat
          /\ Cardinality(Admissions') <= Cardinality(Admissions) - 1
      BY <3>3, <3>5, AdmissionsFinite, FS_RemoveElement, SubsetCardinality
    <3>7. QED
      BY <3>4, <3>6, AdmissionsFinite, BoundsAssumption DEF CapInv
  <2>5. ASSUME NEW w \in Workers, Handler(w),
               ~(JoinCount(w) /\ pc'[w] = "join_insert"),
               ~(JoinInsert(w) /\ w \in Admissions)
        PROVE  CapInv'
    <3>1. /\ Active(rows') \subseteq Active(rows)
          /\ \A b \in Boxes : rows'[b].status = "absent" => rows[b].status = "absent"
      <4>1. CASE rows' = rows
        BY <4>1
      <4>2. CASE JoinInsert(w)
        BY <2>5, <4>2 DEF JoinInsert, add_member, Admissions, Active, TypeOK,
                          JoinSteps
      <4>3. CASE LeaveRemove(w)
        BY <4>3 DEF LeaveRemove, soft_remove_by_sig, RowsOfSig, Active, TypeOK, Row
      <4>4. CASE WrapStore(w)
        BY <4>4 DEF WrapStore, grant_wrap, Active, TypeOK, Row, WrapSteps,
                    WrapRequests
      <4>5. CASE RemoveCommit(w)
        BY <4>5 DEF RemoveCommit, remove_and_rekey, Active, TypeOK, Row
      <4>6. QED BY <2>5, <4>1, <4>2, <4>3, <4>4, <4>5, RowsFrame
    <3>2. pc'[w] = "join_insert" => JoinCheck(w)
      BY <2>5 DEF Handler, JoinCheck, JoinCount, JoinInsert, LeaveNonce,
                  LeaveMember, LeaveRemove, WrapPair, WrapNonce, WrapFind, WrapStore,
                  RemoveNonce, RemoveCreator, RemoveBegin, RemoveCommit,
                  RemoveAbort, RosterEpoch, RosterCreator, RosterLive,
                  RosterInsert, RecordNonce, Check, Goto, TypeOK
    <3>3. JoinCheck(w) /\ pc'[w] = "join_insert" => rows'[req[w].box].status # "absent"
      BY DEF JoinCheck, Check, Goto, TypeOK, is_member_by_box, Active, tables
    <3>4. \A v \in Workers : pc[v] = "join_insert" => req[v].box \in Boxes
      BY DEF TypeOK, JoinSteps, JoinRequests
    <3>5. Admissions' \subseteq Admissions
      BY <2>5, <3>1, <3>2, <3>3, <3>4, HandlerFrame DEF Admissions
    <3>6. QED BY <3>1, <3>5, CapShrinks
  <2>6. QED
    BY <2>1, <2>2, <2>3, <2>4, <2>5 DEF Next, Handler
<1>3. CapInv => JoinOvershootBounded
  BY AdmissionsFinite, RowSetsFinite, FS_CardinalityType, BoundsAssumption
     DEF CapInv, JoinOvershootBounded, active_member_count
<1>4. QED
  BY <1>1, <1>2, <1>3, TypeCorrect, PTL DEF Spec

-----------------------------------------------------------------------------
(* The tables implement the abstract membership.                           *)

\* Only the commit of a rekey advances the key epoch.
LEMMA EpochFrame ==
  ASSUME NEW w \in Workers, Handler(w), currentEpoch' # currentEpoch
  PROVE  RemoveCommit(w)
BY DEF Handler, JoinCheck, JoinCount, JoinInsert, LeaveNonce, LeaveMember,
       LeaveRemove, WrapPair, WrapNonce, WrapFind, WrapStore, RemoveNonce, RemoveCreator,
       RemoveBegin, RemoveAbort, RosterEpoch, RosterCreator, RosterLive,
       RosterInsert, RecordNonce, Check, tables

\* The abstract stage of a row, by its status and its wrapped key.
LEMMA StageCases ==
  ASSUME TypeOK, NEW b \in Boxes
  PROVE  /\ rows[b].status = "absent" => Stage(rows, b) = "stranger"
         /\ rows[b].status = "removed" => Stage(rows, b) = "removed"
         /\ rows[b].status = "active" /\ rows[b].wrap = NoKey
              => Stage(rows, b) = "pending"
         /\ rows[b].status = "active" /\ rows[b].wrap # NoKey
              => Stage(rows, b) = "accepted"
         /\ rows[b].status \in {"absent", "active", "removed"}
BY DEF TypeOK, Row, Stage, Pending, Active

\* Every behaviour of the handlers is a behaviour of the abstract membership:
\* no interleaving reactivates a removed device, skips a stage, or advances
\* the key epoch without removing a member.
THEOREM RefinesMembership == Spec => ImplementsMembership
<1> DEFINE stage == [b \in Boxes |-> Stage(rows, b)]
<1>1. Init => M!Init
  <2> SUFFICES ASSUME Init PROVE M!Init
    OBVIOUS
  <2>1. \A b \in Boxes : Stage(rows, b) = IF b = Creator THEN "accepted" ELSE "stranger"
    BY WorkloadAssumption, NullAssumption
       DEF Init, Stage, NewRow, NoRow, Pending, Active
  <2>2. QED BY <2>1 DEF Init, M!Init
<1>2. TypeOK /\ TypeOK' /\ RekeyInv /\ [Next]_vars => [M!Next]_M!vars
  <2> SUFFICES ASSUME TypeOK, TypeOK', RekeyInv, [Next]_vars
               PROVE  [M!Next]_M!vars
    OBVIOUS
  <2>1. ASSUME UNCHANGED <<rows, currentEpoch>> PROVE UNCHANGED M!vars
    BY <2>1 DEF M!vars, Stage, Pending, Active
  <2>2. ASSUME NEW w \in Workers, JoinInsert(w) PROVE [M!Next]_M!vars
    <3> DEFINE box == req[w].box
    <3>1. box \in Boxes /\ currentEpoch' = currentEpoch
      BY <2>2 DEF JoinInsert, TypeOK, JoinSteps, JoinRequests
    <3>2. CASE rows[box].status = "absent"
      <4>1. rows' = [rows EXCEPT ![box] = NewRow(req[w].sig, NoKey, day)]
        BY <2>2, <3>2 DEF JoinInsert, add_member
      <4>2. \A b \in Boxes : Stage(rows', b) = IF b = box THEN "pending" ELSE Stage(rows, b)
        BY <3>1, <4>1 DEF Stage, Pending, Active, NewRow, TypeOK
      <4>3. M!Join(box)
        BY <3>1, <3>2, <4>2, StageCases DEF M!Join
      <4>4. QED BY <3>1, <4>3 DEF M!Next
    <3>3. CASE rows[box].status # "absent"
      BY <2>1, <2>2, <3>1, <3>3 DEF JoinInsert, add_member
    <3>4. QED BY <3>2, <3>3
  <2>3. ASSUME NEW w \in Workers, LeaveRemove(w) PROVE [M!Next]_M!vars
    <3> DEFINE flipped == RowsOfSig(rows, req[w].sig)
    <3>1. /\ flipped \subseteq Boxes /\ currentEpoch' = currentEpoch
          /\ \A b \in flipped : rows[b].status = "active"
      BY <2>3 DEF LeaveRemove, RowsOfSig, Active
    <3>2. rows' = [b \in Boxes |-> IF b \in flipped
                                     THEN [rows[b] EXCEPT !.status = "removed"]
                                     ELSE rows[b]]
      BY <2>3 DEF LeaveRemove, soft_remove_by_sig
    <3>3. \A b \in Boxes : Stage(rows', b) = IF b \in flipped THEN "removed" ELSE Stage(rows, b)
      BY <3>2 DEF Stage, Pending, Active, TypeOK, Row
    <3>4. \A b \in flipped : stage[b] \in {"pending", "accepted"}
      BY <3>1, StageCases
    <3>5. M!Leave(flipped)
      BY <3>1, <3>3, <3>4 DEF M!Leave, M!Member
    <3>6. QED BY <3>1, <3>5 DEF M!Next
  <2>4. ASSUME NEW w \in Workers, WrapStore(w) PROVE [M!Next]_M!vars
    <3> DEFINE r == req[w]
    <3>1. /\ r.target \in Boxes /\ r.key \in Keys /\ r.key # NoKey
          /\ currentEpoch' = currentEpoch
      BY <2>4, NullAssumption DEF WrapStore, TypeOK, WrapSteps, WrapRequests
    <3>2. CASE Ungranted(rows, r.target)
      <4>1. rows' = [rows EXCEPT ![r.target].wrap = r.key,
                                 ![r.target].inviter = r.by]
        BY <2>4, <3>2 DEF WrapStore, grant_wrap
      <4>2. /\ rows[r.target].wrap = NoKey
            /\ rows[r.target].status \in {"active", "removed"}
        BY <3>1, <3>2 DEF Ungranted, TypeOK, Row
      <4>3. /\ rows'[r.target].status = rows[r.target].status
            /\ rows'[r.target].wrap = r.key
            /\ \A b \in Boxes \ {r.target} : rows'[b] = rows[b]
        BY <3>1, <4>1 DEF TypeOK, Row
      <4>4. CASE rows[r.target].status = "active"
        <5>1. \A b \in Boxes :
                Stage(rows', b) = IF b = r.target THEN "accepted" ELSE Stage(rows, b)
          BY <3>1, <4>3, <4>4 DEF Stage, Pending, Active
        <5>2. stage[r.target] = "pending"
          BY <3>1, <4>2, <4>4, StageCases
        <5>3. M!Admit(r.target)
          BY <3>1, <5>1, <5>2 DEF M!Admit
        <5>4. QED BY <3>1, <5>3 DEF M!Next
      <4>5. CASE rows[r.target].status = "removed"
        <5>1. \A b \in Boxes : Stage(rows', b) = Stage(rows, b)
          BY <4>3, <4>5 DEF Stage, Pending, Active
        <5>2. QED BY <3>1, <5>1 DEF M!vars
      <4>6. QED BY <4>2, <4>4, <4>5
    <3>3. CASE ~Ungranted(rows, r.target)
      BY <2>1, <2>4, <3>1, <3>3 DEF WrapStore
    <3>4. QED BY <3>2, <3>3
  <2>5. ASSUME NEW w \in Workers, RemoveCommit(w) PROVE [M!Next]_M!vars
    <3> DEFINE target == req[w].target
               S == (req[w].covers \cap Active(rows)) \ {target}
    <3>1. /\ target \in Boxes /\ rows[target].status = "active"
          /\ req[w].key \in Keys /\ req[w].key # NoKey
          /\ currentEpoch' = currentEpoch + 1
      BY <2>5, NullAssumption
         DEF RemoveCommit, RekeyInv, Active, TypeOK, RemoveSteps, RemoveRequests
    <3>2. rows' = remove_and_rekey(rows, target, req[w].covers, req[w].key)
      BY <2>5 DEF RemoveCommit
    <3>3. \A b \in Boxes :
            Stage(rows', b) = IF b = target THEN "removed"
                        ELSE IF b \in S THEN "accepted" ELSE Stage(rows, b)
      BY <3>1, <3>2 DEF remove_and_rekey, Stage, Pending, Active, TypeOK, Row
    <3>4. /\ S \subseteq Boxes /\ target \notin S
          /\ \A b \in S \cup {target} : stage[b] \in {"pending", "accepted"}
      BY <3>1, StageCases DEF Active
    <3>5. M!Rekey(target, S)
      BY <3>1, <3>3, <3>4 DEF M!Rekey, M!Member
    <3>6. QED BY <3>1, <3>4, <3>5 DEF M!Next
  <2>6. ASSUME NEW w \in Workers, Submit(w) \/ Reply(w) PROVE [M!Next]_M!vars
    BY <2>1, <2>6, SlotFrame DEF tables
  <2>7. CASE NextDay \/ UNCHANGED vars
    BY <2>1, <2>7 DEF NextDay, tables, vars
  <2>8. QED
    BY <2>1, <2>2, <2>3, <2>4, <2>5, <2>6, <2>7, RowsFrame, EpochFrame DEF Next
<1>3. QED
  BY <1>1, <1>2, TypeCorrect, RekeyInvariant, PTL DEF Spec, ImplementsMembership, M!Spec

-----------------------------------------------------------------------------
(* Rosters.                                                                *)

\* A row that does not exist has no wrapped key and no inviter.
Unused(b) ==
  rows[b].status = "absent" => rows[b].wrap = NoKey /\ rows[b].inviter = NoBox

\* The row inserted with the room, and rows that do not exist yet.
CreatorRowInv ==
  /\ rows[Creator].status # "absent" /\ rows[Creator].joined = 0
  /\ rows[Creator].wrap # NoKey /\ rows[Creator].inviter = NoBox
  /\ \A b \in Boxes : Unused(b)

\* A row, once inserted, keeps its signing key and its date; once it holds a
\* wrapped key it goes on holding one, and its inviter is settled.
RowPersists(b) ==
  rows[b].status # "absent" =>
    /\ rows'[b].status # "absent"
    /\ rows'[b].sig = rows[b].sig
    /\ rows'[b].joined = rows[b].joined
    /\ rows[b].wrap # NoKey => /\ rows'[b].wrap # NoKey
                               /\ rows'[b].inviter = rows[b].inviter

\* No step makes a row forget its signing key, date, wrap or inviter.
LEMMA RowsPersist ==
  ASSUME TypeOK, RekeyInv, CreatorRowInv, [Next]_vars
  PROVE  /\ \A b \in Boxes : RowPersists(b)
         /\ \A b \in Boxes : Unused(b)'
<1> USE DEF RowPersists, CreatorRowInv, Unused
<1>1. CASE rows' = rows
  BY <1>1
<1>2. ASSUME NEW w \in Workers, JoinInsert(w)
      PROVE  \A b \in Boxes : RowPersists(b) /\ Unused(b)'
  BY <1>2 DEF JoinInsert, add_member, NewRow, TypeOK
<1>3. ASSUME NEW w \in Workers, LeaveRemove(w)
      PROVE  \A b \in Boxes : RowPersists(b) /\ Unused(b)'
  BY <1>3 DEF LeaveRemove, soft_remove_by_sig, TypeOK, Row
<1>4. ASSUME NEW w \in Workers, WrapStore(w)
      PROVE  \A b \in Boxes : RowPersists(b) /\ Unused(b)'
  BY <1>4 DEF WrapStore, Ungranted, grant_wrap, TypeOK, Row
<1>5. ASSUME NEW w \in Workers, RemoveCommit(w)
      PROVE  \A b \in Boxes : RowPersists(b) /\ Unused(b)'
  <2>1. /\ req[w].target \in Active(rows)
        /\ req[w].key \in Keys /\ req[w].key # NoKey
    BY <1>5, NullAssumption
       DEF RemoveCommit, RekeyInv, TypeOK, RemoveSteps, RemoveRequests
  <2>2. QED
    BY <1>5, <2>1 DEF RemoveCommit, remove_and_rekey, Active, TypeOK, Row
<1>6. QED
  BY <1>1, <1>2, <1>3, <1>4, <1>5, RowsFrame, SlotFrame
     DEF Next, NextDay, tables, vars

\* The signing key stands on a row inserted on the creator's first day.
FirstDaySigner(sig) ==
  \E b \in Boxes : /\ rows[b].sig = sig
                   /\ rows[b].status # "absent"
                   /\ rows[b].joined = rows[Creator].joined

\* What a publish has checked so far stays true of rows that only grow: the
\* signer since the creator check, the ring since it was compared.
RosterInv ==
  /\ CreatorRowInv
  /\ RosterChain
  /\ \A w \in Workers : pc[w] \in {"roster_live", "roster_insert"}
                           => FirstDaySigner(req[w].sig)
  /\ \A w \in Workers : pc[w] = "roster_insert"
                           => \A sig \in req[w].ring : WasAccepted(sig)
  /\ RosterSignerFromFirstDay
  /\ RosterMembersWereAccepted

\* Rows that persist keep first-day signers and accepted keys.
LEMMA FactsPersist ==
  ASSUME TypeOK, RekeyInv, CreatorRowInv, [Next]_vars
  PROVE  /\ CreatorRowInv'
         /\ \A sig : FirstDaySigner(sig) => FirstDaySigner(sig)'
         /\ \A sig : WasAccepted(sig) => WasAccepted(sig)'
<1>1. Creator \in Boxes
  BY WorkloadAssumption
<1>2. CreatorRowInv'
  BY <1>1, RowsPersist DEF RowPersists, CreatorRowInv
<1>3. \A sig : FirstDaySigner(sig) => FirstDaySigner(sig)'
  BY <1>1, RowsPersist DEF RowPersists, CreatorRowInv, FirstDaySigner
<1>4. \A sig : WasAccepted(sig) => WasAccepted(sig)'
  BY RowsPersist DEF RowPersists, CreatorRowInv, Unused, WasAccepted
<1>5. QED BY <1>2, <1>3, <1>4

\* A signing key the creator check answers with is a first-day key.
LEMMA CreatorKeyFirstDay ==
  ASSUME TypeOK, CreatorRowInv, NEW sig \in creator_sig_pubkey(rows)
  PROVE  FirstDaySigner(sig)
<1>1. Creator \in NoInviterRows(rows)
  BY WorkloadAssumption DEF CreatorRowInv, NoInviterRows
<1>2. PICK b \in NoInviterRows(rows) :
        /\ rows[b].sig = sig
        /\ \A d \in NoInviterRows(rows) : rows[b].joined <= rows[d].joined
  BY DEF creator_sig_pubkey
<1>3. b \in Boxes /\ rows[b].joined \in Nat /\ rows[b].status # "absent"
  BY <1>2 DEF NoInviterRows, TypeOK, Row
<1>4. rows[b].joined = rows[Creator].joined
  BY <1>1, <1>2, <1>3 DEF CreatorRowInv
<1>5. QED BY <1>2, <1>3, <1>4 DEF FirstDaySigner

\* Only the insert of a publish writes rosters.
LEMMA RosterFrame ==
  ASSUME NEW w \in Workers, Handler(w), ~RosterInsert(w)
  PROVE  UNCHANGED <<rosterEpoch, rosters>>
BY DEF Handler, JoinCheck, JoinCount, JoinInsert, LeaveNonce, LeaveMember,
       LeaveRemove, WrapPair, WrapNonce, WrapFind, WrapStore, RemoveNonce, RemoveCreator,
       RemoveBegin, RemoveCommit, RemoveAbort, RosterEpoch, RosterCreator,
       RosterLive, RecordNonce, Check, tables

\* A publish reaches its later steps through its earlier ones.
LEMMA RosterOrder ==
  ASSUME TypeOK, NEW w \in Workers, Handler(w)
  PROVE  /\ pc'[w] = "roster_live" => RosterCreator(w)
         /\ pc'[w] = "roster_insert" => RosterLive(w) /\ pc[w] = "roster_live"
BY DEF Handler, JoinCheck, JoinCount, JoinInsert, LeaveNonce, LeaveMember,
       LeaveRemove, WrapPair, WrapNonce, WrapFind, WrapStore, RemoveNonce, RemoveCreator,
       RemoveBegin, RemoveCommit, RemoveAbort, RosterEpoch, RosterCreator,
       RosterLive, RosterInsert, RecordNonce, Check, Goto, TypeOK

\* The invariant about rosters and publishes under way holds throughout.
LEMMA RosterInvariant == Spec => []RosterInv
<1>1. Init => RosterInv
  <2> SUFFICES ASSUME Init PROVE RosterInv
    OBVIOUS
  <2>1. CreatorRowInv
    BY WorkloadAssumption, NullAssumption
       DEF Init, CreatorRowInv, Unused, NewRow, NoRow
  <2>2. RosterChain
    BY DEF Init, RosterChain
  <2>3. QED
    BY <2>1, <2>2 DEF Init, RosterInv, RosterSignerFromFirstDay,
                      RosterMembersWereAccepted
<1>2. TypeOK /\ RekeyInv /\ RosterInv /\ [Next]_vars => RosterInv'
  <2> SUFFICES ASSUME TypeOK, RekeyInv, RosterInv, [Next]_vars PROVE RosterInv'
    OBVIOUS
  <2>1. /\ CreatorRowInv /\ CreatorRowInv'
        /\ \A sig : FirstDaySigner(sig) => FirstDaySigner(sig)'
        /\ \A sig : WasAccepted(sig) => WasAccepted(sig)'
    BY FactsPersist DEF RosterInv
  <2>2. ASSUME UNCHANGED <<rosterEpoch, rosters>>
        PROVE  /\ RosterChain' /\ RosterSignerFromFirstDay'
               /\ RosterMembersWereAccepted'
    <3>1. \A s \in rosters : FirstDaySigner(s.signer)
      BY DEF RosterInv, RosterSignerFromFirstDay, FirstDaySigner
    <3>2. \A s \in rosters' : FirstDaySigner(s.signer)'
      BY <2>1, <2>2, <3>1
    <3>3. RosterSignerFromFirstDay'
      BY <3>2 DEF RosterSignerFromFirstDay, FirstDaySigner
    <3>4. RosterMembersWereAccepted'
      BY <2>1, <2>2 DEF RosterInv, RosterMembersWereAccepted
    <3>5. QED BY <2>2, <3>3, <3>4 DEF RosterInv, RosterChain
  <2>3. ASSUME NEW w \in Workers, Submit(w) \/ Reply(w) PROVE RosterInv'
    <3>1. /\ pc'[w] \notin {"roster_live", "roster_insert"}
          /\ UNCHANGED <<rosterEpoch, rosters>>
          /\ \A v \in Workers \ {w} : pc'[v] = pc[v] /\ req'[v] = req[v]
      BY <2>3, SlotFrame DEF tables
    <3>2. QED BY <2>1, <2>2, <3>1 DEF RosterInv
  <2>4. CASE NextDay \/ UNCHANGED vars
    <3>1. UNCHANGED <<rosterEpoch, rosters, pc, req>>
      BY <2>4 DEF NextDay, tables, vars
    <3>2. QED BY <2>1, <2>2, <3>1 DEF RosterInv
  <2>5. ASSUME NEW w \in Workers, RosterInsert(w) PROVE RosterInv'
    <3> DEFINE r == req[w]
               s == [epoch |-> r.epoch, ring |-> r.ring, signer |-> r.sig]
    <3>1. /\ req' = req /\ pc'[w] \notin {"roster_live", "roster_insert"}
          /\ \A v \in Workers \ {w} : pc'[v] = pc[v]
      BY <2>5, HandlerFrame DEF Handler, RosterInsert, Goto, TypeOK
    <3>2. CASE RosterSlotFree(r.epoch)
      <4>1. /\ rosterEpoch' = r.epoch /\ r.epoch = rosterEpoch + 1
            /\ rosters' = rosters \cup {s}
            /\ \A t \in rosters : t.epoch # r.epoch
        BY <2>5, <3>2 DEF RosterInsert, RosterSlotFree
      <4>2. RosterChain'
        <5>1. {t.epoch : t \in rosters'} = (1..rosterEpoch) \cup {r.epoch}
          <6>1. {t.epoch : t \in rosters} = 1..rosterEpoch
            BY DEF RosterInv, RosterChain
          <6>2. {t.epoch : t \in rosters \cup {s}}
                  = {t.epoch : t \in rosters} \cup {s.epoch}
            BY Zenon
          <6>3. s.epoch = r.epoch
            OBVIOUS
          <6>4. QED BY <4>1, <6>1, <6>2, <6>3
        <5>2. (1..rosterEpoch) \cup {r.epoch} = 1..rosterEpoch'
          BY <4>1 DEF TypeOK
        <5>3. \A t, u \in rosters' : t.epoch = u.epoch => t = u
          BY <4>1 DEF RosterInv, RosterChain
        <5>4. QED BY <5>1, <5>2, <5>3 DEF RosterChain
      <4>3. \A t \in rosters' : FirstDaySigner(t.signer)
        BY <2>5, <4>1
           DEF RosterInv, RosterSignerFromFirstDay, FirstDaySigner, RosterInsert
      <4>4. RosterSignerFromFirstDay'
        BY <2>1, <4>3 DEF RosterSignerFromFirstDay, FirstDaySigner
      <4>5. \A t \in rosters' : \A sig \in t.ring : WasAccepted(sig)
        BY <2>5, <4>1 DEF RosterInv, RosterMembersWereAccepted, RosterInsert
      <4>6. RosterMembersWereAccepted'
        BY <2>1, <4>5 DEF RosterMembersWereAccepted
      <4>7. QED BY <2>1, <3>1, <4>2, <4>4, <4>6 DEF RosterInv
    <3>3. CASE ~RosterSlotFree(r.epoch)
      <4>1. UNCHANGED <<rosterEpoch, rosters>>
        BY <2>5, <3>3 DEF RosterInsert
      <4>2. QED BY <2>1, <2>2, <3>1, <4>1 DEF RosterInv
    <3>4. QED BY <3>2, <3>3
  <2>6. ASSUME NEW w \in Workers, Handler(w), ~RosterInsert(w) PROVE RosterInv'
    <3>1. /\ UNCHANGED <<rosterEpoch, rosters>> /\ req' = req
          /\ \A v \in Workers \ {w} : pc'[v] = pc[v]
      BY <2>6, RosterFrame, HandlerFrame
    <3>2. pc'[w] = "roster_live" => FirstDaySigner(req[w].sig)
      <4>1. pc'[w] = "roster_live" => req[w].sig \in creator_sig_pubkey(rows)
        BY <2>6, RosterOrder DEF RosterCreator, Check, Goto, TypeOK
      <4>2. QED BY <2>1, <4>1, CreatorKeyFirstDay
    <3>3. pc'[w] = "roster_insert" =>
            /\ FirstDaySigner(req[w].sig)
            /\ \A sig \in req[w].ring : WasAccepted(sig)
      <4>1. pc'[w] = "roster_insert" => RingIsLive(rows, req[w].ring)
        BY <2>6, RosterOrder DEF RosterLive, Check, Goto, TypeOK
      <4>2. pc'[w] = "roster_insert" => \A sig \in req[w].ring : WasAccepted(sig)
        BY <4>1 DEF RingIsLive, WasAccepted, Accepted, Active
      <4>3. QED BY <2>6, <4>2, RosterOrder DEF RosterInv
    <3>4. QED BY <2>1, <2>2, <3>1, <3>2, <3>3 DEF RosterInv
  <2>7. QED
    BY <2>3, <2>4, <2>5, <2>6 DEF Next
<1>3. QED
  BY <1>1, <1>2, TypeCorrect, RekeyInvariant, PTL DEF Spec

\* The stored rosters are numbered without gaps, one roster per number.
THEOREM RostersFormAChain == Spec => []RosterChain
<1>1. RosterInv => RosterChain
  BY DEF RosterInv
<1>2. QED BY <1>1, RosterInvariant, PTL

\* Every key in a published ring was accepted into the room.
THEOREM RostersNameAcceptedMembers == Spec => []RosterMembersWereAccepted
<1>1. RosterInv => RosterMembersWereAccepted
  BY DEF RosterInv
<1>2. QED BY <1>1, RosterInvariant, PTL

\* Every roster is signed by a key from the creator's first day.
THEOREM RostersSignedOnFirstDay == Spec => []RosterSignerFromFirstDay
<1>1. RosterInv => RosterSignerFromFirstDay
  BY DEF RosterInv
<1>2. QED BY <1>1, RosterInvariant, PTL

-----------------------------------------------------------------------------
(* What a step may never do to a row.                                      *)

\* Nothing changes the row of a removed member who held a key, whatever was
\* under way when he was removed.
THEOREM RemovedMembersAreFrozen == Spec => RemovedMemberFrozen
<1> DEFINE Frozen == \A b \in Boxes :
              rows[b].status = "removed" /\ rows[b].wrap # NoKey
                => rows'[b] = rows[b]
<1>1. TypeOK /\ RekeyInv /\ [Next]_vars => Frozen
  <2> SUFFICES ASSUME TypeOK, RekeyInv, [Next]_vars PROVE Frozen
    OBVIOUS
  <2>1. ASSUME NEW w \in Workers, JoinInsert(w) PROVE Frozen
    BY <2>1 DEF JoinInsert, add_member, TypeOK
  <2>2. ASSUME NEW w \in Workers, LeaveRemove(w) PROVE Frozen
    BY <2>2 DEF LeaveRemove, soft_remove_by_sig, RowsOfSig, Active
  <2>3. ASSUME NEW w \in Workers, WrapStore(w) PROVE Frozen
    BY <2>3 DEF WrapStore, Ungranted, grant_wrap, TypeOK
  <2>4. ASSUME NEW w \in Workers, RemoveCommit(w) PROVE Frozen
    <3>1. req[w].target \in Active(rows)
      BY <2>4 DEF RemoveCommit, RekeyInv
    <3>2. QED BY <2>4, <3>1 DEF RemoveCommit, remove_and_rekey, Active
  <2>5. QED
    BY <2>1, <2>2, <2>3, <2>4, RowsFrame, SlotFrame
       DEF Next, NextDay, tables, vars
<1>2. QED
  BY <1>1, TypeCorrect, RekeyInvariant, PTL DEF Spec, RemovedMemberFrozen

\* A key once stored changes only with the epoch, and its inviter is settled.
THEOREM KeysChangeWithEpochs == Spec => KeyChangesWithEpoch
<1> DEFINE Settled == \A b \in Boxes :
              rows[b].wrap # NoKey =>
                /\ rows'[b].inviter = rows[b].inviter
                /\ rows'[b].wrap # rows[b].wrap => currentEpoch' = currentEpoch + 1
<1>1. TypeOK /\ CreatorRowInv /\ [Next]_vars => Settled
  <2> SUFFICES ASSUME TypeOK, CreatorRowInv, [Next]_vars PROVE Settled
    OBVIOUS
  <2>1. ASSUME NEW w \in Workers, JoinInsert(w) PROVE Settled
    BY <2>1 DEF JoinInsert, add_member, TypeOK, CreatorRowInv, Unused
  <2>2. ASSUME NEW w \in Workers, LeaveRemove(w) PROVE Settled
    BY <2>2 DEF LeaveRemove, soft_remove_by_sig, TypeOK, Row
  <2>3. ASSUME NEW w \in Workers, WrapStore(w) PROVE Settled
    BY <2>3 DEF WrapStore, Ungranted, grant_wrap, TypeOK, Row
  <2>4. ASSUME NEW w \in Workers, RemoveCommit(w) PROVE Settled
    BY <2>4 DEF RemoveCommit, remove_and_rekey, TypeOK, Row
  <2>5. QED
    BY <2>1, <2>2, <2>3, <2>4, RowsFrame, SlotFrame
       DEF Next, NextDay, tables, vars
<1>2. QED
  BY <1>1, TypeCorrect, RosterInvariant, PTL DEF Spec, KeyChangesWithEpoch, RosterInv
=============================================================================
