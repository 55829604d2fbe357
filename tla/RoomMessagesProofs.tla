------------------------- MODULE RoomMessagesProofs -------------------------
(***************************************************************************)
(* Theorems about RoomMessages for every number of readers, polls and      *)
(* messages, every limit and every number of days.                         *)
(***************************************************************************)
EXTENDS RoomMessages, FiniteSetTheorems, TLAPS

-----------------------------------------------------------------------------
(* Polls and answers.                                                      *)

\* A step of one poll leaves the others alone.
LEMMA PollUpdate ==
  ASSUME polls \in [Readers -> [Polls -> Poll]],
         NEW d \in Readers, NEW p \in Polls, NEW v,
         polls' = SetPoll(d, p, v)
  PROVE  /\ polls'[d][p] = v
         /\ \A e \in Readers, q \in Polls :
              e # d \/ q # p => polls'[e][q] = polls[e][q]
         /\ \A e \in Readers \ {d} : polls'[e] = polls[e]
         /\ v \in Poll => polls' \in [Readers -> [Polls -> Poll]]
BY DEF SetPoll

\* The fields of a poll.
LEMMA PollFields ==
  ASSUME NEW step, NEW since, NEW joined, NEW left
  PROVE  /\ PollAt(step, since, joined, left).step = step
         /\ PollAt(step, since, joined, left).since = since
         /\ PollAt(step, since, joined, left).joined = joined
         /\ PollAt(step, since, joined, left).left = left
BY DEF PollAt

\* A poll of well-typed parts is well typed.
LEMMA PollType ==
  ASSUME NEW step \in {"idle", "asked", "gated", "showing"}, NEW since \in Nat,
         NEW joined \in Nat, NEW left \in SUBSET Messages
  PROVE  PollAt(step, since, joined, left) \in Poll
BY DEF PollAt, Poll

\* An idle poll.
LEMMA IdleFields ==
  Idle \in Poll /\ Idle.step = "idle" /\ Idle.since = 0 /\ Idle.left = {}
BY PollType, PollFields DEF Idle

\* An answer cut at the limit leaves out only messages after those it has.
LEMMA FirstAreFirst ==
  ASSUME NEW ms \in SUBSET Messages, MaxSends \in Nat, Limit \in Nat
  PROVE  /\ FirstOf(ms) \subseteq ms
         /\ \A k \in FirstOf(ms) : \A m \in ms : m <= k => m \in FirstOf(ms)
<1>1. IsFiniteSet(ms)
  <2>1. IsFiniteSet(Messages)
    BY 1 \in Int, MaxSends \in Int, FS_Interval DEF Messages
  <2>2. QED BY <2>1, FS_Subset
<1>2. ASSUME NEW k \in FirstOf(ms), NEW m \in ms, m <= k
      PROVE  m \in FirstOf(ms)
  <2> DEFINE A == {j \in ms : j < m}
             B == {j \in ms : j < k}
  <2>1. k \in ms /\ Cardinality(B) < Limit
    BY <1>2 DEF FirstOf
  <2>2. A \in SUBSET B /\ B \in SUBSET ms
    <3>1. ms \subseteq Int /\ k \in Int /\ m \in Int
      BY <1>2, <2>1 DEF Messages
    <3>2. \A j \in ms : j < m => j < k
      BY <1>2, <3>1
    <3>3. QED BY <3>2
  <2>3. IsFiniteSet(B)
    BY <1>1, <2>2, FS_Subset
  <2>4. Cardinality(A) <= Cardinality(B) /\ IsFiniteSet(A)
    BY <2>2, <2>3, FS_Subset
  <2>5. Cardinality(A) \in Nat /\ Cardinality(B) \in Nat
    BY <2>3, <2>4, FS_CardinalityType
  <2>6. Cardinality(A) < Limit
    BY <2>1, <2>4, <2>5
  <2>7. QED BY <2>6 DEF FirstOf
<1>3. QED BY <1>2 DEF FirstOf

\* A removal yields a table of rows, with the same dates and signing keys.
LEMMA SoftRemoveTyped ==
  ASSUME NEW rs \in [Boxes -> Row], NEW sig \in Boxes
  PROVE  soft_remove_by_sig(rs, sig) \in [Boxes -> Row]
BY DEF soft_remove_by_sig, Row

-----------------------------------------------------------------------------
(* Types.                                                                  *)

\* Every reachable state is well typed.
THEOREM MessagesTyped == Spec => []TypeOK
<1> USE MessagesAssumption
<1>1. Init => TypeOK
  BY IdleFields DEF Init, TypeOK, Row, NewRow, NoRow, Message
<1>2. TypeOK /\ [Next]_vars => TypeOK'
  <2> SUFFICES ASSUME TypeOK, [Next]_vars PROVE TypeOK'
    OBVIOUS
  <2>1. CASE Send
    <3>1. ASSUME NEW d \in Boxes, CheckSender(d) PROVE TypeOK'
      <4>1. checked' = [checked EXCEPT ![day] = @ + 1]
        BY <3>1 DEF CheckSender
      <4>2. checked' \in [0..MaxDay -> Nat]
        BY <4>1 DEF TypeOK
      <4>3. UNCHANGED <<rows, messages, nextSeq, day, top, late, earlier, pages, faults>>
        BY <3>1 DEF CheckSender
      <4>4. QED BY <4>2, <4>3 DEF TypeOK, pages
    <3>2. ASSUME NEW n \in 0..MaxDay, DrawSeq(n) PROVE TypeOK'
      <4> DEFINE drawn == [step |-> "drawn", day |-> n]
      <4>0. messages' = [messages EXCEPT ![nextSeq] = drawn] /\ drawn \in Message
        BY <3>2 DEF DrawSeq, Message
      <4>1. messages' \in [Messages -> Message]
        BY <4>0 DEF TypeOK
      <4>2. checked' \in [0..MaxDay -> Nat] /\ nextSeq' \in Nat \ {0}
        BY <3>2 DEF DrawSeq, TypeOK
      <4>3. QED BY <3>2, <4>1, <4>2 DEF DrawSeq, TypeOK, pages
    <3>3. ASSUME NEW m \in Messages, CommitMessage(m) PROVE TypeOK'
      <4>1. messages' \in [Messages -> Message]
        BY <3>3 DEF CommitMessage, TypeOK, Message
      <4>2. top' \in Nat /\ late' \subseteq Messages
        BY <3>3 DEF CommitMessage, TypeOK, Messages
      <4>3. QED BY <3>3, <4>1, <4>2 DEF CommitMessage, TypeOK, pages
    <3>4. ASSUME NEW m \in Messages, AbortMessage(m) PROVE TypeOK'
      <4>1. messages' \in [Messages -> Message]
        BY <3>4 DEF AbortMessage, TypeOK, Message
      <4>2. QED BY <3>4, <4>1 DEF AbortMessage, Fault, TypeOK, pages
    <3>5. QED BY <2>1, <3>1, <3>2, <3>3, <3>4 DEF Send
  <2>2. ASSUME NEW d \in Readers, NEW p \in Polls,
               PollStart(d, p) \/ PollLost(d, p) \/ PollGoesOn(d, p)
        PROVE  TypeOK'
    <3> DEFINE poll == polls[d][p]
    <3>1. poll \in Poll /\ d \in Boxes
      BY DEF TypeOK
    <3>2. poll.since \in Nat /\ poll.joined \in Nat /\ poll.left \in SUBSET Messages
      BY <3>1 DEF Poll
    <3>3. ASSUME PollStart(d, p) PROVE TypeOK'
      <4>1. PollAt("asked", last[d], 0, {}) \in Poll
        BY PollType DEF TypeOK
      <4>2. polls' \in [Readers -> [Polls -> Poll]]
        BY <3>3, <4>1, PollUpdate DEF PollStart, TypeOK
      <4>3. QED BY <3>3, <4>2 DEF PollStart, TypeOK, server
    <3>4. ASSUME PollLost(d, p) \/ PollRefused(d, p) PROVE TypeOK'
      <4>1. polls' \in [Readers -> [Polls -> Poll]]
        BY <3>4, PollUpdate, IdleFields DEF PollLost, PollRefused, TypeOK
      <4>2. QED BY <3>4, <4>1 DEF PollLost, PollRefused, Fault, TypeOK, server
    <3>5. ASSUME PollGate(d, p) PROVE TypeOK'
      <4>1. PICK j \in joined_at(d) :
              polls' = SetPoll(d, p, PollAt("gated", poll.since, j, {}))
        BY <3>5 DEF PollGate
      <4>2. j \in Nat
        BY DEF joined_at, RowsOfSig, Active, TypeOK, Row
      <4>3. PollAt("gated", poll.since, j, {}) \in Poll
        BY <3>2, <4>2, PollType
      <4>4. polls' \in [Readers -> [Polls -> Poll]]
        BY <4>1, <4>3, PollUpdate DEF TypeOK
      <4>5. QED BY <3>5, <4>4 DEF PollGate, TypeOK, server
    <3>6. ASSUME PollSelect(d, p) PROVE TypeOK'
      <4> DEFINE list == FirstOf(Visible(poll))
      <4>1. list \in SUBSET Messages
        BY DEF FirstOf, Visible, Stored
      <4>2. PollAt("showing", poll.since, poll.joined, list) \in Poll
        BY <3>2, <4>1, PollType
      <4>3. polls' \in [Readers -> [Polls -> Poll]]
        BY <3>6, <4>2, PollUpdate, IdleFields DEF PollSelect, TypeOK
      <4>4. QED BY <3>6, <4>3 DEF PollSelect, TypeOK, server
    <3>7. ASSUME ShowMessage(d, p) PROVE TypeOK'
      <4>1. PICK m \in poll.left :
              /\ shown' = [shown EXCEPT ![d] = @ \cup {m}]
              /\ twice' = [twice EXCEPT ![d] = @ \/ m \in shown[d]]
              /\ last' = [last EXCEPT ![d] = m]
              /\ polls' = SetPoll(d, p, IF poll.left = {m} THEN Idle
                    ELSE PollAt("showing", poll.since, poll.joined, poll.left \ {m}))
        BY <3>7 DEF ShowMessage, CursorAfter
      <4>2. m \in Messages /\ m \in Nat
        BY <3>2, <4>1 DEF Messages
      <4>3. PollAt("showing", poll.since, poll.joined, poll.left \ {m}) \in Poll
        BY <3>2, PollType
      <4>4. polls' \in [Readers -> [Polls -> Poll]]
        BY <4>1, <4>3, PollUpdate, IdleFields DEF TypeOK
      <4>5. shown' \in [Readers -> SUBSET Messages] /\ last' \in [Readers -> Nat]
        BY <4>1, <4>2 DEF TypeOK
      <4>6. twice' \in [Readers -> BOOLEAN]
        BY <4>1 DEF TypeOK
      <4>7. QED BY <3>7, <4>4, <4>5, <4>6 DEF ShowMessage, TypeOK, server
    <3>8. QED BY <2>2, <3>3, <3>4, <3>5, <3>6, <3>7 DEF PollGoesOn
  <2>3. ASSUME NEW d \in Readers, Reload(d) PROVE TypeOK'
    BY <2>3, IdleFields DEF Reload, Fault, TypeOK, server
  <2>4. ASSUME NEW d \in Boxes, Join(d) PROVE TypeOK'
    <3>1. rows' \in [Boxes -> Row]
      BY <2>4 DEF Join, add_member, NewRow, Row, TypeOK
    <3>2. earlier' \in [Readers -> SUBSET Messages]
      BY <2>4 DEF Join, Stored, TypeOK
    <3>3. QED BY <2>4, <3>1, <3>2 DEF Join, TypeOK, pages
  <2>5. ASSUME NEW d \in Boxes, Remove(d) PROVE TypeOK'
    <3>1. rows' \in [Boxes -> Row]
      BY <2>5, SoftRemoveTyped DEF Remove, TypeOK
    <3>2. QED BY <2>5, <3>1 DEF Remove, Fault, TypeOK, pages
  <2>6. CASE SweepMessages
    <3>1. messages' \in [Messages -> Message]
      BY <2>6 DEF SweepMessages, Message, TypeOK
    <3>2. QED BY <2>6, <3>1 DEF SweepMessages, TypeOK, pages
  <2>7. CASE NextDay
    BY <2>7 DEF NextDay, TypeOK, pages
  <2>8. CASE UNCHANGED vars
    BY <2>8 DEF vars, server, pages, TypeOK
  <2>9. QED BY <2>1, <2>2, <2>3, <2>4, <2>5, <2>6, <2>7, <2>8 DEF Next
<1>3. QED BY <1>1, <1>2, PTL DEF Spec

-----------------------------------------------------------------------------
(* The order of messages.                                                  *)

Past == {m \in Messages : messages[m].step \in {"stored", "gone"}}

\* Seqs are drawn in order; `top` is the greatest committed.
SeqInv ==
  /\ \A m \in Messages : m >= nextSeq => messages[m].step = "unused"
  /\ \A m \in Stored : m <= top
  /\ top = 0 \/ top \in Past

\* Steps of the server, and steps of the pages.
ServerStep == \/ Send \/ SweepMessages \/ NextDay
              \/ \E d \in Boxes : Join(d) \/ Remove(d)

PageStep == \E d \in Readers :
  \/ \E p \in Polls : PollStart(d, p) \/ PollLost(d, p) \/ PollGoesOn(d, p)
  \/ Reload(d)

\* A step leaves the pages alone, or it leaves the server alone.
LEMMA StepKinds ==
  ASSUME [Next]_vars
  PROVE  \/ ServerStep /\ UNCHANGED pages
         \/ PageStep /\ UNCHANGED server
         \/ UNCHANGED vars
<1>1. ServerStep => UNCHANGED pages
  BY DEF ServerStep, Send, CheckSender, DrawSeq, CommitMessage, AbortMessage,
         SweepMessages, NextDay, Join, Remove
<1>2. PageStep => UNCHANGED server
  BY DEF PageStep, PollStart, PollLost, PollGoesOn, PollGate, PollRefused,
         PollSelect, ShowMessage, Reload
<1>3. Next => ServerStep \/ PageStep
  BY DEF Next, ServerStep, PageStep
<1>4. QED BY <1>1, <1>2, <1>3

\* What one step may do to the messages: a message once committed stays that,
\* with its date, and a message that becomes readable is either late or has
\* the greatest seq of all.
LEMMA MessageSteps ==
  ASSUME TypeOK, SeqInv, [Next]_vars
  PROVE  /\ SeqInv'
         /\ Past \subseteq Past' /\ top <= top'
         /\ \A m \in Past : messages'[m].day = messages[m].day
         /\ \A m \in (Stored \ late)' : m \in Stored \ late \/ m > top
<1> USE MessagesAssumption
<1>1. ASSUME NEW n \in 0..MaxDay, DrawSeq(n)
      PROVE  /\ SeqInv' /\ top' = top /\ late' = late
             /\ Past' = Past /\ Stored' = Stored
             /\ \A m \in Past : messages'[m] = messages[m]
  <2> DEFINE drawn == [step |-> "drawn", day |-> n]
  <2>1. /\ messages' = [messages EXCEPT ![nextSeq] = drawn]
        /\ nextSeq' = nextSeq + 1 /\ UNCHANGED <<top, late>>
    BY <1>1 DEF DrawSeq
  <2>2. \A m \in Messages :
          messages'[m] = IF m = nextSeq THEN drawn ELSE messages[m]
    BY <2>1 DEF TypeOK
  <2>3. \A m \in Messages : m = nextSeq => messages[m].step = "unused"
    BY DEF SeqInv, TypeOK, Messages
  <2>4. Past' = Past /\ Stored' = Stored /\ \A m \in Past : messages'[m] = messages[m]
    BY <2>2, <2>3 DEF Past, Stored
  <2>5. \A m \in Messages : m >= nextSeq' => messages'[m].step = "unused"
    <3>1. \A m \in Messages : m >= nextSeq' => m >= nextSeq /\ m # nextSeq
      BY <2>1 DEF Messages, TypeOK
    <3>2. QED BY <2>2, <3>1 DEF SeqInv
  <2>6. QED BY <2>1, <2>4, <2>5 DEF SeqInv
<1>2. ASSUME NEW n \in Messages, CommitMessage(n)
      PROVE  /\ SeqInv' /\ Past \subseteq Past' /\ top <= top'
             /\ \A m \in Past : messages'[m].day = messages[m].day
             /\ \A m \in (Stored \ late)' : m \in Stored \ late \/ m > top
  <2>1. /\ messages' = [messages EXCEPT ![n] = [@ EXCEPT !.step = "stored"]]
        /\ top' = IF n > top THEN n ELSE top
        /\ late' = IF n < top THEN late \cup {n} ELSE late
        /\ messages[n].step = "drawn" /\ nextSeq' = nextSeq
    BY <1>2 DEF CommitMessage
  <2>2. /\ \A m \in Messages \ {n} : messages'[m] = messages[m]
        /\ messages'[n].step = "stored"
    BY <2>1 DEF TypeOK, Message
  <2>3. Past' = Past \cup {n} /\ Stored' = Stored \cup {n} /\ n \notin Past
    BY <2>1, <2>2 DEF Past, Stored
  <2>4. top \in Nat /\ n \in Nat /\ n > 0
    BY DEF TypeOK, Messages
  <2>5. n # top
    BY <2>3, <2>4 DEF SeqInv
  <2>6. \A m \in Messages : m >= nextSeq' => messages'[m].step = "unused"
    BY <2>1, <2>2 DEF SeqInv
  <2>7. \A m \in Stored' : m <= top'
    BY <2>1, <2>3, <2>4 DEF SeqInv, Stored, Messages
  <2>8. top' = 0 \/ top' \in Past'
    BY <2>1, <2>3 DEF SeqInv
  <2>9. SeqInv'
    BY <2>6, <2>7, <2>8 DEF SeqInv
  <2>10. \A m \in Past : messages'[m].day = messages[m].day
    BY <2>2, <2>3 DEF Past
  <2>11. QED BY <2>1, <2>3, <2>4, <2>5, <2>9, <2>10
<1>3. ASSUME NEW n \in Messages, AbortMessage(n)
      PROVE  /\ SeqInv' /\ Past \subseteq Past' /\ top' = top /\ late' = late
             /\ \A m \in Past : messages'[m].day = messages[m].day
             /\ Stored' = Stored
  <2>1. /\ messages' = [messages EXCEPT ![n] = [@ EXCEPT !.step = "gone"]]
        /\ messages[n].step = "drawn" /\ UNCHANGED <<nextSeq, top, late>>
    BY <1>3 DEF AbortMessage
  <2>2. /\ \A m \in Messages \ {n} : messages'[m] = messages[m]
        /\ messages'[n].step = "gone"
    BY <2>1 DEF TypeOK, Message
  <2>3. Stored' = Stored /\ Past' = Past \cup {n}
    BY <2>1, <2>2 DEF Past, Stored
  <2>4. QED BY <2>1, <2>2, <2>3 DEF SeqInv, Past
<1>4. ASSUME SweepMessages
      PROVE  /\ SeqInv' /\ Past \subseteq Past' /\ top' = top /\ late' = late
             /\ \A m \in Past : messages'[m].day = messages[m].day
             /\ Stored' \subseteq Stored
  <2> DEFINE old == {m \in Stored : messages[m].day + MessageDays < day}
  <2>1. /\ messages' = [m \in Messages |->
             IF m \in old THEN [messages[m] EXCEPT !.step = "gone"] ELSE messages[m]]
        /\ UNCHANGED <<nextSeq, top, late>>
    BY <1>4 DEF SweepMessages
  <2>2. \A m \in Messages : messages'[m].step =
          IF m \in old THEN "gone" ELSE messages[m].step
    BY <2>1 DEF TypeOK, Message
  <2>3. \A m \in Messages : messages'[m].day = messages[m].day
    BY <2>1 DEF TypeOK, Message
  <2>4. Past' = Past /\ Stored' \subseteq Stored
    BY <2>2 DEF Past, Stored
  <2>5. \A m \in Messages : m >= nextSeq => messages'[m].step = "unused"
    BY <2>2 DEF SeqInv, Stored
  <2>6. QED BY <2>1, <2>3, <2>4, <2>5 DEF SeqInv, Past
<1>5. ASSUME UNCHANGED <<messages, nextSeq, top, late>>
      PROVE  /\ SeqInv' /\ Past' = Past /\ Stored' = Stored
             /\ top' = top /\ late' = late
  BY <1>5 DEF SeqInv, Past, Stored
<1>6. CASE ServerStep
  <2>1. \/ \E n \in 0..MaxDay : DrawSeq(n)
        \/ \E n \in Messages : CommitMessage(n) \/ AbortMessage(n)
        \/ SweepMessages
        \/ UNCHANGED <<messages, nextSeq, top, late>>
    BY <1>6 DEF ServerStep, Send, CheckSender, NextDay, Join, Remove
  <2>2. top \in Int
    BY DEF TypeOK
  <2>3. QED BY <2>1, <2>2, <1>1, <1>2, <1>3, <1>4, <1>5
<1>7. CASE UNCHANGED server
  BY <1>5, <1>7 DEF server, TypeOK
<1>8. QED BY <1>6, <1>7, StepKinds DEF vars

-----------------------------------------------------------------------------
(* A page shows a message twice only when polls overlap.                   *)

Alone(d) ==
  /\ \A p, q \in Polls : p \in Busy(d) /\ q \in Busy(d) => p = q
  /\ ~ twice[d]
  /\ \A m \in shown[d] : m <= last[d]
  /\ \A p \in Polls :
       /\ polls[d][p].step \in {"asked", "gated"} => polls[d][p].since = last[d]
       /\ polls[d][p].step = "showing" => \A k \in polls[d][p].left : k > last[d]

\* While a page has had one poll at a time, that poll asks from the cursor.
OverlapInv == \A d \in Readers : overlapped[d] \/ Alone(d)

\* A page shows a message twice only if two of its polls were under way at
\* once: the cursor alone keeps successive polls apart.
THEOREM TwiceNeedsOverlap == Spec => []TwiceOnlyByOverlap
<1> USE MessagesAssumption
<1>1. Init => OverlapInv
  BY IdleFields DEF Init, OverlapInv, Alone, Busy
<1>2. TypeOK /\ OverlapInv /\ [Next]_vars => OverlapInv'
  <2> SUFFICES ASSUME TypeOK, OverlapInv, [Next]_vars PROVE OverlapInv'
    OBVIOUS
  <2>1. CASE UNCHANGED pages
    BY <2>1 DEF pages, OverlapInv, Alone, Busy
  <2>2. CASE PageStep
    <3>1. PICK d \in Readers :
            \/ \E p \in Polls : PollStart(d, p) \/ PollLost(d, p) \/ PollGoesOn(d, p)
            \/ Reload(d)
      BY <2>2 DEF PageStep
    <3>2. /\ \A e \in Readers \ {d} : polls'[e] = polls[e] /\ last'[e] = last[e]
                /\ shown'[e] = shown[e] /\ twice'[e] = twice[e]
                /\ overlapped'[e] = overlapped[e]
      BY <3>1 DEF PollStart, PollLost, PollGoesOn, PollGate, PollRefused, PollSelect,
                  ShowMessage, Reload, SetPoll, TypeOK
    <3>3. \A e \in Readers \ {d} : (overlapped[e] \/ Alone(e))'
      BY <3>2 DEF OverlapInv, Alone, Busy
    <3>4. ASSUME NEW p \in Polls, ~ overlapped'[d],
                 PollStart(d, p) \/ PollLost(d, p) \/ PollGoesOn(d, p)
          PROVE  Alone(d)'
      <4> DEFINE poll == polls[d][p]
      <4>1. ~ overlapped[d]
        BY <3>4 DEF PollStart, PollLost, PollGoesOn, PollGate, PollRefused,
                    PollSelect, ShowMessage, TypeOK
      <4>2. Alone(d)
        BY <4>1 DEF OverlapInv
      <4>3. poll \in Poll /\ last[d] \in Nat /\ shown[d] \subseteq Messages
        BY DEF TypeOK
      <4>4. ASSUME PollStart(d, p) PROVE Alone(d)'
        <5>1. /\ Busy(d) = {} /\ UNCHANGED <<last, shown, twice>>
              /\ polls' = SetPoll(d, p, PollAt("asked", last[d], 0, {}))
          BY <3>4, <4>4 DEF PollStart, TypeOK
        <5>2. /\ polls'[d][p].step = "asked" /\ polls'[d][p].since = last[d]
              /\ \A q \in Polls \ {p} : polls'[d][q] = polls[d][q]
          BY <5>1, PollUpdate, PollFields DEF TypeOK
        <5>3. \A q \in Polls \ {p} : polls'[d][q].step = "idle"
          BY <5>1, <5>2 DEF Busy
        <5>4. QED BY <4>2, <5>1, <5>2, <5>3 DEF Alone, Busy
      <4>5. ASSUME PollLost(d, p) \/ PollRefused(d, p) PROVE Alone(d)'
        <5>1. UNCHANGED <<last, shown, twice>> /\ polls' = SetPoll(d, p, Idle)
          BY <4>5 DEF PollLost, PollRefused
        <5>2. /\ polls'[d][p].step = "idle"
              /\ \A q \in Polls \ {p} : polls'[d][q] = polls[d][q]
          BY <5>1, PollUpdate, IdleFields DEF TypeOK
        <5>3. QED BY <4>2, <5>1, <5>2 DEF Alone, Busy
      <4>6. ASSUME PollGate(d, p) PROVE Alone(d)'
        <5>1. PICK j \in joined_at(d) :
                polls' = SetPoll(d, p, PollAt("gated", poll.since, j, {}))
          BY <4>6 DEF PollGate
        <5>2. /\ polls'[d][p].step = "gated" /\ polls'[d][p].since = poll.since
              /\ \A q \in Polls \ {p} : polls'[d][q] = polls[d][q]
          BY <5>1, PollUpdate, PollFields DEF TypeOK
        <5>3. poll.step = "asked" /\ UNCHANGED <<last, shown, twice>>
          BY <4>6 DEF PollGate
        <5>4. QED BY <4>2, <5>2, <5>3 DEF Alone, Busy
      <4>7. ASSUME PollSelect(d, p) PROVE Alone(d)'
        <5>0. PICK list : list = FirstOf(Visible(poll))
          OBVIOUS
        <5>1. /\ poll.step = "gated" /\ UNCHANGED <<last, shown, twice>>
              /\ polls' = SetPoll(d, p, IF list = {} THEN Idle
                     ELSE PollAt("showing", poll.since, poll.joined, list))
          BY <4>7, <5>0 DEF PollSelect
        <5>2. \A k \in list : k > last[d]
          BY <4>2, <5>0, <5>1 DEF FirstOf, Visible, Alone
        <5>3. /\ \A q \in Polls \ {p} : polls'[d][q] = polls[d][q]
              /\ \/ polls'[d][p].step = "idle"
                 \/ polls'[d][p].step = "showing" /\ polls'[d][p].left = list
          <6>1. CASE polls' = SetPoll(d, p, Idle)
            BY <6>1, PollUpdate, IdleFields DEF TypeOK
          <6>2. CASE polls' = SetPoll(d, p,
                       PollAt("showing", poll.since, poll.joined, list))
            BY <6>2, PollUpdate, PollFields DEF TypeOK
          <6>3. QED BY <5>1, <6>1, <6>2
        <5>4. QED BY <4>2, <5>1, <5>2, <5>3 DEF Alone, Busy
      <4>8. ASSUME ShowMessage(d, p) PROVE Alone(d)'
        <5>1. PICK m \in poll.left :
                /\ poll.step = "showing" /\ \A k \in poll.left : m <= k
                /\ shown' = [shown EXCEPT ![d] = @ \cup {m}]
                /\ twice' = [twice EXCEPT ![d] = @ \/ m \in shown[d]]
                /\ last' = [last EXCEPT ![d] = m]
                /\ polls' = SetPoll(d, p, IF poll.left = {m} THEN Idle
                     ELSE PollAt("showing", poll.since, poll.joined, poll.left \ {m}))
          BY <4>8 DEF ShowMessage, CursorAfter
        <5>2. m > last[d] /\ m \in Nat /\ poll.left \subseteq Nat
          BY <4>2, <4>3, <5>1 DEF Alone, Poll, Messages
        <5>3. /\ \A q \in Polls \ {p} : polls'[d][q] = polls[d][q]
              /\ \/ polls'[d][p].step = "idle"
                 \/ polls'[d][p].step = "showing" /\ polls'[d][p].left = poll.left \ {m}
          <6>1. CASE polls' = SetPoll(d, p, Idle)
            BY <6>1, PollUpdate, IdleFields DEF TypeOK
          <6>0. PICK rest : rest = poll.left \ {m}
            OBVIOUS
          <6>2. CASE polls' = SetPoll(d, p,
                       PollAt("showing", poll.since, poll.joined, poll.left \ {m}))
            <7>1. polls' = SetPoll(d, p, PollAt("showing", poll.since, poll.joined, rest))
              BY <6>0, <6>2
            <7>2. /\ polls'[d][p] = PollAt("showing", poll.since, poll.joined, rest)
                  /\ \A q \in Polls \ {p} : polls'[d][q] = polls[d][q]
              BY <7>1, PollUpdate DEF TypeOK
            <7>3. polls'[d][p].step = "showing" /\ polls'[d][p].left = rest
              BY <7>2, PollFields
            <7>4. QED BY <6>0, <7>2, <7>3
          <6>3. QED BY <5>1, <6>1, <6>2
        <5>4. shown'[d] = shown[d] \cup {m} /\ last'[d] = m
          BY <5>1 DEF TypeOK
        <5>5. m \notin shown[d]
          BY <4>2, <4>3, <5>2 DEF Alone, Messages
        <5>6. ~ twice'[d]
          BY <4>2, <5>1, <5>5 DEF TypeOK, Alone
        <5>7. \A k \in shown'[d] : k <= last'[d]
          BY <4>2, <4>3, <5>2, <5>4 DEF Alone, Messages
        <5>8. \A q \in Polls \ {p} : polls'[d][q].step = "idle"
          BY <4>2, <5>1, <5>3 DEF Alone, Busy
        <5>9. \A k \in poll.left \ {m} : k > m
          BY <5>1, <5>2
        <5>10. QED BY <5>3, <5>4, <5>6, <5>7, <5>8, <5>9 DEF Alone, Busy
      <4>9. QED BY <3>4, <4>4, <4>5, <4>6, <4>7, <4>8 DEF PollGoesOn
    <3>5. ASSUME Reload(d) PROVE Alone(d)'
      BY <3>5, IdleFields DEF Reload, Alone, Busy, TypeOK
    <3>6. QED BY <3>1, <3>3, <3>4, <3>5 DEF OverlapInv
  <2>3. QED BY <2>1, <2>2, StepKinds DEF vars
<1>3. OverlapInv => TwiceOnlyByOverlap
  BY DEF OverlapInv, Alone, TwiceOnlyByOverlap
<1>4. QED BY <1>1, <1>2, <1>3, MessagesTyped, PTL DEF Spec

-----------------------------------------------------------------------------
(* What a step of a page may do.                                           *)

Ended(d, p) == polls'[d][p] = Idle

Working(d, p, step, since, joined, left) ==
  /\ polls'[d][p].step = step /\ polls'[d][p].since = since
  /\ polls'[d][p].joined = joined /\ polls'[d][p].left = left

\* One message of an answer goes onto the page.
Shows(d, p, m) ==
  /\ polls[d][p].step = "showing" /\ m \in polls[d][p].left
  /\ \A k \in polls[d][p].left : m <= k
  /\ shown'[d] = shown[d] \cup {m} /\ last'[d] = m
  /\ \/ Ended(d, p)
     \/ Working(d, p, "showing", polls[d][p].since, polls[d][p].joined,
                polls[d][p].left \ {m})

\* A step of a poll: it ends, asks, passes the gate, gets an answer or shows
\* one message; nothing else of any page changes.
LEMMA PollCases ==
  ASSUME TypeOK, NEW d \in Readers, NEW p \in Polls,
         PollStart(d, p) \/ PollLost(d, p) \/ PollGoesOn(d, p)
  PROVE  /\ \A e \in Readers, q \in Polls :
              e # d \/ q # p => polls'[e][q] = polls[e][q]
         /\ \A e \in Readers \ {d} : last'[e] = last[e] /\ shown'[e] = shown[e]
         /\ \/ \E m \in Messages : Shows(d, p, m)
            \/ /\ last'[d] = last[d] /\ shown'[d] = shown[d]
               /\ \/ Ended(d, p)
                  \/ /\ rows[d].status # "absent"
                     /\ Working(d, p, "asked", last[d], 0, {})
                  \/ /\ polls[d][p].step = "asked"
                     /\ \E j \in joined_at(d) :
                          Working(d, p, "gated", polls[d][p].since, j, {})
                  \/ /\ polls[d][p].step = "gated"
                     /\ Working(d, p, "showing", polls[d][p].since,
                          polls[d][p].joined, FirstOf(Visible(polls[d][p])))
<1> DEFINE poll == polls[d][p]
<1>1. ASSUME PollStart(d, p)
      PROVE  /\ \A e \in Readers, q \in Polls :
                  e # d \/ q # p => polls'[e][q] = polls[e][q]
             /\ rows[d].status # "absent" /\ Working(d, p, "asked", last[d], 0, {})
             /\ UNCHANGED <<last, shown>>
  <2>1. /\ rows[d].status # "absent" /\ UNCHANGED <<last, shown>>
        /\ polls' = SetPoll(d, p, PollAt("asked", last[d], 0, {}))
    BY <1>1 DEF PollStart
  <2>2. QED BY <2>1, PollUpdate, PollFields DEF TypeOK, Working
<1>2. ASSUME PollLost(d, p) \/ PollRefused(d, p)
      PROVE  /\ \A e \in Readers, q \in Polls :
                  e # d \/ q # p => polls'[e][q] = polls[e][q]
             /\ Ended(d, p) /\ UNCHANGED <<last, shown>>
  <2>1. UNCHANGED <<last, shown>> /\ polls' = SetPoll(d, p, Idle)
    BY <1>2 DEF PollLost, PollRefused
  <2>2. QED BY <2>1, PollUpdate DEF TypeOK, Ended
<1>3. ASSUME PollGate(d, p)
      PROVE  /\ \A e \in Readers, q \in Polls :
                  e # d \/ q # p => polls'[e][q] = polls[e][q]
             /\ poll.step = "asked" /\ UNCHANGED <<last, shown>>
             /\ \E j \in joined_at(d) : Working(d, p, "gated", poll.since, j, {})
  <2>1. PICK j \in joined_at(d) :
          polls' = SetPoll(d, p, PollAt("gated", poll.since, j, {}))
    BY <1>3 DEF PollGate
  <2>2. /\ \A e \in Readers, q \in Polls :
             e # d \/ q # p => polls'[e][q] = polls[e][q]
        /\ Working(d, p, "gated", poll.since, j, {})
    BY <2>1, PollUpdate, PollFields DEF TypeOK, Working
  <2>3. QED BY <1>3, <2>2 DEF PollGate
<1>4. ASSUME PollSelect(d, p)
      PROVE  /\ \A e \in Readers, q \in Polls :
                  e # d \/ q # p => polls'[e][q] = polls[e][q]
             /\ poll.step = "gated" /\ UNCHANGED <<last, shown>>
             /\ \/ Ended(d, p)
                \/ Working(d, p, "showing", poll.since, poll.joined,
                           FirstOf(Visible(poll)))
  <2>0. PICK list : list = FirstOf(Visible(poll))
    OBVIOUS
  <2>1. /\ poll.step = "gated" /\ UNCHANGED <<last, shown>>
        /\ \/ polls' = SetPoll(d, p, Idle)
           \/ polls' = SetPoll(d, p, PollAt("showing", poll.since, poll.joined, list))
    BY <1>4, <2>0 DEF PollSelect
  <2>2. CASE polls' = SetPoll(d, p, Idle)
    BY <2>1, <2>2, PollUpdate DEF TypeOK, Ended
  <2>3. CASE polls' = SetPoll(d, p, PollAt("showing", poll.since, poll.joined, list))
    <3>1. /\ \A e \in Readers, q \in Polls :
               e # d \/ q # p => polls'[e][q] = polls[e][q]
          /\ polls'[d][p] = PollAt("showing", poll.since, poll.joined, list)
      BY <2>3, PollUpdate DEF TypeOK
    <3>2. Working(d, p, "showing", poll.since, poll.joined, list)
      BY <3>1, PollFields DEF Working
    <3>3. QED BY <2>0, <2>1, <3>1, <3>2
  <2>4. QED BY <2>1, <2>2, <2>3
<1>5. ASSUME ShowMessage(d, p)
      PROVE  /\ \A e \in Readers, q \in Polls :
                  e # d \/ q # p => polls'[e][q] = polls[e][q]
             /\ \A e \in Readers \ {d} : last'[e] = last[e] /\ shown'[e] = shown[e]
             /\ \E m \in Messages : Shows(d, p, m)
  <2>1. PICK m \in poll.left :
          /\ poll.step = "showing" /\ \A k \in poll.left : m <= k
          /\ shown' = [shown EXCEPT ![d] = @ \cup {m}]
          /\ last' = [last EXCEPT ![d] = m]
          /\ polls' = SetPoll(d, p, IF poll.left = {m} THEN Idle
               ELSE PollAt("showing", poll.since, poll.joined, poll.left \ {m}))
    BY <1>5 DEF ShowMessage, CursorAfter
  <2>2. PICK rest : rest = poll.left \ {m}
    OBVIOUS
  <2>3. /\ \/ polls' = SetPoll(d, p, Idle)
           \/ polls' = SetPoll(d, p, PollAt("showing", poll.since, poll.joined, rest))
    BY <2>1, <2>2
  <2>4. /\ \A e \in Readers, q \in Polls :
             e # d \/ q # p => polls'[e][q] = polls[e][q]
        /\ Ended(d, p) \/ Working(d, p, "showing", poll.since, poll.joined, rest)
    <3>1. CASE polls' = SetPoll(d, p, Idle)
      BY <3>1, PollUpdate DEF TypeOK, Ended
    <3>2. CASE polls' = SetPoll(d, p, PollAt("showing", poll.since, poll.joined, rest))
      <4>1. /\ \A e \in Readers, q \in Polls :
                 e # d \/ q # p => polls'[e][q] = polls[e][q]
            /\ polls'[d][p] = PollAt("showing", poll.since, poll.joined, rest)
        BY <3>2, PollUpdate DEF TypeOK
      <4>2. Working(d, p, "showing", poll.since, poll.joined, rest)
        BY <4>1, PollFields DEF Working
      <4>3. QED BY <4>1, <4>2
    <3>3. QED BY <2>3, <3>1, <3>2
  <2>5. /\ shown'[d] = shown[d] \cup {m} /\ last'[d] = m
        /\ \A e \in Readers \ {d} : last'[e] = last[e] /\ shown'[e] = shown[e]
    BY <2>1 DEF TypeOK
  <2>6. m \in Messages
    BY DEF TypeOK, Poll
  <2>7. Shows(d, p, m)
    BY <2>1, <2>2, <2>4, <2>5 DEF Shows
  <2>8. QED BY <2>4, <2>5, <2>6, <2>7
<1>6. QED BY <1>1, <1>2, <1>3, <1>4, <1>5 DEF PollGoesOn

\* A page step of d is a step of one of its polls, or a reload that leaves
\* nothing on the page.
LEMMA PageCases ==
  ASSUME TypeOK, PageStep
  PROVE  \E d \in Readers :
           \/ \E p \in Polls : PollStart(d, p) \/ PollLost(d, p) \/ PollGoesOn(d, p)
           \/ /\ last'[d] = 0 /\ shown'[d] = {}
              /\ \A p \in Polls : polls'[d][p] = Idle
              /\ \A e \in Readers \ {d} :
                   /\ last'[e] = last[e] /\ shown'[e] = shown[e]
                   /\ polls'[e] = polls[e]
<1>1. PICK d \in Readers :
        \/ \E p \in Polls : PollStart(d, p) \/ PollLost(d, p) \/ PollGoesOn(d, p)
        \/ Reload(d)
  BY DEF PageStep
<1>2. CASE Reload(d)
  <2>1. /\ polls' = [polls EXCEPT ![d] = [p \in Polls |-> Idle]]
        /\ last' = [last EXCEPT ![d] = 0] /\ shown' = [shown EXCEPT ![d] = {}]
    BY <1>2 DEF Reload
  <2>2. /\ \A p \in Polls : polls'[d][p] = Idle
        /\ \A e \in Readers \ {d} : polls'[e] = polls[e]
    BY <2>1 DEF TypeOK
  <2>3. /\ last'[d] = 0 /\ shown'[d] = {}
        /\ \A e \in Readers \ {d} : last'[e] = last[e] /\ shown'[e] = shown[e]
    BY <2>1 DEF TypeOK
  <2>4. QED BY <2>2, <2>3
<1>3. QED BY <1>1, <1>2

\* What a step may do to a row: a row that stands keeps its signing key and
\* its date; a new one is its device's own, of today.
LEMMA RowSteps ==
  ASSUME TypeOK, [Next]_vars, NEW b \in Boxes
  PROVE  \/ rows'[b] = rows[b]
         \/ /\ rows[b].status # "absent" /\ rows'[b].status # "absent"
            /\ rows'[b].sig = rows[b].sig /\ rows'[b].joined = rows[b].joined
         \/ /\ rows[b].status = "absent" /\ rows'[b].status # "absent"
            /\ rows'[b].sig = b /\ rows'[b].joined = day
<1>1. ASSUME NEW d \in Boxes, Join(d)
      PROVE  \/ rows'[b] = rows[b]
             \/ /\ rows[b].status = "absent" /\ rows'[b].status # "absent"
                /\ rows'[b].sig = b /\ rows'[b].joined = day
  <2>1. rows[d].status = "absent" /\ rows' = [rows EXCEPT ![d] = NewRow(d, NoKey, day)]
    BY <1>1 DEF Join, add_member
  <2>2. rows'[b] = IF b = d THEN NewRow(d, NoKey, day) ELSE rows[b]
    BY <2>1 DEF TypeOK
  <2>3. QED BY <2>1, <2>2 DEF NewRow
<1>2. ASSUME NEW d \in Boxes, Remove(d)
      PROVE  \/ rows'[b] = rows[b]
             \/ /\ rows[b].status # "absent" /\ rows'[b].status # "absent"
                /\ rows'[b].sig = rows[b].sig /\ rows'[b].joined = rows[b].joined
  <2>1. rows' = [c \in Boxes |-> IF c \in RowsOfSig(rows, d)
                                   THEN [rows[c] EXCEPT !.status = "removed"]
                                   ELSE rows[c]]
    BY <1>2 DEF Remove, soft_remove_by_sig
  <2>2. CASE b \in RowsOfSig(rows, d)
    <3>1. rows[b].status = "active" /\ rows[b] \in Row
      BY <2>2 DEF RowsOfSig, Active, TypeOK
    <3>2. /\ rows'[b].status = "removed"
          /\ rows'[b].sig = rows[b].sig /\ rows'[b].joined = rows[b].joined
      BY <2>1, <2>2, <3>1 DEF Row
    <3>3. QED BY <3>1, <3>2
  <2>3. QED BY <2>1, <2>2
<1>3. CASE ServerStep
  <2>1. UNCHANGED rows \/ \E d \in Boxes : Join(d) \/ Remove(d)
    BY <1>3 DEF ServerStep, Send, CheckSender, DrawSeq, CommitMessage, AbortMessage,
                SweepMessages, NextDay
  <2>2. QED BY <2>1, <1>1, <1>2
<1>4. CASE UNCHANGED server
  BY <1>4 DEF server
<1>5. QED BY <1>3, <1>4, StepKinds DEF vars

-----------------------------------------------------------------------------
(* The history gate.                                                       *)

\* A page exists once its device has joined, and its polls are gated with
\* the date of its device's row.
GateInv ==
  /\ \A b \in Boxes : rows[b].status # "absent" => rows[b].sig = b
  /\ \A d \in Readers :
       /\ rows[d].status = "absent" =>
            /\ last[d] = 0 /\ shown[d] = {}
            /\ \A p \in Polls : polls[d][p].step = "idle"
       /\ \A p \in Polls :
            /\ polls[d][p].step \in {"gated", "showing"}
                 => polls[d][p].joined = rows[d].joined
            /\ polls[d][p].step # "showing" => polls[d][p].left = {}

LEMMA GateInitial == Init => GateInv
BY MessagesAssumption, IdleFields DEF Init, GateInv, NewRow, NoRow

LEMMA GateSteps ==
  ASSUME TypeOK, GateInv, [Next]_vars
  PROVE  GateInv'
<1> USE MessagesAssumption
<1>1. \A b \in Boxes : rows'[b].status # "absent" => rows'[b].sig = b
  BY RowSteps DEF GateInv
<1>2. CASE UNCHANGED pages
  <2>1. ASSUME NEW d \in Readers
        PROVE  rows'[d].status = "absent" => rows[d].status = "absent"
    BY RowSteps
  <2>2. ASSUME NEW d \in Readers, rows[d].status # "absent"
        PROVE  rows'[d].joined = rows[d].joined
    BY <2>2, RowSteps
  <2>3. QED BY <1>1, <1>2, <2>1, <2>2 DEF pages, GateInv
<1>3. CASE PageStep /\ UNCHANGED server
  <2> USE <1>3
  <2>1. rows' = rows
    BY DEF server
  <2>2. PICK d \in Readers :
           \/ \E p \in Polls : PollStart(d, p) \/ PollLost(d, p) \/ PollGoesOn(d, p)
           \/ /\ last'[d] = 0 /\ shown'[d] = {}
              /\ \A p \in Polls : polls'[d][p] = Idle
              /\ \A e \in Readers \ {d} :
                   /\ last'[e] = last[e] /\ shown'[e] = shown[e]
                   /\ polls'[e] = polls[e]
    BY PageCases
  <2>3. ASSUME NEW p \in Polls, PollStart(d, p) \/ PollLost(d, p) \/ PollGoesOn(d, p)
        PROVE  GateInv'
    <3>1. /\ \A e \in Readers, q \in Polls :
               e # d \/ q # p => polls'[e][q] = polls[e][q]
          /\ \A e \in Readers \ {d} : last'[e] = last[e] /\ shown'[e] = shown[e]
      BY <2>3, PollCases
    <3>2. CASE \E m \in Messages : Shows(d, p, m)
      <4>1. /\ polls[d][p].step = "showing"
            /\ \/ polls'[d][p].step = "idle" /\ polls'[d][p].left = {}
               \/ polls'[d][p].step = "showing" /\ polls'[d][p].joined = polls[d][p].joined
        BY <3>2, IdleFields DEF Shows, Ended, Working
      <4>2. rows[d].status # "absent"
        BY <4>1 DEF GateInv
      <4>3. QED BY <1>1, <2>1, <3>1, <4>1, <4>2 DEF GateInv
    <3>3. CASE last'[d] = last[d] /\ shown'[d] = shown[d]
      <4>1. ASSUME NEW j \in joined_at(d) PROVE j = rows[d].joined
        BY DEF joined_at, RowsOfSig, Active, GateInv
      <4>2. /\ polls'[d][p].step = "idle" \/ rows[d].status # "absent"
            /\ polls'[d][p].step \in {"gated", "showing"}
                 => polls'[d][p].joined = rows[d].joined
            /\ polls'[d][p].step # "showing" => polls'[d][p].left = {}
        <5>1. CASE Ended(d, p)
          BY <5>1, IdleFields DEF Ended
        <5>2. CASE rows[d].status # "absent" /\ Working(d, p, "asked", last[d], 0, {})
          BY <5>2 DEF Working
        <5>3. CASE /\ polls[d][p].step = "asked"
                   /\ \E j \in joined_at(d) :
                        Working(d, p, "gated", polls[d][p].since, j, {})
          BY <4>1, <5>3 DEF Working, GateInv
        <5>4. CASE /\ polls[d][p].step = "gated"
                   /\ Working(d, p, "showing", polls[d][p].since,
                        polls[d][p].joined, FirstOf(Visible(polls[d][p])))
          BY <5>4 DEF Working, GateInv
        <5>5. CASE \E m \in Messages : Shows(d, p, m)
          BY <5>5, IdleFields DEF Shows, Ended, Working, GateInv
        <5>6. QED BY <2>3, <5>1, <5>2, <5>3, <5>4, <5>5, PollCases
      <4>3. QED BY <1>1, <2>1, <3>1, <3>3, <4>2 DEF GateInv
    <3>4. QED BY <2>3, <3>2, <3>3, PollCases
  <2>4. ASSUME /\ last'[d] = 0 /\ shown'[d] = {}
               /\ \A p \in Polls : polls'[d][p] = Idle
               /\ \A e \in Readers \ {d} :
                    /\ last'[e] = last[e] /\ shown'[e] = shown[e]
                    /\ polls'[e] = polls[e]
        PROVE  GateInv'
    BY <1>1, <2>1, <2>4, IdleFields DEF GateInv
  <2>5. QED BY <2>2, <2>3, <2>4
<1>4. QED BY <1>2, <1>3, StepKinds DEF vars

-----------------------------------------------------------------------------
(* What the cursor has passed.                                             *)

Reached == {m \in Past : m <= top}

\* Nothing a page knows of lies beyond the greatest seq committed.
ReachInv ==
  \A d \in Readers :
    /\ last[d] <= top /\ shown[d] \subseteq Reached
    /\ \A p \in Polls :
         polls[d][p].since <= top /\ polls[d][p].left \subseteq Reached

\* What a page lacks of what is due to it lies after its cursor, after the
\* cursor of each of its polls, and is either in an answer it works through
\* or after all of that answer.
CursorInv ==
  \A d \in Readers : \A m \in Due(d) :
    /\ m <= last[d] => m \in shown[d]
    /\ \A p \in Polls :
         /\ polls[d][p].step # "idle" /\ m <= polls[d][p].since => m \in shown[d]
         /\ \A k \in polls[d][p].left : m <= k => m \in shown[d] \cup polls[d][p].left

LEMMA ReachSteps ==
  ASSUME TypeOK, TypeOK', SeqInv, ReachInv, [Next]_vars
  PROVE  ReachInv'
<1> USE MessagesAssumption
<1>1. Reached \subseteq Reached' /\ top <= top' /\ top \in Nat /\ top' \in Nat
  <2>1. Past \subseteq Past' /\ top <= top' /\ top \in Nat /\ top' \in Nat
    BY MessageSteps DEF TypeOK
  <2>2. QED BY <2>1 DEF Reached, Past, Messages
<1>2. CASE UNCHANGED pages
  <2>1. ASSUME NEW n \in Nat, n <= top PROVE n <= top'
    BY <1>1, <2>1
  <2>2. ASSUME NEW d \in Readers
        PROVE  last'[d] <= top' /\ shown'[d] \subseteq Reached'
    BY <1>1, <1>2, <2>1 DEF pages, ReachInv, TypeOK
  <2>3. ASSUME NEW d \in Readers, NEW p \in Polls
        PROVE  polls'[d][p].since <= top' /\ polls'[d][p].left \subseteq Reached'
    <3>1. polls[d][p].since \in Nat
      BY DEF TypeOK, Poll
    <3>2. QED BY <1>1, <1>2, <2>1, <3>1 DEF pages, ReachInv
  <2>4. QED BY <2>2, <2>3 DEF ReachInv
<1>3. CASE PageStep /\ UNCHANGED server
  <2> USE <1>3
  <2>1. Reached' = Reached /\ top' = top /\ Stored \subseteq Reached /\ top >= 0
    BY <1>1 DEF server, Reached, Past, Stored, SeqInv
  <2>2. PICK d \in Readers :
           \/ \E p \in Polls : PollStart(d, p) \/ PollLost(d, p) \/ PollGoesOn(d, p)
           \/ /\ last'[d] = 0 /\ shown'[d] = {}
              /\ \A p \in Polls : polls'[d][p] = Idle
              /\ \A e \in Readers \ {d} :
                   /\ last'[e] = last[e] /\ shown'[e] = shown[e]
                   /\ polls'[e] = polls[e]
    BY PageCases
  <2>3. ASSUME NEW p \in Polls, PollStart(d, p) \/ PollLost(d, p) \/ PollGoesOn(d, p)
        PROVE  ReachInv'
    <3>1. /\ \A e \in Readers, q \in Polls :
               e # d \/ q # p => polls'[e][q] = polls[e][q]
          /\ \A e \in Readers \ {d} : last'[e] = last[e] /\ shown'[e] = shown[e]
      BY <2>3, PollCases
    <3>2. ASSUME polls'[d][p].since <= top, polls'[d][p].left \subseteq Reached,
                 last'[d] <= top, shown'[d] \subseteq Reached
          PROVE  ReachInv'
      BY <2>1, <3>1, <3>2 DEF ReachInv
    <3>3. CASE \E m \in Messages : Shows(d, p, m)
      <4>1. PICK m \in Messages : Shows(d, p, m)
        BY <3>3
      <4>2. polls[d][p].left \subseteq Reached /\ polls[d][p].since <= top
        BY DEF ReachInv
      <4>3. m \in Reached /\ m <= top
        BY <4>1, <4>2 DEF Shows, Reached
      <4>4. polls'[d][p].since <= top /\ polls'[d][p].left \subseteq Reached
        BY <2>1, <4>1, <4>2, IdleFields DEF Shows, Ended, Working
      <4>5. QED BY <3>2, <4>1, <4>3, <4>4 DEF Shows, ReachInv
    <3>4. CASE ~ \E m \in Messages : Shows(d, p, m)
      <4>1. last'[d] <= top /\ shown'[d] \subseteq Reached
        BY <2>3, <3>4, PollCases DEF ReachInv
      <4>2. FirstOf(Visible(polls[d][p])) \subseteq Reached
        BY <2>1 DEF FirstOf, Visible
      <4>3. polls'[d][p].since <= top /\ polls'[d][p].left \subseteq Reached
        <5>1. CASE Ended(d, p)
          BY <2>1, <5>1, IdleFields DEF Ended
        <5>2. CASE Working(d, p, "asked", last[d], 0, {})
          BY <5>2 DEF Working, ReachInv
        <5>3. CASE \E j \in joined_at(d) :
                     Working(d, p, "gated", polls[d][p].since, j, {})
          BY <5>3 DEF Working, ReachInv
        <5>4. CASE Working(d, p, "showing", polls[d][p].since,
                        polls[d][p].joined, FirstOf(Visible(polls[d][p])))
          BY <4>2, <5>4 DEF Working, ReachInv
        <5>5. QED BY <2>3, <3>4, <5>1, <5>2, <5>3, <5>4, PollCases
      <4>4. QED BY <3>2, <4>1, <4>3
    <3>5. QED BY <3>3, <3>4
  <2>4. ASSUME /\ last'[d] = 0 /\ shown'[d] = {}
               /\ \A p \in Polls : polls'[d][p] = Idle
               /\ \A e \in Readers \ {d} :
                    /\ last'[e] = last[e] /\ shown'[e] = shown[e]
                    /\ polls'[e] = polls[e]
        PROVE  ReachInv'
    BY <2>1, <2>4, IdleFields DEF ReachInv
  <2>5. QED BY <2>2, <2>3, <2>4
<1>4. QED BY <1>2, <1>3, StepKinds DEF vars

LEMMA CursorSteps ==
  ASSUME TypeOK, TypeOK', SeqInv, GateInv, ReachInv, CursorInv, [Next]_vars
  PROVE  CursorInv'
<1> USE MessagesAssumption
<1>1. CASE UNCHANGED pages
  <2> SUFFICES ASSUME NEW d \in Readers, NEW m \in Due(d)',
                      rows[d].status # "absent"
               PROVE  /\ m <= last[d] => m \in shown[d]
                      /\ \A p \in Polls :
                           /\ polls[d][p].step # "idle" /\ m <= polls[d][p].since
                                => m \in shown[d]
                           /\ \A k \in polls[d][p].left : m <= k
                                => m \in shown[d] \cup polls[d][p].left
    <3>1. ASSUME NEW d \in Readers, NEW m \in Due(d)', rows[d].status = "absent"
          PROVE  /\ ~ (m <= last[d])
                 /\ \A p \in Polls : polls[d][p].step = "idle" /\ polls[d][p].left = {}
      BY <3>1 DEF GateInv, Due, Stored, Messages
    <3>2. QED BY <1>1, <3>1 DEF pages, CursorInv
  <2>1. rows'[d].joined = rows[d].joined
    BY RowSteps
  <2>2. m \in Messages /\ (m \in Stored \ late \/ m > top)
    BY MessageSteps DEF Due, Stored
  <2>3. CASE m > top
    <3>1. /\ last[d] \in Nat /\ top \in Nat /\ m \in Nat
          /\ \A p \in Polls : polls[d][p].since \in Nat
      BY <2>2 DEF TypeOK, Poll, Messages
    <3>2. ~ (m <= last[d]) /\ \A p \in Polls : ~ (m <= polls[d][p].since)
      BY <2>3, <3>1 DEF ReachInv
    <3>3. ASSUME NEW p \in Polls, NEW k \in polls[d][p].left PROVE ~ (m <= k)
      BY <2>3, <3>1 DEF ReachInv, Reached, Past, Messages
    <3>4. QED BY <3>2, <3>3
  <2>4. CASE m \in Stored \ late
    <3>1. messages'[m].day = messages[m].day
      BY <2>4, MessageSteps DEF Stored, Past
    <3>2. m \in Due(d)
      BY <2>1, <2>4, <3>1 DEF Due
    <3>3. QED BY <3>2 DEF CursorInv
  <2>5. QED BY <2>2, <2>3, <2>4
<1>2. CASE PageStep /\ UNCHANGED server
  <2> USE <1>2
  <2>1. \A e \in Readers : Due(e)' = Due(e)
    BY DEF server, Due, Stored
  <2>2. PICK d \in Readers :
           \/ \E p \in Polls : PollStart(d, p) \/ PollLost(d, p) \/ PollGoesOn(d, p)
           \/ /\ last'[d] = 0 /\ shown'[d] = {}
              /\ \A p \in Polls : polls'[d][p] = Idle
              /\ \A e \in Readers \ {d} :
                   /\ last'[e] = last[e] /\ shown'[e] = shown[e]
                   /\ polls'[e] = polls[e]
    BY PageCases
  <2>3. ASSUME NEW p \in Polls, PollStart(d, p) \/ PollLost(d, p) \/ PollGoesOn(d, p)
        PROVE  CursorInv'
    <3> DEFINE poll == polls[d][p]
               answer == polls'[d][p]
    <3>1. /\ \A e \in Readers, q \in Polls :
               e # d \/ q # p => polls'[e][q] = polls[e][q]
          /\ \A e \in Readers \ {d} : last'[e] = last[e] /\ shown'[e] = shown[e]
      BY <2>3, PollCases
    <3>2. ASSUME shown[d] \subseteq shown'[d],
                 NEW m \in Due(d), m <= last'[d] => m \in shown'[d],
                 answer.step # "idle" /\ m <= answer.since => m \in shown'[d],
                 \A k \in answer.left : m <= k => m \in shown'[d] \cup answer.left
          PROVE  /\ m <= last'[d] => m \in shown'[d]
                 /\ \A q \in Polls :
                      /\ polls'[d][q].step # "idle" /\ m <= polls'[d][q].since
                           => m \in shown'[d]
                      /\ \A k \in polls'[d][q].left : m <= k
                           => m \in shown'[d] \cup polls'[d][q].left
      <4>1. ASSUME NEW q \in Polls \ {p}
            PROVE  /\ polls'[d][q].step # "idle" /\ m <= polls'[d][q].since
                           => m \in shown'[d]
                   /\ \A k \in polls'[d][q].left : m <= k
                           => m \in shown'[d] \cup polls'[d][q].left
        BY <3>1, <3>2 DEF CursorInv
      <4>2. QED BY <3>2, <4>1
    <3>3. shown[d] \subseteq shown'[d]
      BY <2>3, PollCases DEF Shows
    <3>4. ASSUME NEW m \in Due(d)
          PROVE  /\ m <= last'[d] => m \in shown'[d]
                 /\ answer.step # "idle" /\ m <= answer.since => m \in shown'[d]
                 /\ \A k \in answer.left : m <= k => m \in shown'[d] \cup answer.left
      <4>1. m \in Messages /\ m \in Nat
        BY DEF Due, Stored, Messages
      <4>2. /\ m <= last[d] => m \in shown[d]
            /\ poll.step # "idle" /\ m <= poll.since => m \in shown[d]
            /\ \A k \in poll.left : m <= k => m \in shown[d] \cup poll.left
        BY DEF CursorInv
      <4>3. CASE \E n \in Messages : Shows(d, p, n)
        <5>1. PICK n \in Messages : Shows(d, p, n)
          BY <4>3
        <5>2. poll.left \subseteq Messages /\ n \in poll.left
          BY <5>1 DEF Shows, TypeOK, Poll
        <5>3. ASSUME m <= n PROVE m \in shown'[d]
          <6>1. m \in shown[d] \/ m \in poll.left
            BY <4>2, <5>2, <5>3
          <6>2. m \in poll.left => m = n
            BY <4>1, <5>1, <5>3 DEF Shows, Messages
          <6>3. QED BY <5>1, <6>1, <6>2 DEF Shows
        <5>4. m <= last'[d] => m \in shown'[d]
          BY <5>1, <5>3 DEF Shows
        <5>5. poll.step # "idle" /\ shown'[d] = shown[d] \cup {n}
          BY <5>1 DEF Shows
        <5>6. CASE Ended(d, p)
          BY <5>4, <5>6, IdleFields DEF Ended
        <5>7. CASE Working(d, p, "showing", poll.since, poll.joined, poll.left \ {n})
          <6>1. answer.since = poll.since /\ answer.left = poll.left \ {n}
            BY <5>7 DEF Working
          <6>2. QED BY <4>2, <5>4, <5>5, <6>1
        <5>8. QED BY <5>1, <5>6, <5>7 DEF Shows
      <4>4. CASE ~ \E n \in Messages : Shows(d, p, n)
        <5>1. last'[d] = last[d] /\ shown'[d] = shown[d]
          BY <2>3, <4>4, PollCases
        <5>2. CASE Ended(d, p)
          BY <4>2, <5>1, <5>2, IdleFields DEF Ended
        <5>3. CASE Working(d, p, "asked", last[d], 0, {})
          BY <4>2, <5>1, <5>3 DEF Working
        <5>4. CASE /\ poll.step = "asked"
                   /\ \E j \in joined_at(d) :
                        Working(d, p, "gated", poll.since, j, {})
          BY <4>2, <5>1, <5>4 DEF Working
        <5>5. CASE /\ poll.step = "gated"
                   /\ Working(d, p, "showing", poll.since, poll.joined,
                              FirstOf(Visible(poll)))
          <6> DEFINE list == FirstOf(Visible(poll))
          <6>1. answer.since = poll.since /\ answer.left = list
            BY <5>5 DEF Working
          <6>2. poll.joined = rows[d].joined /\ poll.since \in Nat
            BY <5>5 DEF GateInv, TypeOK, Poll
          <6>3. m <= poll.since \/ m \in Visible(poll)
            BY <4>1, <6>2 DEF Due, Visible
          <6>4. ASSUME NEW k \in list, m <= k PROVE m \in shown[d] \cup list
            <7>1. CASE m <= poll.since
              BY <4>2, <5>5, <7>1
            <7>2. CASE m \in Visible(poll)
              <8>1. Visible(poll) \in SUBSET Messages
                BY DEF Visible, Stored
              <8>2. \A j \in FirstOf(Visible(poll)) : \A n \in Visible(poll) :
                      n <= j => n \in FirstOf(Visible(poll))
                BY <8>1, FirstAreFirst
              <8>3. QED BY <6>4, <7>2, <8>2
            <7>3. QED BY <6>3, <7>1, <7>2
          <6>5. QED BY <4>2, <5>1, <5>5, <6>1, <6>4
        <5>6. QED BY <2>3, <4>4, <5>2, <5>3, <5>4, <5>5, PollCases
      <4>5. QED BY <4>3, <4>4
    <3>5. ASSUME NEW e \in Readers \ {d}
          PROVE  polls'[e] = polls[e] /\ last'[e] = last[e] /\ shown'[e] = shown[e]
      BY <3>1 DEF TypeOK
    <3>6. QED BY <2>1, <3>2, <3>3, <3>4, <3>5 DEF CursorInv
  <2>4. ASSUME /\ last'[d] = 0 /\ shown'[d] = {}
               /\ \A p \in Polls : polls'[d][p] = Idle
               /\ \A e \in Readers \ {d} :
                    /\ last'[e] = last[e] /\ shown'[e] = shown[e]
                    /\ polls'[e] = polls[e]
        PROVE  CursorInv'
    <3>1. \A m \in Due(d) : ~ (m <= last'[d])
      BY <2>4 DEF Due, Stored, Messages
    <3>2. \A p \in Polls : polls'[d][p].step = "idle" /\ polls'[d][p].left = {}
      BY <2>4, IdleFields
    <3>3. QED BY <2>1, <2>4, <3>1, <3>2 DEF CursorInv
  <2>5. QED BY <2>2, <2>3, <2>4
<1>3. QED BY <1>1, <1>2, StepKinds DEF vars

\* The cursor never passes a message the page has not shown, unless that
\* message was committed after one with a greater seq.
THEOREM NothingElseMissed == Spec => []OnlyLateOnesAreMissed
<1> DEFINE Inv == SeqInv /\ GateInv /\ ReachInv /\ CursorInv
<1>1. Init => Inv
  <2> SUFFICES ASSUME Init PROVE Inv
    OBVIOUS
  <2>1. Stored = {} /\ Past = {} /\ top = 0 /\ \A m \in Messages : messages[m].step = "unused"
    BY DEF Init, Stored, Past
  <2>2. SeqInv
    BY <2>1 DEF SeqInv
  <2>3. \A d \in Readers : last[d] = 0 /\ shown[d] = {} /\ \A p \in Polls : polls[d][p] = Idle
    BY DEF Init
  <2>4. ReachInv /\ CursorInv
    BY <2>1, <2>3, IdleFields DEF ReachInv, CursorInv, Due
  <2>5. QED BY <2>2, <2>4, GateInitial
<1>2. TypeOK /\ TypeOK' /\ Inv /\ [Next]_vars => Inv'
  BY MessageSteps, GateSteps, ReachSteps, CursorSteps
<1>3. Inv => OnlyLateOnesAreMissed
  BY DEF CursorInv, Due, OnlyLateOnesAreMissed
<1>4. QED BY <1>1, <1>2, <1>3, MessagesTyped, PTL DEF Spec

-----------------------------------------------------------------------------
(* The dates of what a page shows.                                         *)

\* Dates lie in the past; what was stored before a join is not of a later
\* date than the join, and what a page has got is not of an earlier one.
DayInv ==
  /\ \A m \in Messages : messages[m].day <= day
  /\ \A n \in 0..MaxDay : checked[n] > 0 => n <= day
  /\ \A d \in Readers : \A m \in earlier[d] :
       /\ m \in Past /\ rows[d].status # "absent"
       /\ messages[m].day <= rows[d].joined
  /\ \A d \in Readers :
       /\ \A m \in shown[d] : messages[m].day >= rows[d].joined
       /\ \A p \in Polls : \A m \in polls[d][p].left :
            messages[m].day >= rows[d].joined

\* The clock and the dates that are written.
LEMMA ClockSteps ==
  ASSUME TypeOK, DayInv, [Next]_vars
  PROVE  /\ day <= day'
         /\ \A m \in Messages : messages'[m].day <= day'
         /\ \A n \in 0..MaxDay : checked'[n] > 0 => n <= day'
         /\ \A d \in Readers : \/ earlier'[d] = earlier[d]
                               \/ earlier'[d] = Stored /\ Join(d)
<1> USE MessagesAssumption
<1>0. day \in Int /\ \A m \in Messages : messages[m].day \in Int
  BY DEF TypeOK, Message
<1>1. ASSUME NEW n \in 0..MaxDay, DrawSeq(n)
      PROVE  /\ day' = day /\ UNCHANGED earlier
             /\ \A m \in Messages : messages'[m].day <= day
             /\ \A k \in 0..MaxDay : checked'[k] > 0 => k <= day
  <2> DEFINE drawn == [step |-> "drawn", day |-> n]
  <2>1. /\ messages' = [messages EXCEPT ![nextSeq] = drawn]
        /\ checked' = [checked EXCEPT ![n] = @ - 1] /\ checked[n] > 0
        /\ UNCHANGED <<day, earlier>>
    BY <1>1 DEF DrawSeq
  <2>2. n <= day /\ drawn.day = n
    BY <2>1 DEF DayInv
  <2>3. \A m \in Messages :
          messages'[m] = IF m = nextSeq THEN drawn ELSE messages[m]
    BY <2>1 DEF TypeOK
  <2>4. \A m \in Messages : messages'[m].day <= day
    BY <2>2, <2>3 DEF DayInv
  <2>5. \A k \in 0..MaxDay : checked'[k] = IF k = n THEN checked[n] - 1 ELSE checked[k]
    BY <2>1 DEF TypeOK
  <2>6. \A k \in 0..MaxDay : checked'[k] > 0 => k <= day
    BY <2>2, <2>5 DEF DayInv
  <2>7. QED BY <2>1, <2>4, <2>6
<1>2. ASSUME NEW d \in Boxes, CheckSender(d)
      PROVE  /\ UNCHANGED <<day, earlier, messages>>
             /\ \A k \in 0..MaxDay : checked'[k] > 0 => k <= day
  <2>1. /\ checked' = [checked EXCEPT ![day] = @ + 1]
        /\ UNCHANGED <<day, earlier, messages>>
    BY <1>2 DEF CheckSender
  <2>2. \A k \in 0..MaxDay : checked'[k] = IF k = day THEN checked[day] + 1 ELSE checked[k]
    BY <2>1 DEF TypeOK
  <2>3. QED BY <1>0, <2>1, <2>2 DEF DayInv
<1>3. ASSUME NEW n \in Messages, CommitMessage(n) \/ AbortMessage(n)
      PROVE  /\ UNCHANGED <<day, earlier, checked>>
             /\ \A m \in Messages : messages'[m].day = messages[m].day
  <2>1. PICK step : messages' = [messages EXCEPT ![n] = [@ EXCEPT !.step = step]]
    BY <1>3 DEF CommitMessage, AbortMessage
  <2>2. \A m \in Messages : messages'[m].day = messages[m].day
    BY <2>1 DEF TypeOK, Message
  <2>3. QED BY <1>3, <2>2 DEF CommitMessage, AbortMessage
<1>4. ASSUME SweepMessages
      PROVE  /\ UNCHANGED <<day, earlier, checked>>
             /\ \A m \in Messages : messages'[m].day = messages[m].day
  <2> DEFINE old == {m \in Stored : messages[m].day + MessageDays < day}
  <2>1. /\ messages' = [m \in Messages |->
             IF m \in old THEN [messages[m] EXCEPT !.step = "gone"] ELSE messages[m]]
        /\ UNCHANGED <<day, earlier, checked>>
    BY <1>4 DEF SweepMessages
  <2>2. \A m \in Messages : messages'[m].day = messages[m].day
    BY <2>1 DEF TypeOK, Message
  <2>3. QED BY <2>1, <2>2
<1>5. ASSUME NEW d \in Boxes, Join(d)
      PROVE  /\ UNCHANGED <<day, messages, checked>>
             /\ \A e \in Readers : \/ earlier'[e] = earlier[e]
                                   \/ earlier'[e] = Stored /\ Join(e)
  <2>1. /\ earlier' = [earlier EXCEPT ![d] = Stored]
        /\ UNCHANGED <<day, messages, checked>>
    BY <1>5 DEF Join
  <2>2. \A e \in Readers : earlier'[e] = IF e = d THEN Stored ELSE earlier[e]
    BY <2>1 DEF TypeOK
  <2>3. QED BY <1>5, <2>1, <2>2
<1>6. ASSUME NextDay
      PROVE  day' = day + 1 /\ UNCHANGED <<earlier, messages, checked>>
  BY <1>6 DEF NextDay
<1>7. ASSUME UNCHANGED <<day, earlier, messages, checked>>
      PROVE  /\ day' = day /\ UNCHANGED earlier
             /\ \A m \in Messages : messages'[m].day <= day
             /\ \A k \in 0..MaxDay : checked'[k] > 0 => k <= day
  BY <1>7 DEF DayInv
<1>8. CASE ServerStep
  <2>1. \/ \E d \in Boxes : CheckSender(d)
        \/ \E n \in 0..MaxDay : DrawSeq(n)
        \/ \E n \in Messages : CommitMessage(n) \/ AbortMessage(n)
        \/ SweepMessages \/ NextDay
        \/ \E d \in Boxes : Join(d)
        \/ UNCHANGED <<day, earlier, messages, checked>>
    BY <1>8 DEF ServerStep, Send, Remove
  <2>2. CASE \E d \in Boxes : CheckSender(d)
    BY <1>0, <1>2, <2>2 DEF DayInv
  <2>3. CASE \E n \in 0..MaxDay : DrawSeq(n)
    BY <1>0, <1>1, <2>3
  <2>4. CASE \E n \in Messages : CommitMessage(n) \/ AbortMessage(n)
    BY <1>0, <1>3, <2>4 DEF DayInv
  <2>5. CASE SweepMessages
    BY <1>0, <1>4, <2>5 DEF DayInv
  <2>6. CASE NextDay
    BY <1>0, <1>6, <2>6 DEF DayInv
  <2>7. CASE \E d \in Boxes : Join(d)
    BY <1>0, <1>5, <2>7 DEF DayInv
  <2>8. CASE UNCHANGED <<day, earlier, messages, checked>>
    BY <1>0, <1>7, <2>8
  <2>9. QED BY <2>1, <2>2, <2>3, <2>4, <2>5, <2>6, <2>7, <2>8
<1>9. CASE UNCHANGED server
  BY <1>0, <1>7, <1>9 DEF server
<1>10. QED BY <1>8, <1>9, StepKinds DEF vars

LEMMA DaySteps ==
  ASSUME TypeOK, TypeOK', SeqInv, GateInv, ReachInv, DayInv, [Next]_vars
  PROVE  DayInv'
<1> USE MessagesAssumption
<1>1. /\ Past \subseteq Past' /\ Stored \subseteq Past
      /\ \A m \in Past : messages'[m].day = messages[m].day
  BY MessageSteps DEF Stored, Past
<1>2. ASSUME NEW d \in Readers, NEW m \in earlier'[d]
      PROVE  /\ m \in Past' /\ rows'[d].status # "absent"
             /\ messages'[m].day <= rows'[d].joined
  <2>1. CASE earlier'[d] = earlier[d]
    <3>1. m \in Past /\ rows[d].status # "absent" /\ messages[m].day <= rows[d].joined
      BY <1>2, <2>1 DEF DayInv
    <3>2. rows'[d].joined = rows[d].joined /\ rows'[d].status # "absent"
      BY <3>1, RowSteps
    <3>3. QED BY <1>1, <3>1, <3>2
  <2>2. CASE earlier'[d] = Stored /\ Join(d)
    <3>1. rows[d].status = "absent" /\ rows' = [rows EXCEPT ![d] = NewRow(d, NoKey, day)]
      BY <2>2 DEF Join, add_member
    <3>2. rows'[d].status # "absent" /\ rows'[d].joined = day
      BY <3>1 DEF TypeOK, NewRow
    <3>3. m \in Past /\ messages'[m].day = messages[m].day /\ messages[m].day <= day
      BY <1>1, <1>2, <2>2 DEF DayInv, Past
    <3>4. QED BY <1>1, <3>2, <3>3
  <2>3. QED BY <2>1, <2>2, ClockSteps
<1>3. ASSUME NEW d \in Readers,
             \A m \in shown'[d] : m \in Past /\ messages[m].day >= rows[d].joined,
             \A p \in Polls : \A m \in polls'[d][p].left :
               m \in Past /\ messages[m].day >= rows[d].joined,
             rows'[d].joined = rows[d].joined
      PROVE  /\ \A m \in shown'[d] : messages'[m].day >= rows'[d].joined
             /\ \A p \in Polls : \A m \in polls'[d][p].left :
                  messages'[m].day >= rows'[d].joined
  BY <1>1, <1>3
<1>4. /\ \A d \in Readers : shown[d] \subseteq Past
      /\ \A d \in Readers, p \in Polls : polls[d][p].left \subseteq Past
  BY DEF ReachInv, Reached
<1>5. CASE UNCHANGED pages
  <2>1. ASSUME NEW d \in Readers
        PROVE  /\ \A m \in shown'[d] : messages'[m].day >= rows'[d].joined
               /\ \A p \in Polls : \A m \in polls'[d][p].left :
                    messages'[m].day >= rows'[d].joined
    <3>1. CASE rows[d].status = "absent"
      BY <1>5, <3>1 DEF pages, GateInv
    <3>2. CASE rows[d].status # "absent"
      <4>1. rows'[d].joined = rows[d].joined
        BY <3>2, RowSteps
      <4>2. QED BY <1>3, <1>4, <1>5, <4>1 DEF pages, DayInv
    <3>3. QED BY <3>1, <3>2
  <2>2. QED BY <1>2, <2>1, ClockSteps DEF DayInv
<1>6. CASE PageStep /\ UNCHANGED server
  <2> USE <1>6
  <2>1. rows' = rows /\ messages' = messages
    BY DEF server
  <2>2. PICK d \in Readers :
           \/ \E p \in Polls : PollStart(d, p) \/ PollLost(d, p) \/ PollGoesOn(d, p)
           \/ /\ last'[d] = 0 /\ shown'[d] = {}
              /\ \A p \in Polls : polls'[d][p] = Idle
              /\ \A e \in Readers \ {d} :
                   /\ last'[e] = last[e] /\ shown'[e] = shown[e]
                   /\ polls'[e] = polls[e]
    BY PageCases
  <2>3. ASSUME NEW p \in Polls, PollStart(d, p) \/ PollLost(d, p) \/ PollGoesOn(d, p)
        PROVE  DayInv'
    <3>1. /\ \A e \in Readers, q \in Polls :
               e # d \/ q # p => polls'[e][q] = polls[e][q]
          /\ \A e \in Readers \ {d} : shown'[e] = shown[e]
      BY <2>3, PollCases
    <3>2. \A m \in shown'[d] : m \in shown[d] \/ m \in polls[d][p].left
      <4>1. CASE \E n \in Messages : Shows(d, p, n)
        BY <4>1 DEF Shows
      <4>2. CASE shown'[d] = shown[d]
        BY <4>2
      <4>3. QED BY <2>3, <4>1, <4>2, PollCases
    <3>3. \A m \in polls'[d][p].left :
            m \in polls[d][p].left \/ messages[m].day >= rows[d].joined
      <4>1. CASE Ended(d, p)
        BY <4>1, IdleFields DEF Ended
      <4>2. CASE \/ Working(d, p, "asked", last[d], 0, {})
                 \/ \E j \in joined_at(d) :
                      Working(d, p, "gated", polls[d][p].since, j, {})
        BY <4>2 DEF Working
      <4>3. CASE /\ polls[d][p].step = "gated"
                 /\ Working(d, p, "showing", polls[d][p].since,
                      polls[d][p].joined, FirstOf(Visible(polls[d][p])))
        BY <4>3 DEF Working, FirstOf, Visible, GateInv
      <4>4. CASE \E m \in Messages : Shows(d, p, m)
        BY <4>4, IdleFields DEF Shows, Ended, Working
      <4>5. QED BY <2>3, <4>1, <4>2, <4>3, <4>4, PollCases
    <3>4. \A m \in shown'[d] : messages'[m].day >= rows'[d].joined
      BY <2>1, <3>2 DEF DayInv
    <3>5. ASSUME NEW q \in Polls
          PROVE  \A m \in polls'[d][q].left : messages'[m].day >= rows'[d].joined
      BY <2>1, <3>1, <3>3 DEF DayInv
    <3>6. ASSUME NEW e \in Readers \ {d}
          PROVE  /\ \A m \in shown'[e] : messages'[m].day >= rows'[e].joined
                 /\ \A q \in Polls : \A m \in polls'[e][q].left :
                      messages'[m].day >= rows'[e].joined
      BY <2>1, <3>1 DEF DayInv
    <3>7. QED BY <1>2, <3>4, <3>5, <3>6, ClockSteps DEF DayInv
  <2>4. ASSUME /\ last'[d] = 0 /\ shown'[d] = {}
               /\ \A p \in Polls : polls'[d][p] = Idle
               /\ \A e \in Readers \ {d} :
                    /\ last'[e] = last[e] /\ shown'[e] = shown[e]
                    /\ polls'[e] = polls[e]
        PROVE  DayInv'
    <3>1. ASSUME NEW e \in Readers
          PROVE  /\ \A m \in shown'[e] : messages'[m].day >= rows'[e].joined
                 /\ \A q \in Polls : \A m \in polls'[e][q].left :
                      messages'[m].day >= rows'[e].joined
      BY <2>1, <2>4, IdleFields DEF DayInv
    <3>2. QED BY <1>2, <3>1, ClockSteps DEF DayInv
  <2>5. QED BY <2>2, <2>3, <2>4
<1>7. QED BY <1>5, <1>6, StepKinds DEF vars

\* What was in the room before a device joined reaches its page only when it
\* was sent on the day of the join.
THEOREM HistoryGated == Spec => []HistoryByTheDay
<1> DEFINE Inv == SeqInv /\ GateInv /\ ReachInv /\ DayInv
<1>1. Init => Inv
  <2> SUFFICES ASSUME Init PROVE Inv
    OBVIOUS
  <2>1. Past = {} /\ Stored = {} /\ top = 0 /\ day = 0
        /\ \A m \in Messages : messages[m].step = "unused" /\ messages[m].day = 0
    BY DEF Init, Past, Stored
  <2>2. \A d \in Readers : last[d] = 0 /\ shown[d] = {} /\ earlier[d] = {}
                           /\ \A p \in Polls : polls[d][p] = Idle
    BY DEF Init
  <2>3. SeqInv /\ ReachInv
    BY <2>1, <2>2, IdleFields DEF SeqInv, ReachInv
  <2>4. DayInv
    BY <2>1, <2>2, IdleFields DEF DayInv, Init
  <2>5. QED BY <2>3, <2>4, GateInitial
<1>2. TypeOK /\ TypeOK' /\ Inv /\ [Next]_vars => Inv'
  BY MessageSteps, GateSteps, ReachSteps, DaySteps
<1>3. TypeOK /\ Inv => HistoryByTheDay
  <2> SUFFICES ASSUME TypeOK, Inv, NEW d \in Readers, NEW m \in shown[d] \cap earlier[d]
               PROVE  messages[m].day = rows[d].joined
    BY DEF HistoryByTheDay
  <2>1. messages[m].day <= rows[d].joined /\ messages[m].day >= rows[d].joined
    BY DEF DayInv
  <2>2. messages[m].day \in Int /\ rows[d].joined \in Int
    BY MessagesAssumption DEF TypeOK, Message, Row
  <2>3. QED BY <2>1, <2>2
<1>4. QED BY <1>1, <1>2, <1>3, MessagesTyped, PTL DEF Spec

=============================================================================
