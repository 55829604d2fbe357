---------------------------- MODULE RoomMessages ----------------------------
(***************************************************************************)
(* The messages of one private room, from the sender's request to the      *)
(* reader's page: send_message and list_messages_authed on the server, and *)
(* tickMessages with its cursor lastMessageSeq on the page.                *)
(*                                                                         *)
(* A message's seq comes from a BIGSERIAL: it is drawn when the INSERT     *)
(* runs and is visible when the INSERT commits, and two inserts may commit *)
(* in the other order.  A poll reads what is committed.                    *)
(*                                                                         *)
(* Pages hold a room key and messages are ciphertext (RoomKeys has the     *)
(* keys).  A browser makes one box and one signing key per room, so one    *)
(* value stands for both.                                                  *)
(***************************************************************************)
EXTENDS RoomTables, Integers, Functions

CONSTANTS
  Creator, CreatorKey,  \* the member the room starts with
  MaxSends,    \* bound: messages that draw a seq
  MaxWaiting,  \* bound: requests between the member check and the INSERT
  Readers,     \* devices that keep a page of the room open
  MaxPolls,    \* bound: the polls a page may have under way at once
  Limit,       \* messages per answer
  MessageDays, \* rooms.message_retention_days
  MaxDay,      \* bound: days the clock may advance
  MaxFaults    \* bound: lost polls and inserts, reloads, removals

VARIABLES
  rows,        \* room_members
  checked,     \* per date: requests whose sender was a member on that date
  messages,    \* room_messages, by seq: the step of the INSERT, and the date
  nextSeq,     \* the sequence behind room_messages.seq
  day,         \* today_utc()
  polls,       \* per reader and poll: its state
  last,        \* per reader: lastMessageSeq, 0 when undefined
  shown,       \* per reader: the messages on the page
  twice,       \* per reader: a message is on the page more than once
  overlapped,  \* history: the page has had two polls under way at once
  top,         \* history: the greatest seq ever committed
  late,        \* history: messages committed after one with a greater seq
  earlier,     \* history, per reader: the messages stored before he joined
  faults       \* faults so far

server == <<rows, checked, messages, nextSeq, day, top, late, earlier>>
pages  == <<polls, last, shown, twice, overlapped>>
vars   == <<server, pages, faults>>

ASSUME MessagesAssumption ==
  /\ Sigs = Boxes
  /\ Creator \in Boxes /\ CreatorKey \in Keys
  /\ MaxSends \in Nat /\ MaxWaiting \in Nat /\ MaxPolls \in Nat
  /\ Readers \subseteq Boxes
  /\ Limit \in Nat \ {0}
  /\ MessageDays \in Nat /\ MaxDay \in Nat /\ MaxFaults \in Nat

Messages == 1..MaxSends

Polls == 1..MaxPolls

Message == [step : {"unused", "drawn", "stored", "gone"}, day : Nat]

Poll == [step : {"idle", "asked", "gated", "showing"}, since : Nat,
         joined : Nat, left : SUBSET Messages]

PollAt(step, since, joined, left) ==
  [step |-> step, since |-> since, joined |-> joined, left |-> left]

Idle == PollAt("idle", 0, 0, {})

Init ==
  /\ rows = [b \in Boxes |-> IF b = Creator
                               THEN NewRow(Creator, CreatorKey, 0) ELSE NoRow]
  /\ checked = [n \in 0..MaxDay |-> 0]
  /\ messages = [m \in Messages |-> [step |-> "unused", day |-> 0]]
  /\ nextSeq = 1 /\ day = 0
  /\ polls = [d \in Readers |-> [p \in Polls |-> Idle]]
  /\ last = [d \in Readers |-> 0]
  /\ shown = [d \in Readers |-> {}] /\ twice = [d \in Readers |-> FALSE]
  /\ overlapped = [d \in Readers |-> FALSE]
  /\ top = 0 /\ late = {} /\ earlier = [d \in Readers |-> {}]
  /\ faults = 0

Fault == faults < MaxFaults /\ faults' = faults + 1

\* Requests between the member check and the INSERT.
Waiting == SumFunction(checked)

Stored == {m \in Messages : messages[m].step = "stored"}

-----------------------------------------------------------------------------
(* send_message                                                            *)

\* The member check, and the date taken when it has passed.  A refusal
\* changes nothing.
CheckSender(d) ==
  /\ is_member(rows, d)
  /\ nextSeq + Waiting <= MaxSends /\ Waiting < MaxWaiting
  /\ checked' = [checked EXCEPT ![day] = @ + 1]
  /\ UNCHANGED <<rows, messages, nextSeq, day, top, late, earlier, pages, faults>>

\* The INSERT of a request checked on date n draws the next seq.
DrawSeq(n) ==
  /\ checked[n] > 0
  /\ checked' = [checked EXCEPT ![n] = @ - 1]
  /\ messages' = [messages EXCEPT ![nextSeq] = [step |-> "drawn", day |-> n]]
  /\ nextSeq' = nextSeq + 1
  /\ UNCHANGED <<rows, day, top, late, earlier, pages, faults>>

CommitMessage(m) ==
  /\ messages[m].step = "drawn"
  /\ messages' = [messages EXCEPT ![m] = [@ EXCEPT !.step = "stored"]]
  /\ top' = IF m > top THEN m ELSE top
  /\ late' = IF m < top THEN late \cup {m} ELSE late
  /\ UNCHANGED <<rows, checked, nextSeq, day, earlier, pages, faults>>

\* The server stops, or loses the database: a seq drawn is not drawn again.
AbortMessage(m) ==
  /\ messages[m].step = "drawn"
  /\ Fault
  /\ messages' = [messages EXCEPT ![m] = [@ EXCEPT !.step = "gone"]]
  /\ UNCHANGED <<rows, checked, nextSeq, day, top, late, earlier, pages>>

-----------------------------------------------------------------------------
(* list_messages_authed                                                    *)

\* joined_at_for_sig_member
joined_at(sig) == {rows[b].joined : b \in RowsOfSig(rows, sig)}

SetPoll(d, p, poll) == [polls EXCEPT ![d] = [@ EXCEPT ![p] = poll]]

PollGate(d, p) ==
  /\ polls[d][p].step = "asked"
  /\ \E j \in joined_at(d) :
       polls' = SetPoll(d, p, PollAt("gated", polls[d][p].since, j, {}))
  /\ UNCHANGED <<server, last, shown, twice, overlapped, faults>>

PollRefused(d, p) ==
  /\ polls[d][p].step = "asked"
  /\ joined_at(d) = {}
  /\ polls' = SetPoll(d, p, Idle)
  /\ UNCHANGED <<server, last, shown, twice, overlapped, faults>>

\* Variant: without the history gate.
AfterCursor(poll) == {m \in Stored : m > poll.since}

\* Variant: the gate leaves out the day of the join.
AfterJoinDay(poll) ==
  {m \in Stored : messages[m].day > poll.joined /\ m > poll.since}

\* The WHERE clause: the history gate and the cursor.
Visible(poll) ==
  {m \in Stored : messages[m].day >= poll.joined /\ m > poll.since}

\* Variant: the newest Limit messages.
NewestOf(ms) ==
  {m \in ms : Cardinality({k \in ms : k > m}) < Limit}

\* ORDER BY seq ASC LIMIT.
FirstOf(ms) ==
  {m \in ms : Cardinality({k \in ms : k < m}) < Limit}

PollSelect(d, p) ==
  LET poll == polls[d][p]
      list == FirstOf(Visible(poll))
  IN
  /\ poll.step = "gated"
  /\ polls' = SetPoll(d, p, IF list = {} THEN Idle
                ELSE PollAt("showing", poll.since, poll.joined, list))
  /\ UNCHANGED <<server, last, shown, twice, overlapped, faults>>

-----------------------------------------------------------------------------
(* tickMessages                                                            *)

Busy(d) == {p \in Polls : polls[d][p].step # "idle"}

\* Started every 3 seconds and after every send, whatever is under way.
PollStart(d, p) ==
  /\ rows[d].status # "absent"
  /\ polls[d][p].step = "idle"
  /\ \A q \in 1..p - 1 : polls[d][q].step # "idle"
  /\ polls' = SetPoll(d, p, PollAt("asked", last[d], 0, {}))
  /\ overlapped' = [overlapped EXCEPT ![d] = @ \/ Busy(d) # {}]
  /\ UNCHANGED <<server, last, shown, twice, faults>>

\* The request fails on its way, or is refused because another poll has used
\* this second's nonce tuple.
PollLost(d, p) ==
  /\ polls[d][p].step \in {"asked", "gated"}
  /\ Fault
  /\ polls' = SetPoll(d, p, Idle)
  /\ UNCHANGED <<server, last, shown, twice, overlapped>>

\* Variant: the cursor is not moved.
CursorKept(d, m) == last[d]

CursorAfter(d, m) == m

\* One message of the answer, rendered and the cursor set to it; other polls
\* run between two messages.
ShowMessage(d, p) ==
  LET poll == polls[d][p] IN
  \E m \in poll.left :
    /\ poll.step = "showing"
    /\ \A k \in poll.left : m <= k
    /\ shown' = [shown EXCEPT ![d] = @ \cup {m}]
    /\ twice' = [twice EXCEPT ![d] = @ \/ m \in shown[d]]
    /\ last' = [last EXCEPT ![d] = CursorAfter(d, m)]
    /\ polls' = SetPoll(d, p, IF poll.left = {m} THEN Idle
                  ELSE PollAt("showing", poll.since, poll.joined, poll.left \ {m}))
    /\ UNCHANGED <<server, overlapped, faults>>

Reload(d) ==
  /\ Fault
  /\ polls' = [polls EXCEPT ![d] = [p \in Polls |-> Idle]]
  /\ last' = [last EXCEPT ![d] = 0]
  /\ shown' = [shown EXCEPT ![d] = {}]
  /\ twice' = [twice EXCEPT ![d] = FALSE]
  /\ overlapped' = [overlapped EXCEPT ![d] = FALSE]
  /\ UNCHANGED server

-----------------------------------------------------------------------------
(* What goes on around.                                                    *)

Join(d) ==
  /\ rows[d].status = "absent"
  /\ rows' = add_member(rows, d, d, day)
  /\ earlier' = [earlier EXCEPT ![d] = Stored]
  /\ UNCHANGED <<checked, messages, nextSeq, day, top, late, pages, faults>>

\* He leaves, or the creator removes him.
Remove(d) ==
  /\ is_member(rows, d)
  /\ Fault
  /\ rows' = soft_remove_by_sig(rows, d)
  /\ UNCHANGED <<checked, messages, nextSeq, day, top, late, earlier, pages>>

SweepMessages ==
  LET old == {m \in Stored : messages[m].day + MessageDays < day} IN
  /\ old # {}
  /\ messages' = [m \in Messages |->
       IF m \in old THEN [messages[m] EXCEPT !.step = "gone"] ELSE messages[m]]
  /\ UNCHANGED <<rows, checked, nextSeq, day, top, late, earlier, pages, faults>>

NextDay ==
  /\ day < MaxDay
  /\ day' = day + 1
  /\ UNCHANGED <<rows, checked, messages, nextSeq, top, late, earlier, pages, faults>>

-----------------------------------------------------------------------------
Send == \/ \E d \in Boxes : CheckSender(d)
        \/ \E n \in 0..MaxDay : DrawSeq(n)
        \/ \E m \in Messages : CommitMessage(m) \/ AbortMessage(m)

PollGoesOn(d, p) == \/ PollGate(d, p) \/ PollRefused(d, p) \/ PollSelect(d, p)
                    \/ ShowMessage(d, p)

Next ==
  \/ Send
  \/ \E d \in Readers : \/ \E p \in Polls : \/ PollStart(d, p) \/ PollLost(d, p)
                                           \/ PollGoesOn(d, p)
                        \/ Reload(d)
  \/ \E d \in Boxes : Join(d) \/ Remove(d)
  \/ SweepMessages \/ NextDay

Spec == Init /\ [][Next]_vars

\* The page's timer fires and a poll, once started, is answered and its answer
\* worked through.
FairSpec ==
  /\ Spec
  /\ \A d \in Readers :
       /\ WF_vars(\E p \in Polls : PollStart(d, p))
       /\ \A p \in Polls : WF_vars(PollGoesOn(d, p))

-----------------------------------------------------------------------------
(* Properties.                                                             *)

TypeOK ==
  /\ rows \in [Boxes -> Row]
  /\ messages \in [Messages -> Message]
  /\ checked \in [0..MaxDay -> Nat]
  /\ nextSeq \in Nat \ {0} /\ day \in 0..MaxDay
  /\ polls \in [Readers -> [Polls -> Poll]]
  /\ last \in [Readers -> Nat]
  /\ shown \in [Readers -> SUBSET Messages]
  /\ twice \in [Readers -> BOOLEAN]
  /\ overlapped \in [Readers -> BOOLEAN]
  /\ top \in Nat /\ late \subseteq Messages
  /\ earlier \in [Readers -> SUBSET Messages]
  /\ faults \in 0..MaxFaults

\* The cursor never passes a message the page has not shown, unless that
\* message was committed after one with a greater seq: polls that overlap,
\* answers cut at the limit and a cursor that moves back lose nothing else.
OnlyLateOnesAreMissed ==
  \A d \in Readers : \A m \in Stored \ late :
    m <= last[d] /\ messages[m].day >= rows[d].joined
      => m \in shown[d]

\* A page shows a message twice only if two of its polls were under way at
\* once; the cursor alone keeps successive polls apart.
TwiceOnlyByOverlap ==
  \A d \in Readers : twice[d] => overlapped[d]

\* What was in the room before a device joined reaches its page only when it
\* was sent on the day of the join, though dates are taken before the insert
\* and polls outlive a removal.
HistoryByTheDay ==
  \A d \in Readers : \A m \in shown[d] \cap earlier[d] :
    messages[m].day = rows[d].joined

\* The messages a member's page should have by now.
Due(d) == {m \in Stored \ late : messages[m].day >= rows[d].joined}

\* A member's page that stays open gets all messages that are not committed
\* late, whatever polls were lost or overlapped, unless he is removed first.
MessagesArrive ==
  \A d \in Readers :
    is_member(rows, d) /\ ~ (Due(d) \subseteq shown[d])
      ~> ~ is_member(rows, d) \/ Due(d) \subseteq shown[d]
=============================================================================
