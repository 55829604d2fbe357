----------------------------- MODULE Retention -----------------------------
(***************************************************************************)
(* The hourly retention worker.  One sweep is three DELETE statements, one *)
(* after the other and each committed by itself: due threads, old room     *)
(* messages, old replay tuples.  The first statement that fails ends the   *)
(* sweep.  The worker then sleeps until the next hour.                     *)
(*                                                                         *)
(* The handlers that write threads, rooms and messages meanwhile are given *)
(* by what they insert; PublicBoard and RoomServer have their details.     *)
(***************************************************************************)
EXTENDS BoardTables

CONSTANTS
  Rooms,       \* private rooms
  NoOrigin,    \* SQL NULL in rooms.origin_thread
  Lifetimes,   \* the lifetimes authors choose
  MessageDays, \* rooms.message_retention_days
  TupleDays,   \* the pruning age of replay tuples, rounded up to days
  MaxDay       \* bound: days the clock may advance

ASSUME RetentionAssumption ==
  /\ NoOrigin \notin ThreadIds
  /\ Lifetimes \subseteq (Nat \ {0}) \cup {Never}
  /\ MessageDays \in Nat /\ TupleDays \in Nat /\ MaxDay \in Nat

VARIABLES
  threads,   \* threads
  rooms,     \* rooms and their origin_thread
  messages,  \* room_messages: the room and the day of each
  tuples,    \* request_nonces: the day each was seen
  day,       \* current_date
  step       \* the worker's next statement

vars == <<threads, rooms, messages, tuples, day, step>>

Init ==
  /\ threads = [t \in ThreadIds |-> NoThread]
  /\ rooms = {} /\ messages = {} /\ tuples = {}
  /\ day = 0
  /\ step = "asleep"

-----------------------------------------------------------------------------
CreateThread(t) ==
  /\ ~Exists(threads, t)
  /\ \E d \in Lifetimes :
       threads' = [threads EXCEPT ![t] =
         [there |-> TRUE, created |-> day, count |-> 0,
          expires |-> IF d = Never THEN Never ELSE day + d]]
  /\ UNCHANGED <<rooms, messages, tuples, day, step>>

CreateRoom(r) ==
  /\ \A s \in rooms : s.room # r
  /\ \E o \in {t \in ThreadIds : Exists(threads, t)} \cup {NoOrigin} :
       rooms' = rooms \cup {[room |-> r, origin |-> o]}
  /\ UNCHANGED <<threads, messages, tuples, day, step>>

\* A message, with the replay tuple of the listing that fetches it.
SendMessage(r) ==
  /\ \E s \in rooms : s.room = r
  /\ messages' = messages \cup {[room |-> r, day |-> day]}
  /\ tuples' = tuples \cup {day}
  /\ UNCHANGED <<threads, rooms, day, step>>

NextDay ==
  /\ day < MaxDay
  /\ day' = day + 1
  /\ UNCHANGED <<threads, rooms, messages, tuples, step>>

-----------------------------------------------------------------------------
(* spawn_retention_worker and run_once                                     *)

Wake ==
  /\ step = "asleep"
  /\ step' = "threads"
  /\ UNCHANGED <<threads, rooms, messages, tuples, day>>

\* A room's reference to a due thread makes the statement fail.
SweepThreads ==
  LET ts == DueThreads(threads, day) IN
  /\ step = "threads"
  /\ IF Pinned(rooms, ts)
       THEN UNCHANGED threads /\ step' = "asleep"
       ELSE threads' = DeleteThreads(threads, ts) /\ step' = "messages"
  /\ UNCHANGED <<rooms, messages, tuples, day>>

Old(m) == m.day + MessageDays < day

\* Variant: messages of rooms that came from a thread only.
SweepThreadMessages ==
  /\ step = "messages"
  /\ messages' = {m \in messages :
       ~(Old(m) /\ \E r \in rooms : r.room = m.room /\ r.origin # NoOrigin)}
  /\ step' = "tuples"
  /\ UNCHANGED <<threads, rooms, tuples, day>>

SweepMessages ==
  /\ step = "messages"
  /\ messages' = {m \in messages : ~Old(m)}
  /\ step' = "tuples"
  /\ UNCHANGED <<threads, rooms, tuples, day>>

SweepTuples ==
  /\ step = "tuples"
  /\ tuples' = {d \in tuples : d + TupleDays >= day}
  /\ step' = "asleep"
  /\ UNCHANGED <<threads, rooms, messages, day>>

\* The server stops and starts: the worker sleeps an interval first.
Restart ==
  /\ step' = "asleep"
  /\ UNCHANGED <<threads, rooms, messages, tuples, day>>

Sweep == Wake \/ SweepThreads \/ SweepMessages \/ SweepTuples

Next ==
  \/ \E t \in ThreadIds : CreateThread(t)
  \/ \E r \in Rooms : CreateRoom(r) \/ SendMessage(r)
  \/ NextDay \/ Sweep \/ Restart

Spec == Init /\ [][Next]_vars

-----------------------------------------------------------------------------
(* Properties.                                                             *)

\* Types.
TypeOK ==
  /\ threads \in [ThreadIds -> ThreadRow]
  /\ rooms \subseteq [room : Rooms, origin : ThreadIds \cup {NoOrigin}]
  /\ messages \subseteq [room : Rooms, day : Nat]
  /\ tuples \subseteq Nat
  /\ day \in 0..MaxDay
  /\ step \in {"asleep", "threads", "messages", "tuples"}

DuePinned == Pinned(rooms, DueThreads(threads, day))

\* Ciphertext goes: a message past its room's retention is deleted in spite
\* of restarts, unless a room keeps a due thread from being deleted.
OldMessagesGoUnlessPinned ==
  \A r \in Rooms, d \in 0..MaxDay :
    LET m == [room |-> r, day |-> d] IN
    m \in messages /\ Old(m) ~> m \notin messages \/ DuePinned
=============================================================================
