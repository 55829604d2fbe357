----------------------------- MODULE RoomTables -----------------------------
(***************************************************************************)
(* The `room_members` table of one room and the statements db/rooms.rs     *)
(* runs against it.  Every operator here is ONE SQL statement: it is       *)
(* evaluated on the rows committed at that moment and, when it writes, it  *)
(* writes them at that moment.  The handlers in RoomServer are sequences   *)
(* of these statements with other handlers' statements in between.         *)
(*                                                                         *)
(* A row is keyed by the member's box key (the table's primary key).       *)
(* Key material is opaque: a wrapped key is represented by the room key    *)
(* that was wrapped.                                                       *)
(***************************************************************************)
EXTENDS Naturals, FiniteSets

CONSTANTS
  Boxes,   \* box (encryption) public keys, one per device that may join
  Sigs,    \* signing public keys
  Keys,    \* symmetric room keys
  NoBox,   \* SQL NULL in invited_by_box_pubkey
  NoSig,   \* the signing key of a row that does not exist
  NoKey    \* SQL NULL in wrapped_key

ASSUME NullAssumption ==
  /\ NoBox \notin Boxes
  /\ NoSig \notin Sigs
  /\ NoKey \notin Keys

Row == [status  : {"absent", "active", "removed"},  \* removed_at IS NULL or not
        sig     : Sigs \cup {NoSig},
        wrap    : Keys \cup {NoKey},
        joined  : Nat,                              \* joined_at, a date
        inviter : Boxes \cup {NoBox}]

NoRow == [status |-> "absent", sig |-> NoSig, wrap |-> NoKey,
          joined |-> 0, inviter |-> NoBox]

NewRow(sig, wrap, day) ==
  [status |-> "active", sig |-> sig, wrap |-> wrap,
   joined |-> day, inviter |-> NoBox]

-----------------------------------------------------------------------------
(* Reads.                                                                  *)

Active(rows)   == {b \in Boxes : rows[b].status = "active"}
Removed(rows)  == {b \in Boxes : rows[b].status = "removed"}
Accepted(rows) == {b \in Active(rows) : rows[b].wrap # NoKey}
Pending(rows)  == {b \in Active(rows) : rows[b].wrap = NoKey}

active_member_count(rows) == Cardinality(Active(rows))

is_member(rows, sig) == \E b \in Active(rows) : rows[b].sig = sig

is_member_by_box(rows, box) == box \in Active(rows)

is_active_member_pair(rows, sig, box) ==
  box \in Active(rows) /\ rows[box].sig = sig

is_creator_by_sig(rows, sig) ==
  \E b \in Active(rows) : rows[b].sig = sig /\ rows[b].inviter = NoBox

NoInviterRows(rows) ==
  {b \in Boxes : rows[b].status # "absent" /\ rows[b].inviter = NoBox}

\* Variant: the SELECT without its ORDER BY.
AnyNoInviterSig(rows) == {rows[b].sig : b \in NoInviterRows(rows)}

\* ORDER BY joined_at LIMIT 1 over a date column: rows that tie on the first
\* date may come in any order, so the answer is one of a set.
creator_sig_pubkey(rows) ==
  {rows[b].sig : b \in {c \in NoInviterRows(rows) :
     \A d \in NoInviterRows(rows) : rows[c].joined <= rows[d].joined}}

\* Variant: the live set without `wrapped_key IS NOT NULL`.
RingIsActive(rows, ring) == ring = {rows[b].sig : b \in Active(rows)}

\* The SELECT has no DISTINCT; a strictly sorted ring can equal its answer
\* only when the accepted members' signing keys are distinct.
RingIsLive(rows, ring) ==
  /\ ring = {rows[b].sig : b \in Accepted(rows)}
  /\ \A b, c \in Accepted(rows) : rows[b].sig = rows[c].sig => b = c

\* The stage of membership a row stands for (see Membership).
Stage(rows, b) == CASE rows[b].status = "absent"  -> "stranger"
                    [] rows[b].status = "removed" -> "removed"
                    [] b \in Pending(rows)        -> "pending"
                    [] OTHER                      -> "accepted"

-----------------------------------------------------------------------------
(* Writes.                                                                 *)

\* Variant: ON CONFLICT DO UPDATE.
AddOrReactivate(rows, box, sig, day) ==
  [rows EXCEPT ![box] = NewRow(sig, NoKey, day)]

\* INSERT ... ON CONFLICT (room_id, member_box_pubkey) DO NOTHING
add_member(rows, box, sig, day) ==
  IF rows[box].status = "absent"
    THEN [rows EXCEPT ![box] = NewRow(sig, NoKey, day)]
    ELSE rows

\* The rows a leave flips; the statement reports success iff there is one.
RowsOfSig(rows, sig) == {b \in Active(rows) : rows[b].sig = sig}

soft_remove_by_sig(rows, sig) ==
  [b \in Boxes |-> IF b \in RowsOfSig(rows, sig)
                     THEN [rows[b] EXCEPT !.status = "removed"]
                     ELSE rows[b]]

\* Variant: the grant without `wrapped_key IS NULL`.
Listed(rows, box) == rows[box].status # "absent"

\* The WHERE clause of the grant.  It does not look at the recipient's
\* removed_at.  Only its first part is about the row that is written, and only
\* that part is evaluated again if the row has to be waited for.
Ungranted(rows, box) == rows[box].status # "absent" /\ rows[box].wrap = NoKey

GrantMatches(rows, box, inviter) ==
  Ungranted(rows, box) /\ inviter \in Active(rows)

grant_wrap(rows, box, key, inviter) ==
  [rows EXCEPT ![box].wrap = key, ![box].inviter = inviter]

\* The survivors check of remove_and_rekey, made after the target is
\* soft-removed: the list must be as long as the set of survivors and name
\* only survivors.  `count` is the length of the list, `covers` its members.
WrapsAccepted(rows, target, covers, count) ==
  /\ Cardinality(Active(rows) \ {target}) = count
  /\ covers \subseteq Active(rows) \ {target}

\* Variant: the wraps written without `removed_at IS NULL`.
RekeyListed(rows, target, covers, key) ==
  [b \in Boxes |->
     IF b = target THEN [rows[b] EXCEPT !.status = "removed"]
     ELSE IF b \in covers THEN [rows[b] EXCEPT !.wrap = key]
     ELSE rows[b]]

remove_and_rekey(rows, target, covers, key) ==
  [b \in Boxes |->
     IF b = target THEN [rows[b] EXCEPT !.status = "removed"]
     ELSE IF b \in covers /\ b \in Active(rows)
       THEN [rows[b] EXCEPT !.wrap = key]
     ELSE rows[b]]
=============================================================================
