---------------------------- MODULE MCRoomServer ----------------------------
(***************************************************************************)
(* Workloads for RoomServer.  Each device has the one signing key its      *)
(* browser generated; c holds the room's creator row.  A request may be    *)
(* submitted any number of times, which is also how a retry or a duplicate *)
(* delivery looks to the server.                                           *)
(***************************************************************************)
EXTENDS RoomServer

CONSTANTS c, a, b, d, sc, sa, sb, sd, k1, k2, w1, w2

SigOf == [x \in {c, a, b, d} |->
            CASE x = c -> sc [] x = a -> sa [] x = b -> sb [] x = d -> sd]

Join(x)  == [op |-> "join", box |-> x, sig |-> SigOf[x]]
Leave(x) == [op |-> "leave", sig |-> SigOf[x], ts |-> 1]
Wrap(x, y, k) == [op |-> "wrap", sig |-> SigOf[x], by |-> x, target |-> y,
                  key |-> k, ts |-> 1]
RemoveListing(x, y, covers, count) ==
  [op |-> "remove", sig |-> SigOf[x], target |-> y, covers |-> covers,
   count |-> count, key |-> k2, ts |-> 1]
Remove(x, y, covers) == RemoveListing(x, y, covers, Cardinality(covers))
Roster(x, ring, epoch) ==
  [op |-> "roster", sig |-> SigOf[x], ring |-> ring, epoch |-> epoch]

\* Joins, grants and leaves around removals, among them two rekeys that remove
\* each other's caller, two that remove the same member, and a list that names
\* one survivor twice.
MembershipWorkload ==
  {Join(a), Join(b), Leave(a), Leave(b), Wrap(c, a, k1), Wrap(a, b, k1),
   Remove(c, a, {c}), Remove(c, a, {b, c}), Remove(b, a, {b, c}),
   Remove(a, c, {a, b}), RemoveListing(c, a, {c}, 2)}

\* Two publishers, rings that were or were not the live set, membership changing
\* meanwhile, and more devices than the cap admits.
RosterWorkload ==
  {Join(a), Join(b), Join(d), Leave(a), Wrap(c, a, k1), Wrap(c, b, k1),
   Roster(c, {sc}, 1), Roster(c, {sc, sa}, 1), Roster(c, {sc, sa, sb}, 2),
   Roster(a, {sc, sa}, 1), Roster(a, {sc, sa}, 2), Roster(b, {sc, sa, sb}, 2)}

\* A few requests that contend for the same rows, for the liveness run.
ContentionWorkload ==
  {Join(a), Join(b), Leave(a), Wrap(c, b, k1),
   Remove(c, a, {b, c}), Remove(a, c, {a, b})}
=============================================================================
