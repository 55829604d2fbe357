--------------------------- MODULE MCPublicBoard ---------------------------
(***************************************************************************)
(* Workloads for PublicBoard.  Post ids are numbers in minting order, so a *)
(* request can name a post that is not there yet, is there, or is gone.    *)
(***************************************************************************)
EXTENDS PublicBoard

CONSTANTS t1, x, y, s1, m1, m2, w1, w2

Thread(t, m, k, d) ==
  [op |-> "thread", thread |-> t, body |-> m, key |-> k, lifetime |-> d]
Post(t, m, k) == [op |-> "post", thread |-> t, body |-> m, key |-> k]
List(t) == [op |-> "list", thread |-> t]
Room(t, k, i) ==
  [op |-> "room", thread |-> t, key |-> k, invited |-> i, sig |-> s1, ts |-> 1]
Delete(p, k) == [op |-> "delete", post |-> p, key |-> k, ts |-> 1]
Report(p) == [op |-> "report", post |-> p]

\* Replies, deletes by two keys, a listing, a report and a room around a thread
\* that expires.
BoardWorkload ==
  {Thread(t1, m1, x, 1), Post(t1, m2, y),
   Delete(0, x), Delete(1, x), List(t1), Room(t1, x, y), Report(1)}
=============================================================================
