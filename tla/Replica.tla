------------------------------ MODULE Replica ------------------------------
(***************************************************************************)
(* What the readers of a server see of another server's posts, without     *)
(* streams, cursors or rows.  A post that is here shows its content or has *)
(* it withheld; what is withheld stays so for as long as the post is here, *)
(* and a post that was taken down never shows its content again, even if   *)
(* it expires and arrives once more.                                       *)
(***************************************************************************)
CONSTANT Post

VARIABLES
  shown,      \* the posts that are here with their content
  withheld,   \* the posts that are here without it
  told        \* the posts that were taken down

vars == <<shown, withheld, told>>

Init == shown = {} /\ withheld = {} /\ told = {}

\* A post arrives without its content if its author deleted it before.
Arrive(p) ==
  /\ p \notin shown \cup withheld
  /\ \/ p \notin told /\ shown' = shown \cup {p} /\ UNCHANGED withheld
     \/ withheld' = withheld \cup {p} /\ UNCHANGED shown
  /\ UNCHANGED told

Withhold(p) ==
  /\ p \in shown
  /\ shown' = shown \ {p}
  /\ withheld' = withheld \cup {p}
  /\ UNCHANGED told

TakeDown(p) ==
  /\ told' = told \cup {p}
  /\ shown' = shown \ {p}
  /\ withheld' = withheld \cup (shown \cap {p})

\* Any posts at once.
Expire ==
  /\ shown' \subseteq shown /\ withheld' \subseteq withheld
  /\ UNCHANGED told

Next == Expire \/ \E p \in Post : Arrive(p) \/ Withhold(p) \/ TakeDown(p)

Spec == Init /\ [][Next]_vars
=============================================================================
