--------------------------- MODULE ServerProcess ---------------------------
(***************************************************************************)
(* The life of the server's process (lib.rs run): a start settles the      *)
(* identity, and then the retention worker and the handlers run until the  *)
(* process is killed.  Composes Identity and Retention: a killed process   *)
(* takes its worker with it, and nothing is deleted or written until a     *)
(* later start has come through.                                           *)
(***************************************************************************)
EXTENDS Retention

CONSTANTS Seeds, OldSeed, NoSeed, NoFile, EmptyFile, Procs, MaxCrashes

ASSUME LifeAssumption ==
  /\ OldSeed \in Seeds
  /\ NoSeed \notin Seeds /\ NoFile \notin Seeds /\ EmptyFile \notin Seeds
  /\ NoFile # EmptyFile
  /\ MaxCrashes \in Nat

VARIABLES file, identities, origins, boot, served, crashes

Id == INSTANCE Identity

start == <<file, identities, origins, boot, served, crashes>>

lifevars == <<vars, start>>

LifeInit == Init /\ Id!IdInit

Start(p) == Id!Step(p) /\ UNCHANGED vars

\* With the server that listens its worker goes.
Kill(p) ==
  /\ Id!Crash(p)
  /\ IF Id!At(p, "up") THEN Restart ELSE UNCHANGED vars

\* Handlers and worker run while a process listens.
Work ==
  /\ Id!Up
  /\ \/ \E t \in ThreadIds : CreateThread(t)
     \/ \E r \in Rooms : CreateRoom(r) \/ SendMessage(r)
  /\ UNCHANGED start

Worker == Id!Up /\ Sweep /\ UNCHANGED start

Repair == Id!RemoveFile /\ UNCHANGED vars

Midnight == NextDay /\ UNCHANGED start

LifeNext ==
  \/ \E p \in Procs : Start(p) \/ Kill(p)
  \/ Work \/ Worker \/ Repair \/ Midnight

LifeSpec == LifeInit /\ [][LifeNext]_lifevars

\* The supervisor starts the server again, a start goes on, the operator
\* removes a file that is no key, and the worker's timer fires.
FairLife ==
  /\ LifeSpec
  /\ WF_lifevars(\E p \in Procs : Start(p))
  /\ WF_lifevars(Repair)
  /\ WF_lifevars(Worker)

-----------------------------------------------------------------------------
(* Properties.                                                             *)

\* The two types together.
LifeTypeOK == TypeOK /\ Id!IdTypeOK

\* One identity for good, whatever starts overlap or are cut off.
OneIdentity == Id!OneIdentity

\* The seed of an identity that was used is never lost.
SeedIsKept == Id!SeedIsKept

\* The seed leaves the database unless a start was killed.
SeedLeavesDatabase == Id!SeedLeavesDatabase

\* However a start was cut off, and whatever half-made file it left, some
\* later start comes through, and the server is up again.
ServerComesUp == []<>Id!Up
=============================================================================
