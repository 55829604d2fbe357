------------------------------ MODULE Identity ------------------------------
(***************************************************************************)
(* The start of the server up to the point where it listens: the identity  *)
(* is read from the key file, moved there from the database of an older    *)
(* release, or generated (federation/identity.rs load_or_create), and the  *)
(* rows of that release are stamped with it.                               *)
(*                                                                         *)
(* A start is a sequence of statements; starts overlap and may be cut off  *)
(* anywhere, and what they wrote stays.  A seed stands for its public key. *)
(* Failures of the disk and the loss of written data are left out.         *)
(***************************************************************************)
EXTENDS Naturals

CONSTANTS
  Seeds,       \* Ed25519 seeds
  OldSeed,     \* the seed of an installation that is not new
  NoSeed,      \* SQL NULL in origin_server_id, and a start without a seed
  NoFile,      \* there is no key file
  EmptyFile,   \* the key file has been created and not yet written
  Procs,       \* bound: server processes at once
  MaxCrashes   \* bound: processes that are killed

VARIABLES
  file,        \* the key file
  identities,  \* instance_identity: which public keys, with or without seed
  origins,     \* origin_server_id of the older release's threads and posts
  boot,        \* each process: its next statement and its seed
  served,      \* history: the identities under which a server has listened
  crashes      \* processes killed so far

idvars == <<file, identities, origins, boot, served, crashes>>

Steps == {"down", "load", "refused", "legacy", "create", "write", "record",
          "threads", "posts", "listen", "up"}

Down == [step |-> "down", seed |-> NoSeed, migrates |-> FALSE]

\* A new installation, one of the older release, and one of this release.
IdInit ==
  /\ origins = [threads |-> NoSeed, posts |-> NoSeed]
  /\ boot = [p \in Procs |-> Down]
  /\ crashes = 0
  /\ \/ /\ file = NoFile /\ served = {}
        /\ identities = [s \in Seeds |-> "absent"]
     \/ /\ file = NoFile /\ served = {OldSeed}
        /\ identities = [s \in Seeds |-> IF s = OldSeed THEN "seed" ELSE "absent"]
     \/ /\ file = OldSeed /\ served = {OldSeed}
        /\ identities = [s \in Seeds |-> IF s = OldSeed THEN "public" ELSE "absent"]

Published == {s \in Seeds : identities[s] # "absent"}

\* Every identity that somebody may have seen.
Used == served \cup Published \cup ({origins.threads, origins.posts} \ {NoSeed})

At(p, step) == boot[p].step = step

Goto(p, step) == boot' = [boot EXCEPT ![p].step = step]

\* Every exit of a process: what it knew is gone.
Ends(p) == boot' = [boot EXCEPT ![p] = Down]

-----------------------------------------------------------------------------
(* load_or_create                                                          *)

\* key_path.exists().  A start that was refused for the file's length is
\* repeated, with the same outcome, until the file is another.
Boot(p) ==
  /\ At(p, "down") \/ (At(p, "refused") /\ file # EmptyFile)
  /\ boot' = [boot EXCEPT ![p] =
       [Down EXCEPT !.step = IF file # NoFile THEN "load" ELSE "legacy"]]
  /\ UNCHANGED <<file, identities, origins, served, crashes>>

\* Variant: a seed in the file and in the database is taken for an error.
ReadableAlone == file \in Seeds /\ identities[file] # "seed"

Readable == file \in Seeds

LoadFile(p) ==
  /\ At(p, "load")
  /\ \/ /\ Readable
        /\ boot' = [boot EXCEPT ![p].step = "threads", ![p].seed = file]
     \/ /\ ~Readable
        /\ Goto(p, "refused")
  /\ UNCHANGED <<file, identities, origins, served, crashes>>

\* Variant: the seed is cleared as it is read.
TakeLegacy(p) ==
  /\ At(p, "legacy")
  /\ \E s \in Published :
       /\ identities[s] = "seed"
       /\ boot' = [boot EXCEPT ![p] =
            [step |-> "create", seed |-> s, migrates |-> TRUE]]
       /\ identities' = [identities EXCEPT ![s] = "public"]
  /\ UNCHANGED <<file, origins, served, crashes>>

\* SELECT server_privkey ... LIMIT 1: any row.
ReadLegacy(p) ==
  /\ At(p, "legacy")
  /\ \E s \in Published :
       /\ identities[s] = "seed"
       /\ boot' = [boot EXCEPT ![p] =
            [step |-> "create", seed |-> s, migrates |-> TRUE]]
  /\ UNCHANGED <<file, identities, origins, served, crashes>>

\* No row, or one without a seed: 32 random bytes, never drawn before.
Generate(p) ==
  /\ At(p, "legacy")
  /\ Published = {} \/ \E s \in Published : identities[s] # "seed"
  /\ \E s \in Seeds :
       /\ s \notin Published \cup served \cup {file, origins.threads, origins.posts}
       /\ \A q \in Procs : boot[q].seed # s
       /\ boot' = [boot EXCEPT ![p] =
            [step |-> "create", seed |-> s, migrates |-> FALSE]]
  /\ UNCHANGED <<file, identities, origins, served, crashes>>

\* Variant: a file that exists is overwritten.
Creatable == file \in Seeds \cup {NoFile, EmptyFile}

\* create_new(true).
Absent == file = NoFile

CreateFile(p) ==
  /\ At(p, "create")
  /\ Absent
  /\ file' = EmptyFile
  /\ Goto(p, "write")
  /\ UNCHANGED <<identities, origins, served, crashes>>

FileExists(p) ==
  /\ At(p, "create")
  /\ ~Absent
  /\ Ends(p)
  /\ UNCHANGED <<file, identities, origins, served, crashes>>

WriteFile(p) ==
  /\ At(p, "write")
  /\ file' = boot[p].seed
  /\ Goto(p, "record")
  /\ UNCHANGED <<identities, origins, served, crashes>>

\* Variant: the seed is not cleared.
KeepLegacy(p) ==
  /\ At(p, "record") /\ boot[p].migrates
  /\ Goto(p, "threads")
  /\ UNCHANGED <<file, identities, origins, served, crashes>>

\* clear_legacy_seed: an UPDATE of every row.
ClearLegacy(p) ==
  /\ At(p, "record") /\ boot[p].migrates
  /\ identities' = [s \in Seeds |->
       IF identities[s] = "seed" THEN "public" ELSE identities[s]]
  /\ Goto(p, "threads")
  /\ UNCHANGED <<file, origins, served, crashes>>

\* INSERT ... ON CONFLICT DO NOTHING.
RecordPubkey(p) ==
  /\ At(p, "record") /\ ~boot[p].migrates
  /\ identities' = [identities EXCEPT ![boot[p].seed] =
       IF @ = "absent" THEN "public" ELSE @]
  /\ Goto(p, "threads")
  /\ UNCHANGED <<file, origins, served, crashes>>

\* WHERE origin_server_id IS NULL, in both statements.
Stamp(kind, s) ==
  origins' = [origins EXCEPT ![kind] = IF @ = NoSeed THEN s ELSE @]

StampThreads(p) ==
  /\ At(p, "threads")
  /\ Stamp("threads", boot[p].seed)
  /\ Goto(p, "posts")
  /\ UNCHANGED <<file, identities, served, crashes>>

StampPosts(p) ==
  /\ At(p, "posts")
  /\ Stamp("posts", boot[p].seed)
  /\ Goto(p, "listen")
  /\ UNCHANGED <<file, identities, served, crashes>>

-----------------------------------------------------------------------------
(* run, stops, and the operator.                                           *)

Up == \E p \in Procs : At(p, "up")

\* The address can be bound once.
Listen(p) ==
  /\ At(p, "listen")
  /\ ~Up
  /\ Goto(p, "up")
  /\ served' = served \cup {boot[p].seed}
  /\ UNCHANGED <<file, identities, origins, crashes>>

AddressInUse(p) ==
  /\ At(p, "listen")
  /\ Up
  /\ Ends(p)
  /\ UNCHANGED <<file, identities, origins, served, crashes>>

Crash(p) ==
  /\ boot[p].step \notin {"down", "refused"}
  /\ crashes < MaxCrashes /\ crashes' = crashes + 1
  /\ Ends(p)
  /\ UNCHANGED <<file, identities, origins, served>>

\* The operator, told that the file has not 32 bytes, removes it.
RemoveFile ==
  /\ \A p \in Procs : At(p, "down") \/ At(p, "refused")
  /\ \E p \in Procs : At(p, "refused")
  /\ file = EmptyFile
  /\ file' = NoFile
  /\ UNCHANGED <<identities, origins, boot, served, crashes>>

Step(p) ==
  \/ Boot(p) \/ LoadFile(p) \/ ReadLegacy(p) \/ Generate(p)
  \/ CreateFile(p) \/ FileExists(p) \/ WriteFile(p)
  \/ ClearLegacy(p) \/ RecordPubkey(p)
  \/ StampThreads(p) \/ StampPosts(p)
  \/ Listen(p) \/ AddressInUse(p)

-----------------------------------------------------------------------------
(* Properties.                                                             *)

\* Every variable holds values of its kind.
IdTypeOK ==
  /\ file \in Seeds \cup {NoFile, EmptyFile}
  /\ identities \in [Seeds -> {"absent", "public", "seed"}]
  /\ origins \in [threads : Seeds \cup {NoSeed}, posts : Seeds \cup {NoSeed}]
  /\ boot \in [Procs -> [step : Steps, seed : Seeds \cup {NoSeed},
                         migrates : BOOLEAN]]
  /\ served \subseteq Seeds
  /\ crashes \in 0..MaxCrashes

\* The server has one identity for good: whatever starts overlap or are cut
\* off, the public key it listens under, the one the database records and the
\* one its rows carry are the same (identity.rs load_or_create).
OneIdentity == \A s, t \in Used : s = t

\* The seed of an identity under which the server has listened is never lost:
\* the file holds it, or the database does and will be asked for it.
SeedIsKept ==
  \A s \in served : file = s \/ (file \notin Seeds /\ identities[s] = "seed")

\* A running server has no seed in its database, unless a start is about to
\* clear it or one was killed (the NULLing step of the legacy migration).
SeedLeavesDatabase ==
  (Up /\ \E s \in Seeds : identities[s] = "seed") =>
    crashes > 0 \/ \E p \in Procs : At(p, "record")
=============================================================================
