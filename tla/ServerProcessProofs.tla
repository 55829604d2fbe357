------------------------ MODULE ServerProcessProofs ------------------------
(***************************************************************************)
(* The identity of the server, for every number of overlapping starts and  *)
(* of kills, and for every set of seeds; and the types of the retention    *)
(* worker that runs beside it.                                             *)
(***************************************************************************)
EXTENDS ServerProcess, TLAPS

-----------------------------------------------------------------------------
(* Retention by itself.                                                    *)

\* The requests and the operator add rows of the right types.
LEMMA RowsTyped ==
  ASSUME TypeOK
  PROVE  /\ \A t \in ThreadIds : CreateThread(t) => TypeOK'
         /\ \A r \in Rooms : CreateRoom(r) \/ SendMessage(r) => TypeOK'
<1> USE BoardAssumption, RetentionAssumption DEF TypeOK
<1>1. \A t \in ThreadIds : CreateThread(t) => TypeOK'
  BY DEF CreateThread, ThreadRow
<1>2. \A r \in Rooms : CreateRoom(r) => TypeOK'
  BY DEF CreateRoom
<1>3. ASSUME NEW r \in Rooms, SendMessage(r) PROVE TypeOK'
  <2>1. day \in Nat
    OBVIOUS
  <2>2. messages' \subseteq [room : Rooms, day : Nat] /\ tuples' \subseteq Nat
    BY <1>3, <2>1 DEF SendMessage
  <2> QED BY <1>3, <2>2 DEF SendMessage
<1> QED BY <1>1, <1>2, <1>3

\* The worker empties rows, and leaves the others as they are.
LEMMA SweepTyped ==
  ASSUME TypeOK, Sweep
  PROVE  TypeOK'
<1> USE BoardAssumption, RetentionAssumption DEF TypeOK
<1> DEFINE due == DueThreads(threads, day)
<1>1. DeleteThreads(threads, due) \in [ThreadIds -> ThreadRow]
  <2>1. NoThread \in ThreadRow
    BY DEF NoThread, ThreadRow
  <2>2. ASSUME NEW ts PROVE DeleteThreads(threads, ts) \in [ThreadIds -> ThreadRow]
    BY <2>1 DEF DeleteThreads
  <2> QED BY <2>2
<1>2. SweepThreads => TypeOK'
  BY <1>1 DEF SweepThreads
<1>3. SweepMessages => TypeOK'
  <2>1. SweepMessages => messages' \subseteq messages
    BY DEF SweepMessages
  <2> QED BY <2>1 DEF SweepMessages
<1>4. SweepTuples => TypeOK'
  BY DEF SweepTuples
<1>5. Wake => TypeOK'
  BY DEF Wake
<1> QED BY <1>2, <1>3, <1>4, <1>5 DEF Sweep

\* A day passes, or the worker is restarted, without a change to a row.
LEMMA ClockTyped ==
  ASSUME TypeOK, NextDay \/ Restart \/ UNCHANGED vars
  PROVE  TypeOK'
<1>1. NextDay => TypeOK'
  BY BoardAssumption, RetentionAssumption DEF TypeOK, NextDay
<1>2. Restart \/ UNCHANGED vars => TypeOK'
  BY DEF TypeOK, Restart, vars
<1> QED BY <1>1, <1>2

\* The worker's part alone: every reachable state of Retention is well typed.
THEOREM TypeCorrect == Spec => []TypeOK
<1>1. ASSUME Init PROVE TypeOK
  BY <1>1, BoardAssumption, RetentionAssumption
     DEF Init, TypeOK, NoThread, ThreadRow
<1>2. ASSUME TypeOK, [Next]_vars PROVE TypeOK'
  BY <1>2, RowsTyped, SweepTyped, ClockTyped DEF Next
<1> QED BY <1>1, <1>2, PTL DEF Spec

-----------------------------------------------------------------------------
(* The invariant of the starts.  While the file holds no seed everything   *)
(* anybody knows of the server comes from the one seed in the database, or *)
(* there is nothing to know; the start that writes the file has that seed  *)
(* or a new one.  From then on the file is all there is.                   *)

IdTyped == Id!IdTypeOK

\* The file speaks for every identity in use.
FileRules == file \in Seeds => Id!Used \subseteq {file}

\* Without one, the seed of what is in use is in the database.
DatabaseRules ==
  file \notin Seeds =>
    /\ \A s, t \in Id!Used : s = t
    /\ \A s \in Id!Used : identities[s] = "seed"

\* Past the file's write, a start has the file's seed.
Settled == \A p \in Procs :
  boot[p].step \in {"record", "threads", "posts", "listen", "up"} =>
    file \in Seeds /\ boot[p].seed = file

\* create_new succeeds for one start at a time.
OneWriter ==
  /\ \A p \in Procs : Id!At(p, "write") => file = EmptyFile
  /\ \A p, q \in Procs : Id!At(p, "write") /\ Id!At(q, "write") => p = q

\* What a start is about to write is what is in use.
WritersSeed == \A p \in Procs :
  boot[p].step \in {"create", "write"} =>
    /\ boot[p].seed \in Seeds
    /\ file \notin Seeds =>
         /\ Id!Used \subseteq {boot[p].seed}
         /\ boot[p].migrates \/ Id!Published = {}

\* A seed stays in the database only while a start is about to clear it.
ClearedUnlessKilled ==
  (crashes = 0 /\ file \in Seeds /\ \E s \in Seeds : identities[s] = "seed")
    => \E p \in Procs : Id!At(p, "record") /\ boot[p].migrates

IdInv ==
  /\ IdTyped /\ FileRules /\ DatabaseRules /\ Settled /\ OneWriter
  /\ WritersSeed /\ ClearedUnlessKilled

LEMMA InitIdInv == LifeInit => IdInv
<1> SUFFICES ASSUME LifeInit PROVE IdInv
  OBVIOUS
<1> USE LifeAssumption
<1>1. \A p \in Procs : boot[p] = Id!Down
  BY DEF LifeInit, Id!IdInit
<1>2. origins = [threads |-> NoSeed, posts |-> NoSeed] /\ crashes = 0
  BY DEF LifeInit, Id!IdInit
<1>3. IdTyped
  BY <1>1, <1>2 DEF LifeInit, Id!IdInit, IdTyped, Id!IdTypeOK, Id!Steps, Id!Down
<1>4. Settled /\ OneWriter /\ WritersSeed
  BY <1>1 DEF Settled, OneWriter, WritersSeed, Id!At, Id!Down
<1>5. FileRules /\ DatabaseRules /\ ClearedUnlessKilled
  BY <1>2 DEF LifeInit, Id!IdInit, FileRules, DatabaseRules, ClearedUnlessKilled,
              Id!Used, Id!Published
<1>6. QED BY <1>3, <1>4, <1>5 DEF IdInv

\* A step that only moves a start, between two statements without effect on
\* the file and the database.
LEMMA MoveIdInv ==
  ASSUME IdInv, NEW p \in Procs, IdTyped',
         UNCHANGED <<file, identities, origins, served>>,
         \A q \in Procs \ {p} : boot'[q] = boot[q],
         crashes' = 0 => crashes = 0 /\ ~Id!At(p, "record"),
         boot'[p].step \in {"record", "threads", "posts", "listen", "up"} =>
           file \in Seeds /\ boot'[p].seed = file,
         boot'[p].step # "write",
         boot'[p].step = "create" =>
           /\ boot'[p].seed \in Seeds
           /\ file \notin Seeds =>
                /\ Id!Used \subseteq {boot'[p].seed}
                /\ boot'[p].migrates \/ Id!Published = {}
  PROVE  IdInv'
<1>1. Id!Used' = Id!Used /\ Id!Published' = Id!Published
  BY DEF Id!Used, Id!Published
<1>2. FileRules' /\ DatabaseRules'
  BY <1>1 DEF IdInv, FileRules, DatabaseRules
<1>3. Settled' /\ OneWriter'
  BY DEF IdInv, Settled, OneWriter, Id!At
<1>4. WritersSeed'
  BY <1>1 DEF IdInv, WritersSeed
<1>5. ClearedUnlessKilled'
  BY DEF IdInv, ClearedUnlessKilled, Id!At
<1>6. QED BY <1>2, <1>3, <1>4, <1>5 DEF IdInv

\* Types.
LEMMA StepTyped ==
  ASSUME Id!IdTypeOK, NEW p \in Procs, Id!Step(p) \/ Id!Crash(p) \/ Id!RemoveFile,
         Id!At(p, "write") \/ Id!At(p, "listen") => boot[p].seed \in Seeds
  PROVE  Id!IdTypeOK'
<1> USE LifeAssumption DEF Id!IdTypeOK, Id!Steps
<1>a. Id!Ends(p) => boot' \in [Procs -> [step : Id!Steps,
                  seed : Seeds \cup {NoSeed}, migrates : BOOLEAN]]
  <2>1. Id!Down \in [step : Id!Steps, seed : Seeds \cup {NoSeed}, migrates : BOOLEAN]
    BY DEF Id!Down
  <2>2. QED BY <2>1 DEF Id!Ends
<1>1. CASE Id!Boot(p)
  BY <1>1 DEF Id!Boot, Id!Down
<1>2. CASE Id!LoadFile(p)
  BY <1>2 DEF Id!LoadFile, Id!Readable, Id!Goto
<1>3. CASE Id!ReadLegacy(p)
  <2>1. PICK s \in Seeds : boot' = [boot EXCEPT ![p] =
            [step |-> "create", seed |-> s, migrates |-> TRUE]]
    BY <1>3 DEF Id!ReadLegacy, Id!Published
  <2>2. QED BY <1>3, <2>1 DEF Id!ReadLegacy
<1>4. CASE Id!Generate(p)
  <2>1. PICK s \in Seeds : boot' = [boot EXCEPT ![p] =
            [step |-> "create", seed |-> s, migrates |-> FALSE]]
    BY <1>4 DEF Id!Generate
  <2>2. QED BY <1>4, <2>1 DEF Id!Generate
<1>5. CASE Id!CreateFile(p) \/ Id!FileExists(p)
  <2>1. CASE Id!CreateFile(p)
    BY <2>1 DEF Id!CreateFile, Id!Goto
  <2>2. CASE Id!FileExists(p)
    BY <1>a, <2>2 DEF Id!FileExists
  <2>3. QED BY <1>5, <2>1, <2>2
<1>6. CASE Id!WriteFile(p)
  BY <1>6 DEF Id!WriteFile, Id!Goto, Id!At
<1>7. CASE Id!ClearLegacy(p)
  BY <1>7 DEF Id!ClearLegacy, Id!Goto
<1>8. CASE Id!RecordPubkey(p)
  <2>1. boot' \in [Procs -> [step : Id!Steps, seed : Seeds \cup {NoSeed},
                             migrates : BOOLEAN]]
    BY <1>8 DEF Id!RecordPubkey, Id!Goto
  <2>2. \A s \in Seeds : identities'[s] \in {"absent", "public", "seed"}
    BY <1>8 DEF Id!RecordPubkey
  <2>3. identities' \in [Seeds -> {"absent", "public", "seed"}]
    BY <1>8, <2>2 DEF Id!RecordPubkey
  <2>4. QED BY <1>8, <2>1, <2>3 DEF Id!RecordPubkey
<1>9. CASE Id!StampThreads(p) \/ Id!StampPosts(p)
  BY <1>9 DEF Id!StampThreads, Id!StampPosts, Id!Stamp, Id!Goto
<1>10. CASE Id!Listen(p)
  BY <1>10 DEF Id!Listen, Id!Goto, Id!At
<1>11. CASE Id!AddressInUse(p) \/ Id!Crash(p)
  <2>1. crashes' \in 0..MaxCrashes
    BY <1>11 DEF Id!AddressInUse, Id!Crash
  <2>2. QED BY <1>a, <1>11, <2>1 DEF Id!AddressInUse, Id!Crash
<1>12. CASE Id!RemoveFile
  BY <1>12 DEF Id!RemoveFile
<1>13. QED
  BY <1>1, <1>2, <1>3, <1>4, <1>5, <1>6, <1>7, <1>8, <1>9, <1>10, <1>11, <1>12
     DEF Id!Step

\* load_or_create up to the file: what is read, and what a start will write.
LEMMA ReadIdInv ==
  ASSUME IdInv, IdTyped', NEW p \in Procs,
         \/ Id!Boot(p) \/ Id!LoadFile(p) \/ Id!ReadLegacy(p) \/ Id!Generate(p)
  PROVE  IdInv'
<1> USE LifeAssumption
<1>1. \A q \in Procs \ {p} : boot'[q] = boot[q]
  BY DEF Id!Boot, Id!LoadFile, Id!ReadLegacy, Id!Generate, Id!Goto, IdInv,
         IdTyped, Id!IdTypeOK
<1>2. boot \in [Procs -> [step : Id!Steps, seed : Seeds \cup {NoSeed},
                          migrates : BOOLEAN]]
  BY DEF IdInv, IdTyped, Id!IdTypeOK
<1>3. CASE Id!Boot(p)
  <2>1. boot'[p].step \in {"load", "legacy"} /\ ~Id!At(p, "record")
    BY <1>2, <1>3 DEF Id!Boot, Id!Down, Id!At
  <2>2. UNCHANGED <<file, identities, origins, served, crashes>>
    BY <1>3 DEF Id!Boot
  <2>3. QED BY <1>1, <2>1, <2>2, MoveIdInv
<1>4. CASE Id!LoadFile(p)
  <2>1. ~Id!At(p, "record") /\ boot'[p].step \in {"threads", "refused"}
    BY <1>2, <1>4 DEF Id!LoadFile, Id!At, Id!Goto
  <2>2. boot'[p].step = "threads" => file \in Seeds /\ boot'[p].seed = file
    BY <1>2, <1>4 DEF Id!LoadFile, Id!Readable, Id!Goto
  <2>3. UNCHANGED <<file, identities, origins, served, crashes>>
    BY <1>4 DEF Id!LoadFile
  <2>4. QED BY <1>1, <2>1, <2>2, <2>3, MoveIdInv
<1>5. CASE Id!ReadLegacy(p)
  <2>1. PICK s \in Id!Published : identities[s] = "seed" /\ boot' = [boot EXCEPT
          ![p] = [step |-> "create", seed |-> s, migrates |-> TRUE]]
    BY <1>5 DEF Id!ReadLegacy
  <2>2. s \in Seeds /\ s \in Id!Used
    BY DEF Id!Published, Id!Used
  <2>3. file \notin Seeds => Id!Used \subseteq {s}
    BY <2>2 DEF IdInv, DatabaseRules
  <2>4. boot'[p] = [step |-> "create", seed |-> s, migrates |-> TRUE]
    BY <1>2, <2>1
  <2>5. ~Id!At(p, "record") /\ UNCHANGED <<file, identities, origins, served, crashes>>
    BY <1>5 DEF Id!ReadLegacy, Id!At
  <2>6. boot'[p].step = "create" /\ boot'[p].seed = s /\ boot'[p].migrates
    BY <2>4
  <2>7. QED BY <1>1, <2>2, <2>3, <2>5, <2>6, MoveIdInv
<1>6. CASE Id!Generate(p)
  <2>1. PICK s \in Seeds : boot' = [boot EXCEPT
          ![p] = [step |-> "create", seed |-> s, migrates |-> FALSE]]
    BY <1>6 DEF Id!Generate
  <2>2. file \notin Seeds => Id!Published = {} /\ Id!Used = {}
    <3>1. SUFFICES ASSUME file \notin Seeds PROVE Id!Published = {} /\ Id!Used = {}
      OBVIOUS
    <3>2. \A u \in Id!Used : u \in Seeds /\ identities[u] = "seed"
      BY <3>1 DEF IdInv, DatabaseRules, Id!Used, Id!Published, IdTyped, Id!IdTypeOK
    <3>3. Id!Published \subseteq Id!Used
      BY DEF Id!Used
    <3>4. Id!Published = {}
      BY <1>6, <3>2, <3>3 DEF Id!Generate
    <3>5. QED BY <3>2, <3>4 DEF Id!Published
  <2>3. boot'[p].step = "create" /\ boot'[p].seed = s
    BY <1>2, <2>1
  <2>4. ~Id!At(p, "record") /\ UNCHANGED <<file, identities, origins, served, crashes>>
    BY <1>6 DEF Id!Generate, Id!At
  <2>5. QED BY <1>1, <2>2, <2>3, <2>4, MoveIdInv
<1>7. QED BY <1>3, <1>4, <1>5, <1>6

\* The file is created, written, or found.
LEMMA FileIdInv ==
  ASSUME IdInv, IdTyped', NEW p \in Procs,
         Id!CreateFile(p) \/ Id!FileExists(p) \/ Id!WriteFile(p)
  PROVE  IdInv'
<1> USE LifeAssumption
<1>1. boot \in [Procs -> [step : Id!Steps, seed : Seeds \cup {NoSeed},
                          migrates : BOOLEAN]]
  BY DEF IdInv, IdTyped, Id!IdTypeOK
<1>2. Id!Used' = Id!Used /\ Id!Published' = Id!Published /\ identities' = identities
  BY DEF Id!Used, Id!Published, Id!CreateFile, Id!FileExists, Id!WriteFile
<1>3. CASE Id!FileExists(p)
  <2>1. boot'[p].step = "down" /\ ~Id!At(p, "record")
    BY <1>1, <1>3 DEF Id!FileExists, Id!Ends, Id!Down, Id!At
  <2>2. \A q \in Procs \ {p} : boot'[q] = boot[q]
    BY <1>1, <1>3 DEF Id!FileExists, Id!Ends
  <2>3. UNCHANGED <<file, identities, origins, served, crashes>>
    BY <1>3 DEF Id!FileExists
  <2>4. QED BY <2>1, <2>2, <2>3, MoveIdInv
<1>4. CASE Id!CreateFile(p)
  <2>1. file = NoFile /\ file' = EmptyFile /\ Id!At(p, "create")
    BY <1>4 DEF Id!CreateFile, Id!Absent
  <2>2. /\ \A q \in Procs \ {p} : boot'[q] = boot[q]
        /\ boot'[p].step = "write" /\ boot'[p].seed = boot[p].seed
        /\ boot'[p].migrates = boot[p].migrates
    BY <1>1, <1>4 DEF Id!CreateFile, Id!Goto
  <2>3. FileRules' /\ DatabaseRules' /\ ClearedUnlessKilled'
    BY <1>2, <2>1 DEF IdInv, FileRules, DatabaseRules, ClearedUnlessKilled
  <2>4. Settled' /\ OneWriter'
    BY <2>1, <2>2 DEF IdInv, Settled, OneWriter, Id!At
  <2>5. WritersSeed'
    BY <1>2, <2>1, <2>2 DEF IdInv, WritersSeed, Id!At
  <2>6. QED BY <2>3, <2>4, <2>5 DEF IdInv
<1>5. CASE Id!WriteFile(p)
  <2>1. file = EmptyFile /\ Id!At(p, "write") /\ boot[p].seed \in Seeds
    BY <1>5 DEF Id!WriteFile, IdInv, OneWriter, WritersSeed, Id!At
  <2>2. file' = boot[p].seed
    BY <1>5 DEF Id!WriteFile
  <2>3. /\ \A q \in Procs \ {p} : boot'[q] = boot[q]
        /\ boot'[p].step = "record" /\ boot'[p].seed = boot[p].seed
        /\ boot'[p].migrates = boot[p].migrates
    BY <1>1, <1>5 DEF Id!WriteFile, Id!Goto
  <2>4. Id!Used \subseteq {boot[p].seed} /\ (boot[p].migrates \/ Id!Published = {})
    BY <2>1 DEF IdInv, WritersSeed, Id!At
  <2>5. FileRules' /\ DatabaseRules'
    BY <1>2, <2>1, <2>2, <2>4 DEF FileRules, DatabaseRules
  <2>6. Settled' /\ OneWriter'
    BY <2>1, <2>2, <2>3 DEF IdInv, Settled, OneWriter, Id!At
  <2>7. WritersSeed'
    BY <1>2, <2>1, <2>2, <2>3 DEF IdInv, WritersSeed, Id!At
  <2>8. ClearedUnlessKilled'
    <3>1. CASE boot[p].migrates
      BY <2>3, <3>1 DEF ClearedUnlessKilled, Id!At
    <3>2. CASE Id!Published = {}
      BY <1>2, <3>2 DEF ClearedUnlessKilled, Id!Published
    <3>3. QED BY <2>4, <3>1, <3>2
  <2>9. QED BY <2>5, <2>6, <2>7, <2>8 DEF IdInv
<1>6. QED BY <1>3, <1>4, <1>5

\* What follows the file: the database's row and rows are brought in line.
LEMMA RecordIdInv ==
  ASSUME IdInv, IdTyped', NEW p \in Procs,
         \/ Id!ClearLegacy(p) \/ Id!RecordPubkey(p)
         \/ Id!StampThreads(p) \/ Id!StampPosts(p) \/ Id!Listen(p)
  PROVE  IdInv'
<1> USE LifeAssumption
<1>1. /\ boot \in [Procs -> [step : Id!Steps, seed : Seeds \cup {NoSeed},
                             migrates : BOOLEAN]]
      /\ identities \in [Seeds -> {"absent", "public", "seed"}]
      /\ origins \in [threads : Seeds \cup {NoSeed}, posts : Seeds \cup {NoSeed}]
      /\ served \subseteq Seeds
  BY DEF IdInv, IdTyped, Id!IdTypeOK
<1>2. boot[p].step \in {"record", "threads", "posts", "listen"}
  BY DEF Id!ClearLegacy, Id!RecordPubkey, Id!StampThreads, Id!StampPosts,
         Id!Listen, Id!At
<1>3. file \in Seeds /\ boot[p].seed = file /\ Id!Used \subseteq {file}
  BY <1>2 DEF IdInv, Settled, FileRules
<1>4. file' = file /\ crashes' = crashes
  BY DEF Id!ClearLegacy, Id!RecordPubkey, Id!StampThreads, Id!StampPosts,
         Id!Listen
<1>5. /\ \A q \in Procs \ {p} : boot'[q] = boot[q]
      /\ boot'[p].step \in {"threads", "posts", "listen", "up"}
      /\ boot'[p].seed = boot[p].seed
  BY <1>1 DEF Id!ClearLegacy, Id!RecordPubkey, Id!StampThreads, Id!StampPosts,
         Id!Listen, Id!Goto
<1>6. /\ served' \subseteq served \cup {file}
      /\ \A s \in Seeds \ {file} : identities'[s] = "absent" <=> identities[s] = "absent"
      /\ origins'.threads \in {origins.threads, file}
      /\ origins'.posts \in {origins.posts, file}
  <2>1. CASE Id!ClearLegacy(p)
    BY <1>1, <2>1 DEF Id!ClearLegacy
  <2>2. CASE Id!RecordPubkey(p)
    BY <1>1, <1>3, <2>2 DEF Id!RecordPubkey
  <2>3. CASE Id!StampThreads(p) \/ Id!StampPosts(p)
    BY <1>1, <1>3, <2>3 DEF Id!StampThreads, Id!StampPosts, Id!Stamp
  <2>4. CASE Id!Listen(p)
    BY <1>3, <2>4 DEF Id!Listen
  <2>5. QED BY <2>1, <2>2, <2>3, <2>4
<1>7. Id!Used' \subseteq {file}
  BY <1>1, <1>3, <1>6 DEF Id!Used, Id!Published
<1>8. FileRules' /\ DatabaseRules'
  BY <1>3, <1>4, <1>7 DEF FileRules, DatabaseRules
<1>9. Settled' /\ OneWriter' /\ WritersSeed'
  BY <1>3, <1>4, <1>5 DEF IdInv, Settled, OneWriter, WritersSeed, Id!At
<1>10. ClearedUnlessKilled'
  <2>1. CASE Id!ClearLegacy(p)
    BY <1>1, <2>1 DEF Id!ClearLegacy, ClearedUnlessKilled
  <2>2. CASE ~Id!ClearLegacy(p)
    <3>1. ~(Id!At(p, "record") /\ boot[p].migrates)
      BY <1>1, <2>2 DEF Id!RecordPubkey, Id!StampThreads, Id!StampPosts, Id!Listen,
                        Id!At
    <3>2. \A s \in Seeds : identities'[s] = "seed" => identities[s] = "seed"
      <4>1. CASE Id!RecordPubkey(p)
        BY <1>1, <4>1 DEF Id!RecordPubkey
      <4>2. CASE ~Id!RecordPubkey(p)
        BY <2>2, <4>2 DEF Id!StampThreads, Id!StampPosts, Id!Listen
      <4>3. QED BY <4>1, <4>2
    <3>3. QED BY <1>4, <1>5, <3>1, <3>2 DEF IdInv, ClearedUnlessKilled, Id!At
  <2>3. QED BY <2>1, <2>2
<1>11. QED BY <1>8, <1>9, <1>10 DEF IdInv

\* A start ends early, is killed, or the operator clears its way.
LEMMA EndIdInv ==
  ASSUME IdInv, IdTyped', NEW p \in Procs,
         Id!AddressInUse(p) \/ Id!Crash(p) \/ Id!RemoveFile
  PROVE  IdInv'
<1> USE LifeAssumption
<1>1. boot \in [Procs -> [step : Id!Steps, seed : Seeds \cup {NoSeed},
                          migrates : BOOLEAN]]
  BY DEF IdInv, IdTyped, Id!IdTypeOK
<1>2. CASE Id!AddressInUse(p) \/ Id!Crash(p)
  <2>1. /\ \A q \in Procs \ {p} : boot'[q] = boot[q]
        /\ boot'[p].step = "down"
        /\ UNCHANGED <<file, identities, origins, served>>
    BY <1>1, <1>2 DEF Id!AddressInUse, Id!Crash, Id!Ends, Id!Down
  <2>2. crashes' = 0 => crashes = 0 /\ ~Id!At(p, "record")
    BY <1>2 DEF Id!AddressInUse, Id!Crash, Id!At, IdInv, IdTyped, Id!IdTypeOK
  <2>3. QED BY <2>1, <2>2, MoveIdInv
<1>3. CASE Id!RemoveFile
  <2>1. file = EmptyFile /\ file' = NoFile
        /\ UNCHANGED <<identities, origins, boot, served, crashes>>
    BY <1>3 DEF Id!RemoveFile
  <2>2. \A q \in Procs : boot[q].step \in {"down", "refused"}
    BY <1>3 DEF Id!RemoveFile, Id!At
  <2>3. Id!Used' = Id!Used /\ Id!Published' = Id!Published
    BY <2>1 DEF Id!Used, Id!Published
  <2>4. FileRules' /\ DatabaseRules' /\ ClearedUnlessKilled'
    BY <2>1, <2>3 DEF IdInv, FileRules, DatabaseRules, ClearedUnlessKilled
  <2>5. Settled' /\ OneWriter' /\ WritersSeed'
    BY <2>1, <2>2 DEF Settled, OneWriter, WritersSeed, Id!At
  <2>6. QED BY <2>4, <2>5 DEF IdInv
<1>4. QED BY <1>2, <1>3

LEMMA StepIdInv == IdInv /\ [LifeNext]_lifevars => IdInv'
<1> SUFFICES ASSUME IdInv, [LifeNext]_lifevars PROVE IdInv'
  OBVIOUS
<1>1. ASSUME NEW p \in Procs, Id!Step(p) \/ Id!Crash(p) \/ Id!RemoveFile PROVE IdInv'
  <2>1. Id!At(p, "write") \/ Id!At(p, "listen") => boot[p].seed \in Seeds
    BY DEF IdInv, Settled, WritersSeed, Id!At
  <2>2. IdTyped'
    BY <1>1, <2>1, StepTyped DEF IdInv, IdTyped
  <2>3. CASE Id!Boot(p) \/ Id!LoadFile(p) \/ Id!ReadLegacy(p) \/ Id!Generate(p)
    BY <2>2, <2>3, ReadIdInv
  <2>4. CASE Id!CreateFile(p) \/ Id!FileExists(p) \/ Id!WriteFile(p)
    BY <2>2, <2>4, FileIdInv
  <2>5. CASE \/ Id!ClearLegacy(p) \/ Id!RecordPubkey(p)
             \/ Id!StampThreads(p) \/ Id!StampPosts(p) \/ Id!Listen(p)
    BY <2>2, <2>5, RecordIdInv
  <2>6. CASE Id!AddressInUse(p) \/ Id!Crash(p) \/ Id!RemoveFile
    BY <2>2, <2>6, EndIdInv
  <2>7. QED BY <1>1, <2>3, <2>4, <2>5, <2>6 DEF Id!Step
<1>2. CASE UNCHANGED start
  <2>1. Id!Used' = Id!Used /\ Id!Published' = Id!Published
    BY <1>2 DEF start, Id!Used, Id!Published
  <2>2. QED
    BY <1>2, <2>1 DEF start, IdInv, IdTyped, Id!IdTypeOK, FileRules, DatabaseRules,
       Settled, OneWriter, WritersSeed, ClearedUnlessKilled, Id!At
<1>3. CASE \E p \in Procs : Start(p) \/ Kill(p)
  BY <1>1, <1>3 DEF Start, Kill
<1>4. CASE Work \/ Worker \/ Midnight
  BY <1>2, <1>4 DEF Work, Worker, Midnight
<1>5. CASE Repair
  <2>1. PICK p \in Procs : Id!At(p, "refused")
    BY <1>5 DEF Repair, Id!RemoveFile
  <2>2. QED BY <1>1, <1>5, <2>1 DEF Repair
<1>6. CASE UNCHANGED lifevars
  BY <1>2, <1>6 DEF lifevars
<1>7. QED BY <1>3, <1>4, <1>5, <1>6 DEF LifeNext

LEMMA AlwaysIdInv == LifeSpec => []IdInv
BY InitIdInv, StepIdInv, PTL DEF LifeSpec

-----------------------------------------------------------------------------
(* What follows of it.                                                     *)

\* The public key under which the server listens, the one the database
\* records and the one its rows carry are the same, for any number of starts
\* that overlap and of kills (identity.rs load_or_create).
THEOREM IdentityIsOne == LifeSpec => []OneIdentity
<1>1. IdInv => OneIdentity
  BY DEF IdInv, FileRules, DatabaseRules, OneIdentity, Id!OneIdentity
<1>2. QED BY <1>1, AlwaysIdInv, PTL

\* The seed of an identity that was used is in the file, or in the database
\* and will be asked for: the order of write_seed_file and clear_legacy_seed.
THEOREM SeedNeverLost == LifeSpec => []SeedIsKept
<1>1. IdInv => SeedIsKept
  <2>1. served \subseteq Id!Used
    BY DEF Id!Used
  <2>2. QED BY <2>1 DEF IdInv, FileRules, DatabaseRules, SeedIsKept, Id!SeedIsKept
<1>2. QED BY <1>1, AlwaysIdInv, PTL

\* A running server's seed is not in the database, unless a start was killed
\* or is about to clear it (identity.rs clear_legacy_seed).
THEOREM SeedLeavesUnlessKilled == LifeSpec => []SeedLeavesDatabase
<1>1. IdInv => SeedLeavesDatabase
  <2> SUFFICES ASSUME IdInv, Id!Up, \E s \in Seeds : identities[s] = "seed"
               PROVE  crashes > 0 \/ \E p \in Procs : Id!At(p, "record")
    BY DEF SeedLeavesDatabase, Id!SeedLeavesDatabase
  <2>1. file \in Seeds
    BY DEF IdInv, Settled, Id!Up, Id!At
  <2>2. CASE crashes = 0
    BY <2>1, <2>2 DEF IdInv, ClearedUnlessKilled
  <2>3. CASE crashes # 0
    BY <2>3, LifeAssumption DEF IdInv, IdTyped, Id!IdTypeOK
  <2>4. QED BY <2>2, <2>3
<1>2. QED BY <1>1, AlwaysIdInv, PTL

\* The process hides nothing from its worker: what Retention says of a worker
\* that is restarted at will holds of the one that starts and dies with the
\* server (lib.rs run).
THEOREM ImplementsRetention == LifeSpec => Spec
<1>1. LifeInit => Init
  BY DEF LifeInit
<1>2. ASSUME LifeNext PROVE [Next]_vars
  <2> USE DEF Next
  <2>1. (\E p \in Procs : Start(p) \/ Kill(p)) => Next \/ UNCHANGED vars
    BY DEF Start, Kill
  <2>2. Work \/ Worker \/ Midnight => Next
    BY DEF Work, Worker, Midnight
  <2>3. Repair => UNCHANGED vars
    BY DEF Repair
  <2> QED BY <1>2, <2>1, <2>2, <2>3 DEF LifeNext
<1>3. UNCHANGED lifevars => UNCHANGED vars
  BY DEF lifevars, vars
<1> QED BY <1>1, <1>2, <1>3, PTL DEF LifeSpec, Spec

\* Types of the starts and of the worker.
THEOREM LifeTyped == LifeSpec => []LifeTypeOK
<1>1. IdInv /\ TypeOK => LifeTypeOK
  BY DEF IdInv, IdTyped, LifeTypeOK
<1>2. QED BY <1>1, AlwaysIdInv, ImplementsRetention, TypeCorrect, PTL
=============================================================================
