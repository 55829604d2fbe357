\* Two processes at once, two kills; one thread, one room, three days.
SPECIFICATION FairLife
CONSTANTS
  t1 = t1  r1 = r1  s1 = s1  s2 = s2  p1 = p1  p2 = p2
  ThreadIds = {t1}
  Authors = {}
  Bodies = {}
  NoAuthor = NoAuthor
  Blank = Blank
  Never = Never
  RetentionDays = 2
  Rooms = {r1}
  NoOrigin = NoOrigin
  Lifetimes = {1}
  MessageDays = 0
  TupleDays = 0
  MaxDay = 2
  Seeds = {s1, s2}
  OldSeed = s1
  NoSeed = NoSeed
  NoFile = NoFile
  EmptyFile = EmptyFile
  Procs = {p1, p2}
  MaxCrashes = 2
INVARIANTS
  OneIdentity
  SeedIsKept
  SeedLeavesDatabase
PROPERTIES
  ServerComesUp
  OldMessagesGoUnlessPinned
