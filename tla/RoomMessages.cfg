\* One reader with two polls, three messages, answers of at most two, two days.
SPECIFICATION FairSpec
CONSTANTS
  c = c  x = x  k = k
  Boxes = {c, x}
  Sigs = {c, x}
  Keys = {k}
  NoBox = NoBox  NoSig = NoSig  NoKey = NoKey
  Creator = c
  CreatorKey = k
  Readers = {x}
  MaxSends = 3
  MaxWaiting = 1
  MaxPolls = 2
  Limit = 2
  MessageDays = 0
  MaxDay = 1
  MaxFaults = 1
INVARIANTS
  OnlyLateOnesAreMissed
  TwiceOnlyByOverlap
  HistoryByTheDay
PROPERTIES
  MessagesArrive
