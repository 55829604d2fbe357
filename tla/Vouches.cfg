\* The creator and one member, two runs of maintainVouching at once, one post.
SPECIFICATION FairSpec
CONSTANTS
  c = c  x = x  k0 = k0
  Boxes = {c, x}
  Sigs = {c, x}
  Keys = {k0}
  NoBox = NoBox  NoSig = NoSig  NoKey = NoKey
  Creator = c
  CreatorKey = k0
  LastDay = 0
  Turns = {1, 2}
  Posts = {1}
  Vouchers = {x}
  MaxRing = 2
  MaxLists = 2
  MaxFaults = 1
INVARIANTS
  RemovedVouchOldRosters
  VerdictsMatchThePage
  
PROPERTIES
  EveryVouchJudged
  RosterFollowsMembers
CHECK_DEADLOCK FALSE
