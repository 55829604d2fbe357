\* The creator's page and a joiner's, a third device, one rotation, one fault.
SPECIFICATION FairSpec
CONSTANTS
  c = c  x = x  y = y  k0 = k0  k1 = k1
  Boxes = {c, x, y}
  Sigs = {c, x, y}
  Keys = {k0, k1}
  NoBox = NoBox  NoSig = NoSig  NoKey = NoKey
  NoStore = NoStore  NoTick = NoTick  NoRekey = NoRekey
  Creator = c
  CreatorKey = k0
  Pages = {c, x}
  JoinDay = 1
  MaxWorking = 1
  MaxFaults = 1
INVARIANTS
  RemovedNeverKeyed
PROPERTIES
  WipedStaysWiped
  ImplementsMembership
  MembersCatchUp
CHECK_DEADLOCK FALSE
