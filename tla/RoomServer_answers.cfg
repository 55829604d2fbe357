SPECIFICATION FairSpec
CONSTANTS
  c = c
  a = a
  b = b
  d = d
  sc = sc
  sa = sa
  sb = sb
  sd = sd
  k1 = k1
  k2 = k2
  w1 = w1
  w2 = w2
  NoBox = NoBox
  NoSig = NoSig
  NoKey = NoKey
  NoReq = NoReq
  Boxes = {c, a, b}
  Sigs = {sc, sa, sb}
  Keys = {k1, k2}
  Workers = {w1, w2}
  Creator = c
  CreatorSig = sc
  CreatorKey = k1
  Admitted = {c, a, b}
  Workload <- ContentionWorkload
  MaxMembers = 3
  MaxRing = 64
  Seconds = {1}
  MaxDay = 0
PROPERTIES
  EveryRequestAnswered
