SPECIFICATION Spec
CONSTANTS
  t1 = t1
  NoCursor = NoCursor
  NoPeer = NoPeer
  Ids = {1, 2, 3}
  Signed = {2}
  ThreadOf <- OneThread
  PageLimit = 2
  Horizon = 0
  CopyDays = 0
  MaxCopies = 2
  MaxDay = 1
INVARIANTS
  OneCopyEach
PROPERTIES
  ImplementsReplica
  EarlierDaysArrive
  CursorsOnlyAdvance
