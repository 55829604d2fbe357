SPECIFICATION Spec
CONSTANTS
  early = early
  late = late
  Workers = {w1, w2}
  Tuples = {early, late}
  ts <- Signed
  Window = 2
  PruneAge = 7
  MaxDelay = 1
  MaxSkew = 1
  MaxClock = 14
  NoTuple = NoTuple
  NoTime = NoTime
PROPERTIES
  ImplementsReplayGate
