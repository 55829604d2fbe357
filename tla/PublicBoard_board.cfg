SPECIFICATION Spec
CONSTANTS
  t1 = t1
  x = x
  y = y
  s1 = s1
  m1 = m1
  m2 = m2
  w1 = w1
  w2 = w2
  NoAuthor = NoAuthor
  Blank = Blank
  Never = Never
  NoReq = NoReq
  ThreadIds = {t1}
  Authors = {x, y}
  Creators = {s1}
  Bodies = {m1, m2}
  Refused = {}
  Workload <- BoardWorkload
  Workers = {w1, w2}
  Seconds = {1}
  RetentionDays = Never
  MaxPosts = 3
  MaxDay = 1
INVARIANTS
  ThreadsNumbered
  TombstonesAreScrubbed
  ReferencesResolve
  RepeatsBounded
PROPERTIES
  
  OnlyAuthorDeletes
