SPECIFICATION FairSpec
CONSTANTS
  s1 = s1
  s2 = s2
  c1 = c1
  w1 = w1
  w2 = w2
  a1 = a1
  Request = {s1, s2}
  Checker = {c1}
  Aside = {a1}
  Worker = {w1}
  Null = Null
  StartBodies <- EveryStart
  RunBodies <- AnyRun
  Crashing = {c1}
  Conflict = TRUE
  Interval = 1
  MaxScans = 1
  MaxRuns = 1
  MaxCrashes = 1
  MaxClock = 0
PROPERTY PendingEnds
PROPERTY DueIsStarted
CHECK_DEADLOCK FALSE
