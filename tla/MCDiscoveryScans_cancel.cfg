SPECIFICATION Spec
CONSTANTS
  s1 = s1
  s2 = s2
  c1 = c1
  w1 = w1
  w2 = w2
  a1 = a1
  Request = {s1, s2}
  Checker = {c1}
  Aside = {}
  Worker = {w1, w2}
  Null = Null
  StartBodies <- EveryStart
  RunBodies <- NoRun
  Crashing = {}
  Conflict = FALSE
  Interval = 1
  MaxScans = 1
  MaxRuns = 1
  MaxCrashes = 0
  MaxClock = 1
PROPERTY CancelIsFinal
CHECK_DEADLOCK FALSE
