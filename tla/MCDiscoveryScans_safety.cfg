SPECIFICATION Spec
CONSTANTS
  s1 = s1
  s2 = s2
  c1 = c1
  w1 = w1
  w2 = w2
  a1 = a1
  Request = {s1, s2}
  Checker = {c1}
  Aside = {a1}
  Worker = {w1, w2}
  Null = Null
  StartBodies <- EveryStart
  RunBodies <- AllRuns
  Crashing = {s1, s2, w1, w2}
  Conflict = TRUE
  Interval = 1
  MaxScans = 1
  MaxRuns = 1
  MaxCrashes = 1
  MaxClock = 1
INVARIANT RunningIsWorkedOn
INVARIANT PendingIsDispatched
PROPERTY DeletedStaysDeleted
SYMMETRY Alike
CHECK_DEADLOCK FALSE
