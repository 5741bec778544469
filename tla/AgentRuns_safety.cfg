CONSTANTS
  r1 = r1
  r2 = r2
  r3 = r3
  q1 = q1
  q2 = q2
  w1 = w1
  w2 = w2
  NoRun = NoRun
  NoKey = NoKey
  NoWorker = NoWorker
  k1 = k1
  Runs = {r1, r2, r3}
  Keys = {k1}
  Requests = {q1, q2}
  Workers = {w1, w2}
  DailyQuota = 1
  MaxAttempts = 2
  MaxSteps = 1
  MaxFailedRounds = 2
  MaxStalls = 1
  FaultKinds = {"db", "queue", "stall", "crash"}
  MaxFaults = 1
CHECK_DEADLOCK FALSE
SPECIFICATION Spec
SYMMETRY Symmetry
INVARIANTS
  TypeOK
  OpenRunsAreWatched
PROPERTIES
  OverwrittenOnlyAfterStall
  ImplementsPromise
