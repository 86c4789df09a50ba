SPECIFICATION Spec
CONSTANTS
  w1 = w1
  w2 = w2
  s1 = s1
  s2 = s2
  k1 = k1
  k2 = k2
  NumJobs = 2
  Workers = {w1, w2}
  Sessions = {s1}
  Keys = {k1}
  SessionOf <- OneSession
  KeyOf <- OneKey
  MaxAttempts = 2
  MaxPending = 2
  MaxPendingPerUser = 2
  Faults = {}
  Polling = FALSE
  MaxFaults = 0
  MaxExpiries = 1
  MaxCrashes = 0
  MaxReplays = 0
SYMMETRY WorkerSymmetry
INVARIANT CurrentRunsSerial
CHECK_DEADLOCK FALSE
