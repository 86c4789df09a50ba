SPECIFICATION Spec
CONSTANTS
  w1 = w1
  w2 = w2
  s1 = s1
  s2 = s2
  k1 = k1
  k2 = k2
  NumJobs = 1
  Workers = {w1}
  Sessions = {s1}
  Keys = {k1}
  SessionOf <- OneSession
  KeyOf <- OneKey
  MaxAttempts = 2
  MaxPending = 2
  MaxPendingPerUser = 2
  Faults = {}
  Polling = TRUE
  MaxFaults = 0
  MaxExpiries = 0
  MaxCrashes = 1
  MaxReplays = 1
INVARIANTS AttemptsBounded
PROPERTIES FenceGrows
CHECK_DEADLOCK FALSE
