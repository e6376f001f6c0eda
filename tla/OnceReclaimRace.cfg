CONSTANTS
  a = a
  b = b
  c = c
  Callers <- TwoCallers
  Overlapping = {"reclaim"}
  MaxCalls = 2
  MaxCrashes = 1
  MaxFailures = 0
  MaxJobs = 1
SPECIFICATION Spec
SYMMETRY Two
CHECK_DEADLOCK FALSE
INVARIANTS AtMostOnceOrFlagged
