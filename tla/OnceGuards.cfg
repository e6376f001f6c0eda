CONSTANTS
  a = a
  b = b
  c = c
  Callers <- ThreeCallers
  Overlapping = {}
  MaxCalls = 4
  MaxCrashes = 2
  MaxFailures = 2
  MaxJobs = 3
SPECIFICATION Spec
SYMMETRY Three
CHECK_DEADLOCK FALSE
INVARIANTS AtMostOnceOrFlagged HeldIsNotFree ReceiptIsTrue ExecutedIsFinal
