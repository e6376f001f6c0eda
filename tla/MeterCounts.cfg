CONSTANTS
  a = a
  b = b
  m = m
  n = n
  k1 = k1
  Workers <- TwoWorkers
  Meters <- TwoMeters
  MeterOf <- Apart
  Keys <- OneKey
  Unlimited = Unlimited
  NoCap = NoCap
  Entries <- SomeEntries
  Costs = {2}
  MaxMonth = 2
  MaxEdits = 1
  MaxCalls = 3
  MaxMishaps = 1
SPECIFICATION Spec
SYMMETRY Exchange
CHECK_DEADLOCK FALSE
INVARIANTS AllowancesAreBilled ReceiptsMatchTheBill RevokedIsRefused
PROPERTY CapIsKept
