CONSTANTS
  a = a
  b = b
  c = c
  k1 = k1
  k2 = k2
  Admins <- ThreeAdmins
  Keys <- TwoKeys
  Issued <- OneKey
  Calls <- RevokeAndAdd
  MaxDeaths = 1
  MaxStalls = 0
SPECIFICATION LiveSpec
CHECK_DEADLOCK FALSE
INVARIANTS ReportedIsKept
PROPERTIES RevocationIsFinal LiveAdminReturns
