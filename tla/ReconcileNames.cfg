CONSTANTS
  ask1 = ask1
  ask2 = ask2
  ask3 = ask3
  x = x
  y = y
  Requests <- MCRequests
  Answers <- MCAnswers
  Garbled = Garbled
  Null = Null
  MaxSent = 3
  MaxMishaps = 2
SPECIFICATION SessionSpec
SYMMETRY Contents
CHECK_DEADLOCK FALSE
INVARIANTS MatchedIsTrue FaultIsNamed
