CONSTANTS
  w1 = w1
  w2 = w2
  w3 = w3
  c1 = c1
  c2 = c2
  Void = Void
  Writers <- TwoWriters
  Patient <- NoWriters
  Content <- OneBody
  Foreign <- OneStray
  Declarations <- OneDeclaration
  MaxCalls = 3
  MaxMishaps = 2
SPECIFICATION LiveSpec
CHECK_DEADLOCK FALSE
INVARIANTS ReturnedRowsAreKept VerdictIsTrue
PROPERTY LiveWriterReturns
