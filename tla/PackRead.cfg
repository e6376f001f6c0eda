SPECIFICATION PackSpec
CONSTANTS
  Null = Null
  Own = own
  Alt = alt
  Void = Void
  ann = ann
  bob = bob
  x = x
  y = y
  m1 = m1
  m2 = m2
  Content <- MCContent
  Subjects <- MCSubjects
  MaxTime = 1
  MaxEdits = 1
INVARIANTS UntouchedAgrees HonestIsNotBroken PinsHold NothingHidden
CHECK_DEADLOCK FALSE
SYMMETRY What
