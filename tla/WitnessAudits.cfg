CONSTANTS
  p1 = p1
  p2 = p2
  c1 = c1
  c2 = c2
  Void = Void
  Content <- TwoBodies
  Publishers <- OnePublisher
  Clock <- SameSecond
  Overlapping = {"append/publish"}
  MaxRows = 3
  MaxPublishes = 2
  MaxAudits = 1
  MaxMishaps = 2
SPECIFICATION Spec
SYMMETRY Bodies2
CHECK_DEADLOCK FALSE
INVARIANTS NeverAccused NeverBackward
PROPERTY ConsistentIsTrue
