CONSTANTS
  c1 = c1
  c2 = c2
  Content <- MCContent
  Void = Void
  ForeignKinds = {"bare", "link", "poison", "twin", "scalar", "scrap"}
  MaxLines = 3
  MaxEvents = 3
SPECIFICATION Spec
SYMMETRY Bodies2
CHECK_DEADLOCK FALSE
INVARIANTS WalkAgrees GreenIsGenuine PinClosesTheGap
PROPERTY StepsAreJudged
