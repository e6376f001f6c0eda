CONSTANTS
  w1 = w1
  w2 = w2
  w3 = w3
  c1 = c1
  c2 = c2
  Void = Void
  Writers <- ThreeWriters
  Patient <- ThreeWriters
  Content <- OneBody
  Foreign <- NoPieces
  Declarations <- NoPieces
  MaxCalls = 4
  MaxMishaps = 3
SPECIFICATION Spec
SYMMETRY Three
CHECK_DEADLOCK FALSE
INVARIANTS Serialized NoFork
PROPERTY AppendIsAtomic
