-------------------------------- MODULE MCOnce --------------------------------
(* Small instances of Once: two or three processes and one operator.        *)
EXTENDS Once, TLC

CONSTANTS a, b, c

TwoCallers == {a, b}
ThreeCallers == {a, b, c}
Three == Permutations(ThreeCallers)
Two == Permutations(TwoCallers)
=============================================================================
