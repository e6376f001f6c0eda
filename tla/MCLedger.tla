------------------------------- MODULE MCLedger -------------------------------
(* Small instances of Ledger: two or three writers, one or two bodies.      *)
EXTENDS LedgerImplements, TLC

CONSTANTS w1, w2, w3, c1, c2

NoPieces == {}
NoWriters == {}
TwoWriters == {w1, w2}
ThreeWriters == {w1, w2, w3}
OneBody == {c1}
TwoBodies == {c1, c2}
Three == Permutations(ThreeWriters)
Two == Permutations(TwoWriters)
\* A row of another program, and the declaration of a forked row in the second
\* line with the first row's chain.
OneStray == {Bare(c1)}
OneDeclaration == {Declaration(2, <<Row(c1, Genesis)>>, <<c1>>)}

LiveSpec == Spec /\ Fair({w1})
LiveWriterReturns == CallReturns({w1})
=============================================================================
