------------------------------ MODULE MCWitness -------------------------------
(* Small instances of Witness: one or two publishers, two bodies.           *)
EXTENDS Witness, TLC

CONSTANTS p1, p2, c1, c2

TwoBodies == {c1, c2}
OneBody == {c1}
Bodies2 == Permutations(TwoBodies)
OnePublisher == {p1}
TwoPublishers == {p1, p2}
SameSecond == [n \in 1..MaxPublishes |-> 1]
Ticking == [n \in 1..MaxPublishes |-> n]
=============================================================================
