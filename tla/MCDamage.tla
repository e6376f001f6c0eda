------------------------------ MODULE MCDamage -------------------------------
(* Damage on files of up to MaxLines lines over two bodies. *)
EXTENDS Damage, TLC
CONSTANTS c1, c2
MCContent == {c1, c2}
Bodies2 == Permutations(MCContent)
=============================================================================
