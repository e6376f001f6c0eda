----------------------------- MODULE MCReconcile -----------------------------
(* Reconcile over sessions of up to MaxSent calls. *)
EXTENDS Reconcile, TLC
CONSTANTS ask1, ask2, ask3, x, y
MCRequests == {ask1, ask2, ask3}
MCAnswers == {x, y}
Contents == Permutations(MCRequests) \cup Permutations(MCAnswers)
=============================================================================
