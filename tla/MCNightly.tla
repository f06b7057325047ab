------------------------------ MODULE MCNightly -------------------------------
(* Two nightlies and an operator's master, all on one session.  What the     *)
(* runs check are invariants, and the nightlies are alike (the set Target    *)
(* chooses from never holds more than one of them).                          *)
EXTENDS Nightly, TLC

Symmetry == Permutations(Nightlies)
=============================================================================
