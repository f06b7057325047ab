----------------------- MODULE MCActivationTransaction ------------------------
(* Transactions are interchangeable. *)
EXTENDS ActivationTransaction, TLC

Symmetry == Permutations(Transactions)
=============================================================================
