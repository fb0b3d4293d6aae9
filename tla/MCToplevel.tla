------------------------------ MODULE MCToplevel ------------------------------
(* Instances of Toplevel for model checking. *)
EXTENDS Toplevel, TLC

Symmetry == Permutations(Classes) \cup Permutations(Windows)

=============================================================================
