------------------------------- MODULE MCDecide -------------------------------
(***************************************************************************)
(* Small instances of Decide: the variables are interchangeable.           *)
(***************************************************************************)
EXTENDS Decide

Symmetry == Permutations(Vars)
=============================================================================
