------------------------------- MODULE MCLease -------------------------------
(* The instance of TaskQueue that the configurations give values to.         *)
EXTENDS LifeRefinement

\* Sound where no job is told apart by a constant and no liveness is checked.
JobSymmetry == Permutations(Jobs)
=============================================================================
