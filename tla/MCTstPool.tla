----------------------------- MODULE MCTstPool -----------------------------
(* Model values and symmetry for the runs of TstPool.                       *)
EXTENDS TstPoolProps, TLC

Symmetry == Permutations(Worker) \union Permutations(Sd)
=============================================================================
