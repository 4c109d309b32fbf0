------------------------------ MODULE MCCallInfo ------------------------------
(* The values for the run calls.                                             *)
EXTENDS CallInfoProps, TLC

Symmetry == Permutations(Caller) \union Permutations(Worker)
==============================================================================
