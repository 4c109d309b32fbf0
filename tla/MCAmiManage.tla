---------------------------- MODULE MCAmiManage ----------------------------
(* Model values and symmetry for the run of AmiManage.                      *)
EXTENDS AmiManageProps, TLC

Symmetry == Permutations(Worker)
=============================================================================
