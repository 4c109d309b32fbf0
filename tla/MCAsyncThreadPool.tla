------------------------- MODULE MCAsyncThreadPool -------------------------
(* Model values and symmetry for the runs of AsyncThreadPool.  Workers      *)
(* are interchangeable; jobs are not, their order matters.                  *)
EXTENDS AsyncThreadPoolProps, TLC

Symmetry == Permutations(Worker)
=============================================================================
