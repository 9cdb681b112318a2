------------------------------ MODULE MCCoEnv ------------------------------
(* Model values for CoEnv; the coroutines are alike.                        *)
EXTENDS CoEnv, TLC

Symmetry == Permutations(Ctx)
=============================================================================
