------------------------------ MODULE MCMeCache -------------------------------
(* Values for model checking MeCache: the request slots may be permuted.     *)
EXTENDS MeCache, TLC
SlotSymmetry == Permutations(Patch) \cup Permutations(Login)
===============================================================================
