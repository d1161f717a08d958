----------------------------- MODULE MCOidcLogin ------------------------------
(* Values for model checking OidcLogin: callback slots and addresses may be  *)
(* permuted.                                                                *)
EXTENDS OidcLogin, TLC
MCBodies == {"email" :> v : v \in Address \cup {None}}
OidcSymmetry == Permutations(Callback) \cup Permutations(Address)
===============================================================================
