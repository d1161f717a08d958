------------------------------ MODULE MCRequests ------------------------------
(* Instances of RequestLifecycle: one limited user, one or two books, one   *)
(* or two concurrent handlers beside the poller.                            *)
EXTENDS RequestLifecycle, TLC

CONSTANT u1

MCUser == {u1}
MCLimitOne == u1 :> 1
MCLimitTwo == u1 :> 2
MCSymmetry == Permutations(Handler)
===============================================================================
