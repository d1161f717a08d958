------------------------------- MODULE MCKindle -------------------------------
(* Instances of KindleSend.                                                 *)
EXTENDS KindleSend, TLC

AttemptSymmetry == Permutations(Attempt)
UserAndAttemptSymmetry == AttemptSymmetry \cup Permutations(User)
===============================================================================
