------------------------------- MODULE MCServer --------------------------------
(* Values for model checking Settings over Connection: one email notifier,   *)
(* two servers, and requests that meet in every column.                     *)
EXTENDS Settings, TLC

CONSTANTS s1, n1, f1, q1, q2

MCServer == {s1}
MCNotifier == {n1}
MCFrom == {f1}
MCQuota == {q1, q2}
MCBodies == {[kind |-> "put", body |-> "narratorr" :> s1 @@ "quota" :> q2],
             [kind |-> "put", body |-> "narratorr" :> None @@ "ebooks" :> FALSE],
             [kind |-> "put", body |-> "sender" :> n1],
             [kind |-> "create", id |-> n1, from |-> f1], [kind |-> "delete", id |-> n1],
             [kind |-> "test"]}
ServerSymmetry == Permutations(Ask) \cup Permutations(Op)
===============================================================================
