------------------------------ MODULE SendPromise ------------------------------
(***************************************************************************)
(* What the audit table of Send-to-Kindle promises about the messages, with  *)
(* no attempts, locks, clocks or deadlines: a book is reserved once at a     *)
(* time, a message is handed to the relay at most once and only against a    *)
(* live reservation, and an outcome is recorded once, never against what the *)
(* relay has decided or may still decide.  KindleSend implements it.         *)
(***************************************************************************)
EXTENDS Naturals

CONSTANTS Id,      \* row identities
          Key,     \* (user, book) pairs
          NoKey    \* the pair of a row not inserted yet

VARIABLES record,  \* record[i]: the status of row i
          key,     \* key[i]: the pair row i was inserted for
          message  \* message[i]: the fate of row i's message at the relay

vars == <<record, key, message>>

Outcome == {"sent", "failed", "indeterminate"}

Init == /\ record = [i \in Id |-> "absent"]
        /\ key = [i \in Id |-> NoKey]
        /\ message = [i \in Id |-> "none"]

Reserve(i, k) == /\ record[i] = "absent"
                 /\ \A j \in Id : key[j] = k => record[j] # "started"
                 /\ record' = [record EXCEPT ![i] = "started"]
                 /\ key' = [key EXCEPT ![i] = k]
                 /\ UNCHANGED message

HandOver(i) == /\ record[i] = "started" /\ message[i] = "none"
               /\ message' = [message EXCEPT ![i] = "submitted"]
               /\ UNCHANGED <<record, key>>

\* The relay's verdict may come at any time after, heard or not.
Decide(i) == /\ message[i] = "submitted"
             /\ \E fate \in {"accepted", "refused"} : message' = [message EXCEPT ![i] = fate]
             /\ UNCHANGED <<record, key>>

\* What may be said of a message with this fate.
Deserved(fate) == CASE fate = "none" -> {"failed", "indeterminate"}
                    [] fate = "submitted" -> {"indeterminate"}
                    [] fate = "accepted" -> {"sent", "indeterminate"}
                    [] fate = "refused" -> {"failed", "indeterminate"}

Conclude(i) == /\ record[i] = "started"
               /\ \E outcome \in Deserved(message[i]) : record' = [record EXCEPT ![i] = outcome]
               /\ UNCHANGED <<key, message>>

\* A sweep gives up some reservations; their attempts are gone.
Abandon(rows) == /\ \A i \in rows : record[i] = "started"
                 /\ record' = [i \in Id |-> IF i \in rows THEN "indeterminate" ELSE record[i]]
                 /\ UNCHANGED <<key, message>>

\* Retention drops finished rows.
Prune(rows) == /\ \A i \in rows : record[i] \in Outcome
               /\ record' = [i \in Id |-> IF i \in rows THEN "deleted" ELSE record[i]]
               /\ UNCHANGED <<key, message>>

Next == \/ \E i \in Id : \/ \E k \in Key : Reserve(i, k)
                         \/ HandOver(i) \/ Decide(i) \/ Conclude(i)
        \/ \E rows \in SUBSET Id : Abandon(rows) \/ Prune(rows)

Spec == Init /\ [][Next]_vars
===============================================================================
