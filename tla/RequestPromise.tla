---------------------------- MODULE RequestPromise ----------------------------
(***************************************************************************)
(* What the request table promises to the rest of the program, with no      *)
(* handlers, no poller and no awaits: the life of one row, the uniqueness   *)
(* of the active row of a (user, book) pair, the single `request.failed`    *)
(* emission and the availability marker.  RequestLifecycle implements it.   *)
(***************************************************************************)
EXTENDS Naturals

CONSTANTS Id,        \* row identities
          Key,       \* (user, book) pairs
          NoKey      \* the pair of a row not inserted yet

VARIABLES stage,     \* stage[r]: the status of row r, "absent" before insertion
          key,       \* key[r]: the pair row r was inserted for
          emitted,   \* emitted[r]: request.failed emissions for row r
          marked     \* marked[r]: available_notified_at is set

vars == <<stage, key, emitted, marked>>

ActiveStage == {"pending", "approved", "acquiring"}

Init == /\ stage = [r \in Id |-> "absent"]
        /\ key = [r \in Id |-> NoKey]
        /\ emitted = [r \in Id |-> 0]
        /\ marked = [r \in Id |-> FALSE]

Free(k) == \A r \in Id : key[r] = k => stage[r] \notin ActiveStage

\* A row appears, pending or already approved, for a pair with no active row.
Submit(r, k) == /\ stage[r] = "absent"
                /\ Free(k)
                /\ \E s \in {"pending", "approved"} : stage' = [stage EXCEPT ![r] = s]
                /\ key' = [key EXCEPT ![r] = k]
                /\ UNCHANGED <<emitted, marked>>

Move(r, from, to) == /\ stage[r] \in from
                     /\ stage' = [stage EXCEPT ![r] = to]
                     /\ UNCHANGED <<key, emitted, marked>>

Decide(r) == \E s \in {"approved", "denied"} : Move(r, {"pending"}, s)

Start(r) == Move(r, {"approved"}, "acquiring")

Settle(r) == \E s \in {"available", "failed"} : Move(r, {"approved", "acquiring"}, s)

Announce(r) == /\ stage[r] = "failed"
               /\ emitted[r] = 0
               /\ emitted' = [emitted EXCEPT ![r] = 1]
               /\ UNCHANGED <<stage, key, marked>>

Mark(r) == /\ stage[r] = "available"
           /\ ~marked[r]
           /\ marked' = [marked EXCEPT ![r] = TRUE]
           /\ UNCHANGED <<stage, key, emitted>>

Next == \E r \in Id : \/ \E k \in Key : Submit(r, k)
                      \/ Decide(r)
                      \/ Start(r)
                      \/ Settle(r)
                      \/ Announce(r)
                      \/ Mark(r)

Spec == Init /\ [][Next]_vars
===============================================================================
