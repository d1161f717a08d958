-------------------------------- MODULE Search ---------------------------------
(***************************************************************************)
(* Search: SearchService (search.service.ts), which keeps users' searches   *)
(* from reaching narratorr's metadata provider too often: one result cache  *)
(* for everyone, and a fixed window of tokens per user.                     *)
(*                                                                          *)
(* The clock of a search is read when it arrives.  Searches for one query   *)
(* do not wait for each other, and their answers may arrive in any order.   *)
(***************************************************************************)
EXTENDS Integers

CONSTANTS User, Query,
          Find,      \* search requests
          NoQuery,
          SearchTtl, \* how long results are served, from the call
          Window, Rate,
          MaxTime    \* bound: the clock

ASSUME SearchAssumption == /\ SearchTtl \in Nat /\ MaxTime \in Nat
                           /\ Window \in Nat \ {0} /\ Rate \in Nat \ {0}

VARIABLES now,
          hits,  \* hits[q]: call time of the cached results
          rate,  \* rate[u]: start and count of the window; count 0 before the first
          find,  \* find[f]: a search that waits for narratorr
          spent  \* spent[u][t]: tokens u spent before t (observation)

searchVars == <<now, hits, rate, find, spent>>
Time == 0..MaxTime
Moment == 0..MaxTime + 1
Never == -1
NoFind == [query |-> NoQuery, mark |-> Never]

SearchInit == /\ now = 0
              /\ hits = [q \in Query |-> Never]
              /\ rate = [u \in User |-> [start |-> 0, count |-> 0]]
              /\ find = [f \in Find |-> NoFind]
              /\ spent = [u \in User |-> [t \in Moment |-> 0]]

Remembered(q) == hits[q] # Never /\ now - hits[q] < SearchTtl

\* The user has no window, or it is over.
WindowOver(u) == rate[u].count = 0 \/ now - rate[u].start >= Window

\* Mutant: a new window starts uncounted.
FreeStart(u) == [rate EXCEPT ![u] = IF WindowOver(u) THEN [start |-> now, count |-> 0]
                                    ELSE [rate[u] EXCEPT !.count = @ + 1]]
\* consumeToken, when it does not throw.
ConsumeToken(u) == [rate EXCEPT ![u] = IF WindowOver(u) THEN [start |-> now, count |-> 1]
                                       ELSE [rate[u] EXCEPT !.count = @ + 1]]

\* A search the cache cannot answer: the token goes first, whatever the call does.
StartFind(f, u, q) ==
  /\ find[f] = NoFind
  /\ ~Remembered(q)
  /\ ~WindowOver(u) => rate[u].count < Rate
  /\ rate' = ConsumeToken(u)
  /\ spent' = [spent EXCEPT ![u] = [t \in Moment |-> IF t > now THEN spent[u][t] + 1 ELSE spent[u][t]]]
  /\ find' = [find EXCEPT ![f] = [query |-> q, mark |-> now]]
  /\ UNCHANGED <<now, hits>>

\* Results are remembered as of their call, even over younger ones.
FindAnswered(f) ==
  /\ find[f] # NoFind
  /\ hits' = [hits EXCEPT ![find[f].query] = find[f].mark]
  /\ find' = [find EXCEPT ![f] = NoFind]
  /\ UNCHANGED <<now, rate, spent>>

\* narratorr fails, or is not configured.
FindFails(f) ==
  /\ find[f] # NoFind
  /\ find' = [find EXCEPT ![f] = NoFind]
  /\ UNCHANGED <<now, hits, rate, spent>>

SearchTick == /\ now < MaxTime
              /\ now' = now + 1
              /\ UNCHANGED <<hits, rate, find, spent>>

SearchNext == \/ \E f \in Find : \/ \E u \in User, q \in Query : StartFind(f, u, q)
                                 \/ FindAnswered(f) \/ FindFails(f)
              \/ SearchTick

SearchSpec == SearchInit /\ [][SearchNext]_searchVars

\* However a user's searches fall around the ends of its windows, any stretch as long
\* as a window sees less than twice Rate of them.
WindowBounded ==
  \A u \in User, s, e \in Moment : s <= e /\ e - s <= Window => spent[u][e] - spent[u][s] < 2 * Rate
===============================================================================
