------------------------------- MODULE MeCache --------------------------------
(***************************************************************************)
(* MeCache: one browser tab's cached copy of the caller's own record (the   *)
(* `me` query) against the stored row, while saves, logins, window focus    *)
(* and a lost session interleave (client/hooks.ts, app-shell.ts,            *)
(* components/AccountModal.tsx, pages/LoginPage.tsx).                       *)
(*                                                                          *)
(* The query holds at most one read in flight.  A settled mutation merges   *)
(* its own fields into the cache and then cancels and reissues the read.    *)
(* The browser may lose an answer while the handler goes on writing.        *)
(***************************************************************************)
EXTENDS Profile

CONSTANTS Login,         \* request slots of POST /api/auth/local/login and /signup
          EmailDelivery  \* an email notifier is configured, so a contact is deliverable

VARIABLES me,       \* the cached record, None before the first answer
          err,      \* how the last read ended
          fetch,    \* the read in flight
          cookie,   \* the browser holds a valid session cookie
          login,    \* login[l]: where a credentials POST stands
          waiting,  \* the saves whose answer the tab still waits for
          lock,     \* lock[s]: the save the mounted instance s reports as pending
          form,     \* the login attempt the mounted form reports as pending
          late      \* fields written since the last read by saves given up on (observation)

tab == <<me, err, fetch>>
vars == <<row, patch, faults, me, err, fetch, cookie, login, waiting, lock, form, late>>

Saver == {"save", "saveKindle"}
\* The contact row and the opt-in boxes share one mutation instance.
SaverOf(f) == IF f = "kindleEmail" THEN "saveKindle" ELSE "save"
NoLock == [s \in Saver |-> None]

Read == [at : {"idle", "sent", "read"}, auth : BOOLEAN, dto : Account \cup {None}]
NoRead == [at |-> "idle", auth |-> FALSE, dto |-> None]

\* The tab loads, with or without a session.
Init == /\ ProfileInit
        /\ cookie \in BOOLEAN
        /\ me = None /\ err = "none"
        /\ fetch = [NoRead EXCEPT !.at = "sent", !.auth = cookie]
        /\ login = [l \in Login |-> "idle"]
        /\ waiting = {} /\ lock = NoLock /\ form = None /\ late = {}

-------------------------------------------------------------------------------
\* resolveMeShell.  A query without data reports loading while it reads.
Shell == IF fetch.at # "idle" /\ me = None THEN "loading"
         ELSE IF err = "unauthorized" THEN "login"
         ELSE IF me # None THEN "app"
         ELSE IF err = "api" THEN "fatal" ELSE "login"

\* What is mounted after a step: leaving the app drops the savers, leaving the
\* login screen drops its form, and a remounted one has no pending state.
Rerender(locked, formed) ==
  /\ lock' = IF Shell' = "app" THEN locked ELSE NoLock
  /\ form' = IF Shell' = "login" THEN formed ELSE None

Unlocked(r) == [s \in Saver |-> IF lock[s] = r THEN None ELSE lock[s]]

\* A read issued now; a query without data also forgets its last error.
StartFetch(auth) ==
  /\ fetch' = [NoRead EXCEPT !.at = "sent", !.auth = auth]
  /\ err' = IF me' = None THEN "none" ELSE err

\* invalidateQueries alone: without data it adopts the read in flight.
InvalidateOnly(auth) ==
  IF me' = None /\ fetch.at # "idle" THEN UNCHANGED fetch /\ err' = "none"
  ELSE StartFetch(auth)

\* Mutant: invalidate without cancelling first.
ReconcileByInvalidation(auth) == InvalidateOnly(auth)
\* reconcileMeWrite: cancel, then invalidate, so the read is always a fresh one.
ReconcileMeWrite(auth) == StartFetch(auth)

\* Mutant: the answer replaces the whole entry.
ReplaceMeCache(prev, dto, body) == dto
\* mergeMeCache: an answer is authoritative for the fields its body wrote.
MergeMeCache(prev, dto, body) ==
  IF prev = None THEN dto
  ELSE [f \in Field |-> IF f \in DOMAIN body THEN dto[f] ELSE prev[f]]

-------------------------------------------------------------------------------
(* The account modal and its saves (AccountModal, useUpdateMe)               *)

\* What the modal offers to save of a field: a dirty draft, or a box, which needs a
\* deliverable contact.
Offered(f) == IF f = "notifyOn" /\ (~EmailDelivery \/ me["email"] = None) THEN {}
              ELSE Choice(f) \ {me[f]}

\* One field is saved, unless its instance is pending.  Without a session the route
\* answers 401.
Save(r, f, v) ==
  LET s == SaverOf(f)
      body == [g \in {f} |-> v]
  IN /\ Shell = "app" /\ lock[s] = None /\ v \in Offered(f)
     /\ IF cookie THEN Submit(r, body)
        ELSE /\ patch[r].at = "idle"
             /\ patch' = [patch EXCEPT ![r] = [IdlePatch EXCEPT !.at = "answered", !.body = body]]
     /\ waiting' = waiting \cup {r}
     /\ lock' = [lock EXCEPT ![s] = r]
     /\ UNCHANGED <<row, faults, tab, cookie, login, form, late>>

\* The answer arrives: merge on success, reconcile on both outcomes.
Settle(r) ==
  /\ r \in waiting /\ patch[r].at = "answered"
  /\ LET dto == patch[r].dto
     IN /\ me' = IF dto = None THEN me ELSE MergeMeCache(me, dto, patch[r].body)
        /\ ReconcileMeWrite(cookie)
  /\ patch' = [patch EXCEPT ![r] = IdlePatch]
  /\ waiting' = waiting \ {r}
  /\ login' = [l \in Login |-> IF login[l] = "reading" THEN "idle" ELSE login[l]]
  /\ Rerender(Unlocked(r), IF form # None /\ login'[form] = "idle" THEN None ELSE form)
  /\ UNCHANGED <<row, faults, cookie, late>>

\* The connection drops: the tab settles with an error, the handler goes on.
Drop(r) ==
  /\ r \in waiting /\ faults < MaxFaults
  /\ faults' = faults + 1
  /\ me' = me /\ ReconcileMeWrite(cookie)
  /\ waiting' = waiting \ {r}
  /\ login' = [l \in Login |-> IF login[l] = "reading" THEN "idle" ELSE login[l]]
  /\ Rerender(Unlocked(r), IF form # None /\ login'[form] = "idle" THEN None ELSE form)
  /\ UNCHANGED <<row, patch, cookie, late>>

Unheard(r) ==
  /\ r \notin waiting /\ patch[r].at = "answered"
  /\ patch' = [patch EXCEPT ![r] = IdlePatch]
  /\ UNCHANGED <<row, faults, tab, cookie, login, waiting, lock, form, late>>

HandlerStep(r) ==
  /\ PatchStep(r)
  /\ late' = IF r \in waiting THEN late ELSE late \cup (patch[r].todo \ patch'[r].todo)
  /\ UNCHANGED <<tab, cookie, login, waiting, lock, form>>

\* Closing and opening the modal mounts new instances, which know of no save.
ReopenModal ==
  /\ Shell = "app" /\ lock # NoLock
  /\ lock' = NoLock
  /\ UNCHANGED <<row, patch, faults, tab, cookie, login, waiting, form, late>>

-------------------------------------------------------------------------------
(* The login screen (LoginPage, useLocalAuth)                                *)

SubmitCredentials(l) ==
  /\ Shell = "login" /\ form = None /\ login[l] = "idle"
  /\ login' = [login EXCEPT ![l] = "sent"]
  /\ form' = l
  /\ UNCHANGED <<row, patch, faults, tab, cookie, waiting, lock, late>>

\* The headers arrive, with a session cookie unless the credentials were wrong;
\* the body is still to be read.
AnswerCredentials(l) ==
  /\ login[l] = "sent"
  /\ login' = [login EXCEPT ![l] = "answered"]
  /\ cookie' \in {cookie, TRUE}
  /\ UNCHANGED <<row, patch, faults, tab, waiting, lock, form, late>>

\* The attempt settles, whatever its body was, and stays pending until its read
\* ends; an earlier attempt's cancelled read ends that attempt.
SettleCredentials(l) ==
  /\ \/ login[l] = "answered" /\ UNCHANGED faults
     \/ login[l] = "sent" /\ faults < MaxFaults /\ faults' = faults + 1
  /\ login' = [k \in Login |-> IF k = l THEN "reading"
                               ELSE IF login[k] = "reading" THEN "idle" ELSE login[k]]
  /\ me' = me /\ ReconcileMeWrite(cookie)
  /\ Rerender(lock, IF form # None /\ login'[form] = "idle" THEN None ELSE form)
  /\ UNCHANGED <<row, patch, cookie, waiting, late>>

-------------------------------------------------------------------------------
(* The read, and what else starts one                                        *)

\* GET /api/me reads the row, then builds the answer from that copy.
FetchReads ==
  /\ fetch.at = "sent" /\ fetch.auth
  /\ fetch' = [fetch EXCEPT !.at = "read", !.dto = row]
  /\ late' = {}
  /\ UNCHANGED <<row, patch, faults, me, err, cookie, login, waiting, lock, form>>

\* The read ends: the record, a 401, or a failure that keeps the last record.
FetchLands ==
  /\ \/ /\ fetch.at = "read" /\ me' = fetch.dto /\ err' = "none"
        /\ UNCHANGED faults
     \/ /\ fetch.at = "sent" /\ ~fetch.auth /\ err' = "unauthorized"
        /\ UNCHANGED <<me, faults>>
     \/ /\ fetch.at # "idle" /\ faults < MaxFaults /\ faults' = faults + 1
        /\ err' \in {"api", "network"} /\ UNCHANGED me
  /\ fetch' = NoRead
  /\ login' = [l \in Login |-> IF login[l] = "reading" THEN "idle" ELSE login[l]]
  /\ Rerender(lock, IF form # None /\ login'[form] = "idle" THEN None ELSE form)
  /\ UNCHANGED <<row, patch, cookie, waiting, late>>

\* The window regains focus over a stale or failed query: a read in flight is joined.
Focus ==
  /\ fetch.at = "idle"
  /\ me' = me /\ StartFetch(cookie)
  /\ Rerender(lock, form)
  /\ UNCHANGED <<row, patch, faults, cookie, login, waiting, late>>

\* useRequestBook settles: it invalidates without cancelling.
RequestSettles ==
  /\ me # None
  /\ me' = me /\ InvalidateOnly(cookie)
  /\ login' = [l \in Login |-> IF login[l] = "reading" THEN "idle" ELSE login[l]]
  /\ Rerender(lock, IF form # None /\ login'[form] = "idle" THEN None ELSE form)
  /\ UNCHANGED <<row, patch, faults, cookie, waiting, late>>

\* The session ends on the server's side.
Expire ==
  /\ cookie /\ faults < MaxFaults
  /\ cookie' = FALSE /\ faults' = faults + 1
  /\ UNCHANGED <<row, patch, tab, login, waiting, lock, form, late>>

\* signOut: whether or not the POST succeeded, the cache is cleared and the page
\* reloads; what was in flight is abandoned.
SignOut ==
  /\ Shell = "app"
  /\ \/ cookie' = FALSE /\ UNCHANGED faults
     \/ faults < MaxFaults /\ faults' = faults + 1 /\ UNCHANGED cookie
  /\ me' = None /\ StartFetch(cookie')
  /\ login' = [l \in Login |-> "idle"]
  /\ waiting' = {} /\ lock' = NoLock /\ form' = None
  /\ UNCHANGED <<row, patch, late>>

-------------------------------------------------------------------------------
Next == \/ \E r \in Patch : \/ \E f \in Field, v \in Address \cup {None, "on"} : Save(r, f, v)
                            \/ Settle(r) \/ Drop(r) \/ Unheard(r) \/ HandlerStep(r)
        \/ \E l \in Login : SubmitCredentials(l) \/ AnswerCredentials(l) \/ SettleCredentials(l)
        \/ ReopenModal \/ FetchReads \/ FetchLands \/ Focus \/ RequestSettles
        \/ Expire \/ SignOut

Spec == Init /\ [][Next]_vars

-------------------------------------------------------------------------------
\* Every variable has its type, and only mounted screens report pending work.
TypeOK == /\ ProfileTypeOK
          /\ me \in Account \cup {None}
          /\ err \in {"none", "unauthorized", "api", "network"}
          /\ fetch \in Read /\ cookie \in BOOLEAN
          /\ login \in [Login -> {"idle", "sent", "answered", "reading"}]
          /\ waiting \in SUBSET Patch
          /\ lock \in [Saver -> Patch \cup {None}] /\ form \in Login \cup {None}
          /\ late \in SUBSET Field
          /\ lock # NoLock => Shell = "app"
          /\ form # None => Shell = "login"

\* Once nothing is in flight and the last read was not lost, a signed-in tab shows
\* the application (never the login screen over a valid session) and its record is
\* the stored row, whatever failed, settled twice or committed without an answer;
\* only writes of saves it gave up on, and has not read since, may be missing.
CacheConverges ==
  /\ fetch.at = "idle" /\ waiting = {} /\ err \notin {"api", "network"}
  /\ \A l \in Login : login[l] = "idle"
  /\ cookie
  => Shell = "app" /\ \A f \in Field \ late : me[f] = row[f]

\* The tab never turns a field that shows the stored value into one that does not,
\* unless a save of that very field is unsettled: an answer or a read that is older
\* than a sibling's save never rolls it back.
NoRollback ==
  [][\A f \in Field :
       /\ me # None /\ me' # None /\ row' = row
       /\ me[f] = row[f] /\ f \notin late
       /\ \A r \in Patch : f \notin DOMAIN patch[r].body
       => me'[f] = row[f]]_vars
===============================================================================
