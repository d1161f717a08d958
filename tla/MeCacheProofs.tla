---------------------------- MODULE MeCacheProofs -----------------------------
(***************************************************************************)
(* MeCache for any save and login slots and addresses: what a tab shows of  *)
(* the caller's own record once nothing is in flight, and what an answer    *)
(* or a read may never take back.                                           *)
(***************************************************************************)
EXTENDS MeCache, TLAPS

\* The fields of a PATCH still to be written are its own; a save whose answer is
\* awaited has a handler.
CacheTypeOK ==
  /\ row \in Account
  /\ patch \in [Patch -> PatchJob]
  /\ \A r \in Patch : patch[r].todo \subseteq DOMAIN patch[r].body
  /\ waiting \subseteq Patch /\ \A r \in waiting : patch[r].at # "idle"
  /\ login \in [Login -> {"idle", "sent", "answered", "reading"}]
  /\ fetch \in Read /\ err \in {"none", "unauthorized", "api", "network"}
  /\ cookie \in BOOLEAN

\* A copy of a field that is not the stored one is about to be replaced, by the read
\* that follows a save still awaited, or misses a save the tab gave up on.
Pending(f) == \E r \in waiting : f \in DOMAIN patch[r].body
Current(dto) == \A f \in Field : f \in late \/ dto[f] = row[f] \/ Pending(f)

ReadInv == fetch.at = "read" => fetch.dto \in Account /\ Current(fetch.dto)
ShownInv == fetch.at = "idle" /\ err = "none" => me # None /\ Current(me)

\* A read issued without the session the browser now holds is answered for by the
\* login that set the cookie and has not settled.
AuthInv == /\ cookie
           /\ \/ fetch.at = "sent" /\ ~fetch.auth
              \/ fetch.at = "idle" /\ err = "unauthorized"
           => \E l \in Login : login[l] = "answered"

CacheInv == CacheTypeOK /\ ReadInv /\ ShownInv /\ AuthInv

-------------------------------------------------------------------------------
(* One PATCH                                                                 *)

\* A PATCH writes a column of its own body.
LEMMA FirstIsOwn == ASSUME NEW fs \in SUBSET Field, fs # {} PROVE First(fs) \in fs
<1> DEFINE P(f) == \E i \in 1..3 : Columns[i] = f /\ \A k \in 1..(i - 1) : Columns[k] \notin fs
<1>1. Columns[1] = "email" /\ Columns[2] = "kindleEmail" /\ Columns[3] = "notifyOn"
  BY DEF Columns
<1>2. \E f \in fs : P(f)
  <2>1. CASE "email" \in fs
    BY <1>1, <2>1
  <2>2. CASE "email" \notin fs /\ "kindleEmail" \in fs
    BY <1>1, <2>2
  <2>3. CASE "email" \notin fs /\ "kindleEmail" \notin fs
    <3>1. "notifyOn" \in fs
      BY <2>3 DEF Field, Columns
    <3>2. \A k \in 1..(3 - 1) : Columns[k] \notin fs
      BY <1>1, <2>3
    <3>3. P("notifyOn")
      BY <1>1, <3>2
    <3> QED BY <3>1, <3>3
  <2> QED BY <2>1, <2>2, <2>3
<1> QED BY <1>2 DEF First

LEMMA IdlePatchFits == IdlePatch \in PatchJob /\ IdlePatch.todo \subseteq DOMAIN IdlePatch.body
<1>1. NoBody \in [{} -> Address \cup {None, "on"}]
  BY DEF NoBody
<1>2. NoBody \in Body
  BY <1>1 DEF Body
<1> QED BY <1>2 DEF IdlePatch, PatchJob

\* What a step of a handler does to its record, the row and the rest.
LEMMA HandlerWrites ==
  ASSUME CacheTypeOK, NEW r \in Patch, PatchStep(r)
  PROVE  /\ patch' \in [Patch -> PatchJob] /\ row' \in Account
         /\ \A k \in Patch \ {r} : patch'[k] = patch[k]
         /\ patch'[r].body = patch[r].body /\ patch'[r].at # "idle"
         /\ patch'[r].todo \subseteq patch[r].todo
         /\ \A f \in Field : row'[f] # row[f] => f \in patch[r].todo \ patch'[r].todo
<1>0. /\ patch[r] \in PatchJob /\ patch[r].todo \subseteq DOMAIN patch[r].body /\ row \in Account
      /\ patch \in [Patch -> PatchJob]
  BY DEF CacheTypeOK
<1>1. ASSUME NEW x \in PatchJob, patch' = [patch EXCEPT ![r] = x]
      PROVE  /\ patch' \in [Patch -> PatchJob] /\ patch'[r] = x
             /\ \A k \in Patch \ {r} : patch'[k] = patch[k]
  BY <1>0, <1>1
<1>2. CASE WriteField(r)
  <2>1. PICK f \in patch[r].todo : f = First(patch[r].todo)
    BY <1>0, <1>2, FirstIsOwn DEF WriteField, PatchJob
  <2>2. f \in Field /\ patch[r].body[f] \in Choice(f)
    BY <1>0, <2>1 DEF PatchJob, Body
  <2>3. row' = [row EXCEPT ![f] = patch[r].body[f]]
    BY <1>2, <2>1 DEF WriteField
  <2>4. row' \in Account /\ \A g \in Field : row'[g] # row[g] => g = f
    BY <1>0, <2>2, <2>3 DEF Account, Choice
  <2> DEFINE x == [patch[r] EXCEPT !.todo = patch[r].todo \ {f}]
  <2>5. patch' = [patch EXCEPT ![r] = x]
    BY <1>2, <2>1 DEF WriteField
  <2>6. /\ x \in PatchJob /\ x.todo = patch[r].todo \ {f} /\ x.body = patch[r].body
        /\ x.at = "write"
    BY <1>0, <1>2 DEF PatchJob, WriteField
  <2> HIDE DEF x
  <2> QED BY <1>1, <2>1, <2>4, <2>5, <2>6
<1>3. CASE ReadBack(r) \/ PatchFails(r)
  <2> DEFINE x == [patch[r] EXCEPT !.at = "answered", !.dto = IF ReadBack(r) THEN row ELSE None]
  <2>1. patch' = [patch EXCEPT ![r] = x] /\ row' = row
    BY <1>3 DEF ReadBack, PatchFails
  <2>2. x \in PatchJob /\ x.todo = patch[r].todo /\ x.body = patch[r].body /\ x.at = "answered"
    BY <1>0 DEF PatchJob
  <2> HIDE DEF x
  <2> QED BY <1>0, <1>1, <2>1, <2>2
<1> QED BY <1>2, <1>3 DEF PatchStep

-------------------------------------------------------------------------------
(* Steps of a kind                                                           *)

\* A read issued now owes nothing to the past.
LEMMA FreshRead ==
  ASSUME CacheTypeOK', fetch' = [NoRead EXCEPT !.at = "sent", !.auth = cookie']
  PROVE  CacheInv'
<1>1. fetch'.at = "sent" /\ fetch'.auth = cookie'
  BY DEF NoRead
<1> QED BY <1>1 DEF CacheInv, ReadInv, ShownInv, AuthInv

\* The tab, the row and the saves awaited stay; a login may have been answered.
LEMMA TabStays ==
  ASSUME CacheInv, CacheTypeOK', UNCHANGED <<row, tab, late>>,
         waiting \subseteq waiting', \A r \in waiting : patch'[r].body = patch[r].body,
         cookie' => cookie \/ \E l \in Login : login'[l] = "answered",
         \A l \in Login : login[l] = "answered" => login'[l] = "answered"
  PROVE  CacheInv'
<1>1. UNCHANGED <<me, err, fetch>>
  BY DEF tab
<1>2. \A f \in Field : Pending(f) => Pending(f)'
  BY DEF Pending
<1>3. \A dto : Current(dto) => \A f \in Field : f \in late' \/ dto[f] = row'[f] \/ Pending(f)'
  BY <1>2 DEF Current
<1>4. ReadInv' /\ ShownInv'
  BY <1>1, <1>3 DEF CacheInv, ReadInv, ShownInv, Current
<1>5. AuthInv'
  BY <1>1 DEF CacheInv, AuthInv
<1> QED BY <1>4, <1>5 DEF CacheInv

\* What ends the attempts whose read is over, or starts the next, keeps the types.
LEMMA LoginTypes ==
  ASSUME CacheTypeOK,
         \/ login' = [l \in Login |-> IF login[l] = "reading" THEN "idle" ELSE login[l]]
         \/ \E k \in Login : login' = [l \in Login |-> IF l = k THEN "reading"
                                       ELSE IF login[l] = "reading" THEN "idle" ELSE login[l]]
         \/ login' = [l \in Login |-> "idle"]
  PROVE  login' \in [Login -> {"idle", "sent", "answered", "reading"}]
  BY DEF CacheTypeOK

LEMMA StartFetchTypes ==
  ASSUME CacheTypeOK, NEW auth \in BOOLEAN, StartFetch(auth)
  PROVE  fetch' \in Read /\ err' \in {"none", "unauthorized", "api", "network"}
         /\ fetch' = [NoRead EXCEPT !.at = "sent", !.auth = auth]
  BY DEF CacheTypeOK, StartFetch, Read, NoRead

-------------------------------------------------------------------------------
(* The steps                                                                 *)

LEMMA InitHolds == Init => CacheInv
<1> SUFFICES ASSUME Init PROVE CacheInv
  OBVIOUS
<1>1. row \in Account /\ patch = [r \in Patch |-> IdlePatch]
  BY DEF Init, ProfileInit
<1>2. fetch = [NoRead EXCEPT !.at = "sent", !.auth = cookie] /\ cookie \in BOOLEAN
      /\ login = [l \in Login |-> "idle"] /\ waiting = {} /\ err = "none"
  BY DEF Init
<1>3. fetch \in Read /\ fetch.at = "sent" /\ fetch.auth = cookie
  BY <1>2 DEF Read, NoRead
<1>4. CacheTypeOK
  BY <1>1, <1>2, <1>3, IdlePatchFits DEF CacheTypeOK
<1> QED BY <1>3, <1>4 DEF CacheInv, ReadInv, ShownInv, AuthInv

LEMMA SaveKeeps ==
  ASSUME CacheInv, NEW r \in Patch, NEW f \in Field, NEW v, Save(r, f, v) PROVE CacheInv'
<1> DEFINE body == [g \in {f} |-> v]
           x == IF cookie THEN [IdlePatch EXCEPT !.at = "write", !.body = body, !.todo = DOMAIN body]
                ELSE [IdlePatch EXCEPT !.at = "answered", !.body = body]
<1>1. CacheTypeOK
  BY DEF CacheInv
<1>2. v \in Choice(f)
  BY DEF Save, Offered
<1>3. body \in Body /\ DOMAIN body = {f}
  <2>1. body \in [{f} -> Address \cup {None, "on"}] /\ body[f] \in Choice(f)
    BY <1>2 DEF Choice
  <2>2. {f} \in SUBSET Field
    OBVIOUS
  <2> QED BY <2>1, <2>2 DEF Body
<1> HIDE DEF body
<1>4. patch' = [patch EXCEPT ![r] = x] /\ patch[r].at = "idle"
  BY DEF Save, Submit, body
<1>5. x \in PatchJob /\ x.todo \subseteq DOMAIN x.body /\ x.at # "idle"
  BY <1>3, IdlePatchFits DEF PatchJob, IdlePatch
<1> HIDE DEF x
<1>6. UNCHANGED <<row, tab, cookie, login, late>> /\ waiting' = waiting \cup {r}
  BY DEF Save
<1>7. r \notin waiting /\ \A k \in waiting : patch'[k] = patch[k]
  BY <1>1, <1>4 DEF CacheTypeOK
<1>8. CacheTypeOK'
  BY <1>1, <1>4, <1>5, <1>6 DEF CacheTypeOK, tab
<1> QED BY <1>6, <1>7, <1>8, TabStays

\* Settling, by an answer or without, frees the slot's place among the awaited.
LEMMA SettleKeeps ==
  ASSUME CacheInv, NEW r \in Patch, Settle(r) \/ Drop(r) PROVE CacheInv'
<1>1. CacheTypeOK
  BY DEF CacheInv
<1>2. /\ StartFetch(cookie) /\ waiting' = waiting \ {r} /\ UNCHANGED <<row, cookie>>
      /\ login' = [l \in Login |-> IF login[l] = "reading" THEN "idle" ELSE login[l]]
      /\ patch' = patch \/ patch' = [patch EXCEPT ![r] = IdlePatch]
  BY DEF Settle, Drop, ReconcileMeWrite
<1>3. /\ patch' \in [Patch -> PatchJob] /\ \A k \in Patch \ {r} : patch'[k] = patch[k]
      /\ \A k \in Patch : patch'[k].todo \subseteq DOMAIN patch'[k].body
  BY <1>1, <1>2, IdlePatchFits DEF CacheTypeOK
<1>4. cookie \in BOOLEAN
  BY <1>1 DEF CacheTypeOK
<1>5. CacheTypeOK'
  BY <1>1, <1>2, <1>3, <1>4, LoginTypes, StartFetchTypes DEF CacheTypeOK
<1> QED BY <1>2, <1>4, <1>1, <1>5, StartFetchTypes, FreshRead

LEMMA UnheardKeeps == ASSUME CacheInv, NEW r \in Patch, Unheard(r) PROVE CacheInv'
<1>1. /\ r \notin waiting /\ patch' = [patch EXCEPT ![r] = IdlePatch]
      /\ UNCHANGED <<row, tab, cookie, login, waiting, late>>
  BY DEF Unheard
<1>2. CacheTypeOK'
  BY <1>1, IdlePatchFits DEF CacheInv, CacheTypeOK, tab
<1>3. \A k \in waiting : patch'[k] = patch[k]
  BY <1>1 DEF CacheInv, CacheTypeOK
<1> QED BY <1>1, <1>2, <1>3, TabStays

\* A column that is written is the business of a save awaited, or late.
LEMMA HandlerKeeps == ASSUME CacheInv, NEW r \in Patch, HandlerStep(r) PROVE CacheInv'
<1>1. PatchStep(r) /\ UNCHANGED <<tab, cookie, login, waiting>>
      /\ late' = IF r \in waiting THEN late ELSE late \cup (patch[r].todo \ patch'[r].todo)
  BY DEF HandlerStep
<1>2. /\ patch' \in [Patch -> PatchJob] /\ row' \in Account
      /\ \A k \in Patch \ {r} : patch'[k] = patch[k]
      /\ patch'[r].body = patch[r].body /\ patch'[r].at # "idle"
      /\ patch'[r].todo \subseteq patch[r].todo
      /\ \A f \in Field : row'[f] # row[f] => f \in patch[r].todo \ patch'[r].todo
  BY <1>1, HandlerWrites DEF CacheInv
<1>3. CacheTypeOK' /\ \A k \in waiting : patch'[k].body = patch[k].body
  BY <1>1, <1>2 DEF CacheInv, CacheTypeOK, tab
<1>4. \A f \in Field : Pending(f)' = Pending(f)
  BY <1>1, <1>3 DEF Pending
<1>5. \A f \in Field : row'[f] # row[f] => f \in late' \/ Pending(f)
  BY <1>1, <1>2 DEF Pending, CacheInv, CacheTypeOK
<1>6. \A dto : Current(dto) => \A f \in Field : f \in late' \/ dto[f] = row'[f] \/ Pending(f)'
  BY <1>1, <1>4, <1>5 DEF Current
<1>7. UNCHANGED <<me, err, fetch, cookie, login>>
  BY <1>1 DEF tab
<1>8. ReadInv' /\ ShownInv' /\ AuthInv'
  BY <1>6, <1>7 DEF CacheInv, ReadInv, ShownInv, AuthInv, Current
<1> QED BY <1>3, <1>8 DEF CacheInv

LEMMA ScreenKeeps ==
  ASSUME CacheInv,
         \/ ReopenModal \/ Expire \/ UNCHANGED vars
         \/ \E l \in Login : SubmitCredentials(l) \/ AnswerCredentials(l)
  PROVE  CacheInv'
<1>1. CASE ReopenModal \/ UNCHANGED vars
  <2>1. UNCHANGED <<row, patch, waiting, login, tab, cookie, late>>
    BY <1>1 DEF ReopenModal, vars, tab
  <2> QED BY <2>1, TabStays DEF CacheInv, CacheTypeOK, tab
<1>2. CASE Expire
  <2>1. UNCHANGED <<row, patch, waiting, login, tab, late>> /\ cookie' = FALSE
    BY <1>2 DEF Expire
  <2> QED BY <2>1, TabStays DEF CacheInv, CacheTypeOK, tab
<1>3. ASSUME NEW l \in Login, SubmitCredentials(l) PROVE CacheInv'
  <2>1. UNCHANGED <<row, patch, waiting, tab, cookie, late>> /\ login' = [login EXCEPT ![l] = "sent"]
        /\ login[l] = "idle"
    BY <1>3 DEF SubmitCredentials
  <2> QED BY <2>1, TabStays DEF CacheInv, CacheTypeOK, tab
<1>4. ASSUME NEW l \in Login, AnswerCredentials(l) PROVE CacheInv'
  <2>1. UNCHANGED <<row, patch, waiting, tab, late>> /\ cookie' \in {cookie, TRUE}
        /\ login' = [login EXCEPT ![l] = "answered"]
    BY <1>4 DEF AnswerCredentials
  <2>2. login'[l] = "answered"
    BY <2>1 DEF CacheInv, CacheTypeOK
  <2> QED BY <2>1, <2>2, TabStays DEF CacheInv, CacheTypeOK, tab
<1> QED BY <1>1, <1>2, <1>3, <1>4

\* The other steps that start a read.
LEMMA StartKeeps ==
  ASSUME CacheInv, Focus \/ RequestSettles \/ SignOut \/ \E l \in Login : SettleCredentials(l)
  PROVE  CacheInv'
<1>1. CacheTypeOK
  BY DEF CacheInv
<1>2. /\ StartFetch(cookie') /\ cookie' \in BOOLEAN /\ UNCHANGED <<row, patch>>
      /\ waiting' \subseteq waiting
  <2>1. CASE Focus
    BY <1>1, <2>1 DEF Focus, CacheTypeOK
  <2>2. CASE RequestSettles
    <3>1. me' # None /\ InvalidateOnly(cookie) /\ UNCHANGED <<row, patch, waiting, cookie>>
      BY <2>2 DEF RequestSettles
    <3> QED BY <1>1, <3>1 DEF InvalidateOnly, CacheTypeOK
  <2>3. CASE SignOut
    BY <1>1, <2>3 DEF SignOut, CacheTypeOK
  <2>4. CASE \E l \in Login : SettleCredentials(l)
    BY <1>1, <2>4 DEF SettleCredentials, ReconcileMeWrite, CacheTypeOK
  <2> QED BY <2>1, <2>2, <2>3, <2>4
<1>3. login' \in [Login -> {"idle", "sent", "answered", "reading"}]
  <2>1. CASE Focus
    BY <1>1, <2>1 DEF Focus, CacheTypeOK
  <2>2. CASE RequestSettles
    BY <1>1, <2>2, LoginTypes DEF RequestSettles
  <2>3. CASE SignOut
    BY <1>1, <2>3, LoginTypes DEF SignOut
  <2>4. CASE \E l \in Login : SettleCredentials(l)
    BY <1>1, <2>4, LoginTypes DEF SettleCredentials
  <2> QED BY <2>1, <2>2, <2>3, <2>4
<1>4. CacheTypeOK' /\ fetch' = [NoRead EXCEPT !.at = "sent", !.auth = cookie']
  BY <1>1, <1>2, <1>3, StartFetchTypes DEF CacheTypeOK
<1> QED BY <1>4, FreshRead

LEMMA ReadsKeeps == ASSUME CacheInv, FetchReads PROVE CacheInv'
<1>1. /\ fetch' = [fetch EXCEPT !.at = "read", !.dto = row] /\ fetch \in Read /\ row \in Account
      /\ UNCHANGED <<row, patch, err, cookie, login, waiting>>
  BY DEF FetchReads, CacheInv, CacheTypeOK
<1>2. fetch' \in Read /\ fetch'.at = "read" /\ fetch'.dto = row
  BY <1>1 DEF Read
<1>3. CacheTypeOK'
  BY <1>1, <1>2 DEF CacheInv, CacheTypeOK
<1> QED BY <1>1, <1>2, <1>3 DEF CacheInv, ReadInv, ShownInv, AuthInv, Current

LEMMA LandsKeeps == ASSUME CacheInv, FetchLands PROVE CacheInv'
<1>1. /\ fetch' = NoRead /\ UNCHANGED <<row, patch, cookie, waiting, late>>
      /\ login' = [l \in Login |-> IF login[l] = "reading" THEN "idle" ELSE login[l]]
      /\ \/ fetch.at = "read" /\ me' = fetch.dto /\ err' = "none"
         \/ fetch.at = "sent" /\ ~fetch.auth /\ err' = "unauthorized"
         \/ err' \in {"api", "network"}
  BY DEF FetchLands
<1>2. fetch' \in Read /\ fetch'.at = "idle"
  BY <1>1 DEF Read, NoRead
<1>3. CacheTypeOK'
  BY <1>1, <1>2, LoginTypes DEF CacheInv, CacheTypeOK
<1>4. \A f \in Field : Pending(f)' = Pending(f)
  BY <1>1 DEF Pending
<1>5. ShownInv'
  BY <1>1, <1>4, ProfileAssumption DEF CacheInv, ReadInv, ShownInv, Current
<1>6. \A l \in Login : login[l] = "answered" => login'[l] = "answered"
  BY <1>1
<1>7. AuthInv'
  BY <1>1, <1>2, <1>6 DEF CacheInv, AuthInv
<1> QED BY <1>2, <1>3, <1>5, <1>7 DEF CacheInv, ReadInv

LEMMA StepKeeps == CacheInv /\ [Next]_vars => CacheInv'
<1> SUFFICES ASSUME CacheInv, [Next]_vars PROVE CacheInv'
  OBVIOUS
<1>1. ASSUME NEW r \in Patch, NEW f \in Field, NEW v \in Address \cup {None, "on"}, Save(r, f, v)
      PROVE  CacheInv'
  BY <1>1, SaveKeeps
<1>2. ASSUME NEW r \in Patch, Settle(r) \/ Drop(r) PROVE CacheInv'
  BY <1>2, SettleKeeps
<1>3. ASSUME NEW r \in Patch, Unheard(r) PROVE CacheInv'
  BY <1>3, UnheardKeeps
<1>4. ASSUME NEW r \in Patch, HandlerStep(r) PROVE CacheInv'
  BY <1>4, HandlerKeeps
<1>5. CASE \/ ReopenModal \/ Expire \/ UNCHANGED vars
           \/ \E l \in Login : SubmitCredentials(l) \/ AnswerCredentials(l)
  BY <1>5, ScreenKeeps
<1>6. CASE Focus \/ RequestSettles \/ SignOut \/ \E l \in Login : SettleCredentials(l)
  BY <1>6, StartKeeps
<1>7. CASE FetchReads \/ FetchLands
  BY <1>7, ReadsKeeps, LandsKeeps
<1> QED BY <1>1, <1>2, <1>3, <1>4, <1>5, <1>6, <1>7 DEF Next

-------------------------------------------------------------------------------
(* The theorems                                                              *)

LEMMA CacheInvHolds == Spec => []CacheInv
  BY InitHolds, StepKeeps, PTL DEF Spec

LEMMA QuietIsCurrent == ASSUME CacheInv PROVE CacheConverges
<1> SUFFICES ASSUME fetch.at = "idle", waiting = {}, err \notin {"api", "network"}, cookie,
                    \A l \in Login : login[l] = "idle"
             PROVE  Shell = "app" /\ \A f \in Field \ late : me[f] = row[f]
  BY DEF CacheConverges
<1>1. err = "none"
  BY DEF CacheInv, CacheTypeOK, AuthInv
<1> QED BY <1>1 DEF CacheInv, ShownInv, Current, Pending, Shell

\* For any saves, logins, drops, expiries and sign-outs: once nothing is in flight and
\* the last read was not lost, a signed-in tab shows the application and the stored
\* record, but for fields only written by saves it gave up on (reconcileMeWrite,
\* resolveMeShell).
THEOREM TabShowsTheRow == Spec => []CacheConverges
  BY CacheInvHolds, QuietIsCurrent, PTL

\* No step turns a field that shows the stored value into one that does not while no
\* save of that field is unsettled: an older answer or read never rolls back a
\* sibling's save (mergeMeCache, reconcileMeWrite).
THEOREM SavesAreNotRolledBack == Spec => NoRollback
<1> DEFINE Keeps ==
      \A f \in Field :
        /\ me # None /\ me' # None /\ row' = row
        /\ me[f] = row[f] /\ f \notin late
        /\ \A r \in Patch : f \notin DOMAIN patch[r].body
        => me'[f] = row[f]
<1>1. ASSUME CacheInv, [Next]_vars PROVE [Keeps]_vars
  <2> SUFFICES ASSUME Next, NEW f \in Field, me # None, me' # None, me[f] = row[f], f \notin late,
                      \A r \in Patch : f \notin DOMAIN patch[r].body
               PROVE  me'[f] = row[f]
    BY <1>1
  <2>1. ~Pending(f)
    BY <1>1 DEF Pending, CacheInv, CacheTypeOK
  <2>2. CASE me' = me
    BY <2>2
  <2>3. ASSUME NEW r \in Patch, Settle(r) PROVE me'[f] = row[f]
    <3>1. me' = me \/ me' = MergeMeCache(me, patch[r].dto, patch[r].body)
      BY <2>3 DEF Settle
    <3>2. MergeMeCache(me, patch[r].dto, patch[r].body)[f] = me[f]
      BY DEF MergeMeCache
    <3> QED BY <3>1, <3>2
  <2>4. CASE FetchLands
    <3>1. me' = me \/ (fetch.at = "read" /\ me' = fetch.dto)
      BY <2>4 DEF FetchLands
    <3> QED BY <1>1, <2>1, <3>1 DEF CacheInv, ReadInv, Current
  <2>5. CASE SignOut
    BY <2>5 DEF SignOut
  <2>6. me' = me \/ SignOut \/ FetchLands \/ \E r \in Patch : Settle(r)
    BY DEF Next, Save, Drop, Unheard, HandlerStep, SubmitCredentials, AnswerCredentials,
           SettleCredentials, ReopenModal, FetchReads, Focus, RequestSettles, Expire, tab
  <2> QED BY <2>2, <2>3, <2>4, <2>5, <2>6
<1> HIDE DEF Keeps
<1>2. Spec => [][Keeps]_vars
  BY <1>1, CacheInvHolds, PTL DEF Spec
<1> QED BY <1>2 DEF Keeps, NoRollback
===============================================================================
