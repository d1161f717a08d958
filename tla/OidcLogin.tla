------------------------------ MODULE OidcLogin -------------------------------
(***************************************************************************)
(* OidcLogin: OidcService (oidc.service.ts) behind the login and callback   *)
(* routes, and the part of upsertFromOidc (user.service.ts) that backfills  *)
(* a returning user's contact, beside that user's own PATCH /api/me.        *)
(*                                                                          *)
(* The service keeps two things in memory: one discovery promise shared by  *)
(* every request, and the pending authorizations, each redeemable once.     *)
(* Both are lost on a restart.  The clock of a request is read when it      *)
(* arrives and used after its awaits.                                       *)
(***************************************************************************)
EXTENDS Profile

CONSTANTS Begin,      \* request slots of GET /api/auth/oidc/:provider/login
          Callback,   \* request slots of GET /api/auth/oidc/:provider/callback
          Bodies,     \* the bodies the account page sends
          PendingTtl, MaxTime,   \* bound: the clock
          MaxStates   \* bound: authorization states ever minted

ASSUME OidcBoundsAssumption ==
         Bodies \subseteq Body /\ PendingTtl \in Nat /\ MaxTime \in Nat /\ MaxStates \in Nat \ {0}

VARIABLES now, discovery, \* configPromise: none, pending or ready
          pending,        \* pending[s]: createdAt of an authorization still redeemable
          begin,          \* begin[b]: where a login request stands
          callback,       \* callback[k]: where a callback stands
          standing,       \* the user's status column
          minted,         \* minted[s]: createdAt of every state ever handed out (observation)
          redeemed,       \* redeemed[s]: callbacks that passed with state s (observation)
          lost,           \* states forgotten by a restart (observation)
          wronged         \* a callback was refused a state it could redeem, or passed with
                          \* one past its lifetime (observation)

memory == <<discovery, pending>>
observations == <<minted, redeemed, lost, wronged>>
vars == <<row, patch, faults, now, memory, begin, callback, standing, observations>>

State == 1..MaxStates
Time == 0..MaxTime

IdleBegin == [at |-> "idle", mark |-> 0]
IdleCallback == [at |-> "idle", state |-> 1, mark |-> 0, claim |-> None, seen |-> None, raced |-> FALSE]

Init == /\ ProfileInit
        /\ now = 0 /\ discovery = "none"
        /\ pending = [s \in State |-> None]
        /\ begin = [b \in Begin |-> IdleBegin]
        /\ callback = [k \in Callback |-> IdleCallback]
        /\ standing = "active"
        /\ minted = [s \in State |-> None] /\ redeemed = [s \in State |-> 0]
        /\ lost = {} /\ wronged = FALSE

-------------------------------------------------------------------------------
\* getConfig: the first to ask starts a discovery, the others wait on it.
AskConfig == discovery' = IF discovery = "none" THEN "pending" ELSE discovery

\* Mutant: the age is not looked at.
NeverExpires(created, mark) == FALSE
Expired(created, mark) == mark - created > PendingTtl

Sweep(mark) == [s \in State |-> IF pending[s] # None /\ Expired(pending[s], mark) THEN None
                                ELSE pending[s]]

NextState(s) == minted[s] = None /\ \A p \in 1..(s - 1) : minted[p] # None

\* GET .../login: buildAuthUrl up to its first await.
BeginLogin(b) ==
  /\ begin[b].at = "idle"
  /\ begin' = [begin EXCEPT ![b] = [at |-> "config", mark |-> now]]
  /\ AskConfig
  /\ UNCHANGED <<row, patch, faults, now, pending, callback, standing, observations>>

\* The configuration is there; the PKCE challenge is another await.
Challenge(b) ==
  /\ begin[b].at = "config" /\ discovery = "ready"
  /\ begin' = [begin EXCEPT ![b].at = "challenge"]
  /\ UNCHANGED <<row, patch, faults, now, memory, callback, standing, observations>>

\* Sweep, remember the new state, redirect.
Redirect(b) ==
  /\ begin[b].at = "challenge"
  /\ \E s \in State : /\ NextState(s)
                      /\ pending' = [Sweep(begin[b].mark) EXCEPT ![s] = begin[b].mark]
                      /\ minted' = [minted EXCEPT ![s] = begin[b].mark]
  /\ begin' = [begin EXCEPT ![b] = IdleBegin]
  /\ UNCHANGED <<row, patch, faults, now, discovery, callback, standing, redeemed, lost, wronged>>

DiscoverySucceeds ==
  /\ discovery = "pending"
  /\ discovery' = "ready"
  /\ UNCHANGED <<row, patch, faults, now, pending, begin, callback, standing, observations>>

\* The promise is dropped and everyone who waits on it is refused.
DiscoveryFails ==
  /\ discovery = "pending" /\ faults < MaxFaults
  /\ discovery' = "none" /\ faults' = faults + 1
  /\ begin' = [b \in Begin |-> IF begin[b].at = "config" THEN IdleBegin ELSE begin[b]]
  /\ callback' = [k \in Callback |-> IF callback[k].at = "config" THEN IdleCallback ELSE callback[k]]
  /\ UNCHANGED <<row, patch, now, pending, standing, observations>>

-------------------------------------------------------------------------------
\* GET .../callback with a state that was once handed out: handleCallback up to
\* its first await.
CallbackArrives(k, s) ==
  /\ callback[k].at = "idle" /\ minted[s] # None
  /\ callback' = [callback EXCEPT ![k] = [IdleCallback EXCEPT !.at = "config", !.state = s, !.mark = now]]
  /\ AskConfig
  /\ UNCHANGED <<row, patch, faults, now, pending, begin, standing, observations>>

\* The callbacks between find and update, with the row changed under them (observation).
Raced == [k \in Callback |-> IF callback[k].at = "update" THEN [callback[k] EXCEPT !.raced = TRUE]
                             ELSE callback[k]]

\* A refused or failed callback bounces to the login screen.
Bounce(k) == callback' = [callback EXCEPT ![k] = IdleCallback]

\* Mutant: the state is only forgotten once the exchange is done.
KeepUntilExchanged(s) == pending
Forget(s) == [pending EXCEPT ![s] = None]

\* One step: look the state up, check its age, delete it.
Redeem(k) ==
  LET s == callback[k].state
  IN /\ callback[k].at = "config" /\ discovery = "ready"
     /\ IF pending[s] = None \/ Expired(pending[s], callback[k].mark)
        THEN /\ Bounce(k)
             /\ wronged' = (wronged \/ (/\ redeemed[s] = 0 /\ s \notin lost
                                        /\ ~Expired(minted[s], callback[k].mark)))
             /\ UNCHANGED <<pending, redeemed>>
        ELSE /\ pending' = Forget(s)
             /\ redeemed' = [redeemed EXCEPT ![s] = @ + 1]
             /\ callback' = [callback EXCEPT ![k].at = "exchange"]
             /\ wronged' = (wronged \/ callback[k].mark - minted[s] > PendingTtl)
     /\ UNCHANGED <<row, patch, faults, now, discovery, begin, standing, minted, lost>>

\* The token exchange, the best-effort userinfo and mapClaims yield a profile whose
\* email claim may be missing or undeliverable.
Exchange(k) ==
  /\ callback[k].at = "exchange"
  /\ \E claim \in Address \cup {None} :
       callback' = [callback EXCEPT ![k].at = "find", ![k].claim = claim]
  /\ UNCHANGED <<row, patch, faults, now, memory, begin, standing, observations>>

\* The exchange is refused, or a database call fails.
CallbackFails(k) ==
  /\ callback[k].at \in {"exchange", "find", "update"} /\ faults < MaxFaults
  /\ faults' = faults + 1
  /\ Bounce(k)
  /\ UNCHANGED <<row, patch, now, memory, begin, standing, observations>>

\* findByIdentity: a rejected account is frozen and logs in as it is.
Find(k) ==
  /\ callback[k].at = "find"
  /\ IF standing = "rejected" THEN Bounce(k)
     ELSE callback' = [callback EXCEPT ![k].at = "update", ![k].seen = row["email"]]
  /\ UNCHANGED <<row, patch, faults, now, memory, begin, standing, observations>>

\* Mutant: the claim wins over the stored address.
ClaimFirst(seen, claim) == IF claim # None THEN claim ELSE seen
Coalesce(seen, claim) == IF seen # None THEN seen ELSE claim

\* The update by id, from the row as it was found.
Backfill(k) ==
  /\ callback[k].at = "update"
  /\ row' = [row EXCEPT !["email"] = Coalesce(callback[k].seen, callback[k].claim)]
  /\ callback' = [(IF row' = row THEN callback ELSE Raced) EXCEPT ![k] = IdleCallback]
  /\ UNCHANGED <<patch, faults, now, memory, begin, standing, observations>>

-------------------------------------------------------------------------------
\* The user's own PATCH /api/me.
SubmitPatch(r, body) ==
  /\ Submit(r, body)
  /\ UNCHANGED <<row, faults, now, memory, begin, callback, standing, observations>>

PatchProceeds(r) ==
  /\ PatchStep(r)
  /\ IF "email" \in patch[r].todo \ patch'[r].todo THEN callback' = Raced ELSE UNCHANGED callback
  /\ UNCHANGED <<now, memory, begin, standing, observations>>

PatchAnswered(r) ==
  /\ patch[r].at = "answered"
  /\ patch' = [patch EXCEPT ![r] = IdlePatch]
  /\ UNCHANGED <<row, faults, now, memory, begin, callback, standing, observations>>

\* An admin rejects or reinstates the user.
SetStanding ==
  /\ standing' \in {"active", "rejected"} \ {standing}
  /\ callback' = Raced
  /\ UNCHANGED <<row, patch, faults, now, memory, begin, observations>>

\* A request that waits on a settled promise resumes before the clock moves on.
Tick == /\ now < MaxTime
        /\ discovery = "ready" => /\ \A b \in Begin : begin[b].at # "config"
                                  /\ \A k \in Callback : callback[k].at # "config"
        /\ now' = now + 1
        /\ UNCHANGED <<row, patch, faults, memory, begin, callback, standing, observations>>

\* A restart forgets the discovery, the pending states and every request.
Restart ==
  /\ faults < MaxFaults
  /\ faults' = faults + 1
  /\ discovery' = "none"
  /\ lost' = lost \cup {s \in State : pending[s] # None}
  /\ pending' = [s \in State |-> None]
  /\ begin' = [b \in Begin |-> IdleBegin]
  /\ callback' = [k \in Callback |-> IdleCallback]
  /\ patch' = [r \in Patch |-> IdlePatch]
  /\ UNCHANGED <<row, now, standing, minted, redeemed, wronged>>

-------------------------------------------------------------------------------
Next == \/ \E b \in Begin : BeginLogin(b) \/ Challenge(b) \/ Redirect(b)
        \/ DiscoverySucceeds \/ DiscoveryFails
        \/ \E k \in Callback : \/ \E s \in State : CallbackArrives(k, s)
                               \/ Redeem(k) \/ Exchange(k) \/ CallbackFails(k)
                               \/ Find(k) \/ Backfill(k)
        \/ \E r \in Patch : \/ \E body \in Bodies : SubmitPatch(r, body)
                            \/ PatchProceeds(r) \/ PatchAnswered(r)
        \/ SetStanding \/ Tick \/ Restart

Spec == Init /\ [][Next]_vars

-------------------------------------------------------------------------------
\* Every variable has its type; whoever waits for the configuration has a discovery
\* to wait for, so no request hangs on a promise that was dropped.
TypeOK == /\ ProfileTypeOK
          /\ now \in Time /\ discovery \in {"none", "pending", "ready"}
          /\ pending \in [State -> Time \cup {None}]
          /\ begin \in [Begin -> [at : {"idle", "config", "challenge"}, mark : Time]]
          /\ callback \in [Callback -> [at : {"idle", "config", "exchange", "find", "update"},
                                        state : State, mark : Time, claim : Address \cup {None},
                                        seen : Address \cup {None}, raced : BOOLEAN]]
          /\ standing \in {"active", "rejected"}
          /\ minted \in [State -> Time \cup {None}] /\ redeemed \in [State -> Nat]
          /\ lost \in SUBSET State /\ wronged \in BOOLEAN
          /\ (\E b \in Begin : begin[b].at = "config") \/ (\E k \in Callback : callback[k].at = "config")
               => discovery # "none"

\* A state passes at most one callback, however often it is replayed and whatever
\* the first one's exchange came to; and it passes the first that arrives within
\* the lifetime of its login, whatever other logins, sweeps or discovery failures
\* happen meanwhile, unless a restart forgot it.  After that lifetime it passes none,
\* swept or not.
StatesRedeemOnce == (\A s \in State : redeemed[s] <= 1) /\ ~wronged

\* A login beside the account page and other logins: it changes a stored contact
\* only if the contact was written, or the account rejected or reinstated, between
\* its own find and update; otherwise it may only fill an empty one, and never that
\* of a rejected account.
ContactStands ==
  [][\A k \in Callback :
       /\ callback[k].at = "update" /\ callback'[k].at = "idle" /\ ~callback[k].raced
       /\ row'["email"] # row["email"]
       => row["email"] = None /\ standing = "active"]_vars
===============================================================================
