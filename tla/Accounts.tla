------------------------------- MODULE Accounts -------------------------------
(***************************************************************************)
(* Accounts: UserService (user.service.ts) behind the sign-up, login and    *)
(* user-management routes, over the identity, role and standing columns of  *)
(* the `users` table and the session cookies of the browsers.               *)
(*                                                                          *)
(* One action per await of a handler.  A session is stateless: a cookie     *)
(* naming a row, reloaded on every request.  Login handlers and             *)
(* user-management handlers are separate sets, so that a configuration says *)
(* how many of each run beside each other.                                  *)
(***************************************************************************)
EXTENDS Integers, FiniteSets

CONSTANTS Person,       \* people: each has a browser, a password, an OIDC subject
          Email,        \* addresses used for local sign-up
          Pins,         \* BOOTSTRAP_ADMIN settings: each the identities it matches
          LoginHandler, AdminHandler,
          None,
          MaxUsers      \* bound: rows ever inserted

Id == 1..MaxUsers
Handler == LoginHandler \cup AdminHandler
Identity == ({"local"} \X Email) \cup ({"oidc"} \X Person)
DevAdmin == <<"local", "dev-admin">>

ASSUME AccountsBoundsAssumption == MaxUsers \in Nat \ {0}
ASSUME AccountsNamesAssumption ==
         /\ "dev-admin" \notin Email /\ Pins \subseteq SUBSET Identity
         /\ None \notin Person \cup Pins \cup Identity
ASSUME AccountsHandlersAssumption == LoginHandler \cap AdminHandler = {}

VARIABLES users,     \* users[i]: row i of the users table
          session,   \* session[c]: the row c's cookie names, 0 without a cookie
          job,       \* job[h]: where handler h's request stands
          pin,       \* this deployment's BOOTSTRAP_ADMIN
          pinged,    \* pinged[i]: user.pending notifications for row i (observation)
          elected    \* rows created as admin (observation)

vars == <<users, session, job, pin, pinged, elected>>

Role == {"user", "admin"}
Standing == {"pending", "active", "rejected"}
User == [identity : Identity \cup {DevAdmin, None},
         owner : Person \cup {None},            \* who knows the password, or holds the subject
         role : Role, status : Standing]
AbsentUser == [identity |-> None, owner |-> None, role |-> "user", status |-> "pending"]

Kind == {"signup", "login", "oidc", None}
Job == [at : {"idle", "lookup", "create", "reread", "respond", "update"},
        kind : Kind, person : Person \cup {None}, identity : Identity \cup {None},
        row : 0..MaxUsers, created : BOOLEAN,
        by : 0..MaxUsers,                      \* the admin a PATCH was admitted for
        status : Standing \cup {None}, role : Role \cup {None}]
Idle == [at |-> "idle", kind |-> None, person |-> None, identity |-> None,
         row |-> 0, created |-> FALSE, by |-> 0, status |-> None, role |-> None]

\* A volume that once ran with AUTH_BYPASS holds the dev-admin row.
Init == /\ \E bypassed \in BOOLEAN :
             users = [i \in Id |-> IF bypassed /\ i = 1
                                   THEN [AbsentUser EXCEPT !.identity = DevAdmin, !.role = "admin",
                                                           !.status = "active"]
                                   ELSE AbsentUser]
        /\ session = [c \in Person |-> 0]
        /\ job = [h \in Handler |-> Idle]
        /\ pin \in Pins \cup {None}
        /\ pinged = [i \in Id |-> 0]
        /\ elected = {}

observations == <<pinged, elected>>

-------------------------------------------------------------------------------
Present == {i \in Id : users[i].identity # None}

\* The rows the first-user rule counts.
RealUsers == {i \in Present : users[i].identity # DevAdmin}

FindByIdentity(identity) == {i \in Present : users[i].identity = identity}

Done(h) == job' = [job EXCEPT ![h] = Idle]

\* The handler is about to resume with row i as its result; the standing of a row
\* it did not create is not looked at again.
Resolve(h, i, created, status) ==
  job' = [job EXCEPT ![h] = [Idle EXCEPT !.at = "respond", !.kind = job[h].kind, !.person = job[h].person,
                                         !.row = i, !.created = created, !.status = status]]

-------------------------------------------------------------------------------
(* POST /api/auth/local/signup, POST /api/auth/local/login, OIDC callback    *)

Begin(h, kind, c, identity) ==
  /\ job[h].at = "idle"
  /\ job' = [job EXCEPT ![h] = [Idle EXCEPT !.at = "lookup", !.kind = kind, !.person = c,
                                            !.identity = identity]]
  /\ UNCHANGED <<users, session, pin, observations>>

Signup(h, c, e) == Begin(h, "signup", c, <<"local", e>>)
LocalLogin(h, c, e) == Begin(h, "login", c, <<"local", e>>)

\* The code exchange proved that c holds its subject.
OidcCallback(h, c) == Begin(h, "oidc", c, <<"oidc", c>>)

\* findLocalByEmail before a sign-up: a known address answers 409, a free one is
\* hashed for and inserted.
SignupLookup(h) ==
  /\ job[h].at = "lookup" /\ job[h].kind = "signup"
  /\ job' = [job EXCEPT ![h] = IF FindByIdentity(@.identity) = {} THEN [@ EXCEPT !.at = "create"]
                               ELSE Idle]
  /\ UNCHANGED <<users, session, pin, observations>>

\* findLocalByEmail and verifyPassword.
LoginLookup(h) ==
  /\ job[h].at = "lookup" /\ job[h].kind = "login"
  /\ \/ \E i \in FindByIdentity(job[h].identity) :
          /\ users[i].owner = job[h].person
          /\ Resolve(h, i, FALSE, None)
     \/ /\ \A i \in FindByIdentity(job[h].identity) : users[i].owner # job[h].person
        /\ Done(h)
  /\ UNCHANGED <<users, session, pin, observations>>

\* upsertFromOidc: a known identity resolves to its row (whose display fields it
\* refreshes unless rejected, never role or standing), a new one is created.
OidcLookup(h) ==
  /\ job[h].at = "lookup" /\ job[h].kind = "oidc"
  /\ \/ /\ FindByIdentity(job[h].identity) = {}
        /\ job' = [job EXCEPT ![h].at = "create"]
     \/ \E i \in FindByIdentity(job[h].identity) : Resolve(h, i, FALSE, None)
  /\ UNCHANGED <<users, session, pin, observations>>

\* Mutant: the dev-admin row counts as a user.
GrantsIfEmpty(identity) == IF pin # None THEN identity \in pin ELSE Present = {}
\* bootstrapGrant, or the CASE on the count evaluated inside the INSERT.
GrantsAdmin(identity) == IF pin # None THEN identity \in pin ELSE RealUsers = {}

\* Mutant: no unique index on (provider, subject).
NoIdentityIndex(identity) == FALSE
IdentityTaken(identity) == FindByIdentity(identity) # {}

NextId(i) == i \notin Present /\ \A k \in 1..(i - 1) : k \in Present

\* createIdentity: the INSERT, or the unique violation it meets.
CreateIdentity(h) ==
  LET j == job[h]
      admin == GrantsAdmin(j.identity)
      status == IF admin THEN "active" ELSE "pending"
  IN /\ j.at = "create"
     /\ \/ /\ IdentityTaken(j.identity)
           /\ job' = [job EXCEPT ![h].at = "reread"]
           /\ UNCHANGED <<users, elected>>
        \/ /\ ~IdentityTaken(j.identity)
           /\ \E i \in Id :
                /\ NextId(i)
                /\ users' = [users EXCEPT ![i] =
                     [identity |-> j.identity, owner |-> j.person,
                      role |-> IF admin THEN "admin" ELSE "user", status |-> status]]
                /\ elected' = IF admin THEN elected \cup {i} ELSE elected
                /\ Resolve(h, i, TRUE, status)
        \/ /\ Present = Id          \* at the bound the insert fails
           /\ Done(h)
           /\ UNCHANGED <<users, elected>>
     /\ UNCHANGED <<session, pin, pinged>>

\* createIdentity's catch: the winner's row, not created here.
ReadOnConflict(h) ==
  /\ job[h].at = "reread"
  /\ \E i \in FindByIdentity(job[h].identity) : Resolve(h, i, FALSE, None)
  /\ UNCHANGED <<users, session, pin, observations>>

\* Mutant: a sign-up that lost the insert is logged in all the same.
LogsInAnyway(h) == TRUE
LogsIn(h) == job[h].kind = "signup" => job[h].created

\* The rest of the route: EMAIL_TAKEN for a sign-up that lost the insert, otherwise
\* the cookie, and the heads-up for a fresh pending row.
Respond(h) ==
  LET j == job[h]
  IN /\ j.at = "respond"
     /\ IF LogsIn(h)
        THEN /\ session' = [session EXCEPT ![j.person] = j.row]
             /\ pinged' = [pinged EXCEPT ![j.row] = IF j.created /\ j.status = "pending"
                                                    THEN @ + 1 ELSE @]
        ELSE UNCHANGED <<session, pinged>>
     /\ Done(h)
     /\ UNCHANGED <<users, pin, elected>>

Logout(c) == /\ session[c] # 0
             /\ session' = [session EXCEPT ![c] = 0]
             /\ UNCHANGED <<users, job, pin, observations>>

-------------------------------------------------------------------------------
(* PATCH /api/admin/users/:publicId                                          *)

\* Mutant: no self-guard.
Anyone(me, target) == TRUE
\* An admin cannot change their own role or status.
SelfGuard(me, target) == me # target

\* The onRequest hook reloaded the caller's row; requireAdmin and the guard passed.
AdminPatch(h, c, target, role, status) ==
  /\ job[h].at = "idle"
  /\ session[c] # 0 /\ users[session[c]].role = "admin"
  /\ target \in Present /\ SelfGuard(session[c], target)
  /\ role # None \/ status # None
  /\ job' = [job EXCEPT ![h] = [Idle EXCEPT !.at = "update", !.row = target, !.by = session[c],
                                            !.role = role, !.status = status]]
  /\ UNCHANGED <<users, session, pin, observations>>

Patched(old, new) == IF new = None THEN old ELSE new

\* updateUser: one UPDATE of the given columns.
UpdateUser(h) ==
  LET j == job[h]
  IN /\ j.at = "update"
     /\ users' = [users EXCEPT ![j.row].role = Patched(@, j.role),
                               ![j.row].status = Patched(@, j.status)]
     /\ Done(h)
     /\ UNCHANGED <<session, pin, observations>>

-------------------------------------------------------------------------------
\* A database call throws: the request answers 500.
DatabaseFault(h) == /\ job[h].at \notin {"idle", "respond"}
                    /\ Done(h)
                    /\ UNCHANGED <<users, session, pin, observations>>

\* The process restarts: rows and cookies survive.
Crash == /\ job' = [h \in Handler |-> Idle]
         /\ UNCHANGED <<users, session, pin, observations>>

LoginStep(h) ==
  \/ \E c \in Person : \/ \E e \in Email : Signup(h, c, e) \/ LocalLogin(h, c, e)
                       \/ OidcCallback(h, c)
  \/ SignupLookup(h) \/ LoginLookup(h) \/ OidcLookup(h)
  \/ CreateIdentity(h) \/ ReadOnConflict(h) \/ Respond(h)

AdminStep(h) ==
  \/ \E c \in Person, target \in Id, role \in Role \cup {None}, status \in Standing \cup {None} :
       AdminPatch(h, c, target, role, status)
  \/ UpdateUser(h)

Next == \/ \E h \in LoginHandler : LoginStep(h)
        \/ \E h \in AdminHandler : AdminStep(h)
        \/ \E c \in Person : Logout(c)
        \/ \E h \in Handler : DatabaseFault(h)
        \/ Crash

Spec == Init /\ [][Next]_vars

-------------------------------------------------------------------------------
\* Every variable has its type.
TypeOK == /\ users \in [Id -> User]
          /\ session \in [Person -> 0..MaxUsers]
          /\ job \in [Handler -> Job]
          /\ pin \in Pins \cup {None}
          /\ pinged \in [Id -> Nat]
          /\ elected \in SUBSET Id

\* An identity has one account, however sign-ups and first logins interleave, and
\* its admins are told of it at most once.
OneAccountPerIdentity ==
  /\ \A i, k \in Present : i # k => users[i].identity # users[k].identity
  /\ \A i \in Id : pinged[i] <= 1

\* A cookie names only an account whose password or subject its holder has proved,
\* also when two people race to sign up with one address.
SessionsAreOwn ==
  \A c \in Person : session[c] # 0 => session[c] \in Present /\ users[session[c]].owner = c

\* Without a pin exactly the first real account is created as admin, whatever sign-ups
\* race and whether a bypass run left its row; with one, nobody else is.
FirstAdmin ==
  IF pin = None THEN Cardinality(elected) = (IF RealUsers = {} THEN 0 ELSE 1)
                ELSE \A i \in elected : users[i].identity \in pin

\* What the comment over the route says (admin.ts:60-61): "the last admin can't be locked
\* out".  Once an account was created as admin, some real account is one.
AdminRemains == elected # {} => \E i \in RealUsers : users[i].role = "admin"

\* What the self-guard achieves: the last admin is only ever removed by a request whose
\* own author lost the role between its check and its update, never by an admin.
LastAdminFallsToRace ==
  [][AdminRemains /\ ~AdminRemains' =>
       \E h \in AdminHandler : /\ job[h].at = "update" /\ job'[h].at = "idle"
                              /\ users[job[h].by].role # "admin"]_vars
===============================================================================
