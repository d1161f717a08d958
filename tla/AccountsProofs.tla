---------------------------- MODULE AccountsProofs ----------------------------
(***************************************************************************)
(* Accounts for any people, addresses, pins and handlers: what the unique   *)
(* index gives the racing first logins and sign-ups, what the session       *)
(* cookie of a browser may therefore name, and what that and the self-guard *)
(* leave of the last admin.                                                 *)
(***************************************************************************)
EXTENDS Accounts, FiniteSetTheorems, TLAPS

\* An identity has one row, and an OIDC subject's row is its holder's.
IdentityInv ==
  /\ \A i, k \in Present : i # k => users[i].identity # users[k].identity
  /\ \A i \in Present, c \in Person : users[i].identity = <<"oidc", c>> => users[i].owner = c

\* What a handler carries from one await to the next.
JobOK(j) ==
  /\ j.at \in {"lookup", "create", "reread"} =>
       /\ j.kind \in {"signup", "login", "oidc"} /\ j.person \in Person /\ j.identity \in Identity
       /\ IF j.kind = "oidc" THEN j.identity = <<"oidc", j.person>> ELSE j.identity[1] = "local"
       /\ j.kind = "login" => j.at = "lookup"
  /\ j.at = "respond" =>
       /\ j.person \in Person /\ j.row \in Present
       /\ (j.kind = "signup" => j.created) => users[j.row].owner = j.person
       /\ j.created => pinged[j.row] = 0
  /\ j.at = "update" => j.row \in Id
  /\ j.created => j.at = "respond"

\* A row is reported by the one handler that inserted it.
FreshInv ==
  /\ \A h, g \in Handler :
       job[h].created /\ job[g].created /\ job[h].row = job[g].row => h = g
  /\ \A i \in Id : pinged[i] \in {0, 1} /\ (pinged[i] = 1 => i \in Present)

\* Who was created as admin.
ElectedInv ==
  /\ elected \subseteq Present
  /\ pin = None => IF RealUsers = {} THEN elected = {} ELSE \E i \in Id : elected = {i}
  /\ pin # None => \A i \in elected : users[i].identity \in pin

AInv == /\ TypeOK /\ IdentityInv /\ FreshInv /\ SessionsAreOwn /\ ElectedInv
        /\ \A h \in Handler : JobOK(job[h])

-------------------------------------------------------------------------------
LEMMA DevIsNobody == DevAdmin \notin Identity
  BY AccountsNamesAssumption DEF DevAdmin, Identity

LEMMA IdleOK == Idle \in Job /\ JobOK(Idle) /\ Idle.at = "idle" /\ ~Idle.created
  BY AccountsBoundsAssumption DEF Idle, Job, Kind, JobOK

LEMMA AInit == Init => AInv
<1>. SUFFICES ASSUME Init PROVE AInv
  OBVIOUS
<1>1. PICK bypassed \in BOOLEAN :
        users = [i \in Id |-> IF bypassed /\ i = 1
                              THEN [AbsentUser EXCEPT !.identity = DevAdmin, !.role = "admin", !.status = "active"]
                              ELSE AbsentUser]
  BY DEF Init
<1>2. AbsentUser \in User /\ [AbsentUser EXCEPT !.identity = DevAdmin, !.role = "admin", !.status = "active"] \in User
  BY DEF AbsentUser, User, Role, Standing
<1>3. users \in [Id -> User]
  BY <1>1, <1>2
<1>4. \A i \in Present : users[i].identity = DevAdmin /\ i = 1
  BY <1>1 DEF Present, AbsentUser
<1>5. \A h \in Handler : job[h] = Idle
  BY DEF Init
<1>6. TypeOK
  BY <1>3, IdleOK, AccountsBoundsAssumption DEF Init, TypeOK
<1>7. IdentityInv
  BY <1>4, DevIsNobody DEF IdentityInv, Identity
<1>8. FreshInv /\ SessionsAreOwn
  <2>1. \A i \in Id : pinged[i] = 0
    BY DEF Init
  <2>2. \A c \in Person : session[c] = 0
    BY DEF Init
  <2>3. \A h \in Handler : ~job[h].created
    BY <1>5, IdleOK
  <2>. QED  BY <2>1, <2>2, <2>3 DEF FreshInv, SessionsAreOwn
<1>9. ElectedInv
  BY <1>4 DEF Init, ElectedInv, RealUsers
<1>. QED  BY <1>5, <1>6, <1>7, <1>8, <1>9, IdleOK DEF AInv

-------------------------------------------------------------------------------
\* A step that only moves one handler, to a job it may carry and did not insert for.
LEMMA JobStep ==
  ASSUME AInv, NEW h \in Handler, NEW x \in Job, job' = [job EXCEPT ![h] = x],
         JobOK(x), ~x.created, UNCHANGED <<users, session, pin, observations>>
  PROVE  AInv'
<1>1. job' \in [Handler -> Job] /\ job'[h] = x /\ \A g \in Handler \ {h} : job'[g] = job[g]
  BY DEF AInv, TypeOK
<1>2. Present' = Present /\ RealUsers' = RealUsers /\ UNCHANGED <<pinged, elected>>
  BY DEF Present, RealUsers, observations
<1>3. TypeOK'
  BY <1>1, <1>2 DEF AInv, TypeOK
<1>4. IdentityInv' /\ SessionsAreOwn' /\ ElectedInv'
  BY <1>2 DEF AInv, IdentityInv, SessionsAreOwn, ElectedInv
<1>5. FreshInv'
  <2>1. \A g \in Handler : job'[g].created => g # h /\ job'[g] = job[g]
    BY <1>1
  <2>2. \A i \in Id : pinged'[i] \in {0, 1} /\ (pinged'[i] = 1 => i \in Present')
    BY <1>2 DEF AInv, FreshInv
  <2>. QED  BY <2>1, <2>2 DEF AInv, FreshInv
<1>6. \A g \in Handler : JobOK(job[g])'
  BY <1>1, <1>2 DEF AInv, JobOK
<1>. QED  BY <1>3, <1>4, <1>5, <1>6 DEF AInv

LEMMA DoneStep ==
  ASSUME AInv, NEW h \in Handler, Done(h), UNCHANGED <<users, session, pin, observations>>
  PROVE  AInv'
  BY IdleOK, JobStep DEF Done

\* The handler resumes with a row it did not insert.
LEMMA ResolveStep ==
  ASSUME AInv, NEW h \in Handler, NEW i \in Present, Resolve(h, i, FALSE, None),
         job[h].person \in Person, job[h].kind # "signup" => users[i].owner = job[h].person,
         UNCHANGED <<users, session, pin, observations>>
  PROVE  AInv'
<1>. DEFINE x == [Idle EXCEPT !.at = "respond", !.kind = job[h].kind, !.person = job[h].person,
                              !.row = i, !.created = FALSE, !.status = None]
<1>1. job' = [job EXCEPT ![h] = x]
  BY DEF Resolve
<1>2. i \in 0..MaxUsers
  BY AccountsBoundsAssumption DEF Present, Id
<1>3. x \in Job /\ ~x.created
  BY <1>2, IdleOK DEF Job, Idle, AInv, TypeOK
<1>4. JobOK(x)
  BY DEF JobOK, Idle
<1>. QED  BY <1>1, <1>3, <1>4, JobStep

LEMMA ABegin ==
  ASSUME AInv, NEW h \in Handler, NEW kind \in {"signup", "login", "oidc"}, NEW c \in Person,
         NEW identity \in Identity, Begin(h, kind, c, identity),
         IF kind = "oidc" THEN identity = <<"oidc", c>> ELSE identity[1] = "local"
  PROVE  AInv'
<1>. DEFINE x == [Idle EXCEPT !.at = "lookup", !.kind = kind, !.person = c, !.identity = identity]
<1>1. x \in Job /\ ~x.created /\ JobOK(x)
  BY IdleOK DEF Job, Idle, Kind, JobOK
<1>. QED  BY <1>1, JobStep DEF Begin

LEMMA ASignupLookup == ASSUME AInv, NEW h \in Handler, SignupLookup(h) PROVE AInv'
<1>. DEFINE x == [job[h] EXCEPT !.at = "create"]
<1>1. CASE job' = [job EXCEPT ![h] = Idle]
  BY <1>1, DoneStep DEF SignupLookup, Done
<1>2. CASE job' = [job EXCEPT ![h] = x]
  <2>1. x \in Job /\ JobOK(x) /\ ~x.created
    BY DEF SignupLookup, AInv, TypeOK, Job, JobOK
  <2>. QED  BY <1>2, <2>1, JobStep DEF SignupLookup
<1>. QED  BY <1>1, <1>2 DEF SignupLookup, AInv, TypeOK

LEMMA ALoginLookup == ASSUME AInv, NEW h \in Handler, LoginLookup(h) PROVE AInv'
<1>1. UNCHANGED <<users, session, pin, observations>> /\ job[h].person \in Person
  BY DEF LoginLookup, AInv, JobOK
<1>2. CASE Done(h)
  BY <1>1, <1>2, DoneStep
<1>3. CASE \E i \in FindByIdentity(job[h].identity) : /\ users[i].owner = job[h].person
                                                      /\ Resolve(h, i, FALSE, None)
  BY <1>1, <1>3, ResolveStep DEF FindByIdentity
<1>. QED  BY <1>2, <1>3 DEF LoginLookup

LEMMA AOidcLookup == ASSUME AInv, NEW h \in Handler, OidcLookup(h) PROVE AInv'
<1>1. /\ UNCHANGED <<users, session, pin, observations>> /\ job[h].at = "lookup"
      /\ job[h].person \in Person /\ job[h].identity = <<"oidc", job[h].person>> /\ job[h].kind = "oidc"
  BY DEF OidcLookup, AInv, JobOK
<1>2. CASE job' = [job EXCEPT ![h].at = "create"]
  <2>. DEFINE x == [job[h] EXCEPT !.at = "create"]
  <2>1. job' = [job EXCEPT ![h] = x]
    BY <1>2
  <2>2. x \in Job /\ JobOK(x) /\ ~x.created
    BY <1>1 DEF AInv, TypeOK, Job, JobOK
  <2>. QED  BY <1>1, <2>1, <2>2, JobStep
<1>3. CASE \E i \in FindByIdentity(job[h].identity) : Resolve(h, i, FALSE, None)
  BY <1>1, <1>3, ResolveStep DEF FindByIdentity, AInv, IdentityInv
<1>. QED  BY <1>2, <1>3 DEF OidcLookup

LEMMA AReadOnConflict == ASSUME AInv, NEW h \in Handler, ReadOnConflict(h) PROVE AInv'
<1>1. UNCHANGED <<users, session, pin, observations>> /\ job[h].person \in Person
  BY DEF ReadOnConflict, AInv, JobOK
<1>2. PICK i \in FindByIdentity(job[h].identity) : Resolve(h, i, FALSE, None)
  BY DEF ReadOnConflict
<1>3. job[h].kind # "signup" => users[i].owner = job[h].person
  BY <1>2 DEF ReadOnConflict, FindByIdentity, AInv, JobOK, IdentityInv
<1>. QED  BY <1>1, <1>2, <1>3, ResolveStep DEF FindByIdentity

\* The insert: a new row at a free id, of an identity no row has.
LEMMA ACreateIdentity == ASSUME AInv, NEW h \in Handler, CreateIdentity(h) PROVE AInv'
<1>. DEFINE admin == GrantsAdmin(job[h].identity)
<1>1. /\ job[h].at = "create" /\ UNCHANGED <<session, pin, pinged>>
      /\ job[h].kind \in {"signup", "oidc"} /\ job[h].person \in Person /\ job[h].identity \in Identity
      /\ IF job[h].kind = "oidc" THEN job[h].identity = <<"oidc", job[h].person>>
                              ELSE job[h].identity[1] = "local"
  BY DEF CreateIdentity, AInv, JobOK
<1>2. CASE Done(h) /\ UNCHANGED <<users, elected>>
  BY <1>1, <1>2, DoneStep DEF observations
<1>3. CASE job' = [job EXCEPT ![h].at = "reread"] /\ UNCHANGED <<users, elected>>
  <2>. DEFINE x == [job[h] EXCEPT !.at = "reread"]
  <2>1. job' = [job EXCEPT ![h] = x]
    BY <1>3
  <2>2. x \in Job /\ JobOK(x) /\ ~x.created
    BY <1>1 DEF AInv, TypeOK, Job, JobOK
  <2>. QED  BY <1>1, <1>3, <2>1, <2>2, JobStep DEF observations
<1>4. ASSUME NEW i \in Id, NextId(i), ~IdentityTaken(job[h].identity), NEW role, NEW status,
             role = (IF admin THEN "admin" ELSE "user"), status = (IF admin THEN "active" ELSE "pending"),
             users' = [users EXCEPT ![i] = [identity |-> job[h].identity, owner |-> job[h].person,
                                            role |-> role, status |-> status]],
             elected' = (IF admin THEN elected \cup {i} ELSE elected),
             Resolve(h, i, TRUE, status)
      PROVE  AInv'
  <2>1. /\ users'[i].identity = job[h].identity /\ users'[i].owner = job[h].person
        /\ \A k \in Id \ {i} : users'[k] = users[k]
    BY <1>4 DEF AInv, TypeOK
  <2>2. users' \in [Id -> User]
    BY <1>1, <1>4 DEF AInv, TypeOK, User, Role, Standing
  <2>3. i \notin Present /\ Present' = Present \cup {i} /\ RealUsers' = RealUsers \cup {i}
    <3>1. i \notin Present
      BY <1>4 DEF NextId
    <3>2. job[h].identity # None /\ job[h].identity # DevAdmin
      BY <1>1, DevIsNobody, AccountsNamesAssumption
    <3>. QED  BY <2>1, <3>1, <3>2 DEF Present, RealUsers
  <2>4. \A k \in Present : k \in Id /\ k # i /\ users'[k] = users[k]
    BY <2>1, <2>3 DEF Present
  <2>. DEFINE x == [Idle EXCEPT !.at = "respond", !.kind = job[h].kind, !.person = job[h].person,
                                !.row = i, !.created = TRUE, !.status = status]
  <2>5. x \in Job /\ x.at = "respond" /\ x.person = job[h].person /\ x.row = i /\ x.created
    <3>1. i \in 0..MaxUsers /\ status \in Standing
      BY <1>4, AccountsBoundsAssumption DEF Id, Standing
    <3>. QED  BY <1>1, <3>1, IdleOK DEF Job, Idle, Kind
  <2>6. job' \in [Handler -> Job] /\ job'[h] = x /\ \A g \in Handler \ {h} : job'[g] = job[g]
    BY <1>4, <2>5 DEF Resolve, AInv, TypeOK
  <2>7. TypeOK'
    BY <1>1, <1>4, <2>2, <2>6 DEF AInv, TypeOK
  <2>8. IdentityInv'
    <3>1. \A k \in Present : users[k].identity # job[h].identity
      BY <1>4 DEF IdentityTaken, FindByIdentity
    <3>2. ASSUME NEW k \in Present', NEW m \in Present', k # m PROVE users'[k].identity # users'[m].identity
      BY <2>1, <2>3, <2>4, <3>1, <3>2 DEF AInv, IdentityInv
    <3>3. ASSUME NEW k \in Present', NEW c \in Person, users'[k].identity = <<"oidc", c>>
          PROVE  users'[k].owner = c
      <4>1. CASE k = i
        <5>1. job[h].identity = <<"oidc", c>>
          BY <2>1, <3>3, <4>1
        <5>2. job[h].kind = "oidc"
          BY <1>1, <5>1
        <5>. QED  BY <1>1, <2>1, <4>1, <5>1, <5>2
      <4>. QED  BY <2>3, <2>4, <3>3, <4>1 DEF AInv, IdentityInv
    <3>. QED  BY <3>2, <3>3 DEF IdentityInv
  <2>9. FreshInv'
    <3>1. \A g \in Handler \ {h} : job'[g].created => job'[g].row \in Present
      BY <2>6 DEF AInv, JobOK
    <3>2. \A g \in Handler : job'[g].created /\ job'[g].row = i => g = h
      BY <2>3, <3>1
    <3>3. \A k \in Id : pinged'[k] \in {0, 1} /\ (pinged'[k] = 1 => k \in Present')
      BY <1>1, <2>3 DEF AInv, FreshInv
    <3>4. job'[h].row = i /\ \A g \in Handler \ {h} : job'[g].created => job'[g].row # i
      BY <2>5, <2>6, <3>2
    <3>5. \A g, k \in Handler \ {h} :
            job'[g].created /\ job'[k].created /\ job'[g].row = job'[k].row => g = k
      BY <2>6 DEF AInv, FreshInv
    <3>. QED  BY <3>3, <3>4, <3>5 DEF FreshInv
  <2>10. SessionsAreOwn'
    BY <1>1, <2>3, <2>4 DEF AInv, SessionsAreOwn
  <2>11. ElectedInv'
    <3>1. CASE pin = None
      <4>1. admin <=> RealUsers = {}
        BY <3>1 DEF GrantsAdmin
      <4>. QED  BY <1>1, <1>4, <2>3, <3>1, <4>1 DEF AInv, ElectedInv
    <3>2. CASE pin # None
      <4>1. admin => job[h].identity \in pin
        BY <3>2 DEF GrantsAdmin
      <4>. QED  BY <1>1, <1>4, <2>1, <2>3, <2>4, <3>2, <4>1 DEF AInv, ElectedInv
    <3>. QED  BY <3>1, <3>2
  <2>12. ASSUME NEW g \in Handler PROVE JobOK(job[g])'
    <3>1. CASE g = h
      <4>1. pinged'[i] = 0
        BY <1>1, <2>3 DEF AInv, FreshInv
      <4>. QED  BY <1>1, <2>1, <2>3, <2>5, <2>6, <3>1, <4>1 DEF JobOK
    <3>2. CASE g # h
      <4>1. JobOK(job[g]) /\ job'[g] = job[g]
        BY <2>6, <3>2 DEF AInv
      <4>. QED  BY <1>1, <2>3, <2>4, <4>1 DEF JobOK
    <3>. QED  BY <3>1, <3>2
  <2>. QED  BY <2>7, <2>8, <2>9, <2>10, <2>11, <2>12 DEF AInv
<1>. QED  BY <1>2, <1>3, <1>4 DEF CreateIdentity

\* The cookie is set, and the admins are told of a fresh row.
LEMMA ARespond == ASSUME AInv, NEW h \in Handler, Respond(h) PROVE AInv'
<1>1. /\ UNCHANGED <<users, pin, elected>> /\ job' = [job EXCEPT ![h] = Idle]
      /\ job[h].person \in Person /\ job[h].row \in Present /\ JobOK(job[h])
      /\ job[h].at = "respond"
  BY DEF Respond, Done, AInv, JobOK
<1>2. /\ job' \in [Handler -> Job] /\ job'[h] = Idle /\ \A g \in Handler \ {h} : job'[g] = job[g]
      /\ Present' = Present /\ RealUsers' = RealUsers
  BY <1>1, IdleOK DEF AInv, TypeOK, Present, RealUsers
<1>3. PICK c \in Person, i \in Present : c = job[h].person /\ i = job[h].row
  BY <1>1
<1>4. /\ i \in Id /\ i \in 0..MaxUsers
      /\ session' \in [Person -> 0..MaxUsers]
      /\ \A d \in Person : session'[d] = session[d] \/ (d = c /\ session'[d] = i /\ LogsIn(h))
      /\ pinged' \in [Id -> Nat]
      /\ \A k \in Id : pinged'[k] = pinged[k] \/ (k = i /\ pinged'[k] = pinged[k] + 1 /\ job[h].created)
  <2>1. i \in Id /\ i \in 0..MaxUsers
    BY AccountsBoundsAssumption DEF Present, Id
  <2>2. CASE LogsIn(h)
    BY <1>3, <2>1, <2>2 DEF Respond, AInv, TypeOK
  <2>3. CASE ~LogsIn(h)
    BY <2>1, <2>3 DEF Respond, AInv, TypeOK
  <2>. QED  BY <2>1, <2>2, <2>3
<1>5. TypeOK' /\ IdentityInv' /\ ElectedInv'
  BY <1>1, <1>2, <1>4 DEF AInv, TypeOK, IdentityInv, ElectedInv
<1>6. SessionsAreOwn'
  <2>1. LogsIn(h) => users[i].owner = c
    BY <1>1, <1>3 DEF JobOK, LogsIn
  <2>. QED  BY <1>1, <1>2, <1>3, <1>4, <2>1 DEF AInv, SessionsAreOwn
<1>7. \A g \in Handler \ {h} : job[g].created /\ job[h].created => job[g].row # i
  BY <1>3 DEF AInv, FreshInv
<1>8. job[h].created => pinged[i] = 0
  BY <1>1, <1>3 DEF JobOK
<1>9. FreshInv'
  <2>1. \A g \in Handler : job'[g].created => g # h /\ job'[g] = job[g]
    BY <1>2, IdleOK
  <2>2. \A k \in Id : pinged'[k] \in {0, 1} /\ (pinged'[k] = 1 => k \in Present')
    BY <1>2, <1>4, <1>8 DEF AInv, FreshInv
  <2>. QED  BY <2>1, <2>2 DEF AInv, FreshInv
<1>10. ASSUME NEW g \in Handler PROVE JobOK(job[g])'
  <2>1. CASE g = h
    BY <1>2, <2>1 DEF JobOK, Idle
  <2>2. CASE g # h
    <3>1. JobOK(job[g]) /\ job'[g] = job[g]
      BY <1>2, <2>2 DEF AInv
    <3>2. job[g].created => job[g].row \in Id /\ pinged'[job[g].row] = pinged[job[g].row]
      BY <1>4, <1>7, <2>2, <3>1 DEF JobOK, Present
    <3>. QED  BY <1>1, <1>2, <3>1, <3>2 DEF JobOK
  <2>. QED  BY <2>1, <2>2
<1>. QED  BY <1>5, <1>6, <1>9, <1>10 DEF AInv

LEMMA ALogout == ASSUME AInv, NEW c \in Person, Logout(c) PROVE AInv'
<1>1. /\ UNCHANGED <<users, job, pin, pinged, elected>> /\ session' = [session EXCEPT ![c] = 0]
      /\ Present' = Present /\ RealUsers' = RealUsers
  BY DEF Logout, observations, Present, RealUsers
<1>2. TypeOK' /\ IdentityInv' /\ FreshInv' /\ ElectedInv'
  BY <1>1, AccountsBoundsAssumption DEF AInv, TypeOK, IdentityInv, FreshInv, ElectedInv
<1>3. SessionsAreOwn'
  BY <1>1 DEF AInv, TypeOK, SessionsAreOwn
<1>4. \A h \in Handler : JobOK(job[h])'
  BY <1>1 DEF AInv, JobOK
<1>. QED  BY <1>2, <1>3, <1>4 DEF AInv

LEMMA AAdminPatch ==
  ASSUME AInv, NEW h \in Handler, NEW c \in Person, NEW target \in Id, NEW role \in Role \cup {None},
         NEW status \in Standing \cup {None}, AdminPatch(h, c, target, role, status)
  PROVE  AInv'
<1>1. target \in 0..MaxUsers
  BY AccountsBoundsAssumption DEF Id
<1>2. PICK i \in 0..MaxUsers : i = session[c]
  BY DEF AInv, TypeOK
<1>. DEFINE x == [Idle EXCEPT !.at = "update", !.row = target, !.by = i, !.role = role, !.status = status]
<1>3. x \in Job /\ ~x.created /\ JobOK(x)
  BY <1>1, IdleOK DEF Job, Idle, Kind, JobOK
<1>4. job' = [job EXCEPT ![h] = x] /\ UNCHANGED <<users, session, pin, observations>>
  BY <1>2 DEF AdminPatch
<1>. QED  BY <1>3, <1>4, JobStep

\* The update leaves who a row is for, and whose it is, alone.
LEMMA AUpdateUser == ASSUME AInv, NEW h \in Handler, UpdateUser(h) PROVE AInv'
<1>1. /\ job[h].at = "update" /\ UNCHANGED <<session, pin, pinged, elected>>
      /\ job' = [job EXCEPT ![h] = Idle]
      /\ users' = [users EXCEPT ![job[h].row].role = Patched(@, job[h].role),
                                ![job[h].row].status = Patched(@, job[h].status)]
  BY DEF UpdateUser, Done, observations
<1>2. PICK i \in Id : i = job[h].row
  BY <1>1 DEF AInv, JobOK
<1>3. PICK role \in Role, status \in Standing :
        users' = [users EXCEPT ![i].role = role, ![i].status = status]
  <2>1. job[h] \in Job /\ users[i] \in User
    BY <1>2 DEF AInv, TypeOK
  <2>2. Patched(users[i].role, job[h].role) \in Role
    BY <2>1 DEF Patched, User, Job
  <2>3. Patched(users[i].status, job[h].status) \in Standing
    BY <2>1 DEF Patched, User, Job
  <2>4. users' = [users EXCEPT ![i].role = Patched(users[i].role, job[h].role),
                               ![i].status = Patched(users[i].status, job[h].status)]
    BY <1>1, <1>2, <2>1 DEF AInv, TypeOK, User
  <2>. QED  BY <2>2, <2>3, <2>4
<1>4. users' \in [Id -> User]
      /\ \A k \in Id : users'[k].identity = users[k].identity /\ users'[k].owner = users[k].owner
  BY <1>2, <1>3 DEF AInv, TypeOK, User
<1>5. Present' = Present /\ RealUsers' = RealUsers
  BY <1>4 DEF Present, RealUsers
<1>6. job' \in [Handler -> Job] /\ job'[h] = Idle /\ \A g \in Handler \ {h} : job'[g] = job[g]
  BY <1>1, IdleOK DEF AInv, TypeOK
<1>7. \A k \in Present : k \in Id
  BY DEF Present
<1>8. TypeOK' /\ IdentityInv' /\ SessionsAreOwn' /\ ElectedInv'
  <2>1. TypeOK'
    BY <1>1, <1>4, <1>6 DEF AInv, TypeOK
  <2>2. IdentityInv' /\ SessionsAreOwn'
    <3>1. \A k \in Present : users'[k].identity = users[k].identity /\ users'[k].owner = users[k].owner
      BY <1>4, <1>7
    <3>2. IdentityInv'
      BY <1>5, <3>1 DEF AInv, IdentityInv
    <3>3. SessionsAreOwn'
      BY <1>1, <1>5, <3>1 DEF AInv, SessionsAreOwn
    <3>. QED  BY <3>2, <3>3
  <2>3. ElectedInv'
    <3>1. elected \subseteq Present
      BY DEF AInv, ElectedInv
    <3>. QED  BY <1>1, <1>4, <1>5, <1>7, <3>1 DEF AInv, ElectedInv
  <2>. QED  BY <2>1, <2>2, <2>3
<1>9. FreshInv'
  <2>1. \A g \in Handler : job'[g].created => g # h /\ job'[g] = job[g]
    BY <1>6, IdleOK
  <2>2. \A k \in Id : pinged'[k] \in {0, 1} /\ (pinged'[k] = 1 => k \in Present')
    BY <1>1, <1>5 DEF AInv, FreshInv
  <2>. QED  BY <2>1, <2>2 DEF AInv, FreshInv
<1>10. ASSUME NEW g \in Handler PROVE JobOK(job[g])'
  <2>1. CASE g = h
    BY <1>6, <2>1 DEF JobOK, Idle
  <2>2. CASE g # h
    <3>1. JobOK(job[g]) /\ job'[g] = job[g]
      BY <1>6, <2>2 DEF AInv
    <3>. QED  BY <1>1, <1>4, <1>5, <1>7, <3>1 DEF JobOK
  <2>. QED  BY <2>1, <2>2
<1>. QED  BY <1>8, <1>9, <1>10 DEF AInv

LEMMA ACrash == ASSUME AInv, Crash PROVE AInv'
<1>1. /\ UNCHANGED <<users, session, pin, pinged, elected>> /\ job' = [h \in Handler |-> Idle]
      /\ Present' = Present /\ RealUsers' = RealUsers
  BY DEF Crash, observations, Present, RealUsers
<1>2. TypeOK' /\ IdentityInv' /\ SessionsAreOwn' /\ ElectedInv'
  BY <1>1, IdleOK DEF AInv, TypeOK, IdentityInv, SessionsAreOwn, ElectedInv
<1>3. \A h \in Handler : job'[h] = Idle
  BY <1>1
<1>4. FreshInv'
  <2>1. \A g \in Handler : ~job'[g].created
    BY <1>3, IdleOK
  <2>2. \A k \in Id : pinged'[k] \in {0, 1} /\ (pinged'[k] = 1 => k \in Present')
    BY <1>1 DEF AInv, FreshInv
  <2>. QED  BY <2>1, <2>2 DEF FreshInv
<1>5. \A h \in Handler : JobOK(job[h])'
  BY <1>3 DEF JobOK, Idle
<1>. QED  BY <1>2, <1>4, <1>5 DEF AInv

LEMMA AFrame == ASSUME AInv, UNCHANGED vars PROVE AInv'
<1>1. UNCHANGED <<users, session, job, pin, pinged, elected>> /\ Present' = Present /\ RealUsers' = RealUsers
  BY DEF vars, Present, RealUsers
<1>. QED  BY <1>1 DEF AInv, TypeOK, IdentityInv, FreshInv, SessionsAreOwn, ElectedInv, JobOK

LEMMA ALoginStep == ASSUME AInv, NEW h \in Handler, LoginStep(h) PROVE AInv'
<1>1. ASSUME NEW c \in Person, NEW e \in Email, Signup(h, c, e) \/ LocalLogin(h, c, e) PROVE AInv'
  <2>1. <<"local", e>> \in Identity /\ <<"local", e>>[1] = "local"
    BY DEF Identity
  <2>. QED  BY <1>1, <2>1, ABegin DEF Signup, LocalLogin
<1>2. ASSUME NEW c \in Person, OidcCallback(h, c) PROVE AInv'
  <2>1. <<"oidc", c>> \in Identity
    BY DEF Identity
  <2>. QED  BY <1>2, <2>1, ABegin DEF OidcCallback
<1>. QED  BY <1>1, <1>2, ASignupLookup, ALoginLookup, AOidcLookup, ACreateIdentity, AReadOnConflict, ARespond
     DEF LoginStep

LEMMA ANext == AInv /\ [Next]_vars => AInv'
<1>. SUFFICES ASSUME AInv, [Next]_vars PROVE AInv'
  OBVIOUS
<1>1. LoginHandler \subseteq Handler /\ AdminHandler \subseteq Handler
  BY DEF Handler
<1>2. ASSUME NEW h \in Handler, AdminStep(h) PROVE AInv'
  BY <1>2, AAdminPatch, AUpdateUser DEF AdminStep
<1>3. ASSUME NEW h \in Handler, DatabaseFault(h) PROVE AInv'
  BY <1>3, DoneStep DEF DatabaseFault
<1>. QED  BY <1>1, <1>2, <1>3, ALoginStep, ALogout, ACrash, AFrame DEF Next

LEMMA AAlways == Spec => []AInv
  BY AInit, ANext, PTL DEF Spec

-------------------------------------------------------------------------------
\* Every variable of the account service keeps its type.
THEOREM AccountsTyped == Spec => []TypeOK
<1>1. AInv => TypeOK
  BY DEF AInv
<1>. QED  BY <1>1, AAlways, PTL

\* However sign-ups and first logins of one identity interleave, fault and crash, one
\* row is created for it, and its admins are told at most once.
THEOREM IdentitiesUnique == Spec => []OneAccountPerIdentity
<1>1. AInv => OneAccountPerIdentity
  BY DEF AInv, IdentityInv, FreshInv, OneAccountPerIdentity
<1>. QED  BY <1>1, AAlways, PTL

\* A browser's cookie names only a row whose password or subject its person holds:
\* the loser of a race for an address is never logged in to the winner's account.
THEOREM CookiesAreOwn == Spec => []SessionsAreOwn
<1>1. AInv => SessionsAreOwn
  BY DEF AInv
<1>. QED  BY <1>1, AAlways, PTL

\* Without a pin exactly the first real account is created as admin, the dev row of a
\* bypass run aside; with a pin, only the identities it matches are.
THEOREM FirstIsAdmin == Spec => []FirstAdmin
<1>1. AInv => FirstAdmin
  <2>1. SUFFICES ASSUME AInv PROVE FirstAdmin
    OBVIOUS
  <2>2. CASE pin = None /\ RealUsers = {}
    BY <2>1, <2>2, FS_EmptySet DEF AInv, ElectedInv, FirstAdmin
  <2>3. CASE pin = None /\ RealUsers # {}
    BY <2>1, <2>3, FS_Singleton DEF AInv, ElectedInv, FirstAdmin
  <2>4. CASE pin # None
    BY <2>1, <2>4 DEF AInv, ElectedInv, FirstAdmin
  <2>. QED  BY <2>2, <2>3, <2>4
<1>. QED  BY <1>1, AAlways, PTL

-------------------------------------------------------------------------------
(* User management loses the last admin only to a race.                     *)

\* The row of a bypass run is nobody's, so no cookie names it; a PATCH under way was
\* admitted for a real account other than the row it is about.
AuthorInv ==
  /\ \A i \in Present : users[i].identity = DevAdmin => users[i].owner = None
  /\ \A h \in AdminHandler : job[h].at = "update" => job[h].by \in RealUsers /\ job[h].by # job[h].row

NoNewUpdate == \A h \in AdminHandler : job'[h].at = "update" => job'[h] = job[h]

\* A step that admits no PATCH, and leaves the rows that were there their identity and
\* owner, keeps every author.
LEMMA AuthorsStand ==
  ASSUME AuthorInv, NoNewUpdate, RealUsers \subseteq RealUsers',
         \A i \in Present' : users'[i].identity = DevAdmin => users'[i].owner = None
  PROVE  AuthorInv'
  BY DEF AuthorInv, NoNewUpdate

LEMMA FrameAuthors == ASSUME AuthorInv, NoNewUpdate, UNCHANGED users PROVE AuthorInv'
<1>1. Present' = Present /\ RealUsers' = RealUsers
  BY DEF Present, RealUsers
<1>. QED  BY <1>1 DEF AuthorInv, NoNewUpdate

LEMMA InitAuthors == Init => AuthorInv
<1>. SUFFICES ASSUME Init PROVE AuthorInv
  OBVIOUS
<1>1. \A h \in AdminHandler : job[h].at = "idle"
  BY DEF Init, Idle, Handler
<1>2. \A i \in Present : users[i].identity = DevAdmin => users[i].owner = None
  BY DEF Init, AbsentUser, Present
<1>. QED  BY <1>1, <1>2 DEF AuthorInv

LEMMA LoginJobOnly ==
  ASSUME AInv, NEW h \in Handler, NEW x, job' = [job EXCEPT ![h] = x], h \notin AdminHandler \/ x = Idle
  PROVE  NoNewUpdate
<1>1. Idle.at # "update"
  BY DEF Idle
<1>. QED  BY <1>1 DEF NoNewUpdate, AInv, TypeOK, Handler

\* The caller's cookie is their own, hence names a real account, and the self-guard
\* says it is not the row to be patched.
LEMMA PatchHasAuthor ==
  ASSUME AInv, AuthorInv, NEW h \in AdminHandler, NEW c \in Person, NEW target \in Id,
         NEW role \in Role \cup {None}, NEW status \in Standing \cup {None},
         AdminPatch(h, c, target, role, status)
  PROVE  AuthorInv'
<1>. DEFINE x == [Idle EXCEPT !.at = "update", !.row = target, !.by = session[c],
                              !.role = role, !.status = status]
<1>1. UNCHANGED users /\ job' = [job EXCEPT ![h] = x] /\ session[c] # 0 /\ target # session[c]
  BY DEF AdminPatch, SelfGuard
<1>2. Present' = Present /\ RealUsers' = RealUsers
  BY <1>1 DEF Present, RealUsers
<1>3. session[c] \in RealUsers
  <2>1. session[c] \in Present /\ users[session[c]].owner = c /\ c # None
    BY <1>1, AccountsNamesAssumption DEF AInv, SessionsAreOwn
  <2>. QED  BY <2>1 DEF AuthorInv, RealUsers
<1>4. x.row = target /\ x.by = session[c]
  BY DEF Idle
<1>. HIDE DEF x
<1>5. job'[h] = x /\ \A g \in AdminHandler \ {h} : job'[g] = job[g]
  BY <1>1 DEF AInv, TypeOK, Handler
<1>6. \A g \in AdminHandler : job'[g].at = "update" => job'[g].by \in RealUsers /\ job'[g].by # job'[g].row
  BY <1>1, <1>3, <1>4, <1>5 DEF AuthorInv
<1>. QED  BY <1>1, <1>2, <1>6 DEF AuthorInv

\* What the insert does to the rows: a new real one, admin if it was elected.
LEMMA InsertedRow ==
  ASSUME AInv, NEW h \in LoginHandler, CreateIdentity(h)
  PROVE  \/ UNCHANGED <<users, elected>>
         \/ \E i \in Id : /\ i \notin Present /\ RealUsers' = RealUsers \cup {i} /\ Present' = Present \cup {i}
                          /\ users'[i].identity # DevAdmin
                          /\ \A k \in Present : users'[k] = users[k]
                          /\ elected' = elected \/ users'[i].role = "admin"
<1>. DEFINE admin == GrantsAdmin(job[h].identity)
            fresh == [identity |-> job[h].identity, owner |-> job[h].person,
                      role |-> IF admin THEN "admin" ELSE "user",
                      status |-> IF admin THEN "active" ELSE "pending"]
<1>1. job[h].identity \in Identity
  BY DEF CreateIdentity, AInv, JobOK, Handler
<1>2. job[h].identity # None /\ job[h].identity # DevAdmin
  BY <1>1, DevIsNobody, AccountsNamesAssumption
<1>3. CASE UNCHANGED <<users, elected>>
  BY <1>3
<1>4. ASSUME NEW i \in Id, NextId(i), users' = [users EXCEPT ![i] = fresh],
             elected' = (IF admin THEN elected \cup {i} ELSE elected)
      PROVE  /\ i \notin Present /\ RealUsers' = RealUsers \cup {i} /\ Present' = Present \cup {i}
             /\ users'[i].identity # DevAdmin
             /\ \A k \in Present : users'[k] = users[k]
             /\ elected' = elected \/ users'[i].role = "admin"
  <2>1. i \notin Present
    BY <1>4 DEF NextId
  <2>2. users'[i] = fresh /\ \A k \in Id \ {i} : users'[k] = users[k]
    BY <1>4 DEF AInv, TypeOK
  <2>3. RealUsers' = RealUsers \cup {i} /\ Present' = Present \cup {i}
    BY <1>2, <2>1, <2>2 DEF Present, RealUsers
  <2>4. \A k \in Present : users'[k] = users[k]
    BY <2>1, <2>2 DEF Present
  <2>. QED  BY <1>2, <1>4, <2>1, <2>2, <2>3, <2>4
<1>. QED  BY <1>3, <1>4 DEF CreateIdentity

\* updateUser touches nothing of a row but its role and its standing, and only one row's.
LEMMA UpdatedRow ==
  ASSUME AInv, NEW h \in AdminHandler, UpdateUser(h)
  PROVE  /\ Present' = Present /\ RealUsers' = RealUsers
         /\ \A k \in Id : users'[k].identity = users[k].identity /\ users'[k].owner = users[k].owner
         /\ \A k \in Id \ {job[h].row} : users'[k] = users[k]
         /\ job[h].at = "update" /\ job' = [job EXCEPT ![h] = Idle] /\ UNCHANGED elected
<1>1. /\ users' = [users EXCEPT ![job[h].row].role = Patched(@, job[h].role),
                                ![job[h].row].status = Patched(@, job[h].status)]
      /\ job[h].at = "update" /\ job' = [job EXCEPT ![h] = Idle] /\ UNCHANGED elected
  BY DEF UpdateUser, Done, observations
<1>2. /\ \A k \in Id : users'[k].identity = users[k].identity /\ users'[k].owner = users[k].owner
      /\ \A k \in Id \ {job[h].row} : users'[k] = users[k]
  BY <1>1 DEF AInv, TypeOK, User
<1>. QED  BY <1>1, <1>2 DEF Present, RealUsers

LEMMA LoginStepIsInsert ==
  ASSUME AInv, NEW h \in LoginHandler, LoginStep(h)
  PROVE  NoNewUpdate /\ (CreateIdentity(h) \/ UNCHANGED <<users, elected>>)
<1>1. h \in Handler /\ h \notin AdminHandler
  BY AccountsHandlersAssumption DEF Handler
<1>2. \E x : job' = [job EXCEPT ![h] = x]
  BY DEF LoginStep, Signup, LocalLogin, OidcCallback, Begin, SignupLookup, LoginLookup, OidcLookup,
         CreateIdentity, ReadOnConflict, Respond, Done, Resolve
<1>3. CreateIdentity(h) \/ UNCHANGED <<users, elected>>
  BY DEF LoginStep, Signup, LocalLogin, OidcCallback, Begin, SignupLookup, LoginLookup, OidcLookup,
         ReadOnConflict, Respond, observations
<1>. QED  BY <1>1, <1>2, <1>3, LoginJobOnly

LEMMA NextAuthors == ASSUME AInv, AuthorInv, [Next]_vars PROVE AuthorInv'
<1>1. ASSUME NEW h \in LoginHandler, LoginStep(h) PROVE AuthorInv'
  <2>1. NoNewUpdate
    BY <1>1, LoginStepIsInsert
  <2>2. CASE UNCHANGED users
    BY <2>1, <2>2, FrameAuthors
  <2>3. CASE CreateIdentity(h)
    <3>1. CASE UNCHANGED <<users, elected>>
      BY <2>1, <3>1, FrameAuthors
    <3>2. ASSUME NEW i \in Id, RealUsers' = RealUsers \cup {i}, Present' = Present \cup {i},
                 users'[i].identity # DevAdmin, \A k \in Present : users'[k] = users[k]
          PROVE  AuthorInv'
      <4>1. \A k \in Present' : users'[k].identity = DevAdmin => users'[k].owner = None
        BY <3>2 DEF AuthorInv
      <4>2. RealUsers \subseteq RealUsers'
        BY <3>2
      <4>. QED  BY <2>1, <4>1, <4>2, AuthorsStand
    <3>. QED  BY <2>3, <3>1, <3>2, InsertedRow
  <2>. QED  BY <1>1, <2>2, <2>3, LoginStepIsInsert
<1>2. ASSUME NEW h \in AdminHandler, AdminStep(h) PROVE AuthorInv'
  <2>1. CASE UpdateUser(h)
    <3>1. h \in Handler /\ Present \subseteq Id
      BY DEF Handler, Present
    <3>2. NoNewUpdate
      BY <2>1, <3>1, UpdatedRow, LoginJobOnly
    <3>3. \A k \in Present' : users'[k].identity = DevAdmin => users'[k].owner = None
      BY <2>1, <3>1, UpdatedRow DEF AuthorInv
    <3>4. RealUsers \subseteq RealUsers'
      BY <2>1, UpdatedRow
    <3>. QED  BY <3>2, <3>3, <3>4, AuthorsStand
  <2>. QED  BY <1>2, <2>1, PatchHasAuthor DEF AdminStep
<1>3. ASSUME NEW c \in Person, Logout(c) PROVE AuthorInv'
  BY <1>3, FrameAuthors DEF Logout, NoNewUpdate
<1>4. ASSUME NEW h \in Handler, DatabaseFault(h) PROVE AuthorInv'
  BY <1>4, LoginJobOnly, FrameAuthors DEF DatabaseFault, Done
<1>5. CASE Crash
  BY <1>5, FrameAuthors DEF Crash, NoNewUpdate, Idle, Handler
<1>6. CASE UNCHANGED vars
  BY <1>6, FrameAuthors DEF vars, NoNewUpdate
<1>. QED  BY <1>1, <1>2, <1>3, <1>4, <1>5, <1>6 DEF Next

\* However sign-ups, sessions and the requests of several admins interleave, a step that
\* leaves no real admin is the update of a request whose author is no longer one.
THEOREM OnlyRacesUnseat == Spec => LastAdminFallsToRace
<1>. DEFINE Falls == AdminRemains /\ ~AdminRemains'
            Raced == \E h \in AdminHandler : /\ job[h].at = "update" /\ job'[h].at = "idle"
                                             /\ users[job[h].by].role # "admin"
<1>1. ASSUME AInv, AuthorInv, [Next]_vars, Falls PROVE Raced
  <2>1. CASE UNCHANGED <<users, elected>>
    BY <1>1, <2>1 DEF AdminRemains, RealUsers, Present
  <2>2. ASSUME NEW h \in LoginHandler, CreateIdentity(h) PROVE FALSE
    <3>1. ASSUME NEW i \in Id, RealUsers' = RealUsers \cup {i}, \A k \in Present : users'[k] = users[k],
                 elected' = elected \/ users'[i].role = "admin"
          PROVE  AdminRemains'
      BY <1>1, <3>1 DEF AdminRemains, RealUsers
    <3>. QED  BY <1>1, <2>1, <2>2, <3>1, InsertedRow DEF AdminRemains, RealUsers, Present
  <2>3. ASSUME NEW h \in AdminHandler, UpdateUser(h) PROVE Raced
    <3>1. job[h].at = "update" /\ job'[h].at = "idle"
      BY <1>1, <2>3, UpdatedRow DEF AInv, TypeOK, Handler, Idle
    <3>2. job[h].by \in RealUsers /\ job[h].by # job[h].row
      BY <1>1, <3>1 DEF AuthorInv
    <3>3. job[h].by \in Id /\ users'[job[h].by] = users[job[h].by]
      BY <1>1, <2>3, <3>2, UpdatedRow DEF RealUsers, Present
    <3>4. users[job[h].by].role = "admin" => AdminRemains'
      BY <1>1, <2>3, <3>2, <3>3, UpdatedRow DEF AdminRemains
    <3>. QED  BY <1>1, <3>1, <3>4
  <2>4. \/ UNCHANGED <<users, elected>>
        \/ \E h \in LoginHandler : CreateIdentity(h)
        \/ \E h \in AdminHandler : UpdateUser(h)
    <3>1. ASSUME NEW h \in LoginHandler, LoginStep(h) PROVE CreateIdentity(h) \/ UNCHANGED <<users, elected>>
      BY <1>1, <3>1, LoginStepIsInsert
    <3>. QED  BY <1>1, <3>1
              DEF Next, AdminStep, AdminPatch, Logout, DatabaseFault, Crash, observations, vars
  <2>. QED  BY <2>1, <2>2, <2>3, <2>4
<1>. DEFINE A == AdminRemains /\ ~AdminRemains' =>
                    \E h \in AdminHandler : /\ job[h].at = "update" /\ job'[h].at = "idle"
                                           /\ users[job[h].by].role # "admin"
<1>2. AInv /\ AuthorInv /\ [Next]_vars => [A]_vars
  BY <1>1
<1>3. AInv /\ AuthorInv /\ [Next]_vars => AuthorInv'
  BY NextAuthors
<1>. QED  BY <1>2, <1>3, InitAuthors, AAlways, PTL DEF Spec, LastAdminFallsToRace
===============================================================================
