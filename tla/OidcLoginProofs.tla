---------------------------- MODULE OidcLoginProofs ----------------------------
(***************************************************************************)
(* OidcLogin for any login, callback and PATCH slots, addresses and         *)
(* lifetimes: an authorization state is redeemed once, never refused early  *)
(* and never accepted late, and a login keeps its hands off a contact it    *)
(* did not race with.                                                       *)
(***************************************************************************)
EXTENDS OidcLogin, TLAPS

\* A state is redeemable only while the discovery it was minted under stands; one that
\* is neither redeemable, redeemed nor lost to a restart is past its lifetime, also by
\* the clock of every callback still on its way to it.
StateInv ==
  /\ \A s \in State : redeemed[s] \in {0, 1} /\ (minted[s] = None => redeemed[s] = 0)
  /\ \A s \in State : pending[s] # None =>
       redeemed[s] = 0 /\ pending[s] = minted[s] /\ discovery = "ready"
  /\ \A s \in State : /\ minted[s] # None /\ pending[s] = None
                      /\ redeemed[s] = 0 /\ s \notin lost
       => /\ Expired(minted[s], now)
          /\ \A k \in Callback : callback[k].at = "config" /\ callback[k].state = s
                                   => Expired(minted[s], callback[k].mark)
  /\ \A b \in Begin : /\ begin[b].mark <= now
                      /\ begin[b].at = "challenge" => discovery = "ready"
  /\ \A k \in Callback : callback[k].at = "config" =>
       /\ minted[callback[k].state] # None
       /\ pending[callback[k].state] # None => callback[k].mark = now
  /\ ~wronged

\* What a callback between find and update knows, unless the row changed under it.
ContactInv ==
  \A k \in Callback : callback[k].at = "update" /\ ~callback[k].raced =>
    callback[k].seen = row["email"] /\ standing = "active"

\* The fields a PATCH has yet to write are fields of its body.
TodoInv == \A r \in Patch : patch[r].todo \subseteq DOMAIN patch[r].body

OInv == TypeOK /\ TodoInv /\ StateInv /\ ContactInv

-------------------------------------------------------------------------------
LEMMA FieldIs == Field = {"email", "kindleEmail", "notifyOn"}
  BY DEF Field, Columns

\* A PATCH writes a column of its own body.
LEMMA FirstIsOwn == ASSUME NEW fs \in SUBSET Field, fs # {} PROVE First(fs) \in fs
<1>. DEFINE P(f) == \E i \in 1..3 : Columns[i] = f /\ \A k \in 1..(i - 1) : Columns[k] \notin fs
<1>1. Columns[1] = "email" /\ Columns[2] = "kindleEmail" /\ Columns[3] = "notifyOn"
  BY DEF Columns
<1>2. \E f \in fs : P(f)
  <2>1. CASE "email" \in fs
    BY <1>1, <2>1
  <2>2. CASE "email" \notin fs /\ "kindleEmail" \in fs
    BY <1>1, <2>2
  <2>3. CASE "email" \notin fs /\ "kindleEmail" \notin fs
    <3>1. "notifyOn" \in fs
      BY <2>3, FieldIs
    <3>2. \A k \in 1..(3 - 1) : Columns[k] \notin fs
      BY <1>1, <2>3
    <3>3. P("notifyOn")
      BY <1>1, <3>2
    <3>. QED  BY <3>1, <3>3
  <2>. QED  BY <2>1, <2>2, <2>3
<1>. QED  BY <1>2 DEF First

LEMMA NoBodyIsBody == NoBody \in Body
<1>1. NoBody \in [{} -> Address \cup {None, "on"}]
  BY DEF NoBody
<1>. QED  BY <1>1 DEF Body

LEMMA BodyFields ==
  ASSUME NEW body \in Body
  PROVE  DOMAIN body \in SUBSET Field /\ \A f \in DOMAIN body : body[f] \in Choice(f)
  BY DEF Body

LEMMA IdlePatchOK == IdlePatch \in PatchJob /\ IdlePatch.todo \subseteq DOMAIN IdlePatch.body
  BY NoBodyIsBody DEF IdlePatch, PatchJob

LEMMA PatchChanges ==
  ASSUME ProfileTypeOK, TodoInv, NEW r \in Patch, NEW x \in PatchJob,
         x.todo \subseteq DOMAIN x.body, patch' = [patch EXCEPT ![r] = x],
         row' \in Account, faults' \in 0..MaxFaults
  PROVE  ProfileTypeOK' /\ TodoInv' /\ patch'[r] = x
  BY DEF ProfileTypeOK, TodoInv

LEMMA SubmitTypes ==
  ASSUME ProfileTypeOK, TodoInv, NEW r \in Patch, NEW body \in Body, Submit(r, body), UNCHANGED <<row, faults>>
  PROVE  ProfileTypeOK' /\ TodoInv'
<1>. DEFINE x == [IdlePatch EXCEPT !.at = "write", !.body = body, !.todo = DOMAIN body]
<1>1. x \in PatchJob /\ x.todo \subseteq DOMAIN x.body
  BY BodyFields, IdlePatchOK DEF IdlePatch, PatchJob
<1>2. patch' = [patch EXCEPT ![r] = x] /\ row' \in Account /\ faults' \in 0..MaxFaults
  BY DEF Submit, ProfileTypeOK
<1>. QED  BY <1>1, <1>2, PatchChanges

\* A step of a PATCH writes a value its column may hold, and changes the contact only
\* with the field `email` of its body.
LEMMA PatchTypes ==
  ASSUME ProfileTypeOK, TodoInv, NEW r \in Patch, PatchStep(r)
  PROVE  /\ ProfileTypeOK' /\ TodoInv'
         /\ row'["email"] # row["email"] => "email" \in patch[r].todo \ patch'[r].todo
<1>0. patch[r] \in PatchJob /\ patch[r].todo \subseteq DOMAIN patch[r].body
      /\ row \in Account /\ faults \in 0..MaxFaults
  BY DEF ProfileTypeOK, TodoInv
<1>1. CASE WriteField(r)
  <2>1. PICK f \in patch[r].todo : f = First(patch[r].todo)
    BY <1>0, <1>1, FirstIsOwn DEF WriteField, PatchJob
  <2>2. f \in Field /\ patch[r].body[f] \in Choice(f)
    BY <1>0, <2>1, BodyFields DEF PatchJob
  <2>3. row' = [row EXCEPT ![f] = patch[r].body[f]] /\ faults' = faults
    BY <1>1, <2>1 DEF WriteField
  <2>4. row' \in Account
    BY <1>0, <2>2, <2>3 DEF Account, Choice
  <2>. DEFINE x == [patch[r] EXCEPT !.todo = patch[r].todo \ {f}]
  <2>5. patch' = [patch EXCEPT ![r] = x]
    BY <1>1, <2>1 DEF WriteField
  <2>6. x \in PatchJob /\ x.todo \subseteq DOMAIN x.body /\ x.todo = patch[r].todo \ {f}
    BY <1>0 DEF PatchJob
  <2>7. ProfileTypeOK' /\ TodoInv' /\ patch'[r] = x
    BY <1>0, <2>3, <2>4, <2>5, <2>6, PatchChanges
  <2>8. row'["email"] # row["email"] => f = "email"
    BY <1>0, <2>3 DEF Account
  <2>. QED  BY <2>1, <2>6, <2>7, <2>8
<1>2. CASE ReadBack(r)
  <2>. DEFINE x == [patch[r] EXCEPT !.at = "answered", !.dto = row]
  <2>1. patch' = [patch EXCEPT ![r] = x] /\ UNCHANGED <<row, faults>>
    BY <1>2 DEF ReadBack
  <2>2. x \in PatchJob /\ x.todo \subseteq DOMAIN x.body
    BY <1>0 DEF PatchJob
  <2>. QED  BY <1>0, <2>1, <2>2, PatchChanges
<1>3. CASE PatchFails(r)
  <2>. DEFINE x == [patch[r] EXCEPT !.at = "answered", !.dto = None]
  <2>1. patch' = [patch EXCEPT ![r] = x] /\ row' = row
    BY <1>3 DEF PatchFails
  <2>3. faults' \in 0..MaxFaults
    BY <1>0, <1>3, ProfileAssumption DEF PatchFails
  <2>2. x \in PatchJob /\ x.todo \subseteq DOMAIN x.body
    BY <1>0 DEF PatchJob
  <2>. QED  BY <1>0, <2>1, <2>2, <2>3, PatchChanges
<1>. QED  BY <1>1, <1>2, <1>3 DEF PatchStep

-------------------------------------------------------------------------------
BeginJob == [at : {"idle", "config", "challenge"}, mark : Time]
CallbackJob == [at : {"idle", "config", "exchange", "find", "update"},
                state : State, mark : Time, claim : Address \cup {None},
                seen : Address \cup {None}, raced : BOOLEAN]

\* The types of the login service itself.
LoginTypes ==
  /\ now \in Time /\ discovery \in {"none", "pending", "ready"}
  /\ pending \in [State -> Time \cup {None}]
  /\ begin \in [Begin -> BeginJob] /\ callback \in [Callback -> CallbackJob]
  /\ standing \in {"active", "rejected"}
  /\ minted \in [State -> Time \cup {None}] /\ redeemed \in [State -> Nat]
  /\ lost \in SUBSET State /\ wronged \in BOOLEAN

\* Whoever waits for the configuration has a discovery to wait for.
NobodyHangs == (\E b \in Begin : begin[b].at = "config") \/ (\E k \in Callback : callback[k].at = "config")
                 => discovery # "none"

LEMMA TypeParts == TypeOK <=> ProfileTypeOK /\ LoginTypes /\ NobodyHangs
  BY DEF TypeOK, LoginTypes, NobodyHangs, BeginJob, CallbackJob

LEMMA IdleTypes == IdleBegin \in BeginJob /\ IdleCallback \in CallbackJob /\ 0 \in Time /\ Time \subseteq Nat
                   /\ IdleBegin.at = "idle" /\ IdleBegin.mark = 0 /\ IdleCallback.at = "idle"
  BY OidcBoundsAssumption DEF IdleBegin, IdleCallback, BeginJob, CallbackJob, Time, State

\* Nothing the state bookkeeping reads changes: callbacks only leave the front.
LEMMA StateFrame ==
  ASSUME StateInv, UNCHANGED <<now, memory, begin, observations>>,
         \A k \in Callback : callback'[k].at = "config" =>
           /\ callback[k].at = "config" /\ callback'[k].state = callback[k].state
           /\ callback'[k].mark = callback[k].mark
  PROVE  StateInv'
<1>1. UNCHANGED <<now, discovery, pending, begin, minted, redeemed, lost, wronged>>
  BY DEF memory, observations
<1>. QED  BY <1>1 DEF StateInv, Expired

\* No callback enters the update, and the contact of those there stays.
LEMMA ContactFrame ==
  ASSUME ContactInv, row'["email"] = row["email"], standing' = standing,
         \A k \in Callback : callback'[k].at = "update" => callback'[k] = callback[k]
  PROVE  ContactInv'
  BY DEF ContactInv

LEMMA CallbackChanges ==
  ASSUME LoginTypes, NEW k \in Callback, NEW x \in CallbackJob, callback' = [callback EXCEPT ![k] = x]
  PROVE  /\ callback' \in [Callback -> CallbackJob] /\ callback'[k] = x
         /\ \A j \in Callback \ {k} : callback'[j] = callback[j]
  BY DEF LoginTypes

LEMMA BeginChanges ==
  ASSUME LoginTypes, NEW b \in Begin, NEW x \in BeginJob, begin' = [begin EXCEPT ![b] = x]
  PROVE  /\ begin' \in [Begin -> BeginJob] /\ begin'[b] = x
         /\ \A j \in Begin \ {b} : begin'[j] = begin[j]
  BY DEF LoginTypes

LEMMA ProfileFrame ==
  ASSUME ProfileTypeOK, TodoInv, UNCHANGED <<row, patch>>, faults' \in 0..MaxFaults
  PROVE  ProfileTypeOK' /\ TodoInv'
  BY DEF ProfileTypeOK, TodoInv

LEMMA OInit == Init => OInv
<1>. SUFFICES ASSUME Init PROVE OInv
  OBVIOUS
<1>1. \A b \in Begin : begin[b] = IdleBegin
  BY DEF Init
<1>2. \A k \in Callback : callback[k] = IdleCallback
  BY DEF Init
<1>3. ProfileTypeOK /\ TodoInv
  <2>1. row \in Account /\ patch = [r \in Patch |-> IdlePatch] /\ faults = 0
    BY DEF Init, ProfileInit
  <2>. QED  BY <2>1, IdlePatchOK, ProfileAssumption DEF ProfileTypeOK, TodoInv
<1>4. LoginTypes
  BY IdleTypes DEF Init, LoginTypes
<1>5. NobodyHangs
  BY <1>1, <1>2, IdleTypes DEF NobodyHangs
<1>6. StateInv
  BY <1>1, <1>2, IdleTypes DEF Init, StateInv
<1>7. ContactInv
  BY <1>2, IdleTypes DEF ContactInv
<1>. QED  BY <1>3, <1>4, <1>5, <1>6, <1>7, TypeParts DEF OInv

LEMMA OBeginLogin == ASSUME OInv, NEW b \in Begin, BeginLogin(b) PROVE OInv'
<1>. DEFINE x == [at |-> "config", mark |-> now]
<1>0. ProfileTypeOK /\ LoginTypes /\ NobodyHangs
  BY TypeParts DEF OInv
<1>1. /\ begin' = [begin EXCEPT ![b] = x] /\ discovery' = IF discovery = "none" THEN "pending" ELSE discovery
      /\ UNCHANGED <<row, patch, faults, now, pending, callback, standing, minted, redeemed, lost, wronged>>
  BY DEF BeginLogin, AskConfig, observations
<1>2. x \in BeginJob
  BY <1>0 DEF LoginTypes, BeginJob
<1>3. begin' \in [Begin -> BeginJob] /\ begin'[b] = x /\ \A j \in Begin \ {b} : begin'[j] = begin[j]
  BY <1>0, <1>1, <1>2, BeginChanges
<1>4. LoginTypes' /\ NobodyHangs'
  BY <1>0, <1>1, <1>3 DEF LoginTypes, NobodyHangs
<1>5. ProfileTypeOK' /\ TodoInv'
  BY <1>0, <1>1, ProfileFrame DEF OInv, ProfileTypeOK
<1>6. StateInv'
  <2>1. \A j \in Begin : begin'[j].mark <= now /\ (begin'[j].at = "challenge" => discovery = "ready")
    <3>1. now <= now
      BY <1>0, IdleTypes DEF LoginTypes
    <3>. QED  BY <1>3, <3>1 DEF OInv, StateInv
  <2>. QED  BY <1>1, <2>1 DEF OInv, StateInv, Expired
<1>7. ContactInv'
  BY <1>1, ContactFrame DEF OInv
<1>8. TypeOK'
  BY <1>4, <1>5, TypeParts, PTL
<1>. QED  BY <1>5, <1>6, <1>7, <1>8 DEF OInv

LEMMA OChallenge == ASSUME OInv, NEW b \in Begin, Challenge(b) PROVE OInv'
<1>. DEFINE x == [begin[b] EXCEPT !.at = "challenge"]
<1>0. ProfileTypeOK /\ LoginTypes /\ NobodyHangs
  BY TypeParts DEF OInv
<1>1. /\ begin' = [begin EXCEPT ![b] = x] /\ discovery = "ready"
      /\ UNCHANGED <<row, patch, faults, now, discovery, pending, callback, standing, minted, redeemed, lost, wronged>>
  BY DEF Challenge, memory, observations
<1>2. x \in BeginJob /\ x.mark = begin[b].mark
  BY <1>0 DEF LoginTypes, BeginJob
<1>3. begin' \in [Begin -> BeginJob] /\ begin'[b] = x /\ \A j \in Begin \ {b} : begin'[j] = begin[j]
  BY <1>0, <1>1, <1>2, BeginChanges
<1>4. LoginTypes' /\ NobodyHangs'
  BY <1>0, <1>1, <1>3 DEF LoginTypes, NobodyHangs
<1>5. ProfileTypeOK' /\ TodoInv'
  BY <1>0, <1>1, ProfileFrame DEF OInv, ProfileTypeOK
<1>6. StateInv'
  <2>1. \A j \in Begin : begin'[j].mark <= now /\ (begin'[j].at = "challenge" => discovery = "ready")
    BY <1>1, <1>2, <1>3 DEF OInv, StateInv
  <2>. QED  BY <1>1, <2>1 DEF OInv, StateInv, Expired
<1>7. ContactInv'
  BY <1>1, ContactFrame DEF OInv
<1>8. TypeOK'
  BY <1>4, <1>5, TypeParts, PTL
<1>. QED  BY <1>5, <1>6, <1>7, <1>8 DEF OInv

\* The sweep forgets only what is past its lifetime, by a clock no callback on its way
\* is behind.
LEMMA ORedirect == ASSUME OInv, NEW b \in Begin, Redirect(b) PROVE OInv'
<1>0. ProfileTypeOK /\ LoginTypes /\ NobodyHangs
  BY TypeParts DEF OInv
<1>1. PICK s \in State, m \in Time :
        /\ m = begin[b].mark /\ NextState(s)
        /\ pending' = [Sweep(m) EXCEPT ![s] = m] /\ minted' = [minted EXCEPT ![s] = m]
        /\ begin' = [begin EXCEPT ![b] = IdleBegin] /\ begin[b].at = "challenge"
        /\ UNCHANGED <<row, patch, faults, now, discovery, callback, standing, redeemed, lost, wronged>>
  BY <1>0 DEF Redirect, LoginTypes, BeginJob
<1>2. m <= now /\ discovery = "ready" /\ now \in Nat /\ m \in Nat
  BY <1>0, <1>1, IdleTypes DEF OInv, StateInv, LoginTypes
<1>3. begin' \in [Begin -> BeginJob] /\ begin'[b] = IdleBegin /\ \A j \in Begin \ {b} : begin'[j] = begin[j]
  BY <1>0, <1>1, IdleTypes, BeginChanges
<1>4. /\ pending' \in [State -> Time \cup {None}] /\ pending'[s] = m /\ minted'[s] = m
      /\ \A t \in State \ {s} :
           /\ minted'[t] = minted[t]
           /\ \/ pending'[t] = pending[t]
              \/ pending[t] # None /\ Expired(pending[t], m) /\ pending'[t] = None
      /\ minted' \in [State -> Time \cup {None}]
  BY <1>0, <1>1 DEF Sweep, LoginTypes
<1>5. LoginTypes' /\ NobodyHangs'
  BY <1>0, <1>1, <1>3, <1>4, IdleTypes DEF LoginTypes, NobodyHangs
<1>6. ProfileTypeOK' /\ TodoInv'
  BY <1>0, <1>1, ProfileFrame DEF OInv, ProfileTypeOK
<1>7. (minted[s] = None /\ pending[s] = None) \/ pending[s] = minted[s]
  BY <1>1 DEF NextState, OInv, StateInv
<1>8. minted[s] = None /\ pending[s] = None /\ redeemed[s] = 0
  BY <1>1, <1>7 DEF NextState, OInv, StateInv
<1>9. StateInv'
  <2>1. ASSUME NEW t \in State \ {s}, minted[t] # None, pending'[t] = None, redeemed[t] = 0, t \notin lost
        PROVE  /\ Expired(minted[t], now)
               /\ \A k \in Callback : callback[k].at = "config" /\ callback[k].state = t
                                        => Expired(minted[t], callback[k].mark)
    <3>1. CASE pending[t] = None
      BY <2>1, <3>1 DEF OInv, StateInv
    <3>2. CASE pending[t] # None
      <4>1. pending[t] = minted[t] /\ Expired(minted[t], m)
        BY <1>4, <2>1, <3>2 DEF OInv, StateInv
      <4>2. minted[t] \in Nat
        BY <1>0, <2>1, IdleTypes DEF LoginTypes
      <4>3. Expired(minted[t], now)
        BY <1>2, <4>1, <4>2, OidcBoundsAssumption DEF Expired
      <4>4. \A k \in Callback : callback[k].at = "config" /\ callback[k].state = t => callback[k].mark = now
        BY <3>2 DEF OInv, StateInv
      <4>. QED  BY <4>3, <4>4
    <3>. QED  BY <3>1, <3>2
  <2>2. \A t \in State : pending'[t] # None => redeemed[t] = 0 /\ pending'[t] = minted'[t]
    BY <1>4, <1>8 DEF OInv, StateInv
  <2>3. \A t \in State : redeemed[t] \in {0, 1} /\ (minted'[t] = None => redeemed[t] = 0)
    BY <1>4, <1>8 DEF OInv, StateInv
  <2>4. \A j \in Begin : begin'[j].mark <= now /\ (begin'[j].at = "challenge" => discovery = "ready")
    BY <1>2, <1>3, IdleTypes DEF OInv, StateInv
  <2>5. \A k \in Callback : callback[k].at = "config" =>
          /\ minted'[callback[k].state] # None
          /\ pending'[callback[k].state] # None => callback[k].mark = now
    <3>1. SUFFICES ASSUME NEW k \in Callback, callback[k].at = "config"
                   PROVE  /\ minted'[callback[k].state] # None
                          /\ pending'[callback[k].state] # None => callback[k].mark = now
      OBVIOUS
    <3>2. callback[k].state \in State /\ minted[callback[k].state] # None
      BY <1>0, <3>1 DEF LoginTypes, CallbackJob, OInv, StateInv
    <3>3. callback[k].state # s
      BY <1>8, <3>2
    <3>. QED  BY <1>4, <3>1, <3>2, <3>3 DEF OInv, StateInv
  <2>6. ~wronged' /\ UNCHANGED <<now, discovery, callback, redeemed, lost>>
    BY <1>1 DEF OInv, StateInv
  <2>7. \A t \in State : /\ minted'[t] # None /\ pending'[t] = None /\ redeemed[t] = 0 /\ t \notin lost
          => t # s /\ minted'[t] = minted[t]
    BY <1>4
  <2>8. \A t \in State : /\ minted'[t] # None /\ pending'[t] = None /\ redeemed[t] = 0 /\ t \notin lost
          => /\ Expired(minted'[t], now)
             /\ \A k \in Callback : callback[k].at = "config" /\ callback[k].state = t
                                      => Expired(minted'[t], callback[k].mark)
    BY <2>1, <2>7
  <2>. QED  BY <1>2, <2>2, <2>3, <2>4, <2>5, <2>6, <2>8 DEF StateInv, Expired
<1>10. ContactInv'
  BY <1>1, ContactFrame DEF OInv
<1>11. TypeOK'
  BY <1>5, <1>6, TypeParts, PTL
<1>. QED  BY <1>6, <1>9, <1>10, <1>11 DEF OInv

\* A step that moves one callback past the front, or home, and touches nothing else
\* but the fault count.
LEMMA CallbackStep ==
  ASSUME OInv, NEW k \in Callback, NEW x \in CallbackJob, callback' = [callback EXCEPT ![k] = x],
         x.at # "config", x.at = "update" => x.seen = row["email"] /\ standing = "active",
         UNCHANGED <<row, patch, now, memory, begin, standing, observations>>, faults' \in 0..MaxFaults
  PROVE  OInv'
<1>0. ProfileTypeOK /\ LoginTypes /\ NobodyHangs
  BY TypeParts DEF OInv
<1>1. /\ callback' \in [Callback -> CallbackJob] /\ callback'[k] = x
      /\ \A j \in Callback \ {k} : callback'[j] = callback[j]
  BY <1>0, CallbackChanges
<1>2. LoginTypes' /\ NobodyHangs'
  BY <1>0, <1>1 DEF LoginTypes, NobodyHangs, memory, observations
<1>3. ProfileTypeOK' /\ TodoInv'
  BY <1>0, ProfileFrame DEF OInv
<1>4. StateInv'
  BY <1>1, StateFrame DEF OInv
<1>5. ContactInv'
  BY <1>1 DEF OInv, ContactInv
<1>6. TypeOK'
  BY <1>2, <1>3, TypeParts, PTL
<1>. QED  BY <1>3, <1>4, <1>5, <1>6 DEF OInv

LEMMA JobTypes ==
  ASSUME OInv, NEW k \in Callback
  PROVE  callback[k] \in CallbackJob /\ faults \in 0..MaxFaults /\ row["email"] \in Address \cup {None}
<1>1. row \in Account /\ faults \in 0..MaxFaults /\ callback \in [Callback -> CallbackJob]
  BY TypeParts DEF OInv, LoginTypes, ProfileTypeOK
<1>. QED  BY <1>1, FieldIs DEF Account, Choice

LEMMA OExchange == ASSUME OInv, NEW k \in Callback, Exchange(k) PROVE OInv'
<1>1. PICK claim \in Address \cup {None} : callback' = [callback EXCEPT ![k].at = "find", ![k].claim = claim]
  BY DEF Exchange
<1>. DEFINE x == [callback[k] EXCEPT !.at = "find", !.claim = claim]
<1>2. callback' = [callback EXCEPT ![k] = x] /\ x \in CallbackJob /\ x.at = "find"
  BY <1>1, JobTypes DEF CallbackJob
<1>. QED  BY <1>2, JobTypes, CallbackStep DEF Exchange

LEMMA OCallbackFails == ASSUME OInv, NEW k \in Callback, CallbackFails(k) PROVE OInv'
<1>1. faults' \in 0..MaxFaults
  BY JobTypes, ProfileAssumption DEF CallbackFails
<1>2. callback' = [callback EXCEPT ![k] = IdleCallback]
      /\ UNCHANGED <<row, patch, now, memory, begin, standing, observations>>
  BY DEF CallbackFails, Bounce
<1>. QED  BY <1>1, <1>2, IdleTypes, CallbackStep

LEMMA OFind == ASSUME OInv, NEW k \in Callback, Find(k) PROVE OInv'
<1>1. UNCHANGED <<row, patch, faults, now, memory, begin, standing, observations>>
  BY DEF Find
<1>2. CASE Bounce(k)
  BY <1>1, <1>2, JobTypes, IdleTypes, CallbackStep DEF Bounce
<1>3. CASE standing # "rejected" /\ callback' = [callback EXCEPT ![k].at = "update", ![k].seen = row["email"]]
  <2>. DEFINE x == [callback[k] EXCEPT !.at = "update", !.seen = row["email"]]
  <2>1. callback' = [callback EXCEPT ![k] = x]
    BY <1>3
  <2>2. x \in CallbackJob /\ x.at = "update" /\ x.seen = row["email"]
    BY JobTypes DEF CallbackJob
  <2>3. standing = "active"
    BY <1>3, TypeParts DEF OInv, LoginTypes
  <2>. QED  BY <1>1, <2>1, <2>2, <2>3, JobTypes, CallbackStep
<1>. QED  BY <1>2, <1>3 DEF Find

\* A callback that arrives reads the clock and waits for the configuration.
LEMMA OCallbackArrives ==
  ASSUME OInv, NEW k \in Callback, NEW s \in State, CallbackArrives(k, s) PROVE OInv'
<1>. DEFINE x == [IdleCallback EXCEPT !.at = "config", !.state = s, !.mark = now]
<1>0. ProfileTypeOK /\ LoginTypes /\ NobodyHangs
  BY TypeParts DEF OInv
<1>1. /\ minted[s] # None /\ discovery' = (IF discovery = "none" THEN "pending" ELSE discovery)
      /\ callback' = [callback EXCEPT ![k] = x]
      /\ UNCHANGED <<row, patch, faults, now, pending, begin, standing, minted, redeemed, lost, wronged>>
  BY DEF CallbackArrives, AskConfig, observations
<1>2. x \in CallbackJob /\ x.at = "config" /\ x.state = s /\ x.mark = now
  BY <1>0, IdleTypes DEF LoginTypes, CallbackJob, IdleCallback
<1>3. /\ callback' \in [Callback -> CallbackJob] /\ callback'[k] = x
      /\ \A j \in Callback \ {k} : callback'[j] = callback[j]
  BY <1>0, <1>1, <1>2, CallbackChanges
<1>4. LoginTypes' /\ NobodyHangs'
  BY <1>0, <1>1, <1>3 DEF LoginTypes, NobodyHangs
<1>5. ProfileTypeOK' /\ TodoInv'
  BY <1>0, <1>1, ProfileFrame DEF OInv, ProfileTypeOK
<1>6. StateInv'
  <2>1. \A j \in Callback : callback'[j].at = "config" =>
          /\ minted[callback'[j].state] # None
          /\ pending[callback'[j].state] # None => callback'[j].mark = now
    BY <1>1, <1>2, <1>3 DEF OInv, StateInv
  <2>2. \A t \in State : /\ minted[t] # None /\ pending[t] = None /\ redeemed[t] = 0 /\ t \notin lost
          => /\ Expired(minted[t], now)
             /\ \A j \in Callback : callback'[j].at = "config" /\ callback'[j].state = t
                                      => Expired(minted[t], callback'[j].mark)
    <3>1. \A j \in Callback : callback'[j].mark = now \/ callback'[j] = callback[j]
      BY <1>2, <1>3
    <3>2. \A t \in State : /\ minted[t] # None /\ pending[t] = None /\ redeemed[t] = 0 /\ t \notin lost
            => Expired(minted[t], now)
      BY DEF OInv, StateInv
    <3>. QED  BY <3>1, <3>2 DEF OInv, StateInv
  <2>. QED  BY <1>1, <2>1, <2>2 DEF OInv, StateInv, Expired
<1>7. ContactInv'
  BY <1>1, <1>2, <1>3 DEF OInv, ContactInv
<1>8. TypeOK'
  BY <1>4, <1>5, TypeParts, PTL
<1>. QED  BY <1>5, <1>6, <1>7, <1>8 DEF OInv

\* The state goes with its first redemption; a refused one is spent, lost or expired.
LEMMA ORedeem == ASSUME OInv, NEW k \in Callback, Redeem(k) PROVE OInv'
<1>0. ProfileTypeOK /\ LoginTypes /\ NobodyHangs
  BY TypeParts DEF OInv
<1>1. PICK s \in State : s = callback[k].state
  BY JobTypes DEF CallbackJob
<1>2. /\ callback[k].at = "config" /\ discovery = "ready" /\ minted[s] # None
      /\ UNCHANGED <<row, patch, faults, now, discovery, begin, standing, minted, lost>>
  BY <1>1 DEF Redeem, OInv, StateInv
<1>3. CASE pending[s] = None \/ Expired(pending[s], callback[k].mark)
  <2>1. /\ callback' = [callback EXCEPT ![k] = IdleCallback] /\ UNCHANGED <<pending, redeemed>>
        /\ wronged' = (wronged \/ (redeemed[s] = 0 /\ s \notin lost /\ ~Expired(minted[s], callback[k].mark)))
    BY <1>1, <1>3 DEF Redeem, Bounce
  <2>2. pending[s] # None => pending[s] = minted[s]
    BY DEF OInv, StateInv
  <2>3. redeemed[s] = 0 /\ s \notin lost => Expired(minted[s], callback[k].mark)
    BY <1>1, <1>2, <1>3, <2>2 DEF OInv, StateInv
  <2>4. wronged' = wronged
    BY <1>0, <2>1, <2>3 DEF LoginTypes
  <2>5. UNCHANGED <<memory, observations>>
    BY <1>2, <2>1, <2>4 DEF memory, observations
  <2>. QED  BY <1>2, <2>1, <2>5, JobTypes, IdleTypes, CallbackStep
<1>4. CASE pending[s] # None /\ ~Expired(pending[s], callback[k].mark)
  <2>. DEFINE x == [callback[k] EXCEPT !.at = "exchange"]
  <2>1. /\ pending' = [pending EXCEPT ![s] = None] /\ redeemed' = [redeemed EXCEPT ![s] = redeemed[s] + 1]
        /\ callback' = [callback EXCEPT ![k] = x]
        /\ wronged' = (wronged \/ callback[k].mark - minted[s] > PendingTtl)
    BY <1>1, <1>4 DEF Redeem, Forget
  <2>a. pending[s] = minted[s] /\ wronged \in BOOLEAN /\ ~wronged
    BY <1>0, <1>4 DEF LoginTypes, OInv, StateInv
  <2>b. wronged' = FALSE
    BY <1>4, <2>1, <2>a DEF Expired
  <2>2. x \in CallbackJob /\ x.at = "exchange"
    BY JobTypes DEF CallbackJob
  <2>3. /\ callback' \in [Callback -> CallbackJob] /\ callback'[k] = x
        /\ \A j \in Callback \ {k} : callback'[j] = callback[j]
    BY <1>0, <2>1, <2>2, CallbackChanges
  <2>4. redeemed[s] = 0
    BY <1>4 DEF OInv, StateInv
  <2>5. /\ redeemed'[s] = 1 /\ pending'[s] = None
        /\ \A t \in State \ {s} : redeemed'[t] = redeemed[t] /\ pending'[t] = pending[t]
        /\ redeemed' \in [State -> Nat] /\ pending' \in [State -> Time \cup {None}]
    BY <1>0, <2>1, <2>4 DEF LoginTypes
  <2>6. LoginTypes' /\ NobodyHangs'
    BY <1>0, <1>2, <2>1, <2>3, <2>5, <2>b DEF LoginTypes, NobodyHangs
  <2>7. ProfileTypeOK' /\ TodoInv'
    BY <1>0, <1>2, ProfileFrame DEF OInv, ProfileTypeOK
  <2>8. StateInv'
    <3>1. \A j \in Callback : callback'[j].at = "config" => callback'[j] = callback[j]
      BY <2>2, <2>3
    <3>2. \A j \in Callback : callback[j].at = "config" => callback[j].state \in State
      BY <1>0 DEF LoginTypes, CallbackJob
    <3>3. \A j \in Callback : callback'[j].at = "config" =>
            /\ minted[callback'[j].state] # None
            /\ pending'[callback'[j].state] # None => callback'[j].mark = now
      BY <2>5, <3>1, <3>2 DEF OInv, StateInv
    <3>4. \A t \in State : /\ redeemed'[t] \in {0, 1} /\ (minted[t] = None => redeemed'[t] = 0)
                           /\ pending'[t] # None => redeemed'[t] = 0 /\ pending'[t] = minted[t]
      BY <1>2, <2>5 DEF OInv, StateInv
    <3>5. \A t \in State : /\ minted[t] # None /\ pending'[t] = None /\ redeemed'[t] = 0 /\ t \notin lost
            => /\ Expired(minted[t], now)
               /\ \A j \in Callback : callback'[j].at = "config" /\ callback'[j].state = t
                                        => Expired(minted[t], callback'[j].mark)
      BY <2>5, <3>1 DEF OInv, StateInv
    <3>. QED  BY <1>2, <2>b, <3>3, <3>4, <3>5 DEF OInv, StateInv, Expired
  <2>9. ContactInv'
    BY <1>2, <2>2, <2>3 DEF OInv, ContactInv
  <2>10. TypeOK'
    BY <2>6, <2>7, TypeParts, PTL
  <2>. QED  BY <2>7, <2>8, <2>9, <2>10 DEF OInv
<1>. QED  BY <1>3, <1>4

LEMMA ODiscoverySucceeds == ASSUME OInv, DiscoverySucceeds PROVE OInv'
<1>0. ProfileTypeOK /\ LoginTypes /\ NobodyHangs
  BY TypeParts DEF OInv
<1>1. /\ discovery = "pending" /\ discovery' = "ready"
      /\ UNCHANGED <<row, patch, faults, now, pending, begin, callback, standing, minted, redeemed, lost, wronged>>
  BY DEF DiscoverySucceeds, observations
<1>2. LoginTypes' /\ NobodyHangs'
  BY <1>0, <1>1 DEF LoginTypes, NobodyHangs
<1>3. ProfileTypeOK' /\ TodoInv'
  BY <1>0, <1>1, ProfileFrame DEF OInv, ProfileTypeOK
<1>4. StateInv'
  BY <1>1 DEF OInv, StateInv, Expired
<1>5. ContactInv'
  BY <1>1, ContactFrame DEF OInv
<1>6. TypeOK'
  BY <1>2, <1>3, TypeParts, PTL
<1>. QED  BY <1>3, <1>4, <1>5, <1>6 DEF OInv

LEMMA ODiscoveryFails == ASSUME OInv, DiscoveryFails PROVE OInv'
<1>0. ProfileTypeOK /\ LoginTypes /\ NobodyHangs
  BY TypeParts DEF OInv
<1>1. /\ discovery = "pending" /\ discovery' = "none" /\ faults < MaxFaults /\ faults' = faults + 1
      /\ begin' = [b \in Begin |-> IF begin[b].at = "config" THEN IdleBegin ELSE begin[b]]
      /\ callback' = [k \in Callback |-> IF callback[k].at = "config" THEN IdleCallback ELSE callback[k]]
      /\ UNCHANGED <<row, patch, now, pending, standing, minted, redeemed, lost, wronged>>
  BY DEF DiscoveryFails, observations
<1>2. /\ \A b \in Begin : (begin'[b] = begin[b] /\ begin[b].at # "config") \/ begin'[b] = IdleBegin
      /\ \A k \in Callback : (callback'[k] = callback[k] /\ callback[k].at # "config") \/ callback'[k] = IdleCallback
      /\ begin' \in [Begin -> BeginJob] /\ callback' \in [Callback -> CallbackJob]
  BY <1>0, <1>1, IdleTypes DEF LoginTypes
<1>3. /\ \A b \in Begin : begin'[b].at # "config"
      /\ \A k \in Callback : callback'[k].at # "config"
  BY <1>2, IdleTypes
<1>4. LoginTypes' /\ NobodyHangs'
  BY <1>0, <1>1, <1>2, <1>3 DEF LoginTypes, NobodyHangs
<1>5. faults' \in 0..MaxFaults
  BY <1>0, <1>1, ProfileAssumption DEF ProfileTypeOK
<1>6. ProfileTypeOK' /\ TodoInv'
  BY <1>0, <1>1, <1>5, ProfileFrame DEF OInv
<1>7. StateInv'
  <2>1. \A b \in Begin : begin'[b].mark <= now /\ begin'[b].at # "challenge"
    <3>1. 0 <= now
      BY <1>0, IdleTypes DEF LoginTypes
    <3>. QED  BY <1>1, <1>2, <3>1, IdleTypes DEF OInv, StateInv
  <2>2. \A s \in State : pending[s] = None
    BY <1>1 DEF OInv, StateInv
  <2>. QED  BY <1>1, <1>3, <2>1, <2>2 DEF OInv, StateInv, Expired
<1>8. ContactInv'
  <2>1. \A k \in Callback : callback'[k].at = "update" => callback'[k] = callback[k]
    BY <1>2, IdleTypes
  <2>. QED  BY <1>1, <2>1, ContactFrame DEF OInv
<1>9. TypeOK'
  BY <1>4, <1>6, TypeParts, PTL
<1>. QED  BY <1>6, <1>7, <1>8, <1>9 DEF OInv

\* What Raced leaves of a callback: where it stands, its state and its clock.
LEMMA RacedCallbacks ==
  ASSUME LoginTypes
  PROVE  /\ Raced \in [Callback -> CallbackJob]
         /\ \A k \in Callback : /\ Raced[k].at = callback[k].at
                                /\ Raced[k].at # "update" => Raced[k] = callback[k]
                                /\ Raced[k].at = "update" => Raced[k].raced
<1>1. ASSUME NEW k \in Callback
      PROVE  /\ [callback[k] EXCEPT !.raced = TRUE] \in CallbackJob
             /\ [callback[k] EXCEPT !.raced = TRUE].at = callback[k].at
             /\ [callback[k] EXCEPT !.raced = TRUE].raced
  <2>1. callback[k] \in CallbackJob
    BY DEF LoginTypes
  <2>. QED  BY <2>1 DEF CallbackJob
<1>. QED  BY <1>1 DEF Raced, LoginTypes

\* The row or the standing changed: whoever stands between find and update is told.
LEMMA RacingStep ==
  ASSUME OInv, callback' = Raced, UNCHANGED <<now, memory, begin, observations>>,
         standing' \in {"active", "rejected"}, ProfileTypeOK', TodoInv'
  PROVE  OInv'
<1>0. ProfileTypeOK /\ LoginTypes /\ NobodyHangs
  BY TypeParts DEF OInv
<1>1. /\ callback' \in [Callback -> CallbackJob]
      /\ \A k \in Callback : /\ callback'[k].at = callback[k].at
                             /\ callback'[k].at # "update" => callback'[k] = callback[k]
                             /\ callback'[k].at = "update" => callback'[k].raced
  BY <1>0, RacedCallbacks
<1>2. LoginTypes' /\ NobodyHangs'
  BY <1>0, <1>1 DEF LoginTypes, NobodyHangs, memory, observations
<1>3. StateInv'
  BY <1>1, StateFrame DEF OInv
<1>4. ContactInv'
  BY <1>1 DEF ContactInv
<1>5. TypeOK'
  BY <1>2, TypeParts, PTL
<1>. QED  BY <1>3, <1>4, <1>5 DEF OInv

LEMMA OSetStanding == ASSUME OInv, SetStanding PROVE OInv'
<1>1. ProfileTypeOK' /\ TodoInv'
  BY TypeParts, ProfileFrame DEF OInv, SetStanding, ProfileTypeOK
<1>. QED  BY <1>1, RacingStep DEF SetStanding

\* A step of the account page that leaves the contact alone.
LEMMA QuietPatch ==
  ASSUME OInv, ProfileTypeOK', TodoInv', row'["email"] = row["email"],
         UNCHANGED <<callback, now, memory, begin, standing, observations>>
  PROVE  OInv'
<1>0. LoginTypes /\ NobodyHangs
  BY TypeParts DEF OInv
<1>1. LoginTypes' /\ NobodyHangs'
  BY <1>0 DEF LoginTypes, NobodyHangs, memory, observations
<1>2. StateInv'
  BY StateFrame DEF OInv
<1>3. ContactInv'
  BY ContactFrame DEF OInv
<1>4. TypeOK'
  BY <1>1, TypeParts, PTL
<1>. QED  BY <1>2, <1>3, <1>4 DEF OInv

LEMMA OSubmitPatch == ASSUME OInv, NEW r \in Patch, NEW body \in Bodies, SubmitPatch(r, body) PROVE OInv'
<1>1. ProfileTypeOK' /\ TodoInv'
  BY TypeParts, OidcBoundsAssumption, SubmitTypes DEF OInv, SubmitPatch
<1>. QED  BY <1>1, QuietPatch DEF SubmitPatch

LEMMA OPatchProceeds == ASSUME OInv, NEW r \in Patch, PatchProceeds(r) PROVE OInv'
<1>1. /\ ProfileTypeOK' /\ TodoInv'
      /\ row'["email"] # row["email"] => "email" \in patch[r].todo \ patch'[r].todo
  BY TypeParts, PatchTypes DEF OInv, PatchProceeds
<1>2. CASE "email" \in patch[r].todo \ patch'[r].todo
  <2>1. standing' \in {"active", "rejected"}
    BY TypeParts DEF OInv, LoginTypes, PatchProceeds
  <2>. QED  BY <1>1, <1>2, <2>1, RacingStep DEF PatchProceeds
<1>3. CASE ~("email" \in patch[r].todo \ patch'[r].todo)
  BY <1>1, <1>3, QuietPatch DEF PatchProceeds
<1>. QED  BY <1>2, <1>3

LEMMA OPatchAnswered == ASSUME OInv, NEW r \in Patch, PatchAnswered(r) PROVE OInv'
<1>1. ProfileTypeOK' /\ TodoInv'
  <2>1. ProfileTypeOK /\ TodoInv /\ row' \in Account /\ faults' \in 0..MaxFaults
    BY TypeParts DEF OInv, ProfileTypeOK, PatchAnswered
  <2>. QED  BY <2>1, IdlePatchOK, PatchChanges DEF PatchAnswered
<1>. QED  BY <1>1, QuietPatch DEF PatchAnswered

\* The update by id: it may change the row under the other callbacks.
LEMMA OBackfill == ASSUME OInv, NEW k \in Callback, Backfill(k) PROVE OInv'
<1>0. ProfileTypeOK /\ LoginTypes /\ NobodyHangs /\ row \in Account
  BY TypeParts DEF OInv, ProfileTypeOK
<1>1. PICK value \in Address \cup {None} :
        row' = [row EXCEPT !["email"] = value]
  <2>1. Coalesce(callback[k].seen, callback[k].claim) \in Address \cup {None}
    BY JobTypes DEF Coalesce, CallbackJob
  <2>. QED  BY <2>1 DEF Backfill
<1>2. row' \in Account
  BY <1>0, <1>1, FieldIs DEF Account, Choice
<1>3. PICK f \in {callback, Raced} :
        /\ callback' = [f EXCEPT ![k] = IdleCallback]
        /\ row' # row => f = Raced
  BY DEF Backfill
<1>4. UNCHANGED <<patch, faults, now, memory, begin, standing, observations>>
  BY DEF Backfill
<1>5. /\ Raced \in [Callback -> CallbackJob]
      /\ \A j \in Callback : /\ Raced[j].at = callback[j].at
                             /\ Raced[j].at # "update" => Raced[j] = callback[j]
                             /\ Raced[j].at = "update" => Raced[j].raced
  BY <1>0, RacedCallbacks
<1>6. /\ callback' \in [Callback -> CallbackJob] /\ callback'[k] = IdleCallback
      /\ \A j \in Callback \ {k} : callback'[j] = f[j]
  <2>1. f \in [Callback -> CallbackJob]
    BY <1>0, <1>3, <1>5 DEF LoginTypes
  <2>. QED  BY <1>3, <2>1, IdleTypes
<1>7. \A j \in Callback \ {k} :
        /\ callback'[j].at = callback[j].at
        /\ callback'[j].at # "update" => callback'[j] = callback[j]
        /\ callback'[j].at = "update" => callback'[j].raced \/ (callback'[j] = callback[j] /\ row' = row)
  BY <1>3, <1>5, <1>6
<1>8. LoginTypes' /\ NobodyHangs'
  BY <1>0, <1>4, <1>6, <1>7, IdleTypes DEF LoginTypes, NobodyHangs, memory, observations
<1>9. ProfileTypeOK' /\ TodoInv'
  BY <1>0, <1>2, <1>4 DEF OInv, ProfileTypeOK, TodoInv
<1>10. StateInv'
  <2>1. \A j \in Callback : callback'[j].at = "config" => callback'[j] = callback[j]
    BY <1>6, <1>7, IdleTypes
  <2>. QED  BY <1>4, <2>1, StateFrame DEF OInv
<1>11. ContactInv'
  <2>1. \A j \in Callback : callback'[j].at = "update" /\ ~callback'[j].raced
          => callback'[j] = callback[j] /\ row' = row
    BY <1>6, <1>7, IdleTypes
  <2>. QED  BY <1>4, <2>1 DEF OInv, ContactInv
<1>12. TypeOK'
  BY <1>8, <1>9, TypeParts, PTL
<1>. QED  BY <1>9, <1>10, <1>11, <1>12 DEF OInv

\* Time passes only for callbacks that still wait for a discovery.
LEMMA OTick == ASSUME OInv, Tick PROVE OInv'
<1>0. ProfileTypeOK /\ LoginTypes /\ NobodyHangs /\ now \in Nat
  BY TypeParts, IdleTypes DEF OInv, LoginTypes
<1>1. /\ now < MaxTime /\ now' = now + 1
      /\ discovery = "ready" => \A k \in Callback : callback[k].at # "config"
      /\ UNCHANGED <<row, patch, faults, discovery, pending, begin, callback, standing, minted, redeemed, lost, wronged>>
  BY DEF Tick, memory, observations
<1>2. now' \in Time
  BY <1>0, <1>1, OidcBoundsAssumption DEF Time
<1>3. LoginTypes' /\ NobodyHangs'
  BY <1>0, <1>1, <1>2 DEF LoginTypes, NobodyHangs
<1>4. ProfileTypeOK' /\ TodoInv'
  BY <1>0, <1>1, ProfileFrame DEF OInv, ProfileTypeOK
<1>5. StateInv'
  <2>1. \A b \in Begin : begin[b].mark <= now'
    <3>1. \A b \in Begin : begin[b].mark \in Nat /\ begin[b].mark <= now
      BY <1>0, IdleTypes DEF LoginTypes, BeginJob, OInv, StateInv
    <3>. QED  BY <1>0, <1>1, <3>1
  <2>2. \A s \in State : minted[s] # None /\ Expired(minted[s], now) => Expired(minted[s], now')
    <3>1. \A s \in State : minted[s] # None => minted[s] \in Nat
      BY <1>0, IdleTypes DEF LoginTypes
    <3>. QED  BY <1>0, <1>1, <3>1, OidcBoundsAssumption DEF Expired
  <2>3. \A k \in Callback : callback[k].at = "config" => pending[callback[k].state] = None
    <3>1. \A k \in Callback : callback[k].at = "config" => discovery # "ready" /\ callback[k].state \in State
      BY <1>0, <1>1 DEF LoginTypes, CallbackJob
    <3>. QED  BY <3>1 DEF OInv, StateInv
  <2>4. \A s \in State : /\ minted[s] # None /\ pending[s] = None /\ redeemed[s] = 0 /\ s \notin lost
          => /\ Expired(minted[s], now')
             /\ \A k \in Callback : callback[k].at = "config" /\ callback[k].state = s
                                      => Expired(minted[s], callback[k].mark)
    BY <2>2 DEF OInv, StateInv
  <2>5. \A k \in Callback : callback[k].at = "config" => minted[callback[k].state] # None
    BY DEF OInv, StateInv
  <2>6. /\ \A s \in State : redeemed[s] \in {0, 1} /\ (minted[s] = None => redeemed[s] = 0)
        /\ \A s \in State : pending[s] # None => redeemed[s] = 0 /\ pending[s] = minted[s] /\ discovery = "ready"
        /\ \A b \in Begin : begin[b].at = "challenge" => discovery = "ready"
        /\ ~wronged
    BY DEF OInv, StateInv
  <2>. QED  BY <1>1, <2>1, <2>3, <2>4, <2>5, <2>6 DEF StateInv, Expired
<1>6. ContactInv'
  BY <1>1, ContactFrame DEF OInv
<1>7. TypeOK'
  BY <1>3, <1>4, TypeParts, PTL
<1>. QED  BY <1>4, <1>5, <1>6, <1>7 DEF OInv

LEMMA ORestart == ASSUME OInv, Restart PROVE OInv'
<1>0. ProfileTypeOK /\ LoginTypes
  BY TypeParts DEF OInv
<1>1. /\ discovery' = "none" /\ faults < MaxFaults /\ faults' = faults + 1
      /\ lost' = lost \cup {s \in State : pending[s] # None}
      /\ pending' = [s \in State |-> None]
      /\ begin' = [b \in Begin |-> IdleBegin] /\ callback' = [k \in Callback |-> IdleCallback]
      /\ patch' = [r \in Patch |-> IdlePatch]
      /\ UNCHANGED <<row, now, standing, minted, redeemed, wronged>>
  BY DEF Restart
<1>2. /\ \A b \in Begin : begin'[b] = IdleBegin
      /\ \A k \in Callback : callback'[k] = IdleCallback
  BY <1>1
<1>3. LoginTypes' /\ NobodyHangs'
  <2>1. begin' \in [Begin -> BeginJob] /\ callback' \in [Callback -> CallbackJob]
    BY <1>1, IdleTypes
  <2>. QED  BY <1>0, <1>1, <1>2, <2>1, IdleTypes DEF LoginTypes, NobodyHangs
<1>4. ProfileTypeOK' /\ TodoInv'
  <2>1. faults' \in 0..MaxFaults
    BY <1>0, <1>1, ProfileAssumption DEF ProfileTypeOK
  <2>. QED  BY <1>0, <1>1, <2>1, IdlePatchOK DEF ProfileTypeOK, TodoInv
<1>5. StateInv'
  <2>1. 0 <= now
    BY <1>0, IdleTypes DEF LoginTypes
  <2>2. \A s \in State : pending'[s] = None
    BY <1>1
  <2>3. \A s \in State : s \notin lost' => s \notin lost /\ pending[s] = None
    BY <1>1
  <2>4. \A s \in State : /\ minted[s] # None /\ redeemed[s] = 0 /\ s \notin lost' => Expired(minted[s], now)
    BY <2>3 DEF OInv, StateInv
  <2>5. /\ \A b \in Begin : begin'[b].mark <= now /\ begin'[b].at # "challenge"
        /\ \A k \in Callback : callback'[k].at # "config"
    BY <1>2, <2>1, IdleTypes
  <2>. QED  BY <1>1, <2>2, <2>4, <2>5 DEF OInv, StateInv, Expired
<1>6. ContactInv'
  BY <1>2, IdleTypes DEF ContactInv
<1>7. TypeOK'
  BY <1>3, <1>4, TypeParts, PTL
<1>. QED  BY <1>4, <1>5, <1>6, <1>7 DEF OInv

LEMMA OFrame == ASSUME OInv, UNCHANGED vars PROVE OInv'
<1>1. UNCHANGED <<row, patch, faults, callback, now, memory, begin, standing, observations>>
  BY DEF vars
<1>2. ProfileTypeOK' /\ TodoInv'
  BY <1>1, TypeParts, ProfileFrame DEF OInv, ProfileTypeOK
<1>. QED  BY <1>1, <1>2, QuietPatch

LEMMA ONext == OInv /\ [Next]_vars => OInv'
  BY OBeginLogin, OChallenge, ORedirect, ODiscoverySucceeds, ODiscoveryFails, OCallbackArrives, ORedeem,
     OExchange, OCallbackFails, OFind, OBackfill, OSubmitPatch, OPatchProceeds, OPatchAnswered,
     OSetStanding, OTick, ORestart, OFrame
  DEF Next

LEMMA OAlways == Spec => []OInv
  BY OInit, ONext, PTL DEF Spec

-------------------------------------------------------------------------------
\* Every variable of the login service keeps its type, and no request waits for a
\* configuration that nobody is fetching.
THEOREM LoginTyped == Spec => []TypeOK
<1>1. OInv => TypeOK
  BY DEF OInv
<1>. QED  BY <1>1, OAlways, PTL

\* A state passes one callback at most, none after its lifetime, and no callback in time
\* is refused it, whatever sweeps, discovery failures and restarts do beside it.
THEOREM StatesSpentOnce == Spec => []StatesRedeemOnce
<1>1. OInv => StatesRedeemOnce
  BY DEF OInv, StateInv, StatesRedeemOnce
<1>. QED  BY <1>1, OAlways, PTL

\* A login changes a stored contact only if the row or the standing changed between
\* its own find and update.
THEOREM ContactsStand == Spec => ContactStands
<1>. DEFINE A == \A k \in Callback :
                   /\ callback[k].at = "update" /\ callback'[k].at = "idle" /\ ~callback[k].raced
                   /\ row'["email"] # row["email"]
                   => row["email"] = None /\ standing = "active"
<1>1. OInv /\ [Next]_vars => [A]_vars
  <2>1. SUFFICES ASSUME OInv, [Next]_vars, NEW k \in Callback,
                        callback[k].at = "update", callback'[k].at = "idle", ~callback[k].raced,
                        row'["email"] # row["email"]
                 PROVE  row["email"] = None /\ standing = "active"
    OBVIOUS
  <2>2. callback[k].seen = row["email"] /\ standing = "active"
    BY <2>1 DEF OInv, ContactInv
  <2>3. ASSUME NEW j \in Callback, Backfill(j) PROVE row["email"] = None
    <3>1. row' = [row EXCEPT !["email"] = Coalesce(callback[j].seen, callback[j].claim)]
          /\ callback' = [(IF row' = row THEN callback ELSE Raced) EXCEPT ![j] = IdleCallback]
      BY <2>3 DEF Backfill
    <3>2. LoginTypes /\ row \in Account
      BY <2>1, TypeParts DEF OInv, ProfileTypeOK
    <3>3. j = k
      <4>1. Raced \in [Callback -> CallbackJob] /\ Raced[k].at = "update"
        BY <2>1, <3>2, RacedCallbacks
      <4>2. callback' = [Raced EXCEPT ![j] = IdleCallback]
        BY <2>1, <3>1
      <4>. QED  BY <2>1, <4>1, <4>2
    <3>4. "email" \in DOMAIN row
      BY <3>2, FieldIs DEF Account
    <3>. QED  BY <2>1, <2>2, <3>1, <3>2, <3>3, <3>4 DEF Coalesce, Account
  <2>4. ASSUME NEW r \in Patch, PatchProceeds(r) PROVE FALSE
    <3>1. callback' = callback \/ callback' = Raced
      BY <2>4 DEF PatchProceeds
    <3>2. Raced[k].at = callback[k].at
      BY <2>1, TypeParts, RacedCallbacks DEF OInv
    <3>. QED  BY <2>1, <3>1, <3>2
  <2>5. \/ \E j \in Callback : Backfill(j)
        \/ \E r \in Patch : PatchProceeds(r)
        \/ row' = row
    BY <2>1 DEF Next, vars, BeginLogin, Challenge, Redirect, DiscoverySucceeds, DiscoveryFails,
                CallbackArrives, Redeem, Exchange, CallbackFails, Find, SubmitPatch, PatchAnswered,
                SetStanding, Tick, Restart
  <2>. QED  BY <2>1, <2>2, <2>3, <2>4, <2>5
<1>. QED  BY <1>1, OAlways, PTL DEF Spec, ContactStands
===============================================================================
