------------------------------- MODULE Profile --------------------------------
(***************************************************************************)
(* Profile: the self-scoped columns of one row of `users` (the contact      *)
(* email, the Send-to-Kindle address and the notification opt-ins) and the  *)
(* handlers of PATCH /api/me that write them (routes/auth.ts,               *)
(* user.service.ts).                                                        *)
(*                                                                          *)
(* A handler applies the fields of its body as independent updates, then    *)
(* reads the row back and builds the answer from that copy.  A fault at any *)
(* await answers an error over whatever was already committed.  The module  *)
(* has no specification of its own: OidcLogin and MeCache compose it with   *)
(* the other writer of the row and with its reader.                         *)
(***************************************************************************)
EXTENDS Integers, FiniteSets, Sequences

CONSTANTS Patch,     \* request slots of PATCH /api/me
          Address,   \* addresses a user may store
          None,      \* an absent value; for notifyOn, the empty opt-in set
          MaxFaults  \* bound: database faults, lost answers and restarts

VARIABLES row,       \* the stored columns
          patch,     \* patch[r]: where request r stands on the server
          faults     \* faults so far

\* The order in which a PATCH applies its fields.
Columns == <<"email", "kindleEmail", "notifyOn">>
Field == {Columns[i] : i \in 1..3}

\* What a column may hold; opting in to anything is one value.
Choice(f) == IF f = "notifyOn" THEN {None, "on"} ELSE Address \cup {None}
Account == {r \in [Field -> Address \cup {None, "on"}] : \A f \in Field : r[f] \in Choice(f)}

ASSUME ProfileAssumption == MaxFaults \in Nat /\ None \notin Account

\* updateMeBodySchema: any subset of the fields, each with a value or a clear.
Body == UNION {{b \in [fs -> Address \cup {None, "on"}] : \A f \in fs : b[f] \in Choice(f)}
                 : fs \in SUBSET Field}
NoBody == <<>>

PatchJob == [at : {"idle", "write", "answered"}, body : Body,
             todo : SUBSET Field, dto : Account \cup {None}]
IdlePatch == [at |-> "idle", body |-> NoBody, todo |-> {}, dto |-> None]

\* A new account has at most a contact: its sign-up address, or a claim's.
ProfileInit == /\ row \in {r \in Account : \A f \in Field : f # "email" => r[f] = None}
               /\ patch = [r \in Patch |-> IdlePatch]
               /\ faults = 0

ProfileTypeOK == /\ row \in Account
                 /\ patch \in [Patch -> PatchJob]
                 /\ faults \in 0..MaxFaults

-------------------------------------------------------------------------------
\* PATCH /api/me by an authenticated caller.
Submit(r, body) ==
  /\ patch[r].at = "idle"
  /\ patch' = [patch EXCEPT ![r] = [IdlePatch EXCEPT !.at = "write", !.body = body,
                                                     !.todo = DOMAIN body]]

First(fs) == CHOOSE f \in fs : \E i \in 1..3 : /\ Columns[i] = f
                                               /\ \A k \in 1..(i - 1) : Columns[k] \notin fs

\* setContactEmail, setKindleEmail or setNotifyOn: one column of the row, by id.
WriteField(r) ==
  LET f == First(patch[r].todo)
  IN /\ patch[r].at = "write" /\ patch[r].todo # {}
     /\ row' = [row EXCEPT ![f] = patch[r].body[f]]
     /\ patch' = [patch EXCEPT ![r].todo = @ \ {f}]
     /\ UNCHANGED faults

\* getById after the writes: the answer is built from this copy.  buildMeDto's own
\* awaits (quotaUsage, getNotificationsConfig) only delay it, or fail it.
ReadBack(r) ==
  /\ patch[r].at = "write" /\ patch[r].todo = {}
  /\ patch' = [patch EXCEPT ![r].at = "answered", ![r].dto = row]
  /\ UNCHANGED <<row, faults>>

\* Any await of the handler throws: an error is answered, committed fields stay.
PatchFails(r) ==
  /\ patch[r].at = "write" /\ faults < MaxFaults
  /\ faults' = faults + 1
  /\ patch' = [patch EXCEPT ![r].at = "answered", ![r].dto = None]
  /\ UNCHANGED row

PatchStep(r) == WriteField(r) \/ ReadBack(r) \/ PatchFails(r)
===============================================================================
