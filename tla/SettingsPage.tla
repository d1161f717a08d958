----------------------------- MODULE SettingsPage -----------------------------
(***************************************************************************)
(* SettingsPage: the administrator's tab (pages/Settings*.tsx, settings-*.ts *)
(* and the settings half of hooks.ts).  Its cards save independently through *)
(* two cached queries: the settings themselves, and the features every page  *)
(* gates on, which the server derives from them.                             *)
(*                                                                          *)
(* A save that settles, well or badly, invalidates: a query on screen reads  *)
(* again and drops the read in flight; one that has no data yet, or is not   *)
(* on screen, keeps it.  The server is a row here: Settings is about it.     *)
(* A pending save disables its card's button, which opening the section      *)
(* again lifts, so saves may overlap freely.                                 *)
(***************************************************************************)
EXTENDS Integers, FiniteSets

CONSTANTS Notifier,  \* notifier ids
          Mailbox,
          Library,   \* narratorr connections
          Url,       \* public URLs and default quotas
          Nothing,
          Typed,     \* what the administrator makes of a notifier
          PageSave,  \* save requests in the air
          Start,     \* the stored settings the tab may meet
          MaxSaves, MaxLost  \* bounds: saves pressed; answers lost and reads failed

VARIABLES settings, \* the stored row
          page,     \* what is on screen: "search" or a section of the Settings page
          query,    \* query[q]: a cached answer and the read in flight
          draft,    \* the mailbox picked in the mounted Kindle-sender card
          save,     \* save[m]: where a save stands
          pressed, misfortunes

pageVars == <<settings, page, query, draft, save, pressed, misfortunes>>

\* An email notifier by its From: a mailbox, or one that is not; a row whose stored
\* configuration cannot be shown; another type.
Config == Mailbox \cup {"unparseable", "unreadable", "push"}
Absent == {Nothing, "deleted"}  \* an id never used, or used up: ids are not reused
Setting == [general : Url, narratorr : Library \cup {Nothing}, ebooks : BOOLEAN,
            notifiers : [Notifier -> Config \cup Absent],
            sender : [id : Notifier \cup {Nothing}, mailbox : Mailbox \cup {Nothing}]]

\* What is typed is a notifier; a stored sender's id was once a notifier's.
ASSUME PageAssumption ==
  /\ MaxSaves \in Nat /\ MaxLost \in Nat
  /\ Typed \subseteq Config /\ Nothing \notin Config \cup {"deleted"}
  /\ Start \subseteq Setting
  /\ \A row \in Start : row.sender.id # Nothing => row.notifiers[row.sender.id] # Nothing

Query == {"connectors", "features"}
Section == {"general", "narratorr", "ebooks", "notifications"}
Card == {"general", "narratorr", "ebooks"}
Choices(card) == CASE card = "general" -> Url
                   [] card = "narratorr" -> Library \cup {Nothing}
                   [] card = "ebooks" -> BOOLEAN

NoRead == [at |-> "idle", copy |-> Nothing]
NoAnswer == [data |-> Nothing, stale |-> TRUE, failed |-> FALSE, read |-> NoRead,
             missed |-> FALSE]  \* its read came before a commit (observation)
IdleSave == [at |-> "idle", card |-> Nothing, id |-> Nothing, value |-> Nothing,
             heard |-> TRUE]

-------------------------------------------------------------------------------
(* What the server makes of the row                                          *)

Present(dto) == {n \in Notifier : dto.notifiers[n] \notin Absent}

\* resolveKindleSender
Status(dto) ==
  LET sender == dto.sender
  IN IF sender.id = Nothing THEN "none"
     ELSE IF sender.id \notin Present(dto) THEN "missing"
     ELSE IF dto.notifiers[sender.id] \notin Mailbox THEN "invalid"
     ELSE IF dto.notifiers[sender.id] = sender.mailbox THEN "ok" ELSE "changed"

\* deriveFeatures; a configured narratorr has the capability.
Features(dto) == IF ~dto.ebooks \/ dto.narratorr = Nothing THEN "off"
                 ELSE IF Status(dto) = "ok" THEN dto.sender.mailbox ELSE "no sender"

Fresh(q) == IF q = "connectors" THEN settings ELSE Features(settings)

Rejected(m, row) ==
  \/ m.card = "sender" /\ m.id # Nothing /\ (m.id \in Present(row) => row.notifiers[m.id] \notin Mailbox)
  \/ m.card = "notifiers" /\ m.id # Nothing /\ m.id \notin Present(row)

\* The rows a save may make of this one: a created notifier gets an id of its own
\* (bound: while there are any).
Saved(m, row) ==
  CASE m.card \in Card -> {[row EXCEPT ![m.card] = m.value]}
    [] m.card = "sender" -> {[row EXCEPT !.sender = [id |-> m.id,
                               mailbox |-> IF m.id = Nothing THEN Nothing ELSE row.notifiers[m.id]]]}
    [] m.card = "notifiers" -> {[row EXCEPT !.notifiers[n] = m.value] :
                                  n \in IF m.id # Nothing THEN {m.id}
                                        ELSE {n \in Notifier : row.notifiers[n] = Nothing}}

-------------------------------------------------------------------------------
(* The Kindle-sender card                                                    *)

\* eligibleKindleSenders
Eligible(dto) == {n \in Present(dto) : dto.notifiers[n] \in Mailbox \cup {"unparseable"}}

\* seedKindleDraft
Seed(dto) ==
  IF dto.sender.id # Nothing THEN IF dto.sender.id \in Eligible(dto) THEN dto.sender.id ELSE Nothing
  ELSE IF Cardinality(Eligible(dto)) = 1 THEN CHOOSE n \in Eligible(dto) : TRUE ELSE Nothing

\* Mutant: a draft is kept whatever became of the notifier it names.
KeepDraft(picked, dto) == picked
\* rebaseKindleDraft
Rebase(picked, dto) == IF picked \in Eligible(dto) THEN picked ELSE Seed(dto)

Signature(dto) == <<dto.sender.id, Status(dto), Eligible(dto)>>

\* kindleSenderIntent
Intent(picked, dto) ==
  IF picked = Nothing THEN IF dto.sender.id = Nothing THEN "noop" ELSE "clear"
  ELSE IF picked # dto.sender.id \/ Status(dto) = "changed" THEN "set" ELSE "noop"

Mounted(p, dto) == p = "ebooks" /\ dto # Nothing /\ dto.ebooks

\* The card after a render: seeded when it mounts, rebased when its inputs change.
Render ==
  LET before == query["connectors"].data
      after == query'["connectors"].data
  IN draft' = IF ~Mounted(page', after) THEN Nothing
              ELSE IF ~Mounted(page, before) THEN Seed(after)
              ELSE IF Signature(before) = Signature(after) THEN draft ELSE Rebase(draft, after)

-------------------------------------------------------------------------------
(* The query cache                                                           *)

Shows(p, q) == IF q = "connectors" THEN p \in Section ELSE p = "search"

Reading(a) == [a EXCEPT !.read = [NoRead EXCEPT !.at = "sent"], !.missed = FALSE, !.stale = TRUE,
                        !.failed = @ /\ a.data # Nothing]

\* A component that reads the query mounts.
Mount(a) == IF a.read.at = "idle" /\ a.stale THEN Reading(a) ELSE a

Invalidate(q) ==
  LET a == query[q]
  IN IF Shows(page, q) /\ (a.data # Nothing \/ a.read.at = "idle") THEN Reading(a)
     ELSE [a EXCEPT !.stale = TRUE, !.missed = @ \/ a.read.at = "read"]

\* Whether a settled save can have changed what the features are derived from.
Retires(m) == m.card \in {"narratorr", "ebooks", "sender"} \/ (m.card = "notifiers" /\ m.id # Nothing)

\* Mutant: reconcile when the save succeeded.
OnSuccess(m, ok) == ok
\* onSettled
OnSettled(m, ok) == TRUE

\* reconcileConnectorWrite
Reconcile(m, ok) ==
  /\ query' = [q \in Query |-> IF OnSettled(m, ok) /\ (q = "connectors" \/ Retires(m))
                               THEN Invalidate(q) ELSE query[q]]
  /\ UNCHANGED page /\ Render

PageInit == /\ settings \in Start
            /\ page \in {"search", "general"}
            /\ query = [q \in Query |-> IF Shows(page, q) THEN Mount(NoAnswer) ELSE NoAnswer]
            /\ draft = Nothing /\ save = [m \in PageSave |-> IdleSave]
            /\ pressed = 0 /\ misfortunes = 0

\* Search and back, or another section; the Settings page opens on General.
Navigate(p) ==
  /\ p # page /\ page = "search" => p = "general"
  /\ page' = p
  /\ query' = [q \in Query |-> IF Shows(p, q) /\ ~Shows(page, q) THEN Mount(query[q]) ELSE query[q]]
  /\ Render
  /\ UNCHANGED <<settings, save, pressed, misfortunes>>

ServerReads(q) ==
  /\ query[q].read.at = "sent"
  /\ query' = [query EXCEPT ![q].read = [at |-> "read", copy |-> Fresh(q)]]
  /\ UNCHANGED <<settings, page, draft, save, pressed, misfortunes>>

\* Settings are stale at once, features after a minute.
ReadLands(q) ==
  /\ query[q].read.at = "read"
  /\ query' = [query EXCEPT ![q] = [@ EXCEPT !.data = query[q].read.copy, !.read = NoRead,
                                             !.stale = q = "connectors", !.failed = FALSE]]
  /\ UNCHANGED <<settings, page, save, pressed, misfortunes>>
  /\ Render

\* After its retries.
ReadFails(q) ==
  /\ query[q].read.at # "idle" /\ misfortunes < MaxLost
  /\ misfortunes' = misfortunes + 1
  /\ query' = [query EXCEPT ![q] = [@ EXCEPT !.read = NoRead, !.stale = TRUE, !.failed = TRUE]]
  /\ UNCHANGED <<settings, page, draft, save, pressed>>

\* The minute is over; and a stale query on screen reads again when the window gets the
\* focus, except for the settings, whose forms it would reset.
Age == /\ ~query["features"].stale
       /\ query' = [query EXCEPT !["features"].stale = TRUE]
       /\ UNCHANGED <<settings, page, draft, save, pressed, misfortunes>>

Focus == /\ Shows(page, "features") /\ query["features"].read.at = "idle" /\ query["features"].stale
         /\ query' = [query EXCEPT !["features"] = Reading(@)]
         /\ UNCHANGED <<settings, page, draft, save, pressed, misfortunes>>

-------------------------------------------------------------------------------
(* The saves                                                                 *)

Press(m, card, id, value) ==
  /\ pressed < MaxSaves /\ save[m].at = "idle" /\ m = CHOOSE k \in PageSave : save[k].at = "idle"
  /\ pressed' = pressed + 1
  /\ save' = [save EXCEPT ![m] = [IdleSave EXCEPT !.at = "sent", !.card = card, !.id = id, !.value = value]]
  /\ UNCHANGED <<settings, page, query, draft, misfortunes>>

\* The card of a slice, once it is dirty.
SaveCard(m, card) ==
  /\ page = card /\ query["connectors"].data # Nothing
  /\ \E value \in Choices(card) :
       value # query["connectors"].data[card] /\ Press(m, card, Nothing, value)

SaveGeneral(m) == SaveCard(m, "general")
SaveNarratorr(m) == SaveCard(m, "narratorr")
SaveEbooks(m) == SaveCard(m, "ebooks")

PickSender(n) ==
  /\ Mounted(page, query["connectors"].data)
  /\ n \in Eligible(query["connectors"].data) \cup {Nothing} /\ n # draft
  /\ draft' = n
  /\ UNCHANGED <<settings, page, query, save, pressed, misfortunes>>

\* buildKindleSenderBody
SaveSender(m) ==
  /\ Mounted(page, query["connectors"].data)
  /\ Intent(draft, query["connectors"].data) # "noop"
  /\ Press(m, "sender", draft, Nothing)

OnNotifiers == page = "notifications" /\ query["connectors"].data # Nothing

AddNotifier(m) == OnNotifiers /\ \E value \in Typed : Press(m, "notifiers", Nothing, value)

\* A row that can be shown is edited under its id and type; any row may be deleted.
EditNotifier(m) ==
  /\ OnNotifiers
  /\ \E n \in Eligible(query["connectors"].data), value \in Typed \ {"push"} :
       Press(m, "notifiers", n, value)

DeleteNotifier(m) ==
  /\ OnNotifiers
  /\ \E n \in Present(query["connectors"].data) : Press(m, "notifiers", n, "deleted")

\* The server refuses the save, or commits it; a committed one may still answer an
\* error, from the reconfiguration behind it.
Commit(m) ==
  /\ save[m].at = "sent"
  /\ IF Rejected(save[m], settings) THEN UNCHANGED <<settings, query>>
     ELSE /\ settings' \in Saved(save[m], settings)
          /\ query' = [q \in Query |-> [query[q] EXCEPT !.missed = @ \/ ~save[m].heard]]
  /\ save' = [save EXCEPT ![m] = IF save[m].heard THEN [@ EXCEPT !.at = "done"] ELSE IdleSave]
  /\ UNCHANGED <<page, draft, pressed, misfortunes>>

Settle(m) ==
  /\ save[m].at = "done"
  /\ \E ok \in BOOLEAN : Reconcile(save[m], ok)
  /\ save' = [save EXCEPT ![m] = IdleSave]
  /\ UNCHANGED <<settings, pressed, misfortunes>>

\* The answer is lost; the request may reach the server yet, or not.
Lose(m) ==
  /\ save[m].at \in {"sent", "done"} /\ save[m].heard /\ misfortunes < MaxLost
  /\ misfortunes' = misfortunes + 1
  /\ Reconcile(save[m], FALSE)
  /\ \/ save' = [save EXCEPT ![m] = IdleSave]
     \/ save[m].at = "sent" /\ save' = [save EXCEPT ![m].heard = FALSE]
  /\ UNCHANGED <<settings, pressed>>

PageNext == \/ \E p \in Section \cup {"search"} : Navigate(p)
            \/ \E q \in Query : ServerReads(q) \/ ReadLands(q) \/ ReadFails(q)
            \/ Age \/ Focus
            \/ \E n \in Notifier \cup {Nothing} : PickSender(n)
            \/ \E m \in PageSave : \/ SaveGeneral(m) \/ SaveNarratorr(m) \/ SaveEbooks(m)
                                   \/ SaveSender(m)
                                   \/ AddNotifier(m) \/ EditNotifier(m) \/ DeleteNotifier(m)
                                   \/ Commit(m) \/ Settle(m) \/ Lose(m)

PageSpec == PageInit /\ [][PageNext]_pageVars

-------------------------------------------------------------------------------
Heard == \E m \in PageSave : save[m].at # "idle" /\ save[m].heard

\* When no save is pending, whatever order the saves and reads settled in and
\* whatever the saves answered: the settings on screen, and features still fresh,
\* are what the server has.  The only ways to miss a commit are a failed read, a save
\* given up on before it committed, and a read that an invalidation had to leave alone.
PageConverges ==
  \A q \in Query :
    LET a == query[q]
    IN /\ ~Heard /\ a.read.at = "idle" /\ ~a.failed /\ ~a.missed
       /\ ~a.stale \/ (q = "connectors" /\ Shows(page, q))
       => a.data = Fresh(q)

\* The Kindle-sender card holds an eligible mailbox or none, through every refetch;
\* and against the settings it shows, it offers no save the server would refuse, but
\* for a newly picked notifier whose From is no mailbox.
SenderSaveHonored ==
  LET dto == query["connectors"].data
  IN Mounted(page, dto) =>
       /\ draft \in Eligible(dto) \cup {Nothing}
       /\ Intent(draft, dto) # "noop" /\ Rejected([IdleSave EXCEPT !.card = "sender", !.id = draft], dto)
            => draft # dto.sender.id /\ dto.notifiers[draft] = "unparseable"

\* "Every save converges on one authoritative re-read regardless of settle order: a
\* later invalidation supersedes an in-flight refetch" (hooks.ts, useUpdateConnectors).
SavesConverge ==
  /\ Shows(page, "connectors") /\ query["connectors"].read.at = "idle"
  /\ \A m \in PageSave : save[m].at = "idle"
  => query["connectors"].data = settings
===============================================================================
