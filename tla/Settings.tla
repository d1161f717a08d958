------------------------------- MODULE Settings --------------------------------
(***************************************************************************)
(* Settings: the administrator's writes of the one settings row             *)
(* (routes/settings.ts, ConnectorSettingsService) and what a running server *)
(* holds of it: the narratorr connection (Connection), the notifier and the *)
(* default quota.                                                           *)
(*                                                                          *)
(* Every write runs inside one first-come-first-served mutex: read the row, *)
(* check, one UPDATE, then rebuild what is live from fresh reads.  Any of   *)
(* those reads may fail after the UPDATE committed.                         *)
(***************************************************************************)
EXTENDS Connection, FiniteSets

CONSTANTS Op,       \* request slots of the settings routes
          Notifier, \* notifier ids
          From,     \* configurations of an email notifier, told apart by its From
          Quota,
          Bodies    \* the requests administrators send

Column == {"narratorr", "notifiers", "sender", "quota", "ebooks"}
Blob == {"narratorr", "notifiers", "sender"}
Row == [narratorr : Server \cup {None},
        notifiers : [Notifier -> From \cup {None}],
        sender : [id : Notifier, from : From] \cup {None},
        quota : Quota, ebooks : BOOLEAN]

\* A PUT names some of the columns it changes; a notifier request, one notifier.  The
\* Test routes read the row in the mutex and change nothing.
Put == Column \ {"notifiers"}
Choice == [narratorr |-> Server \cup {None}, sender |-> Notifier \cup {None},
           quota |-> Quota, ebooks |-> BOOLEAN]
PutBody == UNION {{body \in [fields -> UNION {Choice[c] : c \in fields}] :
                     \A c \in fields : body[c] \in Choice[c]} : fields \in SUBSET Put}
Request == [kind : {"put"}, body : PutBody]
             \cup [kind : {"create", "update"}, id : Notifier, from : From]
             \cup [kind : {"delete"}, id : Notifier]
             \cup [kind : {"test"}]

ASSUME SettingsAssumption == Bodies \subseteq Request /\ None \notin From \cup Notifier

VARIABLES row,       \* app_settings
          notifier,  \* the live notifier: what it was built from
          quota,     \* the live default quota
          queue,     \* the mutex: who runs, then who waits
          op,        \* op[o]: where request o stands
          intended,  \* the committed requests applied one after the other (observation)
          behind     \* live parts whose refresh was cut short by a failed read (observation)

settingsVars == <<row, notifier, quota, queue, op, intended, behind>>
vars == <<connectionVars, settingsVars>>

IdleOp == [at |-> "idle", request |-> [kind |-> "test"], stored |-> None]

Init == /\ ConnectionInit
        /\ row \in {r \in Row : r.narratorr = Current /\ r.sender = None /\ r.ebooks}
        /\ notifier = row.notifiers /\ quota = row.quota
        /\ queue = <<>> /\ op = [o \in Op |-> IdleOp]
        /\ intended = row /\ behind = {}

-------------------------------------------------------------------------------
\* Mutant: every request runs at once.
EnterAtOnce(o) == op[o].at # "idle"
Runs(o) == queue # <<>> /\ Head(queue) = o

\* A request reaches its route and queues for the mutex.
Submit(o, request) ==
  /\ op[o].at = "idle" /\ ops < MaxOps
  /\ op' = [op EXCEPT ![o] = [IdleOp EXCEPT !.at = "queued", !.request = request]]
  /\ queue' = Append(queue, o)
  /\ ops' = ops + 1
  /\ UNCHANGED <<conns, now, caches, faults, row, notifier, quota, intended, behind>>

\* The section ends, with an answer or with an error, and the next one starts.
Leave(o) == /\ op' = [op EXCEPT ![o] = IdleOp]
            /\ queue' = Tail(queue)

\* getStored.
ReadStored(o) ==
  /\ op[o].at = "queued" /\ op[o].request.kind # "test" /\ Runs(o)
  /\ op' = [op EXCEPT ![o].at = "write", ![o].stored = row]
  /\ UNCHANGED <<connectionVars, queue, row, notifier, quota, intended, behind>>

\* A Test route builds its candidate in the section, and probes it outside.
BuildCandidate(o) ==
  /\ op[o].at = "queued" /\ op[o].request.kind = "test" /\ Runs(o)
  /\ Leave(o)
  /\ UNCHANGED <<connectionVars, row, notifier, quota, intended, behind>>

\* confirmSenderMailbox: the notifier must be there; what is confirmed is its From.
Confirmed(stored, id) == [id |-> id, from |-> stored.notifiers[id]]

\* resolveKindleSender refuses a notifier that is not there.
SenderRefused(request, stored) ==
  /\ request.kind = "put" /\ "sender" \in DOMAIN request.body
  /\ request.body["sender"] # None /\ stored.notifiers[request.body["sender"]] = None

\* updateNotifier and deleteNotifier answer 404.
NotifierMissing(request, stored) ==
  request.kind \in {"update", "delete"} /\ stored.notifiers[request.id] = None

\* What a request is refused for, with nothing written (bound: a created notifier's id
\* is a free one).
Refused(request, stored) ==
  \/ SenderRefused(request, stored) \/ NotifierMissing(request, stored)
  \/ request.kind = "create" /\ stored.notifiers[request.id] # None

\* The row a request makes of the one it read.
Apply(request, stored) ==
  CASE request.kind = "put" ->
         [c \in Column |->
            IF c \notin DOMAIN request.body THEN stored[c]
            ELSE IF c = "sender" /\ request.body[c] # None THEN Confirmed(stored, request.body[c])
            ELSE request.body[c]]
    [] request.kind = "delete" -> [stored EXCEPT !.notifiers[request.id] = None]
    [] OTHER -> [stored EXCEPT !.notifiers[request.id] = request.from]

\* The columns the UPDATE sets: the whole blob once any part of it changes.
Written(request) ==
  IF request.kind # "put" THEN Blob
  ELSE DOMAIN request.body \cup IF DOMAIN request.body \cap Blob # {} THEN Blob ELSE {}

ChangesConnection(request) == request.kind = "put" /\ "narratorr" \in DOMAIN request.body

\* Mutant: the swap comes after the reads that may fail.
SwapLast(at, request) ==
  CASE at = "write" -> "notify"
    [] at = "notify" -> "quota"
    [] at = "quota" -> IF ChangesConnection(request) THEN "swap" ELSE "idle"
    [] at = "swap" -> "idle"
\* The order of a section after its UPDATE (reconfigure).
After(at, request) ==
  CASE at = "write" -> IF ChangesConnection(request) THEN "swap" ELSE "notify"
    [] at = "swap" -> "notify"
    [] at = "notify" -> "quota"
    [] at = "quota" -> "idle"

Advance(o) == LET next == After(op[o].at, op[o].request)
              IN IF next = "idle" THEN Leave(o)
                 ELSE op' = [op EXCEPT ![o].at = next] /\ UNCHANGED queue

\* update, createNotifier, updateNotifier, deleteNotifier: check and one UPDATE.  A
\* created notifier gets an id nobody has.
WriteRow(o) ==
  LET request == op[o].request
      next == Apply(request, op[o].stored)
  IN /\ op[o].at = "write"
     /\ IF Refused(request, op[o].stored) THEN Leave(o) /\ UNCHANGED <<row, intended>>
        ELSE /\ row' = [c \in Column |-> IF c \in Written(request) THEN next[c] ELSE row[c]]
             /\ intended' = Apply(request, intended)
             /\ Advance(o)
     /\ UNCHANGED <<connectionVars, notifier, quota, behind>>

\* The swap is one step, ahead of the two reads that may fail.
Swap(o) ==
  /\ op[o].at = "swap"
  /\ Install(row.narratorr)
  /\ Advance(o)
  /\ behind' = behind \ {"narratorr"}
  /\ UNCHANGED <<now, caches, ops, faults, row, notifier, quota, intended>>

RebuildNotifier(o) ==
  /\ op[o].at = "notify"
  /\ notifier' = row.notifiers
  /\ Advance(o)
  /\ behind' = behind \ {"notifiers"}
  /\ UNCHANGED <<connectionVars, row, quota, intended>>

\* reconfigureQuota; the read that builds the answer changes nothing.
ReconfigureQuota(o) ==
  /\ op[o].at = "quota"
  /\ quota' = row.quota
  /\ Advance(o)
  /\ behind' = behind \ {"quota"}
  /\ UNCHANGED <<connectionVars, row, notifier, intended>>

\* What a read that fails at this point leaves unrefreshed.
CutShort(at) == CASE at = "swap" -> {"narratorr", "notifiers", "quota"}
                  [] at = "notify" -> {"notifiers", "quota"}
                  [] at = "quota" -> {"quota"}
                  [] OTHER -> {}

\* A database call of the section rejects: the route answers an error.
SectionFails(o) ==
  /\ Runs(o) /\ faults < MaxFaults
  /\ faults' = faults + 1
  /\ behind' = behind \cup CutShort(op[o].at)
  /\ Leave(o)
  /\ UNCHANGED <<conns, now, caches, ops, row, notifier, quota, intended>>

\* The process starts again from the row.
Restart ==
  /\ faults < MaxFaults
  /\ faults' = faults + 1
  /\ Boot(row.narratorr)
  /\ notifier' = row.notifiers /\ quota' = row.quota
  /\ queue' = <<>> /\ op' = [o \in Op |-> IdleOp]
  /\ behind' = {}
  /\ UNCHANGED <<now, ops, row, intended>>

-------------------------------------------------------------------------------
\* resolveFeatures: one read of the row; while the feature is off, no call is made.
AskFeatures(a, next) == row.ebooks /\ StartAsk(a, Capability, next) /\ UNCHANGED settingsVars

Serve(a) == \/ \E next \in Book \cup {None} : AskFeatures(a, next)
            \/ \E b \in Book : StartAsk(a, b, None) /\ UNCHANGED settingsVars
            \/ SettleAsk(a) /\ UNCHANGED settingsVars
            \/ UseAnswer(a) /\ UNCHANGED settingsVars

\* Nobody asks for anything any more: the bounds are used up and nothing is pending.
Quiet == /\ now = MaxTime /\ queue = <<>>
         /\ \A a \in Ask : ask[a].at = "idle"
         /\ UNCHANGED vars

Next == \/ \E o \in Op : \/ \E request \in Bodies : Submit(o, request)
                         \/ ReadStored(o) \/ BuildCandidate(o) \/ WriteRow(o)
                         \/ Swap(o) \/ RebuildNotifier(o) \/ ReconfigureQuota(o) \/ SectionFails(o)
        \/ Restart
        \/ \E a \in Ask : Serve(a)
        \/ Tick /\ UNCHANGED settingsVars
        \/ Quiet

Spec == Init /\ [][Next]_vars

-------------------------------------------------------------------------------
\* Every variable has its type, and whoever has asked for the mutex holds it or is
\* still in its queue, whatever became of those before.
SettingsTypeOK ==
  /\ row \in Row /\ intended \in Row
  /\ notifier \in [Notifier -> From \cup {None}] /\ quota \in Quota
  /\ queue \in Seq(Op)
  /\ op \in [Op -> [at : {"idle", "queued", "write", "swap", "notify", "quota"},
                    request : Request, stored : Row \cup {None}]]
  /\ behind \subseteq {"narratorr", "notifiers", "quota"}

Mutual == \A o \in Op : /\ op[o].at # "idle" <=> \E i \in DOMAIN queue : queue[i] = o
                        /\ op[o].at \notin {"idle", "queued"} => Runs(o)

TypeOK == ConnectionTypeOK /\ SettingsTypeOK /\ Mutual

\* The row is what the committed requests make of it one after the other, in the
\* order they committed: no request writes back a blob that is older than another's.
NoWriteLost == row = intended

\* While no settings request runs, what is live is the row, whichever of the reads
\* behind a committed save failed: a part may lag only if the read that refreshes
\* that very part, or one the code makes before it, was the one that failed.
LiveFollowsRow ==
  queue = <<>> =>
    /\ "narratorr" \notin behind => Current = row.narratorr
    /\ "notifiers" \notin behind => notifier = row.notifiers
    /\ "quota" \notin behind => quota = row.quota
===============================================================================
