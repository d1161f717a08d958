----------------------------- MODULE SettingsProofs -----------------------------
(***************************************************************************)
(* The settings row and what runs on it, for any number of requests, any    *)
(* bodies and any faults: the mutex serialises the sections, so no write is *)
(* lost, and what is live lags the row only where a failed read says so.    *)
(***************************************************************************)
EXTENDS Settings, SequenceTheorems, TLAPS

\* The mutex: its queue names each request once, everyone in it is under way, and a
\* section that has begun is the head's.
Queued(o) == \E i \in 1..Len(queue) : queue[i] = o

MutexInv ==
  /\ queue \in Seq(Op)
  /\ \A i, j \in 1..Len(queue) : queue[i] = queue[j] => i = j
  /\ op \in [Op -> [at : {"idle", "queued", "write", "swap", "notify", "quota"},
                    request : Request, stored : Row \cup {None}]]
  /\ \A o \in Op : op[o].at # "idle" <=> Queued(o)
  /\ \A o \in Op : op[o].at \notin {"idle", "queued"} => Runs(o)

\* What the UPDATE starts from is the row, and the row is what was intended.
RowInv ==
  /\ row \in Row /\ intended = row
  /\ \A o \in Op : op[o].at = "write" => op[o].stored = row /\ op[o].request.kind # "test"
  /\ \A o \in Op : op[o].at = "swap" => ChangesConnection(op[o].request)

\* Parts of the server the running section has yet to refresh.
Owed == UNION {CutShort(op[o].at) : o \in Op}

LiveInv ==
  /\ conns \in Seq(Server \cup {None}) /\ conns # <<>>
  /\ notifier \in [Notifier -> From \cup {None}] /\ quota \in Quota
  /\ behind \subseteq {"narratorr", "notifiers", "quota"}
  /\ "narratorr" \notin behind \cup Owed => Current = row.narratorr
  /\ "notifiers" \notin behind \cup Owed => notifier = row.notifiers
  /\ "quota" \notin behind \cup Owed => quota = row.quota

-------------------------------------------------------------------------------
\* A caller of the caches touches neither the mutex nor the row, nor the connection.
LEMMA ServeFrame == ASSUME NEW a \in Ask, Serve(a) PROVE UNCHANGED <<settingsVars, conns>>
  BY DEF Serve, AskFeatures, StartAsk, SettleAsk, UseAnswer

\* An IdleOp is an operation.
LEMMA IdleOpType ==
  IdleOp \in [at : {"idle", "queued", "write", "swap", "notify", "quota"},
              request : Request, stored : Row \cup {None}]
<1>1. [kind |-> "test"] \in Request
  BY DEF Request
<1>. QED  BY <1>1 DEF IdleOp

\* Whoever stands at the head of the mutex leaves it, and the rest keep their places.
LEMMA LeaveMutex ==
  ASSUME MutexInv, NEW o \in Op, Runs(o), Leave(o)
  PROVE  MutexInv' /\ op'[o] = IdleOp /\ \A p \in Op \ {o} : op'[p] = op[p] /\ op[p].at \in {"idle", "queued"}
<1>1. queue # <<>> /\ queue[1] = o /\ Len(queue) >= 1
  BY DEF Runs, MutexInv
<1>2. /\ queue' \in Seq(Op) /\ Len(queue') = Len(queue) - 1
      /\ \A i \in 1..Len(queue') : queue'[i] = queue[i + 1]
  BY <1>1, HeadTailProperties DEF Leave, MutexInv
<1>3. op' \in [Op -> [at : {"idle", "queued", "write", "swap", "notify", "quota"},
                      request : Request, stored : Row \cup {None}]]
  BY IdleOpType DEF Leave, MutexInv
<1>4. op'[o] = IdleOp /\ \A p \in Op \ {o} : op'[p] = op[p]
  BY DEF Leave, MutexInv
<1>5. \A p \in Op \ {o} : op[p].at \in {"idle", "queued"}
  BY <1>1 DEF MutexInv, Runs
<1>6. \A i, j \in 1..Len(queue') : queue'[i] = queue'[j] => i = j
  <2>1. SUFFICES ASSUME NEW i \in 1..Len(queue'), NEW j \in 1..Len(queue'), queue'[i] = queue'[j]
                 PROVE  i = j
    OBVIOUS
  <2>2. i + 1 \in 1..Len(queue) /\ j + 1 \in 1..Len(queue) /\ queue[i + 1] = queue[j + 1]
    BY <1>1, <1>2, <2>1
  <2>. QED  BY <2>2 DEF MutexInv
<1>7. \A p \in Op : op'[p].at # "idle" <=> Queued(p)'
  <2>1. ~Queued(o)'
    <3>1. \A i \in 1..Len(queue') : queue[i + 1] # queue[1]
      BY <1>1, <1>2 DEF MutexInv
    <3>. QED  BY <1>1, <1>2, <3>1 DEF Queued
  <2>2. ASSUME NEW p \in Op \ {o} PROVE Queued(p) <=> Queued(p)'
    <3>1. ASSUME Queued(p) PROVE Queued(p)'
      <4>1. PICK i \in 1..Len(queue) : queue[i] = p
        BY <3>1 DEF Queued
      <4>2. i # 1 /\ Len(queue) \in Nat
        BY <1>1, <4>1 DEF MutexInv
      <4>3. i - 1 \in 1..Len(queue') /\ queue'[i - 1] = queue[(i - 1) + 1]
        BY <1>2, <4>1, <4>2
      <4>. QED  BY <4>1, <4>3 DEF Queued
    <3>2. ASSUME Queued(p)' PROVE Queued(p)
      <4>1. PICK i \in 1..Len(queue') : queue'[i] = p
        BY <3>2 DEF Queued
      <4>2. i + 1 \in 1..Len(queue) /\ queue[i + 1] = p
        BY <1>2, <4>1 DEF MutexInv
      <4>. QED  BY <4>2 DEF Queued
    <3>. QED  BY <3>1, <3>2
  <2>3. op'[o].at = "idle"
    BY <1>4 DEF IdleOp
  <2>. QED  BY <1>4, <2>1, <2>2, <2>3 DEF MutexInv
<1>8. \A p \in Op : op'[p].at \notin {"idle", "queued"} => Runs(p)'
  BY <1>4, <1>5 DEF IdleOp
<1>. QED  BY <1>2, <1>3, <1>4, <1>5, <1>6, <1>7, <1>8 DEF MutexInv

\* A section goes on: only its own record changes, and it stays under way.
LEMMA StayInMutex ==
  ASSUME MutexInv, NEW o \in Op, Runs(o), op[o].at # "idle", queue' = queue,
         NEW x \in [at : {"queued", "write", "swap", "notify", "quota"},
                    request : Request, stored : Row \cup {None}],
         op' = [op EXCEPT ![o] = x]
  PROVE  MutexInv' /\ op'[o] = x /\ \A p \in Op \ {o} : op'[p] = op[p] /\ op[p].at \in {"idle", "queued"}
<1>1. op'[o] = x /\ \A p \in Op \ {o} : op'[p] = op[p]
  BY DEF MutexInv
<1>2. \A p \in Op \ {o} : op[p].at \in {"idle", "queued"}
  BY DEF MutexInv, Runs
<1>3. op' \in [Op -> [at : {"idle", "queued", "write", "swap", "notify", "quota"},
                      request : Request, stored : Row \cup {None}]]
  BY DEF MutexInv
<1>4. x.at # "idle"
  OBVIOUS
<1>. QED  BY <1>1, <1>2, <1>3, <1>4 DEF MutexInv, Queued, Runs

\* A request joins the end of the queue.
LEMMA JoinMutex ==
  ASSUME MutexInv, NEW o \in Op, NEW request \in Bodies, Submit(o, request)
  PROVE  MutexInv' /\ op'[o].at = "queued" /\ \A p \in Op \ {o} : op'[p] = op[p]
<1>1. request \in Request
  BY SettingsAssumption
<1>2. op' \in [Op -> [at : {"idle", "queued", "write", "swap", "notify", "quota"},
                      request : Request, stored : Row \cup {None}]]
  BY <1>1, IdleOpType DEF Submit, MutexInv, IdleOp
<1>3. op'[o].at = "queued" /\ \A p \in Op \ {o} : op'[p] = op[p]
  BY DEF Submit, MutexInv, IdleOp
<1>4. /\ queue' \in Seq(Op) /\ Len(queue') = Len(queue) + 1
      /\ \A i \in 1..Len(queue) : queue'[i] = queue[i]
      /\ queue'[Len(queue) + 1] = o
  BY AppendProperties DEF Submit, MutexInv
<1>5. \A i \in 1..Len(queue) : queue[i] # o
  BY DEF Submit, MutexInv, Queued
<1>6. \A i, j \in 1..Len(queue') : queue'[i] = queue'[j] => i = j
  BY <1>4, <1>5 DEF MutexInv
<1>7. \A p \in Op : op'[p].at # "idle" <=> Queued(p)'
  <2>1. Queued(o)'
    BY <1>4 DEF Queued
  <2>2. ASSUME NEW p \in Op \ {o} PROVE Queued(p) <=> Queued(p)'
    BY <1>4, <2>2 DEF Queued
  <2>. QED  BY <1>3, <2>1, <2>2 DEF MutexInv
<1>8. \A p \in Op : op'[p].at \notin {"idle", "queued"} => Runs(p)'
  <2>1. SUFFICES ASSUME NEW p \in Op, op'[p].at \notin {"idle", "queued"} PROVE Runs(p)'
    OBVIOUS
  <2>2. p # o /\ op[p].at \notin {"idle", "queued"}
    BY <1>3, <2>1
  <2>3. queue # <<>> /\ Head(queue) = p
    BY <2>2 DEF MutexInv, Runs
  <2>. QED  BY <1>4, <2>3 DEF Runs, MutexInv
<1>. QED  BY <1>2, <1>3, <1>4, <1>6, <1>7, <1>8 DEF MutexInv

-------------------------------------------------------------------------------
\* A row is a function of its columns.
LEMMA RowIsFunction == ASSUME NEW r \in Row PROVE r = [c \in Column |-> r[c]]
  BY DEF Row, Column

\* The body of a PUT names columns, each with a value it may hold.
LEMMA BodyValues ==
  ASSUME NEW request \in Request, request.kind = "put", NEW c \in DOMAIN request.body
  PROVE  c \in Put /\ request.body[c] \in Choice[c]
<1>1. request.body \in PutBody
  BY DEF Request
<1>. QED  BY <1>1 DEF PutBody

\* What a request makes of a row is a row.
LEMMA ApplyRow ==
  ASSUME NEW request \in Request, NEW r \in Row, ~Refused(request, r), request.kind # "test"
  PROVE  Apply(request, r) \in Row
<1>1. CASE request.kind = "put"
  <2>. DEFINE x == [c \in Column |->
                     IF c \notin DOMAIN request.body THEN r[c]
                     ELSE IF c = "sender" /\ request.body[c] # None THEN Confirmed(r, request.body[c])
                     ELSE request.body[c]]
  <2>1. Apply(request, r) = x
    BY <1>1 DEF Apply
  <2>2. "notifiers" \notin DOMAIN request.body
    BY <1>1, BodyValues DEF Put
  <2>3. x["narratorr"] \in Server \cup {None}
    BY <1>1, BodyValues DEF Choice, Column, Row
  <2>4. x["notifiers"] \in [Notifier -> From \cup {None}]
    BY <2>2 DEF Column, Row
  <2>5. x["quota"] \in Quota
    BY <1>1, BodyValues DEF Choice, Column, Row
  <2>6. x["ebooks"] \in BOOLEAN
    BY <1>1, BodyValues DEF Choice, Column, Row
  <2>7. x["sender"] \in [id : Notifier, from : From] \cup {None}
    <3>1. CASE "sender" \in DOMAIN request.body /\ request.body["sender"] # None
      <4>1. request.body["sender"] \in Notifier
        BY <1>1, <3>1, BodyValues DEF Choice
      <4>2. r.notifiers[request.body["sender"]] \in From
        BY <1>1, <3>1, <4>1 DEF Refused, SenderRefused, NotifierMissing, Row
      <4>3. x["sender"] = Confirmed(r, request.body["sender"])
        BY <3>1 DEF Column
      <4>. QED  BY <4>1, <4>2, <4>3 DEF Confirmed
    <3>2. CASE "sender" \in DOMAIN request.body /\ request.body["sender"] = None
      BY <3>2 DEF Column
    <3>3. CASE "sender" \notin DOMAIN request.body
      BY <3>3 DEF Column, Row
    <3>. QED  BY <3>1, <3>2, <3>3
  <2>8. x = [narratorr |-> x["narratorr"], notifiers |-> x["notifiers"], sender |-> x["sender"],
             quota |-> x["quota"], ebooks |-> x["ebooks"]]
    BY DEF Column
  <2>. QED  BY <2>1, <2>3, <2>4, <2>5, <2>6, <2>7, <2>8 DEF Row
<1>2. CASE request.kind = "delete"
  <2>1. Apply(request, r) = [r EXCEPT !.notifiers[request.id] = None]
    BY <1>2 DEF Apply
  <2>. QED  BY <2>1 DEF Row
<1>3. CASE request.kind \in {"create", "update"}
  <2>1. request.from \in From
    BY <1>3 DEF Request
  <2>2. Apply(request, r) = [r EXCEPT !.notifiers[request.id] = request.from]
    BY <1>3 DEF Apply
  <2>. QED  BY <2>1, <2>2 DEF Row
<1>. QED  BY <1>1, <1>2, <1>3 DEF Request

\* The UPDATE leaves alone only columns the request does not change: writing the
\* columns of Written over the row it was computed from is the whole of Apply.
LEMMA WrittenIsEnough ==
  ASSUME NEW request \in Request, NEW r \in Row, request.kind # "test", Apply(request, r) \in Row
  PROVE  [c \in Column |-> IF c \in Written(request) THEN Apply(request, r)[c] ELSE r[c]]
           = Apply(request, r)
<1>1. ASSUME NEW c \in Column, c \notin Written(request) PROVE Apply(request, r)[c] = r[c]
  <2>1. CASE request.kind = "put"
    <3>1. c \notin DOMAIN request.body
      BY <1>1, <2>1 DEF Written
    <3>. QED  BY <2>1, <3>1 DEF Apply
  <2>2. CASE request.kind = "delete"
    <3>1. c # "notifiers"
      BY <1>1, <2>2 DEF Written, Blob
    <3>2. Apply(request, r) = [r EXCEPT !.notifiers[request.id] = None]
      BY <2>2 DEF Apply
    <3>. QED  BY <3>1, <3>2 DEF Row, Column
  <2>3. CASE request.kind \in {"create", "update"}
    <3>1. c # "notifiers"
      BY <1>1, <2>3 DEF Written, Blob
    <3>2. Apply(request, r) = [r EXCEPT !.notifiers[request.id] = request.from]
      BY <2>3 DEF Apply
    <3>. QED  BY <3>1, <3>2 DEF Row, Column
  <2>. QED  BY <2>1, <2>2, <2>3 DEF Request
<1>2. Apply(request, r) = [c \in Column |-> Apply(request, r)[c]]
  BY RowIsFunction
<1>. QED  BY <1>1, <1>2

\* Only a PUT that names the connection changes it.
LEMMA ConnectionKept ==
  ASSUME NEW request \in Request, NEW r \in Row, request.kind # "test", ~ChangesConnection(request)
  PROVE  Apply(request, r).narratorr = r.narratorr
<1>1. CASE request.kind = "put"
  BY <1>1 DEF Apply, ChangesConnection, Column
<1>2. CASE request.kind = "delete"
  <2>1. Apply(request, r) = [r EXCEPT !.notifiers[request.id] = None]
    BY <1>2 DEF Apply
  <2>. QED  BY <2>1 DEF Row
<1>3. CASE request.kind \in {"create", "update"}
  <2>1. Apply(request, r) = [r EXCEPT !.notifiers[request.id] = request.from]
    BY <1>3 DEF Apply
  <2>. QED  BY <2>1 DEF Row
<1>. QED  BY <1>1, <1>2, <1>3 DEF Request

-------------------------------------------------------------------------------
SInv == MutexInv /\ RowInv /\ LiveInv

\* Only the running section owes a refresh.
LEMMA OwedNext ==
  ASSUME NEW o \in Op, \A p \in Op \ {o} : op'[p] = op[p] /\ op[p].at \in {"idle", "queued"}
  PROVE  Owed = CutShort(op[o].at) /\ Owed' = CutShort(op'[o].at)
  BY DEF Owed, CutShort

LEMMA SInit == Init => SInv
<1>. SUFFICES ASSUME Init PROVE SInv
  OBVIOUS
<1>1. queue = <<>> /\ \A o \in Op : op[o] = IdleOp
  BY DEF Init
<1>2. MutexInv
  BY <1>1, IdleOpType DEF Init, MutexInv, Queued, IdleOp
<1>3. RowInv
  BY <1>1 DEF Init, RowInv, IdleOp
<1>4. LiveInv
  BY DEF Init, ConnectionInit, LiveInv, Current, Generation, Row
<1>. QED  BY <1>2, <1>3, <1>4 DEF SInv

LEMMA SSubmit ==
  ASSUME SInv, NEW o \in Op, NEW request \in Bodies, Submit(o, request)
  PROVE  SInv'
<1>1. MutexInv' /\ op'[o].at = "queued" /\ \A p \in Op \ {o} : op'[p] = op[p]
  BY JoinMutex DEF SInv
<1>2. UNCHANGED <<row, intended, conns, notifier, quota, behind>> /\ op[o].at = "idle"
  BY DEF Submit
<1>3. RowInv'
  BY <1>1, <1>2 DEF SInv, RowInv
<1>4. Owed' = Owed
  BY <1>1, <1>2 DEF Owed, CutShort
<1>5. LiveInv'
  BY <1>2, <1>4 DEF SInv, LiveInv, Current, Generation
<1>. QED  BY <1>1, <1>3, <1>5 DEF SInv

LEMMA SReadStored == ASSUME SInv, NEW o \in Op, ReadStored(o) PROVE SInv'
<1>. DEFINE x == [op[o] EXCEPT !.at = "write", !.stored = row]
<1>1. x \in [at : {"queued", "write", "swap", "notify", "quota"},
             request : Request, stored : Row \cup {None}]
  BY DEF SInv, MutexInv, RowInv
<1>2. op' = [op EXCEPT ![o] = x] /\ queue' = queue /\ Runs(o) /\ op[o].at = "queued"
  BY DEF ReadStored, SInv, MutexInv
<1>3. MutexInv' /\ op'[o] = x /\ \A p \in Op \ {o} : op'[p] = op[p] /\ op[p].at \in {"idle", "queued"}
  BY <1>1, <1>2, StayInMutex DEF SInv
<1>4. UNCHANGED <<row, intended, conns, notifier, quota, behind>> /\ op[o].request.kind # "test"
  BY DEF ReadStored, connectionVars
<1>5. x.at = "write" /\ x.stored = row /\ x.request = op[o].request
  BY DEF SInv, MutexInv
<1>6. RowInv'
  BY <1>3, <1>4, <1>5 DEF SInv, RowInv
<1>7. Owed' = Owed
  BY <1>2, <1>3, <1>5, OwedNext DEF CutShort
<1>8. LiveInv'
  BY <1>4, <1>7 DEF SInv, LiveInv, Current, Generation
<1>. QED  BY <1>3, <1>6, <1>8 DEF SInv

\* A section that ends without writing: a refusal, a Test, or a failed call.
LEMMA SLeave ==
  ASSUME SInv, NEW o \in Op, Runs(o), Leave(o),
         UNCHANGED <<row, intended, conns, notifier, quota>>,
         behind' = behind \cup CutShort(op[o].at)
  PROVE  SInv'
<1>1. MutexInv' /\ op'[o] = IdleOp /\ \A p \in Op \ {o} : op'[p] = op[p] /\ op[p].at \in {"idle", "queued"}
  BY LeaveMutex DEF SInv
<1>2. RowInv'
  BY <1>1 DEF SInv, RowInv, IdleOp
<1>3. Owed = CutShort(op[o].at)
  BY <1>1, OwedNext
<1>4. LiveInv'
  BY <1>3 DEF SInv, LiveInv, Current, Generation, CutShort
<1>. QED  BY <1>1, <1>2, <1>4 DEF SInv

LEMMA SWriteRow == ASSUME SInv, NEW o \in Op, WriteRow(o) PROVE SInv'
<1>. DEFINE request == op[o].request
            next == Apply(request, row)
<1>1. /\ op[o].at = "write" /\ op[o].stored = row /\ Runs(o)
      /\ request \in Request /\ request.kind # "test" /\ row \in Row /\ intended = row
  BY DEF WriteRow, SInv, MutexInv, RowInv
<1>2. UNCHANGED <<conns, notifier, quota, behind>>
  BY DEF WriteRow, connectionVars
<1>3. CASE Refused(request, row)
  <2>1. Leave(o) /\ UNCHANGED <<row, intended>>
    BY <1>1, <1>3 DEF WriteRow
  <2>2. behind' = behind \cup CutShort(op[o].at)
    BY <1>1, <1>2 DEF CutShort
  <2>. QED  BY <1>1, <1>2, <2>1, <2>2, SLeave
<1>4. CASE ~Refused(request, row)
  <2>1. /\ row' = [c \in Column |-> IF c \in Written(request) THEN next[c] ELSE row[c]]
        /\ intended' = next /\ Advance(o)
    BY <1>1, <1>4 DEF WriteRow
  <2>2. next \in Row
    BY <1>1, <1>4, ApplyRow
  <2>3. row' = next
    BY <1>1, <2>1, <2>2, WrittenIsEnough
  <2>. DEFINE at == IF ChangesConnection(request) THEN "swap" ELSE "notify"
              x == [op[o] EXCEPT !.at = at]
  <2>4. op' = [op EXCEPT ![o] = x] /\ queue' = queue
    BY <1>1, <2>1 DEF Advance, After, SInv, MutexInv
  <2>5. x \in [at : {"queued", "write", "swap", "notify", "quota"},
               request : Request, stored : Row \cup {None}]
    BY DEF SInv, MutexInv
  <2>6. MutexInv' /\ op'[o] = x /\ \A p \in Op \ {o} : op'[p] = op[p] /\ op[p].at \in {"idle", "queued"}
    BY <1>1, <2>4, <2>5, StayInMutex DEF SInv
  <2>7. op'[o].at = at /\ op'[o].request = request
    BY <2>6 DEF SInv, MutexInv
  <2>8. RowInv'
    <3>1. op'[o].at # "write" /\ (op'[o].at = "swap" => ChangesConnection(op'[o].request))
      BY <2>7
    <3>2. \A p \in Op \ {o} : op'[p].at \notin {"write", "swap"}
      BY <2>6
    <3>. QED  BY <2>1, <2>2, <2>3, <3>1, <3>2 DEF RowInv, ChangesConnection
  <2>9. LiveInv'
    <3>1. Owed = {} /\ Owed' = CutShort(at)
      BY <1>1, <2>6, <2>7, OwedNext DEF CutShort
    <3>2. {"notifiers", "quota"} \subseteq Owed'
      BY <3>1 DEF CutShort
    <3>3. ~ChangesConnection(request) => row'.narratorr = row.narratorr
      BY <1>1, <2>3, ConnectionKept
    <3>4. ChangesConnection(request) => "narratorr" \in Owed'
      BY <3>1 DEF CutShort
    <3>. QED  BY <1>2, <3>1, <3>2, <3>3, <3>4 DEF SInv, LiveInv, Current, Generation
  <2>. QED  BY <2>6, <2>8, <2>9 DEF SInv
<1>. QED  BY <1>3, <1>4

\* A refresh that is not the section's last.
LEMMA SAdvance ==
  ASSUME SInv, NEW o \in Op, Runs(o), op[o].at \in {"swap", "notify"}, Advance(o),
         UNCHANGED <<row, intended>>
  PROVE  /\ MutexInv' /\ RowInv'
         /\ Owed = CutShort(op[o].at)
         /\ Owed' = CutShort(IF op[o].at = "swap" THEN "notify" ELSE "quota")
<1>. DEFINE at == IF op[o].at = "swap" THEN "notify" ELSE "quota"
            x == [op[o] EXCEPT !.at = at]
<1>1. op' = [op EXCEPT ![o] = x] /\ queue' = queue
  BY DEF Advance, After, SInv, MutexInv
<1>2. x \in [at : {"queued", "write", "swap", "notify", "quota"},
             request : Request, stored : Row \cup {None}]
  BY DEF SInv, MutexInv
<1>3. MutexInv' /\ op'[o] = x /\ \A p \in Op \ {o} : op'[p] = op[p] /\ op[p].at \in {"idle", "queued"}
  BY <1>1, <1>2, StayInMutex DEF SInv
<1>4. op'[o].at = at /\ at \in {"notify", "quota"}
  BY <1>3 DEF SInv, MutexInv
<1>5. RowInv'
  <2>1. op'[o].at \notin {"write", "swap"}
    BY <1>4
  <2>2. \A p \in Op \ {o} : op'[p].at \notin {"write", "swap"}
    BY <1>3
  <2>. QED  BY <2>1, <2>2 DEF SInv, RowInv, ChangesConnection
<1>. QED  BY <1>3, <1>4, <1>5, OwedNext

LEMMA SSwap == ASSUME SInv, NEW o \in Op, Swap(o) PROVE SInv'
<1>1. op[o].at = "swap" /\ Runs(o) /\ Advance(o) /\ UNCHANGED <<row, intended, notifier, quota>>
  BY DEF Swap, SInv, MutexInv
<1>2. MutexInv' /\ RowInv' /\ Owed' = {"notifiers", "quota"}
  BY <1>1, SAdvance DEF CutShort
<1>3. conns' = Append(conns, row.narratorr) /\ behind' = behind \ {"narratorr"}
  BY DEF Swap, Install
<1>4. row.narratorr \in Server \cup {None}
  BY DEF SInv, RowInv, Row
<1>5. conns' \in Seq(Server \cup {None}) /\ conns' # <<>> /\ Current' = row.narratorr
  BY <1>3, <1>4, AppendProperties DEF SInv, LiveInv, Current, Generation
<1>. QED  BY <1>1, <1>2, <1>3, <1>5 DEF SInv, LiveInv

LEMMA SRebuild == ASSUME SInv, NEW o \in Op, RebuildNotifier(o) PROVE SInv'
<1>1. op[o].at = "notify" /\ Runs(o) /\ Advance(o) /\ UNCHANGED <<row, intended, conns, quota>>
  BY DEF RebuildNotifier, SInv, MutexInv, connectionVars
<1>2. MutexInv' /\ RowInv' /\ Owed = {"notifiers", "quota"} /\ Owed' = {"quota"}
  BY <1>1, SAdvance DEF CutShort
<1>3. notifier' = row.notifiers /\ behind' = behind \ {"notifiers"}
  BY DEF RebuildNotifier
<1>4. row.notifiers \in [Notifier -> From \cup {None}]
  BY DEF SInv, RowInv, Row
<1>. QED  BY <1>1, <1>2, <1>3, <1>4 DEF SInv, LiveInv, Current, Generation

LEMMA SReconfigure == ASSUME SInv, NEW o \in Op, ReconfigureQuota(o) PROVE SInv'
<1>1. op[o].at = "quota" /\ Runs(o) /\ Leave(o) /\ UNCHANGED <<row, intended, conns, notifier>>
  BY DEF ReconfigureQuota, SInv, MutexInv, connectionVars, Advance, After
<1>2. MutexInv' /\ op'[o] = IdleOp /\ \A p \in Op \ {o} : op'[p] = op[p] /\ op[p].at \in {"idle", "queued"}
  BY <1>1, LeaveMutex DEF SInv
<1>3. RowInv'
  BY <1>1, <1>2 DEF SInv, RowInv, IdleOp
<1>4. Owed = {"quota"}
  BY <1>1, <1>2, OwedNext DEF CutShort
<1>5. quota' = row.quota /\ behind' = behind \ {"quota"} /\ row.quota \in Quota
  BY DEF ReconfigureQuota, SInv, RowInv, Row
<1>. QED  BY <1>1, <1>2, <1>3, <1>4, <1>5 DEF SInv, LiveInv, Current, Generation

LEMMA SRestart == ASSUME SInv, Restart PROVE SInv'
<1>1. queue' = <<>> /\ op' = [o \in Op |-> IdleOp] /\ UNCHANGED <<row, intended>>
  BY DEF Restart
<1>2. MutexInv'
  BY <1>1, IdleOpType DEF MutexInv, Queued, IdleOp
<1>3. RowInv'
  BY <1>1 DEF SInv, RowInv, IdleOp
<1>4. conns' = <<row.narratorr>> /\ notifier' = row.notifiers /\ quota' = row.quota /\ behind' = {}
  BY DEF Restart, Boot
<1>5. row.narratorr \in Server \cup {None} /\ row.notifiers \in [Notifier -> From \cup {None}] /\ row.quota \in Quota
  BY DEF SInv, RowInv, Row
<1>. QED  BY <1>1, <1>2, <1>3, <1>4, <1>5 DEF SInv, LiveInv, Current, Generation

LEMMA SFrame == ASSUME SInv, UNCHANGED <<settingsVars, conns>> PROVE SInv'
  BY DEF SInv, settingsVars, MutexInv, RowInv, LiveInv, Queued, Runs, Owed, Current, Generation

LEMMA SNext == SInv /\ [Next]_vars => SInv'
<1>. SUFFICES ASSUME SInv, [Next]_vars PROVE SInv'
  OBVIOUS
<1>1. ASSUME NEW o \in Op, NEW request \in Bodies, Submit(o, request) PROVE SInv'
  BY <1>1, SSubmit
<1>2. ASSUME NEW o \in Op, ReadStored(o) PROVE SInv'
  BY <1>2, SReadStored
<1>3. ASSUME NEW o \in Op, BuildCandidate(o) PROVE SInv'
  <2>1. behind' = behind \cup CutShort(op[o].at)
    BY <1>3 DEF BuildCandidate, CutShort
  <2>. QED  BY <1>3, <2>1, SLeave DEF BuildCandidate, connectionVars
<1>4. ASSUME NEW o \in Op, WriteRow(o) PROVE SInv'
  BY <1>4, SWriteRow
<1>5. ASSUME NEW o \in Op, Swap(o) \/ RebuildNotifier(o) \/ ReconfigureQuota(o) PROVE SInv'
  BY <1>5, SSwap, SRebuild, SReconfigure
<1>6. ASSUME NEW o \in Op, SectionFails(o) PROVE SInv'
  BY <1>6, SLeave DEF SectionFails
<1>7. CASE Restart
  BY <1>7, SRestart
<1>8. ASSUME NEW a \in Ask, Serve(a) PROVE SInv'
  BY <1>8, ServeFrame, SFrame
<1>9. CASE Tick /\ UNCHANGED settingsVars
  BY <1>9, SFrame DEF Tick
<1>10. CASE UNCHANGED vars
  BY <1>10, SFrame DEF vars, connectionVars
<1>. QED  BY <1>1, <1>2, <1>3, <1>4, <1>5, <1>6, <1>7, <1>8, <1>9, <1>10 DEF Next, Quiet

\* The mutex holds its invariant, the row its own, whatever requests, faults and
\* restarts happen.
LEMMA SAlways == Spec => []SInv
  BY SInit, SNext, PTL DEF Spec

\* No settings write is lost: the row is always what the committed requests make of
\* it one after the other, for any number of overlapping requests.
THEOREM WritesSerialize == Spec => []NoWriteLost
<1>1. SInv => NoWriteLost
  BY DEF SInv, RowInv, NoWriteLost
<1>. QED  BY <1>1, SAlways, PTL

\* Between settings requests, the live connection, notifier and quota are those of
\* the row, except a part whose refresh a failed read cut short.
THEOREM LiveIsRow == Spec => []LiveFollowsRow
<1>1. SInv => LiveFollowsRow
  <2>. SUFFICES ASSUME SInv, queue = <<>> PROVE LiveFollowsRow
    BY DEF LiveFollowsRow
  <2>1. \A o \in Op : op[o].at = "idle"
    BY DEF SInv, MutexInv, Queued
  <2>2. Owed = {}
    BY <2>1 DEF Owed, CutShort
  <2>. QED  BY <2>2 DEF SInv, LiveInv, LiveFollowsRow
<1>. QED  BY <1>1, SAlways, PTL

-------------------------------------------------------------------------------
(* The capability and companion caches over a connection that is swapped      *)
(* under them, for any number of callers, books, swaps and restarts: what a   *)
(* caller is given was said by the connection it asked, and not long ago.     *)

AskRecord == [at : {"idle", "waiting", "answered"}, key : Key, next : Book \cup {None},
              gen : Nat, on : Ask \cup {None}, mark : Time, seen : Entry \cup {None},
              answer : Answer]

CachesTyped ==
  /\ now \in Time
  /\ entry \in [Key -> Entry \cup {None}]
  /\ slot \in [Key -> Ask \cup {None}]
  /\ ask \in [Ask -> AskRecord]

\* An entry was said by the connection of its generation; good news in it is either
\* as old as its stamp says, or was looked up within one call.
Sound(k, e) ==
  /\ e.answer.from = e.gen
  /\ e.answer.value => IF k = Capability
                       THEN e.ttl <= StaleWindow /\ e.at = e.answer.taken
                       ELSE e.ttl <= CompanionTtl /\ e.at - e.answer.taken <= CallTimeout

EntriesInv == \A k \in Key : entry[k] # None => Sound(k, entry[k])

\* Whoever waits, waits for an open flight of its own key and generation.
Opens(a) == ask[a].at = "waiting" /\ ask[a].on = a

WaitInv ==
  \A a \in Ask : ask[a].at = "waiting" =>
    /\ ask[a].gen <= Generation
    /\ ask[a].on \in Ask /\ Opens(ask[a].on)
    /\ ask[ask[a].on].gen = ask[a].gen /\ ask[ask[a].on].key = ask[a].key
    /\ Opens(a) => now - ask[a].mark <= CallTimeout
    /\ ask[a].seen # None => Sound(ask[a].key, ask[a].seen) /\ ask[a].seen.gen = ask[a].gen

\* What a caller of key k, asking under generation g, may be given.
Servable(k, g, answer) ==
  /\ answer.from \in {0, g}
  /\ answer.value => now - answer.taken
                       < CallTimeout + IF k = Capability THEN StaleWindow ELSE CompanionTtl

AnswersInv == \A a \in Ask : ask[a].at = "answered" => Servable(ask[a].key, ask[a].gen, ask[a].answer)

\* A slot names an open flight of its key, and every flight the live connection has
\* open stands in its slot.
SlotInv ==
  /\ \A k \in Key : slot[k] # None => Opens(slot[k]) /\ ask[slot[k]].key = k
  /\ \A a \in Ask : Opens(a) /\ ask[a].gen = Generation => slot[ask[a].key] = a

CInv == CachesTyped /\ EntriesInv /\ WaitInv /\ AnswersInv /\ SlotInv

-------------------------------------------------------------------------------
LEMMA GenerationType == SInv => Generation \in Nat \ {0}
  BY EmptySeq, LenProperties DEF SInv, LiveInv, Generation

LEMMA IdleAskType == 0 \in Time /\ IdleAsk \in AskRecord
  BY ConnectionAssumption DEF IdleAsk, AskRecord, Key, Default, Answer, Time

LEMMA CInit == Init => CInv
<1>. SUFFICES ASSUME Init PROVE CInv
  OBVIOUS
<1>1. /\ entry = [k \in Key |-> None] /\ slot = [k \in Key |-> None]
      /\ ask = [a \in Ask |-> IdleAsk] /\ now = 0
  BY DEF Init, ConnectionInit
<1>2. CachesTyped
  BY <1>1, IdleAskType DEF CachesTyped
<1>. QED  BY <1>1, <1>2 DEF CInv, EntriesInv, WaitInv, AnswersInv, SlotInv, Opens, IdleAsk

\* A caller that waits for nothing changes its own record only, to one that is not
\* waiting: nobody waited for it.
LEMMA OtherThanWaiting ==
  ASSUME SInv, CInv, NEW a \in Ask, ask[a].at # "waiting", NEW x \in AskRecord,
         ask' = [ask EXCEPT ![a] = x], x.at # "waiting",
         x.at = "answered" => Servable(x.key, x.gen, x.answer),
         UNCHANGED <<conns, now>>
  PROVE  /\ ask' \in [Ask -> AskRecord] /\ WaitInv' /\ AnswersInv'
         /\ \A b \in Ask : Opens(b)' <=> Opens(b)
         /\ \A b \in Ask : Opens(b) => ask'[b] = ask[b]
<1>1. ask' \in [Ask -> AskRecord] /\ ask'[a] = x /\ \A b \in Ask \ {a} : ask'[b] = ask[b]
  BY DEF CInv, CachesTyped
<1>2. \A b \in Ask : (Opens(b)' <=> Opens(b)) /\ (Opens(b) => ask'[b] = ask[b])
  BY <1>1 DEF Opens
<1>3. WaitInv'
  BY <1>1, <1>2 DEF CInv, WaitInv, Opens, Generation
<1>4. AnswersInv'
  BY <1>1 DEF CInv, AnswersInv, Servable
<1>. QED  BY <1>1, <1>2, <1>3, <1>4

\* The slots hold where neither they nor the open flights change.
LEMMA SlotsStay ==
  ASSUME CInv, UNCHANGED <<slot, conns>>,
         \A b \in Ask : Opens(b)' <=> Opens(b), \A b \in Ask : Opens(b) => ask'[b] = ask[b]
  PROVE  SlotInv'
<1>1. ASSUME NEW j \in Key, slot'[j] # None PROVE Opens(slot[j])' /\ ask'[slot'[j]].key = j
  <2>1. slot'[j] = slot[j] /\ slot[j] \in Ask /\ Opens(slot[j]) /\ ask[slot[j]].key = j
    BY <1>1 DEF CInv, SlotInv, CachesTyped
  <2>2. ask'[slot[j]] = ask[slot[j]]
    BY <2>1
  <2>. QED  BY <2>1, <2>2 DEF Opens
<1>2. ASSUME NEW b \in Ask, Opens(b)', ask'[b].gen = Generation' PROVE slot'[ask'[b].key] = b
  BY <1>2 DEF CInv, SlotInv, Generation
<1>. QED  BY <1>1, <1>2 DEF SlotInv

\* A fresh entry is servable to whoever reads it under its own generation.
LEMMA FreshIsServable ==
  ASSUME CachesTyped, NEW k \in Key, entry[k] # None, Sound(k, entry[k]),
         now - entry[k].at < entry[k].ttl
  PROVE  Servable(k, entry[k].gen, entry[k].answer)
<1>1. entry[k] \in Entry /\ now \in Nat
  BY ConnectionAssumption DEF CachesTyped, Time
<1>2. entry[k].at \in Nat /\ entry[k].ttl \in Nat /\ entry[k].answer.taken \in Nat
  BY <1>1, ConnectionAssumption DEF Entry, Answer, Time
<1>. QED  BY <1>1, <1>2, ConnectionAssumption DEF Servable, Sound

LEMMA CLook ==
  ASSUME SInv, CInv, NEW a \in Ask, ask[a].at # "waiting", NEW k \in Key, NEW next \in Book \cup {None},
         Look(a, k, next), UNCHANGED <<conns, now>>
  PROVE  CInv'
<1>. DEFINE cached == Readable(k)
            asked == [IdleAsk EXCEPT !.key = k, !.next = next, !.gen = Generation, !.mark = now]
<1>1. Generation \in Nat /\ now \in Time /\ Generation' = Generation
  BY GenerationType DEF CInv, CachesTyped, Generation
<1>2. /\ asked \in AskRecord /\ asked.key = k /\ asked.gen = Generation /\ asked.mark = now
      /\ asked.at = "idle"
  BY <1>1, IdleAskType DEF AskRecord, IdleAsk
<1>3. cached \in Entry \cup {None} /\ (cached # None => cached = entry[k] /\ cached.gen = Generation /\ Sound(k, cached))
  BY DEF Readable, CInv, CachesTyped, EntriesInv
<1>. HIDE DEF asked, cached
<1>4. ASSUME NEW v \in Answer, Servable(k, Generation, v),
             ask' = [ask EXCEPT ![a] = [asked EXCEPT !.at = "answered", !.answer = v]]
      PROVE  /\ ask' \in [Ask -> AskRecord] /\ WaitInv' /\ AnswersInv'
             /\ \A b \in Ask : Opens(b)' <=> Opens(b)
             /\ \A b \in Ask : Opens(b) => ask'[b] = ask[b]
  <2>. DEFINE x == [asked EXCEPT !.at = "answered", !.answer = v]
  <2>1. x \in AskRecord /\ x.at = "answered" /\ x.key = k /\ x.gen = Generation /\ x.answer = v
    BY <1>2 DEF AskRecord, asked, IdleAsk
  <2>. HIDE DEF x
  <2>2. ask' = [ask EXCEPT ![a] = x]
    BY <1>4 DEF x
  <2>. QED  BY <1>4, <2>1, <2>2, OtherThanWaiting
<1>5. CASE cached # None /\ now - cached.at < cached.ttl
  <2>1. ask' = [ask EXCEPT ![a] = [asked EXCEPT !.at = "answered", !.answer = cached.answer]]
        /\ UNCHANGED <<entry, slot>>
    BY <1>5 DEF Look, asked, cached
  <2>2. cached.answer \in Answer /\ Servable(k, Generation, cached.answer)
    BY <1>3, <1>5, FreshIsServable DEF CInv, Entry
  <2>3. /\ ask' \in [Ask -> AskRecord] /\ WaitInv' /\ AnswersInv'
        /\ \A b \in Ask : Opens(b)' <=> Opens(b)
        /\ \A b \in Ask : Opens(b) => ask'[b] = ask[b]
    BY <1>4, <2>1, <2>2
  <2>4. SlotInv'
    BY <2>1, <2>3, SlotsStay
  <2>. QED  BY <2>1, <2>3, <2>4 DEF CInv, CachesTyped, EntriesInv
<1>6. ASSUME NEW f \in Ask, f = a \/ (Opens(f) /\ ask[f].key = k /\ ask[f].gen = Generation),
             ask' = [ask EXCEPT ![a] = [asked EXCEPT !.at = "waiting", !.on = f, !.seen = cached]]
      PROVE  /\ ask' \in [Ask -> AskRecord] /\ WaitInv' /\ AnswersInv'
             /\ ask'[a].key = k /\ ask'[a].gen = Generation /\ ask'[a].at = "waiting" /\ ask'[a].on = f
             /\ \A b \in Ask \ {a} : ask'[b] = ask[b]
             /\ ~Opens(a)
  <2>. DEFINE x == [asked EXCEPT !.at = "waiting", !.on = f, !.seen = cached]
  <2>1. /\ x \in AskRecord /\ x.at = "waiting" /\ x.key = k /\ x.gen = Generation /\ x.on = f
        /\ x.mark = now /\ x.seen = cached
    BY <1>2, <1>3 DEF AskRecord, asked, IdleAsk
  <2>. HIDE DEF x
  <2>2. ask' = [ask EXCEPT ![a] = x]
    BY <1>6 DEF x
  <2>3. ask' \in [Ask -> AskRecord] /\ ask'[a] = x /\ \A b \in Ask \ {a} : ask'[b] = ask[b]
    BY <2>1, <2>2 DEF CInv, CachesTyped
  <2>4. AnswersInv'
    BY <2>1, <2>3 DEF CInv, AnswersInv, Servable
  <2>5. now - now <= CallTimeout
    BY <1>1, ConnectionAssumption DEF Time
  <2>6. WaitInv'
    <3>. SUFFICES ASSUME NEW b \in Ask, ask'[b].at = "waiting"
                  PROVE  /\ ask'[b].gen <= Generation'
                         /\ ask'[b].on \in Ask /\ Opens(ask[b].on)'
                         /\ ask'[ask'[b].on].gen = ask'[b].gen /\ ask'[ask'[b].on].key = ask'[b].key
                         /\ Opens(b)' => now' - ask'[b].mark <= CallTimeout
                         /\ ask'[b].seen # None => Sound(ask'[b].key, ask'[b].seen) /\ ask'[b].seen.gen = ask'[b].gen
      BY DEF WaitInv, Sound
    <3>1. CASE b = a
      <4>1. ask'[b] = x /\ x.on = f /\ (f # a => ask'[f] = ask[f])
        BY <2>1, <2>3, <3>1
      <4>2. ask'[f].at = "waiting" /\ ask'[f].on = f /\ ask'[f].gen = Generation /\ ask'[f].key = k
        BY <1>6, <2>1, <2>3, <4>1 DEF Opens
      <4>3. Opens(ask[b].on)'
        BY <4>1, <4>2 DEF Opens
      <4>4. x.seen # None => Sound(x.key, x.seen) /\ x.seen.gen = x.gen
        BY <1>3, <2>1
      <4>. QED  BY <1>1, <2>1, <2>5, <4>1, <4>2, <4>3, <4>4
    <3>2. CASE b # a
      BY <1>1, <2>1, <2>3, <3>2 DEF CInv, WaitInv, Opens
    <3>. QED  BY <3>1, <3>2
  <2>. QED  BY <2>1, <2>3, <2>4, <2>6 DEF Opens
<1>7. CASE ~(cached # None /\ now - cached.at < cached.ttl) /\ Joins(k)
  <2>1. ask' = [ask EXCEPT ![a] = [asked EXCEPT !.at = "waiting", !.on = slot[k], !.seen = cached]]
        /\ UNCHANGED <<entry, slot>>
    BY <1>7 DEF Look, asked, cached
  <2>2. slot[k] \in Ask /\ Opens(slot[k]) /\ ask[slot[k]].key = k /\ ask[slot[k]].gen = Generation
    BY <1>7 DEF Joins, CInv, SlotInv, CachesTyped
  <2>3. /\ ask' \in [Ask -> AskRecord] /\ WaitInv' /\ AnswersInv'
        /\ ask'[a].at = "waiting" /\ ask'[a].on = slot[k]
        /\ \A b \in Ask \ {a} : ask'[b] = ask[b]
        /\ ~Opens(a)
    BY <1>6, <2>1, <2>2
  <2>4. slot[k] # a
    BY <2>2, <2>3
  <2>5. \A b \in Ask : (Opens(b)' <=> Opens(b)) /\ (Opens(b) => ask'[b] = ask[b])
    BY <2>3, <2>4 DEF Opens
  <2>6. SlotInv'
    BY <2>1, <2>5, SlotsStay
  <2>. QED  BY <2>1, <2>3, <2>6 DEF CInv, CachesTyped, EntriesInv
<1>8. CASE ~(cached # None /\ now - cached.at < cached.ttl) /\ ~Joins(k) /\ Current # None
  <2>1. /\ ask' = [ask EXCEPT ![a] = [asked EXCEPT !.at = "waiting", !.on = a, !.seen = cached]]
        /\ slot' = [slot EXCEPT ![k] = a] /\ UNCHANGED entry
    BY <1>8 DEF Look, asked, cached
  <2>3. /\ ask' \in [Ask -> AskRecord] /\ WaitInv' /\ AnswersInv'
        /\ ask'[a].key = k /\ ask'[a].gen = Generation /\ ask'[a].at = "waiting" /\ ask'[a].on = a
        /\ \A b \in Ask \ {a} : ask'[b] = ask[b]
        /\ ~Opens(a)
    BY <1>6, <2>1
  <2>4. slot' \in [Key -> Ask \cup {None}] /\ slot'[k] = a /\ \A j \in Key \ {k} : slot'[j] = slot[j]
    BY <2>1 DEF CInv, CachesTyped
  <2>5. \A b \in Ask : Opens(b) /\ ask[b].gen = Generation => ask[b].key # k
    BY <1>8, ConnectionAssumption DEF Joins, CInv, SlotInv
  <2>6. SlotInv'
    <3>1. \A j \in Key : slot'[j] # None => Opens(slot[j])' /\ ask'[slot'[j]].key = j
      BY <2>3, <2>4 DEF CInv, SlotInv, CachesTyped, Opens
    <3>2. \A b \in Ask : Opens(b)' /\ ask'[b].gen = Generation' => slot'[ask'[b].key] = b
      <4>. SUFFICES ASSUME NEW b \in Ask \ {a}, Opens(b)', ask'[b].gen = Generation'
                    PROVE  slot'[ask'[b].key] = b
        BY <2>3, <2>4
      <4>1. Opens(b) /\ ask[b].gen = Generation /\ ask[b].key \in Key /\ ask'[b] = ask[b]
        BY <1>1, <2>3 DEF Opens, CInv, CachesTyped, AskRecord
      <4>. QED  BY <4>1, <2>4, <2>5 DEF CInv, SlotInv
    <3>. QED  BY <3>1, <3>2 DEF SlotInv
  <2>. QED  BY <2>1, <2>3, <2>4, <2>6 DEF CInv, CachesTyped, EntriesInv
<1>9. CASE ~(cached # None /\ now - cached.at < cached.ttl) /\ ~Joins(k) /\ Current = None
  <2>. DEFINE nothing == [Default EXCEPT !.from = Generation, !.taken = now]
  <2>1. /\ ask' = [ask EXCEPT ![a] = [asked EXCEPT !.at = "answered", !.answer = nothing]]
        /\ slot' = [slot EXCEPT ![k] = None]
        /\ entry' = IF k = Capability THEN entry
                    ELSE [entry EXCEPT ![k] = EntryOf(Generation, now, FailureTtl, nothing)]
    BY <1>9 DEF Look, asked, cached
  <2>2. nothing \in Answer /\ nothing.value = FALSE /\ nothing.from = Generation
    BY <1>1, ConnectionAssumption DEF Default, Answer
  <2>3. EntryOf(Generation, now, FailureTtl, nothing) \in Entry /\ Sound(k, EntryOf(Generation, now, FailureTtl, nothing))
    BY <1>1, <2>2, ConnectionAssumption DEF EntryOf, Entry, Sound
  <2>. HIDE DEF nothing
  <2>4. /\ ask' \in [Ask -> AskRecord] /\ WaitInv' /\ AnswersInv'
        /\ \A b \in Ask : Opens(b)' <=> Opens(b)
        /\ \A b \in Ask : Opens(b) => ask'[b] = ask[b]
    BY <1>4, <2>1, <2>2 DEF Servable
  <2>5. \A b \in Ask : Opens(b) /\ ask[b].gen = Generation => ask[b].key # k
    BY <1>9, ConnectionAssumption DEF Joins, CInv, SlotInv
  <2>6. slot' \in [Key -> Ask \cup {None}] /\ slot'[k] = None /\ \A j \in Key \ {k} : slot'[j] = slot[j]
    BY <2>1 DEF CInv, CachesTyped
  <2>7. SlotInv'
    <3>1. \A j \in Key : slot'[j] # None => Opens(slot[j])' /\ ask'[slot'[j]].key = j
      <4>. SUFFICES ASSUME NEW j \in Key, slot'[j] # None PROVE Opens(slot[j])' /\ ask'[slot'[j]].key = j
        OBVIOUS
      <4>1. slot'[j] = slot[j] /\ slot[j] \in Ask /\ Opens(slot[j]) /\ ask[slot[j]].key = j
        BY <2>6 DEF CInv, SlotInv, CachesTyped
      <4>2. Opens(slot[j])' <=> ask'[slot[j]].at = "waiting" /\ ask'[slot[j]].on = slot[j]
        BY <4>1 DEF Opens
      <4>. QED  BY <4>1, <4>2, <2>4 DEF Opens
    <3>2. \A b \in Ask : Opens(b)' /\ ask'[b].gen = Generation' => slot'[ask'[b].key] = b
      <4>. SUFFICES ASSUME NEW b \in Ask, Opens(b)', ask'[b].gen = Generation'
                    PROVE  slot'[ask'[b].key] = b
        OBVIOUS
      <4>1. Opens(b) /\ ask'[b] = ask[b] /\ ask[b].key \in Key
        BY <2>4 DEF CInv, CachesTyped, AskRecord
      <4>. QED  BY <4>1, <1>1, <2>5, <2>6 DEF CInv, SlotInv
    <3>. QED  BY <3>1, <3>2 DEF SlotInv
  <2>8. entry' \in [Key -> Entry \cup {None}] /\ EntriesInv'
    BY <2>1, <2>3 DEF CInv, CachesTyped, EntriesInv, Sound
  <2>. QED  BY <2>4, <2>6, <2>7, <2>8 DEF CInv, CachesTyped
<1>. QED  BY <1>5, <1>7, <1>8, <1>9

\* Whatever a settled flight says may be given to its callers, and remembered.
LEMMA OutcomeIsSound ==
  ASSUME SInv, CInv, NEW f \in Ask, Opens(f),
         NEW o \in IF ask[f].key = Capability THEN CapabilityOutcomes(f) ELSE CompanionOutcomes(f)
  PROVE  /\ o.answer \in Answer /\ Servable(ask[f].key, ask[f].gen, o.answer)
         /\ o.entry \in Entry \cup {None} /\ (o.entry # None => Sound(ask[f].key, o.entry))
<1>1. /\ ask[f] \in AskRecord /\ ask[f].mark \in Time /\ ask[f].gen \in Nat
      /\ now \in Time /\ now - ask[f].mark <= CallTimeout
      /\ ask[f].seen \in Entry \cup {None}
      /\ ask[f].seen # None => Sound(ask[f].key, ask[f].seen) /\ ask[f].seen.gen = ask[f].gen
  BY DEF CInv, CachesTyped, WaitInv, Opens, AskRecord
<1>2. Time \subseteq Nat /\ now \in Nat /\ ask[f].mark \in Nat
  BY <1>1 DEF Time
<1>3. \A v \in BOOLEAN : /\ Said(f, v) \in Answer /\ Servable(ask[f].key, ask[f].gen, Said(f, v))
                         /\ Said(f, v).from = ask[f].gen /\ Said(f, v).taken = ask[f].mark /\ Said(f, v).value = v
  BY <1>1, <1>2, ConnectionAssumption DEF Said, Answer, Servable
<1>4. Default \in Answer /\ Servable(ask[f].key, ask[f].gen, Default)
  BY ConnectionAssumption DEF Default, Answer, Servable, Time
<1>5. CASE ask[f].key = Capability
  <2>1. CASE o = ServeStale(f)
    <3>1. CASE ask[f].seen # None /\ ask[f].mark - ask[f].seen.at < StaleWindow
      <4>1. o.answer = ask[f].seen.answer /\ o.entry = None
        BY <2>1, <3>1 DEF ServeStale
      <4>2. /\ ask[f].seen \in Entry /\ ask[f].seen.answer \in Answer
            /\ ask[f].seen.at \in Nat /\ ask[f].seen.answer.taken \in Nat
        BY <1>1, <1>2, <3>1 DEF Entry, Answer
      <4>3. ask[f].seen.answer.value => now - ask[f].seen.answer.taken < CallTimeout + StaleWindow
        BY <1>1, <1>2, <1>5, <3>1, <4>2, ConnectionAssumption DEF Sound
      <4>. QED  BY <1>1, <1>5, <3>1, <4>1, <4>2, <4>3 DEF Servable, Sound
    <3>2. CASE ~(ask[f].seen # None /\ ask[f].mark - ask[f].seen.at < StaleWindow)
      BY <2>1, <3>2, <1>4 DEF ServeStale
    <3>. QED  BY <3>1, <3>2
  <2>2. CASE o # ServeStale(f)
    <3>1. PICK v \in {[value |-> TRUE, ttl |-> CapabilityTtl], [value |-> FALSE, ttl |-> CapabilityTtl],
                      [value |-> FALSE, ttl |-> UnsupportedTtl]} :
            o = [answer |-> Said(f, v.value),
                 entry |-> EntryOf(ask[f].gen, ask[f].mark, v.ttl, Said(f, v.value))]
      BY <1>5, <2>2 DEF CapabilityOutcomes
    <3>2. /\ v.value \in BOOLEAN /\ v.ttl \in Nat /\ (v.value => v.ttl <= StaleWindow)
      <4>1. CapabilityTtl \in Nat /\ UnsupportedTtl \in Nat /\ CapabilityTtl <= StaleWindow
        BY ConnectionAssumption
      <4>2. \/ v = [value |-> TRUE, ttl |-> CapabilityTtl] \/ v = [value |-> FALSE, ttl |-> CapabilityTtl]
            \/ v = [value |-> FALSE, ttl |-> UnsupportedTtl]
        BY <3>1
      <4>3. v.ttl \in Nat
        BY <4>1, <4>2
      <4>4. v.value = TRUE \/ v.value = FALSE
        BY <4>2
      <4>5. v.value \in BOOLEAN
        BY <4>4
      <4>6. v.value => v.ttl = CapabilityTtl
        BY <4>2
      <4>. QED  BY <4>1, <4>3, <4>5, <4>6
    <3>3. /\ o.entry.gen = ask[f].gen /\ o.entry.at = ask[f].mark /\ o.entry.ttl = v.ttl
          /\ o.entry.answer = Said(f, v.value) /\ o.answer = Said(f, v.value)
          /\ o.entry = EntryOf(ask[f].gen, ask[f].mark, v.ttl, Said(f, v.value))
      BY <3>1 DEF EntryOf
    <3>4. o.entry \in Entry
      BY <1>1, <1>3, <3>2, <3>3 DEF EntryOf, Entry
    <3>. QED  BY <1>3, <1>5, <3>2, <3>3, <3>4 DEF Sound
  <2>. QED  BY <2>1, <2>2
<1>6. CASE ask[f].key # Capability
  <2>1. PICK v \in {[value |-> TRUE, ttl |-> CompanionTtl], [value |-> FALSE, ttl |-> CompanionTtl],
                    [value |-> FALSE, ttl |-> FailureTtl]} :
          o = [answer |-> Said(f, v.value), entry |-> EntryOf(ask[f].gen, now, v.ttl, Said(f, v.value))]
    BY <1>6 DEF CompanionOutcomes
  <2>2. /\ v.value \in BOOLEAN /\ v.ttl \in Nat /\ (v.value => v.ttl <= CompanionTtl)
    <3>1. CompanionTtl \in Nat /\ FailureTtl \in Nat
      BY ConnectionAssumption
    <3>2. \/ v = [value |-> TRUE, ttl |-> CompanionTtl] \/ v = [value |-> FALSE, ttl |-> CompanionTtl]
          \/ v = [value |-> FALSE, ttl |-> FailureTtl]
      BY <2>1
    <3>3. v.ttl \in Nat
      BY <3>1, <3>2
    <3>4. v.value = TRUE \/ v.value = FALSE
      BY <3>2
    <3>5. v.value \in BOOLEAN
      BY <3>4
    <3>6. v.value => v.ttl = CompanionTtl
      BY <3>2
    <3>. QED  BY <3>1, <3>3, <3>5, <3>6
  <2>3. /\ o.entry.gen = ask[f].gen /\ o.entry.at = now /\ o.entry.ttl = v.ttl
        /\ o.entry.answer = Said(f, v.value) /\ o.answer = Said(f, v.value)
        /\ o.entry = EntryOf(ask[f].gen, now, v.ttl, Said(f, v.value))
    BY <2>1 DEF EntryOf
  <2>4. o.entry \in Entry
    BY <1>1, <1>3, <2>2, <2>3 DEF EntryOf, Entry
  <2>. QED  BY <1>1, <1>3, <1>6, <2>2, <2>3, <2>4 DEF Sound
<1>. QED  BY <1>5, <1>6

LEMMA CSettle == ASSUME SInv, CInv, NEW f \in Ask, SettleAsk(f) PROVE CInv'
<1>. DEFINE k == ask[f].key
            joined(a) == ask[a].at = "waiting" /\ ask[a].on = f
<1>1. Opens(f) /\ UNCHANGED <<conns, now>> /\ k \in Key /\ Generation' = Generation
  BY DEF SettleAsk, Opens, CInv, CachesTyped, AskRecord, Generation
<1>2. PICK o \in IF k = Capability THEN CapabilityOutcomes(f) ELSE CompanionOutcomes(f) :
        /\ entry' = IF o.entry # None /\ ask[f].gen = Generation
                    THEN [entry EXCEPT ![k] = o.entry] ELSE entry
        /\ slot' = Release(k, f)
        /\ ask' = [a \in Ask |-> IF joined(a)
                                 THEN [ask[a] EXCEPT !.at = "answered", !.on = None, !.seen = None,
                                                     !.answer = o.answer]
                                 ELSE ask[a]]
  BY DEF SettleAsk
<1>3. /\ o.answer \in Answer /\ Servable(k, ask[f].gen, o.answer)
      /\ o.entry \in Entry \cup {None} /\ (o.entry # None => Sound(k, o.entry))
  BY <1>1, OutcomeIsSound
<1>4. entry' \in [Key -> Entry \cup {None}] /\ EntriesInv'
  BY <1>1, <1>2, <1>3 DEF CInv, CachesTyped, EntriesInv, Sound
<1>5. \A a \in Ask : ~joined(a) => ask'[a] = ask[a]
  BY <1>2
<1>6. \A a \in Ask : joined(a) => /\ ask'[a] \in AskRecord /\ ask'[a].at = "answered"
                                  /\ ask'[a].key = k /\ ask'[a].gen = ask[f].gen /\ ask'[a].answer = o.answer
  <2>. SUFFICES ASSUME NEW a \in Ask, joined(a)
                PROVE  /\ ask'[a] \in AskRecord /\ ask'[a].at = "answered"
                       /\ ask'[a].key = k /\ ask'[a].gen = ask[f].gen /\ ask'[a].answer = o.answer
    OBVIOUS
  <2>1. ask[a] \in AskRecord /\ ask[a].key = k /\ ask[a].gen = ask[f].gen
    BY DEF CInv, CachesTyped, WaitInv
  <2>2. ask'[a] = [ask[a] EXCEPT !.at = "answered", !.on = None, !.seen = None, !.answer = o.answer]
    BY <1>2
  <2>. QED  BY <1>3, <2>1, <2>2 DEF AskRecord
<1>7. ask' \in [Ask -> AskRecord]
  BY <1>2, <1>5, <1>6 DEF CInv, CachesTyped
<1>8. \A a \in Ask : (Opens(a)' <=> Opens(a) /\ a # f)
  BY <1>5, <1>6 DEF Opens
<1>9. WaitInv'
  <2>. SUFFICES ASSUME NEW a \in Ask, ask'[a].at = "waiting"
                PROVE  /\ ask'[a].gen <= Generation'
                       /\ ask'[a].on \in Ask /\ Opens(ask[a].on)'
                       /\ ask'[ask'[a].on].gen = ask'[a].gen /\ ask'[ask'[a].on].key = ask'[a].key
                       /\ Opens(a)' => now' - ask'[a].mark <= CallTimeout
                       /\ ask'[a].seen # None => Sound(ask'[a].key, ask'[a].seen) /\ ask'[a].seen.gen = ask'[a].gen
    BY DEF WaitInv, Sound
  <2>1. ask'[a] = ask[a] /\ ask[a].at = "waiting" /\ ask[a].on # f
    BY <1>5, <1>6
  <2>2. ask[a].on \in Ask /\ Opens(ask[a].on) /\ ask'[ask[a].on] = ask[ask[a].on]
    BY <1>5, <2>1 DEF CInv, WaitInv, Opens
  <2>. QED  BY <1>1, <2>1, <2>2 DEF CInv, WaitInv, Opens
<1>10. AnswersInv'
  BY <1>1, <1>3, <1>5, <1>6 DEF CInv, AnswersInv, Servable
<1>11. slot' \in [Key -> Ask \cup {None}] /\ \A j \in Key : slot'[j] = IF j = k /\ slot[k] = f THEN None ELSE slot[j]
  BY <1>1, <1>2 DEF Release, CInv, CachesTyped
<1>12. SlotInv'
  <2>1. ASSUME NEW j \in Key, slot'[j] # None PROVE Opens(slot[j])' /\ ask'[slot'[j]].key = j
    <3>1. slot'[j] = slot[j] /\ slot[j] \in Ask /\ Opens(slot[j]) /\ ask[slot[j]].key = j /\ slot[j] # f
      BY <1>11, <2>1 DEF CInv, SlotInv, CachesTyped
    <3>2. ask'[slot[j]] = ask[slot[j]]
      BY <1>5, <3>1 DEF Opens
    <3>. QED  BY <3>1, <3>2 DEF Opens
  <2>2. ASSUME NEW a \in Ask, Opens(a)', ask'[a].gen = Generation' PROVE slot'[ask'[a].key] = a
    <3>1. Opens(a) /\ a # f /\ ask'[a] = ask[a] /\ ask[a].key \in Key
      BY <1>5, <1>8, <2>2 DEF Opens, CInv, CachesTyped, AskRecord
    <3>. QED  BY <1>1, <1>11, <2>2, <3>1 DEF CInv, SlotInv
  <2>. QED  BY <2>1, <2>2 DEF SlotInv
<1>. QED  BY <1>1, <1>4, <1>7, <1>9, <1>10, <1>11, <1>12 DEF CInv, CachesTyped

LEMMA CUse == ASSUME SInv, CInv, NEW a \in Ask, UseAnswer(a) PROVE CInv'
<1>1. ask[a].at = "answered" /\ UNCHANGED <<conns, now>>
  BY DEF UseAnswer
<1>2. CASE ask[a].next # None /\ ask[a].answer.value
  BY <1>1, <1>2, CLook DEF UseAnswer, CInv, CachesTyped, AskRecord, Key
<1>3. CASE ~(ask[a].next # None /\ ask[a].answer.value)
  <2>1. ask' = [ask EXCEPT ![a] = IdleAsk] /\ UNCHANGED <<entry, slot>>
    BY <1>3 DEF UseAnswer
  <2>2. IdleAsk.at = "idle"
    BY DEF IdleAsk
  <2>3. /\ ask' \in [Ask -> AskRecord] /\ WaitInv' /\ AnswersInv'
        /\ \A b \in Ask : Opens(b)' <=> Opens(b)
        /\ \A b \in Ask : Opens(b) => ask'[b] = ask[b]
    BY <1>1, <2>1, <2>2, IdleAskType, OtherThanWaiting
  <2>4. SlotInv'
    BY <1>1, <2>1, <2>3, SlotsStay
  <2>. QED  BY <1>1, <2>1, <2>3, <2>4 DEF CInv, CachesTyped, EntriesInv
<1>. QED  BY <1>2, <1>3

LEMMA CServe == ASSUME SInv, CInv, NEW a \in Ask, Serve(a) PROVE CInv'
<1>1. ASSUME NEW key \in Key, NEW next \in Book \cup {None}, StartAsk(a, key, next) PROVE CInv'
  BY <1>1, CLook DEF StartAsk
<1>2. CASE \E next \in Book \cup {None} : AskFeatures(a, next)
  BY <1>1, <1>2 DEF AskFeatures, Key
<1>3. CASE \E b \in Book : StartAsk(a, b, None)
  BY <1>1, <1>3 DEF Key
<1>. QED  BY <1>2, <1>3, CSettle, CUse DEF Serve

\* A swap retires every flight there is: none is of the new generation.
LEMMA CSwap == ASSUME SInv, CInv, NEW o \in Op, Swap(o) PROVE CInv'
<1>1. UNCHANGED <<now, caches>> /\ conns' = Append(conns, row.narratorr)
  BY DEF Swap, Install
<1>2. Generation' = Generation + 1 /\ Generation \in Nat
  BY <1>1, GenerationType, AppendProperties DEF Generation, SInv, LiveInv, RowInv, Row
<1>3. \A a \in Ask : ask[a].at = "waiting" => ask[a].gen \in Nat /\ ask[a].gen <= Generation
  BY DEF CInv, WaitInv, CachesTyped, AskRecord
<1>4. WaitInv'
  BY <1>1, <1>2, <1>3 DEF caches, CInv, WaitInv, Opens, Sound
<1>5. SlotInv'
  BY <1>1, <1>2, <1>3 DEF caches, CInv, SlotInv, Opens
<1>. QED  BY <1>1, <1>4, <1>5 DEF caches, CInv, CachesTyped, EntriesInv, AnswersInv, Sound, Servable

LEMMA CRestart == ASSUME CInv, Restart PROVE CInv'
<1>1. /\ entry' = [k \in Key |-> None] /\ slot' = [k \in Key |-> None]
      /\ ask' = [a \in Ask |-> IdleAsk] /\ now' = now
  BY DEF Restart, Boot
<1>2. CachesTyped'
  BY <1>1, IdleAskType DEF CInv, CachesTyped
<1>. QED  BY <1>1, <1>2 DEF CInv, EntriesInv, WaitInv, AnswersInv, SlotInv, Opens, IdleAsk

\* The clock moves only when no answer is pending and no call is at its timeout.
LEMMA CTick == ASSUME SInv, CInv, Tick PROVE CInv'
<1>1. UNCHANGED <<conns, caches>> /\ now' = now + 1 /\ now < MaxTime
      /\ \A a \in Ask : ask[a].at # "answered" /\ (Opens(a) => now - ask[a].mark < CallTimeout)
  BY DEF Tick, Opens
<1>2. now' \in Time /\ now \in Nat /\ \A a \in Ask : ask[a].mark \in Nat
  BY <1>1, ConnectionAssumption DEF Time, CInv, CachesTyped, AskRecord
<1>3. \A a \in Ask : Opens(a) => now' - ask[a].mark <= CallTimeout
  BY <1>1, <1>2, ConnectionAssumption
<1>4. WaitInv'
  BY <1>1, <1>3 DEF caches, CInv, WaitInv, Opens, Sound, Generation
<1>. QED  BY <1>1, <1>2, <1>4 DEF caches, CInv, CachesTyped, EntriesInv, AnswersInv, SlotInv,
                                 Sound, Opens, Generation

LEMMA CFrame == ASSUME CInv, UNCHANGED <<now, caches, conns>> PROVE CInv'
  BY DEF caches, CInv, CachesTyped, EntriesInv, WaitInv, AnswersInv, SlotInv, Sound, Servable,
         Opens, Generation

LEMMA CNext == SInv /\ CInv /\ [Next]_vars => CInv'
<1>. SUFFICES ASSUME SInv, CInv, [Next]_vars PROVE CInv'
  OBVIOUS
<1>1. ASSUME NEW o \in Op, NEW request \in Bodies, Submit(o, request) PROVE CInv'
  BY <1>1, CFrame DEF Submit
<1>2. ASSUME NEW o \in Op, ReadStored(o) \/ BuildCandidate(o) \/ WriteRow(o)
                           \/ RebuildNotifier(o) \/ ReconfigureQuota(o) \/ SectionFails(o)
      PROVE  CInv'
  BY <1>2, CFrame DEF ReadStored, BuildCandidate, WriteRow, RebuildNotifier, ReconfigureQuota,
                      SectionFails, connectionVars
<1>3. ASSUME NEW o \in Op, Swap(o) PROVE CInv'
  BY <1>3, CSwap
<1>4. CASE Restart
  BY <1>4, CRestart
<1>5. ASSUME NEW a \in Ask, Serve(a) PROVE CInv'
  BY <1>5, CServe
<1>6. CASE Tick /\ UNCHANGED settingsVars
  BY <1>6, CTick
<1>7. CASE UNCHANGED vars
  BY <1>7, CFrame DEF vars, connectionVars
<1>. QED  BY <1>1, <1>2, <1>3, <1>4, <1>5, <1>6, <1>7 DEF Next, Quiet

LEMMA CAlways == Spec => []CInv
  BY CInit, CNext, SAlways, PTL DEF Spec

\* Whatever swaps and restarts happen while calls are in the air, a caller is given
\* what the connection it asked said, and the live connection has one call per key.
THEOREM AnswersAreCurrent == Spec => []ServedIsCurrent
<1>1. CInv => ServedIsCurrent
  BY DEF CInv, AnswersInv, Servable, SlotInv, Opens, ServedIsCurrent
<1>. QED  BY <1>1, CAlways, PTL

\* Good news is served for its window and one call's time, whatever failures and
\* joined calls lie between.
THEOREM StalenessIsBounded == Spec => []StaleIsBounded
<1>1. CInv => StaleIsBounded
  BY DEF CInv, AnswersInv, Servable, StaleIsBounded
<1>. QED  BY <1>1, CAlways, PTL
===============================================================================
