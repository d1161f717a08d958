------------------------ MODULE RequestLifecycleProofs ------------------------
(***************************************************************************)
(* RequestLifecycle for every number of handlers, users, books, rows and    *)
(* faults: its types and emails first, then the safety of its rows, then    *)
(* that it implements RequestPromise, and last how often a requester is     *)
(* emailed and how far a quota may be overshot.                             *)
(***************************************************************************)
EXTENDS RequestLifecycle, FiniteSetTheorems, TLAPS

\* What a process may hold at each of its await points.
JobShape ==
  \A p \in Proc :
    /\ job[p].at \in CreateLabel => job[p].user \in User /\ job[p].asin \in Asin
    /\ job[p].at \notin CreateLabel \cup {"idle"} => job[p].row \in Id
    /\ job[p].at \in {"handoff", "link"} => job[p].seen = "approved"
    /\ job[p].at \in {"poll", "apply"} => job[p].seen = "acquiring"
    /\ job[p].at = "fail" => job[p].seen \in {"approved", "acquiring"}
    /\ job[p].at = "link" => job[p].reply \in {"wanted", "imported"}
    /\ job[p].at = "apply" => job[p].reply = "imported"

USE DEF Label, CreateLabel, BookStatus, HandoffReply, PollReply, Status, Open, Active, Final

LEMMA IdleIsJob == Idle \in Job
  BY NullAssumption, BoundsAssumption DEF Idle, Job

LEMMA PollerIsProc == Poller \in Proc /\ Handler \subseteq Proc
  BY DEF Proc

-------------------------------------------------------------------------------
\* Types and job shapes are preserved together: a step uses the row and the
\* snapshot the job holds.
TypeInv == TypeOK /\ JobShape

LEMMA InitTypeInv == Init => TypeInv
  BY IdleIsJob, BoundsAssumption
     DEF Init, TypeInv, TypeOK, JobShape, Request, AbsentRow, NoPass, Idle

\* A step that replaces the job of one process keeps the shape of all the others.
LEMMA OneJobChanges ==
  ASSUME TypeInv, NEW p \in Proc, NEW j \in Job, job' = [job EXCEPT ![p] = j],
         j.at \in CreateLabel => j.user \in User /\ j.asin \in Asin,
         j.at \notin CreateLabel \cup {"idle"} => j.row \in Id,
         j.at \in {"handoff", "link"} => j.seen = "approved",
         j.at \in {"poll", "apply"} => j.seen = "acquiring",
         j.at = "fail" => j.seen \in {"approved", "acquiring"},
         j.at = "link" => j.reply \in {"wanted", "imported"},
         j.at = "apply" => j.reply = "imported"
  PROVE  job' \in [Proc -> Job] /\ JobShape'
  BY DEF TypeInv, TypeOK, JobShape

LEMMA DoneKeepsJobs ==
  ASSUME TypeInv, NEW p \in Proc, Done(p)
  PROVE  job' \in [Proc -> Job] /\ JobShape'
  BY OneJobChanges, IdleIsJob DEF Done, Idle

LEMMA HandoffKeepsJobs ==
  ASSUME TypeInv, NEW p \in Proc, NEW r \in Id, BeginHandoff(p, r)
  PROVE  job' \in [Proc -> Job] /\ JobShape'
<1> DEFINE j == OnRow("handoff", r, "approved")
<1>1. j \in Job
  <2>1. r \in 0..MaxRows
    BY BoundsAssumption DEF Id
  <2> QED
    BY <2>1, IdleIsJob DEF Job, OnRow
<1>2. j.at = "handoff" /\ j.row = r /\ j.seen = "approved"
  BY DEF Idle, OnRow
<1>3. job' = [job EXCEPT ![p] = j]
  BY DEF BeginHandoff
<1> QED
  BY <1>1, <1>2, <1>3, OneJobChanges

\* A job that only moves on to another await point.
LEMMA GotoKeepsJobs ==
  ASSUME TypeInv, NEW p \in Proc, NEW l \in Label, Goto(p, l),
         \/ job[p].at \in CreateLabel /\ l \in CreateLabel
         \/ job[p].row \in Id /\ l \in {"emit", "settle"}
  PROVE  job' \in [Proc -> Job] /\ JobShape'
<1> DEFINE j == [job[p] EXCEPT !.at = l]
<1>1. job[p] \in Job
  BY DEF TypeInv, TypeOK
<1>2. j \in Job /\ j.at = l /\ j.user = job[p].user /\ j.asin = job[p].asin /\ j.row = job[p].row
  BY <1>1 DEF Job
<1>3. job' = [job EXCEPT ![p] = j]
  BY DEF Goto
<1>4. job[p].at \in CreateLabel => job[p].user \in User /\ job[p].asin \in Asin
  BY DEF TypeInv, JobShape
<1> HIDE DEF j
<1> QED
  BY <1>2, <1>3, <1>4, OneJobChanges

LEMMA HandlerTypeInv ==
  ASSUME TypeInv, NEW h \in Handler, HandlerStep(h)
  PROVE  TypeInv'
<1> USE PollerIsProc DEF TypeInv
<1>0. h \in Proc
  OBVIOUS
<1>1. ASSUME NEW u \in User, NEW a \in Asin, CreateStart(h, u, a)
      PROVE  TypeInv'
  <2> DEFINE j == [Idle EXCEPT !.at = "dedupe", !.user = u, !.asin = a]
  <2>1. j \in Job /\ j.at = "dedupe" /\ j.user = u /\ j.asin = a
    BY IdleIsJob DEF Job
  <2>2. job' = [job EXCEPT ![h] = j]
    BY <1>1 DEF CreateStart
  <2> HIDE DEF j
  <2>3. job' \in [Proc -> Job] /\ JobShape'
    BY <1>0, <2>1, <2>2, OneJobChanges
  <2> QED
    BY <1>1, <2>3 DEF CreateStart, TypeOK, observations
<1>2. CASE FindActiveDuplicate(h)
  <2>1. job' \in [Proc -> Job] /\ JobShape'
    BY <1>0, <1>2, DoneKeepsJobs, GotoKeepsJobs DEF FindActiveDuplicate
  <2> QED
    BY <1>2, <2>1 DEF FindActiveDuplicate, TypeOK, observations
<1>3. CASE EnforceQuota(h)
  <2>1. job' \in [Proc -> Job] /\ JobShape'
    BY <1>0, <1>3, DoneKeepsJobs, GotoKeepsJobs DEF EnforceQuota
  <2> QED
    BY <1>3, <2>1 DEF EnforceQuota, TypeOK, observations
<1>4. CASE InsertRequest(h)
  <2> DEFINE u == job[h].user
             a == job[h].asin
             auto == u \in AutoApprove
  <2>1. CASE Done(h) /\ UNCHANGED req
    <3>1. job' \in [Proc -> Job] /\ JobShape'
      BY <1>0, <2>1, DoneKeepsJobs
    <3> QED
      BY <1>4, <2>1, <3>1 DEF InsertRequest, TypeOK, observations
  <2>2. ASSUME NEW r \in Id,
               req' = [req EXCEPT ![r] =
                     [AbsentRow EXCEPT !.user = u, !.asin = a, !.inWindow = TRUE,
                                       !.status = IF auto THEN "approved" ELSE "pending",
                                       !.decidedBy = IF auto THEN u ELSE None]],
               IF auto THEN BeginHandoff(h, r) ELSE Done(h)
        PROVE  TypeInv'
    <3>1. job' \in [Proc -> Job] /\ JobShape'
      BY <1>0, <2>2, DoneKeepsJobs, HandoffKeepsJobs
    <3>2. u \in User /\ a \in Asin
      BY <1>0, <1>4 DEF InsertRequest, JobShape
    <3>3. req' \in [Id -> Request]
      BY <2>2, <3>2 DEF TypeOK, Request, AbsentRow
    <3> QED
      BY <1>4, <3>1, <3>3 DEF InsertRequest, TypeOK, observations
  <2> QED
    BY <1>4, <2>1, <2>2 DEF InsertRequest
<1>5. ASSUME NEW admin \in Admin, NEW r \in Id, NEW v \in {"approve", "deny"},
             DecideStart(h, admin, r, v)
      PROVE  TypeInv'
  <2> DEFINE j == [Idle EXCEPT !.at = "claim", !.row = r, !.by = admin, !.verdict = v]
  <2>0. r \in 0..MaxRows
    BY BoundsAssumption DEF Id
  <2>1. j \in Job /\ j.at = "claim" /\ j.row = r
    BY <2>0, IdleIsJob DEF Job
  <2>2. job' = [job EXCEPT ![h] = j]
    BY <1>5 DEF DecideStart
  <2> HIDE DEF j
  <2>3. job' \in [Proc -> Job] /\ JobShape'
    BY <1>0, <2>1, <2>2, OneJobChanges
  <2> QED
    BY <1>5, <2>3 DEF DecideStart, TypeOK, observations
<1>6. CASE ClaimDecision(h)
  <2>1. job[h].row \in Id /\ job[h] \in Job
    BY <1>0, <1>6 DEF ClaimDecision, JobShape, TypeOK
  <2>2. job' \in [Proc -> Job] /\ JobShape'
    BY <1>0, <1>6, <2>1, DoneKeepsJobs, HandoffKeepsJobs DEF ClaimDecision
  <2>3. req' \in [Id -> Request]
    <3> DEFINE r == job[h].row
               st == IF job[h].verdict = "approve" THEN "approved" ELSE "denied"
               x == [req[r] EXCEPT !.status = st, !.decidedBy = job[h].by]
    <3>1. req[r] \in Request /\ st \in Status /\ job[h].by \in User \cup Admin \cup {None}
      BY <2>1 DEF TypeOK, Job
    <3>2. x \in Request
      BY <3>1 DEF Request
    <3>3. req' = [req EXCEPT ![r] = x] \/ req' = req
      BY <1>6 DEF ClaimDecision
    <3> HIDE DEF x
    <3> QED
      BY <2>1, <3>2, <3>3 DEF TypeOK
  <2> QED
    BY <1>6, <2>2, <2>3 DEF ClaimDecision, TypeOK, observations
<1> QED
  BY <1>1, <1>2, <1>3, <1>4, <1>5, <1>6 DEF HandlerStep

\* An answer of Narratorr, recorded with the await point it leads to.
LEMMA AnswerKeepsJobs ==
  ASSUME TypeInv, NEW p \in Proc, NEW l \in {"fail", "link", "apply"},
         NEW reply \in HandoffReply \cup PollReply, Answered(p, l, reply),
         job[p].row \in Id,
         l = "fail" => job[p].seen \in {"approved", "acquiring"},
         l = "link" => job[p].seen = "approved" /\ reply \in {"wanted", "imported"},
         l = "apply" => job[p].seen = "acquiring" /\ reply = "imported"
  PROVE  job' \in [Proc -> Job] /\ JobShape'
<1> DEFINE j == [job[p] EXCEPT !.at = l, !.reply = reply]
<1>1. job[p] \in Job
  BY DEF TypeInv, TypeOK
<1>2. j.at = l /\ j.row = job[p].row /\ j.seen = job[p].seen /\ j.reply = reply
  BY <1>1 DEF Job
<1>4. j \in Job
  <2>1. l \in Label /\ reply \in HandoffReply \cup PollReply \cup {None}
    OBVIOUS
  <2> HIDE DEF Label, CreateLabel, HandoffReply, PollReply, BookStatus
  <2> QED
    BY <1>1, <2>1 DEF Job
<1>3. job' = [job EXCEPT ![p] = j]
  BY DEF Answered
<1> HIDE DEF j
<1> QED
  BY <1>2, <1>3, <1>4, OneJobChanges

LEMMA HandoffTypeInv ==
  ASSUME TypeInv, NEW p \in Proc, HandoffStep(p)
  PROVE  TypeInv'
<1> USE DEF TypeInv
<1>0. job[p] \in Job /\ \A r \in Id : req[r] \in Request
  BY DEF TypeOK
<1>1. ASSUME NEW reply \in HandoffReply, AddBook(p, reply)
      PROVE  TypeInv'
  <2>1. job[p].row \in Id /\ job[p].seen = "approved"
    BY <1>1 DEF AddBook, JobShape
  <2>2. job' \in [Proc -> Job] /\ JobShape'
    BY <1>1, <2>1, DoneKeepsJobs, AnswerKeepsJobs DEF AddBook, MapBookStatus
  <2> QED
    BY <1>1, <2>2 DEF AddBook, TypeOK, observations
<1>2. CASE LinkBook(p)
  <2> DEFINE r == job[p].row
             x == [req[r] EXCEPT !.status = MapBookStatus(job[p].reply), !.linked = TRUE]
  <2>1. r \in Id /\ job[p].reply \in {"wanted", "imported"}
    BY <1>2 DEF LinkBook, JobShape
  <2>2. x \in Request
    <3>1. MapBookStatus(job[p].reply) \in Status
      BY <2>1 DEF MapBookStatus
    <3> QED
      BY <1>0, <2>1, <3>1 DEF Request
  <2>3. req' = [req EXCEPT ![r] = x] \/ req' = req
    BY <1>2 DEF LinkBook
  <2> HIDE DEF x
  <2>4. req' \in [Id -> Request]
    BY <2>1, <2>2, <2>3 DEF TypeOK
  <2>5. job' \in [Proc -> Job] /\ JobShape'
    BY <1>2, DoneKeepsJobs DEF LinkBook
  <2> QED
    BY <1>2, <2>4, <2>5 DEF LinkBook, TypeOK, observations
<1>3. CASE TransitionToFailed(p)
  <2> DEFINE r == job[p].row
             x == FailedRow(req[r], job[p].reply)
  <2>1. r \in Id
    BY <1>3 DEF TransitionToFailed, JobShape
  <2>2. x \in Request
    BY <1>0, <2>1 DEF Request, FailedRow
  <2>3. req' = [req EXCEPT ![r] = x] \/ req' = req
    BY <1>3 DEF TransitionToFailed
  <2> HIDE DEF x
  <2>4. req' \in [Id -> Request]
    BY <2>1, <2>2, <2>3 DEF TypeOK
  <2>5. job' \in [Proc -> Job] /\ JobShape'
    BY <1>3, <2>1, DoneKeepsJobs, GotoKeepsJobs DEF TransitionToFailed
  <2> QED
    BY <1>3, <2>4, <2>5 DEF TransitionToFailed, TypeOK, observations
<1>4. CASE EmitFailed(p)
  <2>1. job[p].row \in Id
    BY <1>4 DEF EmitFailed, JobShape
  <2>2. job' \in [Proc -> Job] /\ JobShape'
    BY <1>4, DoneKeepsJobs DEF EmitFailed
  <2> QED
    BY <1>4, <2>1, <2>2 DEF EmitFailed, TypeOK
<1> QED
  BY <1>1, <1>2, <1>3, <1>4 DEF HandoffStep

\* A single column set on a row.
LEMMA RowFlags ==
  ASSUME TypeInv, NEW r \in Id
  PROVE  /\ [req EXCEPT ![r].notified = TRUE] \in [Id -> Request]
         /\ [req EXCEPT ![r].inWindow = FALSE] \in [Id -> Request]
<1>1. req[r] \in Request /\ req \in [Id -> Request]
  BY DEF TypeInv, TypeOK
<1>2. [req[r] EXCEPT !.notified = TRUE] \in Request /\ [req[r] EXCEPT !.inWindow = FALSE] \in Request
  BY <1>1 DEF Request
<1> QED
  BY <1>1, <1>2

Phases == {"off", "stranded", "acquiring", "sweep"}
Pass == [phase : Phases, batch : SUBSET Id, wants : SUBSET Id]

LEMMA NextRowIsPassed ==
  ASSUME TypeInv, NEW r \in Id, TakeNext(r)
  PROVE  pass' \in Pass
  BY DEF TypeInv, TypeOK, TakeNext, Pass, Phases

\* A poller job on row r, at an await point that needs no answer yet.
LEMMA PollerJobKeepsJobs ==
  ASSUME TypeInv, NEW r \in Id, NEW l \in {"poll", "send", "settle"},
         NEW st \in {"acquiring", None}, l = "poll" => st = "acquiring",
         job' = [job EXCEPT ![Poller] = OnRow(l, r, st)]
  PROVE  job' \in [Proc -> Job] /\ JobShape'
<1> DEFINE j == OnRow(l, r, st)
<1>0. r \in 0..MaxRows
  BY BoundsAssumption DEF Id
<1>1. j \in Job
  BY <1>0, IdleIsJob DEF Job, OnRow
<1>2. j.at = l /\ j.row = r /\ j.seen = st
  BY <1>0, IdleIsJob DEF Job, OnRow
<1> HIDE DEF j
<1>3. job' = [job EXCEPT ![Poller] = j]
  BY DEF j
<1> QED
  BY <1>1, <1>2, <1>3, PollerIsProc, OneJobChanges

\* A send ends in one of three ways: nothing left the house, the relay took the
\* message but its answer was lost, or the answer came and the marker is next.
EmailCounted == delivered' = [delivered EXCEPT ![job[Poller].row] = @ + 1]
SendEndsQuietly == Done(Poller) /\ UNCHANGED <<delivered, faults>>
AnswerIsLost == Done(Poller) /\ EmailCounted /\ faults < MaxFaults /\ faults' = faults + 1
SendSucceeds == Goto(Poller, "settle") /\ EmailCounted /\ faults' = faults

LEMMA SendsEnd ==
  ASSUME TypeInv, NEW o \in SendOutcome, SendAvailable(Poller, o)
  PROVE  /\ job[Poller].row \in Id /\ UNCHANGED <<req, pass, emitted>>
         /\ SendEndsQuietly \/ AnswerIsLost \/ SendSucceeds
<1>1. job[Poller].row \in Id
  BY PollerIsProc DEF SendAvailable, TypeInv, JobShape
<1>2. CASE o \in {"skipped", "thrown"}
  <2>1. delivered' = delivered
    BY <1>1, <1>2 DEF SendAvailable, RelayTakes, TypeInv, TypeOK
  <2> QED
    BY <1>1, <1>2, <2>1 DEF SendAvailable, RelayTakes, SendEndsQuietly
<1>3. CASE o = "lost"
  BY <1>1, <1>3 DEF SendAvailable, RelayTakes, AnswerIsLost, EmailCounted
<1>4. CASE o = "delivered"
  BY <1>1, <1>4 DEF SendAvailable, RelayTakes, SendSucceeds, EmailCounted
<1> QED
  BY <1>2, <1>3, <1>4 DEF SendOutcome

LEMMA PollerTypeInv ==
  ASSUME TypeInv, PollerStep
  PROVE  TypeInv'
<1> USE PollerIsProc DEF TypeInv
<1>0. job[Poller] \in Job /\ pass \in Pass
  BY DEF TypeOK, Pass, Phases
<1>a. ASSUME NEW S \in SUBSET Id, NEW ph \in Phases, StartPass(ph, S)
      PROVE  pass' \in Pass
  BY <1>a DEF StartPass, OldestBatch, Pass
<1>1. CASE PollStart
  <2>1. pass' \in Pass
    BY <1>1, <1>a DEF PollStart, ApprovedAwaitingHandoff, Phases
  <2> QED
    BY <1>1, <2>1 DEF PollStart, TypeOK, JobShape, observations, Pass, Phases
<1>2. ASSUME NEW r \in Id, RecoverNext(r)
      PROVE  TypeInv'
  <2>1. job' \in [Proc -> Job] /\ JobShape'
    BY <1>2, HandoffKeepsJobs DEF RecoverNext
  <2>2. pass' \in Pass
    BY <1>2, NextRowIsPassed DEF RecoverNext
  <2> QED
    BY <1>2, <2>1, <2>2 DEF RecoverNext, TypeOK, observations, Pass, Phases
<1>3. ASSUME NEW r \in Id, PollNext(r)
      PROVE  TypeInv'
  <2>1. job' \in [Proc -> Job] /\ JobShape'
    BY <1>3, PollerJobKeepsJobs DEF PollNext
  <2>2. pass' \in Pass
    BY <1>3, NextRowIsPassed DEF PollNext
  <2> QED
    BY <1>3, <2>1, <2>2 DEF PollNext, TypeOK, observations, Pass, Phases
<1>4. ASSUME NEW r \in Id, NotifyNext(r)
      PROVE  TypeInv'
  <2> DEFINE l == IF r \in pass.wants THEN "send" ELSE "settle"
  <2>1. job' = [job EXCEPT ![Poller] = OnRow(l, r, None)]
    BY <1>4 DEF NotifyNext
  <2>2. l \in {"send", "settle"}
    OBVIOUS
  <2> HIDE DEF l
  <2>3. job' \in [Proc -> Job] /\ JobShape'
    BY <2>1, <2>2, PollerJobKeepsJobs
  <2>4. pass' \in Pass
    BY <1>4, NextRowIsPassed DEF NotifyNext
  <2> QED
    BY <1>4, <2>3, <2>4 DEF NotifyNext, TypeOK, observations, Pass, Phases
<1>5. CASE FindAcquiring
  <2>1. pass' \in Pass
    BY <1>5, <1>a DEF FindAcquiring, Acquiring, Phases
  <2> QED
    BY <1>5, <2>1 DEF FindAcquiring, TypeOK, JobShape, observations, Pass, Phases
<1>6. ASSUME NEW reply \in PollReply, GetBook(Poller, reply)
      PROVE  TypeInv'
  <2>1. job[Poller].row \in Id /\ job[Poller].seen = "acquiring"
    BY <1>6 DEF GetBook, JobShape
  <2>2. job' \in [Proc -> Job] /\ JobShape'
    BY <1>6, <2>1, DoneKeepsJobs, AnswerKeepsJobs DEF GetBook, MapBookStatus
  <2> QED
    BY <1>6, <2>2 DEF GetBook, TypeOK, observations
<1>7. CASE ApplyBook(Poller)
  <2> DEFINE r == job[Poller].row
             x == [req[r] EXCEPT !.status = MapBookStatus(job[Poller].reply)]
  <2>1. r \in Id /\ job[Poller].reply = "imported"
    BY <1>7 DEF ApplyBook, JobShape
  <2>2. x \in Request
    <3>1. MapBookStatus(job[Poller].reply) \in Status /\ req[r] \in Request
      BY <2>1 DEF MapBookStatus, TypeOK
    <3> QED
      BY <3>1 DEF Request
  <2>3. req' = [req EXCEPT ![r] = x] \/ req' = req
    BY <1>7 DEF ApplyBook
  <2> HIDE DEF x
  <2>4. req' \in [Id -> Request]
    BY <2>1, <2>2, <2>3 DEF TypeOK
  <2>5. job' \in [Proc -> Job] /\ JobShape'
    BY <1>7, DoneKeepsJobs DEF ApplyBook
  <2> QED
    BY <1>7, <2>4, <2>5 DEF ApplyBook, TypeOK, observations
<1>8. CASE FindOwed
  <2> DEFINE owed == OldestBatch(AvailableAwaitingNotify)
  <2>0. owed \subseteq Id
    BY DEF OldestBatch, AvailableAwaitingNotify
  <2>1. pass' \in Pass
    <3>1. PICK W \in SUBSET owed : pass' = [phase |-> "sweep", batch |-> owed, wants |-> W]
      BY <1>8 DEF FindOwed
    <3> HIDE DEF owed
    <3> QED
      BY <2>0, <3>1 DEF Pass, Phases
  <2> QED
    BY <1>8, <2>1 DEF FindOwed, TypeOK, JobShape, observations, Pass, Phases
<1>9. ASSUME NEW o \in SendOutcome, SendAvailable(Poller, o)
      PROVE  TypeInv'
  <2>1. /\ job[Poller].row \in Id /\ UNCHANGED <<req, pass, emitted>>
        /\ SendEndsQuietly \/ AnswerIsLost \/ SendSucceeds
    BY <1>9, SendsEnd
  <2>2. job' \in [Proc -> Job] /\ JobShape'
    BY <1>9, <2>1, DoneKeepsJobs, GotoKeepsJobs
       DEF SendAvailable, SendEndsQuietly, AnswerIsLost, SendSucceeds
  <2>3. delivered' \in [Id -> Nat]
    BY <2>1 DEF SendEndsQuietly, AnswerIsLost, SendSucceeds, EmailCounted, TypeOK
  <2>4. faults' \in 0..MaxFaults
    BY <2>1, BoundsAssumption DEF SendEndsQuietly, AnswerIsLost, SendSucceeds, TypeOK
  <2> QED
    BY <2>1, <2>2, <2>3, <2>4 DEF TypeOK
<1>10. CASE SettleAvailableNotified(Poller)
  <2>1. job[Poller].row \in Id
    BY <1>10 DEF SettleAvailableNotified, JobShape
  <2>2. job' \in [Proc -> Job] /\ JobShape'
    BY <1>10, DoneKeepsJobs DEF SettleAvailableNotified
  <2>3. req' \in [Id -> Request]
    BY <1>10, <2>1, RowFlags DEF SettleAvailableNotified
  <2> QED
    BY <1>10, <2>2, <2>3 DEF SettleAvailableNotified, TypeOK, observations
<1>11. CASE PollEnd
  BY <1>11 DEF PollEnd, NoPass, TypeOK, JobShape, observations
<1> QED
  BY <1>1, <1>2, <1>3, <1>4, <1>5, <1>6, <1>7, <1>8, <1>9, <1>10, <1>11 DEF PollerStep

LEMMA EnvironmentTypeInv ==
  ASSUME TypeInv, Environment
  PROVE  TypeInv'
<1> USE DEF TypeInv
<1>1. ASSUME NEW p \in Proc, DatabaseFault(p)
      PROVE  TypeInv'
  <2>1. job' \in [Proc -> Job] /\ JobShape'
    <3>1. CASE Done(p)
      BY <3>1, DoneKeepsJobs
    <3>2. CASE /\ Answered(p, "fail", "terminal")
               /\ job[p].at \in {"link", "fail"} /\ job[p].seen = "approved"
      <4>1. job[p].row \in Id
        BY <3>2 DEF JobShape
      <4> QED
        BY <3>2, <4>1, AnswerKeepsJobs
    <3> QED
      BY <1>1, <3>1, <3>2 DEF DatabaseFault
  <2>2. pass' \in Pass /\ faults' \in 0..MaxFaults
    BY <1>1, BoundsAssumption DEF DatabaseFault, TypeOK, Pass, Phases, NoPass
  <2> QED
    BY <1>1, <2>1, <2>2 DEF DatabaseFault, TypeOK, Pass, Phases
<1>2. CASE FinderFault
  BY <1>2, BoundsAssumption DEF FinderFault, NoPass, TypeOK, JobShape
<1>3. CASE Crash
  BY <1>3, IdleIsJob, BoundsAssumption DEF Crash, NoPass, Idle, TypeOK, JobShape
<1>4. ASSUME NEW r \in Id, WindowSlides(r)
      PROVE  TypeInv'
  <2>1. req' \in [Id -> Request]
    BY <1>4, RowFlags DEF WindowSlides
  <2> QED
    BY <1>4, <2>1 DEF WindowSlides, TypeOK, JobShape, observations
<1> QED
  BY <1>1, <1>2, <1>3, <1>4 DEF Environment

LEMMA StutterTypeInv == TypeInv /\ UNCHANGED vars => TypeInv'
  BY DEF TypeInv, TypeOK, JobShape, vars

\* Every variable keeps its type, for every value of the constants; checked on
\* the finite instances by the RequestLifecycle runs.
THEOREM TypeCorrect == Spec => []TypeOK
<1>1. Init => TypeInv
  BY InitTypeInv
<1>2. TypeInv /\ [Next]_vars => TypeInv'
  BY HandlerTypeInv, HandoffTypeInv, PollerTypeInv, EnvironmentTypeInv, StutterTypeInv DEF Next
<1>3. TypeInv => TypeOK
  BY DEF TypeInv
<1> QED
  BY <1>1, <1>2, <1>3, PTL DEF Spec

-------------------------------------------------------------------------------
(* The safety argument.  RowEdge names what a step may do to a row of the     *)
(* table; every action of Next is shown to follow an edge, and each safety    *)
(* property is then a fact about edges, whichever process held the row.       *)

\* A write to an existing row keeps its requester and book, and never brings it
\* back into the quota window.
SameBook(old, new) == /\ new.user = old.user /\ new.asin = old.asin
                      /\ new.inWindow => old.inWindow

\* An insertion, a claimed transition, or a column that carries no status.
InsertEdge(old, new) ==
  /\ old.status = "absent" /\ new.status \in {"pending", "approved"}
  /\ ~new.linked /\ ~new.notified
  /\ new.status = "pending" => new.decidedBy = None
  /\ new.user \in User /\ new.asin \in Asin
  /\ Duplicates(new.user, new.asin) = {}

DecisionEdge(old, new) ==
  /\ SameBook(old, new) /\ new.notified = old.notified
  /\ old.status = "pending" /\ new.status \in {"approved", "denied"}
  /\ new.linked = old.linked

LinkEdge(old, new) ==
  /\ SameBook(old, new) /\ new.notified = old.notified /\ new.decidedBy = old.decidedBy
  /\ old.status \in {"approved", "acquiring"} /\ new.status \in {"acquiring", "available"}
  /\ old.status = "acquiring" => new.linked = old.linked /\ new.status = "available"
  /\ old.status = "approved" => new.linked

FailEdge(old, new) ==
  /\ SameBook(old, new) /\ new.notified = old.notified /\ new.decidedBy = old.decidedBy
  /\ old.status \in {"approved", "acquiring"} /\ new.status = "failed"

FlagEdge(old, new) ==
  /\ SameBook(old, new) /\ new.decidedBy = old.decidedBy
  /\ new.status = old.status /\ new.linked = old.linked
  /\ old.notified => new.notified
  /\ new.notified => old.notified \/ old.status = "available"

RowEdge(old, new) == \/ InsertEdge(old, new)
                     \/ DecisionEdge(old, new)
                     \/ LinkEdge(old, new)
                     \/ FailEdge(old, new)
                     \/ FlagEdge(old, new)

RowStep == \/ UNCHANGED req
           \/ \E r \in Id, x \in Request : req' = [req EXCEPT ![r] = x] /\ RowEdge(req[r], x)

-------------------------------------------------------------------------------
\* The poller's notification jobs only ever hold available rows.
NotifyInv ==
  /\ \A p \in Proc : job[p].at \in {"send", "settle"} => req[job[p].row].status = "available"
  /\ pass.phase = "sweep" => \A r \in pass.batch : req[r].status = "available"

Typed == TypeInv /\ NotifyInv

LEMMA JobRow ==
  ASSUME TypeInv, NEW p \in Proc, job[p].at \notin CreateLabel \cup {"idle"}
  PROVE  job[p].row \in Id /\ req[job[p].row] \in Request /\ job[p] \in Job
  BY DEF TypeInv, TypeOK, JobShape

LEMMA InsertRow ==
  ASSUME TypeInv, NEW h \in Handler, InsertRequest(h)
  PROVE  RowStep
<1> DEFINE u == job[h].user
           a == job[h].asin
           auto == u \in AutoApprove
           x == [AbsentRow EXCEPT !.user = u, !.asin = a, !.inWindow = TRUE,
                                  !.status = IF auto THEN "approved" ELSE "pending",
                                  !.decidedBy = IF auto THEN u ELSE None]
<1>1. u \in User /\ a \in Asin
  BY PollerIsProc DEF InsertRequest, TypeInv, JobShape
<1>2. CASE UNCHANGED req
  BY <1>2 DEF RowStep
<1>3. ASSUME NEW r \in Id, ~UniqueViolation(u, a), NewRow(r), req' = [req EXCEPT ![r] = x]
      PROVE  RowStep
  <2>1. x \in Request
    BY <1>1 DEF Request, AbsentRow
  <2>2. InsertEdge(req[r], x)
    BY <1>1, <1>3 DEF InsertEdge, AbsentRow, UniqueViolation, NewRow
  <2> HIDE DEF x
  <2> QED
    BY <1>3, <2>1, <2>2 DEF RowStep, RowEdge
<1> QED
  BY <1>2, <1>3 DEF InsertRequest

LEMMA DecisionRow ==
  ASSUME TypeInv, NEW h \in Handler, ClaimDecision(h)
  PROVE  RowStep
<1> DEFINE r == job[h].row
           st == IF job[h].verdict = "approve" THEN "approved" ELSE "denied"
           x == [req[r] EXCEPT !.status = st, !.decidedBy = job[h].by]
<1>1. r \in Id /\ req[r] \in Request /\ job[h] \in Job
  BY JobRow, PollerIsProc DEF ClaimDecision
<1>2. CASE UNCHANGED req
  BY <1>2 DEF RowStep
<1>3. CASE req[r].status = "pending" /\ req' = [req EXCEPT ![r] = x]
  <2>1. job[h].by \in User \cup Admin \cup {None} /\ st \in {"approved", "denied"}
    BY <1>1 DEF Job
  <2> HIDE DEF st
  <2>2. x \in Request
    BY <1>1, <2>1 DEF Request
  <2>3. DecisionEdge(req[r], x)
    BY <1>1, <1>3, <2>1 DEF DecisionEdge, SameBook, Request
  <2> HIDE DEF x
  <2> QED
    BY <1>1, <1>3, <2>2, <2>3 DEF RowStep, RowEdge
<1> QED
  BY <1>2, <1>3 DEF ClaimDecision, Claims

LEMMA LinkRow ==
  ASSUME TypeInv, NEW p \in Proc, LinkBook(p)
  PROVE  RowStep
<1> DEFINE r == job[p].row
           st == MapBookStatus(job[p].reply)
           x == [req[r] EXCEPT !.status = st, !.linked = TRUE]
<1>1. r \in Id /\ req[r] \in Request /\ job[p].seen = "approved" /\ st \in {"acquiring", "available"}
  BY JobRow DEF LinkBook, TypeInv, JobShape, MapBookStatus
<1>2. CASE UNCHANGED req
  BY <1>2 DEF RowStep
<1>3. CASE req[r].status = "approved" /\ req' = [req EXCEPT ![r] = x]
  <2> HIDE DEF st
  <2>1. x \in Request /\ LinkEdge(req[r], x)
    BY <1>1, <1>3 DEF LinkEdge, SameBook, Request
  <2> HIDE DEF x
  <2> QED
    BY <1>1, <1>3, <2>1 DEF RowStep, RowEdge
<1> QED
  BY <1>1, <1>2, <1>3 DEF LinkBook, Claims

LEMMA FailRow ==
  ASSUME TypeInv, NEW p \in Proc, TransitionToFailed(p)
  PROVE  RowStep
<1> DEFINE r == job[p].row
           x == FailedRow(req[r], job[p].reply)
<1>1. r \in Id /\ req[r] \in Request /\ job[p].seen \in {"approved", "acquiring"}
  BY JobRow DEF TransitionToFailed, TypeInv, JobShape
<1>2. CASE UNCHANGED req
  BY <1>2 DEF RowStep
<1>3. CASE req[r].status = job[p].seen /\ req' = [req EXCEPT ![r] = x]
  <2>1. x \in Request /\ FailEdge(req[r], x)
    BY <1>1, <1>3 DEF FailEdge, SameBook, Request, FailedRow
  <2> HIDE DEF x
  <2> QED
    BY <1>1, <1>3, <2>1 DEF RowStep, RowEdge
<1> QED
  BY <1>1, <1>2, <1>3 DEF TransitionToFailed, Claims

LEMMA ApplyRow ==
  ASSUME TypeInv, ApplyBook(Poller)
  PROVE  RowStep
<1> DEFINE r == job[Poller].row
           x == [req[r] EXCEPT !.status = MapBookStatus(job[Poller].reply)]
<1>1. /\ r \in Id /\ req[r] \in Request /\ job[Poller].seen = "acquiring"
      /\ MapBookStatus(job[Poller].reply) = "available"
  BY JobRow, PollerIsProc DEF ApplyBook, TypeInv, JobShape, MapBookStatus
<1>2. CASE UNCHANGED req
  BY <1>2 DEF RowStep
<1>3. CASE req[r].status = "acquiring" /\ req' = [req EXCEPT ![r] = x]
  <2>1. x \in Request /\ LinkEdge(req[r], x)
    BY <1>1, <1>3 DEF LinkEdge, SameBook, Request
  <2> HIDE DEF x
  <2> QED
    BY <1>1, <1>3, <2>1 DEF RowStep, RowEdge
<1> QED
  BY <1>1, <1>2, <1>3 DEF ApplyBook, Claims

LEMMA SettleRow ==
  ASSUME Typed, SettleAvailableNotified(Poller)
  PROVE  RowStep
<1> DEFINE r == job[Poller].row
           x == [req[r] EXCEPT !.notified = TRUE]
<1>1. r \in Id /\ req[r] \in Request /\ req[r].status = "available"
  BY JobRow, PollerIsProc DEF SettleAvailableNotified, Typed, NotifyInv
<1>2. x \in Request /\ FlagEdge(req[r], x)
  BY <1>1 DEF FlagEdge, SameBook, Request
<1>3. req' = [req EXCEPT ![r] = x]
  BY DEF SettleAvailableNotified
<1> HIDE DEF x
<1> QED
  BY <1>1, <1>2, <1>3 DEF RowStep, RowEdge

LEMMA WindowRow ==
  ASSUME TypeInv, NEW r \in Id, WindowSlides(r)
  PROVE  RowStep
<1> DEFINE x == [req[r] EXCEPT !.inWindow = FALSE]
<1>1. req[r] \in Request
  BY DEF TypeInv, TypeOK
<1>2. x \in Request /\ FlagEdge(req[r], x)
  BY <1>1 DEF FlagEdge, SameBook, Request
<1>3. req' = [req EXCEPT ![r] = x]
  BY DEF WindowSlides
<1> HIDE DEF x
<1> QED
  BY <1>2, <1>3 DEF RowStep, RowEdge

\* Every step of the program follows an edge on at most one row.
LEMMA EveryStepIsRowStep ==
  ASSUME Typed, [Next]_vars
  PROVE  RowStep
<1> USE DEF Typed
<1>1. ASSUME NEW h \in Handler, HandlerStep(h)
      PROVE  RowStep
  BY <1>1, InsertRow, DecisionRow
     DEF HandlerStep, CreateStart, FindActiveDuplicate, EnforceQuota, DecideStart, RowStep
<1>2. ASSUME NEW p \in Proc, HandoffStep(p)
      PROVE  RowStep
  BY <1>2, LinkRow, FailRow DEF HandoffStep, AddBook, EmitFailed, RowStep
<1>3. CASE PollerStep
  BY <1>3, ApplyRow, SettleRow
     DEF PollerStep, PollStart, RecoverNext, PollNext, NotifyNext, FindAcquiring, GetBook,
         FindOwed, SendAvailable, PollEnd, RowStep
<1>4. CASE Environment
  BY <1>4, WindowRow DEF Environment, DatabaseFault, FinderFault, Crash, RowStep
<1>5. CASE UNCHANGED vars
  BY <1>5 DEF vars, RowStep
<1> QED
  BY <1>1, <1>2, <1>3, <1>4, <1>5 DEF Next

\* What edges preserve: a settled status and a decision stand.
LEMMA SettledRowsStand ==
  ASSUME Typed, RowStep, NEW r \in Id
  PROVE  req[r].status \in Final => req'[r].status = req[r].status
  BY DEF RowStep, RowEdge, InsertEdge, DecisionEdge, LinkEdge, FailEdge, FlagEdge,
         Typed, TypeInv, TypeOK

-------------------------------------------------------------------------------
(* The inductive invariant over rows                                        *)

\* Rows before a decision carry none; the book id and the status agree.
RowInv ==
  \A r \in Id : /\ req[r].status \in {"absent", "pending"} => req[r].decidedBy = None
                /\ req[r].status \in {"pending", "approved"} => ~req[r].linked
                /\ req[r].status = "acquiring" => req[r].linked
                /\ req[r].notified => req[r].status = "available"

TableInv == RowInv /\ OneActivePerBook

LEMMA InitTableInv == Init => TableInv
  BY DEF Init, TableInv, RowInv, OneActivePerBook, AbsentRow

LEMMA StepRowInv ==
  ASSUME Typed, RowInv, RowStep
  PROVE  RowInv'
<1>1. CASE UNCHANGED req
  BY <1>1 DEF RowInv
<1>2. ASSUME NEW r \in Id, NEW x \in Request, req' = [req EXCEPT ![r] = x], RowEdge(req[r], x)
      PROVE  RowInv'
  <2>1. req' \in [Id -> Request] /\ req'[r] = x /\ \A q \in Id \ {r} : req'[q] = req[q]
    BY <1>2 DEF Typed, TypeInv, TypeOK
  <2>2. /\ x.status \in {"absent", "pending"} => x.decidedBy = None
        /\ x.status \in {"pending", "approved"} => ~x.linked
        /\ x.status = "acquiring" => x.linked
        /\ x.notified => x.status = "available"
    BY <1>2 DEF RowInv, RowEdge, InsertEdge, DecisionEdge, LinkEdge, FailEdge, FlagEdge
  <2> QED
    BY <2>1, <2>2 DEF RowInv
<1> QED
  BY <1>1, <1>2 DEF RowStep

\* Only an insertion makes a row active, and the unique index refused it unless
\* the pair had no active row.
LEMMA StepOneActive ==
  ASSUME Typed, OneActivePerBook, RowStep
  PROVE  OneActivePerBook'
<1>1. CASE UNCHANGED req
  BY <1>1 DEF OneActivePerBook
<1>2. ASSUME NEW r \in Id, NEW x \in Request, req' = [req EXCEPT ![r] = x], RowEdge(req[r], x)
      PROVE  OneActivePerBook'
  <2>1. req'[r] = x /\ \A q \in Id \ {r} : req'[q] = req[q]
    BY <1>2 DEF Typed, TypeInv, TypeOK
  <2>2. \/ x.status \notin Active
        \/ SameBook(req[r], x) /\ req[r].status \in Active
        \/ Duplicates(x.user, x.asin) = {}
    BY <1>2 DEF RowEdge, InsertEdge, DecisionEdge, LinkEdge, FailEdge, FlagEdge
  <2>3. ASSUME NEW q \in Id, q # r, req[q].user = x.user, req[q].asin = x.asin,
               req[q].status \in Active, x.status \in Active
        PROVE  FALSE
    <3>1. CASE SameBook(req[r], x) /\ req[r].status \in Active
      BY <2>3, <3>1 DEF OneActivePerBook, SameBook
    <3>2. CASE Duplicates(x.user, x.asin) = {}
      BY <2>3, <3>2 DEF Duplicates
    <3> QED
      BY <2>2, <2>3, <3>1, <3>2
  <2> QED
    BY <2>1, <2>3 DEF OneActivePerBook
<1> QED
  BY <1>1, <1>2 DEF RowStep

-------------------------------------------------------------------------------
(* Notification duties: who is about to emit, send or settle, and for which  *)
(* row.  Few actions hand out a duty; all the others only drop them.         *)

Duty == {"emit", "send", "settle"}

NoNewDuty == \A p \in Proc : job'[p].at \in Duty =>
                               job'[p].at = job[p].at /\ job'[p].row = job[p].row

PassOnlyShrinks == pass'.phase = "sweep" => pass.phase = "sweep" /\ pass'.batch \subseteq pass.batch

LEMMA JobWithoutDuty ==
  ASSUME TypeInv, NEW p \in Proc, NEW j \in Job, job' = [job EXCEPT ![p] = j], j.at \notin Duty
  PROVE  NoNewDuty
  BY DEF NoNewDuty, TypeInv, TypeOK

LEMMA DoneHasNoDuty ==
  ASSUME TypeInv, NEW p \in Proc, Done(p)
  PROVE  NoNewDuty
  BY JobWithoutDuty, IdleIsJob DEF Done, Idle, Duty

LEMMA GotoHasNoDuty ==
  ASSUME TypeInv, NEW p \in Proc, NEW l \in Label \ Duty, Goto(p, l)
  PROVE  NoNewDuty
<1>1. job[p] \in Job
  BY DEF TypeInv, TypeOK
<1>2. [job[p] EXCEPT !.at = l] \in Job /\ [job[p] EXCEPT !.at = l].at = l
  BY <1>1 DEF Job
<1> QED
  BY <1>2, JobWithoutDuty DEF Goto

LEMMA OnRowIsJob ==
  ASSUME NEW l \in Label, NEW r \in Id, NEW st \in {"approved", "acquiring", None}
  PROVE  OnRow(l, r, st) \in Job /\ OnRow(l, r, st).at = l /\ OnRow(l, r, st).row = r
<1>1. r \in 0..MaxRows
  BY BoundsAssumption DEF Id
<1>2. st \in {"approved", "acquiring", None}
  OBVIOUS
<1> HIDE DEF Label, CreateLabel
<1> QED
  BY <1>1, <1>2, IdleIsJob DEF OnRow, Job

LEMMA HandoffHasNoDuty ==
  ASSUME TypeInv, NEW p \in Proc, NEW r \in Id, BeginHandoff(p, r)
  PROVE  NoNewDuty
<1> DEFINE j == OnRow("handoff", r, "approved")
<1>1. "handoff" \in Label /\ "approved" \in {"approved", "acquiring", None}
  OBVIOUS
<1>2. j \in Job /\ j.at = "handoff"
  BY <1>1, OnRowIsJob
<1>3. job' = [job EXCEPT ![p] = j]
  BY DEF BeginHandoff
<1> HIDE DEF j
<1> QED
  BY <1>2, <1>3, JobWithoutDuty DEF Duty

LEMMA AnswerHasNoDuty ==
  ASSUME TypeInv, NEW p \in Proc, NEW l \in {"fail", "link", "apply"},
         NEW reply \in HandoffReply \cup PollReply, Answered(p, l, reply)
  PROVE  NoNewDuty
<1> DEFINE j == [job[p] EXCEPT !.at = l, !.reply = reply]
<1>1. job[p] \in Job
  BY DEF TypeInv, TypeOK
<1>2. j \in Job /\ j.at = l
  <2>1. l \in Label /\ reply \in HandoffReply \cup PollReply \cup {None}
    OBVIOUS
  <2> HIDE DEF Label, CreateLabel, HandoffReply, PollReply, BookStatus
  <2> QED
    BY <1>1, <2>1 DEF Job
<1>3. job' = [job EXCEPT ![p] = j]
  BY DEF Answered
<1> HIDE DEF j
<1> QED
  BY <1>2, <1>3, JobWithoutDuty DEF Duty

\* Handlers hand out no duty, and leave the poller's pass alone.
LEMMA HandlerHasNoDuty ==
  ASSUME TypeInv, NEW h \in Handler, HandlerStep(h)
  PROVE  NoNewDuty /\ UNCHANGED <<pass, emitted, delivered, faults>>
<1>0. h \in Proc
  BY PollerIsProc
<1>a. UNCHANGED <<pass, emitted, delivered, faults>>
  BY DEF HandlerStep, CreateStart, FindActiveDuplicate, EnforceQuota, InsertRequest,
         DecideStart, ClaimDecision, observations
<1>b. SUFFICES NoNewDuty
  BY <1>a
<1>1. ASSUME NEW u \in User, NEW a \in Asin, CreateStart(h, u, a)
      PROVE  NoNewDuty
  <2> DEFINE j == [Idle EXCEPT !.at = "dedupe", !.user = u, !.asin = a]
  <2>1. j \in Job /\ j.at = "dedupe"
    BY IdleIsJob DEF Job
  <2>2. job' = [job EXCEPT ![h] = j]
    BY <1>1 DEF CreateStart
  <2> HIDE DEF j
  <2> QED
    BY <1>0, <2>1, <2>2, JobWithoutDuty DEF Duty
<1>2. CASE FindActiveDuplicate(h) \/ EnforceQuota(h)
  BY <1>0, <1>2, DoneHasNoDuty, GotoHasNoDuty DEF FindActiveDuplicate, EnforceQuota, Duty
<1>3. CASE InsertRequest(h)
  BY <1>0, <1>3, DoneHasNoDuty, HandoffHasNoDuty DEF InsertRequest
<1>4. ASSUME NEW admin \in Admin, NEW r \in Id, NEW v \in {"approve", "deny"},
             DecideStart(h, admin, r, v)
      PROVE  NoNewDuty
  <2> DEFINE j == [Idle EXCEPT !.at = "claim", !.row = r, !.by = admin, !.verdict = v]
  <2>0. r \in 0..MaxRows
    BY BoundsAssumption DEF Id
  <2>1. j \in Job /\ j.at = "claim"
    BY <2>0, IdleIsJob DEF Job
  <2>2. job' = [job EXCEPT ![h] = j]
    BY <1>4 DEF DecideStart
  <2> HIDE DEF j
  <2> QED
    BY <1>0, <2>1, <2>2, JobWithoutDuty DEF Duty
<1>5. CASE ClaimDecision(h)
  <2>1. job[h].row \in Id
    BY <1>0, <1>5, JobRow DEF ClaimDecision
  <2> QED
    BY <1>0, <1>5, <2>1, DoneHasNoDuty, HandoffHasNoDuty DEF ClaimDecision
<1> QED
  BY <1>1, <1>2, <1>3, <1>4, <1>5 DEF HandlerStep

\* The steps of a handoff and of the poller that hand out no duty.
LEMMA QuietHandoff ==
  ASSUME TypeInv, NEW p \in Proc,
         (\E reply \in HandoffReply : AddBook(p, reply)) \/ LinkBook(p)
  PROVE  NoNewDuty /\ UNCHANGED <<pass, emitted, delivered>>
<1>1. ASSUME NEW reply \in HandoffReply, AddBook(p, reply)
      PROVE  NoNewDuty
  <2>1. CASE Done(p)
    BY <2>1, DoneHasNoDuty
  <2>2. ASSUME NEW l \in {"fail", "link"}, Answered(p, l, reply)
        PROVE  NoNewDuty
    BY <2>2, AnswerHasNoDuty
  <2> QED
    BY <1>1, <2>1, <2>2 DEF AddBook
<1>2. CASE LinkBook(p)
  BY <1>2, DoneHasNoDuty DEF LinkBook, observations
<1> QED
  BY <1>1, <1>2 DEF AddBook, LinkBook, observations

QuietPollerStep == \/ PollStart
                   \/ \E r \in Id : RecoverNext(r) \/ PollNext(r)
                   \/ FindAcquiring
                   \/ \E reply \in PollReply : GetBook(Poller, reply)
                   \/ ApplyBook(Poller)
                   \/ SettleAvailableNotified(Poller)
                   \/ PollEnd

LEMMA QuietPoller ==
  ASSUME TypeInv, QuietPollerStep
  PROVE  NoNewDuty /\ PassOnlyShrinks /\ UNCHANGED <<emitted, delivered>>
<1> USE PollerIsProc
<1>1. CASE PollStart \/ FindAcquiring
  BY <1>1 DEF PollStart, FindAcquiring, StartPass, NoNewDuty, PassOnlyShrinks, observations
<1>2. ASSUME NEW r \in Id, RecoverNext(r)
      PROVE  NoNewDuty /\ PassOnlyShrinks /\ UNCHANGED <<emitted, delivered>>
  <2>1. NoNewDuty
    BY <1>2, HandoffHasNoDuty DEF RecoverNext
  <2> QED
    BY <1>2, <2>1 DEF RecoverNext, PollerFree, TakeNext, PassOnlyShrinks, observations, TypeInv, TypeOK
<1>3. ASSUME NEW r \in Id, PollNext(r)
      PROVE  NoNewDuty /\ PassOnlyShrinks /\ UNCHANGED <<emitted, delivered>>
  <2> DEFINE j == OnRow("poll", r, "acquiring")
  <2>0. "poll" \in Label /\ "acquiring" \in {"approved", "acquiring", None}
    OBVIOUS
  <2>1. j \in Job /\ j.at = "poll"
    BY <2>0, OnRowIsJob
  <2>2. job' = [job EXCEPT ![Poller] = j]
    BY <1>3 DEF PollNext
  <2> HIDE DEF j
  <2>3. NoNewDuty
    BY <2>1, <2>2, JobWithoutDuty DEF Duty
  <2> QED
    BY <1>3, <2>3 DEF PollNext, PollerFree, TakeNext, PassOnlyShrinks, observations, TypeInv, TypeOK
<1>4. ASSUME NEW reply \in PollReply, GetBook(Poller, reply)
      PROVE  NoNewDuty /\ PassOnlyShrinks /\ UNCHANGED <<emitted, delivered>>
  <2>1. CASE Done(Poller)
    BY <1>4, <2>1, DoneHasNoDuty DEF GetBook, PassOnlyShrinks, observations
  <2>2. ASSUME NEW l \in {"fail", "apply"}, Answered(Poller, l, reply)
        PROVE  NoNewDuty
    BY <2>2, AnswerHasNoDuty
  <2> QED
    BY <1>4, <2>1, <2>2 DEF GetBook, PassOnlyShrinks, observations
<1>5. CASE ApplyBook(Poller) \/ SettleAvailableNotified(Poller)
  BY <1>5, DoneHasNoDuty DEF ApplyBook, SettleAvailableNotified, PassOnlyShrinks, observations
<1>6. CASE PollEnd
  BY <1>6 DEF PollEnd, NoPass, NoNewDuty, PassOnlyShrinks, observations
<1> QED
  BY <1>1, <1>2, <1>3, <1>4, <1>5, <1>6 DEF QuietPollerStep

LEMMA QuietEnvironment ==
  ASSUME TypeInv, Environment
  PROVE  NoNewDuty /\ PassOnlyShrinks /\ UNCHANGED <<emitted, delivered>>
<1>1. ASSUME NEW p \in Proc, DatabaseFault(p)
      PROVE  NoNewDuty /\ PassOnlyShrinks /\ UNCHANGED <<emitted, delivered>>
  <2>1. CASE Done(p)
    BY <1>1, <2>1, DoneHasNoDuty DEF DatabaseFault, PassOnlyShrinks, NoPass
  <2>2. CASE Answered(p, "fail", "terminal")
    <3>1. "fail" \in {"fail", "link", "apply"} /\ "terminal" \in HandoffReply \cup PollReply
      OBVIOUS
    <3>2. NoNewDuty
      BY <2>2, <3>1, AnswerHasNoDuty
    <3> QED
      BY <1>1, <3>2 DEF DatabaseFault, PassOnlyShrinks, NoPass
  <2> QED
    BY <1>1, <2>1, <2>2 DEF DatabaseFault
<1>2. CASE FinderFault
  BY <1>2 DEF FinderFault, NoPass, NoNewDuty, PassOnlyShrinks
<1>3. CASE Crash
  BY <1>3 DEF Crash, NoPass, Idle, NoNewDuty, PassOnlyShrinks, Duty
<1>4. ASSUME NEW r \in Id, WindowSlides(r)
      PROVE  NoNewDuty /\ PassOnlyShrinks /\ UNCHANGED <<emitted, delivered>>
  BY <1>4 DEF WindowSlides, NoNewDuty, PassOnlyShrinks, observations
<1> QED
  BY <1>1, <1>2, <1>3, <1>4 DEF Environment

\* Everything but the four steps that hand out a duty, discharge one or start a sweep.
Quiet == NoNewDuty /\ PassOnlyShrinks /\ UNCHANGED <<emitted, delivered>>

LEMMA StepsAreQuietOr ==
  ASSUME TypeInv, [Next]_vars
  PROVE  \/ Quiet
         \/ \E p \in Proc : TransitionToFailed(p) \/ EmitFailed(p)
         \/ \E r \in Id : NotifyNext(r)
         \/ \E o \in SendOutcome : SendAvailable(Poller, o)
         \/ FindOwed
<1>1. ASSUME NEW h \in Handler, HandlerStep(h)
      PROVE  Quiet
  BY <1>1, HandlerHasNoDuty DEF Quiet, PassOnlyShrinks
<1>2. ASSUME NEW p \in Proc, (\E reply \in HandoffReply : AddBook(p, reply)) \/ LinkBook(p)
      PROVE  Quiet
  BY <1>2, QuietHandoff DEF Quiet, PassOnlyShrinks
<1>3. CASE QuietPollerStep
  BY <1>3, QuietPoller DEF Quiet
<1>4. CASE Environment
  BY <1>4, QuietEnvironment DEF Quiet
<1>5. CASE UNCHANGED vars
  BY <1>5 DEF Quiet, vars, NoNewDuty, PassOnlyShrinks
<1> QED
  BY <1>1, <1>2, <1>3, <1>4, <1>5 DEF Next, HandoffStep, PollerStep, QuietPollerStep

-------------------------------------------------------------------------------
\* Exactly the failed rows nobody emitted for may have one process about to emit.
EmitInv ==
  /\ \A r \in Id : emitted[r] \in {0, 1} /\ (emitted[r] = 1 => req[r].status = "failed")
  /\ \A p \in Proc : job[p].at = "emit" =>
       req[job[p].row].status = "failed" /\ emitted[job[p].row] = 0
  /\ \A p, q \in Proc : job[p].at = "emit" /\ job[q].at = "emit" /\ job[p].row = job[q].row => p = q

DeliveredInv == \A r \in Id : delivered[r] > 0 => req[r].status = "available"

DutyInv == NotifyInv /\ EmitInv /\ DeliveredInv

LEMMA InitDutyInv == Init => DutyInv
  BY DEF Init, DutyInv, NotifyInv, EmitInv, DeliveredInv, Idle, NoPass

\* failed and available are Final, so no step takes a row out of them.
LEMMA FinalRowsStand ==
  ASSUME Typed, [Next]_vars
  PROVE  \A r \in Id : req[r].status \in Final => req'[r].status = req[r].status
  BY EveryStepIsRowStep, SettledRowsStand

LEMMA QuietKeepsDuties ==
  ASSUME Typed, DutyInv, [Next]_vars, Quiet
  PROVE  DutyInv'
<1>1. \A p \in Proc : job[p].at \in Duty => job[p].row \in Id
  BY DEF Duty, Typed, TypeInv, JobShape
<1>2. pass.batch \subseteq Id
  BY DEF Typed, TypeInv, TypeOK
<1> QED
  BY <1>1, <1>2, FinalRowsStand
     DEF DutyInv, NotifyInv, EmitInv, DeliveredInv, Quiet, NoNewDuty, PassOnlyShrinks, Duty

LEMMA FailKeepsDuties ==
  ASSUME Typed, DutyInv, [Next]_vars, NEW p \in Proc, TransitionToFailed(p)
  PROVE  DutyInv'
<1> DEFINE r == job[p].row
<1>1. r \in Id /\ req[r] \in Request /\ job[p] \in Job /\ job[p].seen \in {"approved", "acquiring"}
  BY JobRow DEF TransitionToFailed, Typed, TypeInv, JobShape
<1>2. pass' = pass /\ emitted' = emitted /\ delivered' = delivered
  BY DEF TransitionToFailed, observations
<1>3. CASE Done(p)
  BY <1>2, <1>3, DoneHasNoDuty, QuietKeepsDuties DEF Quiet, PassOnlyShrinks, Typed
<1>4. CASE req[r].status = job[p].seen /\ Goto(p, "emit") /\ req' = [req EXCEPT ![r] = FailedRow(@, job[p].reply)]
  <2>1. req'[r].status = "failed"
    BY <1>1, <1>4 DEF FailedRow, Typed, TypeInv, TypeOK, Request
  <2>2. /\ job'[p].at = "emit" /\ job'[p].row = r
        /\ \A q \in Proc \ {p} : job'[q] = job[q]
    BY <1>1, <1>4 DEF Goto, Typed, TypeInv, TypeOK, Job
  <2>3. emitted[r] = 0 /\ \A q \in Proc : job[q].at = "emit" => job[q].row # r
    BY <1>1, <1>4 DEF DutyInv, EmitInv
  <2>4. \A q \in Proc : job[q].at \in Duty => job[q].row \in Id
    BY DEF Duty, Typed, TypeInv, JobShape
  <2>5. pass.batch \subseteq Id
    BY DEF Typed, TypeInv, TypeOK
  <2> HIDE DEF r
  <2> QED
    BY <1>1, <1>2, <2>1, <2>2, <2>3, <2>4, <2>5, FinalRowsStand
       DEF DutyInv, NotifyInv, EmitInv, DeliveredInv, Duty
<1> QED
  BY <1>3, <1>4 DEF TransitionToFailed, Claims

LEMMA EmitKeepsDuties ==
  ASSUME Typed, DutyInv, NEW p \in Proc, EmitFailed(p)
  PROVE  DutyInv'
<1> DEFINE r == job[p].row
<1>1. r \in Id /\ req[r].status = "failed" /\ emitted[r] = 0
  BY JobRow DEF EmitFailed, Typed, DutyInv, EmitInv
<1>2. emitted' = [emitted EXCEPT ![r] = 1] /\ UNCHANGED <<req, pass, delivered>>
  BY <1>1 DEF EmitFailed
<1>3. NoNewDuty /\ job'[p].at = "idle"
  BY DoneHasNoDuty DEF EmitFailed, Done, Idle, Typed, TypeInv, TypeOK
<1>4. \A q \in Proc : job'[q].at = "emit" => q # p /\ job[q].at = "emit" /\ job'[q].row = job[q].row
                                             /\ job[q].row # r
  BY <1>3 DEF NoNewDuty, Duty, EmitFailed, DutyInv, EmitInv
<1> HIDE DEF r
<1> QED
  BY <1>1, <1>2, <1>3, <1>4
     DEF DutyInv, NotifyInv, EmitInv, DeliveredInv, NoNewDuty, Duty, Typed, TypeInv, TypeOK

LEMMA NotifyKeepsDuties ==
  ASSUME Typed, DutyInv, NEW r \in Id, NotifyNext(r)
  PROVE  DutyInv'
<1> DEFINE l == IF r \in pass.wants THEN "send" ELSE "settle"
<1>1. l \in {"send", "settle"} /\ l \in Label
  OBVIOUS
<1>2. job' = [job EXCEPT ![Poller] = OnRow(l, r, None)]
  BY DEF NotifyNext
<1>3. OnRow(l, r, None).at = l /\ OnRow(l, r, None).row = r
  <2> HIDE DEF l
  <2> QED
    BY <1>1, OnRowIsJob
<1> HIDE DEF l
<1>4. req[r].status = "available"
  BY DEF NotifyNext, PollerFree, TakeNext, DutyInv, NotifyInv
<1>5. pass'.phase = pass.phase /\ pass'.batch \subseteq pass.batch /\ UNCHANGED <<req, emitted, delivered>>
  BY DEF NotifyNext, TakeNext, observations, Typed, TypeInv, TypeOK
<1>6. /\ job'[Poller].at = l /\ job'[Poller].row = r
      /\ \A q \in Proc \ {Poller} : job'[q] = job[q]
  BY <1>2, <1>3, PollerIsProc DEF Typed, TypeInv, TypeOK
<1> QED
  BY <1>1, <1>4, <1>5, <1>6 DEF DutyInv, NotifyInv, EmitInv, DeliveredInv

LEMMA SendKeepsDuties ==
  ASSUME Typed, DutyInv, [Next]_vars,
         NEW o \in SendOutcome, SendAvailable(Poller, o)
  PROVE  DutyInv'
<1> DEFINE r == job[Poller].row
<1>1. r \in Id /\ req[r].status = "available" /\ job[Poller] \in Job
  BY JobRow, PollerIsProc DEF SendAvailable, Typed, DutyInv, NotifyInv
<1>2. UNCHANGED <<req, pass, emitted>>
  BY DEF SendAvailable
<1>3. CASE SendEndsQuietly
  BY <1>2, <1>3, DoneHasNoDuty, PollerIsProc, QuietKeepsDuties
     DEF SendEndsQuietly, Quiet, PassOnlyShrinks, Typed
<1>4. /\ delivered \in [Id -> Nat] /\ \A q \in Id : delivered[q] > 0 => req[q].status = "available"
  BY DEF DutyInv, DeliveredInv, Typed, TypeInv, TypeOK
<1>5. EmailCounted => DeliveredInv'
  BY <1>1, <1>2, <1>4 DEF EmailCounted, DeliveredInv
<1>6. CASE AnswerIsLost
  <2>1. \A q \in Proc : job'[q] = job[q] \/ job'[q] = Idle
    BY <1>6 DEF AnswerIsLost, Done, Typed, TypeInv, TypeOK
  <2> QED
    BY <1>1, <1>2, <1>5, <1>6, <2>1 DEF AnswerIsLost, DutyInv, NotifyInv, EmitInv, Idle
<1>7. CASE SendSucceeds
  <2>1. /\ job'[Poller].at = "settle" /\ job'[Poller].row = r
        /\ \A q \in Proc \ {Poller} : job'[q] = job[q]
    BY <1>1, <1>7, PollerIsProc DEF SendSucceeds, Goto, Typed, TypeInv, TypeOK, Job
  <2> HIDE DEF r
  <2> QED
    BY <1>1, <1>2, <1>5, <1>7, <2>1
       DEF SendSucceeds, DutyInv, NotifyInv, EmitInv, Typed, TypeInv, TypeOK
<1> QED
  BY <1>3, <1>6, <1>7, SendsEnd DEF Typed

LEMMA OwedKeepsDuties ==
  ASSUME Typed, DutyInv, FindOwed
  PROVE  DutyInv'
<1>1. \A r \in pass'.batch : req[r].status = "available"
  BY DEF FindOwed, OldestBatch, AvailableAwaitingNotify
<1> QED
  BY <1>1 DEF FindOwed, observations, DutyInv, NotifyInv, EmitInv, DeliveredInv

LEMMA StepDutyInv ==
  ASSUME Typed, DutyInv, [Next]_vars
  PROVE  DutyInv'
  BY StepsAreQuietOr, QuietKeepsDuties, FailKeepsDuties, EmitKeepsDuties, NotifyKeepsDuties,
     SendKeepsDuties, OwedKeepsDuties DEF Typed

-------------------------------------------------------------------------------
(* The inductive invariant and what follows from it                         *)

SafetyInv == TypeInv /\ TableInv /\ DutyInv

LEMMA Safety == Spec => []SafetyInv
<1>1. Init => SafetyInv
  BY InitTypeInv, InitTableInv, InitDutyInv DEF SafetyInv
<1>2. ASSUME SafetyInv, [Next]_vars
      PROVE  SafetyInv'
  <2>1. Typed
    BY <1>2 DEF SafetyInv, DutyInv, Typed
  <2>2. TypeInv'
    BY <1>2, HandlerTypeInv, HandoffTypeInv, PollerTypeInv, EnvironmentTypeInv, StutterTypeInv
       DEF Next, SafetyInv
  <2>3. TableInv'
    BY <1>2, <2>1, EveryStepIsRowStep, StepRowInv, StepOneActive DEF SafetyInv, TableInv
  <2>4. DutyInv'
    BY <1>2, <2>1, StepDutyInv DEF SafetyInv
  <2> QED
    BY <2>2, <2>3, <2>4 DEF SafetyInv
<1> QED
  BY <1>1, <1>2, PTL DEF Spec

\* No two rows of one (user, asin) pair are ever active together, for any number
\* of concurrent creates.
THEOREM UniqueActive == Spec => []OneActivePerBook
<1>1. SafetyInv => OneActivePerBook
  BY DEF SafetyInv, TableInv
<1> QED
  BY <1>1, Safety, PTL

\* The poller's two finders never miss a row in flight.
THEOREM NoOrphans == Spec => []InFlightRowsAreFound
<1>1. SafetyInv => InFlightRowsAreFound
  BY DEF SafetyInv, TableInv, RowInv, InFlightRowsAreFound, ApprovedAwaitingHandoff, Acquiring
<1> QED
  BY <1>1, Safety, PTL

\* request.failed is emitted at most once per row, and only for failed rows.
THEOREM SingleEmission == Spec => []EmittedAtMostOnce
<1>1. ASSUME SafetyInv, NEW r \in Id
      PROVE  /\ emitted[r] + Cardinality(Emitting(r)) <= 1
             /\ emitted[r] > 0 \/ Emitting(r) # {} => req[r].status = "failed"
  <2>1. emitted[r] \in {0, 1}
    BY <1>1 DEF SafetyInv, DutyInv, EmitInv
  <2>2. CASE Emitting(r) = {}
    <3>1. Cardinality(Emitting(r)) = 0
      BY <2>2, FS_EmptySet
    <3> QED
      BY <1>1, <2>1, <2>2, <3>1 DEF SafetyInv, DutyInv, EmitInv
  <2>3. ASSUME NEW p \in Emitting(r)
        PROVE  /\ Cardinality(Emitting(r)) = 1 /\ emitted[r] = 0
               /\ req[r].status = "failed"
    <3>1. Emitting(r) = {p}
      BY <1>1 DEF Emitting, SafetyInv, DutyInv, EmitInv
    <3>2. Cardinality({p}) = 1
      BY FS_Singleton
    <3> QED
      BY <1>1, <3>1, <3>2 DEF Emitting, SafetyInv, DutyInv, EmitInv
  <2> QED
    BY <2>1, <2>2, <2>3
<1>2. SafetyInv => EmittedAtMostOnce
  BY <1>1 DEF EmittedAtMostOnce
<1> QED
  BY <1>2, Safety, PTL

\* A settled status and a decision are never overwritten, whatever snapshot a
\* late handler or poller step holds.
THEOREM SettledRowsNeverChange == Spec => SettledStands
<1> DEFINE A == \A r \in Id :
                  /\ req[r].status \in Final => req'[r].status = req[r].status
                  /\ req[r].decidedBy # None => req'[r].decidedBy = req[r].decidedBy
<1>1. ASSUME SafetyInv, [Next]_vars
      PROVE  A
  <2>1. Typed /\ RowInv
    BY <1>1 DEF SafetyInv, TableInv, DutyInv, Typed
  <2>2. RowStep
    BY <1>1, <2>1, EveryStepIsRowStep
  <2>3. ASSUME NEW r \in Id
        PROVE  req[r].decidedBy # None => req'[r].decidedBy = req[r].decidedBy
    <3>1. CASE UNCHANGED req
      BY <3>1
    <3>2. ASSUME NEW q \in Id, NEW x \in Request, req' = [req EXCEPT ![q] = x], RowEdge(req[q], x)
          PROVE  req[r].decidedBy # None => req'[r].decidedBy = req[r].decidedBy
      <4>1. CASE q # r
        BY <2>1, <3>2, <4>1 DEF Typed, TypeInv, TypeOK
      <4>2. CASE q = r
        <5>1. req'[r] = x
          BY <2>1, <3>2, <4>2 DEF Typed, TypeInv, TypeOK
        <5>2. req[r].decidedBy = None \/ x.decidedBy = req[r].decidedBy
          BY <2>1, <3>2, <4>2
             DEF RowInv, RowEdge, InsertEdge, DecisionEdge, LinkEdge, FailEdge, FlagEdge
        <5> QED
          BY <5>1, <5>2
      <4> QED
        BY <4>1, <4>2
    <3> QED
      BY <2>2, <3>1, <3>2 DEF RowStep
  <2> QED
    BY <2>1, <2>2, <2>3, SettledRowsStand
<1>2. SafetyInv /\ [Next]_vars => [A]_vars
  BY <1>1
<1> QED
  BY <1>2, Safety, PTL DEF SettledStands, Spec

-------------------------------------------------------------------------------
(* RequestLifecycle implements RequestPromise: every step of a handler, of    *)
(* the poller or of the environment is a step of the promise or a stutter.    *)

Stage == [r \in Id |-> req[r].status]
PairOf == [r \in Id |-> <<req[r].user, req[r].asin>>]
Marked == [r \in Id |-> req[r].notified]

LEMMA InitMapsToInit == Init => Promise!Init
  BY DEF Init, Promise!Init, AbsentRow

\* emitFailed is the promise's Announce.
LEMMA EmitIsAnnounce ==
  ASSUME SafetyInv, NEW p \in Proc, EmitFailed(p)
  PROVE  Promise!Next
<1> DEFINE r == job[p].row
<1>1. r \in Id /\ req[r].status = "failed" /\ emitted[r] = 0
  BY JobRow DEF EmitFailed, SafetyInv, DutyInv, EmitInv
<1>2. emitted' = [emitted EXCEPT ![r] = 1] /\ req' = req
  BY <1>1 DEF EmitFailed
<1> HIDE DEF r
<1>3. Promise!Announce(r)
  BY <1>1, <1>2 DEF Promise!Announce
<1> QED
  BY <1>1, <1>3 DEF Promise!Next

\* Only emitFailed counts an emission.
LEMMA OnlyEmitEmits ==
  ASSUME TypeInv, [Next]_vars
  PROVE  emitted' = emitted \/ \E p \in Proc : EmitFailed(p)
<1>1. ASSUME NEW p \in Proc, TransitionToFailed(p)
      PROVE  emitted' = emitted
  BY <1>1 DEF TransitionToFailed, observations
<1>2. ASSUME NEW r \in Id, NotifyNext(r)
      PROVE  emitted' = emitted
  BY <1>2 DEF NotifyNext, observations
<1>3. ASSUME NEW o \in SendOutcome, SendAvailable(Poller, o)
      PROVE  emitted' = emitted
  BY <1>3 DEF SendAvailable
<1>4. CASE FindOwed
  BY <1>4 DEF FindOwed, observations
<1> QED
  BY StepsAreQuietOr, <1>1, <1>2, <1>3, <1>4 DEF Quiet

\* How the mapped variables change when one row does.
LEMMA RowMaps ==
  ASSUME TypeInv, NEW r \in Id, NEW x \in Request, req' = [req EXCEPT ![r] = x]
  PROVE  /\ Stage' = [Stage EXCEPT ![r] = x.status]
         /\ PairOf' = [PairOf EXCEPT ![r] = <<x.user, x.asin>>]
         /\ Marked' = [Marked EXCEPT ![r] = x.notified]
         /\ Stage[r] = req[r].status /\ PairOf[r] = <<req[r].user, req[r].asin>>
         /\ Marked[r] = req[r].notified
  BY DEF TypeInv, TypeOK, Stage, PairOf, Marked

\* A row edge that changes nothing the promise sees of a column.
LEMMA SameStage ==
  ASSUME TypeInv, NEW r \in Id, NEW x \in Request, req' = [req EXCEPT ![r] = x],
         x.status = req[r].status
  PROVE  Stage' = Stage
<1>1. \A q \in Id : req'[q].status = req[q].status
  BY DEF TypeInv, TypeOK
<1> QED
  BY <1>1 DEF Stage

LEMMA SamePair ==
  ASSUME TypeInv, NEW r \in Id, NEW x \in Request, req' = [req EXCEPT ![r] = x],
         SameBook(req[r], x)
  PROVE  PairOf' = PairOf
<1>1. \A q \in Id : req'[q].user = req[q].user /\ req'[q].asin = req[q].asin
  BY DEF TypeInv, TypeOK, SameBook
<1> QED
  BY <1>1 DEF PairOf

LEMMA SameMark ==
  ASSUME TypeInv, NEW r \in Id, NEW x \in Request, req' = [req EXCEPT ![r] = x],
         x.notified = req[r].notified
  PROVE  Marked' = Marked
<1>1. \A q \in Id : req'[q].notified = req[q].notified
  BY DEF TypeInv, TypeOK
<1> QED
  BY <1>1 DEF Marked

\* A claimed transition is the promise's Move.
LEMMA ClaimIsMove ==
  ASSUME TypeInv, UNCHANGED emitted, NEW r \in Id, NEW x \in Request,
         req' = [req EXCEPT ![r] = x], SameBook(req[r], x), x.notified = req[r].notified,
         NEW from, req[r].status \in from
  PROVE  Promise!Move(r, from, x.status)
<1>1. PairOf' = PairOf /\ Marked' = Marked
  BY SamePair, SameMark
<1>2. Stage' = [Stage EXCEPT ![r] = x.status] /\ Stage[r] = req[r].status
  BY RowMaps
<1> QED
  BY <1>1, <1>2 DEF Promise!Move, Stage, PairOf, Marked

LEMMA EdgeIsPromiseStep ==
  ASSUME SafetyInv, UNCHANGED emitted, NEW r \in Id, NEW x \in Request,
         req' = [req EXCEPT ![r] = x], RowEdge(req[r], x)
  PROVE  [Promise!Next]_(Promise!vars)
<1>1. TypeInv /\ RowInv /\ req[r] \in Request
  BY DEF SafetyInv, TableInv, TypeInv, TypeOK
<1> USE <1>1
<1>2. CASE InsertEdge(req[r], x)
  <2> DEFINE k == <<x.user, x.asin>>
  <2>1. k \in User \X Asin
    BY <1>2 DEF InsertEdge
  <2>2. ~req[r].notified /\ ~x.notified /\ x.notified = req[r].notified
    BY <1>2 DEF InsertEdge, RowInv, Request
  <2>3. Marked' = Marked
    BY <2>2, SameMark
  <2>4. \A q \in Id : PairOf[q] = k => Stage[q] \notin Active
    BY <1>2 DEF InsertEdge, Duplicates, PairOf, Stage
  <2>5. Promise!Submit(r, k)
    BY <1>2, <2>3, <2>4, RowMaps
       DEF InsertEdge, Promise!Submit, Promise!Free, Promise!ActiveStage, Stage, PairOf, Marked
  <2> QED
    BY <2>1, <2>5 DEF Promise!Next
<1>4. CASE DecisionEdge(req[r], x)
  <2>1. Promise!Decide(r)
    BY <1>4, ClaimIsMove DEF DecisionEdge, Promise!Decide
  <2> QED
    BY <2>1 DEF Promise!Next
<1>5. CASE LinkEdge(req[r], x)
  <2>0. x.status = "acquiring" => req[r].status \in {"approved"}
    BY <1>5 DEF LinkEdge
  <2>1. CASE x.status = "acquiring"
    <3>1. Promise!Start(r)
      BY <1>5, <2>1, ClaimIsMove, <2>0 DEF LinkEdge, Promise!Start
    <3> QED
      BY <3>1 DEF Promise!Next
  <2>2. CASE x.status = "available"
    <3>1. Promise!Settle(r)
      BY <1>5, <2>2, ClaimIsMove DEF LinkEdge, Promise!Settle
    <3> QED
      BY <3>1 DEF Promise!Next
  <2> QED
    BY <1>5, <2>1, <2>2 DEF LinkEdge
<1>6. CASE FailEdge(req[r], x)
  <2>1. Promise!Settle(r)
    BY <1>6, ClaimIsMove DEF FailEdge, Promise!Settle
  <2> QED
    BY <2>1 DEF Promise!Next
<1>7. CASE FlagEdge(req[r], x)
  <2>1. Stage' = Stage /\ PairOf' = PairOf
    BY <1>7, SameStage, SamePair DEF FlagEdge
  <2>2. CASE x.notified = req[r].notified
    <3>1. Marked' = Marked
      BY <2>2, SameMark
    <3> QED
      BY <2>1, <3>1 DEF Promise!vars, Stage, PairOf, Marked
  <2>3. CASE x.notified # req[r].notified
    <3>1. ~req[r].notified /\ x.notified = TRUE /\ req[r].status = "available"
      BY <1>7, <2>3 DEF FlagEdge, Request
    <3>2. Promise!Mark(r)
      BY <2>1, <3>1, RowMaps DEF Promise!Mark, Stage, PairOf, Marked
    <3> QED
      BY <3>2 DEF Promise!Next
  <2> QED
    BY <2>2, <2>3
<1> QED
  BY <1>2, <1>4, <1>5, <1>6, <1>7 DEF RowEdge

\* The request service, its concurrent handlers and its poller keep the promise.
THEOREM Refinement == Spec => ImplementsPromise
<1>1. ASSUME SafetyInv, [Next]_vars
      PROVE  [Promise!Next]_(Promise!vars)
  <2>1. Typed
    BY <1>1 DEF SafetyInv, DutyInv, Typed
  <2>2. CASE \E p \in Proc : EmitFailed(p)
    BY <1>1, <2>2, EmitIsAnnounce
  <2>3. CASE emitted' = emitted
    <3>1. CASE UNCHANGED req
      BY <2>3, <3>1 DEF Promise!vars
    <3> QED
      BY <1>1, <2>1, <2>3, <3>1, EveryStepIsRowStep, EdgeIsPromiseStep DEF RowStep
  <2> QED
    BY <1>1, <2>1, <2>2, <2>3, OnlyEmitEmits DEF Typed
<1> QED
  BY <1>1, InitMapsToInit, Safety, PTL DEF Spec, ImplementsPromise, Promise!Spec

-------------------------------------------------------------------------------
(* How often one requester is emailed.                                      *)

Notifying == job[Poller].at \in {"send", "settle"}

\* What a step may do while the poller is busy with an email.
PollerStands == /\ job'[Poller] = job[Poller] /\ delivered' = delivered
                /\ pass' \in {pass, NoPass} /\ faults' >= faults
PollerFalls == /\ job'[Poller] = Idle /\ delivered' = delivered
               /\ pass' \in {pass, NoPass} /\ faults' = faults + 1

LEMMA FaultsAreNat == TypeInv => faults \in Nat /\ MaxFaults \in Nat
  BY BoundsAssumption DEF TypeInv, TypeOK

LEMMA OtherJobStands ==
  ASSUME TypeInv, NEW p \in Proc \ {Poller}, NEW j, job' = [job EXCEPT ![p] = j]
  PROVE  job'[Poller] = job[Poller]
  BY PollerIsProc DEF TypeInv, TypeOK

LEMMA WhileNotifying ==
  ASSUME TypeInv, [Next]_vars, Notifying
  PROVE  \/ PollerStands \/ PollerFalls
         \/ \E o \in SendOutcome : SendAvailable(Poller, o)
         \/ SettleAvailableNotified(Poller)
<1> USE FaultsAreNat, PollerIsProc DEF Notifying, observations
<1>0. \A h \in Handler : h \in Proc \ {Poller}
  BY PollerAssumption
<1>1. ASSUME NEW h \in Handler, HandlerStep(h)
      PROVE  PollerStands
  <2>1. \E j : job' = [job EXCEPT ![h] = j]
    BY <1>1 DEF HandlerStep, CreateStart, FindActiveDuplicate, EnforceQuota, InsertRequest,
         DecideStart, ClaimDecision, Done, Goto, BeginHandoff
  <2>2. job'[Poller] = job[Poller]
    BY <1>0, <2>1, OtherJobStands
  <2> QED
    BY <1>1, <2>2, HandlerHasNoDuty DEF PollerStands
<1>2. ASSUME NEW p \in Proc, HandoffStep(p)
      PROVE  PollerStands
  <2>1. p # Poller
    BY <1>2 DEF HandoffStep, AddBook, LinkBook, TransitionToFailed, EmitFailed
  <2>2. \E j : job' = [job EXCEPT ![p] = j]
    BY <1>2 DEF HandoffStep, AddBook, LinkBook, TransitionToFailed, EmitFailed, Done, Goto, Answered
  <2>3. job'[Poller] = job[Poller]
    BY <2>1, <2>2, OtherJobStands
  <2> QED
    BY <1>2, <2>3 DEF PollerStands, HandoffStep, AddBook, LinkBook, TransitionToFailed, EmitFailed
<1>3. CASE PollerStep
  BY <1>3 DEF PollerStep, PollStart, RecoverNext, PollNext, NotifyNext, FindAcquiring, GetBook,
              ApplyBook, FindOwed, PollEnd, PollerFree
<1>4. ASSUME NEW p \in Proc, DatabaseFault(p)
      PROVE  PollerStands \/ PollerFalls
  <2>1. \E j : job' = [job EXCEPT ![p] = j]
    BY <1>4 DEF DatabaseFault, Done, Answered
  <2>2. CASE p # Poller
    BY <1>4, <2>1, <2>2, OtherJobStands DEF DatabaseFault, PollerStands
  <2>3. CASE p = Poller
    BY <1>4, <2>3 DEF DatabaseFault, PollerFalls, Done, TypeInv, TypeOK
  <2> QED
    BY <2>2, <2>3
<1>5. CASE FinderFault
  BY <1>5 DEF FinderFault
<1>6. CASE Crash
  BY <1>6 DEF Crash, PollerFalls
<1>7. ASSUME NEW r \in Id, WindowSlides(r)
      PROVE  PollerStands
  BY <1>7 DEF WindowSlides, PollerStands
<1>8. CASE UNCHANGED vars
  BY <1>8 DEF vars, PollerStands
<1> QED
  BY <1>1, <1>2, <1>3, <1>4, <1>5, <1>6, <1>7, <1>8 DEF Next, Environment

\* A write that replaces one row by one with the same marker, or none.
LEMMA UnmarkedWrite ==
  ASSUME TypeInv, NEW q \in Id, NEW x \in Request, req' = [req EXCEPT ![q] = x],
         ~x.notified \/ x.notified = req[q].notified,
         NEW r \in Id, ~req[r].notified
  PROVE  ~req'[r].notified
  BY DEF TypeInv, TypeOK

\* The marker is written by settleAvailableNotified alone.
LEMMA OnlySettleMarks ==
  ASSUME TypeInv, [Next]_vars, NEW r \in Id, req'[r].notified, ~req[r].notified
  PROVE  SettleAvailableNotified(Poller) /\ r = job[Poller].row
<1> USE DEF TypeInv
<1>0. \A q \in Id : req[q] \in Request
  BY DEF TypeOK
<1>1. ASSUME NEW h \in Handler, HandlerStep(h)
      PROVE  FALSE
  <2>0. h \in Proc
    BY PollerIsProc
  <2>1. CASE InsertRequest(h)
    <3> DEFINE u == job[h].user
               a == job[h].asin
               x == [AbsentRow EXCEPT !.user = u, !.asin = a, !.inWindow = TRUE,
                                      !.status = IF u \in AutoApprove THEN "approved" ELSE "pending",
                                      !.decidedBy = IF u \in AutoApprove THEN u ELSE None]
    <3>1. u \in User /\ a \in Asin
      BY <2>0, <2>1 DEF InsertRequest, JobShape
    <3>2. x \in Request /\ ~x.notified
      BY <3>1 DEF Request, AbsentRow
    <3>3. PICK q \in Id : req' = [req EXCEPT ![q] = x]
      BY <2>1 DEF InsertRequest
    <3> HIDE DEF x
    <3> QED
      BY <3>2, <3>3, UnmarkedWrite
  <2>2. CASE ClaimDecision(h)
    <3> DEFINE q == job[h].row
               st == IF job[h].verdict = "approve" THEN "approved" ELSE "denied"
               x == [req[q] EXCEPT !.status = st, !.decidedBy = job[h].by]
    <3>0. q \in Id /\ job[h] \in Job
      BY <2>0, <2>2, JobRow DEF ClaimDecision
    <3>1. req[q] \in Request /\ st \in {"approved", "denied"} /\ job[h].by \in User \cup Admin \cup {None}
      BY <1>0, <3>0 DEF Job
    <3> HIDE DEF st
    <3>2. x \in Request /\ x.notified = req[q].notified
      BY <3>1 DEF Request
    <3>3. req' = [req EXCEPT ![q] = x]
      BY <2>2 DEF ClaimDecision, st
    <3> HIDE DEF x
    <3> QED
      BY <3>0, <3>2, <3>3, UnmarkedWrite
  <2> QED
    BY <1>1, <2>1, <2>2 DEF HandlerStep, CreateStart, FindActiveDuplicate, EnforceQuota, DecideStart
<1>2. ASSUME NEW p \in Proc, HandoffStep(p)
      PROVE  FALSE
  <2>1. CASE LinkBook(p)
    <3> DEFINE q == job[p].row
               st == MapBookStatus(job[p].reply)
               x == [req[q] EXCEPT !.status = st, !.linked = TRUE]
    <3>1. q \in Id /\ st \in {"acquiring", "available"}
      BY <2>1, JobRow DEF LinkBook, JobShape, MapBookStatus
    <3> HIDE DEF st
    <3>2. x \in Request /\ x.notified = req[q].notified
      BY <1>0, <3>1 DEF Request
    <3>3. req' = [req EXCEPT ![q] = x]
      BY <2>1 DEF LinkBook, st
    <3> HIDE DEF x
    <3> QED
      BY <3>1, <3>2, <3>3, UnmarkedWrite
  <2>2. CASE TransitionToFailed(p)
    <3> DEFINE q == job[p].row
               x == FailedRow(req[q], job[p].reply)
    <3>1. q \in Id /\ req[q] \in Request
      BY <1>0, <2>2, JobRow DEF TransitionToFailed
    <3>2. x \in Request /\ x.notified = req[q].notified
      BY <3>1 DEF Request, FailedRow
    <3>3. req' = [req EXCEPT ![q] = x]
      BY <2>2 DEF TransitionToFailed
    <3> HIDE DEF x
    <3> QED
      BY <3>1, <3>2, <3>3, UnmarkedWrite
  <2> QED
    BY <1>2, <2>1, <2>2 DEF HandoffStep, AddBook, EmitFailed, observations
<1>3. ASSUME PollerStep
      PROVE  SettleAvailableNotified(Poller) /\ r = job[Poller].row
  <2>1. CASE ApplyBook(Poller)
    <3> DEFINE q == job[Poller].row
               st == MapBookStatus(job[Poller].reply)
               x == [req[q] EXCEPT !.status = st]
    <3>1. q \in Id /\ st \in {"acquiring", "available"}
      BY <2>1, JobRow, PollerIsProc DEF ApplyBook, JobShape, MapBookStatus
    <3> HIDE DEF st
    <3>2. x \in Request /\ x.notified = req[q].notified
      BY <1>0, <3>1 DEF Request
    <3>3. req' = [req EXCEPT ![q] = x]
      BY <2>1 DEF ApplyBook, st
    <3> HIDE DEF x
    <3> QED
      BY <3>1, <3>2, <3>3, UnmarkedWrite
  <2>2. CASE SettleAvailableNotified(Poller)
    BY <2>2 DEF SettleAvailableNotified, TypeOK
  <2> QED
    BY <1>3, <2>1, <2>2
       DEF PollerStep, PollStart, RecoverNext, PollNext, NotifyNext, FindAcquiring, GetBook,
           FindOwed, SendAvailable, PollEnd
<1>4. ASSUME Environment
      PROVE  FALSE
  <2>1. ASSUME NEW q \in Id, WindowSlides(q)
        PROVE  FALSE
    <3> DEFINE x == [req[q] EXCEPT !.inWindow = FALSE]
    <3>1. x \in Request /\ x.notified = req[q].notified
      BY <1>0 DEF Request
    <3>2. req' = [req EXCEPT ![q] = x]
      BY <2>1 DEF WindowSlides
    <3> HIDE DEF x
    <3> QED
      BY <3>1, <3>2, UnmarkedWrite
  <2> QED
    BY <1>4, <2>1 DEF Environment, DatabaseFault, FinderFault, Crash
<1>5. ASSUME UNCHANGED vars
      PROVE  FALSE
  BY <1>5 DEF vars
<1> QED
  BY <1>1, <1>2, <1>3, <1>4, <1>5 DEF Next

\* An email of row r was handed over, or found not owed, and its marker is next.
Settling(r) == job[Poller].at = "settle" /\ job[Poller].row = r

\* Emails beyond the first are paid for with faults.
DeliverInv ==
  /\ \A r \in Id : /\ delivered[r] <= faults + 1
                   /\ ~req[r].notified /\ ~Settling(r) => delivered[r] <= faults
  /\ job[Poller].at = "send" => ~req[job[Poller].row].notified
  /\ pass.phase = "sweep" => \A r \in pass.batch : ~req[r].notified
  /\ pass.phase = "sweep" /\ Notifying => job[Poller].row \notin pass.batch
  /\ job[Poller].at = "settle" /\ job[Poller].row \in pass.wants => delivered[job[Poller].row] > 0

LEMMA InitDeliverInv == Init => DeliverInv
  BY PollerIsProc DEF Init, DeliverInv, AbsentRow, NoPass, Idle, Settling, Notifying

LEMMA SettleKeepsDeliveries ==
  ASSUME TypeInv, DeliverInv, [Next]_vars, SettleAvailableNotified(Poller)
  PROVE  DeliverInv'
<1> DEFINE r == job[Poller].row
<1>1. r \in Id /\ Notifying /\ job[Poller].at = "settle"
  BY JobRow, PollerIsProc DEF SettleAvailableNotified, Notifying
<1>2. UNCHANGED <<pass, delivered, faults>>
  BY DEF SettleAvailableNotified, observations
<1>3. req'[r].notified /\ \A q \in Id \ {r} : req'[q] = req[q]
  BY <1>1 DEF SettleAvailableNotified, TypeInv, TypeOK, Request
<1>4. job'[Poller].at = "idle"
  BY PollerIsProc DEF SettleAvailableNotified, Done, Idle, TypeInv, TypeOK
<1>5. pass.batch \subseteq Id
  BY DEF TypeInv, TypeOK
<1> HIDE DEF r
<1> QED
  BY <1>1, <1>2, <1>3, <1>4, <1>5 DEF DeliverInv, Settling, Notifying, r

\* What is left of the invariant while the poller is not at an email.
LEMMA AwayFromEmail ==
  ASSUME \A r \in Id : /\ delivered'[r] <= faults' + 1
                       /\ ~req'[r].notified /\ ~Settling(r)' => delivered'[r] <= faults',
         pass'.phase = "sweep" => \A r \in pass'.batch : ~req'[r].notified,
         ~Notifying'
  PROVE  DeliverInv'
<1>1. job'[Poller].at # "send" /\ job'[Poller].at # "settle"
  BY DEF Notifying
<1> QED
  BY <1>1, Zenon DEF DeliverInv

LEMMA SendKeepsDeliveries ==
  ASSUME TypeInv, DeliverInv, NEW o \in SendOutcome, SendAvailable(Poller, o)
  PROVE  DeliverInv'
<1> DEFINE r == job[Poller].row
<1>1. r \in Id /\ Notifying /\ job[Poller].at = "send" /\ job[Poller] \in Job
  BY JobRow, PollerIsProc DEF SendAvailable, Notifying
<1>2. UNCHANGED <<pass, req>>
  BY DEF SendAvailable
<1>3. faults \in Nat /\ delivered \in [Id -> Nat]
  BY FaultsAreNat DEF TypeInv, TypeOK
<1>4. \A q \in Id : delivered[q] <= faults + 1 /\ (~req[q].notified => delivered[q] <= faults)
  BY <1>1 DEF DeliverInv, Settling
<1>5. ~req[r].notified
  BY <1>1 DEF DeliverInv
<1>6. CASE SendEndsQuietly
  <2>1. job'[Poller].at = "idle"
    BY <1>6, PollerIsProc DEF SendEndsQuietly, Done, Idle, TypeInv, TypeOK
  <2> QED
    BY <1>1, <1>2, <1>6, <2>1 DEF SendEndsQuietly, DeliverInv, Settling, Notifying
<1>7. EmailCounted => /\ delivered'[r] = delivered[r] + 1
                      /\ \A q \in Id \ {r} : delivered'[q] = delivered[q]
  BY <1>1, <1>3 DEF EmailCounted
<1>8. CASE AnswerIsLost
  <2>1. ~Notifying'
    BY <1>8, PollerIsProc DEF AnswerIsLost, Done, Idle, Notifying, TypeInv, TypeOK
  <2>2. pass'.phase = "sweep" => \A q \in pass'.batch : ~req'[q].notified
    BY <1>2 DEF DeliverInv
  <2> HIDE DEF r
  <2>3. \A q \in Id : delivered'[q] <= faults'
    BY <1>1, <1>3, <1>4, <1>5, <1>7, <1>8 DEF AnswerIsLost
  <2>4. \A q \in Id : delivered'[q] \in Nat
    BY <1>1, <1>3, <1>7, <1>8 DEF AnswerIsLost
  <2>5. \A q \in Id : /\ delivered'[q] <= faults' + 1
                      /\ ~req'[q].notified /\ ~Settling(q)' => delivered'[q] <= faults'
    BY <1>3, <1>8, <2>3, <2>4 DEF AnswerIsLost
  <2> QED
    BY <2>1, <2>2, <2>5, AwayFromEmail
<1>9. CASE SendSucceeds
  <2>1. job'[Poller].at = "settle" /\ job'[Poller].row = r
    BY <1>1, <1>9, PollerIsProc DEF SendSucceeds, Goto, TypeInv, TypeOK, Job
  <2> HIDE DEF r
  <2>2. delivered'[r] <= faults + 1 /\ delivered'[r] > 0
    BY <1>1, <1>3, <1>4, <1>5, <1>7, <1>9 DEF SendSucceeds
  <2>3. ASSUME NEW q \in Id
        PROVE  /\ delivered'[q] <= faults' + 1
               /\ ~req'[q].notified /\ ~Settling(q)' => delivered'[q] <= faults'
    <3>1. CASE q = r
      BY <1>9, <2>1, <2>2, <3>1 DEF Settling, SendSucceeds
    <3>2. CASE q # r
      BY <1>2, <1>4, <1>7, <1>9, <3>2 DEF SendSucceeds
    <3> QED
      BY <3>1, <3>2
  <2> QED
    BY <1>1, <1>2, <2>1, <2>2, <2>3 DEF DeliverInv, Notifying, r
<1> QED
  BY <1>6, <1>8, <1>9, SendsEnd

\* A marker is never taken away.
LEMMA MarksStay ==
  ASSUME SafetyInv, [Next]_vars, NEW r \in Id, req[r].notified
  PROVE  req'[r].notified
<1>1. Typed /\ RowInv
  BY DEF SafetyInv, TableInv, DutyInv, Typed
<1>2. RowStep
  BY <1>1, EveryStepIsRowStep
<1>3. ASSUME NEW q \in Id, NEW x \in Request, req' = [req EXCEPT ![q] = x], RowEdge(req[q], x)
      PROVE  req'[r].notified
  <2>1. CASE q # r
    BY <1>1, <1>3, <2>1 DEF Typed, TypeInv, TypeOK
  <2>2. CASE q = r
    <3>1. req'[r] = x /\ req[r].status = "available"
      BY <1>1, <1>3, <2>2 DEF Typed, TypeInv, TypeOK, RowInv
    <3>2. FlagEdge(req[r], x)
      BY <1>3, <2>2, <3>1 DEF RowEdge, InsertEdge, DecisionEdge, LinkEdge, FailEdge
    <3> QED
      BY <3>1, <3>2 DEF FlagEdge
  <2> QED
    BY <2>1, <2>2
<1> QED
  BY <1>2, <1>3 DEF RowStep

NoNewMark == \A r \in Id : req'[r].notified <=> req[r].notified

LEMMA MarksStand ==
  ASSUME SafetyInv, [Next]_vars, ~SettleAvailableNotified(Poller)
  PROVE  NoNewMark
  BY OnlySettleMarks, MarksStay DEF NoNewMark, SafetyInv

\* While an email is out, anything else that happens leaves it alone or is a fault.
LEMMA OthersKeepDeliveries ==
  ASSUME TypeInv, DeliverInv, NoNewMark, Notifying, faults' \in Nat, PollerStands \/ PollerFalls
  PROVE  DeliverInv'
<1>1. faults \in Nat /\ delivered \in [Id -> Nat] /\ pass.batch \subseteq Id
  BY FaultsAreNat DEF TypeInv, TypeOK
<1>2. job[Poller].row \in Id
  BY JobRow, PollerIsProc DEF Notifying
<1>3. CASE PollerStands
  <2>1. \A r \in Id : Settling(r)' <=> Settling(r)
    BY <1>3 DEF Settling, PollerStands
  <2>2. faults' >= faults /\ faults' \in Nat
    BY <1>3 DEF PollerStands
  <2>3. \A r \in Id : /\ delivered'[r] <= faults' + 1
                      /\ ~req'[r].notified /\ ~Settling(r)' => delivered'[r] <= faults'
    BY <1>1, <1>3, <2>1, <2>2 DEF PollerStands, DeliverInv, NoNewMark
  <2> QED
    BY <1>1, <1>2, <1>3, <2>3 DEF PollerStands, DeliverInv, NoNewMark, Notifying, NoPass
<1>4. CASE PollerFalls
  <2>1. \A r \in Id : delivered'[r] <= faults'
    BY <1>1, <1>4 DEF PollerFalls, DeliverInv
  <2>2. ~Notifying'
    BY <1>4 DEF PollerFalls, Idle, Notifying
  <2>3. pass'.phase = "sweep" => \A r \in pass'.batch : ~req'[r].notified
    <3>1. pass' = pass \/ pass' = NoPass
      BY <1>4 DEF PollerFalls
    <3> QED
      BY <1>1, <3>1 DEF DeliverInv, NoNewMark, NoPass
  <2>4. \A r \in Id : /\ delivered'[r] <= faults' + 1
                      /\ ~req'[r].notified /\ ~Settling(r)' => delivered'[r] <= faults'
    BY <1>1, <1>4, <2>1 DEF PollerFalls
  <2> QED
    BY <2>2, <2>3, <2>4, AwayFromEmail
<1> QED
  BY <1>3, <1>4

\* The poller is not at an email, and this step does not bring it to one.
LEMMA IdleKeepsDeliveries ==
  ASSUME TypeInv, DeliverInv, NoNewMark, ~Notifying, ~Notifying', faults' \in Nat, faults' >= faults,
         delivered' = delivered, pass'.phase = "sweep" => \A r \in pass'.batch : r \in Id /\ ~req[r].notified
  PROVE  DeliverInv'
<1>1. faults \in Nat /\ delivered \in [Id -> Nat]
  BY FaultsAreNat DEF TypeInv, TypeOK
<1>2. \A r \in Id : ~Settling(r) /\ ~Settling(r)'
  BY DEF Settling, Notifying
<1>3. \A r \in Id : /\ delivered'[r] <= faults' + 1
                    /\ ~req'[r].notified /\ ~Settling(r)' => delivered'[r] <= faults'
  BY <1>1, <1>2 DEF DeliverInv, NoNewMark
<1>4. pass'.phase = "sweep" => \A r \in pass'.batch : ~req'[r].notified
  BY DEF NoNewMark
<1>5. ~Notifying'
  OBVIOUS
<1> QED
  BY <1>3, <1>4, <1>5, AwayFromEmail

\* notifyOneAvailable takes an unmarked row out of the batch.
LEMMA NotifyKeepsDeliveries ==
  ASSUME TypeInv, DeliverInv, NEW r \in Id, NotifyNext(r)
  PROVE  DeliverInv'
<1> DEFINE l == IF r \in pass.wants THEN "send" ELSE "settle"
<1>1. l \in {"send", "settle"} /\ l \in Label
  OBVIOUS
<1>2. job' = [job EXCEPT ![Poller] = OnRow(l, r, None)]
  BY DEF NotifyNext
<1>3. OnRow(l, r, None).at = l /\ OnRow(l, r, None).row = r
  <2> HIDE DEF l
  <2> QED
    BY <1>1, OnRowIsJob
<1>4. job'[Poller].at = l /\ job'[Poller].row = r
  BY <1>2, <1>3, PollerIsProc DEF TypeInv, TypeOK
<1>5. l = "settle" <=> r \notin pass.wants
  OBVIOUS
<1> HIDE DEF l
<1>6. /\ pass.phase = "sweep" /\ job[Poller].at = "idle" /\ r \in pass.batch
      /\ pass'.phase = "sweep" /\ pass'.batch = pass.batch \ {r} /\ pass'.wants = pass.wants
      /\ UNCHANGED <<req, delivered, faults>>
  BY DEF NotifyNext, PollerFree, TakeNext, TypeInv, TypeOK, observations
<1>7. ~req[r].notified
  BY <1>6 DEF DeliverInv
<1>8. \A q \in Id : /\ delivered'[q] <= faults' + 1
                    /\ ~req'[q].notified /\ ~Settling(q)' => delivered'[q] <= faults'
  BY <1>6 DEF DeliverInv, Settling
<1> QED
  BY <1>1, <1>4, <1>5, <1>6, <1>7, <1>8 DEF DeliverInv, Notifying

LEMMA OwedKeepsDeliveries ==
  ASSUME TypeInv, DeliverInv, FindOwed
  PROVE  DeliverInv'
<1>1. /\ job[Poller].at = "idle" /\ UNCHANGED <<req, job, delivered, faults>>
      /\ \A r \in pass'.batch : r \in Id /\ ~req[r].notified
  BY DEF FindOwed, PollerFree, OldestBatch, AvailableAwaitingNotify, observations
<1> QED
  BY <1>1, IdleKeepsDeliveries, FaultsAreNat DEF Notifying, NoNewMark

\* Faults are only ever added.
LEMMA FaultsGrow ==
  ASSUME TypeInv, [Next]_vars
  PROVE  faults' >= faults /\ faults' \in Nat
<1> USE FaultsAreNat
<1>1. ASSUME NEW h \in Handler, HandlerStep(h)
      PROVE  faults' = faults
  BY <1>1, HandlerHasNoDuty
<1>2. ASSUME NEW p \in Proc, HandoffStep(p)
      PROVE  faults' = faults
  BY <1>2 DEF HandoffStep, AddBook, LinkBook, TransitionToFailed, EmitFailed, observations
<1>3. CASE PollerStep
  <2>1. ASSUME NEW o \in SendOutcome, SendAvailable(Poller, o)
        PROVE  faults' = faults \/ faults' = faults + 1
    BY <2>1 DEF SendAvailable, RelayTakes
  <2> QED
    BY <1>3, <2>1
       DEF PollerStep, PollStart, RecoverNext, PollNext, NotifyNext, FindAcquiring, GetBook,
           ApplyBook, FindOwed, SettleAvailableNotified, PollEnd, observations
<1>4. CASE Environment
  BY <1>4 DEF Environment, DatabaseFault, FinderFault, Crash, WindowSlides, observations
<1>5. CASE UNCHANGED vars
  BY <1>5 DEF vars
<1> QED
  BY <1>1, <1>2, <1>3, <1>4, <1>5 DEF Next

LEMMA StepDeliverInv ==
  ASSUME SafetyInv, DeliverInv, [Next]_vars
  PROVE  DeliverInv'
<1>0. TypeInv /\ faults' >= faults /\ faults' \in Nat
  BY FaultsGrow DEF SafetyInv
<1>1. CASE SettleAvailableNotified(Poller)
  BY <1>0, <1>1, SettleKeepsDeliveries
<1>2. CASE ~SettleAvailableNotified(Poller) /\ Notifying
  <2>1. NoNewMark
    BY <1>2, MarksStand
  <2> QED
    BY <1>0, <1>2, <2>1, WhileNotifying, OthersKeepDeliveries, SendKeepsDeliveries
<1>3. CASE ~SettleAvailableNotified(Poller) /\ ~Notifying
  <2>1. NoNewMark
    BY <1>3, MarksStand
  <2>2. CASE Quiet
    <3>1. ~Notifying'
      BY <1>3, <2>2, PollerIsProc DEF Quiet, NoNewDuty, Notifying, Duty
    <3>2. pass'.phase = "sweep" => \A r \in pass'.batch : r \in Id /\ ~req[r].notified
      BY <1>0, <2>2 DEF Quiet, PassOnlyShrinks, DeliverInv, TypeInv, TypeOK
    <3> QED
      BY <1>0, <1>3, <2>1, <2>2, <3>1, <3>2, IdleKeepsDeliveries DEF Quiet
  <2>3. ASSUME NEW p \in Proc, TransitionToFailed(p) \/ EmitFailed(p)
        PROVE  DeliverInv'
    <3>1. job[p] \in Job /\ UNCHANGED <<pass, delivered>>
      BY <1>0, <2>3 DEF TransitionToFailed, EmitFailed, observations, TypeInv, TypeOK
    <3>2. job' = [job EXCEPT ![p] = Idle] \/ job' = [job EXCEPT ![p].at = "emit"]
      BY <2>3 DEF TransitionToFailed, EmitFailed, Done, Goto
    <3>3. ~Notifying'
      BY <1>0, <1>3, <3>1, <3>2, PollerIsProc DEF Notifying, Idle, TypeInv, TypeOK, Job
    <3>4. pass'.phase = "sweep" => \A r \in pass'.batch : r \in Id /\ ~req[r].notified
      BY <1>0, <3>1 DEF DeliverInv, TypeInv, TypeOK
    <3> QED
      BY <1>0, <1>3, <2>1, <3>1, <3>3, <3>4, IdleKeepsDeliveries
  <2>4. ASSUME NEW o \in SendOutcome, SendAvailable(Poller, o)
        PROVE  FALSE
    BY <1>3, <2>4 DEF SendAvailable, Notifying
  <2> QED
    BY <1>0, <2>2, <2>3, <2>4, StepsAreQuietOr, NotifyKeepsDeliveries, OwedKeepsDeliveries
<1> QED
  BY <1>1, <1>2, <1>3

LEMMA Delivery == Spec => [](SafetyInv /\ DeliverInv)
<1>1. Init => DeliverInv
  BY InitDeliverInv
<1>2. SafetyInv /\ DeliverInv /\ [Next]_vars => DeliverInv'
  BY StepDeliverInv
<1> QED
  BY <1>1, <1>2, Safety, PTL DEF Spec

\* However crashes, database faults and lost relay answers fall between a delivery and
\* its marker, a row's requester gets at most one email more than there were faults,
\* and none while the row is not available.
THEOREM DeliveriesAreBounded == Spec => []DeliveriesBounded
<1>1. SafetyInv /\ DeliverInv => DeliveriesBounded
  <2>1. SafetyInv => TypeInv /\ DeliveredInv
    BY DEF SafetyInv, DutyInv
  <2> QED
    BY <2>1, FaultsAreNat DEF DeliverInv, DeliveredInv, DeliveriesBounded, TypeInv, TypeOK
<1> QED
  BY <1>1, Delivery, PTL

\* The marker of a requester who is owed an email follows a delivery.
THEOREM MarksFollowDelivery == Spec => MarkedAfterDelivery
<1> DEFINE A == \A r \in Id : ~req[r].notified /\ req'[r].notified /\ r \in pass.wants => delivered[r] > 0
<1>1. ASSUME SafetyInv, DeliverInv, [Next]_vars
      PROVE  A
  <2>1. ASSUME NEW r \in Id, ~req[r].notified, req'[r].notified, r \in pass.wants
        PROVE  delivered[r] > 0
    <3>1. SettleAvailableNotified(Poller) /\ r = job[Poller].row
      BY <1>1, <2>1, OnlySettleMarks DEF SafetyInv
    <3> QED
      BY <1>1, <2>1, <3>1 DEF SettleAvailableNotified, DeliverInv
  <2> QED
    BY <2>1
<1>2. SafetyInv /\ DeliverInv /\ [Next]_vars => [A]_vars
  BY <1>1
<1> QED
  BY <1>2, Delivery, PTL DEF MarkedAfterDelivery, Spec

-------------------------------------------------------------------------------
(* How far concurrent creates overshoot a quota.                            *)

\* No handler arrives at its insert.
NoNewInsert == \A h \in Handler : job'[h].at = "insert" => job'[h] = job[h]

LEMMA JobNotInserting ==
  ASSUME TypeInv, NEW p \in Proc, NEW j, job' = [job EXCEPT ![p] = j], j.at # "insert"
  PROVE  NoNewInsert
  BY PollerIsProc DEF NoNewInsert, TypeInv, TypeOK

LEMMA GotoNotInserting ==
  ASSUME TypeInv, NEW p \in Proc, NEW l \in Label \ {"insert"}, Goto(p, l)
  PROVE  NoNewInsert
<1>1. job[p] \in Job
  BY DEF TypeInv, TypeOK
<1>2. [job[p] EXCEPT !.at = l].at = l
  BY <1>1 DEF Job
<1> QED
  BY <1>2, JobNotInserting DEF Goto

LEMMA DoneNotInserting ==
  ASSUME TypeInv, NEW p \in Proc, Done(p)
  PROVE  NoNewInsert
<1>1. Idle.at # "insert"
  BY DEF Idle
<1> QED
  BY <1>1, JobNotInserting DEF Done

LEMMA OnRowNotInserting ==
  ASSUME TypeInv, NEW p \in Proc, NEW l \in Label \ {"insert"}, NEW r, NEW st,
         job' = [job EXCEPT ![p] = OnRow(l, r, st)]
  PROVE  NoNewInsert
<1>1. OnRow(l, r, st).at = l
  BY DEF OnRow, Idle
<1> QED
  BY <1>1, JobNotInserting

LEMMA AnsweredNotInserting ==
  ASSUME TypeInv, NEW p \in Proc, NEW l \in Label \ {"insert"}, NEW reply, Answered(p, l, reply)
  PROVE  NoNewInsert
<1>1. job[p] \in Job
  BY DEF TypeInv, TypeOK
<1>2. [job[p] EXCEPT !.at = l, !.reply = reply].at = l
  BY <1>1 DEF Job
<1> QED
  BY <1>2, JobNotInserting DEF Answered

\* A handler gets to its insert past the quota check, or with no limit to check.
LEMMA InsertIsReached ==
  ASSUME TypeInv, [Next]_vars
  PROVE  \/ NoNewInsert
         \/ \E h \in Handler : /\ job' = [job EXCEPT ![h].at = "insert"]
                               /\ UNCHANGED req
                               /\ \/ Limit[job[h].user] = None
                                  \/ QuotaLeft(job[h].user)
<1> USE PollerIsProc
<1>1. ASSUME NEW h \in Handler, FindActiveDuplicate(h) \/ EnforceQuota(h), ~NoNewInsert
      PROVE  /\ job' = [job EXCEPT ![h].at = "insert"]
             /\ UNCHANGED req
             /\ Limit[job[h].user] = None \/ QuotaLeft(job[h].user)
  BY <1>1, DoneNotInserting, GotoNotInserting DEF FindActiveDuplicate, EnforceQuota, Goto
<1>2. ASSUME NEW h \in Handler, NEW u \in User, NEW a \in Asin, CreateStart(h, u, a)
      PROVE  NoNewInsert
  <2>1. [Idle EXCEPT !.at = "dedupe", !.user = u, !.asin = a].at = "dedupe"
    BY DEF Idle
  <2> QED
    BY <1>2, <2>1, JobNotInserting DEF CreateStart
<1>3. ASSUME NEW h \in Handler, NEW admin \in Admin, NEW r \in Id, NEW v \in {"approve", "deny"},
             DecideStart(h, admin, r, v)
      PROVE  NoNewInsert
  <2>1. [Idle EXCEPT !.at = "claim", !.row = r, !.by = admin, !.verdict = v].at = "claim"
    BY DEF Idle
  <2> QED
    BY <1>3, <2>1, JobNotInserting DEF DecideStart
<1>4. ASSUME NEW h \in Handler, InsertRequest(h) \/ ClaimDecision(h)
      PROVE  NoNewInsert
  BY <1>4, DoneNotInserting, OnRowNotInserting DEF InsertRequest, ClaimDecision, BeginHandoff
<1>5. ASSUME NEW p \in Proc, HandoffStep(p)
      PROVE  NoNewInsert
  BY <1>5, DoneNotInserting, GotoNotInserting, AnsweredNotInserting
     DEF HandoffStep, AddBook, LinkBook, TransitionToFailed, EmitFailed
<1>6. CASE PollerStep
  <2>1. ASSUME NEW r \in Id, RecoverNext(r) \/ PollNext(r) \/ NotifyNext(r)
        PROVE  NoNewInsert
    BY <2>1, OnRowNotInserting DEF RecoverNext, PollNext, NotifyNext, BeginHandoff
  <2>2. ASSUME NEW reply \in PollReply, GetBook(Poller, reply)
        PROVE  NoNewInsert
    BY <2>2, DoneNotInserting, AnsweredNotInserting DEF GetBook
  <2>3. ASSUME NEW o \in SendOutcome, SendAvailable(Poller, o)
        PROVE  NoNewInsert
    BY <2>3, DoneNotInserting, GotoNotInserting DEF SendAvailable
  <2> QED
    BY <1>6, <2>1, <2>2, <2>3, DoneNotInserting
       DEF PollerStep, PollStart, FindAcquiring, ApplyBook, FindOwed, SettleAvailableNotified,
           PollEnd, NoNewInsert
<1>7. CASE Environment
  <2>1. ASSUME NEW p \in Proc, DatabaseFault(p)
        PROVE  NoNewInsert
    BY <2>1, DoneNotInserting, AnsweredNotInserting DEF DatabaseFault
  <2> QED
    BY <1>7, <2>1 DEF Environment, FinderFault, Crash, WindowSlides, NoNewInsert, Idle
<1>8. CASE UNCHANGED vars
  BY <1>8 DEF vars, NoNewInsert
<1> QED
  BY <1>1, <1>2, <1>3, <1>4, <1>5, <1>6, <1>7, <1>8 DEF Next, HandlerStep

LEMMA AdmittedShrinks ==
  ASSUME TypeInv, NoNewInsert, NEW u \in User
  PROVE  Admitted(u)' \subseteq Admitted(u)
  BY DEF NoNewInsert, Admitted

\* A number that was never given to a row is given to one by insertRequest alone.
NoNewRow == \A r \in Id : req[r].status = "absent" => req'[r].status = "absent"

LEMMA UpdatedRowWasThere ==
  ASSUME TypeInv, NEW q \in Id, NEW x, req' = [req EXCEPT ![q] = x], req[q].status # "absent"
  PROVE  NoNewRow
  BY DEF NoNewRow, TypeInv, TypeOK

LEMMA OnlyInsertFills ==
  ASSUME SafetyInv, [Next]_vars
  PROVE  NoNewRow \/ \E h \in Handler : InsertRequest(h)
<1>0. TypeInv /\ NotifyInv
  BY DEF SafetyInv, DutyInv
<1>1. ASSUME NEW h \in Handler, HandlerStep(h), ~InsertRequest(h)
      PROVE  NoNewRow
  <2>1. CASE ClaimDecision(h)
    <3>1. job[h].row \in Id
      BY <1>0, <2>1, JobRow, PollerIsProc DEF ClaimDecision
    <3> QED
      BY <1>0, <2>1, <3>1, UpdatedRowWasThere DEF ClaimDecision, Claims, NoNewRow
  <2> QED
    BY <1>1, <2>1 DEF HandlerStep, CreateStart, FindActiveDuplicate, EnforceQuota, DecideStart, NoNewRow
<1>2. ASSUME NEW p \in Proc, HandoffStep(p)
      PROVE  NoNewRow
  <2>1. CASE LinkBook(p) \/ TransitionToFailed(p)
    <3>1. job[p].row \in Id /\ job[p].seen \in {"approved", "acquiring"}
      BY <1>0, <2>1, JobRow DEF LinkBook, TransitionToFailed, TypeInv, JobShape
    <3> QED
      BY <1>0, <2>1, <3>1, UpdatedRowWasThere DEF LinkBook, TransitionToFailed, Claims, NoNewRow
  <2> QED
    BY <1>2, <2>1 DEF HandoffStep, AddBook, EmitFailed, NoNewRow
<1>3. CASE PollerStep
  <2>1. CASE ApplyBook(Poller)
    <3>1. job[Poller].row \in Id /\ job[Poller].seen = "acquiring"
      BY <1>0, <2>1, JobRow, PollerIsProc DEF ApplyBook, TypeInv, JobShape
    <3>2. \A r \in Id : req[r] \in Request
      BY <1>0 DEF TypeInv, TypeOK
    <3>3. UNCHANGED req \/ (/\ req[job[Poller].row].status # "absent"
                            /\ \E x : req' = [req EXCEPT ![job[Poller].row] = x])
      BY <2>1, <3>1 DEF ApplyBook, Claims
    <3> QED
      BY <1>0, <3>1, <3>3, UpdatedRowWasThere DEF NoNewRow
  <2>2. CASE SettleAvailableNotified(Poller)
    <3>1. job[Poller].row \in Id /\ req[job[Poller].row].status # "absent"
      BY <1>0, <2>2, JobRow, PollerIsProc DEF SettleAvailableNotified, NotifyInv
    <3>2. \E x : req' = [req EXCEPT ![job[Poller].row] = x]
      BY <2>2 DEF SettleAvailableNotified
    <3> QED
      BY <1>0, <3>1, <3>2, UpdatedRowWasThere
  <2> QED
    BY <1>3, <2>1, <2>2
       DEF PollerStep, PollStart, RecoverNext, PollNext, NotifyNext, FindAcquiring, GetBook,
           FindOwed, SendAvailable, PollEnd, NoNewRow
<1>4. CASE Environment
  <2>1. ASSUME NEW q \in Id, WindowSlides(q)
        PROVE  NoNewRow
    BY <1>0, <2>1 DEF WindowSlides, NoNewRow, TypeInv, TypeOK, Request
  <2> QED
    BY <1>4, <2>1 DEF Environment, DatabaseFault, FinderFault, Crash, NoNewRow
<1>5. CASE UNCHANGED vars
  BY <1>5 DEF vars, NoNewRow
<1> QED
  BY <1>1, <1>2, <1>3, <1>4, <1>5 DEF Next

\* No other write brings a row into its requester's count.
LEMMA CountShrinks ==
  ASSUME SafetyInv, RowStep, NoNewRow, NEW u \in User
  PROVE  CountedInWindow(u)' \subseteq CountedInWindow(u)
<1>1. req \in [Id -> Request]
  BY DEF SafetyInv, TypeInv, TypeOK
<1>2. ASSUME NEW q \in Id, NEW x \in Request, req' = [req EXCEPT ![q] = x], RowEdge(req[q], x)
      PROVE  CountedInWindow(u)' \subseteq CountedInWindow(u)
  <2>1. req'[q] = x /\ \A r \in Id \ {q} : req'[r] = req[r]
    BY <1>1, <1>2
  <2>2. /\ x.user = req[q].user
        /\ x.inWindow => req[q].inWindow
        /\ x.status \in Open => req[q].status \in Open
    BY <1>2, <2>1
       DEF NoNewRow, RowEdge, InsertEdge, DecisionEdge, LinkEdge, FailEdge, FlagEdge, SameBook
  <2> QED
    BY <2>1, <2>2 DEF CountedInWindow
<1> QED
  BY <1>2 DEF RowStep, CountedInWindow

LEMMA FiniteCounts ==
  ASSUME NEW C \in SUBSET Id, NEW A \in SUBSET Handler
  PROVE  /\ IsFiniteSet(C) /\ Cardinality(C) \in Nat
         /\ IsFiniteSet(A) /\ Cardinality(A) \in Nat
         /\ Cardinality(A) <= Cardinality(Handler)
         /\ Cardinality(Handler) \in Nat
<1>1. IsFiniteSet(Id)
  BY BoundsAssumption, FS_Interval DEF Id
<1> QED
  BY <1>1, FS_Subset, FS_CardinalityType, PollerAssumption

\* The claim of QuotaOvershootBounded for one user.
QuotaOf(u) == Limit[u] # None /\ Limit[u] > 0 =>
                Cardinality(CountedInWindow(u)) + Cardinality(Admitted(u)) <= Limit[u] + Cardinality(Handler) - 1

LEMMA LimitIsNat ==
  ASSUME NEW u \in User, Limit[u] # None
  PROVE  Limit[u] \in Nat
  BY QuotaAssumption

LEMMA ShrinkingKeepsQuota ==
  ASSUME NEW u \in User, QuotaOf(u),
         CountedInWindow(u)' \subseteq CountedInWindow(u), Admitted(u)' \subseteq Admitted(u)
  PROVE  QuotaOf(u)'
<1> DEFINE C == CountedInWindow(u)
           A == Admitted(u)
           D == CountedInWindow(u)'
           B == Admitted(u)'
<1>1. C \in SUBSET Id /\ A \in SUBSET Handler /\ D \in SUBSET Id /\ B \in SUBSET Handler
  BY DEF CountedInWindow, Admitted
<1>2. D \subseteq C /\ B \subseteq A
  OBVIOUS
<1>3. Limit[u] # None /\ Limit[u] > 0 => Cardinality(C) + Cardinality(A) <= Limit[u] + Cardinality(Handler) - 1
  BY DEF QuotaOf
<1>4. Limit[u] # None /\ Limit[u] > 0 => Cardinality(D) + Cardinality(B) <= Limit[u] + Cardinality(Handler) - 1
  <2> HIDE DEF A, B, C, D
  <2>1. Cardinality(D) <= Cardinality(C) /\ Cardinality(B) <= Cardinality(A)
    BY <1>1, <1>2, FiniteCounts, FS_Subset
  <2> QED
    BY <1>1, <1>3, <2>1, FiniteCounts, LimitIsNat
<1> QED
  BY <1>4 DEF QuotaOf

\* The last create admitted found the count below the limit.
LEMMA AdmissionKeepsQuota ==
  ASSUME TypeInv, NEW u \in User, UNCHANGED req, QuotaLeft(u)
  PROVE  QuotaOf(u)'
<1> DEFINE C == CountedInWindow(u)
           B == Admitted(u)'
<1>1. C \in SUBSET Id /\ B \in SUBSET Handler /\ CountedInWindow(u)' = C
  BY DEF CountedInWindow, Admitted
<1>2. Cardinality(C) < Limit[u]
  BY DEF QuotaLeft
<1>3. Limit[u] # None => Cardinality(C) + Cardinality(B) <= Limit[u] + Cardinality(Handler) - 1
  <2> HIDE DEF B, C
  <2> QED
    BY <1>1, <1>2, FiniteCounts, LimitIsNat
<1> QED
  BY <1>1, <1>3 DEF QuotaOf

\* An insert moves its handler's admission into the count.
LEMMA InsertKeepsQuota ==
  ASSUME SafetyInv, NEW h \in Handler, InsertRequest(h), NEW u \in User, QuotaOf(u)
  PROVE  QuotaOf(u)'
<1>0. TypeInv /\ h \in Proc
  BY PollerIsProc DEF SafetyInv
<1>1. NoNewInsert
  BY <1>0, DoneNotInserting, OnRowNotInserting DEF InsertRequest, BeginHandoff
<1>2. Admitted(u)' \subseteq Admitted(u)
  BY <1>0, <1>1, AdmittedShrinks
<1>3. CASE UNCHANGED req
  <2>1. CountedInWindow(u)' \subseteq CountedInWindow(u)
    BY <1>3 DEF CountedInWindow
  <2> QED
    BY <1>2, <2>1, ShrinkingKeepsQuota
<1>4. ASSUME NEW r \in Id, NEW x \in Request, req' = [req EXCEPT ![r] = x], x.user = job[h].user
      PROVE  QuotaOf(u)'
  <2>1. req'[r] = x /\ \A q \in Id \ {r} : req'[q] = req[q]
    BY <1>0, <1>4 DEF TypeInv, TypeOK
  <2>2. CASE job[h].user # u
    <3>1. CountedInWindow(u)' \subseteq CountedInWindow(u)
      BY <1>4, <2>1, <2>2 DEF CountedInWindow
    <3> QED
      BY <1>2, <3>1, ShrinkingKeepsQuota
  <2>3. CASE job[h].user = u
    <3> DEFINE C == CountedInWindow(u)
               A == Admitted(u)
               D == CountedInWindow(u)'
               B == Admitted(u)'
    <3>1. C \in SUBSET Id /\ A \in SUBSET Handler /\ D \in SUBSET Id /\ B \in SUBSET Handler
      BY DEF CountedInWindow, Admitted
    <3>2. D \subseteq C \cup {r}
      BY <2>1 DEF CountedInWindow
    <3>3. h \in A
      BY <2>3 DEF Admitted, InsertRequest
    <3>4. B \subseteq A \ {h}
      <4>1. job'[h].at # "insert"
        <5>1. \/ job' = [job EXCEPT ![h] = Idle]
              \/ \E q \in Id : job' = [job EXCEPT ![h] = OnRow("handoff", q, "approved")]
          BY DEF InsertRequest, Done, BeginHandoff
        <5>2. Idle.at = "idle" /\ \A q \in Id : OnRow("handoff", q, "approved").at = "handoff"
          BY DEF OnRow, Idle
        <5> QED
          BY <1>0, <5>1, <5>2 DEF TypeInv, TypeOK
      <4> QED
        BY <1>2, <4>1 DEF Admitted
    <3>5. Limit[u] # None /\ Limit[u] > 0 => Cardinality(C) + Cardinality(A) <= Limit[u] + Cardinality(Handler) - 1
      BY DEF QuotaOf
    <3> HIDE DEF A, B, C, D
    <3>6. Cardinality(D) <= Cardinality(C) + 1
      <4>1. IsFiniteSet(C) /\ IsFiniteSet(C \cup {r})
        BY <3>1, FiniteCounts, FS_AddElement
      <4>2. Cardinality(C \cup {r}) <= Cardinality(C) + 1
        BY <3>1, <4>1, FS_AddElement, FiniteCounts
      <4>3. Cardinality(D) <= Cardinality(C \cup {r}) /\ Cardinality(C \cup {r}) \in Nat
        BY <3>2, <4>1, FS_Subset, FS_CardinalityType
      <4> QED
        BY <3>1, <4>2, <4>3, FiniteCounts
    <3>7. Cardinality(B) <= Cardinality(A) - 1
      <4>1. IsFiniteSet(A) /\ IsFiniteSet(A \ {h}) /\ Cardinality(A \ {h}) = Cardinality(A) - 1
        BY <3>1, <3>3, FiniteCounts, FS_RemoveElement
      <4> QED
        BY <3>4, <4>1, FS_Subset
    <3>8. Limit[u] # None /\ Limit[u] > 0 => Cardinality(D) + Cardinality(B) <= Limit[u] + Cardinality(Handler) - 1
      BY <3>1, <3>5, <3>6, <3>7, FiniteCounts, LimitIsNat
    <3> QED
      BY <3>8 DEF QuotaOf, B, D
  <2> QED
    BY <2>2, <2>3
<1> QED
  <2> DEFINE x == [AbsentRow EXCEPT !.user = job[h].user, !.asin = job[h].asin, !.inWindow = TRUE,
                     !.status = IF job[h].user \in AutoApprove THEN "approved" ELSE "pending",
                     !.decidedBy = IF job[h].user \in AutoApprove THEN job[h].user ELSE None]
  <2>1. job[h].user \in User /\ job[h].asin \in Asin
    BY <1>0 DEF InsertRequest, TypeInv, JobShape
  <2>2. x \in Request /\ x.user = job[h].user
    BY <2>1 DEF Request, AbsentRow
  <2>3. UNCHANGED req \/ \E r \in Id : req' = [req EXCEPT ![r] = x]
    BY DEF InsertRequest
  <2> HIDE DEF x
  <2> QED
    BY <1>3, <1>4, <2>2, <2>3

LEMMA StepQuota ==
  ASSUME SafetyInv, [Next]_vars, NEW u \in User, QuotaOf(u)
  PROVE  QuotaOf(u)'
<1>0. TypeInv /\ Typed
  BY DEF SafetyInv, DutyInv, Typed
<1>1. CASE \E h \in Handler : InsertRequest(h)
  BY <1>1, InsertKeepsQuota
<1>2. CASE NoNewRow
  <2>1. CountedInWindow(u)' \subseteq CountedInWindow(u)
    BY <1>0, <1>2, EveryStepIsRowStep, CountShrinks
  <2>2. CASE NoNewInsert
    BY <1>0, <2>1, <2>2, AdmittedShrinks, ShrinkingKeepsQuota
  <2>3. ASSUME NEW h \in Handler, job' = [job EXCEPT ![h].at = "insert"], UNCHANGED req,
               Limit[job[h].user] = None \/ QuotaLeft(job[h].user)
        PROVE  QuotaOf(u)'
    <3>1. job[h] \in Job /\ h \in Proc
      BY <1>0, PollerIsProc DEF TypeInv, TypeOK
    <3>2. CASE job[h].user = u /\ QuotaLeft(u)
      BY <1>0, <2>3, <3>2, AdmissionKeepsQuota
    <3>3. CASE job[h].user = u /\ Limit[u] = None
      BY <3>3 DEF QuotaOf
    <3>4. CASE job[h].user # u
      <4>1. job'[h].user = job[h].user /\ \A g \in Handler \ {h} : job'[g] = job[g]
        BY <1>0, <2>3, <3>1, PollerIsProc DEF TypeInv, TypeOK, Job
      <4>2. Admitted(u)' \subseteq Admitted(u)
        BY <3>4, <4>1 DEF Admitted
      <4> QED
        BY <2>1, <4>2, ShrinkingKeepsQuota
    <3> QED
      BY <2>3, <3>2, <3>3, <3>4
  <2> QED
    BY <1>0, <2>2, <2>3, InsertIsReached
<1> QED
  BY <1>1, <1>2, OnlyInsertFills

\* However creates interleave between the quota check and the insert, a user is
\* over the limit by at most the other handlers: for any number of handlers.
THEOREM QuotaIsNearlyKept == Spec => []QuotaOvershootBounded
<1> DEFINE Q == \A u \in User : QuotaOf(u)
<1>1. Q => QuotaOvershootBounded
  BY DEF QuotaOf, QuotaOvershootBounded
<1>2. Init => Q
  <2>1. ASSUME Init, NEW u \in User
        PROVE  QuotaOf(u)
    <3>1. CountedInWindow(u) = {} /\ Admitted(u) = {}
      BY <2>1, PollerIsProc DEF Init, CountedInWindow, Admitted, AbsentRow, Idle
    <3>2. Cardinality(CountedInWindow(u)) = 0 /\ Cardinality(Admitted(u)) = 0
      BY <3>1, FS_EmptySet
    <3>3. Cardinality(Handler) \in Nat
      BY FS_CardinalityType, PollerAssumption
    <3>4. Limit[u] # None => Limit[u] \in Nat
      BY LimitIsNat
    <3> QED
      BY <3>2, <3>3, <3>4 DEF QuotaOf
  <2> QED
    BY <2>1
<1>3. SafetyInv /\ Q /\ [Next]_vars => Q'
  BY StepQuota
<1> HIDE DEF Q
<1> QED
  BY <1>1, <1>2, <1>3, Safety, PTL DEF Spec
================================================================================
