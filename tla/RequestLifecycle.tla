--------------------------- MODULE RequestLifecycle ---------------------------
(***************************************************************************)
(* The request lifecycle: RequestService (request.service.ts) run by        *)
(* concurrent HTTP handlers and by the one StatusPoller pass, over the      *)
(* `requests` table and the external Narratorr server.                      *)
(*                                                                          *)
(* Every `await` is an interleaving point, so an operation is a chain of    *)
(* actions, one per await, that carry the row snapshot they started from.   *)
(* A row's durable fields are `req`; everything in `job` and `pass` is      *)
(* process memory and is lost by Crash.                                     *)
(***************************************************************************)
EXTENDS Integers, FiniteSets

CONSTANTS User, Asin, Admin,
          Handler,      \* concurrent HTTP request handlers
          Poller,       \* the status poller (Cron, protect: true)
          None,         \* SQL NULL, and an unset field of a job
          Limit,        \* Limit[u]: resolved quota; None = unlimited, 0 = blocked
          AutoApprove,  \* users whose requests are approved on creation
          BatchSize,    \* rows per poller finder
          MaxRows,      \* bound: rows ever inserted
          MaxFaults     \* bound: crashes, database faults and lost relay answers

Id == 1..MaxRows
Proc == Handler \cup {Poller}

ASSUME BoundsAssumption == MaxRows \in Nat /\ MaxFaults \in Nat /\ BatchSize \in Nat \ {0}
ASSUME PollerAssumption == Poller \notin Handler /\ IsFiniteSet(Handler)
ASSUME QuotaAssumption == Limit \in [User -> Nat \cup {None}] /\ None \notin Nat /\ AutoApprove \subseteq User
ASSUME NullAssumption == None \notin User \cup Asin \cup Admin

VARIABLES req,        \* req[r]: row r of the requests table
          job,        \* job[p]: where process p's operation stands
          pass,       \* the poller's current pass: phase, rows left, contact snapshot
          emitted,    \* emitted[r]: request.failed emissions (observation)
          delivered,  \* delivered[r]: availability emails delivered (observation)
          faults      \* crashes, database faults and lost relay answers so far (bounded)

vars == <<req, job, pass, emitted, delivered, faults>>

Active == {"pending", "approved", "acquiring"}
Open == Active \cup {"available"}
Final == {"denied", "available", "failed"}
Status == {"absent"} \cup Open \cup Final

Request == [user : User \cup {None}, asin : Asin \cup {None}, status : Status,
            linked : BOOLEAN,                       \* narratorr_book_id is set
            decidedBy : User \cup Admin \cup {None},
            inWindow : BOOLEAN,                     \* requested_at is in the quota window
            notified : BOOLEAN]                     \* available_notified_at is set

AbsentRow == [user |-> None, asin |-> None, status |-> "absent", linked |-> FALSE,
              decidedBy |-> None, inWindow |-> FALSE, notified |-> FALSE]

\* Narratorr's answers: book statuses (wanted stands for every status before
\* imported; failed is handled as missing) and the classes of errors.
BookStatus == {"wanted", "imported", "missing"}
HandoffReply == BookStatus \cup {"terminal", "transient"}
PollReply == BookStatus \cup {"gone", "error"}

CreateLabel == {"dedupe", "quota", "insert"}
Label == CreateLabel \cup {"idle", "claim", "handoff", "link", "fail", "emit",
                           "poll", "apply", "send", "settle"}

Job == [at : Label, user : User \cup {None}, asin : Asin \cup {None}, row : 0..MaxRows,
        by : Admin \cup {None}, verdict : {"approve", "deny", None},
        seen : {"approved", "acquiring", None},    \* status of the snapshot held
        reply : HandoffReply \cup PollReply \cup {None}]

Idle == [at |-> "idle", user |-> None, asin |-> None, row |-> 0, by |-> None,
         verdict |-> None, seen |-> None, reply |-> None]

NoPass == [phase |-> "off", batch |-> {}, wants |-> {}]

Init == /\ req = [r \in Id |-> AbsentRow]
        /\ job = [p \in Proc |-> Idle]
        /\ pass = NoPass
        /\ emitted = [r \in Id |-> 0]
        /\ delivered = [r \in Id |-> 0]
        /\ faults = 0

observations == <<emitted, delivered, faults>>

-------------------------------------------------------------------------------
\* Table queries and the two write shapes of the service.

Inserted == {r \in Id : req[r].status # "absent"}

Duplicates(u, a) ==
  {r \in Id : req[r].user = u /\ req[r].asin = a /\ req[r].status \in Active}

CountedInWindow(u) ==
  {r \in Id : req[r].user = u /\ req[r].inWindow /\ req[r].status \in Open}

\* Mutant: one row short of the limit.
ShortBatch(S) == {r \in S : Cardinality({q \in S : q <= r}) < BatchSize}
\* ORDER BY requested_at LIMIT batchSize: rows are numbered in insertion order.
OldestBatch(S) == {r \in S : Cardinality({q \in S : q < r}) < BatchSize}

\* Mutant: no self-heal of stranded approvals.
NoSelfHeal == {}
ApprovedAwaitingHandoff == {r \in Id : req[r].status = "approved" /\ ~req[r].linked}
Acquiring == {r \in Id : req[r].status = "acquiring" /\ req[r].linked}
\* Mutant: the finder forgets the marker.
EveryAvailable == {r \in Id : req[r].status = "available"}
AvailableAwaitingNotify == {r \in Id : req[r].status = "available" /\ ~req[r].notified}

MapBookStatus(s) == CASE s = "imported" -> "available"
                      [] s \in {"failed", "missing"} -> "failed"
                      [] OTHER -> "acquiring"

\* Mutants: the WHERE clause on the observed status weakened or dropped.
ClaimsUnlessFailed(r, observed) == req[r].status # "failed"
ClaimsById(r, observed) == TRUE
\* The rows an UPDATE ... WHERE id AND status = <observed> matches.
Claims(r, observed) == req[r].status = observed

Done(p) == job' = [job EXCEPT ![p] = Idle]
Goto(p, l) == job' = [job EXCEPT ![p].at = l]
Answered(p, l, reply) == job' = [job EXCEPT ![p] = [@ EXCEPT !.at = l, !.reply = reply]]

\* A job on row r at await point l, holding a snapshot with status `seen`.
OnRow(l, r, seen) == [Idle EXCEPT !.at = l, !.row = r, !.seen = seen]

BeginHandoff(p, r) == job' = [job EXCEPT ![p] = OnRow("handoff", r, "approved")]

-------------------------------------------------------------------------------
(* POST /api/requests: RequestService.create                                *)

\* The handler has read its user row; quota and auto-approve come from it.
CreateStart(h, u, a) ==
  /\ job[h].at = "idle"
  /\ job' = [job EXCEPT ![h] = [Idle EXCEPT !.at = "dedupe", !.user = u, !.asin = a]]
  /\ UNCHANGED <<req, pass, observations>>

\* findActiveDuplicate: an active row is returned as is.
FindActiveDuplicate(h) ==
  /\ job[h].at = "dedupe"
  /\ IF Duplicates(job[h].user, job[h].asin) # {} THEN Done(h)
     ELSE Goto(h, IF Limit[job[h].user] = None THEN "insert" ELSE "quota")
  /\ UNCHANGED <<req, pass, observations>>

\* Mutant: off by one at the limit.
QuotaLeftInclusive(u) == Cardinality(CountedInWindow(u)) <= Limit[u]
QuotaLeft(u) == Cardinality(CountedInWindow(u)) < Limit[u]

\* enforceQuota: 403 and 429 both end the request without a write.
EnforceQuota(h) ==
  /\ job[h].at = "quota"
  /\ IF QuotaLeft(job[h].user) THEN Goto(h, "insert") ELSE Done(h)
  /\ UNCHANGED <<req, pass, observations>>

\* Mutant: no unique index, the preflight read alone de-dupes.
NoUniqueIndex(u, a) == FALSE

\* The partial unique index on (user, asin) over the active statuses.
UniqueViolation(u, a) == Duplicates(u, a) # {}

\* requested_at is the insertion time, so the new row takes the next number.
NewRow(r) == req[r].status = "absent" /\ \A q \in 1..(r - 1) : req[q].status # "absent"

\* insertRequest: on a unique violation the winner's row is looked up and
\* returned, otherwise the row is inserted and an approved one handed off.
InsertRequest(h) ==
  LET u == job[h].user
      a == job[h].asin
      auto == u \in AutoApprove
  IN /\ job[h].at = "insert"
     /\ \/ /\ UniqueViolation(u, a)
           /\ Done(h)
           /\ UNCHANGED req
        \/ /\ ~UniqueViolation(u, a)
           /\ \E r \in Id :
                /\ NewRow(r)
                /\ req' = [req EXCEPT ![r] =
                     [AbsentRow EXCEPT !.user = u, !.asin = a, !.inWindow = TRUE,
                                       !.status = IF auto THEN "approved" ELSE "pending",
                                       !.decidedBy = IF auto THEN u ELSE None]]
                /\ IF auto THEN BeginHandoff(h, r) ELSE Done(h)
     /\ UNCHANGED <<pass, observations>>

-------------------------------------------------------------------------------
(* POST /api/requests/:publicId/decision: RequestService.decide              *)

\* The row is read by public id, whatever its status.
DecideStart(h, admin, r, verdict) ==
  /\ job[h].at = "idle"
  /\ r \in Inserted
  /\ job' = [job EXCEPT ![h] = [Idle EXCEPT !.at = "claim", !.row = r, !.by = admin,
                                            !.verdict = verdict]]
  /\ UNCHANGED <<req, pass, observations>>

\* UPDATE ... WHERE id AND status = 'pending'; the loser answers 409.
ClaimDecision(h) ==
  LET r == job[h].row
      approve == job[h].verdict = "approve"
  IN /\ job[h].at = "claim"
     /\ IF Claims(r, "pending")
        THEN /\ req' = [req EXCEPT ![r] =
                          [@ EXCEPT !.status = IF approve THEN "approved" ELSE "denied",
                                    !.decidedBy = job[h].by]]
             /\ IF approve THEN BeginHandoff(h, r) ELSE Done(h)
        ELSE Done(h) /\ UNCHANGED req
     /\ UNCHANGED <<pass, observations>>

-------------------------------------------------------------------------------
(* RequestService.handoff, run by handlers and (recoverHandoff) the poller   *)

\* client.addBook answered: a book, a terminal or a transient error.
AddBook(p, reply) ==
  /\ job[p].at = "handoff"
  /\ IF reply = "transient" THEN Done(p)
     ELSE Answered(p, IF reply = "terminal" \/ MapBookStatus(reply) = "failed"
                      THEN "fail" ELSE "link", reply)
  /\ UNCHANGED <<req, pass, observations>>

\* Mutant: the book id is not stored with the status.
LinkStatusOnly(p) ==
  LET r == job[p].row
  IN /\ job[p].at = "link"
     /\ IF Claims(r, job[p].seen)
        THEN req' = [req EXCEPT ![r].status = MapBookStatus(job[p].reply)]
        ELSE UNCHANGED req
     /\ Done(p)
     /\ UNCHANGED <<pass, observations>>

\* UPDATE ... SET narratorr_book_id, status WHERE id AND status = row.status.
LinkBook(p) ==
  LET r == job[p].row
  IN /\ job[p].at = "link"
     /\ IF Claims(r, job[p].seen)
        THEN req' = [req EXCEPT ![r] =
                       [@ EXCEPT !.status = MapBookStatus(job[p].reply), !.linked = TRUE]]
        ELSE UNCHANGED req
     /\ Done(p)
     /\ UNCHANGED <<pass, observations>>

\* SET status = 'failed', and the book id when the answer was a book.
FailedRow(row, reply) == [row EXCEPT !.status = "failed",
                                     !.linked = IF reply \in BookStatus THEN TRUE ELSE @]

\* Mutant: the loser of the claim emits as well.
FailAlwaysEmits(p) ==
  LET r == job[p].row
  IN /\ job[p].at = "fail"
     /\ IF Claims(r, job[p].seen)
        THEN req' = [req EXCEPT ![r] = FailedRow(@, job[p].reply)]
        ELSE UNCHANGED req
     /\ Goto(p, "emit")
     /\ UNCHANGED <<pass, observations>>

\* transitionToFailed: the claim of the failed edge; only the winner emits.
TransitionToFailed(p) ==
  LET r == job[p].row
  IN /\ job[p].at = "fail"
     /\ IF Claims(r, job[p].seen)
        THEN /\ req' = [req EXCEPT ![r] = FailedRow(@, job[p].reply)]
             /\ Goto(p, "emit")
        ELSE Done(p) /\ UNCHANGED req
     /\ UNCHANGED <<pass, observations>>

\* emitFailed, reached after the claim's await resumed.
EmitFailed(p) ==
  /\ job[p].at = "emit"
  /\ emitted' = [emitted EXCEPT ![job[p].row] = @ + 1]
  /\ Done(p)
  /\ UNCHANGED <<req, pass, delivered, faults>>

-------------------------------------------------------------------------------
(* StatusPoller.pollOnce: stranded approvals, acquisitions, then the sweep   *)

PollerFree(phase) == pass.phase = phase /\ job[Poller].at = "idle"

StartPass(phase, S) == pass' = [phase |-> phase, batch |-> OldestBatch(S), wants |-> {}]

PollStart == /\ PollerFree("off")
             /\ StartPass("stranded", ApprovedAwaitingHandoff)
             /\ UNCHANGED <<req, job, observations>>

\* The next row of the batch, oldest first.
TakeNext(r) == /\ r \in pass.batch
               /\ \A q \in pass.batch : r <= q
               /\ pass' = [pass EXCEPT !.batch = @ \ {r}]

RecoverNext(r) == /\ PollerFree("stranded")
                  /\ TakeNext(r)
                  /\ BeginHandoff(Poller, r)
                  /\ UNCHANGED <<req, observations>>

FindAcquiring == /\ PollerFree("stranded")
                 /\ pass.batch = {}
                 /\ StartPass("acquiring", Acquiring)
                 /\ UNCHANGED <<req, job, observations>>

PollNext(r) ==
  /\ PollerFree("acquiring")
  /\ TakeNext(r)
  /\ job' = [job EXCEPT ![Poller] = OnRow("poll", r, "acquiring")]
  /\ UNCHANGED <<req, observations>>

\* client.getBook: 404 fails the row, any other error leaves it for a later pass,
\* a book still on its way changes nothing (applyBook returns null).
GetBook(p, reply) ==
  /\ job[p].at = "poll"
  /\ IF reply = "error" \/ (reply \in BookStatus /\ MapBookStatus(reply) = "acquiring") THEN Done(p)
     ELSE Answered(p, IF reply = "gone" \/ MapBookStatus(reply) = "failed"
                      THEN "fail" ELSE "apply", reply)
  /\ UNCHANGED <<req, pass, observations>>

\* applyBook's UPDATE ... WHERE id AND status = 'acquiring'.
ApplyBook(p) ==
  LET r == job[p].row
  IN /\ job[p].at = "apply"
     /\ IF Claims(r, job[p].seen)
        THEN req' = [req EXCEPT ![r].status = MapBookStatus(job[p].reply)]
        ELSE UNCHANGED req
     /\ Done(p)
     /\ UNCHANGED <<pass, observations>>

\* findAvailableAwaitingNotify joins each owed row with its requester's notify_on
\* and email, which users change at any time: `wants` is whatever the join saw.
FindOwed ==
  LET owed == OldestBatch(AvailableAwaitingNotify)
  IN /\ PollerFree("acquiring")
     /\ pass.batch = {}
     /\ \E W \in SUBSET owed : pass' = [phase |-> "sweep", batch |-> owed, wants |-> W]
     /\ UNCHANGED <<req, job, observations>>

\* Mutant: a row that is owed nothing is passed over, not settled.
SkipNotOwed(r) ==
  /\ PollerFree("sweep")
  /\ TakeNext(r)
  /\ job' = [job EXCEPT ![Poller] =
               IF r \in pass.wants THEN OnRow("send", r, None) ELSE Idle]
  /\ UNCHANGED <<req, observations>>

\* notifyOneAvailable: nothing owed settles at once, otherwise send first.
NotifyNext(r) ==
  /\ PollerFree("sweep")
  /\ TakeNext(r)
  /\ job' = [job EXCEPT ![Poller] =
               OnRow(IF r \in pass.wants THEN "send" ELSE "settle", r, None)]
  /\ UNCHANGED <<req, observations>>

\* How a send ends: delivered, skipped for want of a usable notifier, thrown by the
\* transport with nothing sent, or lost, when the relay took the message and its
\* answer did not come back in time, so that sendMail throws all the same.
SendOutcome == {"delivered", "skipped", "thrown", "lost"}

RelayTakes(p, outcome) ==
  /\ delivered' = [delivered EXCEPT ![job[p].row] =
                     IF outcome \in {"delivered", "lost"} THEN @ + 1 ELSE @]
  /\ outcome = "lost" => faults < MaxFaults
  /\ faults' = IF outcome = "lost" THEN faults + 1 ELSE faults

\* Mutant: a send skipped for want of a notifier settles the marker too.
SettleOnSkip(p, outcome) ==
  /\ job[p].at = "send"
  /\ RelayTakes(p, outcome)
  /\ IF outcome \in {"delivered", "skipped"} THEN Goto(p, "settle") ELSE Done(p)
  /\ UNCHANGED <<req, pass, emitted>>

\* RequesterEmailSender.send: only a delivery it was told of goes on to the marker.
SendAvailable(p, outcome) ==
  /\ job[p].at = "send"
  /\ RelayTakes(p, outcome)
  /\ IF outcome = "delivered" THEN Goto(p, "settle") ELSE Done(p)
  /\ UNCHANGED <<req, pass, emitted>>

\* settleAvailableNotified: UPDATE ... WHERE available_notified_at IS NULL.
SettleAvailableNotified(p) ==
  /\ job[p].at = "settle"
  /\ req' = [req EXCEPT ![job[p].row].notified = TRUE]
  /\ Done(p)
  /\ UNCHANGED <<pass, observations>>

PollEnd == /\ PollerFree("sweep")
           /\ pass.batch = {}
           /\ pass' = NoPass
           /\ UNCHANGED <<req, job, observations>>

-------------------------------------------------------------------------------
(* Faults and the environment                                               *)

\* A database call of process p throws before it wrote anything.
\*   - in the body of handoff it is a non-Narratorr error, hence terminal: the
\*     catch claims the failed edge; a second fault there leaves the row approved;
\*   - in markFailed (404) it leaves pollOnce, so the pass ends;
\*   - anywhere else the request answers 500, or the pass goes on to the next row.
DatabaseFault(p) ==
  LET j == job[p]
      inHandoffTry == j.seen = "approved" /\ (j.at = "link" \/ (j.at = "fail" /\ j.reply # "terminal"))
  IN /\ faults < MaxFaults
     /\ j.at \in CreateLabel \cup {"claim", "link", "fail", "apply", "settle"}
     /\ faults' = faults + 1
     /\ IF inHandoffTry
        THEN Answered(p, "fail", "terminal")
        ELSE Done(p)
     /\ pass' = IF j.reply = "gone" THEN NoPass ELSE pass
     /\ UNCHANGED <<req, emitted, delivered>>

\* A finder of the pass throws: the tick's catch ends the pass.
FinderFault == /\ faults < MaxFaults
               /\ pass.phase \in {"stranded", "acquiring"}
               /\ job[Poller].at = "idle" /\ pass.batch = {}
               /\ faults' = faults + 1
               /\ pass' = NoPass
               /\ UNCHANGED <<req, job, emitted, delivered>>

\* The process dies and restarts: rows survive, operations in flight do not.
Crash == /\ faults < MaxFaults
         /\ faults' = faults + 1
         /\ job' = [p \in Proc |-> Idle]
         /\ pass' = NoPass
         /\ UNCHANGED <<req, emitted, delivered>>

\* The oldest row leaves the rolling quota window.
WindowSlides(r) ==
  /\ req[r].inWindow
  /\ \A q \in Id : q < r => ~req[q].inWindow
  /\ req' = [req EXCEPT ![r].inWindow = FALSE]
  /\ UNCHANGED <<job, pass, observations>>

-------------------------------------------------------------------------------

HandlerStep(h) == \/ \E u \in User, a \in Asin : CreateStart(h, u, a)
                  \/ FindActiveDuplicate(h)
                  \/ EnforceQuota(h)
                  \/ InsertRequest(h)
                  \/ \E admin \in Admin, r \in Id, v \in {"approve", "deny"} : DecideStart(h, admin, r, v)
                  \/ ClaimDecision(h)

HandoffStep(p) == \/ \E reply \in HandoffReply : AddBook(p, reply)
                  \/ LinkBook(p)
                  \/ TransitionToFailed(p)
                  \/ EmitFailed(p)

PollerStep == \/ PollStart
              \/ \E r \in Id : RecoverNext(r) \/ PollNext(r) \/ NotifyNext(r)
              \/ FindAcquiring
              \/ \E reply \in PollReply : GetBook(Poller, reply)
              \/ ApplyBook(Poller)
              \/ FindOwed
              \/ \E outcome \in SendOutcome : SendAvailable(Poller, outcome)
              \/ SettleAvailableNotified(Poller)
              \/ PollEnd

Environment == \/ \E p \in Proc : DatabaseFault(p)
               \/ FinderFault
               \/ Crash
               \/ \E r \in Id : WindowSlides(r)

Next == \/ \E h \in Handler : HandlerStep(h)
        \/ \E p \in Proc : HandoffStep(p)
        \/ PollerStep
        \/ Environment

Spec == Init /\ [][Next]_vars

(***************************************************************************)
(* Fairness.  The Cron keeps ticking, so the poller's own steps are weakly  *)
(* fair.  That includes the settling of its awaits: the client has a total  *)
(* deadline, but the mail transport's timers bound only how long the relay  *)
(* may stay silent, so "every send ends" is an assumption about the relay.  *)
(* The strongly fair steps are the outside world's share: a book asked for  *)
(* again and again is at some point answered with something other than a    *)
(* transient error, and a repeated send at some point succeeds.             *)
(* Handlers, users, admins and faults are not fair.                         *)
(***************************************************************************)
PollerFairness == WF_vars(PollerStep \/ HandoffStep(Poller))

NarratorrRecovers == SF_vars(\E reply \in HandoffReply \ {"transient"} : AddBook(Poller, reply))

FairSpec == Spec /\ PollerFairness /\ NarratorrRecovers
            /\ SF_vars(SendAvailable(Poller, "delivered"))

-------------------------------------------------------------------------------
\* Every variable has its type.
TypeOK == /\ req \in [Id -> Request]
          /\ job \in [Proc -> Job]
          /\ pass \in [phase : {"off", "stranded", "acquiring", "sweep"},
                       batch : SUBSET Id, wants : SUBSET Id]
          /\ emitted \in [Id -> Nat] /\ delivered \in [Id -> Nat]
          /\ faults \in 0..MaxFaults

\* No two rows of one (user, asin) are active at once, however the preflight
\* de-dupe reads of concurrent creates interleave with their inserts.
OneActivePerBook ==
  \A q, r \in Id : /\ q # r
                   /\ req[q].user = req[r].user /\ req[q].asin = req[r].asin
                   /\ req[q].status \in Active
                   => req[r].status \notin Active

\* Handlers of u that passed the quota check and have not inserted yet.
Admitted(u) == {h \in Handler : job[h].at = "insert" /\ job[h].user = u}

\* The quota check and the insert are separate awaits, so concurrent creates can
\* overshoot; rows counted in the window plus creates past the check stay within
\* the limit plus the creates that may run beside the last one admitted.
QuotaOvershootBounded ==
  \A u \in User : Limit[u] # None /\ Limit[u] > 0 =>
    Cardinality(CountedInWindow(u)) + Cardinality(Admitted(u)) <= Limit[u] + Cardinality(Handler) - 1

\* The poller's finders between them see every row in flight: approved rows have
\* no book yet, acquiring and available rows have one, so none is orphaned.
InFlightRowsAreFound ==
  \A r \in Id : /\ req[r].status = "approved" => r \in ApprovedAwaitingHandoff
                /\ req[r].status = "acquiring" => r \in Acquiring

\* request.failed is emitted at most once per row, for a failed row only, counting
\* the processes that claimed the edge and are about to emit.
Emitting(r) == {p \in Proc : job[p].at = "emit" /\ job[p].row = r}
EmittedAtMostOnce ==
  \A r \in Id : /\ emitted[r] + Cardinality(Emitting(r)) <= 1
                /\ emitted[r] > 0 \/ Emitting(r) # {} => req[r].status = "failed"

\* One requester gets one availability email per available row, one more for each
\* crash, database fault or lost relay answer that separated a delivery from its
\* marker, and none for any other row, however old the sweep's batch is.
DeliveriesBounded ==
  \A r \in Id : delivered[r] <= IF req[r].status = "available" THEN 1 + faults ELSE 0

\* Once denied, failed or available, a row's status and decision stand, whatever
\* snapshot a late handler or poller step still holds; a decision is never replaced.
SettledStands ==
  [][\A r \in Id :
       /\ req[r].status \in Final => req'[r].status = req[r].status
       /\ req[r].decidedBy # None => req'[r].decidedBy = req[r].decidedBy]_vars

\* The marker is set for a requester who is owed an email only after a delivery.
MarkedAfterDelivery ==
  [][\A r \in Id : ~req[r].notified /\ req'[r].notified /\ r \in pass.wants
                     => delivered[r] > 0]_vars

\* RequestLifecycle implements RequestPromise.
Promise == INSTANCE RequestPromise
             WITH Key <- User \X Asin, NoKey <- <<None, None>>,
                  stage <- [r \in Id |-> req[r].status],
                  key <- [r \in Id |-> <<req[r].user, req[r].asin>>],
                  emitted <- emitted,
                  marked <- [r \in Id |-> req[r].notified]

ImplementsPromise == Promise!Spec

\* An approved request is never permanently stranded.
ApprovedLeaves == \A r \in Id : req[r].status = "approved" ~> req[r].status # "approved"

\* Every acquiring row is polled again or has moved on, as long as the rows in
\* flight fit one batch.
AcquiringIsPolled ==
  \A r \in Id : req[r].status = "acquiring" ~>
                  req[r].status # "acquiring" \/ (job[Poller].at = "poll" /\ job[Poller].row = r)

\* Every available row's email is delivered or found not owed in the end.
AvailableIsNotified == \A r \in Id : req[r].status = "available" ~> req[r].notified
===============================================================================
