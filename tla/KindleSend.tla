------------------------------ MODULE KindleSend ------------------------------
(***************************************************************************)
(* Send-to-Kindle: KindleSendService with its per-user lock, its minute     *)
(* counter and its outcome slot, over the `kindle_sends` audit table, the   *)
(* clock, Narratorr's EPUB stream and the operator's SMTP relay.            *)
(*                                                                          *)
(* One action per await of an attempt.  Time is a bounded clock; the five   *)
(* windows are constants.  `sends` is durable and `relay` belongs to the    *)
(* outside world; the rest is process memory, lost by Crash.                *)
(***************************************************************************)
EXTENDS Integers, FiniteSets, Sequences

CONSTANTS User, Book,
          Attempt,        \* concurrent POST send-to-kindle handlers
          None,
          StartCap, StartWindow,   \* starts per user per rolling minute
          DailyCap, DailyWindow,   \* accepted sends per user per rolling day
          ReplayWindow, Lease, Deadline, Retention,
          MaxTime,        \* bound: clock
          MaxSends,       \* bound: rows ever inserted
          MaxFaults       \* bound: crashes and database faults

Send == 1..MaxSends

ASSUME KindleCapsAssumption == StartCap \in Nat \ {0} /\ DailyCap \in Nat \ {0}
ASSUME KindleWindowsAssumption ==
         /\ {StartWindow, DailyWindow, ReplayWindow, Lease, Deadline, Retention} \subseteq Nat
         /\ Deadline < Lease
ASSUME KindleBoundsAssumption == {MaxTime, MaxSends, MaxFaults} \subseteq Nat
ASSUME KindleNullAssumption == None \notin User \cup Book \cup Attempt
ASSUME KindleAttemptsAssumption == IsFiniteSet(Attempt)

VARIABLES now,
          sends,   \* sends[i]: row i of kindle_sends
          relay,   \* relay[i]: fate of the message of row i at the SMTP relay
          job,     \* job[p]: where attempt p stands
          locks,   \* locks[u]: the KeyedUserLock entry in the map
          line,    \* line[e]: promise chain of entry e's mutex; its head runs
          starts,  \* starts[u]: MinuteStartCounter's timestamps, only filtered and
                   \* counted: a set, the ones of one instant told apart by a number
          up,      \* the server listens
          faults

vars == <<now, sends, relay, job, locks, line, starts, up, faults>>

Terminal == {"sent", "failed", "indeterminate"}
Row == [user : User \cup {None}, book : Book \cup {None},
        status : {"absent", "started", "deleted"} \cup Terminal,
        started : 0..MaxTime, finalized : 0..MaxTime]
AbsentRow == [user |-> None, book |-> None, status |-> "absent", started |-> 0, finalized |-> 0]

\* One lock entry per attempt: enough for a fresh one, the least unused, to be always
\* at hand.
Entry == 1..Cardinality(Attempt)

Admission == {"sweep", "prune", "replay", "accepted", "active", "reserve"}
Feeding == {"open", "stream"}
Delivery == Feeding \cup {"reserved", "ended", "write", "reread"}
Job == [at : {"idle", "queued", "leaving"} \cup Admission \cup Delivery,
        user : User \cup {None}, book : Book \cup {None},
        entry : Entry \cup {0}, now : 0..MaxTime, used : 0..MaxSends,
        row : 0..MaxSends, deadline : 0..(MaxTime + Deadline),
        slot : Terminal \cup {None}, tries : 0..2]
Idle == [at |-> "idle", user |-> None, book |-> None, entry |-> 0, now |-> 0, used |-> 0,
         row |-> 0, deadline |-> 0, slot |-> None, tries |-> 0]

Init == /\ now = 0
        /\ sends = [i \in Send |-> AbsentRow]
        /\ relay = [i \in Send |-> "none"]
        /\ job = [p \in Attempt |-> Idle]
        /\ locks = [u \in User |-> 0]
        /\ line = [e \in Entry |-> <<>>]
        /\ starts = [u \in User |-> {}]
        /\ up = FALSE
        /\ faults = 0

memory == <<locks, line, starts>>
world == <<now, up, faults>>

-------------------------------------------------------------------------------
(* Policy: one convention for every window, a record aged exactly the window *)
(* length is inside it.                                                      *)

\* Mutant: the boundary falls outside.
StrictlyInside(t, at, window) == t > at - window
IsInsideWindow(t, at, window) == t >= at - window

Smaller(a, b) == IF a <= b THEN a ELSE b

\* Mutant: the deadline is not clamped to the remaining lease.
UnclampedBudget(at, startedAt) == IF startedAt + Lease <= at THEN 0 ELSE Deadline
SendBudget(at, startedAt) == Smaller(Deadline, startedAt + Lease - at)

\* MinuteStartCounter.live and record: a slot is spent only below the cap, so a number
\* is free.
LiveStarts(u, at) == {s \in starts[u] : IsInsideWindow(s[1], at, StartWindow)}
SpendStart(live, at) == live \cup {<<at, CHOOSE n \in 1..StartCap : <<at, n>> \notin live>>}

\* Rows of a user (and book), by status.
Started(u) == {i \in Send : sends[i].user = u /\ sends[i].status = "started"}
Settled(u) == {i \in Send : sends[i].user = u /\ sends[i].status \in Terminal}

\* Mutant: only a successful send is replayed.
SentReplays(u, b, at) == {i \in Settled(u) : /\ sends[i].book = b /\ sends[i].status = "sent"
                                             /\ IsInsideWindow(sends[i].finalized, at, ReplayWindow)}
Replays(u, b, at) == {i \in Settled(u) : /\ sends[i].book = b
                                         /\ IsInsideWindow(sends[i].finalized, at, ReplayWindow)}

Accepted(u, at) == {i \in Settled(u) : /\ sends[i].status = "sent"
                                       /\ IsInsideWindow(sends[i].finalized, at, DailyWindow)}

\* Over-lease reservations; a live one is started within the lease.
Expired(i, at) == sends[i].status = "started" /\ ~IsInsideWindow(sends[i].started, at, Lease)

Swept(owners, at) ==
  [i \in Send |-> IF Expired(i, at) /\ sends[i].user \in owners
                  THEN [sends[i] EXCEPT !.status = "indeterminate", !.finalized = at]
                  ELSE sends[i]]

Stale(i, at) == /\ sends[i].status \in Terminal
                /\ ~IsInsideWindow(sends[i].finalized, at, Retention)

\* Mutant: no partial unique index on (user, book) over the started rows.
NoActiveIndex(u, b) == FALSE
ActiveCollision(u, b) == \E i \in Started(u) : sends[i].book = b

Goto(p, l) == job' = [job EXCEPT ![p].at = l]
At(p, l) == job[p].at = l

-------------------------------------------------------------------------------
(* KeyedUserLock over Mutex: an entry's `waiters` are the attempts holding it *)

Waiters(e) == {p \in Attempt : job[p].entry = e}

\* send: the preflight passed (a refused one changes nothing), then locks.run
\* takes the user's entry, or a new one, and chains onto its mutex.
Enter(p, u, b) ==
  /\ up /\ At(p, "idle")
  /\ \E e \in Entry :
       /\ IF locks[u] = 0 THEN Waiters(e) = {} /\ \A d \in 1..(e - 1) : Waiters(d) # {}
                          ELSE e = locks[u]
       /\ locks' = [locks EXCEPT ![u] = e]
       /\ line' = [line EXCEPT ![e] = Append(@, p)]
       /\ job' = [job EXCEPT ![p] = [Idle EXCEPT !.at = "queued", !.user = u, !.book = b,
                                                 !.entry = e]]
  /\ UNCHANGED <<sends, relay, starts, world>>

\* Mutex.run: the next callback starts once the one before it settled; admit
\* captures one `now` for the whole section.
Begin(p) ==
  /\ At(p, "queued")
  /\ Head(line[job[p].entry]) = p
  /\ job' = [job EXCEPT ![p] = [@ EXCEPT !.at = "sweep", !.now = now]]
  /\ UNCHANGED <<sends, relay, memory, world>>

\* Mutant: a rejected section is never chained past.
PoisonedLeave(p, resolved) ==
  /\ Goto(p, "leaving")
  /\ line' = [line EXCEPT ![job[p].entry] = IF resolved THEN Tail(@) ELSE @]

\* The section settles, resolved or rejected: the mutex goes on either way.
Leave(p, resolved) ==
  /\ Goto(p, "leaving")
  /\ line' = [line EXCEPT ![job[p].entry] = Tail(@)]

\* Mutant: the entry is deleted whoever else waits on it.
NaiveCleanup(p) ==
  /\ At(p, "leaving")
  /\ locks' = [locks EXCEPT ![job[p].user] = 0]
  /\ job' = [job EXCEPT ![p] = Idle]
  /\ UNCHANGED <<sends, relay, line, starts, world>>

\* The `finally` of KeyedUserLock.run.
Cleanup(p) ==
  LET u == job[p].user
      e == job[p].entry
  IN /\ At(p, "leaving")
     /\ locks' = [locks EXCEPT ![u] = IF Waiters(e) = {p} /\ @ = e THEN 0 ELSE @]
     /\ job' = [job EXCEPT ![p] = Idle]
     /\ UNCHANGED <<sends, relay, line, starts, world>>

-------------------------------------------------------------------------------
(* admit: sweep, prune, replay, counts, reservation                          *)

\* Mutant: the admission sweep is global, like the boot sweep.
SweepEveryone(p) ==
  /\ At(p, "sweep")
  /\ sends' = Swept(User, job[p].now)
  /\ Goto(p, "prune")
  /\ UNCHANGED <<relay, memory, world>>

SweepLeases(p) ==
  /\ At(p, "sweep")
  /\ sends' = Swept({job[p].user}, job[p].now)
  /\ Goto(p, "prune")
  /\ UNCHANGED <<relay, memory, world>>

PruneRetention(p) ==
  /\ At(p, "prune")
  /\ sends' = [i \in Send |-> IF Stale(i, job[p].now)
                              THEN [sends[i] EXCEPT !.status = "deleted"] ELSE sends[i]]
  /\ Goto(p, "replay")
  /\ UNCHANGED <<relay, memory, world>>

\* findReplay, and the minute counter right behind it (it prunes as it reads).
FindReplay(p) ==
  LET u == job[p].user
      live == LiveStarts(u, job[p].now)
  IN /\ At(p, "replay")
     /\ IF Replays(u, job[p].book, job[p].now) # {}
        THEN Leave(p, TRUE) /\ UNCHANGED starts
        ELSE /\ starts' = [starts EXCEPT ![u] = live]
             /\ IF Cardinality(live) < StartCap THEN Goto(p, "accepted") /\ UNCHANGED line
                ELSE Leave(p, TRUE)
     /\ UNCHANGED <<sends, relay, locks, world>>

\* dailyUsage, first query: sends accepted within the day.
CountAccepted(p) ==
  /\ At(p, "accepted")
  /\ job' = [job EXCEPT ![p] = [@ EXCEPT !.at = "active",
                                  !.used = Cardinality(Accepted(job[p].user, job[p].now))]]
  /\ UNCHANGED <<sends, relay, memory, world>>

\* dailyUsage, second query: reservations within their lease count too.  Below the
\* cap, the minute slot is spent and the insert is issued.
CountActive(p) ==
  LET u == job[p].user
      at == job[p].now
      live == {i \in Started(u) : IsInsideWindow(sends[i].started, at, Lease)}
  IN /\ At(p, "active")
     /\ IF job[p].used + Cardinality(live) >= DailyCap
        THEN Leave(p, TRUE) /\ UNCHANGED starts
        ELSE /\ starts' = [starts EXCEPT ![u] = SpendStart(LiveStarts(u, at), at)]
             /\ Goto(p, "reserve")
             /\ UNCHANGED line
     /\ UNCHANGED <<sends, relay, locks, world>>

\* The next autoincrement id; none at the bound.
FreeRow == {i \in Send : sends[i].status = "absent" /\ \A k \in 1..(i - 1) : sends[k].status # "absent"}

Inserted(p, i) == [sends EXCEPT ![i] = [AbsentRow EXCEPT !.user = job[p].user, !.book = job[p].book,
                                                         !.status = "started", !.started = job[p].now]]

\* reserve: an active collision answers rate_limited.
Reserve(p) ==
  /\ At(p, "reserve")
  /\ \/ /\ ActiveCollision(job[p].user, job[p].book) \/ FreeRow = {}
        /\ Leave(p, TRUE)
        /\ UNCHANGED sends
     \/ /\ ~ActiveCollision(job[p].user, job[p].book)
        /\ \E i \in FreeRow :
             /\ sends' = Inserted(p, i)
             /\ job' = [job EXCEPT ![p] = [@ EXCEPT !.at = "reserved", !.row = i]]
        /\ UNCHANGED line
  /\ UNCHANGED <<relay, locks, starts, world>>

-------------------------------------------------------------------------------
(* deliver: the attempt and the deadline race for one outcome slot            *)

\* OutcomeSlot.claim: the first writer wins.
Claim(p, outcome) == IF job[p].slot = None THEN outcome ELSE job[p].slot

\* The attempt settled, so `running` resolves and finalize begins.
Conclude(p, outcome) ==
  job' = [job EXCEPT ![p] = [@ EXCEPT !.at = "write", !.slot = Claim(p, outcome)]]

\* The reservation is observed: arm the timer and open the stream, or give up.
Deliver(p) ==
  LET budget == SendBudget(now, sends[job[p].row].started)
  IN /\ At(p, "reserved")
     /\ IF budget <= 0 THEN Conclude(p, "failed")
        ELSE job' = [job EXCEPT ![p] = [@ EXCEPT !.at = "open", !.deadline = now + budget]]
     /\ UNCHANGED <<sends, relay, memory, world>>

\* openCompanionEpub resolved with the slot still free: pipe, and call sendMail.
OpenStream(p) ==
  /\ At(p, "open") /\ job[p].slot = None
  /\ Goto(p, "stream")
  /\ UNCHANGED <<sends, relay, memory, world>>

\* The open or the unfinished body failed (upstream, cap, size mismatch, a refused
\* or dropped SMTP session, our own teardown): DATA never completes.
AttemptFails(p) ==
  /\ job[p].at \in Feeding
  /\ Conclude(p, "failed")
  /\ UNCHANGED <<sends, relay, memory, world>>

\* Mutant: the stream's end does not look at the slot the deadline may have claimed.
StreamEndsLate(p) ==
  /\ At(p, "stream")
  /\ Goto(p, "ended")
  /\ relay' = [relay EXCEPT ![job[p].row] = "submitted"]
  /\ UNCHANGED <<sends, memory, world>>

\* Every byte was consumed and the size check passed: the message can go through.
StreamEnds(p) ==
  /\ At(p, "stream") /\ job[p].slot = None
  /\ Goto(p, "ended")
  /\ relay' = [relay EXCEPT ![job[p].row] = "submitted"]
  /\ UNCHANGED <<sends, memory, world>>

\* sendMail settles after the end: the relay's answer arrived, or the connection
\* was lost before it did.
SendMailSettles(p, reply) ==
  /\ At(p, "ended")
  /\ reply # "lost" => relay[job[p].row] = reply
  /\ Conclude(p, CASE reply = "accepted" -> "sent"
                   [] reply = "refused" -> "failed"
                   [] reply = "lost" -> "indeterminate")
  /\ UNCHANGED <<sends, relay, memory, world>>

\* Mutant: a timed out attempt is a failed one, whatever was handed over.
AlwaysFailed(p) == "failed"
DeadlineOutcome(p) == IF At(p, "ended") THEN "indeterminate" ELSE "failed"

Armed(p) == job[p].at \in Feeding \cup {"ended"} /\ job[p].slot = None

\* The timer claims the slot; the teardown aborts whatever has not ended, and the
\* section still waits for sendMail to settle.
DeadlineFires(p) ==
  /\ Armed(p) /\ now = job[p].deadline
  /\ job' = [job EXCEPT ![p].slot = Claim(p, DeadlineOutcome(p))]
  /\ UNCHANGED <<sends, relay, memory, world>>

-------------------------------------------------------------------------------
(* finalize: the checked terminal write, one retry, then a re-read            *)

\* Mutant: UPDATE ... WHERE id alone.
WriteById(p) == [sends EXCEPT ![job[p].row] = [@ EXCEPT !.status = job[p].slot, !.finalized = now]]
\* UPDATE ... WHERE id AND status = 'started'.
TerminalWrite(p) ==
  IF sends[job[p].row].status = "started"
  THEN [sends EXCEPT ![job[p].row] = [@ EXCEPT !.status = job[p].slot, !.finalized = now]]
  ELSE sends

Retry(p) ==
  LET n == job[p].tries + 1
  IN job' = [job EXCEPT ![p] = [@ EXCEPT !.tries = n, !.at = IF n = 1 THEN "write" ELSE "reread"]]

Finalize(p) ==
  /\ At(p, "write")
  /\ sends' = TerminalWrite(p)
  /\ IF sends[job[p].row].status = "started" THEN Leave(p, TRUE)
     ELSE Retry(p) /\ UNCHANGED line
  /\ UNCHANGED <<relay, locks, starts, world>>

\* An absent or still started row is reported as a 500, any other as it is.
Reread(p) ==
  /\ At(p, "reread")
  /\ Leave(p, sends[job[p].row].status \in Terminal)
  /\ UNCHANGED <<sends, relay, locks, starts, world>>

-------------------------------------------------------------------------------
(* Faults and the environment                                                *)

\* A database call rejects.  Before the reservation it ends the attempt (a failed
\* prune is swallowed); a rejected insert or terminal write may have committed.
DatabaseFault(p) ==
  /\ faults < MaxFaults /\ faults' = faults + 1
  /\ \/ /\ job[p].at \in {"sweep", "replay", "accepted", "active", "reserve", "reread"}
        /\ Leave(p, FALSE)
        /\ \/ UNCHANGED sends
           \/ /\ At(p, "reserve") /\ ~ActiveCollision(job[p].user, job[p].book)
              /\ \E i \in FreeRow : sends' = Inserted(p, i)
     \/ /\ At(p, "prune")
        /\ Goto(p, "replay")
        /\ UNCHANGED <<sends, line>>
     \/ /\ At(p, "write")
        /\ sends' \in {sends, TerminalWrite(p)}
        /\ Retry(p)
        /\ UNCHANGED line
  /\ UNCHANGED <<relay, locks, starts, now, up>>

\* The relay decides a submitted message in its own time, heard or not.
RelayDecides(i, fate) ==
  /\ relay[i] = "submitted"
  /\ relay' = [relay EXCEPT ![i] = fate]
  /\ UNCHANGED <<sends, job, memory, world>>

\* setTimeout is punctual: the clock does not pass an armed deadline.
Tick == /\ now < MaxTime
        /\ \A p \in Attempt : Armed(p) => now < job[p].deadline
        /\ now' = now + 1
        /\ UNCHANGED <<sends, relay, job, memory, up, faults>>

Crash == /\ up /\ faults < MaxFaults
         /\ faults' = faults + 1
         /\ up' = FALSE
         /\ job' = [p \in Attempt |-> Idle]
         /\ locks' = [u \in User |-> 0]
         /\ line' = [e \in Entry |-> <<>>]
         /\ starts' = [u \in User |-> {}]
         /\ UNCHANGED <<now, sends, relay>>

\* startServing: the global lease sweep is awaited, then the server listens.
Boot == /\ ~up
        /\ sends' = Swept(User, now)
        /\ up' = TRUE
        /\ UNCHANGED <<now, relay, job, memory, faults>>

-------------------------------------------------------------------------------

AttemptStep(p) ==
  \/ Begin(p) \/ SweepLeases(p) \/ PruneRetention(p) \/ FindReplay(p)
  \/ CountAccepted(p) \/ CountActive(p) \/ Reserve(p)
  \/ Deliver(p) \/ OpenStream(p) \/ AttemptFails(p) \/ StreamEnds(p)
  \/ \E reply \in {"accepted", "refused", "lost"} : SendMailSettles(p, reply)
  \/ DeadlineFires(p) \/ Finalize(p) \/ Reread(p) \/ Cleanup(p)

Environment == \/ \E i \in Send, fate \in {"accepted", "refused"} : RelayDecides(i, fate)
               \/ \E p \in Attempt : DatabaseFault(p)
               \/ Tick \/ Crash \/ Boot

Next == \/ \E p \in Attempt, u \in User, b \in Book : Enter(p, u, b)
        \/ \E p \in Attempt : AttemptStep(p)
        \/ Environment

Spec == Init /\ [][Next]_vars

\* The steps that wait for nobody outside the process: the mutex's next callback, the
\* arming and the firing of the timer, the clean-up.  They alone are fair: no database
\* call and no SMTP session has a finite bound (kindle-send.policy.ts), a section may
\* be held until the process restarts.
OwnStep(p) == Begin(p) \/ Deliver(p) \/ DeadlineFires(p) \/ Cleanup(p)

FairSpec == Spec /\ \A p \in Attempt : WF_vars(OwnStep(p))

-------------------------------------------------------------------------------
\* Every variable has its type.
TypeOK == /\ now \in 0..MaxTime
          /\ sends \in [Send -> Row]
          /\ relay \in [Send -> {"none", "submitted", "accepted", "refused"}]
          /\ job \in [Attempt -> Job]
          /\ locks \in [User -> Entry \cup {0}]
          /\ line \in [Entry -> Seq(Attempt)]
          /\ starts \in [User -> SUBSET ((0..MaxTime) \X (1..StartCap))]
          /\ up \in BOOLEAN
          /\ faults \in 0..MaxFaults

InSection(u) == {p \in Attempt : job[p].user = u /\ job[p].at \in Admission \cup Delivery}

\* At most one attempt per user is inside the critical section, whatever entries
\* come and go in the lock map.
OneInSection == \A u \in User : Cardinality(InSection(u)) <= 1

\* The reservation an attempt sends against stays its own and `started` until it
\* writes the outcome: no sweep or prune of any user takes it away.
ReservationStands ==
  \A p \in Attempt :
    job[p].at \in Delivery /\ job[p].tries = 0 =>
      LET row == sends[job[p].row]
      IN row.status = "started" /\ row.user = job[p].user /\ row.book = job[p].book

\* At most one live reservation per (user, book), the ones crashes left included.
OneReservationPerBook ==
  \A i, k \in Send : /\ i # k
                     /\ sends[i].user = sends[k].user /\ sends[i].book = sends[k].book
                     /\ sends[i].status = "started"
                     => sends[k].status # "started"

\* A recorded outcome is never contradicted by the relay: `failed` only for a
\* message that cannot arrive, `sent` only for one the relay accepted.
HonestOutcomes ==
  \A i \in Send : /\ sends[i].status = "failed" => relay[i] \in {"none", "refused"}
                  /\ sends[i].status = "sent" => relay[i] = "accepted"

\* No reservation is fed bytes past its own lease.
NeverFedPastLease ==
  \A p \in Attempt : job[p].at \in Feeding /\ job[p].slot = None
                       => now <= sends[job[p].row].started + Lease

\* The two rolling caps of a user: at most DailyCap sends recorded as accepted in
\* any day, and at most StartCap reservations in any minute per run of the process
\* (a restart gives the starts back).
CapsHold ==
  \A u \in User :
    /\ Cardinality({i \in Send : sends[i].user = u /\ sends[i].status = "sent"
                                 /\ sends[i].finalized >= now - DailyWindow}) <= DailyCap
    /\ Cardinality({i \in Send : sends[i].user = u /\ sends[i].started >= now - StartWindow
                                 /\ sends[i].status # "absent"})
         <= StartCap * (1 + faults)

\* A book is not reserved again within the replay window of any finished attempt.
ReplaySuppressed ==
  [][\A i, k \in Send :
       /\ sends[i].status = "absent" /\ sends'[i].status = "started"
       /\ sends[k].status \in Terminal
       /\ sends[k].user = sends'[i].user /\ sends[k].book = sends'[i].book
       => sends[k].finalized < sends'[i].started - ReplayWindow]_vars

\* A finished row is never rewritten, only deleted by retention.
OutcomeStands ==
  [][\A i \in Send : sends[i].status \in Terminal
       => sends'[i] = sends[i] \/ sends'[i].status = "deleted"]_vars

\* KindleSend implements SendPromise: attempts that wait, fail, time out, crash or lose
\* a database answer hand a message over at most once, against a live reservation, and
\* record only what the relay cannot contradict later.
Promise == INSTANCE SendPromise
             WITH Id <- Send, Key <- User \X Book, NoKey <- <<None, None>>,
                  record <- [i \in Send |-> sends[i].status],
                  key <- [i \in Send |-> <<sends[i].user, sends[i].book>>],
                  message <- relay

ImplementsPromise == Promise!Spec

\* Where an attempt waits for the database, the EPUB stream or the relay.
Outside == Admission \cup Feeding \cup {"ended", "write", "reread"}

\* No such wait of an attempt of u lasts for ever.
AwaitsEnd(u) ==
  \A p \in Attempt, l \in Outside : []<>~(job[p].user = u /\ job[p].at = l)

\* Only a user's own endless await can keep a send of that user from its answer: one
\* behind a rejected section, or one that met its deadline, is answered.
EverySendAnswered ==
  \A u \in User : AwaitsEnd(u) =>
    \A p \in Attempt : job[p].at # "idle" /\ job[p].user = u ~> job[p].at = "idle"
===============================================================================
