---------------------------- MODULE FrontDoorProofs ----------------------------
(***************************************************************************)
(* The loops that share no state with the rest of the server: the tick      *)
(* guard of the status poller, the search throttle and the download proxy,  *)
(* each for any number of users, requests and tabs.                         *)
(***************************************************************************)
EXTENDS EbookDownload, Search, PollerBackoff, TLAPS

(* The tick guard *)

\* Ticks a streak of n has behind it, or still to skip.
Spaced(n) == Doubled(n) + n - 1

\* Between passes the skips still due count; in a pass none are, and the tick that
\* started it has been counted.
BackoffInv ==
  /\ failureStreak \in 0..MaxStreak /\ elapsed \in 0..MaxElapsed
  /\ failureStreak \in 1..4 =>
       /\ skipTicks \in Nat
       /\ IF phase = "idle" THEN elapsed + skipTicks >= Smaller(Spaced(failureStreak), MaxElapsed)
          ELSE skipTicks = 0 /\ elapsed >= Smaller(Spaced(failureStreak) + 1, MaxElapsed)

LEMMA SkipsDouble ==
  ASSUME SkipCap >= 8
  PROVE  /\ SkipFor(1) = 1 /\ SkipFor(2) = 2 /\ SkipFor(3) = 4 /\ SkipFor(4) = 8
         /\ SkipFor(5) \in Nat
<1>1. /\ 2^(1 - 1) = 1 /\ 2^(2 - 1) = 2 /\ 2^(3 - 1) = 4 /\ 2^(4 - 1) = 8 /\ 2^(5 - 1) = 16
  <2>1. 1 - 1 = 0 /\ 2 - 1 = 1 /\ 3 - 1 = 2 /\ 4 - 1 = 3 /\ 5 - 1 = 4
    OBVIOUS
  <2>2. 2^0 = 1 /\ 2^1 = 2 /\ 2^2 = 4 /\ 2^3 = 8 /\ 2^4 = 16
    OBVIOUS
  <2>. QED  BY <2>1, <2>2
<1>. QED  BY <1>1, BackoffAssumption DEF SkipFor, Smaller

LEMMA SpacedValues == Spaced(1) = 1 /\ Spaced(2) = 4 /\ Spaced(3) = 9 /\ Spaced(4) = 18
  BY DEF Spaced, Doubled

\* One more failure lengthens the streak and doubles the skip.
LEMMA BackoffKeeps ==
  ASSUME BackoffInv, SkipCap >= 8, phase # "idle", Backoff, phase' = "idle", elapsed' = elapsed
  PROVE  BackoffInv'
<1>. DEFINE n == failureStreak
            m == Smaller(n + 1, MaxStreak)
<1>0. MaxStreak \in Nat \ {0} /\ MaxElapsed \in Nat \ {0}
  BY BackoffAssumption
<1>1. n \in 0..MaxStreak /\ elapsed \in 0..MaxElapsed /\ n \in Nat
  BY <1>0 DEF BackoffInv
<1>2. /\ n \in 1..4 => elapsed >= Smaller(Spaced(n) + 1, MaxElapsed)
      /\ failureStreak' = m /\ skipTicks' = SkipFor(n + 1)
  BY DEF BackoffInv, Backoff
<1>3. m \in 0..MaxStreak /\ (m = n + 1 \/ (m = n /\ n = MaxStreak))
  BY <1>0, <1>1 DEF Smaller
<1>4. ASSUME m \in 1..4
      PROVE  skipTicks' \in Nat /\ elapsed + skipTicks' >= Smaller(Spaced(m), MaxElapsed)
  <2>1. n \in {0, 1, 2, 3, 4}
    BY <1>0, <1>1, <1>3, <1>4
  <2>. HIDE DEF m
  <2>2. CASE n = 0
    <3>1. m = 1 /\ skipTicks' = 1
      BY <1>0, <1>2, <1>3, <2>2, SkipsDouble
    <3>. QED  BY <1>0, <1>1, <3>1, SpacedValues DEF Smaller
  <2>3. CASE n = 1
    <3>1. m \in {1, 2} /\ skipTicks' = 2 /\ elapsed >= Smaller(2, MaxElapsed)
      BY <1>0, <1>2, <1>3, <2>3, SkipsDouble, SpacedValues
    <3>. QED  BY <1>0, <1>1, <3>1, SpacedValues DEF Smaller
  <2>4. CASE n = 2
    <3>1. m \in {2, 3} /\ skipTicks' = 4 /\ elapsed >= Smaller(5, MaxElapsed)
      BY <1>0, <1>2, <1>3, <2>4, SkipsDouble, SpacedValues
    <3>. QED  BY <1>0, <1>1, <3>1, SpacedValues DEF Smaller
  <2>5. CASE n = 3
    <3>1. m \in {3, 4} /\ skipTicks' = 8 /\ elapsed >= Smaller(10, MaxElapsed)
      BY <1>0, <1>2, <1>3, <2>5, SkipsDouble, SpacedValues
    <3>. QED  BY <1>0, <1>1, <3>1, SpacedValues DEF Smaller
  <2>6. CASE n = 4
    <3>1. m = 4 /\ skipTicks' \in Nat /\ elapsed >= Smaller(19, MaxElapsed)
      BY <1>0, <1>2, <1>3, <1>4, <2>6, SkipsDouble, SpacedValues
    <3>. QED  BY <1>0, <1>1, <3>1, SpacedValues DEF Smaller
  <2>. QED  BY <2>1, <2>2, <2>3, <2>4, <2>5, <2>6
<1>. HIDE DEF m
<1>. QED  BY <1>1, <1>2, <1>3, <1>4 DEF BackoffInv

LEMMA StepBackoffInv ==
  ASSUME BackoffInv, SkipCap >= 8, [BackoffNext]_backoffVars
  PROVE  BackoffInv'
<1>0. MaxStreak \in Nat \ {0} /\ MaxElapsed \in Nat \ {0}
  BY BackoffAssumption
<1>1. failureStreak \in 0..MaxStreak /\ elapsed \in 0..MaxElapsed
  BY DEF BackoffInv
<1>2. \A n \in 1..4 : Spaced(n) \in Nat
  BY SpacedValues
<1>3. Ticked => elapsed' \in 0..MaxElapsed /\ (failureStreak \in 1..4 => elapsed' = Smaller(elapsed + 1, MaxElapsed))
  BY <1>0, <1>1 DEF Ticked, Smaller
<1>4. CASE SkipTick
  BY <1>0, <1>1, <1>2, <1>3, <1>4 DEF SkipTick, BackoffInv, Smaller
<1>5. CASE StartPass
  BY <1>0, <1>1, <1>2, <1>3, <1>5 DEF StartPass, BackoffInv, Smaller
<1>6. CASE DropTick
  BY <1>0, <1>1, <1>2, <1>3, <1>6 DEF DropTick, BackoffInv, Smaller
<1>7. CASE EndPass
  <2>1. CASE Backoff
    <3>1. failureStreak' # 0
      BY <1>0, <1>1, <2>1 DEF Backoff, Smaller
    <3>. QED  BY <1>7, <2>1, <3>1, BackoffKeeps DEF EndPass
  <2>2. CASE Calm
    BY <1>0, <1>7, <2>2 DEF EndPass, Calm, BackoffInv
  <2>. QED  BY <1>7, <2>1, <2>2 DEF EndPass
<1>8. CASE Throw
  BY <1>8, BackoffKeeps DEF Throw
<1>9. CASE \/ \E field \in {"transitioned", "upstreamErrors"} : Recover(field)
           \/ FindAcquiring \/ Poll \/ Sweep \/ UNCHANGED backoffVars
  BY <1>9 DEF Recover, FindAcquiring, Poll, Sweep, backoffVars, BackoffInv
<1>. QED  BY <1>4, <1>5, <1>6, <1>7, <1>8, <1>9 DEF BackoffNext, PassStep

\* With the cap the code has, or a larger one, n failed passes in a row take the
\* ticks of their doubling backoffs, whatever happens between the ticks.
THEOREM StreaksAreSpaced ==
  ASSUME SkipCap >= 8
  PROVE  BackoffSpec => []StreakIsSpaced
<1>1. BackoffInit => BackoffInv
  BY BackoffAssumption DEF BackoffInit, BackoffInv
<1>2. BackoffInv /\ [BackoffNext]_backoffVars => BackoffInv'
  BY StepBackoffInv
<1>3. BackoffInv => StreakIsSpaced
  <2>1. ASSUME BackoffInv, failureStreak \in 1..4
        PROVE  elapsed + skipTicks >= Smaller(Doubled(failureStreak) + failureStreak - 1, MaxElapsed)
    <3>1. MaxElapsed \in Nat /\ elapsed \in Nat /\ Spaced(failureStreak) \in Nat
      BY <2>1, BackoffAssumption, SpacedValues DEF BackoffInv
    <3>2. elapsed + skipTicks >= Smaller(Spaced(failureStreak), MaxElapsed)
      BY <2>1, <3>1 DEF BackoffInv, Smaller
    <3>. QED  BY <3>2 DEF Spaced
  <2>. QED  BY <2>1 DEF StreakIsSpaced
<1>. QED  BY <1>1, <1>2, <1>3, PTL DEF BackoffSpec

-------------------------------------------------------------------------------
(* The download proxy and the sheet *)

ReqRow == [at : {"idle", "arrived", "opening", "refused", "peek", "streaming", "done"},
           by : Click \cup {None}, gone : BOOLEAN,
           upstream : {"none", "opening", "open", "ended", "released"},
           body : 0..MaxBody, declared : 0..MaxBody \cup {None}, read : 0..MaxBody,
           head : {"none", "error", "ok"}, sent : 0..MaxBody, tail : {"none", "end", "cut"}]

ClickRow == [at : {"idle", "fetching", "reading", "saved", "toasted", "navigated"},
             req : Req \cup {None}, got : 0..Limit]

\* What is on the wire was read, and only a body that was passed on to its last
\* chunk ends in order.
RowOK(q) == /\ q \in ReqRow
            /\ q.sent <= q.read /\ q.read <= q.body
            /\ q.at \notin {"streaming", "done"} => q.read = 0 /\ q.sent = 0 /\ q.tail = "none"
            /\ q.at = "streaming" => q.tail = "none"
            /\ q.tail = "end" => q.at = "done" /\ q.sent = q.body
            /\ q.at = "done" => q.upstream \in {"none", "ended", "released"}

\* A run that reads has a request that is not forgotten, and no more than it sent;
\* a saved file is as long as the body.
ClickOK(c) ==
  /\ click[c].at \in {"fetching", "reading", "saved"} => click[c].req \in Req /\ Answer(c).at # "idle"
  /\ click[c].at = "fetching" => click[c].got = 0
  /\ click[c].at = "reading" => click[c].got <= Answer(c).sent
  /\ click[c].at = "saved" => Answer(c).at = "done" /\ click[c].got = Answer(c).body

DownloadInv == /\ req \in [Req -> ReqRow] /\ \A r \in Req : RowOK(req[r])
               /\ click \in [Click -> ClickRow] /\ \A c \in Click : ClickOK(c)
               /\ busy \in Click \cup {None} /\ faults \in 0..MaxFaults

\* What a request may become while a run reads it.
Follows(old, new) ==
  old.at # "idle" => /\ new.at # "idle" /\ new.sent >= old.sent
                     /\ old.at = "done" => new.at = "done" /\ new.body = old.body

ReqMoves == /\ req' \in [Req -> ReqRow]
            /\ \A r \in Req : RowOK(req'[r]) /\ Follows(req[r], req'[r])

LEMMA OneMoves ==
  ASSUME DownloadInv, NEW r \in Req, NEW x, RowOK(x), Follows(req[r], x), req' = [req EXCEPT ![r] = x]
  PROVE  ReqMoves
<1>1. x \in ReqRow
  BY DEF RowOK
<1>2. req' \in [Req -> ReqRow] /\ req'[r] = x /\ \A q \in Req \ {r} : req'[q] = req[q]
  BY <1>1 DEF DownloadInv
<1>3. ASSUME NEW q \in Req
      PROVE  Follows(req[q], req[q]) /\ RowOK(req[q])
  <2>1. req[q].sent \in Nat
    BY EbookAssumption DEF DownloadInv, ReqRow
  <2>. QED  BY <2>1 DEF Follows, DownloadInv
<1>. QED  BY <1>2, <1>3 DEF ReqMoves

\* Numbers of a row, as the provers need them.
LEMMA RowNumbers ==
  ASSUME NEW q, RowOK(q)
  PROVE  /\ q \in ReqRow /\ q.sent \in Nat /\ q.read \in Nat /\ q.body \in Nat
         /\ q.sent <= q.read /\ q.read <= q.body /\ q.body <= MaxBody
  BY EbookAssumption DEF RowOK, ReqRow

LEMMA RefuseMoves ==
  ASSUME DownloadInv, NEW r \in Req, NEW upstream \in {"none", "released"}, Refuse(r, upstream),
         req[r].at \in {"arrived", "opening", "refused", "peek"}
  PROVE  ReqMoves
<1>. DEFINE head == IF req[r].head = "none" /\ ~req[r].gone THEN "error" ELSE req[r].head
            x == [req[r] EXCEPT !.at = "done", !.upstream = upstream, !.head = head]
<1>1. req[r] \in ReqRow /\ RowOK(req[r])
  BY DEF DownloadInv
<1>2. head \in {"none", "error", "ok"}
  BY <1>1 DEF ReqRow
<1>3. req' = [req EXCEPT ![r] = x]
  BY DEF Refuse
<1>. HIDE DEF head
<1>4. RowOK(x)
  BY <1>1, <1>2, RowNumbers DEF RowOK, ReqRow
<1>5. Follows(req[r], x)
  BY <1>1, RowNumbers DEF Follows, ReqRow
<1>. HIDE DEF x
<1>. QED  BY <1>3, <1>4, <1>5, OneMoves

LEMMA BreakMoves ==
  ASSUME DownloadInv, NEW r \in Req, BreakBody(r), req[r].at = "streaming"
  PROVE  ReqMoves
<1>. DEFINE x == [req[r] EXCEPT !.at = "done", !.upstream = "released", !.tail = "cut"]
<1>1. RowOK(req[r])
  BY DEF DownloadInv
<1>2. req' = [req EXCEPT ![r] = x]
  BY DEF BreakBody, DownloadInv
<1>3. RowOK(x)
  BY <1>1, RowNumbers DEF RowOK, ReqRow
<1>4. Follows(req[r], x)
  BY <1>1, RowNumbers DEF Follows, ReqRow
<1>. HIDE DEF x
<1>. QED  BY <1>2, <1>3, <1>4, OneMoves

LEMMA GuardMoves ==
  ASSUME DownloadInv, NEW r \in Req, Guard(r)
  PROVE  ReqMoves
<1>. DEFINE x == [req[r] EXCEPT !.at = "opening", !.upstream = "opening"]
<1>1. RowOK(req[r]) /\ req[r].at = "arrived"
  BY DEF DownloadInv, Guard
<1>2. CASE Refuse(r, "none")
  BY <1>1, <1>2, RefuseMoves
<1>3. CASE req' = [req EXCEPT ![r].at = "opening", ![r].upstream = "opening"]
  <2>1. req' = [req EXCEPT ![r] = x]
    BY <1>3 DEF DownloadInv
  <2>2. RowOK(x)
    BY <1>1, RowNumbers DEF RowOK, ReqRow
  <2>3. Follows(req[r], x)
    BY <1>1, RowNumbers DEF Follows, ReqRow
  <2>. HIDE DEF x
  <2>. QED  BY <2>1, <2>2, <2>3, OneMoves
<1>. QED  BY <1>2, <1>3 DEF Guard

LEMMA OpenMoves ==
  ASSUME DownloadInv, NEW r \in Req, OpenFails(r) \/ OpenRefused(r) \/ ReasonRead(r)
  PROVE  ReqMoves
<1>. DEFINE x == [req[r] EXCEPT !.at = "refused", !.upstream = "open"]
<1>1. RowOK(req[r])
  BY DEF DownloadInv
<1>2. CASE OpenFails(r) \/ ReasonRead(r)
  BY <1>2, RefuseMoves DEF OpenFails, ReasonRead
<1>3. CASE OpenRefused(r)
  <2>1. req' = [req EXCEPT ![r] = x] /\ req[r].at = "opening"
    BY <1>3 DEF OpenRefused, DownloadInv
  <2>2. RowOK(x)
    BY <1>1, <2>1, RowNumbers DEF RowOK, ReqRow
  <2>3. Follows(req[r], x)
    BY <1>1, <2>1, RowNumbers DEF Follows, ReqRow
  <2>. HIDE DEF x
  <2>. QED  BY <2>1, <2>2, <2>3, OneMoves
<1>. QED  BY <1>2, <1>3

\* The body that arrives has any length; none of it has been read.
LEMMA OpenedMoves ==
  ASSUME DownloadInv, NEW r \in Req, Opened(r)
  PROVE  ReqMoves
<1>1. RowOK(req[r]) /\ req[r].at = "opening"
  BY DEF DownloadInv, Opened
<1>2. PICK n \in 0..MaxBody, d \in 0..MaxBody \cup {None} :
        req' = [req EXCEPT ![r].at = "peek", ![r].upstream = "open", ![r].body = n, ![r].declared = d]
  BY DEF Opened
<1>. DEFINE x == [req[r] EXCEPT !.at = "peek", !.upstream = "open", !.body = n, !.declared = d]
<1>3. req' = [req EXCEPT ![r] = x]
  BY <1>2 DEF DownloadInv
<1>4. RowOK(x)
  <2>1. req[r].read = 0 /\ req[r].sent = 0 /\ req[r].tail = "none" /\ req[r] \in ReqRow
    BY <1>1 DEF RowOK
  <2>2. x \in ReqRow
    BY <2>1 DEF ReqRow
  <2>3. x.at = "peek" /\ x.read = 0 /\ x.sent = 0 /\ x.tail = "none" /\ x.body = n
    BY <2>1 DEF ReqRow
  <2>. HIDE DEF x
  <2>. QED  BY <2>2, <2>3, EbookAssumption DEF RowOK
<1>5. Follows(req[r], x)
  BY <1>1, RowNumbers DEF Follows, ReqRow
<1>. HIDE DEF x
<1>. QED  BY <1>3, <1>4, <1>5, OneMoves

LEMMA PeekMoves ==
  ASSUME DownloadInv, NEW r \in Req, Peeked(r) \/ PeekFails(r)
  PROVE  ReqMoves
<1>. DEFINE x == [req[r] EXCEPT !.at = "done", !.upstream = "released"]
            n == IF req[r].body = 0 THEN 0 ELSE 1
            y == [req[r] EXCEPT !.at = "streaming", !.head = "ok", !.read = n]
<1>1. RowOK(req[r]) /\ req[r].at = "peek"
  BY DEF DownloadInv, Peeked, PeekFails
<1>2. CASE PeekFails(r)
  BY <1>1, <1>2, RefuseMoves DEF PeekFails
<1>3. CASE PeekAbandoned(r)
  <2>1. req' = [req EXCEPT ![r] = x]
    BY <1>3 DEF PeekAbandoned, DownloadInv
  <2>2. RowOK(x)
    BY <1>1, RowNumbers DEF RowOK, ReqRow
  <2>3. Follows(req[r], x)
    BY <1>1, RowNumbers DEF Follows, ReqRow
  <2>. HIDE DEF x
  <2>. QED  BY <2>1, <2>2, <2>3, OneMoves
<1>4. CASE req' = [req EXCEPT ![r].at = "streaming", ![r].head = "ok", ![r].read = n]
  <2>0. n \in 0..MaxBody /\ n <= req[r].body
    BY <1>1, RowNumbers, EbookAssumption
  <2>. HIDE DEF n
  <2>1. req' = [req EXCEPT ![r] = y]
    BY <1>4 DEF DownloadInv
  <2>2. RowOK(y)
    <3>1. req[r].read = 0 /\ req[r].sent = 0 /\ req[r].tail = "none" /\ req[r] \in ReqRow
      BY <1>1 DEF RowOK
    <3>2. y \in ReqRow
      BY <2>0, <3>1 DEF ReqRow
    <3>3. y.at = "streaming" /\ y.read = n /\ y.sent = 0 /\ y.tail = "none" /\ y.body = req[r].body
      BY <3>1 DEF ReqRow
    <3>. HIDE DEF y
    <3>. QED  BY <2>0, <3>2, <3>3 DEF RowOK
  <2>3. Follows(req[r], y)
    BY <1>1, RowNumbers DEF Follows, ReqRow
  <2>. HIDE DEF y
  <2>. QED  BY <2>1, <2>2, <2>3, OneMoves
<1>. QED  BY <1>2, <1>3, <1>4 DEF Peeked

LEMMA PullMoves ==
  ASSUME DownloadInv, NEW r \in Req, Pull(r)
  PROVE  ReqMoves
<1>. DEFINE q == req[r]
            x == [q EXCEPT !.sent = @ + 1]
            y == [q EXCEPT !.read = @ + 1, !.sent = @ + 1]
            z == [q EXCEPT !.at = "done", !.upstream = "ended", !.tail = "end"]
<1>1. RowOK(q) /\ q.at = "streaming"
  BY DEF DownloadInv, Pull
<1>2. CASE q.sent < q.read /\ req' = [req EXCEPT ![r] = x]
  <2>1. q.sent + 1 \in 0..MaxBody
    BY <1>1, <1>2, RowNumbers, EbookAssumption
  <2>2. RowOK(x)
    BY <1>1, <1>2, <2>1, RowNumbers DEF RowOK, ReqRow
  <2>3. Follows(q, x)
    BY <1>1, RowNumbers DEF Follows, ReqRow
  <2>. HIDE DEF x
  <2>. QED  BY <1>2, <2>2, <2>3, OneMoves
<1>3. CASE ~(q.sent < q.read) /\ q.read < q.body /\ req' = [req EXCEPT ![r] = y]
  <2>1. q.sent + 1 \in 0..MaxBody /\ q.read + 1 \in 0..MaxBody
    BY <1>1, <1>3, RowNumbers, EbookAssumption
  <2>2. RowOK(y)
    <3>1. q \in ReqRow /\ q.tail = "none" /\ q.sent <= q.read
      BY <1>1 DEF RowOK
    <3>2. y \in ReqRow
      BY <2>1, <3>1 DEF ReqRow
    <3>3. /\ y.at = "streaming" /\ y.tail = "none" /\ y.body = q.body
          /\ y.read = q.read + 1 /\ y.sent = q.sent + 1
      BY <1>1, <3>1 DEF ReqRow
    <3>. HIDE DEF y
    <3>. QED  BY <1>1, <1>3, <3>1, <3>2, <3>3, RowNumbers DEF RowOK
  <2>3. Follows(q, y)
    BY <1>1, RowNumbers DEF Follows, ReqRow
  <2>. HIDE DEF y
  <2>. QED  BY <1>3, <2>2, <2>3, OneMoves
<1>4. CASE ~(q.sent < q.read) /\ ~(q.read < q.body) /\ req' = [req EXCEPT ![r] = z]
  <2>1. q.sent = q.body
    BY <1>1, <1>4, RowNumbers
  <2>2. RowOK(z)
    BY <1>1, <2>1, RowNumbers DEF RowOK, ReqRow
  <2>3. Follows(q, z)
    BY <1>1, RowNumbers DEF Follows, ReqRow
  <2>. HIDE DEF z
  <2>. QED  BY <1>4, <2>2, <2>3, OneMoves
<1>. QED  BY <1>2, <1>3, <1>4 DEF Pull

LEMMA AbortMoves ==
  ASSUME DownloadInv, NEW r \in Req, AbortLands(r) \/ BodyFails(r)
  PROVE  ReqMoves
  BY RefuseMoves, BreakMoves DEF AbortLands, BodyFails

\* A caller who left is noted in the row, whatever it is doing.
LEMMA GoneIsOK ==
  ASSUME NEW q, RowOK(q)
  PROVE  RowOK([q EXCEPT !.gone = TRUE]) /\ Follows(q, [q EXCEPT !.gone = TRUE])
<1>. DEFINE x == [q EXCEPT !.gone = TRUE]
<1>1. RowOK(x)
  BY RowNumbers DEF RowOK, ReqRow
<1>2. Follows(q, x)
  BY RowNumbers DEF Follows, ReqRow
<1>. QED  BY <1>1, <1>2

LEMMA GoneMoves ==
  ASSUME DownloadInv, NEW r \in Req, req' = [req EXCEPT ![r].gone = TRUE]
  PROVE  ReqMoves
<1>. DEFINE x == [req[r] EXCEPT !.gone = TRUE]
<1>1. RowOK(x) /\ Follows(req[r], x)
  BY GoneIsOK DEF DownloadInv
<1>2. req' = [req EXCEPT ![r] = x]
  BY DEF DownloadInv
<1>. HIDE DEF x
<1>. QED  BY <1>1, <1>2, OneMoves

\* A run the step does not touch still reads the request it read.
LEMMA RunStands ==
  ASSUME DownloadInv, ReqMoves, NEW c \in Click, click'[c] = click[c]
  PROVE  ClickOK(c)'
<1>. DEFINE r == click[c].req
<1>1. ClickOK(c) /\ click[c] \in ClickRow
  BY DEF DownloadInv
<1>2. CASE click[c].at \in {"fetching", "reading", "saved"}
  <2>1. r \in Req /\ req[r].at # "idle"
    BY <1>1, <1>2 DEF ClickOK, Answer
  <2>2. /\ req'[r].at # "idle" /\ req'[r].sent >= req[r].sent
        /\ req[r].at = "done" => req'[r].at = "done" /\ req'[r].body = req[r].body
    BY <2>1 DEF ReqMoves, Follows
  <2>3. req[r].sent \in Nat /\ req'[r].sent \in Nat /\ click[c].got \in Nat
    BY <1>1, <2>1, EbookAssumption DEF ReqMoves, DownloadInv, ReqRow, ClickRow
  <2>4. click[c].at = "reading" => click[c].got <= req'[r].sent
    BY <1>1, <2>2, <2>3 DEF ClickOK, Answer
  <2>. QED  BY <1>1, <2>1, <2>2, <2>4 DEF ClickOK, Answer
<1>3. CASE click[c].at \notin {"fetching", "reading", "saved"}
  BY <1>3 DEF ClickOK
<1>. QED  BY <1>2, <1>3

LEMMA RequestStep ==
  ASSUME DownloadInv, ReqMoves, UNCHANGED <<click, busy>>, faults' \in 0..MaxFaults
  PROVE  DownloadInv'
<1>1. \A c \in Click : ClickOK(c)'
  BY RunStands
<1>. QED  BY <1>1 DEF DownloadInv, ReqMoves

\* The run c moves on to row x.
LEMMA RunStep ==
  ASSUME DownloadInv, ReqMoves, NEW c \in Click, NEW x \in ClickRow, click' = [click EXCEPT ![c] = x],
         ClickOK(c)', busy' \in Click \cup {None}, faults' \in 0..MaxFaults
  PROVE  DownloadInv'
<1>1. \A d \in Click \ {c} : click'[d] = click[d]
  BY DEF DownloadInv
<1>2. \A d \in Click : ClickOK(d)'
  BY <1>1, RunStands
<1>3. click' \in [Click -> ClickRow]
  BY DEF DownloadInv
<1>. QED  BY <1>2, <1>3 DEF DownloadInv, ReqMoves

LEMMA NobodyMoves == ASSUME DownloadInv, UNCHANGED req PROVE ReqMoves
<1>1. ASSUME NEW q \in Req
      PROVE  Follows(req[q], req[q])
  BY RowNumbers DEF Follows, DownloadInv
<1>. QED  BY <1>1 DEF ReqMoves, DownloadInv

\* A run that ends without a file asks nothing of its request any more.
LEMMA FinishStep ==
  ASSUME DownloadInv, ReqMoves, NEW c \in Click, NEW at \in {"toasted", "navigated"}, Finish(c, at),
         faults' \in 0..MaxFaults
  PROVE  DownloadInv'
<1>. DEFINE x == [click[c] EXCEPT !.at = at]
<1>1. click[c] \in ClickRow
  BY DEF DownloadInv
<1>2. x \in ClickRow /\ x.at = at
  BY <1>1 DEF ClickRow
<1>3. click' = [click EXCEPT ![c] = x] /\ busy' \in Click \cup {None}
  BY DEF Finish, DownloadInv
<1>. HIDE DEF x
<1>4. click'[c] = x
  BY <1>3 DEF DownloadInv
<1>5. ClickOK(c)'
  BY <1>2, <1>4 DEF ClickOK
<1>. QED  BY <1>2, <1>3, <1>5, RunStep

LEMMA ArrivedIsOK == ASSUME NEW by \in Click \cup {None} PROVE RowOK(Arrived(by))
<1>1. IdleReq \in ReqRow
  BY EbookAssumption DEF IdleReq, ReqRow
<1>2. Arrived(by) \in ReqRow
  BY <1>1 DEF Arrived, ReqRow
<1>3. /\ Arrived(by).at = "arrived" /\ Arrived(by).read = 0 /\ Arrived(by).sent = 0
      /\ Arrived(by).body = 0 /\ Arrived(by).tail = "none"
  BY DEF Arrived, IdleReq
<1>. QED  BY <1>2, <1>3 DEF RowOK

LEMMA LeaveMoves ==
  ASSUME DownloadInv, NEW c \in Click, NEW hungUp, LeaveToBrowser(c, hungUp)
  PROVE  ReqMoves
<1>. DEFINE free == {r \in Req : req[r].at = "idle"}
<1>1. PICK r \in IF free = {} THEN {None} ELSE free :
        req' = [q \in Req |-> IF q = r THEN Arrived(None)
                              ELSE IF q = hungUp THEN [req[q] EXCEPT !.gone = TRUE] ELSE req[q]]
  BY DEF LeaveToBrowser
<1>2. ASSUME NEW q \in Req
      PROVE  RowOK(req'[q]) /\ Follows(req[q], req'[q]) /\ req'[q] \in ReqRow
  <2>1. RowOK(req[q])
    BY DEF DownloadInv
  <2>2. CASE q = r
    <3>1. req[q].at = "idle" /\ req'[q] = Arrived(None)
      BY <1>1, <2>2, EbookAssumption
    <3>. QED  BY <3>1, ArrivedIsOK DEF Follows, RowOK
  <2>3. CASE q # r /\ q = hungUp
    <3>1. req'[q] = [req[q] EXCEPT !.gone = TRUE]
      BY <1>1, <2>3
    <3>2. RowOK(req'[q]) /\ Follows(req[q], req'[q])
      BY <2>1, <3>1, GoneIsOK
    <3>. QED  BY <3>2 DEF RowOK
  <2>4. CASE q # r /\ q # hungUp
    <3>1. req'[q] = req[q]
      BY <1>1, <2>4
    <3>. QED  BY <2>1, <3>1, RowNumbers DEF Follows
  <2>. QED  BY <2>2, <2>3, <2>4
<1>3. req' = [q \in Req |-> req'[q]]
  BY <1>1
<1>. QED  BY <1>2, <1>3 DEF ReqMoves

LEMMA LeaveStep ==
  ASSUME DownloadInv, NEW c \in Click, NEW hungUp, LeaveToBrowser(c, hungUp), UNCHANGED faults
  PROVE  DownloadInv'
<1>1. ReqMoves /\ Finish(c, "navigated") /\ faults' \in 0..MaxFaults
  BY LeaveMoves DEF LeaveToBrowser, DownloadInv
<1>. QED  BY <1>1, FinishStep

LEMMA ClickStep ==
  ASSUME DownloadInv, NEW c \in Click, ClickDownload(c)
  PROVE  DownloadInv'
<1>1. UNCHANGED faults /\ faults' \in 0..MaxFaults
  BY DEF ClickDownload, DownloadInv
<1>2. CASE LeaveToBrowser(c, None)
  BY <1>1, <1>2, LeaveStep
<1>3. ASSUME NEW r \in Req, req[r].at = "idle", req' = [req EXCEPT ![r] = Arrived(c)],
             click' = [click EXCEPT ![c] = [at |-> "fetching", req |-> r, got |-> 0]], busy' = c
      PROVE  DownloadInv'
  <2>1. ReqMoves
    <3>1. RowOK(Arrived(c)) /\ Follows(req[r], Arrived(c))
      BY <1>3, ArrivedIsOK DEF Follows
    <3>. QED  BY <1>3, <3>1, OneMoves
  <2>2. [at |-> "fetching", req |-> r, got |-> 0] \in ClickRow
    BY EbookAssumption DEF ClickRow
  <2>3. ClickOK(c)'
    <3>1. click'[c] = [at |-> "fetching", req |-> r, got |-> 0] /\ req'[r].at = "arrived"
      BY <1>3 DEF DownloadInv, Arrived, IdleReq
    <3>. QED  BY <3>1 DEF ClickOK, Answer
  <2>. QED  BY <1>1, <1>3, <2>1, <2>2, <2>3, RunStep
<1>. QED  BY <1>2, <1>3 DEF ClickDownload

LEMMA HeadStep ==
  ASSUME DownloadInv, NEW c \in Click, HeadArrives(c)
  PROVE  DownloadInv'
<1>1. UNCHANGED faults /\ faults' \in 0..MaxFaults /\ click[c].at = "fetching" /\ ClickOK(c)
  BY DEF HeadArrives, DownloadInv
<1>2. CASE Finish(c, "toasted") /\ UNCHANGED req
  BY <1>1, <1>2, NobodyMoves, FinishStep
<1>3. CASE LeaveToBrowser(c, click[c].req)
  BY <1>1, <1>3, LeaveStep
<1>4. CASE click' = [click EXCEPT ![c].at = "reading"] /\ UNCHANGED <<req, busy>>
  <2>. DEFINE x == [click[c] EXCEPT !.at = "reading"]
  <2>1. click[c] \in ClickRow
    BY DEF DownloadInv
  <2>2. x \in ClickRow /\ x.at = "reading" /\ x.req = click[c].req /\ x.got = click[c].got
    BY <2>1 DEF ClickRow
  <2>3. click' = [click EXCEPT ![c] = x]
    BY <1>4 DEF DownloadInv
  <2>. HIDE DEF x
  <2>4. click'[c] = x
    BY <2>3 DEF DownloadInv
  <2>5. x.req \in Req /\ req'[x.req].at # "idle" /\ x.got = 0 /\ req'[x.req].sent \in Nat
    BY <1>1, <1>4, <2>2, EbookAssumption DEF ClickOK, Answer, DownloadInv, ReqRow
  <2>6. ClickOK(c)'
    BY <2>2, <2>4, <2>5 DEF ClickOK, Answer
  <2>. QED  BY <1>1, <1>4, <2>2, <2>3, <2>6, NobodyMoves, RunStep DEF DownloadInv
<1>. QED  BY <1>2, <1>3, <1>4 DEF HeadArrives

LEMMA ChunkStep ==
  ASSUME DownloadInv, NEW c \in Click, ChunkArrives(c)
  PROVE  DownloadInv'
<1>1. UNCHANGED faults /\ faults' \in 0..MaxFaults /\ click[c].at = "reading" /\ ClickOK(c)
      /\ click[c].got < Answer(c).sent
  BY DEF ChunkArrives, DownloadInv
<1>2. CASE LeaveToBrowser(c, click[c].req)
  BY <1>1, <1>2, LeaveStep
<1>3. CASE ~OverBound(c) /\ click' = [click EXCEPT ![c].got = @ + 1] /\ UNCHANGED <<req, busy>>
  <2>. DEFINE x == [click[c] EXCEPT !.got = @ + 1]
  <2>1. click[c] \in ClickRow /\ click[c].got \in Nat /\ click[c].got + 1 \in 0..Limit
    BY <1>3, EbookAssumption DEF DownloadInv, ClickRow, OverBound
  <2>2. x \in ClickRow /\ x.at = "reading" /\ x.req = click[c].req /\ x.got = click[c].got + 1
    BY <1>1, <2>1 DEF ClickRow
  <2>3. click' = [click EXCEPT ![c] = x]
    BY <1>3 DEF DownloadInv
  <2>. HIDE DEF x
  <2>4. click'[c] = x
    BY <2>3 DEF DownloadInv
  <2>5. x.req \in Req /\ req[x.req].at # "idle" /\ req[x.req].sent \in Nat
    BY <1>1, <2>2, EbookAssumption DEF ClickOK, Answer, DownloadInv, ReqRow
  <2>6. x.got <= req'[x.req].sent
    BY <1>1, <1>3, <2>1, <2>2, <2>5 DEF Answer
  <2>7. ClickOK(c)'
    BY <1>3, <2>2, <2>4, <2>5, <2>6 DEF ClickOK, Answer
  <2>. QED  BY <1>1, <1>3, <2>2, <2>3, <2>7, NobodyMoves, RunStep DEF DownloadInv
<1>. QED  BY <1>2, <1>3 DEF ChunkArrives

\* The stream ended in order after its last chunk, and all of it arrived.
LEMMA EndsStep ==
  ASSUME DownloadInv, NEW c \in Click, BodyEnds(c)
  PROVE  DownloadInv'
<1>1. /\ UNCHANGED <<req, faults>> /\ faults' \in 0..MaxFaults /\ ReqMoves /\ ClickOK(c)
      /\ click[c].at = "reading" /\ click[c].got = Answer(c).sent /\ Answer(c).tail = "end"
  BY NobodyMoves DEF BodyEnds, DownloadInv
<1>2. CASE Finish(c, "toasted")
  BY <1>1, <1>2, FinishStep
<1>3. CASE Finish(c, "saved")
  <2>. DEFINE x == [click[c] EXCEPT !.at = "saved"]
  <2>1. click[c] \in ClickRow
    BY DEF DownloadInv
  <2>2. x \in ClickRow /\ x.at = "saved" /\ x.req = click[c].req /\ x.got = click[c].got
    BY <2>1 DEF ClickRow
  <2>3. click' = [click EXCEPT ![c] = x] /\ busy' \in Click \cup {None}
    BY <1>3 DEF Finish, DownloadInv
  <2>. HIDE DEF x
  <2>4. click'[c] = x
    BY <2>3 DEF DownloadInv
  <2>5. x.req \in Req /\ RowOK(req[x.req]) /\ req[x.req].tail = "end"
    BY <1>1, <2>2 DEF ClickOK, Answer, DownloadInv
  <2>6. req[x.req].at = "done" /\ req[x.req].sent = req[x.req].body
    BY <2>5 DEF RowOK
  <2>7. x.got = req[x.req].body
    BY <1>1, <2>2, <2>6 DEF Answer
  <2>8. ClickOK(c)'
    BY <1>1, <2>2, <2>4, <2>5, <2>6, <2>7 DEF ClickOK, Answer
  <2>. QED  BY <1>1, <2>2, <2>3, <2>8, RunStep
<1>. QED  BY <1>2, <1>3 DEF BodyEnds

LEMMA LostStep ==
  ASSUME DownloadInv, NEW c \in Click, BodyBreaks(c) \/ ConnectionLost(c)
  PROVE  DownloadInv'
<1>1. CASE BodyBreaks(c)
  BY <1>1, NobodyMoves, FinishStep DEF BodyBreaks, DownloadInv
<1>2. CASE ConnectionLost(c)
  <2>1. click[c].req \in Req
    BY <1>2 DEF ConnectionLost, DownloadInv, ClickOK
  <2>2. ReqMoves
    BY <1>2, <2>1, GoneMoves DEF ConnectionLost
  <2>3. faults' \in 0..MaxFaults
    BY <1>2, EbookAssumption DEF ConnectionLost, DownloadInv
  <2>. QED  BY <1>2, <2>2, <2>3, FinishStep DEF ConnectionLost
<1>. QED  BY <1>1, <1>2

LEMMA ForgetStep ==
  ASSUME DownloadInv, Forget, UNCHANGED <<busy, faults>>
  PROVE  DownloadInv'
<1>1. ASSUME NEW c \in Click, click' = [click EXCEPT ![c] = IdleClick], UNCHANGED req
      PROVE  DownloadInv'
  <2>1. IdleClick \in ClickRow /\ IdleClick.at = "idle"
    BY EbookAssumption DEF IdleClick, ClickRow
  <2>2. click'[c] = IdleClick
    BY <1>1 DEF DownloadInv
  <2>3. ClickOK(c)'
    BY <2>1, <2>2 DEF ClickOK
  <2>. QED  BY <1>1, <2>1, <2>3, NobodyMoves, RunStep DEF DownloadInv
<1>2. ASSUME NEW r \in Req, \A c \in Click : click[c].req # r, req' = [req EXCEPT ![r] = IdleReq], UNCHANGED click
      PROVE  DownloadInv'
  <2>1. IdleReq \in ReqRow
    BY EbookAssumption DEF IdleReq, ReqRow
  <2>2. RowOK(IdleReq)
    BY <2>1, EbookAssumption DEF IdleReq, RowOK
  <2>3. req' \in [Req -> ReqRow] /\ req'[r] = IdleReq /\ \A q \in Req \ {r} : req'[q] = req[q]
    BY <1>2, <2>1 DEF DownloadInv
  <2>4. ASSUME NEW c \in Click
        PROVE  ClickOK(c)'
    <3>1. ClickOK(c) /\ click'[c] = click[c] /\ click[c].req # r
      BY <1>2 DEF DownloadInv
    <3>2. click[c].req \in Req => Answer(c)' = Answer(c)
      BY <1>2, <2>3, <3>1 DEF Answer
    <3>. QED  BY <3>1, <3>2 DEF ClickOK
  <2>5. \A q \in Req : RowOK(req'[q])
    BY <2>2, <2>3 DEF DownloadInv
  <2>. QED  BY <1>2, <2>3, <2>4, <2>5 DEF DownloadInv
<1>. QED  BY <1>1, <1>2 DEF Forget

LEMMA StepDownloadInv ==
  ASSUME DownloadInv, [Next]_vars
  PROVE  DownloadInv'
<1>1. ASSUME NEW r \in Req, Narratorr(r) \/ Own(r)
      PROVE  DownloadInv'
  <2>1. UNCHANGED <<click, busy, faults>>
    BY <1>1 DEF Narratorr, Own, Guard, OpenFails, OpenRefused, ReasonRead, Opened, Peeked, PeekFails,
                Pull, BodyFails, AbortLands
  <2>2. ReqMoves
    BY <1>1, GuardMoves, OpenMoves, OpenedMoves, PeekMoves, PullMoves, AbortMoves DEF Narratorr, Own
  <2>. QED  BY <2>1, <2>2, RequestStep DEF DownloadInv
<1>2. ASSUME NEW r \in Req, BrowserStops(r)
      PROVE  DownloadInv'
  <2>1. faults' \in 0..MaxFaults
    BY <1>2, EbookAssumption DEF BrowserStops, DownloadInv
  <2>. QED  BY <1>2, <2>1, GoneMoves, RequestStep DEF BrowserStops
<1>3. CASE Reopen
  BY <1>3 DEF Reopen, DownloadInv, ClickOK, Answer
<1>4. CASE UNCHANGED vars
  BY <1>4 DEF vars, DownloadInv, ClickOK, Answer
<1>. QED  BY <1>1, <1>2, <1>3, <1>4, ClickStep, HeadStep, ChunkStep, EndsStep, LostStep, ForgetStep DEF Next

\* Whoever gives up where, a file that is saved has every chunk of its book, and a
\* request that is over has let narratorr go: for any bodies, tabs and requests.
THEOREM SavedFilesAreWhole == Spec => []SavedIsWhole
<1>1. Init => DownloadInv
  <2>1. IdleReq \in ReqRow /\ RowOK(IdleReq) /\ IdleClick \in ClickRow
    <3>1. IdleReq \in ReqRow /\ IdleClick \in ClickRow
      BY EbookAssumption DEF IdleReq, IdleClick, ReqRow, ClickRow
    <3>. QED  BY <3>1, EbookAssumption DEF IdleReq, RowOK
  <2>2. Init => \A c \in Click : ClickOK(c)
    BY DEF Init, ClickOK, IdleClick
  <2>. QED  BY <2>1, <2>2, EbookAssumption DEF Init, DownloadInv
<1>2. DownloadInv /\ [Next]_vars => DownloadInv'
  BY StepDownloadInv
<1>3. DownloadInv => SavedIsWhole
  <2>1. ASSUME DownloadInv, NEW c \in Click, click[c].at = "saved"
        PROVE  click[c].got = Answer(c).body
    BY <2>1 DEF DownloadInv, ClickOK
  <2>2. ASSUME DownloadInv, NEW r \in Req, req[r].at = "done"
        PROVE  req[r].upstream \in {"none", "ended", "released"}
    BY <2>2 DEF DownloadInv, RowOK
  <2>. QED  BY <2>1, <2>2 DEF SavedIsWhole
<1>. QED  BY <1>1, <1>2, <1>3, PTL DEF Spec

-------------------------------------------------------------------------------
(* The search throttle *)

\* B counts the tokens of one user before each moment, n is the time, and the user's
\* window began at st with k tokens since: they all fall into the window, and the
\* window before it left less than Rate to the stretch that ends at st.
Throttled(B, n, st, k) ==
  /\ B \in [Moment -> Nat] /\ n \in Time /\ st \in 0..n /\ k \in 0..Rate
  /\ \A s, e \in Moment : s <= e => B[s] <= B[e]
  /\ \A t \in Moment : t > n => B[t] = B[n + 1]
  /\ k = 0 => B[n + 1] = 0
  /\ k > 0 => /\ B[n + 1] - B[st] = k
              /\ B[st + 1] > B[st]
              /\ n >= st + Window => B[n + 1] = B[st + Window]
              /\ \A t \in Moment : t <= st /\ t > st - Window => B[st] - B[t] < Rate
  /\ \A s, e \in Moment : s <= e /\ e - s <= Window => B[e] - B[s] < 2 * Rate

LEMMA TimeNumbers ==
  /\ MaxTime \in Nat /\ Window \in Nat \ {0} /\ Rate \in Nat \ {0} /\ Time = 0..MaxTime
  /\ Moment = 0..MaxTime + 1 /\ Time \subseteq Moment
  /\ \A n \in Time : n \in Nat /\ n + 1 \in Moment
  BY SearchAssumption DEF Time, Moment

LEMMA ClockThrottled ==
  ASSUME NEW B, NEW n, NEW st, NEW k, Throttled(B, n, st, k), n < MaxTime
  PROVE  Throttled(B, n + 1, st, k)
<1>. USE TimeNumbers
<1>0. /\ B \in [Moment -> Nat] /\ n \in Time /\ st \in 0..n /\ k \in 0..Rate
      /\ \A s, e \in Moment : s <= e => B[s] <= B[e]
      /\ \A t \in Moment : t > n => B[t] = B[n + 1]
  BY DEF Throttled
<1>1. n + 1 \in Time /\ st \in 0..n + 1 /\ n + 2 \in Moment /\ (n + 1) + 1 = n + 2
  BY <1>0
<1>2. B[(n + 1) + 1] = B[n + 1]
  BY <1>0, <1>1
<1>3. \A t \in Moment : t > n + 1 => B[t] = B[(n + 1) + 1]
  BY <1>0, <1>1, <1>2
<1>4. ASSUME k > 0, n + 1 >= st + Window
      PROVE  B[(n + 1) + 1] = B[st + Window]
  <2>1. CASE n >= st + Window
    BY <1>2, <1>4, <2>1 DEF Throttled
  <2>2. CASE n + 1 = st + Window
    BY <1>2, <2>2
  <2>. QED  BY <1>0, <1>4, <2>1, <2>2
<1>. QED  BY <1>0, <1>1, <1>2, <1>3, <1>4 DEF Throttled

Spend(B, n) == [t \in Moment |-> IF t > n THEN B[t] + 1 ELSE B[t]]

LEMMA CountNumbers ==
  ASSUME NEW B \in [Moment -> Nat], NEW t \in Moment
  PROVE  t \in Nat /\ B[t] \in Nat
  BY TimeNumbers

LEMMA SpentCounts ==
  ASSUME NEW B \in [Moment -> Nat], NEW n \in Time, NEW t \in Moment
  PROVE  /\ Spend(B, n) \in [Moment -> Nat]
         /\ t > n => Spend(B, n)[t] = B[t] + 1
         /\ t <= n => Spend(B, n)[t] = B[t]
  BY TimeNumbers DEF Spend

LEMMA SpendIsMonotone ==
  ASSUME NEW B \in [Moment -> Nat], NEW n \in Time, \A s, e \in Moment : s <= e => B[s] <= B[e],
         NEW s \in Moment, NEW e \in Moment, s <= e
  PROVE  Spend(B, n)[s] <= Spend(B, n)[e]
<1>1. B[s] <= B[e] /\ B[s] \in Nat /\ B[e] \in Nat /\ s \in Nat /\ e \in Nat /\ n \in Nat
  BY CountNumbers, TimeNumbers
<1>2. CASE s > n
  <2>1. e > n
    BY <1>1, <1>2
  <2>. QED  BY <1>1, <1>2, <2>1, SpentCounts
<1>3. CASE s <= n
  <2>1. Spend(B, n)[s] = B[s]
    BY <1>3, SpentCounts
  <2>2. Spend(B, n)[e] \in {B[e], B[e] + 1}
    <3>1. e > n \/ e <= n
      BY <1>1
    <3>. QED  BY <3>1, SpentCounts
  <2>. QED  BY <1>1, <2>1, <2>2
<1>. QED  BY <1>1, <1>2, <1>3

\* What the window and the one before it left to any stretch that ends after now.
LEMMA StretchBounded ==
  ASSUME NEW C \in [Moment -> Nat], NEW n \in Time, NEW st \in 0..n, NEW k \in 0..Rate,
         \A s, e \in Moment : s <= e => C[s] <= C[e],
         \A t \in Moment : t > n => C[t] = C[n + 1],
         C[n + 1] - C[st] = k,
         \A t \in Moment : t <= st /\ t > st - Window => C[st] - C[t] < Rate,
         NEW s \in Moment, NEW e \in Moment, s <= e, e - s <= Window, e > n
  PROVE  C[e] - C[s] < 2 * Rate
<1>1. /\ n \in Nat /\ st \in Nat /\ st <= n /\ st \in Moment /\ n + 1 \in Moment
      /\ Rate \in Nat \ {0} /\ Window \in Nat /\ k \in Nat /\ k <= Rate
  BY TimeNumbers
<1>2. /\ s \in Nat /\ e \in Nat
      /\ C[e] \in Nat /\ C[s] \in Nat /\ C[st] \in Nat /\ C[n + 1] \in Nat
  BY <1>1, CountNumbers
<1>3. C[e] = C[n + 1]
  OBVIOUS
<1>4. CASE s >= st
  <2>1. C[s] >= C[st]
    BY <1>1, <1>2, <1>4
  <2>. QED  BY <1>1, <1>2, <1>3, <2>1
<1>5. CASE s < st
  <2>1. s > st - Window
    BY <1>1, <1>2
  <2>2. C[st] - C[s] < Rate
    BY <1>1, <1>2, <1>5, <2>1
  <2>. QED  BY <1>1, <1>2, <1>3, <2>2
<1>. QED  BY <1>1, <1>2, <1>4, <1>5

\* The counts as the window begins or goes on, one token before Throttled.
Admits(B, n, st, k) ==
  /\ \A s, e \in Moment : s <= e => B[s] <= B[e]
  /\ \A t \in Moment : t > n => B[t] = B[n + 1]
  /\ B[n + 1] + 1 - B[st] = k
  /\ st = n \/ B[st + 1] > B[st]
  /\ \A t \in Moment : t <= st /\ t > st - Window => B[st] - B[t] < Rate
  /\ \A s, e \in Moment : s <= e /\ e - s <= Window => B[e] - B[s] < 2 * Rate

LEMMA SpendThrottled ==
  ASSUME NEW B \in [Moment -> Nat], NEW n \in Time, NEW st \in 0..n, NEW k \in 1..Rate,
         Admits(B, n, st, k), n < st + Window
  PROVE  Throttled(Spend(B, n), n, st, k)
<1>. DEFINE C == Spend(B, n)
<1>1. /\ n \in Nat /\ st \in Nat /\ st <= n /\ st \in Moment /\ n + 1 \in Moment /\ st + 1 \in Moment
      /\ n \in Moment /\ Rate \in Nat \ {0} /\ Window \in Nat \ {0} /\ k \in Nat /\ k > 0
  BY TimeNumbers
<1>2. C \in [Moment -> Nat]
  BY <1>1, SpentCounts
<1>3. \A t \in Moment : t \in Nat /\ B[t] \in Nat /\ C[t] \in Nat
  BY <1>2, CountNumbers
<1>4. \A t \in Moment : t > n => C[t] = B[t] + 1
  BY SpentCounts
<1>5. \A t \in Moment : t <= n => C[t] = B[t]
  BY SpentCounts
<1>6. \A s, e \in Moment : s <= e => C[s] <= C[e]
  BY SpendIsMonotone DEF Admits
<1>. HIDE DEF C
<1>7. \A t \in Moment : t > n => C[t] = C[n + 1]
  BY <1>1, <1>3, <1>4 DEF Admits
<1>8. C[n + 1] = B[n + 1] + 1 /\ C[st] = B[st]
  BY <1>1, <1>4, <1>5
<1>9. C[n + 1] - C[st] = k
  BY <1>1, <1>3, <1>8 DEF Admits
<1>10. C[st + 1] > C[st]
  <2>1. CASE st = n
    BY <1>1, <1>3, <1>9, <2>1
  <2>2. CASE st # n
    <3>1. st + 1 <= n /\ B[st + 1] > B[st]
      BY <1>1, <2>2 DEF Admits
    <3>. QED  BY <1>1, <1>5, <1>8, <3>1
  <2>. QED  BY <2>1, <2>2
<1>11. ASSUME NEW t \in Moment, t <= st, t > st - Window
       PROVE  C[st] - C[t] < Rate
  <2>1. C[t] = B[t]
    BY <1>1, <1>3, <1>5, <1>11
  <2>. QED  BY <1>8, <1>11, <2>1 DEF Admits
<1>12. ASSUME NEW s \in Moment, NEW e \in Moment, s <= e, e - s <= Window
       PROVE  C[e] - C[s] < 2 * Rate
  <2>1. CASE e <= n
    <3>1. C[e] = B[e] /\ C[s] = B[s]
      BY <1>1, <1>3, <1>5, <1>12, <2>1
    <3>. QED  BY <1>12, <3>1 DEF Admits
  <2>2. CASE e > n
    <3>1. k \in 0..Rate
      BY <1>1
    <3>. QED  BY <1>2, <1>6, <1>7, <1>9, <1>11, <1>12, <2>2, <3>1, StretchBounded
  <2>. QED  BY <1>1, <1>3, <2>1, <2>2
<1>13. ~(n >= st + Window) /\ k \in 0..Rate /\ k # 0
  BY <1>1
<1>. QED  BY <1>1, <1>2, <1>6, <1>7, <1>9, <1>10, <1>11, <1>12, <1>13 DEF Throttled, C

\* The first token of a window: the one before it is over, and had at least one of its
\* tokens at its own start, a whole window ago.
LEMMA FreshWindow ==
  ASSUME NEW B, NEW n, NEW st, NEW k, Throttled(B, n, st, k), k = 0 \/ n - st >= Window
  PROVE  Admits(B, n, n, 1)
<1>1. /\ n \in Nat /\ st \in Nat /\ st <= n /\ n \in Moment /\ n + 1 \in Moment
      /\ Rate \in Nat \ {0} /\ Window \in Nat \ {0} /\ k \in Nat /\ k <= Rate
      /\ B \in [Moment -> Nat]
  BY TimeNumbers DEF Throttled
<1>2. \A t \in Moment : t \in Nat /\ B[t] \in Nat
  BY <1>1, CountNumbers
<1>3. \A s, e \in Moment : s <= e => B[s] <= B[e]
  BY DEF Throttled
<1>4. B[n] <= B[n + 1] /\ B[n] \in Nat /\ B[n + 1] \in Nat
  BY <1>1, <1>2, <1>3
<1>5. CASE k = 0
  <2>1. B[n + 1] = 0 /\ B[n] = 0
    BY <1>1, <1>4, <1>5 DEF Throttled
  <2>2. \A t \in Moment : t <= n /\ t > n - Window => B[n] - B[t] < Rate
    BY <1>1, <1>2, <2>1
  <2>. QED  BY <1>1, <1>3, <2>1, <2>2 DEF Throttled, Admits
<1>6. CASE k > 0 /\ n - st >= Window
  <2>0. st + Window \in Moment /\ st + Window <= n /\ st \in Moment /\ st + 1 \in Moment
    BY <1>1, <1>6, TimeNumbers
  <2>1. B[n + 1] = B[st + Window]
    BY <1>1, <1>6 DEF Throttled
  <2>2. B[n] = B[n + 1]
    <3>1. B[st + Window] <= B[n]
      BY <1>1, <1>3, <2>0
    <3>. QED  BY <1>4, <2>1, <3>1
  <2>3. B[n + 1] - B[st] = k /\ B[st + 1] > B[st]
    BY <1>6 DEF Throttled
  <2>4. ASSUME NEW t \in Moment, t <= n, t > n - Window
        PROVE  B[n] - B[t] < Rate
    <3>1. st + 1 <= t
      BY <1>1, <1>2, <1>6, <2>4
    <3>2. B[st + 1] <= B[t]
      BY <1>3, <2>0, <3>1
    <3>3. B[st + 1] \in Nat /\ B[st] \in Nat /\ B[t] \in Nat
      BY <1>2, <2>0
    <3>. QED  BY <1>1, <1>4, <2>2, <2>3, <3>2, <3>3
  <2>5. B[n + 1] + 1 - B[n] = 1
    BY <1>4, <2>2
  <2>. QED  BY <1>3, <2>4, <2>5 DEF Throttled, Admits
<1>. QED  BY <1>1, <1>5, <1>6

LEMMA SameWindow ==
  ASSUME NEW B, NEW n, NEW st, NEW k, Throttled(B, n, st, k), k # 0, k < Rate
  PROVE  Admits(B, n, st, k + 1)
<1>1. /\ n \in Nat /\ st \in Nat /\ st \in Moment /\ n + 1 \in Moment
      /\ k \in Nat /\ k > 0 /\ B \in [Moment -> Nat] /\ Rate \in Nat
  BY TimeNumbers DEF Throttled
<1>2. B[n + 1] \in Nat /\ B[st] \in Nat
  BY <1>1, CountNumbers
<1>3. B[n + 1] + 1 - B[st] = k + 1
  BY <1>1, <1>2 DEF Throttled
<1>. QED  BY <1>1, <1>3 DEF Throttled, Admits

UserThrottled(u) == Throttled(spent[u], now, rate[u].start, rate[u].count)

ThrottleInv == /\ now \in Time
               /\ spent \in [User -> [Moment -> Nat]]
               /\ rate \in [User -> [start : Time, count : 0..Rate]]
               /\ \A u \in User : UserThrottled(u)

LEMMA InitThrottleInv == SearchInit => ThrottleInv
<1>. SUFFICES ASSUME SearchInit PROVE ThrottleInv
  OBVIOUS
<1>1. /\ now = 0 /\ 0 \in Time /\ 0 \in 0..Rate /\ 0 \in 0..0 /\ 0 + 1 \in Moment
      /\ spent \in [User -> [Moment -> Nat]] /\ rate \in [User -> [start : Time, count : 0..Rate]]
      /\ Rate \in Nat \ {0}
  BY TimeNumbers DEF SearchInit
<1>2. ASSUME NEW u \in User
      PROVE  UserThrottled(u)
  <2>1. /\ \A t \in Moment : spent[u][t] = 0
        /\ rate[u].start = 0 /\ rate[u].count = 0 /\ spent[u] \in [Moment -> Nat]
    BY <1>1 DEF SearchInit
  <2>2. ASSUME NEW s \in Moment, NEW e \in Moment
        PROVE  spent[u][e] - spent[u][s] < 2 * Rate
    BY <1>1, <2>1
  <2>. QED  BY <1>1, <2>1, <2>2 DEF UserThrottled, Throttled
<1>. QED  BY <1>1, <1>2 DEF ThrottleInv

LEMMA StartKeepsThrottle ==
  ASSUME ThrottleInv, NEW f \in Find, NEW u \in User, NEW q \in Query, StartFind(f, u, q)
  PROVE  ThrottleInv'
<1>. DEFINE w == IF WindowOver(u) THEN [start |-> now, count |-> 1]
                 ELSE [rate[u] EXCEPT !.count = @ + 1]
<1>1. /\ now \in Time /\ now \in Nat /\ now' = now
      /\ spent[u] \in [Moment -> Nat] /\ rate[u] \in [start : Time, count : 0..Rate]
      /\ Throttled(spent[u], now, rate[u].start, rate[u].count)
      /\ Rate \in Nat \ {0} /\ Window \in Nat \ {0}
  BY TimeNumbers DEF ThrottleInv, UserThrottled, StartFind
<1>2. rate' = [rate EXCEPT ![u] = w] /\ spent' = [spent EXCEPT ![u] = Spend(spent[u], now)]
  <2>1. rate' = [rate EXCEPT ![u] = w]
    BY DEF StartFind, ConsumeToken
  <2>2. spent' = [spent EXCEPT ![u] = Spend(spent[u], now)]
    BY DEF StartFind, Spend
  <2>. QED  BY <2>1, <2>2
<1>3. /\ w \in [start : Time, count : 0..Rate] /\ w.start \in 0..now /\ w.count \in 1..Rate
      /\ Admits(spent[u], now, w.start, w.count) /\ now < w.start + Window
  <2>1. CASE WindowOver(u)
    <3>1. Admits(spent[u], now, now, 1)
      BY <1>1, <2>1, FreshWindow DEF WindowOver
    <3>. QED  BY <1>1, <2>1, <3>1
  <2>2. CASE ~WindowOver(u)
    <3>1. rate[u].count # 0 /\ rate[u].count < Rate /\ ~(now - rate[u].start >= Window)
      BY <2>2 DEF WindowOver, StartFind
    <3>2. Admits(spent[u], now, rate[u].start, rate[u].count + 1)
      BY <1>1, <3>1, SameWindow
    <3>3. rate[u].start \in 0..now /\ rate[u].start \in Nat /\ rate[u].count \in Nat
      BY <1>1 DEF Throttled
    <3>4. w.start = rate[u].start /\ w.count = rate[u].count + 1
      BY <1>1, <2>2
    <3>5. w \in [start : Time, count : 0..Rate]
      BY <1>1, <2>2, <3>1, <3>3
    <3>6. now < rate[u].start + Window
      BY <1>1, <3>1, <3>3
    <3>. HIDE DEF w
    <3>. QED  BY <1>1, <3>1, <3>2, <3>3, <3>4, <3>5, <3>6
  <2>. QED  BY <2>1, <2>2
<1>. HIDE DEF w
<1>4. Throttled(Spend(spent[u], now), now, w.start, w.count)
  BY <1>1, <1>3, SpendThrottled
<1>5. Spend(spent[u], now) \in [Moment -> Nat]
  BY <1>4 DEF Throttled
<1>6. /\ spent' \in [User -> [Moment -> Nat]] /\ rate' \in [User -> [start : Time, count : 0..Rate]]
      /\ spent'[u] = Spend(spent[u], now) /\ rate'[u] = w
      /\ \A v \in User \ {u} : spent'[v] = spent[v] /\ rate'[v] = rate[v]
  BY <1>2, <1>3, <1>5 DEF ThrottleInv
<1>7. ASSUME NEW v \in User
      PROVE  UserThrottled(v)'
  <2>1. CASE v = u
    BY <1>1, <1>4, <1>6, <2>1 DEF UserThrottled
  <2>2. CASE v # u
    BY <1>1, <1>6, <2>2 DEF UserThrottled, ThrottleInv
  <2>. QED  BY <2>1, <2>2
<1>. QED  BY <1>1, <1>6, <1>7 DEF ThrottleInv

LEMMA StepThrottleInv ==
  ASSUME ThrottleInv, [SearchNext]_searchVars
  PROVE  ThrottleInv'
<1>1. CASE SearchTick
  <2>1. now' = now + 1 /\ now < MaxTime /\ UNCHANGED <<spent, rate>> /\ now' \in Time
    BY <1>1, TimeNumbers DEF SearchTick, ThrottleInv
  <2>2. \A u \in User : Throttled(spent[u], now + 1, rate[u].start, rate[u].count)
    BY <2>1, ClockThrottled DEF ThrottleInv, UserThrottled
  <2>. QED  BY <2>1, <2>2 DEF ThrottleInv, UserThrottled
<1>2. CASE UNCHANGED <<now, spent, rate>>
  BY <1>2 DEF ThrottleInv, UserThrottled
<1>. QED  BY <1>1, <1>2, StartKeepsThrottle DEF SearchNext, FindAnswered, FindFails, searchVars

\* However a user's searches fall around the ends of its windows, any stretch as long
\* as a window sees less than twice Rate of them: for any window and rate.
THEOREM SearchesAreBounded == SearchSpec => []WindowBounded
<1>1. ThrottleInv => WindowBounded
  BY DEF ThrottleInv, UserThrottled, Throttled, WindowBounded
<1>2. ThrottleInv /\ [SearchNext]_searchVars => ThrottleInv'
  BY StepThrottleInv
<1>. QED  BY <1>1, <1>2, InitThrottleInv, PTL DEF SearchSpec
================================================================================
