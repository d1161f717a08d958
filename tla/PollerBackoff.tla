---------------------------- MODULE PollerBackoff ----------------------------
(***************************************************************************)
(* StatusPoller's tick guard: which Cron ticks start a pass, what a pass    *)
(* counts, and how many ticks are skipped after it (status-poller.ts).      *)
(*                                                                          *)
(* The rows themselves are RequestLifecycle's; here a row is only the       *)
(* outcome its step reports to the counters.                                *)
(***************************************************************************)
EXTENDS Integers

CONSTANTS BatchSize,   \* rows per finder
          SkipCap,     \* the most ticks one backoff skips
          MaxStreak,   \* bound: failureStreak
          MaxElapsed   \* bound: ticks counted by the observer

ASSUME BackoffAssumption == {BatchSize, SkipCap, MaxStreak, MaxElapsed} \subseteq Nat \ {0}

VARIABLES skipTicks, failureStreak,
          phase,       \* the pass in progress, "idle" between passes
          left,        \* rows left in its batch
          counts,      \* checked, transitioned, upstreamErrors
          elapsed      \* ticks since the first pass of the streak ended (observation)

backoffVars == <<skipTicks, failureStreak, phase, left, counts, elapsed>>

Smaller(a, b) == IF a <= b THEN a ELSE b

Zero == [checked |-> 0, transitioned |-> 0, upstreamErrors |-> 0]

BackoffInit == /\ skipTicks = 0 /\ failureStreak = 0
        /\ phase = "idle" /\ left = 0 /\ counts = Zero /\ elapsed = 0

\* Mutant: the backoff grows by one tick, not twofold.
LinearSkip(streak) == Smaller(streak, SkipCap)
SkipFor(streak) == Smaller(2^(streak - 1), SkipCap)

Backoff == /\ failureStreak' = Smaller(failureStreak + 1, MaxStreak)
           /\ skipTicks' = SkipFor(failureStreak + 1)

Ticked == elapsed' = IF failureStreak = 0 THEN 0 ELSE Smaller(elapsed + 1, MaxElapsed)

\* Mutant: the counter is set but never counted down.
StuckSkip == /\ phase = "idle" /\ skipTicks > 0
             /\ Ticked
             /\ UNCHANGED <<skipTicks, failureStreak, phase, left, counts>>
SkipTick == /\ phase = "idle" /\ skipTicks > 0
            /\ skipTicks' = skipTicks - 1
            /\ Ticked
            /\ UNCHANGED <<failureStreak, phase, left, counts>>

\* findApprovedAwaitingHandoff returned n rows.
StartPass == /\ phase = "idle" /\ skipTicks = 0
             /\ \E n \in 0..BatchSize : left' = n
             /\ phase' = "stranded"
             /\ counts' = Zero
             /\ Ticked
             /\ UNCHANGED <<skipTicks, failureStreak>>

\* protect: a tick that comes during a pass is dropped.
DropTick == /\ phase # "idle"
            /\ Ticked
            /\ UNCHANGED <<skipTicks, failureStreak, phase, left, counts>>

\* recoverHandoff: recovered or failed for good counts as moved, transient as an error.
Recover(field) == /\ phase = "stranded" /\ left > 0
                  /\ left' = left - 1
                  /\ counts' = [counts EXCEPT ![field] = @ + 1]
                  /\ UNCHANGED <<skipTicks, failureStreak, phase, elapsed>>

\* findAcquiring returned n rows.
FindAcquiring == /\ phase = "stranded" /\ left = 0
                 /\ \E n \in 0..BatchSize : /\ left' = n
                                            /\ counts' = [counts EXCEPT !.checked = n]
                 /\ phase' = "acquiring"
                 /\ UNCHANGED <<skipTicks, failureStreak, elapsed>>

\* getBook, applyBook, markFailed: the row moved, an error, or nothing to report
\* (still on its way, or another caller moved it first).
Poll == /\ phase = "acquiring" /\ left > 0
        /\ left' = left - 1
        /\ \/ UNCHANGED counts
           \/ \E field \in {"transitioned", "upstreamErrors"} : counts' = [counts EXCEPT ![field] = @ + 1]
        /\ UNCHANGED <<skipTicks, failureStreak, phase, elapsed>>

Sweep == /\ phase = "acquiring" /\ left = 0
         /\ phase' = "sweep"
         /\ UNCHANGED <<skipTicks, failureStreak, left, counts, elapsed>>

Calm == failureStreak' = 0 /\ UNCHANGED skipTicks

\* The pass returned its counts to tick.
EndPass == /\ phase = "sweep"
           /\ phase' = "idle"
           /\ IF counts.upstreamErrors > 0 /\ counts.transitioned = 0 /\ counts.checked > 0
              THEN Backoff
              ELSE Calm
           /\ elapsed' = IF failureStreak' = 0 THEN 0 ELSE elapsed
           /\ UNCHANGED <<left, counts>>

\* A finder (before its phase's rows), markFailed or the sweep's read threw:
\* tick's catch.
Throw == /\ phase # "idle"
         /\ phase = "stranded" => left = 0
         /\ phase = "acquiring" => left > 0
         /\ phase' = "idle" /\ left' = 0
         /\ Backoff
         /\ UNCHANGED <<counts, elapsed>>

PassStep == \/ \E field \in {"transitioned", "upstreamErrors"} : Recover(field)
            \/ FindAcquiring \/ Poll \/ Sweep \/ EndPass \/ Throw

BackoffNext == SkipTick \/ StartPass \/ DropTick \/ PassStep

BackoffSpec == BackoffInit /\ [][BackoffNext]_backoffVars

\* The Cron keeps ticking, and a pass's awaits settle.
FairBackoff == BackoffSpec /\ WF_backoffVars(SkipTick \/ StartPass) /\ WF_backoffVars(PassStep)

-------------------------------------------------------------------------------
\* Every variable has its type; a backoff never skips more than SkipCap ticks.
BackoffTypeOK == /\ skipTicks \in 0..SkipCap /\ failureStreak \in 0..MaxStreak
          /\ phase \in {"idle", "stranded", "acquiring", "sweep"}
          /\ left \in 0..BatchSize
          /\ counts \in [checked : 0..BatchSize, transitioned : 0..(2 * BatchSize),
                         upstreamErrors : 0..(2 * BatchSize)]
          /\ elapsed \in 0..MaxElapsed

\* n failed passes in a row take at least the ticks of their doubling backoffs
\* (1 + 2 + 4 + ... up to the cap) and one tick each for the passes after the first,
\* however dropped ticks, quiet passes and thrown ones interleave.
Doubled(n) == CASE n = 1 -> 1 [] n = 2 -> 3 [] n = 3 -> 7 [] n >= 4 -> 15
StreakIsSpaced ==
  failureStreak \in 1..4 =>
    elapsed + skipTicks >= Smaller(Doubled(failureStreak) + failureStreak - 1, MaxElapsed)

\* A backoff, however long the streak behind it, ends in another pass.
PollsAgain == skipTicks > 0 ~> phase = "stranded"
===============================================================================
