----------------------------- MODULE MCFrontDoor ------------------------------
(* Four components that share no state with each other or with the rest, at   *)
(* the size each needs: the download proxy, the searches, the tick guard of   *)
(* the status poller, and Send-to-Kindle with the fairness of its own steps.  *)
(* One run checks them side by side: every behaviour goes through one of the  *)
(* doors.                                                                    *)
EXTENDS EbookDownload, Search, PollerBackoff

CONSTANTS Sender, Book, Attempt  \* the users, books and attempts of Send-to-Kindle

VARIABLES door, clock, sends, relay, job, locks, line, starts, up, misfortunes

Kindle == INSTANCE KindleSend
          WITH User <- Sender, now <- clock, faults <- misfortunes,
               MaxTime <- 1, MaxSends <- 1, MaxFaults <- 1,
               StartCap <- 1, StartWindow <- 0, DailyCap <- 1, DailyWindow <- 1,
               ReplayWindow <- 0, Lease <- 2, Deadline <- 1, Retention <- 2

kindleVars == <<clock, sends, relay, job, locks, line, starts, up, misfortunes>>
doors == <<vars, searchVars, backoffVars, kindleVars, door>>

FrontInit == /\ Init /\ SearchInit /\ BackoffInit /\ Kindle!Init
             /\ door \in {"download", "search", "poller", "kindle"}

\* The clock of the searches has come to its bound.
Closed == door = "search" /\ now = MaxTime /\ UNCHANGED doors

FrontNext ==
  \/ door = "download" /\ Next /\ UNCHANGED <<searchVars, backoffVars, kindleVars, door>>
  \/ door = "search" /\ SearchNext /\ UNCHANGED <<vars, backoffVars, kindleVars, door>>
  \/ door = "poller" /\ BackoffNext /\ UNCHANGED <<vars, searchVars, kindleVars, door>>
  \/ door = "kindle" /\ Kindle!Next /\ UNCHANGED <<vars, searchVars, backoffVars, door>>
  \/ Closed

Poller(step) == door = "poller" /\ step /\ UNCHANGED <<vars, searchVars, kindleVars, door>>

\* Fairness asks nothing of a component whose door is not the one in use.
FrontSpec == /\ FrontInit /\ [][FrontNext]_doors
             /\ \A r \in Req : WF_vars(Own(r))
             /\ WF_doors(Poller(SkipTick \/ StartPass)) /\ WF_doors(Poller(PassStep))
             /\ \A p \in Attempt : WF_kindleVars(Kindle!OwnStep(p))

\* A send is answered, unless a send of its user hangs outside the process
\* (KindleSend.EverySendAnswered).
EverySendAnswered == Kindle!EverySendAnswered
===============================================================================
