------------------------------ MODULE Connection ------------------------------
(***************************************************************************)
(* Connection: the swappable narratorr connection                           *)
(* (narratorr-client-holder.ts) and the two services that remember what it  *)
(* answered under its generation: FeatureService (one capability) and       *)
(* CompanionEbookService (one companion per book).                          *)
(*                                                                          *)
(* The position of a connection in conns is its generation.  The services   *)
(* share one discipline, with different lifetimes: a cache entry and a      *)
(* single flight per key, both readable only under the generation that made *)
(* them.                                                                    *)
(***************************************************************************)
EXTENDS Integers, Sequences

CONSTANTS Server,     \* narratorr servers (url and key)
          None,       \* not configured, nothing
          Book,       \* book ids
          Ask,        \* callers of the capability and of the companions
          CapabilityTtl, UnsupportedTtl, StaleWindow, CompanionTtl, FailureTtl,
          CallTimeout, \* a call to narratorr ends within it
          MaxTime, MaxOps, MaxFaults \* bounds: the clock, operations started, faults

ASSUME ConnectionAssumption ==
  /\ None \notin Server \cup Book \cup Ask
  /\ {CapabilityTtl, UnsupportedTtl, StaleWindow, CompanionTtl, FailureTtl} \subseteq Nat \ {0}
  /\ {CallTimeout, MaxTime, MaxOps, MaxFaults} \subseteq Nat
  /\ CapabilityTtl <= StaleWindow

VARIABLES conns,   \* every connection installed since the boot, the live one last
          now,
          entry,   \* entry[k]: what is cached for key k
          slot,    \* slot[k]: who opened the flight callers of k may join
          ask,     \* ask[a]: where caller a stands
          ops, faults

caches == <<entry, slot, ask>>
connectionVars == <<conns, now, caches, ops, faults>>

Capability == "capability"
Key == {Capability} \cup Book
Time == 0..MaxTime
Generation == Len(conns)
Current == conns[Generation]

\* from and taken say which connection really answered, and when it was called.
Answer == [from : Nat, taken : Time, value : BOOLEAN]
Default == [from |-> 0, taken |-> 0, value |-> FALSE]
Entry == [gen : Nat, at : Time, ttl : Nat, answer : Answer]

IdleAsk == [at |-> "idle", key |-> Capability, next |-> None, gen |-> 0, on |-> None,
            mark |-> 0, seen |-> None, answer |-> Default]

\* A process that starts on connection c remembers nothing.
Boot(c) == /\ conns' = <<c>>
           /\ entry' = [k \in Key |-> None] /\ slot' = [k \in Key |-> None]
           /\ ask' = [a \in Ask |-> IdleAsk]

ConnectionInit == /\ conns \in {<<c>> : c \in Server \cup {None}}
                  /\ entry = [k \in Key |-> None] /\ slot = [k \in Key |-> None]
                  /\ ask = [a \in Ask |-> IdleAsk]
                  /\ now = 0 /\ ops = 0 /\ faults = 0

\* NarratorrClientHolder.set
Install(c) == conns' = Append(conns, c)

-------------------------------------------------------------------------------
(* Capability and companions                                                 *)

\* A swap retires every entry by making it unreadable.
Readable(k) == IF entry[k] # None /\ entry[k].gen = Generation THEN entry[k] ELSE None

\* Mutant: any open flight is joined.
JoinsAny(k) == slot[k] # None
Joins(k) == slot[k] # None /\ ask[slot[k]].gen = Generation

EntryOf(gen, at, ttl, answer) == [gen |-> gen, at |-> at, ttl |-> ttl, answer |-> answer]

\* FeatureService.ebooksCapability and CompanionEbookService.get up to their await.
\* With nothing configured the call fails at once: the capability is then FALSE and
\* nothing is remembered, a companion is absent for FailureTtl.
Look(a, k, next) ==
  LET cached == Readable(k)
      asked == [IdleAsk EXCEPT !.key = k, !.next = next, !.gen = Generation, !.mark = now]
      answered(v) == ask' = [ask EXCEPT ![a] = [asked EXCEPT !.at = "answered", !.answer = v]]
      waits(on) == ask' = [ask EXCEPT ![a] =
                             [asked EXCEPT !.at = "waiting", !.on = on, !.seen = cached]]
  IN IF cached # None /\ now - cached.at < cached.ttl
     THEN answered(cached.answer) /\ UNCHANGED <<entry, slot>>
     ELSE IF Joins(k) THEN waits(slot[k]) /\ UNCHANGED <<entry, slot>>
     ELSE IF Current # None
     THEN /\ waits(a)
          /\ slot' = [slot EXCEPT ![k] = a]
          /\ UNCHANGED entry
     ELSE LET nothing == [Default EXCEPT !.from = Generation, !.taken = now]
          IN /\ answered(nothing)
             /\ slot' = [slot EXCEPT ![k] = None]
             /\ entry' = IF k = Capability THEN entry
                         ELSE [entry EXCEPT ![k] = EntryOf(Generation, now, FailureTtl, nothing)]

\* A caller of its own: /api/features (next is None), enrich, or the Kindle preflight.
StartAsk(a, k, next) ==
  /\ ask[a].at = "idle" /\ ops < MaxOps
  /\ ops' = ops + 1
  /\ Look(a, k, next)
  /\ UNCHANGED <<conns, now, faults>>

\* What a settled flight returns and what it would install, if anything.
Said(f, value) == [from |-> ask[f].gen, taken |-> ask[f].mark, value |-> value]

\* Mutant: a failure is remembered as if it were an answer.
ServeStaleAndRemember(f) ==
  IF ask[f].seen # None /\ ask[f].mark - ask[f].seen.at < StaleWindow
  THEN [answer |-> ask[f].seen.answer,
        entry |-> EntryOf(ask[f].gen, ask[f].mark, CapabilityTtl, ask[f].seen.answer)]
  ELSE [answer |-> Default, entry |-> None]
\* A transient failure: the last answer while its window is open, nothing installed.
ServeStale(f) ==
  IF ask[f].seen # None /\ ask[f].mark - ask[f].seen.at < StaleWindow
  THEN [answer |-> ask[f].seen.answer, entry |-> None]
  ELSE [answer |-> Default, entry |-> None]

CapabilityOutcomes(f) ==
  {ServeStale(f)} \cup
  {[answer |-> Said(f, v.value), entry |-> EntryOf(ask[f].gen, ask[f].mark, v.ttl, Said(f, v.value))] :
     v \in {[value |-> TRUE, ttl |-> CapabilityTtl], [value |-> FALSE, ttl |-> CapabilityTtl],
            [value |-> FALSE, ttl |-> UnsupportedTtl]}}

\* A companion is stamped when the lookup settles, an absent or failed one included.
CompanionOutcomes(f) ==
  {[answer |-> Said(f, v.value), entry |-> EntryOf(ask[f].gen, now, v.ttl, Said(f, v.value))] :
     v \in {[value |-> TRUE, ttl |-> CompanionTtl], [value |-> FALSE, ttl |-> CompanionTtl],
            [value |-> FALSE, ttl |-> FailureTtl]}}

Release(k, f) == IF slot[k] = f THEN [slot EXCEPT ![k] = None] ELSE slot

\* The flight f opened settles: install under its own generation only, free the
\* slot if it is still f's, answer everyone who joined.
SettleAsk(f) ==
  /\ ask[f].at = "waiting" /\ ask[f].on = f
  /\ LET k == ask[f].key
     IN \E o \in IF k = Capability THEN CapabilityOutcomes(f) ELSE CompanionOutcomes(f) :
          /\ entry' = IF o.entry # None /\ ask[f].gen = Generation
                      THEN [entry EXCEPT ![k] = o.entry] ELSE entry
          /\ slot' = Release(k, f)
          /\ ask' = [a \in Ask |-> IF ask[a].at = "waiting" /\ ask[a].on = f
                                   THEN [ask[a] EXCEPT !.at = "answered", !.on = None, !.seen = None,
                                                       !.answer = o.answer]
                                   ELSE ask[a]]
  /\ UNCHANGED <<conns, now, ops, faults>>

\* The answer is used: enrich goes on to its book once the feature is on.
UseAnswer(a) ==
  /\ ask[a].at = "answered"
  /\ IF ask[a].next # None /\ ask[a].answer.value
     THEN Look(a, ask[a].next, None)
     ELSE ask' = [ask EXCEPT ![a] = IdleAsk] /\ UNCHANGED <<entry, slot>>
  /\ UNCHANGED <<conns, now, ops, faults>>

-------------------------------------------------------------------------------
\* A settled answer is used, and a call ends within its timeout, before the clock
\* moves on.
Tick == /\ now < MaxTime
        /\ \A a \in Ask : /\ ask[a].at # "answered"
                          /\ ask[a].at = "waiting" /\ ask[a].on = a => now - ask[a].mark < CallTimeout
        /\ now' = now + 1
        /\ UNCHANGED <<conns, caches, ops, faults>>

ConnectionTypeOK ==
  /\ conns \in Seq(Server \cup {None}) /\ conns # <<>>
  /\ now \in Time
  /\ entry \in [Key -> Entry \cup {None}]
  /\ slot \in [Key -> Ask \cup {None}]
  /\ ask \in [Ask -> [at : {"idle", "waiting", "answered"}, key : Key, next : Book \cup {None},
                      gen : Nat, on : Ask \cup {None}, mark : Time, seen : Entry \cup {None},
                      answer : Answer]]
  /\ ops \in 0..MaxOps /\ faults \in 0..MaxFaults

\* Every answer comes from the connection that was live when its caller asked (or
\* from none), however many swaps happened while the call was in the air; and the
\* live connection has at most one open call per key.
ServedIsCurrent ==
  /\ \A a \in Ask : ask[a].at = "answered" => ask[a].answer.from \in {0, ask[a].gen}
  /\ \A a, b \in Ask :
       /\ ask[a].at = "waiting" /\ ask[a].on = a /\ ask[a].gen = Generation
       /\ ask[b].at = "waiting" /\ ask[b].on = b /\ ask[b].gen = Generation
       /\ ask[a].key = ask[b].key
       => a = b

\* No good news outlives its window, however many failures follow it: a capability is
\* served for less than StaleWindow, a companion for less than CompanionTtl, after
\* the call that established it, plus the time one call may take.
StaleIsBounded ==
  \A a \in Ask :
    ask[a].at = "answered" /\ ask[a].answer.value
      => now - ask[a].answer.taken
           < CallTimeout + IF ask[a].key = Capability THEN StaleWindow ELSE CompanionTtl
===============================================================================
