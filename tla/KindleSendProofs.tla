---------------------------- MODULE KindleSendProofs ----------------------------
(***************************************************************************)
(* Send-to-Kindle for any users, books, attempts, windows and bounds.  The  *)
(* lock map keeps one attempt per user in its section (MutexInv); from that *)
(* everything an attempt read stays true until it writes (RowInv), the two  *)
(* counts against the rolling caps included (CapsInv), and the refinement   *)
(* of SendPromise.                                                          *)
(***************************************************************************)
EXTENDS KindleSend, SequenceTheorems, FiniteSetTheorems, TLAPS

Section == Admission \cup Delivery

\* The types of everything but the minute counter, which CapsInv types.
TypeInv ==
  /\ now \in 0..MaxTime
  /\ sends \in [Send -> Row]
  /\ relay \in [Send -> {"none", "submitted", "accepted", "refused"}]
  /\ job \in [Attempt -> Job]
  /\ locks \in [User -> Entry \cup {0}]
  /\ line \in [Entry -> Seq(Attempt)]
  /\ up \in BOOLEAN
  /\ faults \in 0..MaxFaults

Chained(p, e) == \E i \in 1..Len(line[e]) : line[e][i] = p

\* The lock map: an entry's chain names each attempt once, and exactly those that have
\* not left; a section that has begun is the head's; and everyone who holds an entry
\* holds the one its user's lookup still finds.
MutexInv ==
  /\ \A e \in Entry : \A i, j \in 1..Len(line[e]) : line[e][i] = line[e][j] => i = j
  /\ \A p \in Attempt, e \in Entry :
       Chained(p, e) <=> job[p].entry = e /\ job[p].at \notin {"idle", "leaving"}
  /\ \A p \in Attempt : job[p].at \in Section =>
       line[job[p].entry] # <<>> /\ Head(line[job[p].entry]) = p
  /\ \A p \in Attempt : job[p].at # "idle" =>
       /\ job[p].user \in User /\ job[p].book \in Book
       /\ job[p].entry \in Entry /\ locks[job[p].user] = job[p].entry
  /\ \A p \in Attempt : job[p].at = "idle" => job[p] = Idle

-------------------------------------------------------------------------------
LEMMA EntryType == Cardinality(Attempt) \in Nat /\ 0 \notin Entry /\ Entry \subseteq Nat
<1>1. Cardinality(Attempt) \in Nat
  BY KindleAttemptsAssumption, FS_CardinalityType
<1>. QED  BY <1>1 DEF Entry

LEMMA Bounds == /\ MaxTime \in Nat /\ MaxSends \in Nat /\ MaxFaults \in Nat
                /\ StartWindow \in Nat /\ DailyWindow \in Nat /\ ReplayWindow \in Nat
                /\ Lease \in Nat /\ Deadline \in Nat /\ Retention \in Nat
  BY KindleBoundsAssumption, KindleWindowsAssumption

LEMMA IdleType == Idle \in Job
  BY Bounds DEF Idle, Job

\* The count of accepted sends fits its type.
LEMMA AcceptedCount ==
  ASSUME NEW u, NEW at PROVE Cardinality(Accepted(u, at)) \in 0..MaxSends
<1>1. Accepted(u, at) \subseteq 1..MaxSends
  BY DEF Accepted, Settled, Send
<1>2. IsFiniteSet(1..MaxSends) /\ Cardinality(1..MaxSends) = MaxSends
  BY Bounds, FS_Interval
<1>3. /\ IsFiniteSet(Accepted(u, at)) /\ Cardinality(Accepted(u, at)) <= MaxSends
  BY <1>1, <1>2, FS_Subset
<1>. QED  BY <1>3, Bounds, FS_CardinalityType

\* Two attempts inside their sections are not of one user.
Exclusive ==
  \A p, q \in Attempt :
    job[p].at \in Section /\ job[q].at \in Section /\ job[p].user = job[q].user => p = q

LEMMA SectionsExclude == MutexInv => Exclusive
  BY DEF MutexInv, Exclusive, Section, Admission, Delivery, Feeding

\* What the steps of an attempt do to the jobs: one record changes, to one of its type.
LEMMA JobChanges ==
  ASSUME TypeInv, NEW p \in Attempt, NEW x \in Job, job' = [job EXCEPT ![p] = x]
  PROVE  job' \in [Attempt -> Job] /\ job'[p] = x /\ \A q \in Attempt \ {p} : job'[q] = job[q]
  BY DEF TypeInv

\* An attempt goes on in its section: chain and map are untouched.
LEMMA MutexStay ==
  ASSUME TypeInv, MutexInv, NEW p \in Attempt, NEW x \in Job, job' = [job EXCEPT ![p] = x],
         x.user = job[p].user, x.book = job[p].book, x.entry = job[p].entry,
         x.at \in Section, job[p].at \in Section \/ (job[p].at = "queued" /\ Head(line[job[p].entry]) = p),
         UNCHANGED <<line, locks>>
  PROVE  MutexInv'
<1>1. job'[p] = x /\ \A q \in Attempt \ {p} : job'[q] = job[q]
  BY JobChanges
<1>2. job[p].at \notin {"idle", "leaving"} /\ x.at \notin {"idle", "leaving"}
  BY DEF Section, Admission, Delivery, Feeding
<1>3. \A q \in Attempt, e \in Entry : Chained(q, e)' <=> Chained(q, e)
  BY DEF Chained
<1>4. \A q \in Attempt, e \in Entry :
        Chained(q, e)' <=> job'[q].entry = e /\ job'[q].at \notin {"idle", "leaving"}
  BY <1>1, <1>2, <1>3 DEF MutexInv
<1>5. line[x.entry] # <<>> /\ Head(line[x.entry]) = p
  <2>1. Chained(p, job[p].entry)
    BY <1>2 DEF MutexInv
  <2>2. job[p].entry \in Entry
    BY <1>2 DEF MutexInv
  <2>. QED  BY <2>1, <2>2 DEF Chained, MutexInv, TypeInv
<1>6. \A q \in Attempt : job'[q].at \in Section =>
        line'[job'[q].entry] # <<>> /\ Head(line'[job'[q].entry]) = q
  BY <1>1, <1>5 DEF MutexInv
<1>7. \A q \in Attempt : job'[q].at # "idle" =>
        /\ job'[q].user \in User /\ job'[q].book \in Book
        /\ job'[q].entry \in Entry /\ locks'[job'[q].user] = job'[q].entry
  BY <1>1, <1>2 DEF MutexInv
<1>8. \A q \in Attempt : job'[q].at = "idle" => job'[q] = Idle
  BY <1>1, <1>2 DEF MutexInv
<1>. QED  BY <1>4, <1>6, <1>7, <1>8 DEF MutexInv

\* A section settles: the head leaves the chain.
LEMMA MutexLeave ==
  ASSUME TypeInv, MutexInv, NEW p \in Attempt, NEW resolved, Leave(p, resolved),
         job[p].at \in Section, UNCHANGED locks
  PROVE  /\ MutexInv' /\ line' \in [Entry -> Seq(Attempt)] /\ job' \in [Attempt -> Job]
         /\ job'[p].at = "leaving" /\ \A q \in Attempt \ {p} : job'[q] = job[q]
<1>. DEFINE x == [job[p] EXCEPT !.at = "leaving"]
<1>0. PICK e \in Entry : e = job[p].entry
  BY DEF MutexInv, Section, Admission, Delivery, Feeding
<1>1. line[e] \in Seq(Attempt) /\ line[e] # <<>> /\ Head(line[e]) = p
  BY <1>0 DEF MutexInv, TypeInv
<1>2. x \in Job /\ job' = [job EXCEPT ![p] = x]
  BY DEF TypeInv, Leave, Goto, Job
<1>3. job' \in [Attempt -> Job] /\ job'[p] = x /\ \A q \in Attempt \ {p} : job'[q] = job[q]
  BY <1>2, JobChanges
<1>4. job'[p].at = "leaving" /\ job'[p].entry = e /\ job'[p].user = job[p].user /\ job'[p].book = job[p].book
  BY <1>0, <1>3 DEF TypeInv, Job
<1>5. /\ line'[e] \in Seq(Attempt) /\ Len(line'[e]) = Len(line[e]) - 1 /\ Len(line[e]) >= 1
      /\ \A i \in 1..Len(line'[e]) : line'[e][i] = line[e][i + 1]
      /\ line' \in [Entry -> Seq(Attempt)] /\ \A f \in Entry \ {e} : line'[f] = line[f]
  BY <1>0, <1>1, HeadTailProperties DEF Leave, TypeInv
<1>6. line[e][1] = p /\ Len(line[e]) \in Nat
  BY <1>1
<1>7. \A f \in Entry : \A i, j \in 1..Len(line'[f]) : line'[f][i] = line'[f][j] => i = j
  <2>1. ASSUME NEW i \in 1..Len(line'[e]), NEW j \in 1..Len(line'[e]), line'[e][i] = line'[e][j]
        PROVE  i = j
    <3>1. i + 1 \in 1..Len(line[e]) /\ j + 1 \in 1..Len(line[e]) /\ line[e][i + 1] = line[e][j + 1]
      BY <1>5, <1>6, <2>1
    <3>. QED  BY <1>1, <3>1 DEF MutexInv
  <2>. QED  BY <1>5, <2>1 DEF MutexInv
<1>8. \A q \in Attempt \ {p}, f \in Entry : Chained(q, f)' <=> Chained(q, f)
  <2>1. ASSUME NEW q \in Attempt \ {p} PROVE Chained(q, e)' <=> Chained(q, e)
    <3>1. ASSUME Chained(q, e) PROVE Chained(q, e)'
      <4>1. PICK i \in 1..Len(line[e]) : line[e][i] = q
        BY <3>1 DEF Chained
      <4>2. i - 1 \in 1..Len(line'[e]) /\ line'[e][i - 1] = line[e][(i - 1) + 1]
        BY <1>5, <1>6, <4>1
      <4>. QED  BY <1>4, <1>6, <4>1, <4>2 DEF Chained
    <3>2. ASSUME Chained(q, e)' PROVE Chained(q, e)
      <4>1. PICK i \in 1..Len(line'[e]) : line'[e][i] = q
        BY <3>2, <1>4 DEF Chained
      <4>2. i + 1 \in 1..Len(line[e]) /\ line[e][i + 1] = q
        BY <1>5, <1>6, <4>1
      <4>. QED  BY <4>2 DEF Chained
    <3>. QED  BY <3>1, <3>2
  <2>2. ASSUME NEW q \in Attempt, NEW f \in Entry \ {e} PROVE Chained(q, f)' <=> Chained(q, f)
    BY <1>5 DEF Chained
  <2>. QED  BY <2>1, <2>2
<1>9. \A f \in Entry : ~Chained(p, f)'
  <2>1. ~Chained(p, e)'
    <3>1. \A i \in 1..Len(line'[e]) : line[e][i + 1] # line[e][1]
      BY <1>1, <1>5, <1>6 DEF MutexInv
    <3>. QED  BY <1>5, <1>6, <3>1 DEF Chained
  <2>2. \A f \in Entry \ {e} : ~Chained(p, f)
    BY <1>0 DEF MutexInv
  <2>. QED  BY <1>5, <2>1, <2>2 DEF Chained
<1>10. \A q \in Attempt, f \in Entry :
         Chained(q, f)' <=> job'[q].entry = f /\ job'[q].at \notin {"idle", "leaving"}
  <2>1. ASSUME NEW f \in Entry
        PROVE  Chained(p, f)' <=> job'[p].entry = f /\ job'[p].at \notin {"idle", "leaving"}
    BY <1>4, <1>9
  <2>2. ASSUME NEW q \in Attempt \ {p}, NEW f \in Entry
        PROVE  Chained(q, f)' <=> job'[q].entry = f /\ job'[q].at \notin {"idle", "leaving"}
    <3>1. Chained(q, f) <=> job[q].entry = f /\ job[q].at \notin {"idle", "leaving"}
      BY DEF MutexInv
    <3>. QED  BY <1>3, <1>8, <3>1
  <2>. QED  BY <2>1, <2>2
<1>11. \A q \in Attempt : job'[q].at \in Section =>
         line'[job'[q].entry] # <<>> /\ Head(line'[job'[q].entry]) = q
  <2>1. SUFFICES ASSUME NEW q \in Attempt, job'[q].at \in Section
                 PROVE  line'[job'[q].entry] # <<>> /\ Head(line'[job'[q].entry]) = q
    OBVIOUS
  <2>2. q # p /\ job'[q] = job[q]
    BY <1>3, <1>4, <2>1 DEF Section, Admission, Delivery, Feeding
  <2>3. job[q].entry \in Entry /\ line[job[q].entry] # <<>> /\ Head(line[job[q].entry]) = q
    BY <2>1, <2>2 DEF MutexInv, Section, Admission, Delivery, Feeding
  <2>4. job[q].entry # e
    BY <1>1, <2>2, <2>3
  <2>. QED  BY <1>5, <2>2, <2>3, <2>4
<1>12. \A q \in Attempt : job'[q].at # "idle" =>
         /\ job'[q].user \in User /\ job'[q].book \in Book
         /\ job'[q].entry \in Entry /\ locks'[job'[q].user] = job'[q].entry
  <2>1. job[p].at # "idle" /\ locks' = locks
    BY DEF Section, Admission, Delivery, Feeding
  <2>2. job'[p].user \in User /\ job'[p].book \in Book /\ job'[p].entry \in Entry
        /\ locks'[job'[p].user] = job'[p].entry
    BY <1>0, <1>4, <2>1 DEF MutexInv
  <2>. QED  BY <1>3, <2>1, <2>2 DEF MutexInv
<1>13. \A q \in Attempt : job'[q].at = "idle" => job'[q] = Idle
  BY <1>3, <1>4 DEF MutexInv
<1>. QED  BY <1>3, <1>4, <1>5, <1>7, <1>10, <1>11, <1>12, <1>13 DEF MutexInv

\* Nothing an attempt holds changes.
LEMMA MutexFrame == ASSUME MutexInv, UNCHANGED <<job, locks, line>> PROVE MutexInv'
  BY DEF MutexInv, Chained

\* The lock entry goes with its last holder: a queued attempt of the user keeps it.
LEMMA MutexCleanup ==
  ASSUME TypeInv, MutexInv, NEW p \in Attempt, Cleanup(p)
  PROVE  /\ MutexInv' /\ locks' \in [User -> Entry \cup {0}] /\ job' \in [Attempt -> Job]
         /\ job'[p] = Idle /\ \A q \in Attempt \ {p} : job'[q] = job[q]
<1>0. PICK u \in User, e \in Entry : u = job[p].user /\ e = job[p].entry /\ locks[u] = e
  BY DEF Cleanup, At, MutexInv
<1>1. /\ job' = [job EXCEPT ![p] = Idle] /\ line' = line /\ job[p].at = "leaving"
      /\ locks' = [locks EXCEPT ![u] = IF Waiters(e) = {p} THEN 0 ELSE e]
  BY <1>0 DEF Cleanup, At, TypeInv
<1>2. job' \in [Attempt -> Job] /\ job'[p] = Idle /\ \A q \in Attempt \ {p} : job'[q] = job[q]
  BY <1>1, IdleType, JobChanges
<1>3. locks' \in [User -> Entry \cup {0}]
  BY <1>1 DEF TypeInv
<1>4. Idle.at = "idle" /\ Idle.entry = 0
  BY DEF Idle
<1>5. \A q \in Attempt, f \in Entry : Chained(q, f)' <=> Chained(q, f)
  BY <1>1 DEF Chained
<1>6. \A q \in Attempt, f \in Entry :
        Chained(q, f)' <=> job'[q].entry = f /\ job'[q].at \notin {"idle", "leaving"}
  <2>1. ASSUME NEW f \in Entry PROVE ~Chained(p, f) /\ job'[p].at = "idle"
    BY <1>1, <1>2, <1>4 DEF MutexInv
  <2>2. ASSUME NEW q \in Attempt \ {p}, NEW f \in Entry
        PROVE  Chained(q, f) <=> job'[q].entry = f /\ job'[q].at \notin {"idle", "leaving"}
    BY <1>2 DEF MutexInv
  <2>. QED  BY <1>5, <2>1, <2>2
<1>7. \A q \in Attempt : job'[q].at \in Section => q # p
  BY <1>2, <1>4 DEF Section, Admission, Delivery, Feeding
<1>8. \A q \in Attempt : job'[q].at # "idle" =>
        /\ job'[q].user \in User /\ job'[q].book \in Book
        /\ job'[q].entry \in Entry /\ locks'[job'[q].user] = job'[q].entry
  <2>1. SUFFICES ASSUME NEW q \in Attempt, job'[q].at # "idle"
                 PROVE  /\ job'[q].user \in User /\ job'[q].book \in Book
                        /\ job'[q].entry \in Entry /\ locks'[job'[q].user] = job'[q].entry
    OBVIOUS
  <2>2. q # p /\ job'[q] = job[q]
    BY <1>2, <1>4, <2>1
  <2>3. /\ job[q].user \in User /\ job[q].book \in Book
        /\ job[q].entry \in Entry /\ locks[job[q].user] = job[q].entry
    BY <2>1, <2>2 DEF MutexInv
  <2>4. CASE job[q].user = u
    <3>1. q \in Waiters(e)
      BY <1>0, <2>3, <2>4 DEF Waiters
    <3>. QED  BY <1>0, <1>1, <2>2, <2>3, <2>4, <3>1 DEF TypeInv
  <2>5. CASE job[q].user # u
    BY <1>1, <2>2, <2>3, <2>5 DEF TypeInv
  <2>. QED  BY <2>4, <2>5
<1>. QED  BY <1>1, <1>2, <1>3, <1>4, <1>6, <1>7, <1>8 DEF MutexInv

\* A new attempt chains onto its user's entry, or onto one nobody holds.
LEMMA MutexEnter ==
  ASSUME TypeInv, MutexInv, NEW p \in Attempt, NEW u \in User, NEW b \in Book, Enter(p, u, b)
  PROVE  /\ MutexInv' /\ locks' \in [User -> Entry \cup {0}] /\ line' \in [Entry -> Seq(Attempt)]
         /\ job' \in [Attempt -> Job]
         /\ job'[p].at = "queued" /\ \A q \in Attempt \ {p} : job'[q] = job[q]
<1>0. PICK e \in Entry :
        /\ IF locks[u] = 0 THEN Waiters(e) = {} ELSE e = locks[u]
        /\ locks' = [locks EXCEPT ![u] = e]
        /\ line' = [line EXCEPT ![e] = Append(@, p)]
        /\ job' = [job EXCEPT ![p] = [Idle EXCEPT !.at = "queued", !.user = u, !.book = b, !.entry = e]]
  BY DEF Enter
<1>. DEFINE x == [Idle EXCEPT !.at = "queued", !.user = u, !.book = b, !.entry = e]
<1>1. x \in Job
  BY IdleType DEF Job, Idle
<1>2. job' \in [Attempt -> Job] /\ job'[p] = x /\ \A q \in Attempt \ {p} : job'[q] = job[q]
  BY <1>0, <1>1, JobChanges
<1>3. job'[p].at = "queued" /\ job'[p].user = u /\ job'[p].book = b /\ job'[p].entry = e
  BY <1>2 DEF Idle
<1>4. locks' \in [User -> Entry \cup {0}] /\ locks'[u] = e /\ \A v \in User \ {u} : locks'[v] = locks[v]
  BY <1>0 DEF TypeInv
<1>5. /\ line' \in [Entry -> Seq(Attempt)] /\ Len(line'[e]) = Len(line[e]) + 1
      /\ Len(line[e]) \in Nat /\ line'[e][Len(line[e]) + 1] = p
      /\ \A i \in 1..Len(line[e]) : line'[e][i] = line[e][i]
      /\ \A f \in Entry \ {e} : line'[f] = line[f]
  BY <1>0, AppendProperties DEF TypeInv
<1>6. job[p].at = "idle" /\ \A f \in Entry : ~Chained(p, f)
  BY DEF Enter, At, MutexInv
<1>7. \A f \in Entry : \A i, j \in 1..Len(line'[f]) : line'[f][i] = line'[f][j] => i = j
  <2>1. \A i \in 1..Len(line[e]) : line[e][i] # p
    BY <1>6 DEF Chained
  <2>2. \A i, j \in 1..Len(line'[e]) : line'[e][i] = line'[e][j] => i = j
    BY <1>5, <2>1 DEF MutexInv
  <2>. QED  BY <1>5, <2>2 DEF MutexInv
<1>8. \A q \in Attempt, f \in Entry :
        Chained(q, f)' <=> job'[q].entry = f /\ job'[q].at \notin {"idle", "leaving"}
  <2>1. Chained(p, e)'
    BY <1>5 DEF Chained
  <2>2. \A f \in Entry \ {e} : ~Chained(p, f)'
    BY <1>5, <1>6 DEF Chained
  <2>3. ASSUME NEW q \in Attempt \ {p}, NEW f \in Entry PROVE Chained(q, f)' <=> Chained(q, f)
    <3>1. CASE f = e
      BY <1>5, <3>1 DEF Chained
    <3>2. CASE f # e
      BY <1>5, <3>2 DEF Chained
    <3>. QED  BY <3>1, <3>2
  <2>4. ASSUME NEW q \in Attempt \ {p}, NEW f \in Entry
        PROVE  Chained(q, f) <=> job'[q].entry = f /\ job'[q].at \notin {"idle", "leaving"}
    BY <1>2 DEF MutexInv
  <2>. QED  BY <1>3, <2>1, <2>2, <2>3, <2>4
<1>9. \A q \in Attempt : job'[q].at \in Section =>
        line'[job'[q].entry] # <<>> /\ Head(line'[job'[q].entry]) = q
  <2>1. SUFFICES ASSUME NEW q \in Attempt, job'[q].at \in Section
                 PROVE  line'[job'[q].entry] # <<>> /\ Head(line'[job'[q].entry]) = q
    OBVIOUS
  <2>2. q # p /\ job'[q] = job[q]
    BY <1>2, <1>3, <2>1 DEF Section, Admission, Delivery, Feeding
  <2>3. job[q].entry \in Entry /\ line[job[q].entry] # <<>> /\ Head(line[job[q].entry]) = q
    BY <2>1, <2>2 DEF MutexInv, Section, Admission, Delivery, Feeding
  <2>4. line[job[q].entry] \in Seq(Attempt)
    BY <2>3 DEF TypeInv
  <2>5. CASE job[q].entry = e
    <3>1. Len(line[e]) >= 1 /\ line[e][1] = q
      BY <2>3, <2>4, <2>5
    <3>2. line'[e] \in Seq(Attempt) /\ Len(line'[e]) >= 1 /\ line'[e][1] = q
      BY <1>5, <3>1
    <3>. QED  BY <2>2, <2>5, <3>2
  <2>6. CASE job[q].entry # e
    BY <1>5, <2>2, <2>3, <2>6
  <2>. QED  BY <2>5, <2>6
<1>10. \A q \in Attempt : job'[q].at # "idle" =>
         /\ job'[q].user \in User /\ job'[q].book \in Book
         /\ job'[q].entry \in Entry /\ locks'[job'[q].user] = job'[q].entry
  <2>1. SUFFICES ASSUME NEW q \in Attempt \ {p}, job[q].at # "idle"
                 PROVE  /\ job[q].user \in User /\ job[q].book \in Book
                        /\ job[q].entry \in Entry /\ locks'[job[q].user] = job[q].entry
    BY <1>2, <1>3, <1>4
  <2>2. /\ job[q].user \in User /\ job[q].book \in Book
        /\ job[q].entry \in Entry /\ locks[job[q].user] = job[q].entry
    BY <2>1 DEF MutexInv
  <2>3. job[q].user = u => e = job[q].entry
    BY <1>0, <2>2, EntryType
  <2>. QED  BY <1>4, <2>2, <2>3
<1>11. \A q \in Attempt : job'[q].at = "idle" => job'[q] = Idle
  BY <1>2, <1>3 DEF MutexInv
<1>. QED  BY <1>2, <1>3, <1>4, <1>5, <1>7, <1>8, <1>9, <1>10, <1>11 DEF MutexInv

\* A process that starts holds nothing.
Fresh == job = [p \in Attempt |-> Idle] /\ line = [e \in Entry |-> <<>>] /\ locks = [u \in User |-> 0]

LEMMA MutexFresh == Fresh => MutexInv
  BY EntryType DEF Fresh, MutexInv, Chained, Idle, Section, Admission, Delivery, Feeding

-------------------------------------------------------------------------------
(* The rows.  HoldOK says what an attempt may rely on about its own row, clock *)
(* and earlier reads; TableOK what holds of the audit table by itself.         *)

Checked == {"accepted", "active", "reserve"}
Sending == {"reserved", "open", "stream", "ended"}

HoldOK(p) ==
  /\ job[p].at \in Admission \cup {"queued"} => job[p].tries = 0 /\ job[p].slot = None
  /\ job[p].at \in Delivery =>
       /\ job[p].row \in Send
       /\ sends[job[p].row].user = job[p].user /\ sends[job[p].row].book = job[p].book
       /\ job[p].tries = 0 => sends[job[p].row].status = "started"
       /\ sends[job[p].row].status # "absent"
  /\ job[p].at \in Sending => job[p].tries = 0
  /\ job[p].at = "write" => job[p].tries < 2
  /\ job[p].at = "reserved" => job[p].slot = None
  /\ job[p].at \in {"reserved", "open", "stream"} =>
       relay[job[p].row] = "none" /\ job[p].slot \in {None, "failed"}
  /\ job[p].at = "ended" => job[p].slot \in {None, "indeterminate"}
  /\ job[p].at \in {"write", "reread"} =>
       /\ job[p].slot \in Terminal
       /\ job[p].slot = "failed" => relay[job[p].row] \in {"none", "refused"}
       /\ job[p].slot = "sent" => relay[job[p].row] = "accepted"
  /\ Armed(p) => now <= job[p].deadline /\ job[p].deadline <= sends[job[p].row].started + Lease
  /\ job[p].at \in Checked => Replays(job[p].user, job[p].book, job[p].now) = {}

TableOK ==
  /\ OneReservationPerBook
  /\ HonestOutcomes
  /\ \A i \in Send : sends[i].status = "absent" => relay[i] = "none"

RowInv == /\ TableOK
          /\ \A p \in Attempt : HoldOK(p)
          /\ ~up => \A p \in Attempt : job[p].at = "idle"

KInv == TypeInv /\ MutexInv /\ RowInv

\* What one attempt's step may do to the rows: end its own user's reservations,
\* drop finished rows, insert a fresh one.
SendsEdge(u) ==
  \A i \in Send :
    \/ sends'[i] = sends[i]
    \/ /\ sends[i].status = "started" /\ sends[i].user = u /\ sends'[i].status \in Terminal
       /\ sends'[i].user = sends[i].user /\ sends'[i].book = sends[i].book
    \/ /\ sends[i].status \in Terminal /\ sends'[i].status = "deleted"
       /\ sends'[i].user = sends[i].user /\ sends'[i].book = sends[i].book
    \/ sends[i].status = "absent" /\ sends'[i].status = "started"

\* Such a step takes nothing away from an attempt of another user.
LEMMA OthersKept ==
  ASSUME TypeInv, NEW q \in Attempt, HoldOK(q), job'[q] = job[q], NEW u, job[q].user # u,
         SendsEdge(u), sends' \in [Send -> Row], now' = now,
         job[q].at \in Delivery => relay'[job[q].row] = relay[job[q].row]
  PROVE  HoldOK(q)'
<1>1. job[q].at \in Delivery =>
        /\ sends'[job[q].row].user = job[q].user /\ sends'[job[q].row].book = job[q].book
        /\ job[q].tries = 0 => sends'[job[q].row] = sends[job[q].row]
        /\ sends'[job[q].row].status # "absent"
  BY DEF HoldOK, SendsEdge, Terminal
<1>2. job[q].at \in Checked => Replays(job[q].user, job[q].book, job[q].now)' = {}
  <2>1. SUFFICES ASSUME job[q].at \in Checked,
                        NEW i \in Replays(job[q].user, job[q].book, job[q].now)'
                 PROVE  FALSE
    OBVIOUS
  <2>2. /\ i \in Send /\ sends'[i].user = job[q].user /\ sends'[i].status \in Terminal
        /\ sends'[i].book = job[q].book
        /\ IsInsideWindow(sends'[i].finalized, job[q].now, ReplayWindow)
    BY <2>1 DEF Replays, Settled, IsInsideWindow
  <2>3. sends'[i] = sends[i]
    BY <2>2 DEF SendsEdge, Terminal
  <2>4. i \in Replays(job[q].user, job[q].book, job[q].now)
    BY <2>2, <2>3 DEF Replays, Settled
  <2>. QED  BY <2>1, <2>4 DEF HoldOK
<1>3. Armed(q)' => Armed(q) /\ job[q].at \in Delivery /\ job[q].tries = 0
  BY DEF Armed, HoldOK, Sending, Delivery, Feeding
<1>. QED  BY <1>1, <1>2, <1>3 DEF HoldOK, Sending, Delivery, Feeding

LEMMA SweptRows ==
  ASSUME TypeInv, TableOK, NEW S, NEW at \in 0..MaxTime, sends' = Swept(S, at), relay' = relay
  PROVE  /\ sends' \in [Send -> Row] /\ TableOK'
         /\ \A u : S = {u} => SendsEdge(u)
<1>1. \A i \in Send : \/ sends'[i] = sends[i]
                      \/ /\ sends[i].status = "started" /\ sends[i].user \in S
                         /\ sends'[i] = [sends[i] EXCEPT !.status = "indeterminate", !.finalized = at]
  BY DEF Swept, Expired
<1>2. sends' = [i \in Send |-> sends'[i]]
  BY DEF Swept
<1>3. ASSUME NEW i \in Send, sends'[i] # sends[i]
      PROVE  /\ sends'[i] \in Row
             /\ sends[i].status = "started" /\ sends[i].user \in S
             /\ sends'[i].status = "indeterminate"
             /\ sends'[i].user = sends[i].user /\ sends'[i].book = sends[i].book
  <2>1. sends[i].status = "started" /\ sends[i].user \in S
        /\ sends'[i] = [sends[i] EXCEPT !.status = "indeterminate", !.finalized = at]
    BY <1>1, <1>3
  <2>2. sends[i] \in Row
    BY DEF TypeInv
  <2>. QED  BY <2>1, <2>2 DEF Row, Terminal
<1>4. sends' \in [Send -> Row]
  BY <1>2, <1>3 DEF TypeInv
<1>5. TableOK'
  <2>1. OneReservationPerBook'
    BY <1>3 DEF TableOK, OneReservationPerBook
  <2>2. HonestOutcomes'
    BY <1>3 DEF TableOK, HonestOutcomes
  <2>. QED  BY <1>3, <2>1, <2>2 DEF TableOK
<1>6. ASSUME NEW u, S = {u} PROVE SendsEdge(u)
  BY <1>3, <1>6 DEF SendsEdge, Terminal
<1>. QED  BY <1>4, <1>5, <1>6

LEMMA PrunedRows ==
  ASSUME TypeInv, TableOK, NEW at, relay' = relay,
         sends' = [i \in Send |-> IF Stale(i, at) THEN [sends[i] EXCEPT !.status = "deleted"] ELSE sends[i]]
  PROVE  sends' \in [Send -> Row] /\ TableOK' /\ \A u : SendsEdge(u)
<1>1. \A i \in Send : \/ sends'[i] = sends[i]
                      \/ /\ sends[i].status \in Terminal
                         /\ sends'[i] = [sends[i] EXCEPT !.status = "deleted"]
  BY DEF Stale
<1>2. ASSUME NEW i \in Send, sends'[i] # sends[i]
      PROVE  /\ sends'[i] \in Row
             /\ sends[i].status \in Terminal /\ sends'[i].status = "deleted"
             /\ sends'[i].user = sends[i].user /\ sends'[i].book = sends[i].book
  <2>1. sends[i].status \in Terminal /\ sends'[i] = [sends[i] EXCEPT !.status = "deleted"]
    BY <1>1, <1>2
  <2>2. sends[i] \in Row
    BY DEF TypeInv
  <2>. QED  BY <2>1, <2>2 DEF Row
<1>3. sends' \in [Send -> Row]
  BY <1>2 DEF TypeInv
<1>4. TableOK'
  <2>1. OneReservationPerBook'
    BY <1>2 DEF TableOK, OneReservationPerBook
  <2>2. HonestOutcomes'
    BY <1>2 DEF TableOK, HonestOutcomes
  <2>. QED  BY <1>2, <2>1, <2>2 DEF TableOK, Terminal
<1>. QED  BY <1>2, <1>3, <1>4 DEF SendsEdge

LEMMA InsertedRows ==
  ASSUME TypeInv, MutexInv, TableOK, NEW p \in Attempt, job[p].at \in Section, relay' = relay,
         ~ActiveCollision(job[p].user, job[p].book), NEW i \in FreeRow, sends' = Inserted(p, i)
  PROVE  /\ sends' \in [Send -> Row] /\ TableOK' /\ SendsEdge(job[p].user)
         /\ i \in Send /\ sends'[i].user = job[p].user /\ sends'[i].book = job[p].book
         /\ sends'[i].status = "started" /\ sends'[i].started = job[p].now
         /\ relay[i] = "none" /\ sends[i].status = "absent"
         /\ \A k \in Send \ {i} : sends'[k] = sends[k]
<1>1. i \in Send /\ sends[i].status = "absent" /\ relay[i] = "none"
  BY DEF FreeRow, TableOK
<1>. DEFINE x == [AbsentRow EXCEPT !.user = job[p].user, !.book = job[p].book,
                                   !.status = "started", !.started = job[p].now]
<1>2. x \in Row
  <2>1. AbsentRow \in Row
    BY Bounds DEF AbsentRow, Row
  <2>2. job[p].user \in User /\ job[p].book \in Book /\ job[p].now \in 0..MaxTime
    BY DEF MutexInv, TypeInv, Job, Section, Admission, Delivery, Feeding
  <2>. QED  BY <2>1, <2>2 DEF Row
<1>3. sends' \in [Send -> Row] /\ sends'[i] = x /\ \A k \in Send \ {i} : sends'[k] = sends[k]
  BY <1>1, <1>2 DEF Inserted, TypeInv
<1>4. /\ sends'[i].user = job[p].user /\ sends'[i].book = job[p].book
      /\ sends'[i].status = "started" /\ sends'[i].started = job[p].now
  BY <1>3 DEF AbsentRow
<1>5. TableOK'
  <2>1. OneReservationPerBook'
    <3>1. SUFFICES ASSUME NEW k \in Send, NEW m \in Send, k # m,
                          sends'[k].user = sends'[m].user, sends'[k].book = sends'[m].book,
                          sends'[k].status = "started", sends'[m].status = "started"
                   PROVE  FALSE
      BY DEF OneReservationPerBook
    <3>2. \A n \in Send : sends[n].user = job[p].user /\ sends[n].book = job[p].book
                           => sends[n].status # "started"
      BY DEF ActiveCollision, Started
    <3>3. CASE k = i
      BY <1>3, <1>4, <3>1, <3>2, <3>3
    <3>4. CASE m = i
      BY <1>3, <1>4, <3>1, <3>2, <3>4
    <3>5. CASE k # i /\ m # i
      BY <1>3, <3>1, <3>5 DEF TableOK, OneReservationPerBook
    <3>. QED  BY <3>3, <3>4, <3>5
  <2>2. HonestOutcomes'
    BY <1>3, <1>4 DEF TableOK, HonestOutcomes
  <2>. QED  BY <1>3, <1>4, <2>1, <2>2 DEF TableOK
<1>6. SendsEdge(job[p].user)
  BY <1>1, <1>3, <1>4 DEF SendsEdge
<1>. QED  BY <1>1, <1>3, <1>4, <1>5, <1>6

LEMMA WrittenRows ==
  ASSUME TypeInv, MutexInv, TableOK, NEW p \in Attempt, HoldOK(p), job[p].at = "write",
         sends' = TerminalWrite(p), relay' = relay
  PROVE  /\ sends' \in [Send -> Row] /\ TableOK' /\ SendsEdge(job[p].user)
         /\ \A k \in Send : k # job[p].row => sends'[k] = sends[k]
         /\ sends'[job[p].row].user = job[p].user /\ sends'[job[p].row].book = job[p].book
         /\ sends'[job[p].row].status # "absent"
<1>0. PICK i \in Send : i = job[p].row
  BY DEF HoldOK, Delivery
<1>. DEFINE x == [sends[i] EXCEPT !.status = job[p].slot, !.finalized = now]
<1>1. /\ job[p].slot \in Terminal
      /\ sends[i].user = job[p].user /\ sends[i].book = job[p].book /\ sends[i].status # "absent"
      /\ job[p].slot = "failed" => relay[i] \in {"none", "refused"}
      /\ job[p].slot = "sent" => relay[i] = "accepted"
  BY <1>0 DEF HoldOK, Delivery
<1>2. CASE sends[i].status # "started"
  <2>1. sends' = sends
    BY <1>0, <1>2 DEF TerminalWrite
  <2>2. TableOK'
    BY <2>1 DEF TableOK, OneReservationPerBook, HonestOutcomes
  <2>. QED  BY <1>0, <1>1, <2>1, <2>2 DEF SendsEdge, TypeInv
<1>3. CASE sends[i].status = "started"
  <2>1. sends' = [sends EXCEPT ![i] = x]
    BY <1>0, <1>3 DEF TerminalWrite
  <2>2. x \in Row
    BY <1>1 DEF TypeInv, Row, Terminal
  <2>3. sends' \in [Send -> Row] /\ sends'[i] = x /\ \A k \in Send \ {i} : sends'[k] = sends[k]
    BY <1>1, <2>1, <2>2 DEF TypeInv
  <2>4. sends'[i].status = job[p].slot /\ sends'[i].user = sends[i].user /\ sends'[i].book = sends[i].book
    BY <1>1, <2>3 DEF TypeInv, Row
  <2>5. TableOK'
    <3>1. OneReservationPerBook'
      <4>1. \A k \in Send : sends'[k].status = "started" => k # i /\ sends'[k] = sends[k]
        BY <1>1, <2>3, <2>4 DEF Terminal
      <4>. QED  BY <4>1 DEF TableOK, OneReservationPerBook
    <3>2. HonestOutcomes'
      BY <1>1, <2>3, <2>4 DEF TableOK, HonestOutcomes
    <3>. QED  BY <1>1, <2>3, <2>4, <3>1, <3>2 DEF TableOK, Terminal
  <2>6. SendsEdge(job[p].user)
    BY <1>1, <1>3, <2>3, <2>4 DEF SendsEdge
  <2>. QED  BY <1>0, <1>1, <2>3, <2>4, <2>5, <2>6 DEF Terminal
<1>. QED  BY <1>2, <1>3

LEMMA SameRows ==
  ASSUME TypeInv, TableOK, sends' = sends, relay' = relay
  PROVE  sends' \in [Send -> Row] /\ TableOK' /\ \A u : SendsEdge(u)
  BY DEF TypeInv, TableOK, OneReservationPerBook, HonestOutcomes, SendsEdge

\* Outside its section an attempt relies on nothing.
LEMMA IdleHolds ==
  ASSUME NEW q \in Attempt, HoldOK(q), job'[q] = job[q], job[q].at \notin Section
  PROVE  HoldOK(q)'
  BY DEF HoldOK, Section, Admission, Delivery, Feeding, Sending, Checked, Armed

\* The others, when the attempt p of another section or none takes its step.
LEMMA OthersHold ==
  ASSUME KInv, NEW p \in Attempt, NEW q \in Attempt \ {p}, job'[q] = job[q],
         job[q].at \in Section => job[q].user # job[p].user,
         SendsEdge(job[p].user), sends' \in [Send -> Row], now' = now,
         \A i \in Send : relay'[i] = relay[i] \/ (job[p].at \in Delivery /\ i = job[p].row)
  PROVE  HoldOK(q)'
<1>1. HoldOK(q)
  BY DEF KInv, RowInv
<1>2. CASE job[q].at \notin Section
  BY <1>1, <1>2, IdleHolds
<1>3. CASE job[q].at \in Section
  <2>1. job[q].at \in Delivery => relay'[job[q].row] = relay[job[q].row]
    <3>1. SUFFICES ASSUME job[q].at \in Delivery, job[p].at \in Delivery, job[q].row = job[p].row
                   PROVE  FALSE
      BY <1>1 DEF HoldOK
    <3>2. sends[job[q].row].user = job[q].user /\ sends[job[p].row].user = job[p].user
      BY <3>1 DEF KInv, RowInv, HoldOK
    <3>. QED  BY <1>3, <3>1, <3>2
  <2>. QED  BY <1>1, <1>3, <2>1, OthersKept DEF KInv
<1>. QED  BY <1>2, <1>3

LEMMA OwnStay ==
  ASSUME KInv, NEW p \in Attempt, NEW x \in Job, job' = [job EXCEPT ![p] = x],
         x.user = job[p].user, x.book = job[p].book, x.entry = job[p].entry,
         x.at \in Section, job[p].at \in Section \/ (job[p].at = "queued" /\ Head(line[job[p].entry]) = p),
         UNCHANGED <<line, locks, now, up>>, faults' \in 0..MaxFaults,
         sends' \in [Send -> Row], TableOK', SendsEdge(job[p].user),
         relay' \in [Send -> {"none", "submitted", "accepted", "refused"}],
         \A i \in Send : relay'[i] = relay[i] \/ (job[p].at \in Delivery /\ i = job[p].row),
         HoldOK(p)'
  PROVE  KInv'
<1>1. job' \in [Attempt -> Job] /\ job'[p] = x /\ \A q \in Attempt \ {p} : job'[q] = job[q]
  BY JobChanges DEF KInv
<1>2. MutexInv'
  BY MutexStay DEF KInv
<1>3. TypeInv'
  BY <1>1 DEF KInv, TypeInv
<1>4. ASSUME NEW q \in Attempt \ {p} PROVE HoldOK(q)'
  <2>1. job[q].at \in Section => job[q].user # job[p].user
    <3>1. Exclusive'
      BY <1>2, SectionsExclude, PTL
    <3>. QED  BY <1>1, <3>1 DEF Exclusive
  <2>. QED  BY <1>1, <2>1, OthersHold
<1>5. up
  BY DEF KInv, RowInv, Section, Admission, Delivery, Feeding, TypeInv
<1>. QED  BY <1>2, <1>3, <1>4, <1>5 DEF KInv, RowInv

LEMMA OwnLeave ==
  ASSUME KInv, NEW p \in Attempt, NEW resolved, Leave(p, resolved), job[p].at \in Section,
         UNCHANGED <<locks, now, up, relay>>, faults' \in 0..MaxFaults,
         sends' \in [Send -> Row], TableOK', SendsEdge(job[p].user)
  PROVE  KInv'
<1>1. /\ MutexInv' /\ line' \in [Entry -> Seq(Attempt)] /\ job' \in [Attempt -> Job]
      /\ job'[p].at = "leaving" /\ \A q \in Attempt \ {p} : job'[q] = job[q]
  BY MutexLeave DEF KInv
<1>2. TypeInv'
  BY <1>1 DEF KInv, TypeInv
<1>3. HoldOK(p)'
  BY <1>1 DEF HoldOK, Section, Admission, Delivery, Feeding, Sending, Checked, Armed
<1>4. ASSUME NEW q \in Attempt \ {p} PROVE HoldOK(q)'
  <2>1. job[q].at \in Section => job[q].user # job[p].user
    BY SectionsExclude DEF KInv, Exclusive
  <2>. QED  BY <1>1, <2>1, OthersHold
<1>5. up
  BY DEF KInv, RowInv, Section, Admission, Delivery, Feeding, TypeInv
<1>. QED  BY <1>1, <1>2, <1>3, <1>4, <1>5 DEF KInv, RowInv

-------------------------------------------------------------------------------
(* One lemma for every action *)

LEMMA KInit == Init => KInv
<1>. SUFFICES ASSUME Init PROVE KInv
  OBVIOUS
<1>1. MutexInv
  BY MutexFresh DEF Init, Fresh
<1>2. TypeInv
  <2>1. AbsentRow \in Row
    BY Bounds DEF AbsentRow, Row
  <2>2. sends \in [Send -> Row] /\ relay \in [Send -> {"none", "submitted", "accepted", "refused"}]
    BY <2>1 DEF Init
  <2>3. job \in [Attempt -> Job] /\ locks \in [User -> Entry \cup {0}]
    BY IdleType DEF Init
  <2>4. line \in [Entry -> Seq(Attempt)]
    <3>1. <<>> \in Seq(Attempt)
      OBVIOUS
    <3>. QED  BY <3>1 DEF Init
  <2>5. now \in 0..MaxTime /\ faults \in 0..MaxFaults
    BY Bounds DEF Init
  <2>6. up \in BOOLEAN
    BY DEF Init
  <2>. QED  BY <2>2, <2>3, <2>4, <2>5, <2>6 DEF TypeInv
<1>3. TableOK
  BY DEF Init, TableOK, OneReservationPerBook, HonestOutcomes, AbsentRow
<1>4. \A p \in Attempt : HoldOK(p)
  BY DEF Init, HoldOK, Idle, Admission, Delivery, Feeding, Sending, Checked, Armed
<1>. QED  BY <1>1, <1>2, <1>3, <1>4 DEF KInv, RowInv, Init, Idle

\* A step of an attempt that reads: rows, relay and fault count stay.
LEMMA ReadStay ==
  ASSUME KInv, NEW p \in Attempt, NEW x \in Job, job' = [job EXCEPT ![p] = x],
         x.user = job[p].user, x.book = job[p].book, x.entry = job[p].entry,
         x.at \in Section, job[p].at \in Section \/ (job[p].at = "queued" /\ Head(line[job[p].entry]) = p),
         UNCHANGED <<line, locks, now, up, faults, sends, relay>>,
         HoldOK(p)'
  PROVE  KInv'
<1>1. sends' \in [Send -> Row] /\ TableOK' /\ SendsEdge(job[p].user)
  BY SameRows DEF KInv, RowInv
<1>2. faults' \in 0..MaxFaults /\ relay' \in [Send -> {"none", "submitted", "accepted", "refused"}]
  BY DEF KInv, TypeInv
<1>. QED  BY <1>1, <1>2, OwnStay

LEMMA ReadLeave ==
  ASSUME KInv, NEW p \in Attempt, NEW resolved, Leave(p, resolved), job[p].at \in Section,
         UNCHANGED <<locks, now, up, relay, sends>>, faults' \in 0..MaxFaults
  PROVE  KInv'
<1>1. sends' \in [Send -> Row] /\ TableOK' /\ SendsEdge(job[p].user)
  BY SameRows DEF KInv, RowInv
<1>. QED  BY <1>1, OwnLeave

LEMMA JobFields ==
  ASSUME KInv, NEW p \in Attempt
  PROVE  /\ job[p] \in Job /\ HoldOK(p)
         /\ job[p].now \in 0..MaxTime /\ now \in 0..MaxTime
  BY DEF KInv, RowInv, TypeInv, Job

LEMMA KBegin == ASSUME KInv, NEW p \in Attempt, Begin(p) PROVE KInv'
<1>. DEFINE x == [job[p] EXCEPT !.at = "sweep", !.now = now]
<1>1. x \in Job /\ x.user = job[p].user /\ x.book = job[p].book /\ x.entry = job[p].entry /\ x.at = "sweep"
      /\ x.tries = job[p].tries /\ x.slot = job[p].slot
  BY JobFields DEF Job, Admission
<1>2. /\ job' = [job EXCEPT ![p] = x] /\ UNCHANGED <<line, locks, now, up, faults, sends, relay>>
      /\ job[p].at = "queued" /\ Head(line[job[p].entry]) = p
  BY DEF Begin, At, memory, world
<1>3. job'[p] = x
  BY <1>1, <1>2, JobChanges DEF KInv
<1>4. HoldOK(p)'
  BY <1>1, <1>2, <1>3, JobFields DEF HoldOK, Delivery, Feeding, Sending, Checked, Armed
<1>. QED  BY <1>1, <1>2, <1>4, ReadStay DEF Section, Admission

LEMMA KSweepLeases == ASSUME KInv, NEW p \in Attempt, SweepLeases(p) PROVE KInv'
<1>. DEFINE x == [job[p] EXCEPT !.at = "prune"]
<1>1. x \in Job /\ x.user = job[p].user /\ x.book = job[p].book /\ x.entry = job[p].entry /\ x.at = "prune"
      /\ x.tries = job[p].tries /\ x.slot = job[p].slot
  BY JobFields DEF Job, Admission
<1>2. /\ job' = [job EXCEPT ![p] = x] /\ UNCHANGED <<line, locks, now, up, faults, relay>>
      /\ job[p].at = "sweep" /\ sends' = Swept({job[p].user}, job[p].now)
  BY DEF SweepLeases, At, Goto, memory, world
<1>3. job'[p] = x
  BY <1>1, <1>2, JobChanges DEF KInv
<1>4. HoldOK(p)'
  BY <1>1, <1>2, <1>3, JobFields DEF HoldOK, Admission, Delivery, Feeding, Sending, Checked, Armed
<1>5. sends' \in [Send -> Row] /\ TableOK' /\ SendsEdge(job[p].user)
  BY <1>2, JobFields, SweptRows DEF KInv, RowInv
<1>6. faults' \in 0..MaxFaults /\ relay' \in [Send -> {"none", "submitted", "accepted", "refused"}]
  BY <1>2 DEF KInv, TypeInv
<1>. QED  BY <1>1, <1>2, <1>4, <1>5, <1>6, OwnStay DEF Section, Admission

LEMMA KPruneRetention == ASSUME KInv, NEW p \in Attempt, PruneRetention(p) PROVE KInv'
<1>. DEFINE x == [job[p] EXCEPT !.at = "replay"]
<1>1. x \in Job /\ x.user = job[p].user /\ x.book = job[p].book /\ x.entry = job[p].entry /\ x.at = "replay"
      /\ x.tries = job[p].tries /\ x.slot = job[p].slot
  BY JobFields DEF Job, Admission
<1>2. /\ job' = [job EXCEPT ![p] = x] /\ UNCHANGED <<line, locks, now, up, faults, relay>>
      /\ job[p].at = "prune"
  BY DEF PruneRetention, At, Goto, memory, world
<1>3. job'[p] = x
  BY <1>1, <1>2, JobChanges DEF KInv
<1>4. HoldOK(p)'
  BY <1>1, <1>2, <1>3, JobFields DEF HoldOK, Admission, Delivery, Feeding, Sending, Checked, Armed
<1>5. sends' \in [Send -> Row] /\ TableOK' /\ SendsEdge(job[p].user)
  <2>1. sends' = [i \in Send |-> IF Stale(i, job[p].now) THEN [sends[i] EXCEPT !.status = "deleted"] ELSE sends[i]]
    BY DEF PruneRetention
  <2>. QED  BY <1>2, <2>1, PrunedRows DEF KInv, RowInv
<1>6. faults' \in 0..MaxFaults /\ relay' \in [Send -> {"none", "submitted", "accepted", "refused"}]
  BY <1>2 DEF KInv, TypeInv
<1>. QED  BY <1>1, <1>2, <1>4, <1>5, <1>6, OwnStay DEF Section, Admission

LEMMA KFindReplay == ASSUME KInv, NEW p \in Attempt, FindReplay(p) PROVE KInv'
<1>1. job[p].at = "replay" /\ UNCHANGED <<locks, now, up, faults, sends, relay>>
  BY DEF FindReplay, At, world
<1>2. faults' \in 0..MaxFaults
  BY <1>1 DEF KInv, TypeInv
<1>3. CASE Leave(p, TRUE)
  BY <1>1, <1>2, <1>3, ReadLeave DEF Section, Admission
<1>4. CASE ~Leave(p, TRUE)
  <2>. DEFINE x == [job[p] EXCEPT !.at = "accepted"]
  <2>1. /\ job' = [job EXCEPT ![p] = x] /\ UNCHANGED line
        /\ Replays(job[p].user, job[p].book, job[p].now) = {}
    BY <1>4 DEF FindReplay, Goto
  <2>2. x \in Job /\ x.user = job[p].user /\ x.book = job[p].book /\ x.entry = job[p].entry /\ x.at = "accepted"
        /\ x.now = job[p].now /\ x.tries = job[p].tries /\ x.slot = job[p].slot
    BY JobFields DEF Job, Admission
  <2>3. job'[p] = x
    BY <2>1, <2>2, JobChanges DEF KInv
  <2>4. Replays(job[p].user, job[p].book, job[p].now)' = {}
    <3>1. job'[p].user = job[p].user /\ job'[p].book = job[p].book /\ job'[p].now = job[p].now
      BY <2>2, <2>3
    <3>. QED  BY <1>1, <2>1, <3>1 DEF Replays, Settled, IsInsideWindow
  <2>5. HoldOK(p)'
    BY <1>1, <2>2, <2>3, <2>4, JobFields DEF HoldOK, Admission, Delivery, Feeding, Sending, Checked, Armed
  <2>. QED  BY <1>1, <2>1, <2>2, <2>5, ReadStay DEF Section, Admission
<1>. QED  BY <1>3, <1>4

LEMMA KCountAccepted == ASSUME KInv, NEW p \in Attempt, CountAccepted(p) PROVE KInv'
<1>. DEFINE n == Cardinality(Accepted(job[p].user, job[p].now))
            x == [job[p] EXCEPT !.at = "active", !.used = n]
<1>1. /\ job[p].at = "accepted" /\ UNCHANGED <<line, locks, now, up, faults, sends, relay>>
      /\ job' = [job EXCEPT ![p] = x]
  BY DEF CountAccepted, At, memory, world
<1>2. n \in 0..MaxSends
  BY AcceptedCount
<1>3. x \in Job /\ x.user = job[p].user /\ x.book = job[p].book /\ x.entry = job[p].entry /\ x.at = "active"
      /\ x.now = job[p].now /\ x.tries = job[p].tries /\ x.slot = job[p].slot
  <2>. HIDE DEF n
  <2>. QED  BY <1>2, JobFields DEF Job, Admission
<1>4. job'[p] = x
  BY <1>1, <1>3, JobChanges DEF KInv
<1>5. Replays(job[p].user, job[p].book, job[p].now)' = {}
  <2>1. job'[p].user = job[p].user /\ job'[p].book = job[p].book /\ job'[p].now = job[p].now
    BY <1>3, <1>4
  <2>2. Replays(job[p].user, job[p].book, job[p].now) = {}
    BY <1>1, JobFields DEF HoldOK, Checked
  <2>. QED  BY <1>1, <2>1, <2>2 DEF Replays, Settled, IsInsideWindow
<1>6. HoldOK(p)'
  BY <1>1, <1>3, <1>4, <1>5, JobFields DEF HoldOK, Admission, Delivery, Feeding, Sending, Checked, Armed
<1>. QED  BY <1>1, <1>3, <1>6, ReadStay DEF Section, Admission

LEMMA KCountActive == ASSUME KInv, NEW p \in Attempt, CountActive(p) PROVE KInv'
<1>1. job[p].at = "active" /\ UNCHANGED <<locks, now, up, faults, sends, relay>>
  BY DEF CountActive, At, world
<1>2. faults' \in 0..MaxFaults
  BY <1>1 DEF KInv, TypeInv
<1>3. CASE Leave(p, TRUE)
  BY <1>1, <1>2, <1>3, ReadLeave DEF Section, Admission
<1>4. CASE ~Leave(p, TRUE)
  <2>. DEFINE x == [job[p] EXCEPT !.at = "reserve"]
  <2>1. job' = [job EXCEPT ![p] = x] /\ UNCHANGED line
    BY <1>4 DEF CountActive, Goto
  <2>2. x \in Job /\ x.user = job[p].user /\ x.book = job[p].book /\ x.entry = job[p].entry /\ x.at = "reserve"
        /\ x.now = job[p].now /\ x.tries = job[p].tries /\ x.slot = job[p].slot
    BY JobFields DEF Job, Admission
  <2>3. job'[p] = x
    BY <2>1, <2>2, JobChanges DEF KInv
  <2>4. Replays(job[p].user, job[p].book, job[p].now)' = {}
    <3>1. job'[p].user = job[p].user /\ job'[p].book = job[p].book /\ job'[p].now = job[p].now
      BY <2>2, <2>3
    <3>2. Replays(job[p].user, job[p].book, job[p].now) = {}
      BY <1>1, JobFields DEF HoldOK, Checked
    <3>. QED  BY <1>1, <3>1, <3>2 DEF Replays, Settled, IsInsideWindow
  <2>5. HoldOK(p)'
    BY <1>1, <2>2, <2>3, <2>4, JobFields DEF HoldOK, Admission, Delivery, Feeding, Sending, Checked, Armed
  <2>. QED  BY <1>1, <2>1, <2>2, <2>5, ReadStay DEF Section, Admission
<1>. QED  BY <1>3, <1>4

LEMMA KReserve == ASSUME KInv, NEW p \in Attempt, Reserve(p) PROVE KInv'
<1>1. job[p].at = "reserve" /\ UNCHANGED <<locks, now, up, faults, relay>>
  BY DEF Reserve, At, world
<1>2. faults' \in 0..MaxFaults /\ relay' \in [Send -> {"none", "submitted", "accepted", "refused"}]
  BY <1>1 DEF KInv, TypeInv
<1>3. CASE Leave(p, TRUE) /\ UNCHANGED sends
  BY <1>1, <1>2, <1>3, ReadLeave DEF Section, Admission
<1>4. CASE ~(Leave(p, TRUE) /\ UNCHANGED sends)
  <2>1. PICK i \in FreeRow : /\ sends' = Inserted(p, i)
                             /\ job' = [job EXCEPT ![p] = [@ EXCEPT !.at = "reserved", !.row = i]]
                             /\ UNCHANGED line /\ ~ActiveCollision(job[p].user, job[p].book)
    BY <1>4 DEF Reserve
  <2>2. /\ sends' \in [Send -> Row] /\ TableOK' /\ SendsEdge(job[p].user)
        /\ i \in Send /\ sends'[i].user = job[p].user /\ sends'[i].book = job[p].book
        /\ sends'[i].status = "started" /\ relay[i] = "none"
    BY <1>1, <2>1, InsertedRows DEF KInv, RowInv, Section, Admission
  <2>. DEFINE x == [job[p] EXCEPT !.at = "reserved", !.row = i]
  <2>3. x \in Job /\ x.user = job[p].user /\ x.book = job[p].book /\ x.entry = job[p].entry
        /\ x.at = "reserved" /\ x.row = i /\ x.tries = job[p].tries /\ x.slot = job[p].slot
    <3>1. i \in 0..MaxSends
      BY <2>2, Bounds DEF Send
    <3>. QED  BY <3>1, JobFields DEF Job, Delivery
  <2>4. job' = [job EXCEPT ![p] = x] /\ job'[p] = x
    BY <2>1, <2>3, JobChanges DEF KInv
  <2>5. x.tries = 0 /\ x.slot = None
    BY <1>1, <2>3, JobFields DEF HoldOK, Admission
  <2>6. HoldOK(p)'
    BY <1>1, <2>2, <2>3, <2>4, <2>5 DEF HoldOK, Admission, Delivery, Feeding, Sending, Checked, Armed
  <2>. QED  BY <1>1, <1>2, <2>1, <2>2, <2>3, <2>4, <2>6, OwnStay DEF Section, Admission, Delivery
<1>. QED  BY <1>3, <1>4

\* The attempt settled with an outcome the relay does not contradict.
LEMMA KConclude ==
  ASSUME KInv, NEW p \in Attempt, NEW o \in Terminal, Conclude(p, o),
         job[p].at \in Sending, UNCHANGED <<sends, relay, memory, world>>,
         job[p].at # "ended" => o = "failed",
         o = "failed" => relay[job[p].row] \in {"none", "refused"},
         o = "sent" => relay[job[p].row] = "accepted"
  PROVE  KInv'
<1>. DEFINE x == [job[p] EXCEPT !.at = "write", !.slot = Claim(p, o)]
<1>1. UNCHANGED <<line, locks, now, up, faults, sends, relay>> /\ job' = [job EXCEPT ![p] = x]
  BY DEF Conclude, memory, world
<1>2. job[p].slot \in Terminal \cup {None} /\ Claim(p, o) \in Terminal
  BY JobFields DEF Job, Claim
<1>3. x \in Job /\ x.user = job[p].user /\ x.book = job[p].book /\ x.entry = job[p].entry /\ x.at = "write"
      /\ x.row = job[p].row /\ x.tries = job[p].tries /\ x.slot = Claim(p, o)
  BY <1>2, JobFields DEF Job, Delivery
<1>4. job'[p] = x
  BY <1>1, <1>3, JobChanges DEF KInv
<1>5. /\ Claim(p, o) = "failed" => relay[job[p].row] \in {"none", "refused"}
      /\ Claim(p, o) = "sent" => relay[job[p].row] = "accepted"
  BY <1>2, JobFields DEF Claim, HoldOK, Sending
<1>6. HoldOK(p)'
  BY <1>1, <1>2, <1>3, <1>4, <1>5, JobFields DEF HoldOK, Admission, Delivery, Feeding, Sending, Checked, Armed
<1>. QED  BY <1>1, <1>3, <1>6, ReadStay DEF Section, Delivery, Sending, Feeding

LEMMA KDeliver == ASSUME KInv, NEW p \in Attempt, Deliver(p) PROVE KInv'
<1>. DEFINE budget == SendBudget(now, sends[job[p].row].started)
<1>1. job[p].at = "reserved" /\ UNCHANGED <<sends, relay, memory, world>>
  BY DEF Deliver, At
<1>2. relay[job[p].row] = "none" /\ job[p].slot = None /\ job[p].tries = 0 /\ job[p].row \in Send
  BY <1>1, JobFields DEF HoldOK, Delivery, Sending
<1>3. CASE Conclude(p, "failed")
  BY <1>1, <1>2, <1>3, KConclude DEF Terminal, Sending
<1>4. CASE ~Conclude(p, "failed")
  <2>1. ~(budget <= 0) /\ job' = [job EXCEPT ![p] = [@ EXCEPT !.at = "open", !.deadline = now + budget]]
    BY <1>4 DEF Deliver
  <2>2. /\ sends[job[p].row].started \in 0..MaxTime /\ now \in 0..MaxTime
    BY <1>2, JobFields DEF KInv, TypeInv, Row
  <2>3. budget \in 0..Deadline /\ now + budget <= sends[job[p].row].started + Lease
    BY <2>1, <2>2, Bounds DEF SendBudget, Smaller
  <2>. HIDE DEF budget
  <2>4. now + budget \in 0..(MaxTime + Deadline) /\ now <= now + budget
    BY <2>2, <2>3, Bounds
  <2>. DEFINE x == [job[p] EXCEPT !.at = "open", !.deadline = now + budget]
  <2>5. x \in Job /\ x.user = job[p].user /\ x.book = job[p].book /\ x.entry = job[p].entry /\ x.at = "open"
        /\ x.row = job[p].row /\ x.tries = job[p].tries /\ x.slot = job[p].slot /\ x.deadline = now + budget
    BY <2>4, JobFields DEF Job, Delivery, Feeding
  <2>6. job' = [job EXCEPT ![p] = x] /\ job'[p] = x /\ UNCHANGED <<line, locks, now, up, faults, sends, relay>>
    BY <1>1, <2>1, <2>5, JobChanges DEF KInv, memory, world
  <2>7. HoldOK(p)'
    BY <1>1, <1>2, <2>3, <2>4, <2>5, <2>6, JobFields
       DEF HoldOK, Admission, Delivery, Feeding, Sending, Checked, Armed
  <2>. QED  BY <1>1, <2>5, <2>6, <2>7, ReadStay DEF Section, Delivery, Feeding
<1>. QED  BY <1>3, <1>4

LEMMA KOpenStream == ASSUME KInv, NEW p \in Attempt, OpenStream(p) PROVE KInv'
<1>. DEFINE x == [job[p] EXCEPT !.at = "stream"]
<1>1. /\ job[p].at = "open" /\ UNCHANGED <<line, locks, now, up, faults, sends, relay>>
      /\ job' = [job EXCEPT ![p] = x]
  BY DEF OpenStream, At, Goto, memory, world
<1>2. x \in Job /\ x.user = job[p].user /\ x.book = job[p].book /\ x.entry = job[p].entry /\ x.at = "stream"
      /\ x.row = job[p].row /\ x.tries = job[p].tries /\ x.slot = job[p].slot /\ x.deadline = job[p].deadline
  BY JobFields DEF Job, Delivery, Feeding
<1>3. job'[p] = x
  BY <1>1, <1>2, JobChanges DEF KInv
<1>4. HoldOK(p)'
  BY <1>1, <1>2, <1>3, JobFields DEF HoldOK, Admission, Delivery, Feeding, Sending, Checked, Armed
<1>. QED  BY <1>1, <1>2, <1>4, ReadStay DEF Section, Delivery, Feeding

LEMMA KAttemptFails == ASSUME KInv, NEW p \in Attempt, AttemptFails(p) PROVE KInv'
<1>1. job[p].at \in Feeding /\ Conclude(p, "failed") /\ UNCHANGED <<sends, relay, memory, world>>
  BY DEF AttemptFails
<1>2. relay[job[p].row] = "none" /\ job[p].at \in Sending /\ "failed" \in Terminal
  BY <1>1, JobFields DEF HoldOK, Feeding, Sending, Terminal
<1>. QED  BY <1>1, <1>2, KConclude DEF Feeding

\* The message is in the relay's hands, while its row is still the attempt's.
LEMMA KStreamEnds == ASSUME KInv, NEW p \in Attempt, StreamEnds(p) PROVE KInv'
<1>. DEFINE x == [job[p] EXCEPT !.at = "ended"]
<1>1. /\ job[p].at = "stream" /\ UNCHANGED <<line, locks, now, up, faults, sends>>
      /\ job' = [job EXCEPT ![p] = x] /\ job[p].slot = None
      /\ relay' = [relay EXCEPT ![job[p].row] = "submitted"]
  BY DEF StreamEnds, At, Goto, memory, world
<1>2. x \in Job /\ x.user = job[p].user /\ x.book = job[p].book /\ x.entry = job[p].entry /\ x.at = "ended"
      /\ x.row = job[p].row /\ x.tries = job[p].tries /\ x.slot = job[p].slot /\ x.deadline = job[p].deadline
  BY JobFields DEF Job, Delivery, Feeding
<1>3. job'[p] = x
  BY <1>1, <1>2, JobChanges DEF KInv
<1>4. HoldOK(p)'
  <2>1. /\ job[p].row \in Send /\ job[p].tries = 0 /\ sends[job[p].row].status = "started"
        /\ sends[job[p].row].user = job[p].user /\ sends[job[p].row].book = job[p].book
    BY <1>1, JobFields DEF HoldOK, Delivery, Feeding, Sending
  <2>2. now <= job[p].deadline /\ job[p].deadline <= sends[job[p].row].started + Lease
    BY <1>1, JobFields DEF HoldOK, Armed, Feeding
  <2>3. job'[p].at = "ended" /\ job'[p].slot = None /\ job'[p].row = job[p].row /\ job'[p].tries = 0
        /\ job'[p].deadline = job[p].deadline /\ job'[p].user = job[p].user /\ job'[p].book = job[p].book
    BY <1>1, <1>2, <1>3, <2>1
  <2>. QED  BY <1>1, <2>1, <2>2, <2>3 DEF HoldOK, Admission, Delivery, Feeding, Sending, Checked, Armed
<1>5. job[p].row \in Send /\ sends[job[p].row].status = "started"
  BY <1>1, JobFields DEF HoldOK, Delivery, Feeding, Sending
<1>6. /\ relay' \in [Send -> {"none", "submitted", "accepted", "refused"}]
      /\ \A i \in Send : relay'[i] = relay[i] \/ i = job[p].row
  BY <1>1 DEF KInv, TypeInv
<1>7. TableOK'
  BY <1>1, <1>5, <1>6 DEF KInv, RowInv, TableOK, OneReservationPerBook, HonestOutcomes
<1>8. sends' \in [Send -> Row] /\ SendsEdge(job[p].user) /\ faults' \in 0..MaxFaults
  BY <1>1 DEF SendsEdge, KInv, TypeInv
<1>. QED  BY <1>1, <1>2, <1>4, <1>6, <1>7, <1>8, OwnStay DEF Section, Delivery, Feeding

LEMMA KSendMailSettles ==
  ASSUME KInv, NEW p \in Attempt, NEW reply \in {"accepted", "refused", "lost"}, SendMailSettles(p, reply)
  PROVE  KInv'
<1>1. job[p].at = "ended" /\ UNCHANGED <<sends, relay, memory, world>>
  BY DEF SendMailSettles, At
<1>. DEFINE o == CASE reply = "accepted" -> "sent"
                   [] reply = "refused" -> "failed"
                   [] reply = "lost" -> "indeterminate"
<1>2. Conclude(p, o) /\ (reply # "lost" => relay[job[p].row] = reply)
  BY DEF SendMailSettles
<1>3. /\ o \in Terminal
      /\ o = "failed" => relay[job[p].row] \in {"none", "refused"}
      /\ o = "sent" => relay[job[p].row] = "accepted"
  BY <1>2 DEF Terminal
<1>. HIDE DEF o
<1>. QED  BY <1>1, <1>2, <1>3, KConclude DEF Sending

LEMMA KDeadlineFires == ASSUME KInv, NEW p \in Attempt, DeadlineFires(p) PROVE KInv'
<1>. DEFINE o == DeadlineOutcome(p)
            x == [job[p] EXCEPT !.slot = o]
<1>1. /\ job[p].at \in {"open", "stream", "ended"} /\ job[p].slot = None
      /\ UNCHANGED <<line, locks, now, up, faults, sends, relay>> /\ job' = [job EXCEPT ![p] = x]
  BY DEF DeadlineFires, Armed, Feeding, Claim, memory, world
<1>2. /\ o \in Terminal
      /\ job[p].at = "ended" => o = "indeterminate"
      /\ job[p].at # "ended" => o = "failed"
  BY DEF DeadlineOutcome, At, Terminal
<1>. HIDE DEF o
<1>3. x \in Job /\ x.user = job[p].user /\ x.book = job[p].book /\ x.entry = job[p].entry /\ x.at = job[p].at
      /\ x.row = job[p].row /\ x.tries = job[p].tries /\ x.slot = o /\ x.deadline = job[p].deadline
  BY <1>2, JobFields DEF Job
<1>4. job'[p] = x
  BY <1>1, <1>3, JobChanges DEF KInv
<1>5. HoldOK(p)'
  BY <1>1, <1>2, <1>3, <1>4, JobFields DEF HoldOK, Admission, Delivery, Feeding, Sending, Checked, Armed
<1>. QED  BY <1>1, <1>3, <1>5, ReadStay DEF Section, Delivery, Feeding

\* A terminal write that found no started row, or was rejected, is tried again.
LEMMA KRetry ==
  ASSUME KInv, NEW p \in Attempt, job[p].at = "write", Retry(p), sends' \in {sends, TerminalWrite(p)},
         UNCHANGED <<line, locks, now, up, relay>>, faults' \in 0..MaxFaults
  PROVE  KInv'
<1>1. /\ job[p].tries \in {0, 1} /\ job[p].slot \in Terminal /\ job[p].row \in Send
      /\ job[p].slot = "failed" => relay[job[p].row] \in {"none", "refused"}
      /\ job[p].slot = "sent" => relay[job[p].row] = "accepted"
      /\ sends[job[p].row].user = job[p].user /\ sends[job[p].row].book = job[p].book
      /\ sends[job[p].row].status # "absent"
  BY JobFields DEF HoldOK, Delivery, Job
<1>2. PICK t, l : /\ t = job[p].tries + 1 /\ l = IF t = 1 THEN "write" ELSE "reread"
                  /\ job' = [job EXCEPT ![p] = [@ EXCEPT !.tries = t, !.at = l]]
  BY DEF Retry
<1>. DEFINE x == [job[p] EXCEPT !.tries = t, !.at = l]
<1>3. x \in Job /\ x.user = job[p].user /\ x.book = job[p].book /\ x.entry = job[p].entry
      /\ x.at \in {"write", "reread"} /\ (x.at = "write" => x.tries = 1)
      /\ x.row = job[p].row /\ x.tries \in {1, 2} /\ x.slot = job[p].slot
  <2>1. t \in {1, 2} /\ l \in {"write", "reread"} /\ (l = "write" => t = 1)
    BY <1>1, <1>2
  <2>2. t \in 0..2 /\ l \in Delivery
    BY <2>1 DEF Delivery
  <2>. QED  BY <2>1, <2>2, JobFields DEF Job
<1>4. job'[p] = x
  BY <1>2, <1>3, JobChanges DEF KInv
<1>5. /\ sends' \in [Send -> Row] /\ TableOK' /\ SendsEdge(job[p].user)
      /\ sends'[job[p].row].user = job[p].user /\ sends'[job[p].row].book = job[p].book
      /\ sends'[job[p].row].status # "absent"
  <2>1. CASE sends' = sends
    BY <1>1, <2>1, SameRows DEF KInv, RowInv
  <2>2. CASE sends' = TerminalWrite(p)
    BY <2>2, JobFields, WrittenRows DEF KInv, RowInv
  <2>. QED  BY <2>1, <2>2
<1>6. HoldOK(p)'
  <2>1. /\ job'[p].at \in {"write", "reread"} /\ (job'[p].at = "write" => job'[p].tries = 1)
        /\ job'[p].row = job[p].row /\ job'[p].tries \in {1, 2} /\ job'[p].slot = job[p].slot
        /\ job'[p].user = job[p].user /\ job'[p].book = job[p].book
    BY <1>3, <1>4
  <2>. QED  BY <1>1, <1>5, <2>1 DEF HoldOK, Admission, Delivery, Feeding, Sending, Checked, Armed
<1>7. relay' \in [Send -> {"none", "submitted", "accepted", "refused"}]
  BY DEF KInv, TypeInv
<1>. QED  BY <1>2, <1>3, <1>5, <1>6, <1>7, OwnStay DEF Section, Delivery

LEMMA KFinalize == ASSUME KInv, NEW p \in Attempt, Finalize(p) PROVE KInv'
<1>1. job[p].at = "write" /\ UNCHANGED <<locks, now, up, faults, relay>> /\ sends' = TerminalWrite(p)
  BY DEF Finalize, At, world
<1>2. faults' \in 0..MaxFaults
  BY <1>1 DEF KInv, TypeInv
<1>3. CASE Leave(p, TRUE)
  <2>1. sends' \in [Send -> Row] /\ TableOK' /\ SendsEdge(job[p].user)
    BY <1>1, JobFields, WrittenRows DEF KInv, RowInv
  <2>. QED  BY <1>1, <1>2, <1>3, <2>1, OwnLeave DEF Section, Delivery
<1>4. CASE Retry(p) /\ UNCHANGED line
  BY <1>1, <1>2, <1>4, KRetry
<1>. QED  BY <1>3, <1>4 DEF Finalize

LEMMA KReread == ASSUME KInv, NEW p \in Attempt, Reread(p) PROVE KInv'
<1>. DEFINE r == sends[job[p].row].status \in Terminal
<1>1. job[p].at = "reread" /\ UNCHANGED <<locks, now, up, faults, relay, sends>> /\ Leave(p, r)
  BY DEF Reread, At, world
<1>2. faults' \in 0..MaxFaults
  BY <1>1 DEF KInv, TypeInv
<1>. HIDE DEF r
<1>. QED  BY <1>1, <1>2, ReadLeave DEF Section, Delivery

\* A step that moves attempts only outside their sections.
LEMMA OutsideStep ==
  ASSUME KInv, MutexInv', NEW p \in Attempt, job' \in [Attempt -> Job],
         locks' \in [User -> Entry \cup {0}], line' \in [Entry -> Seq(Attempt)],
         \A q \in Attempt \ {p} : job'[q] = job[q],
         UNCHANGED <<sends, relay, world>>, up,
         job'[p].at \in {"idle", "queued"}, job'[p].tries = 0, job'[p].slot = None
  PROVE  KInv'
<1>1. UNCHANGED <<now, up, faults>>
  BY DEF world
<1>2. TypeInv'
  BY <1>1 DEF KInv, TypeInv
<1>3. TableOK'
  BY SameRows DEF KInv, RowInv
<1>4. HoldOK(p)'
  BY DEF HoldOK, Admission, Delivery, Feeding, Sending, Checked, Armed
<1>5. ASSUME NEW q \in Attempt \ {p} PROVE HoldOK(q)'
  <2>1. HoldOK(q)
    BY DEF KInv, RowInv
  <2>2. Replays(job[q].user, job[q].book, job[q].now)' = Replays(job[q].user, job[q].book, job[q].now)
    BY <1>1 DEF Replays, Settled, IsInsideWindow
  <2>. QED  BY <1>1, <2>1, <2>2 DEF HoldOK, Armed
<1>. QED  BY <1>1, <1>2, <1>3, <1>4, <1>5 DEF KInv, RowInv

LEMMA KCleanup == ASSUME KInv, NEW p \in Attempt, Cleanup(p) PROVE KInv'
<1>1. /\ MutexInv' /\ locks' \in [User -> Entry \cup {0}] /\ job' \in [Attempt -> Job]
      /\ job'[p] = Idle /\ \A q \in Attempt \ {p} : job'[q] = job[q]
  BY MutexCleanup DEF KInv
<1>2. UNCHANGED <<sends, relay, line, world>> /\ job[p].at = "leaving"
  BY DEF Cleanup, At
<1>3. job'[p].at \in {"idle", "queued"} /\ job'[p].tries = 0 /\ job'[p].slot = None
  BY <1>1 DEF Idle
<1>4. up /\ line' \in [Entry -> Seq(Attempt)]
  BY <1>2 DEF KInv, RowInv, TypeInv
<1>. QED  BY <1>1, <1>2, <1>3, <1>4, OutsideStep

LEMMA KEnter == ASSUME KInv, NEW p \in Attempt, NEW u \in User, NEW b \in Book, Enter(p, u, b) PROVE KInv'
<1>1. /\ MutexInv' /\ locks' \in [User -> Entry \cup {0}] /\ line' \in [Entry -> Seq(Attempt)]
      /\ job' \in [Attempt -> Job]
      /\ job'[p].at = "queued" /\ \A q \in Attempt \ {p} : job'[q] = job[q]
  BY MutexEnter DEF KInv
<1>2. UNCHANGED <<sends, relay, world>> /\ up
  BY DEF Enter
<1>3. job'[p].tries = 0 /\ job'[p].slot = None
  <2>1. PICK e \in Entry :
          job' = [job EXCEPT ![p] = [Idle EXCEPT !.at = "queued", !.user = u, !.book = b, !.entry = e]]
    BY DEF Enter
  <2>. QED  BY <2>1 DEF Idle, KInv, TypeInv
<1>. QED  BY <1>1, <1>2, <1>3, OutsideStep

LEMMA KDatabaseFault == ASSUME KInv, NEW p \in Attempt, DatabaseFault(p) PROVE KInv'
<1>1. UNCHANGED <<relay, locks, now, up>> /\ faults' \in 0..MaxFaults
  BY Bounds DEF DatabaseFault, KInv, TypeInv
<1>2. CASE /\ job[p].at \in {"sweep", "replay", "accepted", "active", "reserve", "reread"}
           /\ Leave(p, FALSE)
           /\ \/ UNCHANGED sends
              \/ /\ At(p, "reserve") /\ ~ActiveCollision(job[p].user, job[p].book)
                 /\ \E i \in FreeRow : sends' = Inserted(p, i)
  <2>1. job[p].at \in Section
    BY <1>2 DEF Section, Admission, Delivery
  <2>2. CASE UNCHANGED sends
    BY <1>1, <1>2, <2>1, <2>2, ReadLeave
  <2>3. CASE /\ At(p, "reserve") /\ ~ActiveCollision(job[p].user, job[p].book)
             /\ \E i \in FreeRow : sends' = Inserted(p, i)
    <3>1. sends' \in [Send -> Row] /\ TableOK' /\ SendsEdge(job[p].user)
      BY <1>1, <2>1, <2>3, InsertedRows DEF KInv, RowInv
    <3>. QED  BY <1>1, <1>2, <2>1, <3>1, OwnLeave
  <2>. QED  BY <1>2, <2>2, <2>3
<1>3. CASE At(p, "prune") /\ Goto(p, "replay") /\ UNCHANGED <<sends, line>>
  <2>. DEFINE x == [job[p] EXCEPT !.at = "replay"]
  <2>1. x \in Job /\ x.user = job[p].user /\ x.book = job[p].book /\ x.entry = job[p].entry
        /\ x.at = "replay" /\ x.tries = job[p].tries /\ x.slot = job[p].slot
    BY JobFields DEF Job, Admission
  <2>2. job' = [job EXCEPT ![p] = x] /\ job'[p] = x /\ job[p].at = "prune"
    BY <1>3, <2>1, JobChanges DEF KInv, At, Goto
  <2>3. HoldOK(p)'
    BY <2>1, <2>2, JobFields DEF HoldOK, Admission, Delivery, Feeding, Sending, Checked, Armed
  <2>4. sends' \in [Send -> Row] /\ TableOK' /\ SendsEdge(job[p].user)
    BY <1>1, <1>3, SameRows DEF KInv, RowInv
  <2>5. relay' \in [Send -> {"none", "submitted", "accepted", "refused"}]
    BY <1>1 DEF KInv, TypeInv
  <2>. QED  BY <1>1, <1>3, <2>1, <2>2, <2>3, <2>4, <2>5, OwnStay DEF Section, Admission
<1>4. CASE At(p, "write") /\ sends' \in {sends, TerminalWrite(p)} /\ Retry(p) /\ UNCHANGED line
  BY <1>1, <1>4, KRetry DEF At
<1>. QED  BY <1>2, <1>3, <1>4 DEF DatabaseFault

\* Rows, jobs and locks stay while the world moves: only deadlines look at the clock.
LEMMA WorldStep ==
  ASSUME KInv, UNCHANGED <<sends, job, locks, line, up, faults>>,
         now' \in 0..MaxTime, \A p \in Attempt : Armed(p) => now' <= job[p].deadline,
         relay' \in [Send -> {"none", "submitted", "accepted", "refused"}],
         \A i \in Send : relay'[i] = relay[i] \/ relay[i] = "submitted"
  PROVE  KInv'
<1>1. TypeInv' /\ MutexInv'
  BY MutexFrame DEF KInv, TypeInv
<1>2. TableOK'
  BY DEF KInv, RowInv, TableOK, OneReservationPerBook, HonestOutcomes
<1>3. ASSUME NEW q \in Attempt PROVE HoldOK(q)'
  <2>1. HoldOK(q)
    BY DEF KInv, RowInv
  <2>2. Replays(job[q].user, job[q].book, job[q].now)' = Replays(job[q].user, job[q].book, job[q].now)
    BY DEF Replays, Settled, IsInsideWindow
  <2>3. job[q].at \in Delivery /\ relay[job[q].row] # "submitted" => relay'[job[q].row] = relay[job[q].row]
    BY <2>1 DEF HoldOK
  <2>. QED  BY <2>1, <2>2, <2>3 DEF HoldOK, Armed, Delivery, Feeding
<1>. QED  BY <1>1, <1>2, <1>3 DEF KInv, RowInv

LEMMA KRelayDecides ==
  ASSUME KInv, NEW i \in Send, NEW fate \in {"accepted", "refused"}, RelayDecides(i, fate) PROVE KInv'
<1>1. /\ relay[i] = "submitted" /\ relay' = [relay EXCEPT ![i] = fate]
      /\ UNCHANGED <<sends, job, locks, line, now, up, faults>>
  BY DEF RelayDecides, memory, world
<1>2. relay' \in [Send -> {"none", "submitted", "accepted", "refused"}]
      /\ \A k \in Send : relay'[k] = relay[k] \/ relay[k] = "submitted"
  BY <1>1 DEF KInv, TypeInv
<1>3. now' \in 0..MaxTime /\ \A p \in Attempt : Armed(p) => now' <= job[p].deadline
  BY <1>1, JobFields DEF HoldOK, KInv, TypeInv
<1>. QED  BY <1>1, <1>2, <1>3, WorldStep

LEMMA KTick == ASSUME KInv, Tick PROVE KInv'
<1>1. /\ UNCHANGED <<sends, relay, job, locks, line, up, faults>> /\ now' = now + 1 /\ now < MaxTime
      /\ \A p \in Attempt : Armed(p) => now < job[p].deadline
  BY DEF Tick, memory
<1>2. now' \in 0..MaxTime
  BY <1>1, Bounds DEF KInv, TypeInv
<1>3. \A p \in Attempt : Armed(p) => now' <= job[p].deadline
  <2>1. \A p \in Attempt : job[p].deadline \in Int /\ now \in Int
    BY Bounds DEF KInv, TypeInv, Job
  <2>. QED  BY <1>1, <2>1
<1>. QED  BY <1>1, <1>2, <1>3, WorldStep DEF KInv, TypeInv

LEMMA KCrash == ASSUME KInv, Crash PROVE KInv'
<1>1. /\ UNCHANGED <<now, sends, relay>> /\ up' = FALSE /\ faults' = faults + 1 /\ faults < MaxFaults
      /\ job' = [p \in Attempt |-> Idle] /\ locks' = [u \in User |-> 0] /\ line' = [e \in Entry |-> <<>>]
  BY DEF Crash
<1>2. MutexInv'
  <2>1. Fresh'
    BY <1>1 DEF Fresh
  <2>. QED  BY <2>1, MutexFresh, PTL
<1>3. TypeInv'
  <2>1. job' \in [Attempt -> Job] /\ locks' \in [User -> Entry \cup {0}]
    BY <1>1, IdleType
  <2>2. line' \in [Entry -> Seq(Attempt)]
    <3>1. <<>> \in Seq(Attempt)
      OBVIOUS
    <3>. QED  BY <1>1, <3>1
  <2>3. faults' \in 0..MaxFaults
    BY <1>1, Bounds DEF KInv, TypeInv
  <2>4. up' \in BOOLEAN
    BY <1>1
  <2>. QED  BY <1>1, <2>1, <2>2, <2>3, <2>4 DEF KInv, TypeInv
<1>4. TableOK'
  BY <1>1, SameRows DEF KInv, RowInv
<1>5. \A p \in Attempt : job'[p] = Idle
  BY <1>1
<1>6. \A p \in Attempt : HoldOK(p)'
  BY <1>5 DEF Idle, HoldOK, Admission, Delivery, Feeding, Sending, Checked, Armed
<1>. QED  BY <1>2, <1>3, <1>4, <1>5, <1>6 DEF KInv, RowInv, Idle

LEMMA KBoot == ASSUME KInv, Boot PROVE KInv'
<1>1. /\ sends' = Swept(User, now) /\ up' = TRUE /\ ~up
      /\ UNCHANGED <<now, relay, job, locks, line, faults>>
  BY DEF Boot, memory
<1>2. sends' \in [Send -> Row] /\ TableOK'
  BY <1>1, SweptRows DEF KInv, RowInv, TypeInv
<1>3. TypeInv' /\ MutexInv'
  BY <1>1, <1>2, MutexFrame DEF KInv, TypeInv
<1>4. \A p \in Attempt : job'[p] = Idle
  BY <1>1 DEF KInv, RowInv, MutexInv
<1>5. \A p \in Attempt : HoldOK(p)'
  BY <1>4 DEF Idle, HoldOK, Admission, Delivery, Feeding, Sending, Checked, Armed
<1>. QED  BY <1>1, <1>2, <1>3, <1>5 DEF KInv, RowInv

LEMMA KFrame == ASSUME KInv, UNCHANGED vars PROVE KInv'
<1>1. UNCHANGED <<now, sends, relay, job, locks, line, up, faults>>
  BY DEF vars
<1>. QED  BY <1>1, JobFields, WorldStep DEF HoldOK, KInv, TypeInv

LEMMA KAttemptStep == ASSUME KInv, NEW p \in Attempt, AttemptStep(p) PROVE KInv'
  BY KBegin, KSweepLeases, KPruneRetention, KFindReplay, KCountAccepted, KCountActive, KReserve,
     KDeliver, KOpenStream, KAttemptFails, KStreamEnds, KSendMailSettles, KDeadlineFires,
     KFinalize, KReread, KCleanup
  DEF AttemptStep

LEMMA KNext == KInv /\ [Next]_vars => KInv'
  BY KEnter, KAttemptStep, KRelayDecides, KDatabaseFault, KTick, KCrash, KBoot, KFrame
  DEF Next, Environment

LEMMA KAlways == Spec => []KInv
  BY KInit, KNext, PTL DEF Spec

-------------------------------------------------------------------------------
(* What the audit table may do in a step of anybody *)

RowsEdge ==
  \A i \in Send :
    \/ sends'[i] = sends[i]
    \/ sends[i].status = "started" /\ sends'[i].status \in Terminal
    \/ sends[i].status \in Terminal /\ sends'[i].status = "deleted"
    \/ /\ sends[i].status = "absent" /\ sends'[i].status = "started"
       /\ sends'[i].started \in 0..MaxTime
       /\ Replays(sends'[i].user, sends'[i].book, sends'[i].started) = {}

\* An attempt inserts behind its replay check, which nobody else can invalidate.
LEMMA InsertEdge ==
  ASSUME KInv, NEW p \in Attempt, job[p].at = "reserve", ~ActiveCollision(job[p].user, job[p].book),
         NEW i \in FreeRow, sends' = Inserted(p, i), relay' = relay
  PROVE  RowsEdge
<1>1. /\ i \in Send /\ sends'[i].user = job[p].user /\ sends'[i].book = job[p].book
      /\ sends'[i].status = "started" /\ sends'[i].started = job[p].now /\ sends[i].status = "absent"
      /\ \A k \in Send \ {i} : sends'[k] = sends[k]
  BY InsertedRows DEF KInv, RowInv, Section, Admission
<1>2. Replays(job[p].user, job[p].book, job[p].now) = {} /\ job[p].now \in 0..MaxTime
  BY JobFields DEF HoldOK, Checked
<1>. QED  BY <1>1, <1>2 DEF RowsEdge

LEMMA WriteEdge ==
  ASSUME KInv, NEW p \in Attempt, job[p].at = "write", sends' = TerminalWrite(p), relay' = relay
  PROVE  RowsEdge
<1>1. SendsEdge(job[p].user) /\ \A k \in Send : k # job[p].row => sends'[k] = sends[k]
  BY JobFields, WrittenRows DEF KInv, RowInv
<1>2. sends[job[p].row].status # "absent"
  BY JobFields DEF HoldOK, Delivery
<1>. QED  BY <1>1, <1>2 DEF SendsEdge, RowsEdge

LEMMA SweepEdge ==
  ASSUME TypeInv, NEW S, NEW at, sends' = Swept(S, at)
  PROVE  RowsEdge
<1>1. ASSUME NEW i \in Send, sends'[i] # sends[i]
      PROVE  sends[i].status = "started" /\ sends'[i].status \in Terminal
  <2>1. sends[i].status = "started"
        /\ sends'[i] = [sends[i] EXCEPT !.status = "indeterminate", !.finalized = at]
    BY <1>1 DEF Swept, Expired
  <2>2. sends[i] \in Row
    BY DEF TypeInv
  <2>. QED  BY <2>1, <2>2 DEF Row, Terminal
<1>. QED  BY <1>1 DEF RowsEdge

LEMMA RowsStep == KInv /\ [Next]_vars => RowsEdge
<1>. SUFFICES ASSUME KInv, [Next]_vars PROVE RowsEdge
  OBVIOUS
<1>1. CASE UNCHANGED sends
  BY <1>1 DEF RowsEdge
<1>2. ASSUME NEW p \in Attempt, SweepLeases(p) PROVE RowsEdge
  <2>1. sends' = Swept({job[p].user}, job[p].now)
    BY <1>2 DEF SweepLeases
  <2>. QED  BY <2>1, SweepEdge DEF KInv
<1>3. ASSUME NEW p \in Attempt, PruneRetention(p) PROVE RowsEdge
  <2>1. sends' = [i \in Send |-> IF Stale(i, job[p].now) THEN [sends[i] EXCEPT !.status = "deleted"] ELSE sends[i]]
        /\ relay' = relay
    BY <1>3 DEF PruneRetention
  <2>2. ASSUME NEW i \in Send, sends'[i] # sends[i]
        PROVE  sends[i].status \in Terminal /\ sends'[i].status = "deleted"
    <3>1. sends[i].status \in Terminal /\ sends'[i] = [sends[i] EXCEPT !.status = "deleted"]
      BY <2>1, <2>2 DEF Stale
    <3>2. sends[i] \in Row
      BY DEF KInv, TypeInv
    <3>. QED  BY <3>1, <3>2 DEF Row
  <2>. QED  BY <2>2 DEF RowsEdge
<1>4. ASSUME NEW p \in Attempt, Reserve(p) PROVE RowsEdge
  BY <1>1, <1>4, InsertEdge DEF Reserve, At
<1>5. ASSUME NEW p \in Attempt, Finalize(p) PROVE RowsEdge
  BY <1>5, WriteEdge DEF Finalize, At
<1>6. ASSUME NEW p \in Attempt, DatabaseFault(p) PROVE RowsEdge
  <2>1. relay' = relay
    BY <1>6 DEF DatabaseFault
  <2>2. CASE At(p, "write") /\ sends' = TerminalWrite(p)
    BY <2>1, <2>2, WriteEdge DEF At
  <2>3. CASE At(p, "reserve") /\ ~ActiveCollision(job[p].user, job[p].book)
             /\ \E i \in FreeRow : sends' = Inserted(p, i)
    BY <2>1, <2>3, InsertEdge DEF At
  <2>. QED  BY <1>1, <1>6, <2>2, <2>3 DEF DatabaseFault
<1>7. CASE Boot
  <2>1. sends' = Swept(User, now)
    BY <1>7 DEF Boot
  <2>. QED  BY <2>1, SweepEdge DEF KInv
<1>8. ASSUME NEW p \in Attempt, AttemptStep(p) PROVE RowsEdge
  BY <1>1, <1>2, <1>3, <1>4, <1>5, <1>8
     DEF AttemptStep, Begin, FindReplay, CountAccepted, CountActive, Deliver, OpenStream, AttemptFails,
         StreamEnds, SendMailSettles, DeadlineFires, Reread, Cleanup
<1>9. ASSUME NEW p \in Attempt, NEW u \in User, NEW b \in Book, Enter(p, u, b) PROVE RowsEdge
  BY <1>1, <1>9 DEF Enter
<1>10. CASE Environment
  BY <1>1, <1>6, <1>7, <1>10 DEF Environment, RelayDecides, Tick, Crash
<1>11. CASE UNCHANGED vars
  BY <1>1, <1>11 DEF vars
<1>. QED  BY <1>8, <1>9, <1>10, <1>11 DEF Next

-------------------------------------------------------------------------------
\* The lock map serializes: whatever entries are created and deleted while others
\* wait, at most one attempt of a user is between its sweep and its settled outcome.
THEOREM SectionsSerialize == Spec => []OneInSection
<1>1. KInv => OneInSection
  <2>1. SUFFICES ASSUME KInv, NEW u \in User PROVE Cardinality(InSection(u)) <= 1
    BY DEF OneInSection
  <2>2. CASE InSection(u) = {}
    BY <2>2, FS_EmptySet
  <2>3. CASE InSection(u) # {}
    <3>1. PICK p \in InSection(u) : TRUE
      BY <2>3
    <3>2. InSection(u) = {p}
      BY <2>1, <3>1, SectionsExclude DEF KInv, Exclusive, InSection, Section
    <3>3. Cardinality({p}) = 1
      BY FS_Singleton
    <3>. QED  BY <3>2, <3>3
  <2>. QED  BY <2>2, <2>3
<1>. QED  BY <1>1, KAlways, PTL

\* The partial unique index and the boot sweep keep one live reservation per book.
THEOREM ReservationsUnique == Spec => []OneReservationPerBook
<1>1. KInv => OneReservationPerBook
  BY DEF KInv, RowInv, TableOK
<1>. QED  BY <1>1, KAlways, PTL

\* No sweep, prune or other attempt takes a reservation from the attempt that sends
\* against it, until its checked terminal write.
THEOREM ReservationsStand == Spec => []ReservationStands
<1>1. KInv => ReservationStands
  BY DEF KInv, RowInv, HoldOK, ReservationStands
<1>. QED  BY <1>1, KAlways, PTL

\* Faults, crashes, the deadline and the relay's late answers included, a recorded
\* `failed` cannot have arrived and a recorded `sent` was accepted.
THEOREM OutcomesHonest == Spec => []HonestOutcomes
<1>1. KInv => HonestOutcomes
  BY DEF KInv, RowInv, TableOK
<1>. QED  BY <1>1, KAlways, PTL

\* The attempt's budget is clamped to what is left of its lease, so no sweep can meet
\* a reservation whose message is still being fed.
THEOREM FeedingWithinLease == Spec => []NeverFedPastLease
<1>1. KInv => NeverFedPastLease
  <2>1. SUFFICES ASSUME KInv, NEW p \in Attempt, job[p].at \in Feeding, job[p].slot = None
                 PROVE  now <= sends[job[p].row].started + Lease
    BY DEF NeverFedPastLease
  <2>2. HoldOK(p) /\ Armed(p) /\ job[p].row \in Send
    BY <2>1 DEF KInv, RowInv, HoldOK, Armed, Delivery
  <2>3. now <= job[p].deadline /\ job[p].deadline <= sends[job[p].row].started + Lease
    BY <2>2 DEF HoldOK
  <2>4. now \in Int /\ job[p].deadline \in Int /\ sends[job[p].row].started \in Int
    <3>1. sends[job[p].row] \in Row /\ job[p] \in Job /\ now \in 0..MaxTime
      BY <2>1, <2>2 DEF KInv, TypeInv
    <3>. QED  BY <3>1, Bounds DEF Row, Job
  <2>. QED  BY <2>3, <2>4, Bounds
<1>. QED  BY <1>1, KAlways, PTL

\* A finished row is never rewritten: the terminal write and both sweeps ask for a
\* started row, and only retention deletes.
THEOREM OutcomesStand == Spec => OutcomeStands
<1>. DEFINE A == \A i \in Send : sends[i].status \in Terminal
                   => sends'[i] = sends[i] \/ sends'[i].status = "deleted"
<1>1. KInv /\ [Next]_vars => [A]_vars
  BY RowsStep DEF RowsEdge, Terminal
<1>. QED  BY <1>1, KAlways, PTL DEF Spec, OutcomeStands

\* No book is reserved again within the replay window of a finished attempt, however
\* long the attempt stood between its replay check and its insert.
THEOREM ReplaysSuppressed == Spec => ReplaySuppressed
<1>. DEFINE A == \A i, k \in Send :
                   /\ sends[i].status = "absent" /\ sends'[i].status = "started"
                   /\ sends[k].status \in Terminal
                   /\ sends[k].user = sends'[i].user /\ sends[k].book = sends'[i].book
                   => sends[k].finalized < sends'[i].started - ReplayWindow
<1>1. KInv /\ [Next]_vars => [A]_vars
  <2>1. SUFFICES ASSUME KInv, [Next]_vars, NEW i \in Send, NEW k \in Send,
                        sends[i].status = "absent", sends'[i].status = "started",
                        sends[k].status \in Terminal,
                        sends[k].user = sends'[i].user, sends[k].book = sends'[i].book
                 PROVE  sends[k].finalized < sends'[i].started - ReplayWindow
    OBVIOUS
  <2>2. /\ sends'[i].started \in 0..MaxTime
        /\ Replays(sends'[i].user, sends'[i].book, sends'[i].started) = {}
    BY <2>1, RowsStep DEF RowsEdge, Terminal
  <2>3. ~IsInsideWindow(sends[k].finalized, sends'[i].started, ReplayWindow)
    BY <2>1, <2>2 DEF Replays, Settled
  <2>4. sends[k].finalized \in Int /\ sends'[i].started \in Int
    <3>1. sends[k] \in Row
      BY <2>1 DEF KInv, TypeInv
    <3>. QED  BY <2>2, <3>1, Bounds DEF Row
  <2>. QED  BY <2>3, <2>4, Bounds DEF IsInsideWindow
<1>. QED  BY <1>1, KAlways, PTL DEF Spec, ReplaySuppressed

-------------------------------------------------------------------------------
(* The rolling caps.  DayOK and MinuteOK say what an attempt's reads of the   *)
(* two counts are still worth when it spends what they allowed.               *)

Stamp == (0..MaxTime) \X (1..StartCap)

\* Sends of u in table s accepted within the day up to `at`, reservations of u not
\* older than x, and spent minute slots in S not older than x.
Day(s, u, at) == {i \in Send : s[i].user = u /\ s[i].status = "sent" /\ s[i].finalized >= at - DailyWindow}
Taken(s, u, x) == {i \in Send : s[i].user = u /\ s[i].started >= x /\ s[i].status # "absent"}
Since(S, x) == {t \in S : t[1] >= x}

\* The slots a minute can hold, with those the restarts and faults so far gave back.
Slots(S, x) == StartCap * faults + Cardinality(Since(S, x))

UserOK(u) ==
  /\ Cardinality(Day(sends, u, now)) <= DailyCap
  /\ Cardinality(starts[u]) <= StartCap
  /\ \A x \in Int : x >= now - StartWindow => Cardinality(Taken(sends, u, x)) <= Slots(starts[u], x)

DayOK(p) ==
  /\ job[p].at \in Section => job[p].now <= now
  /\ job[p].at = "active" => Cardinality(Day(sends, job[p].user, job[p].now)) <= job[p].used
  /\ \/ job[p].at = "reserve"
     \/ job[p].at \in Delivery /\ sends[job[p].row].status = "started"
     => Cardinality(Day(sends, job[p].user, job[p].now)) < DailyCap

MinuteOK(p) ==
  /\ job[p].at \in {"accepted", "active"} =>
       Cardinality(Since(starts[job[p].user], job[p].now - StartWindow)) < StartCap
  /\ job[p].at = "reserve" =>
       \A x \in Int : x >= now - StartWindow /\ x <= job[p].now =>
         Cardinality(Taken(sends, job[p].user, x)) + 1 <= Slots(starts[job[p].user], x)

CapsInv == /\ starts \in [User -> SUBSET Stamp]
           /\ \A u \in User : UserOK(u)
           /\ \A p \in Attempt : DayOK(p) /\ MinuteOK(p)

\* What a step leaves of the rows of v: none sent, reserved or stamped anew.
Quiet(v) ==
  \A i \in Send : sends'[i].user = v \/ (sends[i].user = v /\ sends[i].status # "absent") =>
    /\ sends'[i].status = "sent" => sends'[i] = sends[i]
    /\ sends'[i].status = "started" => sends[i].status = "started"
    /\ sends'[i].status # "absent" =>
         sends[i].user = v /\ sends[i].status # "absent" /\ sends'[i].started = sends[i].started

LEMMA RowSets ==
  ASSUME NEW S, NEW T, S \subseteq Send, T \subseteq Send
  PROVE  /\ IsFiniteSet(S) /\ Cardinality(S) \in Nat
         /\ S \subseteq T => Cardinality(S) <= Cardinality(T)
         /\ \A i \in Send : S \subseteq T \cup {i} => Cardinality(S) <= Cardinality(T) + 1
<1>1. IsFiniteSet(Send)
  BY Bounds, FS_Interval DEF Send
<1>2. IsFiniteSet(S) /\ IsFiniteSet(T)
  BY <1>1, FS_Subset
<1>3. Cardinality(S) \in Nat /\ Cardinality(T) \in Nat
  BY <1>2, FS_CardinalityType
<1>4. ASSUME NEW i \in Send, S \subseteq T \cup {i} PROVE Cardinality(S) <= Cardinality(T) + 1
  <2>1. IsFiniteSet(T \cup {i}) /\ Cardinality(T \cup {i}) \in {Cardinality(T), Cardinality(T) + 1}
    BY <1>2, <1>3, FS_AddElement
  <2>2. Cardinality(S) <= Cardinality(T \cup {i})
    BY <1>4, <2>1, FS_Subset
  <2>. QED  BY <1>3, <2>1, <2>2
<1>. QED  BY <1>2, <1>3, <1>4, FS_Subset

LEMMA StampSets ==
  ASSUME NEW S, NEW T, S \subseteq T, T \subseteq Stamp
  PROVE  /\ IsFiniteSet(S) /\ Cardinality(S) \in Nat /\ IsFiniteSet(T) /\ Cardinality(T) \in Nat
         /\ Cardinality(S) <= Cardinality(T)
<1>1. IsFiniteSet(0..MaxTime) /\ IsFiniteSet(1..StartCap)
  BY Bounds, KindleCapsAssumption, FS_Interval
<1>2. IsFiniteSet(Stamp)
  BY <1>1, FS_Product DEF Stamp
<1>3. IsFiniteSet(S) /\ IsFiniteSet(T)
  BY <1>2, FS_Subset
<1>. QED  BY <1>3, FS_CardinalityType, FS_Subset

LEMMA Products ==
  ASSUME NEW a \in Nat, NEW b \in Nat, NEW c \in Nat, b <= c
  PROVE  a * b \in Nat /\ a * b <= a * c /\ a * (1 + b) = a + a * b /\ a * (b + 1) = a + a * b
<1>1. a * (1 + b) = a + a * b /\ a * (b + 1) = a + a * b /\ a * b \in Nat
  BY SMT
<1>2. c - b \in Nat /\ c = b + (c - b)
  BY SMT
<1>3. a * (b + (c - b)) = a * b + a * (c - b)
  BY <1>2, SMT
<1>4. a * (c - b) \in Nat
  BY <1>2, SMT
<1>. QED  BY <1>1, <1>2, <1>3, <1>4

\* Quiet rows count no more than before, later clocks included.
LEMMA QuietCounts ==
  ASSUME NEW v, Quiet(v)
  PROVE  /\ \A at \in Int : Cardinality(Day(sends', v, at)) <= Cardinality(Day(sends, v, at))
         /\ \A x \in Int : Cardinality(Taken(sends', v, x)) <= Cardinality(Taken(sends, v, x))
<1>1. ASSUME NEW at \in Int PROVE Day(sends', v, at) \subseteq Day(sends, v, at)
  BY DEF Quiet, Day
<1>2. ASSUME NEW x \in Int PROVE Taken(sends', v, x) \subseteq Taken(sends, v, x)
  BY DEF Quiet, Taken
<1>3. \A at : Day(sends', v, at) \subseteq Send /\ Day(sends, v, at) \subseteq Send
  BY DEF Day
<1>4. \A x : Taken(sends', v, x) \subseteq Send /\ Taken(sends, v, x) \subseteq Send
  BY DEF Taken
<1>. QED  BY <1>1, <1>2, <1>3, <1>4, RowSets

LEMMA Counts ==
  /\ \A s, u, at : Cardinality(Day(s, u, at)) \in Nat
  /\ \A s, u, x : Cardinality(Taken(s, u, x)) \in Nat
<1>1. \A s, u, at : Day(s, u, at) \subseteq Send /\ Taken(s, u, at) \subseteq Send
  BY DEF Day, Taken
<1>. QED  BY <1>1, RowSets

\* As the day moves on, sends leave it.
LEMMA DayMoves ==
  ASSUME TypeInv, NEW u, NEW at \in Int, NEW to \in Int, at <= to
  PROVE  Cardinality(Day(sends, u, to)) <= Cardinality(Day(sends, u, at))
<1>1. \A i \in Send : sends[i].finalized \in Int
  BY Bounds DEF TypeInv, Row
<1>2. Day(sends, u, to) \subseteq Day(sends, u, at)
  BY <1>1, Bounds DEF Day
<1>3. Day(sends, u, to) \subseteq Send /\ Day(sends, u, at) \subseteq Send
  BY DEF Day
<1>. QED  BY <1>2, <1>3, RowSets

\* Faults give slots back and take none.
LEMMA SlotsGrow ==
  ASSUME TypeInv, faults' \in Nat, faults <= faults', NEW S, S \subseteq Stamp, NEW x
  PROVE  /\ StartCap * faults + Cardinality(Since(S, x)) \in Nat
         /\ StartCap * faults' + Cardinality(Since(S, x)) \in Nat
         /\ StartCap * faults + Cardinality(Since(S, x)) <= StartCap * faults' + Cardinality(Since(S, x))
<1>1. faults \in Nat /\ StartCap \in Nat
  BY Bounds, KindleCapsAssumption DEF TypeInv
<1>2. StartCap * faults \in Nat /\ StartCap * faults' \in Nat /\ StartCap * faults <= StartCap * faults'
  <2>1. \A a, b, c \in Nat : b <= c => a * b \in Nat /\ a * b <= a * c
    BY Products
  <2>2. faults' <= faults'
    OBVIOUS
  <2>. QED  BY <1>1, <2>1, <2>2, Zenon
<1>3. Since(S, x) \subseteq S
  BY DEF Since
<1>4. Cardinality(Since(S, x)) \in Nat
  BY <1>3, StampSets
<1>. QED  BY <1>2, <1>4

\* A user nobody inserts, sends or starts for.
LEMMA UserQuiet ==
  ASSUME TypeInv, TypeInv', NEW v \in User, UserOK(v), Quiet(v),
         starts[v] \subseteq Stamp, starts'[v] = starts[v], now' = now \/ now' = now + 1, faults <= faults'
  PROVE  UserOK(v)'
<1>1. now \in Int /\ now' \in Int /\ faults' \in Nat /\ DailyCap \in Int
  BY Bounds, KindleCapsAssumption DEF TypeInv
<1>2. Cardinality(Day(sends', v, now')) <= DailyCap
  <2>1. /\ Cardinality(Day(sends', v, now')) <= Cardinality(Day(sends, v, now'))
        /\ Cardinality(Day(sends, v, now')) <= Cardinality(Day(sends, v, now))
    BY <1>1, QuietCounts, DayMoves
  <2>. QED  BY <1>1, <2>1, Counts DEF UserOK
<1>3. ASSUME NEW x \in Int, x >= now' - StartWindow
      PROVE  Cardinality(Taken(sends', v, x)) <= Slots(starts[v], x)'
  <2>1. Cardinality(Taken(sends', v, x)) <= Cardinality(Taken(sends, v, x))
    BY QuietCounts
  <2>2. x >= now - StartWindow
    <3>1. now \in Int /\ StartWindow \in Int
      BY <1>1, Bounds
    <3>. QED  BY <1>3, <3>1
  <2>3. Cardinality(Taken(sends, v, x)) <= StartCap * faults + Cardinality(Since(starts[v], x))
    BY <2>2 DEF UserOK, Slots
  <2>4. /\ StartCap * faults + Cardinality(Since(starts[v], x)) \in Nat
        /\ StartCap * faults' + Cardinality(Since(starts[v], x)) \in Nat
        /\ StartCap * faults + Cardinality(Since(starts[v], x)) <= StartCap * faults' + Cardinality(Since(starts[v], x))
    BY <1>1, SlotsGrow
  <2>5. Cardinality(Taken(sends', v, x)) <= StartCap * faults' + Cardinality(Since(starts[v], x))
    <3>1. Cardinality(Taken(sends', v, x)) \in Nat /\ Cardinality(Taken(sends, v, x)) \in Nat
      BY Counts
    <3>. QED  BY <2>1, <2>3, <2>4, <3>1
  <2>. QED  BY <2>5 DEF Slots
<1>. QED  BY <1>2, <1>3 DEF UserOK, Slots

\* An attempt whose user's rows are quiet keeps what its reads are worth.
Steady(q) ==
  /\ job'[q].user = job[q].user /\ job'[q].now = job[q].now
  /\ \/ job'[q] = job[q]
     \/ job[q].at \in Delivery /\ job'[q].at \in Delivery /\ job'[q].row = job[q].row

LEMMA AttemptQuiet ==
  ASSUME TypeInv, TypeInv', MutexInv, NEW q \in Attempt, HoldOK(q), DayOK(q), MinuteOK(q), Steady(q),
         \A v \in User : job[q].user = v => Quiet(v),
         starts \in [User -> SUBSET Stamp], starts'[job[q].user] = starts[job[q].user],
         now' = now \/ now' = now + 1, faults <= faults'
  PROVE  DayOK(q)' /\ MinuteOK(q)'
<1>0. CASE job[q].at \notin Section
  <2>1. job'[q].at \notin Section
    BY <1>0 DEF Steady, Section
  <2>. QED  BY <2>1 DEF DayOK, MinuteOK, Section, Admission
<1>1. CASE job[q].at \in Section
  <2>1. PICK u \in User : u = job[q].user
    BY <1>1 DEF MutexInv, Section, Admission, Delivery, Feeding
  <2>2. job'[q].user = u /\ job'[q].now = job[q].now /\ Quiet(u) /\ starts'[u] = starts[u]
        /\ starts[u] \subseteq Stamp
    BY <2>1 DEF Steady
  <2>3. now \in Int /\ now' \in Int /\ faults' \in Nat /\ DailyCap \in Int /\ job[q].now \in Int
    BY Bounds, KindleCapsAssumption DEF TypeInv, Job
  <2>4. /\ Cardinality(Day(sends', u, job[q].now)) \in Nat /\ Cardinality(Day(sends, u, job[q].now)) \in Nat
        /\ Cardinality(Day(sends', u, job[q].now)) <= Cardinality(Day(sends, u, job[q].now))
    BY <2>2, <2>3, QuietCounts, Counts
  <2>5. DayOK(q)'
    <3>1. job'[q].at \in Section => job'[q].now <= now'
      BY <1>1, <2>2, <2>3 DEF DayOK
    <3>2. job'[q].at = "active" => Cardinality(Day(sends', job'[q].user, job'[q].now)) <= job'[q].used
      <4>1. SUFFICES ASSUME job'[q].at = "active"
                     PROVE  Cardinality(Day(sends', job'[q].user, job'[q].now)) <= job'[q].used
        OBVIOUS
      <4>2. job'[q] = job[q]
        BY <4>1 DEF Steady, Delivery, Feeding
      <4>3. Cardinality(Day(sends, u, job[q].now)) <= job[q].used /\ job[q].used \in Int
        BY <2>1, <4>1, <4>2, Bounds DEF DayOK, TypeInv, Job
      <4>. QED  BY <2>1, <2>4, <4>2, <4>3
    <3>3. \/ job'[q].at = "reserve"
          \/ job'[q].at \in Delivery /\ sends'[job'[q].row].status = "started"
          => Cardinality(Day(sends', job'[q].user, job'[q].now)) < DailyCap
      <4>1. SUFFICES ASSUME \/ job'[q].at = "reserve"
                            \/ job'[q].at \in Delivery /\ sends'[job'[q].row].status = "started"
                     PROVE  Cardinality(Day(sends', u, job[q].now)) < DailyCap
        BY <2>2
      <4>2. CASE job'[q].at = "reserve"
        <5>1. job[q].at = "reserve"
          BY <4>2 DEF Steady, Delivery, Feeding
        <5>. QED  BY <2>1, <2>3, <2>4, <5>1 DEF DayOK
      <4>3. CASE job'[q].at \in Delivery /\ sends'[job'[q].row].status = "started"
        <5>1. job[q].at \in Delivery /\ job'[q].row = job[q].row
          BY <4>3 DEF Steady
        <5>2. job[q].row \in Send /\ sends[job[q].row].user = u /\ sends[job[q].row].status # "absent"
          BY <2>1, <5>1 DEF HoldOK
        <5>3. sends[job[q].row].status = "started"
          BY <2>2, <4>3, <5>1, <5>2 DEF Quiet
        <5>. QED  BY <2>1, <2>3, <2>4, <5>1, <5>3 DEF DayOK
      <4>. QED  BY <4>1, <4>2, <4>3
    <3>. QED  BY <3>1, <3>2, <3>3 DEF DayOK
  <2>6. MinuteOK(q)'
    <3>1. job'[q].at \in {"accepted", "active"} =>
            Cardinality(Since(starts'[job'[q].user], job'[q].now - StartWindow)) < StartCap
      BY <2>1, <2>2 DEF Steady, MinuteOK, Delivery, Feeding
    <3>2. ASSUME job'[q].at = "reserve", NEW x \in Int, x >= now' - StartWindow, x <= job'[q].now
          PROVE  Cardinality(Taken(sends', u, x)) + 1 <= StartCap * faults' + Cardinality(Since(starts[u], x))
      <4>1. job[q].at = "reserve" /\ x <= job[q].now /\ x >= now - StartWindow
        BY <2>2, <2>3, <3>2, Bounds DEF Steady, Delivery, Feeding
      <4>2. Cardinality(Taken(sends, u, x)) + 1 <= StartCap * faults + Cardinality(Since(starts[u], x))
        BY <2>1, <4>1 DEF MinuteOK, Slots
      <4>3. /\ Cardinality(Taken(sends', u, x)) <= Cardinality(Taken(sends, u, x))
            /\ Cardinality(Taken(sends', u, x)) \in Nat /\ Cardinality(Taken(sends, u, x)) \in Nat
        BY <2>2, QuietCounts, Counts
      <4>4. /\ StartCap * faults + Cardinality(Since(starts[u], x)) \in Nat
            /\ StartCap * faults' + Cardinality(Since(starts[u], x)) \in Nat
            /\ StartCap * faults + Cardinality(Since(starts[u], x)) <= StartCap * faults' + Cardinality(Since(starts[u], x))
        BY <2>2, <2>3, SlotsGrow
      <4>. QED  BY <4>2, <4>3, <4>4
    <3>. QED  BY <2>2, <3>1, <3>2 DEF MinuteOK, Slots
  <2>. QED  BY <2>5, <2>6
<1>. QED  BY <1>0, <1>1

\* Before its counts an attempt claims nothing but its clock.
AtRest(q) ==
  /\ job'[q].at \in {"idle", "queued", "leaving", "sweep", "prune", "replay"}
  /\ job'[q].at \in Section => job'[q].now <= now'

LEMMA RestOK == ASSUME NEW q \in Attempt, AtRest(q) PROVE DayOK(q)' /\ MinuteOK(q)'
  BY DEF AtRest, DayOK, MinuteOK, Section, Admission, Delivery, Feeding

LEMMA OutsideOK ==
  ASSUME NEW q \in Attempt, job[q].at \notin Section, job'[q] = job[q] PROVE DayOK(q)' /\ MinuteOK(q)'
  BY DEF DayOK, MinuteOK, Section, Admission

FaultsGrow == faults' = faults \/ faults' = faults + 1

LEMMA FaultsOrder == ASSUME TypeInv, FaultsGrow PROVE faults <= faults'
<1>1. faults \in Int
  BY Bounds DEF TypeInv
<1>. QED  BY <1>1 DEF FaultsGrow

\* Steps that send, reserve and start nothing.
LEMMA CapsQuiet ==
  ASSUME KInv, KInv', CapsInv, starts' = starts, now' = now \/ now' = now + 1, FaultsGrow,
         \A v \in User : Quiet(v), \A q \in Attempt : Steady(q) \/ AtRest(q)
  PROVE  CapsInv'
<1>1. TypeInv /\ TypeInv' /\ MutexInv /\ faults <= faults'
  BY FaultsOrder DEF KInv
<1>2. \A v \in User : UserOK(v) /\ starts[v] \subseteq Stamp
  BY DEF CapsInv
<1>3. \A v \in User : UserOK(v)'
  BY <1>1, <1>2, UserQuiet
<1>4. ASSUME NEW q \in Attempt PROVE DayOK(q)' /\ MinuteOK(q)'
  <2>1. HoldOK(q) /\ DayOK(q) /\ MinuteOK(q) /\ starts \in [User -> SUBSET Stamp]
    BY DEF KInv, RowInv, CapsInv
  <2>. QED  BY <1>1, <2>1, AttemptQuiet, RestOK
<1>. QED  BY <1>3, <1>4 DEF CapsInv

\* Steps of one attempt in its section: the other users are left alone.
LEMMA CapsOwn ==
  ASSUME KInv, KInv', CapsInv, NEW p \in Attempt, job[p].at \in Section, NEW u \in User, u = job[p].user,
         \A q \in Attempt \ {p} : job'[q] = job[q],
         \A v \in User \ {u} : Quiet(v) /\ starts'[v] = starts[v],
         now' = now, FaultsGrow, starts' \in [User -> SUBSET Stamp],
         UserOK(u)', DayOK(p)', MinuteOK(p)'
  PROVE  CapsInv'
<1>1. TypeInv /\ TypeInv' /\ MutexInv /\ faults <= faults'
  BY FaultsOrder DEF KInv
<1>2. \A v \in User : UserOK(v) /\ starts[v] \subseteq Stamp
  BY DEF CapsInv
<1>3. \A v \in User \ {u} : UserOK(v)'
  BY <1>1, <1>2, UserQuiet
<1>4. ASSUME NEW q \in Attempt \ {p} PROVE DayOK(q)' /\ MinuteOK(q)'
  <2>1. HoldOK(q) /\ DayOK(q) /\ MinuteOK(q) /\ starts \in [User -> SUBSET Stamp] /\ job'[q] = job[q]
    BY DEF KInv, RowInv, CapsInv
  <2>2. CASE job[q].at \notin Section
    BY <2>1, <2>2, OutsideOK
  <2>3. CASE job[q].at \in Section
    <3>1. job[q].user \in User \ {u}
      BY <1>1, <2>3, SectionsExclude DEF Exclusive, MutexInv, Section, Admission, Delivery, Feeding
    <3>. QED  BY <1>1, <2>1, <3>1, AttemptQuiet DEF Steady
  <2>. QED  BY <2>2, <2>3
<1>. QED  BY <1>3, <1>4 DEF CapsInv

LEMMA SameQuiet == ASSUME sends' = sends PROVE \A v \in User : Quiet(v)
  BY DEF Quiet

\* A sweep or a prune sends and reserves nothing.
LEMMA SweptQuiet ==
  ASSUME TypeInv, NEW S, NEW at, sends' = Swept(S, at) PROVE \A v \in User : Quiet(v)
<1>1. ASSUME NEW i \in Send, sends'[i] # sends[i]
      PROVE  /\ sends'[i].status = "indeterminate" /\ sends[i].status = "started"
             /\ sends'[i].user = sends[i].user /\ sends'[i].started = sends[i].started
  <2>1. sends[i].status = "started"
        /\ sends'[i] = [sends[i] EXCEPT !.status = "indeterminate", !.finalized = at]
    BY <1>1 DEF Swept, Expired
  <2>2. sends[i] \in Row
    BY DEF TypeInv
  <2>. QED  BY <2>1, <2>2 DEF Row
<1>. QED  BY <1>1 DEF Quiet

LEMMA PrunedQuiet ==
  ASSUME TypeInv, NEW at,
         sends' = [i \in Send |-> IF Stale(i, at) THEN [sends[i] EXCEPT !.status = "deleted"] ELSE sends[i]]
  PROVE  \A v \in User : Quiet(v)
<1>1. ASSUME NEW i \in Send, sends'[i] # sends[i]
      PROVE  /\ sends'[i].status = "deleted" /\ sends[i].status \in Terminal
             /\ sends'[i].user = sends[i].user /\ sends'[i].started = sends[i].started
  <2>1. sends[i].status \in Terminal /\ sends'[i] = [sends[i] EXCEPT !.status = "deleted"]
    BY <1>1 DEF Stale
  <2>2. sends[i] \in Row
    BY DEF TypeInv
  <2>. QED  BY <2>1, <2>2 DEF Row
<1>. QED  BY <1>1 DEF Quiet, Terminal

-------------------------------------------------------------------------------
(* The minute's slots *)

LEMMA LiveIs == ASSUME NEW u, NEW at PROVE LiveStarts(u, at) = Since(starts[u], at - StartWindow)
  BY DEF LiveStarts, Since, IsInsideWindow

\* Dropping what fell out of an earlier minute loses nothing of a later one.
LEMMA PrunedSlots ==
  ASSUME NEW S, S \subseteq Stamp, NEW y \in Int, NEW x \in Int, y <= x
  PROVE  Since(Since(S, y), x) = Since(S, x)
<1>1. \A t \in S : t[1] \in Int
  BY Bounds DEF Stamp
<1>. QED  BY <1>1 DEF Since

\* Below the cap a number is free: the spent slot is a new one.
LEMMA SlotSpent ==
  ASSUME NEW S, S \subseteq Stamp, Cardinality(S) < StartCap, NEW at \in 0..MaxTime, NEW T, T = SpendStart(S, at)
  PROVE  /\ T \subseteq Stamp /\ Cardinality(T) <= StartCap
         /\ \A x \in Int : /\ Cardinality(Since(S, x)) <= Cardinality(Since(T, x))
                           /\ x <= at => Cardinality(Since(T, x)) = Cardinality(Since(S, x)) + 1
<1>1. StartCap \in Nat /\ Cardinality(S) \in Nat /\ IsFiniteSet(S)
  BY KindleCapsAssumption, StampSets
<1>2. \E n \in 1..StartCap : <<at, n>> \notin S
  <2>1. SUFFICES ASSUME \A n \in 1..StartCap : <<at, n>> \in S PROVE FALSE
    OBVIOUS
  <2>2. IsFiniteSet(1..StartCap) /\ Cardinality(1..StartCap) = StartCap
    BY <1>1, FS_Interval
  <2>3. IsFiniteSet({at}) /\ Cardinality({at}) = 1
    BY FS_Singleton
  <2>4. Cardinality({at} \X (1..StartCap)) = 1 * StartCap
    BY <2>2, <2>3, FS_Product
  <2>5. {at} \X (1..StartCap) \subseteq S
    BY <2>1
  <2>6. Cardinality({at} \X (1..StartCap)) <= Cardinality(S)
    BY <1>1, <2>5, FS_Subset
  <2>. QED  BY <1>1, <2>4, <2>6
<1>3. PICK t : t \in Stamp /\ t \notin S /\ t[1] = at /\ T = S \cup {t}
  <2>1. PICK n \in 1..StartCap : n = CHOOSE m \in 1..StartCap : <<at, m>> \notin S
    BY <1>2
  <2>2. <<at, n>> \notin S
    BY <1>2, <2>1
  <2>3. T = S \cup {<<at, n>>}
    BY <2>1 DEF SpendStart
  <2>. QED  BY <2>2, <2>3 DEF Stamp
<1>4. Cardinality(T) = Cardinality(S) + 1
  BY <1>1, <1>3, FS_AddElement
<1>5. ASSUME NEW x \in Int
      PROVE  /\ Cardinality(Since(S, x)) <= Cardinality(Since(T, x))
             /\ x <= at => Cardinality(Since(T, x)) = Cardinality(Since(S, x)) + 1
  <2>1. Since(S, x) \subseteq Since(T, x) /\ Since(T, x) \subseteq Stamp
    BY <1>3 DEF Since
  <2>2. ASSUME x <= at PROVE Since(T, x) = Since(S, x) \cup {t} /\ t \notin Since(S, x)
    BY <1>3, <2>2 DEF Since
  <2>3. IsFiniteSet(Since(S, x)) /\ Cardinality(Since(S, x)) <= Cardinality(Since(T, x))
    BY <2>1, StampSets
  <2>. QED  BY <2>2, <2>3, FS_AddElement
<1>. QED  BY <1>1, <1>3, <1>4, <1>5

-------------------------------------------------------------------------------
(* The steps *)

\* An attempt's step that touches only its own record.
LEMMA Moves ==
  ASSUME KInv, NEW p \in Attempt, NEW x, job' = [job EXCEPT ![p] = x]
  PROVE  job'[p] = x /\ \A q \in Attempt \ {p} : job'[q] = job[q] /\ Steady(q)
  BY DEF KInv, TypeInv, Steady

LEMMA CapsMove ==
  ASSUME KInv, KInv', CapsInv, NEW p \in Attempt, NEW x, job' = [job EXCEPT ![p] = x],
         Steady(p) \/ AtRest(p), starts' = starts, now' = now, FaultsGrow, \A v \in User : Quiet(v)
  PROVE  CapsInv'
  BY Moves, CapsQuiet

\* A step back to the lock, or past a counted read, that leaves the rows alone.
LEMMA LeaveRests ==
  ASSUME KInv, NEW p \in Attempt, NEW resolved, Leave(p, resolved)
  PROVE  AtRest(p) /\ job' = [job EXCEPT ![p] = [job[p] EXCEPT !.at = "leaving"]]
<1>1. job' = [job EXCEPT ![p] = [job[p] EXCEPT !.at = "leaving"]]
  BY DEF Leave, Goto, KInv, TypeInv
<1>. DEFINE x == [job[p] EXCEPT !.at = "leaving"]
<1>2. job'[p] = x
  BY <1>1, Moves
<1>3. x.at = "leaving"
  BY JobFields DEF Job
<1>. QED  BY <1>1, <1>2, <1>3 DEF AtRest, Section, Admission, Delivery, Feeding

LEMMA CapsLeave ==
  ASSUME KInv, KInv', CapsInv, NEW p \in Attempt, NEW resolved, Leave(p, resolved),
         starts' = starts, now' = now, FaultsGrow, \A v \in User : Quiet(v)
  PROVE  CapsInv'
  BY LeaveRests, CapsMove

LEMMA CapsEnter ==
  ASSUME KInv, KInv', CapsInv, NEW p \in Attempt, NEW u \in User, NEW b \in Book, Enter(p, u, b) PROVE CapsInv'
<1>1. PICK e \in Entry :
        job' = [job EXCEPT ![p] = [Idle EXCEPT !.at = "queued", !.user = u, !.book = b, !.entry = e]]
  BY DEF Enter
<1>. DEFINE x == [Idle EXCEPT !.at = "queued", !.user = u, !.book = b, !.entry = e]
<1>2. job'[p] = x /\ x.at = "queued"
  <2>1. job'[p] = x
    BY <1>1, Moves
  <2>. QED  BY <2>1 DEF Idle
<1>3. AtRest(p)
  BY <1>2 DEF AtRest, Section, Admission, Delivery, Feeding
<1>4. UNCHANGED <<sends, starts, now, faults>>
  BY DEF Enter, world
<1>. QED  BY <1>1, <1>3, <1>4, SameQuiet, CapsMove DEF FaultsGrow

\* The steps up to the counts.
LEMMA CapsEarly ==
  ASSUME KInv, KInv', CapsInv, NEW p \in Attempt, Begin(p) \/ SweepLeases(p) \/ PruneRetention(p)
  PROVE  CapsInv'
<1>0. UNCHANGED <<starts, now, faults>>
  BY DEF Begin, SweepLeases, PruneRetention, memory, world
<1>1. CASE Begin(p)
  <2>. DEFINE x == [job[p] EXCEPT !.at = "sweep", !.now = now]
  <2>1. job' = [job EXCEPT ![p] = x] /\ sends' = sends
    BY <1>1 DEF Begin
  <2>2. x.at = "sweep" /\ x.now = now
    BY JobFields DEF Job
  <2>3. AtRest(p)
    <3>1. job'[p] = x
      BY <2>1, Moves
    <3>2. now \in Int
      BY JobFields, Bounds
    <3>. QED  BY <1>0, <2>2, <3>1, <3>2 DEF AtRest
  <2>. QED  BY <1>0, <2>1, <2>3, SameQuiet, CapsMove DEF FaultsGrow
<1>2. ASSUME NEW l \in {"prune", "replay"}, Goto(p, l), job[p].at \in Section, \A v \in User : Quiet(v)
      PROVE  CapsInv'
  <2>. DEFINE x == [job[p] EXCEPT !.at = l]
  <2>1. job' = [job EXCEPT ![p] = x]
    BY <1>2 DEF Goto, KInv, TypeInv
  <2>2. x.at = l /\ x.now = job[p].now
    BY JobFields DEF Job
  <2>3. AtRest(p)
    BY <1>0, <1>2, <2>1, <2>2, Moves DEF AtRest, CapsInv, DayOK
  <2>. QED  BY <1>0, <1>2, <2>1, <2>3, CapsMove DEF FaultsGrow
<1>3. CASE SweepLeases(p)
  BY <1>2, <1>3, SweptQuiet DEF SweepLeases, At, Section, Admission, KInv
<1>4. CASE PruneRetention(p)
  BY <1>2, <1>4, PrunedQuiet DEF PruneRetention, At, Section, Admission, KInv
<1>. QED  BY <1>1, <1>3, <1>4

\* While it delivers an attempt keeps its row and its clock.
LEMMA CapsDelivery ==
  ASSUME KInv, KInv', CapsInv, NEW p \in Attempt,
         \/ Deliver(p) \/ OpenStream(p) \/ AttemptFails(p) \/ StreamEnds(p)
         \/ \E reply \in {"accepted", "refused", "lost"} : SendMailSettles(p, reply)
         \/ DeadlineFires(p)
  PROVE  CapsInv'
<1>0. UNCHANGED <<sends, starts, now, faults>> /\ job[p].at \in Delivery
  BY DEF Deliver, OpenStream, AttemptFails, StreamEnds, SendMailSettles, DeadlineFires, Armed, At,
         Delivery, Feeding, memory, world
<1>1. PICK f : /\ job' = [job EXCEPT ![p] = f]
               /\ f.at \in Delivery /\ f.user = job[p].user /\ f.now = job[p].now /\ f.row = job[p].row
  <2>1. ASSUME NEW o, Conclude(p, o)
        PROVE  \E f : /\ job' = [job EXCEPT ![p] = f]
                      /\ f.at \in Delivery /\ f.user = job[p].user /\ f.now = job[p].now /\ f.row = job[p].row
    <3>1. job' = [job EXCEPT ![p] = [job[p] EXCEPT !.at = "write", !.slot = Claim(p, o)]]
      BY <2>1 DEF Conclude, KInv, TypeInv
    <3>. DEFINE f == [job[p] EXCEPT !.at = "write", !.slot = Claim(p, o)]
    <3>2. f.at = "write" /\ f.user = job[p].user /\ f.now = job[p].now /\ f.row = job[p].row
      BY JobFields DEF Job
    <3>3. f.at \in Delivery
      BY <3>2 DEF Delivery
    <3>. QED  BY <3>1, <3>2, <3>3
  <2>2. ASSUME NEW l \in {"stream", "ended"}, Goto(p, l)
        PROVE  \E f : /\ job' = [job EXCEPT ![p] = f]
                      /\ f.at \in Delivery /\ f.user = job[p].user /\ f.now = job[p].now /\ f.row = job[p].row
    <3>1. job' = [job EXCEPT ![p] = [job[p] EXCEPT !.at = l]]
      BY <2>2 DEF Goto, KInv, TypeInv
    <3>. DEFINE f == [job[p] EXCEPT !.at = l]
    <3>2. f.at = l /\ f.user = job[p].user /\ f.now = job[p].now /\ f.row = job[p].row
      BY JobFields DEF Job
    <3>3. f.at \in Delivery
      BY <3>2 DEF Delivery, Feeding
    <3>. QED  BY <3>1, <3>2, <3>3
  <2>3. ASSUME NEW d, job' = [job EXCEPT ![p] = [@ EXCEPT !.at = "open", !.deadline = d]]
        PROVE  \E f : /\ job' = [job EXCEPT ![p] = f]
                      /\ f.at \in Delivery /\ f.user = job[p].user /\ f.now = job[p].now /\ f.row = job[p].row
    <3>1. job' = [job EXCEPT ![p] = [job[p] EXCEPT !.at = "open", !.deadline = d]]
      BY <2>3 DEF KInv, TypeInv
    <3>. DEFINE f == [job[p] EXCEPT !.at = "open", !.deadline = d]
    <3>2. f.at = "open" /\ f.user = job[p].user /\ f.now = job[p].now /\ f.row = job[p].row
      BY JobFields DEF Job
    <3>3. f.at \in Delivery
      BY <3>2 DEF Delivery, Feeding
    <3>. QED  BY <3>1, <3>2, <3>3
  <2>4. ASSUME NEW o, job' = [job EXCEPT ![p].slot = o]
        PROVE  \E f : /\ job' = [job EXCEPT ![p] = f]
                      /\ f.at \in Delivery /\ f.user = job[p].user /\ f.now = job[p].now /\ f.row = job[p].row
    <3>1. job' = [job EXCEPT ![p] = [job[p] EXCEPT !.slot = o]]
      BY <2>4 DEF KInv, TypeInv
    <3>. DEFINE f == [job[p] EXCEPT !.slot = o]
    <3>2. f.at = job[p].at /\ f.user = job[p].user /\ f.now = job[p].now /\ f.row = job[p].row
      BY JobFields DEF Job
    <3>. QED  BY <1>0, <3>1, <3>2
  <2>5. CASE Deliver(p)
    BY <2>1, <2>3, <2>5 DEF Deliver
  <2>6. CASE AttemptFails(p) \/ \E reply \in {"accepted", "refused", "lost"} : SendMailSettles(p, reply)
    BY <2>1, <2>6 DEF AttemptFails, SendMailSettles
  <2>7. CASE OpenStream(p) \/ StreamEnds(p)
    BY <2>2, <2>7 DEF OpenStream, StreamEnds
  <2>8. CASE DeadlineFires(p)
    BY <2>4, <2>8 DEF DeadlineFires
  <2>. QED  BY <2>5, <2>6, <2>7, <2>8
<1>2. Steady(p)
  BY <1>0, <1>1, Moves DEF Steady
<1>. QED  BY <1>0, <1>1, <1>2, SameQuiet, CapsMove DEF FaultsGrow

LEMMA CapsSettle ==
  ASSUME KInv, KInv', CapsInv, NEW p \in Attempt, Reread(p) \/ Cleanup(p) PROVE CapsInv'
<1>0. UNCHANGED <<sends, starts, now, faults>>
  BY DEF Reread, Cleanup, world
<1>1. CASE Reread(p)
  BY <1>0, <1>1, SameQuiet, CapsLeave DEF Reread, FaultsGrow
<1>2. CASE Cleanup(p)
  <2>1. job' = [job EXCEPT ![p] = Idle]
    BY <1>2 DEF Cleanup
  <2>2. job'[p] = Idle
    BY <2>1, Moves
  <2>3. AtRest(p)
    BY <2>2 DEF AtRest, Idle, Section, Admission, Delivery, Feeding
  <2>. QED  BY <1>0, <2>1, <2>3, SameQuiet, CapsMove DEF FaultsGrow
<1>. QED  BY <1>1, <1>2

\* What is known of an attempt's user in its section.
LEMMA OwnerOK ==
  ASSUME KInv, CapsInv, NEW p \in Attempt, job[p].at \in Section
  PROVE  /\ job[p].user \in User /\ starts[job[p].user] \subseteq Stamp /\ starts \in [User -> SUBSET Stamp]
         /\ UserOK(job[p].user) /\ DayOK(p) /\ MinuteOK(p)
         /\ job[p].now \in Int /\ job[p].now \in 0..MaxTime /\ now \in Int /\ job[p].now <= now
<1>1. job[p].user \in User
  BY DEF KInv, MutexInv, Section, Admission, Delivery, Feeding
<1>2. job[p].now \in Int /\ job[p].now \in 0..MaxTime /\ now \in Int
  BY JobFields, Bounds
<1>. QED  BY <1>1, <1>2 DEF CapsInv, DayOK

LEMMA CapsFindReplay ==
  ASSUME KInv, KInv', CapsInv, NEW p \in Attempt, FindReplay(p) PROVE CapsInv'
<1>. DEFINE live == LiveStarts(job[p].user, job[p].now)
<1>0. job[p].at = "replay" /\ UNCHANGED <<sends, now, faults>>
  BY DEF FindReplay, At, world
<1>1. CASE Leave(p, TRUE) /\ starts' = starts
  BY <1>0, <1>1, SameQuiet, CapsLeave DEF FaultsGrow
<1>2. CASE /\ starts' = [starts EXCEPT ![job[p].user] = live]
           /\ Leave(p, TRUE) \/ (Cardinality(live) < StartCap /\ Goto(p, "accepted"))
  <2>0. job[p].at \in Section
    BY <1>0 DEF Section, Admission
  <2>1. PICK u \in User, at \in 0..MaxTime : u = job[p].user /\ at = job[p].now /\ at <= now /\ at \in Int
    BY <2>0, OwnerOK
  <2>2. /\ starts[u] \subseteq Stamp /\ UserOK(u) /\ now \in Int /\ StartWindow \in Int
        /\ starts' \in [User -> SUBSET Stamp]
        /\ starts'[u] = Since(starts[u], at - StartWindow) /\ \A v \in User \ {u} : starts'[v] = starts[v]
    <3>1. live \subseteq starts[u] /\ live = Since(starts[u], at - StartWindow)
      BY <2>1, LiveIs DEF LiveStarts
    <3>2. starts[u] \subseteq Stamp /\ UserOK(u) /\ now \in Int /\ starts \in [User -> SUBSET Stamp]
      BY <2>0, <2>1, OwnerOK
    <3>3. live \subseteq Stamp
      BY <3>1, <3>2
    <3>. HIDE DEF live
    <3>. QED  BY <1>2, <2>1, <3>1, <3>2, <3>3, Bounds
  <2>3. UserOK(u)'
    <3>1. starts'[u] \subseteq starts[u]
      BY <2>2 DEF Since
    <3>2. Cardinality(starts'[u]) <= Cardinality(starts[u]) /\ Cardinality(starts'[u]) \in Nat
          /\ Cardinality(starts[u]) \in Nat
      BY <2>2, <3>1, StampSets
    <3>3. Cardinality(starts'[u]) <= StartCap
      BY <2>2, <3>2, KindleCapsAssumption DEF UserOK
    <3>4. ASSUME NEW x \in Int, x >= now - StartWindow
          PROVE  Cardinality(Taken(sends, u, x)) <= StartCap * faults + Cardinality(Since(starts'[u], x))
      <4>1. at - StartWindow <= x /\ at - StartWindow \in Int
        BY <2>1, <2>2, <3>4
      <4>2. Since(starts'[u], x) = Since(starts[u], x)
        BY <2>2, <4>1, PrunedSlots
      <4>. QED  BY <2>2, <3>4, <4>2 DEF UserOK, Slots
    <3>. QED  BY <1>0, <2>2, <3>3, <3>4 DEF UserOK, Slots
  <2>4. /\ job' = [job EXCEPT ![p] = job'[p]] /\ \A q \in Attempt \ {p} : job'[q] = job[q]
        /\ DayOK(p)' /\ MinuteOK(p)'
    <3>1. CASE Leave(p, TRUE)
      BY <3>1, LeaveRests, RestOK, Moves
    <3>2. CASE Cardinality(live) < StartCap /\ Goto(p, "accepted")
      <4>. DEFINE f == [job[p] EXCEPT !.at = "accepted"]
      <4>1. job' = [job EXCEPT ![p] = f]
        BY <3>2 DEF Goto, KInv, TypeInv
      <4>2. f.at = "accepted" /\ f.now = at /\ f.user = u
        BY <2>1, JobFields DEF Job
      <4>3. job'[p] = f /\ \A q \in Attempt \ {p} : job'[q] = job[q]
        BY <4>1, Moves
      <4>4. DayOK(p)'
        BY <1>0, <2>1, <4>2, <4>3 DEF DayOK, Delivery, Feeding
      <4>5. MinuteOK(p)'
        <5>1. Since(Since(starts[u], at - StartWindow), at - StartWindow) = Since(starts[u], at - StartWindow)
          BY DEF Since
        <5>2. Cardinality(Since(starts[u], at - StartWindow)) < StartCap
          BY <2>1, <3>2, LiveIs
        <5>. QED  BY <2>2, <4>2, <4>3, <5>1, <5>2 DEF MinuteOK
      <4>. QED  BY <4>1, <4>3, <4>4, <4>5
    <3>. QED  BY <1>2, <3>1, <3>2
  <2>. QED  BY <1>0, <2>0, <2>1, <2>2, <2>3, <2>4, SameQuiet, CapsOwn DEF FaultsGrow
<1>. QED  BY <1>1, <1>2 DEF FindReplay

LEMMA AcceptedIs == ASSUME NEW u, NEW at PROVE Accepted(u, at) = Day(sends, u, at)
  BY DEF Accepted, Settled, Terminal, IsInsideWindow, Day

LEMMA CapsCountAccepted ==
  ASSUME KInv, KInv', CapsInv, NEW p \in Attempt, CountAccepted(p) PROVE CapsInv'
<1>. DEFINE n == Cardinality(Accepted(job[p].user, job[p].now))
            f == [job[p] EXCEPT !.at = "active", !.used = n]
<1>0. job[p].at = "accepted" /\ UNCHANGED <<sends, starts, now, faults>> /\ job' = [job EXCEPT ![p] = f]
  BY DEF CountAccepted, At, memory, world
<1>1. job[p].at \in Section
  BY <1>0 DEF Section, Admission
<1>2. f.at = "active" /\ f.now = job[p].now /\ f.user = job[p].user /\ f.used = n
  <2>. HIDE DEF n
  <2>. QED  BY JobFields DEF Job
<1>3. job'[p] = f /\ \A q \in Attempt \ {p} : job'[q] = job[q]
  BY <1>0, Moves
<1>4. n = Cardinality(Day(sends, job[p].user, job[p].now)) /\ n \in Nat
  BY AcceptedIs, Counts
<1>. HIDE DEF f, n
<1>5. DayOK(p)'
  <2>1. job[p].now <= now /\ now' = now /\ sends' = sends /\ job'[p].user = job[p].user /\ job'[p].now = job[p].now
    BY <1>0, <1>1, <1>2, <1>3, OwnerOK
  <2>2. job'[p].at = "active" /\ job'[p].used = Cardinality(Day(sends, job[p].user, job[p].now)) /\ job'[p].used \in Nat
    BY <1>2, <1>3, <1>4
  <2>3. Cardinality(Day(sends', job'[p].user, job'[p].now)) <= job'[p].used
    BY <2>1, <2>2
  <2>. QED  BY <2>1, <2>2, <2>3 DEF DayOK, Delivery, Feeding
<1>6. MinuteOK(p)'
  BY <1>0, <1>1, <1>2, <1>3, OwnerOK DEF MinuteOK
<1>7. PICK u \in User : u = job[p].user
  BY <1>1, OwnerOK
<1>8. UserOK(u)'
  BY <1>0, <1>1, <1>7, OwnerOK DEF UserOK, Slots
<1>. QED  BY <1>0, <1>1, <1>3, <1>5, <1>6, <1>7, <1>8, SameQuiet, OwnerOK, CapsOwn DEF FaultsGrow

\* The slot is spent before the row exists; both belong to the same clock reading.
LEMMA CapsCountActive ==
  ASSUME KInv, KInv', CapsInv, NEW p \in Attempt, CountActive(p) PROVE CapsInv'
<1>. DEFINE live == {i \in Started(job[p].user) : IsInsideWindow(sends[i].started, job[p].now, Lease)}
<1>0. job[p].at = "active" /\ UNCHANGED <<sends, now, faults>>
  BY DEF CountActive, At, world
<1>1. CASE Leave(p, TRUE) /\ starts' = starts
  BY <1>0, <1>1, SameQuiet, CapsLeave DEF FaultsGrow
<1>2. CASE /\ ~(job[p].used + Cardinality(live) >= DailyCap)
           /\ starts' = [starts EXCEPT ![job[p].user] = SpendStart(LiveStarts(job[p].user, job[p].now), job[p].now)]
           /\ Goto(p, "reserve")
  <2>. DEFINE f == [job[p] EXCEPT !.at = "reserve"]
  <2>0. job[p].at \in Section
    BY <1>0 DEF Section, Admission
  <2>1. PICK u \in User, at \in 0..MaxTime : u = job[p].user /\ at = job[p].now /\ at <= now /\ at \in Int
    BY <2>0, OwnerOK
  <2>2. /\ starts[u] \subseteq Stamp /\ starts \in [User -> SUBSET Stamp] /\ UserOK(u) /\ DayOK(p) /\ MinuteOK(p)
        /\ now \in Int /\ StartWindow \in Int /\ faults \in Nat /\ DailyCap \in Nat
    BY <2>0, <2>1, OwnerOK, Bounds, KindleCapsAssumption DEF KInv, TypeInv
  <2>3. PICK S : S = Since(starts[u], at - StartWindow)
    OBVIOUS
  <2>4. PICK T : T = SpendStart(S, at)
    OBVIOUS
  <2>5. S \subseteq Stamp /\ Cardinality(S) < StartCap
    BY <1>0, <2>1, <2>2, <2>3 DEF Since, MinuteOK
  <2>6. /\ T \subseteq Stamp /\ Cardinality(T) <= StartCap
        /\ \A x \in Int : /\ Cardinality(Since(S, x)) <= Cardinality(Since(T, x))
                          /\ x <= at => Cardinality(Since(T, x)) = Cardinality(Since(S, x)) + 1
    BY <2>4, <2>5, SlotSpent
  <2>7. /\ starts' \in [User -> SUBSET Stamp] /\ starts'[u] = T
        /\ \A v \in User \ {u} : starts'[v] = starts[v]
    <3>1. starts' = [starts EXCEPT ![u] = T]
      BY <1>2, <2>1, <2>3, <2>4, LiveIs
    <3>. QED  BY <2>2, <2>6, <3>1
  <2>8. ASSUME NEW x \in Int, x >= now - StartWindow
        PROVE  /\ StartCap * faults + Cardinality(Since(T, x)) \in Nat
               /\ Cardinality(Taken(sends, u, x)) \in Nat
               /\ Cardinality(Taken(sends, u, x)) <= StartCap * faults + Cardinality(Since(T, x))
               /\ x <= at => Cardinality(Taken(sends, u, x)) + 1 <= StartCap * faults + Cardinality(Since(T, x))
    <3>1. at - StartWindow <= x /\ at - StartWindow \in Int
      BY <2>1, <2>2, <2>8
    <3>2. Since(S, x) = Since(starts[u], x)
      BY <2>2, <2>3, <3>1, PrunedSlots
    <3>3. Cardinality(Taken(sends, u, x)) <= StartCap * faults + Cardinality(Since(S, x))
      BY <2>2, <2>8, <3>2 DEF UserOK, Slots
    <3>4. StartCap * faults \in Nat
      BY <2>2, KindleCapsAssumption, Products
    <3>5. Since(S, x) \subseteq S /\ Since(T, x) \subseteq T
      BY DEF Since
    <3>6. Cardinality(Since(S, x)) \in Nat /\ Cardinality(Since(T, x)) \in Nat
      BY <2>5, <2>6, <3>5, StampSets
    <3>7. PICK g \in Nat : g = StartCap * faults
      BY <3>4
    <3>8. Cardinality(Taken(sends, u, x)) \in Nat
      BY Counts
    <3>9. /\ Cardinality(Since(S, x)) <= Cardinality(Since(T, x))
          /\ x <= at => Cardinality(Since(T, x)) = Cardinality(Since(S, x)) + 1
      BY <2>6
    <3>. QED  BY <3>3, <3>6, <3>7, <3>8, <3>9
  <2>9. UserOK(u)'
    BY <1>0, <2>2, <2>6, <2>7, <2>8 DEF UserOK, Slots
  <2>10. job' = [job EXCEPT ![p] = f]
    BY <1>2 DEF Goto, KInv, TypeInv
  <2>11. f.at = "reserve" /\ f.now = at /\ f.user = u
    BY <2>1, JobFields DEF Job
  <2>12. job'[p] = f /\ \A q \in Attempt \ {p} : job'[q] = job[q]
    BY <2>10, Moves
  <2>13. DayOK(p)'
    <3>1. Cardinality(Day(sends, u, at)) <= job[p].used
      BY <1>0, <2>1, <2>2 DEF DayOK
    <3>2. live \subseteq Send
      BY DEF Started
    <3>3. Cardinality(live) \in Nat
      BY <3>2, RowSets
    <3>4. job[p].used \in Nat
      BY JobFields, Bounds DEF Job
    <3>. HIDE DEF live
    <3>5. Cardinality(Day(sends, u, at)) \in Nat
      BY Counts
    <3>6. ~(job[p].used + Cardinality(live) >= DailyCap)
      BY <1>2
    <3>7. Cardinality(Day(sends, u, at)) < DailyCap
      BY <2>2, <3>1, <3>3, <3>4, <3>5, <3>6
    <3>. QED  BY <1>0, <2>1, <2>11, <2>12, <3>7 DEF DayOK
  <2>14. MinuteOK(p)'
    BY <1>0, <2>7, <2>8, <2>11, <2>12 DEF MinuteOK, Slots
  <2>. QED  BY <1>0, <2>0, <2>1, <2>7, <2>9, <2>12, <2>13, <2>14, SameQuiet, CapsOwn DEF FaultsGrow
<1>. QED  BY <1>1, <1>2 DEF CountActive

\* An insert: one more row of the minute, and none of the day.
LEMMA InsertCounts ==
  ASSUME KInv, CapsInv, NEW p \in Attempt, NEW u \in User, u = job[p].user, job[p].at = "reserve",
         relay' = relay, ~ActiveCollision(job[p].user, job[p].book), NEW i \in FreeRow, sends' = Inserted(p, i),
         starts' = starts, now' = now, faults' \in Nat, FaultsGrow
  PROVE  /\ \A v \in User \ {u} : Quiet(v)
         /\ UserOK(u)' /\ Cardinality(Day(sends', u, job[p].now)) < DailyCap
<1>0. job[p].at \in Section
  BY DEF Section, Admission
<1>1. /\ i \in Send /\ sends'[i].user = u /\ sends'[i].status = "started" /\ sends'[i].started = job[p].now
      /\ sends[i].status = "absent" /\ \A k \in Send \ {i} : sends'[k] = sends[k]
  BY <1>0, InsertedRows DEF KInv, RowInv
<1>2. \A v \in User \ {u} : Quiet(v)
  BY <1>1 DEF Quiet
<1>3. /\ UserOK(u) /\ DayOK(p) /\ MinuteOK(p) /\ starts[u] \subseteq Stamp
      /\ job[p].now \in Int /\ now \in Int /\ job[p].now <= now /\ StartWindow \in Int /\ DailyCap \in Nat
  BY <1>0, OwnerOK, Bounds, KindleCapsAssumption
<1>4. ASSUME NEW at \in Int PROVE Cardinality(Day(sends', u, at)) <= Cardinality(Day(sends, u, at))
  <2>1. Day(sends', u, at) \subseteq Day(sends, u, at) /\ Day(sends, u, at) \subseteq Send
    BY <1>1 DEF Day
  <2>. QED  BY <2>1, RowSets
<1>5. ASSUME NEW x \in Int, x >= now - StartWindow
      PROVE  Cardinality(Taken(sends', u, x)) <= StartCap * faults' + Cardinality(Since(starts[u], x))
  <2>1. Cardinality(Taken(sends', u, x)) <= StartCap * faults + Cardinality(Since(starts[u], x))
    <3>0. Taken(sends', u, x) \subseteq Send /\ Taken(sends, u, x) \subseteq Send
      BY DEF Taken
    <3>1. CASE x <= job[p].now
      <4>1. Taken(sends', u, x) \subseteq Taken(sends, u, x) \cup {i}
        BY <1>1 DEF Taken
      <4>2. Cardinality(Taken(sends', u, x)) <= Cardinality(Taken(sends, u, x)) + 1
        BY <1>1, <3>0, <4>1, RowSets
      <4>3. Cardinality(Taken(sends, u, x)) + 1 <= StartCap * faults + Cardinality(Since(starts[u], x))
        BY <1>3, <1>5, <3>1 DEF MinuteOK, Slots
      <4>4. StartCap * faults + Cardinality(Since(starts[u], x)) \in Nat
        BY <1>3, FaultsOrder, SlotsGrow DEF KInv
      <4>. QED  BY <4>2, <4>3, <4>4, Counts
    <3>2. CASE ~(x <= job[p].now)
      <4>1. ~(job[p].now >= x)
        BY <1>3, <3>2
      <4>2. Taken(sends', u, x) \subseteq Taken(sends, u, x)
        BY <1>1, <4>1 DEF Taken
      <4>3. Cardinality(Taken(sends', u, x)) <= Cardinality(Taken(sends, u, x))
        BY <3>0, <4>2, RowSets
      <4>4. Cardinality(Taken(sends, u, x)) <= StartCap * faults + Cardinality(Since(starts[u], x))
        BY <1>3, <1>5 DEF UserOK, Slots
      <4>5. StartCap * faults + Cardinality(Since(starts[u], x)) \in Nat
        BY <1>3, FaultsOrder, SlotsGrow DEF KInv
      <4>. QED  BY <4>3, <4>4, <4>5, Counts
    <3>. QED  BY <3>1, <3>2
  <2>2. /\ StartCap * faults + Cardinality(Since(starts[u], x)) \in Nat
        /\ StartCap * faults' + Cardinality(Since(starts[u], x)) \in Nat
        /\ StartCap * faults + Cardinality(Since(starts[u], x)) <= StartCap * faults' + Cardinality(Since(starts[u], x))
    BY <1>3, FaultsOrder, SlotsGrow DEF KInv
  <2>. QED  BY <2>1, <2>2, Counts
<1>6. Cardinality(Day(sends', u, now)) <= DailyCap
  <2>1. Cardinality(Day(sends, u, now)) <= DailyCap /\ Cardinality(Day(sends', u, now)) <= Cardinality(Day(sends, u, now))
    BY <1>3, <1>4 DEF UserOK
  <2>. QED  BY <1>3, <2>1, Counts
<1>7. UserOK(u)'
  BY <1>3, <1>5, <1>6 DEF UserOK, Slots
<1>8. Cardinality(Day(sends', u, job[p].now)) < DailyCap
  <2>1. /\ Cardinality(Day(sends, u, job[p].now)) < DailyCap
        /\ Cardinality(Day(sends', u, job[p].now)) <= Cardinality(Day(sends, u, job[p].now))
    BY <1>3, <1>4 DEF DayOK
  <2>. QED  BY <1>3, <2>1, Counts
<1>. QED  BY <1>2, <1>7, <1>8

LEMMA FaultsNat == ASSUME KInv' PROVE faults' \in Nat
  BY Bounds DEF KInv, TypeInv

LEMMA CapsReserve ==
  ASSUME KInv, KInv', CapsInv, NEW p \in Attempt, Reserve(p) PROVE CapsInv'
<1>0. /\ job[p].at = "reserve" /\ UNCHANGED <<relay, starts, now, faults>> /\ FaultsGrow
      /\ job[p].at \in Section
  BY DEF Reserve, At, world, FaultsGrow, Section, Admission
<1>1. CASE Leave(p, TRUE) /\ sends' = sends
  BY <1>0, <1>1, SameQuiet, CapsLeave
<1>2. ASSUME NEW i \in FreeRow, ~ActiveCollision(job[p].user, job[p].book), sends' = Inserted(p, i),
             job' = [job EXCEPT ![p] = [@ EXCEPT !.at = "reserved", !.row = i]]
      PROVE  CapsInv'
  <2>. DEFINE f == [job[p] EXCEPT !.at = "reserved", !.row = i]
  <2>1. PICK u \in User : u = job[p].user
    BY <1>0, OwnerOK
  <2>2. /\ \A v \in User \ {u} : Quiet(v)
        /\ UserOK(u)' /\ Cardinality(Day(sends', u, job[p].now)) < DailyCap
    BY <1>0, <1>2, <2>1, FaultsNat, InsertCounts
  <2>3. job' = [job EXCEPT ![p] = f]
    BY <1>2 DEF KInv, TypeInv
  <2>4. f.at = "reserved" /\ f.now = job[p].now /\ f.user = u
    BY <2>1, JobFields DEF Job
  <2>5. job'[p] = f /\ \A q \in Attempt \ {p} : job'[q] = job[q]
    BY <2>3, Moves
  <2>. HIDE DEF f
  <2>6. DayOK(p)' /\ MinuteOK(p)'
    <3>1. job[p].now <= now
      BY <1>0, OwnerOK
    <3>. QED  BY <1>0, <2>2, <2>4, <2>5, <3>1 DEF DayOK, MinuteOK
  <2>. QED  BY <1>0, <2>1, <2>2, <2>5, <2>6, OwnerOK, CapsOwn
<1>. QED  BY <1>1, <1>2 DEF Reserve

\* The terminal write: at most one more send of the day, the one it was admitted for.
LEMMA WriteCounts ==
  ASSUME KInv, KInv', CapsInv, NEW p \in Attempt, NEW u \in User, u = job[p].user, job[p].at = "write",
         sends[job[p].row].status = "started", sends' = TerminalWrite(p),
         starts' = starts, now' = now, FaultsGrow
  PROVE  /\ \A v \in User \ {u} : Quiet(v)
         /\ UserOK(u)' /\ sends'[job[p].row].status # "started"
<1>0. job[p].at \in Section /\ job[p].at \in Delivery
  BY DEF Section, Delivery
<1>1. PICK i \in Send : i = job[p].row
  BY <1>0, JobFields DEF HoldOK
<1>2. /\ sends'[i].user = u /\ sends'[i].started = sends[i].started /\ sends'[i].status \in Terminal
      /\ sends[i].user = u /\ sends[i].status = "started"
      /\ \A k \in Send \ {i} : sends'[k] = sends[k]
  <2>1. sends[i].user = u /\ sends[i] \in Row /\ job[p].slot \in Terminal
    BY <1>0, <1>1, JobFields DEF HoldOK, KInv, TypeInv
  <2>. DEFINE x == [sends[i] EXCEPT !.status = job[p].slot, !.finalized = now]
  <2>2. sends' = [sends EXCEPT ![i] = x]
    BY <1>1 DEF TerminalWrite, KInv, TypeInv
  <2>3. x.user = sends[i].user /\ x.started = sends[i].started /\ x.status = job[p].slot
    BY <2>1 DEF Row
  <2>4. sends'[i] = x /\ \A k \in Send \ {i} : sends'[k] = sends[k]
    BY <2>2 DEF KInv, TypeInv
  <2>. HIDE DEF x
  <2>. QED  BY <1>1, <2>1, <2>3, <2>4
<1>3. \A v \in User \ {u} : Quiet(v)
  BY <1>2 DEF Quiet
<1>4. /\ UserOK(u) /\ DayOK(p) /\ starts[u] \subseteq Stamp
      /\ job[p].now \in Int /\ now \in Int /\ job[p].now <= now /\ StartWindow \in Int /\ DailyCap \in Nat
  BY <1>0, OwnerOK, Bounds, KindleCapsAssumption
<1>5. Cardinality(Day(sends', u, now)) <= DailyCap
  <2>1. Day(sends', u, now) \subseteq Day(sends, u, now) \cup {i}
    BY <1>2 DEF Day
  <2>2. Day(sends', u, now) \subseteq Send /\ Day(sends, u, now) \subseteq Send
    BY DEF Day
  <2>3. Cardinality(Day(sends', u, now)) <= Cardinality(Day(sends, u, now)) + 1
    BY <2>1, <2>2, RowSets
  <2>4. Cardinality(Day(sends, u, now)) <= Cardinality(Day(sends, u, job[p].now))
    BY <1>4, DayMoves DEF KInv
  <2>5. Cardinality(Day(sends, u, job[p].now)) < DailyCap
    BY <1>0, <1>1, <1>2, <1>4 DEF DayOK
  <2>. QED  BY <1>4, <2>3, <2>4, <2>5, Counts
<1>6. ASSUME NEW x \in Int, x >= now - StartWindow
      PROVE  Cardinality(Taken(sends', u, x)) <= StartCap * faults' + Cardinality(Since(starts[u], x))
  <2>0. Taken(sends', u, x) \subseteq Send /\ Taken(sends, u, x) \subseteq Send
    BY DEF Taken
  <2>1. Taken(sends', u, x) \subseteq Taken(sends, u, x)
    BY <1>2 DEF Taken
  <2>2. Cardinality(Taken(sends', u, x)) <= Cardinality(Taken(sends, u, x))
    BY <2>0, <2>1, RowSets
  <2>3. Cardinality(Taken(sends, u, x)) <= StartCap * faults + Cardinality(Since(starts[u], x))
    BY <1>4, <1>6 DEF UserOK, Slots
  <2>4. /\ StartCap * faults + Cardinality(Since(starts[u], x)) \in Nat
        /\ StartCap * faults' + Cardinality(Since(starts[u], x)) \in Nat
        /\ StartCap * faults + Cardinality(Since(starts[u], x)) <= StartCap * faults' + Cardinality(Since(starts[u], x))
    BY <1>4, FaultsOrder, FaultsNat, SlotsGrow DEF KInv
  <2>. QED  BY <2>2, <2>3, <2>4, Counts
<1>7. UserOK(u)'
  BY <1>4, <1>5, <1>6 DEF UserOK, Slots
<1>. QED  BY <1>1, <1>2, <1>3, <1>7 DEF Terminal

\* A retried write keeps the row.
LEMMA RetrySteady ==
  ASSUME KInv, NEW p \in Attempt, Retry(p), job[p].at = "write"
  PROVE  /\ Steady(p) /\ job'[p].at \in Delivery /\ job'[p].row = job[p].row
         /\ \E f : job' = [job EXCEPT ![p] = f]
<1>. DEFINE n == job[p].tries + 1
            f == [job[p] EXCEPT !.tries = n, !.at = IF n = 1 THEN "write" ELSE "reread"]
<1>1. job' = [job EXCEPT ![p] = f]
  BY DEF Retry, KInv, TypeInv
<1>. HIDE DEF n
<1>2. f.at \in {"write", "reread"} /\ f.user = job[p].user /\ f.now = job[p].now /\ f.row = job[p].row
  BY JobFields DEF Job
<1>3. job'[p] = f
  BY <1>1, Moves
<1>. HIDE DEF f
<1>. QED  BY <1>1, <1>2, <1>3 DEF Steady, Delivery

LEMMA CapsFinalize ==
  ASSUME KInv, KInv', CapsInv, NEW p \in Attempt, Finalize(p) PROVE CapsInv'
<1>0. /\ job[p].at = "write" /\ UNCHANGED <<relay, starts, now, faults>> /\ FaultsGrow
      /\ job[p].at \in Section /\ sends' = TerminalWrite(p)
  BY DEF Finalize, At, world, FaultsGrow, Section, Delivery
<1>1. CASE sends[job[p].row].status # "started"
  <2>1. sends' = sends /\ Retry(p)
    BY <1>0, <1>1 DEF Finalize, TerminalWrite
  <2>. QED  BY <1>0, <2>1, RetrySteady, SameQuiet, CapsMove
<1>2. CASE sends[job[p].row].status = "started"
  <2>1. PICK u \in User : u = job[p].user
    BY <1>0, OwnerOK
  <2>2. (\A v \in User \ {u} : Quiet(v)) /\ UserOK(u)'
    BY <1>0, <1>2, <2>1, WriteCounts
  <2>3. Leave(p, TRUE)
    BY <1>2 DEF Finalize
  <2>4. DayOK(p)' /\ MinuteOK(p)' /\ \A q \in Attempt \ {p} : job'[q] = job[q]
    BY <2>3, LeaveRests, RestOK, Moves
  <2>. QED  BY <1>0, <2>1, <2>2, <2>4, OwnerOK, CapsOwn
<1>. QED  BY <1>1, <1>2

\* A rejected insert or write may have committed.
LEMMA CapsDatabaseFault ==
  ASSUME KInv, KInv', CapsInv, NEW p \in Attempt, DatabaseFault(p) PROVE CapsInv'
<1>0. UNCHANGED <<relay, starts, now>> /\ FaultsGrow
  BY DEF DatabaseFault, FaultsGrow
<1>1. CASE Leave(p, FALSE) /\ sends' = sends
  BY <1>0, <1>1, SameQuiet, CapsLeave
<1>2. ASSUME NEW i \in FreeRow, At(p, "reserve"), ~ActiveCollision(job[p].user, job[p].book),
             sends' = Inserted(p, i), Leave(p, FALSE)
      PROVE  CapsInv'
  <2>0. job[p].at = "reserve" /\ job[p].at \in Section
    BY <1>2 DEF At, Section, Admission
  <2>1. PICK u \in User : u = job[p].user
    BY <2>0, OwnerOK
  <2>2. (\A v \in User \ {u} : Quiet(v)) /\ UserOK(u)'
    BY <1>0, <1>2, <2>0, <2>1, FaultsNat, InsertCounts
  <2>3. DayOK(p)' /\ MinuteOK(p)' /\ \A q \in Attempt \ {p} : job'[q] = job[q]
    BY <1>2, LeaveRests, RestOK, Moves
  <2>. QED  BY <1>0, <2>0, <2>1, <2>2, <2>3, OwnerOK, CapsOwn
<1>3. CASE At(p, "prune") /\ Goto(p, "replay") /\ sends' = sends
  <2>. DEFINE f == [job[p] EXCEPT !.at = "replay"]
  <2>1. job' = [job EXCEPT ![p] = f]
    BY <1>3 DEF Goto, KInv, TypeInv
  <2>2. f.at = "replay" /\ f.now = job[p].now
    BY JobFields DEF Job
  <2>3. job'[p] = f /\ job[p].now <= now
    BY <1>3, <2>1, Moves, OwnerOK DEF At, Section, Admission
  <2>4. AtRest(p)
    BY <1>0, <2>2, <2>3 DEF AtRest
  <2>. QED  BY <1>0, <1>3, <2>1, <2>4, SameQuiet, CapsMove
<1>4. CASE At(p, "write") /\ sends' \in {sends, TerminalWrite(p)} /\ Retry(p)
  <2>0. job[p].at = "write" /\ job[p].at \in Section
    BY <1>4 DEF At, Section, Delivery
  <2>1. CASE sends' = sends
    BY <1>0, <1>4, <2>0, <2>1, RetrySteady, SameQuiet, CapsMove
  <2>2. CASE sends' # sends
    <3>1. sends' = TerminalWrite(p) /\ sends[job[p].row].status = "started"
      BY <1>4, <2>2 DEF TerminalWrite
    <3>2. PICK u \in User : u = job[p].user
      BY <2>0, OwnerOK
    <3>3. (\A v \in User \ {u} : Quiet(v)) /\ UserOK(u)' /\ sends'[job[p].row].status # "started"
      BY <1>0, <2>0, <3>1, <3>2, WriteCounts
    <3>4. /\ Steady(p) /\ job'[p].at \in Delivery /\ job'[p].row = job[p].row
          /\ \A q \in Attempt \ {p} : job'[q] = job[q]
      BY <1>4, <2>0, RetrySteady, Moves
    <3>5. DayOK(p)' /\ MinuteOK(p)'
      <4>1. job[p].now <= now
        BY <2>0, OwnerOK
      <4>. QED  BY <1>0, <3>3, <3>4, <4>1 DEF Steady, DayOK, MinuteOK, Delivery, Feeding
    <3>. QED  BY <1>0, <2>0, <3>2, <3>3, <3>4, <3>5, OwnerOK, CapsOwn
  <2>. QED  BY <2>1, <2>2
<1>. QED  BY <1>1, <1>2, <1>3, <1>4 DEF DatabaseFault

\* Rows, slots and jobs stay: the clock moves, the relay answers, or the boot sweeps.
LEMMA CapsWorld ==
  ASSUME KInv, KInv', CapsInv,
         Tick \/ Boot \/ (\E i \in Send, fate \in {"accepted", "refused"} : RelayDecides(i, fate)) \/ UNCHANGED vars
  PROVE  CapsInv'
<1>1. job' = job /\ starts' = starts /\ (now' = now \/ now' = now + 1) /\ FaultsGrow
  BY DEF Tick, Boot, RelayDecides, vars, memory, world, FaultsGrow
<1>2. \A v \in User : Quiet(v)
  <2>1. CASE sends' = sends
    BY <2>1, SameQuiet
  <2>2. CASE Boot
    <3>1. sends' = Swept(User, now)
      BY <2>2 DEF Boot
    <3>. QED  BY <3>1, SweptQuiet DEF KInv
  <2>. QED  BY <2>1, <2>2 DEF Tick, RelayDecides, vars
<1>3. \A q \in Attempt : Steady(q)
  BY <1>1 DEF Steady
<1>. QED  BY <1>1, <1>2, <1>3, CapsQuiet

\* A restart gives the starts back: what they had allowed is charged to the crash.
LEMMA CapsCrash == ASSUME KInv, KInv', CapsInv, Crash PROVE CapsInv'
<1>0. /\ sends' = sends /\ now' = now /\ faults' = faults + 1
      /\ starts' \in [User -> SUBSET Stamp] /\ \A u \in User : starts'[u] = {}
  BY DEF Crash
<1>1. ASSUME NEW q \in Attempt PROVE DayOK(q)' /\ MinuteOK(q)'
  <2>1. job'[q] = Idle
    BY DEF Crash
  <2>2. AtRest(q)
    BY <2>1 DEF AtRest, Idle, Section, Admission, Delivery, Feeding
  <2>. QED  BY <2>2, RestOK
<1>2. ASSUME NEW u \in User PROVE UserOK(u)'
  <2>1. UserOK(u) /\ starts[u] \subseteq Stamp /\ faults \in Nat /\ StartCap \in Nat
    BY Bounds, KindleCapsAssumption DEF CapsInv, KInv, TypeInv
  <2>2. Cardinality({}) = 0 /\ \A x : Since({}, x) = {}
    BY FS_EmptySet DEF Since
  <2>3. ASSUME NEW x \in Int, x >= now - StartWindow
        PROVE  Cardinality(Taken(sends, u, x)) <= StartCap * faults' + 0
    <3>1. Cardinality(Taken(sends, u, x)) <= StartCap * faults + Cardinality(Since(starts[u], x))
      BY <2>1, <2>3 DEF UserOK, Slots
    <3>2. Since(starts[u], x) \subseteq starts[u]
      BY DEF Since
    <3>3. Cardinality(Since(starts[u], x)) \in Nat /\ Cardinality(Since(starts[u], x)) <= Cardinality(starts[u])
          /\ Cardinality(starts[u]) \in Nat
      BY <2>1, <3>2, StampSets
    <3>4. Cardinality(starts[u]) <= StartCap
      BY <2>1 DEF UserOK
    <3>5. StartCap * (faults + 1) = StartCap + StartCap * faults /\ StartCap * faults \in Nat
      BY <2>1, Products
    <3>6. PICK g \in Nat : g = StartCap * faults
      BY <3>5
    <3>7. StartCap * faults' = StartCap + g
      BY <1>0, <3>5, <3>6
    <3>. QED  BY <2>1, <3>1, <3>3, <3>4, <3>6, <3>7, Counts
  <2>4. starts'[u] = {} /\ sends' = sends /\ now' = now
    BY <1>0
  <2>5. ASSUME NEW x \in Int, x >= now - StartWindow PROVE Cardinality(Taken(sends, u, x)) <= Slots(starts[u], x)'
    BY <2>2, <2>3, <2>4, <2>5 DEF Slots
  <2>6. Cardinality(starts'[u]) <= StartCap /\ Cardinality(Day(sends, u, now)) <= DailyCap
    BY <2>1, <2>2, <2>4 DEF UserOK
  <2>. QED  BY <2>4, <2>5, <2>6 DEF UserOK
<1>. QED  BY <1>0, <1>1, <1>2 DEF CapsInv

LEMMA CapsInit == Init => CapsInv
<1>. SUFFICES ASSUME Init PROVE CapsInv
  OBVIOUS
<1>1. starts = [u \in User |-> {}] /\ faults = 0 /\ sends = [i \in Send |-> AbsentRow]
  BY DEF Init
<1>2. \A at : \A u \in User : Day(sends, u, at) = {} /\ Taken(sends, u, at) = {}
  BY <1>1 DEF Day, Taken, AbsentRow
<1>3. Cardinality({}) = 0 /\ \A x : Since({}, x) = {}
  BY FS_EmptySet DEF Since
<1>4. \A u \in User : UserOK(u)
  <2>1. StartCap * 0 = 0 /\ StartCap \in Nat /\ DailyCap \in Nat
    BY KindleCapsAssumption
  <2>2. SUFFICES ASSUME NEW u \in User PROVE UserOK(u)
    OBVIOUS
  <2>3. starts[u] = {} /\ \A x : Slots(starts[u], x) = 0
    BY <1>1, <1>3, <2>1 DEF Slots
  <2>4. Cardinality(starts[u]) = 0 /\ Cardinality(Day(sends, u, now)) = 0
        /\ \A x : Cardinality(Taken(sends, u, x)) = 0
    BY <1>2, <1>3, <2>3
  <2>. QED  BY <2>1, <2>3, <2>4 DEF UserOK
<1>5. \A p \in Attempt : DayOK(p) /\ MinuteOK(p)
  BY DEF Init, Idle, DayOK, MinuteOK, Section, Admission, Delivery, Feeding
<1>. QED  BY <1>1, <1>4, <1>5 DEF CapsInv

LEMMA CapsNext == KInv /\ KInv' /\ CapsInv /\ [Next]_vars => CapsInv'
<1>. SUFFICES ASSUME KInv, KInv', CapsInv, [Next]_vars PROVE CapsInv'
  OBVIOUS
<1>1. ASSUME NEW p \in Attempt, AttemptStep(p) PROVE CapsInv'
  BY <1>1, CapsEarly, CapsFindReplay, CapsCountAccepted, CapsCountActive, CapsReserve,
     CapsDelivery, CapsFinalize, CapsSettle
     DEF AttemptStep
<1>. QED  BY <1>1, CapsEnter, CapsDatabaseFault, CapsWorld, CapsCrash DEF Next, Environment

\* The caps of a user hold for any caps, windows, attempts and faults: nobody else's
\* step moves what was counted before a slot is spent, and what is spent is counted
\* until it leaves its window.
THEOREM CapsAreKept == Spec => []CapsHold
<1>1. KInv /\ CapsInv => CapsHold
  <2>1. SUFFICES ASSUME KInv, CapsInv, NEW u \in User
                 PROVE  /\ Cardinality(Day(sends, u, now)) <= DailyCap
                        /\ Cardinality(Taken(sends, u, now - StartWindow)) <= StartCap * (1 + faults)
    BY DEF CapsHold, Day, Taken
  <2>2. UserOK(u) /\ starts[u] \subseteq Stamp /\ faults \in Nat /\ StartCap \in Nat /\ now - StartWindow \in Int
    BY <2>1, Bounds, KindleCapsAssumption DEF CapsInv, KInv, TypeInv
  <2>3. Since(starts[u], now - StartWindow) \subseteq starts[u]
    BY DEF Since
  <2>4. /\ Cardinality(Since(starts[u], now - StartWindow)) \in Nat /\ Cardinality(starts[u]) \in Nat
        /\ Cardinality(Since(starts[u], now - StartWindow)) <= Cardinality(starts[u])
    BY <2>2, <2>3, StampSets
  <2>5. StartCap * (1 + faults) = StartCap + StartCap * faults /\ StartCap * faults \in Nat
    BY <2>2, Products
  <2>6. PICK g \in Nat : g = StartCap * faults
    BY <2>5
  <2>7. Cardinality(Taken(sends, u, now - StartWindow)) <= g + Cardinality(Since(starts[u], now - StartWindow))
    BY <2>2, <2>6 DEF UserOK, Slots
  <2>8. Cardinality(starts[u]) <= StartCap /\ Cardinality(Day(sends, u, now)) <= DailyCap
    BY <2>2 DEF UserOK
  <2>. QED  BY <2>2, <2>4, <2>5, <2>6, <2>7, <2>8, Counts
<1>2. Init => KInv /\ CapsInv
  BY KInit, CapsInit
<1>3. KInv /\ CapsInv /\ [Next]_vars => (KInv /\ CapsInv)'
  BY KNext, CapsNext
<1>. QED  BY <1>1, <1>2, <1>3, PTL DEF Spec

-------------------------------------------------------------------------------
(* KindleSend implements SendPromise: a step changes the table as one of the   *)
(* promise's actions does, or hands a message over, or changes neither.        *)

RowRecords == [i \in Send |-> sends[i].status]
RowKeys == [i \in Send |-> <<sends[i].user, sends[i].book>>]

LEMMA PromiseInit == Init => Promise!Init
  BY DEF Init, Promise!Init, AbsentRow

LEMMA PromiseStutters == ASSUME UNCHANGED <<sends, relay>> PROVE UNCHANGED Promise!vars
  BY DEF Promise!vars

LEMMA InsertPromised ==
  ASSUME KInv, NEW p \in Attempt, job[p].at = "reserve", ~ActiveCollision(job[p].user, job[p].book),
         NEW i \in FreeRow, sends' = Inserted(p, i), relay' = relay
  PROVE  Promise!Next
<1>0. PICK k \in User \X Book : k = <<job[p].user, job[p].book>>
  BY DEF KInv, MutexInv
<1>1. /\ i \in Send /\ sends'[i].user = job[p].user /\ sends'[i].book = job[p].book
      /\ sends'[i].status = "started" /\ sends[i].status = "absent"
      /\ \A j \in Send \ {i} : sends'[j] = sends[j]
  BY InsertedRows DEF KInv, RowInv, Section, Admission
<1>3. \A j \in Send : RowKeys[j] = k => RowRecords[j] # "started"
  BY <1>0 DEF RowKeys, RowRecords, ActiveCollision, Started
<1>4. RowRecords' = [RowRecords EXCEPT ![i] = "started"] /\ RowKeys' = [RowKeys EXCEPT ![i] = k]
  BY <1>0, <1>1 DEF RowRecords, RowKeys
<1>5. Promise!Reserve(i, k)
  BY <1>1, <1>3, <1>4 DEF Promise!Reserve, RowRecords, RowKeys
<1>. QED  BY <1>1, <1>5 DEF Promise!Next

\* The checked terminal write records what the slot holds, or nothing.
LEMMA WritePromised ==
  ASSUME KInv, NEW p \in Attempt, job[p].at = "write", sends' = TerminalWrite(p), relay' = relay
  PROVE  [Promise!Next]_(Promise!vars)
<1>0. PICK i \in Send : i = job[p].row
  BY JobFields DEF HoldOK, Delivery
<1>1. CASE sends[i].status # "started"
  BY <1>0, <1>1, PromiseStutters DEF TerminalWrite
<1>2. CASE sends[i].status = "started"
  <2>. DEFINE x == [sends[i] EXCEPT !.status = job[p].slot, !.finalized = now]
  <2>1. sends \in [Send -> Row] /\ relay[i] \in {"none", "submitted", "accepted", "refused"}
    BY DEF KInv, TypeInv
  <2>2. sends' = [sends EXCEPT ![i] = x]
    BY <1>0, <1>2 DEF TerminalWrite
  <2>3. x.status = job[p].slot /\ x.user = sends[i].user /\ x.book = sends[i].book
    BY <2>1 DEF Row
  <2>. HIDE DEF x
  <2>4. RowRecords' = [RowRecords EXCEPT ![i] = job[p].slot] /\ RowKeys' = RowKeys
    BY <2>1, <2>2, <2>3 DEF RowRecords, RowKeys
  <2>5. job[p].slot \in Promise!Deserved(relay[i])
    BY <1>0, <2>1, JobFields DEF HoldOK, Terminal, Promise!Deserved
  <2>6. Promise!Conclude(i)
    BY <1>2, <2>4, <2>5 DEF Promise!Conclude, RowRecords, RowKeys
  <2>. QED  BY <2>6 DEF Promise!Next
<1>. QED  BY <1>1, <1>2

LEMMA SweepPromised ==
  ASSUME TypeInv, NEW S, NEW at, sends' = Swept(S, at), relay' = relay
  PROVE  Promise!Next
<1>0. PICK rows \in SUBSET Send : rows = {i \in Send : Expired(i, at) /\ sends[i].user \in S}
  OBVIOUS
<1>1. \A i \in Send : sends[i] \in Row
  BY DEF TypeInv
<1>2. \A i \in Send : /\ sends'[i].status = IF i \in rows THEN "indeterminate" ELSE sends[i].status
                      /\ sends'[i].user = sends[i].user /\ sends'[i].book = sends[i].book
  <2>. TAKE i \in Send
  <2>0. sends'[i] = IF Expired(i, at) /\ sends[i].user \in S
                    THEN [sends[i] EXCEPT !.status = "indeterminate", !.finalized = at] ELSE sends[i]
    BY Zenon DEF Swept
  <2>1. i \in rows <=> Expired(i, at) /\ sends[i].user \in S
    BY <1>0
  <2>2. CASE i \in rows
    <3>1. sends'[i] = [sends[i] EXCEPT !.status = "indeterminate", !.finalized = at]
      BY <2>0, <2>1, <2>2, Zenon
    <3>. QED  BY <1>1, <2>2, <3>1 DEF Row
  <2>3. CASE i \notin rows
    <3>1. sends'[i] = sends[i]
      BY <2>0, <2>1, <2>3, Zenon
    <3>. QED  BY <2>3, <3>1
  <2>. QED  BY <2>2, <2>3
<1>3. \A i \in rows : sends[i].status = "started"
  BY <1>0 DEF Expired
<1>4. /\ RowRecords' = [i \in Send |-> IF i \in rows THEN "indeterminate" ELSE RowRecords[i]]
      /\ RowKeys' = RowKeys
  BY <1>2 DEF RowRecords, RowKeys
<1>6. Promise!Abandon(rows)
  BY <1>3, <1>4 DEF Promise!Abandon, RowRecords, RowKeys
<1>. QED  BY <1>6 DEF Promise!Next

LEMMA PrunePromised ==
  ASSUME TypeInv, NEW at, relay' = relay,
         sends' = [i \in Send |-> IF Stale(i, at) THEN [sends[i] EXCEPT !.status = "deleted"] ELSE sends[i]]
  PROVE  Promise!Next
<1>0. PICK rows \in SUBSET Send : rows = {i \in Send : Stale(i, at)}
  OBVIOUS
<1>1. \A i \in Send : sends[i] \in Row
  BY DEF TypeInv
<1>2. \A i \in Send : /\ sends'[i].status = IF i \in rows THEN "deleted" ELSE sends[i].status
                      /\ sends'[i].user = sends[i].user /\ sends'[i].book = sends[i].book
  <2>1. \A i \in Send : IF Stale(i, at) THEN sends'[i] = [sends[i] EXCEPT !.status = "deleted"]
                        ELSE sends'[i] = sends[i]
    OBVIOUS
  <2>2. ASSUME NEW i \in Send PROVE i \in rows <=> Stale(i, at)
    BY <1>0
  <2>. QED  BY <1>1, <2>1, <2>2 DEF Row
<1>3. \A i \in rows : sends[i].status \in Terminal
  BY <1>0 DEF Stale
<1>4. /\ RowRecords' = [i \in Send |-> IF i \in rows THEN "deleted" ELSE RowRecords[i]]
      /\ RowKeys' = RowKeys
  BY <1>2 DEF RowRecords, RowKeys
<1>6. Promise!Prune(rows)
  BY <1>3, <1>4 DEF Promise!Prune, Promise!Outcome, Terminal, RowRecords, RowKeys
<1>. QED  BY <1>6 DEF Promise!Next

\* The one place where a message leaves: its row is reserved and it has not left before.
LEMMA StreamPromised == ASSUME KInv, NEW p \in Attempt, StreamEnds(p) PROVE Promise!Next
<1>1. /\ job[p].at = "stream" /\ sends' = sends
      /\ relay' = [relay EXCEPT ![job[p].row] = "submitted"]
  BY DEF StreamEnds, At
<1>2. /\ job[p].row \in Send /\ sends[job[p].row].status = "started" /\ relay[job[p].row] = "none"
  BY <1>1, JobFields DEF HoldOK, Delivery, Feeding, Sending
<1>3. Promise!HandOver(job[p].row)
  BY <1>1, <1>2 DEF Promise!HandOver
<1>. QED  BY <1>2, <1>3 DEF Promise!Next

LEMMA RelayPromised ==
  ASSUME NEW i \in Send, NEW fate \in {"accepted", "refused"}, RelayDecides(i, fate)
  PROVE  Promise!Next
<1>1. Promise!Decide(i)
  BY DEF RelayDecides, Promise!Decide
<1>. QED  BY <1>1 DEF Promise!Next

LEMMA PromiseStep == KInv /\ [Next]_vars => [Promise!Next]_(Promise!vars)
<1>. SUFFICES ASSUME KInv, [Next]_vars PROVE [Promise!Next]_(Promise!vars)
  OBVIOUS
<1>0. CASE UNCHANGED <<sends, relay>>
  BY <1>0, PromiseStutters
<1>1. ASSUME NEW p \in Attempt, SweepLeases(p) PROVE Promise!Next
  <2>1. sends' = Swept({job[p].user}, job[p].now) /\ relay' = relay
    BY <1>1 DEF SweepLeases
  <2>. QED  BY <2>1, SweepPromised DEF KInv
<1>2. ASSUME NEW p \in Attempt, PruneRetention(p) PROVE Promise!Next
  <2>1. sends' = [i \in Send |-> IF Stale(i, job[p].now) THEN [sends[i] EXCEPT !.status = "deleted"] ELSE sends[i]]
        /\ relay' = relay
    BY <1>2 DEF PruneRetention
  <2>. QED  BY <2>1, PrunePromised DEF KInv
<1>3. ASSUME NEW p \in Attempt, Reserve(p) PROVE [Promise!Next]_(Promise!vars)
  <2>1. relay' = relay
    BY <1>3, Zenon DEF Reserve
  <2>2. CASE sends' = sends
    <3>1. UNCHANGED <<sends, relay>>
      BY <2>1, <2>2
    <3>. QED  BY <1>0, <3>1
  <2>3. ASSUME NEW i \in FreeRow, sends' = Inserted(p, i), job[p].at = "reserve",
               ~ActiveCollision(job[p].user, job[p].book)
        PROVE  Promise!Next
    BY <2>1, <2>3, InsertPromised
  <2>4. \/ sends' = sends
        \/ /\ job[p].at = "reserve" /\ ~ActiveCollision(job[p].user, job[p].book)
           /\ \E i \in FreeRow : sends' = Inserted(p, i)
    BY <1>3, Zenon DEF Reserve, At
  <2>. QED  BY <2>2, <2>3, <2>4
<1>4. ASSUME NEW p \in Attempt, Finalize(p) PROVE [Promise!Next]_(Promise!vars)
  BY <1>4, WritePromised DEF Finalize, At
<1>5. ASSUME NEW p \in Attempt, DatabaseFault(p) PROVE [Promise!Next]_(Promise!vars)
  <2>1. relay' = relay
    BY <1>5 DEF DatabaseFault
  <2>2. CASE At(p, "write") /\ sends' = TerminalWrite(p)
    BY <2>1, <2>2, WritePromised DEF At
  <2>3. CASE At(p, "reserve") /\ ~ActiveCollision(job[p].user, job[p].book)
             /\ \E i \in FreeRow : sends' = Inserted(p, i)
    BY <2>1, <2>3, InsertPromised DEF At
  <2>. QED  BY <1>0, <1>5, <2>1, <2>2, <2>3 DEF DatabaseFault
<1>6. CASE Boot
  <2>1. sends' = Swept(User, now) /\ relay' = relay
    BY <1>6 DEF Boot
  <2>. QED  BY <2>1, SweepPromised DEF KInv
<1>7. ASSUME NEW p \in Attempt, AttemptStep(p) PROVE [Promise!Next]_(Promise!vars)
  BY <1>0, <1>1, <1>2, <1>3, <1>4, <1>7, StreamPromised
     DEF AttemptStep, Begin, FindReplay, CountAccepted, CountActive, Deliver, OpenStream, AttemptFails,
         SendMailSettles, DeadlineFires, Reread, Cleanup
<1>8. ASSUME NEW p \in Attempt, NEW u \in User, NEW b \in Book, Enter(p, u, b)
      PROVE  [Promise!Next]_(Promise!vars)
  BY <1>0, <1>8 DEF Enter
<1>9. CASE Environment
  BY <1>0, <1>5, <1>6, <1>9, RelayPromised DEF Environment, Tick, Crash
<1>10. CASE UNCHANGED vars
  BY <1>0, <1>10 DEF vars
<1>. QED  BY <1>7, <1>8, <1>9, <1>10 DEF Next

\* For any attempts, windows, faults and crashes Send-to-Kindle keeps SendPromise: a
\* message is handed over at most once, against a live reservation, and an outcome is
\* recorded once and never against the relay.
THEOREM SendRefinement == Spec => ImplementsPromise
<1>. QED
  BY PromiseInit, PromiseStep, KAlways, PTL DEF Spec, ImplementsPromise, Promise!Spec
===============================================================================
