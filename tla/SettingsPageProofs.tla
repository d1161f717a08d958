-------------------------- MODULE SettingsPageProofs --------------------------
(***************************************************************************)
(* SettingsPage for any notifiers, mailboxes, libraries and overlapping     *)
(* saves: what the cached queries show once the saves have settled, and     *)
(* what the Kindle-sender card offers.                                      *)
(***************************************************************************)
EXTENDS SettingsPage, FiniteSetTheorems, TLAPS

USE DEF Query, Section, Card

Copy == Setting \cup Mailbox \cup {"off", "no sender", Nothing}
Answer == [data : Copy, stale : BOOLEAN, failed : BOOLEAN, missed : BOOLEAN,
           read : [at : {"idle", "sent", "read"}, copy : Copy]]
Value == Url \cup Library \cup BOOLEAN \cup Typed \cup {Nothing, "deleted"}
SaveRecord == [at : {"idle", "sent", "done"}, card : Card \cup {"sender", "notifiers", Nothing},
               id : Notifier \cup {Nothing}, value : Value, heard : BOOLEAN]

\* What a save in the air carries; only one whose answer is awaited is "done".
SaveFits(s) ==
  /\ s.at = "done" => s.heard
  /\ s.at # "idle" =>
       /\ s.card \in Card \cup {"sender", "notifiers"}
       /\ s.card = "notifiers" => s.value \in Typed \cup {"deleted"}
       /\ s.card \in Card => s.value \in Choices(s.card)

PageTypeOK == /\ settings \in Setting /\ page \in Section \cup {"search"}
              /\ query \in [Query -> Answer]
              /\ save \in [PageSave -> SaveRecord]

\* The stored sender's id was once given to a notifier, so no later one gets it.
IdIsUsed(row) == row.sender.id # Nothing => row.notifiers[row.sender.id] # Nothing

\* A committed save that has still to invalidate the query.
Touched(q) == \E m \in PageSave : save[m].at = "done" /\ (q = "connectors" \/ Retires(save[m]))

\* The copy of a read, and the data on display, are what the server has, unless a
\* commit passed that will invalidate them or that the tab cannot have heard of.
Truthful(q, a, shown, fresh, touched) ==
  /\ a.read.at = "read" /\ ~a.missed => a.read.copy = fresh \/ touched
  /\ /\ a.read.at = "idle" /\ ~a.failed /\ ~a.missed
     /\ ~a.stale \/ (q = "connectors" /\ shown)
     => a.data = fresh \/ touched

DraftFits == LET dto == query["connectors"].data
             IN Mounted(page, dto) => draft \in Eligible(dto) \cup {Nothing}

PageInv == /\ PageTypeOK /\ IdIsUsed(settings) /\ DraftFits
           /\ \A m \in PageSave : SaveFits(save[m])
           /\ \A q \in Query : Truthful(q, query[q], Shows(page, q), Fresh(q), Touched(q))

-------------------------------------------------------------------------------
(* The operators of the module                                               *)

LEMMA FreshType ==
  ASSUME settings \in Setting, NEW q \in Query
  PROVE  Fresh(q) \in Copy
  BY DEF Fresh, Features, Status, Copy, Setting

LEMMA ReadingIsSent ==
  ASSUME NEW a \in Answer
  PROVE  /\ Reading(a) \in Answer /\ Reading(a).data = a.data
         /\ Reading(a).read.at = "sent"
  BY DEF Reading, Answer, NoRead, Copy

LEMMA MountKeeps ==
  ASSUME NEW a \in Answer, NEW q \in Query, NEW shown, NEW fresh, NEW touched,
         Truthful(q, a, shown, fresh, touched)
  PROVE  /\ Mount(a) \in Answer /\ Mount(a).data = a.data
         /\ Truthful(q, Mount(a), TRUE, fresh, touched)
  BY ReadingIsSent DEF Mount, Truthful

\* Whatever the query showed before, an invalidation leaves nothing to correct.
LEMMA InvalidateSettles ==
  ASSUME NEW q \in Query, query[q] \in Answer, NEW fresh, NEW touched
  PROVE  /\ Invalidate(q) \in Answer /\ Invalidate(q).data = query[q].data
         /\ Truthful(q, Invalidate(q), Shows(page, q), fresh, touched)
<1> DEFINE a == query[q]
<1>1. CASE Shows(page, q) /\ (a.data # Nothing \/ a.read.at = "idle")
  BY <1>1, ReadingIsSent DEF Invalidate, Truthful
<1>2. CASE ~(Shows(page, q) /\ (a.data # Nothing \/ a.read.at = "idle"))
  <2> DEFINE b == [a EXCEPT !.stale = TRUE, !.missed = @ \/ a.read.at = "read"]
  <2>1. Invalidate(q) = b
    BY <1>2 DEF Invalidate
  <2>2. /\ b \in Answer /\ b.data = a.data /\ b.stale = TRUE /\ b.read = a.read
        /\ (a.read.at = "read" => b.missed)
    BY DEF Answer
  <2>3. (q = "connectors" /\ Shows(page, q)) => a.read.at # "idle"
    BY <1>2
  <2> QED BY <2>1, <2>2, <2>3 DEF Truthful
<1> QED BY <1>1, <1>2

LEMMA SeedFits == ASSUME NEW dto PROVE Seed(dto) \in Eligible(dto) \cup {Nothing}
<1>1. Cardinality(Eligible(dto)) = 1 => Eligible(dto) # {}
  BY FS_EmptySet
<1>2. Cardinality(Eligible(dto)) = 1 => (CHOOSE n \in Eligible(dto) : TRUE) \in Eligible(dto)
  BY <1>1
<1> QED BY <1>2 DEF Seed

\* A render leaves an eligible mailbox in the card, or none.
LEMMA RenderFits == ASSUME DraftFits, Render PROVE DraftFits'
<1> DEFINE before == query["connectors"].data
           after == query'["connectors"].data
<1>1. SUFFICES ASSUME Mounted(page', after) PROVE draft' \in Eligible(after) \cup {Nothing}
  BY DEF DraftFits
<1>2. Seed(after) \in Eligible(after) \cup {Nothing}
  BY SeedFits
<1>3. Rebase(draft, after) \in Eligible(after) \cup {Nothing}
  BY <1>2 DEF Rebase
<1>4. CASE ~Mounted(page, before)
  BY <1>1, <1>2, <1>4 DEF Render
<1>5. CASE Mounted(page, before) /\ Signature(before) = Signature(after)
  <2>1. Eligible(before) = Eligible(after)
    BY <1>5 DEF Signature
  <2>2. draft' = draft
    BY <1>1, <1>5 DEF Render
  <2> QED BY <1>5, <2>1, <2>2 DEF DraftFits
<1>6. CASE Mounted(page, before) /\ Signature(before) # Signature(after)
  BY <1>1, <1>3, <1>6 DEF Render
<1> QED BY <1>4, <1>5, <1>6

-------------------------------------------------------------------------------
(* The server's commits                                                      *)

\* A save the server takes keeps the row well formed and the sender's id used, and
\* one that retires no feature leaves the features as they were.
LEMMA SavedKeeps ==
  ASSUME NEW row \in Setting, IdIsUsed(row), NEW s \in SaveRecord, SaveFits(s), s.at = "sent",
         ~Rejected(s, row), NEW new \in Saved(s, row)
  PROVE  /\ new \in Setting /\ IdIsUsed(new)
         /\ ~Retires(s) => Features(new) = Features(row)
<1>1. CASE s.card \in Card
  <2>1. new = [row EXCEPT ![s.card] = s.value] /\ s.value \in Choices(s.card)
    BY <1>1 DEF Saved, SaveFits
  <2>2. CASE s.card = "general"
    <3>1. new = [row EXCEPT !.general = s.value] /\ s.value \in Url
      BY <2>1, <2>2 DEF Choices
    <3>2. /\ new \in Setting /\ new.narratorr = row.narratorr /\ new.ebooks = row.ebooks
          /\ new.notifiers = row.notifiers /\ new.sender = row.sender
      BY <3>1 DEF Setting
    <3> QED BY <3>2 DEF IdIsUsed, Features, Status, Present
  <2>3. CASE s.card = "narratorr"
    <3>1. new = [row EXCEPT !.narratorr = s.value] /\ s.value \in Library \cup {Nothing}
      BY <2>1, <2>3 DEF Choices
    <3> QED BY <3>1, <2>3 DEF Setting, IdIsUsed, Retires
  <2>4. CASE s.card = "ebooks"
    <3>1. new = [row EXCEPT !.ebooks = s.value] /\ s.value \in BOOLEAN
      BY <2>1, <2>4 DEF Choices
    <3> QED BY <3>1, <2>4 DEF Setting, IdIsUsed, Retires
  <2> QED BY <1>1, <2>2, <2>3, <2>4
<1>2. CASE s.card = "sender"
  <2> DEFINE box == IF s.id = Nothing THEN Nothing ELSE row.notifiers[s.id]
  <2>1. new = [row EXCEPT !.sender = [id |-> s.id, mailbox |-> box]]
    BY <1>2 DEF Saved
  <2>2. s.id # Nothing => s.id \in Present(row) /\ row.notifiers[s.id] \in Mailbox
    BY <1>2 DEF Rejected
  <2>3. box \in Mailbox \cup {Nothing} /\ s.id \in Notifier \cup {Nothing}
    BY <2>2 DEF SaveRecord
  <2>4. s.id # Nothing => row.notifiers[s.id] # Nothing
    BY <2>2 DEF Present, Absent
  <2> HIDE DEF box
  <2>5. new \in Setting /\ new.sender.id = s.id /\ new.notifiers = row.notifiers
    BY <2>1, <2>3 DEF Setting
  <2> QED BY <1>2, <2>4, <2>5 DEF IdIsUsed, Retires
<1>3. CASE s.card = "notifiers"
  <2>1. PICK n \in Notifier : /\ new = [row EXCEPT !.notifiers[n] = s.value]
                              /\ s.id # Nothing => n = s.id
                              /\ s.id = Nothing => row.notifiers[n] = Nothing
    BY <1>3 DEF Saved, SaveRecord
  <2>2. s.value \in Typed \cup {"deleted"}
    BY <1>3 DEF SaveFits
  <2>3. s.value \in Config \cup Absent /\ s.value # Nothing
    BY <2>2, PageAssumption DEF Absent
  <2>4. /\ new \in Setting /\ new.sender = row.sender /\ new.ebooks = row.ebooks
        /\ new.narratorr = row.narratorr
        /\ new.notifiers = [row.notifiers EXCEPT ![n] = s.value]
    BY <2>1, <2>3 DEF Setting
  <2>5. row.notifiers \in [Notifier -> Config \cup Absent] /\ row.sender.id \in Notifier \cup {Nothing}
    BY DEF Setting
  <2>6. IdIsUsed(new)
    BY <2>3, <2>4, <2>5 DEF IdIsUsed
  <2>7. ASSUME s.id = Nothing PROVE Features(new) = Features(row)
    <3>1. row.sender.id # Nothing => row.sender.id # n
      BY <2>1, <2>7 DEF IdIsUsed
    <3>2. row.sender.id # Nothing => /\ new.notifiers[row.sender.id] = row.notifiers[row.sender.id]
                                     /\ (row.sender.id \in Present(new)) = (row.sender.id \in Present(row))
      BY <2>4, <2>5, <3>1 DEF Present
    <3>3. Status(new) = Status(row)
      BY <2>4, <3>2 DEF Status
    <3> QED BY <2>4, <3>3 DEF Features
  <2> QED BY <1>3, <2>4, <2>6, <2>7 DEF Retires
<1>4. s.card \in Card \cup {"sender", "notifiers"}
  BY DEF SaveFits
<1> QED BY <1>1, <1>2, <1>3, <1>4

-------------------------------------------------------------------------------
(* One step                                                                  *)

\* A step that leaves the server, the screen and the saves alone keeps the invariant
\* if it keeps each query truthful.
LEMMA QueryStep ==
  ASSUME PageInv, UNCHANGED <<settings, save>>, query' \in [Query -> Answer],
         page' \in Section \cup {"search"}, DraftFits',
         \A q \in Query : Truthful(q, query'[q], Shows(page', q), Fresh(q), Touched(q))
  PROVE  PageInv'
<1>1. \A q \in Query : Fresh(q)' = Fresh(q) /\ Touched(q)' = Touched(q)
  BY DEF Fresh, Touched, PageInv
<1>2. \A q \in Query : Truthful(q, query'[q], Shows(page', q), Fresh(q)', Touched(q)')
  BY <1>1
<1> QED BY <1>2 DEF PageInv, PageTypeOK

LEMMA InitHolds == PageInit => PageInv
<1> SUFFICES ASSUME PageInit PROVE PageInv
  OBVIOUS
<1>1. NoAnswer \in Answer /\ \A q \in Query : Truthful(q, NoAnswer, FALSE, Fresh(q), Touched(q))
  BY DEF NoAnswer, NoRead, Answer, Copy, Truthful
<1>2. settings \in Setting /\ IdIsUsed(settings)
  BY PageAssumption DEF PageInit, IdIsUsed
<1>3. \A q \in Query : /\ query[q] = IF Shows(page, q) THEN Mount(NoAnswer) ELSE NoAnswer
                       /\ query[q] \in Answer
                       /\ Truthful(q, query[q], Shows(page, q), Fresh(q), Touched(q))
  <2> TAKE q \in Query
  <2>1. query[q] = IF Shows(page, q) THEN Mount(NoAnswer) ELSE NoAnswer
    BY DEF PageInit
  <2>2. CASE Shows(page, q)
    <3>1. /\ Mount(NoAnswer) \in Answer
          /\ Truthful(q, Mount(NoAnswer), TRUE, Fresh(q), Touched(q))
      BY <1>1, MountKeeps
    <3>2. Shows(page, q) = TRUE
      BY <2>2 DEF Shows
    <3> QED BY <2>1, <2>2, <3>1, <3>2
  <2>3. CASE ~Shows(page, q)
    <3>1. Shows(page, q) = FALSE
      BY <2>3 DEF Shows
    <3> QED BY <1>1, <2>1, <2>3, <3>1
  <2> QED BY <2>2, <2>3, <2>1
<1>4. query \in [Query -> Answer]
  BY <1>3 DEF PageInit
<1>5. save \in [PageSave -> SaveRecord] /\ \A m \in PageSave : SaveFits(save[m])
  BY DEF PageInit, IdleSave, SaveRecord, Value, SaveFits
<1>6. DraftFits
  BY DEF PageInit, DraftFits
<1> QED BY <1>2, <1>3, <1>4, <1>5, <1>6 DEF PageInv, PageTypeOK, PageInit

\* What a press leaves: one more save on its way, nothing else.
LEMMA PressKeeps ==
  ASSUME PageInv, NEW m \in PageSave, NEW card \in Card \cup {"sender", "notifiers"},
         NEW id \in Notifier \cup {Nothing}, NEW value \in Value, Press(m, card, id, value),
         card = "notifiers" => value \in Typed \cup {"deleted"},
         card \in Card => value \in Choices(card)
  PROVE  PageInv'
<1> DEFINE s == [IdleSave EXCEPT !.at = "sent", !.card = card, !.id = id, !.value = value]
<1>1. /\ s \in SaveRecord /\ s.at = "sent" /\ s.card = card /\ s.value = value
  BY DEF IdleSave, SaveRecord, Value
<1>2. save' = [save EXCEPT ![m] = s] /\ save[m].at = "idle"
      /\ UNCHANGED <<settings, page, query, draft>>
  BY DEF Press
<1> HIDE DEF s
<1>4. SaveFits(s)
  BY <1>1 DEF SaveFits
<1>5. save' \in [PageSave -> SaveRecord] /\ \A k \in PageSave : SaveFits(save'[k])
  BY <1>1, <1>2, <1>4 DEF PageInv, PageTypeOK
<1>6. \A q \in Query : Touched(q)' = Touched(q)
  BY <1>1, <1>2 DEF Touched, PageInv, PageTypeOK
<1>7. \A q \in Query : Fresh(q)' = Fresh(q)
  BY <1>2 DEF Fresh
<1> QED BY <1>2, <1>5, <1>6, <1>7 DEF PageInv, PageTypeOK, DraftFits

LEMMA TruthfulGrows ==
  ASSUME NEW q, NEW a, NEW shown, NEW fresh, NEW touched, NEW more, touched => more,
         Truthful(q, a, shown, fresh, touched)
  PROVE  Truthful(q, a, shown, fresh, more)
  BY DEF Truthful

LEMMA CommitKeeps == ASSUME PageInv, NEW m \in PageSave, Commit(m) PROVE PageInv'
<1> DEFINE s == save[m]
           t == IF s.heard THEN [s EXCEPT !.at = "done"] ELSE IdleSave
<1>1. /\ s \in SaveRecord /\ SaveFits(s) /\ s.at = "sent" /\ settings \in Setting
      /\ IdIsUsed(settings) /\ query \in [Query -> Answer]
  BY DEF PageInv, PageTypeOK, Commit
<1>2. save' = [save EXCEPT ![m] = t] /\ UNCHANGED <<page, draft>>
  BY DEF Commit
<1>3. t \in SaveRecord /\ SaveFits(t)
  BY <1>1 DEF SaveRecord, SaveFits, IdleSave, Value
<1>4. save' \in [PageSave -> SaveRecord] /\ \A k \in PageSave : SaveFits(save'[k])
  BY <1>2, <1>3 DEF PageInv, PageTypeOK
<1>5. \A q \in Query : Touched(q) => Touched(q)'
  BY <1>1, <1>2 DEF Touched, PageInv, PageTypeOK
<1>6. CASE Rejected(s, settings)
  <2>1. UNCHANGED <<settings, query>>
    BY <1>6 DEF Commit
  <2>2. \A q \in Query : Fresh(q)' = Fresh(q)
    BY <2>1 DEF Fresh
  <2>3. \A q \in Query : Truthful(q, query'[q], Shows(page', q), Fresh(q)', Touched(q)')
    BY <2>1, <2>2, <1>2, <1>5, TruthfulGrows DEF PageInv
  <2> QED BY <2>1, <2>3, <1>2, <1>4 DEF PageInv, PageTypeOK, DraftFits
<1>7. CASE ~Rejected(s, settings)
  <2>1. /\ settings' \in Saved(s, settings)
        /\ query' = [q \in Query |-> [query[q] EXCEPT !.missed = @ \/ ~s.heard]]
    BY <1>7 DEF Commit
  <2>2. /\ settings' \in Setting /\ IdIsUsed(settings')
        /\ ~Retires(s) => Features(settings') = Features(settings)
    BY <1>1, <1>7, <2>1, SavedKeeps
  <2>3. \A q \in Query : /\ query'[q] \in Answer /\ query'[q].data = query[q].data
                         /\ query'[q].missed = (query[q].missed \/ ~s.heard)
                         /\ query'[q].read = query[q].read /\ query'[q].stale = query[q].stale
                         /\ query'[q].failed = query[q].failed
    BY <1>1, <2>1 DEF Answer, SaveRecord
  <2>4. query' \in [Query -> Answer]
    BY <2>1, <2>3
  <2>5. \A q \in Query : Truthful(q, query'[q], Shows(page', q), Fresh(q)', Touched(q)')
    <3> TAKE q \in Query
    <3>1. CASE ~s.heard
      BY <2>3, <3>1 DEF Truthful
    <3>2. CASE s.heard /\ (q = "connectors" \/ Retires(s))
      <4>1. t = [s EXCEPT !.at = "done"] /\ t.card = s.card /\ t.id = s.id /\ t.at = "done"
        BY <3>2, <1>1 DEF SaveRecord
      <4>2. Retires(t) = Retires(s)
        BY <4>1 DEF Retires
      <4>3. save'[m] = t
        BY <1>2 DEF PageInv, PageTypeOK
      <4>4. Touched(q)'
        BY <3>2, <4>1, <4>2, <4>3 DEF Touched
      <4> QED BY <4>4 DEF Truthful
    <3>3. CASE s.heard /\ ~(q = "connectors" \/ Retires(s))
      <4>1. Fresh(q)' = Fresh(q)
        BY <3>3, <2>2 DEF Fresh
      <4>2. Truthful(q, query[q], Shows(page, q), Fresh(q), Touched(q)')
        BY <1>5, TruthfulGrows DEF PageInv
      <4>3. query'[q].missed = query[q].missed
        BY <2>3, <3>3, <1>1 DEF Answer, SaveRecord
      <4> QED BY <4>1, <4>2, <4>3, <2>3, <1>2 DEF Truthful
    <3> QED BY <3>1, <3>2, <3>3
  <2>6. DraftFits'
    BY <2>3, <1>2 DEF PageInv, DraftFits
  <2> QED BY <2>2, <2>4, <2>5, <2>6, <1>2, <1>4 DEF PageInv, PageTypeOK
<1> QED BY <1>6, <1>7

\* A save that settles, or whose answer is lost, answers for what it changed.
LEMMA ReconcileKeeps ==
  ASSUME PageInv, NEW m \in PageSave, NEW ok, Reconcile(save[m], ok), settings' = settings,
         NEW t \in SaveRecord, SaveFits(t), t.at # "done", save' = [save EXCEPT ![m] = t]
  PROVE  PageInv'
<1>1. save' \in [PageSave -> SaveRecord] /\ \A k \in PageSave : SaveFits(save'[k])
  BY DEF PageInv, PageTypeOK
<1>2. /\ query' = [q \in Query |-> IF q = "connectors" \/ Retires(save[m])
                                   THEN Invalidate(q) ELSE query[q]]
      /\ page' = page /\ Render
  BY DEF Reconcile, OnSettled
<1>3. \A q \in Query : query'[q] \in Answer
                       /\ Truthful(q, query'[q], Shows(page', q), Fresh(q)', Touched(q)')
  <2> TAKE q \in Query
  <2>1. query[q] \in Answer
    BY DEF PageInv, PageTypeOK
  <2>2. Shows(page', q) = Shows(page, q) /\ Fresh(q)' = Fresh(q)
    BY <1>2 DEF Fresh
  <2>3. CASE q = "connectors" \/ Retires(save[m])
    <3>1. query'[q] = Invalidate(q)
      BY <1>2, <2>3
    <3> QED BY <2>1, <2>2, <3>1, InvalidateSettles
  <2>4. CASE ~(q = "connectors" \/ Retires(save[m]))
    <3>1. query'[q] = query[q]
      BY <1>2, <2>4
    <3>2. Touched(q) => Touched(q)'
      BY <2>4 DEF Touched, PageInv, PageTypeOK
    <3>3. Truthful(q, query[q], Shows(page, q), Fresh(q), Touched(q)')
      BY <3>2, TruthfulGrows DEF PageInv
    <3> QED BY <2>1, <2>2, <3>1, <3>3
  <2> QED BY <2>3, <2>4
<1>4. query' \in [Query -> Answer]
  BY <1>2, <1>3
<1>5. DraftFits'
  BY <1>2, RenderFits DEF PageInv
<1> QED BY <1>1, <1>2, <1>3, <1>4, <1>5 DEF PageInv, PageTypeOK

LEMMA NavigateKeeps == ASSUME PageInv, NEW p \in Section \cup {"search"}, Navigate(p) PROVE PageInv'
<1>1. /\ page' = p /\ Render /\ UNCHANGED <<settings, save>>
      /\ query' = [q \in Query |-> IF Shows(p, q) /\ ~Shows(page, q) THEN Mount(query[q])
                                   ELSE query[q]]
  BY DEF Navigate
<1>2. \A q \in Query : query'[q] \in Answer
                       /\ Truthful(q, query'[q], Shows(page', q), Fresh(q), Touched(q))
  <2> TAKE q \in Query
  <2>1. query[q] \in Answer /\ Truthful(q, query[q], Shows(page, q), Fresh(q), Touched(q))
    BY DEF PageInv, PageTypeOK
  <2>2. CASE Shows(p, q) /\ ~Shows(page, q)
    <3>1. /\ Mount(query[q]) \in Answer
          /\ Truthful(q, Mount(query[q]), TRUE, Fresh(q), Touched(q))
      BY <2>1, MountKeeps
    <3>2. Shows(page', q) = TRUE
      BY <1>1, <2>2 DEF Shows
    <3> QED BY <1>1, <2>2, <3>1, <3>2
  <2>3. CASE ~(Shows(p, q) /\ ~Shows(page, q))
    <3>1. query'[q] = query[q]
      BY <1>1, <2>3
    <3>2. Shows(page', q) => Shows(page, q)
      BY <1>1, <2>3
    <3> QED BY <2>1, <3>1, <3>2 DEF Truthful
  <2> QED BY <2>2, <2>3
<1>3. query' \in [Query -> Answer]
  BY <1>1, <1>2
<1>4. DraftFits'
  BY <1>1, RenderFits DEF PageInv
<1> QED BY <1>1, <1>2, <1>3, <1>4, QueryStep

\* The steps of one read.
LEMMA ReadKeeps ==
  ASSUME PageInv, NEW q \in Query, ServerReads(q) \/ ReadLands(q) \/ ReadFails(q) PROVE PageInv'
<1> DEFINE a == query[q]
<1>1. /\ a \in Answer /\ query \in [Query -> Answer] /\ settings \in Setting
      /\ page \in Section \cup {"search"}
      /\ \A k \in Query : Truthful(k, query[k], Shows(page, k), Fresh(k), Touched(k))
  BY DEF PageInv, PageTypeOK
<1>2. CASE ServerReads(q)
  <2> DEFINE b == [a EXCEPT !.read = [at |-> "read", copy |-> Fresh(q)]]
  <2>1. query' = [query EXCEPT ![q] = b] /\ UNCHANGED <<settings, save, page, draft>>
    BY <1>2, <1>1 DEF ServerReads
  <2>2. b \in Answer /\ b.data = a.data /\ b.read.at = "read" /\ b.read.copy = Fresh(q)
    BY <1>1, FreshType DEF Answer
  <2> HIDE DEF b
  <2>3. Truthful(q, b, Shows(page, q), Fresh(q), Touched(q))
    BY <2>2 DEF Truthful
  <2>4. /\ query' \in [Query -> Answer] /\ query'["connectors"].data = query["connectors"].data
        /\ \A k \in Query : Truthful(k, query'[k], Shows(page', k), Fresh(k), Touched(k))
    BY <1>1, <2>1, <2>2, <2>3
  <2>5. DraftFits'
    BY <2>1, <2>4 DEF DraftFits, PageInv
  <2> QED BY <1>1, <2>1, <2>4, <2>5, QueryStep
<1>3. CASE ReadLands(q)
  <2> DEFINE b == [a EXCEPT !.data = a.read.copy, !.read = NoRead, !.stale = q = "connectors",
                            !.failed = FALSE]
  <2>1. query' = [query EXCEPT ![q] = b] /\ UNCHANGED <<settings, save, page>> /\ Render
        /\ a.read.at = "read"
    BY <1>3, <1>1 DEF ReadLands
  <2>2. b \in Answer /\ b.data = a.read.copy /\ b.read.at = "idle" /\ b.missed = a.missed
    BY <1>1 DEF Answer, NoRead, Copy
  <2> HIDE DEF b
  <2>3. Truthful(q, b, Shows(page, q), Fresh(q), Touched(q))
    BY <1>1, <2>1, <2>2 DEF Truthful
  <2>4. /\ query' \in [Query -> Answer]
        /\ \A k \in Query : Truthful(k, query'[k], Shows(page', k), Fresh(k), Touched(k))
    BY <1>1, <2>1, <2>2, <2>3
  <2>5. DraftFits'
    BY <2>1, RenderFits DEF PageInv
  <2> QED BY <1>1, <2>1, <2>4, <2>5, QueryStep
<1>4. CASE ReadFails(q)
  <2> DEFINE b == [a EXCEPT !.read = NoRead, !.stale = TRUE, !.failed = TRUE]
  <2>1. query' = [query EXCEPT ![q] = b] /\ UNCHANGED <<settings, save, page, draft>>
    BY <1>4, <1>1 DEF ReadFails
  <2>2. b \in Answer /\ b.data = a.data /\ b.read.at = "idle" /\ b.failed
    BY <1>1 DEF Answer, NoRead, Copy
  <2> HIDE DEF b
  <2>3. Truthful(q, b, Shows(page, q), Fresh(q), Touched(q))
    BY <2>2 DEF Truthful
  <2>4. /\ query' \in [Query -> Answer] /\ query'["connectors"].data = query["connectors"].data
        /\ \A k \in Query : Truthful(k, query'[k], Shows(page', k), Fresh(k), Touched(k))
    BY <1>1, <2>1, <2>2, <2>3
  <2>5. DraftFits'
    BY <2>1, <2>4 DEF DraftFits, PageInv
  <2> QED BY <1>1, <2>1, <2>4, <2>5, QueryStep
<1> QED BY <1>2, <1>3, <1>4

LEMMA FeaturesTurn == ASSUME PageInv, Age \/ Focus PROVE PageInv'
<1> DEFINE a == query["features"]
           b == IF Age THEN [a EXCEPT !.stale = TRUE] ELSE Reading(a)
<1>1. /\ a \in Answer /\ query \in [Query -> Answer] /\ page \in Section \cup {"search"}
      /\ \A k \in Query : Truthful(k, query[k], Shows(page, k), Fresh(k), Touched(k))
  BY DEF PageInv, PageTypeOK
<1>2. query' = [query EXCEPT !["features"] = b] /\ UNCHANGED <<settings, save, page, draft>>
  BY <1>1 DEF Age, Focus
<1>3. /\ b \in Answer /\ (b.stale = TRUE \/ b.read.at = "sent")
      /\ b.read.at = "read" => b.read = a.read /\ b.missed = a.missed
  BY <1>1, ReadingIsSent DEF Answer
<1> HIDE DEF b
<1>4. Truthful("features", b, Shows(page, "features"), Fresh("features"), Touched("features"))
  BY <1>1, <1>3 DEF Truthful
<1>5. /\ query' \in [Query -> Answer] /\ query'["connectors"] = query["connectors"]
      /\ \A k \in Query : Truthful(k, query'[k], Shows(page', k), Fresh(k), Touched(k))
  BY <1>1, <1>2, <1>3, <1>4
<1>6. DraftFits'
  BY <1>2, <1>5 DEF DraftFits, PageInv
<1> QED BY <1>1, <1>2, <1>5, <1>6, QueryStep

LEMMA PickKeeps == ASSUME PageInv, NEW n \in Notifier \cup {Nothing}, PickSender(n) PROVE PageInv'
<1>1. UNCHANGED <<settings, page, query, save>> /\ DraftFits'
  BY DEF PickSender, DraftFits
<1> QED BY <1>1, QueryStep DEF PageInv, PageTypeOK

LEMMA PressesKeep ==
  ASSUME PageInv, NEW m \in PageSave,
         \/ SaveGeneral(m) \/ SaveNarratorr(m) \/ SaveEbooks(m)
         \/ SaveSender(m) \/ AddNotifier(m) \/ EditNotifier(m) \/ DeleteNotifier(m)
  PROVE  PageInv'
<1>1. ASSUME NEW card \in Card, SaveCard(m, card) PROVE PageInv'
  <2>1. PICK value \in Choices(card) : Press(m, card, Nothing, value)
    BY <1>1 DEF SaveCard
  <2>2. value \in Value
    BY DEF Choices, Value
  <2> QED BY <2>1, <2>2, PressKeeps
<1>2. CASE SaveGeneral(m) \/ SaveNarratorr(m) \/ SaveEbooks(m)
  BY <1>1, <1>2 DEF SaveGeneral, SaveNarratorr, SaveEbooks
<1>3. CASE SaveSender(m)
  <2>1. draft \in Notifier \cup {Nothing}
    BY <1>3 DEF SaveSender, PageInv, DraftFits, Eligible, Present
  <2> QED BY <1>3, <2>1, PressKeeps DEF SaveSender, Value
<1>4. CASE AddNotifier(m)
  <2>1. PICK value \in Typed : Press(m, "notifiers", Nothing, value)
    BY <1>4 DEF AddNotifier
  <2> QED BY <2>1, PressKeeps DEF Value
<1>5. CASE EditNotifier(m)
  <2>1. PICK n \in Notifier, value \in Typed : Press(m, "notifiers", n, value)
    BY <1>5 DEF EditNotifier, Eligible, Present
  <2> QED BY <2>1, PressKeeps DEF Value
<1>6. CASE DeleteNotifier(m)
  <2>1. PICK n \in Notifier : Press(m, "notifiers", n, "deleted")
    BY <1>6 DEF DeleteNotifier, Present
  <2> QED BY <2>1, PressKeeps DEF Value
<1> QED BY <1>2, <1>3, <1>4, <1>5, <1>6

LEMMA SettlesKeep == ASSUME PageInv, NEW m \in PageSave, Settle(m) \/ Lose(m) PROVE PageInv'
<1> DEFINE deaf == [save[m] EXCEPT !.heard = FALSE]
<1>1. IdleSave \in SaveRecord /\ SaveFits(IdleSave) /\ IdleSave.at # "done"
  BY DEF IdleSave, SaveRecord, SaveFits, Value
<1>2. save[m].at = "sent" => deaf \in SaveRecord /\ SaveFits(deaf) /\ deaf.at # "done"
  BY DEF PageInv, PageTypeOK, SaveRecord, SaveFits
<1>3. CASE Settle(m)
  <2>1. PICK ok \in BOOLEAN : Reconcile(save[m], ok)
    BY <1>3 DEF Settle
  <2>2. save' = [save EXCEPT ![m] = IdleSave] /\ settings' = settings
    BY <1>3 DEF Settle
  <2> QED BY <1>1, <2>1, <2>2, ReconcileKeeps
<1>4. CASE Lose(m)
  <2>1. /\ Reconcile(save[m], FALSE) /\ settings' = settings
        /\ \/ save' = [save EXCEPT ![m] = IdleSave]
           \/ save[m].at = "sent" /\ save' = [save EXCEPT ![m] = deaf]
    BY <1>4 DEF Lose
  <2>2. CASE save' = [save EXCEPT ![m] = IdleSave]
    BY <1>1, <2>1, <2>2, ReconcileKeeps
  <2>3. CASE save[m].at = "sent" /\ save' = [save EXCEPT ![m] = deaf]
    BY <1>2, <2>1, <2>3, ReconcileKeeps
  <2> QED BY <2>1, <2>2, <2>3
<1> QED BY <1>3, <1>4

LEMMA StepKeeps == PageInv /\ [PageNext]_pageVars => PageInv'
<1> SUFFICES ASSUME PageInv, [PageNext]_pageVars PROVE PageInv'
  OBVIOUS
<1>1. CASE UNCHANGED pageVars
  BY <1>1, QueryStep DEF pageVars, PageInv, PageTypeOK, DraftFits
<1>2. ASSUME NEW p \in Section \cup {"search"}, Navigate(p) PROVE PageInv'
  BY <1>2, NavigateKeeps
<1>3. ASSUME NEW q \in Query, ServerReads(q) \/ ReadLands(q) \/ ReadFails(q) PROVE PageInv'
  BY <1>3, ReadKeeps
<1>4. CASE Age \/ Focus
  BY <1>4, FeaturesTurn
<1>5. ASSUME NEW n \in Notifier \cup {Nothing}, PickSender(n) PROVE PageInv'
  BY <1>5, PickKeeps
<1>6. ASSUME NEW m \in PageSave,
             \/ SaveGeneral(m) \/ SaveNarratorr(m) \/ SaveEbooks(m)
             \/ SaveSender(m) \/ AddNotifier(m) \/ EditNotifier(m) \/ DeleteNotifier(m)
      PROVE  PageInv'
  BY <1>6, PressesKeep
<1>7. ASSUME NEW m \in PageSave, Commit(m) PROVE PageInv'
  BY <1>7, CommitKeeps
<1>8. ASSUME NEW m \in PageSave, Settle(m) \/ Lose(m) PROVE PageInv'
  BY <1>8, SettlesKeep
<1> QED BY <1>1, <1>2, <1>3, <1>4, <1>5, <1>6, <1>7, <1>8 DEF PageNext

-------------------------------------------------------------------------------
(* The theorems                                                              *)

LEMMA PageInvHolds == PageSpec => []PageInv
  BY InitHolds, StepKeeps, PTL DEF PageSpec

LEMMA SettledIsFresh == ASSUME PageInv PROVE PageConverges
<1> SUFFICES ASSUME NEW q \in Query, ~Heard, query[q].read.at = "idle", ~query[q].failed,
                    ~query[q].missed, ~query[q].stale \/ (q = "connectors" /\ Shows(page, q))
             PROVE  query[q].data = Fresh(q)
  BY DEF PageConverges
<1>1. ~Touched(q)
  BY DEF Touched, Heard, PageInv, SaveFits
<1> QED BY <1>1 DEF PageInv, Truthful

\* For any notifiers, settings and number of saves in the air: once no save is
\* pending, the settings on screen and the features still fresh are the server's,
\* whatever order the saves and the reads settled in (useUpdateConnectors,
\* reconcileConnectorWrite).
THEOREM PageShowsTheServer == PageSpec => []PageConverges
  BY PageInvHolds, SettledIsFresh, PTL

LEMMA OfferIsSound == ASSUME PageInv PROVE SenderSaveHonored
<1> DEFINE dto == query["connectors"].data
           body == [IdleSave EXCEPT !.card = "sender", !.id = draft]
<1> SUFFICES ASSUME Mounted(page, dto)
             PROVE  /\ draft \in Eligible(dto) \cup {Nothing}
                    /\ Intent(draft, dto) # "noop" /\ Rejected(body, dto)
                         => draft # dto.sender.id /\ dto.notifiers[draft] = "unparseable"
  BY DEF SenderSaveHonored
<1>1. draft \in Eligible(dto) \cup {Nothing}
  BY DEF PageInv, DraftFits
<1>2. ASSUME Intent(draft, dto) # "noop", Rejected(body, dto)
      PROVE  draft # dto.sender.id /\ dto.notifiers[draft] = "unparseable"
  <2>1. body.card = "sender" /\ body.id = draft
    BY DEF IdleSave
  <2>2. draft # Nothing /\ (draft \in Present(dto) => dto.notifiers[draft] \notin Mailbox)
    BY <1>2, <2>1 DEF Rejected
  <2>3. draft \in Present(dto) /\ dto.notifiers[draft] = "unparseable"
    BY <1>1, <2>2 DEF Eligible
  <2>4. draft = dto.sender.id => Status(dto) = "invalid"
    BY <2>2, <2>3 DEF Status
  <2>5. draft # dto.sender.id
    BY <1>2, <2>2, <2>4 DEF Intent
  <2> QED BY <2>3, <2>5
<1> QED BY <1>1, <1>2

\* Through every refetch the Kindle-sender card holds an eligible mailbox or none, and
\* against the settings on display it offers no save the server would refuse, but for
\* a newly picked notifier whose From is no mailbox (seedKindleDraft,
\* rebaseKindleDraft, kindleSenderIntent, the route's own check).
THEOREM CardOffersWhatIsTaken == PageSpec => []SenderSaveHonored
  BY PageInvHolds, OfferIsSound, PTL
===============================================================================
