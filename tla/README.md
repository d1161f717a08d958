# Formal models of narratorr-requests

narratorr-requests is a Fastify server (SQLite through drizzle, a React client) in front of one
Narratorr instance. Users ask for audiobooks, admins decide, a poller follows each book until it is
available, and the companion ebook can be downloaded or sent to a Kindle. This directory holds TLA+
models of its stateful parts, the TLC configurations that check them, and TLAPS proofs of every
safety property those runs check.

The program is one Node process: nothing runs in parallel, everything interleaves at `await`. The
models therefore use one action for each stretch of code between two awaits, and each in-flight
operation carries the snapshot it read earlier. SQLite statements are atomic. Process memory (locks,
counters, caches, jobs) is lost in a crash, rows are not. A browser tab is a second process, reached
by answers that may be late or lost.

## 1. Inventory

Paths are below `src/src/`.

| Component | State it keeps | Operations | What must be right | Model |
|---|---|---|---|---|
| RequestService, request routes (`server/services/request.service.ts`, `server/routes/requests.ts`, `admin.ts`) | `requests` rows: status, narratorr_book_id, decided_by, available_notified_at | create, decide, handoff, transitionToFailed, applyBook, markFailed, sweep; list and detail read only | one active row per (user, book), settled rows stand, one `request.failed`, no orphan in flight, quota | `RequestLifecycle`, `RequestPromise` |
| StatusPoller (`server/services/status-poller.ts`) | Cron with `protect`, `skipTicks`, `failureStreak` | tick, pollOnce, backoff | stranded rows heal, acquiring rows are polled again, failing passes are spaced | poller process of `RequestLifecycle`; `PollerBackoff` |
| Requester email (`notifications/requester-email.ts`) | none (config read at send time) | send: delivered, skipped, thrown before or after the relay took the message | a marker only after a delivery; duplicates bounded by faults and lost answers | sweep of `RequestLifecycle` |
| Send-to-Kindle (`kindle-send.service.ts`, `.gate.ts`, `.policy.ts`, `.transport.ts`) | `kindle_sends` rows; per-user mutex map; minute deque; outcome slot and timer of each attempt | send, boot sweep | one section per user, caps, lease, honest outcomes, terminal rows stand | `KindleSend`, `SendPromise` |
| Boot (`server/boot.ts`, `index.ts`) | none | sweep, then listen; poller starts last | no request races the global sweep | `Boot` of `KindleSend` |
| Users (`user.service.ts`, `routes/auth.ts`, `routes/admin.ts`) | `users` rows | sign-up, login, OIDC upsert, PATCH user, PATCH me | one row per identity, first admin, own sessions, an admin remains, a chosen contact stands | `Accounts` (identity, role, standing), `Profile` (contact columns) |
| Sessions (`plugins/auth.ts`, `util/session.ts`) | the browser's signed cookie | set, verify, reload the row | a cookie names the holder's own account | `Accounts` |
| OIDC login (`oidc.service.ts`) | pending map (state, verifier, TTL 10 min), discovery promise | buildAuthUrl, handleCallback, sweep | a state is used once, within its TTL, and not lost to another login; a failed discovery is retried | `OidcLogin` |
| Settings (`connector-settings.service.ts`, `routes/settings.ts`, `settings.service.ts`) | settings row, write mutex, live notifier and quota | PUT, notifier CRUD, tests | no write lost, row and live configuration agree | `Settings` |
| Narratorr holder and clients (`narratorr-client-holder.ts`, `narratorr-clients.ts`, `narratorr-client.ts`, `narratorr-stream-client.ts`) | current client pair and generation | swap, calls | nobody uses a retired client's answer as the current one's | `Connection`; the stream in `EbookDownload`; elsewhere classes of answers |
| Feature and companion caches (`feature.service.ts`, `feature-state.ts`, `companion-ebook.service.ts`) | generation-keyed entries with TTLs, one flight per key | resolve, enrich, get | nothing learnt from a retired connection is installed or served; bounded staleness | `Connection` |
| Search (`search.service.ts`) | fixed window of tokens per user, shared result cache | search | calls per window | `Search` |
| Ebook download (`routes/ebooks.ts`) | liveness of the socket, the open upstream reader | guard, open, peek, commit, pipe | the upstream stream is released; a broken body never looks whole | `EbookDownload` |
| Client cache and profile writes (`client/hooks.ts`, `client/pages/notify-prefs.ts`) | react-query entries | updateMe, updateConnectors, login, reads | overlapping writes converge to the row, nothing rolls back | `MeCache`, `SettingsPage` |
| Client ebook sheet (`client/components/ebook-sheet.ts`, `EbookSheet.tsx`) | the download run, its button | download; the send panel | a saved file is the whole book | download in `EbookDownload` |
| Client pages (`App.tsx`, `AccountModal.tsx`, `LoginPage.tsx`, `pages/Settings*.tsx`) | what is mounted, drafts | save, leave, come back | drafts agree with the data they were made from | `MeCache` (shell, login, account), `SettingsPage` (settings) |
| Admin notifications, adapters, registry | none | fire-and-forget fan-out | emission counts (in `RequestLifecycle`, `Accounts`) | not modelled further |
| Config, secrets, error handler, rate limit, helmet, system route, list pages | none, or a vendored plugin's | parsing, formatting, rendering | - | not modelled |

Interactions: handlers and the poller meet in the `requests` table and the Narratorr API; handoff is
called by create, by decide and by the poller's recovery; the sweep is the only sender of the
availability email; sends of one user meet in the lock map and all sends in `kindle_sends`, where
every admission prunes globally but sweeps only its own user; settings writes swap the Narratorr
holder, whose generation retires the caches; an OIDC login and PATCH /api/me write the same contact
columns; a tab's saves and reads meet in one cache entry per query.

## 2. Plan

Done: the request life cycle and its promise, Send-to-Kindle and its promise, the tick guard, accounts,
then the self-scoped columns with their two writers (`Profile` in `OidcLogin`) and their reader
(`MeCache`), settings over the connection and its caches (`Settings` composes `Connection`), search, the
download from narratorr to the saved file, the Settings page; and theorems for every safety property of
every passing run.

Left, in order of what it would add: the ebook sheet's send panel over `KindleSend`; the caps of the
search and companion caches; an abstract promise for the settings (one row, one live configuration) that
`Settings` refines; a type theorem for each module that has none yet.

## 3. Modules and how they correspond to the code

### RequestLifecycle

`req[r]` is a row; rows are numbered in insertion order, which is `requested_at` order. `job[p]` is
where a process stands between two awaits: `dedupe`, `quota`, `insert` are create; `claim` is decide;
`handoff`, `link`, `fail`, `emit` are the handoff and the failed edge, run by handlers and by the
poller; `poll`, `apply` are one acquiring row; `send`, `settle` one owed email. `job[p].seen` is the
status in the row object the code still holds, which is what its `WHERE status = row.status` compares.
`pass` is the poller's loop: the phase, the rows left of the finder's result, and which owed rows want
an email. Constants stand for configuration: `Limit` (None unlimited, 0 blocked), `AutoApprove`,
`BatchSize`.

Abstractions: Narratorr's book statuses before `imported` are one value, and `failed` is handled as
`missing`, because `mapBookStatus` does. Errors are `terminal` or `transient`, which is all the code
asks. Titles, covers, failure texts and DTOs are left out. A row's notification opt-in and contact are
whatever the join saw. User settings are constant. Admin notification of a new request is not modelled.
The environment moves the rolling quota window, crashes, and makes a database call throw before it
writes. A send of the availability email ends in one of four ways (`SendOutcome`): delivered, skipped,
thrown before the relay took the message, or `lost`: accepted, and the rejection is all the sender hears.

### RequestPromise

The abstract specification: the stages a row may pass through, one active row per pair, one
announcement of a failure, one mark. `ImplementsPromise` is the refinement, with the mapping in
`RequestLifecycle`.

### PollerBackoff

The tick guard: `skipTicks`, `failureStreak` and the counts of a pass. Rows are only what they report.
It gates `PollStart` of `RequestLifecycle`; since a backoff skips at most 8 ticks, the fairness assumed
there is kept. `elapsed` is an observer: ticks since the streak began.

### KindleSend

`locks[u]` and `line[e]` are `KeyedUserLock` and its `Mutex` chains; an entry's `waiters` count is the
number of attempts that hold it. The clean-up runs in a `.finally` after the section settled, hence
the separate `Leave` and `Cleanup`. `starts` is the minute deque, as a set of stamps told apart by a number
(the code only counts it and drops its old end), `job[p].slot` the `OutcomeSlot`, `relay`
what really became of a message. Admission is `sweep`, `prune`, `replay`, `accepted`, `active`,
`reserve`, with the one `now` captured at its start; delivery is `reserved`, `open`, `stream`, `ended`,
`write`, `reread`. The five windows of the policy are constants; the only relation assumed is
`Deadline < Lease`. A preflight refusal changes nothing and is left out; failure codes and byte counts
are dropped. A refused or dropped SMTP session, an upstream failure, the size cap and the size mismatch
are all `AttemptFails`. A database fault may strike before or after the statement took effect for the
insert and for the terminal write. `MaxSends` bounds inserts; at the bound an insert is refused.

### SendPromise

The abstract specification: a book is reserved once at a time, its message is handed to the relay at most
once and only against a live reservation, the relay decides, and an outcome is recorded once, never
against what the relay decided or may still decide. No attempts, locks or clocks. `ImplementsPromise` is
the refinement, with the mapping in `KindleSend`.

### Accounts

`users` has identity, role and standing of a row and who proved it; `session[c]` is the row a browser's
cookie names. A sign-up is `lookup`, `create`, `respond`; a lost insert is `reread`. `respond` is the code
after the last await, so a crash before it leaves a row and no cookie. The onRequest hook's reload, the
admin check and the self-guard are one action, the update another; `job[h].by` remembers who sent it. The
first-admin rule is evaluated inside the INSERT, as in the code. `pin` is BOOTSTRAP_ADMIN, fixed for the
life of a deployment; a pin is the set of identities it matches, by subject or display name. A volume may
hold the dev-admin row of an earlier bypass run. Email, thumb and user name, hashing, cookie expiry are
left out.

### Profile, OidcLogin, MeCache

`Profile` is the self-scoped part of one `users` row and the handler of PATCH /api/me: three independent
updates in a fixed order, then a read back; a fault at any await answers an error over what was already
committed. It has no specification of its own.

`OidcLogin` puts the other writer beside it. `pending` is the map of authorizations, `discovery` the
memoised promise, `begin` and `callback` the two routes between their awaits, with the clock they read
on arrival. The upsert finds the user, then updates from that snapshot (`seen`): the two actions
`Find` and `Backfill`, between which `raced` records that somebody else wrote. Token validation is the
library's and either succeeds or fails.

`MeCache` puts a browser tab beside it: the `me` query (data, error, the one read in flight), two
mutations with their pending state, the login form, and which of the three screens `resolveMeShell`
shows. A read without data puts the shell into "loading", which unmounts the login page; reopening the
account modal makes a fresh instance of its mutations, so saves of one field can overlap. Of TanStack
Query only what hooks.ts relies on is modelled: `cancelQueries` drops a read, `invalidateQueries`
reissues one that is mounted, a settled mutation of an unmounted component still runs the callbacks of
its options. The account page sends one field per save, so a request naming several fields does not
occur here; what fails half-way is a committed write whose read-back throws.

### Settings and Connection

`Connection` is the narratorr holder, whose position in `conns` is its generation, and the two caches.
They differ in lifetimes only: `entry[k]` is what is cached, `slot[k]` who opened the flight other
callers may join, `ask[a]` a caller. `from` and `taken` of an answer say which connection really gave it
and when the call was made. `Settings` composes it with the route's mutex: a request is `queued`,
`write` (it holds the row it read), then `swap`, `notify`, `quota`, the reads that rebuild what is live.
`intended` applies the committed requests one after the other and `behind` records what a failed read
left unrefreshed; both only observe. A notifier is its From, a server its URL and key together; the
public URL, which is kept or replaced exactly like the quota, is left out, and so are the cipher, the
rule that an omitted key keeps the stored one, and the refusals about a notifier's type and secrets.

### Search

`consumeToken` and the cache. The clock of a search is read on arrival; searches do not wait for each
other, so an older answer may overwrite a younger one. `spent` observes them, as
the number of tokens a user has spent up to each moment. The window lives in memory: a restart resets it,
which is not modelled, so the bound is one of a single run of the process.

### EbookDownload

`req[r]` is a request to the proxy, from the guard to the end of its body; `head`, `sent`, `tail` are
what it put on the wire, `upstream` the connection to narratorr. `click[c]` is a run of the sheet's
`onDownload`: it reads the answer up to `Limit`, saves it, toasts, or leaves the transfer to the browser,
which is one more request. A body is a number of chunks with or without a declared length. The caller
may leave and either connection may break at any point.

### SettingsPage

The admin's tab: the `connectors` and `features` queries, the sections and their drafts, saves that
outlive the section they were pressed in. What `useUpdateConnectors` does on success and on settling is
`OnSettled`. The server is a row: the page is about what the tab makes of the answers, and assumes that
what is live follows the row (`Settings` checks when it does not). Other admins, garbage collection of
queries, refetch on reconnect and client-side validation are left out; a pending save's disabled button
is not modelled, because opening the section again lifts it.

`MCRequests`, `MCKindle`, `MCAccounts`, `MCOidcLogin`, `MCMeCache`, `MCServer`, `MCSettingsPage` only
supply values and symmetry. `MCAccounts` also says which requests run beside each other
(`crowd`). `MCFrontDoor` puts four components that share nothing side by side, one per
behaviour (`door`), at the size each needs. Definitions preceded by a "Mutant" comment are plausible
bugs of the definition that follows; each property is known to fail with one of them in place.

## 4. Runs

| Run | Bounds | Shows |
|---|---|---|
| RequestsDecide | 1 user with quota 1, 1 book, 2 handlers, poller, 2 rows, 1 fault or lost relay answer | uniqueness, quota overshoot at most handlers - 1, no orphans, one emission, bounded deliveries and only of available rows, settled rows stand, marked only after delivery, refinement of the promise |
| RequestsLive | auto-approval, 2 books, 2 rows, batch 2, 1 fault, fair | approved rows leave, acquiring rows are polled again, available rows are settled |
| KindleWindows | 1 user, 2 books, 1 attempt at a time, clock to 4, 3 rows, 1 fault | honest outcomes, feeding within the lease, day and minute caps, terminal rows stand, refinement of the promise |
| KindleLock | 2 users, 3 attempts, 2 rows, clock to 2, 1 fault | one section per user, one reservation per book, nobody's sweep or prune takes a reservation in use, replay suppression |
| Accounts | 2 people, 1 address, 2 rows; three crowds: 2 logins or sign-ups; 2 OIDC logins and 1 user-management request; 1 OIDC login and 2 such requests | one account per identity, own sessions, first admin; the last admin is removed only by a request whose author was demoted meanwhile |
| AccountsLastAdminDoc | the same | violation: see below |
| OidcLogin | 1 login request, 2 callbacks, 1 edit at a time, 2 addresses, 2 states, clock to 2 past a TTL of 1, 1 fault | a state is redeemed once, within its lifetime, and is there for the login it was made for; a chosen contact stands against every login that was not raced |
| MeCache | 2 saves, 1 credentials post, 1 address, 1 fault | the tab converges to the row, nothing rolls back |
| Server | 2 settings requests, 2 callers, 1 book, 6 bodies over every column, 3 operations, clock to 3, 1 fault | no write lost, what is live follows the row, answers come from the connection asked, staleness is bounded |
| FrontDoor | download: 2 requests, 1 click, bodies to 2 chunks, 2 faults; search: rate 2 in a window of 2, clock to 5; poller: batch 2, cap 8, streak to 5; Kindle: 1 user, 2 attempts, 1 fault; fair | a saved file is whole and no request ends with narratorr connected; less than twice the rate in any window; a failing streak is spaced; a caller who leaves frees the stream; polling goes on; a send is answered unless a send of its user hangs outside |
| SettingsPage | 2 saves, 1 lost answer or failed read, 2 notifiers, 2 mailboxes, 1 public URL | the page converges to the row; the sender card offers no save its own data rules out |
| SettingsPageDoc | 2 saves, nothing lost | violation: see below |

Why the bounds are enough. Every race in the request code is between two holders of a snapshot of one
row: two handlers and the poller give every pair and one triple, two rows let a request be made again
after the first settled, and two books in RequestsLive let the batch hold more than one row. The lock
map's hazard needs a predecessor cleaning up, a successor and a newcomer: three attempts; sweeps and
prunes across users need two users. The window properties need the clock to pass every window once;
constants are small and distinct where the code's are. The Accounts races are between two inserts, an
insert and an update, or two updates. A login races an edit or another login, and a replay needs two callbacks of one
state. In Server two requests are a read-modify-write race, and a swap, a second swap (or a restart) and
a caller fit into three operations and a fault. Two saves and one read are every pair of settling
orders; with one public URL the General card of the Settings page is never dirty, and the other cards
stand for its save, which retires less than theirs. Faults are bounded to one or two where they multiply states. Symmetry is used in runs without
liveness only. What is proved (section 5) holds for all sizes.

Deadlock is checked except in the two runs of SettingsPage, where the admin may stop; the other
models always have a step: people ask again, the poller ticks, or a named step stutters where a bound
is used up. The state spaces run from 15 000 to about
3 million states.

### Fairness

- The poller's steps are weakly fair: Cron keeps ticking, HTTP calls have timeouts. Of the relay this is
  an assumption: its timers bound idle time only, so one that trickles for ever would hold the pass.
- `NarratorrRecovers` and delivery are strongly fair: liveness of an approved row or an owed email can
  only be claimed of an upstream or relay that at some point gives something other than a transient
  error to a call repeated for ever.
- `EverySendAnswered` needs only the attempt's own steps, between two awaits, and its deadline timer to
  be fair. That the relay and the database answer is not guaranteed by anything (kindle-send.policy.ts:27-29
  denies any bound on a section), so it is no fairness but the formula's hypothesis `AwaitsEnd(u)`: if every
  await of that user's sends ends, each of that user's sends ends. The run has one user: no lock is shared
  by two.
  Handlers, people, clocks and faults are never fair.
- `LeaverFreesStream` assumes the proxy's own steps only, never narratorr's or the network's: the body
  has no timeout, so nothing is promised of a stalled download whose caller stays.
- Liveness of RequestsLive holds while the rows in flight fit the batch. Older rows that stay transient
  for ever can fill it; the code notes fair rotation as a follow-up.

### Where the code and its comments disagree

- AccountsLastAdminDoc. The self-guard compares with the admin loaded when the request came in; two
  admins who demote each other at once both pass, against "so the last admin can't be locked out". The
  same happens when the second request was loaded before the first was applied. `LastAdminFallsToRace`
  (run Accounts, and proved) says that this race is the only way.
- SettingsPageDoc. A save is pressed, the admin leaves Settings and returns: the mount reads the
  connectors before the write commits. They leave again, the write settles with no observer, so its
  invalidation only marks the entry stale; coming back adopts the read still in flight, which clears
  the mark. The page shows the old settings with nothing scheduled, against "every save converges on
  one authoritative re-read regardless of settle order" (client/hooks.ts:443-444). SettingsPage shows
  that this, a failed read and a save given up on are the only ways to miss a commit.

Not runs, but met while modelling:

- user.service.ts:208-214 says that a stored address wins over the claim, "so a re-login never clobbers a
  manual edit". An OIDC login finds the row, the owner's PATCH /api/me commits a new address, and the
  login's update writes the old one of its snapshot back. `ContactStands` excludes exactly that window by
  name (`raced`), and says that without such a race it never happens.
- oidc.service.ts:194-195 gives the order in which contact claims are coalesced differently from the
  code, which keeps the stored value first.
- enforceQuota counts and insertRequest inserts with an await between: two creates for different books
  by a user with one slot left both pass. `QuotaOvershootBounded` says how far that can go.
- status-poller.ts:70 backs off only if `checked > 0`, and `checked` counts acquiring rows: a pass
  whose errors all come from stranded approvals is repeated every tick.
- The search cache is not keyed by generation, so results of a previous connection are served for up
  to its TTL; narratorr-client-holder.ts:19 calls the
  generation the only cache key for connection-scoped state.
- request.service.ts:277 lists available among the active statuses; the set it uses
  (shared/schemas/request.ts:147) does not, and the model follows the code.

## 5. Proofs

For all values of the constants that satisfy the named assumptions, TLAPS checks:

| Theorem | Module | Statement |
|---|---|---|
| TypeCorrect | RequestLifecycleProofs | Spec => []TypeOK |
| UniqueActive | RequestLifecycleProofs | Spec => []OneActivePerBook |
| NoOrphans | RequestLifecycleProofs | Spec => []InFlightRowsAreFound |
| SingleEmission | RequestLifecycleProofs | Spec => []EmittedAtMostOnce |
| SettledRowsNeverChange | RequestLifecycleProofs | Spec => SettledStands |
| DeliveriesAreBounded | RequestLifecycleProofs | Spec => []DeliveriesBounded |
| MarksFollowDelivery | RequestLifecycleProofs | Spec => MarkedAfterDelivery |
| QuotaIsNearlyKept | RequestLifecycleProofs | Spec => []QuotaOvershootBounded |
| Refinement | RequestLifecycleProofs | Spec => ImplementsPromise |
| SectionsSerialize | KindleSendProofs | Spec => []OneInSection |
| ReservationsUnique | KindleSendProofs | Spec => []OneReservationPerBook |
| ReservationsStand | KindleSendProofs | Spec => []ReservationStands |
| OutcomesHonest | KindleSendProofs | Spec => []HonestOutcomes |
| FeedingWithinLease | KindleSendProofs | Spec => []NeverFedPastLease |
| OutcomesStand | KindleSendProofs | Spec => OutcomeStands |
| ReplaysSuppressed | KindleSendProofs | Spec => ReplaySuppressed |
| CapsAreKept | KindleSendProofs | Spec => []CapsHold |
| SendRefinement | KindleSendProofs | Spec => ImplementsPromise |
| AccountsTyped | AccountsProofs | Spec => []TypeOK |
| IdentitiesUnique | AccountsProofs | Spec => []OneAccountPerIdentity |
| CookiesAreOwn | AccountsProofs | Spec => []SessionsAreOwn |
| FirstIsAdmin | AccountsProofs | Spec => []FirstAdmin |
| OnlyRacesUnseat | AccountsProofs | Spec => LastAdminFallsToRace |
| LoginTyped | OidcLoginProofs | Spec => []TypeOK |
| StatesSpentOnce | OidcLoginProofs | Spec => []StatesRedeemOnce |
| ContactsStand | OidcLoginProofs | Spec => ContactStands |
| WritesSerialize | SettingsProofs | Spec => []NoWriteLost |
| LiveIsRow | SettingsProofs | Spec => []LiveFollowsRow |
| AnswersAreCurrent | SettingsProofs | Spec => []ServedIsCurrent |
| StalenessIsBounded | SettingsProofs | Spec => []StaleIsBounded |
| SavedFilesAreWhole | FrontDoorProofs | Spec => []SavedIsWhole (download) |
| SearchesAreBounded | FrontDoorProofs | SearchSpec => []WindowBounded |
| StreaksAreSpaced | FrontDoorProofs | BackoffSpec => []StreakIsSpaced, SkipCap >= 8 |
| TabShowsTheRow | MeCacheProofs | Spec => []CacheConverges |
| SavesAreNotRolledBack | MeCacheProofs | Spec => NoRollback |
| PageShowsTheServer | SettingsPageProofs | PageSpec => []PageConverges |
| CardOffersWhatIsTaken | SettingsPageProofs | PageSpec => []SenderSaveHonored |

### Requests

Assumptions: `BoundsAssumption`, `PollerAssumption` (the poller is not a handler, and handlers are finitely
many: requests in flight in one process), `QuotaAssumption`, `NullAssumption`.

`TypeOK` is not inductive: a job at `link` must hold a book's reply, a job at `fail` a
snapshot status, the poller's labels only occur in the poller. `JobShape` says so, and
`TypeInv == TypeOK /\ JobShape` is proved inductive, by groups of actions, with lemmas for the ways a
job changes (`DoneKeepsJobs`, `GotoKeepsJobs`, `AnswerKeepsJobs`, `HandoffKeepsJobs`).

Every step then either leaves the table alone or changes one row along one of six edges, insertion,
decision, link, failure, application, marker or window (`EveryStepIsRowStep`). The claims on the observed
status make each edge start in a non-final status, which gives `SettledRowsNeverChange`, and only the
insertion makes a row active, under the unique index, which gives `UniqueActive`. `RowInv` (approved rows
have no book, acquiring and available ones have, absent rows have nothing) is what makes the finders
complete.

Emission and notification concern what a process is about to do. `DutyInv` ties the labels `emit`, `send`
and `settle`, and the sweep's batch, to the status of the row they name. All actions but a handful start
no such duty (`StepsAreQuietOr`), so the invariant is disturbed in four places only: the failure claim,
the emission, the sweep's read, the delivery and its marker. `SingleEmission` follows, since a row is
claimed failed once.

The refinement uses the same edges: each is a step of the promise or leaves its variables alone
(`EdgeIsPromiseStep`), and only `EmitFailed` changes the emission count.

`DeliverInv` counts the emails: an unmarked row that is not being settled has cost a fault or a lost
answer for each email it got, so the next one is the only one not paid for. It needs that the sweep never
comes back in one pass to a row it has marked or is handling, hence the clauses about the batch.
`QuotaIsNearlyKept` counts the rows in the window and the creates past the check as two finite sets: a
create is admitted only when its count leaves a slot, and at most `Cardinality(Handler) - 1` others are
past the check by then; every later step moves a create into the window or drops an element.

### Send-to-Kindle

Assumptions: the windows are naturals with `Deadline < Lease`, attempts are finitely many.

`KInv == TypeInv /\ MutexInv /\ RowInv`, where `TypeInv` types everything but `starts`. `MutexInv` is
about the lock map alone: the line of an entry names exactly the attempts that took it and have not
left, each once; whoever is inside a section is the head of its line; an entry somebody still holds is
the one a newcomer of that user finds. That last clause is what the `waiters` count is for, and gives
`OneInSection`. `RowInv` says, for each place an attempt can be, what its row, its slot and the relay
agree on (`HoldOK`); being alone in the user's section is what lets the snapshot an admission took still
hold when it inserts. The action properties follow from `RowsEdge`: a step changes one row along an edge
of the table, or several by a sweep or a prune.

`CapsInv` adds the counters. `DayOK` says what the count of accepted sends is still worth at each later
stage of the attempt that read it, `MinuteOK` the same of the starts; both are kept because the other
sends of that user cannot move (`Quiet`) while an attempt holds the section, and other attempts either
stay as they were (`Steady`) or are where they hold no count (`AtRest`). A restart or a fault gives a
user at most `StartCap` starts back, which is how the minute cap is stated.

The refinement of `SendPromise` goes by `RowsEdge` too: every change of the table is one of its actions
(a reservation, an outcome, a sweep, a prune). The two that need the invariant are the hand-over, where
`HoldOK` says the row is started and nothing was handed over before, and the terminal write, where it
says the slot holds an outcome the relay's state deserves.

### Accounts

Assumptions: `AccountsNamesAssumption` and the bounds. `AInv == TypeOK /\ IdentityInv /\ FreshInv /\
SessionsAreOwn /\ ElectedInv /\ JobOK`. `JobOK` ties each stage of a sign-up or login to what the
process has proved so far: at `respond` the row it answers with is its own. `FreshInv` says a row is
reported by the one handler that inserted it, and `ElectedInv` who was created as admin. `OnlyRacesUnseat`
is proved with any number of user-management requests in flight: `AuthorInv` says that a request about to
update names an author who is a real account, and not the row it updates. If that author is still an
admin, one remains after the update. That an admin always remains is false, which is what
AccountsLastAdminDoc shows.

### OIDC login

Assumptions: `OidcBoundsAssumption`, `ProfileAssumption` (None is not an account). `OInv == TypeOK /\
TodoInv /\ StateInv /\ ContactInv`. `StateInv` relates the pending map to the observers: a state redeemed
or lost is not pending, and one that is neither, and is within its lifetime, still is; `wronged` would
also record an exchange past the lifetime, which the check at the redeeming callback's own clock excludes.
`ContactInv` says that a callback that was not raced holds the stored contact, which makes its update a
fill of an empty one or no change.

### Settings and its caches

Assumptions: `SettingsAssumption`, `ConnectionAssumption` (lifetimes are positive, and the capability's
is within its stale window). `SInv` has the mutex (the queue names each request once, whoever has begun
is its head), the row (at `write` the copy is the row, since only the head writes) and what is live (a
part differs from the row only if it is `behind`, or owed by the running section).

`CInv` adds the caches. A waiter's flight is open and of its own key and generation (`WaitInv`); every
flight the live connection has open stands in its slot (`SlotInv`), which is what makes it single; an
entry carries an answer of its generation, stamped no later than one call after it was asked for
(`EntriesInv`). A swap retires every flight, because none can be of the new generation.

### The tab

`CacheInv` is about the `me` query: a copy it shows or is reading has, in every field, the stored value,
unless a save of that field is still awaited (its read will follow) or was given up on (`late`). A read
sent without the session the browser now holds is answered for by the login that set it and has not
settled. The step that matters is the settled save: it drops the read in flight, whose copy may predate
the commit, and starts another. Assumption: `ProfileAssumption`.

### The Settings page

`PageInv` says the same of two queries and many saves: what a query shows, or a read of it carries, is
what the server has unless a committed save has still to invalidate it (`Touched`) or an invalidation could
not reach it (`missed`). A draft is always an eligible mailbox of the data it is shown with (`DraftFits`).
Ids are never reused: the stored sender's was once a notifier's (`IdIsUsed`), so no later notifier can
be taken for it. Assumption: `PageAssumption`, whose last clauses say that of the initial rows.

### The front door

- Download (`EbookAssumption`): `DownloadInv` ties what a request sent to the body upstream still has,
  and the bytes a run of the sheet collected to what its own request sent.
- Search (`SearchAssumption`): `ThrottleInv` keeps, for every pair of moments at most a window apart, the
  number of tokens spent between them below twice the rate, with the open window's tokens at the end.
- Tick guard (`BackoffAssumption`): the theorem needs `SkipCap >= 8`; the code's cap is 8. `BackoffInv`
  says what a streak of each length has behind it plus what it still has to skip.

### Only model-checked

Liveness, which is out of the prover's reach: `ApprovedLeaves`, `AcquiringIsPolled`,
`AvailableIsNotified`, `LeaverFreesStream`, `PollsAgain`, `EverySendAnswered`. There is no induction over
data in the proofs: where something is counted, the invariant itself carries the count.

## 6. Not modelled

Stateless parts (configuration, ciphers, rendering, notification text, HTTP error mapping), migrations,
vendored plugins, the client's list and queue pages, the send panel of the ebook sheet. Two replicas:
the repository's README (line 71) requires a single one, and the models have one process. The staleness
of the Kindle preflight snapshot while queued: the code accepts it and no row depends on it. The caps of
the companion and search caches: an evicted entry is a miss, and what a miss may do is modelled. A
search cache entry that outlives a connection swap: `Search` has one upstream. Several
browser tabs of one user, or several admins on the Settings page: a tab is modelled alone with its row.
