# TLA+ verification of the gateway

This directory holds TLA+ models of the authentication gateway in `src/`, the
TLC configurations that model-check them on small instances, and theorems about
them that TLAPS checks. The gateway answers a reverse proxy's `forward_auth`
question (`GET /verify`: may this browser see this site, and as whom), signs
people in by emailed one-time codes, passkeys and break-glass cards, and lets
administrators manage groups. It is one Go process over one SQLite database;
sessions are signed cookies, so ending one early is the hard part.

`PROJECT.json` is the machine-readable index: the runs and their properties, a
map from every definition to the lines it models, a mutant that breaks each
property, the hazards, the findings and the theorems.

## 1. The system

### Components

| Component | State | Operations | Correct when |
|---|---|---|---|
| Sessions and cutoffs (`session_cutoffs.go`, `session.go`, `handlers.go`) | cookies in browsers; table `session_cutoffs`; the same in memory | `handleVerify`, `renewSession`, `completeLogin`, step-up, sign-out everywhere, `endSessions` and its six callers | an ended session stays ended, through renewals, races and restarts; age counts from the sign-in |
| Group resolution (`handlers.go`, `group_recheck.go`, `route_groups.go`, `authz.go`) | groups inside cookies; `group_members`, `group_includes`; `groupsChangedAt`; confirmations of refusals; route files; policy | renewal, refusal and recheck, the admin door, member and include edits, feed syncs, `markGroupsChanged` | removals and additions are felt by the next request; the admin tier and application roles follow policy and the second step |
| One-time codes (`handlers.go`, `sqlite.go`) | tables `codes`, `code_attempts`; the wrong-code limiter | `handleRequest`, `handleVerifyCode`, `SaveCode`, `EnsureCode`, `ConsumeCode`, `DeleteExpiredCodes` | guesses are bounded; a code signs in once; nobody can lock an owner out or learn who is on the list |
| Group feeds (`group_feeds.go`) | group membership; the row of `group_sync_state` with the change held, accepted and kept; retry sequences in memory | scheduled round, retry, Sync now, Accept, Keep, auto-apply | a large change waits for an administrator, and a decision is applied to the list it was made on; small changes do not add up; failures are reported in the end |
| Break-glass cards (`handlers.go`, `breakglass_targets.go`) | cards with a token, status and target; offer cookies; `hourlyOnce` | make, print, revoke, re-mint; scan, offer, activate, grant; notices | an offer is good only for the token it was made from; every grant is audited first; refusals are told once an hour |
| Passkeys (`passkeys.go`) | passkey rows; used challenges in the database, their count in memory | registration, sign-in, removal by owner or administrator | a challenge is used once; only an emailed or authenticator code adds a passkey |
| Admin codes (`passkeys.go`, `totp_replay.go`) | attempt window in the database; replay guard in memory | `checkAdminCode` | parallel wrong codes stay under the lockout; a code is accepted once |
| Rate limiter (`ratelimit.go`) | token buckets | `Allow`, `Refund`, `gc` | dropping buckets never takes or gives anything of note |
| Send limits, mail slots (`handlers.go`) | four limiters; two pools of 16 slots | `allowSend`, `sendCode`, `sendNotice` | a refused request spends nothing of the owner's; a recorded sign-in lets its device past the ceilings |
| Access audit (`access_audit.go`) | the hour's set; audit tables | `record`, prune | no visit is hidden by a mark whose write failed |
| Members API (`members_api.go`) | `member_reads` | `handleGroupMembers` | no record, no answer |
| Code alerts (`code_alerts.go`) | day's keys and count | `due`, `allow`, `alertAboutCodes` | the administrators hear of an address at its limit, or that alerts have stopped |
| Policy and includes (`authz.go`, `sqlite.go`) | none | `LoginRole`, `SessionRole`, closure | closure is upward only and has no cycle |
| Admin pages | none of their own | forms over the store | each change is announced |
| Storage, configuration, process (`sqlite.go`, `config.go`, `main.go`, `lock.go`) | the database, a file lock | transactions; start and stop | one gateway for each database |
| Encryption, images, address parsing | none | pure | - |

### Interactions

`/verify` calls `readSession`, which asks the cutoffs held in memory; everything
that ends sessions writes the database and then that memory. Everything that
changes membership (admin pages and feeds) calls `markGroupsChanged`, which
forgets the confirmations, writes the database and then memory; `/verify`
compares the mark with the second the cookie was issued in. A sign-in with a
code passes through `/request` and `/verify-code`, then `completeLogin` issues
the cookie. Requests run as goroutines at the same time, with no lock from one
access to the next; each reads the clock once, at its start, and that reading
is old by the time it is used. The process may stop between any two steps:
memory is then rebuilt from the database, and browsers keep their cookies.

### What is hard

Sessions are values in other people's browsers, so a renewal racing an end
leaves a *newer* cookie than the end it should obey. Times are whole seconds
and are taken before the change they date. An announcement is three writes, any
of which can fail or be cut off. The rate limits and code checks are check, act
and refund in separate steps. And whatever is done for a permitted address must
be done, observably, for one that is not. The hazards in `PROJECT.json` list
each at its line, with the properties that would catch it.

## 2. What is modelled

Handlers are records in `req`, one for each `p \in Proc`: `pc` names the next
access to shared state, and the other fields hold the handler's local
variables, such as `now`, the time it captured. One action is one access (a
query, a transaction, a look at memory under its mutex, a cookie written), so
every interleaving of handlers at those points is explored. A database query is
atomic (SQLite, single statement or transaction) and may fail wherever the code
has an error path. `Restart` drops every handler and rebuilds memory as the
start-up code does. Variables marked *history* exist for the properties only;
no action's guard reads them, except for the named bounds.

A browser may present any cookie ever issued, at any time: `VerifyBegin(p, s)`
ranges over all of `cookies`.

### `SessionEnds` - sessions and their cutoffs

| TLA+ | Code |
|---|---|
| `dbEnded`, `ended` | table `session_cutoffs`; `sessionCutoffs.ended` |
| `cookies` | session cookies in browsers (`session.Identity`: `iat`, `auth`, `pk`, `card`, `kind`) |
| `passkeys`, `cards` | passkey rows; each card's code generation and status |
| `Renewed`, `SessionEnded`, `PasskeyStillValid` | `renewSessionWith` and its grant, `sessionEnded`, `passkeyStillValid` |
| `VerifyBegin` ... `VerifyAnswer` | `handleVerify`, cut at each access |
| `LoginBegin`, `PasskeyLogin*`, `Grant*`, `Issue` | `completeLogin`, `handlePasskeyLogin`, `grantBreakGlass` |
| `StepUp*` | `handleTOTP` |
| `SignOut*`, `AdminEndSessions`, `RemovePasskey`, `ListPasskeys` and `DeletePasskeys`, `Revoke`, `Remint` | the callers of `endSessions` |
| `EndArg`, `EndSessionsBefore`, `EndSessionsFails`, `EndInMemory` | `endSessions`: its time argument, the database, an error, memory |

Two fields of a session are history: `born`, when the person really signed in,
and `gen`, the card's code generation. Why a session's groups are stale is left
to `SessionGroups`; here any reason may hold.

`SessionTable` is the abstract promise: a table of sessions from which ending
deletes rows for good, admitting only on a row still there. `SessionEnds`
implements it (`ImplementsTable`): a row is the sign-in behind a cookie that
the cutoffs do not refuse.

### `SessionGroups` - what groups a session is answered with

`GroupsForEmail` is the upward closure of includes (`Up`, the least set closed under
them, which is what the recursive query stops at); `ComputeGroups` composes the
tier and the two filters (`withoutAppRolesForOutsider`,
`withoutAdminPairedGroups`). `VerifyRead` has the four reasons to renew before
deciding, `Decide`, `Recheck` and `Confirm` the refusal path and its cache with
the generation check. `AddMember`, `RemoveMember`, `DeleteGroup`, `AddInclude`
(with its check and undo) and `SyncBegin`/`SyncApply` change membership;
`MarkArg`, `ForgetAll`, `MarkDB`, `MarkMemory` announce it. `RoutesChange`
rewrites the route files and `Restart` may bring another policy. Expiry, cutoffs
and removed passkeys appear as "the session may end at any read". A feed here
has no hold: any change it applies is applied at once.

### `OneTimeCodes` and `TwinCodes` - codes sent by email

`OneTimeCodes` has the rows of one address (`code`, `attempts`), the wrong-code
tokens of each client address, and the two handlers. A code is its place in a
ledger of all codes ever stored; a guess is one of those places, or 0, which
matches none. `Choose` takes the send limits and the mail slots as a free
choice. `TwinCodes` instantiates the module twice and runs the same requests and
the same blind guesses against two addresses in lockstep, with policies that
differ.

### `GroupFeed` - one group filled from an endpoint

One sync at a time holds `feedSyncer.mu` (`sync`), cut where it waits: the
answer, the change of members, the record, and the clearing of the retry and the
alert after it. The scheduled round, the goroutine of each retry sequence and the
administrators' requests wait for the lock. A list of addresses stands for its
hash. The time a change has been held is kept as a countdown (`row.due`), so that
the clock need not be bounded. `faults` bounds failed database calls and
restarts together. The endpoint may change its answer at any step.

### `BreakGlass` - from the scan of a card to the grant

A card is its row with a generation for its token; `printed` and `pages` say
which tokens people hold. `HandleBreakGlass` (the button of a scan) and
`HandleActivate` (the button of the denial page, with an offer cookie) begin
requests whose steps are the reads and writes of `activeCard`,
`refuseRetargetedCard`, `grantBreakGlass` and `hourlyOnce.due`. Routes files are
external and change at will.

### `AdminCode` and `Passkeys`

`AdminCode` is `checkAdminCode` alone: reserve, compare, clear, with the replay
guard in memory; a code is named by its step. `Passkeys` extends it with the two
handlers that ask for a code, the challenges and their guard, who may add a
passkey and of which grade, sign-in by passkey, and restarts that change the
policy and turn TOTP on or off. Anyone may post a minted challenge again at any
time; it carries whose it is and until when it lasts.

### `Clock`, `RateLimiter`, `AccessAudit` and `SendLimits`

`RateLimiter` is the package with its map, in whole units: an event is worth
`Window` units and a tick gains `Count`. Beside the map runs `fair`, the level
each key would have if no bucket were dropped. `AccessAudit` is the access log,
its pruning, the members API, and the log of sign-ins: `completeLogin` issues the
session, and then `recordAuth` reads the clock and adds a row, or fails to, and the
sign-in stands (`entering`, `logins`; the history `signedIn` has every sign-in that
went through and whether it was recorded). `SendLimits` extends both: `allowSend`
one limiter at a time, the mail and notice slots, and the code alerts. It composes
with `AccessAudit` in the rows that make a device known, which may come out of
order or never and which prunings remove. The three limiters by address are levels only; the map is that of the
limiter by IP.

## 3. Runs

Each MC module adds a variable `cast` to its component: the part of the
instance one behaviour uses (which keys, handlers, client addresses, policies)
and how far its counters go. TLC explores every cast in one run, without
multiplying parts that never meet, such as the cutoffs of people and of cards.
`MCNext` takes `Next`'s steps for the members of the cast. "Ticks" are the
seconds the clock may advance; lifetimes and windows are 1 to 3 ticks, so that
each opens, ends on a boundary and closes within the run.

| Run | Checks | Casts and bounds |
|---|---|---|
| `ends` | `AckedEndsHold`, `MaxAgeHolds`, `RemovedPasskeyWindow`, `RetiredCardsHold`, `ImplementsTable` | 2 handlers; one person (2 cookies and 3 ticks, 3 cookies and 1 tick); one person with cookies of earlier builds; a person's passkey (2 cookies, 2 ticks); a card of 2 generations (3 cookies, 2 ticks) |
| `groups` | `RemovalReachesAnswers`, `AdditionReachesAnswers`, `TierFollowsPolicy`, `AdminRolesNeedStep`, `GuestsHoldNoAppRole` | a hand-managed group, 2 cookies, with 2 handlers and one change or with one handler and two; or 1 handler, a feed group that may be included in the other, 1 cookie, 2 changes; or an administrator under 3 policies (4 cookies, 2 ticks) and a reserved name in the group table; or a stranger and 3 states of the route files |
| `groups_feed` | `RemovedGroupWindow`: what is left when an announcement is late, lost or never made | 2 handlers and a feed, 2 cookies, 2 changes; or 1 handler and includes whose check refuses, fails or cannot be undone, 1 cookie, 1 change; 1 tick, `RenewAfter` 0 |
| `groups_late` | **violation** of `RemovalReachesAnswers` | 2 handlers and a feed |
| `codes` | `GuessesBounded`, `GuessesCharged`, `FillersBlockNobody`, `CodesUsedOnce`, `ReplacedAfterCooldown` | caps of 2 and 3 wrong guesses; 1 handler and 2 client addresses until the caps are spent; 1 handler and 2 codes to expiry, sweep and resend; or 2 handlers and 1 address: to the cooldown, to expiry, or with refills and restarts |
| `codes_twins` | `Indistinguishable` | 2 email addresses asked and guessed at alike, 2 codes |
| `codes_reset` | **violation** of `NoResetInCooldown` | 2 handlers, 2 codes |
| `feeds` | `NoCreep`, `WaitsAreAlerted`, `LargeChangesWait`, `AcceptedAsShown`, `SequencesKeepApart`, and under fairness `DownIsReported`, `RetriesEnd`, `SteadyChangeApplied` | 4 addresses and lists that swap, grow and shrink, thresholds of 1, a wait of 2 ticks, 2 retry sequences, one administrator; or faults and slow syncs; or an endpoint that comes and goes; or every answer with restarts |
| `cards` | `RetiredCodesGrantNothing`, `RefusedTargetsGrantNothing`, `AnsweredOffersStaySpent`, `RefusalsAreTold` | a card, a browser and 2 requests: offers that expire with 2 tokens; or changing route files; or scans of a refused card over two hours; restarts |
| `passkeys` | `WrongCodesBounded`, `CodesPassOnce`, `ChallengesAnsweredOnce`, `PasskeysAreProven`, `AdminGradeIsEarned` | 2 requests, 2 people of whom one has an authenticator, 3 challenges with room for 2, one wrong code in a window, 4 ticks, a restart with another policy |
| `limits` | `GainsAreLost`, `RefusedSpendNothing`, `KnownDevicesPass`, `AlertsTold`, `SeenIsRecorded`, `ReadsAreRecorded` | 2 requests flooding one address from 2 IPs, or 2 addresses from one; alerts over three days of 2 ticks with a cap of one; 2 visits, failed writes and prunings; 2 sign-ins of a device recorded in any order or not at all, a request of it, restarts and prunings (there the steps of limits, slots and visits, which share nothing with sign-ins, come first); reads by an app as prunings go on; a map that is large at 2 keys |
| `limits_gc` | **violation** of `DroppingChangesNothing` | 2 keys and a map that is large at 2 |

Each passing run ends within about three minutes, each violation in
seconds. Type invariants and a few further properties (`NeverStricter`,
`EntryHasOwner`, `GuardBounded`, `GrantsFollowTheirCode`, `GrantsAreRecorded`,
`NoticesKeepApart`) are in no run because they are proved.

**What they show.** `ends`: once `endSessions` has returned, nothing brings an
ended session back, although cookies are renewed and stepped up meanwhile, two
ends may be recorded out of order, and a stop may fall anywhere; and the
cookies with their cutoffs behave as a table of rows would. `groups`: an
announced removal or addition is felt by the next request, and the admin tier and
application roles a site sees follow the policy and the second step, not the age
of a cookie. `groups_feed`: when the announcement goes wrong the next scheduled
renewal still ends it. `codes`: the caps on
guesses hold over every interleaving, and an owner is left without a new code
only by a code minted less than a cooldown ago. `codes_twins`: no answer and no
number of steps tells a permitted address from another. `feeds`: an
administrator always has the whole wait, less what a sync takes, to see the very
list that will be applied, no series of lost records or small changes gets
around that, and the machinery of retries neither revives an old sequence nor
blocks a group for good. `cards`: what was true when a card was scanned is true
again when it grants, or it grants nothing. `passkeys`: codes and challenges are
good once, and no passkey is added, or stands in for the second step, without the
code that earns it. `limits`: refusals spend nothing, dropped buckets take
nothing from anyone, what must be told or recorded is, through failed writes,
full slots and prunings, and a request past the ceilings passes for a recorded
sign-in of its device and for nothing else. What the run also shows is that an owner
who did sign in from a device may be refused there: the record of a sign-in is
best-effort (`handlers.go:865`), and so is the known-device rule of
`handlers.go:701`, which speaks of every successful sign-in. `KnownDevicesPass` says
exactly which sign-ins are left out. An earlier one that was recorded still counts.

**Why the bounds are enough.** The races here are between two handlers (a
reader and an ender, a reader and a changer, two submitters); the code has no
barrier or quorum that would need a third. A cutoff or a mark compares two
seconds, so three clock values give before, equal and after. `MaxCookies`
bounds *different* cookies; two or three allow a sign-in, its renewal and a
renewal of that, and where there is one a renewal that does not fit the bound is
the one the browser refuses, which the code answers from all the same. `MaxGen` is
the membership changes (or card codes) between two restarts: two are needed to
record them out of order. Restarts are unbounded
(`codes` bounds them with the tokens granted, which a restart renews). The
cutoffs of different keys meet only in `Covered`; the proofs cover any mixture.
Symmetry is used over handlers and client addresses, which no definition
distinguishes, and the casts are closed under it.

Feeds share nothing but the lock, so one is enough; two retry sequences are the
fewest that can be confused. Thresholds, caps and windows of 1 or 2 put every
comparison at, below and above its bound. Deadlock is checked in the runs of
sessions, groups, codes and feeds; in the others the bounds on the clock and on
restarts stop the instance, though not the program (`CHECK_DEADLOCK FALSE`).

**Fairness.** Only `GroupFeed` has liveness. Its `Fairness` is weak for the
steps of the sync that holds the lock, for the scheduled round, for the timers of
each retry sequence and for the clock: these are goroutines and timers of one
process, whose calls have deadlines. It is strong for each taker of the lock,
because others may take it in between again and again: Go's mutex hands a waiter
the lock after a millisecond (its starvation mode). Nothing is assumed of
administrators, of the endpoint, or of faults, which `MaxFaults` bounds. All
other properties are safety properties, and hold whatever the scheduler does.

### Findings

Three runs end in a violation of what a comment says. Each is narrow, and each
closes by itself.

- `groups_late`: a feed sync dates its announcement with the time from before
  its fetch (`group_feeds.go:306`, used at `:455`), so a session renewed during
  the fetch looks newer than the change and keeps a removed group until its next
  scheduled renewal; `session_cutoffs.go:25-28` says it takes effect at once.
  `groups_feed` shows that the next renewal does end it.
- `codes_reset`: two requests for one address at once can both find no recent
  code (`handlers.go:643`) and both store one, the second resetting the count of
  wrong guesses inside the cooldown; `handlers.go:666-667` says a re-request
  cannot. `codes` shows that the request must have begun before the code it
  replaces was stored, and that each *code* keeps its caps.
- `limits_gc`: `gc` may drop the very bucket whose insertion called it
  (`ratelimit.go:73`), and the caller then charges a bucket that is not in the map
  any more; `ratelimit.go:84-85` says that dropping a full bucket changes no
  decision. One event is forgotten, at most once a second and only with 1000 keys
  in the map. `limits` and the proofs show that this is all: nobody else gains by
  it, and nobody ever loses.

A further window of the kind of `groups_late` has no run of its own: an include
that is checked, refused and undone announces nothing
(`admin_group_lists.go:203-212`), so whoever's groups were worked out in between
keeps the group. `groups` therefore sets `ChecksFail` to `FALSE`, and
`groups_feed`, with `TRUE`, bounds the window.

## 4. Proofs

The theorems hold for every value of the constants that satisfies the named
assumptions of the modules, which TLC evaluates in every run: any number of
handlers, people, cards, browsers, keys and lists, any lifetimes, limits and
windows. Bounds of the models (clocks, restarts, generations) are constants of
that kind too. Each argument is an inductive invariant, first checked by TLC or
a strengthening of what a run checks; safety properties of single steps follow
from it and the action.

| Module | Theorems | The inductive invariant, and why it is needed |
|---|---|---|
| `SessionEndsProofs` | `TypeCorrect`, `EndsInvariant`, `EndedSessionsStayEnded`, `SessionsAge`, `RemovedPasskeysAreBrief` (`RemovedPasskeyWindow`), `RetiredCardsStayOut` (`RetiredCardsHold`), `CookiesImplementTable` (`ImplementsTable`) | `EndsInv`: types; no cookie and no handler claims a sign-in later than the true one (a renewal that races an end moves `iat`, never `auth`); every promised cutoff is in the database *and* in memory, for the database half is what a restart needs; a handler about to write memory has its cutoff in the database already. `WindowInv`: every session a passkey began dates from before the passkey was removed, because sign-ins and renewals look it up first. `RetireInv`: a code that is dead is never live again, so a session of it was there when the end of its sessions took its time. `DatedInv` and `DatabaseAhead`, for the refinement: the sign-in time in a cookie is the true one or unknown, a handler answers with a session it was given in a cookie, and memory is never ahead of what a restart loads |
| `OneTimeCodesProofs` | `CodesTypeCorrect`, `GuessesAreBounded` (`GuessesBounded`), `CodesAreUsedOnce` (`CodesUsedOnce`), `FillersAreHarmless` (`FillersBlockNobody`), `CodesOutlastCooldown` (`ReplacedAfterCooldown`), `EveryGuessIsCharged` (`GuessesCharged`) | `CodesInv`: the row is the last code of the ledger or is gone, and its total is that code's count of wrong guesses (`RowInv`), so replacing or deleting it never revives an earlier one. What a request saw of the row goes stale; what stays true of every later row is said of codes from before the request began only (`HandOK`), since the ones stored after it are those it may rightly replace or miss. `ChargedInv`: the wrong guesses from an address (`WrongGuesses`, a set with a member for each), the handlers that hold a token of it and the tokens left come to no more than it was given: a token between its charge and its guess or refund is with a handler |
| `TwinCodesProofs` | `NobodyIsToldApart` (`Indistinguishable`) | `TwinInv`: each side keeps `CodesInv` (the theorems of `OneTimeCodesProofs`, instantiated once for each side); the sides agree in everything but the policy and how each code was delivered (`Same`); no guess knows a code (`Blind`). `CodesInv` is needed for the row that is gone: only then does a guess that names no code match nothing on either side, so that what the policy permits is never asked |
| `GroupFeedProofs` | `FeedTypeCorrect`, `NobodyCreeps`, `EveryWaitIsAnnounced`, `LargeChangesAreShown`, `AcceptanceIsExact`, `SequencesAreApart`, `EveryEntryHasItsOwner` | `FeedInv`: the sync that holds the lock has the row to itself, so what it read (`LockInv`) and what it is about to record (`RecordInv`) are related to the row that is there; a wait that is on was shown for as long as it counted (`RowInv`); an entry of the retry table has its goroutine (`RetriesInv`) |
| `BreakGlassProofs` | `CardsTypeCorrect`, `GrantsKeepToTheirCode`, `RetiredCodesAreDead`, `RefusedTargetsAreDead`, `OffersAreSpent`, `GrantsHaveTheirRow`, `NoRefusalIsSilent`, `NoticesAreApart` | `BreakGlassInv`: a token that anyone holds was made, and a token that is not live is never live again, because a new one has a later generation; so a request that finds its token live began when it was (`RequestsInv`). What `hourlyOnce` remembers is the latest of the notices sent or about to be (`NoticesInv`); with requests shorter than an hour a time that is not due is less than an hour from it, in either direction |
| `PasskeysProofs` | `PasskeysTypeCorrect`, `WrongCodesStayBounded`, `CodesAreSpent`, `ChallengesAreSpent`, `EveryPasskeyIsProven`, `EveryAdminGradeIsEarned`, `GuardKeepsItsBound` | `PasskeysInv`: what a session, a request or a challenge cookie says is what history proves (`SessionOK`, `HandOK`, `CookieOK`): a sign-in by emailed code at the time it carries, a second step no older than it says, an answered challenge whose entry is still kept while it lasts. `CodeInv`, for the part that is `AdminCode`: the wrong codes compared, with the attempts reserved, are bounded by limit times windows and passes; a code that was accepted is remembered while it may still be valid, or was accepted before a restart. `GuardInv` relates the table of used challenges to the count in memory since the last sweep |
| `SendLimitsProofs` | `LevelsStayClose`, `LimiterTypeCorrect`, `NobodyLoses` (`NeverStricter`), `NobodyGainsByOthers` and `SweepsGainOthersNothing` (`GainsAreLost`), `LimitsTypeCorrect`, `RefusalsSpendNothing` (`RefusedSpendNothing`), `DevicesStayKnown` (`KnownDevicesPass`), `AdministratorsAreTold` (`AlertsTold`), `VisitsAreRecorded` (`SeenIsRecorded`), `ReadsLeaveRecords` (`ReadsAreRecorded`) | `LimiterInv`: beside the map, each key has the level it would have if nothing were dropped; the two differ by no more than the events it is ahead, and those by no more than its own calls whose sweep dropped its bucket. A level that is full hides how far the two are apart, so the invariant relates them as inequalities and not as a sum. `SpentInv`: a ceiling or a cap is short of what it should be worth by at most the tokens that requests under way hold and may give back, counted as sets of requests. `AlertInv`: an alert that became due was told, or the request that found it due is still on its way, and what was refused by the day's cap leaves a request that owes the notice that alerts have stopped. `AuditInv` and `SeenInv`: whatever is missing from a table is older than its property asks for, because a pruning takes its time before it deletes and that time is at most a request old; a mark whose row is missing has the visit that will write it or take the mark back. `LoginsKept`, a part of `AuditInv`: the rows of sign-ins are those of recorded sign-ins, less what a pruning took |
| `SessionGroupsProofs` | `GroupsTypeCorrect`, `TierFollows` (`TierFollowsPolicy`), `PairedRolesNeedStep` (`AdminRolesNeedStep`), `OutsidersHoldNoRole` (`GuestsHoldNoAppRole`), `RemovedGroupsExpire` (`RemovedGroupWindow`), `AdditionsReach` (`AdditionReachesAnswers`), `RemovalsReach` (`RemovalReachesAnswers`, under `HandsOnly`) | `BaseInv`: types, the person each handler serves, and the order of the times a handler carries. `DoorInv`: what a handler is about to answer with fits the policy and the route files, or is from before they last changed. `HeldInv`: each group in a cookie is held, or was lost no earlier than the cookie was issued: groups are read after the time that becomes its `iat` was taken, so a renewal period later a renewal has come due. `AddInv`: a group a person holds is in the session worked out since, or the change that gave it waits to be announced; a refusal remembered under the current generation left out nothing that was settled. `RemInv`: each loss is marked in memory, and in the database (which a restart needs), or the handler that made it is about to; losses and marks may come out of order, so it speaks of the last loss of each group |

Assumptions worth naming. `ConstantsAssumption` of `SessionEnds`: the kinds of
key are disjoint, lifetimes are at most `MaxAge`, and the clock starts more than
`MaxAge + 1` after the epoch, so that a sign-in time of 0 or 1 is always too old
(and not after the bound on the clock);
`OutstandingAssumption` of `SessionEnds`: cookies of earlier builds carry no sign-in
time; that of `SessionGroups`: what an earlier run left in browsers is due for
renewal, or is a card, or of a kind this build does not know.
`FeedAssumption`: a sync is shorter than the wait. `BreakGlassAssumption`: a
request is shorter than an hour (`main.go` sets the server's timeouts to
seconds). `AdminCodeAssumption`: a code is remembered for at least as long as it
is valid (`totp_replay.go`). `TwinAssumption`: the limits of the two addresses are
those `CodesAssumption` admits. `SendLimitsAssumption`: requests are finitely many at once (a count of tokens held
would mean nothing otherwise).

Two theorems have a hypothesis of their own, and both are about the code:

- `VisitsAreRecorded` assumes `KeepsAnHour`: audit rows are kept for at least an hour
  and the length of a request, or for ever. A shorter retention would let a pruning
  take the row of a visit whose mark is still on. `AUDIT_RETENTION` is a year unless
  it is set, and nothing forbids to set it to a minute.
- `RemovalsReach` assumes `HandsOnly`: no feed fills a group, and no include is undone.
  With either the property is false, as `groups_late` shows for feeds and section 3 for
  includes; `RemovedGroupsExpire`, which has no hypothesis, is what is left then.

Every safety property of the passing runs is stated by a theorem. Beyond this
prover, and therefore TLC's for good: liveness under fairness and `ENABLED`
(`DownIsReported`, `RetriesEnd`, `SteadyChangeApplied`), and induction over data.
No definition is `RECURSIVE`, and two are put so that they can be reasoned about
without induction: the closure `Up` is a least closed set, and the guesses of
`GuessesCharged` are a set that is counted and not a sum.

## 5. Not modelled, and why

Without states that interleave:

- Cookie codec, HMAC and key rotation, CSRF tokens, encryption at rest, QR and
  PDF drawing, mail bodies, HTML: pure functions of bytes. A cookie the model
  admits is one the codec accepted.
- Reading the environment and the policy file: a (re)start takes any policy and
  route file of a small set. What `effectiveSettings` falls back to when a saved
  setting cannot be used is part of that.
- Two gateways on one database: `lock.go` takes an exclusive file lock.
- Schema migrations, which run before anything is served.
- Clocks that run backwards: a handler's captured time may be arbitrarily old
  (a request's, less than its timeout), but the clock itself only advances.

Abstracted, where a reader may expect more:

- The sign counter of a passkey: two logins at once may both store theirs
  (`TouchPasskey`, `passkeys.go:654`), and WebAuthn verification is a free choice.
- Making and replacing an administrator's authenticator secret; a challenge that
  was confirmed with the old secret lasts until it expires.
- A challenge first answered while the request that could have minted it might
  still be under way (`quick`) is outside `ChallengesAnsweredOnce`: its entry
  lapses with the cookie, which is read before the guard takes its own clock, so a
  second post that straddles that moment may be taken once more.
- `mailSaturated` is asked before a slot is taken (`handlers.go:789`), so a stored
  code may be left unsent when the last slot goes in between; `OneTimeCodes`
  leaves delivery free. An alert that finds no slot is lost for the day
  (`code_alerts.go:115`), as `AlertsTold` says.
- A route file that cannot be read refuses no target of a card; signing out does
  not clear an offer cookie. `BreakGlass` has both as the code does.
- Of the four send limiters only the one by IP has the map of `RateLimiter`; the
  others are levels. One administrator stands for all who are alerted. The limits
  by address of scans, of members' reads and of requests are left out.
- `AccessAudit` assumes a retention of at least an hour. A retention shorter than
  the known-device window shortens that window; the last read in a row of
  `member_reads` may go back, when two reads are recorded out of order.
- `recordAuth` writes rows for other events of a sign-in as well; only `login`/`ok`,
  which `HasRecentLogin` reads, is modelled. A sign-in that a restart cuts short
  has neither row nor history: the row and the answer are one step. The last
  statement of a pruning (`admin_events`, `sqlite.go:1388`) is left out: no other
  modelled step touches that table.
- The claim about kept changes is for the one hash the row remembers: a change
  kept before another one is kept is forgotten. The notice that more alerts were
  held back is told within two days.
- `SessionGroups.AddMember` may add anybody, a superset of what the pages allow;
  its members disappear one by one, not by the list pages.

Left out altogether: labels and branding of cards, the lists and reports of the
admin pages (they change nothing), wildcard networks.

## 6. Plan

Done, in this order: `SessionTable`, `SessionEnds`, `SessionGroups`,
`OneTimeCodes`, `TwinCodes`, `GroupFeed`, `BreakGlass`, `AdminCode`, `Passkeys`,
`RateLimiter`, `AccessAudit`, `SendLimits`, and the eight proof modules.

To come:

1. Theorems: more of what single steps promise (action properties of `SessionGroups`
   and `Passkeys`), and a table of memberships that `SessionGroups` implements, as
   `SessionEnds` implements `SessionTable`.
2. Making, replacing and removing authenticator secrets in `AdminCode`.
3. `Authz`: the policy file, wildcards and closure against reference definitions.
4. Several feeds at once, with the composition of `GroupFeed` and the
   announcement of `SessionGroups`.
