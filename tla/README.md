# TLA+ verification of the Multi-VPN server manager

The panel is one Node process (Express, Sequelize over SQLite/MySQL, node-cron,
SSH to the VPN boxes).  Nothing in it runs in parallel, yet every `await` hands
the event loop to other requests and cron passes, and the code holds model
instances across those awaits.  What goes wrong here is therefore the order of
steps of several requests, a row or an instance that is stale when it is used,
and a crash or failing command between two writes.  The models take one step per
`await` and keep in the state what a request has read so far.

Paths below are those of the repository (`src/services/...` is found under
`src/src/services/...` next to this directory).

## 1. Inventory

| Component | State | Operations | Hard behaviour | What makes it correct |
|---|---|---|---|---|
| Signed request verification (`mobileSecurityService.verifySignedRequest`, nonce purge in `connectionLogService`) | `ApiNonce` rows of purpose `request` | verify, hourly purge | retries of one request at once; purge against a slow verification; clock offset | a signed request runs its route at most once |
| Device sessions and attestation (`mobileSecurityService`) | `ApiNonce` challenges, `ApiDevice`, `ApiSession` | `createChallenge`, `exchangeToken`, `refreshToken`, `createSession` | several awaits between check and write; lost replies; fail-open; crash | a credential is spent before it buys anything; a well-behaved client keeps a usable session; only a real verdict counts as attestation |
| Attestation providers (`attestation/*`) | cached verdict keys | verify a token | provider outage | pure verdict, not modelled beyond its outcome |
| Trojan user reconciliation (`npanelUserService`, `trojanApiService`, `monitorService.syncUsersAndTraffic`) | `NpanelUser` rows, the box's live users, `VpnCatalogItem` configs | create, update, delete, adopt, import, push, catalog assignment, sync pass | three copies of one password, stale snapshots, swallowed command failures, trojan-go restarts | no live credential without an owner; `remote_status` is truthful; served config is the current one; the box's own users are left alone |
| Server monitor (`monitorService`) | `Server.status`, health fields, `MonitorIncident` | health pass, incidents, certificate renewal, config tests | passes overlap installs and manual tests | a busy server is left alone; one open incident per outage; recovery mail follows outage mail |
| Notifications (`notificationService`) | de-dup map | `sendAlert` | send in flight | no alert lost to a send that failed |
| Caches (`banService`, `tenantService`, `settingsService`) | in-memory rules/tenants/settings | read, refresh, invalidate | load in flight while invalidated; a shared query that fails | an edit is visible at the latest one TTL and one query later; no lookup waits for ever |
| Connection log (`connectionLogService`) | `ConnectionLog` | start, stop, sweep, purge | sweep against a late stop, repeated stops, a sweep cut short | the record is what the client was told; every record is closed in the end |
| Rate limiting (`mobileSecurityService.mobileRateLimitMiddleware`) | in-memory buckets | count, prune | window boundary, two buckets per request | bound on requests in a window; nobody is shut out for ever |
| Load metrics (`loadMetricsService`) | smoothed load in memory and in `Server`, `recommended` star, alert streak | poll, recommend | long histories, edits in between, restarts | at most one star per group, on a config that works; no flapping; alerts that say what the load is |
| Config tests (`configTestService`) | result rows | run, record | manual and hourly run at once | no sample lost |
| Provisioning (`provisionService`) | `ProvisionJob`, `Server.status` | install in nine steps | failure or crash between steps | a job ends where its steps did, and the server is left neither busy nor unexplained |
| Catalog and publishing (`catalogPublishService`, `catalogSerializer`, routes) | `VpnCatalogItem`, `VpnCountry`, app assignments | publish, assign, serialise | name chosen and used in two steps | unique names, no orphaned item |
| Panel routes, admin auth, encryption, client IP, terminal, SSH, schema, bootstrap, UI, scripts | none or a handle | wrappers and I/O | | see `components` in PROJECT.json |

How they interact.  The REST routes call the services directly; `server.js`
schedules the passes by cron, and a pass may start while the previous one of the
same kind still runs.  The services share state only through the database and
the boxes.  `verifySignedRequest` is the middleware of every mobile route and
reads the rows that `exchangeToken` and `refreshToken` write.  The reconciliation
code writes a catalog item whenever a user it serves changes, and the monitor's
sync pass runs the same push as the user routes.  A box changes on its own too:
trojan-go keeps panel-added users in memory and loses them on a restart.

All the places where this code is hard to test are listed at their lines in
PROJECT.json under `hazards`, with the properties that cover each, or a note why
none does.

## 2. Modules

### SignedRequest

Models `verifySignedRequest` from the timestamp check to `next()`, the `ApiNonce`
table and `purgeExpiredNonces`.

| TLA+ | code |
|---|---|
| `stamp`, `rows`, `worker`, `executed` | `X-Timestamp`, `ApiNonce.expires_at`, a verification at one of its awaits, how often the route ran |
| `Arrive` | the timestamp window check, before any await |
| `LookUp`, `InsertNonce` | `ApiNonce.findOne`, `ApiNonce.create` behind its unique index |
| `Execute` | `device.update` and `next()` |
| `Refuse` | every 401 and every failing query |
| `PurgeExpiredNonces` | the hourly `destroy` |
| `Rounding` | what a DATETIME column adds to or takes from `expires_at` |

A request stands for its nonce.  Canonical body, hash and signature are left
out: `Refuse` may end a verification at any await, so every result of those
checks is covered.

*Properties.*  `AtMostOnce`: the route of a signed request runs at most once,
however often it is delivered.  It holds under `ClockMargin`
(`MaxStall + Rounding <= Margin`): arrivals are later than their timestamps, on
the server's clock, by at least the longest stall between the timestamp check
and the insert.  The code gives the nonce row a life of one skew *from the
handling*, but the window closes one skew after the *timestamp*, so with a client
clock that runs ahead the purge may come first (run `signed_request_ahead`, a
finding).

### MobileSessions and CheckThenSpend

Models `createChallenge`, `exchangeToken` (the throttled and the attested path),
`refreshToken`, `createSession`, and what `verifySignedRequest` reads of device
and session.  One action per await; `call` holds what a request has read.

| TLA+ | code |
|---|---|
| `challenge`, `device`, `session` | `ApiNonce` of purpose `attestation`, `ApiDevice`, `ApiSession` |
| `Exchange`, `ExchangeDevice`, `ThrottledUse`, `Attest`, `AttestedUse`, `FindOrCreateDevice`, `StampDevice` | the awaits of `exchangeToken` |
| `Refresh`, `RefreshSession`, `RevokeOld` | `refreshToken` |
| `InsertSession`, `StoreSecret`, `Reply` | `createSession` and the reply |
| `Verify`, `VerifySession`, `VerifySignature`, `EndVerify` | the credential checks of `verifySignedRequest` |
| `Fail`, `Crash`, `AttestationAges` | a 401, failing query or lost reply; the end of the process; time |

A session stands for the three secrets issued with it.  Expiry is not kept:
`Fail` and `EndVerify` refuse a call at any await, which is what an expired row
does too, so the model has every behaviour of the code with its clock.
`FailOpen` is strict mode without `ATTESTATION_FAIL_OPEN=false`.  An attested
device may turn `old` at any time.  Sequelize writes only the fields that differ
from the instance, which is why `StampDevice` clears the degraded marker only
when the call itself had read it set.

`solo`, `alone`, `stale`, `reliable`, `vouched`, `delivered` are history: they
guard no action but that `delivered` says which tokens a client can present.

*Properties.*  `SpentBeforeIssue`, `SingleUseUnlessOverlapped`, `ReliablePayload`,
`TrustedOnlyIfVouched`, `RetiredNeverServed`; each is stated in its comment.
`ReliablePayload` is about the payload of a client's last issuing call that ran alone.
A later call that fails or dies after it has revoked that session or replaced that
secret ends the client's claim to it: the code replaces the only secret a device has
before the reply is out, so a client whose reply is lost has to exchange again, and no
property says otherwise.  `SoldAsFound` is the refinement: `CheckThenSpend` sells
goods for credentials by a check and a later write, as these endpoints sell sessions
for challenges and refresh tokens.  Whoever holds a credential found it unspent, what
is sold is paid for with a spent one, a find pays once, and nothing is given back; so
a credential buys at most as often as it was found before it was first spent.
`Purchase` maps each call to the credential it has found and not used up, and each
session to the one it was bought with.  `SingleUse`, without an exception for calls
that overlap, does not hold: `used_at` and `revoked_at` are checked on a row read
earlier and then set by an unconditional update, so that two overlapping calls with
one credential get a session each.  To see it, check `SingleUse` instead of
`SingleUseUnlessOverlapped` in `MobileSessions.cfg`.

### UserReconcile

Models one box's users in their three copies: `row` (`NpanelUser`), `live` (the
hashes trojan-go accepts) and `item` (the config a catalog item serves).  A task
is a request or a pass; `snap` is the model instances it holds.

| TLA+ | code |
|---|---|
| `CreateUser`, `WriteConfig` | `createUser` |
| `StartUpdate`, `PatchRow`, `WriteHash`, `WriteConfig`, `WriteItems` | `updateUser` with its `syncUserConfigsIntoCatalog` |
| `StartDelete`, `UnlinkItems`, `DestroyRow` | `deleteUser` |
| `AdoptNew`, `AdoptOver`, `AdoptRow` | `adoptConfig`: the name is new, or names a row |
| `MakeDefault`, `FindDefault`, `WriteDefaults`, `Assign` | `syncDefaultUsers` of one default user, and its `ensureDefaultCatalog` |
| `StartAssign`, `Assign` | `POST /catalog/assign` |
| `StartSync` | `monitorService.syncUsersAndTraffic` |
| `PushOf` | `pushUsersToServer` |
| `BoxUnreachable`, `PurgeOld`, `ListUsers`, `ApplyUser`, `CommandFails`, `Verify`, `SkipVerify` | `syncServerUsers` |
| `FoldUser` | `applyLiveStats`, one `update()` per row |
| `StartImport`, `FetchLive`, `FindKnown`, `ImportOne`, `EndImport` | `importLiveUsers` |
| `Crash`, `BoxRestart` | the process ends; trojan-go restarts with only the users of its own panel |

A password stands for its sha224 hash and for the config built from it: the three are
functions of one another.  `update()` writes only the fields that differ from the
instance (`Save`), so a stale instance overwrites exactly what the code overwrites.
`HashOf` is the code's `remote_hash || hash(password)`, which matters for a default
user whose hash is not written yet.  Left out: speed and ip limits, traffic counters,
calls of `createUser` and `updateUser` with `remote:false`, an update that asks for
the password another user has or for one the user had before (`Fresh`: a password is
given out once), and an adoption of a password the panel already holds.  A request
either rotates the password or flips `enabled`.  A command that trojan-go rejects
because the box has changed since the listing (`Rejected`) fails by itself; any other
failure of a command is a fault.  Armed imported users are not pushed but are a reason
to connect, as in the code.

*Ghosts.*  The code promises nothing about what an overlap of two tasks on one
user, a crash or a swallowed failure leaves, until a later push or update has run
undisturbed.  `strays`, `suspect` and `torn` name exactly those hashes and users,
so that the invariants claim all the rest; `alone` says that nothing disturbed a
task.  They guard no action.

*Properties.*  `NoStray`, `Reconciled`, `ConfigCurrent` and `ImportsAreForeign`, while
no imported row is edited (`EditImported = FALSE`).  `Reconciled` also says that
recovery works: after a restart, crash or overlap, one push that runs alone makes
`remote_status` truthful again, because `FoldUser` of such a push removes the user
from `suspect`.  `AdoptedServable` is violated by the code, and is a finding: adopting
under an existing name builds the configs from the old password. `ForeignUntouched` is
violated too, and is the other finding: imported rows are meant to be read-only, but
`PUT /servers/:id/users/:userId` takes them, and a new password makes the push delete
the row's former hash, which is that of the box's own user.  The page offers no such
edit, and the row then stands for nothing live; so `ImportsAreForeign` cannot say of
an edited imported row what it says of the others, and if the deleted user has
meanwhile been adopted under another name, `Reconciled` fails for that row.  This is
why the passing run and the theorems leave the edit out.

Seen while modelling: `syncDefaultUsers` writes the whole profile, `enabled` too,
over the rows it finds.  A default user that an admin has disabled is enabled again
by `POST /servers/:id/users/sync-defaults`; with `remote:false` the panel goes on to
show it as synced while the box refuses it, until the next push.  `suspect` names
such a user; without that `Reconciled` is violated.

### ServerMonitor

Models one server's row, its incidents and everything that changes them: the
health check, certificate renewal by pass and by button, the recording of config
tests, and the installation with its job and step rows.  A task is one of these;
`task` holds the `Server` instance it has read, the incident rows it has found
and what it still has to do (`rest`).

| TLA+ | code |
|---|---|
| `server`, `tested`, `incident`, `lastSent`, `job` | `Server.status` and `health_status`, `VpnCatalogItem.last_test_ok`, open `MonitorIncident` rows, the de-dup map of `notificationService`, `ProvisionJob` with its steps |
| `StartCheck`, `Probe`, `Patch` | `updateServerStatus` up to its `server.update` |
| `FindOpen`, `CreateIncident`, `MarkNotified` | `openIncident` |
| `BeginMail`, `MailAccepted`, `MailFails`, `GapPasses` | `sendAlert` and `sendMail` |
| `FindAllOpen`, `CloseIncident`, `AllClosed`, `MailRecovery` | `resolveIncidents` |
| `StartRenewal`, `MarkRenewing`, `Renew`, `Renewed`, `RenewalFailed` | `runCertRenewalPass` and `POST /servers/:id/renew-ssl` |
| `StartTest`, `RecordResult` | `runConfigTestPass`, `testSingleConfig`, `recordConfigResult` |
| `Install`, `CreateJob`, `BeginStep`, `MarkStep`, `RunStep`, `EndStep`, `FailStep`, `FailJob`, `FailServer`, `SetOnline`, `FinishJob` | `POST /install`, `createJob`, `runStep`, `runInstall` |
| `BoxChanges`, `QueryFails`, `Crash` | trojan-go stops or answers again; an await that throws, with the `catch` that gets it (`Thrown`); the end of the process |

What an installation step does on the box is an outcome; `LastStep` stands for
nine.  The last step, `health_check`, gets the instance that is still
`installing`, so `updateServerStatus` returns at once and the step succeeds
without a check: `RunStep` says so.  `Activities` and `Kinds` choose which tasks
and which kinds of incident a run has; the code is the whole of both.  `renewal`,
`calm`, `told`, `recalled`, `blurred`, `orphaned` and `alone` are history and
guard no action.

*Properties.*  `OneOpenIncident`, `IncidentsTruthful`, `ErrorExplained`,
`RecoveryMatchesOutage`, `BusyMeansWork`, `JobMatchesSteps`, and the liveness
property `PanelCatchesUp`.  `blurred` names the kinds (and the status) that an
overlap or a fault has touched and that no undisturbed task has settled since:
the code promises nothing about those, and the properties claim all the rest, the
repair by the next undisturbed check included.  A run with an installation begins
without a server row, as the only way to one is to install it.  `findByPk` of
`runInstall` stands before its `try` (provisionService.js:177): if that query fails the
server stays `installing` with a queued job, where the model puts the failure inside
the `try`; `Crash` reaches the state the code is left in.  `LastingOutageMailed`, what
README.md says of the health pass, is violated (run `server_monitor_mail`, a
finding): only the creation of an incident mails, so one failed mail is never
made up for.

Seen while modelling, and left as the code has it: a check that read the row
before a renewal began overwrites `renewing_ssl` (monitorService.js:11 calls
these "States the monitor must not overwrite"); the button renews a server that
is being installed; a second outage within ten minutes of the first is never
mailed; after a crash a busy server stays busy.

### RuleCache and StaleReads

Models the three in-memory caches, one at a time (`service`), as they share the
idea and not the code: entries are stamped when the rows arrive (bans, tenants) or
before the query is sent (settings), lookups share a query under way (bans,
tenants) or not (settings), and an invalidation drops the entry or only its stamp
(bans).

| TLA+ | code |
|---|---|
| `entry` | `globalSet`/`scopedSet` with `loadedAt`; one `appCache` entry; `cache` with `loadedAt` |
| `query`, `caller` | a query in flight (`loading`, `appLoading`, the `await` of `loadAll`) and who waits on it |
| `BanGuard`, `ResolveApp`, `LoadAll` | `ensureFresh`, `resolveApp`, `loadAll` up to their `await` |
| `DatabaseReads`, `DeliverRules`, `DeliverApp`, `DeliverSettings`, `QueryFails` | the query's execution and what its reply or failure does |
| `AccountCheck` | the second `isBannedValue` of a request, in `verifySignedRequest` |
| `Commit`, `InvalidateRules`, `InvalidateApps`, `InvalidateSettings`, `EditFails` | the admin routes: the row is written, then the cache invalidated, or the route fails in between |
| `Restart`, `Tick` | an empty cache; time |

*Properties.*  `StaleReads` is what a reader is promised: an answer is what the table
holds, or held at most `limit` ticks ago.  `ServesWithinLimit` says that the caches
implement it, with the `Limit` of each service: its TTL, and the time that queries and
the request take where the entry is stamped late.  It is about callers whose own
lookup succeeded.  When the query of the ban guard fails, the guard lets its requests
pass (banService.js:53-56), and the account check of such a request (`unguarded`) is
still answered from the rules in memory, however old they are
(mobileSecurityService.js:292): `QueryFails` and `AccountCheck` do so, and nothing is
promised of that answer.  `raced` marks an entry whose query an edit has overtaken, or
whose edit was never followed by an invalidation; `CurrentUnlessRaced` says that every
other servable entry is current.  `EveryLookupEnds`: a shared promise is forgotten
when it fails.

Seen while modelling: the comment of `invalidateAppCache` says that a rotated key
"takes effect at once" (tenantService.js:31-32); a lookup already under way stores
the old row again, for one TTL.  `rule_cache` needs the exception `raced` for
exactly that.

### RateLimit, ConnectionLog and SessionApi

`RateLimit` models `mobileRateLimitMiddleware` with its two buckets per request and
`pruneRateLimitBuckets`; `ConnectionLog` models `startLog`, `stopLog`, `sweepStale` and
`purgeOldConnectionLogs`; `SessionApi` composes them as the routes
`POST /v1/sessions/start` and `/stop` do, on one clock.

| TLA+ | code |
|---|---|
| `bucket`, `Bumped`, `Over`, `Admit`, `Limit`, `PruneBuckets` | `rateLimitBuckets`, `bumpBucket`, the middleware's two outcomes, the prune |
| `log`, `task` | the `ConnectionLog` rows; a handler or sweep and the instances it has found |
| `BeginRequest`, `StartLog` | `startLog` |
| `FindLog`, `NotFound`, `CloseLog` | `stopLog` |
| `ListStale`, `SweepOne`, `EndSweep` | `sweepStale` |
| `Purge`, `LogQueryFails`, `LogCrash` | the retention purge; a failing query; the end of the process |

`passed` counts, for each device and for the address, what got through in this tick
and the `n` before it, for each `n` up to the window, and `restarts` the restarts of the
limiter in the same time; `told` holds the durations a
client was answered; `shared` names the rows that two tasks have held open at
once, about whose duration the code promises nothing.  They guard no action.

A count is kept only up to the maximum, as nothing tells one full bucket from another.

*Properties.*  `AtMostTwoWindows` (the fixed window's bound across an edge: two
windows' worth, and one more for each restart, which forgets the buckets),
`NeverShutOut`, `AnswersAgree`, `NeverTooLong`, `EveryLogCloses`.

Seen while modelling: a repeated stop is idempotent (connectionLogService.js:59) only
once the first has been written: two stops, or a stop and a sweep, that overlap are
answered with the durations they have computed each for itself.  A bucket is full up
to and including `resetAt` (`resetAt < now` is strict).  A refused request counts in
both buckets, so that one device that keeps asking uses up the address's window.
README.md speaks of 300 requests per minute and address where the code's default is
3000.

### LoadMetrics and Catalog

`LoadMetrics` models the polling loop, score and smoothing, the row's load and the
alert streak; `Catalog` extends it with the published configs of one country and
type, `updateRecommendations`, and the edits that go on meanwhile.

| TLA+ | code |
|---|---|
| `load`, `age`, `ema`, `hot`, `alarm` | `Server.load_pct`, `load_updated_at`, `_ema`, `_hot`, the open `load` incident |
| `BeginPass`, `Measure`, `StoreLoad`, `CheckLoadAlerts`, `SshFails`, `PollFails` | `runLoadPass`, `pollServer`, its update, `checkLoadAlerts`, and the failures of a poll |
| `Score`, `EmaNext`, `IsLoadFresh` | `computeLoadScore`, `emaNext`, `isLoadFresh` |
| `PickRecommended`, `Rank`, `WriteStar`, `ClearInactive`, `RankFails` | `pickRecommended` and the writes of `updateRecommendations` |
| `NameItem`, `CreateItem` | `uniqueDisplayName`, then the insert of `ensureDefaultCatalog` |
| `AssignItem` | `POST /catalog/assign`, which inserts the item if there is none, and `PUT /catalog/:id`, with any status and name |
| `Publish`, `DeleteItem`, `TestItem` | `publishServerCatalog`, the catalog route, a test result |

`calm`, `disturbed`, `overlapped` and `cut` say what a pass, a creation or a poll
has met, and `twin` which items an admin gave a name that was taken; they guard no
action.  A poll whose incident write fails (`PollFails`) may have opened or resolved
the incident already.

*Properties.*  `OneStar`, `StarServable`, `NoFlapping`, `UniqueNames`,
`AlarmTruthful`.  The first two say that the next pass repairs what edits, faults
and restarts have left, as they claim the whole state whenever a pass has ended.

Seen while modelling: a config that is activated again while stars are written may
keep a second star until the next pass.  Two overlapping creations may choose one
display name, as nothing but the earlier look keeps them apart. `POST /catalog/assign`
and `PUT /catalog/:id` take a name, or by default the user's own, without asking
`uniqueDisplayName`, so two configs assigned one after the other may have one name
too, although the comment of that function wants names "unique per country"
(npanelUserService.js:465-466): `UniqueNames` names both exceptions.  The smoothing
rounds, so it can stay one point from a constant measurement: from 75 a raw 74 is
rounded back to 75, and an alert that resolves below 75 stays open.  A server that is
polled and unreachable in turn keeps a fresh load and never reaches the streak. The
threshold of the alert is an admin's setting (90 by default), while the floor under
which it is resolved is fixed at 75: with a threshold below the floor an alert is
raised at loads under the floor, where `AlarmTruthful` has none.

### MC and proof modules

The `MC` modules give the constants, the symmetry sets and, for `Catalog`, what
the servers measure.  The theorems are in `SignedRequest_proofs`,
`MobileSessions_proofs`, `RuleCache_proofs`, `SessionApi_proofs`,
`ServerMonitor_proofs` and `ServerTruth_proofs` (which builds on it), `Catalog_proofs`
and `UserReconcile_proofs`.

## 3. Runs and bounds

| Run | Bounds | Shows |
|---|---|---|
| `signed_request` | one request, two verifications, skew 2, rounding 1, margin 2, stall 1, clock to 8 | `AtMostOnce` under `ClockMargin` |
| `signed_request_ahead` | no rounding, no stall, a client one unit ahead, clock to 6 | `AtMostOnce` violated by clocks that run ahead |
| `mobile_sessions` | one device, two challenges, two calls at a time, three sessions | the five properties, and that the endpoints implement `CheckThenSpend` |
| `user_reconcile` | two users, one there from the start and the other with a default user's name, two passwords and one foreign, two tasks at a time, three in all, one fault; no imported row is edited | the four properties |
| `user_reconcile_adopt` | the same | `AdoptedServable` violated |
| `user_reconcile_imported` | the same, and imported rows are edited | `ForeignUntouched` violated |
| `server_monitor` | one task at a time, every activity, every kind, two installation steps, no fault | truthful incidents, explained errors, `JobMatchesSteps`, `PanelCatchesUp` |
| `server_monitor_overlap` | two tasks of checks, renewals and an installation of one step, trojan incidents (two rows), one fault | one incident per outage, matching mails, repair after overlaps, `BusyMeansWork` |
| `server_monitor_mail` | one check at a time, trojan incidents, one fault | `LastingOutageMailed` violated |
| `rule_cache` | each of the three services, two values, two callers, TTL 3, a query takes at most 2 ticks | `CurrentUnlessRaced`, every lookup ends, the caches implement `StaleReads` |
| `session_api` | two devices behind one address, window 1, a device's maximum 1 and the address's 1, one token, two tasks, cap 1, retention 2, one fault | the limiter's and the log's properties |
| `catalog` | two servers with a config each, scores to 4, threshold 3, floor 2, streak 2, one poll at a time, staleness 0, hysteresis 1, two edits, one fault | star, names, alarms |

Why they are enough.  Requests share nothing but the clock, so one request shows what
nonces can do, and two verifications are what a race needs.  The clock runs four
skews, past the life of any row.  Devices share no row, so one is enough; two calls
race, three sessions are a chain of two rotations after an exchange or one of them
after a race, and the second challenge shows an exchange beside another.  In
`UserReconcile` two tasks race on one user and a third request follows to see what
they left; the second user is the one imported or created meanwhile, and tasks of the
sync pass touch both.  One fault is enough for each hazard listed: it falls at any
step, and what it leaves is met by the tasks that follow.  `ServerMonitor` is asked
what tasks one after another leave (all activities and kinds at once, and the
liveness), and what tasks that overlap do to the status, the incidents and the mails;
for the latter one kind that mails is enough, as the kinds do not touch each other's
rows, and the renewal resolves its own kind in the first run.  Two rows of a kind are
what two overlapping tasks can create, and two installation steps are a step that goes
on to another and a last one.

In `RuleCache` two callers share a query or race with two; the TTL is longer than a
query, as in the code, and long enough for an entry to be served, edited behind its
back, and served again.  In `SessionApi` a device may be refused for its own requests
or for those of the other one; a window of one tick already has an inside and an edge.
One token is enough for what a stop, a repeated stop and a sweep do to one row, as
rows do not touch each other, and the purge lets a row of the same token follow.  The
clock is shared although a window is a minute and the cap a day: only the order of
events matters to either.  In `Catalog` one server is calm or flooded at each poll
while the other stays half loaded, so the ranking changes over and over, and the
scores lie on both sides of the threshold, of the floor and of the hysteresis.  With
staleness 0 a load counts as fresh in the pass that has stored it, and is stale in the
next if the poll fails.  Two edits are a creation (which takes two steps and so meets
another) or a change that is taken back; they fall at any step of a pass.

Deadlock is not checked in `MobileSessions`, `UserReconcile` and `ServerMonitor`: an
absent server with no installation may stay absent, and their bounds (`MaxSession`,
`MaxRequests`, `MaxRows`) let the system stop; `SignedRequest` never stops, as a crash
is always possible; nor do `RuleCache`, `SessionApi` and `Catalog`, where it is
checked too.

*Fairness.*  In `ServerMonitor!FairSpec`, cron starts a health
pass every few minutes whatever else goes on (server.js), so a check is strongly
fair: the other tasks of the model come and go in the few places it has for
tasks, which the code does not limit.  The steps of a task are weakly fair
(`Proceeds`), as a query, a TLS handshake, an SSH login, an SMTP session and a
config test end or time out.  The SSH commands of a renewal and an installation
have no timeout, and `Renew` and `RunStep` have no fairness: `PanelCatchesUp` and
`LastingOutageMailed` speak only of a server that no such job has in hand.

`RuleCache!FairSpec`: a query is executed and comes back (the pool of the database
times out otherwise), and a request that has passed the ban guard goes on.
`SessionApi!FairSpec`: time passes, queries end, and the hourly sweep starts
(strongly fair, since requests come and go in the few tasks the model has, which
the code does not limit).  No request has to be sent: `NeverShutOut` is about a
device that goes on asking as much as about one that does not.

In the other modules nothing waits for something else to happen; the eventual
repair of a user by the periodic pass is stated as safety (`Reconciled`), and so
is that of the star by the next pass (`OneStar`, `StarServable`).

## 4. Proofs

The eight proof modules are checked by TLAPS for every value of the constants that
satisfies the named assumptions of the modules they extend; the few further
hypotheses are named below.  Between them they prove every invariant, every action
property and both refinements that the passing runs check.  Hardly any of these
properties is inductive by itself: each has conjuncts of its own in the inductive
invariant, kept by step lemmas.

*Signed requests* (`SignedRequest_proofs`: `TypeCorrect`, `AtMostOnceHolds`).
`AtMostOnce` also assumes `ClockMargin`.  The invariant adds `Timely` (a
verification before its insert found the timestamp `Margin` old and inside the
window, and began at most `MaxStall` ago), `Guarded` (the nonce of a request that was
inserted by a verification that still counts is in the table until `Closing`, the
last instant at which another delivery could reach the insert) and `Exclusive` (at
most one verification of a request is past its insert, and none once the route has
run).  `ClockMargin` is what lets `Guarded` survive the purge.

*Sessions* (`MobileSessions_proofs`).  All rests on `Wired`: every credential a call
or a session refers to exists and is of the same device.

- `SpentBeforeIssueHolds` (`Spent`): a call at `insert` has its challenge used and
  its parent revoked already; both stay so.
- `TrustedOnlyIfVouchedHolds` (`Trust`): a call that carries verdict `ok` belongs to
  a vouched device, and only such a call stamps.
- `RetiredNeverServedHolds` (`Retired`): a call marked stale at its start still finds
  its session revoked, since no step takes a revocation back.
- `SingleUseUnlessOverlappedHolds`: a call marked alone is the only issuing call of
  its device (`Exclusive`); where a call has not bought yet but its credential has
  bought a session, both calls overlapped another (`Fresh`).
- `ReliablePayloadHolds`: a call alone still finds its session unrevoked and its
  secret in place (`Own`); what a client relies on is good until a call of the device
  has written over it, and then that call stands before its reply or has failed,
  which ends what the theorem claims (`Relied`, `Kept`).
- `ImplementsCheckThenSpend`: every step is a find, a spending, a purchase, a giving
  up or a stutter of `CheckThenSpend`; that what is sold is paid for is `Spent`.

*Caches* (`RuleCache_proofs`: `TypeCorrect`, `CurrentUnlessRacedHolds`,
`ImplementsStaleReads`).  The invariant says how old each value in hand may be: what a
query has read was stored at most the query's age ago (`Reading`), a servable entry at
most its age and `Slack` ago, where `Slack` is the time a query takes for the two
services that stamp late (`Serving`), and a request that has passed the ban guard may
still find rules that were servable then (`Late`); one whose guard has failed is
outside the claim.  An edit only makes values younger, a tick ages both sides alike.
Every step then maps to `StaleReads!Answer`, `GiveUp`, `Edit`, `Tick` or a stutter.

*Limiter and log* (`SessionApi_proofs`: `TypeCorrect`, `AtMostTwoWindowsHolds`,
`AnswersAgreeHolds`, `NeverTooLongHolds`).  The two keep invariants of their own,
which the composition joins.  The limiter's (`Counting`) looks at the running window
of each bucket: what got through since it began was counted in it, and what got
through before, within a window of now, is at most one maximum (`Tally`); when no
window runs, at most one maximum is less than a window old; a restart adds a maximum
at most.  The log's says that a row held by a task and not shared has no other holder
and is open still (`HeldOpen`), and that there is time for the duration its holder
will write (`DurationFits`).

*Server monitor* (`ServerMonitor_proofs`, `ServerTruth_proofs`).  `Shape` says
which fields a task has at each of its places.

- `JobMatchesStepsHolds` (`JobInv`): there is one installation at most, the steps
  below the one it has in hand succeeded, those above are to come.
- `BusyMeansWorkHolds` (`Owned`): a busy status has a task that holds it in its
  instance and will take it off, or a fault has orphaned it.
- `OneOpenIncidentHolds`, `RecoveryMatchesOutageHolds` (`IncidentInv`): whoever is at
  work on an incident that nothing has touched is alone, holds it alone, and knows
  whether it was announced.
- `IncidentsTruthfulHolds` (`TruthInv`): of every kind that is not blurred, the
  incidents say what the rows say, or a task that runs alone has that kind still
  before it (`Pending`) and its findings agree with the rows (`Work`).
- `ErrorExplainedHolds` (`ErrorInv`): a status and its incidents explain one another,
  or a task that runs alone is about to see to it.  It assumes that `trojan` and
  `cert` are among the kinds, as they are in the code.

*Catalog* (`Catalog_proofs`, with `TypeCorrect`: the score stays a percentage).

- `UniqueNamesHolds` (`NameInv`): a name that was found is free still when the item
  is inserted, unless an admin has given it meanwhile or creations overlapped.  `uniqueDisplayName` always finds one, as there are more names than
  items.
- `OneStarHolds`, `StarServableHolds`, `NoFlappingHolds` (`StarInv`, `ServeInv`):
  while stars are written, every active row that is not due is as the winner says,
  and the winner is one that `StarServable` allows.  A lightest config exists because
  loads are natural numbers.
- `AlarmTruthfulHolds` (`AlarmInv`): a full streak has raised its alert; an alert
  whose poll was not cut off is about a stored load at or above the floor.  It assumes
  `Floor <= Threshold`; section 2 says what happens otherwise.

*User reconciliation* (`UserReconcile_proofs`), for instances in which no imported
row is edited (`EditImported = FALSE`; section 2 says what such an edit breaks).
`Shape` says what a task holds at each place, `Rows` what an instance says of a row
whoever has written it since, `Owner` that a password is of one user, `Overlaps` and
`Track` that a task knows the row it holds, or that the overlap has been noted in
`strays`, `suspect` and `torn`.

- `NoStrayHolds` (`Even`, `Leaving`, `Claims`): where a row's hash is not its
  password's, a task alone knows which of them can be on the box unnoted, so whoever
  overwrites one loses nothing; whoever is about to delete a row has taken its hash
  off.
- `ImportsAreForeignHolds` (`Listing`): an import reads the rows after the box, so
  what was a row's when it was listed is excluded, or has been noted.
- `ReconciledHolds` (`Truth`): an undisturbed push knows what is live, so that its
  fold tells the truth; a disturbed one leaves its users suspected.
- `ConfigCurrentHolds` (`Serving`): a task carries a config of the row's password
  until it is written to the item.

Only model-checked: the liveness properties `PanelCatchesUp`, `EveryLookupEnds`,
`EveryLogCloses` and `NeverShutOut`, as liveness under fairness is out of the prover's
reach, and the four properties that the code violates.

## 5. Not modelled

- Parsing, hashing, encryption and the attestation verdicts: pure functions or
  I/O.  Their outcomes are nondeterministic where a modelled step uses them.
- SSH and the shell scripts that run over it; their failures are the faults of
  `UserReconcile` and `LoadMetrics`.  The web terminal is a pipe (a second session
  on one socket leaks the first connection, terminalService.js:25).
- Of the catalog: the assignment to apps, countries and groups, the serialiser,
  and `PUT /catalog/:id` of an order, a country or a star.  They are row edits with no
  rule of their own, but the last can set a second star, until the next pass.
- Of the user service: limits and live counters, with `foldLiveStatsOntoRows` and
  the repair of ip limits, which touch nothing else; `removeUnmanaged`, which no
  caller sets.
- The login throttle (api.js:137-157), whose buckets work as those of `RateLimit`
  do, and the admin's tokens, which are stateless.
- Migrations and bootstrap, which run once and alone; the browser code and the
  set-up scripts.

## 6. Plan

1. Done: `SignedRequest`, `MobileSessions` with `CheckThenSpend`, `UserReconcile`,
   `ServerMonitor`, `StaleReads` and `RuleCache`, `RateLimit`, `ConnectionLog` and
   `SessionApi`, `LoadMetrics` and `Catalog`.
2. Done: the theorems of section 4, which cover every safety property of the passing
   runs.
3. Left: an abstract specification of `UserReconcile`, a desired set that a box
   follows; the invariants of `UserReconcile` with `EditImported = TRUE`, with edited
   imported rows as one more exception.
4. Left: `remote:false` in `createUser` and `updateUser`, and the login throttle.
