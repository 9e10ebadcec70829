# deployer, in TLA+

`deployer` is a small platform: a caller uploads a source archive and asks for a
deploy; the platform queues a deployment row in SQLite, a reconcile loop builds
the archive in a Kubernetes Job, pushes the image, rolls the app's workload out
and mints a release. Around it stand the accounts, sessions, invites, tokens and
connectors that decide who may call, a limiter of attempts, and backups of the
platform's own database. This directory holds specifications of that system written
from its Go and SQL source, TLC configurations that model-check them on small
instances, and theorems about most of them, for every instance, checked by TLAPS.

Contents: [inventory](#inventory), [modules](#modules),
[correspondence](#correspondence-with-the-code), [runs](#runs),
[bounds](#bounds), [fairness](#fairness), [proofs](#proofs),
[where the documents and the code part](#where-the-documents-and-the-code-part),
[left out](#what-is-not-modelled), [plan](#plan).

## Inventory

| component | source | state it keeps | operations | correct when |
|---|---|---|---|---|
| deployment store | `internal/store/deployments.go`, `queries/deployments.sql`, `domain/state.go` | `deployments`, `deployment_events`, `releases`, `apps.current_release_id` | CreateDeployment, Transition, MarkHealthy, RecordBuildResult, ClaimNext, ReleaseBuildingClaim | one deployment in flight per app, an end is final, the log replays to the row, releases are exactly the successes |
| apps and configuration | `internal/store/apps.go`, `config.go`, `domain/config*.go` | `apps`, `app_config` | CreateApp, SoftDeleteApp, SetConfigBatch, UnsetConfigBatch | a delete and a deploy exclude each other; ceilings hold under races |
| reconcile loop | `internal/reconcile` | one goroutine's position, a row copy, a listing | Run, Sweep, Tick (recover, expire, claim), Drive, ReapOrphanNamespaces | every row ends; a drive never acts on a row ended under it; a restart resumes or ends everything |
| cluster client | `internal/kube` | none (build Jobs, namespaces, Secrets, Deployments live in Kubernetes) | CreateJob, JobState, DeleteJob, ApplySecret, ApplyWorkload, WorkloadReady, DeleteNamespace, ScaleWorkload | a Job is addressed where it is; readiness means every pod has the new template |
| build Jobs | `internal/build`, `cmd/deployer/fetchsource.go` | a Job and its credential | fetch once, build, push | a fetch token is redeemed once; a timed-out build is stopped |
| uploads | `internal/uploads`, `store/uploads.go`, `httpapi.go` | `uploads` rows, files on the volume | Accept, MintFetchToken, Redeem, Remove, Sweep | ceilings hold, tokens are single use, files and rows go together |
| tool surface | `internal/mcp` | none | deploy_app, rollback, delete_app, set_config, unset_config, reads | calls the store's transactions and nothing else |
| suspension | `internal/suspend` | `accounts.disabled_at`, replica counts | Suspend, Restore, SweepSuspended | a suspended account serves nothing, a restored one serves again |
| identity | `internal/identity`, `store/{identity,invites,accounts}.go`, `httpapi`, `web` | accounts, sessions, invites, mailed links, tokens | register, confirm, log in and out, reset, mint and revoke tokens, issue and revoke invites, suspend | an invite buys one account, a reset or suspension ends what was issued before it, nothing ended comes back, an administrator remains |
| OAuth | `identity/oauth*.go`, `store/oauth.go`, `httpapi/oauth.go`, `web/oauth.go` | clients, codes, client tokens | register, approve, exchange, sweep | a code buys one token, a connector has one working grant per account |
| bootstrap | `auth/auth.go`, `identity/invites.go`, `cmd/deployer/main.go` | the configured token, the first invite | seed, rotate, mint the way in | a platform that serves has one seeded token, the configured one, and lets it in unless an administrator says otherwise |
| limiter | `identity/limiter.go` | token buckets and failure runs, in memory | Allow, LockedOut, Failed, Succeeded, sweep | nobody is let through faster than the rate, no penalty is cut short by overflow, interleaving or eviction |
| backups | `internal/backup`, `store/backups.go` | `backup_runs`, temporary files, objects | Run, tick, catch up, button, alert, startup sweep, restore | one run at a time, every run ends, alerts are news, a success is an object that reads back |
| the rest | `logs`, `mail`, `registry`, `source`, `deploy`, `tunnelwatch`, `ids`, `config`, `cmd` | little or none | routing, rendering, parsing, manifests, I/O | — |

How they interact. Request handlers (MCP and web) run concurrently and talk to the
loop only through SQLite rows: a handler commits a transaction, the loop finds it
at its next listing or claim, or notices it when its own next write is refused. The
loop talks to Kubernetes and the registry by calls that can fail, and Jobs call
back over HTTP to fetch their source with a one-time token. The reaper runs on the
loop's goroutine. Suspension, the upload sweep, the daily sweep, backups and the
tunnel watch are goroutines of their own beside it.

What is hard: the loop works for minutes from a copy of a row that handlers may
end under it; the process can be stopped or die between any two calls of a drive,
and restarts only with what the rows and the cluster say; the deploy budget can run
out inside any call; an ApplyWorkload takes effect in place and is never taken
back; deletes race deploys. The list with a line for each is under `hazards` in
`PROJECT.json`.

## Modules

| module | what it is |
|---|---|
| `DeploymentStore` | the deployment tables: one action per transaction, any caller in any order |
| `DeploymentContract` | what those tables promise, without columns: accepted, settled once, superseded, served, retired |
| `DeploymentStoreProofs` | theorems about `DeploymentStore`, checked by TLAPS: types, one row in flight, ends that stay |
| `DeploymentHistoryProofs` | above them: releases, event logs, and that `DeploymentStore` implements `DeploymentContract` |
| `Reconciler` | EXTENDS `DeploymentStore`: the loop, the handlers, the build Jobs, rollouts, the clock, crashes and shutdowns, the suspensions and their sweep around the same transactions |
| `ReconcilerProofs` | theorems about `Reconciler`: types, and that the whole system implements `DeploymentContract` |
| `DriveProofs` | above them: what a drive holds, builds, releases and stops |
| `Apps` | uploads with their files and tokens, apps with their ceilings and hostnames, configuration with its bounds: the tool calls step by step up to the queued deployment, the retention sweep, and what a drive does to these tables |
| `Access` | identity, connectors and the bootstrap token: every page and route that changes them, as requests that read and then write, and the process starting |
| `Limits` | the attempt limiter as an algorithm over ticks, and the requests that go through it |
| `Backup` | the schedule, the button, a run step by step, the alert, shutdown and the startup sweep |
| `AppsProofs`, `AccessProofs`, `BackupProofs`, `LimitsProofs` | theorems about `Apps`, `Access`, `Backup` and `Limits` |
| `MC...` | for each of the specifications, the values TLC gives the constants |

`Reconciler` reuses the store's transactions as they are: `Transition`,
`MarkHealthy`, `CreateDeployment` and the others are the actions proved about in
`DeploymentStoreProofs`, taken here by the loop's steps and the handlers' calls, so
what is proved of any sequence of calls of the store is proved of the whole system.
`Apps` stops where `Reconciler` starts, at the queued row, and keeps of the loop
what touches an upload or the configuration; `Reconciler` starts with uploads accepted and apps created.
`Access` answers who may make those calls and shares no table with them but
`accounts.disabled_at`, which both hold. `Limits` may refuse any call of `Access`
before it begins.

## Correspondence with the code

**Store.** A row is spread over functions of its id (`state`, `reason`, `path`,
`digest`, ...). An id is its place in creation order, which is what the monotonic
ULIDs give the queries that sort by id. `BEGIN IMMEDIATE` (store.go) serialises
writers, so each transaction is one step; a call the store refuses changes nothing
and is a step that is not enabled. `Superseded`, `HasImage`, `NewCurrent`,
`Deletable` and `Live` name the reads a transaction bases its writes on. A digest is
the id of the build that pushed it, a configuration a model value standing for the
whole table, `Allowed` the table of `domain/state.go`.

**Loop.** `pc` is the goroutine's next call, `row` the copy `deploymentRow` made
(refreshed nowhere but where the code assigns to it), `listing` the rows the sweep or the
tick read and `at` how far in their order (that of their ids) the pass has come, `loop` where it returns after a row. One call is one step, so
anything may come between two calls, and the code between two calls is part of the
step it follows. `Works` and `Errs` are a call on the drive's context: once the
budget is spent or the process is stopping it can only fail, and otherwise it may
fail `MaxFaults` times; a failed write to the cluster may have taken effect all the
same. `Move` is `r.move`: the row first, the copy after, and a row ended by someone
else stops the drive in silence. `Gate` is the boundary check before each phase
and the dispatch on the copy's state. `Wait` is the poll's sleep with its three
deadlines. `StopBuild`, `RecordFailure` and `Cleanup` are the end of `Drive`, the
failure written on a context nothing cancels.

**Uploads.** `tokenOf` and `redeemed` are the fetch token's columns. `refused` is a
guard and not a column: `deploy_app` checks its upload unspent and inserts later, so
a handler may pass with any upload that was unspent at some moment of this process.

**Cluster.** `jobs` gives each deployment's Job a namespace and a status; a status
read in another namespace is "gone". `workload` is what was applied (the pod
template's image and configuration checksum, and the Secret), `pods` what the
available pods have. Readiness is `WorkloadReady`'s test: every pod has the template
asked for. Containers read the Secret when they start, so a restart re-reads it
without a rollout. A workload's `up` is a replica count above zero: `Apply` sets it,
suspension clears it, and a workload with no pods asked for reads as ready, as in the
code.

**Suspension.** `suspended` is `accounts.disabled_at`, which a drive re-reads at each
phase. `SetDisabled` commits the flag and leaves one scale call in `scales`, which
`Scale` makes or loses; the sweep is its own goroutine, so its re-read (`holding`) and
its call are two steps with anything between them.

**World (Reconciler).** `overdue` grows in id order, because the budget runs from `created_at`.
`Crash` loses the goroutine's memory at any step; `Shutdown` cancels its context and
`Exit` ends the process some steps later, for nothing waits for the loop.

**Apps.** A tool call is a chain of steps held in `call[c]`: what it read is in the
record, and another call, a sweep or a build may come between any two. `Stop` is a
refusal, a failed store call or a client that leaves, at whatever step. The tarball is
an element of `files`, drawn before its row and removed before it; `Remove` may fail,
and `stray` remembers what a failed remove or a crash left, `fetches` how often each
tarball was served, `raced` which configurations come of a write over a read that
had gone stale, `unended` which deployments a drive failed to write the end of. All four
are history that decides no step. A slug is the base of a name
(`BaseOf`, which stands for `DeriveBase`) and a suffix; a size is what a key and its
value take. `Loop` is the reconcile loop's side, one drive at a time as `Reconciler` has
it: `Claim`, a token for the Job from the drive's copy of the row, the fetch, the
configuration the drive composes with (`DeployConfig`: the table, or for a rollback its
release's snapshot), `MarkHealthy`, which keeps that configuration with the release and for
a rollback puts it back in the table without a look at the bounds, `EndDeployment` for every
other end, a refused write included, and `RemoveTarball`, which follows either way. A
drive that died is taken up again by `Claim`; a row nobody drives is ended by a drive too, so
the watchdog has no action of its own. Apps that held a reserved name before the platform
reserved it keep it (store/apps.go:33-35); `Init` has none, and `HostnamesAreForever` says of
reserved names only that no app created since has one.

**Access.** A request is `call[c]`: `Begin` makes the reads and the decisions of the
handler, the step after it the transaction, with anything in between; handlers that
make two transactions (spend an invite, then mail a link) have a step for each. Pages
and JSON routes are named apart (`Page`, `Route`) because they guard differently: a
form token tied to a cookie or to the session on the pages, a typed address before a
suspension. A raw secret is the number of its row, so "whoever holds it" is any
caller that picks that number. `era` counts the changes that end an account's
credentials and is stamped on sessions and links when they are made; it is read by
no step, and neither is `taken`, which marks a token revoked by its id. The machine's account
is a row beside the people's (`Users`): it has no address, so nobody signs in to it, but the
administrator's list shows it (identity.sql:22-23), and its standing and its tokens can be
changed there like anyone's, for only oneself is refused (tokenroutes.go:162); `Machine` is also
the blank typed to confirm it. The start of the process is `boot`: make that account,
revoke the token's predecessors, seed it,
mint the first invite, serve; `Restart` is a death at any point and a start with any
token or none.

**Limits.** A method under the limiter's lock, with its clock reading, is one step; a
request is up to three of them. Time passes in ticks of the first penalty (30 s) and
instants are kept relative to now. The delay alone is computed as the code does, in
a two's complement word: `LockoutBase` shifted left by the failures past the
threshold, cut to `Width` bits (54 once nanoseconds are divided by 2^10, which divides
both settings and loses nothing of the wrap), then capped where it exceeds the
ceiling or is not positive. `ideal` and `owed` are what the documents promise, kept
beside: a bucket refilled at every tick, and the doubling on paper.

**Backup.** `at[c]` is one caller's position in `Service.Run`, with the outcome it read
before its insert. Files are `<<run, kind>>`, an object is `"none"`, `"torn"` or
`"sound"`; a refused upload may have landed and an accepted one may be torn. A SIGTERM
cancels the schedule's context and no request's; encrypting takes no context and may still
succeed after it. At a boot either half of the sweep, or both, may fail. `misread`, `unwritten` and
`unremoved` remember the calls that failed and excuse exactly what they break.

## Runs

| run | shows |
|---|---|
| `store` | under every order of calls: types, `InFlightIsNewest` (so the partial unique index never refuses), `DeletedAppIsQuiet`, `ReleaseHistory`, `SupersededHasSuccessor`, `EventsTellTheRow`, `EndedStaysEnded`, and that the tables implement `DeploymentContract` (`ContractSpec`) |
| `reconciler` | with handlers, rollouts and deadlines between any two calls of a drive, and with any two of a crash anywhere, a failing call and a suspension or restore: the copy a drive works from stays good until the row is ended (`DriveKeepsStep`), nothing unbuilt is released (`ReleaseWasBuilt`), a timed-out or suspended deployment leaves no build running in either namespace, where no cluster call failed and no shutdown came, and but for a build a crash kept off its row or one whose pod waits for a credential it never gets (`StoppedDeployStopsItsBuild`), no drive outlives its app (`DrivenAppIsLive`), a deleted app's namespace does not come back (`DeletedStaysDown`), a release is minted only over pods that run its image and template (`ReleaseRanAsMinted`), a rollback is its source release again (`RollbackRestoresItsRelease`) |
| `reconciler_live` | every deployment ends (`EveryDeploymentEnds`), every deleted app's namespace goes (`OrphansAreReaped`) and the app of an account that stays suspended stops (`SuspendedAppStops`), and the types hold (`ReconcilerTypeOK`), through a failed call, a SIGTERM and a suspension |
| `access` | two requests at once and restarts: an account for each spent invite and one invite for each account (`InviteBuysOneAccount`), at most one bootstrap invite (`OneWayIn`), one administrator who is never shut out (`AdministratorStays`), nothing issued before a reset or suspension works after it (`OldCredentialsEnd`), no session or token of an unconfirmed address (`ConfirmedOnly`), one token per code and one working grant per connector (`GrantsAreBoughtOnce`), while serving, the configured token and no other seeded one, and its answer ok, or invalid or suspended where an administrator revoked it or suspended its account (`ServesWithItsToken`), no step brings back what ended (`EndedStaysEnded`) |
| `apps` | two tool calls at once: the ceilings of apps and uploads are exact (`CeilingsHold`), no hostname is given twice (`HostnamesAreForever`), files and rows agree through crashes, failed removes and ends that were not written (`FilesAndRowsAgree`), a token buys one fetch (`TokenFetchesOnce`), configurations stay within bounds unless two writes overlapped, and an app rolled back to what such writes left has that again (`ConfigWithinBounds`) |
| `backup` | one run at a time (`BackupTypeOK`), an alert says what the record says (`RecoveryIsNews`), no copy of the database outlives its run and no success lacks its object (`FilesMatchTheRuns`), every run ends (`RunsEnd`) |
| `limits` | eviction and refilling on demand give nothing away (`RateHolds`), no lockout is shorter than the doubling promises (`PenaltyHolds`) |
| `failed_deploy`, `shutdown`, `restored`, `bootstrap`, `suspended_build` | one counterexample each, see below |

Deadlock is not checked: a behaviour comes to rest when its bounds are used up and
the process is down or idle with nothing queued.

Every run but `reconciler_live` and `backup` checks safety alone.

Each property is also checked to notice a bug: `PROJECT.json` pairs it with a
mutated definition (`Superseded_Started`, `RowOf_NoPath`, `Deletable_Unclaimed`, ...)
under which TLC finds it violated. The mutated definitions stand before the ones they
mutate and are used nowhere else.

## Bounds

`MaxDeployments` bounds the rows. Two are what supersession, a rollback of a release
by a later row, a claim order and a successor need; the `store` run has two apps so
that one app's calls are seen not to touch the other's. The loop runs have one app,
because nothing in the loop relates two apps except the order of claims. Two uploads
cover both engines where it matters, two configurations tell an edited table from a
snapshot. `MaxFaults` counts calls that fail without a deadline, `MaxCrashes` and
`MaxShutdowns` ends of the process, `MaxAdminCalls` suspensions and restores, and
`MaxTroubles` all of these together. `reconciler` takes any two of one fault, one
crash and one suspension, which reaches the recovery after a lost write and a restart
after a suspension; its constraint (`WithinBounds`) keeps two uploads and two configurations to the
behaviours without trouble, and one of each to those with it. A constraint cuts behaviours
short and hides no state before the cut. The liveness run takes a fault, a SIGTERM and a suspension in one
behaviour, so that the write that records a failure may be the one that fails. `store` is symmetric in its apps and
has no liveness. The number of runs of the process is bounded, the number of
ticks, polls and deadline checks is not.

`access` has two people, two requests at once and four calls in a behaviour, from an
empty platform or from one with an administrator, an issued invite and a connector.
Three invites, three links, three tokens and two codes let each row be raced for,
replaced and spent while another of its kind stands; two names with an ordinal
each make a name collide and run out; three starts and two tokens let the token
change and change back. `bootstrap` is the same with one call. `apps` has one account,
two calls, an app ceiling and an upload ceiling of one, because a ceiling is raced at its last place,
two names of which one is reserved, two suffixes, two deployments of up to two
uploads and one fault. Two keys together exceed the total; its constraint allows the second
while there is one app, one upload and no fault, where two calls race for it. The account is new, or has
deployed what two such writes had left and mended its configuration since: from there
a rollback alone passes the bounds, which from a new account takes five calls. `backup` has two runs, any
two failing calls and one death or stop: an outcome, the outcome before it, and the
button against the schedule. `limits` uses the sign-in surface's numbers (five free
failures, 30 s, 15 minutes) and runs of up to 70 failures, past the 54 bits; the
bucket is small (two tokens), and the idle time is as short as the assumption
`IdleAssumption` allows, so that evictions happen inside a behaviour.

## Fairness

`LiveSpec` assumes weak fairness of `LoopStep` (the goroutine is scheduled, and
`StartSweep` is the supervisor restarting the process), weak fairness of `Exit` (a
process that was asked to stop is gone at the end of its grace), weak fairness of
`BudgetRunsOut` (time passes), weak fairness of `SweepSuspended` and `Scale` (the
sweep has a ticker and a goroutine of its own, and a call that was decided is made), and strong fairness of the reaper (Go's `select`
picks at random among ready tickers, so a reaper tick is not ignored forever by a
loop that keeps coming back to `select`). Nothing is assumed of handlers, builds, rollouts or
the faults, which are bounded in number: a Job may hang, a rollout may never
complete, a caller may never come back.

`Backup` assumes weak fairness of each step of a run (`Execute(c)`: a goroutine that
is running keeps running, and every call in it ends, by its context or its own
timeout) and of `Boot` (the one replica's Deployment starts a pod that died). Timers,
buttons, SIGTERM and deaths are not assumed to happen.

## Proofs

Eight modules of theorems. Each holds for every value of the constants: any sets of
apps, uploads, accounts, callers, any ceilings and settings, any number of rows, faults,
crashes and calls. The assumptions are those the modules name on their constants: null values
stand outside the sets they extend, bounds are natural numbers, ceilings and capacities positive
(as `internal/config` validates them), the open environment's engines and failure codes among
the code's, an idle bucket full again before it is dropped (`IdleAssumption`), a drawn token
never one that is configured (`KeyAssumption`).
Two theorems have a hypothesis besides, named below.

| theorem | states |
|---|---|
| `DeploymentStoreProofs` `TypeCorrect` | `StoreSpec => []TypeOK` |
| `OneInFlight` | `StoreSpec => []InFlightIsNewest` |
| `DeletedIsQuiet` | `StoreSpec => []DeletedAppIsQuiet` |
| `SupersededIsFollowed` | `StoreSpec => []SupersededHasSuccessor` |
| `EndIsFinal` | `StoreSpec => EndedStaysEnded` |
| `DeploymentHistoryProofs` `ReleasesAreHealthyRows` | `StoreSpec => []ReleaseHistory` |
| `LogReplaysToRow` | `StoreSpec => []EventsTellTheRow` |
| `StoreImplementsContract` | `StoreSpec => ContractSpec` |
| `ReconcilerProofs` `ReconcilerTypeCorrect` | `Spec => []ReconcilerTypeOK` |
| `LoopImplementsContract` | `Spec => ContractSpec` |
| `DriveProofs` `CopyIsTheRow` | `Spec => []DriveKeepsStep` |
| `DriveNeedsItsApp` | `Spec => []DrivenAppIsLive` |
| `DeletedIsNotRebuilt` | `Spec => DeletedStaysDown` |
| `ReleasesWereBuilt` | `Spec => []ReleaseWasBuilt` |
| `RollbacksRestoreTheirRelease` | `Spec => []RollbackRestoresItsRelease` |
| `ReleasesRanAsMinted` | `Spec => ReleaseRanAsMinted` |
| `StoppedBuildsAreStopped` | `Spec => []StoppedDeployStopsItsBuild` |
| `BackupProofs` `BackupTypeCorrect` | `Spec => []BackupTypeOK` |
| `MailTellsTheRecord` | `Spec => []RecoveryIsNews` |
| `NoCopyOutlivesItsRun` | `Spec => []FilesMatchTheRuns` |
| `LimitsProofs` `RateIsKept` | `Spec => []RateHolds` |
| `PenaltyIsServed` | `DelaysSuffice => (Spec => []PenaltyHolds)` |
| `AppsProofs` `AppsTypeCorrect` | `Spec => []AppsTypeOK` |
| `NoCeilingIsPassed` | `Spec => []CeilingsHold` |
| `RetiredHostnamesStay` | `Spec => []HostnamesAreForever` |
| `FetchesAreBought` | `Spec => []TokenFetchesOnce` |
| `TarballsStandBehindRows` | `Spec => []FilesAndRowsAgree` |
| `OnlyRacesPassTheBounds` | `FitsShrinks => (Spec => []ConfigWithinBounds)` |
| `AccessProofs` `TypesHold` | `Spec => []AccessTypeOK` |
| `AccountsAreBought` | `Spec => []InviteBuysOneAccount` |
| `OneInviteForNobody` | `Spec => []OneWayIn` |
| `AdministratorIsNeverOut` | `Spec => []AdministratorStays` |
| `OldCredentialsAreEnded` | `Spec => []OldCredentialsEnd` |
| `OnlyConfirmedAccounts` | `Spec => []ConfirmedOnly` |
| `GrantsHold` | `Spec => []GrantsAreBoughtOnce` |
| `ConfiguredTokenWorks` | `Spec => []ServesWithItsToken` |
| `NothingIsRevived` | `Spec => EndedStaysEnded` |

**The deployment tables.** The proofs of the store are about `AnyCall`: a transaction with
whatever arguments, which `StoreNext` (`StoreCalls`) and, below, every step of the loop
are cases of. `TypeOK` is inductive by itself, one lemma per transaction that
rewrites rows. The row invariants are not: that an insert keeps "in flight is
newest" needs to know that every existing row has a smaller id and that ids beyond
`created` hold nothing. `LifeInv` therefore adds `Born` (rows exist exactly up to
`created`, with an app from the start) and takes the three together, since
`DeletedAppIsQuiet` under an insert rests on `CreateDeployment`'s own check, and
`SupersededHasSuccessor` on the row the same transaction inserts. `StepShape` sorts
the transactions into those that insert a row, those that move one along the
transition table, and those that spare the life of every row; the induction has one lemma for
each. `EndIsFinal` follows from the shape of each transaction.

`StoreInv` adds the history. Releases stay in the order of ids because `MarkHealthy`
ends a row in flight, which is its app's newest: that is `InFlightIsNewest` again, and
the reason `ReleaseHistory` is proved above `LifeInv`. The log is proved transaction by transaction,
an `Append` extending a run along the table by one allowed step. The refinement maps a row
to the contract's phase, the newest release to what an app serves; a superseding create is
the contract's step that settles one deployment and accepts another at once, and a
claim, an event or a configuration write is a stutter.

**The loop.** `LoopCalls` shows that every step of `Reconciler`, handlers, Jobs,
rollouts, deadlines, crashes and shutdowns included, is an `AnyCall` or leaves the
tables alone. So `StoreInv` and the refinement carry over to the whole system. What makes this
go through is `Known`: at each of the loop's program counters, what is known of the copy in hand (its
state among those the phase starts from, a rollback never building). `LoopInv` holds that with the
types and two facts about rows: no rollback is ever in building or pushing, and only a
build has a Job.

`DriveInv` says what a copy taken minutes ago is worth. `HandFits`: the row is as the
copy says or is cancelled, and the copy's app has a deployment in flight, this one or the
one that superseded it. Neither half is inductive alone: the row may end under
the drive in no other way than supersession because only the loop moves rows on, and a superseded
row's app stays undeletable because its successor is in flight and only this loop, which
is busy, could end it. The startup sweep drives rows from a listing made before the
drives that came first, so `SweepFits` says the same of every row still `Ahead`, and that no two of
them, or the row in hand, are of one app. `CopyIsTheRow`, `DriveNeedsItsApp`
and `DeletedIsNotRebuilt` follow.

Above it, `BuiltInv` ties a row past its build to a Job that is over and to its own
image, and has a clause for each step where the row lags behind (`pushed`, `promote`);
`RollbackInv` says a rollback carries its source release's image from its creation, that
releases are only ever appended (`ReleasesGrow`), and that a drive past reading the
configuration holds the snapshot; `RanInv` says that from `Apply` to `Mark` the workload
is this row's, and, unless an admin scaled something, that a drive which saw it ready
still sees its pods.

`StopInv` follows a Job to whoever may have to delete it. A Job that has not ended is in the
namespace of its archive's engine, but the row learns that namespace and that there is a Job
only after it was created, and a drive's copy before the row does. So `Locates` is
asked of the table's rows in flight, of the listed rows the loop may yet take (`Coming`:
the watchdog goes through all of them again after the recovery) and of the copy in hand:
if the row names its Job, the copy does too and has the engine, or the Job is
over and the row past its build. The second case is real. A crash between creating
a Job and recording it leaves a row without a path; the build may be found all the same,
and then the row names its Job with no engine beside it; it is `BuiltInv` that has that Job over.
`StopsHold` adds the order: with no failed call and no shutdown, a stop that is about to
be recorded has been made (`BuildIsStopped`), and a row recorded so is never driven again.
It says so of the builds a stop is `Owed`: those the row names, and, as long as no crash
came, every build that has started, because a build starts on its credential and its drive
goes straight from there to recording the Job (`StartsAreNamed`). What is left are the two
exceptions the property states: the crash in between, after which the row never learns the
name, and a Job whose drive stopped before the credential, whose pod waits for it for good.

**Backups.** The type invariant has the two facts that are not typing: one running
row, and no two callers on one run. It needs that only the newest row may be running
(`LastRuns`, so that an insert does not renumber the latest outcome) and what each step of
a caller says of its row (`HandFits`). `RecoveryIsNews` needs
`OutcomeFits`: between its read and its insert a caller's `previous` is the latest
outcome or it is marked unsure, and after the insert it is the outcome of the row before.

**Limiter.** The code's bucket, refilled on demand and dropped when idle, is compared with one
refilled at every tick through what `Allow` would find in it now (`Available`): this never
exceeds `ideal`. A drop keeps it because a bucket idle for `Idle` is full again, which is
`IdleAssumption`, and ages that stop counting past `Idle` lose nothing for the same reason.
`PenaltyIsServed` is the same for the lockouts, given `DelaysSuffice`: that
each single delay `Failed` computes, shifted in a word and capped, is at least the
doubling on paper. That is a fact about powers of two for given settings, out of the
provers' reach; the run `limits` reaches `MaxFailures` and so compares every one of those
delays for the sign-in settings.

**Uploads, apps, configuration.** `AppsInv` has what a call holds between its steps
(`CallFits`: the file it wrote, the upload it checked, the app it resolved are still
those), that no two calls hold one file, what the sweep may still delete (`SweepFits`),
and that an unredeemed token counts one more than the fetches served (`TokensLeft`).
Its proof splits a step by what it does to one upload's row (`UploadChanges`) and one
app's row (`AppBecomes`), since many calls do each. `CeilingsHold` is inductive because the count and the insert are
one transaction, whatever the count said to the caller before; the proof is about
cardinalities of sets that gain at most the inserted row. `RedeemedIsTaken` is there for
the sweep: what it may delete was never fetched. `ConfigInv` adds that a write in
progress was validated against what it read, so either the read still stands or the write
is a race. `SnapshotsFit` adds that every snapshot a release, a
drive or a rollback holds is within the bounds or marked as a race's. It rests on
`FitsShrinks`, that unsetting keys keeps a
configuration within its bounds: monotonicity of a sum over a set, an induction the provers
cannot do, and an `ASSUME` of `MCApps` that TLC evaluates on the run's keys and sizes.

**Access.** A call decides on what it read and writes later, so the invariant needs, for
each step a call may be at, what is still so of its read: `Knows`. An invite it found live is
at least issued and still for this person; a link's account exists; a session's
or an approver's address is confirmed, for good; whoever is to be suspended is not the
administrator, who cannot change once there is one, and is not the machine; a token to
revoke is somebody's.
`KnowsLasts` proves that no step of anybody takes these away, from
`FactsLast`: accounts, addresses of invites and owners of tokens are never rewritten.
What a call read beside that may be stale, and the promises hold because the
transaction asks again (`SpendInvite`, `ConsumeOAuthCode`, the unique names and addresses).

`StepShape` sorts every step into some fifteen things that can happen to the tables (an
account enters, ends its credentials, a session opens, a grant draws a token ...), and
each promise has one lemma over those that write its tables (`Writers`). The
strengthenings are small and each has one use: ids are drawn in order (`LinksInOrder`,
`TokensInOrder`), which makes "the newest" the highest; links and sessions are of accounts
that exist, so an era begins at 0 without an old credential at 0 (`LinksFit`); the
machine account's tokens are all named alike and never expire (`TokensFit`), at most one lives
(`OneSeeded`), and a start past its seed has one for its key, working unless it was revoked by
its id, and no other that works (`BootFits`). The shapes of a serving platform (`Serving`) keep
that, for no request makes a token of the machine's and only an administrator ends one
(`ServingKeepsSeeded`).

Model-checked only:

- liveness, out of the prover's reach: `EveryDeploymentEnds`, `OrphansAreReaped`,
  `SuspendedAppStops`, `RunsEnd`;
- `DelaysSuffice` and `FitsShrinks`, as said.

## Where the documents and the code part

Five statements of the repository that the code does not keep, each a run whose
trace shows how; the quotes and lines are under `findings` in `PROJECT.json`.

1. *A deploy that never becomes healthy leaves the previous release running
   untouched* (`failed_deploy`). Nothing restores the workload: pods that turn
   available after the readiness deadline, a supersession or a failed write run the
   failed image.
2. *Timeout means older than the budget, and a live Job is resumed after a restart*
   (`shutdown`). A SIGTERM during a drive is recorded as a timeout.
3. *A restore that lands while a sweep is running is never undone by it* (`restored`).
   The sweep re-reads the flag and then scales: a restore done in between is scaled
   down, and since only a restore scales up the app stays at zero.
4. *Bootstrap is safe to run on every boot* (`bootstrap`). `token_hash` is unique over
   revoked rows too: a platform given a token it had before revokes the present one,
   cannot insert the old one, and refuses every start until it is given a third.
5. *A deployment in flight when the suspension lands ends with its build Job deleted*
   (`suspended_build`). A Job created before a crash and not recorded has no name on its
   row; `deleteBuildJob` takes that for no Job, and it builds on.

Three more are stated at the end of `Reconciler`, and TLC finds each violated in a few
seconds with one app and the bounds named here; no run does so.

- *A Job is never addressed in a namespace it is not in* (`JobAddressedWhereItIs`,
  reconcile.go:466; one deployment, one crash). The engine reaches the row only after the
  Job exists, so a crash between the two makes the resumed drive ask the other namespace.
- *The tarball is deleted once its deployment reaches a terminal state*
  (`EndedDeploymentDropsTarball`, docs/specs/0004 AC-22; two deployments, two uploads). A row
  superseded before it was claimed keeps its tarball, and the retention sweep skips
  uploads a deployment names.
- *A release snapshots the configuration the deploy ran with* (`SnapshotIsWhatRan`,
  docs/specs/0010 AC-10; one deployment, two configurations, two crashes). A drive cut off
  between the Secret and the template can leave pods on a configuration the next release
  does not record.

`ConfigWithinBounds` leaves out configurations that come of overlapping writes:
`set_config` validates outside the transaction that writes, so two of them can exceed the
bounds together. A deploy of such an app keeps the configuration with its release, and a
rollback to it writes it back unasked (store/deployments.go:347-351), which is left out too,
however the app was mended meanwhile; a rollback to any other release is within. Likewise
`FilesAndRowsAgree` allows a build in flight without its tarball once a drive of it has
come to an end that could not be written: the removal does not ask. `RecoveryIsNews` leaves out a run whose reading
of the previous outcome was refused, or outrun by another run's end.

`ReleaseRanAsMinted` is stated for behaviours without suspensions: a suspension that
scales the app to zero during the readiness wait makes the drive read it as ready and
mint its release over no pods at all.

## What is not modelled

Timestamps and their text, `claimed_by`, `image_repo` and event details; the
composition of manifests and network policies, and the policy sweep at startup
(idempotent); unpacking archives; the syntax of configuration keys and the spelling of
slugs; audit rows, which no decision reads; password hashing and the wording of mail;
redirect addresses and the arithmetic of PKCE, one Boolean each in `Grant`; the S3
protocol and the encryption of backups; the offline `restore` command, which runs with
the platform stopped. Reads that only render (listings, status, logs, the admin's
tables, paging) have no action, and so none of the generated query wrappers behind
them. `store/sqlcgen` is otherwise mapped as the text of the queries the modules'
operators stand for. Reading the environment, sending mail and probing the tunnel are
I/O. In `Reconciler` there is one account per app. The registry's and the cluster's own
behaviour is external and free within what the code can observe. A second
control-plane replica is left out: the deployment manifests run one replica with the
Recreate strategy.

## Plan

Done: all the specifications and their runs, and a theorem for every safety property a
passing run checks.

Next: the safety half of `EveryDeploymentEnds`, that a row in flight is always claimable, or
claimed and in hand, listed, or left where the next pass finds it. The theorem would leave
to the model checker only that the passes come round.
