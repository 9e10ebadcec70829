----------------------------- MODULE Reconciler -----------------------------
(***************************************************************************)
(* The reconcile loop (src/internal/reconcile) over the deployment tables, *)
(* the build cluster, the app namespaces and the upload volume, together   *)
(* with what acts beside it: the request handlers, the build Jobs, the     *)
(* rollouts, the clock, and the process dying and starting again.          *)
(*                                                                         *)
(* The loop is one goroutine, so its position is one pc.  Every call it    *)
(* makes on the store or the cluster is a step of its own: a handler may   *)
(* commit, a deadline may pass or the process may die between any two.     *)
(* row is the loop's in-memory copy of the deployment it works on, taken   *)
(* when the row was listed or claimed and stale from then on.              *)
(*                                                                         *)
(* The deploy budget runs from created_at, so rows run out of it in the    *)
(* order they were created: overdue grows one id at a time.  A call whose  *)
(* context is done fails at once.  Any other store or cluster call may     *)
(* also fail, MaxFaults times in a behaviour; a failed cluster write may   *)
(* have taken effect.                                                      *)
(***************************************************************************)
EXTENDS DeploymentStore

CONSTANTS
  EngineOf,     \* what source.HasRootDockerfile makes of each archive
  MaxFaults,    \* bound: store and cluster calls that fail on their own
  MaxCrashes,   \* bound: how often the process dies or is killed
  MaxAdminCalls, \* bound: how often an admin suspends or restores an account
  MaxShutdowns, \* bound: how often the process is asked to stop (SIGTERM)
  MaxTroubles   \* bound: how many of all of these one behaviour meets

ASSUME EngineOfAssumption ==
  EngineOf \in [Uploads -> {"buildpacks", "dockerfile", "rejected"}]
ASSUME LimitAssumption ==
  /\ MaxFaults \in Nat /\ MaxCrashes \in Nat
  /\ MaxAdminCalls \in Nat /\ MaxShutdowns \in Nat /\ MaxTroubles \in Nat

VARIABLES
  pc,         \* the loop's next step, "down" when there is no process
  loop,       \* the step it returns to once it is done with row
  row,        \* its copy of the deployment it works on
  listing,    \* ListNonTerminal's answer, for the pass it is making
  at,         \* the id that pass has come to
  held,       \* the tarball at the end of a drive: "no", "yes", "ask" (expire)
  why,        \* the failure it is about to record
  plan,       \* the configuration deployApp read
  stopping,   \* the signal context is done
  overdue,    \* deployments past the deploy budget
  faults, crashes, shutdowns,   \* how many of each so far
  jobs,       \* each deployment's build Job: its namespace and status
  tokenOf,    \* uploads.fetch_token_hash: the deployment it was minted for, or 0
  redeemed,   \* uploads whose redeemed_at is set
  refused,    \* uploads that were spent at every moment of this process
  tarballs,   \* archives on the upload volume
  namespaces, \* apps whose namespace exists
  workload,   \* each app's objects: the pod template's image and configuration
              \* checksum, the configuration its Secret holds, and whether its
              \* replica count is above zero
  pods,       \* the template each app's available pods have, and the Secret as
              \* their containers read it when they started
  suspended,  \* apps whose account's disabled_at is set
  scales,     \* an admin call's scale calls to come: the app, and up or down
  holding,    \* apps the suspension sweep has re-read and is about to scale down
  adminCalls  \* how many suspensions and restores so far

loopVars == <<pc, loop, row, held, why, plan>>
passVars == <<listing, at>>
hostVars == <<stopping, crashes, shutdowns>>
jobVars  == <<jobs, tokenOf, redeemed, refused, tarballs>>
podVars  == <<namespaces, workload, pods>>
adminVars == <<suspended, scales, holding, adminCalls>>
around   == <<passVars, hostVars, overdue, adminVars>>
beside   == <<hostVars, overdue, adminVars, jobVars, podVars>>
vars     == <<storeVars, loopVars, around, faults, jobVars, podVars>>

NoRow   == [id |-> 0, state |-> "absent", path |-> "", job |-> FALSE, digest |-> 0]
NoJob   == [ns |-> "none", st |-> "gone"]
Nothing == [image |-> 0, config |-> InitialConfig, secret |-> InitialConfig,
            up |-> FALSE]

\* Bugs the properties must catch: deploymentRow leaves a column out.
RowOf_NoPath(d)  == [id |-> d, state |-> state[d], path |-> "",
                     job |-> d \in job, digest |-> digest[d]]
RowOf_NoImage(d) == [id |-> d, state |-> state[d], path |-> path[d],
                     job |-> d \in job, digest |-> 0]

\* deploymentRow: the columns of one row the loop reads.
RowOf(d) == [id |-> d, state |-> state[d], path |-> path[d],
             job |-> d \in job, digest |-> digest[d]]

\* A bug: a state is missing from the query's NOT IN.
Listed_WithFailed(r) == r.state \in InFlightStates \cup {"failed"}

\* ListNonTerminal.
Listed(r) == r.state \in InFlightStates

InFlightRows == {r \in {RowOf(d) : d \in Ids} : Listed(r)}

\* The rows a pass has still to come to; they are ordered by id.
Ahead == {r \in listing : r.id >= at}

IsNext(r) == r \in Ahead /\ \A s \in Ahead : r.id <= s.id

IsRollback(r) == source[r.id] # 0

\* buildNamespace: derived from the row's path and nothing else.
BuildNamespace(r) == IF r.path = "dockerfile" THEN "buildkit" ELSE "build"

\* A bug: a failed Job read as a finished one.
JobStateIn_Finished(ns, d) ==
  IF jobs[d].ns # ns THEN "gone"
  ELSE IF jobs[d].st \in {"created", "pending", "running"} THEN "running"
  ELSE IF jobs[d].st = "failed" THEN "succeeded" ELSE jobs[d].st

\* What JobState answers about a deployment's Job in one namespace.
JobStateIn(ns, d) ==
  IF jobs[d].ns # ns THEN "gone"
  ELSE IF jobs[d].st \in {"created", "pending", "running"} THEN "running"
  ELSE jobs[d].st

-----------------------------------------------------------------------------
(* One call, and where the loop goes after it.                             *)

Trouble == faults + crashes + adminCalls + shutdowns < MaxTroubles

Fault == Trouble /\ faults < MaxFaults /\ faults' = faults + 1

\* runCtx is done: the budget is spent, or the process was asked to stop.
Spent == row.id \in overdue \/ stopping

\* A call on runCtx.
Works == ~Spent /\ UNCHANGED faults
Errs  == IF Spent THEN UNCHANGED faults ELSE Fault

\* A call on the loop's own context.
WorksOutside == ~stopping /\ UNCHANGED faults
ErrsOutside  == IF stopping THEN UNCHANGED faults ELSE Fault

Goto(step) == pc' = step /\ UNCHANGED <<loop, row, held, why, plan>>

Forget(step) ==
  /\ pc' = step
  /\ row' = NoRow /\ held' = "no" /\ why' = "none" /\ plan' = InitialConfig
  /\ UNCHANGED loop

Return == Forget(loop)

\* A phase gave up: Drive's default branch.
Abort(r) == pc' = "failing" /\ why' = r /\ UNCHANGED <<loop, row, held, plan>>

\* move, RecordBuild and MarkHealthy lose to whoever ended the row: the drive
\* stops and writes nothing.
Ended == state[row.id] \in Terminal

\* move: the row first, then the copy.
Move(to, step) ==
  \/ /\ Works /\ Transition(row.id, to, "none")
     /\ pc' = step /\ row' = [row EXCEPT !.state = to]
     /\ UNCHANGED <<loop, held, why, plan>>
  \/ Works /\ Ended /\ Goto("cleanup") /\ UNCHANGED storeVars
  \/ /\ \/ Errs
        \/ Works /\ ~Ended /\ ~CanMove(row.id, to)
     /\ Abort("internal") /\ UNCHANGED storeVars

\* A call that changes only the loop's own state, and fails the drive with r.
Read(step, r) == (Works /\ Goto(step)) \/ (Errs /\ Abort(r))

-----------------------------------------------------------------------------
(* Run: the startup sweep, then ticks.                                     *)

\* ListNonTerminal, and the pass over its answer; a failed read skips the pass.
List(pass, skip) ==
  /\ at' = 1
  /\ \/ WorksOutside /\ listing' = InFlightRows /\ loop' = pass /\ pc' = pass
     \/ ErrsOutside  /\ listing' = {} /\ loop' = skip /\ pc' = skip
  /\ UNCHANGED <<storeVars, row, held, why, plan, beside>>

StartSweep == pc = "down" /\ List("sweep", "idle")

StartTick == pc = "idle" /\ ~stopping /\ List("recover", "claim")

\* Sweep drives every row it listed, claimed or not.
Sweep ==
  /\ pc = "sweep" /\ ~stopping
  /\ \/ /\ Ahead = {}
        /\ loop' = "idle" /\ pc' = "idle" /\ listing' = {} /\ at' = 1
        /\ UNCHANGED row
     \/ \E r \in listing :
          /\ IsNext(r)
          /\ row' = r /\ at' = r.id + 1 /\ pc' = "drive"
          /\ UNCHANGED <<listing, loop>>
  /\ UNCHANGED <<storeVars, held, why, plan, faults, beside>>

\* recoverStranded: ask the cluster about every row in building with a Job.
Recover ==
  /\ pc = "recover" /\ ~stopping
  /\ \/ /\ Ahead = {}
        /\ loop' = "expire" /\ pc' = "expire" /\ at' = 1
        /\ UNCHANGED <<row, why, faults>>
     \/ \E r \in listing :
          LET asked == r.state = "building" /\ r.job
              saw   == JobStateIn(BuildNamespace(r), r.id)
              Take(step) == pc' = step /\ row' = r
          IN
          /\ IsNext(r) /\ at' = r.id + 1
          /\ \/ /\ ~asked \/ saw = "running"
                /\ UNCHANGED <<pc, row, why, faults>>
             \/ /\ asked /\ Fault
                /\ UNCHANGED <<pc, row, why>>
             \/ /\ asked /\ saw \in {"failed", "gone"} /\ UNCHANGED faults
                /\ Take("record") /\ why' = "build_failed"
             \/ /\ asked /\ saw = "succeeded" /\ UNCHANGED faults
                /\ Take("hand_back") /\ UNCHANGED why
          /\ UNCHANGED loop
  /\ UNCHANGED <<storeVars, listing, held, plan, beside>>

\* ReleaseClaim, on a row something else may have ended since the Job was read.
ReleaseClaim ==
  /\ pc = "hand_back"
  /\ \/ WorksOutside /\ ReleaseBuildingClaim(row.id)
     \/ WorksOutside /\ state[row.id] # "building" /\ UNCHANGED storeVars
     \/ ErrsOutside /\ UNCHANGED storeVars
  /\ Return
  /\ UNCHANGED <<passVars, beside>>

\* A bug: the watchdog looks at queued rows only.
Overdue_Queued(r) == r.id \in overdue /\ r.state = "queued"

\* remainingBudget is spent.
Overdue(r) == r.id \in overdue

\* expireOverdue, over the same listing.
Expire ==
  /\ pc = "expire" /\ ~stopping
  /\ \/ /\ Ahead = {}
        /\ loop' = "idle" /\ pc' = "claim" /\ listing' = {} /\ at' = 1
        /\ UNCHANGED <<row, why, held>>
     \/ \E r \in listing :
          /\ IsNext(r) /\ at' = r.id + 1
          /\ IF Overdue(r)
             THEN /\ row' = r /\ why' = "timeout" /\ held' = "ask"
                  /\ pc' = "failing"
             ELSE UNCHANGED <<pc, row, why, held>>
          /\ UNCHANGED <<listing, loop>>
  /\ UNCHANGED <<storeVars, plan, faults, beside>>

ClaimRow ==
  /\ pc = "claim" /\ loop' = "idle"
  /\ \/ /\ WorksOutside
        /\ \E d \in Ids : ClaimNext(d) /\ row' = RowOf(d) /\ pc' = "drive"
     \/ /\ \/ WorksOutside /\ NextToClaim = {}
           \/ ErrsOutside
        /\ pc' = "idle" /\ UNCHANGED <<row, storeVars>>
  /\ UNCHANGED <<held, why, plan, passVars, beside>>

\* ReapOrphanNamespaces deletes namespaces no live app owns; the ones younger
\* than the grace, and the ones that will not delete, stay for a later pass.
\* A bug: only apps that have ever been healthy are considered.
Orphans_Released == {a \in namespaces \cap deleted : current[a] # 0}

Orphans == namespaces \cap deleted

ReapOrphanNamespaces ==
  /\ pc = "idle" /\ ~stopping
  /\ \E old \in SUBSET Orphans :
       /\ old # {}
       /\ namespaces' = namespaces \ old
       /\ workload' = [a \in Apps |-> IF a \in old THEN Nothing ELSE workload[a]]
       /\ pods'     = [a \in Apps |-> IF a \in old THEN Nothing ELSE pods[a]]
  /\ UNCHANGED <<storeVars, loopVars, around, faults, jobVars>>

-----------------------------------------------------------------------------
(* Drive and run: one deployment, from the phase its copy says is next.    *)

\* A spent budget is failed without being driven; otherwise the upload is read
\* (a rollback has none), then the app.
Drive ==
  /\ pc = "drive"
  /\ \/ /\ row.id \in overdue
        /\ pc' = "failing" /\ why' = "timeout" /\ held' = "ask" /\ UNCHANGED faults
     \/ /\ Works /\ appOf[row.id] \notin deleted
        /\ pc' = "gate" /\ held' = (IF IsRollback(row) THEN "no" ELSE "yes")
        /\ UNCHANGED why
     \/ /\ row.id \notin overdue
        /\ pc' = "failing"
        /\ \/ Errs /\ ~IsRollback(row) /\ why' = "upload_invalid" /\ held' = "no"
           \/ /\ Errs \/ (Works /\ appOf[row.id] \in deleted)
              /\ why' = "internal"
              /\ held' = (IF IsRollback(row) \/ stopping THEN "no" ELSE "yes")
  /\ UNCHANGED <<around, loop, row, plan, storeVars, jobVars, podVars>>

\* blocked, then the dispatch on the copy's state: the budget, and the app and
\* its account read afresh.
Gate ==
  /\ pc = "gate"
  /\ \/ Spent /\ Abort("timeout") /\ UNCHANGED faults
     \/ Errs /\ Abort("internal")
     \/ Works /\ appOf[row.id] \in deleted /\ Abort("internal")
     \/ Works /\ appOf[row.id] \in suspended /\ Abort("account_suspended")
     \/ /\ Works /\ appOf[row.id] \notin deleted \cup suspended
        /\ Goto(CASE row.state = "queued" /\ IsRollback(row) -> "promote"
                  [] row.state = "queued" /\ ~IsRollback(row) -> "start"
                  [] row.state = "building"  -> "await"
                  [] row.state = "pushing"   -> "resolve"
                  [] row.state = "deploying" -> "config")
  /\ UNCHANGED <<around, storeVars, jobVars, podVars>>

\* startBuild: the row moves first.
Start ==
  /\ pc = "start" /\ Move("building", "detect")
  /\ UNCHANGED <<around, jobVars, podVars>>

\* buildPath, onto the copy only: the column is written by RecordStart.
Detect ==
  /\ pc = "detect"
  /\ LET u == upload[row.id] IN
     \/ u \notin tarballs /\ Abort("internal")
     \/ u \in tarballs /\ EngineOf[u] = "rejected" /\ Abort("source_rejected")
     \/ /\ u \in tarballs /\ EngineOf[u] # "rejected"
        /\ row' = [row EXCEPT !.path = EngineOf[u]]
        /\ pc' = "mint" /\ UNCHANGED <<loop, held, why, plan>>
  /\ UNCHANGED <<around, faults, storeVars, jobVars, podVars>>

\* MintFetchToken replaces the token and clears the redemption.
Mint ==
  /\ pc = "mint"
  /\ \/ /\ Works /\ Goto("create")
        /\ tokenOf'  = [tokenOf EXCEPT ![upload[row.id]] = row.id]
        /\ redeemed' = redeemed \ {upload[row.id]}
        /\ refused'  = refused \ {upload[row.id]}
     \/ Errs /\ Abort("internal") /\ UNCHANGED <<tokenOf, redeemed, refused>>
  /\ UNCHANGED <<around, storeVars, jobs, tarballs, podVars>>

\* CreateJob, in the namespace of the engine.
Create ==
  LET created_ == [ns |-> BuildNamespace(row), st |-> "created"] IN
  /\ pc = "create"
  /\ \/ /\ Works /\ Goto("credential") /\ jobs' = [jobs EXCEPT ![row.id] = created_]
     \/ /\ Errs /\ Abort("internal")
        /\ \/ UNCHANGED jobs
           \/ ~Spent /\ jobs' = [jobs EXCEPT ![row.id] = created_]
  /\ UNCHANGED <<around, storeVars, tokenOf, redeemed, refused, tarballs, podVars>>

\* ApplySecret: the pod waits for the credential it mounts.
Credential ==
  LET ready == IF jobs[row.id].st = "created"
               THEN [jobs EXCEPT ![row.id].st = "pending"] ELSE jobs IN
  /\ pc = "credential"
  /\ \/ Works /\ Goto("record_start") /\ jobs' = ready
     \/ Errs /\ Abort("internal") /\ (UNCHANGED jobs \/ (~Spent /\ jobs' = ready))
  /\ UNCHANGED <<around, storeVars, tokenOf, redeemed, refused, tarballs, podVars>>

\* RecordBuild: the path and the Job's name; the copy learns the name even when
\* the write fails.
RecordStart ==
  /\ pc = "record_start"
  /\ row' = [row EXCEPT !.job = TRUE]
  /\ \/ /\ Works /\ RecordBuildResult(row.id, row.path, TRUE, 0)
        /\ pc' = "gate" /\ UNCHANGED why
     \/ /\ Errs /\ UNCHANGED storeVars
        /\ pc' = "failing" /\ why' = "internal"
  /\ UNCHANGED <<around, loop, held, plan, jobVars, podVars>>

\* awaitBuild: one poll.
AwaitBuild ==
  LET saw == JobStateIn(BuildNamespace(row), row.id) IN
  /\ pc = "await"
  /\ \/ Errs /\ Goto("wait_build")
     \/ Works /\ saw = "running"           /\ Goto("wait_build")
     \/ Works /\ saw = "succeeded"         /\ Goto("pushed")
     \/ Works /\ saw \in {"failed", "gone"} /\ Abort("build_failed")
  /\ UNCHANGED <<around, storeVars, jobVars, podVars>>

\* wait: a tick and the boundary check, or a deadline, the phase's or the whole
\* call's.
Wait(here, poll, late) ==
  /\ pc = here
  /\ \/ Spent /\ Abort("timeout") /\ UNCHANGED faults
     \/ ~Spent /\ Abort(late) /\ UNCHANGED faults
     \/ ~Spent /\ Fault /\ Abort("internal")
     \/ Works /\ appOf[row.id] \in deleted /\ Abort("internal")
     \/ Works /\ appOf[row.id] \in suspended /\ Abort("account_suspended")
     \/ Works /\ appOf[row.id] \notin deleted \cup suspended /\ Goto(poll)
  /\ UNCHANGED <<around, storeVars, jobVars, podVars>>

WaitBuild == Wait("wait_build", "await", "build_failed")

Pushed ==
  /\ pc = "pushed" /\ Move("pushing", "gate")
  /\ UNCHANGED <<around, jobVars, podVars>>

\* resolveImage asks the registry; what it finds there is the build's doing.
Resolve ==
  /\ pc = "resolve"
  /\ \/ Works /\ row' = [row EXCEPT !.digest = row.id] /\ pc' = "record_image"
        /\ UNCHANGED <<loop, held, why, plan>>
     \/ Works /\ \E r \in {"build_no_digest", "image_runs_as_root"} : Abort(r)
     \/ Errs  /\ \E r \in {"build_no_digest", "internal"} : Abort(r)
  /\ UNCHANGED <<around, storeVars, jobVars, podVars>>

RecordImage ==
  /\ pc = "record_image"
  /\ \/ Works /\ RecordBuildResult(row.id, "", TRUE, row.digest) /\ Goto("promote")
     \/ Errs /\ Abort("internal") /\ UNCHANGED storeVars
  /\ UNCHANGED <<around, jobVars, podVars>>

Promote ==
  /\ pc = "promote" /\ Move("deploying", "gate")
  /\ UNCHANGED <<around, jobVars, podVars>>

\* A bug: a rollback deployed beside today's configuration.
DeployConfig_Table(r) == config[appOf[r.id]]

\* deployApp reads the configuration once: the app's table, or on a rollback the
\* source release's snapshot.
DeployConfig(r) ==
  LET a == appOf[r.id] IN
  IF IsRollback(r) THEN releases[a][source[r.id]].config ELSE config[a]

ReadConfig ==
  /\ pc = "config"
  /\ \/ row.digest = 0 /\ Abort("build_no_digest") /\ UNCHANGED faults
     \/ /\ row.digest # 0 /\ Works
        /\ plan' = DeployConfig(row) /\ pc' = "prepare"
        /\ UNCHANGED <<loop, row, held, why>>
     \/ row.digest # 0 /\ Errs /\ Abort("internal")
  /\ UNCHANGED <<around, storeVars, jobVars, podVars>>

\* A namespace that is there already is left alone.
EnsureNamespace(a) == namespaces \cup {a}

\* EnsureNamespace, the policies and the pull secret.
Prepare ==
  LET made == EnsureNamespace(appOf[row.id]) IN
  /\ pc = "prepare"
  /\ \/ Works /\ Goto("secret") /\ namespaces' = made
     \/ Errs /\ Abort("internal")
        /\ (UNCHANGED namespaces \/ (~Spent /\ namespaces' = made))
  /\ UNCHANGED <<around, storeVars, jobVars, workload, pods>>

\* A write over the app's objects; one that fails may have taken effect.
Write(objects, next) ==
  /\ \/ Works /\ Goto(next) /\ workload' = objects
     \/ Errs /\ Abort("internal")
        /\ (UNCHANGED workload \/ (~Spent /\ workload' = objects))
  /\ UNCHANGED <<around, storeVars, jobVars, namespaces, pods>>

\* ApplySecret: containers read it when they start.
ApplySecret ==
  /\ pc = "secret"
  /\ Write([workload EXCEPT ![appOf[row.id]].secret = plan], "apply")

\* The composed Deployment: the image by digest, the checksum of the configuration
\* as an annotation of the template, and a serving replica count.
Composed(a, image, cfg) ==
  [workload EXCEPT ![a].image = image, ![a].config = cfg, ![a].up = TRUE]

\* ApplyWorkload, in place: a template that changed starts a rollout.
Apply ==
  /\ pc = "apply"
  /\ Write(Composed(appOf[row.id], row.digest, plan), "ready")

SameTemplate(a) ==
  pods[a].image = workload[a].image /\ pods[a].config = workload[a].config

\* WorkloadReady: every pod asked for has the template, and no other pod is left;
\* of a workload scaled to zero, no pod at all.
WorkloadReady(a) ==
  /\ workload[a].image # 0
  /\ SameTemplate(a) \/ (~workload[a].up /\ pods[a].image = 0)

\* awaitReady: one poll.
AwaitReady ==
  LET up == WorkloadReady(appOf[row.id]) IN
  /\ pc = "ready"
  /\ \/ Errs /\ Goto("wait_ready")
     \/ Works /\ up  /\ Goto("mark")
     \/ Works /\ ~up /\ Goto("wait_ready")
  /\ UNCHANGED <<around, storeVars, jobVars, podVars>>

WaitReady == Wait("wait_ready", "ready", "app_never_ready")

\* A bug: the release snapshots a fresh read.
SnapshotConfig_Reread == DeployConfig(row)

\* The configuration the workload was composed from.
SnapshotConfig == plan

\* MarkHealthy, with that configuration.
Mark ==
  /\ pc = "mark"
  /\ \/ Works /\ MarkHealthy(row.id, SnapshotConfig) /\ Goto("cleanup")
     \/ Works /\ Ended /\ Goto("cleanup") /\ UNCHANGED storeVars
     \/ /\ \/ Errs
           \/ Works /\ ~Ended /\ ~(CanMove(row.id, "healthy") /\ HasImage(row.id))
        /\ Abort("internal") /\ UNCHANGED storeVars
  /\ UNCHANGED <<around, jobVars, podVars>>

\* A Job that is not in that namespace counts as deleted already.
DeleteJob(ns, d) ==
  IF jobs[d].ns = ns THEN [jobs EXCEPT ![d].st = "gone"] ELSE jobs

\* The end of a failed drive: a spent budget is the reason whatever noticed it,
\* and a timeout or a suspension takes the build Job the copy knows of with it
\* (deleteBuildJob, on the loop's own context).
StopBuild ==
  LET r    == IF Spent THEN "timeout" ELSE why
      stop == r \in {"timeout", "account_suspended"} /\ row.job
      gone == DeleteJob(BuildNamespace(row), row.id)
  IN
  /\ pc = "failing"
  /\ pc' = "record" /\ why' = r /\ UNCHANGED <<loop, row, held, plan>>
  /\ \/ ~stop /\ UNCHANGED <<jobs, faults>>
     \/ stop /\ WorksOutside /\ jobs' = gone
     \/ stop /\ ErrsOutside /\ (UNCHANGED jobs \/ (~stopping /\ jobs' = gone))
  /\ UNCHANGED <<around, storeVars, tokenOf, redeemed, refused, tarballs, podVars>>

\* fail, on a fresh context: a write that fails leaves the row in flight.
RecordFailure ==
  /\ pc = "record"
  /\ \/ Transition(row.id, "failed", why) /\ UNCHANGED faults
     \/ Ended /\ UNCHANGED <<storeVars, faults>>
     \/ Fault /\ UNCHANGED storeVars
  /\ IF loop = "recover" THEN Return ELSE Goto("cleanup")
  /\ UNCHANGED <<around, jobVars, podVars>>

\* The tarball goes with the drive that read it; expire reads it only now.
Cleanup ==
  /\ pc = "cleanup"
  /\ \/ held # "no" /\ ~IsRollback(row)
        /\ ((held = "yes" /\ UNCHANGED faults) \/ (held = "ask" /\ WorksOutside))
        /\ tarballs' = tarballs \ {upload[row.id]}
     \/ (held = "no" \/ IsRollback(row)) /\ UNCHANGED <<tarballs, faults>>
     \/ held = "ask" /\ ~IsRollback(row) /\ ErrsOutside /\ UNCHANGED tarballs
  /\ Return
  /\ UNCHANGED <<around, storeVars, jobs, tokenOf, redeemed, refused, podVars>>

LoopStep ==
  \/ StartSweep \/ StartTick \/ Sweep \/ Recover \/ ReleaseClaim \/ Expire \/ ClaimRow
  \/ Drive \/ Gate \/ Start \/ Detect \/ Mint \/ Create \/ Credential
  \/ RecordStart \/ AwaitBuild \/ WaitBuild \/ Pushed \/ Resolve \/ RecordImage
  \/ Promote \/ ReadConfig \/ Prepare \/ ApplySecret \/ Apply \/ AwaitReady \/ WaitReady
  \/ Mark \/ StopBuild \/ RecordFailure \/ Cleanup

-----------------------------------------------------------------------------
(* The request handlers, one per caller, while the process is up.          *)

Serving == pc # "down"

\* deploy_app: checkUpload refuses a spent upload, but a handler that read it
\* unspent may reach Create long after a build has redeemed it.
CallDeploy ==
  \E a \in Apps, u \in Uploads \ refused : CreateDeployment(a, u, 0)

\* rollback: any release of the app.
CallRollback ==
  \E a \in Apps : \E n \in ReleaseNumbers(a) : CreateDeployment(a, NoUpload, n)

\* delete_app: the row, and then the namespace (TearDown) if that call works.
CallDelete == \E a \in Apps : SoftDeleteApp(a)

CallSetConfig == \E a \in Apps, cfg \in Configs : SetConfig(a, cfg)

StoreCall ==
  /\ Serving /\ (CallDeploy \/ CallRollback \/ CallDelete \/ CallSetConfig)
  /\ UNCHANGED <<loopVars, around, faults, jobVars, podVars>>

TearDown ==
  /\ Serving
  /\ \E a \in namespaces \cap deleted :
       /\ namespaces' = namespaces \ {a}
       /\ workload' = [workload EXCEPT ![a] = Nothing]
       /\ pods'     = [pods EXCEPT ![a] = Nothing]
  /\ UNCHANGED <<storeVars, loopVars, around, faults, jobVars>>

\* ListDeployedApps*: the apps a suspension stops and a restore starts.
Deployed(a) == Live(a) /\ current[a] # 0

\* A bug: nothing holds a suspended account's app at zero.
ToHold_None == {a \in Apps : FALSE}

\* The apps SweepSuspended scales down, each re-read just before its call.
ToHold == {a \in suspended : Deployed(a)}

\* Its calls are made on the context a shutdown cancels.
SweepSuspended ==
  /\ Serving /\ ~stopping
  /\ \E a \in ToHold \ holding : holding' = holding \cup {a}
  /\ UNCHANGED <<storeVars, loopVars, passVars, hostVars, overdue, suspended, scales,
                 adminCalls, faults, jobVars, podVars>>

\* An admin suspends or restores an account: the flag a drive reads, and then one
\* scale call for its app, if the listing finds it deployed: at once, or by the
\* time of the call.
SetDisabled ==
  /\ Serving /\ Trouble /\ adminCalls < MaxAdminCalls
  /\ \E a \in Apps, on \in BOOLEAN :
       /\ suspended' = IF on THEN suspended \cup {a} ELSE suspended \ {a}
       /\ \/ scales' = scales \cup {<<a, ~on>>}
          \/ ~Deployed(a) /\ UNCHANGED scales
  /\ adminCalls' = adminCalls + 1
  /\ UNCHANGED <<storeVars, loopVars, passVars, hostVars, overdue, holding, faults,
                 jobVars, podVars>>

\* ScaleWorkload: a workload that is not there is left alone.
ScaleWorkload(a, up) ==
  workload' = IF workload[a].image = 0 THEN workload
              ELSE [workload EXCEPT ![a].up = up]

\* One scale call, an admin's or the sweep's; one that is refused is not retried.
Scale ==
  /\ Serving
  /\ \/ \E a \in Apps, up \in BOOLEAN :
          /\ <<a, up>> \in scales /\ scales' = scales \ {<<a, up>>} /\ UNCHANGED holding
          /\ \/ Deployed(a) /\ ScaleWorkload(a, up) /\ UNCHANGED faults
             \/ ~Deployed(a) /\ UNCHANGED <<workload, faults>>
             \/ Fault /\ (UNCHANGED workload \/ ScaleWorkload(a, up))
     \/ \E a \in holding :
          /\ holding' = holding \ {a} /\ UNCHANGED scales
          /\ \/ WorksOutside /\ ScaleWorkload(a, FALSE)
             \/ ErrsOutside  /\ (UNCHANGED workload \/ (~stopping /\ ScaleWorkload(a, FALSE)))
  /\ UNCHANGED <<storeVars, loopVars, passVars, hostVars, overdue, suspended, adminCalls,
                 jobVars, namespaces, pods>>

-----------------------------------------------------------------------------
(* The cluster and the clock.                                              *)

\* fetchUpload: the token is spent before the file is opened.
JobFetch(d) ==
  LET u == upload[d]
      spends == tokenOf[u] = d /\ u \notin redeemed
  IN
  /\ jobs[d].st = "pending" /\ Serving
  /\ redeemed' = (IF spends THEN redeemed \cup {u} ELSE redeemed)
  /\ jobs' = [jobs EXCEPT ![d].st = IF spends /\ u \in tarballs THEN "running" ELSE "failed"]

JobEnds(d, from, to) ==
  /\ jobs[d].st \in from
  /\ jobs' = [jobs EXCEPT ![d].st = to]
  /\ UNCHANGED redeemed

\* A build ends either way, and Kubernetes collects it some time after.
JobStep ==
  /\ \E d \in Ids :
       \/ JobFetch(d)
       \/ JobEnds(d, {"running"}, "succeeded")
       \/ JobEnds(d, {"created", "pending", "running"}, "failed")
       \/ JobEnds(d, {"succeeded", "failed"}, "gone")
  /\ UNCHANGED <<storeVars, loopVars, around, faults, tokenOf, refused, tarballs, podVars>>

\* A rollout completes, the new pods available and the old ones gone; or an app
\* scaled to zero loses its pods; or the containers an app has are restarted, and
\* read the Secret as it is now.
Rollout ==
  /\ \E a \in Apps :
       \/ /\ workload[a].up /\ ~SameTemplate(a)
          /\ pods' = [pods EXCEPT ![a] = workload[a]]
       \/ /\ ~workload[a].up /\ pods[a].image # 0
          /\ pods' = [pods EXCEPT ![a] = Nothing]
       \/ /\ pods[a].image # 0 /\ pods[a].secret # workload[a].secret
          /\ pods' = [pods EXCEPT ![a].secret = workload[a].secret]
  /\ UNCHANGED <<storeVars, loopVars, around, faults, jobVars, namespaces, workload>>

BudgetRunsOut ==
  /\ \E d \in (1..created) \ overdue :
       (\A e \in 1..created : e < d => e \in overdue) /\ overdue' = overdue \cup {d}
  /\ UNCHANGED <<storeVars, loopVars, passVars, hostVars, adminVars, faults, jobVars, podVars>>

-----------------------------------------------------------------------------
(* The process.                                                            *)

Die ==
  /\ Forget("down") /\ listing' = {} /\ at' = 1 /\ stopping' = FALSE
  /\ refused' = redeemed /\ scales' = {} /\ holding' = {}
  /\ UNCHANGED <<storeVars, overdue, suspended, adminCalls, faults, podVars,
                 jobs, tokenOf, redeemed, tarballs>>

Crash ==
  /\ Serving /\ Trouble /\ crashes < MaxCrashes
  /\ crashes' = crashes + 1 /\ UNCHANGED shutdowns
  /\ Die

\* SIGTERM ends the context the loop runs on; nothing waits for the loop, which
\* gets as far as it gets before the process is gone.
Shutdown ==
  /\ Serving /\ Trouble /\ ~stopping /\ shutdowns < MaxShutdowns
  /\ stopping' = TRUE /\ shutdowns' = shutdowns + 1
  /\ UNCHANGED <<storeVars, loopVars, passVars, crashes, overdue, adminVars, faults, jobVars, podVars>>

Exit == stopping /\ Die /\ UNCHANGED <<crashes, shutdowns>>

-----------------------------------------------------------------------------
Init ==
  /\ StoreInit
  /\ pc = "down" /\ loop = "sweep"
  /\ row = NoRow /\ held = "no" /\ why = "none" /\ plan = InitialConfig
  /\ listing = {} /\ at = 1
  /\ stopping = FALSE
  /\ overdue = {} /\ faults = 0 /\ crashes = 0 /\ shutdowns = 0
  /\ jobs = [d \in Ids |-> NoJob]
  /\ tokenOf = [u \in Uploads |-> 0] /\ redeemed = {} /\ refused = {}
  /\ tarballs = Uploads
  /\ namespaces = {}
  /\ workload = [a \in Apps |-> Nothing] /\ pods = [a \in Apps |-> Nothing]
  /\ suspended = {} /\ scales = {} /\ holding = {} /\ adminCalls = 0

Next ==
  \/ LoopStep \/ ReapOrphanNamespaces
  \/ StoreCall \/ TearDown \/ SetDisabled \/ SweepSuspended \/ Scale
  \/ JobStep \/ Rollout \/ BudgetRunsOut
  \/ Crash \/ Shutdown \/ Exit

Spec == Init /\ [][Next]_vars

\* The goroutine keeps running, a process that must stop stops, the scheduler
\* restarts it, its reaper and its suspension sweep tick, a scale call that was
\* decided is made, and time passes.  Nothing is assumed of builds, rollouts,
\* callers or the bounded faults.
Fairness ==
  /\ WF_vars(LoopStep)
  /\ WF_vars(Exit)
  /\ SF_vars(ReapOrphanNamespaces)
  /\ WF_vars(SweepSuspended)
  /\ WF_vars(Scale)
  /\ WF_vars(BudgetRunsOut)

LiveSpec == Spec /\ Fairness

-----------------------------------------------------------------------------
(* Properties.                                                             *)

Steps ==
  {"down", "sweep", "idle", "recover", "hand_back", "expire", "claim", "drive",
   "gate", "start", "detect", "mint", "create", "credential", "record_start",
   "await", "wait_build", "pushed", "resolve", "record_image", "promote",
   "config", "prepare", "secret", "apply", "ready", "wait_ready", "mark", "failing",
   "record", "cleanup"}

RowType == [id : Ids \cup {0}, state : InFlightStates \cup {"absent"}, path : Paths,
            job : BOOLEAN, digest : Ids \cup {0}]
WorkloadType == [image : Ids \cup {0}, config : Configs, secret : Configs, up : BOOLEAN]

\* The loop's memory and the world around it.
ReconcilerTypeOK ==
  /\ pc \in Steps /\ loop \in {"sweep", "idle", "recover", "expire", "claim"}
  /\ row \in RowType /\ held \in {"no", "yes", "ask"} /\ why \in Reasons
  /\ plan \in Configs
  /\ listing \subseteq RowType /\ at \in 1..(MaxDeployments + 1)
  /\ overdue \subseteq Ids /\ suspended \subseteq Apps /\ holding \subseteq Apps
  /\ scales \subseteq Apps \X BOOLEAN
  /\ jobs \in [Ids -> [ns : {"none", "build", "buildkit"},
                       st : {"created", "pending", "running", "succeeded", "failed", "gone"}]]
  /\ tokenOf \in [Uploads -> Ids \cup {0}]
  /\ refused \subseteq redeemed /\ redeemed \subseteq Uploads /\ tarballs \subseteq Uploads
  /\ namespaces \subseteq Apps
  /\ workload \in [Apps -> WorkloadType] /\ pods \in [Apps -> WorkloadType]

Driving == pc \in Steps \ {"down", "sweep", "idle", "recover", "hand_back",
                           "expire", "claim", "failing", "record", "cleanup"}

\* A drive works from a copy taken minutes ago.  It stays sound because the row
\* can only have been ended under it: until then the copy's state is the row's,
\* so no move the loop asks for is ever illegal, and the image it deploys is the
\* one on the row.
DriveKeepsStep ==
  Driving =>
    \/ state[row.id] \in Terminal
    \/ /\ state[row.id] = row.state
       /\ pc # "record_image" => digest[row.id] = row.digest

\* A drive never outlives its app: delete_app is refused while a deployment of
\* the app is in flight, and a superseded row under a drive has a successor in
\* flight, so no namespace is composed for an app that is gone.
DrivenAppIsLive == Driving => appOf[row.id] \notin deleted

\* Once a deleted app's namespace is gone it stays gone.
DeletedStaysDown ==
  [][\A a \in deleted : a \in namespaces' => a \in namespaces]_vars

\* A release records what was rolled out: when one is minted, every pod of the
\* app has its image and the template of its configuration, whatever set_config
\* did during the readiness wait.  (A suspension that scales the app to zero in
\* that wait is outside this: a workload of no pods reads as ready.)
ReleaseRanAsMinted ==
  [][\A a \in Apps : adminCalls = 0 /\ Len(releases'[a]) > Len(releases[a]) =>
       LET r == releases'[a][Len(releases'[a])]
       IN pods[a].image = r.digest /\ pods[a].config = r.config]_vars

\* A rollback's release is the source release again, image and configuration.
RollbackRestoresItsRelease ==
  \A a \in Apps : \A n \in 1..Len(releases[a]) :
    LET r == releases[a][n]
        from == source[r.dep]
    IN from # 0 => /\ r.digest = releases[a][from].digest
                   /\ r.config = releases[a][from].config

\* A build deployment's image is its own build's, and that build succeeded.
ReleaseWasBuilt ==
  \A d \in Ids : state[d] = "healthy" /\ source[d] = 0 =>
    digest[d] = d /\ jobs[d].st \in {"succeeded", "gone"}

\* A build whose pod may still start, or run.
BuildAlive(d) == jobs[d].st \in {"created", "pending", "running"}

\* A deployment that timed out, or was stopped by a suspension, leaves no build of
\* its own running, in whichever namespace the engine put it, when no cluster call
\* was refused and no shutdown cancelled the delete.  Its row names the Job only
\* once RecordBuild has, so two builds are left alive and are allowed for here: one
\* that a crash cut off before RecordBuild, and one the budget caught before its
\* credential, whose pod waits for it and cannot start.  The first may run on:
\* SuspendedDeployStopsItsBuild, below.
StoppedDeployStopsItsBuild ==
  \A d \in Ids :
    /\ faults = 0 /\ shutdowns = 0
    /\ reason[d] \in {"timeout", "account_suspended"} /\ BuildAlive(d)
    => d \notin job /\ (crashes > 0 \/ jobs[d].st = "created")

\* Every accepted deployment ends, whatever build, rollout, fault or crash it
\* meets: the budget, the sweep and the watchdog between them leave nothing
\* in flight forever.
EveryDeploymentEnds == \A d \in Ids : InFlight(d) ~> state[d] \in Terminal

\* A deleted app's namespace goes even when delete_app's own call did not work.
OrphansAreReaped == \A a \in Apps : a \in deleted ~> a \notin namespaces

\* The app of an account that stays suspended ends up at zero replicas, whatever
\* the suspension's own scale call met and whatever drive was under way.
SuspendedAppStops ==
  \A a \in Apps : <>[](a \in suspended /\ Deployed(a)) => <>[](~workload[a].up)

-----------------------------------------------------------------------------
(* What the documents say and the code does not do.  A run shows each of    *)
(* the first four violated.                                                *)

\* docs/specs/0018, AC-14: a deployment that is in flight when the suspension
\* lands ends failed with account_suspended, and its build Job is deleted.
\* deleteBuildJob takes a row with no Job name for one that never had a Job
\* (reconcile.go:477): a Job created before a crash and recorded by nobody is
\* built to its end.
SuspendedDeployStopsItsBuild ==
  \A d \in Ids :
    faults = 0 /\ shutdowns = 0 /\ reason[d] = "account_suspended" => jobs[d].st # "running"

\* docs/specs/0012, rationale: a deploy that never becomes healthy leaves the
\* previous release running untouched.  Nothing puts the workload back: pods
\* that become available after the readiness deadline, or before a supersession
\* or a failed write, replace the release the app still points at.
FailedDeployLeavesReleaseRunning ==
  \A a \in Apps :
    current[a] # 0 /\ InFlightOf(a) = {} /\ a \notin deleted
      => pods[a].image = releases[a][current[a]].digest

\* docs/specs/0018, AC-24: a restore that lands while a sweep is running is never
\* undone by it.  The sweep re-reads the flag just before its call, and not in
\* it: a restore that is done in between is scaled down, and nothing scales up.
RestoreIsNotUndone ==
  [][\A a \in holding \ holding' :
       a \notin suspended \cup deleted /\ scales = {} => workload'[a].up = workload[a].up]_vars

\* docs/specs/0005, AC-14: timeout is what a deployment older than the deploy
\* budget fails with, and docs/specs/0004, AC-18: a live Job is resumed after a
\* restart.  A SIGTERM cancels the drive's context, which reads as a spent
\* budget and may be written to the row before the process is gone.
TimeoutMeansOverdue == \A d \in Ids : reason[d] = "timeout" => d \in overdue

(* No run checks these three; README.md says what violates them.            *)

\* buildNamespace: a Job is never addressed in a namespace it is not in, because
\* startBuild writes the path before the Job exists (reconcile.go:466).  It writes
\* it to its copy of the row; the column is written by RecordBuild, after CreateJob:
\* a restart between the two asks the default namespace for a Job in the other one.
JobAddressedWhereItIs ==
  pc = "await" /\ jobs[row.id].st # "gone" => jobs[row.id].ns = BuildNamespace(row)

\* docs/specs/0004, AC-22: the tarball is deleted once its deployment reaches a
\* terminal state, whichever state that is, so once nothing is in flight and the
\* loop is between ticks no deployment has one.  A row superseded before it was
\* claimed is ended by CreateDeployment, and no drive removes its tarball; the
\* retention sweep never does either, it skips the uploads a deployment names.
EndedDeploymentDropsTarball ==
  pc = "idle" /\ (\A d \in 1..created : state[d] \in Terminal) =>
    \A d \in 1..created : source[d] = 0 => upload[d] \notin tarballs

\* docs/specs/0010, AC-10: the release cut when a deploy becomes healthy
\* snapshots the configuration that deploy actually ran with.  The Secret is
\* written before the template: a drive cut off between the two leaves a Secret
\* that restarted containers read, and a later drive that asks for the template
\* already there rolls nothing out.
SnapshotIsWhatRan ==
  [][\A a \in Apps : Len(releases'[a]) > Len(releases[a]) =>
       pods[a].secret = releases'[a][Len(releases'[a])].config]_vars
=============================================================================
