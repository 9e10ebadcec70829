-------------------------- MODULE ReconcilerProofs --------------------------
(***************************************************************************)
(* What the reconcile loop guarantees for every set of apps, uploads and   *)
(* configurations, every number of deployments, and every bound on faults, *)
(* crashes, shutdowns and admin calls.                                     *)
(***************************************************************************)
EXTENDS Reconciler, DeploymentHistoryProofs

(* The loop's memory and the world around it, with their types. *)

Memory ==
  /\ pc \in Steps /\ loop \in {"sweep", "idle", "recover", "expire", "claim"}
  /\ row \in RowType /\ held \in {"no", "yes", "ask"} /\ why \in Reasons
  /\ plan \in Configs
  /\ listing \subseteq RowType /\ at \in 1..(MaxDeployments + 1)

World ==
  /\ overdue \subseteq Ids /\ suspended \subseteq Apps /\ holding \subseteq Apps
  /\ scales \subseteq Apps \X BOOLEAN
  /\ jobs \in [Ids -> [ns : {"none", "build", "buildkit"},
                       st : {"created", "pending", "running", "succeeded", "failed", "gone"}]]
  /\ tokenOf \in [Uploads -> Ids \cup {0}]
  /\ refused \subseteq redeemed /\ redeemed \subseteq Uploads /\ tarballs \subseteq Uploads
  /\ namespaces \subseteq Apps
  /\ workload \in [Apps -> WorkloadType] /\ pods \in [Apps -> WorkloadType]

\* The steps of a drive, of the build in it, and of the deploy in it.
BuildSteps   == {"detect", "mint", "create", "credential", "record_start", "await",
                 "wait_build", "pushed"}
ComposeSteps == {"prepare", "secret", "apply", "ready", "wait_ready", "mark"}
DriveSteps   == {"drive", "gate", "start", "resolve", "record_image", "promote", "config"}
                  \cup BuildSteps \cup ComposeSteps

\* The steps at which the loop has a row in hand.
WorkSteps == DriveSteps \cup {"hand_back", "failing", "record", "cleanup"}

\* A row as ListNonTerminal or ClaimNext answers it: one that is there, in
\* flight; a rollback is never built.
Copy(r) ==
  /\ r.id \in 1..created /\ r.state \in InFlightStates
  /\ IsRollback(r) => r.state \in {"queued", "deploying"}

\* What the loop knows, at a step, of the row in its hand.
Known(step, r) ==
  /\ step \in WorkSteps => r.id \in 1..created
  /\ step \in DriveSteps => Copy(r)
  /\ step = "start" => r.state = "queued" /\ ~IsRollback(r)
  /\ step \in BuildSteps => r.state = "building"
  /\ step \in {"resolve", "record_image"} => r.state = "pushing"
  /\ step = "promote" => r.state = IF IsRollback(r) THEN "queued" ELSE "pushing"
  /\ step \in {"config"} \cup ComposeSteps => r.state = "deploying"

LoopFacts ==
  /\ \A r \in listing : Copy(r)
  /\ Known(pc, row)
  /\ pc \in {"failing", "record"} => why \in FailureReasons
  /\ pc \in {"sweep", "recover", "expire"} => loop = pc
  /\ pc \in {"idle", "claim"} => loop # "sweep"

\* No rollback is ever in building or pushing.
RollbacksSkipTheBuild ==
  \A d \in Ids : source[d] # 0 => state[d] \notin {"building", "pushing"}

\* Only a build has a Job.
JobsAreBuilds ==
  \A d \in Ids : jobs[d].st # "gone" => d <= created /\ source[d] = 0

LoopInv ==
  StoreInv /\ Memory /\ World /\ LoopFacts /\ RollbacksSkipTheBuild /\ JobsAreBuilds

-----------------------------------------------------------------------------
(* The loop and the handlers call the store as its callers may.            *)

\* A step of the loop that moves its row.
LEMMA MoveCalls ==
  ASSUME LoopInv, pc \in WorkSteps, NEW to \in States \ {"failed"}, NEW step, Move(to, step)
  PROVE  [AnyCall]_storeVars
<1>1. row.id \in Ids
  BY BoundAssumption DEF BoundAssumption, LoopInv, LoopFacts, Known, StoreInv, LifeInv, TypeOK, Ids
<1>2. CASE Transition(row.id, to, "none")
  BY <1>1, <1>2 DEF AnyCall
<1> QED BY <1>2 DEF Move

\* Every step of the process, the handlers or the cluster is a call the store
\* allows, or leaves the tables alone.
LEMMA LoopCalls == LoopInv /\ [Next]_vars => [AnyCall]_storeVars
<1> SUFFICES ASSUME LoopInv, [Next]_vars PROVE [AnyCall]_storeVars
  OBVIOUS
<1>a. pc \in WorkSteps => row.id \in Ids
  BY BoundAssumption DEF BoundAssumption, LoopInv, LoopFacts, Known, StoreInv, LifeInv, TypeOK, Ids
<1>b. /\ row.path \in Paths /\ row.digest \in Ids \cup {0} /\ plan \in Configs
      /\ "" \in Paths
  BY DEF LoopInv, Memory, RowType, Paths
<1>c. /\ pc \in {"start", "pushed", "promote", "record_start", "record_image", "mark",
                "hand_back", "record"} => pc \in WorkSteps
      /\ {"building", "pushing", "deploying"} \subseteq States \ {"failed"}
  BY DEF WorkSteps, DriveSteps, BuildSteps, ComposeSteps, States, InFlightStates
<1>1. CASE StartSweep \/ StartTick
  BY <1>1 DEF StartSweep, StartTick, List
<1>2. CASE Sweep \/ Recover \/ Expire
  BY <1>2 DEF Sweep, Recover, Expire
<1>3. CASE ReleaseClaim
  BY <1>3, <1>a, <1>c DEF ReleaseClaim, AnyCall
<1>4. CASE ClaimRow
  BY <1>4 DEF ClaimRow, AnyCall
<1>5. CASE Drive \/ Gate \/ Detect \/ Mint \/ Create \/ Credential
  BY <1>5 DEF Drive, Gate, Detect, Mint, Create, Credential
<1>6. CASE Start \/ Pushed \/ Promote
  BY <1>6, <1>c, MoveCalls DEF Start, Pushed, Promote
<1>7. CASE RecordStart
  BY <1>7, <1>a, <1>b, <1>c DEF RecordStart, AnyCall
<1>8. CASE AwaitBuild \/ WaitBuild \/ Resolve \/ ReadConfig \/ Prepare
  BY <1>8 DEF AwaitBuild, WaitBuild, Wait, Resolve, ReadConfig, Prepare
<1>9. CASE RecordImage
  BY <1>9, <1>a, <1>b, <1>c DEF RecordImage, AnyCall
<1>10. CASE ApplySecret \/ Apply \/ AwaitReady \/ WaitReady \/ StopBuild \/ Cleanup
  BY <1>10 DEF ApplySecret, Apply, Write, AwaitReady, WaitReady, Wait, StopBuild, Cleanup
<1>11. CASE Mark
  BY <1>11, <1>a, <1>b, <1>c DEF Mark, SnapshotConfig, AnyCall
<1>12. CASE RecordFailure
  <2>1. pc = "record" /\ why \in FailureReasons
    BY <1>12 DEF RecordFailure, LoopInv, LoopFacts
  <2>2. CASE Transition(row.id, "failed", why)
    BY <2>1, <2>2, <1>a, <1>c DEF AnyCall, States, Terminal
  <2> QED BY <1>12, <2>2 DEF RecordFailure
<1>13. CASE ReapOrphanNamespaces \/ TearDown \/ SetDisabled \/ SweepSuspended \/ Scale
  BY <1>13 DEF ReapOrphanNamespaces, TearDown, SetDisabled, SweepSuspended, Scale
<1>14. CASE StoreCall
  <2>1. CASE CallDeploy
    BY <2>1 DEF CallDeploy, AnyCall, Inserts
  <2>2. CASE CallRollback
    <3>1. PICK a \in Apps : \E n \in 1..Len(releases[a]) : CreateDeployment(a, NoUpload, n)
      BY <2>2 DEF CallRollback, ReleaseNumbers
    <3>2. PICK n \in 1..Len(releases[a]) : CreateDeployment(a, NoUpload, n)
      BY <3>1
    <3>3. n \in Nat
      BY DEF LoopInv, StoreInv, LifeInv, TypeOK
    <3> QED BY <3>2, <3>3 DEF AnyCall, Inserts
  <2>3. CASE CallDelete \/ CallSetConfig
    BY <2>3 DEF CallDelete, CallSetConfig, AnyCall
  <2> QED BY <1>14, <2>1, <2>2, <2>3 DEF StoreCall
<1>15. CASE JobStep \/ Rollout \/ BudgetRunsOut \/ Crash \/ Shutdown \/ Exit
  BY <1>15 DEF JobStep, Rollout, BudgetRunsOut, Crash, Shutdown, Exit, Die
<1>16. CASE UNCHANGED vars
  BY <1>16 DEF vars
<1> QED
  BY <1>1, <1>2, <1>3, <1>4, <1>5, <1>6, <1>7, <1>8, <1>9, <1>10, <1>11, <1>12,
     <1>13, <1>14, <1>15, <1>16 DEF Next, LoopStep

-----------------------------------------------------------------------------
(* The loop's own state.                                                   *)

\* A row in flight is answered as a row of the right type, and the loop may
\* hold on to it.
LEMMA AnsweredRow ==
  ASSUME LoopInv, NEW d \in Ids, InFlight(d)
  PROVE  RowOf(d) \in RowType /\ RowOf(d).id = d /\ Copy(RowOf(d))
<1>1. RowOf(d) \in RowType /\ RowOf(d).id = d /\ RowOf(d).state = state[d]
  BY DEF RowOf, RowType, InFlight, LoopInv, StoreInv, LifeInv, TypeOK
<1>2. d \in 1..created
  BY BoundAssumption
  DEF BoundAssumption, InFlight, InFlightStates, LoopInv, StoreInv, LifeInv, TypeOK, Born, Ids
<1> QED
  BY <1>1, <1>2 DEF Copy, IsRollback, LoopInv, RollbacksSkipTheBuild, InFlight, InFlightStates

\* A step of the loop creates no row: what a copy says of its row's birth stays so.
LEMMA LoopKeepsBirths == LoopStep => UNCHANGED birthVars
  BY DEF LoopStep, StartSweep, StartTick, List, Sweep, Recover, ReleaseClaim, Expire, ClaimRow,
         Drive, Gate, Start, Detect, Mint, Create, Credential, RecordStart, AwaitBuild,
         WaitBuild, Wait, Pushed, Resolve, RecordImage, Promote, ReadConfig, Prepare,
         ApplySecret, Apply, Write, AwaitReady, WaitReady, Mark, StopBuild, RecordFailure,
         Cleanup, Move, ReleaseBuildingClaim, ClaimNext, Transition, RecordBuildResult,
         MarkHealthy, storeVars, birthVars

\* What is known of a row is known of it for as long as no row is created.
LEMMA KnownKept ==
  ASSUME UNCHANGED <<created, source>>, NEW step, NEW r
  PROVE  (Known(step, r)' <=> Known(step, r)) /\ (Copy(r)' <=> Copy(r))
  BY DEF Known, Copy, IsRollback

\* Between drives the loop has no row in hand.
LEMMA StepNames ==
  /\ WorkSteps \subseteq Steps
  /\ WorkSteps \cap {"down", "sweep", "idle", "recover", "expire", "claim"} = {}
  BY DEF Steps, WorkSteps, DriveSteps, BuildSteps, ComposeSteps

\* The loop moves to a step at which it knows what it must of the row in hand.
LEMMA StepTo ==
  ASSUME LoopInv, NEW step \in WorkSteps, NEW r \in RowType,
         pc' = step, row' = r, Known(step, r),
         UNCHANGED <<created, source, loop, held, plan, passVars>>,
         why' \in Reasons, step \in {"failing", "record"} => why' \in FailureReasons
  PROVE  Memory' /\ LoopFacts'
<1>1. \A q \in listing : Copy(q)'
  BY KnownKept DEF LoopInv, LoopFacts
<1>2. Known(step, r)'
  BY KnownKept
<1> QED BY <1>1, <1>2, StepNames DEF LoopInv, Memory, LoopFacts, passVars

\* A phase that gives up leaves a reason the store records.
LEMMA AbortTo ==
  ASSUME LoopInv, pc \in DriveSteps, NEW r \in FailureReasons, Abort(r),
         UNCHANGED <<created, source, passVars>>
  PROVE  Memory' /\ LoopFacts'
<1>1. Known("failing", row) /\ r \in Reasons /\ row \in RowType
  BY DEF Known, LoopInv, LoopFacts, Memory, WorkSteps, DriveSteps, BuildSteps, ComposeSteps,
         Reasons
<1> QED BY <1>1, StepTo DEF Abort, WorkSteps

\* A step that only moves on.
LEMMA GotoTo ==
  ASSUME LoopInv, NEW step \in WorkSteps \ {"failing", "record"}, Goto(step),
         Known(step, row), UNCHANGED <<created, source, passVars>>
  PROVE  Memory' /\ LoopFacts'
  BY StepTo DEF Goto, LoopInv, Memory

\* A row that moves on: the store's row, then the copy.
LEMMA MoveTo ==
  ASSUME LoopInv, pc \in DriveSteps, NEW to \in InFlightStates,
         NEW step \in WorkSteps \ {"failing", "record"}, Move(to, step),
         Known(step, [row EXCEPT !.state = to]), UNCHANGED passVars
  PROVE  Memory' /\ LoopFacts'
<1>1. UNCHANGED <<created, source>>
  BY DEF Move, Transition, storeVars, birthVars
<1>2. row \in RowType /\ why \in Reasons /\ "internal" \in FailureReasons
  BY DEF LoopInv, Memory, FailureReasons
<1>3. [row EXCEPT !.state = to] \in RowType
  BY <1>2 DEF RowType
<1>4. CASE pc' = step /\ row' = [row EXCEPT !.state = to] /\ UNCHANGED <<loop, held, why, plan>>
  BY <1>1, <1>2, <1>3, <1>4, StepTo
<1>5. CASE Goto("cleanup")
  <2>1. Known("cleanup", row)
    BY DEF Known, LoopInv, LoopFacts, WorkSteps, DriveSteps, BuildSteps, ComposeSteps
  <2> QED BY <1>1, <1>5, <2>1, GotoTo DEF WorkSteps
<1>6. CASE Abort("internal")
  BY <1>1, <1>2, <1>6, AbortTo
<1> QED BY <1>4, <1>5, <1>6 DEF Move

\* A poll's wait.
LEMMA WaitTo ==
  ASSUME LoopInv, pc \in DriveSteps, NEW here \in Steps,
         NEW poll \in WorkSteps \ {"failing", "record"}, NEW late \in FailureReasons,
         Wait(here, poll, late), Known(poll, row)
  PROVE  Memory' /\ LoopFacts'
<1>1. UNCHANGED <<created, source, passVars>>
  BY DEF Wait, storeVars, birthVars, around
<1>2. {"timeout", "internal", "account_suspended"} \subseteq FailureReasons
  BY DEF FailureReasons
<1>3. CASE Goto(poll)
  BY <1>1, <1>3, GotoTo
<1>4. CASE \E r \in FailureReasons : Abort(r)
  BY <1>1, <1>4, AbortTo
<1> QED BY <1>2, <1>3, <1>4 DEF Wait

\* Each step of a drive knows what the next one needs.
LEMMA DriveMemory ==
  ASSUME LoopInv,
         \/ Drive \/ Gate \/ Start \/ Detect \/ Mint \/ Create \/ Credential
         \/ RecordStart \/ AwaitBuild \/ WaitBuild \/ Pushed \/ Resolve \/ RecordImage
         \/ Promote \/ ReadConfig \/ Prepare \/ ApplySecret \/ Apply \/ AwaitReady
         \/ WaitReady \/ Mark
  PROVE  Memory' /\ LoopFacts'
<1>1. UNCHANGED <<created, source, passVars>>
  <2>1. UNCHANGED birthVars
    BY LoopKeepsBirths DEF LoopStep
  <2>2. UNCHANGED passVars
    BY DEF Drive, Gate, Start, Detect, Mint, Create, Credential, RecordStart, AwaitBuild,
           WaitBuild, Wait, Pushed, Resolve, RecordImage, Promote, ReadConfig, Prepare,
           ApplySecret, Apply, Write, AwaitReady, WaitReady, Mark, around
  <2> QED BY <2>1, <2>2 DEF birthVars
<1>2. /\ row \in RowType /\ Known(pc, row) /\ plan \in Configs /\ why \in Reasons
      /\ pc \in DriveSteps => Copy(row)
      /\ pc \in DriveSteps => row.id \in 1..created /\ row.id \in Ids
  BY BoundAssumption
  DEF BoundAssumption, LoopInv, LoopFacts, Memory, Known, WorkSteps, StoreInv, LifeInv,
      TypeOK, Ids
<1>3. /\ {"timeout", "internal", "upload_invalid", "account_suspended", "source_rejected",
          "build_failed", "build_no_digest", "image_runs_as_root", "app_never_ready"}
             \subseteq FailureReasons
      /\ FailureReasons \subseteq Reasons
  BY DEF FailureReasons, Reasons
<1> USE <1>1, <1>2, <1>3 DEF Steps, WorkSteps, DriveSteps, BuildSteps, ComposeSteps
<1>4. CASE Gate
  <2>1. row.state \in InFlightStates
    BY <1>4 DEF Gate, Copy
  <2>2. CASE \E r \in FailureReasons : Abort(r)
    BY <1>4, <2>2, AbortTo DEF Gate
  <2>3. CASE row.state = "queued" /\ IsRollback(row) /\ Goto("promote")
    BY <1>4, <2>3, GotoTo DEF Gate, Known
  <2>4. CASE row.state = "queued" /\ ~IsRollback(row) /\ Goto("start")
    BY <1>4, <2>4, GotoTo DEF Gate, Known
  <2>5. CASE row.state = "building" /\ Goto("await")
    BY <1>4, <2>5, GotoTo DEF Gate, Known
  <2>6. CASE row.state = "pushing" /\ Goto("resolve")
    BY <1>4, <2>6, GotoTo DEF Gate, Known
  <2>7. CASE row.state = "deploying" /\ Goto("config")
    BY <1>4, <2>7, GotoTo DEF Gate, Known
  <2> QED BY <1>4, <2>1, <2>2, <2>3, <2>4, <2>5, <2>6, <2>7 DEF Gate, InFlightStates
<1>5. CASE Drive
  <2>1. Known("gate", row) /\ Known("failing", row)
    BY <1>5 DEF Drive, Known
  <2>2. UNCHANGED <<loop, row, plan>> /\ held' \in {"no", "yes", "ask"}
    BY <1>5 DEF Drive
  <2>3. \/ pc' = "gate" /\ why' = why
        \/ pc' = "failing" /\ why' \in {"timeout", "upload_invalid", "internal"}
    BY <1>5 DEF Drive
  <2>4. \A q \in listing : Copy(q)'
    BY KnownKept DEF LoopInv, LoopFacts
  <2>5. Known(pc, row)'
    BY <2>1, <2>2, <2>3, KnownKept
  <2> QED BY <2>2, <2>3, <2>4, <2>5 DEF LoopInv, Memory, LoopFacts, passVars
<1>6. CASE Start
  BY <1>6, MoveTo DEF Start, Known, Copy, IsRollback, RowType, InFlightStates
<1>7. CASE Detect
  <2>1. CASE \E r \in FailureReasons : Abort(r)
    BY <1>7, <2>1, AbortTo DEF Detect
  <2>2. CASE /\ row' = [row EXCEPT !.path = EngineOf[upload[row.id]]] /\ pc' = "mint"
             /\ upload[row.id] \in tarballs /\ EngineOf[upload[row.id]] # "rejected"
             /\ UNCHANGED <<loop, held, why, plan>>
    <3>1. row' \in RowType
      BY <2>2, EngineOfAssumption
      DEF EngineOfAssumption, LoopInv, World, RowType, Paths
    <3>2. row'.id = row.id /\ row'.state = row.state
      BY <2>2 DEF RowType
    <3>3. Known("mint", row')
      BY <1>7, <3>2 DEF Detect, Known, Copy, IsRollback
    <3> QED BY <2>2, <3>1, <3>3, StepTo
  <2> QED BY <1>7, <2>1, <2>2 DEF Detect
<1>8. CASE Mint
  BY <1>8, GotoTo, AbortTo DEF Mint, Known
<1>9. CASE Create
  BY <1>9, GotoTo, AbortTo DEF Create, Known
<1>10. CASE Credential
  BY <1>10, GotoTo, AbortTo DEF Credential, Known
<1>11. CASE RecordStart
  <2>1. row' \in RowType /\ row'.id = row.id /\ row'.state = row.state
    BY <1>11 DEF RecordStart, RowType
  <2>2. Known("gate", row') /\ Known("failing", row')
    BY <1>11, <2>1 DEF RecordStart, Known, Copy, IsRollback
  <2>3. UNCHANGED <<loop, held, plan>>
        /\ \/ pc' = "gate" /\ why' = why
           \/ pc' = "failing" /\ why' = "internal"
    BY <1>11 DEF RecordStart
  <2> QED BY <2>1, <2>2, <2>3, StepTo
<1>12. CASE AwaitBuild
  BY <1>12, GotoTo, AbortTo DEF AwaitBuild, Known
<1>13. CASE WaitBuild
  BY <1>13, WaitTo DEF WaitBuild, Wait, Known
<1>14. CASE Pushed
  BY <1>14, MoveTo DEF Pushed, Known, Copy, IsRollback, RowType, InFlightStates
<1>15. CASE Resolve
  <2>1. CASE \E r \in FailureReasons : Abort(r)
    BY <1>15, <2>1, AbortTo DEF Resolve
  <2>2. CASE /\ row' = [row EXCEPT !.digest = row.id] /\ pc' = "record_image"
             /\ UNCHANGED <<loop, held, why, plan>>
    <3>1. row' \in RowType /\ row'.id = row.id /\ row'.state = row.state
      BY <1>15, <2>2 DEF Resolve, RowType
    <3>2. Known("record_image", row')
      BY <1>15, <3>1 DEF Resolve, Known, Copy, IsRollback
    <3> QED BY <2>2, <3>1, <3>2, StepTo
  <2> QED BY <1>15, <2>1, <2>2 DEF Resolve
<1>16. CASE RecordImage
  <2>1. pc = "record_image" => Known("promote", row)
    BY DEF Known, Copy
  <2> QED BY <1>16, <2>1, GotoTo, AbortTo DEF RecordImage
<1>17. CASE Promote
  BY <1>17, MoveTo DEF Promote, Known, Copy, IsRollback, RowType, InFlightStates
<1>18. CASE ReadConfig
  <2>1. CASE \E r \in FailureReasons : Abort(r)
    BY <1>18, <2>1, AbortTo DEF ReadConfig
  <2>2. CASE plan' = DeployConfig(row) /\ pc' = "prepare" /\ UNCHANGED <<loop, row, held, why>>
    <3>1. plan' \in Configs
      <4>1. row.id \in Ids /\ row.id <= created
        BY <1>18 DEF ReadConfig
      <4>2. appOf[row.id] \in Apps
        BY <4>1 DEF LoopInv, StoreInv, LifeInv, Born
      <4>3. config[appOf[row.id]] \in Configs
        BY <4>2 DEF LoopInv, StoreInv, LifeInv, TypeOK
      <4>4. ASSUME IsRollback(row)
            PROVE  releases[appOf[row.id]][source[row.id]] \in Release
        BY <4>1, <4>2, <4>4, ElementOfSeq
        DEF IsRollback, LoopInv, StoreInv, SourcesExist, LifeInv, TypeOK
      <4> QED BY <2>2, <4>3, <4>4 DEF DeployConfig, Release
    <3>2. Known("prepare", row)
      BY <1>18 DEF ReadConfig, Known
    <3>3. \A q \in listing : Copy(q)'
      BY KnownKept DEF LoopInv, LoopFacts
    <3>4. Known(pc, row)'
      BY <2>2, <3>2, KnownKept
    <3> QED BY <2>2, <3>1, <3>3, <3>4 DEF LoopInv, Memory, LoopFacts, passVars
  <2> QED BY <1>18, <2>1, <2>2 DEF ReadConfig
<1>19. CASE Prepare
  BY <1>19, GotoTo, AbortTo DEF Prepare, Known
<1>20. CASE ApplySecret
  BY <1>20, GotoTo, AbortTo DEF ApplySecret, Write, Known
<1>21. CASE Apply
  BY <1>21, GotoTo, AbortTo DEF Apply, Write, Known
<1>22. CASE AwaitReady
  BY <1>22, GotoTo, AbortTo DEF AwaitReady, Known
<1>23. CASE WaitReady
  BY <1>23, WaitTo DEF WaitReady, Wait, Known
<1>24. CASE Mark
  BY <1>24, GotoTo, AbortTo DEF Mark, Known
<1> QED
  BY <1>4, <1>5, <1>6, <1>7, <1>8, <1>9, <1>10, <1>11, <1>12, <1>13, <1>14, <1>15, <1>16,
     <1>17, <1>18, <1>19, <1>20, <1>21, <1>22, <1>23, <1>24

\* Between drives: the loop lists, goes through the listing, and claims.
LEMMA PassMemory ==
  ASSUME LoopInv,
         \/ StartSweep \/ StartTick \/ Sweep \/ Recover \/ ReleaseClaim \/ Expire
         \/ ClaimRow \/ StopBuild \/ RecordFailure \/ Cleanup
  PROVE  Memory' /\ LoopFacts'
<1>1. UNCHANGED <<created, source>>
  BY LoopKeepsBirths DEF LoopStep, birthVars
<1>2. /\ row \in RowType /\ Known(pc, row) /\ plan \in Configs /\ why \in Reasons
      /\ listing \subseteq RowType /\ MaxDeployments \in Nat
      /\ loop \in {"sweep", "idle", "recover", "expire", "claim"} /\ held \in {"no", "yes", "ask"}
      /\ \A r \in listing : Copy(r) /\ Copy(r)'
  BY <1>1, KnownKept, BoundAssumption DEF BoundAssumption, LoopInv, LoopFacts, Memory
<1>3. InitialConfig \in Configs /\ NoRow \in RowType /\ "none" \in Reasons
  BY ConfigAssumption DEF ConfigAssumption, NoRow, RowType, Paths, Reasons
<1>4. {"timeout", "build_failed"} \subseteq FailureReasons /\ FailureReasons \subseteq Reasons
  BY DEF FailureReasons, Reasons
<1>5. \A r \in listing : r.id \in 1..created /\ r.id \in 1..MaxDeployments
  BY <1>2 DEF Copy, LoopInv, StoreInv, LifeInv, TypeOK
<1>6. pc' \in {"sweep", "idle", "recover", "expire", "claim"} => Known(pc, row)'
  BY DEF Known, WorkSteps, DriveSteps, BuildSteps, ComposeSteps
<1>7. \A r \in listing : Known("drive", r)' /\ Known("failing", r)' /\ Known("record", r)'
                         /\ Known("hand_back", r)'
  BY <1>2, <1>5, <1>1
  DEF Known, WorkSteps, DriveSteps, BuildSteps, ComposeSteps
<1> HIDE DEF LoopInv
<1>8. CASE StartSweep \/ StartTick
  <2>1. PICK pass \in {"sweep", "recover"}, skip \in {"idle", "claim"} : List(pass, skip)
    BY <1>8 DEF StartSweep, StartTick
  <2>2. /\ UNCHANGED <<row, held, why, plan>> /\ at' = 1 /\ pc' = loop'
        /\ loop' \in {"sweep", "recover", "idle", "claim"}
        /\ listing' = InFlightRows \/ listing' = {}
    BY <2>1 DEF List
  <2>3. \A r \in InFlightRows : r \in RowType /\ Copy(r)
    BY AnsweredRow DEF InFlightRows, Listed, RowOf, InFlight
  <2>4. \A r \in listing' : Copy(r)'
    BY <2>2, <2>3, <1>1, KnownKept
  <2>5. Known(pc, row)'
    BY <2>2, <1>6
  <2>6. Memory'
    BY <1>2, <2>2, <2>3 DEF Memory, Steps
  <2> QED BY <2>2, <2>4, <2>5, <2>6 DEF LoopFacts
<1>9. CASE Sweep
  <2>1. CASE /\ loop' = "idle" /\ pc' = "idle" /\ listing' = {} /\ at' = 1
             /\ UNCHANGED row
    <3>1. UNCHANGED <<held, why, plan>>
      BY <1>9 DEF Sweep
    <3> QED BY <1>2, <1>6, <2>1, <3>1 DEF Memory, LoopFacts, Steps
  <2>2. ASSUME NEW r \in listing, row' = r, at' = r.id + 1, pc' = "drive",
               UNCHANGED <<listing, loop>>
        PROVE  Memory' /\ LoopFacts'
    <3>1. UNCHANGED <<held, why, plan>>
      BY <1>9 DEF Sweep
    <3>2. Known(pc, row)'
      BY <2>2, <1>7
    <3> QED BY <1>2, <1>5, <2>2, <3>1, <3>2 DEF Memory, LoopFacts, Steps
  <2> QED BY <1>9, <2>1, <2>2 DEF Sweep
<1>10. CASE Recover
  <2>1. UNCHANGED <<listing, held, plan>>
    BY <1>10 DEF Recover
  <2>2. CASE loop' = "expire" /\ pc' = "expire" /\ at' = 1 /\ UNCHANGED <<row, why>>
    BY <1>2, <1>6, <2>1, <2>2 DEF Memory, LoopFacts, Steps
  <2>3. ASSUME NEW r \in listing, at' = r.id + 1, UNCHANGED loop,
               \/ UNCHANGED <<pc, row, why>>
               \/ pc' = "record" /\ row' = r /\ why' = "build_failed"
               \/ pc' = "hand_back" /\ row' = r /\ UNCHANGED why
        PROVE  Memory' /\ LoopFacts'
    <3>1. pc = "recover" /\ loop = pc
      BY <1>10 DEF Recover, LoopInv, LoopFacts
    <3>2. Known(pc, row)'
      BY <2>3, <1>6, <1>7, <3>1
    <3>3. at' \in 1..(MaxDeployments + 1)
      BY <1>2, <1>5, <2>3
    <3> QED BY <1>2, <1>4, <2>1, <2>3, <3>1, <3>2, <3>3 DEF Memory, LoopFacts, Steps
  <2> QED BY <1>10, <2>2, <2>3 DEF Recover
<1>11. CASE Expire
  <2>1. UNCHANGED plan
    BY <1>11 DEF Expire
  <2>2. CASE /\ loop' = "idle" /\ pc' = "claim" /\ listing' = {} /\ at' = 1
             /\ UNCHANGED <<row, why, held>>
    BY <1>2, <1>6, <2>1, <2>2 DEF Memory, LoopFacts, Steps
  <2>3. ASSUME NEW r \in listing, at' = r.id + 1, UNCHANGED <<listing, loop>>,
               \/ row' = r /\ why' = "timeout" /\ held' = "ask" /\ pc' = "failing"
               \/ UNCHANGED <<pc, row, why, held>>
        PROVE  Memory' /\ LoopFacts'
    <3>1. pc = "expire" /\ loop = pc
      BY <1>11 DEF Expire, LoopInv, LoopFacts
    <3>2. Known(pc, row)'
      BY <2>3, <1>6, <1>7, <3>1
    <3>3. at' \in 1..(MaxDeployments + 1)
      BY <1>2, <1>5, <2>3
    <3> QED BY <1>2, <1>4, <2>1, <2>3, <3>1, <3>2, <3>3 DEF Memory, LoopFacts, Steps
  <2> QED BY <1>11, <2>2, <2>3 DEF Expire
<1>12. CASE ClaimRow
  <2>1. loop' = "idle" /\ UNCHANGED <<held, why, plan, listing, at>>
    BY <1>12 DEF ClaimRow, passVars
  <2>2. CASE pc' = "idle" /\ UNCHANGED row
    <3>1. at \in 1..(MaxDeployments + 1)
      BY DEF LoopInv, Memory
    <3> QED BY <1>2, <1>6, <2>1, <2>2, <3>1 DEF Memory, LoopFacts, Steps
  <2>3. ASSUME NEW d \in Ids, ClaimNext(d), row' = RowOf(d), pc' = "drive"
        PROVE  Memory' /\ LoopFacts'
    <3>1. InFlight(d)
      BY <2>3 DEF ClaimNext, NextToClaim, Fresh, Claimable
    <3>2. row' \in RowType /\ Copy(row')
      BY <2>3, <3>1, AnsweredRow
    <3>3. Known("drive", row')
      BY <3>2 DEF Known, Copy, WorkSteps, DriveSteps, BuildSteps, ComposeSteps
    <3>4. Known(pc, row)'
      BY <1>1, <2>3, <3>3, KnownKept
    <3>5. at \in 1..(MaxDeployments + 1)
      BY DEF LoopInv, Memory
    <3> QED BY <1>2, <2>1, <2>3, <3>2, <3>4, <3>5 DEF Memory, LoopFacts, Steps
  <2> QED BY <1>12, <2>2, <2>3 DEF ClaimRow
<1>13. ASSUME Return, why \in Reasons, UNCHANGED passVars
       PROVE  Memory' /\ LoopFacts'
  <2>1. /\ pc' = loop /\ loop' = loop
        /\ row' = NoRow /\ held' = "no" /\ why' = "none" /\ plan' = InitialConfig
    BY <1>13 DEF Return, Forget
  <2>2. Known(pc, row)'
    BY <1>2, <1>6, <2>1
  <2>3. at \in 1..(MaxDeployments + 1)
    BY DEF LoopInv, Memory
  <2> QED BY <1>2, <1>3, <1>13, <2>1, <2>2, <2>3 DEF Memory, LoopFacts, Steps, passVars
<1>14. CASE ReleaseClaim
  BY <1>2, <1>13, <1>14 DEF ReleaseClaim
<1>15. CASE Cleanup
  BY <1>2, <1>13, <1>15 DEF Cleanup, around
<1>16. CASE StopBuild
  <2>1. /\ pc = "failing" /\ pc' = "record" /\ UNCHANGED <<loop, row, held, plan, passVars>>
        /\ why' = IF Spent THEN "timeout" ELSE why
    BY <1>16 DEF StopBuild, around
  <2>2. Known("record", row) /\ why \in FailureReasons
    BY <2>1 DEF Known, LoopInv, LoopFacts, WorkSteps, DriveSteps, BuildSteps, ComposeSteps
  <2> QED BY <1>1, <1>2, <1>4, <2>1, <2>2, StepTo DEF WorkSteps
<1>17. CASE RecordFailure
  <2>1. pc = "record" /\ UNCHANGED passVars
    BY <1>17 DEF RecordFailure, around
  <2>2. Known("cleanup", row)
    BY <2>1, <1>2 DEF Known, WorkSteps, DriveSteps, BuildSteps, ComposeSteps
  <2>3. Return \/ Goto("cleanup")
    BY <1>17 DEF RecordFailure
  <2> QED BY <1>1, <1>2, <1>13, <2>1, <2>2, <2>3, GotoTo DEF WorkSteps
<1> QED
  BY <1>8, <1>9, <1>10, <1>11, <1>12, <1>14, <1>15, <1>16, <1>17

-----------------------------------------------------------------------------
(* The world around the loop.                                              *)

JobType == [ns : {"none", "build", "buildkit"},
            st : {"created", "pending", "running", "succeeded", "failed", "gone"}]

\* A change of one Job's status keeps the Jobs' type.
LEMMA JobUpdate ==
  ASSUME jobs \in [Ids -> JobType], NEW d \in Ids,
         NEW st \in {"created", "pending", "running", "succeeded", "failed", "gone"}
  PROVE  [jobs EXCEPT ![d].st = st] \in [Ids -> JobType]
  BY DEF JobType

\* A change of one app's objects keeps their types.
LEMMA ObjectUpdates ==
  ASSUME workload \in [Apps -> WorkloadType], NEW a \in Apps
  PROVE  /\ \A cfg \in Configs : [workload EXCEPT ![a].secret = cfg] \in [Apps -> WorkloadType]
         /\ \A up \in BOOLEAN : [workload EXCEPT ![a].up = up] \in [Apps -> WorkloadType]
         /\ \A cfg \in Configs : \A image \in Ids \cup {0} :
              Composed(a, image, cfg) \in [Apps -> WorkloadType]
         /\ Nothing \in WorkloadType
<1>1. ASSUME NEW cfg \in Configs, NEW image \in Ids \cup {0}
      PROVE  Composed(a, image, cfg) \in [Apps -> WorkloadType]
  <2>1. Composed(a, image, cfg)[a]
          = [image |-> image, config |-> cfg, secret |-> workload[a].secret, up |-> TRUE]
    BY DEF WorkloadType, Composed
  <2>2. \A b \in Apps \ {a} : Composed(a, image, cfg)[b] = workload[b]
    BY DEF Composed
  <2>3. Composed(a, image, cfg) = [b \in Apps |-> Composed(a, image, cfg)[b]]
    BY DEF Composed
  <2>4. Composed(a, image, cfg)[a] \in WorkloadType
    BY <2>1 DEF WorkloadType
  <2> QED BY <2>2, <2>3, <2>4
<1>2. /\ \A cfg \in Configs : [workload EXCEPT ![a].secret = cfg] \in [Apps -> WorkloadType]
      /\ \A up \in BOOLEAN : [workload EXCEPT ![a].up = up] \in [Apps -> WorkloadType]
  BY DEF WorkloadType
<1>3. Nothing \in WorkloadType
  BY ConfigAssumption DEF ConfigAssumption, Nothing, WorkloadType
<1> QED BY <1>1, <1>2, <1>3

\* Every step keeps the types of what it writes around the loop.
LEMMA StepWorld == LoopInv /\ [Next]_vars => World'
<1> SUFFICES ASSUME LoopInv, [Next]_vars PROVE World'
  OBVIOUS
<1>1. World /\ row.id \in Ids \cup {0} /\ row.digest \in Ids \cup {0} /\ plan \in Configs
  BY DEF LoopInv, Memory, RowType
<1>2. CASE UNCHANGED <<overdue, suspended, holding, scales, jobs, tokenOf, refused, redeemed,
                      tarballs, namespaces, workload, pods>>
  BY <1>1, <1>2 DEF World
<1>0. /\ jobs \in [Ids -> JobType] /\ workload \in [Apps -> WorkloadType]
      /\ pods \in [Apps -> WorkloadType]
  BY <1>1 DEF World, JobType
<1>i. pc \in WorkSteps => row.id \in Ids /\ appOf[row.id] \in Apps
  BY BoundAssumption
  DEF BoundAssumption, LoopInv, LoopFacts, Known, StoreInv, LifeInv, TypeOK, Ids, Born
<1>a. {"create", "credential", "prepare", "secret", "apply", "failing"} \subseteq WorkSteps
  BY DEF WorkSteps, DriveSteps, BuildSteps, ComposeSteps
<1> USE DEF around, beside, hostVars, adminVars, jobVars, podVars
<1>3. CASE StartSweep \/ StartTick \/ Sweep \/ Recover \/ ReleaseClaim \/ Expire \/ ClaimRow
  BY <1>2, <1>3 DEF StartSweep, StartTick, List, Sweep, Recover, ReleaseClaim, Expire, ClaimRow
<1>4. CASE Drive \/ Gate \/ Start \/ Detect \/ RecordStart \/ AwaitBuild \/ WaitBuild \/ Pushed
           \/ Resolve \/ RecordImage \/ Promote \/ ReadConfig \/ AwaitReady \/ WaitReady
           \/ Mark \/ RecordFailure
  BY <1>2, <1>4 DEF Drive, Gate, Start, Detect, RecordStart, AwaitBuild, WaitBuild, Wait,
     Pushed, Resolve, RecordImage, Promote, ReadConfig, AwaitReady, WaitReady, Mark, RecordFailure
<1>5. CASE Mint
  <2>1. tokenOf' \in [Uploads -> Ids \cup {0}]
    BY <1>1, <1>5 DEF Mint, World
  <2> QED BY <1>1, <1>5, <2>1 DEF Mint, World
<1>6. CASE Create \/ Credential \/ StopBuild
  <2>1. jobs' \in [Ids -> JobType]
    <3>1. [ns |-> BuildNamespace(row), st |-> "created"] \in JobType
      BY DEF BuildNamespace, JobType
    <3>2. pc = "failing" => DeleteJob(BuildNamespace(row), row.id) \in [Ids -> JobType]
      BY <1>0, <1>i, <1>a, JobUpdate DEF DeleteJob
    <3>4. CASE Create
      BY <1>0, <3>1, <3>4 DEF Create
    <3>5. CASE Credential
      BY <1>0, <1>i, <1>a, <3>5, JobUpdate DEF Credential
    <3>6. CASE StopBuild
      BY <1>0, <3>2, <3>6 DEF StopBuild
    <3> QED BY <1>6, <3>4, <3>5, <3>6
  <2>2. UNCHANGED <<overdue, suspended, holding, scales, tokenOf, refused, redeemed,
                    tarballs, namespaces, workload, pods>>
    BY <1>6 DEF Create, Credential, StopBuild
  <2> QED BY <1>1, <2>1, <2>2 DEF World, JobType
<1>7. CASE Prepare
  <2>1. namespaces' \subseteq Apps
    BY <1>1, <1>i, <1>a, <1>7 DEF Prepare, EnsureNamespace, World
  <2> QED BY <1>1, <1>7, <2>1 DEF Prepare, World
<1>8. CASE ApplySecret \/ Apply
  <2>1. \/ workload' = workload
        \/ workload' = [workload EXCEPT ![appOf[row.id]].secret = plan]
        \/ workload' = Composed(appOf[row.id], row.digest, plan)
    BY <1>8 DEF ApplySecret, Apply, Write
  <2>2. workload' \in [Apps -> WorkloadType]
    BY <1>0, <1>1, <1>i, <1>a, <1>8, <2>1, ObjectUpdates DEF ApplySecret, Apply
  <2>3. UNCHANGED <<overdue, suspended, holding, scales, jobs, tokenOf, refused, redeemed,
                    tarballs, namespaces, pods>>
    BY <1>8 DEF ApplySecret, Apply, Write
  <2> QED BY <1>1, <2>2, <2>3 DEF World
<1>9. CASE Cleanup
  <2>1. tarballs' \subseteq Uploads
    BY <1>1, <1>9 DEF Cleanup, World
  <2> QED BY <1>1, <1>9, <2>1 DEF Cleanup, World
<1>10. CASE ReapOrphanNamespaces \/ TearDown
  <2>1. /\ namespaces' \subseteq namespaces
        /\ workload' \in [Apps -> WorkloadType] /\ pods' \in [Apps -> WorkloadType]
    BY <1>0, <1>10, ObjectUpdates DEF ReapOrphanNamespaces, TearDown
  <2>2. UNCHANGED <<overdue, suspended, holding, scales, jobs, tokenOf, refused, redeemed,
                    tarballs>>
    BY <1>10 DEF ReapOrphanNamespaces, TearDown
  <2> QED BY <1>1, <2>1, <2>2 DEF World
<1>11. CASE StoreCall
  BY <1>2, <1>11 DEF StoreCall
<1>12. CASE SetDisabled \/ SweepSuspended
  <2>1. suspended' \subseteq Apps /\ holding' \subseteq Apps
    BY <1>1, <1>12 DEF SetDisabled, SweepSuspended, ToHold, World
  <2>2. scales' \subseteq Apps \X BOOLEAN
    <3>1. CASE UNCHANGED scales
      BY <1>1, <3>1 DEF World
    <3>2. CASE SetDisabled /\ ~UNCHANGED scales
      <4>1. PICK a \in Apps, on \in BOOLEAN : scales' = scales \cup {<<a, ~on>>}
        BY <3>2 DEF SetDisabled
      <4>2. (~on) \in BOOLEAN
        BY Zenon
      <4>3. PICK up \in BOOLEAN : scales' = scales \cup {<<a, up>>}
        BY <4>1, <4>2, Zenon
      <4>4. scales \subseteq Apps \X BOOLEAN
        BY <1>1 DEF World
      <4> QED BY <4>3, <4>4
    <3> QED BY <1>12, <3>1, <3>2 DEF SweepSuspended
  <2>3. UNCHANGED <<overdue, jobs, tokenOf, refused, redeemed, tarballs, namespaces,
                    workload, pods>>
    BY <1>12 DEF SetDisabled, SweepSuspended
  <2> QED BY <1>1, <2>1, <2>2, <2>3 DEF World
<1>13. CASE Scale
  <2>1. workload' = workload \/ \E a \in Apps, up \in BOOLEAN : ScaleWorkload(a, up)
    BY <1>1, <1>13 DEF Scale, World
  <2>2. workload' \in [Apps -> WorkloadType]
    BY <1>0, <2>1, ObjectUpdates DEF ScaleWorkload
  <2>3. scales' \subseteq scales /\ holding' \subseteq holding
    BY <1>13 DEF Scale
  <2>4. UNCHANGED <<overdue, suspended, jobs, tokenOf, refused, redeemed, tarballs,
                    namespaces, pods>>
    BY <1>13 DEF Scale
  <2> QED BY <1>1, <2>2, <2>3, <2>4 DEF World
<1>14. CASE JobStep
  <2>1. PICK d \in Ids : \/ JobFetch(d)
                         \/ JobEnds(d, {"running"}, "succeeded")
                         \/ JobEnds(d, {"created", "pending", "running"}, "failed")
                         \/ JobEnds(d, {"succeeded", "failed"}, "gone")
    BY <1>14 DEF JobStep
  <2>2. jobs' \in [Ids -> JobType]
    <3>1. PICK st \in {"running", "failed", "succeeded", "gone"} :
             jobs' = [jobs EXCEPT ![d].st = st]
      BY <2>1 DEF JobFetch, JobEnds
    <3>2. [jobs EXCEPT ![d].st = st] \in [Ids -> JobType]
      BY <1>0, JobUpdate
    <3> QED BY <3>1, <3>2
  <2>3. jobs[d].st = "pending" => upload[d] \in Uploads
    BY DEF LoopInv, JobsAreBuilds, StoreInv, SourcesExist
  <2>4. redeemed \subseteq redeemed' /\ redeemed' \subseteq Uploads
    BY <1>1, <2>1, <2>3 DEF JobFetch, JobEnds, World
  <2>5. UNCHANGED <<overdue, suspended, holding, scales, tokenOf, refused, tarballs,
                    namespaces, workload, pods>>
    BY <1>14 DEF JobStep
  <2> QED BY <1>1, <2>2, <2>4, <2>5 DEF World, JobType
<1>15. CASE Rollout
  <2>1. pods' \in [Apps -> WorkloadType]
    <3>2. PICK a \in Apps : \/ pods' = [pods EXCEPT ![a] = workload[a]]
                            \/ pods' = [pods EXCEPT ![a] = Nothing]
                            \/ pods' = [pods EXCEPT ![a].secret = workload[a].secret]
      BY <1>15 DEF Rollout
    <3>3. [pods EXCEPT ![a].secret = workload[a].secret] \in [Apps -> WorkloadType]
      BY <1>0 DEF WorkloadType
    <3> QED BY <1>0, <3>2, <3>3, ObjectUpdates
  <2> QED BY <1>1, <1>15, <2>1 DEF Rollout, World
<1>16. CASE BudgetRunsOut
  <2>1. overdue' \subseteq Ids
    BY <1>1, <1>16, BoundAssumption
    DEF BoundAssumption, BudgetRunsOut, World, LoopInv, StoreInv, LifeInv, TypeOK, Ids
  <2> QED BY <1>1, <1>16, <2>1 DEF BudgetRunsOut, World
<1>17. CASE Crash \/ Exit
  BY <1>1, <1>17 DEF Crash, Exit, Die, World
<1>18. CASE Shutdown \/ UNCHANGED vars
  BY <1>2, <1>18 DEF Shutdown, vars
<1> QED
  BY <1>3, <1>4, <1>5, <1>6, <1>7, <1>8, <1>9, <1>10, <1>11, <1>12, <1>13, <1>14, <1>15,
     <1>16, <1>17, <1>18 DEF Next, LoopStep

\* The life of a build Job: the loop creates it for the row in its hand, and from
\* then on it only gets further; one that ended is only ever collected.
JobMoves(was, is) ==
  /\ was.st # "gone" /\ is.ns = was.ns
  /\ was.st \in {"succeeded", "failed"} => is.st = "gone"
  /\ is.st \in {"pending", "running", "succeeded", "failed", "gone"}
  /\ is.st = "pending" => was.st = "created"
  /\ is.st = "running" => was.st = "pending"

\* A step leaves a build's Job alone, creates it for the row in hand, or moves it on;
\* only the drive of its row lets its pod start.
LEMMA JobLife ==
  ASSUME LoopInv, [Next]_vars, NEW d \in Ids
  PROVE  \/ jobs'[d] = jobs[d]
         \/ pc = "create" /\ d = row.id /\ jobs'[d] = [ns |-> BuildNamespace(row), st |-> "created"]
         \/ /\ JobMoves(jobs[d], jobs'[d])
            /\ jobs'[d].st = "pending" => Credential /\ d = row.id
<1>1. jobs \in [Ids -> JobType]
  BY DEF LoopInv, World, JobType
<1>2. CASE UNCHANGED jobs
  BY <1>2
<1> USE DEF around, beside, jobVars
<1>3. CASE StartSweep \/ StartTick \/ Sweep \/ Recover \/ ReleaseClaim \/ Expire \/ ClaimRow
  BY <1>2, <1>3 DEF StartSweep, StartTick, List, Sweep, Recover, ReleaseClaim, Expire, ClaimRow
<1>4. CASE Drive \/ Gate \/ Start \/ Detect \/ Mint \/ RecordStart \/ AwaitBuild \/ WaitBuild
           \/ Pushed \/ Resolve \/ RecordImage \/ Promote \/ ReadConfig
  BY <1>2, <1>4 DEF Drive, Gate, Start, Detect, Mint, RecordStart, AwaitBuild, WaitBuild, Wait,
     Pushed, Resolve, RecordImage, Promote, ReadConfig
<1>5. CASE Prepare \/ ApplySecret \/ Apply \/ AwaitReady \/ WaitReady \/ Mark
           \/ RecordFailure \/ Cleanup
  BY <1>2, <1>5 DEF Prepare, ApplySecret, Apply, Write, AwaitReady, WaitReady, Wait, Mark,
     RecordFailure, Cleanup
<1>6. CASE Create
  BY <1>1, <1>6 DEF Create
<1>7. CASE Credential
  BY <1>1, <1>7 DEF Credential, JobType, JobMoves
<1>8. CASE StopBuild
  BY <1>1, <1>8 DEF StopBuild, DeleteJob, JobType, JobMoves
<1>9. CASE ReapOrphanNamespaces \/ StoreCall \/ TearDown \/ SetDisabled \/ SweepSuspended \/ Scale
  BY <1>2, <1>9 DEF ReapOrphanNamespaces, StoreCall, TearDown, SetDisabled, SweepSuspended, Scale
<1>10. CASE JobStep
  BY <1>1, <1>10 DEF JobStep, JobFetch, JobEnds, JobType, JobMoves
<1>11. CASE Rollout \/ BudgetRunsOut \/ Crash \/ Exit \/ Shutdown \/ UNCHANGED vars
  BY <1>2, <1>11 DEF Rollout, BudgetRunsOut, Crash, Exit, Die, Shutdown, vars
<1> QED
  BY <1>3, <1>4, <1>5, <1>6, <1>7, <1>8, <1>9, <1>10, <1>11 DEF Next, LoopStep

\* A Job is created for the row in hand, which is then in building.
LEMMA StepJobs == LoopInv /\ [Next]_vars => JobsAreBuilds'
<1> SUFFICES ASSUME LoopInv, [Next]_vars, NEW d \in Ids, jobs'[d].st # "gone"
             PROVE  d <= created' /\ source'[d] = 0
  BY DEF JobsAreBuilds
<1>1. CASE jobs[d].st # "gone"
  <2>1. d <= created /\ source[d] = 0
    BY <1>1 DEF LoopInv, JobsAreBuilds
  <2> QED BY <2>1, LoopCalls, StepBirths DEF LoopInv, StoreInv, Ids
<1>2. CASE pc = "create" /\ d = row.id
  <2>1. d <= created /\ source[d] = 0
    BY <1>2 DEF LoopInv, LoopFacts, Known, Copy, IsRollback, WorkSteps, DriveSteps, BuildSteps
  <2> QED BY <2>1, LoopCalls, StepBirths DEF LoopInv, StoreInv, Ids
<1> QED BY <1>1, <1>2, JobLife DEF JobMoves

-----------------------------------------------------------------------------
(* The loop's invariant.                                                   *)

\* The steps that write a row's state or image are the moves of a drive, the end
\* of one, RecordImage, and the handlers' calls.
LEMMA QuietSteps ==
  ASSUME LoopInv, [Next]_vars,
         ~Start, ~Pushed, ~Promote, ~RecordImage, ~Mark, ~RecordFailure, ~StoreCall
  PROVE  UNCHANGED <<state, digest, reason, birthVars, releases, current, deleted>>
<1> USE DEF storeVars, rowVars, appVars
<1>1. CASE UNCHANGED storeVars
  BY <1>1
<1>2. CASE RecordStart
  BY <1>2 DEF RecordStart, RecordBuildResult, LoopInv, StoreInv, LifeInv, TypeOK
<1>3. CASE ReleaseClaim \/ ClaimRow
  BY <1>3 DEF ReleaseClaim, ReleaseBuildingClaim, ClaimRow, ClaimNext
<1>4. CASE StartSweep \/ StartTick \/ Sweep \/ Recover \/ Expire \/ Drive \/ Gate \/ Detect \/ Mint
  BY <1>4 DEF StartSweep, StartTick, List, Sweep, Recover, Expire, Drive, Gate, Detect, Mint
<1>5. CASE Create \/ Credential \/ AwaitBuild \/ WaitBuild \/ Resolve \/ ReadConfig \/ Prepare
           \/ ApplySecret \/ Apply \/ AwaitReady \/ WaitReady \/ StopBuild \/ Cleanup
  BY <1>5 DEF Create, Credential, AwaitBuild, WaitBuild, Wait, Resolve, ReadConfig, Prepare,
     ApplySecret, Apply, Write, AwaitReady, WaitReady, StopBuild, Cleanup
<1>6. CASE ReapOrphanNamespaces \/ TearDown \/ SetDisabled \/ SweepSuspended \/ Scale
           \/ JobStep \/ Rollout \/ BudgetRunsOut \/ Crash \/ Exit \/ Shutdown \/ UNCHANGED vars
  BY <1>6 DEF ReapOrphanNamespaces, TearDown, SetDisabled, SweepSuspended, Scale,
     JobStep, Rollout, BudgetRunsOut, Crash, Exit, Die, Shutdown, vars
<1> QED
  BY <1>2, <1>3, <1>4, <1>5, <1>6 DEF Next, LoopStep

\* What a move of the row in hand does to the tables.
MovesRow(to) ==
  /\ InFlight(row.id) /\ to \in Allowed[state[row.id]]
  /\ state' = [state EXCEPT ![row.id] = to]
  /\ UNCHANGED <<created, appOf, upload, source, digest, deleted>>

KeepsRows == UNCHANGED <<state, created, appOf, upload, source, digest, deleted>>

\* The drive's own copy learns of it, and the drive goes on; or it ends.
Advances(to, step) ==
  \/ MovesRow(to) /\ pc' = step /\ row' = [row EXCEPT !.state = to]
  \/ KeepsRows /\ pc' \in {"cleanup", "failing"} /\ row' = row

\* The steps that move it, each with the state it asks for and where it goes next.
LEMMA MovingSteps ==
  ASSUME LoopInv
  PROVE  /\ Start   => Advances("building", "detect")
         /\ Pushed  => Advances("pushing", "gate")
         /\ Promote => Advances("deploying", "gate")
         /\ Mark    => (MovesRow("healthy") \/ KeepsRows) /\ pc' \in {"cleanup", "failing"}
         /\ RecordFailure => (MovesRow("failed") \/ KeepsRows) /\ pc' \notin DriveSteps
<1> USE DEF storeVars, rowVars, birthVars, appVars, KeepsRows, MovesRow
<1>1. \A to, step : Move(to, step) => Advances(to, step)
  BY DEF Advances, Move, Transition, CanMove, ApplyTransition, Goto, Abort
<1>2. Mark => (MovesRow("healthy") \/ KeepsRows) /\ pc' \in {"cleanup", "failing"}
  BY DEF Mark, MarkHealthy, CanMove, ApplyTransition, Goto, Abort
<1>3. RecordFailure => MovesRow("failed") \/ KeepsRows
  BY DEF RecordFailure, Transition, CanMove, ApplyTransition
<1>4. RecordFailure => pc' \in {"cleanup", "recover"}
  BY DEF RecordFailure, Return, Forget, Goto
<1>5. {"cleanup", "recover"} \cap DriveSteps = {}
  BY DEF DriveSteps, BuildSteps, ComposeSteps
<1> QED BY <1>1, <1>2, <1>3, <1>4, <1>5 DEF Start, Pushed, Promote

\* A handler's call changes no row but the app's it deploys, whose row in flight
\* is cancelled and whose next one is queued.
LEMMA HandlerCalls ==
  ASSUME LoopInv, StoreCall
  PROVE  \/ \E a \in Apps : Inserts(a)
         \/ /\ UNCHANGED <<state, created, appOf, upload, source, digest>>
            /\ \/ deleted' = deleted
               \/ \E a \in Apps : Deletable(a) /\ deleted' = deleted \cup {a}
<1>1. CASE CallDeploy
  BY <1>1 DEF CallDeploy, Inserts
<1>2. CASE CallRollback
  <2>1. PICK a \in Apps : \E n \in 1..Len(releases[a]) : CreateDeployment(a, NoUpload, n)
    BY <1>2 DEF CallRollback, ReleaseNumbers
  <2>2. PICK n \in 1..Len(releases[a]) : CreateDeployment(a, NoUpload, n)
    BY <2>1
  <2>3. n \in Nat
    BY DEF LoopInv, StoreInv, LifeInv, TypeOK
  <2> QED BY <2>2, <2>3 DEF Inserts
<1>3. CASE CallDelete \/ CallSetConfig
  BY <1>3 DEF CallDelete, SoftDeleteApp, CallSetConfig, SetConfig, rowVars, birthVars
<1> QED BY <1>1, <1>2, <1>3 DEF StoreCall

\* An insert, seen from the rows.
InsertsRow(a, new) ==
  /\ new = created + 1 /\ created' = new /\ a \notin deleted /\ deleted' = deleted
  /\ state[new] = "absent" /\ state'[new] = "queued" /\ appOf'[new] = a
  /\ \A d \in Ids \ {new} :
       /\ appOf'[d] = appOf[d] /\ source'[d] = source[d] /\ upload'[d] = upload[d]
       /\ digest'[d] = digest[d]
       /\ state'[d] = IF d \in InFlightOf(a) THEN "cancelled" ELSE state[d]

\* A deploy or a rollback inserts one row and ends the one in flight.
LEMMA InsertsOneRow ==
  ASSUME LoopInv, NEW a \in Apps, Inserts(a)
  PROVE  \E new \in Ids : InsertsRow(a, new)
<1>1. PICK u \in Uploads \cup {NoUpload}, n \in Nat : CreateDeployment(a, u, n)
  BY DEF Inserts
<1>2. PICK new \in Ids : new = created + 1
  BY <1>1, BoundAssumption
  DEF BoundAssumption, CreateDeployment, LoopInv, StoreInv, LifeInv, TypeOK, Ids
<1>3. state[new] = "absent" /\ new \notin InFlightOf(a)
  BY <1>2 DEF LoopInv, StoreInv, LifeInv, Born, TypeOK, Ids, InFlightOf, InFlight, InFlightStates
<1>4. InsertsRow(a, new)
  BY <1>1, <1>2, <1>3
  DEF InsertsRow, CreateDeployment, Superseded, Live, Queued, appVars,
      LoopInv, StoreInv, LifeInv, TypeOK
<1> QED BY <1>4

\* Only a drive moves a row to building or pushing, and never a rollback's.
LEMMA StepRollbacks == LoopInv /\ [Next]_vars => RollbacksSkipTheBuild'
<1> SUFFICES ASSUME LoopInv, [Next]_vars PROVE RollbacksSkipTheBuild'
  OBVIOUS
<1> USE DEF RollbacksSkipTheBuild
<1>1. RollbacksSkipTheBuild
  BY DEF LoopInv
<1>2. CASE UNCHANGED <<state, source>>
  BY <1>1, <1>2
<1>3. CASE StoreCall
  <2>1. CASE \E a \in Apps : Inserts(a)
    <3>1. PICK a \in Apps, new \in Ids : InsertsRow(a, new)
      BY <2>1, InsertsOneRow
    <3> QED BY <1>1, <3>1 DEF InsertsRow
  <2> QED BY <1>2, <1>3, <2>1, HandlerCalls
<1>4. CASE Start \/ Pushed \/ Promote \/ Mark \/ RecordFailure
  <2>1. CASE KeepsRows
    BY <1>2, <2>1 DEF KeepsRows
  <2>2. CASE (Start /\ MovesRow("building")) \/ (Pushed /\ MovesRow("pushing"))
    <3>1. pc = "start" \/ pc = "pushed"
      BY <2>2 DEF Start, Pushed
    <3>2. source[row.id] = 0
      BY <3>1 DEF LoopInv, LoopFacts, Known, Copy, IsRollback, DriveSteps, BuildSteps
    <3>3. state' = [state EXCEPT ![row.id] = "building"] \/ state' = [state EXCEPT ![row.id] = "pushing"]
      BY <2>2 DEF MovesRow
    <3>4. source' = source
      BY <2>2 DEF MovesRow
    <3> QED BY <1>1, <3>2, <3>3, <3>4 DEF LoopInv, StoreInv, LifeInv, TypeOK
  <2>3. CASE MovesRow("deploying") \/ MovesRow("healthy") \/ MovesRow("failed")
    BY <1>1, <2>3 DEF MovesRow, LoopInv, StoreInv, LifeInv, TypeOK
  <2> QED BY <1>4, <2>1, <2>2, <2>3, MovingSteps DEF Advances
<1>5. CASE RecordImage
  BY <1>2, <1>5 DEF RecordImage, RecordBuildResult, storeVars, rowVars, birthVars
<1> QED BY <1>2, <1>3, <1>4, <1>5, QuietSteps DEF birthVars

\* Beside the loop nothing touches its memory, and what its copies say of their
\* rows' births stays true as rows are added; a process that dies forgets it all.
LEMMA SideMemory ==
  ASSUME LoopInv,
         \/ ReapOrphanNamespaces \/ StoreCall \/ TearDown \/ SetDisabled \/ SweepSuspended
         \/ Scale \/ JobStep \/ Rollout \/ BudgetRunsOut \/ Crash \/ Shutdown \/ Exit
         \/ UNCHANGED vars
  PROVE  Memory' /\ LoopFacts'
<1>1. CASE Die
  <2>1. Known("down", NoRow)'
    BY DEF Known, WorkSteps, DriveSteps, BuildSteps, ComposeSteps
  <2>2. InitialConfig \in Configs /\ NoRow \in RowType /\ "none" \in Reasons
        /\ 1 \in 1..(MaxDeployments + 1)
    BY ConfigAssumption, BoundAssumption
    DEF ConfigAssumption, BoundAssumption, NoRow, RowType, Paths, Reasons
  <2> QED BY <1>1, <2>1, <2>2 DEF Die, Forget, LoopInv, Memory, LoopFacts, Steps
<1>2. CASE UNCHANGED <<loopVars, passVars>>
  <2>1. [AnyCall]_storeVars
    BY LoopCalls DEF Next
  <2>2. created' >= created /\ \A d \in 1..created : source'[d] = source[d]
    BY <2>1, StepBirths, BoundAssumption
    DEF BoundAssumption, LoopInv, StoreInv, LifeInv, TypeOK, Ids
  <2>3. created \in Nat /\ created' \in Nat
    BY <2>1, StepBirths DEF LoopInv, StoreInv
  <2>4. ASSUME NEW r, Copy(r) PROVE Copy(r)'
    BY <2>2, <2>3, <2>4 DEF Copy, IsRollback
  <2>5. ASSUME NEW step, NEW r, Known(step, r) PROVE Known(step, r)'
    <3>1. step \in WorkSteps => r.id \in 1..created /\ (IsRollback(r)' <=> IsRollback(r))
      BY <2>2, <2>3, <2>5 DEF Known, IsRollback
    <3>2. step \in WorkSteps => r.id \in 1..created'
      BY <2>2, <2>3, <3>1
    <3> QED BY <2>4, <2>5, <3>1, <3>2
        DEF Known, WorkSteps, DriveSteps, BuildSteps, ComposeSteps
  <2>6. Known(pc, row)'
    BY <1>2, <2>5 DEF LoopInv, LoopFacts, loopVars
  <2> QED BY <1>2, <2>4, <2>6 DEF LoopInv, Memory, LoopFacts, loopVars, passVars
<1> QED
  BY <1>1, <1>2
  DEF ReapOrphanNamespaces, StoreCall, TearDown, SetDisabled, SweepSuspended, Scale, JobStep,
      Rollout, BudgetRunsOut, Crash, Shutdown, Exit, vars, around

\* LoopInv is inductive.
LEMMA InitLoopInv == Init => LoopInv
<1> SUFFICES ASSUME Init PROVE LoopInv
  OBVIOUS
<1>1. StoreInv
  BY InitStoreInv DEF Init
<1>2. InitialConfig \in Configs /\ NoRow \in RowType /\ NoJob.st = "gone"
      /\ NoJob \in JobType /\ Nothing \in WorkloadType /\ 1 \in 1..(MaxDeployments + 1)
  BY ConfigAssumption, BoundAssumption
  DEF ConfigAssumption, BoundAssumption, NoRow, RowType, Paths, NoJob, JobType, Nothing,
      WorkloadType
<1>3. Memory
  BY <1>2 DEF Init, Memory, Steps, Reasons
<1>4. World
  BY <1>2 DEF Init, World, JobType
<1>5. LoopFacts /\ JobsAreBuilds
  BY <1>2 DEF Init, LoopFacts, Known, JobsAreBuilds, WorkSteps, DriveSteps, BuildSteps,
     ComposeSteps
<1>6. RollbacksSkipTheBuild
  BY DEF Init, StoreInit, RollbacksSkipTheBuild
<1> QED BY <1>1, <1>3, <1>4, <1>5, <1>6 DEF LoopInv

\* No step of the loop, of a handler or of the cluster breaks the invariant.
LEMMA StepLoopInv == LoopInv /\ [Next]_vars => LoopInv'
<1> SUFFICES ASSUME LoopInv, [Next]_vars PROVE LoopInv'
  OBVIOUS
<1>1. StoreInv'
  BY LoopCalls, StepStoreInv DEF LoopInv
<1>2. Memory' /\ LoopFacts'
  BY DriveMemory, PassMemory, SideMemory DEF Next, LoopStep
<1> QED BY <1>1, <1>2, StepWorld, StepRollbacks, StepJobs DEF LoopInv

\* What the loop, the handlers and the cluster do together keeps the invariant,
\* whatever fails, dies or is stopped.
LEMMA LoopInvariant == Spec => []LoopInv
  BY InitLoopInv, StepLoopInv, PTL DEF Spec

\* The loop's memory and everything around it keep their types.
THEOREM ReconcilerTypeCorrect == Spec => []ReconcilerTypeOK
<1>1. LoopInv => ReconcilerTypeOK
  BY DEF LoopInv, Memory, World, ReconcilerTypeOK
<1> QED BY <1>1, LoopInvariant, PTL

\* Composed with the loop and the handlers, the deployment tables still implement
\* their contract, and end no row twice: the loop asks for no move the store does
\* not allow.
THEOREM LoopImplementsContract == Spec => ContractSpec
<1>1. LoopInv /\ [Next]_vars => [Contract!Next]_(Contract!vars)
  BY LoopCalls, StepContract DEF LoopInv
<1>2. Init => Contract!Init
  BY InitContract DEF Init
<1> QED BY <1>1, <1>2, LoopInvariant, PTL DEF Spec, ContractSpec, Contract!Spec

=============================================================================
