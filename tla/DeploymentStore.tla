--------------------------- MODULE DeploymentStore ---------------------------
(***************************************************************************)
(* The deployment tables of the platform's SQLite store                    *)
(* (src/internal/store/deployments.go and queries/deployments.sql): the    *)
(* deployments, deployment_events, releases and apps rows and the          *)
(* transactions that write them.  Every transaction opens with BEGIN       *)
(* IMMEDIATE, so each one is a single step here; a call the store refuses  *)
(* writes nothing and is a step that is not enabled.                       *)
(*                                                                         *)
(* StoreNext lets any caller make any call in any order: what holds here   *)
(* holds by the transactions alone.  Module Reconciler composes the same   *)
(* transactions with the loop and the cluster that drive them.             *)
(*                                                                         *)
(* A deployment's id is its place in creation order (ids are monotonic     *)
(* ULIDs, and the queries that matter order by id).  Left out: timestamps, *)
(* claimed_by, image_repo (a function of the slug), the event's detail.    *)
(***************************************************************************)
EXTENDS Naturals, Sequences, FiniteSets

CONSTANTS
  Apps,            \* the apps rows
  NoApp,           \* the app_id of a deployment row that does not exist yet
  Configs,         \* whole configurations an app can have
  InitialConfig,   \* the configuration an app is created with
  Uploads,         \* the uploads rows
  NoUpload,        \* the NULL upload_id of a rollback
  Engines,         \* the build paths the open environment records
  FailureCodes,    \* the reasons the open environment ends a row with
  MaxDeployments   \* bound: how many deployments are ever created

ASSUME ConfigAssumption == InitialConfig \in Configs
ASSUME AppAssumption    == NoApp \notin Apps
ASSUME UploadAssumption == NoUpload \notin Uploads
ASSUME BoundAssumption  == MaxDeployments \in Nat

Ids      == 1..MaxDeployments
Queued   == "queued"
InFlightStates == {"queued", "building", "pushing", "deploying"}
Terminal == {"healthy", "failed", "cancelled"}
States   == InFlightStates \cup Terminal

\* domain.Reason: the codes a deployment can end on (the others refuse a call).
FailureReasons ==
  {"upload_invalid", "source_rejected", "build_failed", "build_no_digest",
   "image_runs_as_root", "app_never_ready", "timeout", "internal",
   "account_suspended"}

\* build.Path, "" until the column is written.
Paths == {"", "buildpacks", "dockerfile"}

ASSUME EngineAssumption == Engines \subseteq Paths
ASSUME CodeAssumption == FailureCodes \subseteq FailureReasons
Reasons == FailureReasons \cup {"superseded", "none"}

\* A release row: the deployment that minted it, its image, its snapshot.
Release == [dep : Ids, digest : Ids, config : Configs]

VARIABLES
  created,   \* the newest deployment id
  state,     \* deployments.state, "absent" before the row exists
  appOf,     \* deployments.app_id
  upload,    \* deployments.upload_id
  source,    \* deployments.source_release_id as a release number, 0 for NULL
  reason,    \* deployments.failure_reason
  claimed,   \* the rows whose claimed_at is set
  path,      \* deployments.build_path
  job,       \* the rows whose build_job_name is set
  digest,    \* deployments.image_digest: the build whose image it is, 0 for NULL
  events,    \* deployment_events: the to_state of each event, in order
  releases,  \* releases of each app, by release number
  current,   \* apps.current_release_id, as a release number
  config,    \* app_config: the whole table of one app
  deleted    \* the apps whose deleted_at is set

rowVars   == <<state, reason, claimed, path, job, digest, events>>
birthVars == <<created, appOf, upload, source>>
appVars   == <<releases, current, config, deleted>>
storeVars == <<rowVars, birthVars, appVars>>

InFlight(d) == state[d] \in InFlightStates

InFlightOf(a) == {d \in Ids : appOf[d] = a /\ InFlight(d)}

\* domain.allowed, the whole transition table.
Allowed ==
  [s \in States |->
     CASE s = "queued"    -> {"building", "deploying", "failed", "cancelled"}
       [] s = "building"  -> {"pushing", "failed", "cancelled"}
       [] s = "pushing"   -> {"deploying", "failed", "cancelled"}
       [] s = "deploying" -> {"healthy", "failed", "cancelled"}
       [] s \in Terminal  -> {}]

\* A bug: a failure is written whatever the row's state.
CanMove_FailAlways(d, to) ==
  state[d] # "absent" /\ (to \in Allowed[state[d]] \/ to = "failed")

CanMove(d, to) == InFlight(d) /\ to \in Allowed[state[d]]

-----------------------------------------------------------------------------
(* Transactions.                                                           *)

\* Bugs: rows that were not claimed yet are left alone; the app is not asked for.
Superseded_Started(a) == InFlightOf(a) \cap claimed
Superseded_AnyApp(a)  == {d \in Ids : a \in Apps /\ InFlight(d)}

\* What a new deployment of the app cancels.
Superseded(a) == InFlightOf(a)

\* The numbers GetReleaseByNumber finds a release of the app under.
ReleaseNumbers(a) == 1..Len(releases[a])

\* A bug: a deleted app is still read.
Live_Any(a) == a \in Apps

\* GetApp: the row is there and not soft deleted.
Live(a) == a \notin deleted

\* A bug: a cancelled row gets no event.
Logged_NotCancelled(d, to) ==
  IF to = "cancelled" THEN events[d] ELSE Append(events[d], to)

\* InsertDeploymentEvent.
Logged(d, to) == Append(events[d], to)

\* CreateDeployment: refuse a deleted app, cancel whatever is in flight for
\* the app as superseded, insert the queued row and its first event.  A
\* rollback takes its image from the source release at creation.
CreateDeployment(a, u, n) ==
  LET new == created + 1
      old == Superseded(a)
  IN
  /\ created < MaxDeployments
  /\ Live(a)
  /\ (u = NoUpload) # (n = 0)
  /\ n \in 0..Len(releases[a])
  /\ created' = new
  /\ state'  = [d \in Ids |-> IF d = new THEN Queued
                              ELSE IF d \in old THEN "cancelled" ELSE state[d]]
  /\ reason' = [d \in Ids |-> IF d \in old THEN "superseded" ELSE reason[d]]
  /\ events' = [d \in Ids |-> IF d = new THEN <<Queued>>
                              ELSE IF d \in old THEN Logged(d, "cancelled")
                              ELSE events[d]]
  /\ appOf'  = [appOf  EXCEPT ![new] = a]
  /\ upload' = [upload EXCEPT ![new] = u]
  /\ source' = [source EXCEPT ![new] = n]
  /\ digest' = [digest EXCEPT ![new] = IF n = 0 THEN 0 ELSE releases[a][n].digest]
  /\ UNCHANGED <<claimed, path, job, appVars>>

\* applyTransition: the row and exactly one event.
ApplyTransition(d, to) ==
  /\ state'  = [state  EXCEPT ![d] = to]
  /\ events' = [events EXCEPT ![d] = Logged(d, to)]

\* Transition: the from state is read inside the transaction, and healthy is
\* MarkHealthy's alone.
Transition(d, to, why) ==
  /\ to # "healthy"
  /\ CanMove(d, to)
  /\ ApplyTransition(d, to)
  /\ reason' = [reason EXCEPT ![d] = IF to = "failed" THEN why ELSE @]
  /\ UNCHANGED <<claimed, path, job, digest, birthVars, appVars>>

\* A bug: no check that the row has an image.
HasImage_Unchecked(d) == state[d] # "absent"

HasImage(d) == digest[d] # 0

\* A bug: a rollback points the app back at the release it names.
NewCurrent_Source(d) ==
  IF source[d] # 0 THEN source[d] ELSE Len(releases[appOf[d]]) + 1

\* SetAppCurrentRelease: the release just minted.
NewCurrent(d) == Len(releases[appOf[d]]) + 1

\* MarkHealthy: the transition, the release carrying the row's digest and the
\* caller's configuration, the app's pointer, and on a rollback the whole of
\* app_config, in one transaction.
MarkHealthy(d, cfg) ==
  LET a == appOf[d] IN
  /\ CanMove(d, "healthy")
  /\ HasImage(d)
  /\ ApplyTransition(d, "healthy")
  /\ releases' = [releases EXCEPT
       ![a] = Append(@, [dep |-> d, digest |-> digest[d], config |-> cfg])]
  /\ current'  = [current EXCEPT ![a] = NewCurrent(d)]
  /\ config'   = [config EXCEPT ![a] = IF source[d] # 0 THEN cfg ELSE @]
  /\ UNCHANGED <<reason, claimed, path, job, digest, birthVars, deleted>>

\* RecordBuildResult: every column keeps its value when the caller left the
\* field empty, and no state is asked for or changed.
RecordBuildResult(d, p, named, img) ==
  /\ state[d] # "absent"
  /\ path'   = [path   EXCEPT ![d] = IF p = "" THEN @ ELSE p]
  /\ job'    = IF named THEN job \cup {d} ELSE job
  /\ digest' = [digest EXCEPT ![d] = IF img = 0 THEN @ ELSE img]
  /\ UNCHANGED <<state, reason, claimed, events, birthVars, appVars>>

\* ClaimNextDeployment: queued rows before strays, then the oldest id.
Claimable == {d \in Ids : InFlight(d) /\ d \notin claimed}

Fresh(S) == {d \in S : state[d] = Queued}

NextToClaim ==
  LET pool == IF Fresh(Claimable) # {} THEN Fresh(Claimable) ELSE Claimable
  IN {d \in pool : \A e \in pool : d <= e}

ClaimNext(d) ==
  /\ d \in NextToClaim
  /\ claimed' = claimed \cup {d}
  /\ UNCHANGED <<state, reason, path, job, digest, events, birthVars, appVars>>

\* ReleaseBuildingClaim: one conditional write, on a row still in building.
ReleaseBuildingClaim(d) ==
  /\ state[d] = "building"
  /\ claimed' = claimed \ {d}
  /\ UNCHANGED <<state, reason, path, job, digest, events, birthVars, appVars>>

\* Bugs: only a claimed deployment blocks a delete; only a build does.
Deletable_Unclaimed(a) == InFlightOf(a) \cap claimed = {}
Deletable_NoBuild(a)   == \A d \in InFlightOf(a) : state[d] = "deploying"

Deletable(a) == InFlightOf(a) = {}

\* SoftDeleteApp: refused while a deployment of the app is in flight.
SoftDeleteApp(a) ==
  /\ Live(a) /\ Deletable(a)
  /\ deleted' = deleted \cup {a}
  /\ UNCHANGED <<rowVars, birthVars, releases, current, config>>

\* set_config and unset_config, as the whole table they leave behind.  The app is
\* not read again: a handler that found it live may write after its deletion.
SetConfig(a, cfg) ==
  /\ config' = [config EXCEPT ![a] = cfg]
  /\ UNCHANGED <<rowVars, birthVars, releases, current, deleted>>

-----------------------------------------------------------------------------
StoreInit ==
  /\ created  = 0
  /\ state    = [d \in Ids |-> "absent"]
  /\ appOf    = [d \in Ids |-> NoApp]
  /\ upload   = [d \in Ids |-> NoUpload]
  /\ source   = [d \in Ids |-> 0]
  /\ reason   = [d \in Ids |-> "none"]
  /\ claimed  = {}
  /\ path     = [d \in Ids |-> ""]
  /\ job      = {}
  /\ digest   = [d \in Ids |-> 0]
  /\ events   = [d \in Ids |-> <<>>]
  /\ releases = [a \in Apps |-> <<>>]
  /\ current  = [a \in Apps |-> 0]
  /\ config   = [a \in Apps |-> InitialConfig]
  /\ deleted  = {}

\* Any caller, any order.
Deploy      == \E a \in Apps, u \in Uploads : CreateDeployment(a, u, 0)
Rollback    == \E a \in Apps : \E n \in ReleaseNumbers(a) :
                 CreateDeployment(a, NoUpload, n)
Progress    == \E d \in Ids, to \in States : to # "failed" /\ Transition(d, to, "none")
Fail        == \E d \in Ids, why \in FailureCodes : Transition(d, "failed", why)
Heal        == \E d \in Ids, cfg \in Configs : MarkHealthy(d, cfg)
RecordBuild == \E d \in Ids : \/ \E p \in Engines : RecordBuildResult(d, p, TRUE, 0)
                             \/ RecordBuildResult(d, "", TRUE, d)
Claim       == \E d \in Ids : ClaimNext(d)
HandBack    == \E d \in Ids : ReleaseBuildingClaim(d)
Delete      == \E a \in Apps : SoftDeleteApp(a)
Configure   == \E a \in Apps, cfg \in Configs : SetConfig(a, cfg)

StoreNext ==
  \/ Deploy \/ Rollback \/ Progress \/ Fail \/ Heal \/ RecordBuild
  \/ Claim \/ HandBack \/ Delete \/ Configure

StoreSpec == StoreInit /\ [][StoreNext]_storeVars

-----------------------------------------------------------------------------
(* Properties.                                                             *)

\* Every column holds what its schema allows.
TypeOK ==
  /\ created \in 0..MaxDeployments
  /\ state    \in [Ids -> States \cup {"absent"}]
  /\ appOf    \in [Ids -> Apps \cup {NoApp}]
  /\ upload   \in [Ids -> Uploads \cup {NoUpload}]
  /\ source   \in [Ids -> Nat]
  /\ reason   \in [Ids -> Reasons]
  /\ claimed  \subseteq Ids
  /\ path     \in [Ids -> Paths]
  /\ job      \subseteq Ids
  /\ digest   \in [Ids -> Ids \cup {0}]
  /\ events   \in [Ids -> Seq(States)]
  /\ releases \in [Apps -> Seq(Release)]
  /\ current  \in [Apps -> Nat]
  /\ config   \in [Apps -> Configs]
  /\ deleted  \subseteq Apps

\* A deployment in flight is the newest of its app: so an app never has two in
\* flight, and the partial unique index of the schema is never what refuses an
\* insert (CreateDeployment supersedes inside its own transaction).
InFlightIsNewest ==
  \A d, e \in Ids :
    InFlight(d) /\ appOf[e] = appOf[d] => e <= d

\* A deleted app has nothing in flight, so the loop never builds or deploys it:
\* CreateDeployment and SoftDeleteApp each check the other's write.
DeletedAppIsQuiet == \A a \in deleted : InFlightOf(a) = {}

\* An app's releases are exactly its healthy deployments, in the order they were
\* created, and the app points at the newest.
ReleaseHistory ==
  \A a \in Apps :
    /\ {releases[a][n].dep : n \in 1..Len(releases[a])}
         = {d \in Ids : appOf[d] = a /\ state[d] = "healthy"}
    /\ \A m, n \in 1..Len(releases[a]) :
         m < n => releases[a][m].dep < releases[a][n].dep
    /\ current[a] = Len(releases[a])

\* The deployments GetNextDeploymentForApp takes the oldest of.
After(d) == {e \in Ids : e > d /\ appOf[e] = appOf[d]}

\* deployment_status derives superseded_by from the app's next deployment: a
\* superseded row always has one.
SupersededHasSuccessor ==
  \A d \in Ids :
    reason[d] = "superseded" =>
      /\ state[d] = "cancelled"
      /\ After(d) # {}

\* The event log replays to the row: it starts queued, every step is one the
\* transition table allows, and it ends at the row's state.
EventsTellTheRow ==
  \A d \in 1..created :
    LET log == events[d] IN
    /\ log # <<>> /\ Head(log) = Queued /\ log[Len(log)] = state[d]
    /\ \A i \in 1..(Len(log) - 1) : log[i + 1] \in Allowed[log[i]]

\* A row that ended keeps its end: no later call changes its state, its reason,
\* its log or its claim, whichever of two racing writers came second.
EndedStaysEnded ==
  [][\A d \in Ids : state[d] \in Terminal =>
       /\ state'[d] = state[d]
       /\ reason'[d] = reason[d]
       /\ events'[d] = events[d]
       /\ (d \in claimed') = (d \in claimed)]_storeVars

\* What DeploymentContract promises the platform's callers.
Contract == INSTANCE DeploymentContract WITH
  phase   <- [d \in Ids |-> IF InFlight(d) THEN "pending" ELSE state[d]],
  owner   <- appOf,
  serving <- [a \in Apps |-> IF current[a] = 0 THEN 0
                             ELSE releases[a][current[a]].dep],
  gone    <- deleted

ContractSpec == Contract!Spec
=============================================================================
