-------------------------------- MODULE Apps --------------------------------
(***************************************************************************)
(* What an account brings to the platform: tarballs on the upload volume    *)
(* (src/internal/uploads, the routes of src/internal/httpapi), apps and     *)
(* their configuration (src/internal/store/apps.go, config.go) and the      *)
(* deploy_app, rollback, set_config, unset_config and delete_app tools of   *)
(* src/internal/mcp that write them.  Of a drive of the loop, which is      *)
(* module Reconciler's, it keeps what touches these tables: the token for   *)
(* the build, the configuration read, the end and the tarball's removal.    *)
(*                                                                         *)
(* A tool call reads and writes step by step; call[c] is its next step and  *)
(* what it holds.  The tarball is a file, named after an id nobody else     *)
(* draws; the row that names it is written after it and deleted after it.   *)
(***************************************************************************)
EXTENDS Naturals, FiniteSets, FiniteSetsExt

CONSTANTS
  Accounts, Calls, None,
  Names,           \* names apps are given
  BaseOf,          \* what DeriveBase makes of each
  Reserved,        \* bases the platform keeps for itself
  Suffixes,        \* random tails of a slug
  ConfigKeys,      \* valid configuration keys
  Sizes,           \* bytes a key and its value take
  AppLimit,        \* DEPLOYER_MAX_APPS_PER_ACCOUNT
  UnclaimedLimit,  \* DEPLOYER_MAX_UNCLAIMED_UPLOADS
  MaxConfigKeys, MaxConfigTotal,
  MaxApps, MaxUploads, MaxDeployments, MaxMints,   \* bounds on rows and mints
  MaxCalls, MaxFaults                              \* bounds on calls and faults

ASSUME NamesAssumption == BaseOf \in [Names -> STRING] /\ None \notin Accounts \union Names
\* An account may hold an app and an upload (both ceilings are validated to be
\* positive), and the bounds leave room for the first row of each.
ASSUME LimitAssumption ==
  /\ {AppLimit, UnclaimedLimit, MaxApps, MaxUploads} \subseteq Nat \ {0}
  /\ {MaxConfigKeys, MaxConfigTotal, MaxDeployments, MaxMints, MaxCalls, MaxFaults} \subseteq Nat
  /\ Sizes \subseteq Nat \ {0}

VARIABLES
  uploads, apps, config, deployments,  \* the tables
  files,                               \* the upload volume
  stray,                               \* files a crash or a failed remove left
  fetches,                             \* how often each tarball was served
  raced,                               \* apps last configured from a stale read
  releases,                            \* the configurations each app's releases hold
  drive,                               \* the loop's drive of a deployment
  unended,                             \* deployments whose end could not be written
  call, sweep,                         \* requests and the retention sweep under way
  begun, drawn, faults

vars == <<uploads, apps, config, deployments, files, stray, fetches, raced, releases, drive,
          unended, call, sweep, begun, drawn, faults>>
volume == <<files, stray, fetches, drawn>>
loop == <<releases, drive, unended>>

UploadIds == 1 .. MaxUploads
AppIds    == 1 .. MaxApps
DepIds    == 1 .. MaxDeployments

\* token numbers the fetch tokens minted for an upload; 0 is the placeholder.
Upload == [st : {"none", "row", "deleted"}, of : Accounts \union {None}, expired : BOOLEAN,
           redeemed : BOOLEAN, token : 0 .. MaxMints]
App    == [of : Accounts \union {None}, name : Names \union {None},
           slug : {<<BaseOf[n], s>> : n \in Names, s \in Suffixes} \union {<<>>}, deleted : BOOLEAN]
\* What a release keeps of the configuration it ran with, and whether that came
\* of a stale read.
Snapshot == [cfg : [ConfigKeys -> Sizes \union {0}], raced : BOOLEAN]
\* A build has an upload and no source, a rollback its source release's snapshot
\* and upload 0.  held: the token the deployment's build Job was given.
Deployment == [app : 0 .. MaxApps, upload : 0 .. MaxUploads, source : SUBSET Snapshot,
               inFlight : BOOLEAN, held : 0 .. MaxMints]
\* plan: the configuration the drive composes with, once it has read it.  over:
\* nothing is left of the drive but its tarball.
Drive == [of : 0 .. MaxDeployments, plan : SUBSET Snapshot, over : BOOLEAN]

NoUpload == [st |-> "none", of |-> None, expired |-> FALSE, redeemed |-> FALSE, token |-> 0]
NoApp    == [of |-> None, name |-> None, slug |-> <<>>, deleted |-> FALSE]
NoDeployment == [app |-> 0, upload |-> 0, source |-> {}, inFlight |-> FALSE, held |-> 0]
NoDrive  == [of |-> 0, plan |-> {}, over |-> FALSE]
\* A configuration maps every key to the bytes it takes, 0 when it is not set.
NoConfig == [k \in ConfigKeys |-> 0]
Idle == [next |-> "none", of |-> None, name |-> None, app |-> 0, upload |-> 0,
         write |-> NoConfig, read |-> NoConfig]
NoSweep == [left |-> {}, row |-> 0]

IsNext(id, rows, empty) == rows[id] = empty /\ \A j \in DOMAIN rows : rows[j] = empty => id <= j

-----------------------------------------------------------------------------
(* Queries.                                                                *)

CountUnclaimedUploads(a) ==
  Cardinality({u \in UploadIds : /\ uploads[u].st = "row" /\ uploads[u].of = a
                                 /\ ~uploads[u].redeemed /\ ~uploads[u].expired})
Referenced(u) == \E d \in DepIds : deployments[d].upload = u
\* Bug: uploads still usable are listed too.
ListSweepableUploads_All == {u \in UploadIds : uploads[u].st = "row" /\ ~Referenced(u)}
ListSweepableUploads ==
  {u \in UploadIds : uploads[u].st = "row" /\ uploads[u].expired /\ ~Referenced(u)}
SetUploadFetchToken(u) ==
  uploads' = [uploads EXCEPT ![u].token = @ + 1, ![u].redeemed = FALSE]
\* Bug: a spent token is taken again.
Redeemable_Again(u, token) ==
  uploads[u].st = "row" /\ uploads[u].token = token /\ ~uploads[u].expired
Redeemable(u, token) ==
  uploads[u].st = "row" /\ uploads[u].token = token /\ ~uploads[u].redeemed /\ ~uploads[u].expired
RedeemUpload(u, token) ==
  /\ Redeemable(u, token)
  /\ uploads' = [uploads EXCEPT ![u].redeemed = TRUE]

LiveApp(i) == apps[i] # NoApp /\ ~apps[i].deleted
CountLiveAppsByAccount(a) == Cardinality({i \in AppIds : LiveApp(i) /\ apps[i].of = a})
GetAppByName(a, name) == {i \in AppIds : LiveApp(i) /\ apps[i].of = a /\ apps[i].name = name}
\* Bug: a deleted app's hostname is given out again.
SlugExists_Live(slug) == \E i \in AppIds : LiveApp(i) /\ apps[i].slug = slug
SlugExists(slug) == \E i \in AppIds : apps[i].slug = slug
InFlightOf(i) == {d \in DepIds : deployments[d].app = i /\ deployments[d].inFlight}

-----------------------------------------------------------------------------
(* Transactions.                                                           *)

\* Bug: the ceiling is left to the read before the file was written.
CreateUpload_Uncounted(u, a) ==
  uploads' = [uploads EXCEPT ![u] = [NoUpload EXCEPT !.st = "row", !.of = a]]
CreateUpload(u, a) ==
  /\ CountUnclaimedUploads(a) < UnclaimedLimit
  /\ uploads' = [uploads EXCEPT ![u] = [NoUpload EXCEPT !.st = "row", !.of = a]]

\* Any suffix that is not taken may be the one an attempt draws; that every
\* attempt draws a taken one is a refusal like any other.
CreateApp(i, a, name) ==
  /\ BaseOf[name] \notin Reserved
  /\ CountLiveAppsByAccount(a) < AppLimit
  /\ GetAppByName(a, name) = {}        \* apps_account_name_live
  /\ IsNext(i, apps, NoApp)
  /\ \E s \in Suffixes :
       /\ ~SlugExists(<<BaseOf[name], s>>)
       /\ apps' = [apps EXCEPT ![i] =
                     [of |-> a, name |-> name, slug |-> <<BaseOf[name], s>>, deleted |-> FALSE]]
SoftDeleteApp(i) ==
  /\ LiveApp(i) /\ InFlightOf(i) = {}
  /\ apps' = [apps EXCEPT ![i].deleted = TRUE]
CreateDeployment(d, i, u, source) ==
  /\ LiveApp(i)                              \* the row refers to its app, and
  /\ (u # 0 => uploads[u].st = "row")        \* a build to its upload
  /\ IsNext(d, deployments, NoDeployment)
  /\ deployments' = [e \in DepIds |->
       IF e = d THEN [app |-> i, upload |-> u, source |-> source, inFlight |-> TRUE, held |-> 0]
       ELSE IF e \in InFlightOf(i) THEN [deployments[e] EXCEPT !.inFlight = FALSE]
       ELSE deployments[e]]

\* Bug: a key set again is added to.
Merged_Adds(existing, write) == [k \in ConfigKeys |-> existing[k] + write[k]]
Merged(existing, write) == [k \in ConfigKeys |-> IF write[k] # 0 THEN write[k] ELSE existing[k]]
Fits(cfg) ==
  /\ Cardinality({k \in ConfigKeys : cfg[k] # 0}) <= MaxConfigKeys
  /\ MapThenSumSet(LAMBDA k : cfg[k], ConfigKeys) <= MaxConfigTotal
\* Bug: the bounds are asked of the keys written alone.
ValidateConfig_Alone(write, existing) == write # NoConfig /\ Fits(write)
ValidateConfig(write, existing) == write # NoConfig /\ Fits(Merged(existing, write))
SetConfigBatch(i, write) == config' = [config EXCEPT ![i] = Merged(@, write)]
Without(cfg, keys) == [k \in ConfigKeys |-> IF k \in keys THEN 0 ELSE cfg[k]]
UnsetConfigBatch(i, keys) ==
  /\ \A k \in keys : config[i][k] # 0
  /\ config' = [config EXCEPT ![i] = Without(@, keys)]
ReplaceConfig(i, cfg) == config' = [config EXCEPT ![i] = cfg]

-----------------------------------------------------------------------------
(* Calls.                                                                  *)

Begin(c, step) ==
  /\ call[c] = Idle /\ begun < MaxCalls
  /\ begun' = begun + 1
  /\ call' = [call EXCEPT ![c] = step]
At(c, next) == call[c].next = next
Go(c, step) == call' = [call EXCEPT ![c] = step] /\ UNCHANGED begun
End(c) == Go(c, Idle)
Then(c, next) == Go(c, [call[c] EXCEPT !.next = next])

tables == <<uploads, apps, config, deployments, raced>>

\* A refusal, a failed store call or a client that leaves ends a call where it
\* stands, unless a file has to go with it.
Stop(c) ==
  /\ call[c] # Idle /\ ~At(c, "insert")
  /\ End(c)
  /\ UNCHANGED <<tables, volume, sweep, loop, faults>>

\* os.Remove: a file it could not remove is logged and left.
Remove(u) ==
  \/ files' = files \ {u} /\ stray' = stray \ {u} /\ UNCHANGED faults
  \/ /\ u \in files /\ faults < MaxFaults
     /\ faults' = faults + 1 /\ stray' = stray \union {u} /\ UNCHANGED files

(* A tarball comes in, through the upload endpoint or inline in deploy_app.  *)

Accept(c, step) ==
  /\ CountUnclaimedUploads(step.of) < UnclaimedLimit
  /\ Begin(c, [step EXCEPT !.next = "file"])
  /\ UNCHANGED <<tables, volume, sweep, loop, faults>>
PostUpload(c, a) == Accept(c, [Idle EXCEPT !.of = a])
\* An oversized or unreadable body is a call that stops here: its file goes
\* before anything else sees it.
WriteFile(c) ==
  LET u == drawn + 1
  IN /\ At(c, "file") /\ u \in UploadIds
     /\ drawn' = u /\ files' = files \union {u}
     /\ Go(c, [call[c] EXCEPT !.next = "insert", !.upload = u])
     /\ UNCHANGED <<tables, stray, fetches, sweep, loop, faults>>
Insert(c) ==
  /\ At(c, "insert")
  /\ CreateUpload(call[c].upload, call[c].of)
  /\ IF call[c].name = None THEN End(c) ELSE Then(c, "check")
  /\ UNCHANGED <<apps, config, deployments, raced, volume, sweep, loop, faults>>
Discard(c) ==
  /\ At(c, "insert") /\ End(c)
  /\ Remove(call[c].upload)
  /\ UNCHANGED <<tables, fetches, drawn, sweep, loop>>

(* deploy_app.                                                             *)

Deploy(c, a, name, u, write) ==
  /\ Begin(c, [Idle EXCEPT !.next = "check", !.of = a, !.name = name, !.upload = u,
                           !.write = write])
  /\ UNCHANGED <<tables, volume, sweep, loop, faults>>
DeployFiles(c, a, name, write) ==
  Accept(c, [Idle EXCEPT !.of = a, !.name = name, !.write = write])
CheckUpload(c) ==
  LET u == call[c].upload
  IN /\ At(c, "check")
     /\ uploads[u].st = "row" /\ uploads[u].of = call[c].of
     /\ ~uploads[u].redeemed /\ ~uploads[u].expired
     /\ Then(c, "resolve")
     /\ UNCHANGED <<tables, volume, sweep, loop, faults>>
\* What follows once the app is known.
WithApp(c, i) ==
  Go(c, [call[c] EXCEPT !.app = i,
                        !.next = IF call[c].write = NoConfig THEN "deploy" ELSE "config"])
ResolveApp(c) ==
  LET known == GetAppByName(call[c].of, call[c].name)
  IN /\ At(c, "resolve")
     /\ \/ \E i \in known : WithApp(c, i)
        \/ /\ known = {} /\ CountLiveAppsByAccount(call[c].of) < AppLimit
           /\ Then(c, "create")
     /\ UNCHANGED <<tables, volume, sweep, loop, faults>>
NewApp(c) ==
  /\ At(c, "create")
  /\ \E i \in AppIds : CreateApp(i, call[c].of, call[c].name) /\ WithApp(c, i)
  /\ UNCHANGED <<uploads, config, deployments, raced, volume, sweep, loop, faults>>
QueueDeployment(c) ==
  /\ At(c, "deploy")
  /\ \E d \in DepIds : CreateDeployment(d, call[c].app, call[c].upload, {})
  /\ End(c)
  /\ UNCHANGED <<uploads, apps, config, raced, volume, sweep, loop, faults>>

\* rollback: a release of the app's own, looked up by its number; CreateDeployment
\* asks again whether the app is there.
Rollback(c, i) ==
  /\ LiveApp(i)
  /\ Begin(c, Idle)
  /\ \E s \in releases[i], d \in DepIds : CreateDeployment(d, i, 0, {s})
  /\ UNCHANGED <<uploads, apps, config, raced, volume, sweep, loop, faults>>

(* set_config, unset_config, delete_app.                                   *)

SetConfig(c, i, write) ==
  /\ LiveApp(i)
  /\ Begin(c, [Idle EXCEPT !.next = "config", !.app = i, !.write = write])
  /\ UNCHANGED <<tables, volume, sweep, loop, faults>>
ReadConfig(c) ==
  LET existing == config[call[c].app]
  IN /\ At(c, "config")
     /\ ValidateConfig(call[c].write, existing)
     /\ Go(c, [call[c] EXCEPT !.next = "write", !.read = existing])
     /\ UNCHANGED <<tables, volume, sweep, loop, faults>>
WriteConfig(c) ==
  LET i == call[c].app
  IN /\ At(c, "write")
     /\ SetConfigBatch(i, call[c].write)
     /\ raced' = IF config[i] = call[c].read THEN raced \ {i} ELSE raced \union {i}
     /\ IF call[c].name = None THEN End(c) ELSE Then(c, "deploy")
     /\ UNCHANGED <<uploads, apps, deployments, volume, sweep, loop, faults>>
UnsetConfig(c, i, keys) ==
  /\ LiveApp(i)
  /\ Begin(c, Idle)
  /\ UnsetConfigBatch(i, keys)
  /\ UNCHANGED <<uploads, apps, deployments, raced, volume, sweep, loop, faults>>
DeleteApp(c, i) ==
  /\ LiveApp(i)
  /\ Begin(c, [Idle EXCEPT !.next = "delete", !.app = i])
  /\ UNCHANGED <<tables, volume, sweep, loop, faults>>
RetireApp(c) ==
  /\ At(c, "delete")
  /\ SoftDeleteApp(call[c].app)
  /\ End(c)
  /\ UNCHANGED <<uploads, config, deployments, raced, volume, sweep, loop, faults>>

-----------------------------------------------------------------------------
(* The retention sweep: the file, then the row.                            *)

ListSweepable ==
  /\ sweep = NoSweep /\ ListSweepableUploads # {}
  /\ sweep' = [left |-> ListSweepableUploads, row |-> 0]
  /\ UNCHANGED <<tables, volume, call, begun, loop, faults>>
SweepFile ==
  /\ sweep.row = 0
  /\ \E u \in sweep.left :
       /\ Remove(u)
       /\ sweep' = [left |-> sweep.left \ {u}, row |-> u]
  /\ UNCHANGED <<tables, fetches, drawn, call, begun, loop>>
\* A row a deployment took up meanwhile is kept by its foreign key.
SweepRow ==
  /\ sweep.row # 0
  /\ sweep' = [sweep EXCEPT !.row = 0]
  /\ \/ ~Referenced(sweep.row) /\ uploads' = [uploads EXCEPT ![sweep.row].st = "deleted"]
     \/ Referenced(sweep.row) /\ UNCHANGED uploads
  /\ UNCHANGED <<apps, config, deployments, raced, volume, call, begun, loop, faults>>

(* A drive of the loop, one at a time: a token for the build Job, the Job's  *)
(* fetch, the configuration the app is deployed with, the end of the row and *)
(* the removal of its tarball, which does not ask whether the row ended.     *)

Driving(d) == drive.of = d /\ ~drive.over
Claim(d) ==
  /\ drive = NoDrive /\ deployments[d].inFlight
  /\ drive' = [NoDrive EXCEPT !.of = d]
  /\ UNCHANGED <<tables, volume, releases, unended, call, sweep, begun, faults>>
MintFetchToken(d) ==
  LET u == deployments[d].upload
  IN /\ Driving(d) /\ u # 0 /\ uploads[u].token < MaxMints
     /\ SetUploadFetchToken(u)
     /\ deployments' = [deployments EXCEPT ![d].held = uploads[u].token + 1]
     /\ UNCHANGED <<apps, config, raced, volume, loop, call, sweep, begun, faults>>
\* The redemption is spent whether or not the file is still there.
FetchUpload(d) ==
  LET u == deployments[d].upload
  IN /\ deployments[d].held # 0 /\ RedeemUpload(u, deployments[d].held)
     /\ fetches' = [fetches EXCEPT ![u] = IF u \in files THEN @ + 1 ELSE @]
     /\ UNCHANGED <<apps, config, deployments, raced, files, stray, drawn, loop, call, sweep,
                    begun, faults>>
Current(i) == [cfg |-> config[i], raced |-> i \in raced]
DeployConfig(d) ==
  LET dep == deployments[d]
  IN /\ Driving(d) /\ drive.plan = {}
     /\ drive' = [drive EXCEPT !.plan = IF dep.upload = 0 THEN dep.source ELSE {Current(dep.app)}]
     /\ UNCHANGED <<tables, volume, releases, unended, call, sweep, begun, faults>>
\* A rollback puts its snapshot back in place of the configuration, whatever the
\* bounds say of it.
MarkHealthy(d) ==
  LET i == deployments[d].app
  IN /\ Driving(d) /\ deployments[d].inFlight
     /\ \E s \in drive.plan :
          /\ releases' = [releases EXCEPT ![i] = @ \union {s}]
          /\ IF deployments[d].upload # 0 THEN UNCHANGED <<config, raced>>
             ELSE /\ ReplaceConfig(i, s.cfg)
                  /\ raced' = IF s.raced THEN raced \union {i} ELSE raced \ {i}
     /\ deployments' = [deployments EXCEPT ![d].inFlight = FALSE]
     /\ drive' = [drive EXCEPT !.over = TRUE]
     /\ UNCHANGED <<uploads, apps, volume, unended, call, sweep, begun, faults>>
\* Any other end: failed or expired, found already ended, or a write the
\* database refused, which is logged.
EndDeployment(d) ==
  /\ Driving(d)
  /\ drive' = [drive EXCEPT !.over = TRUE]
  /\ \/ /\ deployments' = [deployments EXCEPT ![d].inFlight = FALSE]
        /\ UNCHANGED <<unended, faults>>
     \/ /\ faults < MaxFaults /\ faults' = faults + 1
        /\ unended' = unended \union {d} /\ UNCHANGED deployments
  /\ UNCHANGED <<uploads, apps, config, raced, volume, releases, call, sweep, begun>>
RemoveTarball(d) ==
  LET u == deployments[d].upload
  IN /\ drive.of = d /\ drive.over
     /\ drive' = NoDrive
     /\ \/ u # 0 /\ Remove(u)
        \/ u = 0 /\ UNCHANGED <<files, stray, faults>>
     /\ UNCHANGED <<tables, fetches, drawn, releases, unended, call, sweep, begun>>

Expire ==
  /\ \E u \in UploadIds :
       /\ uploads[u].st = "row" /\ ~uploads[u].expired
       /\ uploads' = [uploads EXCEPT ![u].expired = TRUE]
  /\ UNCHANGED <<apps, config, deployments, raced, volume, loop, call, sweep, begun, faults>>
\* The process dies: a file on its way in has no row and never gets one.
Crash ==
  /\ faults < MaxFaults /\ faults' = faults + 1
  /\ stray' = stray \union (files \intersect {call[c].upload : c \in {x \in Calls : At(x, "insert")}})
  /\ call' = [c \in Calls |-> Idle] /\ sweep' = NoSweep /\ drive' = NoDrive
  /\ UNCHANGED <<tables, files, fetches, drawn, releases, unended, begun>>

-----------------------------------------------------------------------------
Writes == {w \in [ConfigKeys -> Sizes \union {0}] : w # NoConfig}

Request(c) ==
  \/ \E a \in Accounts :
       \/ PostUpload(c, a)
       \/ \E name \in Names, write \in Writes \union {NoConfig} :
            \/ DeployFiles(c, a, name, write)
            \/ \E u \in 1 .. drawn : Deploy(c, a, name, u, write)
  \/ \E i \in AppIds :
       \/ DeleteApp(c, i) \/ Rollback(c, i)
       \/ \E write \in Writes : SetConfig(c, i, write)
       \/ \E keys \in SUBSET ConfigKeys \ {{}} : UnsetConfig(c, i, keys)
Continue(c) ==
  \/ WriteFile(c) \/ Insert(c) \/ Discard(c) \/ CheckUpload(c) \/ ResolveApp(c) \/ NewApp(c)
  \/ QueueDeployment(c) \/ ReadConfig(c) \/ WriteConfig(c) \/ RetireApp(c) \/ Stop(c)
Loop == \E d \in DepIds :
  \/ Claim(d) \/ MintFetchToken(d) \/ FetchUpload(d) \/ DeployConfig(d) \/ MarkHealthy(d)
  \/ EndDeployment(d) \/ RemoveTarball(d)

\* An app given its name by CreateApp, before anything else was.
FirstApp(a, name, s) ==
  /\ BaseOf[name] \notin Reserved
  /\ apps = [[i \in AppIds |-> NoApp] EXCEPT ![1] =
               [of |-> a, name |-> name, slug |-> <<BaseOf[name], s>>, deleted |-> FALSE]]

\* A new account, or one that has uploaded a tarball, created an app or both.
NewAccount ==
  /\ \/ uploads = [u \in UploadIds |-> NoUpload] /\ drawn = 0
     \/ \E a \in Accounts :
          /\ uploads = [[u \in UploadIds |-> NoUpload] EXCEPT ![1].st = "row", ![1].of = a]
          /\ drawn = 1
  /\ files = 1 .. drawn
  /\ \/ apps = [i \in AppIds |-> NoApp]
     \/ \E a \in Accounts, name \in Names, s \in Suffixes : FirstApp(a, name, s)
  /\ config = [i \in AppIds |-> NoConfig] /\ deployments = [d \in DepIds |-> NoDeployment]
  /\ fetches = [u \in UploadIds |-> 0] /\ releases = [i \in AppIds |-> {}]

\* An account whose app was deployed with what two overlapping writes had left,
\* and was given a configuration within the bounds since.
MendedAccount ==
  /\ MaxDeployments > 0 /\ MaxMints > 0
  /\ \E a \in Accounts, name \in Names, s \in Suffixes :
       /\ FirstApp(a, name, s)
       /\ uploads = [[u \in UploadIds |-> NoUpload] EXCEPT ![1] =
                       [st |-> "row", of |-> a, expired |-> FALSE, redeemed |-> TRUE, token |-> 1]]
  /\ deployments = [[d \in DepIds |-> NoDeployment] EXCEPT ![1] =
                      [app |-> 1, upload |-> 1, source |-> {}, inFlight |-> FALSE, held |-> 1]]
  /\ drawn = 1 /\ files = {} /\ fetches = [[u \in UploadIds |-> 0] EXCEPT ![1] = 1]
  /\ \E one, other \in Writes, since \in [ConfigKeys -> Sizes \union {0}] :
       /\ ValidateConfig(one, NoConfig) /\ ValidateConfig(other, NoConfig) /\ Fits(since)
       /\ config = [[i \in AppIds |-> NoConfig] EXCEPT ![1] = since]
       /\ releases = [[i \in AppIds |-> {}] EXCEPT
                        ![1] = {[cfg |-> Merged(one, other), raced |-> TRUE]}]

Init ==
  /\ NewAccount \/ MendedAccount
  /\ stray = {} /\ raced = {} /\ drive = NoDrive /\ unended = {}
  /\ call = [c \in Calls |-> Idle] /\ sweep = NoSweep
  /\ begun = 0 /\ faults = 0

Next ==
  \/ \E c \in Calls : Request(c) \/ Continue(c)
  \/ ListSweepable \/ SweepFile \/ SweepRow \/ Loop \/ Expire \/ Crash

Spec == Init /\ [][Next]_vars

-----------------------------------------------------------------------------
(* Properties.                                                             *)

\* Every row, file and call is one the program can write.
AppsTypeOK ==
  /\ uploads \in [UploadIds -> Upload] /\ apps \in [AppIds -> App]
  /\ config \in [AppIds -> [ConfigKeys -> Sizes \union {0}]]
  /\ deployments \in [DepIds -> Deployment]
  /\ stray \subseteq files /\ files \subseteq 1 .. drawn /\ drawn <= MaxUploads
  /\ fetches \in [UploadIds -> 0 .. MaxMints] /\ raced \subseteq AppIds
  /\ releases \in [AppIds -> SUBSET Snapshot] /\ unended \subseteq DepIds
  /\ drive \in Drive /\ (drive.over => drive.of # 0)
  /\ sweep.left \subseteq UploadIds /\ sweep.row \in UploadIds \union {0}
  /\ begun <= MaxCalls /\ faults <= MaxFaults
  /\ \A c \in Calls : At(c, "insert") => uploads[call[c].upload] = NoUpload

\* Two calls that each read room under a ceiling do not both take it: an
\* account never holds more live apps, nor more uploads nobody deployed, than
\* it may, and never two live apps of one name.
CeilingsHold == \A a \in Accounts :
  /\ CountLiveAppsByAccount(a) <= AppLimit
  /\ Cardinality({u \in UploadIds : /\ uploads[u].st = "row" /\ uploads[u].of = a
                                    /\ ~uploads[u].expired /\ ~Referenced(u)}) <= UnclaimedLimit
  /\ \A name \in Names : Cardinality(GetAppByName(a, name)) <= 1

\* "a retired hostname is never reused" (src/internal/store/apps.go:21): no two
\* apps that ever existed share a slug, whoever owned them and whatever their
\* names, and none has a name the platform keeps.
HostnamesAreForever ==
  \A i, j \in AppIds : apps[i] # NoApp =>
    /\ apps[i].slug = apps[j].slug => i = j
    /\ apps[i].slug[1] \notin Reserved

\* A file nobody names is one a crash or a failed remove left; a build's upload
\* is its account's and keeps its row; and while a build is in flight its
\* tarball is there until the upload expires, or until a deployment of it ends
\* or could not be recorded to have ended, which may be that build: its drive
\* takes the tarball along though the row stays in flight.
FilesAndRowsAgree ==
  /\ \A u \in files : uploads[u].st = "row" \/ u \in stray \/ \E c \in Calls :
                        At(c, "insert") /\ call[c].upload = u
  /\ \A d \in DepIds : deployments[d].upload # 0 =>
       LET u == deployments[d].upload
       IN /\ uploads[u].st = "row" /\ uploads[u].of = apps[deployments[d].app].of
          /\ deployments[d].inFlight =>
               \/ u \in files \/ uploads[u].expired
               \/ \E e \in DepIds : deployments[e].upload = u
                                    /\ (~deployments[e].inFlight \/ e \in unended)

\* A token buys one fetch: a tarball is never served more often than tokens
\* were minted for it, whatever builds ask.
TokenFetchesOnce == \A u \in UploadIds : fetches[u] <= uploads[u].token

\* A configuration stays within its bounds unless two writes overlapped: each
\* call validates the rows it read, outside the transaction that writes.  An app
\* rolled back to a release of such a configuration has it again, however its
\* configuration was mended meanwhile; a rollback to any other release does not
\* break the bounds.
ConfigWithinBounds == \A i \in AppIds : i \notin raced => Fits(config[i])

\* What the bounds rest on: nothing at all fits, and what fits still fits when
\* keys are unset.
FitsShrinks ==
  /\ Fits(NoConfig)
  /\ \A cfg \in [ConfigKeys -> Sizes \union {0}], keys \in SUBSET ConfigKeys :
       Fits(cfg) => Fits(Without(cfg, keys))
=============================================================================
