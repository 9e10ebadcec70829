------------------------------ MODULE AppsProofs ------------------------------
(***************************************************************************)
(* What Apps guarantees for every set of accounts, names, suffixes and     *)
(* keys, every ceiling and every number of rows, calls and faults.         *)
(***************************************************************************)
EXTENDS Apps, FiniteSetTheorems, TLAPS

-----------------------------------------------------------------------------
(* The inductive invariant. *)

Steps   == {"none", "file", "insert", "check", "resolve", "create", "config", "write", "deploy",
            "delete"}
Configs == [ConfigKeys -> Sizes \union {0}]
Call    == [next : Steps, of : Accounts \union {None}, name : Names \union {None},
            app : 0 .. MaxApps, upload : 0 .. MaxUploads, write : Configs, read : Configs]
Sweep   == [left : SUBSET UploadIds, row : UploadIds \union {0}]

RowsType ==
  /\ uploads \in [UploadIds -> Upload] /\ apps \in [AppIds -> App]
  /\ config \in [AppIds -> Configs] /\ deployments \in [DepIds -> Deployment]
  /\ call \in [Calls -> Call] /\ sweep \in Sweep
  /\ releases \in [AppIds -> SUBSET Snapshot] /\ drive \in Drive
VolumeType ==
  /\ stray \subseteq files /\ files \subseteq 1 .. drawn /\ drawn \in 0 .. MaxUploads
  /\ fetches \in [UploadIds -> Nat] /\ raced \subseteq AppIds /\ unended \subseteq DepIds
  /\ begun \in 0 .. MaxCalls /\ faults \in 0 .. MaxFaults

\* A row was drawn a number and belongs to an account.
UploadsFit == \A u \in UploadIds : uploads[u] # NoUpload =>
  u <= drawn /\ uploads[u].st # "none" /\ uploads[u].of \in Accounts
DeploymentsFit == \A d \in DepIds : deployments[d] # NoDeployment =>
  LET u == deployments[d].upload
      i == deployments[d].app
  IN /\ i \in AppIds /\ apps[i] # NoApp
     /\ u # 0 => uploads[u].st = "row" /\ uploads[u].of = apps[i].of
     /\ deployments[d].held # 0 => u # 0

\* What is driven has a row, and a drive that is over has ended it or could not.
DriveFits == drive.of # 0 \/ drive.over =>
  /\ drive.of \in DepIds /\ deployments[drive.of] # NoDeployment
  /\ drive.over => ~deployments[drive.of].inFlight \/ drive.of \in unended

\* What a call holds: a file of its own, the upload it checked, the app it resolved.
Inserting(c, u) == At(c, "insert") /\ call[c].upload = u
StepFits(s) ==
  /\ s.next \in {"file", "insert", "check"} => s.of \in Accounts
  /\ s.next = "insert" => s.upload \in files /\ uploads[s.upload] = NoUpload
  /\ s.next \in {"check", "resolve", "create", "deploy"} => s.name # None
  /\ s.next = "check" => s.upload \in UploadIds
  /\ s.next \in {"resolve", "create", "config", "write", "deploy"} /\ s.name # None =>
       /\ s.upload \in UploadIds /\ uploads[s.upload] # NoUpload
       /\ uploads[s.upload].of = s.of /\ s.of \in Accounts
  /\ s.next \in {"config", "write", "deploy", "delete"} => s.app \in AppIds /\ apps[s.app] # NoApp
  /\ s.next \in {"config", "write", "deploy"} /\ s.name # None => apps[s.app].of = s.of
CallFits(c) == StepFits(call[c])
OwnFiles == \A c, d \in Calls :
  At(c, "insert") /\ At(d, "insert") /\ call[c].upload = call[d].upload => c = d

\* What the sweep works on is expired, and the file of the row it is about to
\* delete is gone or stray.
SweepFits ==
  /\ sweep.row \notin sweep.left
  /\ \A u \in sweep.left \union {sweep.row} : u # 0 => uploads[u].st = "row" /\ uploads[u].expired
  /\ sweep.row \in files => sweep.row \in stray

\* The tarball of a row is there until it expires or a deployment of it ended, or
\* should have.
Ended(u) == \E e \in DepIds :
  deployments[e].upload = u /\ (~deployments[e].inFlight \/ e \in unended)
RowsHaveFiles == \A u \in UploadIds : uploads[u].st = "row" =>
  u \in files \/ uploads[u].expired \/ Ended(u)
FilesHaveRows == \A u \in files :
  uploads[u].st = "row" \/ u \in stray \/ \E c \in Calls : Inserting(c, u)

\* A token that may still be fetched with is one more than the fetches served.
FitsToken(row, served) ==
  /\ served <= row.token
  /\ row.token # 0 /\ ~row.redeemed => served < row.token
TokensLeft == \A u \in UploadIds : FitsToken(uploads[u], fetches[u])

\* Only what a deployment took up is fetched.
RedeemedIsTaken == \A u \in UploadIds : uploads[u].redeemed => Referenced(u)

AppsInv ==
  /\ RowsType /\ VolumeType /\ UploadsFit /\ DeploymentsFit /\ DriveFits
  /\ (\A c \in Calls : CallFits(c)) /\ OwnFiles /\ SweepFits
  /\ RowsHaveFiles /\ FilesHaveRows /\ TokensLeft /\ RedeemedIsTaken
  /\ HostnamesAreForever /\ CeilingsHold

-----------------------------------------------------------------------------
(* What a step may do to a row. *)

\* The fates of an upload's row: each is one transaction.
UploadCreated(u) ==
  /\ uploads[u] = NoUpload
  /\ \E a \in Accounts : /\ CountUnclaimedUploads(a) < UnclaimedLimit
                         /\ uploads' = [uploads EXCEPT ![u] = [NoUpload EXCEPT !.st = "row", !.of = a]]
  /\ \E c \in Calls : Inserting(c, u) /\ ~At(c, "insert")'
  /\ UNCHANGED <<files, stray>>
UploadDeleted(u) ==
  /\ sweep.row = u /\ ~Referenced(u) /\ sweep' = [sweep EXCEPT !.row = 0]
  /\ uploads' = [uploads EXCEPT ![u].st = "deleted"]
UploadMinted(u) ==
  /\ Referenced(u) /\ uploads[u].token < MaxMints
  /\ uploads' = [uploads EXCEPT ![u].token = @ + 1, ![u].redeemed = FALSE]
UploadRedeemed(u) ==
  /\ Referenced(u) /\ uploads[u].token # 0 /\ ~uploads[u].redeemed
  /\ uploads' = [uploads EXCEPT ![u].redeemed = TRUE]
UploadExpires(u) ==
  /\ uploads[u].st = "row"
  /\ uploads' = [uploads EXCEPT ![u].expired = TRUE]
UploadChanges(u) ==
  UploadCreated(u) \/ UploadDeleted(u) \/ UploadMinted(u) \/ UploadRedeemed(u) \/ UploadExpires(u)

\* The ceilings and bounds are numbers.
LEMMA Bounds ==
  /\ AppLimit \in Nat /\ UnclaimedLimit \in Nat /\ MaxApps \in Nat /\ MaxUploads \in Nat
  /\ MaxDeployments \in Nat /\ MaxMints \in Nat /\ MaxCalls \in Nat /\ MaxFaults \in Nat
  /\ AppLimit >= 1 /\ UnclaimedLimit >= 1 /\ MaxApps >= 1 /\ MaxUploads >= 1
BY LimitAssumption DEF LimitAssumption

\* The files on the volume have drawn numbers.
LEMMA FilesDrawn ==
  ASSUME AppsInv
  PROVE  /\ drawn \in Nat /\ drawn <= MaxUploads /\ files \subseteq UploadIds
         /\ \A u \in files : u <= drawn
<1>1. files \subseteq 1 .. drawn /\ drawn \in 0 .. MaxUploads
  BY DEF AppsInv, VolumeType
<1> QED BY <1>1, Bounds DEF UploadIds

\* A build's upload is one that has a number.
LEMMA DeployedUpload ==
  ASSUME AppsInv, NEW d \in DepIds, deployments[d].upload # 0 \/ deployments[d].held # 0
  PROVE  /\ deployments[d] # NoDeployment /\ deployments[d].upload \in UploadIds
         /\ Referenced(deployments[d].upload)
<1>1. NoDeployment.upload = 0 /\ NoDeployment.held = 0
  BY DEF NoDeployment
<1>2. deployments[d] # NoDeployment
  BY <1>1
<1>3. deployments[d].upload # 0
  BY <1>2 DEF AppsInv, DeploymentsFit
<1>4. deployments[d] \in Deployment
  BY DEF AppsInv, RowsType
<1>5. deployments[d].upload \in 0 .. MaxUploads
  BY <1>4 DEF Deployment
<1> QED BY <1>2, <1>3, <1>5, Bounds DEF Referenced, UploadIds

\* What the loop drives has a row.
LEMMA DrivenRow ==
  ASSUME AppsInv, NEW d \in DepIds, Driving(d)
  PROVE  /\ deployments[d] # NoDeployment /\ deployments[d] \in Deployment
         /\ deployments[d].app \in AppIds
<1>1. drive.of = d /\ d # 0
  BY DEF Driving, DepIds
<1>2. deployments[d] # NoDeployment
  BY <1>1 DEF AppsInv, DriveFits
<1> QED BY <1>2 DEF AppsInv, DeploymentsFit, RowsType

\* What inserts a row creates it, for the call that wrote its file.
LEMMA Inserted ==
  ASSUME AppsInv, NEW c \in Calls, Insert(c), NEW u, u = call[c].upload
  PROVE  u \in UploadIds /\ UploadCreated(u)
<1>1. PICK a : a = call[c].of
  OBVIOUS
<1>2. At(c, "insert") /\ CreateUpload(u, a)
  BY <1>1 DEF Insert
<1>3. u \in UploadIds /\ uploads[u] = NoUpload /\ a \in Accounts
  BY <1>1, <1>2, FilesDrawn DEF AppsInv, CallFits, StepFits, At
<1>4. ~At(c, "insert")'
  <2>1. call \in [Calls -> Call]
    BY DEF AppsInv, RowsType
  <2>2. End(c) \/ Then(c, "check")
    BY DEF Insert
  <2>3. CASE End(c)
    BY <2>1, <2>3 DEF End, Go, Idle, At
  <2>4. CASE Then(c, "check")
    <3>1. call[c] \in Call
      BY <2>1
    <3>2. call'[c] = [call[c] EXCEPT !.next = "check"]
      BY <2>1, <2>4 DEF Then, Go
    <3>3. call'[c].next = "check"
      BY <3>1, <3>2 DEF Call
    <3> QED BY <3>3 DEF At
  <2> QED BY <2>2, <2>3, <2>4
<1>5. UNCHANGED <<files, stray>> /\ Inserting(c, u)
  BY <1>2 DEF Insert, volume, Inserting
<1>6. UploadCreated(u)
  BY <1>2, <1>3, <1>4, <1>5 DEF UploadCreated, CreateUpload
<1> QED BY <1>3, <1>6

\* Every step leaves the uploads alone or makes one of those changes to one row.
LEMMA UploadMoves ==
  ASSUME AppsInv, [Next]_vars
  PROVE  uploads' = uploads \/ \E u \in UploadIds : UploadChanges(u)
<1>1. ASSUME NEW c \in Calls, Insert(c) PROVE \E u \in UploadIds : UploadChanges(u)
  BY <1>1, Inserted DEF UploadChanges
<1>2. ASSUME SweepRow PROVE uploads' = uploads \/ \E u \in UploadIds : UploadChanges(u)
  <2>1. PICK u : u = sweep.row
    OBVIOUS
  <2>2. u \in UploadIds
    BY <1>2, <2>1 DEF AppsInv, RowsType, Sweep, SweepRow
  <2>3. UploadDeleted(u) \/ uploads' = uploads
    BY <1>2, <2>1 DEF SweepRow, UploadDeleted
  <2> QED BY <2>2, <2>3 DEF UploadChanges
<1>3. ASSUME NEW d \in DepIds, MintFetchToken(d) PROVE \E u \in UploadIds : UploadChanges(u)
  <2>1. PICK u : u = deployments[d].upload
    OBVIOUS
  <2>2. u \in UploadIds /\ Referenced(u)
    BY <1>3, <2>1, DeployedUpload DEF MintFetchToken
  <2>3. UploadMinted(u)
    BY <1>3, <2>1, <2>2 DEF UploadMinted, MintFetchToken, SetUploadFetchToken
  <2> QED BY <2>2, <2>3 DEF UploadChanges
<1>4. ASSUME NEW d \in DepIds, FetchUpload(d) PROVE \E u \in UploadIds : UploadChanges(u)
  <2>1. PICK u : u = deployments[d].upload
    OBVIOUS
  <2>2. u \in UploadIds /\ Referenced(u)
    BY <1>4, <2>1, DeployedUpload DEF FetchUpload
  <2>3. RedeemUpload(u, deployments[d].held) /\ deployments[d].held # 0
    BY <1>4, <2>1 DEF FetchUpload
  <2>4. UploadRedeemed(u)
    BY <2>2, <2>3 DEF UploadRedeemed, RedeemUpload, Redeemable
  <2> QED BY <2>2, <2>4 DEF UploadChanges
<1>5. ASSUME Expire PROVE \E u \in UploadIds : UploadChanges(u)
  BY <1>5 DEF Expire, UploadChanges, UploadExpires
<1>6. ASSUME NEW c \in Calls, Request(c) \/ (Continue(c) /\ ~Insert(c)) PROVE uploads' = uploads
  <2>1. Request(c) => uploads' = uploads
    BY DEF Request, PostUpload, DeployFiles, Accept, Deploy, DeleteApp, SetConfig, UnsetConfig, Rollback,
       tables
  <2>2. Continue(c) /\ ~Insert(c) => uploads' = uploads
    BY DEF Continue, WriteFile, Discard, CheckUpload, ResolveApp, NewApp, QueueDeployment,
           ReadConfig, WriteConfig, RetireApp, Stop, tables
  <2> QED BY <1>6, <2>1, <2>2
<1>7. ASSUME NEW d \in DepIds, \/ Claim(d) \/ DeployConfig(d) \/ MarkHealthy(d) \/ EndDeployment(d)
                              \/ RemoveTarball(d)
      PROVE  uploads' = uploads
  BY <1>7 DEF Claim, DeployConfig, MarkHealthy, EndDeployment, RemoveTarball, tables
<1>8. ListSweepable \/ SweepFile \/ Crash \/ UNCHANGED vars => uploads' = uploads
  BY DEF ListSweepable, SweepFile, Crash, tables, vars
<1> QED BY <1>1, <1>2, <1>3, <1>4, <1>5, <1>6, <1>7, <1>8 DEF Next, Loop

\* A token is new, or it is the old one and not unspent again; what is spent
\* was, or is of an upload a deployment took up.
TokenKept(u, new) ==
  /\ new.token >= uploads[u].token
  /\ new.token # 0 /\ ~new.redeemed =>
       new.token > uploads[u].token \/ (new.token = uploads[u].token /\ ~uploads[u].redeemed)
  /\ new.redeemed => uploads[u].redeemed \/ Referenced(u)

\* One row changes at a time: a new one is an account's, and an old one keeps
\* its owner and stays expired once it is; only the sweep retires it.
UploadBecomes(u, new) ==
  /\ uploads' = [uploads EXCEPT ![u] = new] /\ new.st # "none"
  /\ TokenKept(u, new)
  /\ \/ UploadCreated(u) /\ new.st = "row" /\ new.of \in Accounts
     \/ /\ uploads[u].st = "row" /\ new.of = uploads[u].of
        /\ uploads[u].expired => new.expired
        /\ new.st = "row" \/ UploadDeleted(u)

\* Every change of an upload's row is its creation or leaves its owner alone.
LEMMA UploadRow ==
  ASSUME AppsInv, NEW u \in UploadIds, UploadChanges(u)
  PROVE  \E new \in Upload : UploadBecomes(u, new)
<1>1. uploads \in [UploadIds -> Upload] /\ uploads[u] \in Upload
  BY DEF AppsInv, RowsType
<1>2. CASE UploadCreated(u)
  <2>1. PICK a \in Accounts :
          uploads' = [uploads EXCEPT ![u] = [NoUpload EXCEPT !.st = "row", !.of = a]]
    BY <1>2 DEF UploadCreated
  <2> DEFINE new == [NoUpload EXCEPT !.st = "row", !.of = a]
  <2>2. NoUpload \in Upload
    BY Bounds DEF Upload, NoUpload
  <2>3. new \in Upload /\ new.st = "row" /\ new.of = a /\ new.token = NoUpload.token
        /\ new.redeemed = NoUpload.redeemed
    BY <2>2 DEF Upload
  <2>4. uploads' = [uploads EXCEPT ![u] = new] /\ uploads[u] = NoUpload
    BY <1>2, <2>1 DEF UploadCreated
  <2> HIDE DEF new
  <2>5. TokenKept(u, new)
    BY <2>3, <2>4 DEF TokenKept, NoUpload
  <2> QED BY <1>2, <2>3, <2>4, <2>5 DEF UploadBecomes
<1>3. uploads[u].token \in Nat /\ uploads[u].redeemed \in BOOLEAN
  BY <1>1, Bounds DEF Upload
<1>4. CASE ~UploadCreated(u)
  <2>1. uploads[u].st = "row"
    <3>1. Referenced(u) => uploads[u].st = "row"
      BY DEF AppsInv, DeploymentsFit, Referenced, NoDeployment, UploadIds
    <3>2. UploadDeleted(u) => uploads[u].st = "row"
      BY DEF AppsInv, SweepFits, UploadDeleted, UploadIds
    <3> QED BY <1>4, <3>1, <3>2 DEF UploadChanges, UploadMinted, UploadRedeemed, UploadExpires
  <2>2. ASSUME NEW new \in Upload, uploads' = [uploads EXCEPT ![u] = new],
               new.of = uploads[u].of, uploads[u].expired => new.expired, TokenKept(u, new),
               new.st = "row" \/ (UploadDeleted(u) /\ new.st = "deleted")
        PROVE  \E n \in Upload : UploadBecomes(u, n)
    BY <2>1, <2>2 DEF UploadBecomes
  <2>3. CASE UploadDeleted(u)
    <3> DEFINE new == [uploads[u] EXCEPT !.st = "deleted"]
    <3>1. new \in Upload /\ new.of = uploads[u].of /\ new.expired = uploads[u].expired
          /\ new.st = "deleted" /\ new.token = uploads[u].token
          /\ new.redeemed = uploads[u].redeemed
      BY <1>1 DEF Upload
    <3>2. uploads' = [uploads EXCEPT ![u] = new]
      BY <1>1, <2>3 DEF UploadDeleted
    <3> HIDE DEF new
    <3>3. TokenKept(u, new)
      BY <1>3, <3>1 DEF TokenKept
    <3> QED BY <2>2, <2>3, <3>1, <3>2, <3>3
  <2>4. CASE UploadMinted(u)
    <3> DEFINE new == [uploads[u] EXCEPT !.token = uploads[u].token + 1, !.redeemed = FALSE]
    <3>1. uploads[u].token + 1 \in 0 .. MaxMints
      BY <1>1, <2>4, Bounds DEF UploadMinted, Upload
    <3>2. new \in Upload /\ new.of = uploads[u].of /\ new.expired = uploads[u].expired
          /\ new.st = uploads[u].st /\ new.token = uploads[u].token + 1 /\ ~new.redeemed
      BY <1>1, <3>1 DEF Upload
    <3>3. uploads' = [uploads EXCEPT ![u] = new]
      BY <1>1, <2>4 DEF UploadMinted
    <3> HIDE DEF new
    <3>4. TokenKept(u, new)
      BY <1>3, <3>2 DEF TokenKept
    <3> QED BY <2>1, <2>2, <3>2, <3>3, <3>4
  <2>5. CASE UploadRedeemed(u)
    <3> DEFINE new == [uploads[u] EXCEPT !.redeemed = TRUE]
    <3>1. new \in Upload /\ new.of = uploads[u].of /\ new.expired = uploads[u].expired
          /\ new.st = uploads[u].st /\ new.token = uploads[u].token /\ new.redeemed
         
      BY <1>1 DEF Upload
    <3>2. uploads' = [uploads EXCEPT ![u] = new]
      BY <1>1, <2>5 DEF UploadRedeemed
    <3> HIDE DEF new
    <3>3. TokenKept(u, new)
      BY <1>3, <2>5, <3>1 DEF TokenKept, UploadRedeemed
    <3> QED BY <2>1, <2>2, <3>1, <3>2, <3>3
  <2>6. CASE UploadExpires(u)
    <3> DEFINE new == [uploads[u] EXCEPT !.expired = TRUE]
    <3>1. new \in Upload /\ new.of = uploads[u].of /\ new.expired
          /\ new.st = uploads[u].st /\ new.token = uploads[u].token
          /\ new.redeemed = uploads[u].redeemed
      BY <1>1 DEF Upload
    <3>2. uploads' = [uploads EXCEPT ![u] = new]
      BY <1>1, <2>6 DEF UploadExpires
    <3> HIDE DEF new
    <3>3. TokenKept(u, new)
      BY <1>3, <3>1 DEF TokenKept
    <3> QED BY <2>1, <2>2, <3>1, <3>2, <3>3
  <2> QED BY <1>4, <2>3, <2>4, <2>5, <2>6 DEF UploadChanges
<1> QED BY <1>2, <1>4
\* The fates of an app's row: it is created under the checks of one
\* transaction, and it is deleted when nothing of it is in flight.
AppBecomes(i, new) ==
  /\ apps' = [apps EXCEPT ![i] = new] /\ new # NoApp
  /\ \/ /\ apps[i] = NoApp /\ ~new.deleted
        /\ CountLiveAppsByAccount(new.of) < AppLimit /\ GetAppByName(new.of, new.name) = {}
        /\ ~SlugExists(new.slug) /\ new.slug[1] \notin Reserved
     \/ /\ LiveApp(i) /\ new.deleted
        /\ new.of = apps[i].of /\ new.name = apps[i].name /\ new.slug = apps[i].slug

\* The slugs an app may have, under a name the provers need not look into.
Slugs == {<<BaseOf[n], s>> : n \in Names, s \in Suffixes} \union {<<>>}

\* The type of an app's row, in terms of that name.
LEMMA AppForm ==
  App = [of : Accounts \union {None}, name : Names \union {None}, slug : Slugs, deleted : BOOLEAN]
BY DEF App, Slugs

\* Every step leaves the apps alone or changes one in one of those ways.
LEMMA AppMoves ==
  ASSUME AppsInv, [Next]_vars
  PROVE  apps' = apps \/ \E i \in AppIds, new \in App : AppBecomes(i, new)
<1>1. apps \in [AppIds -> App]
  BY DEF AppsInv, RowsType
<1>2. ASSUME NEW c \in Calls, NewApp(c)
      PROVE  \E i \in AppIds, new \in App : AppBecomes(i, new)
  <2>1. PICK a, n : a = call[c].of /\ n = call[c].name
    OBVIOUS
  <2>2. PICK i \in AppIds : CreateApp(i, a, n)
    BY <1>2, <2>1 DEF NewApp
  <2>3. a \in Accounts \union {None} /\ n \in Names
    BY <1>2, <2>1 DEF NewApp, At, AppsInv, RowsType, Call, CallFits, StepFits
  <2>4. PICK s \in Suffixes :
          /\ ~SlugExists(<<BaseOf[n], s>>)
          /\ apps' = [apps EXCEPT ![i] =
                        [of |-> a, name |-> n, slug |-> <<BaseOf[n], s>>, deleted |-> FALSE]]
    BY <2>2 DEF CreateApp
  <2> DEFINE new == [of |-> a, name |-> n, slug |-> <<BaseOf[n], s>>, deleted |-> FALSE]
  <2>5. new \in App
    BY <2>3 DEF App
  <2>6. new # NoApp
    BY <2>3, NamesAssumption DEF NoApp, NamesAssumption
  <2>7. new.of = a /\ new.name = n /\ new.slug = <<BaseOf[n], s>> /\ ~new.deleted
        /\ new.slug[1] = BaseOf[n]
    OBVIOUS
  <2>8. apps[i] = NoApp /\ BaseOf[n] \notin Reserved
        /\ CountLiveAppsByAccount(a) < AppLimit /\ GetAppByName(a, n) = {}
    BY <2>2 DEF CreateApp, IsNext
  <2> HIDE DEF new
  <2> QED BY <2>4, <2>5, <2>6, <2>7, <2>8 DEF AppBecomes, new
<1>3. ASSUME NEW c \in Calls, RetireApp(c)
      PROVE  \E i \in AppIds, new \in App : AppBecomes(i, new)
  <2>1. PICK i : i = call[c].app
    OBVIOUS
  <2>2. i \in AppIds /\ LiveApp(i) /\ apps' = [apps EXCEPT ![i].deleted = TRUE]
    BY <1>3, <2>1 DEF RetireApp, SoftDeleteApp, At, AppsInv, CallFits, StepFits
  <2> DEFINE new == [apps[i] EXCEPT !.deleted = TRUE]
  <2>3. apps[i] \in App
    BY <1>1, <2>2
  <2>4. new \in App /\ new.deleted /\ new.of = apps[i].of /\ new.name = apps[i].name
        /\ new.slug = apps[i].slug
    BY <2>3, AppForm
  <2>5. apps' = [apps EXCEPT ![i] = new]
    BY <1>1, <2>2
  <2>6. new # NoApp
    BY <2>4 DEF NoApp
  <2> HIDE DEF new
  <2> QED BY <2>2, <2>4, <2>5, <2>6 DEF AppBecomes
<1>4. ASSUME NEW c \in Calls, Request(c) \/ (Continue(c) /\ ~NewApp(c) /\ ~RetireApp(c))
      PROVE  apps' = apps
  <2>1. Request(c) => apps' = apps
    BY DEF Request, PostUpload, DeployFiles, Accept, Deploy, DeleteApp, SetConfig, UnsetConfig, Rollback,
       tables
  <2>2. Continue(c) /\ ~NewApp(c) /\ ~RetireApp(c) => apps' = apps
    BY DEF Continue, WriteFile, Insert, Discard, CheckUpload, ResolveApp, QueueDeployment,
           ReadConfig, WriteConfig, Stop, tables
  <2> QED BY <1>4, <2>1, <2>2
<1>5. ASSUME NEW d \in DepIds,
             \/ Claim(d) \/ MintFetchToken(d) \/ FetchUpload(d) \/ DeployConfig(d)
             \/ MarkHealthy(d) \/ EndDeployment(d) \/ RemoveTarball(d)
      PROVE  apps' = apps
  BY <1>5 DEF Claim, MintFetchToken, FetchUpload, DeployConfig, MarkHealthy, EndDeployment,
           RemoveTarball, tables
<1>6. ListSweepable \/ SweepFile \/ SweepRow \/ Expire \/ Crash \/ UNCHANGED vars => apps' = apps
  BY DEF ListSweepable, SweepFile, SweepRow, Expire, Crash, tables, vars
<1> QED BY <1>2, <1>3, <1>4, <1>5, <1>6 DEF Next, Loop

\* The fates of a deployment's row: a new one supersedes the app's in-flight
\* ones, a build gets a token, and a deployment ends.
DeploymentBecomes(d, new) ==
  /\ deployments' = [deployments EXCEPT ![d] = new]
  /\ deployments[d] # NoDeployment /\ new # NoDeployment
  /\ new.app = deployments[d].app /\ new.upload = deployments[d].upload
  /\ new.source = deployments[d].source
  /\ new.inFlight => deployments[d].inFlight
  /\ new.held = deployments[d].held \/ deployments[d].upload # 0
DeploymentCreated(d, i, u, source) ==
  /\ LiveApp(i) /\ (u # 0 => uploads[u].st = "row" /\ uploads[u].of = apps[i].of)
  /\ deployments[d] = NoDeployment /\ source \subseteq releases[i]
  /\ deployments' = [e \in DepIds |->
       IF e = d THEN [app |-> i, upload |-> u, source |-> source, inFlight |-> TRUE, held |-> 0]
       ELSE IF e \in InFlightOf(i) THEN [deployments[e] EXCEPT !.inFlight = FALSE]
       ELSE deployments[e]]
  /\ uploads' = uploads

\* What leaves a driven row in flight or ends it.
LEMMA RowEnds ==
  ASSUME AppsInv, NEW d \in DepIds, deployments[d] # NoDeployment,
         deployments' = [deployments EXCEPT ![d].inFlight = FALSE]
  PROVE  \E new \in Deployment : DeploymentBecomes(d, new)
<1>1. deployments \in [DepIds -> Deployment] /\ deployments[d] \in Deployment
  BY DEF AppsInv, RowsType
<1>2. deployments[d].app \in AppIds
  BY DEF AppsInv, DeploymentsFit
<1> DEFINE new == [deployments[d] EXCEPT !.inFlight = FALSE]
<1>3. /\ new \in Deployment /\ new.app = deployments[d].app /\ new.upload = deployments[d].upload
      /\ new.source = deployments[d].source /\ ~new.inFlight /\ new.held = deployments[d].held
  BY <1>1 DEF Deployment
<1>4. deployments' = [deployments EXCEPT ![d] = new]
  BY <1>1
<1>5. new # NoDeployment
  BY <1>2, <1>3, Bounds DEF NoDeployment, AppIds
<1> HIDE DEF new
<1> QED BY <1>3, <1>4, <1>5 DEF DeploymentBecomes

\* Every step leaves the deployments alone or changes them in one of those ways.
LEMMA DeploymentMoves ==
  ASSUME AppsInv, [Next]_vars
  PROVE  \/ deployments' = deployments
         \/ \E d \in DepIds, new \in Deployment : DeploymentBecomes(d, new)
         \/ \E d \in DepIds, i \in AppIds, u \in 0 .. MaxUploads, source \in SUBSET Snapshot :
              DeploymentCreated(d, i, u, source)
<1>1. deployments \in [DepIds -> Deployment] /\ uploads \in [UploadIds -> Upload]
  BY DEF AppsInv, RowsType
<1>2. ASSUME NEW c \in Calls, QueueDeployment(c)
      PROVE  \E d \in DepIds, i \in AppIds, u \in 0 .. MaxUploads, source \in SUBSET Snapshot :
               DeploymentCreated(d, i, u, source)
  <2>1. PICK i, u : i = call[c].app /\ u = call[c].upload
    OBVIOUS
  <2>2. PICK d \in DepIds : CreateDeployment(d, i, u, {})
    BY <1>2, <2>1 DEF QueueDeployment
  <2>3. i \in AppIds /\ u \in UploadIds /\ uploads[u].of = apps[i].of
    BY <1>2, <2>1 DEF QueueDeployment, At, AppsInv, CallFits, StepFits
  <2>4. u \in 0 .. MaxUploads /\ uploads' = uploads
    BY <1>2, <2>3, Bounds DEF QueueDeployment, UploadIds
  <2>5. DeploymentCreated(d, i, u, {})
    BY <2>2, <2>3, <2>4 DEF CreateDeployment, DeploymentCreated, IsNext
  <2>6. {} \in SUBSET Snapshot
    OBVIOUS
  <2> QED BY <2>3, <2>4, <2>5, <2>6
<1>3. ASSUME NEW c \in Calls, NEW i \in AppIds, Rollback(c, i)
      PROVE  \E d \in DepIds, j \in AppIds, u \in 0 .. MaxUploads, source \in SUBSET Snapshot :
               DeploymentCreated(d, j, u, source)
  <2>1. PICK s \in releases[i], d \in DepIds : CreateDeployment(d, i, 0, {s})
    BY <1>3 DEF Rollback
  <2>2. {s} \subseteq releases[i] /\ uploads' = uploads /\ 0 \in 0 .. MaxUploads
    BY <1>3, <2>1, Bounds DEF Rollback
  <2>3. DeploymentCreated(d, i, 0, {s})
    BY <2>1, <2>2 DEF CreateDeployment, DeploymentCreated, IsNext
  <2>4. {s} \in SUBSET Snapshot
    BY <2>1 DEF AppsInv, RowsType
  <2> QED BY <2>2, <2>3, <2>4
<1>4. ASSUME NEW d \in DepIds, MintFetchToken(d)
      PROVE  \E new \in Deployment : DeploymentBecomes(d, new)
  <2>1. PICK u : u = deployments[d].upload
    OBVIOUS
  <2>2. u \in UploadIds /\ u # 0 /\ deployments[d] # NoDeployment
    BY <1>4, <2>1, DeployedUpload DEF MintFetchToken
  <2>3. PICK k : k = uploads[u].token + 1
    OBVIOUS
  <2>4. k \in 0 .. MaxMints
    BY <1>1, <1>4, <2>1, <2>2, <2>3, Bounds DEF MintFetchToken, Upload
  <2> DEFINE new == [deployments[d] EXCEPT !.held = k]
  <2>5. deployments[d] \in Deployment /\ deployments[d].app \in AppIds
    BY <1>1, <2>2 DEF AppsInv, DeploymentsFit
  <2>6. /\ new \in Deployment /\ new.app = deployments[d].app /\ new.upload = u
        /\ new.source = deployments[d].source /\ new.inFlight = deployments[d].inFlight
    BY <2>1, <2>4, <2>5 DEF Deployment
  <2>7. deployments' = [deployments EXCEPT ![d] = new]
    BY <1>1, <1>4, <2>1, <2>3 DEF MintFetchToken
  <2>8. new # NoDeployment
    BY <2>2, <2>6 DEF NoDeployment
  <2> HIDE DEF new
  <2> QED BY <2>1, <2>2, <2>6, <2>7, <2>8 DEF DeploymentBecomes
<1>5. ASSUME NEW d \in DepIds, MarkHealthy(d) \/ EndDeployment(d)
      PROVE  deployments' = deployments \/ \E new \in Deployment : DeploymentBecomes(d, new)
  <2>1. deployments[d] # NoDeployment
    BY <1>5, DrivenRow DEF MarkHealthy, EndDeployment
  <2>2. deployments' = deployments \/ deployments' = [deployments EXCEPT ![d].inFlight = FALSE]
    BY <1>5 DEF MarkHealthy, EndDeployment
  <2> QED BY <2>1, <2>2, RowEnds
<1>6. ASSUME NEW c \in Calls, Continue(c), ~QueueDeployment(c) PROVE deployments' = deployments
  BY <1>6 DEF Continue, WriteFile, Insert, Discard, CheckUpload, ResolveApp, NewApp, RetireApp,
           ReadConfig, WriteConfig, Stop, tables
<1>7. ASSUME NEW c \in Calls, Request(c), ~\E i \in AppIds : Rollback(c, i)
      PROVE  deployments' = deployments
  BY <1>7 DEF Request, PostUpload, DeployFiles, Accept, Deploy, DeleteApp, SetConfig, UnsetConfig,
           tables
<1>8. ASSUME NEW d \in DepIds, Claim(d) \/ FetchUpload(d) \/ DeployConfig(d) \/ RemoveTarball(d)
      PROVE  deployments' = deployments
  BY <1>8 DEF Claim, FetchUpload, DeployConfig, RemoveTarball, tables
<1>9. ListSweepable \/ SweepFile \/ SweepRow \/ Expire \/ Crash \/ UNCHANGED vars
        => deployments' = deployments
  BY DEF ListSweepable, SweepFile, SweepRow, Expire, Crash, tables, vars
<1> QED BY <1>2, <1>3, <1>4, <1>5, <1>6, <1>7, <1>8, <1>9 DEF Next, Loop
-----------------------------------------------------------------------------
(* What every row keeps. *)

\* An upload keeps its owner and its expiry; nothing retires it while a
\* deployment refers to it, and nothing revives it.
LEMMA UploadsKept ==
  ASSUME AppsInv, [Next]_vars
  PROVE  /\ uploads' \in [UploadIds -> Upload]
         /\ \A u \in UploadIds : uploads[u] # NoUpload =>
              /\ uploads'[u] # NoUpload /\ uploads'[u].st # "none"
              /\ uploads'[u].of = uploads[u].of
              /\ uploads[u].expired => uploads'[u].expired
              /\ uploads'[u].st = "row" => uploads[u].st = "row"
              /\ uploads[u].st = "row" =>
                   uploads'[u].st = "row" \/ UploadDeleted(u)
<1>1. uploads \in [UploadIds -> Upload]
  BY DEF AppsInv, RowsType
<1>2. \A u \in UploadIds : uploads[u] # NoUpload => uploads[u].st # "none"
  BY DEF AppsInv, UploadsFit
<1>3. CASE uploads' = uploads
  BY <1>1, <1>2, <1>3
<1>4. ASSUME NEW v \in UploadIds, UploadChanges(v),
             NEW new \in Upload, UploadBecomes(v, new)
      PROVE  /\ uploads' \in [UploadIds -> Upload]
             /\ \A u \in UploadIds : uploads[u] # NoUpload =>
                  /\ uploads'[u] # NoUpload /\ uploads'[u].st # "none"
                  /\ uploads'[u].of = uploads[u].of
                  /\ uploads[u].expired => uploads'[u].expired
                  /\ uploads'[u].st = "row" => uploads[u].st = "row"
                  /\ uploads[u].st = "row" =>
                       uploads'[u].st = "row" \/ UploadDeleted(u)
  <2>1. uploads' = [uploads EXCEPT ![v] = new] /\ new.st # "none"
    BY <1>4 DEF UploadBecomes
  <2>2. uploads' \in [UploadIds -> Upload] /\ uploads'[v] = new
        /\ \A u \in UploadIds \ {v} : uploads'[u] = uploads[u]
    BY <1>1, <2>1
  <2>3. new # NoUpload
    BY <2>1 DEF NoUpload
  <2>4. uploads[v] # NoUpload => /\ new.of = uploads[v].of /\ uploads[v].st = "row"
                                 /\ uploads[v].expired => new.expired
                                 /\ new.st = "row" \/ UploadDeleted(v)
    BY <1>4 DEF UploadBecomes, UploadCreated
  <2> QED BY <1>2, <2>1, <2>2, <2>3, <2>4
<1> QED BY <1>3, <1>4, UploadMoves, UploadRow

\* An app keeps its owner, its name and its hostname, and stays deleted.
LEMMA AppsKept ==
  ASSUME AppsInv, [Next]_vars
  PROVE  /\ apps' \in [AppIds -> App]
         /\ \A i \in AppIds : apps[i] # NoApp =>
              /\ apps'[i] # NoApp /\ apps'[i].of = apps[i].of /\ apps'[i].name = apps[i].name
              /\ apps'[i].slug = apps[i].slug /\ (apps[i].deleted => apps'[i].deleted)
<1>1. apps \in [AppIds -> App]
  BY DEF AppsInv, RowsType
<1>2. ASSUME NEW j \in AppIds, NEW new \in App, AppBecomes(j, new)
      PROVE  /\ apps' \in [AppIds -> App]
             /\ \A i \in AppIds : apps[i] # NoApp =>
                  /\ apps'[i] # NoApp /\ apps'[i].of = apps[i].of /\ apps'[i].name = apps[i].name
                  /\ apps'[i].slug = apps[i].slug /\ (apps[i].deleted => apps'[i].deleted)
  <2>1. apps' = [apps EXCEPT ![j] = new] /\ new # NoApp
    BY <1>2 DEF AppBecomes
  <2>2. apps[j] # NoApp => /\ new.of = apps[j].of /\ new.name = apps[j].name
                           /\ new.slug = apps[j].slug /\ new.deleted
    BY <1>2 DEF AppBecomes
  <2> QED BY <1>1, <2>1, <2>2
<1> QED BY <1>1, <1>2, AppMoves

\* A deployment keeps its app, its upload and its source, and once ended it
\* stays so; only a build is given a token.
RowKept(d) ==
  /\ deployments'[d] # NoDeployment
  /\ deployments'[d].app = deployments[d].app
  /\ deployments'[d].upload = deployments[d].upload
  /\ deployments'[d].source = deployments[d].source
  /\ deployments'[d].inFlight => deployments[d].inFlight
  /\ deployments'[d].held # 0 => deployments[d].held # 0 \/ deployments[d].upload # 0
\* A new one is in flight, for a live app and an upload of that app's account or
\* a release of that app.
RowNew(d) ==
  /\ deployments'[d].inFlight /\ deployments'[d].held = 0
  /\ deployments'[d].app \in AppIds /\ apps[deployments'[d].app] # NoApp
  /\ deployments'[d].source \subseteq releases[deployments'[d].app]
  /\ deployments'[d].upload # 0 =>
       /\ uploads[deployments'[d].upload].st = "row"
       /\ uploads[deployments'[d].upload].of = apps[deployments'[d].app].of
  /\ uploads' = uploads

LEMMA DeploymentsKept ==
  ASSUME AppsInv, [Next]_vars
  PROVE  /\ deployments' \in [DepIds -> Deployment]
         /\ \A d \in DepIds : deployments[d] # NoDeployment => RowKept(d)
         /\ \A d \in DepIds : deployments[d] = NoDeployment /\ deployments'[d] # NoDeployment =>
              RowNew(d)
<1>1. deployments \in [DepIds -> Deployment] /\ releases \in [AppIds -> SUBSET Snapshot]
  BY DEF AppsInv, RowsType
<1>2. CASE deployments' = deployments
  BY <1>1, <1>2 DEF RowKept
<1>3. ASSUME NEW e \in DepIds, NEW new \in Deployment, DeploymentBecomes(e, new)
      PROVE  /\ deployments' \in [DepIds -> Deployment]
             /\ \A d \in DepIds : deployments[d] # NoDeployment => RowKept(d)
             /\ \A d \in DepIds : ~(deployments[d] = NoDeployment /\ deployments'[d] # NoDeployment)
  <2>1. deployments' \in [DepIds -> Deployment] /\ deployments'[e] = new
        /\ \A d \in DepIds \ {e} : deployments'[d] = deployments[d]
    BY <1>1, <1>3 DEF DeploymentBecomes
  <2>2. deployments[e] # NoDeployment /\ RowKept(e)
    BY <1>3, <2>1 DEF DeploymentBecomes, RowKept
  <2>3. ASSUME NEW d \in DepIds, d # e, deployments[d] # NoDeployment PROVE RowKept(d)
    BY <2>1, <2>3 DEF RowKept
  <2> QED BY <2>1, <2>2, <2>3
<1>4. ASSUME NEW e \in DepIds, NEW i \in AppIds, NEW u \in 0 .. MaxUploads,
             NEW source \in SUBSET Snapshot,
             DeploymentCreated(e, i, u, source)
      PROVE  /\ deployments' \in [DepIds -> Deployment]
             /\ \A d \in DepIds : deployments[d] # NoDeployment => RowKept(d)
             /\ \A d \in DepIds : deployments[d] = NoDeployment /\ deployments'[d] # NoDeployment =>
                  RowNew(d)
  <2> DEFINE new == [app |-> i, upload |-> u, source |-> source, inFlight |-> TRUE, held |-> 0]
             ended(d) == [deployments[d] EXCEPT !.inFlight = FALSE]
  <2>1. source \in SUBSET Snapshot /\ source \subseteq releases[i] /\ uploads' = uploads
        /\ apps[i] # NoApp /\ (u # 0 => uploads[u].st = "row" /\ uploads[u].of = apps[i].of)
    BY <1>1, <1>4 DEF DeploymentCreated, LiveApp
  <2>2. new \in Deployment /\ new.app = i /\ new.upload = u /\ new.source = source /\ new.inFlight
        /\ new.held = 0
    BY <2>1, Bounds DEF Deployment, AppIds
  <2>3. ASSUME NEW d \in DepIds
        PROVE  ended(d) \in Deployment /\ ended(d).app = deployments[d].app
               /\ ended(d).upload = deployments[d].upload /\ ~ended(d).inFlight
               /\ ended(d).source = deployments[d].source /\ ended(d).held = deployments[d].held
    <3>1. deployments[d] \in Deployment
      BY <1>1
    <3> QED BY <3>1 DEF Deployment
  <2>4. \A d \in InFlightOf(i) : deployments[d].app = i /\ i # NoDeployment.app
    BY Bounds DEF InFlightOf, AppIds, NoDeployment
  <2>5. ASSUME NEW d \in DepIds
        PROVE  deployments'[d] = IF d = e THEN new
                                 ELSE IF d \in InFlightOf(i) THEN ended(d) ELSE deployments[d]
    BY <1>4 DEF DeploymentCreated
  <2>6. deployments[e] = NoDeployment /\ DOMAIN deployments' = DepIds
        /\ deployments' = [d \in DepIds |-> deployments'[d]]
    BY <1>4 DEF DeploymentCreated
  <2> HIDE DEF new, ended
  <2>7. \A d \in DepIds : deployments'[d] \in Deployment
    BY <1>1, <2>2, <2>3, <2>5
  <2>8. deployments' \in [DepIds -> Deployment]
    BY <2>6, <2>7
  <2>9. ASSUME NEW d \in DepIds, deployments[d] # NoDeployment PROVE RowKept(d)
    <3>1. d # e
      BY <2>6, <2>9
    <3>2. CASE d \in InFlightOf(i)
      <4>1. deployments'[d] = ended(d) /\ deployments[d].app = i
        BY <2>4, <2>5, <3>1, <3>2
      <4>2. deployments'[d] # NoDeployment
        BY <2>3, <2>4, <3>2, <4>1
      <4> QED BY <2>3, <4>1, <4>2 DEF RowKept
    <3>3. CASE d \notin InFlightOf(i)
      <4>1. deployments'[d] = deployments[d]
        BY <2>5, <3>1, <3>3
      <4> QED BY <2>9, <4>1 DEF RowKept
    <3> QED BY <3>2, <3>3
  <2>10. ASSUME NEW d \in DepIds, deployments[d] = NoDeployment, deployments'[d] # NoDeployment
         PROVE  RowNew(d)
    <3>1. d \notin InFlightOf(i)
      BY <2>4, <2>10
    <3>2. deployments'[d] = new
      BY <2>5, <2>10, <3>1
    <3> QED BY <2>1, <2>2, <3>2 DEF RowNew
  <2> QED BY <2>8, <2>9, <2>10
<1> QED BY <1>2, <1>3, <1>4, DeploymentMoves

\* The loop rests, drops its drive, or takes one of the steps of a drive that it
\* keeps in mind.
LEMMA LoopMoves ==
  ASSUME AppsInv, [Next]_vars
  PROVE  \/ UNCHANGED loop
         \/ drive' = NoDrive /\ UNCHANGED <<releases, unended>>
         \/ \E d \in DepIds : Claim(d) \/ DeployConfig(d) \/ MarkHealthy(d) \/ EndDeployment(d)
<1>1. ASSUME NEW c \in Calls, Request(c) \/ Continue(c) PROVE UNCHANGED loop
  <2>1. Request(c) => UNCHANGED loop
    BY DEF Request, PostUpload, DeployFiles, Accept, Deploy, DeleteApp, SetConfig, UnsetConfig,
           Rollback
  <2>2. Continue(c) => UNCHANGED loop
    BY DEF Continue, WriteFile, Insert, Discard, CheckUpload, ResolveApp, NewApp, RetireApp,
           QueueDeployment, ReadConfig, WriteConfig, Stop
  <2> QED BY <1>1, <2>1, <2>2
<1>2. ASSUME NEW d \in DepIds, MintFetchToken(d) \/ FetchUpload(d) PROVE UNCHANGED loop
  BY <1>2 DEF MintFetchToken, FetchUpload
<1>3. ListSweepable \/ SweepFile \/ SweepRow \/ Expire \/ UNCHANGED vars => UNCHANGED loop
  BY DEF ListSweepable, SweepFile, SweepRow, Expire, vars, loop
<1>4. ASSUME Crash \/ \E d \in DepIds : RemoveTarball(d)
      PROVE  drive' = NoDrive /\ UNCHANGED <<releases, unended>>
  BY <1>4 DEF Crash, RemoveTarball
<1> QED BY <1>1, <1>2, <1>3, <1>4 DEF Next, Loop

\* A deployment whose end was refused is remembered as such.
LEMMA UnendedKept ==
  ASSUME AppsInv, [Next]_vars
  PROVE  unended \subseteq unended' /\ unended' \subseteq DepIds
<1>1. unended \subseteq DepIds
  BY DEF AppsInv, VolumeType
<1>2. ASSUME NEW d \in DepIds, Claim(d) \/ DeployConfig(d) \/ MarkHealthy(d) \/ EndDeployment(d)
      PROVE  unended' = unended \/ unended' = unended \union {d}
  BY <1>2 DEF Claim, DeployConfig, MarkHealthy, EndDeployment
<1>3. UNCHANGED loop => unended' = unended
  BY DEF loop
<1> QED BY <1>1, <1>2, <1>3, LoopMoves

\* What a deployment took up stays taken up, and what one of its deployments
\* left stays left.
LEMMA TakenStays ==
  ASSUME AppsInv, [Next]_vars, NEW u \in UploadIds
  PROVE  (Referenced(u) => Referenced(u)') /\ (Ended(u) => Ended(u)')
<1>1. u # NoDeployment.upload
  BY DEF NoDeployment, UploadIds
<1>2. \A d \in DepIds : deployments[d] # NoDeployment =>
              /\ deployments'[d].upload = deployments[d].upload
              /\ ~deployments[d].inFlight => ~deployments'[d].inFlight
  BY DeploymentsKept DEF RowKept
<1>3. Referenced(u) => Referenced(u)'
  BY <1>1, <1>2 DEF Referenced
<1>4. Ended(u) => Ended(u)'
  BY <1>1, <1>2, UnendedKept DEF Ended
<1> QED BY <1>3, <1>4

\* A drive keeps to a row that is there, and is over only when that row has
\* ended or could not be ended.
LEMMA DriveFitsKept ==
  ASSUME AppsInv, [Next]_vars
  PROVE  DriveFits'
<1>1. \A d \in DepIds : deployments[d] # NoDeployment =>
        /\ deployments'[d] # NoDeployment
        /\ ~deployments[d].inFlight => ~deployments'[d].inFlight
  BY DeploymentsKept DEF RowKept
<1>2. unended \subseteq unended' /\ drive \in Drive
  BY UnendedKept DEF AppsInv, RowsType
<1>3. ASSUME drive'.of = drive.of, drive'.over = drive.over PROVE DriveFits'
  BY <1>1, <1>2, <1>3 DEF AppsInv, DriveFits
<1>4. CASE UNCHANGED loop
  BY <1>3, <1>4 DEF loop
<1>5. CASE drive' = NoDrive
  BY <1>5 DEF DriveFits, NoDrive
<1>6. ASSUME NEW d \in DepIds, Claim(d) PROVE DriveFits'
  <2>1. deployments[d] # NoDeployment /\ drive' = [NoDrive EXCEPT !.of = d]
    BY <1>6 DEF Claim, NoDeployment
  <2>2. drive'.of = d /\ ~drive'.over
    BY <2>1 DEF NoDrive
  <2> QED BY <1>1, <2>1, <2>2 DEF DriveFits
<1>7. ASSUME NEW d \in DepIds, DeployConfig(d) PROVE DriveFits'
  <2>1. \E p : drive' = [drive EXCEPT !.plan = p]
    BY <1>7 DEF DeployConfig
  <2>2. drive'.of = drive.of /\ drive'.over = drive.over
    BY <1>2, <2>1 DEF Drive
  <2> QED BY <1>3, <2>2
<1>8. ASSUME NEW d \in DepIds, MarkHealthy(d) \/ EndDeployment(d) PROVE DriveFits'
  <2>1. drive' = [drive EXCEPT !.over = TRUE] /\ drive.of = d
    BY <1>8 DEF MarkHealthy, EndDeployment, Driving
  <2>2. drive'.of = d /\ drive'.over
    BY <1>2, <2>1 DEF Drive
  <2>3. deployments[d] # NoDeployment /\ DOMAIN deployments = DepIds /\ deployments[d] \in Deployment
    BY <1>8, DrivenRow DEF MarkHealthy, EndDeployment, AppsInv, RowsType
  <2>4. deployments' = [deployments EXCEPT ![d].inFlight = FALSE] \/ d \in unended'
    BY <1>8 DEF MarkHealthy, EndDeployment
  <2>5. ASSUME deployments' = [deployments EXCEPT ![d].inFlight = FALSE]
        PROVE  ~deployments'[d].inFlight
    <3>1. deployments'[d] = [deployments[d] EXCEPT !.inFlight = FALSE]
      BY <2>3, <2>5
    <3> QED BY <2>3, <3>1 DEF Deployment
  <2> QED BY <1>1, <2>2, <2>3, <2>4, <2>5 DEF DriveFits
<1> QED BY <1>4, <1>5, <1>6, <1>7, <1>8, LoopMoves

\* Releases and the plan of a drive are configurations' snapshots.
LEMMA LoopTypes ==
  ASSUME AppsInv, [Next]_vars
  PROVE  releases' \in [AppIds -> SUBSET Snapshot] /\ drive' \in Drive
<1>1. /\ releases \in [AppIds -> SUBSET Snapshot] /\ drive \in Drive
      /\ config \in [AppIds -> Configs] /\ deployments \in [DepIds -> Deployment]
  BY DEF AppsInv, RowsType
<1>2. CASE UNCHANGED loop
  BY <1>1, <1>2 DEF loop
<1>3. NoDrive \in Drive
  BY Bounds DEF NoDrive, Drive
<1>4. CASE drive' = NoDrive /\ UNCHANGED <<releases, unended>>
  BY <1>1, <1>3, <1>4
<1>5. ASSUME NEW d \in DepIds, Claim(d)
      PROVE  releases' \in [AppIds -> SUBSET Snapshot] /\ drive' \in Drive
  <2>1. drive' = [NoDrive EXCEPT !.of = d] /\ releases' = releases /\ d \in 0 .. MaxDeployments
    BY <1>5, Bounds DEF Claim, DepIds
  <2> QED BY <1>1, <1>3, <2>1 DEF Drive
<1>6. ASSUME NEW d \in DepIds, DeployConfig(d)
      PROVE  releases' \in [AppIds -> SUBSET Snapshot] /\ drive' \in Drive
  <2>1. PICK dep, p : /\ dep = deployments[d]
                      /\ p = IF dep.upload = 0 THEN dep.source ELSE {Current(dep.app)}
    OBVIOUS
  <2>2. dep \in Deployment /\ dep.app \in AppIds
    BY <1>1, <1>6, <2>1, DrivenRow DEF DeployConfig
  <2>3. dep.source \subseteq Snapshot /\ Current(dep.app) \in Snapshot
    BY <1>1, <2>2 DEF Deployment, Current, Snapshot, Configs
  <2>4. drive' = [drive EXCEPT !.plan = p] /\ releases' = releases /\ p \in SUBSET Snapshot
    BY <1>6, <2>1, <2>3 DEF DeployConfig
  <2> QED BY <1>1, <2>4 DEF Drive
<1>7. ASSUME NEW d \in DepIds, MarkHealthy(d)
      PROVE  releases' \in [AppIds -> SUBSET Snapshot] /\ drive' \in Drive
  <2>1. PICK i, s : /\ i = deployments[d].app /\ s \in drive.plan
                    /\ releases' = [releases EXCEPT ![i] = releases[i] \union {s}]
    BY <1>7 DEF MarkHealthy
  <2>2. i \in AppIds /\ s \in Snapshot /\ drive' = [drive EXCEPT !.over = TRUE]
    BY <1>1, <1>7, <2>1, DrivenRow DEF MarkHealthy, Drive
  <2>3. releases[i] \union {s} \in SUBSET Snapshot
    BY <1>1, <2>2
  <2>4. drive' \in Drive
    BY <1>1, <2>2 DEF Drive
  <2> QED BY <1>1, <2>1, <2>2, <2>3, <2>4
<1>8. ASSUME NEW d \in DepIds, EndDeployment(d)
      PROVE  releases' \in [AppIds -> SUBSET Snapshot] /\ drive' \in Drive
  <2>1. drive' = [drive EXCEPT !.over = TRUE] /\ releases' = releases
    BY <1>8 DEF EndDeployment
  <2> QED BY <1>1, <2>1 DEF Drive
<1> QED BY <1>2, <1>4, <1>5, <1>6, <1>7, <1>8, LoopMoves
-----------------------------------------------------------------------------
(* Calls. *)

\* Configurations written, merged and cut back are configurations.
LEMMA ConfigTypes ==
  /\ NoConfig \in Configs /\ Writes \subseteq Configs
  /\ \A old, w \in Configs : Merged(old, w) \in Configs
BY DEF NoConfig, Configs, Writes, Merged

\* A call that has not begun is one.
LEMMA IdleFits == Idle \in Call /\ StepFits(Idle)
BY ConfigTypes, Bounds, NamesAssumption
   DEF Idle, Call, Steps, StepFits, NamesAssumption

\* What a call between two of its steps relies on, no step of another undoes.
LEMMA StepKept ==
  ASSUME AppsInv, [Next]_vars, NEW s \in Call, StepFits(s), s.next # "insert"
  PROVE  StepFits(s)'
<1>1. \A u \in UploadIds : uploads[u] # NoUpload =>
        uploads'[u] # NoUpload /\ uploads'[u].of = uploads[u].of
  BY UploadsKept
<1>2. \A i \in AppIds : apps[i] # NoApp => apps'[i] # NoApp /\ apps'[i].of = apps[i].of
  BY AppsKept
<1> QED BY <1>1, <1>2 DEF StepFits

\* A call's next step, when it begins or goes on: a step that fits what the
\* tables and the volume now hold.
CallGoes(c, s) ==
  /\ call' = [call EXCEPT ![c] = s] /\ StepFits(s)'
  /\ s.next = "insert" => s.upload = drawn + 1

\* A request begins with a step that fits.
LEMMA RequestFits ==
  ASSUME AppsInv, NEW c \in Calls, Request(c)
  PROVE  \E s \in Call : CallGoes(c, s)
<1> DEFINE Fit(s) == s \in Call /\ StepFits(s) /\ s.next # "insert"
<1>1. [Next]_vars
  BY DEF Next
<1>2. ASSUME NEW s, Begin(c, s), Fit(s) PROVE \E t \in Call : CallGoes(c, t)
  <2>1. call' = [call EXCEPT ![c] = s]
    BY <1>2 DEF Begin
  <2>2. s \in Call /\ StepFits(s)'
    BY <1>1, <1>2, StepKept
  <2> QED BY <1>2, <2>1, <2>2 DEF CallGoes
<1>3. ASSUME NEW s, Accept(c, s), [s EXCEPT !.next = "file"] \in Call,
             s.of \in Accounts, [s EXCEPT !.next = "file"].of = s.of,
             [s EXCEPT !.next = "file"].next = "file"
      PROVE  \E t \in Call : CallGoes(c, t)
  <2>1. PICK t : t = [s EXCEPT !.next = "file"]
    OBVIOUS
  <2>2. Begin(c, t)
    BY <1>3, <2>1 DEF Accept
  <2>3. Fit(t)
    BY <1>3, <2>1 DEF StepFits
  <2> QED BY <1>2, <2>2, <2>3
<1>4. ASSUME NEW a \in Accounts, PostUpload(c, a) PROVE \E t \in Call : CallGoes(c, t)
  <2> DEFINE s == [Idle EXCEPT !.of = a]
  <2>1. Accept(c, s)
    BY <1>4 DEF PostUpload
  <2>2. s \in Call /\ s.of = a
    BY IdleFits DEF Call
  <2>3. [s EXCEPT !.next = "file"] \in Call /\ [s EXCEPT !.next = "file"].of = s.of
        /\ [s EXCEPT !.next = "file"].next = "file"
    BY <2>2 DEF Call, Steps
  <2> HIDE DEF s
  <2> QED BY <1>3, <2>1, <2>2, <2>3
<1>5. ASSUME NEW a \in Accounts, NEW n \in Names, NEW w \in Writes \union {NoConfig},
             DeployFiles(c, a, n, w)
      PROVE  \E t \in Call : CallGoes(c, t)
  <2> DEFINE s == [Idle EXCEPT !.of = a, !.name = n, !.write = w]
  <2>1. Accept(c, s)
    BY <1>5 DEF DeployFiles
  <2>2. w \in Configs
    BY ConfigTypes
  <2>3. s \in Call /\ s.of = a
    BY <2>2, IdleFits DEF Call
  <2>4. [s EXCEPT !.next = "file"] \in Call /\ [s EXCEPT !.next = "file"].of = s.of
        /\ [s EXCEPT !.next = "file"].next = "file"
    BY <2>3 DEF Call, Steps
  <2> HIDE DEF s
  <2> QED BY <1>3, <2>1, <2>3, <2>4
<1>6. ASSUME NEW a \in Accounts, NEW n \in Names, NEW w \in Writes \union {NoConfig},
             NEW u \in 1 .. drawn, Deploy(c, a, n, u, w)
      PROVE  \E t \in Call : CallGoes(c, t)
  <2> DEFINE s == [Idle EXCEPT !.next = "check", !.of = a, !.name = n, !.upload = u, !.write = w]
  <2>1. Begin(c, s)
    BY <1>6 DEF Deploy
  <2>2. w \in Configs /\ u \in UploadIds /\ u \in 0 .. MaxUploads
    BY ConfigTypes, Bounds DEF AppsInv, VolumeType, UploadIds
  <2>3. s \in Call /\ s.of = a /\ s.name = n /\ s.upload = u /\ s.next = "check"
    BY <2>2, IdleFits DEF Call, Steps
  <2> HIDE DEF s
  <2>4. Fit(s)
    BY <2>2, <2>3, NamesAssumption DEF StepFits, NamesAssumption
  <2> HIDE DEF Fit
  <2> QED BY <1>2, <2>1, <2>4
<1>7. ASSUME NEW i \in AppIds, NEW w \in Writes, SetConfig(c, i, w)
      PROVE  \E t \in Call : CallGoes(c, t)
  <2> DEFINE s == [Idle EXCEPT !.next = "config", !.app = i, !.write = w]
  <2>1. Begin(c, s) /\ apps[i] # NoApp
    BY <1>7 DEF SetConfig, LiveApp
  <2>2. w \in Configs /\ i \in 0 .. MaxApps
    BY ConfigTypes, Bounds DEF AppIds
  <2>3. s \in Call /\ s.next = "config" /\ s.app = i /\ s.name = Idle.name
    BY <2>2, IdleFits DEF Call, Steps
  <2> HIDE DEF s
  <2>4. Fit(s)
    BY <2>1, <2>3 DEF StepFits, Idle
  <2> HIDE DEF Fit
  <2> QED BY <1>2, <2>1, <2>4
<1>8. ASSUME NEW i \in AppIds, DeleteApp(c, i) PROVE \E t \in Call : CallGoes(c, t)
  <2> DEFINE s == [Idle EXCEPT !.next = "delete", !.app = i]
  <2>1. Begin(c, s) /\ apps[i] # NoApp
    BY <1>8 DEF DeleteApp, LiveApp
  <2>2. i \in 0 .. MaxApps
    BY Bounds DEF AppIds
  <2>3. s \in Call /\ s.next = "delete" /\ s.app = i
    BY <2>2, IdleFits DEF Call, Steps
  <2> HIDE DEF s
  <2>4. Fit(s)
    BY <2>1, <2>3 DEF StepFits
  <2> HIDE DEF Fit
  <2> QED BY <1>2, <2>1, <2>4
<1>9. ASSUME NEW i \in AppIds, NEW keys, UnsetConfig(c, i, keys)
      PROVE  \E t \in Call : CallGoes(c, t)
  <2>1. Begin(c, Idle)
    BY <1>9 DEF UnsetConfig
  <2>2. Fit(Idle)
    BY IdleFits DEF Idle
  <2> HIDE DEF Fit
  <2> QED BY <1>2, <2>1, <2>2
<1>10. ASSUME NEW i \in AppIds, Rollback(c, i) PROVE \E t \in Call : CallGoes(c, t)
  <2>1. Begin(c, Idle)
    BY <1>10 DEF Rollback
  <2>2. Fit(Idle)
    BY IdleFits DEF Idle
  <2> HIDE DEF Fit
  <2> QED BY <1>2, <2>1, <2>2
<1> QED BY <1>4, <1>5, <1>6, <1>7, <1>8, <1>9, <1>10 DEF Request

\* No request begins with the write of a configuration.
LEMMA RequestBegins ==
  ASSUME AppsInv, NEW c \in Calls, Request(c)
  PROVE  \E s \in Call : Begin(c, s) /\ s.next # "write"
<1>1. PICK s \in Call : CallGoes(c, s)
  BY RequestFits
<1>2. PICK t : Begin(c, t) /\ t.next # "write"
  <2>1. ASSUME NEW r \in Call, Begin(c, [r EXCEPT !.next = "file"])
        PROVE  \E t : Begin(c, t) /\ t.next # "write"
    <3>1. [r EXCEPT !.next = "file"].next = "file"
      BY DEF Call
    <3> QED BY <2>1, <3>1
  <2>2. ASSUME NEW a \in Accounts, PostUpload(c, a) PROVE \E t : Begin(c, t) /\ t.next # "write"
    <3> DEFINE r == [Idle EXCEPT !.of = a]
    <3>1. Begin(c, [r EXCEPT !.next = "file"])
      BY <2>2 DEF PostUpload, Accept
    <3>2. r \in Call
      BY IdleFits DEF Call
    <3> HIDE DEF r
    <3> QED BY <2>1, <3>1, <3>2
  <2>3. ASSUME NEW a \in Accounts, NEW n \in Names, NEW w \in Writes \union {NoConfig},
               DeployFiles(c, a, n, w)
        PROVE  \E t : Begin(c, t) /\ t.next # "write"
    <3> DEFINE r == [Idle EXCEPT !.of = a, !.name = n, !.write = w]
    <3>1. Begin(c, [r EXCEPT !.next = "file"])
      BY <2>3 DEF DeployFiles, Accept
    <3>2. w \in Configs
      BY ConfigTypes
    <3>3. r \in Call
      BY <3>2, IdleFits DEF Call
    <3> HIDE DEF r
    <3> QED BY <2>1, <3>1, <3>3
  <2>4. ASSUME NEW a, NEW n, NEW u, NEW w, Deploy(c, a, n, u, w)
        PROVE  \E t : Begin(c, t) /\ t.next # "write"
    <3> DEFINE t == [Idle EXCEPT !.next = "check", !.of = a, !.name = n, !.upload = u, !.write = w]
    <3>1. Begin(c, t)
      BY <2>4 DEF Deploy
    <3>2. t.next = "check"
      BY DEF Idle
    <3> QED BY <3>1, <3>2
  <2>5. ASSUME NEW i, DeleteApp(c, i) PROVE \E t : Begin(c, t) /\ t.next # "write"
    <3> DEFINE t == [Idle EXCEPT !.next = "delete", !.app = i]
    <3>1. Begin(c, t)
      BY <2>5 DEF DeleteApp
    <3>2. t.next = "delete"
      BY DEF Idle
    <3> QED BY <3>1, <3>2
  <2>6. ASSUME NEW i, NEW w, SetConfig(c, i, w) PROVE \E t : Begin(c, t) /\ t.next # "write"
    <3> DEFINE t == [Idle EXCEPT !.next = "config", !.app = i, !.write = w]
    <3>1. Begin(c, t)
      BY <2>6 DEF SetConfig
    <3>2. t.next = "config"
      BY DEF Idle
    <3> QED BY <3>1, <3>2
  <2>7. ASSUME NEW i, NEW keys, UnsetConfig(c, i, keys) PROVE \E t : Begin(c, t) /\ t.next # "write"
    BY <2>7 DEF UnsetConfig, Idle
  <2>8. ASSUME NEW i, Rollback(c, i) PROVE \E t : Begin(c, t) /\ t.next # "write"
    BY <2>8 DEF Rollback, Idle
  <2> QED BY <2>2, <2>3, <2>4, <2>5, <2>6, <2>7, <2>8 DEF Request
<1>3. call \in [Calls -> Call]
  BY DEF AppsInv, RowsType
<1>4. s = t
  BY <1>1, <1>2, <1>3 DEF CallGoes, Begin
<1> QED BY <1>1, <1>2, <1>4

\* A call goes on to a step that fits, or ends.
LEMMA ContinueFits ==
  ASSUME AppsInv, NEW c \in Calls, Continue(c)
  PROVE  \E s \in Call : CallGoes(c, s)
<1>1. [Next]_vars
  BY DEF Next
<1>2. PICK old : old = call[c]
  OBVIOUS
<1>3. old \in Call /\ StepFits(old)
  BY <1>2 DEF AppsInv, RowsType, CallFits
<1>4. ASSUME NEW s \in Call, Go(c, s), StepFits(s), s.next # "insert"
      PROVE  \E t \in Call : CallGoes(c, t)
  BY <1>1, <1>4, StepKept DEF Go, CallGoes
<1>5. ASSUME End(c) PROVE \E t \in Call : CallGoes(c, t)
  BY <1>4, <1>5, IdleFits DEF End, Idle
<1>6. ASSUME NEW next \in Steps, Then(c, next), next # "insert",
             next = "check" => old.of \in Accounts /\ old.upload \in UploadIds /\ old.name # None,
             next = "deploy" => old.next = "write" /\ old.name # None,
             next \in {"resolve", "create"} =>
               /\ old.name # None /\ old.upload \in UploadIds /\ uploads[old.upload] # NoUpload
               /\ uploads[old.upload].of = old.of /\ old.of \in Accounts,
             next \in {"check", "resolve", "create", "deploy"}
      PROVE  \E t \in Call : CallGoes(c, t)
  <2> DEFINE s == [old EXCEPT !.next = next]
  <2>1. Go(c, s)
    BY <1>2, <1>6 DEF Then
  <2>2. s \in Call /\ s.next = next /\ s.of = old.of /\ s.name = old.name /\ s.upload = old.upload
        /\ s.app = old.app
    BY <1>3 DEF Call
  <2> HIDE DEF s
  <2>3. CASE next = "deploy"
    <3>1. StepFits(s)
      BY <1>3, <1>6, <2>2, <2>3 DEF StepFits
    <3> QED BY <1>4, <1>6, <2>1, <2>2, <3>1
  <2>4. CASE next # "deploy"
    <3>1. StepFits(s)
      BY <1>6, <2>2, <2>4 DEF StepFits
    <3> QED BY <1>4, <1>6, <2>1, <2>2, <3>1
  <2> QED BY <2>3, <2>4
<1>7. ASSUME WriteFile(c) PROVE \E t \in Call : CallGoes(c, t)
  <2> DEFINE s == [old EXCEPT !.next = "insert", !.upload = drawn + 1]
  <2>1. call' = [call EXCEPT ![c] = s] /\ files' = files \union {drawn + 1} /\ uploads' = uploads
        /\ drawn + 1 \in UploadIds /\ old.next = "file"
    BY <1>2, <1>7 DEF WriteFile, Go, tables, At
  <2>2. uploads[drawn + 1] = NoUpload
    <3>1. drawn \in Nat
      BY DEF AppsInv, VolumeType
    <3> QED BY <2>1, <3>1 DEF AppsInv, UploadsFit
  <2>3. drawn + 1 \in 0 .. MaxUploads
    BY <2>1, Bounds DEF UploadIds
  <2>4. s \in Call /\ s.next = "insert" /\ s.upload = drawn + 1 /\ s.of = old.of
    BY <1>3, <2>3 DEF Call, Steps
  <2>5. PICK t : t = s
    OBVIOUS
  <2> HIDE DEF s
  <2>6. old.of \in Accounts
    BY <1>3, <2>1 DEF StepFits
  <2>7. StepFits(t)'
    BY <2>1, <2>2, <2>4, <2>5, <2>6 DEF StepFits
  <2> QED BY <2>1, <2>4, <2>5, <2>7 DEF CallGoes
<1>8. ASSUME Insert(c) PROVE \E t \in Call : CallGoes(c, t)
  <2>1. old.next = "insert" /\ (IF old.name = None THEN End(c) ELSE Then(c, "check"))
    BY <1>2, <1>8 DEF Insert, At
  <2>2. old.of \in Accounts /\ old.upload \in files
    BY <1>3, <2>1 DEF StepFits
  <2>3. old.upload \in UploadIds
    BY <2>2, FilesDrawn
  <2> QED BY <1>5, <1>6, <2>1, <2>2, <2>3 DEF Steps
<1>9. ASSUME Discard(c) \/ QueueDeployment(c) \/ RetireApp(c) \/ Stop(c)
      PROVE  \E t \in Call : CallGoes(c, t)
  BY <1>5, <1>9 DEF Discard, QueueDeployment, RetireApp, Stop
<1>10. ASSUME CheckUpload(c) PROVE \E t \in Call : CallGoes(c, t)
  <2>1. old.next = "check" /\ Then(c, "resolve") /\ uploads[old.upload].st = "row"
        /\ uploads[old.upload].of = old.of
    BY <1>2, <1>10 DEF CheckUpload, At
  <2>2. old.of \in Accounts /\ old.upload \in UploadIds /\ old.name # None
        /\ uploads[old.upload] # NoUpload
    BY <1>3, <2>1 DEF StepFits, NoUpload
  <2> QED BY <1>6, <2>1, <2>2 DEF Steps
<1>11. ASSUME NEW i \in AppIds, WithApp(c, i), old.next \in {"resolve", "create"},
              apps'[i] # NoApp, apps'[i].of = old.of
       PROVE  \E t \in Call : CallGoes(c, t)
  <2>1. PICK next : next = IF old.write = NoConfig THEN "deploy" ELSE "config"
    OBVIOUS
  <2> DEFINE s == [old EXCEPT !.app = i, !.next = next]
  <2>2. next \in Steps /\ next \in {"deploy", "config"} /\ i \in 0 .. MaxApps
    BY <2>1, Bounds DEF Steps, AppIds
  <2>3. call' = [call EXCEPT ![c] = s]
    BY <1>2, <1>11, <2>1 DEF WithApp, Go
  <2>4. s \in Call /\ s.next = next /\ s.app = i /\ s.of = old.of /\ s.name = old.name
        /\ s.upload = old.upload
    BY <1>3, <2>2 DEF Call
  <2>5. PICK t : t = s
    OBVIOUS
  <2> HIDE DEF s
  <2>6. /\ old.name # None /\ old.upload \in UploadIds /\ uploads[old.upload] # NoUpload
        /\ uploads[old.upload].of = old.of /\ old.of \in Accounts
    BY <1>3, <1>11 DEF StepFits
  <2>7. uploads'[old.upload] # NoUpload /\ uploads'[old.upload].of = old.of
    BY <1>1, <2>6, UploadsKept
  <2>8. StepFits(t)'
    BY <1>11, <2>2, <2>4, <2>5, <2>6, <2>7 DEF StepFits
  <2> QED BY <2>2, <2>3, <2>4, <2>5, <2>8 DEF CallGoes
<1>12. ASSUME ResolveApp(c) PROVE \E t \in Call : CallGoes(c, t)
  <2>1. old.next = "resolve" /\ apps' = apps
    BY <1>2, <1>12 DEF ResolveApp, At, tables
  <2>2. CASE \E i \in GetAppByName(old.of, old.name) : WithApp(c, i)
    <3>1. PICK i \in GetAppByName(old.of, old.name) : WithApp(c, i)
      BY <2>2
    <3>2. i \in AppIds /\ apps[i] # NoApp /\ apps[i].of = old.of
      BY DEF GetAppByName, LiveApp
    <3> QED BY <1>11, <2>1, <3>1, <3>2
  <2>3. CASE Then(c, "create")
    <3>1. /\ old.name # None /\ old.upload \in UploadIds /\ uploads[old.upload] # NoUpload
          /\ uploads[old.upload].of = old.of /\ old.of \in Accounts
      BY <1>3, <2>1 DEF StepFits
    <3> QED BY <1>6, <2>3, <3>1 DEF Steps
  <2> QED BY <1>2, <1>12, <2>2, <2>3 DEF ResolveApp
<1>13. ASSUME NewApp(c) PROVE \E t \in Call : CallGoes(c, t)
  <2>1. PICK i \in AppIds : CreateApp(i, old.of, old.name) /\ WithApp(c, i)
    BY <1>2, <1>13 DEF NewApp
  <2>2. old.next = "create"
    BY <1>2, <1>13 DEF NewApp, At
  <2>3. PICK s \in Suffixes : apps' = [apps EXCEPT ![i] =
          [of |-> old.of, name |-> old.name, slug |-> <<BaseOf[old.name], s>>, deleted |-> FALSE]]
    BY <2>1 DEF CreateApp
  <2>4. DOMAIN apps = AppIds
    BY DEF AppsInv, RowsType
  <2>5. apps'[i].of = old.of /\ apps'[i].name = old.name
    BY <2>3, <2>4
  <2>6. apps'[i] # NoApp
    BY <1>3, <2>2, <2>5 DEF StepFits, NoApp
  <2> QED BY <1>11, <2>1, <2>2, <2>5, <2>6
<1>14. ASSUME ReadConfig(c) PROVE \E t \in Call : CallGoes(c, t)
  <2>1. PICK existing : existing = config[old.app]
    OBVIOUS
  <2>2. old.next = "config" /\ old.app \in AppIds /\ existing \in Configs
    BY <1>2, <1>3, <1>14, <2>1 DEF ReadConfig, At, StepFits, AppsInv, RowsType
  <2> DEFINE s == [old EXCEPT !.next = "write", !.read = existing]
  <2>3. Go(c, s)
    BY <1>2, <1>14, <2>1 DEF ReadConfig
  <2>4. s \in Call /\ s.next = "write" /\ s.of = old.of /\ s.name = old.name
        /\ s.upload = old.upload /\ s.app = old.app
    BY <1>3, <2>2 DEF Call, Steps
  <2> HIDE DEF s
  <2>5. StepFits(s)
    BY <1>3, <2>2, <2>4 DEF StepFits
  <2> QED BY <1>4, <2>3, <2>4, <2>5
<1>15. ASSUME WriteConfig(c) PROVE \E t \in Call : CallGoes(c, t)
  <2>1. old.next = "write" /\ (IF old.name = None THEN End(c) ELSE Then(c, "deploy"))
    BY <1>2, <1>15 DEF WriteConfig, At
  <2> QED BY <1>5, <1>6, <2>1 DEF Steps
<1> QED BY <1>7, <1>8, <1>9, <1>10, <1>12, <1>13, <1>14, <1>15 DEF Continue
\* Every step leaves the calls alone, moves one of them, or is a crash that
\* ends them all.
LEMMA CallMoves ==
  ASSUME AppsInv, [Next]_vars
  PROVE  \/ call' = call /\ begun' = begun
         \/ call' = [c \in Calls |-> Idle] /\ begun' = begun
         \/ \E c \in Calls, s \in Call : CallGoes(c, s)
<1>1. ASSUME NEW d \in DepIds,
             \/ Claim(d) \/ MintFetchToken(d) \/ FetchUpload(d) \/ DeployConfig(d)
             \/ MarkHealthy(d) \/ EndDeployment(d) \/ RemoveTarball(d)
      PROVE  call' = call /\ begun' = begun
  BY <1>1 DEF Claim, MintFetchToken, FetchUpload, DeployConfig, MarkHealthy, EndDeployment,
           RemoveTarball
<1>2. ListSweepable \/ SweepFile \/ SweepRow \/ Expire \/ UNCHANGED vars
        => call' = call /\ begun' = begun
  BY DEF ListSweepable, SweepFile, SweepRow, Expire, vars
<1>3. Crash => call' = [c \in Calls |-> Idle] /\ begun' = begun
  BY DEF Crash
<1> QED BY <1>1, <1>2, <1>3, RequestFits, ContinueFits DEF Next, Loop

-----------------------------------------------------------------------------
(* The upload volume. *)

\* The changes of the volume: a call writes a file under a new number; a file
\* goes, or is left behind, that is a refused call's, is on the sweep's list or
\* is one of which a deployment ended; a crash leaves behind what calls held.
Remained == files' = files /\ stray' = stray /\ drawn' = drawn
Wrote(c) ==
  /\ drawn' = drawn + 1 /\ drawn' \in UploadIds /\ files' = files \union {drawn + 1}
  /\ stray' = stray /\ \E s \in Call : CallGoes(c, s) /\ s.next = "insert"
Removable(u) ==
  \/ u \in sweep.left /\ sweep'.row = u
  \/ Ended(u)
  \/ \E c \in Calls : Inserting(c, u) /\ call' = [call EXCEPT ![c] = Idle]
Removed(u) ==
  /\ drawn' = drawn
  /\ \/ files' = files \ {u} /\ stray' = stray \ {u}
     \/ u \in files /\ files' = files /\ stray' = stray \union {u}
Crashed ==
  /\ drawn' = drawn /\ files' = files /\ call' = [c \in Calls |-> Idle]
  /\ stray' = stray \union {u \in files : \E c \in Calls : Inserting(c, u)}

\* Every step leaves the volume alone or changes it in one of those ways.
LEMMA VolumeMoves ==
  ASSUME AppsInv, [Next]_vars
  PROVE  \/ Remained \/ Crashed
         \/ \E c \in Calls : Wrote(c)
         \/ \E u \in UploadIds : Removed(u) /\ Removable(u)
<1>1. ASSUME NEW c \in Calls, WriteFile(c) PROVE Wrote(c)
  <2>1. PICK s \in Call : CallGoes(c, s)
    BY <1>1, ContinueFits DEF Continue
  <2>2. drawn + 1 \in UploadIds /\ drawn' = drawn + 1 /\ files' = files \union {drawn + 1}
        /\ stray' = stray
    BY <1>1 DEF WriteFile
  <2>3. call' = [call EXCEPT ![c] = [call[c] EXCEPT !.next = "insert", !.upload = drawn + 1]]
    BY <1>1 DEF WriteFile, Go
  <2>4. call \in [Calls -> Call] /\ call[c] \in Call
    BY DEF AppsInv, RowsType
  <2>5. call'[c].next = "insert"
    BY <2>3, <2>4 DEF Call
  <2>6. s.next = "insert"
    BY <2>1, <2>4, <2>5 DEF CallGoes
  <2> QED BY <2>1, <2>2, <2>6 DEF Wrote
<1>2. ASSUME NEW c \in Calls, Discard(c)
      PROVE  \E u \in UploadIds : Removed(u) /\ Removable(u)
  <2>1. PICK u : u = call[c].upload
    OBVIOUS
  <2>2. u \in UploadIds
    BY <1>2, <2>1, FilesDrawn DEF Discard, At, AppsInv, CallFits, StepFits
  <2>3. Removed(u)
    BY <1>2, <2>1 DEF Discard, Remove, Removed
  <2>4. Removable(u)
    BY <1>2, <2>1 DEF Discard, Removable, End, Go, Inserting
  <2> QED BY <2>2, <2>3, <2>4
<1>3. ASSUME SweepFile PROVE \E u \in UploadIds : Removed(u) /\ Removable(u)
  <2>1. PICK u \in sweep.left : Remove(u) /\ sweep' = [left |-> sweep.left \ {u}, row |-> u]
    BY <1>3 DEF SweepFile
  <2>2. u \in UploadIds
    BY DEF AppsInv, RowsType, Sweep
  <2>3. Removed(u)
    BY <1>3, <2>1 DEF SweepFile, Remove, Removed
  <2>4. Removable(u)
    BY <2>1 DEF Removable
  <2> QED BY <2>2, <2>3, <2>4
<1>4. ASSUME NEW d \in DepIds, RemoveTarball(d)
      PROVE  Remained \/ \E u \in UploadIds : Removed(u) /\ Removable(u)
  <2>1. PICK u : u = deployments[d].upload
    OBVIOUS
  <2>2. CASE u = 0 /\ UNCHANGED <<files, stray>>
    BY <1>4, <2>2 DEF RemoveTarball, Remained
  <2>3. CASE u # 0 /\ Remove(u)
    <3>1. u \in UploadIds
      BY <2>1, <2>3, DeployedUpload
    <3>2. Removed(u)
      BY <1>4, <2>3 DEF RemoveTarball, Remove, Removed
    <3>3. drive.of = d /\ drive.over
      BY <1>4 DEF RemoveTarball
    <3>4. ~deployments[d].inFlight \/ d \in unended
      BY <3>3 DEF AppsInv, DriveFits
    <3>5. Removable(u)
      BY <2>1, <3>4 DEF Removable, Ended
    <3> QED BY <3>1, <3>2, <3>5
  <2> QED BY <1>4, <2>1, <2>2, <2>3 DEF RemoveTarball
<1>5. ASSUME Crash PROVE Crashed
  <2>1. files \intersect {call[c].upload : c \in {x \in Calls : At(x, "insert")}}
          = {u \in files : \E c \in Calls : Inserting(c, u)}
    BY DEF Inserting
  <2> QED BY <1>5, <2>1 DEF Crash, Crashed
<1>6. ASSUME NEW c \in Calls, Request(c) \/ (Continue(c) /\ ~WriteFile(c) /\ ~Discard(c))
      PROVE  Remained
  <2>1. Request(c) => Remained
    BY DEF Request, PostUpload, DeployFiles, Accept, Deploy, DeleteApp, SetConfig, UnsetConfig,
           Rollback, volume, Remained
  <2>2. Continue(c) /\ ~WriteFile(c) /\ ~Discard(c) => Remained
    BY DEF Continue, Insert, CheckUpload, ResolveApp, NewApp, RetireApp, QueueDeployment,
           ReadConfig, WriteConfig, Stop, volume, Remained
  <2> QED BY <1>6, <2>1, <2>2
<1>7. ASSUME NEW d \in DepIds, \/ Claim(d) \/ MintFetchToken(d) \/ FetchUpload(d) \/ DeployConfig(d)
                              \/ MarkHealthy(d) \/ EndDeployment(d)
      PROVE  Remained
  BY <1>7 DEF Claim, MintFetchToken, FetchUpload, DeployConfig, MarkHealthy, EndDeployment, volume,
              Remained
<1>8. ListSweepable \/ SweepRow \/ Expire \/ UNCHANGED vars => Remained
  BY DEF ListSweepable, SweepRow, Expire, vars, volume, Remained
<1> QED BY <1>1, <1>2, <1>3, <1>4, <1>5, <1>6, <1>7, <1>8 DEF Next, Loop
-----------------------------------------------------------------------------
(* A file on its way in. *)

\* Nobody but the call itself undoes what it wrote: while it has not inserted
\* its row, the file is there and the number has none.
LEMMA InsertingKept ==
  ASSUME AppsInv, [Next]_vars, NEW c \in Calls, NEW u, Inserting(c, u),
         call'[c] # Idle, ~UploadCreated(u)
  PROVE  u \in UploadIds /\ u \in files' /\ uploads'[u] = NoUpload
<1>1. u \in files /\ u \in UploadIds /\ uploads[u] = NoUpload /\ At(c, "insert")
  BY FilesDrawn DEF AppsInv, CallFits, StepFits, Inserting, At
<1>2. uploads'[u] = NoUpload
  <2>1. CASE uploads' = uploads
    BY <1>1, <2>1
  <2>2. ASSUME NEW v \in UploadIds, NEW new \in Upload, UploadBecomes(v, new)
        PROVE  uploads'[u] = NoUpload
    <3>1. v # u
      BY <1>1, <2>2 DEF UploadBecomes, NoUpload
    <3>2. DOMAIN uploads = UploadIds /\ uploads' = [uploads EXCEPT ![v] = new]
      BY <2>2 DEF UploadBecomes, AppsInv, RowsType
    <3> QED BY <1>1, <3>1, <3>2
  <2> QED BY <2>1, <2>2, UploadMoves, UploadRow
<1>3. u \in files'
  <2>1. CASE Remained \/ Crashed \/ \E d \in Calls : Wrote(d)
    BY <1>1, <2>1 DEF Remained, Crashed, Wrote
  <2>2. ASSUME NEW v \in UploadIds, Removed(v), Removable(v) PROVE u \in files'
    <3>1. CASE v # u
      BY <1>1, <2>2, <3>1 DEF Removed
    <3>2. CASE v = u
      <4>1. v \notin sweep.left
        BY <1>1, <3>2 DEF AppsInv, SweepFits, NoUpload, UploadIds
      <4>2. ~Ended(v)
        <5>1. ASSUME NEW e \in DepIds, deployments[e].upload = u PROVE FALSE
          <6>1. u # 0 /\ deployments[e] # NoDeployment
            BY <1>1, <5>1, Bounds DEF NoDeployment, UploadIds
          <6>2. uploads[u].st = "row"
            BY <5>1, <6>1 DEF AppsInv, DeploymentsFit
          <6> QED BY <1>1, <6>2 DEF NoUpload
        <5> QED BY <3>2, <5>1 DEF Ended
      <4>3. PICK d \in Calls : Inserting(d, u) /\ call' = [call EXCEPT ![d] = Idle]
        BY <2>2, <3>2, <4>1, <4>2 DEF Removable
      <4>4. d = c
        BY <1>1, <4>3 DEF Inserting, AppsInv, OwnFiles
      <4>5. DOMAIN call = Calls
        BY DEF AppsInv, RowsType
      <4> QED BY <4>3, <4>4, <4>5
    <3> QED BY <3>1, <3>2
  <2> QED BY <2>1, <2>2, VolumeMoves
<1> QED BY <1>1, <1>2, <1>3

\* A call that does not move is not the one whose row was inserted.
LEMMA OthersInsert ==
  ASSUME AppsInv, NEW c \in Calls, NEW u, Inserting(c, u), call'[c] = call[c]
  PROVE  ~UploadCreated(u) /\ call'[c] # Idle
<1>1. At(c, "insert") /\ call[c].upload = u
  BY DEF Inserting
<1>2. ASSUME UploadCreated(u) PROVE FALSE
  <2>1. PICK d \in Calls : Inserting(d, u) /\ ~At(d, "insert")'
    BY <1>2 DEF UploadCreated
  <2>2. d = c
    BY <1>1, <2>1 DEF Inserting, AppsInv, OwnFiles
  <2> QED BY <1>1, <2>1, <2>2 DEF At
<1> QED BY <1>1, <1>2 DEF At, Idle

\* Every call keeps to what its step relies on.
LEMMA CallsFit ==
  ASSUME AppsInv, [Next]_vars
  PROVE  (\A c \in Calls : CallFits(c)') /\ call' \in [Calls -> Call]
<1>1. call \in [Calls -> Call]
  BY DEF AppsInv, RowsType
<1>2. ASSUME NEW c \in Calls, call'[c] = call[c] PROVE CallFits(c)'
  <2>1. PICK s \in Call : s = call[c]
    BY <1>1
  <2>2. StepFits(s)
    BY <2>1 DEF AppsInv, CallFits
  <2>3. CASE s.next # "insert"
    <3>1. StepFits(s)'
      BY <2>2, <2>3, StepKept
    <3> QED BY <1>2, <2>1, <3>1 DEF CallFits
  <2>4. CASE s.next = "insert"
    <3>1. PICK u : u = s.upload
      OBVIOUS
    <3>2. Inserting(c, u)
      BY <2>1, <2>4, <3>1 DEF Inserting, At
    <3>3. u \in files' /\ uploads'[u] = NoUpload
      BY <1>2, <3>2, InsertingKept, OthersInsert
    <3>4. s.of \in Accounts
      BY <2>2, <2>4 DEF StepFits
    <3>5. StepFits(s)'
      BY <2>4, <3>1, <3>3, <3>4 DEF StepFits
    <3> QED BY <1>2, <2>1, <3>5 DEF CallFits
  <2> QED BY <2>3, <2>4
<1>3. CASE call' = call
  BY <1>1, <1>2, <1>3
<1>4. CASE call' = [c \in Calls |-> Idle]
  <2>1. StepFits(Idle)'
    BY IdleFits, StepKept DEF Idle
  <2>2. \A c \in Calls : call'[c] = Idle
    BY <1>4
  <2> QED BY <1>4, <2>1, <2>2, IdleFits DEF CallFits
<1>5. ASSUME NEW d \in Calls, NEW s \in Call, CallGoes(d, s)
      PROVE  (\A c \in Calls : CallFits(c)') /\ call' \in [Calls -> Call]
  <2>1. call' \in [Calls -> Call] /\ call'[d] = s
        /\ \A c \in Calls \ {d} : call'[c] = call[c]
    BY <1>1, <1>5 DEF CallGoes
  <2>2. CallFits(d)'
    BY <1>5, <2>1 DEF CallGoes, CallFits
  <2> QED BY <1>2, <2>1, <2>2
<1> QED BY <1>3, <1>4, <1>5, CallMoves

\* No two calls are about to insert the same number.
LEMMA OwnFilesKept ==
  ASSUME AppsInv, [Next]_vars
  PROVE  OwnFiles'
<1>1. call \in [Calls -> Call]
  BY DEF AppsInv, RowsType
<1>2. CASE call' = call
  BY <1>2 DEF AppsInv, OwnFiles, At
<1>3. CASE call' = [c \in Calls |-> Idle]
  BY <1>3 DEF OwnFiles, At, Idle
<1>4. ASSUME NEW d \in Calls, NEW s \in Call, CallGoes(d, s) PROVE OwnFiles'
  <2>1. call'[d] = s /\ \A c \in Calls \ {d} : call'[c] = call[c]
    BY <1>1, <1>4 DEF CallGoes
  <2>2. \A c \in Calls : At(c, "insert") => call[c].upload # drawn + 1
    <3>1. \A c \in Calls : At(c, "insert") => call[c].upload \in files
      BY DEF AppsInv, CallFits, StepFits, At
    <3> QED BY <3>1, FilesDrawn
  <2>3. s.next = "insert" => s.upload = drawn + 1
    BY <1>4 DEF CallGoes
  <2> QED BY <2>1, <2>2, <2>3 DEF AppsInv, OwnFiles, At
<1> QED BY <1>2, <1>3, <1>4, CallMoves
-----------------------------------------------------------------------------
(* Rows, files and the sweep. *)

\* Every row was drawn a number and is an account's.
LEMMA UploadsFitKept ==
  ASSUME AppsInv, [Next]_vars
  PROVE  UploadsFit'
<1>1. drawn <= drawn' /\ drawn \in Nat /\ drawn' \in Nat
  BY FilesDrawn, VolumeMoves DEF Remained, Wrote, Removed, Crashed
<1>2. \A u \in UploadIds : uploads[u] # NoUpload =>
        u <= drawn /\ uploads[u].st # "none" /\ uploads[u].of \in Accounts
  BY DEF AppsInv, UploadsFit
<1>3. \A u \in UploadIds : u \in Nat
  BY Bounds DEF UploadIds
<1>4. CASE uploads' = uploads
  BY <1>1, <1>2, <1>3, <1>4 DEF UploadsFit
<1>5. ASSUME NEW v \in UploadIds, NEW new \in Upload, UploadBecomes(v, new) PROVE UploadsFit'
  <2>1. DOMAIN uploads = UploadIds /\ uploads' = [uploads EXCEPT ![v] = new] /\ new.st # "none"
    BY <1>5 DEF UploadBecomes, AppsInv, RowsType
  <2>2. v <= drawn /\ new.of \in Accounts
    <3>1. CASE UploadCreated(v)
      <4>1. PICK c \in Calls : Inserting(c, v)
        BY <3>1 DEF UploadCreated
      <4>2. v \in files /\ uploads[v] = NoUpload
        BY <4>1 DEF AppsInv, CallFits, StepFits, Inserting, At
      <4> QED BY <1>5, <4>2, FilesDrawn DEF UploadBecomes, NoUpload
    <3>2. CASE ~UploadCreated(v)
      BY <1>2, <1>5, <3>2 DEF UploadBecomes, NoUpload
    <3> QED BY <3>1, <3>2
  <2>3. ASSUME NEW u \in UploadIds, uploads'[u] # NoUpload
        PROVE  u <= drawn' /\ uploads'[u].st # "none" /\ uploads'[u].of \in Accounts
    <3>1. CASE u = v
      BY <1>1, <1>3, <2>1, <2>2, <3>1
    <3>2. CASE u # v
      BY <1>1, <1>2, <1>3, <2>1, <2>3, <3>2
    <3> QED BY <3>1, <3>2
  <2> QED BY <2>3 DEF UploadsFit
<1> QED BY <1>4, <1>5, UploadMoves, UploadRow

\* A deployment's app and upload are there, and are one account's.
LEMMA DeploymentsFitKept ==
  ASSUME AppsInv, [Next]_vars
  PROVE  DeploymentsFit'
<1>1. ASSUME NEW d \in DepIds, deployments'[d] # NoDeployment,
             NEW u \in UploadIds, NEW i \in AppIds,
             deployments'[d].upload = u, deployments'[d].app = i
      PROVE  uploads'[u].st = "row" /\ uploads'[u].of = apps'[i].of
  <2>0. u # 0
    BY DEF UploadIds
  <2>1. apps[i] # NoApp /\ uploads[u].st = "row" /\ uploads[u].of = apps[i].of
    <3>1. CASE deployments[d] = NoDeployment
      BY <1>1, <2>0, <3>1, DeploymentsKept DEF RowNew
    <3>2. CASE deployments[d] # NoDeployment
      <4>1. deployments[d].upload = u /\ deployments[d].app = i
        BY <1>1, <3>2, DeploymentsKept DEF RowKept
      <4> QED BY <2>0, <3>2, <4>1 DEF AppsInv, DeploymentsFit
    <3> QED BY <3>1, <3>2
  <2>2. uploads[u] # NoUpload
    BY <2>1 DEF NoUpload
  <2>3. apps'[i].of = apps[i].of
    BY <2>1, AppsKept
  <2>4. uploads'[u].of = uploads[u].of /\ (uploads'[u].st = "row" \/ UploadDeleted(u))
    BY <2>1, <2>2, UploadsKept
  <2>5. uploads'[u].st = "row"
    <3>1. CASE deployments[d] # NoDeployment
      <4>1. deployments[d].upload = u
        BY <1>1, <3>1, DeploymentsKept DEF RowKept
      <4> QED BY <2>4, <4>1 DEF UploadDeleted, Referenced
    <3>2. CASE deployments[d] = NoDeployment
      BY <1>1, <2>1, <3>2, DeploymentsKept DEF RowNew
    <3> QED BY <3>1, <3>2
  <2> QED BY <2>1, <2>3, <2>4, <2>5
<1>2. ASSUME NEW d \in DepIds, deployments'[d] # NoDeployment
      PROVE  /\ deployments'[d].app \in AppIds /\ apps'[deployments'[d].app] # NoApp
             /\ deployments'[d].held # 0 => deployments'[d].upload # 0
  <2>1. CASE deployments[d] = NoDeployment
    BY <1>2, <2>1, DeploymentsKept, AppsKept DEF RowNew
  <2>2. CASE deployments[d] # NoDeployment
    <3>1. /\ deployments[d].app \in AppIds /\ apps[deployments[d].app] # NoApp
          /\ deployments[d].held # 0 => deployments[d].upload # 0
      BY <2>2 DEF AppsInv, DeploymentsFit
    <3> QED BY <2>2, <3>1, DeploymentsKept, AppsKept DEF RowKept
  <2> QED BY <2>1, <2>2
<1>3. ASSUME NEW d \in DepIds, deployments'[d].upload # 0 PROVE deployments'[d].upload \in UploadIds
  <2>1. deployments'[d] \in Deployment
    BY DeploymentsKept
  <2>2. deployments'[d].upload \in 0 .. MaxUploads
    BY <2>1 DEF Deployment
  <2> QED BY <1>3, <2>2, Bounds DEF UploadIds
<1>4. ASSUME NEW d \in DepIds, deployments'[d] # NoDeployment, deployments'[d].upload # 0
      PROVE  /\ uploads'[deployments'[d].upload].st = "row"
             /\ uploads'[deployments'[d].upload].of = apps'[deployments'[d].app].of
  BY <1>1, <1>2, <1>3, <1>4
<1> QED BY <1>2, <1>4 DEF DeploymentsFit

\* The sweep rests, lists what it may remove, removes a file, deletes its row
\* and goes on, or is cut off.
LEMMA SweepMoves ==
  ASSUME AppsInv, [Next]_vars
  PROVE  \/ sweep' = sweep \/ sweep' = NoSweep
         \/ sweep' = [left |-> ListSweepableUploads, row |-> 0] /\ uploads' = uploads
         \/ sweep' = [sweep EXCEPT !.row = 0]
         \/ \E u \in sweep.left : /\ sweep' = [left |-> sweep.left \ {u}, row |-> u]
                                  /\ Removed(u) /\ uploads' = uploads
<1>1. ASSUME NEW c \in Calls, Request(c) \/ Continue(c) PROVE sweep' = sweep
  <2>1. Request(c) => sweep' = sweep
    BY DEF Request, PostUpload, DeployFiles, Accept, Deploy, DeleteApp, SetConfig, UnsetConfig, Rollback
  <2>2. Continue(c) => sweep' = sweep
    BY DEF Continue, WriteFile, Insert, Discard, CheckUpload, ResolveApp, NewApp, RetireApp,
           QueueDeployment, ReadConfig, WriteConfig, Stop
  <2> QED BY <1>1, <2>1, <2>2
<1>2. ASSUME NEW d \in DepIds,
             \/ Claim(d) \/ MintFetchToken(d) \/ FetchUpload(d) \/ DeployConfig(d)
             \/ MarkHealthy(d) \/ EndDeployment(d) \/ RemoveTarball(d)
      PROVE  sweep' = sweep
  BY <1>2 DEF Claim, MintFetchToken, FetchUpload, DeployConfig, MarkHealthy, EndDeployment,
           RemoveTarball
<1>3. Expire \/ UNCHANGED vars => sweep' = sweep
  BY DEF Expire, vars
<1>4. Crash => sweep' = NoSweep
  BY DEF Crash
<1>5. ListSweepable => sweep' = [left |-> ListSweepableUploads, row |-> 0] /\ uploads' = uploads
  BY DEF ListSweepable, tables
<1>6. SweepRow => sweep' = [sweep EXCEPT !.row = 0]
  BY DEF SweepRow
<1>7. ASSUME SweepFile
      PROVE  \E u \in sweep.left : /\ sweep' = [left |-> sweep.left \ {u}, row |-> u]
                                   /\ Removed(u) /\ uploads' = uploads
  BY <1>7 DEF SweepFile, Remove, Removed, tables
<1> QED BY <1>1, <1>2, <1>3, <1>4, <1>5, <1>6, <1>7 DEF Next, Loop
\* A file is old or of the next number, and one left behind is left until it goes.
LEMMA FilesKept ==
  ASSUME AppsInv, [Next]_vars, NEW u \in files'
  PROVE  (u \in files \/ u = drawn + 1) /\ (u \in stray => u \in stray')
BY VolumeMoves DEF Remained, Crashed, Wrote, Removed

\* What the sweep has listed stays expired and keeps its row until the sweep
\* comes to it, and the file of the row it comes to is gone or left behind.
LEMMA SweepFitsKept ==
  ASSUME AppsInv, [Next]_vars
  PROVE  SweepFits' /\ sweep' \in Sweep
<1>1. sweep \in Sweep /\ sweep.row \notin sweep.left /\ 0 \notin UploadIds
  BY DEF AppsInv, RowsType, SweepFits, UploadIds
<1>2. sweep.left \subseteq UploadIds /\ sweep.row \in UploadIds \union {0}
  BY <1>1 DEF Sweep
<1>3. ASSUME NEW u \in UploadIds, u \in sweep.left \union {sweep.row}, ~UploadDeleted(u)
      PROVE  uploads'[u].st = "row" /\ uploads'[u].expired
  <2>1. uploads[u].st = "row" /\ uploads[u].expired
    BY <1>1, <1>3 DEF AppsInv, SweepFits
  <2> QED BY <1>3, <2>1, UploadsKept DEF NoUpload
<1>4. 0 \notin files'
  BY <1>1, FilesKept, FilesDrawn
<1>5. CASE sweep' = sweep
  <2>1. \A u \in UploadIds : ~UploadDeleted(u)
    <3>1. ASSUME NEW u \in UploadIds, UploadDeleted(u) PROVE FALSE
      <4>1. sweep.row = u /\ sweep' = [sweep EXCEPT !.row = 0]
        BY <3>1 DEF UploadDeleted
      <4>2. sweep'.row = 0
        BY <1>1, <4>1 DEF Sweep
      <4> QED BY <1>1, <1>5, <4>1, <4>2
    <3> QED BY <3>1
  <2>2. ASSUME sweep.row \in files' PROVE sweep.row \in stray'
    <3>1. PICK r : r = sweep.row
      OBVIOUS
    <3>2. r \in UploadIds
      BY <1>2, <1>4, <2>2, <3>1
    <3>3. r <= drawn
      <4>1. uploads[r].st = "row"
        BY <1>1, <3>1, <3>2 DEF AppsInv, SweepFits
      <4> QED BY <3>2, <4>1 DEF AppsInv, UploadsFit, NoUpload
    <3>4. r \in files
      BY <2>2, <3>1, <3>3, FilesKept, FilesDrawn
    <3>5. r \in stray
      BY <3>1, <3>4 DEF AppsInv, SweepFits
    <3> QED BY <2>2, <3>1, <3>5, FilesKept
  <2> QED BY <1>1, <1>2, <1>3, <1>5, <2>1, <2>2 DEF SweepFits
<1>6. CASE sweep' = NoSweep
  BY <1>1, <1>4, <1>6 DEF SweepFits, NoSweep, Sweep
<1>7. CASE sweep' = [left |-> ListSweepableUploads, row |-> 0] /\ uploads' = uploads
  <2>1. sweep'.left = ListSweepableUploads /\ sweep'.row = 0
    BY <1>7
  <2>2. \A u \in ListSweepableUploads : u \in UploadIds /\ uploads'[u].st = "row" /\ uploads'[u].expired
    BY <1>7 DEF ListSweepableUploads
  <2>3. sweep' \in Sweep
    BY <1>7, <2>2 DEF Sweep
  <2> QED BY <1>1, <1>4, <2>1, <2>2, <2>3 DEF SweepFits
<1>8. CASE sweep' = [sweep EXCEPT !.row = 0]
  <2>1. sweep'.left = sweep.left /\ sweep'.row = 0 /\ sweep' \in Sweep
    BY <1>1, <1>8 DEF Sweep
  <2>2. \A u \in sweep.left : u \in UploadIds /\ ~UploadDeleted(u)
    BY <1>1, <1>2 DEF UploadDeleted
  <2>3. \A u \in sweep.left : uploads'[u].st = "row" /\ uploads'[u].expired
    BY <1>3, <2>2
  <2> QED BY <1>1, <1>2, <1>4, <2>1, <2>3 DEF SweepFits
<1>9. ASSUME NEW r \in sweep.left, sweep' = [left |-> sweep.left \ {r}, row |-> r],
             Removed(r), uploads' = uploads
      PROVE  SweepFits' /\ sweep' \in Sweep
  <2>1. sweep'.left = sweep.left \ {r} /\ sweep'.row = r /\ sweep' \in Sweep
    BY <1>2, <1>9 DEF Sweep
  <2>2. \A u \in sweep.left : uploads[u].st = "row" /\ uploads[u].expired
    BY <1>1, <1>2 DEF AppsInv, SweepFits
  <2>3. r \in files' => r \in stray'
    BY <1>9 DEF Removed
  <2> QED BY <1>9, <2>1, <2>2, <2>3 DEF SweepFits
<1> QED BY <1>5, <1>6, <1>7, <1>8, <1>9, SweepMoves

\* A row keeps its file until it expires or a deployment of it ends.
LEMMA RowsHaveFilesKept ==
  ASSUME AppsInv, [Next]_vars
  PROVE  RowsHaveFiles'
<1>1. ASSUME NEW u \in UploadIds, uploads'[u].st = "row", ~uploads'[u].expired, ~Ended(u)'
      PROVE  u \in files'
  <2>1. CASE UploadCreated(u)
    <3>1. PICK c \in Calls : Inserting(c, u)
      BY <2>1 DEF UploadCreated
    <3> QED BY <2>1, <3>1 DEF UploadCreated, AppsInv, CallFits, StepFits, Inserting, At
  <2>2. CASE ~UploadCreated(u)
    <3>1. uploads[u].st = "row" /\ ~uploads[u].expired
      <4>1. uploads[u] # NoUpload
        <5>1. ASSUME uploads[u] = NoUpload PROVE FALSE
          <6>1. CASE uploads' = uploads
            BY <1>1, <5>1, <6>1 DEF NoUpload
          <6>2. ASSUME NEW v \in UploadIds, NEW new \in Upload, UploadBecomes(v, new) PROVE FALSE
            <7>1. v # u
              BY <2>2, <5>1, <6>2 DEF UploadBecomes, NoUpload
            <7>2. DOMAIN uploads = UploadIds /\ uploads' = [uploads EXCEPT ![v] = new]
              BY <6>2 DEF UploadBecomes, AppsInv, RowsType
            <7>3. uploads'[u] = NoUpload
              BY <5>1, <7>1, <7>2
            <7> QED BY <1>1, <7>3 DEF NoUpload
          <6> QED BY <6>1, <6>2, UploadMoves, UploadRow
        <5> QED BY <5>1
      <4> QED BY <1>1, <4>1, UploadsKept
    <3>2. ~Ended(u)
      BY <1>1, TakenStays
    <3>3. u \in files
      BY <3>1, <3>2 DEF AppsInv, RowsHaveFiles
    <3>4. ASSUME NEW v \in UploadIds, Removed(v), Removable(v) PROVE u \in files'
      <4>1. CASE v # u
        BY <3>3, <3>4, <4>1 DEF Removed
      <4>2. CASE v = u
        <5>1. u \notin sweep.left
          BY <3>1 DEF AppsInv, SweepFits, UploadIds
        <5>2. \A c \in Calls : ~Inserting(c, u)
          BY <3>1 DEF AppsInv, CallFits, StepFits, Inserting, At, NoUpload
        <5> QED BY <3>2, <3>4, <4>2, <5>1, <5>2 DEF Removable
      <4> QED BY <4>1, <4>2
    <3> QED BY <3>3, <3>4, VolumeMoves DEF Remained, Crashed, Wrote
  <2> QED BY <2>1, <2>2
<1> QED BY <1>1 DEF RowsHaveFiles
\* A call about to insert a row inserts it, leaves its file to be removed, or is
\* cut off by a crash, which leaves the file behind.
LEMMA InsertEnds ==
  ASSUME AppsInv, [Next]_vars, NEW c \in Calls, NEW u, Inserting(c, u), call'[c] # call[c]
  PROVE  UploadCreated(u) \/ Removed(u) \/ Crashed
<1>1. At(c, "insert") /\ call[c].upload = u /\ call[c].next = "insert" /\ call[c] # Idle
  BY DEF Inserting, At, Idle
<1>2. call \in [Calls -> Call]
  BY DEF AppsInv, RowsType
<1>3. ASSUME NEW d \in Calls, d # c, Request(d) \/ Continue(d) PROVE FALSE
  <2>1. \E s : call' = [call EXCEPT ![d] = s]
    BY <1>3, RequestFits, ContinueFits DEF CallGoes
  <2> QED BY <1>2, <1>3, <2>1
<1>4. ASSUME Request(c) PROVE FALSE
  BY <1>1, <1>4 DEF Request, PostUpload, DeployFiles, Accept, Deploy, DeleteApp, SetConfig,
                    UnsetConfig, Rollback, Begin
<1>5. ASSUME Continue(c) PROVE UploadCreated(u) \/ Removed(u)
  <2>1. Insert(c) \/ Discard(c)
    BY <1>1, <1>5 DEF Continue, WriteFile, CheckUpload, ResolveApp, NewApp, RetireApp,
           QueueDeployment, ReadConfig, WriteConfig, Stop, At
  <2>2. CASE Discard(c)
    BY <1>1, <2>2 DEF Discard, Remove, Removed
  <2>3. CASE Insert(c)
    BY <1>1, <2>3, Inserted
  <2> QED BY <2>1, <2>2, <2>3
<1>6. Crash => Crashed
  <2>1. files \intersect {call[x].upload : x \in {y \in Calls : At(y, "insert")}}
          = {v \in files : \E x \in Calls : Inserting(x, v)}
    BY DEF Inserting
  <2> QED BY <2>1 DEF Crash, Crashed
<1>7. ASSUME NEW d \in DepIds,
             \/ Claim(d) \/ MintFetchToken(d) \/ FetchUpload(d) \/ DeployConfig(d)
             \/ MarkHealthy(d) \/ EndDeployment(d) \/ RemoveTarball(d)
      PROVE  FALSE
  BY <1>7 DEF Claim, MintFetchToken, FetchUpload, DeployConfig, MarkHealthy, EndDeployment,
           RemoveTarball
<1>8. ListSweepable \/ SweepFile \/ SweepRow \/ Expire \/ UNCHANGED vars => FALSE
  BY DEF ListSweepable, SweepFile, SweepRow, Expire, vars
<1> QED BY <1>3, <1>4, <1>5, <1>6, <1>7, <1>8 DEF Next, Loop

\* A file without a row is a call's on its way in or was left behind.
LEMMA FilesHaveRowsKept ==
  ASSUME AppsInv, [Next]_vars
  PROVE  FilesHaveRows'
<1>1. ASSUME NEW u \in files', u \in files
      PROVE  uploads'[u].st = "row" \/ u \in stray' \/ \E c \in Calls : Inserting(c, u)'
  <2>1. u \in UploadIds
    BY <1>1, FilesDrawn
  <2>2. CASE u \in stray
    BY <2>2, FilesKept
  <2>3. CASE uploads[u].st = "row"
    <3>1. CASE UploadDeleted(u)
      <4>1. u \in stray
        BY <1>1, <3>1 DEF UploadDeleted, AppsInv, SweepFits
      <4> QED BY <4>1, FilesKept
    <3>2. CASE ~UploadDeleted(u)
      BY <2>1, <2>3, <3>2, UploadsKept DEF NoUpload
    <3> QED BY <3>1, <3>2
  <2>4. ASSUME NEW c \in Calls, Inserting(c, u)
        PROVE  uploads'[u].st = "row" \/ u \in stray' \/ \E x \in Calls : Inserting(x, u)'
    <3>1. CASE call'[c] = call[c]
      BY <2>4, <3>1 DEF Inserting, At
    <3>2. CASE call'[c] # call[c]
      <4>1. CASE UploadCreated(u)
        <5>1. PICK new \in Upload : UploadBecomes(u, new)
          BY <2>1, <4>1, UploadRow DEF UploadChanges
        <5>2. uploads[u] = NoUpload /\ DOMAIN uploads = UploadIds
          BY <4>1 DEF UploadCreated, AppsInv, RowsType
        <5> QED BY <2>1, <5>1, <5>2 DEF UploadBecomes, NoUpload
      <4>2. CASE Removed(u)
        BY <1>1, <4>2 DEF Removed
      <4>3. CASE Crashed
        BY <1>1, <2>4, <4>3 DEF Crashed
      <4> QED BY <2>4, <3>2, <4>1, <4>2, <4>3, InsertEnds
    <3> QED BY <3>1, <3>2
  <2> QED BY <1>1, <2>2, <2>3, <2>4 DEF AppsInv, FilesHaveRows
<1>2. ASSUME NEW u \in files', u \notin files PROVE \E c \in Calls : Inserting(c, u)'
  <2>1. PICK c \in Calls : Wrote(c) /\ u = drawn + 1
    BY <1>2, VolumeMoves DEF Remained, Crashed, Wrote, Removed
  <2>2. PICK s \in Call : CallGoes(c, s) /\ s.next = "insert"
    BY <2>1 DEF Wrote
  <2>3. call \in [Calls -> Call]
    BY DEF AppsInv, RowsType
  <2>4. call'[c] = s /\ s.upload = u
    BY <2>1, <2>2, <2>3 DEF CallGoes
  <2>5. Inserting(c, u)'
    BY <2>2, <2>4 DEF Inserting, At
  <2> QED BY <2>5
<1> QED BY <1>1, <1>2 DEF FilesHaveRows
-----------------------------------------------------------------------------
(* Tokens. *)

\* Fetches are served on tokens, one each.
LEMMA TokensLeftKept ==
  ASSUME AppsInv, [Next]_vars
  PROVE  TokensLeft' /\ fetches' \in [UploadIds -> Nat]
<1>1. /\ uploads \in [UploadIds -> Upload] /\ uploads' \in [UploadIds -> Upload]
      /\ fetches \in [UploadIds -> Nat]
  BY UploadsKept DEF AppsInv, RowsType, VolumeType
<1>2. \A u \in UploadIds : uploads[u].token \in Nat /\ uploads'[u].token \in Nat
  BY <1>1, Bounds DEF Upload
<1>3. \A u \in UploadIds : FitsToken(uploads[u], fetches[u])
  BY DEF AppsInv, TokensLeft
<1>4. CASE fetches' = fetches
  <2>1. CASE uploads' = uploads
    BY <1>1, <1>3, <1>4, <2>1 DEF TokensLeft
  <2>2. ASSUME NEW v \in UploadIds, NEW new \in Upload, UploadBecomes(v, new) PROVE TokensLeft'
    <3>1. uploads'[v] = new /\ \A u \in UploadIds \ {v} : uploads'[u] = uploads[u]
      BY <1>1, <2>2 DEF UploadBecomes
    <3>2. PICK old, f : old = uploads[v] /\ f = fetches[v]
      OBVIOUS
    <3>3. old.token \in Nat /\ f \in Nat /\ new.token \in Nat
      BY <1>1, <1>2, <3>1, <3>2
    <3>4. FitsToken(old, f)
      BY <1>3, <3>2
    <3>5. new.token >= old.token
          /\ (new.token # 0 /\ ~new.redeemed =>
                new.token > old.token \/ (new.token = old.token /\ ~old.redeemed))
      BY <2>2, <3>2 DEF UploadBecomes, TokenKept
    <3>6. FitsToken(new, f)
      BY <3>3, <3>4, <3>5 DEF FitsToken
    <3> QED BY <1>3, <1>4, <3>1, <3>2, <3>6 DEF TokensLeft
  <2> QED BY <1>1, <1>4, <2>1, <2>2, UploadMoves, UploadRow
<1>5. ASSUME NEW d \in DepIds, FetchUpload(d)
      PROVE  TokensLeft' /\ fetches' \in [UploadIds -> Nat]
  <2>1. PICK u : u = deployments[d].upload
    OBVIOUS
  <2>2. u \in UploadIds
    BY <1>5, <2>1, DeployedUpload DEF FetchUpload
  <2>3. PICK old, f : old = uploads[u] /\ f = fetches[u]
    OBVIOUS
  <2>4. old.token # 0 /\ ~old.redeemed /\ uploads' = [uploads EXCEPT ![u].redeemed = TRUE]
    BY <1>5, <2>1, <2>3 DEF FetchUpload, RedeemUpload, Redeemable
  <2>5. PICK k : k = IF u \in files THEN f + 1 ELSE f
    OBVIOUS
  <2>6. fetches' = [fetches EXCEPT ![u] = k]
    BY <1>5, <2>1, <2>3, <2>5 DEF FetchUpload
  <2>7. old.token \in Nat /\ f \in Nat /\ FitsToken(old, f) /\ old \in Upload
    BY <1>1, <1>2, <1>3, <2>2, <2>3
  <2>8. k \in Nat /\ k <= old.token
    BY <2>4, <2>5, <2>7 DEF FitsToken
  <2> DEFINE new == [old EXCEPT !.redeemed = TRUE]
  <2>9. uploads'[u] = new /\ \A v \in UploadIds \ {u} : uploads'[v] = uploads[v]
    BY <1>1, <2>2, <2>3, <2>4
  <2>10. new.redeemed /\ new.token = old.token
    BY <2>7 DEF Upload
  <2> HIDE DEF new
  <2>11. fetches' \in [UploadIds -> Nat] /\ fetches'[u] = k
         /\ \A v \in UploadIds \ {u} : fetches'[v] = fetches[v]
    BY <1>1, <2>2, <2>6, <2>8
  <2>12. FitsToken(new, k)
    BY <2>8, <2>10 DEF FitsToken
  <2> QED BY <1>3, <2>9, <2>11, <2>12 DEF TokensLeft
<1>6. (\E d \in DepIds : FetchUpload(d)) \/ fetches' = fetches
  <2>1. ASSUME NEW c \in Calls, Request(c) \/ Continue(c) PROVE fetches' = fetches
    <3>1. Request(c) => fetches' = fetches
      BY DEF Request, PostUpload, DeployFiles, Accept, Deploy, DeleteApp, SetConfig, UnsetConfig,
             Rollback, volume
    <3>2. Continue(c) => fetches' = fetches
      BY DEF Continue, WriteFile, Insert, Discard, CheckUpload, ResolveApp, NewApp, RetireApp,
             QueueDeployment, ReadConfig, WriteConfig, Stop, volume
    <3> QED BY <2>1, <3>1, <3>2
  <2>2. ASSUME NEW d \in DepIds, \/ Claim(d) \/ MintFetchToken(d) \/ DeployConfig(d)
                                \/ MarkHealthy(d) \/ EndDeployment(d) \/ RemoveTarball(d)
        PROVE  fetches' = fetches
    BY <2>2 DEF Claim, MintFetchToken, DeployConfig, MarkHealthy, EndDeployment, RemoveTarball, volume
  <2>3. ListSweepable \/ SweepFile \/ SweepRow \/ Expire \/ Crash \/ UNCHANGED vars
          => fetches' = fetches
    BY DEF ListSweepable, SweepFile, SweepRow, Expire, Crash, volume, vars
  <2> QED BY <2>1, <2>2, <2>3 DEF Next, Loop
<1> QED BY <1>4, <1>1, <1>5, <1>6

\* What was fetched is what a deployment took up.
LEMMA RedeemedIsTakenKept ==
  ASSUME AppsInv, [Next]_vars
  PROVE  RedeemedIsTaken'
<1>1. ASSUME NEW u \in UploadIds, uploads'[u].redeemed PROVE uploads[u].redeemed \/ Referenced(u)
  <2>1. ASSUME NEW v \in UploadIds, NEW new \in Upload, UploadBecomes(v, new)
        PROVE  uploads[u].redeemed \/ Referenced(u)
    <3>1. DOMAIN uploads = UploadIds
      BY DEF AppsInv, RowsType
    <3> QED BY <1>1, <2>1, <3>1 DEF UploadBecomes, TokenKept
  <2> QED BY <1>1, <2>1, UploadMoves, UploadRow
<1>2. \A u \in UploadIds : uploads[u].redeemed => Referenced(u)
  BY DEF AppsInv, RedeemedIsTaken
<1> QED BY <1>1, <1>2, TakenStays DEF RedeemedIsTaken
-----------------------------------------------------------------------------
(* Hostnames and ceilings. *)

\* A hostname once given out is never given out again.
LEMMA HostnamesKept ==
  ASSUME AppsInv, [Next]_vars
  PROVE  HostnamesAreForever'
<1>1. apps \in [AppIds -> App]
  BY DEF AppsInv, RowsType
<1>2. \A i, j \in AppIds : apps[i] # NoApp =>
        (apps[i].slug = apps[j].slug => i = j) /\ apps[i].slug[1] \notin Reserved
  BY DEF AppsInv, HostnamesAreForever
<1>3. CASE apps' = apps
  BY <1>2, <1>3 DEF HostnamesAreForever
<1>4. ASSUME NEW k \in AppIds, NEW new \in App, AppBecomes(k, new) PROVE HostnamesAreForever'
  <2>1. apps'[k] = new /\ \A i \in AppIds \ {k} : apps'[i] = apps[i]
    BY <1>1, <1>4 DEF AppBecomes
  <2>2. CASE apps[k] = NoApp
    <3>1. new.slug[1] \notin Reserved /\ \A i \in AppIds : apps[i].slug # new.slug
      BY <1>4, <2>2 DEF AppBecomes, LiveApp, SlugExists
    <3> QED BY <1>2, <2>1, <3>1 DEF HostnamesAreForever
  <2>3. CASE apps[k] # NoApp
    <3>1. new.slug = apps[k].slug
      BY <1>4, <2>3 DEF AppBecomes
    <3>2. \A i \in AppIds : apps'[i].slug = apps[i].slug /\ (apps'[i] # NoApp => apps[i] # NoApp)
      BY <2>1, <2>3, <3>1
    <3> QED BY <1>2, <3>2 DEF HostnamesAreForever
  <2> QED BY <2>2, <2>3
<1> QED BY <1>3, <1>4, AppMoves

\* A set of numbers that loses members shrinks, and one that gains at most one
\* grows by at most one.
LEMMA Sizing ==
  ASSUME NEW n \in Nat, NEW S \in SUBSET (1 .. n), NEW T \in SUBSET (1 .. n), NEW x \in 1 .. n,
         T \subseteq S \union {x}
  PROVE  /\ Cardinality(S) \in Nat /\ Cardinality(T) \in Nat
         /\ Cardinality(T) <= Cardinality(S) + 1
         /\ T \subseteq S => Cardinality(T) <= Cardinality(S)
         /\ S = {} => Cardinality(T) <= 1
<1>1. IsFiniteSet(1 .. n)
  BY FS_Interval
<1>2. IsFiniteSet(S) /\ IsFiniteSet(T)
  BY <1>1, FS_Subset
<1>3. Cardinality(S) \in Nat /\ Cardinality(T) \in Nat
  BY <1>2, FS_CardinalityType
<1>4. IsFiniteSet(S \union {x}) /\ Cardinality(S \union {x}) <= Cardinality(S) + 1
  <2>1. /\ IsFiniteSet(S \union {x})
        /\ Cardinality(S \union {x}) = IF x \in S THEN Cardinality(S) ELSE Cardinality(S) + 1
    BY <1>2, FS_AddElement, Zenon
  <2> QED BY <1>3, <2>1
<1>5. Cardinality(T) <= Cardinality(S \union {x}) /\ Cardinality(S \union {x}) \in Nat
  BY <1>4, FS_Subset, FS_CardinalityType
<1>6. T \subseteq S => Cardinality(T) <= Cardinality(S)
  BY <1>2, FS_Subset
<1>7. S = {} => Cardinality(S) = 0
  BY FS_EmptySet
<1> QED BY <1>3, <1>4, <1>5, <1>6, <1>7

\* The three counts that have a ceiling, as sets.
LiveOf(a)        == {i \in AppIds : LiveApp(i) /\ apps[i].of = a}
Waiting(u, a)    == /\ uploads[u].st = "row" /\ uploads[u].of = a
                    /\ ~uploads[u].expired /\ ~Referenced(u)
WaitingOf(a)     == {u \in UploadIds : Waiting(u, a)}
UnclaimedOf(a)   == {u \in UploadIds : /\ uploads[u].st = "row" /\ uploads[u].of = a
                                       /\ ~uploads[u].redeemed /\ ~uploads[u].expired}
AppsCeiling(a)   == /\ Cardinality(LiveOf(a)) <= AppLimit
                    /\ \A name \in Names : Cardinality(GetAppByName(a, name)) <= 1
UploadCeiling(a) == Cardinality(WaitingOf(a)) <= UnclaimedLimit

Ceilings == \A a \in Accounts : AppsCeiling(a) /\ UploadCeiling(a)

\* The ceilings, said of those sets.
LEMMA CeilingsAre == CeilingsHold <=> Ceilings
BY DEF Ceilings, CeilingsHold, AppsCeiling, UploadCeiling, LiveOf, WaitingOf, Waiting, CountLiveAppsByAccount

\* A new app is within its account's ceiling and the only live one of its name.
LEMMA AppsCeilingKept ==
  ASSUME AppsInv, [Next]_vars, NEW a \in Accounts
  PROVE  AppsCeiling(a)'
<1>1. apps \in [AppIds -> App] /\ AppsCeiling(a)
  BY CeilingsAre DEF Ceilings, AppsInv, RowsType
<1>2. CASE apps' = apps
  BY <1>1, <1>2 DEF AppsCeiling, LiveOf, GetAppByName, LiveApp
<1>3. ASSUME NEW k \in AppIds, NEW new \in App, AppBecomes(k, new) PROVE AppsCeiling(a)'
  <2>1. apps'[k] = new /\ \A i \in AppIds \ {k} : apps'[i] = apps[i]
    BY <1>1, <1>3 DEF AppBecomes
  <2>2. \A i \in AppIds \ {k} : LiveApp(i)' <=> LiveApp(i)
    BY <2>1 DEF LiveApp
  <2>3. \/ ~LiveApp(k)'
        \/ /\ new.of = a => Cardinality(LiveOf(a)) < AppLimit
           /\ \A n \in Names : new.of = a /\ new.name = n => GetAppByName(a, n) = {}
    BY <1>3, <2>1 DEF AppBecomes, LiveApp, LiveOf, CountLiveAppsByAccount
  <2>4. Cardinality(LiveOf(a)') <= AppLimit
    <3>1. PICK S, T : S = LiveOf(a) /\ T = LiveOf(a)'
      OBVIOUS
    <3>2. S \subseteq AppIds /\ T \subseteq AppIds /\ T \subseteq S \union {k}
      BY <2>1, <2>2, <3>1 DEF LiveOf
    <3>3. T \subseteq S \/ Cardinality(S) < AppLimit
      BY <2>1, <2>2, <2>3, <3>1 DEF LiveOf
    <3>4. Cardinality(S) <= AppLimit
      BY <1>1, <3>1 DEF AppsCeiling
    <3>5. /\ Cardinality(S) \in Nat /\ Cardinality(T) \in Nat
          /\ Cardinality(T) <= Cardinality(S) + 1
          /\ T \subseteq S => Cardinality(T) <= Cardinality(S)
      BY <3>2, Sizing, Bounds DEF AppIds
    <3>6. Cardinality(T) <= AppLimit
      BY <3>3, <3>4, <3>5, Bounds
    <3> QED BY <3>1, <3>6
  <2>5. ASSUME NEW n \in Names PROVE Cardinality(GetAppByName(a, n)') <= 1
    <3>1. PICK S, T : S = GetAppByName(a, n) /\ T = GetAppByName(a, n)'
      OBVIOUS
    <3>2. S \subseteq AppIds /\ T \subseteq AppIds /\ T \subseteq S \union {k}
      BY <2>1, <2>2, <3>1 DEF GetAppByName
    <3>3. T \subseteq S \/ S = {}
      BY <2>1, <2>2, <2>3, <3>1 DEF GetAppByName
    <3>4. Cardinality(S) <= 1
      BY <1>1, <3>1 DEF AppsCeiling
    <3>5. /\ Cardinality(S) \in Nat /\ Cardinality(T) \in Nat
          /\ T \subseteq S => Cardinality(T) <= Cardinality(S)
          /\ S = {} => Cardinality(T) <= 1
      BY <3>2, Sizing, Bounds DEF AppIds
    <3> QED BY <3>1, <3>3, <3>4, <3>5
  <2> QED BY <2>4, <2>5 DEF AppsCeiling
<1> QED BY <1>2, <1>3, AppMoves

\* A new upload is within its account's ceiling.
LEMMA UploadCeilingKept ==
  ASSUME AppsInv, [Next]_vars, NEW a \in Accounts
  PROVE  UploadCeiling(a)'
<1>1. uploads \in [UploadIds -> Upload] /\ UploadCeiling(a)
  BY CeilingsAre DEF Ceilings, AppsInv, RowsType
<1>2. WaitingOf(a) \subseteq UnclaimedOf(a)
  BY DEF WaitingOf, Waiting, UnclaimedOf, AppsInv, RedeemedIsTaken
<1>3. ASSUME NEW u \in UploadIds, Waiting(u, a)', ~Waiting(u, a) PROVE UploadCreated(u)
  <2>1. ~Referenced(u)
    BY <1>3, TakenStays DEF Waiting
  <2>2. uploads[u] = NoUpload
    BY <1>3, <2>1, UploadsKept DEF Waiting
  <2>3. CASE uploads' = uploads
    BY <1>3, <2>1, <2>3 DEF Waiting
  <2>4. ASSUME NEW v \in UploadIds, NEW new \in Upload, UploadBecomes(v, new)
        PROVE  UploadCreated(u)
    <3>1. v = u
      <4>1. uploads' = [uploads EXCEPT ![v] = new]
        BY <2>4 DEF UploadBecomes
      <4>2. uploads'[u].st = "row" /\ uploads[u].st # "row"
        BY <1>3, <2>2 DEF Waiting, NoUpload
      <4> QED BY <1>1, <4>1, <4>2
    <3> QED BY <2>2, <2>4, <3>1 DEF UploadBecomes, NoUpload
  <2> QED BY <2>3, <2>4, UploadMoves, UploadRow
<1>4. PICK S, T, R : S = WaitingOf(a) /\ T = WaitingOf(a)' /\ R = UnclaimedOf(a)
  OBVIOUS
<1>5. S \subseteq UploadIds /\ T \subseteq UploadIds /\ R \subseteq UploadIds /\ S \subseteq R
  BY <1>2, <1>4 DEF WaitingOf, UnclaimedOf
<1>6. CASE T \subseteq S
  <2>1. Cardinality(S) <= UnclaimedLimit
    BY <1>1, <1>4 DEF UploadCeiling
  <2>2. CASE UploadIds = {}
    <3>1. T = S
      BY <1>5, <2>2
    <3> QED BY <1>4, <2>1, <3>1 DEF UploadCeiling
  <2>3. ASSUME NEW x \in UploadIds PROVE UploadCeiling(a)'
    <3>1. /\ Cardinality(S) \in Nat /\ Cardinality(T) \in Nat
          /\ Cardinality(T) <= Cardinality(S)
      BY <1>5, <1>6, Sizing, Bounds DEF UploadIds
    <3>2. Cardinality(T) <= UnclaimedLimit
      BY <2>1, <3>1, Bounds
    <3> QED BY <1>4, <3>2 DEF UploadCeiling
  <2> QED BY <2>2, <2>3
<1>7. ASSUME NEW u \in T, u \notin S PROVE UploadCeiling(a)'
  <2>1. u \in UploadIds /\ Waiting(u, a)' /\ ~Waiting(u, a)
    BY <1>4, <1>7 DEF WaitingOf
  <2>2. UploadCreated(u)
    BY <1>3, <2>1
  <2>3. DOMAIN uploads = UploadIds /\ uploads[u] = NoUpload
    BY <1>1, <2>2 DEF UploadCreated
  <2>4. PICK b \in Accounts :
          /\ CountUnclaimedUploads(b) < UnclaimedLimit
          /\ uploads' = [uploads EXCEPT ![u] = [NoUpload EXCEPT !.st = "row", !.of = b]]
    BY <2>2 DEF UploadCreated
  <2>5. NoUpload \in Upload
    BY Bounds DEF Upload, NoUpload
  <2>6. uploads'[u] = [NoUpload EXCEPT !.st = "row", !.of = b]
    BY <2>1, <2>3, <2>4
  <2>7. uploads'[u].of = b
    BY <2>5, <2>6 DEF Upload
  <2>8. b = a
    BY <2>1, <2>7 DEF Waiting
  <2>9. Cardinality(R) < UnclaimedLimit
    BY <1>4, <2>4, <2>8 DEF CountUnclaimedUploads, UnclaimedOf
  <2>10. T \subseteq R \union {u}
    <3>1. ASSUME NEW v \in T, v # u PROVE v \in S
      <4>1. v \in UploadIds /\ Waiting(v, a)'
        BY <1>4 DEF WaitingOf
      <4>2. uploads'[v] = uploads[v]
        BY <2>3, <2>4, <3>1, <4>1
      <4>3. Waiting(v, a)
        BY <4>1, <4>2, TakenStays DEF Waiting
      <4> QED BY <1>4, <4>1, <4>3 DEF WaitingOf
    <3> QED BY <1>5, <3>1
  <2>11. Cardinality(R) \in Nat /\ Cardinality(T) \in Nat /\ Cardinality(T) <= Cardinality(R) + 1
    BY <1>5, <2>1, <2>10, Sizing, Bounds DEF UploadIds
  <2>12. Cardinality(T) <= UnclaimedLimit
    BY <2>9, <2>11, Bounds
  <2> QED BY <1>4, <2>12 DEF UploadCeiling
<1> QED BY <1>6, <1>7
-----------------------------------------------------------------------------
(* Types. *)

\* What is left behind is on the volume, and what is on the volume was drawn.
LEMMA VolumeKept ==
  ASSUME AppsInv, [Next]_vars
  PROVE  stray' \subseteq files' /\ files' \subseteq 1 .. drawn' /\ drawn' \in 0 .. MaxUploads
<1>1. stray \subseteq files /\ files \subseteq 1 .. drawn /\ drawn \in 0 .. MaxUploads /\ drawn \in Nat
  BY FilesDrawn DEF AppsInv, VolumeType
<1>2. CASE Remained
  BY <1>1, <1>2 DEF Remained
<1>3. CASE Crashed
  <2>1. drawn' = drawn /\ files' = files /\ stray' \subseteq files
    BY <1>1, <1>3 DEF Crashed
  <2> QED BY <1>1, <2>1
<1>4. ASSUME NEW c \in Calls, Wrote(c)
      PROVE  stray' \subseteq files' /\ files' \subseteq 1 .. drawn' /\ drawn' \in 0 .. MaxUploads
  <2>1. drawn' = drawn + 1 /\ files' = files \union {drawn + 1} /\ stray' = stray
        /\ drawn' \in UploadIds
    BY <1>4 DEF Wrote
  <2>2. drawn' \in 0 .. MaxUploads
    BY <2>1, Bounds DEF UploadIds
  <2>3. 1 .. drawn \subseteq 1 .. drawn' /\ drawn + 1 \in 1 .. drawn'
    BY <1>1, <2>1
  <2> QED BY <1>1, <2>1, <2>2, <2>3
<1>5. ASSUME NEW u \in UploadIds, Removed(u)
      PROVE  stray' \subseteq files' /\ files' \subseteq 1 .. drawn' /\ drawn' \in 0 .. MaxUploads
  <2>1. drawn' = drawn /\ files' \subseteq files /\ stray' \subseteq files'
    BY <1>1, <1>5 DEF Removed
  <2> QED BY <1>1, <2>1
<1> QED BY <1>2, <1>3, <1>4, <1>5, VolumeMoves

\* A rollback that is healthy has its snapshot for its configuration again.
Restored(i, s) ==
  /\ config' = [config EXCEPT ![i] = s.cfg]
  /\ raced' = IF s.raced THEN raced \union {i} ELSE raced \ {i}

\* Only a write, an unset and a rollback touch the configurations.
LEMMA ConfigMoves ==
  ASSUME AppsInv, [Next]_vars
  PROVE  \/ config' = config /\ raced' = raced
         \/ \E c \in Calls : WriteConfig(c)
         \/ \E c \in Calls, i \in AppIds, keys \in SUBSET ConfigKeys : UnsetConfig(c, i, keys)
         \/ \E i \in AppIds, s \in drive.plan : Restored(i, s)
<1>1. ASSUME NEW c \in Calls, Request(c),
             ~\E i \in AppIds, keys \in SUBSET ConfigKeys \ {{}} : UnsetConfig(c, i, keys)
      PROVE  config' = config /\ raced' = raced
  BY <1>1 DEF Request, PostUpload, DeployFiles, Accept, Deploy, DeleteApp, SetConfig, Rollback, tables
<1>2. ASSUME NEW c \in Calls, Continue(c), ~WriteConfig(c) PROVE config' = config /\ raced' = raced
  BY <1>2 DEF Continue, WriteFile, Insert, Discard, CheckUpload, ResolveApp, NewApp, RetireApp,
              QueueDeployment, ReadConfig, Stop, tables
<1>3. ASSUME NEW d \in DepIds, \/ Claim(d) \/ MintFetchToken(d) \/ FetchUpload(d) \/ DeployConfig(d)
                              \/ EndDeployment(d) \/ RemoveTarball(d)
      PROVE  config' = config /\ raced' = raced
  BY <1>3 DEF Claim, MintFetchToken, FetchUpload, DeployConfig, EndDeployment, RemoveTarball, tables
<1>5. ASSUME NEW d \in DepIds, MarkHealthy(d)
      PROVE  \/ config' = config /\ raced' = raced
             \/ \E i \in AppIds, s \in drive.plan : Restored(i, s)
  <2>1. PICK i : i = deployments[d].app
    OBVIOUS
  <2>2. i \in AppIds
    BY <1>5, <2>1, DrivenRow DEF MarkHealthy
  <2> QED BY <1>5, <2>1, <2>2 DEF MarkHealthy, ReplaceConfig, Restored
<1>4. ListSweepable \/ SweepFile \/ SweepRow \/ Expire \/ Crash \/ UNCHANGED vars
        => config' = config /\ raced' = raced
  BY DEF ListSweepable, SweepFile, SweepRow, Expire, Crash, tables, vars
<1> QED BY <1>1, <1>2, <1>3, <1>4, <1>5 DEF Next, Loop

\* Configurations stay configurations, and only apps are raced for.
LEMMA ConfigKept ==
  ASSUME AppsInv, [Next]_vars
  PROVE  config' \in [AppIds -> Configs] /\ raced' \subseteq AppIds
<1>1. config \in [AppIds -> Configs] /\ raced \subseteq AppIds /\ call \in [Calls -> Call]
  BY DEF AppsInv, RowsType, VolumeType
<1>2. ASSUME NEW c \in Calls, WriteConfig(c)
      PROVE  config' \in [AppIds -> Configs] /\ raced' \subseteq AppIds
  <2>1. PICK i, w : i = call[c].app /\ w = call[c].write
    OBVIOUS
  <2>2. i \in AppIds
    BY <1>2, <2>1 DEF WriteConfig, At, AppsInv, CallFits, StepFits
  <2>3. w \in Configs
    BY <1>1, <2>1 DEF Call
  <2>4. config' = [config EXCEPT ![i] = Merged(config[i], w)]
        /\ (raced' = raced \ {i} \/ raced' = raced \union {i})
    BY <1>2, <2>1 DEF WriteConfig, SetConfigBatch
  <2>5. Merged(config[i], w) \in Configs
    BY <1>1, <2>2, <2>3, ConfigTypes
  <2> QED BY <1>1, <2>2, <2>4, <2>5
<1>3. ASSUME NEW c \in Calls, NEW i \in AppIds, NEW keys \in SUBSET ConfigKeys,
             UnsetConfig(c, i, keys)
      PROVE  config' \in [AppIds -> Configs] /\ raced' \subseteq AppIds
  <2> DEFINE new == [k \in ConfigKeys |-> IF k \in keys THEN 0 ELSE config[i][k]]
  <2>1. config' = [config EXCEPT ![i] = new] /\ raced' = raced
    BY <1>3 DEF UnsetConfig, UnsetConfigBatch, Without
  <2>2. config[i] \in Configs
    BY <1>1
  <2>3. new \in Configs
    BY <2>2 DEF Configs
  <2> HIDE DEF new
  <2> QED BY <1>1, <2>1, <2>3
<1>4. ASSUME NEW i \in AppIds, NEW s \in drive.plan, Restored(i, s)
      PROVE  config' \in [AppIds -> Configs] /\ raced' \subseteq AppIds
  <2>1. drive.plan \subseteq Snapshot
    BY DEF AppsInv, RowsType, Drive
  <2>2. s.cfg \in Configs
    BY <2>1 DEF Snapshot, Configs
  <2> QED BY <1>1, <1>4, <2>2 DEF Restored
<1> QED BY <1>1, <1>2, <1>3, <1>4, ConfigMoves

\* Calls and faults are counted up to their bounds.
LEMMA CountsKept ==
  ASSUME AppsInv, [Next]_vars
  PROVE  begun' \in 0 .. MaxCalls /\ faults' \in 0 .. MaxFaults
<1>1. begun \in 0 .. MaxCalls /\ faults \in 0 .. MaxFaults
  BY DEF AppsInv, VolumeType
<1>2. begun' = begun \/ (begun < MaxCalls /\ begun' = begun + 1)
  <2>1. ASSUME NEW c \in Calls, Request(c) PROVE begun < MaxCalls /\ begun' = begun + 1
    BY <2>1 DEF Request, PostUpload, DeployFiles, Accept, Deploy, DeleteApp, SetConfig,
                UnsetConfig, Rollback, Begin
  <2>2. ASSUME NEW c \in Calls, Continue(c) PROVE begun' = begun
    <3>1. \E s : Go(c, s)
      BY <2>2 DEF Continue, WriteFile, Insert, Discard, CheckUpload, ResolveApp, NewApp, RetireApp,
                  QueueDeployment, ReadConfig, WriteConfig, Stop, End, Then, WithApp
    <3> QED BY <3>1 DEF Go
  <2>3. ASSUME NEW d \in DepIds,
               \/ Claim(d) \/ MintFetchToken(d) \/ FetchUpload(d) \/ DeployConfig(d)
             \/ MarkHealthy(d) \/ EndDeployment(d) \/ RemoveTarball(d)
        PROVE  begun' = begun
    BY <2>3 DEF Claim, MintFetchToken, FetchUpload, DeployConfig, MarkHealthy, EndDeployment,
           RemoveTarball
  <2>4. ListSweepable \/ SweepFile \/ SweepRow \/ Expire \/ Crash \/ UNCHANGED vars
          => begun' = begun
    BY DEF ListSweepable, SweepFile, SweepRow, Expire, Crash, vars
  <2> QED BY <2>1, <2>2, <2>3, <2>4 DEF Next, Loop
<1>3. faults' = faults \/ (faults < MaxFaults /\ faults' = faults + 1)
  <2>1. ASSUME NEW c \in Calls, Request(c) \/ (Continue(c) /\ ~Discard(c)) PROVE faults' = faults
    <3>1. Request(c) => faults' = faults
      BY DEF Request, PostUpload, DeployFiles, Accept, Deploy, DeleteApp, SetConfig, UnsetConfig,
             Rollback
    <3>2. Continue(c) /\ ~Discard(c) => faults' = faults
      BY DEF Continue, WriteFile, Insert, CheckUpload, ResolveApp, NewApp, RetireApp,
             QueueDeployment, ReadConfig, WriteConfig, Stop
    <3> QED BY <2>1, <3>1, <3>2
  <2>2. ASSUME NEW u, Remove(u) PROVE faults' = faults \/ (faults < MaxFaults /\ faults' = faults + 1)
    BY <2>2 DEF Remove
  <2>3. ASSUME NEW c \in Calls, Discard(c) PROVE \E u : Remove(u)
    BY <2>3 DEF Discard
  <2>4. SweepFile => \E u : Remove(u)
    BY DEF SweepFile
  <2>5. ASSUME NEW d \in DepIds, RemoveTarball(d) PROVE faults' = faults \/ \E u : Remove(u)
    BY <2>5 DEF RemoveTarball
  <2>6. ASSUME NEW d \in DepIds, \/ Claim(d) \/ MintFetchToken(d) \/ FetchUpload(d) \/ DeployConfig(d)
                                \/ MarkHealthy(d)
        PROVE  faults' = faults
    BY <2>6 DEF Claim, MintFetchToken, FetchUpload, DeployConfig, MarkHealthy
  <2>7. ListSweepable \/ SweepRow \/ Expire \/ UNCHANGED vars => faults' = faults
    BY DEF ListSweepable, SweepRow, Expire, vars
  <2>8. Crash => faults < MaxFaults /\ faults' = faults + 1
    BY DEF Crash
  <2>9. ASSUME NEW d \in DepIds, EndDeployment(d)
        PROVE  faults' = faults \/ (faults < MaxFaults /\ faults' = faults + 1)
    BY <2>9 DEF EndDeployment
  <2> QED BY <2>1, <2>2, <2>3, <2>4, <2>5, <2>6, <2>7, <2>8, <2>9 DEF Next, Loop
<1> QED BY <1>1, <1>2, <1>3, Bounds
-----------------------------------------------------------------------------
(* The theorems. *)

\* The first upload of an account that deployed it, and the deployment.
FetchedUpload(a) == [st |-> "row", of |-> a, expired |-> FALSE, redeemed |-> TRUE, token |-> 1]
DoneDeployment == [app |-> 1, upload |-> 1, source |-> {}, inFlight |-> FALSE, held |-> 1]
Mended(a) ==
  /\ MaxDeployments >= 1 /\ MaxMints >= 1
  /\ \E name \in Names, s \in Suffixes : FirstApp(a, name, s)
  /\ uploads = [[u \in UploadIds |-> NoUpload] EXCEPT ![1] = FetchedUpload(a)]
  /\ deployments = [[d \in DepIds |-> NoDeployment] EXCEPT ![1] = DoneDeployment]
  /\ drawn = 1 /\ files = {} /\ fetches = [[u \in UploadIds |-> 0] EXCEPT ![1] = 1]
LEMMA MendedIs ==
  ASSUME MendedAccount
  PROVE  \E a \in Accounts : Mended(a)
<1>1. PICK a \in Accounts, name \in Names, s \in Suffixes :
        /\ FirstApp(a, name, s)
        /\ uploads = [[u \in UploadIds |-> NoUpload] EXCEPT ![1] = FetchedUpload(a)]
  BY DEF MendedAccount, FetchedUpload
<1>2. MaxDeployments >= 1 /\ MaxMints >= 1
  BY Bounds DEF MendedAccount
<1> QED BY <1>1, <1>2 DEF MendedAccount, Mended, DoneDeployment

\* The initial uploads: none, one account's first, or one that was fetched for a
\* deployment that is over.
LEMMA FirstUploads ==
  ASSUME Init
  PROVE  /\ uploads \in [UploadIds -> Upload] /\ drawn \in 0 .. 1 /\ files \subseteq 1 .. drawn
         /\ \A u \in UploadIds : uploads[u] # NoUpload =>
              /\ u = 1 /\ drawn = 1 /\ uploads[u].st = "row" /\ uploads[u].of \in Accounts
              /\ u \in files \/ Ended(u)
         /\ \A u \in UploadIds : uploads[u].redeemed => Referenced(u)
         /\ \A u \in files : uploads[u].st = "row"
         /\ fetches \in [UploadIds -> Nat] /\ \A u \in UploadIds : FitsToken(uploads[u], fetches[u])
<1> DEFINE Goal ==
         /\ uploads \in [UploadIds -> Upload] /\ drawn \in 0 .. 1 /\ files \subseteq 1 .. drawn
         /\ \A u \in UploadIds : uploads[u] # NoUpload =>
              /\ u = 1 /\ drawn = 1 /\ uploads[u].st = "row" /\ uploads[u].of \in Accounts
              /\ u \in files \/ Ended(u)
         /\ \A u \in UploadIds : uploads[u].redeemed => Referenced(u)
         /\ \A u \in files : uploads[u].st = "row"
         /\ fetches \in [UploadIds -> Nat] /\ \A u \in UploadIds : FitsToken(uploads[u], fetches[u])
<1>1. /\ NoUpload \in Upload /\ NoUpload.token = 0 /\ ~NoUpload.redeemed /\ FitsToken(NoUpload, 0)
      /\ 1 \in UploadIds
  BY Bounds DEF NoUpload, Upload, UploadIds, FitsToken
<1>2. ASSUME NewAccount, uploads = [u \in UploadIds |-> NoUpload], drawn = 0 PROVE Goal
  <2>1. files = {} /\ fetches = [u \in UploadIds |-> 0]
    BY <1>2 DEF NewAccount
  <2> QED BY <1>1, <1>2, <2>1
<1>3. ASSUME NewAccount, NEW a \in Accounts, drawn = 1,
             uploads = [[u \in UploadIds |-> NoUpload] EXCEPT ![1].st = "row", ![1].of = a]
      PROVE  Goal
  <2> DEFINE new == [NoUpload EXCEPT !.st = "row", !.of = a]
  <2>1. new \in Upload /\ new.st = "row" /\ new.of = a /\ FitsToken(new, 0) /\ ~new.redeemed
    BY <1>1 DEF Upload, FitsToken
  <2>2. uploads = [[u \in UploadIds |-> NoUpload] EXCEPT ![1] = new]
    BY <1>1, <1>3
  <2> HIDE DEF new
  <2>3. uploads[1] = new /\ \A u \in UploadIds \ {1} : uploads[u] = NoUpload
    BY <1>1, <2>2
  <2>4. uploads \in [UploadIds -> Upload]
    BY <1>1, <2>1, <2>2
  <2>5. files = {1} /\ 1 .. drawn = {1} /\ fetches = [u \in UploadIds |-> 0]
    BY <1>3 DEF NewAccount
  <2> QED BY <1>1, <1>3, <2>1, <2>3, <2>4, <2>5
<1>4. ASSUME NEW a \in Accounts, Mended(a) PROVE Goal
  <2>1. FetchedUpload(a) \in Upload /\ FetchedUpload(a).st = "row" /\ FetchedUpload(a).of = a
        /\ FitsToken(FetchedUpload(a), 1)
    BY <1>4, Bounds DEF FetchedUpload, Upload, FitsToken, Mended
  <2>2. /\ uploads = [[u \in UploadIds |-> NoUpload] EXCEPT ![1] = FetchedUpload(a)]
        /\ fetches = [[u \in UploadIds |-> 0] EXCEPT ![1] = 1] /\ drawn = 1 /\ files = {}
    BY <1>4 DEF Mended
  <2>3. uploads[1] = FetchedUpload(a) /\ \A u \in UploadIds \ {1} : uploads[u] = NoUpload
    BY <1>1, <2>2
  <2>4. fetches[1] = 1 /\ (\A u \in UploadIds \ {1} : fetches[u] = 0) /\ fetches \in [UploadIds -> Nat]
    BY <1>1, <2>2
  <2>5. uploads \in [UploadIds -> Upload]
    BY <1>1, <2>1, <2>2
  <2>6. 1 \in DepIds /\ deployments[1] = DoneDeployment
    BY <1>4, Bounds DEF Mended, DepIds
  <2>7. Referenced(1) /\ Ended(1)
    BY <2>6 DEF Referenced, Ended, DoneDeployment
  <2> QED BY <1>1, <2>1, <2>2, <2>3, <2>4, <2>5, <2>7
<1>5. NewAccount \/ MendedAccount
  BY DEF Init
<1> HIDE DEF Goal
<1>6. Goal
  BY <1>2, <1>3, <1>4, <1>5, MendedIs DEF NewAccount
<1> QED BY <1>6 DEF Goal

\* The initial apps: none, or one account's first.
LEMMA FirstApps ==
  ASSUME Init
  PROVE  /\ apps \in [AppIds -> App] /\ \A i \in AppIds \ {1} : apps[i] = NoApp
         /\ apps[1] # NoApp => apps[1].slug # <<>> /\ apps[1].slug[1] \notin Reserved
<1>1. NoApp \in App /\ 1 \in AppIds
  BY Bounds DEF NoApp, App, AppIds
<1>2. CASE apps = [i \in AppIds |-> NoApp]
  BY <1>1, <1>2
<1>3. ASSUME NEW a \in Accounts, NEW name \in Names, NEW s \in Suffixes, FirstApp(a, name, s)
      PROVE  /\ apps \in [AppIds -> App] /\ \A i \in AppIds \ {1} : apps[i] = NoApp
             /\ apps[1] # NoApp => apps[1].slug # <<>> /\ apps[1].slug[1] \notin Reserved
  <2> DEFINE new == [of |-> a, name |-> name, slug |-> <<BaseOf[name], s>>, deleted |-> FALSE]
  <2>1. new \in App
    BY DEF App
  <2>2. new.slug # <<>> /\ new.slug[1] = BaseOf[name] /\ BaseOf[name] \notin Reserved
    BY <1>3 DEF FirstApp
  <2>3. apps = [[i \in AppIds |-> NoApp] EXCEPT ![1] = new]
    BY <1>3 DEF FirstApp
  <2> HIDE DEF new
  <2> QED BY <1>1, <2>1, <2>2, <2>3
<1>4. \/ apps = [i \in AppIds |-> NoApp]
      \/ \E a \in Accounts, name \in Names, s \in Suffixes : FirstApp(a, name, s)
  BY MendedIs DEF Init, NewAccount, Mended
<1> QED BY <1>2, <1>3, <1>4

\* The initial deployments: none, or one that is over, of the first app and upload.
LEMMA FirstDeployments ==
  ASSUME Init
  PROVE  /\ deployments \in [DepIds -> Deployment] /\ DeploymentsFit
         /\ \A d \in DepIds : deployments[d].source = {}
<1>1. NoDeployment \in Deployment /\ NoDeployment.source = {}
  BY Bounds DEF NoDeployment, Deployment
<1>2. CASE deployments = [d \in DepIds |-> NoDeployment]
  BY <1>1, <1>2 DEF DeploymentsFit
<1>3. ASSUME NEW a \in Accounts, Mended(a)
      PROVE  /\ deployments \in [DepIds -> Deployment] /\ DeploymentsFit
             /\ \A d \in DepIds : deployments[d].source = {}
  <2>1. DoneDeployment \in Deployment /\ DoneDeployment.source = {} /\ DoneDeployment.upload = 1
        /\ DoneDeployment.app = 1
    BY <1>3, Bounds DEF DoneDeployment, Deployment, Mended
  <2>2. deployments = [[d \in DepIds |-> NoDeployment] EXCEPT ![1] = DoneDeployment]
    BY <1>3 DEF Mended
  <2>3. \A d \in DepIds : deployments[d] = NoDeployment \/ deployments[d] = DoneDeployment
    BY <2>2
  <2>4. deployments \in [DepIds -> Deployment]
    BY <1>1, <2>1, <2>2
  <2>5. 1 \in AppIds /\ 1 \in UploadIds
    BY Bounds DEF AppIds, UploadIds
  <2>6. uploads[1] = FetchedUpload(a)
    BY <1>3, <2>5 DEF Mended
  <2>7. apps[1].of = a /\ apps[1] # NoApp
    <3>1. PICK name \in Names, s \in Suffixes : FirstApp(a, name, s)
      BY <1>3 DEF Mended
    <3>2. apps[1] = [of |-> a, name |-> name, slug |-> <<BaseOf[name], s>>, deleted |-> FALSE]
      BY <2>5, <3>1 DEF FirstApp
    <3> QED BY <3>2, NamesAssumption DEF NoApp, NamesAssumption
  <2> QED BY <1>1, <2>1, <2>3, <2>4, <2>5, <2>6, <2>7 DEF DeploymentsFit, FetchedUpload
<1>4. deployments = [d \in DepIds |-> NoDeployment] \/ \E a \in Accounts : Mended(a)
  BY MendedIs DEF Init, NewAccount
<1> QED BY <1>2, <1>3, <1>4

\* The initial configurations and releases: none, or one of each: a configuration
\* within the bounds, and a release of one that two writes left.
LEMMA FirstConfigs ==
  ASSUME Init
  PROVE  /\ config \in [AppIds -> Configs] /\ releases \in [AppIds -> SUBSET Snapshot]
         /\ \A i \in AppIds : config[i] = NoConfig \/ Fits(config[i])
         /\ \A i \in AppIds : \A s \in releases[i] : s.raced
<1>1. CASE NewAccount
  BY <1>1, ConfigTypes DEF NewAccount
<1>2. ASSUME MendedAccount
      PROVE  /\ config \in [AppIds -> Configs] /\ releases \in [AppIds -> SUBSET Snapshot]
             /\ \A i \in AppIds : config[i] = NoConfig \/ Fits(config[i])
             /\ \A i \in AppIds : \A s \in releases[i] : s.raced
  <2>1. PICK one \in Writes, other \in Writes, since \in Configs :
          /\ Fits(since)
          /\ config = [[i \in AppIds |-> NoConfig] EXCEPT ![1] = since]
          /\ releases = [[i \in AppIds |-> {}] EXCEPT ![1] = {[cfg |-> Merged(one, other), raced |-> TRUE]}]
    BY <1>2 DEF MendedAccount, Configs
  <2>2. PICK r : r = [cfg |-> Merged(one, other), raced |-> TRUE]
    OBVIOUS
  <2>3. Merged(one, other) \in Configs
    BY <2>1, ConfigTypes
  <2>4. r \in Snapshot /\ r.raced
    BY <2>2, <2>3 DEF Snapshot, Configs
  <2>5. releases = [[i \in AppIds |-> {}] EXCEPT ![1] = {r}]
    BY <2>1, <2>2
  <2>6. 1 \in AppIds
    BY Bounds DEF AppIds
  <2>7. config \in [AppIds -> Configs] /\ \A i \in AppIds : config[i] = NoConfig \/ Fits(config[i])
    BY <2>1, <2>6, ConfigTypes
  <2>8. releases \in [AppIds -> SUBSET Snapshot] /\ \A i \in AppIds : releases[i] \subseteq {r}
    BY <2>4, <2>5, <2>6
  <2> QED BY <2>4, <2>7, <2>8
<1> QED BY <1>1, <1>2 DEF Init

\* The initial states keep the invariant.
LEMMA AppsInit == Init => AppsInv
<1> SUFFICES ASSUME Init PROVE AppsInv
  OBVIOUS
<1>1. /\ stray = {} /\ raced = {}
      /\ call = [c \in Calls |-> Idle] /\ sweep = NoSweep /\ begun = 0 /\ faults = 0
      /\ drive = NoDrive /\ unended = {}
  BY DEF Init
<1>2. drawn \in 0 .. MaxUploads /\ drawn \in 0 .. 1
  BY FirstUploads, Bounds
<1>3. RowsType
  <2>1. NoSweep \in Sweep
    BY DEF NoSweep, Sweep
  <2>2. call \in [Calls -> Call]
    BY <1>1, IdleFits
  <2>3. sweep \in Sweep
    BY <1>1, <2>1
  <2>4. drive \in Drive
    BY <1>1, Bounds DEF NoDrive, Drive
  <2> QED BY <2>2, <2>3, <2>4, FirstUploads, FirstApps, FirstDeployments, FirstConfigs DEF RowsType
<1>4. VolumeType
  BY <1>1, <1>2, FirstUploads, Bounds DEF VolumeType
<1>5. UploadsFit
  <2>1. \A u \in UploadIds : uploads[u] # NoUpload =>
          u <= drawn /\ uploads[u].st # "none" /\ uploads[u].of \in Accounts
    BY FirstUploads
  <2> QED BY <2>1 DEF UploadsFit
<1>6. DeploymentsFit
  BY FirstDeployments
<1>15. DriveFits
  BY <1>1 DEF DriveFits, NoDrive
<1>7. (\A c \in Calls : CallFits(c)) /\ OwnFiles
  BY <1>1, IdleFits DEF CallFits, OwnFiles, At, Idle
<1>8. SweepFits
  <2>1. sweep.left = {} /\ sweep.row = 0 /\ 0 \notin files
    BY <1>1, <1>2, FirstUploads DEF NoSweep
  <2> QED BY <2>1 DEF SweepFits
<1>9. RowsHaveFiles
  <2>1. \A u \in UploadIds : uploads[u].st = "row" => uploads[u] # NoUpload
    BY DEF NoUpload
  <2> QED BY <2>1, FirstUploads DEF RowsHaveFiles
<1>10. FilesHaveRows
  BY FirstUploads DEF FilesHaveRows
<1>11. TokensLeft
  BY FirstUploads DEF TokensLeft
<1>12. RedeemedIsTaken
  BY FirstUploads DEF RedeemedIsTaken
<1>13. HostnamesAreForever
  <2>1. \A i \in AppIds : apps[i] # NoApp => i = 1
    BY FirstApps
  <2>2. \A i \in AppIds \ {1} : apps[i].slug = <<>>
    BY FirstApps DEF NoApp
  <2>3. apps[1] # NoApp => apps[1].slug # <<>> /\ apps[1].slug[1] \notin Reserved
    BY FirstApps
  <2> QED BY <2>1, <2>2, <2>3 DEF HostnamesAreForever
<1>14. CeilingsHold
  <2>1. ASSUME NEW n \in Nat, n >= 1, NEW T, T \subseteq 1 .. n, T \subseteq {1}
        PROVE  Cardinality(T) <= 1
    <3>1. {} \in SUBSET (1 .. n) /\ T \in SUBSET (1 .. n) /\ 1 \in 1 .. n /\ T \subseteq {} \union {1}
      BY <2>1
    <3> QED BY <3>1, Sizing
  <2>2. ASSUME NEW a \in Accounts PROVE AppsCeiling(a)
    <3>1. \A i \in AppIds : LiveApp(i) => i = 1
      BY FirstApps DEF LiveApp
    <3>2. LiveOf(a) \subseteq AppIds /\ LiveOf(a) \subseteq {1}
      BY <3>1 DEF LiveOf
    <3>3. \A n \in Names : GetAppByName(a, n) \subseteq AppIds /\ GetAppByName(a, n) \subseteq {1}
      BY <3>1 DEF GetAppByName
    <3>4. LiveOf(a) \subseteq 1 .. MaxApps /\ IsFiniteSet(1 .. MaxApps)
      BY <3>2, FS_Interval, Bounds DEF AppIds
    <3>5. Cardinality(LiveOf(a)) \in Nat
      BY <3>4, FS_Subset, FS_CardinalityType
    <3>6. Cardinality(LiveOf(a)) <= 1
      BY <2>1, <3>2, Bounds DEF AppIds
    <3>7. \A n \in Names : Cardinality(GetAppByName(a, n)) <= 1
      BY <2>1, <3>3, Bounds DEF AppIds
    <3> QED BY <3>5, <3>6, <3>7, Bounds DEF AppsCeiling
  <2>3. ASSUME NEW a \in Accounts PROVE UploadCeiling(a)
    <3>1. \A u \in UploadIds : Waiting(u, a) => u = 1
      BY FirstUploads DEF Waiting, NoUpload
    <3>2. WaitingOf(a) \subseteq UploadIds /\ WaitingOf(a) \subseteq {1}
      BY <3>1 DEF WaitingOf
    <3>3. WaitingOf(a) \subseteq 1 .. MaxUploads /\ IsFiniteSet(1 .. MaxUploads)
      BY <3>2, FS_Interval, Bounds DEF UploadIds
    <3>4. Cardinality(WaitingOf(a)) \in Nat
      BY <3>3, FS_Subset, FS_CardinalityType
    <3>5. Cardinality(WaitingOf(a)) <= 1
      BY <2>1, <3>2, Bounds DEF UploadIds
    <3> QED BY <3>4, <3>5, Bounds DEF UploadCeiling
  <2> QED BY <2>2, <2>3, CeilingsAre DEF Ceilings
<1> QED BY <1>3, <1>4, <1>5, <1>6, <1>7, <1>8, <1>9, <1>10, <1>11, <1>12, <1>13, <1>14,
           <1>15 DEF AppsInv

\* Every step keeps the invariant.
LEMMA AppsStep == AppsInv /\ [Next]_vars => AppsInv'
<1> SUFFICES ASSUME AppsInv, [Next]_vars PROVE AppsInv'
  OBVIOUS
<1>1. RowsType'
  BY UploadsKept, AppsKept, DeploymentsKept, ConfigKept, CallsFit, SweepFitsKept, LoopTypes
     DEF RowsType
<1>2. VolumeType'
  BY VolumeKept, ConfigKept, CountsKept, TokensLeftKept, UnendedKept DEF VolumeType
<1>3. CeilingsHold'
  <2>1. Ceilings'
    BY AppsCeilingKept, UploadCeilingKept DEF Ceilings
  <2> QED BY <2>1, CeilingsAre, PTL
<1> QED BY <1>1, <1>2, <1>3, UploadsFitKept, DeploymentsFitKept, DriveFitsKept, CallsFit, OwnFilesKept,
           SweepFitsKept, RowsHaveFilesKept, FilesHaveRowsKept, TokensLeftKept,
           RedeemedIsTakenKept, HostnamesKept DEF AppsInv

\* The invariant holds of every execution.
LEMMA AppsInvariant == Spec => []AppsInv
BY AppsInit, AppsStep, PTL DEF Spec

\* Every row, file and call is one the program can write (AppsTypeOK).
THEOREM AppsTypeCorrect == Spec => []AppsTypeOK
<1>1. AppsInv => AppsTypeOK
  <2> SUFFICES ASSUME AppsInv PROVE AppsTypeOK
    OBVIOUS
  <2>1. fetches \in [UploadIds -> 0 .. MaxMints]
    <3>1. fetches \in [UploadIds -> Nat] /\ uploads \in [UploadIds -> Upload]
      BY DEF AppsInv, VolumeType, RowsType
    <3>2. ASSUME NEW u \in UploadIds PROVE fetches[u] \in 0 .. MaxMints
      <4>1. PICK f, t : f = fetches[u] /\ t = uploads[u].token
        OBVIOUS
      <4>2. t \in 0 .. MaxMints /\ f \in Nat
        BY <3>1, <4>1 DEF Upload
      <4>3. f <= t
        BY <4>1 DEF AppsInv, TokensLeft, FitsToken
      <4> QED BY <4>1, <4>2, <4>3, Bounds
    <3> QED BY <3>1, <3>2
  <2>2. drawn <= MaxUploads /\ begun <= MaxCalls /\ faults <= MaxFaults
    BY FilesDrawn, Bounds DEF AppsInv, VolumeType
  <2>3. sweep.left \subseteq UploadIds /\ sweep.row \in UploadIds \union {0}
    BY DEF AppsInv, RowsType, Sweep
  <2>4. \A c \in Calls : At(c, "insert") => uploads[call[c].upload] = NoUpload
    BY DEF AppsInv, CallFits, StepFits, At
  <2>5. config \in [AppIds -> [ConfigKeys -> Sizes \union {0}]]
    BY DEF AppsInv, RowsType, Configs
  <2>6. uploads \in [UploadIds -> Upload] /\ apps \in [AppIds -> App]
        /\ deployments \in [DepIds -> Deployment]
    BY DEF AppsInv, RowsType
  <2>7. stray \subseteq files /\ files \subseteq 1 .. drawn /\ raced \subseteq AppIds
    BY DEF AppsInv, VolumeType
  <2>8. releases \in [AppIds -> SUBSET Snapshot] /\ unended \subseteq DepIds /\ drive \in Drive
    BY DEF AppsInv, RowsType, VolumeType
  <2>9. drive.over => drive.of # 0
    BY DEF AppsInv, DriveFits, DepIds
  <2> QED BY <2>1, <2>2, <2>3, <2>4, <2>5, <2>6, <2>7, <2>8, <2>9 DEF AppsTypeOK
<1> QED BY <1>1, AppsInvariant, PTL

\* Two requests that each saw room under a ceiling never both take it, whatever
\* the number of accounts and requests and wherever each stops (CeilingsHold).
THEOREM NoCeilingIsPassed == Spec => []CeilingsHold
<1>1. AppsInv => CeilingsHold
  BY DEF AppsInv
<1> QED BY <1>1, AppsInvariant, PTL

\* No two apps that ever existed share a hostname (HostnamesAreForever).
THEOREM RetiredHostnamesStay == Spec => []HostnamesAreForever
<1>1. AppsInv => HostnamesAreForever
  BY DEF AppsInv
<1> QED BY <1>1, AppsInvariant, PTL

\* A tarball is served at most once per token minted (TokenFetchesOnce).
THEOREM FetchesAreBought == Spec => []TokenFetchesOnce
<1>1. AppsInv => TokenFetchesOnce
  BY DEF AppsInv, TokensLeft, FitsToken, TokenFetchesOnce
<1> QED BY <1>1, AppsInvariant, PTL

\* Only crashes and failed removes leave a file without a row, and a build in
\* flight has its account's tarball, unless it expired or a deployment of it
\* ended or could not be recorded to have ended (FilesAndRowsAgree).
THEOREM TarballsStandBehindRows == Spec => []FilesAndRowsAgree
<1>1. AppsInv => FilesAndRowsAgree
  <2> SUFFICES ASSUME AppsInv PROVE FilesAndRowsAgree
    OBVIOUS
  <2>1. \A u \in files : uploads[u].st = "row" \/ u \in stray \/ \E c \in Calls :
                           At(c, "insert") /\ call[c].upload = u
    BY DEF AppsInv, FilesHaveRows, Inserting
  <2>2. ASSUME NEW d \in DepIds, deployments[d].upload # 0, NEW u, u = deployments[d].upload
        PROVE  /\ uploads[u].st = "row" /\ uploads[u].of = apps[deployments[d].app].of
               /\ u \in files \/ uploads[u].expired \/ Ended(u)
    BY <2>2, DeployedUpload DEF AppsInv, DeploymentsFit, RowsHaveFiles
  <2> QED BY <2>1, <2>2 DEF FilesAndRowsAgree, Ended
<1> QED BY <1>1, AppsInvariant, PTL
-----------------------------------------------------------------------------
(* Configurations. *)

\* A call about to write was told that what it read and what it writes fit together.
ValidatedHolds == \A c \in Calls : At(c, "write") => Fits(Merged(call[c].read, call[c].write))
\* A configuration a release, a rollback or a drive keeps is within its bounds or
\* came of writes that overlapped.
SnapshotFits(s) == s.raced \/ Fits(s.cfg)
SnapshotsFit ==
  /\ \A i \in AppIds : \A s \in releases[i] : SnapshotFits(s)
  /\ \A d \in DepIds : \A s \in deployments[d].source : SnapshotFits(s)
  /\ \A s \in drive.plan : SnapshotFits(s)
ConfigInv == AppsInv /\ ConfigWithinBounds /\ ValidatedHolds /\ SnapshotsFit

\* What a call validated stays validated until it writes.
LEMMA ValidatedKept ==
  ASSUME ConfigInv, [Next]_vars
  PROVE  ValidatedHolds'
<1>1. AppsInv /\ call \in [Calls -> Call] /\ ValidatedHolds
  BY DEF ConfigInv, AppsInv, RowsType
<1>2. ASSUME NEW c \in Calls, At(c, "write")' PROVE call'[c] = call[c] \/ ReadConfig(c)
  <2>1. ASSUME NEW d \in Calls, Continue(d), d # c PROVE call'[c] = call[c]
    <3>1. PICK s \in Call : CallGoes(d, s)
      BY <1>1, <2>1, ContinueFits
    <3> QED BY <1>1, <2>1, <3>1 DEF CallGoes
  <2>2. ASSUME NEW d \in Calls, Request(d) PROVE call'[c] = call[c]
    <3>1. CASE d = c
      \* No request begins with the write.
      <4>1. PICK s \in Call : Begin(c, s) /\ s.next # "write"
        BY <1>1, <2>2, <3>1, RequestBegins
      <4>2. call'[c].next # "write"
        BY <1>1, <4>1 DEF Begin
      <4> QED BY <1>2, <4>2 DEF At
    <3>2. CASE d # c
      <4>1. PICK s \in Call : CallGoes(d, s)
        BY <1>1, <2>2, RequestFits
      <4> QED BY <1>1, <3>2, <4>1 DEF CallGoes
    <3> QED BY <3>1, <3>2
  <2>3. ASSUME Continue(c), ~ReadConfig(c) PROVE FALSE
    <3>1. PICK old : old = call[c]
      OBVIOUS
    <3>2. old \in Call /\ StepFits(old)
      BY <1>1, <3>1 DEF AppsInv, CallFits
    <3>3. \/ End(c) \/ Then(c, "check") \/ Then(c, "resolve") \/ Then(c, "create") \/ Then(c, "deploy")
          \/ (\E i : WithApp(c, i))
          \/ Go(c, [call[c] EXCEPT !.next = "insert", !.upload = drawn + 1])
      BY <2>3 DEF Continue, WriteFile, Insert, Discard, CheckUpload, ResolveApp, NewApp, RetireApp,
                  QueueDeployment, WriteConfig, Stop
    <3>4. call'[c].next # "write"
      <4>1. CASE End(c)
        BY <1>1, <4>1 DEF End, Go, Idle
      <4>2. ASSUME NEW n \in {"check", "resolve", "create", "deploy"}, Then(c, n)
            PROVE  call'[c].next # "write"
        <5>1. call'[c] = [old EXCEPT !.next = n]
          BY <1>1, <3>1, <4>2 DEF Then, Go
        <5> QED BY <3>2, <5>1 DEF Call
      <4>3. ASSUME NEW i, WithApp(c, i) PROVE call'[c].next # "write"
        <5>1. PICK n : n = IF old.write = NoConfig THEN "deploy" ELSE "config"
          OBVIOUS
        <5>2. call'[c] = [old EXCEPT !.app = i, !.next = n]
          BY <1>1, <3>1, <4>3, <5>1 DEF WithApp, Go
        <5>3. call'[c].next = n
          BY <3>2, <5>2 DEF Call
        <5> QED BY <5>1, <5>3
      <4>4. CASE Go(c, [call[c] EXCEPT !.next = "insert", !.upload = drawn + 1])
        <5>1. PICK k : k = drawn + 1
          OBVIOUS
        <5>2. call'[c] = [old EXCEPT !.next = "insert", !.upload = k]
          BY <1>1, <3>1, <4>4, <5>1 DEF Go
        <5> QED BY <3>2, <5>2 DEF Call
      <4> QED BY <3>3, <4>1, <4>2, <4>3, <4>4
    <3> QED BY <1>2, <3>4 DEF At
  <2>4. Crash => FALSE
    BY <1>2 DEF Crash, At, Idle
  <2>5. ASSUME NEW d \in DepIds,
               \/ Claim(d) \/ MintFetchToken(d) \/ FetchUpload(d) \/ DeployConfig(d)
             \/ MarkHealthy(d) \/ EndDeployment(d) \/ RemoveTarball(d)
        PROVE  call' = call
    BY <2>5 DEF Claim, MintFetchToken, FetchUpload, DeployConfig, MarkHealthy, EndDeployment,
           RemoveTarball
  <2>6. ListSweepable \/ SweepFile \/ SweepRow \/ Expire \/ UNCHANGED vars => call' = call
    BY DEF ListSweepable, SweepFile, SweepRow, Expire, vars
  <2> QED BY <2>1, <2>2, <2>3, <2>4, <2>5, <2>6 DEF Next, Loop
<1>3. ASSUME NEW c \in Calls, ReadConfig(c) PROVE Fits(Merged(call'[c].read, call'[c].write))
  <2>1. PICK old, existing : old = call[c] /\ existing = config[old.app]
    OBVIOUS
  <2>2. Fits(Merged(existing, old.write))
    BY <1>3, <2>1 DEF ReadConfig, ValidateConfig
  <2>3. call'[c] = [old EXCEPT !.next = "write", !.read = existing]
    BY <1>1, <1>3, <2>1 DEF ReadConfig, Go
  <2>4. old \in Call
    BY <1>1, <2>1
  <2>5. call'[c].read = existing /\ call'[c].write = old.write
    BY <2>3, <2>4 DEF Call
  <2> QED BY <2>2, <2>5
<1>4. ASSUME NEW c \in Calls, At(c, "write")' PROVE Fits(Merged(call'[c].read, call'[c].write))
  BY <1>1, <1>2, <1>3, <1>4 DEF ValidatedHolds, At
<1> QED BY <1>4 DEF ValidatedHolds

\* Nothing but a release of what a drive planned adds to the snapshots kept, and
\* a drive plans with what it is given or with the configuration as it is.
LEMMA SnapshotsKept ==
  ASSUME ConfigInv, [Next]_vars
  PROVE  SnapshotsFit'
<1>1. AppsInv /\ SnapshotsFit /\ ConfigWithinBounds
  BY DEF ConfigInv
<1>2. /\ releases \in [AppIds -> SUBSET Snapshot] /\ drive \in Drive
      /\ deployments' \in [DepIds -> Deployment]
  BY <1>1, DeploymentsKept DEF AppsInv, RowsType
<1>3. ASSUME NEW i \in AppIds, NEW s \in releases'[i] PROVE SnapshotFits(s)
  <2>1. CASE releases' = releases
    BY <1>1, <1>3, <2>1 DEF SnapshotsFit
  <2>2. ASSUME NEW d \in DepIds, MarkHealthy(d) PROVE SnapshotFits(s)
    <3>1. PICK j, p : j = deployments[d].app /\ p \in drive.plan
                      /\ releases' = [releases EXCEPT ![j] = releases[j] \union {p}]
      BY <2>2 DEF MarkHealthy
    <3>2. s \in releases[i] \/ s = p
      BY <1>2, <1>3, <3>1
    <3> QED BY <1>1, <3>1, <3>2 DEF SnapshotsFit
  <2>3. (\E d \in DepIds : MarkHealthy(d)) \/ releases' = releases
    BY <1>1, LoopMoves DEF loop, Claim, DeployConfig, EndDeployment
  <2> QED BY <2>1, <2>2, <2>3
<1>4. ASSUME NEW d \in DepIds, NEW s \in deployments'[d].source PROVE SnapshotFits(s)
  <2>1. CASE deployments[d] # NoDeployment
    BY <1>1, <1>4, <2>1, DeploymentsKept DEF RowKept, SnapshotsFit
  <2>2. CASE deployments'[d] = NoDeployment
    BY <1>4, <2>2 DEF NoDeployment
  <2>3. CASE deployments[d] = NoDeployment /\ deployments'[d] # NoDeployment
    BY <1>1, <1>4, <2>3, DeploymentsKept DEF RowNew, SnapshotsFit
  <2> QED BY <2>1, <2>2, <2>3
<1>5. ASSUME NEW s \in drive'.plan PROVE SnapshotFits(s)
  <2>1. CASE drive'.plan = drive.plan
    BY <1>1, <1>5, <2>1 DEF SnapshotsFit
  <2>2. CASE drive'.plan = {}
    BY <1>5, <2>2
  <2>3. ASSUME NEW d \in DepIds, DeployConfig(d) PROVE SnapshotFits(s)
    <3>1. PICK dep, p : /\ dep = deployments[d]
                        /\ p = IF dep.upload = 0 THEN dep.source ELSE {Current(dep.app)}
      OBVIOUS
    <3>2. drive' = [drive EXCEPT !.plan = p]
      BY <2>3, <3>1 DEF DeployConfig
    <3>3. s \in p
      BY <1>2, <1>5, <3>2 DEF Drive
    <3>4. dep.app \in AppIds
      BY <1>1, <2>3, <3>1, DrivenRow DEF DeployConfig
    <3>5. SnapshotFits(Current(dep.app))
      BY <1>1, <3>4 DEF SnapshotFits, Current, ConfigWithinBounds
    <3> QED BY <1>1, <3>1, <3>3, <3>5 DEF SnapshotsFit
  <2>4. \/ drive'.plan = drive.plan \/ drive'.plan = {}
        \/ \E d \in DepIds : DeployConfig(d)
    <3>1. ASSUME NEW d \in DepIds, MarkHealthy(d) \/ EndDeployment(d) PROVE drive'.plan = drive.plan
      <4>1. drive' = [drive EXCEPT !.over = TRUE]
        BY <3>1 DEF MarkHealthy, EndDeployment
      <4> QED BY <1>2, <4>1 DEF Drive
    <3>2. ASSUME NEW d \in DepIds, Claim(d) PROVE drive'.plan = {}
      BY <3>2 DEF Claim, NoDrive
    <3>3. drive' = NoDrive => drive'.plan = {}
      BY DEF NoDrive
    <3> QED BY <1>1, <3>1, <3>2, <3>3, LoopMoves DEF loop
  <2> QED BY <2>1, <2>2, <2>3, <2>4
<1> QED BY <1>3, <1>4, <1>5 DEF SnapshotsFit

\* Writing what was validated against the rows it still finds keeps the bounds,
\* and so do taking keys out and going back to a snapshot that is within them.
LEMMA WithinBoundsKept ==
  ASSUME FitsShrinks, ConfigInv, [Next]_vars
  PROVE  ConfigWithinBounds'
<1>1. /\ AppsInv /\ config \in [AppIds -> Configs] /\ raced \subseteq AppIds
      /\ \A i \in AppIds : i \notin raced => Fits(config[i])
  BY DEF ConfigInv, AppsInv, RowsType, VolumeType, ConfigWithinBounds
<1>2. ASSUME NEW c \in Calls, WriteConfig(c) PROVE ConfigWithinBounds'
  <2>1. PICK i, w, r : i = call[c].app /\ w = call[c].write /\ r = call[c].read
    OBVIOUS
  <2>2. i \in AppIds /\ Fits(Merged(r, w))
    BY <1>1, <1>2, <2>1 DEF WriteConfig, At, AppsInv, CallFits, StepFits, ConfigInv, ValidatedHolds
  <2>3. config' = [config EXCEPT ![i] = Merged(config[i], w)]
        /\ raced' = IF config[i] = r THEN raced \ {i} ELSE raced \union {i}
    BY <1>2, <2>1 DEF WriteConfig, SetConfigBatch
  <2>4. config'[i] = Merged(config[i], w) /\ \A j \in AppIds \ {i} : config'[j] = config[j]
    BY <1>1, <2>2, <2>3
  <2>5. i \notin raced' => Fits(config'[i])
    BY <2>2, <2>3, <2>4
  <2>6. \A j \in AppIds \ {i} : j \notin raced' => Fits(config'[j])
    BY <1>1, <2>3, <2>4
  <2> QED BY <2>5, <2>6 DEF ConfigWithinBounds
<1>3. ASSUME NEW c \in Calls, NEW i \in AppIds, NEW keys \in SUBSET ConfigKeys, UnsetConfig(c, i, keys)
      PROVE  ConfigWithinBounds'
  <2>1. config' = [config EXCEPT ![i] = Without(config[i], keys)] /\ raced' = raced
    BY <1>3 DEF UnsetConfig, UnsetConfigBatch
  <2>2. config[i] \in Configs
    BY <1>1
  <2>3. Fits(config[i]) => Fits(Without(config[i], keys))
    BY <2>2 DEF FitsShrinks, Configs
  <2> QED BY <1>1, <2>1, <2>3 DEF ConfigWithinBounds
<1>4. ASSUME config' = config, raced' = raced PROVE ConfigWithinBounds'
  BY <1>1, <1>4 DEF ConfigWithinBounds
<1>5. ASSUME NEW i \in AppIds, NEW s \in drive.plan, Restored(i, s) PROVE ConfigWithinBounds'
  <2>1. SnapshotFits(s)
    BY DEF ConfigInv, SnapshotsFit
  <2>2. config'[i] = s.cfg /\ \A j \in AppIds \ {i} : config'[j] = config[j]
    BY <1>1, <1>5 DEF Restored
  <2> QED BY <1>1, <1>5, <2>1, <2>2 DEF Restored, SnapshotFits, ConfigWithinBounds
<1> QED BY <1>1, <1>2, <1>3, <1>4, <1>5, ConfigMoves

\* Given that fact about the sum of the sizes (FitsShrinks, an induction over the
\* keys), a configuration is over its bounds only when two writes overlapped, or
\* when a rollback brought such a configuration back, whatever the bounds and the
\* number of calls, releases and rollbacks (ConfigWithinBounds).
THEOREM OnlyRacesPassTheBounds == FitsShrinks => (Spec => []ConfigWithinBounds)
<1> SUFFICES ASSUME FitsShrinks PROVE Spec => []ConfigWithinBounds
  OBVIOUS
<1>1. Init => ConfigInv
  <2> SUFFICES ASSUME Init PROVE ConfigInv
    OBVIOUS
  <2>1. ConfigWithinBounds
    BY FirstConfigs DEF FitsShrinks, ConfigWithinBounds
  <2>2. ValidatedHolds
    BY DEF Init, ValidatedHolds, At, Idle
  <2>3. SnapshotsFit
    <3>1. drive.plan = {}
      BY DEF Init, NoDrive
    <3> QED BY <3>1, FirstConfigs, FirstDeployments DEF SnapshotsFit, SnapshotFits
  <2> QED BY <2>1, <2>2, <2>3, AppsInit DEF ConfigInv
<1>2. ConfigInv /\ [Next]_vars => ConfigInv'
  <2> SUFFICES ASSUME ConfigInv, [Next]_vars PROVE ConfigInv'
    OBVIOUS
  <2>1. AppsInv'
    BY AppsStep DEF ConfigInv
  <2> QED BY <2>1, ValidatedKept, WithinBoundsKept, SnapshotsKept DEF ConfigInv
<1>3. ConfigInv => ConfigWithinBounds
  BY DEF ConfigInv
<1> QED BY <1>1, <1>2, <1>3, PTL DEF Spec

=============================================================================
