------------------------ MODULE DeploymentHistoryProofs ------------------------
(***************************************************************************)
(* What the deployment tables remember, for every set of apps, uploads and *)
(* configurations and every number of deployments: the releases an app     *)
(* has, the event log of each row, and that the tables implement           *)
(* DeploymentContract.                                                     *)
(***************************************************************************)
EXTENDS DeploymentStoreProofs

(* The release history. *)

\* The rows an app's releases come from.
HealthyOf(a) == {d \in Ids : appOf[d] = a /\ state[d] = "healthy"}

MintedBy(a) == {releases[a][n].dep : n \in 1..Len(releases[a])}

\* A transaction that mints nothing and makes no row healthy or unhealthy keeps
\* the history.
LEMMA QuietKeepsReleases ==
  ASSUME ReleaseHistory, UNCHANGED <<releases, current>>,
         \A a \in Apps : HealthyOf(a)' = HealthyOf(a)
  PROVE  ReleaseHistory'
  BY DEF ReleaseHistory, HealthyOf

\* The one that mints keeps it: the row is in flight, so it is the app's newest
\* and every release of the app is older.
LEMMA MintKeepsReleases ==
  ASSUME LifeInv, ReleaseHistory, NEW d \in Ids, NEW cfg, MarkHealthy(d, cfg)
  PROVE  /\ ReleaseHistory'
         /\ \A n \in 1..Len(releases[appOf[d]]) : releases[appOf[d]][n].dep < d
<1>0. PICK a \in Apps : a = appOf[d]
  BY DEF MarkHealthy, CanMove, InFlight, InFlightStates, LifeInv, TypeOK, Born, Ids
<1> DEFINE new == [dep |-> d, digest |-> digest[d], config |-> cfg]
           N   == Len(releases[a])
<1>1. /\ InFlight(d) /\ a = appOf[d]
      /\ state' = [state EXCEPT ![d] = "healthy"] /\ appOf' = appOf
  BY <1>0 DEF MarkHealthy, CanMove, ApplyTransition, birthVars
<1>2. /\ releases' = [releases EXCEPT ![a] = Append(releases[a], new)]
      /\ current' = [current EXCEPT ![a] = N + 1]
  BY <1>0 DEF MarkHealthy, NewCurrent
<1>3. releases \in [Apps -> Seq(Release)] /\ current \in [Apps -> Nat]
  BY DEF LifeInv, TypeOK
<1>4. \A b \in Apps \ {a} : releases'[b] = releases[b] /\ current'[b] = current[b]
  BY <1>2, <1>3
<1>5. /\ N \in Nat
      /\ releases'[a] = Append(releases[a], new) /\ Len(releases'[a]) = N + 1
      /\ \A n \in 1..N : releases'[a][n] = releases[a][n]
      /\ releases'[a][N + 1] = new
      /\ current'[a] = N + 1
  BY <1>1, <1>2, <1>3
<1>6. state[d] # "healthy" /\ d \notin HealthyOf(a)
  BY <1>1 DEF InFlight, InFlightStates, HealthyOf
<1>7. \A n \in 1..N : releases[a][n].dep \in HealthyOf(a)
  BY <1>1 DEF ReleaseHistory, HealthyOf
<1>8. \A n \in 1..N : releases[a][n].dep \in Ids /\ releases[a][n].dep < d
  <2> SUFFICES ASSUME NEW n \in 1..N
               PROVE  releases[a][n].dep \in Ids /\ releases[a][n].dep < d
    OBVIOUS
  <2>1. releases[a][n].dep \in HealthyOf(a)
    BY <1>7
  <2>2. releases[a][n].dep \in Ids /\ appOf[releases[a][n].dep] = a
        /\ releases[a][n].dep # d
    BY <2>1, <1>6 DEF HealthyOf
  <2>3. releases[a][n].dep <= d
    BY <1>1, <2>2 DEF LifeInv, InFlightIsNewest
  <2> QED BY <2>2, <2>3 DEF Ids
<1>9. HealthyOf(a)' = HealthyOf(a) \cup {d}
  BY <1>1 DEF HealthyOf, LifeInv, TypeOK
<1>10. \A b \in Apps \ {a} : HealthyOf(b)' = HealthyOf(b)
  BY <1>1 DEF HealthyOf, LifeInv, TypeOK
<1>11. MintedBy(a)' = MintedBy(a) \cup {d}
  <2>1. 1..(N + 1) = (1..N) \cup {N + 1}
    BY <1>5
  <2> QED BY <2>1, <1>5 DEF MintedBy
<1>12. MintedBy(a)' = HealthyOf(a)'
  BY <1>1, <1>9, <1>11 DEF ReleaseHistory, MintedBy, HealthyOf
<1>13. \A m, n \in 1..(N + 1) : m < n => releases'[a][m].dep < releases'[a][n].dep
  <2> SUFFICES ASSUME NEW m \in 1..(N + 1), NEW n \in 1..(N + 1), m < n
               PROVE  releases'[a][m].dep < releases'[a][n].dep
    OBVIOUS
  <2>1. CASE n = N + 1
    <3>1. m \in 1..N
      BY <1>5, <2>1
    <3> QED BY <1>5, <1>8, <2>1, <3>1
  <2>2. CASE n # N + 1
    <3>1. m \in 1..N /\ n \in 1..N
      BY <1>5, <2>2
    <3> QED BY <1>1, <1>5, <3>1 DEF ReleaseHistory
  <2> QED BY <2>1, <2>2
<1>14. ReleaseHistory'
  <2> SUFFICES ASSUME NEW b \in Apps
               PROVE  /\ MintedBy(b)' = HealthyOf(b)'
                      /\ \A m, n \in 1..Len(releases'[b]) :
                           m < n => releases'[b][m].dep < releases'[b][n].dep
                      /\ current'[b] = Len(releases'[b])
    BY DEF ReleaseHistory, MintedBy, HealthyOf
  <2>1. CASE b = a
    BY <2>1, <1>5, <1>12, <1>13
  <2>2. CASE b # a
    <3>1. releases'[b] = releases[b] /\ current'[b] = current[b]
          /\ HealthyOf(b)' = HealthyOf(b)
      BY <2>2, <1>4, <1>10
    <3>2. MintedBy(b)' = MintedBy(b)
      BY <3>1 DEF MintedBy
    <3>3. MintedBy(b) = HealthyOf(b)
      BY DEF ReleaseHistory, MintedBy, HealthyOf
    <3>4. \A m, n \in 1..Len(releases'[b]) :
            m < n => releases'[b][m].dep < releases'[b][n].dep
      BY <3>1 DEF ReleaseHistory
    <3> QED BY <3>1, <3>2, <3>3, <3>4 DEF ReleaseHistory
  <2> QED BY <2>1, <2>2
<1> QED BY <1>0, <1>8, <1>14

\* So a healthy row never stops being one, and the other transactions leave the
\* releases alone.
LEMMA StepReleases == LifeInv /\ ReleaseHistory /\ [AnyCall]_storeVars => ReleaseHistory'
<1> SUFFICES ASSUME LifeInv, ReleaseHistory, [AnyCall]_storeVars PROVE ReleaseHistory'
  OBVIOUS
<1>1. CASE \E d \in Ids, cfg \in Configs : MarkHealthy(d, cfg)
  BY <1>1, MintKeepsReleases
<1>2. CASE \E a \in Apps : Inserts(a)
  <2>1. PICK a \in Apps, u \in Uploads \cup {NoUpload}, n \in Nat : CreateDeployment(a, u, n)
    BY <1>2 DEF Inserts
  <2>2. created + 1 \in Ids /\ state[created + 1] = "absent"
    BY <2>1, BoundAssumption
    DEF BoundAssumption, CreateDeployment, LifeInv, TypeOK, Born, Ids
  <2>3. \A b \in Apps : HealthyOf(b)' = HealthyOf(b)
    BY <2>1, <2>2 DEF CreateDeployment, HealthyOf, Superseded, InFlightOf, InFlight,
                      InFlightStates, Queued, LifeInv, TypeOK
  <2> QED BY <2>1, <2>3, QuietKeepsReleases DEF CreateDeployment, appVars
<1>3. CASE \E d \in Ids, to \in States, why \in FailureReasons \cup {"none"} :
             Transition(d, to, why)
  <2>1. PICK d \in Ids, to \in States, why \in FailureReasons \cup {"none"} :
          Transition(d, to, why)
    BY <1>3
  <2>2. state[d] # "healthy" /\ to # "healthy"
    BY <2>1 DEF Transition, CanMove, InFlight, InFlightStates
  <2>3. \A b \in Apps : HealthyOf(b)' = HealthyOf(b)
    BY <2>1, <2>2 DEF Transition, ApplyTransition, birthVars, HealthyOf, LifeInv, TypeOK
  <2> QED BY <2>1, <2>3, QuietKeepsReleases DEF Transition, appVars
<1>4. CASE UNCHANGED <<state, appOf, releases, current>>
  BY <1>4, QuietKeepsReleases DEF HealthyOf
<1>5. CASE \/ \E d \in Ids, p \in Paths, named \in BOOLEAN, img \in Ids \cup {0} :
                RecordBuildResult(d, p, named, img)
           \/ \E d \in Ids : ClaimNext(d) \/ ReleaseBuildingClaim(d)
  BY <1>4, <1>5 DEF RecordBuildResult, ClaimNext, ReleaseBuildingClaim, birthVars, appVars
<1>6. CASE \/ \E a \in Apps : SoftDeleteApp(a)
           \/ \E a \in Apps, cfg \in Configs : SetConfig(a, cfg)
           \/ UNCHANGED storeVars
  BY <1>4, <1>6 DEF SoftDeleteApp, SetConfig, storeVars, rowVars, birthVars, appVars
<1> QED BY <1>1, <1>2, <1>3, <1>5, <1>6 DEF AnyCall

-----------------------------------------------------------------------------
(* The event log. *)

\* A log that starts queued, follows the transition table and ends at s.
Replays(log, s) ==
  /\ log # <<>> /\ Head(log) = Queued /\ log[Len(log)] = s
  /\ \A i \in 1..(Len(log) - 1) : log[i + 1] \in Allowed[log[i]]

\* One more allowed event keeps it one.
LEMMA ReplayGrows ==
  ASSUME NEW log \in Seq(States), NEW s \in States, NEW to \in Allowed[s], Replays(log, s)
  PROVE  Replays(Append(log, to), to)
<1> DEFINE N == Len(log)
<1>1. N \in Nat \ {0}
  BY EmptySeq DEF Replays
<1>2. /\ Len(Append(log, to)) = N + 1
      /\ \A i \in 1..N : Append(log, to)[i] = log[i]
      /\ Append(log, to)[N + 1] = to
  OBVIOUS
<1>3. Append(log, to) # <<>> /\ Head(Append(log, to)) = Queued
  BY <1>1, <1>2 DEF Replays
<1>4. \A i \in 1..N : Append(log, to)[i + 1] \in Allowed[Append(log, to)[i]]
  <2> SUFFICES ASSUME NEW i \in 1..N
               PROVE  Append(log, to)[i + 1] \in Allowed[Append(log, to)[i]]
    OBVIOUS
  <2>1. CASE i = N
    BY <2>1, <1>1, <1>2 DEF Replays
  <2>2. CASE i # N
    <3>1. i \in 1..(N - 1) /\ i + 1 \in 1..N
      BY <2>2, <1>1
    <3> QED BY <3>1, <1>2 DEF Replays
  <2> QED BY <2>1, <2>2
<1> QED BY <1>1, <1>2, <1>3, <1>4 DEF Replays

\* The rows that are there, with the log of each.
LEMMA EventsUnfolded ==
  EventsTellTheRow <=> \A d \in 1..created : Replays(events[d], state[d])
  BY DEF EventsTellTheRow, Replays

\* A row that moves, moves as the table allows and logs where to.
LEMMA MoveKeepsEvents ==
  ASSUME LifeInv, EventsTellTheRow, NEW d \in Ids, NEW to, CanMove(d, to),
         ApplyTransition(d, to), created' = created
  PROVE  EventsTellTheRow'
<1>1. state[d] \in States /\ to \in Allowed[state[d]] /\ d \in 1..created
  BY DEF CanMove, InFlight, InFlightStates, States, LifeInv, TypeOK, Born, Ids
<1>2. events[d] \in Seq(States) /\ Replays(events[d], state[d])
  BY <1>1, EventsUnfolded DEF LifeInv, TypeOK
<1>3. Replays(Append(events[d], to), to)
  BY <1>1, <1>2, ReplayGrows
<1>4. /\ events'[d] = Append(events[d], to) /\ state'[d] = to
      /\ \A e \in Ids \ {d} : events'[e] = events[e] /\ state'[e] = state[e]
  BY DEF ApplyTransition, Logged, LifeInv, TypeOK
<1>5. 1..created \subseteq Ids
  BY BoundAssumption DEF BoundAssumption, LifeInv, TypeOK, Ids
<1>6. \A e \in 1..created : Replays(events'[e], state'[e])
  BY <1>3, <1>4, <1>5, EventsUnfolded
<1> QED BY <1>6 DEF EventsTellTheRow, Replays

\* A new row logs its first event, and each row it supersedes its last.
LEMMA InsertKeepsEvents ==
  ASSUME LifeInv, EventsTellTheRow, NEW a \in Apps, Inserts(a)
  PROVE  EventsTellTheRow'
<1> DEFINE new == created + 1
<1>1. PICK u \in Uploads \cup {NoUpload}, n \in Nat : CreateDeployment(a, u, n)
  BY DEF Inserts
<1>2. /\ new \in Ids /\ created' = new /\ 1..created \subseteq Ids
      /\ 1..new = (1..created) \cup {new} /\ new \notin 1..created
  BY <1>1, BoundAssumption DEF BoundAssumption, CreateDeployment, LifeInv, TypeOK, Ids
<1> HIDE DEF new
<1>3. events'[new] = <<Queued>> /\ state'[new] = Queued
  BY <1>1, <1>2 DEF CreateDeployment, new
<1>4. \A e \in 1..created :
        IF e \in InFlightOf(a)
        THEN state'[e] = "cancelled" /\ events'[e] = Append(events[e], "cancelled")
        ELSE state'[e] = state[e] /\ events'[e] = events[e]
  BY <1>1, <1>2 DEF CreateDeployment, Superseded, Logged, new
<1>5. Replays(events'[new], state'[new])
  BY <1>3 DEF Replays
<1>6. \A e \in InFlightOf(a) : state[e] \in States /\ "cancelled" \in Allowed[state[e]]
  BY DEF InFlightOf, InFlight, InFlightStates, States, Terminal, Allowed
<1>7. \A e \in 1..created : events[e] \in Seq(States) /\ Replays(events[e], state[e])
  BY <1>2, EventsUnfolded DEF LifeInv, TypeOK
<1>8. \A e \in 1..created : Replays(events'[e], state'[e])
  BY <1>4, <1>6, <1>7, ReplayGrows
<1>9. \A e \in 1..created' : Replays(events'[e], state'[e])
  BY <1>2, <1>5, <1>8
<1> QED BY <1>9 DEF EventsTellTheRow, Replays

\* Every transaction that writes a state logs it in the same step.
LEMMA StepEvents == LifeInv /\ EventsTellTheRow /\ [AnyCall]_storeVars => EventsTellTheRow'
<1> SUFFICES ASSUME LifeInv, EventsTellTheRow, [AnyCall]_storeVars PROVE EventsTellTheRow'
  OBVIOUS
<1>1. CASE \E a \in Apps : Inserts(a)
  BY <1>1, InsertKeepsEvents
<1>2. CASE \E d \in Ids, to \in States, why \in FailureReasons \cup {"none"} :
             Transition(d, to, why)
  BY <1>2, MoveKeepsEvents DEF Transition, birthVars
<1>3. CASE \E d \in Ids, cfg \in Configs : MarkHealthy(d, cfg)
  BY <1>3, MoveKeepsEvents DEF MarkHealthy, birthVars
<1>4. CASE UNCHANGED <<created, state, events>>
  BY <1>4 DEF EventsTellTheRow
<1>5. CASE \/ \E d \in Ids, p \in Paths, named \in BOOLEAN, img \in Ids \cup {0} :
                RecordBuildResult(d, p, named, img)
           \/ \E d \in Ids : ClaimNext(d) \/ ReleaseBuildingClaim(d)
  BY <1>4, <1>5 DEF RecordBuildResult, ClaimNext, ReleaseBuildingClaim, birthVars
<1>6. CASE \/ \E a \in Apps : SoftDeleteApp(a)
           \/ \E a \in Apps, cfg \in Configs : SetConfig(a, cfg)
           \/ UNCHANGED storeVars
  BY <1>4, <1>6 DEF SoftDeleteApp, SetConfig, storeVars, rowVars, birthVars
<1> QED BY <1>1, <1>2, <1>3, <1>5, <1>6 DEF AnyCall

-----------------------------------------------------------------------------
(* The invariant of the whole store. *)

\* A rollback names a release of its app, releases are only ever added, and any
\* other deployment names an upload.
SourcesExist ==
  \A d \in Ids :
    /\ source[d] # 0 => appOf[d] \in Apps /\ source[d] \in 1..Len(releases[appOf[d]])
    /\ source[d] = 0 /\ d <= created => upload[d] \in Uploads

\* No call takes the release away.
LEMMA StepSources == LifeInv /\ SourcesExist /\ [AnyCall]_storeVars => SourcesExist'
<1> SUFFICES ASSUME LifeInv, SourcesExist, [AnyCall]_storeVars PROVE SourcesExist'
  OBVIOUS
<1> USE DEF SourcesExist
<1>1. CASE \E a \in Apps : Inserts(a)
  <2>1. PICK a \in Apps, u \in Uploads \cup {NoUpload}, n \in Nat : CreateDeployment(a, u, n)
    BY <1>1 DEF Inserts
  <2>2. /\ appOf' = [appOf EXCEPT ![created + 1] = a]
        /\ source' = [source EXCEPT ![created + 1] = n]
        /\ upload' = [upload EXCEPT ![created + 1] = u]
        /\ (u = NoUpload) # (n = 0)
        /\ n \in 0..Len(releases[a]) /\ releases' = releases
        /\ created' = created + 1
    BY <2>1 DEF CreateDeployment, appVars
  <2>3. created \in Nat /\ \A d \in Ids : d <= created + 1 => d <= created \/ d = created + 1
    BY BoundAssumption DEF BoundAssumption, LifeInv, TypeOK, Ids
  <2> QED BY <2>2, <2>3 DEF LifeInv, TypeOK
<1>2. CASE \E d \in Ids, cfg \in Configs : MarkHealthy(d, cfg)
  <2>1. PICK d \in Ids, cfg \in Configs : MarkHealthy(d, cfg)
    BY <1>2
  <2>2. UNCHANGED <<created, appOf, upload, source>>
    BY <2>1 DEF MarkHealthy, birthVars
  <2>3. \A a \in Apps : Len(releases[a]) \in Nat /\ Len(releases'[a]) \in Nat
                        /\ Len(releases'[a]) >= Len(releases[a])
    <3>1. releases \in [Apps -> Seq(Release)]
      BY DEF LifeInv, TypeOK
    <3>2. releases' = [releases EXCEPT ![appOf[d]] =
             Append(@, [dep |-> d, digest |-> digest[d], config |-> cfg])]
      BY <2>1 DEF MarkHealthy
    <3>3. \A r : \A s \in Seq(Release) : Len(Append(s, r)) = Len(s) + 1 /\ Len(s) \in Nat
      OBVIOUS
    <3> QED BY <3>1, <3>2, <3>3
  <2> QED BY <2>2, <2>3
<1>3. CASE UNCHANGED <<birthVars, releases>>
  BY <1>3 DEF birthVars
<1>4. CASE \/ \E d \in Ids, to \in States, why \in FailureReasons \cup {"none"} :
                Transition(d, to, why)
           \/ \E d \in Ids, p \in Paths, named \in BOOLEAN, img \in Ids \cup {0} :
                RecordBuildResult(d, p, named, img)
           \/ \E d \in Ids : ClaimNext(d) \/ ReleaseBuildingClaim(d)
  BY <1>3, <1>4 DEF Transition, RecordBuildResult, ClaimNext, ReleaseBuildingClaim, birthVars,
                    appVars
<1>5. CASE \/ \E a \in Apps : SoftDeleteApp(a)
           \/ \E a \in Apps, cfg \in Configs : SetConfig(a, cfg)
           \/ UNCHANGED storeVars
  BY <1>3, <1>5 DEF SoftDeleteApp, SetConfig, storeVars, birthVars, appVars
<1> QED BY <1>1, <1>2, <1>4, <1>5 DEF AnyCall

StoreInv == LifeInv /\ ReleaseHistory /\ EventsTellTheRow /\ SourcesExist

\* It holds of empty tables.
LEMMA InitStoreInv == StoreInit => StoreInv
<1> SUFFICES ASSUME StoreInit PROVE StoreInv
  OBVIOUS
<1>1. ReleaseHistory
  <2> SUFFICES ASSUME NEW a \in Apps
               PROVE  MintedBy(a) = HealthyOf(a) /\ current[a] = 0 /\ Len(releases[a]) = 0
    BY DEF ReleaseHistory, MintedBy, HealthyOf
  <2>1. Len(releases[a]) = 0 /\ current[a] = 0
    BY DEF StoreInit
  <2>2. HealthyOf(a) = {}
    BY DEF StoreInit, HealthyOf
  <2>3. MintedBy(a) = {}
    BY <2>1 DEF MintedBy
  <2> QED BY <2>1, <2>2, <2>3
<1>2. EventsTellTheRow
  <2>1. created = 0
    BY DEF StoreInit
  <2>2. 1..created = {}
    BY <2>1
  <2> QED BY <2>2 DEF EventsTellTheRow
<1>3. SourcesExist
  <2>1. created = 0 /\ source = [d \in Ids |-> 0]
    BY DEF StoreInit
  <2>2. \A d \in Ids : ~(d <= 0)
    BY BoundAssumption DEF BoundAssumption, Ids
  <2> QED BY <2>1, <2>2 DEF SourcesExist
<1> QED BY <1>1, <1>2, <1>3, InitLifeInv DEF StoreInv

\* Every call keeps it.
LEMMA StepStoreInv == StoreInv /\ [AnyCall]_storeVars => StoreInv'
  BY StepLifeInv, StepReleases, StepEvents, StepSources DEF StoreInv

\* A row's birth is written once: no call changes it afterwards, and ids only grow.
LEMMA StepBirths ==
  ASSUME LifeInv, [AnyCall]_storeVars
  PROVE  /\ created \in Nat /\ created' \in {created, created + 1}
         /\ \A d \in Ids : d <= created =>
              appOf'[d] = appOf[d] /\ upload'[d] = upload[d] /\ source'[d] = source[d]
<1>1. created \in Nat
  BY BoundAssumption DEF BoundAssumption, LifeInv, TypeOK
<1>2. CASE \E a \in Apps : Inserts(a)
  <2>1. PICK a \in Apps, u \in Uploads \cup {NoUpload}, n \in Nat : CreateDeployment(a, u, n)
    BY <1>2 DEF Inserts
  <2>2. /\ created' = created + 1
        /\ appOf' = [appOf EXCEPT ![created + 1] = a]
        /\ upload' = [upload EXCEPT ![created + 1] = u]
        /\ source' = [source EXCEPT ![created + 1] = n]
    BY <2>1 DEF CreateDeployment
  <2>3. \A d \in Ids : d <= created => d # created + 1
    BY <1>1 DEF Ids
  <2> QED BY <1>1, <2>2, <2>3 DEF LifeInv, TypeOK
<1>3. CASE \E d \in Ids : Moves(d)
  BY <1>1, <1>3 DEF Moves, birthVars
<1>4. CASE Spares
  BY <1>1, <1>4 DEF Spares, birthVars
<1> QED BY <1>2, <1>3, <1>4, StepShape DEF LifeInv

\* The store's invariant holds throughout.
LEMMA StoreInvariant == StoreSpec => []StoreInv
<1>1. StoreInv /\ [StoreNext]_storeVars => StoreInv'
  BY StoreCalls, StepStoreInv DEF StoreInv, LifeInv
<1> QED BY <1>1, InitStoreInv, PTL DEF StoreSpec

\* An app's releases are exactly its healthy deployments, oldest first, and the app
\* points at the newest: MarkHealthy never mints out of order, because what it
\* ends is the app's newest row.
THEOREM ReleasesAreHealthyRows == StoreSpec => []ReleaseHistory
  BY StoreInvariant, PTL DEF StoreInv

\* The deployment_events of a row replay to its state through steps the transition
\* table allows, for a superseded row too.
THEOREM LogReplaysToRow == StoreSpec => []EventsTellTheRow
  BY StoreInvariant, PTL DEF StoreInv

-----------------------------------------------------------------------------
(* The store implements DeploymentContract.                                *)

\* The refinement mapping, by name.
Phase   == [d \in Ids |-> IF InFlight(d) THEN "pending" ELSE state[d]]
Serves  == [a \in Apps |-> IF current[a] = 0 THEN 0 ELSE releases[a][current[a]].dep]

\* What the contract calls pending is what the store calls in flight.
LEMMA PendingIsInFlight ==
  ASSUME TypeOK, NEW a
  PROVE  Contract!PendingOf(a) = InFlightOf(a)
<1>1. \A d \in Ids : ~InFlight(d) => state[d] # "pending"
  BY DEF TypeOK, States, Terminal, InFlightStates
<1> QED BY <1>1 DEF Contract!PendingOf, InFlightOf

\* Empty tables are the contract's empty state.
LEMMA InitContract == StoreInit => Contract!Init
  BY DEF StoreInit, Contract!Init, InFlight, InFlightStates

\* CreateDeployment accepts: no row has the new id, and every smaller id has one.
LEMMA InsertAccepts ==
  ASSUME StoreInv, NEW a \in Apps, Inserts(a)
  PROVE  \E d \in Ids : Contract!Accept(a, d)
<1>1. PICK u \in Uploads \cup {NoUpload}, n \in Nat : CreateDeployment(a, u, n)
  BY DEF Inserts
<1>2. PICK new \in Ids : new = created + 1
  BY <1>1, BoundAssumption
  DEF BoundAssumption, CreateDeployment, StoreInv, LifeInv, TypeOK, Ids
<1>3. state[new] = "absent" /\ \A e \in Ids : e < new => state[e] # "absent"
  BY <1>2 DEF StoreInv, LifeInv, Born, TypeOK, Ids
<1>4. \A d \in Ids : state'[d] = IF d = new THEN Queued
                               ELSE IF d \in InFlightOf(a) THEN "cancelled" ELSE state[d]
  BY <1>1, <1>2 DEF CreateDeployment, Superseded
<1>5. \A d \in Ids : InFlight(d)' <=> d = new \/ (InFlight(d) /\ d \notin InFlightOf(a))
  BY <1>4 DEF InFlight, InFlightStates, Queued
<1>6. Phase' = [e \in Ids |-> IF e = new THEN "pending"
                             ELSE IF e \in InFlightOf(a) THEN "cancelled"
                             ELSE Phase[e]]
  <2>1. \A e \in Ids : (IF InFlight(e)' THEN "pending" ELSE state'[e])
           = IF e = new THEN "pending"
             ELSE IF e \in InFlightOf(a) THEN "cancelled"
             ELSE IF InFlight(e) THEN "pending" ELSE state[e]
    BY <1>4, <1>5 DEF InFlightOf
  <2> QED BY <2>1 DEF Phase
<1>7. a \notin deleted /\ appOf' = [appOf EXCEPT ![new] = a]
  BY <1>1, <1>2 DEF CreateDeployment, Live
<1>8. UNCHANGED <<releases, current, deleted>>
  BY <1>1 DEF CreateDeployment, appVars
<1>9. Phase[new] = "absent" /\ \A e \in Ids : e < new => Phase[e] # "absent"
  BY <1>2, <1>3 DEF Phase, InFlight, InFlightStates
<1>10. Contract!Accept(a, new)
  BY <1>6, <1>7, <1>8, <1>9, PendingIsInFlight DEF Contract!Accept, Phase, StoreInv, LifeInv
<1> QED BY <1>2, <1>10

\* A transition ends the row, or moves it between states the contract does not
\* tell apart.
LEMMA TransitionEnds ==
  ASSUME StoreInv, NEW d \in Ids, NEW to, NEW r, Transition(d, to, r)
  PROVE  Contract!End(d) \/ UNCHANGED Contract!vars
<1>1. /\ InFlight(d) /\ to \in States \ {"healthy"}
      /\ state' = [state EXCEPT ![d] = to]
      /\ UNCHANGED <<appOf, releases, current, deleted>>
  BY MovingRow DEF Transition, CanMove, ApplyTransition, birthVars, appVars, StoreInv, LifeInv
<1>2. \A e \in Ids : state'[e] = IF e = d THEN to ELSE state[e]
  BY <1>1 DEF StoreInv, LifeInv, TypeOK
<1>3. CASE to \in InFlightStates
  <2>1. Phase' = Phase
    BY <1>1, <1>2, <1>3 DEF Phase, InFlight
  <2> QED BY <1>1, <2>1 DEF Contract!vars, Phase
<1>4. CASE to \in {"failed", "cancelled"}
  <2>1. Phase' = [Phase EXCEPT ![d] = to] /\ Phase[d] = "pending"
    BY <1>1, <1>2, <1>4 DEF Phase, InFlight, InFlightStates
  <2> QED BY <1>1, <1>4, <2>1 DEF Contract!End, Phase
<1> QED BY <1>1, <1>3, <1>4 DEF States, Terminal

\* MarkHealthy is a success: nothing else of the app is pending, and what the app
\* served is older.
LEMMA HealthySucceeds ==
  ASSUME StoreInv, NEW d \in Ids, NEW cfg, MarkHealthy(d, cfg)
  PROVE  \E a \in Apps : Contract!Succeed(a, d)
<1>1. PICK a \in Apps : a = appOf[d]
  BY DEF MarkHealthy, CanMove, InFlight, InFlightStates, StoreInv, LifeInv, TypeOK, Born, Ids
<1> DEFINE N == Len(releases[a])
<1>2. /\ InFlight(d) /\ state' = [state EXCEPT ![d] = "healthy"]
      /\ releases' = [releases EXCEPT ![a] =
           Append(@, [dep |-> d, digest |-> digest[d], config |-> cfg])]
      /\ current' = [current EXCEPT ![a] = N + 1]
      /\ UNCHANGED <<appOf, deleted>>
  BY <1>1 DEF MarkHealthy, CanMove, ApplyTransition, NewCurrent, birthVars
<1>3. \A n \in 1..N : releases[a][n].dep < d
  BY <1>1, MintKeepsReleases DEF StoreInv
<1>4. releases \in [Apps -> Seq(Release)] /\ current \in [Apps -> Nat] /\ N \in Nat
      /\ current[a] = N
  BY DEF StoreInv, LifeInv, TypeOK, ReleaseHistory
<1>5. InFlightOf(a) = {d}
  <2>1. d \in InFlightOf(a)
    BY <1>1, <1>2 DEF InFlightOf
  <2>2. \A e \in InFlightOf(a) : e <= d /\ d <= e
    BY <1>1, <1>2 DEF InFlightOf, StoreInv, LifeInv, InFlightIsNewest
  <2> QED BY <2>1, <2>2 DEF InFlightOf, Ids
<1>6. Serves[a] < d
  BY <1>3, <1>4 DEF Serves, Ids
<1>7. Phase' = [Phase EXCEPT ![d] = "healthy"]
  <2>1. \A e \in Ids : state'[e] = IF e = d THEN "healthy" ELSE state[e]
    BY <1>2 DEF StoreInv, LifeInv, TypeOK
  <2> QED BY <2>1 DEF Phase, InFlight, InFlightStates
<1>8. Serves' = [Serves EXCEPT ![a] = d]
  <2>1. /\ current'[a] = N + 1 /\ N + 1 # 0
        /\ releases'[a][N + 1] = [dep |-> d, digest |-> digest[d], config |-> cfg]
    BY <1>2, <1>4
  <2>2. \A b \in Apps \ {a} : current'[b] = current[b] /\ releases'[b] = releases[b]
    BY <1>2, <1>4
  <2>3. \A b \in Apps :
          (IF current'[b] = 0 THEN 0 ELSE releases'[b][current'[b]].dep)
            = IF b = a THEN d ELSE IF current[b] = 0 THEN 0 ELSE releases[b][current[b]].dep
    BY <2>1, <2>2
  <2> QED BY <2>3 DEF Serves
<1>9. Contract!Succeed(a, d)
  BY <1>2, <1>5, <1>6, <1>7, <1>8, PendingIsInFlight
  DEF Contract!Succeed, Phase, Serves, StoreInv, LifeInv
<1> QED BY <1>9

\* Every call is a step of the contract, or one it does not see.
LEMMA StepContract == StoreInv /\ [AnyCall]_storeVars => [Contract!Next]_(Contract!vars)
<1> SUFFICES ASSUME StoreInv, [AnyCall]_storeVars
             PROVE  Contract!Next \/ UNCHANGED Contract!vars
  OBVIOUS
<1>1. CASE \E a \in Apps : Inserts(a)
  BY <1>1, InsertAccepts DEF Contract!Next
<1>2. CASE \E d \in Ids, to \in States, why \in FailureReasons \cup {"none"} :
             Transition(d, to, why)
  BY <1>2, TransitionEnds DEF Contract!Next
<1>3. CASE \E d \in Ids, cfg \in Configs : MarkHealthy(d, cfg)
  BY <1>3, HealthySucceeds DEF Contract!Next
<1>4. CASE \E a \in Apps : SoftDeleteApp(a)
  <2>1. PICK a \in Apps : SoftDeleteApp(a)
    BY <1>4
  <2>2. /\ a \notin deleted /\ InFlightOf(a) = {} /\ deleted' = deleted \cup {a}
        /\ UNCHANGED <<state, appOf, releases, current>>
    BY <2>1 DEF SoftDeleteApp, Live, Deletable, rowVars, birthVars
  <2>3. UNCHANGED <<Phase, Serves>>
    BY <2>2 DEF Phase, Serves, InFlight
  <2>4. Contract!Retire(a)
    BY <2>2, <2>3, PendingIsInFlight
    DEF Contract!Retire, Phase, Serves, StoreInv, LifeInv
  <2> QED BY <2>4 DEF Contract!Next
<1>5. CASE UNCHANGED <<state, appOf, releases, current, deleted>>
  BY <1>5 DEF Contract!vars, InFlight
<1>6. CASE \/ \E d \in Ids, p \in Paths, named \in BOOLEAN, img \in Ids \cup {0} :
                RecordBuildResult(d, p, named, img)
           \/ \E d \in Ids : ClaimNext(d) \/ ReleaseBuildingClaim(d)
  BY <1>5, <1>6 DEF RecordBuildResult, ClaimNext, ReleaseBuildingClaim, birthVars, appVars
<1>7. CASE \E a \in Apps, cfg \in Configs : SetConfig(a, cfg)
  BY <1>5, <1>7 DEF SetConfig, rowVars, birthVars
<1>8. CASE UNCHANGED storeVars
  BY <1>5, <1>8 DEF storeVars, rowVars, birthVars, appVars
<1> QED BY <1>1, <1>2, <1>3, <1>4, <1>6, <1>7, <1>8 DEF AnyCall

\* The deployment tables implement the contract: a deployment is settled once, an
\* app serves the deployment that succeeded last, and a deleted app accepts none.
THEOREM StoreImplementsContract == StoreSpec => ContractSpec
<1>1. StoreInv /\ [StoreNext]_storeVars => [Contract!Next]_(Contract!vars)
  BY StoreCalls, StepContract DEF StoreInv, LifeInv
<1> QED
  BY <1>1, InitContract, StoreInvariant, PTL DEF StoreSpec, ContractSpec, Contract!Spec

=============================================================================
