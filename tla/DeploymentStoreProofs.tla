------------------------ MODULE DeploymentStoreProofs ------------------------
(***************************************************************************)
(* What the transactions of DeploymentStore guarantee for every set of     *)
(* apps, uploads and configurations and every number of deployments.       *)
(***************************************************************************)
EXTENDS DeploymentStore, SequenceTheorems, TLAPS

(* What the lemmas are about: any transaction, with any argument its callers *)
(* may pass.  StoreNext is one such caller, the reconcile loop another.      *)

Inserts(a) == \E u \in Uploads \cup {NoUpload}, n \in Nat : CreateDeployment(a, u, n)

AnyCall ==
  \/ \E a \in Apps : Inserts(a)
  \/ \E d \in Ids, to \in States, why \in FailureReasons \cup {"none"} :
       (to = "failed" \/ why = "none") /\ Transition(d, to, why)
  \/ \E d \in Ids, cfg \in Configs : MarkHealthy(d, cfg)
  \/ \E d \in Ids, p \in Paths, named \in BOOLEAN, img \in Ids \cup {0} :
       RecordBuildResult(d, p, named, img)
  \/ \E d \in Ids : ClaimNext(d) \/ ReleaseBuildingClaim(d)
  \/ \E a \in Apps : SoftDeleteApp(a)
  \/ \E a \in Apps, cfg \in Configs : SetConfig(a, cfg)

\* The callers of StoreNext pass arguments of those types.
LEMMA StoreCalls == TypeOK /\ [StoreNext]_storeVars => [AnyCall]_storeVars
<1> SUFFICES ASSUME TypeOK, StoreNext PROVE AnyCall
  OBVIOUS
<1>1. CASE Deploy
  BY <1>1 DEF Deploy, AnyCall, Inserts
<1>2. CASE Rollback
  <2>1. PICK a \in Apps : \E n \in 1..Len(releases[a]) : CreateDeployment(a, NoUpload, n)
    BY <1>2 DEF Rollback, ReleaseNumbers
  <2>2. PICK n \in 1..Len(releases[a]) : CreateDeployment(a, NoUpload, n)
    BY <2>1
  <2>3. n \in Nat
    BY DEF TypeOK
  <2> QED BY <2>2, <2>3 DEF AnyCall, Inserts
<1>3. CASE Progress
  BY <1>3 DEF Progress, AnyCall
<1>4. CASE Fail
  BY <1>4, CodeAssumption DEF CodeAssumption, Fail, AnyCall, States, Terminal
<1>5. CASE Heal
  BY <1>5 DEF Heal, AnyCall
<1>6. CASE RecordBuild
  BY <1>6, EngineAssumption DEF EngineAssumption, RecordBuild, Paths, AnyCall
<1>7. CASE Claim \/ HandBack
  BY <1>7 DEF Claim, HandBack, AnyCall
<1>8. CASE Delete \/ Configure
  BY <1>8 DEF Delete, Configure, AnyCall
<1> QED BY <1>1, <1>2, <1>3, <1>4, <1>5, <1>6, <1>7, <1>8 DEF StoreNext

-----------------------------------------------------------------------------
(* Type correctness. *)

\* The initial tables have the columns' types.
LEMMA InitTypeOK == StoreInit => TypeOK
<1> SUFFICES ASSUME StoreInit PROVE TypeOK
  OBVIOUS
<1>1. created \in 0..MaxDeployments
  <2>1. created = 0
    BY DEF StoreInit
  <2> QED BY <2>1, BoundAssumption DEF BoundAssumption
<1>2. /\ events \in [Ids -> Seq(States)]
      /\ releases \in [Apps -> Seq(Release)]
  <2>1. \A S : <<>> \in Seq(S)
    BY EmptySeq
  <2>2. events = [d \in Ids |-> <<>>] /\ releases = [a \in Apps |-> <<>>]
    BY DEF StoreInit
  <2> QED BY <2>1, <2>2
<1>3. /\ state \in [Ids -> States \cup {"absent"}]
      /\ appOf \in [Ids -> Apps \cup {NoApp}]
      /\ upload \in [Ids -> Uploads \cup {NoUpload}]
      /\ source \in [Ids -> Nat]
      /\ reason \in [Ids -> Reasons]
      /\ path \in [Ids -> Paths]
      /\ digest \in [Ids -> Ids \cup {0}]
  BY DEF StoreInit, Reasons, Paths
<1>4. /\ current \in [Apps -> Nat]
      /\ config \in [Apps -> Configs]
  BY ConfigAssumption DEF ConfigAssumption, StoreInit
<1>5. claimed \subseteq Ids /\ job \subseteq Ids /\ deleted \subseteq Apps
  BY DEF StoreInit
<1> QED BY <1>1, <1>2, <1>3, <1>4, <1>5 DEF TypeOK

\* Logging a state to a row keeps its log a sequence of states.
LEMMA LoggedType ==
  ASSUME TypeOK, NEW d \in Ids, NEW to \in States
  PROVE  Logged(d, to) \in Seq(States)
<1>1. events[d] \in Seq(States)
  BY DEF TypeOK
<1> QED BY <1>1, AppendProperties DEF Logged

\* A row that can move is one the table holds, in one of its states.
LEMMA MovingRow ==
  ASSUME TypeOK, NEW d \in Ids, NEW to, CanMove(d, to)
  PROVE  to \in States /\ state[d] \in InFlightStates
  BY DEF TypeOK, CanMove, InFlight, Allowed, States, InFlightStates, Terminal

\* An accepted deployment keeps the columns' types.
LEMMA CreateTypeOK ==
  ASSUME TypeOK, NEW a \in Apps, NEW u \in Uploads \cup {NoUpload},
         NEW n \in Nat, CreateDeployment(a, u, n)
  PROVE  TypeOK'
<1> USE BoundAssumption DEF BoundAssumption, TypeOK
<1>1. created + 1 \in Ids
  BY DEF CreateDeployment, Ids
<1>2. n # 0 => releases[a][n].digest \in Ids
  <2>1. releases[a] \in Seq(Release)
    OBVIOUS
  <2>2. n \in 0..Len(releases[a])
    BY DEF CreateDeployment
  <2>3. n # 0 => releases[a][n] \in Release
    BY <2>1, <2>2, ElementOfSeq
  <2> QED BY <2>3 DEF Release
<1>3. /\ created' \in 0..MaxDeployments
      /\ appOf' \in [Ids -> Apps \cup {NoApp}]
      /\ upload' \in [Ids -> Uploads \cup {NoUpload}]
      /\ source' \in [Ids -> Nat]
  BY <1>1 DEF CreateDeployment, Ids
<1>4. digest' \in [Ids -> Ids \cup {0}]
  BY <1>1, <1>2 DEF CreateDeployment
<1>5. /\ state' \in [Ids -> States \cup {"absent"}]
      /\ reason' \in [Ids -> Reasons]
  BY DEF CreateDeployment, States, Terminal, InFlightStates, Queued, Reasons
<1>6. events' \in [Ids -> Seq(States)]
  <2>1. <<Queued>> \in Seq(States)
    BY DEF States, InFlightStates, Queued
  <2>2. \A d \in Ids : Logged(d, "cancelled") \in Seq(States)
    BY LoggedType DEF States, Terminal
  <2> QED BY <2>1, <2>2 DEF CreateDeployment
<1>7. UNCHANGED <<claimed, path, job, releases, current, config, deleted>>
  BY DEF CreateDeployment, appVars
<1> QED BY <1>3, <1>4, <1>5, <1>6, <1>7

\* So does a transition.
LEMMA TransitionTypeOK ==
  ASSUME TypeOK, NEW d \in Ids, NEW to, NEW why \in FailureReasons \cup {"none"},
         Transition(d, to, why)
  PROVE  TypeOK'
<1>1. to \in States
  BY MovingRow DEF Transition
<1>2. /\ state' \in [Ids -> States \cup {"absent"}]
      /\ events' \in [Ids -> Seq(States)]
  BY <1>1, LoggedType DEF Transition, ApplyTransition, TypeOK
<1>3. reason' \in [Ids -> Reasons]
  BY DEF Transition, TypeOK, Reasons
<1>4. UNCHANGED <<claimed, path, job, digest, birthVars, appVars>>
  BY DEF Transition
<1> QED BY <1>2, <1>3, <1>4 DEF TypeOK, birthVars, appVars

\* So does the transaction that ends a deployment healthy: the release it mints
\* has an image because the row has one.
LEMMA HealthyTypeOK ==
  ASSUME TypeOK, NEW d \in Ids, NEW cfg \in Configs, MarkHealthy(d, cfg)
  PROVE  TypeOK'
<1>1. /\ state' \in [Ids -> States \cup {"absent"}]
      /\ events' \in [Ids -> Seq(States)]
  BY MovingRow, LoggedType DEF MarkHealthy, ApplyTransition, TypeOK
<1>2. [dep |-> d, digest |-> digest[d], config |-> cfg] \in Release
  BY DEF MarkHealthy, HasImage, Release, TypeOK
<1>3. releases' \in [Apps -> Seq(Release)]
  <2>1. \A a \in Apps : releases[a] \in Seq(Release)
    BY DEF TypeOK
  <2>2. \A a \in Apps :
          Append(releases[a], [dep |-> d, digest |-> digest[d], config |-> cfg]) \in Seq(Release)
    BY <1>2, <2>1, AppendProperties
  <2> QED BY <2>2 DEF MarkHealthy, TypeOK
<1>4. current' \in [Apps -> Nat]
  <2>1. \A b \in Apps : b = appOf[d] => NewCurrent(d) \in Nat
    BY DEF NewCurrent, TypeOK
  <2> QED BY <2>1 DEF MarkHealthy, TypeOK
<1>5. config' \in [Apps -> Configs]
  BY DEF MarkHealthy, TypeOK
<1>6. UNCHANGED <<reason, claimed, path, job, digest, birthVars, deleted>>
  BY DEF MarkHealthy
<1> QED BY <1>1, <1>3, <1>4, <1>5, <1>6 DEF TypeOK, birthVars

\* Every transaction of the store keeps the columns' types.
LEMMA StepTypeOK == TypeOK /\ [AnyCall]_storeVars => TypeOK'
<1> SUFFICES ASSUME TypeOK, [AnyCall]_storeVars PROVE TypeOK'
  OBVIOUS
<1>1. CASE \E a \in Apps : Inserts(a)
  BY <1>1, CreateTypeOK DEF Inserts
<1>2. CASE \E d \in Ids, to \in States, why \in FailureReasons \cup {"none"} :
             Transition(d, to, why)
  BY <1>2, TransitionTypeOK
<1>3. CASE \E d \in Ids, cfg \in Configs : MarkHealthy(d, cfg)
  BY <1>3, HealthyTypeOK
<1>4. CASE \E d \in Ids, p \in Paths, named \in BOOLEAN, img \in Ids \cup {0} :
             RecordBuildResult(d, p, named, img)
  <2>1. PICK d \in Ids, p \in Paths, named \in BOOLEAN, img \in Ids \cup {0} :
          RecordBuildResult(d, p, named, img)
    BY <1>4
  <2>2. path' \in [Ids -> Paths]
    BY <2>1 DEF RecordBuildResult, TypeOK
  <2>3. digest' \in [Ids -> Ids \cup {0}]
    BY <2>1 DEF RecordBuildResult, TypeOK
  <2>4. job' \subseteq Ids
    BY <2>1 DEF RecordBuildResult, TypeOK
  <2>5. UNCHANGED <<state, reason, claimed, events, birthVars, appVars>>
    BY <2>1 DEF RecordBuildResult
  <2> QED BY <2>2, <2>3, <2>4, <2>5 DEF TypeOK, birthVars, appVars
<1>5. CASE \E d \in Ids : ClaimNext(d) \/ ReleaseBuildingClaim(d)
  BY <1>5 DEF ClaimNext, ReleaseBuildingClaim, TypeOK, birthVars, appVars
<1>6. CASE \E a \in Apps : SoftDeleteApp(a)
  BY <1>6 DEF SoftDeleteApp, TypeOK, rowVars, birthVars
<1>7. CASE \E a \in Apps, cfg \in Configs : SetConfig(a, cfg)
  BY <1>7 DEF SetConfig, TypeOK, rowVars, birthVars
<1>8. CASE UNCHANGED storeVars
  BY <1>8 DEF TypeOK, storeVars, rowVars, birthVars, appVars
<1> QED BY <1>1, <1>2, <1>3, <1>4, <1>5, <1>6, <1>7, <1>8 DEF AnyCall

\* Whatever calls the handlers and the loop make, in whatever order, every
\* column of the deployment tables holds what its schema allows.
THEOREM TypeCorrect == StoreSpec => []TypeOK
  BY InitTypeOK, StoreCalls, StepTypeOK, PTL DEF StoreSpec

-----------------------------------------------------------------------------
(* The life of a row.                                                      *)

\* Rows are inserted in id order and never taken away, and only an inserted
\* row has a state and an app.
Born ==
  \A d \in Ids :
    /\ d <= created => state[d] # "absent" /\ appOf[d] \in Apps
    /\ d > created  => state[d] = "absent" /\ appOf[d] = NoApp /\ reason[d] = "none"

\* What makes the invariants of the run inductive: a row in flight is told from
\* one that was never inserted, and a superseded row has already ended.
LifeInv ==
  /\ TypeOK
  /\ Born
  /\ InFlightIsNewest
  /\ DeletedAppIsQuiet
  /\ SupersededHasSuccessor

\* Nothing is in flight before the first call.
LEMMA InitLifeInv == StoreInit => LifeInv
<1> SUFFICES ASSUME StoreInit PROVE LifeInv
  OBVIOUS
<1>1. TypeOK
  BY InitTypeOK
<1>2. /\ created = 0 /\ deleted = {}
      /\ \A d \in Ids : state[d] = "absent" /\ appOf[d] = NoApp /\ reason[d] = "none"
  BY DEF StoreInit
<1>3. Born
  BY <1>2 DEF Born, Ids
<1>4. \A d \in Ids : ~InFlight(d)
  BY <1>2 DEF InFlight, InFlightStates
<1>5. InFlightIsNewest /\ DeletedAppIsQuiet /\ SupersededHasSuccessor
  BY <1>2, <1>4 DEF InFlightIsNewest, DeletedAppIsQuiet, SupersededHasSuccessor
<1> QED BY <1>1, <1>3, <1>5 DEF LifeInv

\* The store's transactions, seen from a row: an insert puts in the next one,
\* some move one that is in flight, and the others touch neither state nor app.
Moves(d) ==
  \E to \in States \ {"queued"} :
    /\ CanMove(d, to)
    /\ ApplyTransition(d, to)
    /\ reason' = reason \/ \E why \in FailureReasons \cup {"none"} :
                             reason' = [reason EXCEPT ![d] = why]
    /\ UNCHANGED <<claimed, path, job, digest, birthVars, deleted>>

Spares == UNCHANGED <<state, reason, events, birthVars>>

\* Every transaction is one of the three.
LEMMA StepShape ==
  ASSUME TypeOK, [AnyCall]_storeVars
  PROVE  \/ \E a \in Apps : Inserts(a)
         \/ \E d \in Ids : Moves(d)
         \/ /\ Spares
            /\ \/ deleted' = deleted
               \/ \E a \in Apps : Deletable(a) /\ deleted' = deleted \cup {a}
            /\ \A d \in Ids : (d \in claimed') # (d \in claimed) => InFlight(d)
<1> USE DEF Spares, birthVars, appVars, rowVars
<1>1. CASE \E a \in Apps : Inserts(a)
  BY <1>1
<1>2. CASE \E d \in Ids, to \in States, why \in FailureReasons \cup {"none"} :
             Transition(d, to, why)
  <2>1. PICK d \in Ids, to \in States, why \in FailureReasons \cup {"none"} :
          Transition(d, to, why)
    BY <1>2
  <2>2. to # "queued"
    BY <2>1 DEF Transition, CanMove, InFlight, Allowed, States, InFlightStates, Terminal
  <2>3. reason' = reason \/ reason' = [reason EXCEPT ![d] = why]
    BY <2>1 DEF Transition, TypeOK
  <2>4. Moves(d)
    BY <2>1, <2>2, <2>3 DEF Transition, Moves
  <2> QED BY <2>4
<1>3. CASE \E d \in Ids, cfg \in Configs : MarkHealthy(d, cfg)
  <2>1. PICK d \in Ids, cfg \in Configs : MarkHealthy(d, cfg)
    BY <1>3
  <2>2. Moves(d)
    BY <2>1 DEF MarkHealthy, Moves, States, Terminal
  <2> QED BY <2>2
<1>4. CASE \E d \in Ids, p \in Paths, named \in BOOLEAN, img \in Ids \cup {0} :
             RecordBuildResult(d, p, named, img)
  BY <1>4 DEF RecordBuildResult
<1>5. CASE \E d \in Ids : ClaimNext(d)
  <2>1. PICK d \in Ids : ClaimNext(d)
    BY <1>5
  <2>2. InFlight(d)
    BY <2>1 DEF ClaimNext, NextToClaim, Fresh, Claimable
  <2> QED BY <2>1, <2>2 DEF ClaimNext
<1>6. CASE \E d \in Ids : ReleaseBuildingClaim(d)
  <2>1. PICK d \in Ids : ReleaseBuildingClaim(d)
    BY <1>6
  <2>2. InFlight(d)
    BY <2>1 DEF ReleaseBuildingClaim, InFlight, InFlightStates
  <2> QED BY <2>1, <2>2 DEF ReleaseBuildingClaim
<1>7. CASE \E a \in Apps : SoftDeleteApp(a)
  BY <1>7 DEF SoftDeleteApp
<1>8. CASE \E a \in Apps, cfg \in Configs : SetConfig(a, cfg)
  BY <1>8 DEF SetConfig
<1>9. CASE UNCHANGED storeVars
  BY <1>9 DEF storeVars
<1> QED BY <1>1, <1>2, <1>3, <1>4, <1>5, <1>6, <1>7, <1>8, <1>9 DEF AnyCall

\* An insert keeps the invariant: it cancels the app's older rows as it puts the
\* newest one in flight, and asks whether the app is deleted.
LEMMA InsertKeepsLife ==
  ASSUME LifeInv, TypeOK', NEW a \in Apps, Inserts(a)
  PROVE  LifeInv'
<1> DEFINE new == created + 1
<1>1. PICK u \in Uploads \cup {NoUpload}, n \in Nat : CreateDeployment(a, u, n)
  BY DEF Inserts
<1>2. /\ new \in Ids /\ created \in Nat /\ created' = new
      /\ deleted' = deleted /\ a \notin deleted
  BY <1>1, BoundAssumption
  DEF BoundAssumption, LifeInv, TypeOK, CreateDeployment, Live, Ids, appVars
<1>3. /\ state'[new] = "queued" /\ appOf'[new] = a
      /\ \A e \in Ids \ {new} : appOf'[e] = appOf[e]
  BY <1>1, <1>2 DEF CreateDeployment, Queued, LifeInv, TypeOK
<1>4. \A e \in Ids \ {new} :
        IF e \in InFlightOf(a)
        THEN state'[e] = "cancelled" /\ reason'[e] = "superseded"
        ELSE state'[e] = state[e] /\ reason'[e] = reason[e]
  BY <1>1, <1>2 DEF CreateDeployment, Superseded
<1>5. state[new] = "absent" /\ reason[new] = "none" /\ new \notin InFlightOf(a)
  BY <1>2 DEF LifeInv, Born, InFlightOf, InFlight, InFlightStates
<1>6. reason'[new] = "none"
  BY <1>1, <1>2, <1>5 DEF CreateDeployment, Superseded
<1>7. \A e \in Ids : (e <= new => e = new \/ e <= created) /\ (e > new => e > created /\ e # new)
  BY <1>2 DEF Ids
<1>8. Born'
  BY <1>2, <1>3, <1>4, <1>6, <1>7 DEF Born, LifeInv, InFlightOf, InFlight, InFlightStates
<1>9. \A e \in Ids \ {new} : InFlight(e)' => InFlight(e) /\ e \notin InFlightOf(a)
  BY <1>4 DEF InFlight, InFlightStates
<1>10. InFlightIsNewest'
  <2> SUFFICES ASSUME NEW d \in Ids, NEW e \in Ids, InFlight(d)', appOf'[e] = appOf'[d]
               PROVE  e <= d
    BY DEF InFlightIsNewest
  <2>1. CASE d = new
    <3>1. appOf'[e] # NoApp
      BY <2>1, <1>3, AppAssumption DEF AppAssumption
    <3>2. ~(e > created')
      BY <3>1, <1>8 DEF Born
    <3> QED BY <3>2, <2>1, <1>2 DEF Ids
  <2>2. CASE d # new /\ e # new
    BY <2>2, <1>3, <1>9 DEF LifeInv, InFlightIsNewest
  <2>3. CASE d # new /\ e = new
    BY <2>3, <1>3, <1>9 DEF InFlightOf
  <2> QED BY <2>1, <2>2, <2>3
<1>11. DeletedAppIsQuiet'
  <2> SUFFICES ASSUME NEW b \in deleted, NEW d \in Ids, appOf'[d] = b, InFlight(d)'
               PROVE  FALSE
    BY <1>2 DEF DeletedAppIsQuiet, InFlightOf
  <2>1. d # new
    BY <1>2, <1>3
  <2> QED BY <2>1, <1>3, <1>9 DEF LifeInv, DeletedAppIsQuiet, InFlightOf
<1>12. SupersededHasSuccessor'
  <2> SUFFICES ASSUME NEW d \in Ids, reason'[d] = "superseded"
               PROVE  state'[d] = "cancelled" /\ \E e \in Ids : e > d /\ appOf'[e] = appOf'[d]
    BY DEF SupersededHasSuccessor, After
  <2>1. d # new
    BY <1>6
  <2>2. CASE d \in InFlightOf(a)
    <3>1. new > d
      BY <2>1, <2>2, <1>2 DEF LifeInv, Born, InFlightOf, InFlight, InFlightStates, Ids
    <3> QED BY <2>1, <2>2, <3>1, <1>2, <1>3, <1>4 DEF InFlightOf
  <2>3. CASE d \notin InFlightOf(a)
    <3>1. PICK e \in Ids : e > d /\ appOf[e] = appOf[d]
      BY <2>1, <2>3, <1>4 DEF LifeInv, SupersededHasSuccessor, After
    <3>2. state'[d] = "cancelled"
      BY <2>1, <2>3, <1>4, <1>5 DEF LifeInv, SupersededHasSuccessor
    <3>3. e # new
      BY <3>1, <3>2, <2>1, <2>3, <1>2, <1>4, AppAssumption
      DEF LifeInv, Born, AppAssumption, Ids
    <3> QED BY <3>1, <3>2, <3>3, <2>1, <1>3
  <2> QED BY <2>2, <2>3
<1> QED BY <1>8, <1>10, <1>11, <1>12 DEF LifeInv

\* A move keeps it: the row was in flight, so it was not superseded.
LEMMA MoveKeepsLife ==
  ASSUME LifeInv, TypeOK', NEW d \in Ids, Moves(d)
  PROVE  LifeInv'
<1>1. PICK to \in States \ {"queued"} :
        /\ CanMove(d, to)
        /\ ApplyTransition(d, to)
        /\ reason' = reason \/ \E why \in FailureReasons \cup {"none"} :
                                 reason' = [reason EXCEPT ![d] = why]
        /\ UNCHANGED <<claimed, path, job, digest, birthVars, deleted>>
  BY DEF Moves
<1>2. InFlight(d) /\ state'[d] = to /\ \A e \in Ids \ {d} : state'[e] = state[e]
  BY <1>1 DEF CanMove, ApplyTransition, LifeInv, TypeOK
<1>3. created' = created /\ appOf' = appOf /\ deleted' = deleted
  BY <1>1 DEF birthVars
<1>4. /\ \A e \in Ids \ {d} : reason'[e] = reason[e]
      /\ reason'[d] = reason[d] \/ reason'[d] \in FailureReasons \cup {"none"}
  BY <1>1 DEF LifeInv, TypeOK
<1>5. reason[d] # "superseded"
  BY <1>2 DEF LifeInv, SupersededHasSuccessor, InFlight, InFlightStates
<1>6. reason'[d] # "superseded"
  BY <1>4, <1>5 DEF FailureReasons
<1>7. \A e \in Ids : InFlight(e)' => InFlight(e)
  BY <1>2 DEF InFlight
<1>8. state[d] # "absent" /\ state'[d] # "absent"
  BY <1>2 DEF InFlight, InFlightStates, States, Terminal
<1>9. d <= created
  BY <1>8 DEF LifeInv, Born, TypeOK, Ids
<1>10. Born'
  BY <1>2, <1>3, <1>4, <1>8, <1>9 DEF LifeInv, Born, TypeOK, Ids
<1>11. InFlightIsNewest' /\ DeletedAppIsQuiet'
  BY <1>3, <1>7 DEF LifeInv, InFlightIsNewest, DeletedAppIsQuiet, InFlightOf
<1>12. SupersededHasSuccessor'
  BY <1>2, <1>3, <1>4, <1>6 DEF LifeInv, SupersededHasSuccessor, After
<1> QED BY <1>10, <1>11, <1>12 DEF LifeInv

\* Every transaction keeps the invariant.
LEMMA StepLifeInv == LifeInv /\ [AnyCall]_storeVars => LifeInv'
<1> SUFFICES ASSUME LifeInv, [AnyCall]_storeVars PROVE LifeInv'
  OBVIOUS
<1>1. TypeOK'
  BY StepTypeOK DEF LifeInv
<1>2. CASE \E a \in Apps : Inserts(a)
  BY <1>1, <1>2, InsertKeepsLife
<1>3. CASE \E d \in Ids : Moves(d)
  BY <1>1, <1>3, MoveKeepsLife
<1>4. CASE /\ Spares
           /\ \/ deleted' = deleted
              \/ \E a \in Apps : Deletable(a) /\ deleted' = deleted \cup {a}
  BY <1>1, <1>4
  DEF LifeInv, Spares, birthVars, Born, InFlightIsNewest, DeletedAppIsQuiet,
      SupersededHasSuccessor, After, Deletable, InFlightOf, InFlight
<1> QED BY <1>2, <1>3, <1>4, StepShape DEF LifeInv

\* The inductive invariant holds throughout.
LEMMA LifeInvariant == StoreSpec => []LifeInv
<1>1. LifeInv /\ [StoreNext]_storeVars => LifeInv'
  BY StoreCalls, StepLifeInv DEF LifeInv
<1> QED BY <1>1, InitLifeInv, PTL DEF StoreSpec

\* A deployment in flight is always the newest of its app: CreateDeployment
\* supersedes in the transaction that inserts, so two racing deploys never leave
\* two rows in flight.
THEOREM OneInFlight == StoreSpec => []InFlightIsNewest
  BY LifeInvariant, PTL DEF LifeInv

\* Whatever the order of delete_app and deploy_app, a deleted app has nothing in
\* flight for the loop to build.
THEOREM DeletedIsQuiet == StoreSpec => []DeletedAppIsQuiet
  BY LifeInvariant, PTL DEF LifeInv

\* A superseded row has ended and has a later deployment of its app to name in
\* superseded_by.
THEOREM SupersededIsFollowed == StoreSpec => []SupersededHasSuccessor
  BY LifeInvariant, PTL DEF LifeInv

-----------------------------------------------------------------------------
(* A row that ended.                                                       *)

\* No transaction touches a row that ended: an insert cancels rows in flight and
\* writes one that was not there, and every other write asks for a row in flight.
LEMMA EndedStep ==
  ASSUME LifeInv, [AnyCall]_storeVars, NEW e \in Ids, state[e] \in Terminal
  PROVE  /\ state'[e] = state[e] /\ reason'[e] = reason[e]
         /\ events'[e] = events[e] /\ (e \in claimed') = (e \in claimed)
<1>1. ~InFlight(e) /\ state[e] # "absent"
  BY DEF InFlight, InFlightStates, Terminal
<1>2. CASE \E a \in Apps : Inserts(a)
  <2>1. PICK a \in Apps, u \in Uploads \cup {NoUpload}, n \in Nat : CreateDeployment(a, u, n)
    BY <1>2 DEF Inserts
  <2>2. e \notin Superseded(a)
    BY <1>1 DEF Superseded, InFlightOf
  <2>3. e # created + 1
    BY <1>1 DEF LifeInv, TypeOK, Born
  <2> QED BY <2>1, <2>2, <2>3 DEF CreateDeployment
<1>3. CASE \E d \in Ids : Moves(d)
  <2>1. PICK d \in Ids : Moves(d)
    BY <1>3
  <2>2. e # d
    BY <1>1, <2>1 DEF Moves, CanMove
  <2> QED BY <2>1, <2>2 DEF Moves, ApplyTransition, LifeInv, TypeOK
<1>4. CASE Spares /\ \A d \in Ids : (d \in claimed') # (d \in claimed) => InFlight(d)
  BY <1>1, <1>4 DEF Spares
<1> QED BY <1>2, <1>3, <1>4, StepShape DEF LifeInv

\* Whichever of two racing writers comes second, the end a deployment came to,
\* its reason, its log and its claim stay as the first one left them.
THEOREM EndIsFinal == StoreSpec => EndedStaysEnded
<1>1. LifeInv /\ [StoreNext]_storeVars
        => [\A d \in Ids : state[d] \in Terminal =>
              /\ state'[d] = state[d]
              /\ reason'[d] = reason[d]
              /\ events'[d] = events[d]
              /\ (d \in claimed') = (d \in claimed)]_storeVars
  BY StoreCalls, EndedStep DEF LifeInv
<1> QED BY <1>1, LifeInvariant, PTL DEF StoreSpec, EndedStaysEnded
=============================================================================
