----------------------------- MODULE DriveProofs -----------------------------
(***************************************************************************)
(* A drive works from a copy of its row taken minutes ago.  What it may    *)
(* rely on all the same, and what the releases it mints are worth, for     *)
(* every instance of Reconciler.                                           *)
(***************************************************************************)
EXTENDS ReconcilerProofs

(* What a copy is still good for. *)

\* The row was superseded since, or it is as the copy has it.
Fits(r) ==
  \/ state[r.id] = "cancelled"
  \/ state[r.id] = r.state /\ digest[r.id] = r.digest

\* The copy's app has a deployment in flight, that one or the one that superseded
\* it: so it cannot be deleted.
Tended(r) == InFlightOf(appOf[r.id]) # {}

HandFits ==
  pc \in DriveSteps =>
    /\ \/ state[row.id] = "cancelled"
       \/ /\ state[row.id] = row.state
          /\ pc # "record_image" => digest[row.id] = row.digest
    /\ Tended(row)
    /\ pc = "record_image" => row.digest = row.id

\* The sweep drives rows it listed before the drives that came first: it stays
\* sound because no two of them are of one app.
SweepFits ==
  loop = "sweep" =>
    \A r \in Ahead :
      /\ Fits(r) /\ Tended(r)
      /\ \A s \in Ahead : appOf[r.id] = appOf[s.id] => r = s
      /\ pc \in WorkSteps => appOf[r.id] # appOf[row.id]

DriveInv == LoopInv /\ HandFits /\ SweepFits

-----------------------------------------------------------------------------
(* What one step does to a row.                                            *)

\* A row that is there keeps its birth; its state and its image change only under
\* a step of its own drive, or when it is superseded.
LEMMA RowFate ==
  ASSUME LoopInv, [Next]_vars, NEW d \in Ids, d <= created
  PROVE  /\ appOf'[d] = appOf[d] /\ upload'[d] = upload[d] /\ source'[d] = source[d]
         /\ \/ state'[d] = state[d] /\ digest'[d] = digest[d]
            \/ StoreCall /\ InFlight(d) /\ state'[d] = "cancelled" /\ digest'[d] = digest[d]
            \/ /\ d = row.id /\ ~StoreCall
               /\ Start \/ Pushed \/ Promote \/ RecordImage \/ Mark \/ RecordFailure
<1>1. appOf'[d] = appOf[d] /\ upload'[d] = upload[d] /\ source'[d] = source[d]
  BY LoopCalls, StepBirths DEF LoopInv, StoreInv
<1>2. CASE UNCHANGED <<state, digest>>
  BY <1>1, <1>2
<1>3. CASE StoreCall
  <2>1. CASE \E a \in Apps : Inserts(a)
    <3>1. PICK a \in Apps, new \in Ids : InsertsRow(a, new)
      BY <2>1, InsertsOneRow
    <3>2. d # new
      BY <3>1 DEF InsertsRow, Ids, LoopInv, StoreInv, LifeInv, TypeOK
    <3> QED BY <1>1, <1>3, <3>1, <3>2 DEF InsertsRow, InFlightOf
  <2> QED BY <1>2, <1>3, <2>1, HandlerCalls
<1>4. CASE (Start \/ Pushed \/ Promote \/ Mark \/ RecordFailure) /\ d # row.id
  <2>1. digest' = digest /\ (state' = state \/ \E to : state' = [state EXCEPT ![row.id] = to])
    BY <1>4, MovingSteps DEF Advances, KeepsRows, MovesRow
  <2> QED BY <1>1, <1>4, <2>1 DEF LoopInv, StoreInv, LifeInv, TypeOK
<1>5. CASE RecordImage /\ d # row.id
  BY <1>1, <1>5 DEF RecordImage, RecordBuildResult, storeVars, rowVars, LoopInv, StoreInv,
     LifeInv, TypeOK
<1> QED BY <1>1, <1>2, <1>3, <1>4, <1>5, QuietSteps

\* An app keeps a deployment in flight through every step but the end of its own.
LEMMA TendedKept ==
  ASSUME LoopInv, [Next]_vars, NEW a \in Apps, InFlightOf(a) # {},
         (Mark \/ RecordFailure) => appOf[row.id] # a
  PROVE  InFlightOf(a)' # {}
<1>1. PICK d \in Ids : appOf[d] = a /\ InFlight(d)
  BY DEF InFlightOf
<1>2. d <= created
  BY <1>1, BoundAssumption
  DEF BoundAssumption, InFlight, InFlightStates, LoopInv, StoreInv, LifeInv, Born, TypeOK, Ids
<1>3. appOf'[d] = a
  BY <1>1, <1>2, RowFate
<1>4. CASE state'[d] = state[d]
  BY <1>1, <1>3, <1>4 DEF InFlightOf, InFlight
<1>5. CASE StoreCall /\ state'[d] # state[d]
  <2>1. \E b \in Apps : Inserts(b)
    BY <1>5, HandlerCalls
  <2>2. PICK b \in Apps, new \in Ids : InsertsRow(b, new)
    BY <2>1, InsertsOneRow
  <2>3. d # new
    BY <1>2, <2>2 DEF InsertsRow, Ids, LoopInv, StoreInv, LifeInv, TypeOK
  <2>4. b = a /\ appOf'[new] = a /\ state'[new] = "queued"
    BY <1>1, <1>5, <2>2, <2>3 DEF InsertsRow, InFlightOf
  <2> QED BY <2>4 DEF InFlightOf, InFlight, InFlightStates
<1>6. CASE d = row.id /\ (Start \/ Pushed \/ Promote)
  <2>1. state'[d] \in InFlightStates \/ state' = state
    BY <1>6, MovingSteps
    DEF Advances, KeepsRows, MovesRow, InFlightStates, LoopInv, StoreInv, LifeInv, TypeOK
  <2> QED BY <1>1, <1>3, <2>1 DEF InFlightOf, InFlight
<1>7. CASE RecordImage
  BY <1>4, <1>7 DEF RecordImage, RecordBuildResult, storeVars, rowVars
<1>8. CASE d = row.id /\ (Mark \/ RecordFailure)
  BY <1>1, <1>8
<1> QED BY <1>2, <1>4, <1>5, <1>6, <1>7, <1>8, RowFate

-----------------------------------------------------------------------------
(* The row in hand.                                                        *)

\* How a drive gets to its next step: it starts on a row the sweep listed or the
\* loop claimed; its row moves; it learns an image, or records it; or nothing it
\* relies on changes but under a handler's call.
LEMMA DriveGoesOn ==
  ASSUME LoopInv, [Next]_vars, pc' \in DriveSteps
  PROVE  \/ /\ pc' = "drive" /\ UNCHANGED <<state, digest>>
            /\ \/ \E r \in listing : Sweep /\ IsNext(r) /\ row' = r
               \/ \E d \in Ids : InFlight(d) /\ row' = RowOf(d)
         \/ /\ pc \in {"start", "pushed", "promote"} /\ pc' \in {"detect", "gate"}
            /\ \E to \in {"building", "pushing", "deploying"} :
                 MovesRow(to) /\ row' = [row EXCEPT !.state = to]
         \/ /\ pc \in DriveSteps /\ pc' = "record_image"
            /\ row' = [row EXCEPT !.digest = row.id] /\ UNCHANGED <<state, digest>>
         \/ /\ pc = "record_image" /\ pc' = "promote" /\ row' = row /\ state' = state
            /\ digest' = [digest EXCEPT ![row.id] = IF row.digest = 0 THEN @ ELSE row.digest]
         \/ /\ pc \in DriveSteps /\ (pc' = "record_image" <=> pc = "record_image")
            /\ row'.id = row.id /\ row'.state = row.state /\ row'.digest = row.digest
            /\ UNCHANGED <<state, digest>> \/ StoreCall
<1> USE DEF storeVars, rowVars
<1>1. /\ {"drive", "gate", "start", "resolve", "record_image", "promote", "config"}
            \subseteq DriveSteps
      /\ BuildSteps \subseteq DriveSteps /\ ComposeSteps \subseteq DriveSteps
      /\ {"down", "sweep", "idle", "recover", "hand_back", "expire", "claim", "failing",
          "record", "cleanup"} \cap DriveSteps = {}
  BY DEF DriveSteps, BuildSteps, ComposeSteps
<1>2. row \in RowType /\ loop \in {"sweep", "idle", "recover", "expire", "claim"}
  BY DEF LoopInv, Memory
<1>3. CASE StartSweep \/ StartTick
  BY <1>1, <1>3 DEF StartSweep, StartTick, List
<1>4. CASE Sweep
  <2>1. \E r \in listing : IsNext(r) /\ row' = r /\ pc' = "drive"
    BY <1>1, <1>4 DEF Sweep
  <2> QED BY <1>4, <2>1 DEF Sweep
<1>5. CASE Recover \/ Expire
  BY <1>1, <1>5 DEF Recover, Expire
<1>6. CASE ReleaseClaim \/ Cleanup
  BY <1>1, <1>2, <1>6 DEF ReleaseClaim, Cleanup, Return, Forget
<1>7. CASE ClaimRow
  <2>1. PICK d \in Ids : ClaimNext(d) /\ row' = RowOf(d) /\ pc' = "drive"
    BY <1>1, <1>7 DEF ClaimRow
  <2>2. InFlight(d)
    BY <2>1 DEF ClaimNext, NextToClaim, Fresh, Claimable
  <2>3. UNCHANGED <<state, digest>>
    BY <2>1 DEF ClaimNext
  <2> QED BY <2>1, <2>2, <2>3
<1>8. CASE Drive \/ Gate
  <2>1. pc' # "record_image"
    <3>1. CASE Drive
      BY <3>1 DEF Drive
    <3>2. CASE Gate
      <4>1. pc \in DriveSteps
        BY <1>1, <3>2 DEF Gate
      <4>2. row.state \in InFlightStates
        BY <4>1 DEF LoopInv, LoopFacts, Known, Copy
      <4> QED BY <3>2, <4>2 DEF Gate, Goto, Abort, InFlightStates
    <3> QED BY <1>8, <3>1, <3>2
  <2> QED BY <1>1, <1>8, <2>1 DEF Drive, Gate, Goto, Abort
<1>9. CASE Detect \/ Mint \/ Create \/ Credential
  BY <1>1, <1>2, <1>9 DEF Detect, Mint, Create, Credential, Goto, Abort, BuildSteps, RowType
<1>10. CASE RecordStart
  <2>1. UNCHANGED <<state, digest>>
    BY <1>10 DEF RecordStart, RecordBuildResult, LoopInv, StoreInv, LifeInv, TypeOK
  <2> QED BY <1>1, <1>2, <1>10, <2>1 DEF RecordStart, BuildSteps, RowType
<1>11. CASE AwaitBuild \/ WaitBuild \/ WaitReady
  BY <1>1, <1>11 DEF AwaitBuild, WaitBuild, WaitReady, Wait, Goto, Abort, BuildSteps, ComposeSteps
<1>12. CASE Start \/ Pushed \/ Promote
  BY <1>1, <1>12, MovingSteps DEF Advances, Start, Pushed, Promote, BuildSteps
<1>13. CASE Resolve
  BY <1>1, <1>13 DEF Resolve, Abort
<1>14. CASE RecordImage
  BY <1>1, <1>14 DEF RecordImage, RecordBuildResult, Goto, Abort
<1>15. CASE ReadConfig \/ Prepare \/ ApplySecret \/ Apply \/ AwaitReady
  BY <1>1, <1>15 DEF ReadConfig, Prepare, ApplySecret, Apply, Write, AwaitReady, Goto, Abort,
     ComposeSteps
<1>16. CASE Mark \/ RecordFailure
  BY <1>1, <1>16, MovingSteps
<1>17. CASE StopBuild
  BY <1>1, <1>17 DEF StopBuild
<1>18. CASE ReapOrphanNamespaces \/ StoreCall \/ TearDown \/ SetDisabled \/ SweepSuspended
            \/ Scale \/ JobStep \/ Rollout \/ BudgetRunsOut \/ Shutdown \/ UNCHANGED vars
  BY <1>18 DEF ReapOrphanNamespaces, StoreCall, TearDown, SetDisabled, SweepSuspended, Scale,
     JobStep, Rollout, BudgetRunsOut, Shutdown, vars, loopVars
<1>19. CASE Crash \/ Exit
  BY <1>1, <1>19 DEF Crash, Exit, Die, Forget
<1> QED
  BY <1>3, <1>4, <1>5, <1>6, <1>7, <1>8, <1>9, <1>10, <1>11, <1>12, <1>13, <1>14, <1>15,
     <1>16, <1>17, <1>18, <1>19 DEF Next, LoopStep

\* The copy in hand still fits its row after every step.
LEMMA StepHandFits == DriveInv /\ [Next]_vars => HandFits'
<1> SUFFICES ASSUME DriveInv, [Next]_vars, pc' \in DriveSteps
             PROVE  /\ \/ state'[row'.id] = "cancelled"
                       \/ /\ state'[row'.id] = row'.state
                          /\ pc' # "record_image" => digest'[row'.id] = row'.digest
                    /\ Tended(row)'
                    /\ pc' = "record_image" => row'.digest = row'.id
  BY DEF HandFits
<1>1. LoopInv /\ row \in RowType
  BY DEF DriveInv, LoopInv, Memory
<1>2. ~Mark /\ ~RecordFailure
  BY <1>1, MovingSteps DEF DriveSteps, BuildSteps, ComposeSteps
<1>3. \A d \in Ids : d <= created /\ InFlightOf(appOf[d]) # {}
        => appOf'[d] = appOf[d] /\ InFlightOf(appOf[d])' # {}
  <2> SUFFICES ASSUME NEW d \in Ids, d <= created, InFlightOf(appOf[d]) # {}
               PROVE  appOf'[d] = appOf[d] /\ InFlightOf(appOf[d])' # {}
    OBVIOUS
  <2>1. PICK a \in Apps : a = appOf[d]
    BY <1>1 DEF LoopInv, StoreInv, LifeInv, Born
  <2>2. appOf'[d] = a
    BY <1>1, <2>1, RowFate
  <2>3. InFlightOf(a)' # {}
    BY <1>1, <1>2, <2>1, TendedKept
  <2> QED BY <2>1, <2>2, <2>3 DEF InFlightOf
<1>4. pc \in DriveSteps => row.id \in Ids /\ row.id <= created
  BY <1>1, BoundAssumption
  DEF BoundAssumption, LoopInv, LoopFacts, Known, WorkSteps, StoreInv, LifeInv, TypeOK, Ids
<1>5. ASSUME pc' = "drive", UNCHANGED <<state, digest>>, NEW r \in listing, Sweep, IsNext(r), row' = r
      PROVE  (Fits(r)' /\ Tended(r)')
  <2>1. Fits(r) /\ Tended(r)
    BY <1>5 DEF DriveInv, SweepFits, IsNext, LoopInv, LoopFacts, Sweep
  <2>2. r.id \in Ids /\ r.id <= created
    BY <1>1, BoundAssumption
    DEF BoundAssumption, LoopInv, LoopFacts, Copy, StoreInv, LifeInv, TypeOK, Ids
  <2> QED BY <1>3, <1>5, <2>1, <2>2 DEF Fits, Tended, InFlightOf
<1>6. ASSUME pc' = "drive", UNCHANGED <<state, digest>>, NEW d \in Ids, InFlight(d), row' = RowOf(d)
      PROVE  (Fits(row)' /\ Tended(row)')
  <2>1. row'.id = d /\ Copy(RowOf(d))
    BY <1>1, <1>6, AnsweredRow
  <2>2. d <= created
    BY <1>1, <2>1, <1>6, BoundAssumption
    DEF BoundAssumption, Copy, LoopInv, StoreInv, LifeInv, TypeOK, Ids
  <2>3. InFlightOf(appOf[d]) # {}
    BY <1>6 DEF InFlightOf
  <2> QED BY <1>3, <1>6, <2>1, <2>2, <2>3 DEF Fits, Tended, RowOf, InFlightOf
<1>7. ASSUME pc \in DriveSteps, row'.id = row.id
      PROVE  Tended(row)'
  BY <1>3, <1>4, <1>7 DEF DriveInv, HandFits, Tended, InFlightOf
<1>8. CASE /\ pc \in {"start", "pushed", "promote"} /\ pc' \in {"detect", "gate"}
           /\ \E to \in {"building", "pushing", "deploying"} :
                MovesRow(to) /\ row' = [row EXCEPT !.state = to]
  <2>1. PICK to \in {"building", "pushing", "deploying"} :
           MovesRow(to) /\ row' = [row EXCEPT !.state = to]
    BY <1>8
  <2>2. row'.id = row.id /\ row'.state = to /\ row'.digest = row.digest
    BY <1>1, <2>1 DEF RowType
  <2>6. row.id \in Ids
    BY <1>4, <1>8 DEF DriveSteps, BuildSteps
  <2>3. state'[row.id] = to /\ digest' = digest /\ state[row.id] # "cancelled"
    BY <1>1, <2>1, <2>6
    DEF MovesRow, InFlight, InFlightStates, LoopInv, StoreInv, LifeInv, TypeOK
  <2>4. pc # "record_image" /\ pc \in DriveSteps
    BY <1>8 DEF DriveSteps, BuildSteps
  <2>5. digest[row.id] = row.digest
    BY <2>3, <2>4 DEF DriveInv, HandFits
  <2> QED BY <1>7, <1>8, <2>2, <2>3, <2>4, <2>5
<1>9. CASE /\ pc \in DriveSteps /\ pc' = "record_image"
           /\ row' = [row EXCEPT !.digest = row.id] /\ UNCHANGED <<state, digest>>
  <2>1. row'.id = row.id /\ row'.state = row.state /\ row'.digest = row.id
    BY <1>1, <1>9 DEF RowType
  <2> QED BY <1>7, <1>9, <2>1 DEF DriveInv, HandFits
<1>10. CASE /\ pc = "record_image" /\ pc' = "promote" /\ row' = row /\ state' = state
            /\ digest' = [digest EXCEPT ![row.id] = IF row.digest = 0 THEN @ ELSE row.digest]
  <2>1. pc \in DriveSteps /\ row.digest = row.id /\ row.id # 0
    BY <1>4, <1>10 DEF DriveInv, HandFits, DriveSteps, Ids
  <2>2. digest'[row.id] = row.digest
    BY <1>1, <1>4, <1>10, <2>1 DEF LoopInv, StoreInv, LifeInv, TypeOK
  <2> QED BY <1>7, <1>10, <2>1, <2>2 DEF DriveInv, HandFits
<1>11. CASE /\ pc \in DriveSteps /\ (pc' = "record_image" <=> pc = "record_image")
            /\ row'.id = row.id /\ row'.state = row.state /\ row'.digest = row.digest
            /\ UNCHANGED <<state, digest>> \/ StoreCall
  <2>1. /\ state'[row.id] = state[row.id] \/ state'[row.id] = "cancelled"
        /\ digest'[row.id] = digest[row.id]
    BY <1>1, <1>4, <1>11, RowFate
  <2> QED BY <1>7, <1>11, <2>1 DEF DriveInv, HandFits
<1> QED
  BY <1>1, <1>5, <1>6, <1>8, <1>9, <1>10, <1>11, DriveGoesOn DEF Fits

-----------------------------------------------------------------------------
(* The rows the sweep has still to come to.                                *)

\* How the sweep's pass goes on: it lists, takes the next row, forgets everything,
\* or stays where it is while the row in hand is driven.
LEMMA SweepGoesOn ==
  ASSUME LoopInv, [Next]_vars, loop' = "sweep"
  PROVE  \/ listing' = {}
         \/ listing' = InFlightRows /\ at' = 1 /\ pc' = "sweep" /\ UNCHANGED storeVars
         \/ /\ loop = "sweep" /\ pc' = "drive" /\ UNCHANGED <<storeVars, listing>>
            /\ \E r \in listing : IsNext(r) /\ row' = r /\ at' = r.id + 1
         \/ /\ loop = "sweep" /\ UNCHANGED <<listing, at>>
            /\ pc' \in WorkSteps => pc \in WorkSteps /\ row'.id = row.id
<1>1. DriveSteps \subseteq WorkSteps /\ {"hand_back", "failing", "record", "cleanup"} \subseteq WorkSteps
      /\ {"drive", "gate", "start", "detect", "mint", "create", "credential", "record_start",
          "await", "wait_build", "pushed", "resolve", "record_image", "promote", "config",
          "prepare", "secret", "apply", "ready", "wait_ready", "mark"} \subseteq DriveSteps
      /\ {"down", "sweep", "idle", "recover", "expire", "claim"} \cap WorkSteps = {}
  BY DEF WorkSteps, DriveSteps, BuildSteps, ComposeSteps
<1>2. row \in RowType
  BY DEF LoopInv, Memory
<1> USE DEF around, passVars
<1>3. CASE StartSweep \/ StartTick
  BY <1>3 DEF StartSweep, StartTick, List
<1>4. CASE Sweep
  BY <1>4 DEF Sweep
<1>5. CASE Recover \/ Expire
  BY <1>5 DEF Recover, Expire, LoopInv, LoopFacts
<1>6. CASE ReleaseClaim \/ Cleanup
  BY <1>1, <1>6 DEF ReleaseClaim, Cleanup, Return, Forget
<1>7. CASE ClaimRow
  BY <1>7 DEF ClaimRow
<1>8. CASE Drive \/ Gate \/ Mint \/ Create \/ Credential \/ AwaitBuild \/ WaitBuild
           \/ ReadConfig \/ Prepare \/ ApplySecret \/ Apply \/ AwaitReady \/ WaitReady
  <2>1. pc \in WorkSteps
    BY <1>1, <1>8 DEF Drive, Gate, Mint, Create, Credential, AwaitBuild, WaitBuild, ReadConfig,
       Prepare, ApplySecret, Apply, AwaitReady, WaitReady, Wait
  <2>2. UNCHANGED <<loop, row, listing, at>>
    BY <1>8 DEF Drive, Gate, Mint, Create, Credential, AwaitBuild, WaitBuild, ReadConfig,
       Prepare, ApplySecret, Apply, Write, AwaitReady, WaitReady, Wait, Goto, Abort
  <2> QED BY <2>1, <2>2
<1>9. CASE Start \/ Detect \/ RecordStart \/ Pushed \/ Resolve \/ RecordImage \/ Promote \/ Mark
           \/ StopBuild
  <2>1. pc \in WorkSteps
    BY <1>1, <1>9 DEF Start, Detect, RecordStart, Pushed, Resolve, RecordImage, Promote, Mark,
       StopBuild
  <2>2. UNCHANGED <<loop, listing, at>> /\ row'.id = row.id
    BY <1>2, <1>9 DEF Start, Detect, RecordStart, Pushed, Resolve, RecordImage, Promote, Mark,
       StopBuild, Move, Goto, Abort, RowType
  <2> QED BY <2>1, <2>2
<1>10. CASE RecordFailure
  BY <1>1, <1>10 DEF RecordFailure, Return, Forget, Goto
<1>11. CASE ReapOrphanNamespaces \/ StoreCall \/ TearDown \/ SetDisabled \/ SweepSuspended
            \/ Scale \/ JobStep \/ Rollout \/ BudgetRunsOut \/ Shutdown \/ UNCHANGED vars
  BY <1>11 DEF ReapOrphanNamespaces, StoreCall, TearDown, SetDisabled, SweepSuspended, Scale,
     JobStep, Rollout, BudgetRunsOut, Shutdown, vars, loopVars
<1>12. CASE Crash \/ Exit
  BY <1>12 DEF Crash, Exit, Die
<1> QED
  BY <1>3, <1>4, <1>5, <1>6, <1>7, <1>8, <1>9, <1>10, <1>11, <1>12 DEF Next, LoopStep

\* The rows ahead still fit after every step.
LEMMA StepSweepFits == DriveInv /\ [Next]_vars => SweepFits'
<1> SUFFICES ASSUME DriveInv, [Next]_vars, loop' = "sweep"
             PROVE  \A r \in Ahead' :
                      /\ Fits(r)' /\ Tended(r)'
                      /\ \A s \in Ahead' : appOf'[r.id] = appOf'[s.id] => r = s
                      /\ pc' \in WorkSteps => appOf'[r.id] # appOf'[row'.id]
  BY DEF SweepFits
<1>1. LoopInv
  BY DEF DriveInv
<1>2. CASE listing' = {}
  BY <1>2 DEF Ahead
<1>3. CASE listing' = InFlightRows /\ at' = 1 /\ pc' = "sweep" /\ UNCHANGED storeVars
  <2>1. \A r \in Ahead' : \E d \in Ids : InFlight(d) /\ r = RowOf(d) /\ r.id = d
    BY <1>3 DEF Ahead, InFlightRows, Listed, RowOf, InFlight
  <2>2. UNCHANGED <<state, digest, appOf>>
    BY <1>3 DEF storeVars, rowVars, birthVars
  <2>3. \A r \in Ahead' : Fits(r)' /\ Tended(r)'
    BY <2>1, <2>2 DEF Fits, Tended, RowOf, InFlightOf, InFlight
  <2>4. \A r, s \in Ahead' : appOf'[r.id] = appOf'[s.id] => r = s
    <3> SUFFICES ASSUME NEW r \in Ahead', NEW s \in Ahead', appOf'[r.id] = appOf'[s.id]
                 PROVE  r = s
      OBVIOUS
    <3>1. PICK d \in Ids : InFlight(d) /\ r = RowOf(d) /\ r.id = d
      BY <2>1
    <3>2. PICK e \in Ids : InFlight(e) /\ s = RowOf(e) /\ s.id = e
      BY <2>1
    <3>3. d <= e /\ e <= d
      BY <1>1, <2>2, <3>1, <3>2 DEF LoopInv, StoreInv, LifeInv, InFlightIsNewest
    <3> QED BY <3>1, <3>2, <3>3 DEF Ids
  <2>5. pc' \notin WorkSteps
    BY <1>3, StepNames
  <2> QED BY <2>3, <2>4, <2>5
<1>4. CASE /\ loop = "sweep" /\ pc' = "drive" /\ UNCHANGED <<storeVars, listing>>
           /\ \E r \in listing : IsNext(r) /\ row' = r /\ at' = r.id + 1
  <2>1. PICK next \in listing : IsNext(next) /\ row' = next /\ at' = next.id + 1
    BY <1>4
  <2>2. at \in Nat /\ \A r \in listing : r.id \in Nat
    BY <1>1, BoundAssumption DEF BoundAssumption, LoopInv, Memory, RowType, Ids
  <2>3. Ahead' \subseteq Ahead \ {next} /\ next \in Ahead
    BY <1>4, <2>1, <2>2 DEF Ahead, IsNext
  <2>4. UNCHANGED <<state, digest, appOf>>
    BY <1>4 DEF storeVars, rowVars, birthVars
  <2>5. \A r \in Ahead' : Fits(r)' /\ Tended(r)'
    BY <1>4, <2>3, <2>4 DEF DriveInv, SweepFits, Fits, Tended, InFlightOf, InFlight
  <2>6. \A r, s \in Ahead' : appOf'[r.id] = appOf'[s.id] => r = s
    BY <1>4, <2>3, <2>4 DEF DriveInv, SweepFits
  <2>7. \A r \in Ahead' : appOf'[r.id] # appOf'[row'.id]
    BY <1>4, <2>1, <2>3, <2>4 DEF DriveInv, SweepFits
  <2> QED BY <2>5, <2>6, <2>7
<1>5. CASE /\ loop = "sweep" /\ UNCHANGED <<listing, at>>
           /\ pc' \in WorkSteps => pc \in WorkSteps /\ row'.id = row.id
  <2>1. Ahead' = Ahead
    BY <1>5 DEF Ahead
  <2>2. \A r \in Ahead : r.id \in Ids /\ r.id <= created
    BY <1>1, BoundAssumption
    DEF BoundAssumption, Ahead, LoopInv, LoopFacts, Copy, StoreInv, LifeInv, TypeOK, Ids
  <2>3. pc \in WorkSteps => row.id \in Ids /\ row.id <= created
    BY <1>1, BoundAssumption
    DEF BoundAssumption, LoopInv, LoopFacts, Known, StoreInv, LifeInv, TypeOK, Ids
  <2>4. Start \/ Pushed \/ Promote \/ RecordImage \/ Mark \/ RecordFailure => pc \in WorkSteps
    BY DEF Start, Pushed, Promote, RecordImage, Mark, RecordFailure, WorkSteps, DriveSteps,
       BuildSteps, ComposeSteps
  <2>5. ASSUME NEW r \in Ahead
        PROVE  /\ appOf'[r.id] = appOf[r.id] /\ digest'[r.id] = digest[r.id]
               /\ state'[r.id] = state[r.id] \/ state'[r.id] = "cancelled"
    BY <1>1, <1>5, <2>2, <2>4, RowFate DEF DriveInv, SweepFits
  <2>6. ASSUME NEW r \in Ahead PROVE Tended(r)'
    <3>1. PICK a \in Apps : a = appOf[r.id]
      BY <1>1, <2>2 DEF LoopInv, StoreInv, LifeInv, Born
    <3>2. InFlightOf(a) # {} /\ (Mark \/ RecordFailure => appOf[row.id] # a)
      BY <1>5, <2>4, <3>1 DEF DriveInv, SweepFits, Tended
    <3>3. InFlightOf(a)' # {}
      BY <1>1, <3>2, TendedKept
    <3>4. appOf'[r.id] = a
      BY <2>5, <3>1
    <3> QED BY <3>3, <3>4 DEF Tended, InFlightOf
  <2>7. ASSUME NEW r \in Ahead PROVE Fits(r)'
    BY <1>5, <2>5 DEF DriveInv, SweepFits, Fits
  <2>8. \A r, s \in Ahead : appOf'[r.id] = appOf'[s.id] => r = s
    BY <1>5, <2>5 DEF DriveInv, SweepFits
  <2>9. pc' \in WorkSteps => \A r \in Ahead : appOf'[r.id] # appOf'[row'.id]
    BY <1>1, <1>5, <2>3, <2>5, RowFate DEF DriveInv, SweepFits
  <2> QED BY <2>1, <2>6, <2>7, <2>8, <2>9
<1> QED BY <1>1, <1>2, <1>3, <1>4, <1>5, SweepGoesOn

\* Nothing is in hand and nothing listed before the process starts.
LEMMA InitDriveInv == Init => DriveInv
<1>1. "down" \notin DriveSteps
  BY DEF DriveSteps, BuildSteps, ComposeSteps
<1> QED BY <1>1, InitLoopInv DEF Init, DriveInv, HandFits, SweepFits, Ahead

\* The row in hand and the rows still listed are what the table says, all along.
LEMMA DriveInvariant == Spec => []DriveInv
<1>1. DriveInv /\ [Next]_vars => DriveInv'
  BY StepLoopInv, StepHandFits, StepSweepFits DEF DriveInv
<1> QED BY <1>1, InitDriveInv, PTL DEF Spec

\* The steps of a drive, as the properties name them.
LEMMA DrivingSteps == LoopInv => (Driving <=> pc \in DriveSteps)
  BY DEF LoopInv, Memory, Driving, Steps, DriveSteps, BuildSteps, ComposeSteps

\* A drive's copy is the row, or the row has ended under it: no move the loop asks
\* for is ever illegal, and the image it deploys is the one on the row.
THEOREM CopyIsTheRow == Spec => []DriveKeepsStep
<1>1. DriveInv => DriveKeepsStep
  BY DrivingSteps DEF DriveInv, HandFits, DriveKeepsStep, Terminal
<1> QED BY <1>1, DriveInvariant, PTL

\* A drive, even of a row that has been superseded under it, is never a deleted
\* app's: SoftDeleteApp is refused while the app has a deployment in flight, and it
\* has one for as long as the drive lasts.
THEOREM DriveNeedsItsApp == Spec => []DrivenAppIsLive
<1>1. DriveInv => DrivenAppIsLive
  BY DrivingSteps
  DEF DriveInv, HandFits, Tended, DrivenAppIsLive, LoopInv, StoreInv, LifeInv, DeletedAppIsQuiet
<1> QED BY <1>1, DriveInvariant, PTL

\* Only a drive's preparation makes a namespace.
LEMMA NamespaceSteps ==
  ASSUME [Next]_vars
  PROVE  \/ namespaces' \subseteq namespaces
         \/ pc = "prepare" /\ namespaces' = namespaces \cup {appOf[row.id]}
<1> USE DEF around, beside, podVars
<1>1. CASE StartSweep \/ StartTick \/ Sweep \/ Recover \/ ReleaseClaim \/ Expire \/ ClaimRow
  BY <1>1 DEF StartSweep, StartTick, List, Sweep, Recover, ReleaseClaim, Expire, ClaimRow
<1>2. CASE Drive \/ Gate \/ Start \/ Detect \/ Mint \/ Create \/ Credential \/ RecordStart
           \/ AwaitBuild \/ WaitBuild \/ Pushed \/ Resolve \/ RecordImage \/ Promote
  BY <1>2 DEF Drive, Gate, Start, Detect, Mint, Create, Credential, RecordStart, AwaitBuild,
     WaitBuild, Wait, Pushed, Resolve, RecordImage, Promote
<1>3. CASE Prepare
  BY <1>3 DEF Prepare, EnsureNamespace
<1>4. CASE ReadConfig \/ ApplySecret \/ Apply \/ AwaitReady \/ WaitReady \/ Mark \/ StopBuild
           \/ RecordFailure \/ Cleanup
  BY <1>4 DEF ReadConfig, ApplySecret, Apply, Write, AwaitReady, WaitReady, Wait, Mark,
     StopBuild, RecordFailure, Cleanup
<1>5. CASE ReapOrphanNamespaces \/ StoreCall \/ TearDown \/ SetDisabled \/ SweepSuspended \/ Scale
           \/ JobStep \/ Rollout \/ BudgetRunsOut \/ Crash \/ Shutdown \/ Exit \/ UNCHANGED vars
  BY <1>5 DEF ReapOrphanNamespaces, StoreCall, TearDown, SetDisabled, SweepSuspended, Scale,
     JobStep, Rollout, BudgetRunsOut, Crash, Shutdown, Exit, Die, vars
<1> QED BY <1>1, <1>2, <1>3, <1>4, <1>5 DEF Next, LoopStep

\* Nothing makes a deleted app's namespace again: delete_app's teardown and the
\* reaper race no drive, because there is none.
THEOREM DeletedIsNotRebuilt == Spec => DeletedStaysDown
<1>1. DriveInv /\ [Next]_vars => [\A a \in deleted : a \in namespaces' => a \in namespaces]_vars
  <2> SUFFICES ASSUME DriveInv, [Next]_vars, NEW a \in deleted, a \in namespaces'
               PROVE  a \in namespaces
    OBVIOUS
  <2>1. pc = "prepare" => appOf[row.id] \notin deleted
    BY DEF DriveInv, HandFits, Tended, DriveSteps, ComposeSteps, LoopInv, StoreInv, LifeInv,
       DeletedAppIsQuiet
  <2> QED BY <2>1, NamespaceSteps
<1> QED BY <1>1, DriveInvariant, PTL DEF Spec, DeletedStaysDown

-----------------------------------------------------------------------------
(* What a release is worth: the image of a build.                          *)

\* The step before each step the releases depend on.
LEMMA CameFrom ==
  ASSUME LoopInv, [Next]_vars
  PROVE  \/ UNCHANGED loopVars
         \/ /\ pc' = "pushed"       => AwaitBuild
            /\ pc' = "record_image" => Resolve
            /\ pc' = "promote"      => RecordImage \/ (Gate /\ IsRollback(row))
            /\ pc' = "prepare"      => ReadConfig
            /\ pc' = "secret"       => Prepare
            /\ pc' = "apply"        => ApplySecret
            /\ pc' = "ready"        => Apply \/ WaitReady
            /\ pc' = "wait_ready"   => AwaitReady
            /\ pc' = "mark"         => AwaitReady
            /\ pc' = "record"       => StopBuild \/ why' = "build_failed"
<1>1. CASE StartSweep \/ StartTick \/ Sweep \/ Recover \/ ClaimRow \/ Expire
  BY <1>1 DEF StartSweep, StartTick, List, Sweep, Recover, ClaimRow, Expire
<1>2. CASE ReleaseClaim \/ Cleanup \/ RecordFailure
  BY <1>2 DEF ReleaseClaim, Cleanup, RecordFailure, Return, Forget, Goto, LoopInv, Memory
<1>3. CASE Drive \/ StopBuild \/ RecordStart \/ Detect \/ Resolve
  BY <1>3 DEF Drive, StopBuild, RecordStart, Detect, Resolve, Abort
<1>4. CASE Gate
  <2>1. Copy(row)
    BY <1>4 DEF Gate, LoopInv, LoopFacts, Known, DriveSteps
  <2> QED BY <1>4, <2>1 DEF Gate, Goto, Abort, Copy, InFlightStates
<1>5. CASE Start \/ Pushed \/ Promote
  BY <1>5, MovingSteps DEF Advances
<1>6. CASE Mint \/ Create \/ Credential \/ AwaitBuild \/ WaitBuild \/ WaitReady \/ RecordImage
  BY <1>6 DEF Mint, Create, Credential, AwaitBuild, WaitBuild, WaitReady, Wait, RecordImage,
     Goto, Abort
<1>7. CASE ReadConfig \/ Prepare \/ ApplySecret \/ Apply \/ AwaitReady \/ Mark
  BY <1>7 DEF ReadConfig, Prepare, ApplySecret, Apply, Write, AwaitReady, Mark, Goto, Abort
<1>8. CASE ReapOrphanNamespaces \/ StoreCall \/ TearDown \/ SetDisabled \/ SweepSuspended \/ Scale
           \/ JobStep \/ Rollout \/ BudgetRunsOut \/ Shutdown \/ UNCHANGED vars
  BY <1>8 DEF ReapOrphanNamespaces, StoreCall, TearDown, SetDisabled, SweepSuspended, Scale,
     JobStep, Rollout, BudgetRunsOut, Shutdown, vars
<1>9. CASE Crash \/ Exit
  BY <1>9 DEF Crash, Exit, Die, Forget
<1> QED
  BY <1>1, <1>2, <1>3, <1>4, <1>5, <1>6, <1>7, <1>8, <1>9 DEF Next, LoopStep

\* A row that was not there is queued, if it is inserted: a rollback's with the
\* image of the release it names.
LEMMA RowBorn ==
  ASSUME LoopInv, [Next]_vars, NEW d \in Ids, d > created
  PROVE  /\ state'[d] \in {"absent", "queued"}
         /\ source'[d] # 0 =>
              /\ appOf'[d] \in Apps /\ source'[d] \in 1..Len(releases[appOf'[d]])
              /\ digest'[d] = releases[appOf'[d]][source'[d]].digest
<1>1. state[d] = "absent" /\ appOf[d] = NoApp
  BY DEF LoopInv, StoreInv, LifeInv, Born
<1>2. source[d] = 0
  BY <1>1, AppAssumption DEF AppAssumption, LoopInv, StoreInv, SourcesExist
<1>3. CASE UNCHANGED <<state, birthVars>>
  BY <1>1, <1>2, <1>3 DEF birthVars
<1>4. CASE \E a \in Apps : Inserts(a)
  <2>1. PICK a \in Apps, u \in Uploads \cup {NoUpload}, n \in Nat : CreateDeployment(a, u, n)
    BY <1>4 DEF Inserts
  <2>2. /\ state'[d] = IF d = created + 1 THEN "queued"
                       ELSE IF d \in Superseded(a) THEN "cancelled" ELSE state[d]
        /\ appOf'[d] = (IF d = created + 1 THEN a ELSE appOf[d])
        /\ source'[d] = (IF d = created + 1 THEN n ELSE source[d])
        /\ d = created + 1 => digest'[d] = IF n = 0 THEN 0 ELSE releases[a][n].digest
        /\ n \in 0..Len(releases[a])
    BY <2>1 DEF CreateDeployment, Queued, LoopInv, StoreInv, LifeInv, TypeOK
  <2>3. d \notin Superseded(a)
    BY <1>1 DEF Superseded, InFlightOf, InFlight, InFlightStates
  <2> QED BY <1>1, <1>2, <2>2, <2>3
<1>5. CASE StoreCall
  BY <1>3, <1>4, <1>5, HandlerCalls DEF birthVars
<1>6. CASE Start \/ Pushed \/ Promote \/ Mark \/ RecordFailure
  <2>1. /\ UNCHANGED birthVars
        /\ state' = state \/ (InFlight(row.id) /\ \E to : state' = [state EXCEPT ![row.id] = to])
    BY <1>6, MovingSteps DEF Advances, KeepsRows, MovesRow, birthVars
  <2>2. InFlight(row.id) => d # row.id
    BY <1>1 DEF InFlight, InFlightStates
  <2> QED BY <1>1, <1>2, <2>1, <2>2 DEF birthVars, LoopInv, StoreInv, LifeInv, TypeOK
<1>7. CASE RecordImage
  BY <1>3, <1>7 DEF RecordImage, RecordBuildResult, storeVars, rowVars
<1> QED BY <1>3, <1>5, <1>6, <1>7, QuietSteps

\* A build that is over, and did not fail.
Over(d) == jobs[d].st \in {"succeeded", "gone"}

\* A build deployment past its build, and the drive that takes it there.
BuildsWereOver ==
  /\ \A d \in Ids : source[d] = 0 =>
       /\ state[d] \in {"pushing", "deploying", "healthy"} => Over(d)
       /\ state[d] \in {"deploying", "healthy"} => digest[d] = d
  /\ pc = "pushed" => Over(row.id)
  /\ pc = "promote" /\ ~IsRollback(row) =>
       digest[row.id] = row.id \/ state[row.id] = "cancelled"

BuiltInv == DriveInv /\ BuildsWereOver

\* A Job that is over stays over until the drive of its row creates another.
LEMMA OverStays ==
  ASSUME LoopInv, [Next]_vars, NEW d \in Ids, Over(d), pc = "create" => d # row.id
  PROVE  Over(d)'
  BY JobLife DEF Over, JobMoves

\* What the drives and the handlers do to a build deployment keeps it built.
LEMMA StepBuilt == BuiltInv /\ [Next]_vars => BuildsWereOver'
<1> SUFFICES ASSUME BuiltInv, [Next]_vars PROVE BuildsWereOver'
  OBVIOUS
<1>1. LoopInv /\ LoopInv'
  BY StepLoopInv DEF BuiltInv, DriveInv
<1>2. pc \in DriveSteps => row.id \in Ids /\ row.id <= created
  BY <1>1, BoundAssumption
  DEF BoundAssumption, LoopInv, LoopFacts, Known, WorkSteps, StoreInv, LifeInv, TypeOK, Ids
<1>3. ASSUME NEW d \in Ids, source'[d] = 0
      PROVE  /\ state'[d] \in {"pushing", "deploying", "healthy"} => Over(d)'
             /\ state'[d] \in {"deploying", "healthy"} => digest'[d] = d
  <2>1. CASE d > created
    BY <1>1, <2>1, RowBorn
  <2>2. CASE d <= created
    <3>1. source[d] = 0
      BY <1>1, <1>3, <2>2, RowFate
    <3>2. /\ state[d] \in {"pushing", "deploying", "healthy"} => Over(d)
          /\ state[d] \in {"deploying", "healthy"} => digest[d] = d
      BY <3>1 DEF BuiltInv, BuildsWereOver
    <3>3. state[d] \notin {"building", "cancelled"} /\ Over(d) => Over(d)'
      <4>1. pc = "create" => state[row.id] \in {"building", "cancelled"}
        BY DEF BuiltInv, DriveInv, HandFits, LoopInv, LoopFacts, Known, DriveSteps, BuildSteps
      <4> QED BY <1>1, <4>1, OverStays
    <3>4. CASE state'[d] = state[d] /\ digest'[d] = digest[d]
      BY <3>2, <3>3, <3>4
    <3>5. CASE state'[d] = "cancelled"
      BY <3>5
    <3>6. CASE d = row.id /\ (Start \/ RecordFailure)
      <4>1. KeepsRows \/ MovesRow("building") \/ MovesRow("failed")
        BY <1>1, <3>6, MovingSteps DEF Advances
      <4> QED BY <1>1, <3>4, <3>6, <4>1
          DEF KeepsRows, MovesRow, LoopInv, StoreInv, LifeInv, TypeOK
    <3>7. CASE d = row.id /\ Pushed
      <4>1. pc = "pushed" /\ Over(row.id)
        BY <3>7 DEF Pushed, BuiltInv, BuildsWereOver
      <4>2. Over(d)'
        BY <1>1, <3>7, <4>1, OverStays
      <4>3. CASE KeepsRows
        BY <3>4, <4>3 DEF KeepsRows
      <4>4. CASE MovesRow("pushing")
        BY <1>1, <3>7, <4>2, <4>4 DEF MovesRow, LoopInv, StoreInv, LifeInv, TypeOK
      <4> QED BY <1>1, <3>7, <4>3, <4>4, MovingSteps DEF Advances
    <3>8. CASE d = row.id /\ Promote
      <4>1. CASE KeepsRows
        BY <3>4, <4>1 DEF KeepsRows
      <4>2. CASE MovesRow("deploying")
        <5>1. pc = "promote" /\ pc \in DriveSteps /\ ~IsRollback(row)
          BY <3>1, <3>8 DEF Promote, DriveSteps, IsRollback
        <5>2. row.state = "pushing" /\ state[d] # "cancelled"
          BY <1>1, <3>8, <4>2, <5>1
          DEF LoopInv, LoopFacts, Known, MovesRow, InFlight, InFlightStates
        <5>3. state[d] = "pushing"
          BY <3>8, <5>1, <5>2 DEF BuiltInv, DriveInv, HandFits
        <5>4. digest[d] = d
          BY <3>8, <5>1, <5>2 DEF BuiltInv, BuildsWereOver
        <5>5. digest' = digest
          BY <4>2 DEF MovesRow
        <5> QED BY <3>2, <3>3, <5>3, <5>4, <5>5
      <4> QED BY <1>1, <3>8, <4>1, <4>2, MovingSteps DEF Advances
    <3>9. CASE d = row.id /\ RecordImage
      <4>1. state' = state /\ (digest'[d] = digest[d] \/ digest'[d] = row.digest)
        BY <1>1, <3>9 DEF RecordImage, RecordBuildResult, storeVars, rowVars, LoopInv, StoreInv,
           LifeInv, TypeOK
      <4>2. row.digest = row.id
        BY <3>9 DEF RecordImage, BuiltInv, DriveInv, HandFits, DriveSteps
      <4> QED BY <3>2, <3>3, <3>9, <4>1, <4>2
    <3>10. CASE d = row.id /\ Mark
      <4>1. CASE KeepsRows
        BY <3>4, <4>1 DEF KeepsRows
      <4>2. CASE MovesRow("healthy")
        <5>1. state[d] = "deploying"
          BY <3>10, <4>2
          DEF MovesRow, Allowed, InFlight, InFlightStates, States, Terminal
        <5> QED BY <3>2, <3>3, <4>2, <5>1 DEF MovesRow
      <4> QED BY <1>1, <3>10, <4>1, <4>2, MovingSteps
    <3> QED BY <1>1, <2>2, <3>4, <3>5, <3>6, <3>7, <3>8, <3>9, <3>10, RowFate
  <2> QED BY <1>1, <2>1, <2>2 DEF LoopInv, StoreInv, LifeInv, TypeOK, Ids
<1>4. ASSUME pc' = "pushed" PROVE Over(row.id)'
  <2>1. CASE UNCHANGED loopVars
    <3>1. Over(row.id) /\ row.id \in Ids /\ pc = "pushed" /\ row' = row
      BY <1>2, <1>4, <2>1 DEF BuiltInv, BuildsWereOver, loopVars, DriveSteps, BuildSteps
    <3>2. PICK d \in Ids : d = row.id
      BY <3>1
    <3>3. Over(d)'
      BY <1>1, <3>1, <3>2, OverStays
    <3> QED BY <3>1, <3>2, <3>3 DEF Over
  <2>2. CASE AwaitBuild
    <3>1. jobs[row.id].st = "succeeded" /\ jobs' = jobs /\ row' = row
      BY <1>4, <2>2 DEF AwaitBuild, JobStateIn, Goto, Abort, jobVars
    <3> QED BY <3>1 DEF Over
  <2> QED BY <1>1, <1>4, <2>1, <2>2, CameFrom
<1>5. ASSUME pc' = "promote", ~IsRollback(row)'
      PROVE  digest'[row'.id] = row'.id \/ state'[row'.id] = "cancelled"
  <2>1. CASE UNCHANGED loopVars
    <3>1. pc = "promote" /\ pc \in DriveSteps /\ row' = row
      BY <1>5, <2>1 DEF loopVars, DriveSteps
    <3>2. ~IsRollback(row)
      BY <1>1, <1>2, <1>5, <3>1, RowFate DEF IsRollback
    <3>3. digest[row.id] = row.id \/ state[row.id] = "cancelled"
      BY <3>1, <3>2 DEF BuiltInv, BuildsWereOver
    <3>4. ~Start /\ ~Pushed /\ ~Promote /\ ~RecordImage /\ ~Mark /\ ~RecordFailure
      <4>1. ~Promote
        BY <1>1, <1>5, MovingSteps DEF Advances
      <4> QED BY <3>1, <4>1 DEF Start, Pushed, RecordImage, Mark, RecordFailure
    <3> QED BY <1>1, <1>2, <3>1, <3>3, <3>4, RowFate
  <2>2. CASE RecordImage
    <3>3. pc \in DriveSteps /\ pc = "record_image" /\ row' = row
      BY <2>2 DEF RecordImage, Goto, Abort, DriveSteps
    <3>1. pc \in DriveSteps /\ row.digest = row.id /\ row.id # 0 /\ row' = row
      BY <1>2, <3>3 DEF BuiltInv, DriveInv, HandFits, Ids
    <3>2. digest' = [digest EXCEPT ![row.id] = IF row.digest = 0 THEN @ ELSE row.digest]
      BY <1>5, <2>2 DEF RecordImage, RecordBuildResult, Abort
    <3> QED BY <1>1, <1>2, <3>1, <3>2 DEF LoopInv, StoreInv, LifeInv, TypeOK
  <2>3. CASE Gate /\ IsRollback(row)
    <3>1. row' = row /\ source' = source
      BY <2>3 DEF Gate, Goto, Abort, storeVars, birthVars
    <3> QED BY <1>5, <2>3, <3>1 DEF IsRollback
  <2> QED BY <1>1, <1>5, <2>1, <2>2, <2>3, CameFrom
<1> QED BY <1>3, <1>4, <1>5 DEF BuildsWereOver

\* A drive past its build has that build behind it, all along.
LEMMA BuiltInvariant == Spec => []BuiltInv
<1>1. Init => BuildsWereOver
  BY DEF Init, StoreInit, BuildsWereOver
<1>2. BuiltInv /\ [Next]_vars => BuiltInv'
  BY StepLoopInv, StepHandFits, StepSweepFits, StepBuilt DEF BuiltInv, DriveInv
<1> QED BY <1>1, <1>2, InitDriveInv, PTL DEF Spec, BuiltInv

\* A build deployment that went healthy carries its own build's image, and that
\* build succeeded: no drive takes a failed build, another deployment's image or a
\* copy from before a restart to a release.
THEOREM ReleasesWereBuilt == Spec => []ReleaseWasBuilt
<1>1. BuiltInv => ReleaseWasBuilt
  BY DEF BuiltInv, BuildsWereOver, Over, ReleaseWasBuilt
<1> QED BY <1>1, BuiltInvariant, PTL

-----------------------------------------------------------------------------
(* What a release is worth: a rollback's is the release it names.          *)

\* A rollback carries the image of the release it names, and its drive deploys that
\* release's configuration.
RollbacksRestore ==
  /\ \A d \in Ids : source[d] # 0 => digest[d] = releases[appOf[d]][source[d]].digest
  /\ pc \in ComposeSteps /\ IsRollback(row) =>
       plan = releases[appOf[row.id]][source[row.id]].config
  /\ RollbackRestoresItsRelease

RollbackInv == LoopInv /\ RollbacksRestore

\* Releases are only ever appended, and only by the drive of a row of their app.
LEMMA ReleasesGrow ==
  ASSUME LoopInv, [Next]_vars, NEW a \in Apps
  PROVE  /\ Len(releases[a]) \in Nat
         /\ \A n \in 1..Len(releases[a]) : releases'[a][n] = releases[a][n]
         /\ \/ releases'[a] = releases[a]
            \/ /\ Mark /\ MarkHealthy(row.id, plan) /\ a = appOf[row.id]
               /\ Len(releases'[a]) = Len(releases[a]) + 1
               /\ releases'[a][Len(releases[a]) + 1]
                    = [dep |-> row.id, digest |-> digest[row.id], config |-> plan]
<1>1. releases \in [Apps -> Seq(Release)] /\ Len(releases[a]) \in Nat
  BY DEF LoopInv, StoreInv, LifeInv, TypeOK
<1>2. CASE releases' = releases
  BY <1>1, <1>2
<1>3. CASE Mark
  <2>1. CASE UNCHANGED storeVars
    BY <1>2, <2>1 DEF storeVars, appVars
  <2>2. CASE MarkHealthy(row.id, plan)
    <3>1. row.id \in Ids /\ row.id <= created /\ plan \in Configs
      BY <1>3, BoundAssumption
      DEF BoundAssumption, Mark, LoopInv, Memory, LoopFacts, Known, WorkSteps, DriveSteps,
          ComposeSteps, StoreInv, LifeInv, TypeOK, Ids
    <3>2. PICK b \in Apps : b = appOf[row.id]
      BY <3>1 DEF LoopInv, StoreInv, LifeInv, Born
    <3> DEFINE r == [dep |-> row.id, digest |-> digest[row.id], config |-> plan]
    <3>3. releases' = [releases EXCEPT ![b] = Append(releases[b], r)]
      BY <2>2, <3>2 DEF MarkHealthy
    <3>4. r \in Release
      BY <2>2, <3>1 DEF MarkHealthy, HasImage, Release, LoopInv, StoreInv, LifeInv, TypeOK
    <3>5. /\ Len(Append(releases[b], r)) = Len(releases[b]) + 1
          /\ Append(releases[b], r)[Len(releases[b]) + 1] = r
          /\ \A n \in 1..Len(releases[b]) : Append(releases[b], r)[n] = releases[b][n]
      BY <1>1, <3>4
    <3> QED BY <1>1, <1>3, <2>2, <3>2, <3>3, <3>5
  <2> QED BY <1>3, <2>1, <2>2 DEF Mark, SnapshotConfig
<1>4. CASE Start \/ Pushed \/ Promote \/ RecordFailure \/ RecordImage
  BY <1>2, <1>4 DEF Start, Pushed, Promote, Move, RecordFailure, Transition, RecordImage,
     RecordBuildResult, storeVars, appVars
<1>5. CASE StoreCall
  BY <1>2, <1>5 DEF StoreCall, CallDeploy, CallRollback, CreateDeployment, CallDelete,
     SoftDeleteApp, CallSetConfig, SetConfig, appVars
<1> QED BY <1>2, <1>3, <1>4, <1>5, QuietSteps

\* The steps that compose and wait for the workload keep the row and the plan, and
\* the first of them follows the reading of the configuration.
LEMMA ComposeFrom ==
  ASSUME LoopInv, [Next]_vars, pc' \in ComposeSteps
  PROVE  /\ row' = row
         /\ \/ pc \in ComposeSteps /\ plan' = plan
            \/ ReadConfig /\ plan' = DeployConfig(row) /\ row.digest # 0
<1>1. CASE UNCHANGED loopVars
  BY <1>1 DEF loopVars
<1>2. CASE ReadConfig /\ pc' = "prepare"
  BY <1>2 DEF ReadConfig, Abort
<1>3. CASE Prepare \/ ApplySecret \/ Apply \/ AwaitReady
  BY <1>3 DEF Prepare, ApplySecret, Apply, Write, AwaitReady, Goto, Abort, ComposeSteps
<1>4. CASE WaitReady
  BY <1>4 DEF WaitReady, Wait, Goto, Abort, ComposeSteps
<1> QED BY <1>1, <1>2, <1>3, <1>4, CameFrom DEF ComposeSteps

\* Every step keeps what a rollback restores.
LEMMA StepRestores == RollbackInv /\ [Next]_vars => RollbacksRestore'
<1> SUFFICES ASSUME RollbackInv, [Next]_vars PROVE RollbacksRestore'
  OBVIOUS
<1>1. LoopInv /\ LoopInv'
  BY StepLoopInv DEF RollbackInv
<1>2. \A d \in Ids : source[d] # 0 =>
        /\ d <= created /\ appOf[d] \in Apps /\ source[d] \in 1..Len(releases[appOf[d]])
        /\ appOf'[d] = appOf[d] /\ source'[d] = source[d]
        /\ releases'[appOf[d]][source[d]] = releases[appOf[d]][source[d]]
  <2> SUFFICES ASSUME NEW d \in Ids, source[d] # 0
               PROVE  /\ d <= created /\ appOf[d] \in Apps
                      /\ source[d] \in 1..Len(releases[appOf[d]])
                      /\ appOf'[d] = appOf[d] /\ source'[d] = source[d]
                      /\ releases'[appOf[d]][source[d]] = releases[appOf[d]][source[d]]
    OBVIOUS
  <2>1. appOf[d] \in Apps /\ source[d] \in 1..Len(releases[appOf[d]])
    BY <1>1 DEF LoopInv, StoreInv, SourcesExist
  <2>2. d <= created
    BY <1>1, <2>1, AppAssumption
    DEF AppAssumption, LoopInv, StoreInv, LifeInv, Born, TypeOK, Ids
  <2> QED BY <1>1, <2>1, <2>2, RowFate, ReleasesGrow
<1>3. ASSUME NEW d \in Ids, source'[d] # 0
      PROVE  digest'[d] = releases'[appOf'[d]][source'[d]].digest
  <2>1. CASE d > created
    BY <1>1, <1>3, <2>1, RowBorn, ReleasesGrow
  <2>2. CASE d <= created
    <3>1. source[d] # 0
      BY <1>1, <1>3, <2>2, RowFate
    <3>2. digest'[d] = digest[d]
      <4>1. CASE d = row.id /\ (Start \/ Pushed \/ Promote \/ Mark \/ RecordFailure)
        BY <1>1, <4>1, MovingSteps DEF Advances, KeepsRows, MovesRow
      <4>2. ASSUME d = row.id, RecordImage PROVE FALSE
        BY <1>1, <3>1, <4>2
        DEF RecordImage, LoopInv, LoopFacts, Known, Copy, IsRollback, DriveSteps
      <4> QED BY <1>1, <2>2, <4>1, <4>2, RowFate
    <3> QED BY <1>2, <3>1, <3>2 DEF RollbackInv, RollbacksRestore
  <2> QED BY <1>1, <2>1, <2>2 DEF LoopInv, StoreInv, LifeInv, TypeOK, Ids
<1>4. ASSUME pc' \in ComposeSteps, IsRollback(row)'
      PROVE  plan' = releases'[appOf'[row'.id]][source'[row'.id]].config
  <2>1. row' = row /\ row.id \in Ids /\ row.id <= created
    <3>2. ReadConfig => pc = "config"
      BY DEF ReadConfig
    <3>3. pc \in ComposeSteps \/ ReadConfig
      BY <1>1, <1>4, ComposeFrom
    <3>1. pc \in WorkSteps
      BY <3>2, <3>3 DEF WorkSteps, DriveSteps
    <3>4. row' = row
      BY <1>1, <1>4, ComposeFrom
    <3> QED BY <1>1, <3>1, <3>4, BoundAssumption
        DEF BoundAssumption, LoopInv, LoopFacts, Known, StoreInv, LifeInv, TypeOK, Ids
  <2>2. IsRollback(row)
    BY <1>1, <1>4, <2>1, RowFate DEF IsRollback
  <2>3. plan' = releases[appOf[row.id]][source[row.id]].config
    BY <1>1, <1>4, <2>2, ComposeFrom DEF RollbackInv, RollbacksRestore, DeployConfig
  <2> QED BY <1>2, <2>1, <2>2, <2>3 DEF IsRollback
<1>5. ASSUME NEW a \in Apps, NEW n \in 1..Len(releases'[a]), NEW r, r = releases'[a][n],
             source'[r.dep] # 0
      PROVE  /\ r.digest = releases'[a][source'[r.dep]].digest
             /\ r.config = releases'[a][source'[r.dep]].config
  <2>1. CASE n \in 1..Len(releases[a])
    <3>1. r = releases[a][n] /\ r.dep \in Ids /\ state[r.dep] = "healthy" /\ appOf[r.dep] = a
      BY <1>1, <1>5, <2>1, ReleasesGrow DEF LoopInv, StoreInv, ReleaseHistory
    <3>2. r.dep <= created
      BY <1>1, <3>1, BoundAssumption
      DEF BoundAssumption, LoopInv, StoreInv, LifeInv, Born, TypeOK, Ids
    <3>3. source[r.dep] # 0 /\ source'[r.dep] = source[r.dep]
      BY <1>1, <1>5, <3>1, <3>2, RowFate
    <3>4. /\ r.digest = releases[a][source[r.dep]].digest
          /\ r.config = releases[a][source[r.dep]].config
      BY <2>1, <3>1, <3>3 DEF RollbackInv, RollbacksRestore, RollbackRestoresItsRelease
    <3> QED BY <1>2, <3>1, <3>3, <3>4
  <2>2. CASE n \notin 1..Len(releases[a])
    <3>1. /\ Mark /\ a = appOf[row.id] /\ n = Len(releases[a]) + 1
          /\ r = [dep |-> row.id, digest |-> digest[row.id], config |-> plan]
      BY <1>1, <1>5, <2>2, ReleasesGrow
    <3>2. pc \in ComposeSteps /\ row.id \in Ids /\ row.id <= created
      BY <1>1, <3>1, BoundAssumption
      DEF BoundAssumption, Mark, LoopInv, LoopFacts, Known, WorkSteps, DriveSteps,
          ComposeSteps, StoreInv, LifeInv, TypeOK, Ids
    <3>3. source[row.id] # 0 /\ source'[r.dep] = source[row.id] /\ IsRollback(row)
      BY <1>1, <1>5, <3>1, <3>2, RowFate DEF IsRollback
    <3>4. /\ r.digest = releases[a][source[row.id]].digest
          /\ r.config = releases[a][source[row.id]].config
      BY <3>1, <3>2, <3>3 DEF RollbackInv, RollbacksRestore
    <3> QED BY <1>2, <3>1, <3>2, <3>3, <3>4
  <2> QED BY <2>1, <2>2
<1> QED BY <1>3, <1>4, <1>5 DEF RollbacksRestore, RollbackRestoresItsRelease

\* A rollback's release is the one it names again, image and configuration, however
\* often the source's app was deployed, configured or rolled back since.
THEOREM RollbacksRestoreTheirRelease == Spec => []RollbackRestoresItsRelease
<1>1. Init => RollbackInv
  <2> SUFFICES ASSUME Init PROVE RollbackInv
    OBVIOUS
  <2>1. LoopInv /\ pc \notin ComposeSteps /\ \A d \in Ids : source[d] = 0
    BY InitLoopInv DEF Init, StoreInit, ComposeSteps
  <2>2. \A a \in Apps : Len(releases[a]) = 0
    BY DEF Init, StoreInit
  <2> QED BY <2>1, <2>2 DEF RollbackInv, RollbacksRestore, RollbackRestoresItsRelease
<1>2. RollbackInv /\ [Next]_vars => RollbackInv'
  BY StepLoopInv, StepRestores DEF RollbackInv
<1>3. RollbackInv => RollbackRestoresItsRelease
  BY DEF RollbackInv, RollbacksRestore
<1> QED BY <1>1, <1>2, <1>3, PTL DEF Spec

-----------------------------------------------------------------------------
(* What a release is worth: it records what ran.                           *)

\* Without an admin call nothing is scaled down.
NobodyScales ==
  /\ adminCalls \in Nat
  /\ adminCalls = 0 => suspended = {} /\ scales = {} /\ holding = {}

\* From the moment the workload is applied to the minting of the release it is the
\* row's, and a drive that has seen it ready has seen its pods.
WorkloadIsThePlan ==
  /\ pc \in ComposeSteps => row.digest # 0
  /\ pc \in {"ready", "wait_ready", "mark"} =>
       LET a == appOf[row.id] IN
       /\ workload[a].image = row.digest /\ workload[a].config = plan
       /\ adminCalls = 0 => workload[a].up
       /\ adminCalls = 0 /\ pc = "mark" => SameTemplate(a)

RanInv == DriveInv /\ NobodyScales /\ WorkloadIsThePlan

\* What one step does to an app's objects and pods: nothing, unless it composes
\* them, scales them, rolls them out or removes a deleted app's.
LEMMA AppObjects ==
  ASSUME LoopInv, [Next]_vars, NEW a \in Apps
  PROVE  /\ \/ workload'[a] = workload[a]
            \/ a \in deleted
            \/ pc \in {"secret", "apply"}
            \/ /\ scales # {} \/ holding # {}
               /\ workload'[a].image = workload[a].image
               /\ workload'[a].config = workload[a].config
         /\ \/ pods'[a] = pods[a]
            \/ a \in deleted \/ ~workload[a].up \/ ~SameTemplate(a)
            \/ pods'[a].image = pods[a].image /\ pods'[a].config = pods[a].config
<1>1. workload \in [Apps -> WorkloadType] /\ pods \in [Apps -> WorkloadType]
  BY DEF LoopInv, World
<1>2. CASE UNCHANGED <<workload, pods>>
  BY <1>2
<1> USE DEF around, beside, podVars
<1>3. CASE StartSweep \/ StartTick \/ Sweep \/ Recover \/ ReleaseClaim \/ Expire \/ ClaimRow
  BY <1>2, <1>3 DEF StartSweep, StartTick, List, Sweep, Recover, ReleaseClaim, Expire, ClaimRow
<1>4. CASE Drive \/ Gate \/ Start \/ Detect \/ Mint \/ Create \/ Credential \/ RecordStart
           \/ AwaitBuild \/ WaitBuild \/ Pushed \/ Resolve \/ RecordImage \/ Promote
  BY <1>2, <1>4 DEF Drive, Gate, Start, Detect, Mint, Create, Credential, RecordStart,
     AwaitBuild, WaitBuild, Wait, Pushed, Resolve, RecordImage, Promote
<1>5. CASE ApplySecret \/ Apply
  BY <1>5 DEF ApplySecret, Apply, Write
<1>6. CASE ReadConfig \/ Prepare \/ AwaitReady \/ WaitReady \/ Mark \/ StopBuild
           \/ RecordFailure \/ Cleanup
  BY <1>2, <1>6 DEF ReadConfig, Prepare, AwaitReady, WaitReady, Wait, Mark, StopBuild,
     RecordFailure, Cleanup
<1>7. CASE ReapOrphanNamespaces
  BY <1>1, <1>7 DEF ReapOrphanNamespaces, Orphans
<1>8. CASE TearDown
  BY <1>1, <1>8 DEF TearDown
<1>9. CASE Scale
  <2>1. UNCHANGED pods
    BY <1>9 DEF Scale
  <2>2. UNCHANGED workload
        \/ ((scales # {} \/ holding # {}) /\ \E b \in Apps, up \in BOOLEAN : ScaleWorkload(b, up))
    BY <1>9 DEF Scale, LoopInv, World
  <2>3. ASSUME NEW b \in Apps, NEW up \in BOOLEAN, ScaleWorkload(b, up)
        PROVE  /\ workload'[a].image = workload[a].image
               /\ workload'[a].config = workload[a].config
    BY <1>1, <2>3 DEF ScaleWorkload, WorkloadType
  <2> QED BY <2>1, <2>2, <2>3
<1>10. CASE Rollout
  <2>1. UNCHANGED workload
    BY <1>10 DEF Rollout
  <2>2. PICK b \in Apps :
           \/ ~SameTemplate(b) /\ pods' = [pods EXCEPT ![b] = workload[b]]
           \/ ~workload[b].up /\ pods' = [pods EXCEPT ![b] = Nothing]
           \/ pods' = [pods EXCEPT ![b].secret = workload[b].secret]
    BY <1>10 DEF Rollout
  <2>3. CASE b = a
    BY <1>1, <2>1, <2>2, <2>3 DEF WorkloadType
  <2>4. CASE b # a
    BY <1>1, <2>1, <2>2, <2>4
  <2> QED BY <2>3, <2>4
<1>11. CASE StoreCall \/ SetDisabled \/ SweepSuspended \/ JobStep \/ BudgetRunsOut \/ Crash
            \/ Shutdown \/ Exit \/ UNCHANGED vars
  BY <1>2, <1>11 DEF StoreCall, SetDisabled, SweepSuspended, JobStep, BudgetRunsOut, Crash,
     Shutdown, Exit, Die, vars
<1> QED
  BY <1>3, <1>4, <1>5, <1>6, <1>7, <1>8, <1>9, <1>10, <1>11 DEF Next, LoopStep

\* Only an admin call, counted, makes one that scales to come.
LEMMA StepNobodyScales ==
  NobodyScales /\ [Next]_vars => NobodyScales' /\ (adminCalls' = 0 => adminCalls = 0)
<1> SUFFICES ASSUME NobodyScales, [Next]_vars
             PROVE  NobodyScales' /\ (adminCalls' = 0 => adminCalls = 0)
  OBVIOUS
<1> USE DEF NobodyScales
<1>1. CASE UNCHANGED adminVars
  BY <1>1 DEF adminVars
<1> USE DEF around, beside
<1>2. CASE StartSweep \/ StartTick \/ Sweep \/ Recover \/ ReleaseClaim \/ Expire \/ ClaimRow
  BY <1>1, <1>2 DEF StartSweep, StartTick, List, Sweep, Recover, ReleaseClaim, Expire, ClaimRow
<1>3. CASE Drive \/ Gate \/ Start \/ Detect \/ Mint \/ Create \/ Credential \/ RecordStart
           \/ AwaitBuild \/ WaitBuild \/ Pushed \/ Resolve \/ RecordImage \/ Promote
  BY <1>1, <1>3 DEF Drive, Gate, Start, Detect, Mint, Create, Credential, RecordStart,
     AwaitBuild, WaitBuild, Wait, Pushed, Resolve, RecordImage, Promote
<1>4. CASE ReadConfig \/ Prepare \/ ApplySecret \/ Apply \/ AwaitReady \/ WaitReady \/ Mark
           \/ StopBuild \/ RecordFailure \/ Cleanup
  BY <1>1, <1>4 DEF ReadConfig, Prepare, ApplySecret, Apply, Write, AwaitReady, WaitReady, Wait,
     Mark, StopBuild, RecordFailure, Cleanup
<1>5. CASE ReapOrphanNamespaces \/ StoreCall \/ TearDown \/ JobStep \/ Rollout \/ BudgetRunsOut
           \/ Shutdown \/ UNCHANGED vars
  BY <1>1, <1>5 DEF ReapOrphanNamespaces, StoreCall, TearDown, JobStep, Rollout, BudgetRunsOut,
     Shutdown, vars
<1>6. CASE SetDisabled
  BY <1>6 DEF SetDisabled
<1>7. CASE SweepSuspended
  BY <1>7 DEF SweepSuspended, ToHold
<1>8. CASE Scale
  BY <1>8 DEF Scale
<1>9. CASE Crash \/ Exit
  BY <1>9 DEF Crash, Exit, Die
<1> QED
  BY <1>2, <1>3, <1>4, <1>5, <1>6, <1>7, <1>8, <1>9 DEF Next, LoopStep

\* The drive keeps its hold on the workload.
LEMMA StepWorkloadIsThePlan == RanInv /\ [Next]_vars => WorkloadIsThePlan'
<1> SUFFICES ASSUME RanInv, [Next]_vars PROVE WorkloadIsThePlan'
  OBVIOUS
<1>1. LoopInv /\ DriveInv /\ (adminCalls' = 0 => adminCalls = 0)
  BY StepNobodyScales DEF RanInv, DriveInv
<1>2. ASSUME pc' \in ComposeSteps PROVE row'.digest # 0
  BY <1>1, <1>2, ComposeFrom DEF RanInv, WorkloadIsThePlan
<1>3. ASSUME pc' \in {"ready", "wait_ready", "mark"}
      PROVE  /\ workload'[appOf'[row'.id]].image = row'.digest
             /\ workload'[appOf'[row'.id]].config = plan'
             /\ adminCalls' = 0 => workload'[appOf'[row'.id]].up
             /\ adminCalls' = 0 /\ pc' = "mark" =>
                  /\ pods'[appOf'[row'.id]].image = workload'[appOf'[row'.id]].image
                  /\ pods'[appOf'[row'.id]].config = workload'[appOf'[row'.id]].config
  <2>1. pc' \in ComposeSteps /\ {"ready", "wait_ready", "mark"} \subseteq ComposeSteps
    BY <1>3 DEF ComposeSteps
  <2>2. ~ReadConfig
    BY <1>3 DEF ReadConfig, Abort
  <2>3. row' = row /\ pc \in ComposeSteps /\ plan' = plan
    BY <1>1, <2>1, <2>2, ComposeFrom
  <2>4. row.id \in Ids /\ row.id <= created /\ pc \in DriveSteps
    BY <1>1, <2>3, BoundAssumption
    DEF BoundAssumption, LoopInv, LoopFacts, Known, WorkSteps, DriveSteps, StoreInv, LifeInv,
        TypeOK, Ids
  <2>5. PICK a \in Apps : a = appOf[row.id]
    BY <1>1, <2>4 DEF LoopInv, StoreInv, LifeInv, Born
  <2>6. appOf'[row'.id] = a
    BY <1>1, <2>3, <2>4, <2>5, RowFate
  <2>7. a \notin deleted
    BY <1>1, <2>4, <2>5
    DEF DriveInv, HandFits, Tended, LoopInv, StoreInv, LifeInv, DeletedAppIsQuiet
  <2>8. ASSUME pc \in {"ready", "wait_ready", "mark"}
        PROVE  /\ workload[a].image = row.digest /\ workload[a].config = plan
               /\ workload'[a].image = row.digest /\ workload'[a].config = plan
               /\ adminCalls' = 0 => workload'[a].up /\ workload'[a] = workload[a]
    <3>1. /\ workload[a].image = row.digest /\ workload[a].config = plan
          /\ adminCalls = 0 => workload[a].up
      BY <2>5, <2>8 DEF RanInv, WorkloadIsThePlan
    <3>2. adminCalls = 0 => scales = {} /\ holding = {}
      BY DEF RanInv, NobodyScales
    <3> QED BY <1>1, <2>7, <2>8, <3>1, <3>2, AppObjects
  <2>9. CASE UNCHANGED loopVars
    <3>1. pc' = pc
      BY <2>9 DEF loopVars
    <3>2. ASSUME adminCalls' = 0, pc' = "mark"
          PROVE  pods'[a].image = workload'[a].image /\ pods'[a].config = workload'[a].config
      <4>1. SameTemplate(a) /\ workload[a].up
        BY <1>1, <2>5, <3>1, <3>2 DEF RanInv, WorkloadIsThePlan
      <4>2. pods'[a].image = pods[a].image /\ pods'[a].config = pods[a].config
        BY <1>1, <2>7, <4>1, AppObjects
      <4> QED BY <1>3, <2>8, <3>1, <3>2, <4>1, <4>2 DEF SameTemplate
    <3> QED BY <1>3, <2>3, <2>6, <2>8, <3>1, <3>2
  <2>10. CASE Apply
    <3>1. workload' = Composed(a, row.digest, plan) /\ pc' = "ready"
      BY <1>3, <2>5, <2>10 DEF Apply, Write, Goto, Abort
    <3>2. /\ workload'[a].image = row.digest /\ workload'[a].config = plan
          /\ workload'[a].up
      BY <1>1, <3>1 DEF Composed, LoopInv, World, WorkloadType
    <3> QED BY <2>3, <2>6, <3>1, <3>2
  <2>11. CASE WaitReady
    <3>1. pc = "wait_ready" /\ pc' # "mark"
      BY <2>11, <1>3 DEF WaitReady, Wait, Goto, Abort
    <3> QED BY <2>3, <2>6, <2>8, <3>1
  <2>12. CASE AwaitReady
    <3>1. pc = "ready" /\ UNCHANGED <<workload, pods>> /\ (pc' = "mark" => WorkloadReady(a))
      BY <1>3, <2>5, <2>12 DEF AwaitReady, Goto, podVars
    <3>2. adminCalls' = 0 /\ pc' = "mark" => SameTemplate(a)
      BY <2>8, <3>1 DEF WorkloadReady
    <3> QED BY <2>3, <2>6, <2>8, <3>1, <3>2 DEF SameTemplate
  <2> QED BY <1>1, <1>3, <2>9, <2>10, <2>11, <2>12, CameFrom
<1> QED BY <1>2, <1>3 DEF WorkloadIsThePlan, SameTemplate

\* A drive that has written its workload finds its own plan there, all along.
LEMMA RanInvariant == Spec => []RanInv
<1>1. Init => NobodyScales /\ WorkloadIsThePlan
  BY DEF Init, NobodyScales, WorkloadIsThePlan, ComposeSteps
<1>2. RanInv /\ [Next]_vars => RanInv'
  BY StepLoopInv, StepHandFits, StepSweepFits, StepNobodyScales, StepWorkloadIsThePlan
  DEF RanInv, DriveInv
<1> QED BY <1>1, <1>2, InitDriveInv, PTL DEF Spec, RanInv

\* When a release is minted every pod of the app has its image and the template of
\* its configuration, whatever set_config, a deletion or a newer deployment did
\* while the drive waited for the pods.
THEOREM ReleasesRanAsMinted == Spec => ReleaseRanAsMinted
<1>1. RanInv /\ [Next]_vars =>
        [\A a \in Apps : adminCalls = 0 /\ Len(releases'[a]) > Len(releases[a]) =>
           LET r == releases'[a][Len(releases'[a])]
           IN pods[a].image = r.digest /\ pods[a].config = r.config]_vars
  <2> SUFFICES ASSUME RanInv, [Next]_vars, NEW a \in Apps, adminCalls = 0,
                      Len(releases'[a]) > Len(releases[a])
               PROVE  LET r == releases'[a][Len(releases'[a])]
                      IN pods[a].image = r.digest /\ pods[a].config = r.config
    OBVIOUS
  <2>1. LoopInv
    BY DEF RanInv, DriveInv
  <2>2. /\ Mark /\ MarkHealthy(row.id, plan) /\ a = appOf[row.id]
        /\ releases'[a][Len(releases'[a])]
             = [dep |-> row.id, digest |-> digest[row.id], config |-> plan]
    BY <2>1, ReleasesGrow
  <2>3. pc = "mark" /\ pc \in DriveSteps
    BY <2>2 DEF Mark, DriveSteps, ComposeSteps
  <2>4. state[row.id] # "cancelled"
    BY <2>2 DEF MarkHealthy, CanMove, InFlight, InFlightStates
  <2>5. digest[row.id] = row.digest
    BY <2>3, <2>4 DEF RanInv, DriveInv, HandFits
  <2>6. workload[a].image = row.digest /\ workload[a].config = plan /\ SameTemplate(a)
    BY <2>2, <2>3 DEF RanInv, WorkloadIsThePlan
  <2> QED BY <2>2, <2>5, <2>6 DEF SameTemplate
<1> QED BY <1>1, RanInvariant, PTL DEF Spec, ReleaseRanAsMinted

-----------------------------------------------------------------------------
(* A stopped deployment's build: the Job every way of stopping must find.   *)

\* The engine of a deployment's archive, and a build whose pod has what it needs to
\* start.
SourceEngine(d) == EngineOf[upload[d]]
BuildStarted(d) == jobs[d].st \in {"pending", "running"}

\* A copy knows of the Job its row names, and in which namespace to find it; of one
\* that is over it may not.
Locates(r) ==
  r.id \in job =>
    \/ r.job /\ r.path = SourceEngine(r.id)
    \/ ~BuildAlive(r.id) /\ r.state \notin {"queued", "building"}

\* The listed rows the loop may yet take in hand: the watchdog goes through all of
\* them after the recovery has.
Coming == {r \in listing : r.id >= at \/ loop # "sweep"}

\* A row is driven by the sweep or on its own, never beside a pass of the watchdog.
Passes ==
  /\ loop \in {"idle", "claim"} \/ pc = "claim" => listing = {}
  /\ pc \in DriveSteps => loop \in {"sweep", "idle"}

\* The steps at which the copy has its build's engine.
EngineSteps == {"mint", "create", "credential", "record_start"}

\* Wherever the process stops, a build that runs is in the namespace of its engine,
\* and every copy that may yet stop it leads there.
JobsAreFound ==
  /\ \A d \in Ids : BuildAlive(d) => jobs[d].ns = BuildNamespace([path |-> SourceEngine(d)])
  /\ job \subseteq 1..created
  /\ \A d \in Ids : InFlight(d) => Locates(RowOf(d))
  /\ \A r \in Coming : InFlight(r.id) => Locates(r)
  /\ pc \in DriveSteps \cup {"failing"} /\ InFlight(row.id) => Locates(row)
  /\ pc \in EngineSteps => row.path = SourceEngine(row.id) /\ row.path # ""

\* The builds, the tables and the copies together.
FoundInv == BuiltInv /\ Passes /\ JobsAreFound

\* Only the sweep and the claim of a row start a drive.
LEMMA StepPasses == LoopInv /\ Passes /\ [Next]_vars => Passes'
<1> SUFFICES ASSUME LoopInv, Passes, [Next]_vars PROVE Passes'
  OBVIOUS
<1>1. /\ {"drive", "gate", "start", "detect", "mint", "create", "credential", "record_start",
          "await", "wait_build", "pushed", "resolve", "record_image", "promote", "config",
          "prepare", "secret", "apply", "ready", "wait_ready", "mark"} \subseteq DriveSteps
      /\ {"down", "sweep", "idle", "recover", "hand_back", "expire", "claim", "failing",
          "record", "cleanup"} \cap DriveSteps = {}
  BY DEF DriveSteps, BuildSteps, ComposeSteps
<1>2. /\ pc \in {"sweep", "recover", "expire"} => loop = pc
      /\ loop \in {"sweep", "idle", "recover", "expire", "claim"}
  BY DEF LoopInv, LoopFacts, Memory
<1> USE <1>1, <1>2 DEF Passes, around, passVars
<1>3. CASE StartSweep \/ StartTick \/ Sweep \/ Recover \/ Expire
  BY <1>3 DEF StartSweep, StartTick, List, Sweep, Recover, Expire
<1>4. CASE ClaimRow
  BY <1>4 DEF ClaimRow
<1>5. CASE ReleaseClaim \/ Cleanup \/ RecordFailure
  BY <1>5 DEF ReleaseClaim, Cleanup, RecordFailure, Return, Forget, Goto
<1>6. CASE Drive \/ Mint \/ Create \/ Credential \/ AwaitBuild \/ WaitBuild
           \/ ReadConfig \/ Prepare \/ ApplySecret \/ Apply \/ AwaitReady \/ WaitReady
  <2>1. pc \in DriveSteps
    BY <1>6 DEF Drive, Mint, Create, Credential, AwaitBuild, WaitBuild, ReadConfig,
       Prepare, ApplySecret, Apply, AwaitReady, WaitReady, Wait
  <2>2. UNCHANGED <<loop, listing>> /\ pc' # "claim"
    BY <1>6 DEF Drive, Mint, Create, Credential, AwaitBuild, WaitBuild, ReadConfig,
       Prepare, ApplySecret, Apply, Write, AwaitReady, WaitReady, Wait, Goto, Abort
  <2> QED BY <2>1, <2>2
<1>7. CASE Start \/ Detect \/ RecordStart \/ Pushed \/ Resolve \/ RecordImage \/ Promote \/ Mark
  <2>1. pc \in DriveSteps
    BY <1>7 DEF Start, Detect, RecordStart, Pushed, Resolve, RecordImage, Promote, Mark
  <2>2. UNCHANGED <<loop, listing>> /\ pc' # "claim"
    BY <1>7 DEF Start, Detect, RecordStart, Pushed, Resolve, RecordImage, Promote, Mark,
       Move, Goto, Abort
  <2> QED BY <2>1, <2>2
<1>8. CASE Gate
  <2>1. pc \in DriveSteps /\ Copy(row)
    BY <1>8 DEF Gate, LoopInv, LoopFacts, Known
  <2> QED BY <1>8, <2>1 DEF Gate, Goto, Abort, Copy, InFlightStates
<1>11. CASE StopBuild
  BY <1>11 DEF StopBuild
<1>9. CASE ReapOrphanNamespaces \/ StoreCall \/ TearDown \/ SetDisabled \/ SweepSuspended
           \/ Scale \/ JobStep \/ Rollout \/ BudgetRunsOut \/ Shutdown \/ UNCHANGED vars
  BY <1>9 DEF ReapOrphanNamespaces, StoreCall, TearDown, SetDisabled, SweepSuspended, Scale,
     JobStep, Rollout, BudgetRunsOut, Shutdown, vars, loopVars
<1>10. CASE Crash \/ Exit
  BY <1>10 DEF Crash, Exit, Die, Forget
<1> QED
  BY <1>3, <1>4, <1>5, <1>6, <1>7, <1>8, <1>9, <1>10, <1>11 DEF Next, LoopStep

\* The row in hand is not one the pass has still to come to.
LEMMA HandIsNotComing ==
  ASSUME DriveInv, Passes, pc \in DriveSteps, NEW r \in Coming
  PROVE  r.id # row.id
  BY DEF DriveInv, SweepFits, Passes, WorkSteps, Ahead, Coming

\* A row that has ended stays as it ended.
LEMMA EndedRowStays ==
  ASSUME LoopInv, [Next]_vars, NEW d \in Ids, d <= created, ~InFlight(d)
  PROVE  state'[d] = state[d]
<1>1. CASE d = row.id /\ (Start \/ Pushed \/ Promote \/ Mark \/ RecordFailure)
  BY <1>1, MovingSteps DEF Advances, KeepsRows, MovesRow
<1>2. CASE RecordImage
  BY <1>2 DEF RecordImage, RecordBuildResult, storeVars, rowVars
<1> QED BY <1>1, <1>2, RowFate

\* Only RecordBuild writes the columns a Job is found by.
LEMMA RowColumns ==
  ASSUME LoopInv, [Next]_vars, NEW d \in Ids
  PROVE  \/ path'[d] = path[d] /\ (d \in job' <=> d \in job)
         \/ RecordStart /\ d = row.id /\ (row.path # "" => path'[d] = row.path)
         \/ RecordImage /\ d = row.id /\ path'[d] = path[d]
<1> USE DEF storeVars, rowVars
<1>1. CASE UNCHANGED <<path, job>>
  BY <1>1
<1>2. CASE RecordStart \/ RecordImage
  <2>1. path \in [Ids -> Paths]
    BY DEF LoopInv, StoreInv, LifeInv, TypeOK
  <2>2. CASE RecordStart /\ RecordBuildResult(row.id, row.path, TRUE, 0)
    BY <2>1, <2>2 DEF RecordBuildResult
  <2>3. CASE RecordImage /\ RecordBuildResult(row.id, "", TRUE, row.digest)
    BY <2>1, <2>3 DEF RecordBuildResult
  <2> QED BY <1>1, <1>2, <2>2, <2>3 DEF RecordStart, RecordImage
<1>3. CASE StartSweep \/ StartTick \/ Sweep \/ Recover \/ Expire \/ ReleaseClaim \/ ClaimRow
  BY <1>1, <1>3 DEF StartSweep, StartTick, List, Sweep, Recover, Expire, ReleaseClaim,
     ReleaseBuildingClaim, ClaimRow, ClaimNext
<1>4. CASE Drive \/ Gate \/ Detect \/ Mint \/ Create \/ Credential \/ AwaitBuild \/ WaitBuild
           \/ Resolve \/ ReadConfig \/ Prepare \/ ApplySecret \/ Apply \/ AwaitReady
           \/ WaitReady \/ StopBuild \/ Cleanup
  BY <1>1, <1>4 DEF Drive, Gate, Detect, Mint, Create, Credential, AwaitBuild, WaitBuild, Wait,
     Resolve, ReadConfig, Prepare, ApplySecret, Apply, Write, AwaitReady, WaitReady, StopBuild,
     Cleanup
<1>5. CASE Start \/ Pushed \/ Promote \/ Mark \/ RecordFailure
  BY <1>1, <1>5 DEF Start, Pushed, Promote, Move, Mark, MarkHealthy, RecordFailure, Transition
<1>6. CASE StoreCall
  BY <1>1, <1>6 DEF StoreCall, CallDeploy, CallRollback, CallDelete, CallSetConfig,
     CreateDeployment, SoftDeleteApp, SetConfig
<1>7. CASE ReapOrphanNamespaces \/ TearDown \/ SetDisabled \/ SweepSuspended \/ Scale
           \/ JobStep \/ Rollout \/ BudgetRunsOut \/ Crash \/ Exit \/ Shutdown \/ UNCHANGED vars
  BY <1>1, <1>7 DEF ReapOrphanNamespaces, TearDown, SetDisabled, SweepSuspended, Scale,
     JobStep, Rollout, BudgetRunsOut, Crash, Exit, Die, Shutdown, vars
<1> QED
  BY <1>2, <1>3, <1>4, <1>5, <1>6, <1>7 DEF Next, LoopStep

\* A build comes alive only when the drive of its row creates its Job.
LEMMA AliveBefore ==
  ASSUME LoopInv, [Next]_vars, NEW d \in Ids, BuildAlive(d)'
  PROVE  \/ BuildAlive(d) /\ jobs'[d].ns = jobs[d].ns
         \/ /\ pc = "create" /\ d = row.id
            /\ jobs'[d].ns = BuildNamespace(row)
<1>1. jobs[d] \in JobType
  BY DEF LoopInv, World, JobType
<1> QED BY <1>1, JobLife DEF BuildAlive, JobMoves, JobType

\* What a copy knows of its Job stays good but under the row's own drive.
LEMMA LocatesKept ==
  ASSUME LoopInv, [Next]_vars, NEW r, r.id \in Ids, r.id <= created, Locates(r),
         pc \in {"create", "record_start", "record_image"} => r.id # row.id
  PROVE  Locates(r)'
<1>1. PICK d \in Ids : d = r.id
  OBVIOUS
<1>2. upload'[d] = upload[d]
  BY <1>1, RowFate
<1>3. d \in job' => d \in job
  BY <1>1, RowColumns DEF RecordStart, RecordImage
<1>4. BuildAlive(d)' => BuildAlive(d)
  BY <1>1, AliveBefore
<1> QED BY <1>1, <1>2, <1>3, <1>4 DEF Locates, SourceEngine, BuildAlive

\* How the copy in hand changes: in its state as the row moves, in its path at
\* Detect, in its Job at RecordStart.
CopyGoesOn ==
  \/ row' = row /\ ~RecordStart
  \/ RecordStart /\ row'.job /\ row'.path = row.path
  \/ /\ pc = "detect" /\ row'.job = row.job
     /\ row'.path = SourceEngine(row.id) /\ row'.path # ""
  \/ /\ pc \in {"start", "pushed", "promote", "resolve"}
     /\ row'.job = row.job /\ row'.path = row.path
     /\ row'.state \in {"queued", "building"} => row.state \in {"queued", "building"}

\* How a drive comes by its copy, and goes on with it.
LEMMA HandGoesOn ==
  ASSUME LoopInv, [Next]_vars, pc' \in DriveSteps \cup {"failing"}
  PROVE  \/ /\ UNCHANGED <<storeVars, jobs>>
            /\ \E r \in Coming : row' = r /\ pc' \in {"drive", "failing"}
         \/ /\ jobs' = jobs /\ pc' = "drive"
            /\ \E d \in Ids : InFlight(d) /\ row' = RowOf(d)
         \/ /\ pc \in DriveSteps \cup {"failing"} /\ row'.id = row.id /\ CopyGoesOn
            /\ pc' \in EngineSteps =>
                 \/ pc \in EngineSteps /\ row'.path = row.path
                 \/ row'.path = SourceEngine(row.id) /\ row'.path # ""
<1>1. /\ {"drive", "gate", "start", "detect", "mint", "create", "credential", "record_start",
          "await", "wait_build", "pushed", "resolve", "record_image", "promote", "config",
          "prepare", "secret", "apply", "ready", "wait_ready", "mark"} \subseteq DriveSteps
      /\ {"down", "sweep", "idle", "recover", "hand_back", "expire", "claim",
          "record", "cleanup"} \cap (DriveSteps \cup {"failing"}) = {}
  BY DEF DriveSteps, BuildSteps, ComposeSteps
<1>2. row \in RowType /\ loop \in {"sweep", "idle", "recover", "expire", "claim"}
      /\ (pc = "start" => row.state = "queued")
      /\ (pc \in BuildSteps => row.state = "building")
      /\ (pc \in DriveSteps => Copy(row))
  BY DEF LoopInv, LoopFacts, Known, Memory
<1> USE DEF around, beside, jobVars, CopyGoesOn, EngineSteps
<1>3. CASE StartSweep \/ StartTick \/ Recover \/ ReleaseClaim \/ RecordFailure \/ Cleanup
  BY <1>1, <1>2, <1>3 DEF StartSweep, StartTick, List, Recover, ReleaseClaim, RecordFailure,
     Cleanup, Return, Forget, Goto
<1>4. CASE Sweep \/ Expire
  BY <1>1, <1>4 DEF Sweep, Expire, IsNext, Ahead, Coming
<1>5. CASE ClaimRow
  <2>1. PICK d \in Ids : ClaimNext(d) /\ row' = RowOf(d) /\ pc' = "drive"
    BY <1>1, <1>5 DEF ClaimRow
  <2>2. InFlight(d)
    BY <2>1 DEF ClaimNext, NextToClaim, Fresh, Claimable
  <2> QED BY <1>5, <2>1, <2>2 DEF ClaimRow
<1>6. CASE Gate
  BY <1>1, <1>2, <1>6 DEF Gate, Goto, Abort, Copy, InFlightStates, RecordStart
<1>7. CASE Drive \/ Mint \/ Create \/ Credential \/ AwaitBuild \/ WaitBuild \/ RecordImage
  BY <1>1, <1>7 DEF Drive, Mint, Create, Credential, AwaitBuild, WaitBuild, Wait, RecordImage,
     Goto, Abort, RecordStart
<1>8. CASE ReadConfig \/ Prepare \/ ApplySecret \/ Apply \/ AwaitReady \/ WaitReady \/ Mark
  BY <1>1, <1>8 DEF ReadConfig, Prepare, ApplySecret, Apply, Write, AwaitReady, WaitReady, Wait,
     Mark, Goto, Abort, RecordStart
<1>9. CASE Detect
  <2>1. pc = "detect" /\ pc \in DriveSteps
    BY <1>1, <1>9 DEF Detect
  <2>2. CASE row' = row /\ pc' = "failing"
    BY <1>1, <1>9, <2>1, <2>2 DEF Detect, Abort, RecordStart
  <2>3. CASE /\ row' = [row EXCEPT !.path = SourceEngine(row.id)] /\ pc' = "mint"
             /\ upload[row.id] \in tarballs /\ SourceEngine(row.id) # "rejected"
    <3>1. SourceEngine(row.id) \in {"buildpacks", "dockerfile", "rejected"}
      BY <2>3, EngineOfAssumption DEF EngineOfAssumption, SourceEngine, LoopInv, World
    <3> QED BY <1>2, <2>1, <2>3, <3>1 DEF RowType
  <2> QED BY <1>9, <2>2, <2>3 DEF Detect, Abort, SourceEngine
<1>10. CASE Start \/ Pushed \/ Promote
  <2>1. /\ pc \in {"start", "pushed", "promote"} /\ pc \in DriveSteps
        /\ Start => pc = "start"
    BY <1>1, <1>10 DEF Start, Pushed, Promote
  <2>2. PICK to \in {"building", "pushing", "deploying"} : \E step \in {"detect", "gate"} :
          Advances(to, step) /\ (to = "building" => Start)
    BY <1>2, <1>10, MovingSteps
  <2>3. CASE row' = [row EXCEPT !.state = to] /\ pc' \in {"detect", "gate"}
    <3>1. row'.id = row.id /\ row'.job = row.job /\ row'.path = row.path /\ row'.state = to
      BY <1>2, <2>3 DEF RowType
    <3> QED BY <1>2, <2>1, <2>2, <2>3, <3>1
  <2>4. CASE row' = row /\ pc' \in {"cleanup", "failing"}
    BY <1>10, <2>1, <2>4 DEF RecordStart
  <2> QED BY <2>2, <2>3, <2>4 DEF Advances
<1>11. CASE Resolve
  BY <1>1, <1>2, <1>11 DEF Resolve, Abort, RowType, RecordStart
<1>12. CASE RecordStart
  BY <1>1, <1>2, <1>12 DEF RecordStart, RowType
<1>13. CASE StopBuild
  BY <1>1, <1>13 DEF StopBuild
<1>14. CASE ReapOrphanNamespaces \/ TearDown \/ SetDisabled \/ SweepSuspended \/ StoreCall
            \/ Scale \/ JobStep \/ Rollout \/ BudgetRunsOut \/ Shutdown \/ UNCHANGED vars
  <2>1. UNCHANGED loopVars
    BY <1>14 DEF ReapOrphanNamespaces, StoreCall, TearDown, SetDisabled, SweepSuspended, Scale,
       JobStep, Rollout, BudgetRunsOut, Shutdown, vars
  <2>2. RecordStart => pc' # pc
    BY DEF RecordStart
  <2> QED BY <2>1, <2>2 DEF loopVars
<1>15. CASE Crash \/ Exit
  BY <1>1, <1>15 DEF Crash, Exit, Die, Forget
<1> QED
  BY <1>3, <1>4, <1>5, <1>6, <1>7, <1>8, <1>9, <1>10, <1>11, <1>12, <1>13, <1>14, <1>15
  DEF Next, LoopStep

\* How a pass goes on: it lists what is in flight, or goes through what it listed.
LEMMA PassGoesOn ==
  ASSUME LoopInv, [Next]_vars
  PROVE  \/ listing' = InFlightRows /\ UNCHANGED <<storeVars, jobs>>
         \/ Coming' \subseteq Coming
<1>1. at \in Nat /\ \A r \in listing : r.id \in Nat
  BY BoundAssumption DEF BoundAssumption, LoopInv, Memory, RowType, Ids
<1>2. CASE UNCHANGED <<listing, at, loop>> \/ listing' = {}
  BY <1>2 DEF Coming
<1> USE DEF around, passVars, beside, jobVars
<1>3. CASE StartSweep \/ StartTick
  BY <1>2, <1>3 DEF StartSweep, StartTick, List
<1>4. CASE Sweep \/ Recover \/ Expire
  <2>1. CASE \E r \in listing : IsNext(r) /\ at' = r.id + 1 /\ UNCHANGED <<listing, loop>>
    BY <1>1, <2>1 DEF IsNext, Ahead, Coming
  <2>2. CASE listing' = listing /\ loop # "sweep"
    BY <2>2 DEF Coming
  <2> QED BY <1>2, <1>4, <2>1, <2>2 DEF Sweep, Recover, Expire, LoopInv, LoopFacts
<1>9. CASE ClaimRow
  BY <1>9 DEF ClaimRow, Coming, LoopInv, LoopFacts
<1>5. CASE ReleaseClaim \/ Drive \/ Gate \/ Start \/ Detect \/ Mint \/ Create
           \/ Credential \/ RecordStart \/ AwaitBuild \/ WaitBuild
  BY <1>2, <1>5 DEF ReleaseClaim, Return, Forget, Move, Goto, Abort, Drive, Gate, Start, Detect, Mint, Create, Credential,
     RecordStart, AwaitBuild, WaitBuild, Wait
<1>6. CASE Pushed \/ Resolve \/ RecordImage \/ Promote \/ ReadConfig \/ Prepare \/ ApplySecret
           \/ Apply \/ AwaitReady \/ WaitReady \/ Mark \/ StopBuild \/ RecordFailure \/ Cleanup
  BY <1>2, <1>6 DEF Pushed, Resolve, RecordImage, Promote, ReadConfig, Prepare, ApplySecret,
     Apply, Write, AwaitReady, WaitReady, Wait, Mark, StopBuild, RecordFailure, Cleanup,
     Return, Forget, Move, Goto, Abort
<1>7. CASE ReapOrphanNamespaces \/ StoreCall \/ TearDown \/ SetDisabled \/ SweepSuspended
           \/ Scale \/ JobStep \/ Rollout \/ BudgetRunsOut \/ Shutdown \/ UNCHANGED vars
  BY <1>2, <1>7 DEF ReapOrphanNamespaces, StoreCall, TearDown, SetDisabled, SweepSuspended,
     Scale, JobStep, Rollout, BudgetRunsOut, Shutdown, vars, loopVars
<1>8. CASE Crash \/ Exit
  BY <1>2, <1>8 DEF Crash, Exit, Die
<1> QED
  BY <1>3, <1>4, <1>5, <1>6, <1>7, <1>8, <1>9 DEF Next, LoopStep

\* Every step keeps the builds where the rows and the copies lead.
LEMMA StepFound == FoundInv /\ [Next]_vars => JobsAreFound'
<1> SUFFICES ASSUME FoundInv, [Next]_vars PROVE JobsAreFound'
  OBVIOUS
<1>1. DriveInv /\ LoopInv /\ Passes
  BY DEF FoundInv, BuiltInv, DriveInv
<1>2. /\ pc \in DriveSteps \cup {"failing"} => row.id \in Ids /\ row.id <= created
      /\ \A r \in listing : r.id \in Ids /\ r.id <= created
  BY <1>1, BoundAssumption
  DEF BoundAssumption, LoopInv, LoopFacts, Known, Copy, WorkSteps, StoreInv, LifeInv, TypeOK, Ids
<1>3. /\ RecordStart => pc = "record_start"
      /\ RecordImage => pc = "record_image"
      /\ {"mint", "create", "credential", "record_start", "record_image"} \subseteq DriveSteps
      /\ pc = "create" => row.state = "building"
      /\ pc = "detect" => row.state = "building"
      /\ pc = "record_image" => row.state = "pushing"
  BY <1>1 DEF RecordStart, RecordImage, DriveSteps, BuildSteps, LoopInv, LoopFacts, Known
<1> USE DEF EngineSteps
<1>4. \A d \in Ids : d <= created /\ InFlight(d)' => InFlight(d)
  BY <1>1, EndedRowStays DEF InFlight
<1>5. created' >= created /\ created \in Nat /\ created' \in Nat
  BY <1>1, LoopCalls, StepBirths DEF LoopInv, StoreInv
<1>6. pc = "record_image" /\ InFlight(row.id) => state[row.id] = "pushing" /\ ~BuildAlive(row.id)
  <2> SUFFICES ASSUME pc = "record_image", InFlight(row.id)
               PROVE  state[row.id] = "pushing" /\ ~BuildAlive(row.id)
    OBVIOUS
  <2>1. state[row.id] = "pushing" /\ row.id \in Ids
    BY <1>1, <1>2, <1>3 DEF DriveInv, HandFits, InFlight, InFlightStates
  <2>2. source[row.id] = 0
    BY <1>1, <2>1 DEF LoopInv, RollbacksSkipTheBuild
  <2> QED BY <2>1, <2>2 DEF FoundInv, BuiltInv, BuildsWereOver, Over, BuildAlive
<1>7. ASSUME NEW d \in Ids, BuildAlive(d)'
      PROVE  jobs'[d].ns = BuildNamespace([path |-> SourceEngine(d)])'
  <2>1. d <= created
    <3>1. BuildAlive(d) => d <= created
      BY <1>1 DEF BuildAlive, LoopInv, JobsAreBuilds
    <3> QED BY <1>1, <1>2, <1>3, <1>7, <3>1, AliveBefore
  <2>2. upload'[d] = upload[d]
    BY <1>1, <2>1, RowFate
  <2>3. CASE BuildAlive(d) /\ jobs'[d].ns = jobs[d].ns
    BY <2>2, <2>3 DEF FoundInv, JobsAreFound, SourceEngine, BuildNamespace
  <2>4. CASE pc = "create" /\ d = row.id /\ jobs'[d].ns = BuildNamespace(row)
    BY <2>2, <2>4 DEF FoundInv, JobsAreFound, SourceEngine, BuildNamespace
  <2> QED BY <1>1, <1>7, <2>3, <2>4, AliveBefore
<1>8. job' \subseteq 1..created'
  <2> SUFFICES ASSUME NEW d \in job' PROVE d \in 1..created'
    OBVIOUS
  <2>1. d \in Ids
    BY <1>1, LoopCalls, StepStoreInv DEF LoopInv, StoreInv, LifeInv, TypeOK
  <2>2. d <= created
    <3>1. job \subseteq 1..created
      BY DEF FoundInv, JobsAreFound
    <3>2. CASE d \in job
      BY <1>5, <3>1, <3>2
    <3>3. CASE RecordStart \/ RecordImage
      BY <1>1, <1>2, <1>3, <2>1, <3>2, <3>3, RowColumns
    <3> QED BY <1>1, <2>1, <3>2, <3>3, RowColumns
  <2> QED BY <1>5, <2>1, <2>2, BoundAssumption DEF BoundAssumption, Ids
<1>9. ASSUME NEW d \in Ids, InFlight(d)' PROVE Locates(RowOf(d))'
  <2>1. CASE d > created
    <3>1. d \notin 1..created
      BY <1>5, <2>1
    <3>2. d \notin job
      <4>1. job \subseteq 1..created
        BY DEF FoundInv, JobsAreFound
      <4> QED BY <3>1, <4>1
    <3>3. d \notin job'
      <4>1. RecordStart \/ RecordImage => row.id # d
        BY <1>2, <1>3, <2>1, <1>5, BoundAssumption DEF BoundAssumption, Ids
      <4> QED BY <1>1, <3>2, <4>1, RowColumns
    <3> QED BY <3>3 DEF Locates, RowOf
  <2>2. CASE d <= created
    <3>1. InFlight(d) /\ Locates(RowOf(d)) /\ upload'[d] = upload[d]
      BY <1>1, <1>4, <1>9, <2>2, RowFate DEF FoundInv, JobsAreFound
    <3>2. d \in job => path[d] = SourceEngine(d) \/ (~BuildAlive(d) /\ state[d] \notin {"queued", "building"})
      BY <3>1 DEF Locates, RowOf
    <3>3. SourceEngine(d)' = SourceEngine(d)
      BY <3>1 DEF SourceEngine
    <3> SUFFICES ASSUME d \in job'
                 PROVE  \/ path'[d] = SourceEngine(d)
                        \/ ~BuildAlive(d)' /\ state'[d] \notin {"queued", "building"}
      BY <3>3 DEF Locates, RowOf
    <3>4. state'[d] \in {"queued", "building"} => state[d] \in {"queued", "building"}
      <4>1. CASE state'[d] = state[d]
        BY <4>1
      <4>2. CASE d = row.id /\ (Start \/ Pushed \/ Promote \/ RecordImage \/ Mark \/ RecordFailure)
        <5>1. CASE RecordImage
          BY <5>1, <4>1 DEF RecordImage, RecordBuildResult, storeVars, rowVars
        <5>2. CASE KeepsRows
          BY <4>1, <5>2 DEF KeepsRows
        <5>3. CASE MovesRow("building")
          BY <4>2, <5>3 DEF MovesRow, Allowed, InFlight, InFlightStates, States, Terminal
        <5>4. CASE MovesRow("pushing") \/ MovesRow("deploying") \/ MovesRow("healthy") \/ MovesRow("failed")
          BY <1>1, <4>2, <5>4 DEF MovesRow, LoopInv, StoreInv, LifeInv, TypeOK
        <5> QED BY <1>1, <4>2, <5>1, <5>2, <5>3, <5>4, MovingSteps DEF Advances
      <4> QED BY <1>1, <2>2, <4>1, <4>2, RowFate
    <3>5. CASE RecordStart /\ d = row.id /\ (row.path # "" => path'[d] = row.path)
      BY <1>3, <3>5 DEF FoundInv, JobsAreFound
    <3>6. CASE RecordImage /\ d = row.id /\ path'[d] = path[d]
      <4>1. state[d] = "pushing" /\ ~BuildAlive(d)
        BY <1>3, <1>6, <3>1, <3>6
      <4>2. ~BuildAlive(d)'
        BY <1>1, <1>3, <3>6, <4>1, AliveBefore
      <4> QED BY <3>4, <4>1, <4>2
    <3>7. CASE path'[d] = path[d] /\ (d \in job' <=> d \in job)
      <4>1. CASE path[d] = SourceEngine(d)
        BY <3>7, <4>1
      <4>2. CASE ~BuildAlive(d) /\ state[d] \notin {"queued", "building"}
        <5>1. ~(pc = "create" /\ d = row.id)
          BY <1>1, <1>3, <3>1, <4>2 DEF DriveInv, HandFits, InFlight, InFlightStates
        <5>2. ~BuildAlive(d)'
          BY <1>1, <4>2, <5>1, AliveBefore
        <5> QED BY <3>4, <4>2, <5>2
      <4> QED BY <3>2, <3>7, <4>1, <4>2
    <3> QED BY <1>1, <3>5, <3>6, <3>7, RowColumns
  <2> QED BY <1>5, <2>1, <2>2 DEF Ids
<1>10. ASSUME NEW r \in Coming', InFlight(r.id)' PROVE Locates(r)'
  <2>1. CASE listing' = InFlightRows /\ UNCHANGED <<storeVars, jobs>>
    <3>1. PICK d \in Ids : r = RowOf(d) /\ InFlight(d)
      BY <2>1 DEF Coming, InFlightRows, Listed, RowOf, InFlight
    <3>2. Locates(RowOf(d))
      BY <3>1 DEF FoundInv, JobsAreFound
    <3> QED BY <2>1, <3>1, <3>2
        DEF Locates, BuildAlive, SourceEngine, storeVars, rowVars, birthVars
  <2>2. CASE Coming' \subseteq Coming
    <3>1. r \in Coming /\ r.id \in Ids /\ r.id <= created
      BY <1>2, <2>2 DEF Coming
    <3>2. Locates(r)
      BY <1>4, <1>10, <3>1 DEF FoundInv, JobsAreFound
    <3>3. pc \in {"create", "record_start", "record_image"} => r.id # row.id
      BY <1>1, <1>3, <3>1, HandIsNotComing
    <3> QED BY <1>1, <3>1, <3>2, <3>3, LocatesKept
  <2> QED BY <1>1, <2>1, <2>2, PassGoesOn
<1>11. ASSUME pc' \in DriveSteps \cup {"failing"}, InFlight(row.id)' PROVE Locates(row)'
  <2>1. CASE /\ UNCHANGED <<storeVars, jobs>>
             /\ \E r \in Coming : row' = r /\ pc' \in {"drive", "failing"}
    <3>1. PICK r \in Coming : row' = r
      BY <2>1
    <3>2. Locates(r)
      BY <1>2, <1>4, <1>11, <3>1 DEF FoundInv, JobsAreFound, Coming
    <3> QED BY <2>1, <3>1, <3>2
        DEF Locates, BuildAlive, SourceEngine, storeVars, rowVars, birthVars
  <2>2. CASE jobs' = jobs /\ pc' = "drive" /\ \E d \in Ids : InFlight(d) /\ row' = RowOf(d)
    <3>1. PICK d \in Ids : InFlight(d) /\ row' = RowOf(d)
      BY <2>2
    <3>2. Locates(RowOf(d)) /\ RowOf(d).id = d
      BY <3>1 DEF FoundInv, JobsAreFound, RowOf
    <3>3. d <= created
      BY <1>1, <3>1 DEF InFlight, InFlightStates, LoopInv, StoreInv, LifeInv, Born, TypeOK, Ids
    <3>4. ~RecordStart /\ ~RecordImage
      BY <2>2 DEF RecordStart, RecordImage, Goto, Abort
    <3>5. upload'[d] = upload[d] /\ (d \in job' <=> d \in job)
      BY <1>1, <3>3, <3>4, RowFate, RowColumns
    <3> QED BY <2>2, <3>1, <3>2, <3>5 DEF Locates, BuildAlive, SourceEngine
  <2>3. CASE pc \in DriveSteps \cup {"failing"} /\ row'.id = row.id /\ CopyGoesOn
    <3>1. PICK d \in Ids : d = row.id /\ d <= created
      BY <1>2, <2>3
    <3>2. InFlight(d) /\ Locates(row)
      BY <1>4, <1>11, <2>3, <3>1 DEF FoundInv, JobsAreFound
    <3>3. SourceEngine(d)' = SourceEngine(d)
      BY <1>1, <3>1, RowFate DEF SourceEngine
    <3> SUFFICES ASSUME d \in job'
                 PROVE  \/ row'.job /\ row'.path = SourceEngine(d)
                        \/ ~BuildAlive(d)' /\ row'.state \notin {"queued", "building"}
      BY <2>3, <3>1, <3>3 DEF Locates
    <3>4. CASE RecordStart /\ row'.job /\ row'.path = row.path
      BY <1>3, <3>1, <3>4 DEF FoundInv, JobsAreFound
    <3>5. CASE RecordImage /\ row' = row
      <4>1. ~BuildAlive(d)'
        BY <1>1, <1>3, <1>6, <3>1, <3>2, <3>5, AliveBefore
      <4> QED BY <1>3, <3>5, <4>1
    <3>6. CASE ~RecordStart /\ ~RecordImage
      <4>1. d \in job
        BY <1>1, <3>6, RowColumns
      <4>2. \/ row.job /\ row.path = SourceEngine(d)
            \/ ~BuildAlive(d) /\ row.state \notin {"queued", "building"}
        BY <3>1, <3>2, <4>1 DEF Locates
      <4>3. pc # "create" /\ ~BuildAlive(d) => ~BuildAlive(d)'
        BY <1>1, AliveBefore
      <4>4. CASE row' = row
        BY <1>3, <4>2, <4>3, <4>4
      <4>5. CASE pc = "detect" /\ row'.job = row.job /\ row'.path = SourceEngine(row.id)
        BY <1>3, <3>1, <4>2, <4>5
      <4>6. CASE /\ pc \in {"start", "pushed", "promote", "resolve"}
                 /\ row'.job = row.job /\ row'.path = row.path
                 /\ row'.state \in {"queued", "building"} => row.state \in {"queued", "building"}
        BY <4>2, <4>3, <4>6
      <4> QED BY <1>1, <1>11, <2>3, <3>6, <4>4, <4>5, <4>6 DEF CopyGoesOn
    <3> QED BY <1>3, <2>3, <3>4, <3>5, <3>6 DEF CopyGoesOn
  <2> QED BY <1>1, <1>11, <2>1, <2>2, <2>3, HandGoesOn
<1>12. ASSUME pc' \in EngineSteps
       PROVE  row'.path = SourceEngine(row.id)' /\ row'.path # ""
  <2>1. pc' \in DriveSteps /\ pc' # "drive" /\ pc' # "failing"
    BY <1>3, <1>12 DEF EngineSteps
  <2>2. pc \in DriveSteps \cup {"failing"} /\ row'.id = row.id
    BY <1>1, <2>1, HandGoesOn
  <2>3. SourceEngine(row.id)' = SourceEngine(row.id)
    BY <1>1, <1>2, <2>2, RowFate DEF SourceEngine
  <2> QED BY <1>1, <1>12, <2>1, <2>3, HandGoesOn DEF FoundInv, JobsAreFound
<1> QED BY <1>7, <1>8, <1>9, <1>10, <1>11, <1>12 DEF JobsAreFound

\* The reasons that stop a build, a process that nothing went wrong for, and one that
\* has not been cut off either.
StopReasons == {"timeout", "account_suspended"}
Untroubled  == faults = 0 /\ shutdowns = 0
Unbroken    == Untroubled /\ crashes = 0

\* The builds that stopping a deployment ends: those its row names, and where no crash
\* came between all that have started.
Owed(d) == d \in job \/ (crashes = 0 /\ BuildStarted(d))

\* A build that starts is on its row, or in the copy that its own drive holds.
StartsAreNamed ==
  Unbroken => \A d \in Ids : InFlight(d) /\ BuildStarted(d) =>
    \/ d \in job
    \/ /\ d = row.id
       /\ \/ pc \in {"record_start", "record"}
          \/ pc = "failing" /\ row.job /\ row.path = SourceEngine(d)

\* A build is stopped before the reason is recorded, and is not started again.
StopsHold ==
  /\ faults \in Nat /\ shutdowns \in Nat /\ crashes \in Nat
  /\ stopping => shutdowns # 0
  /\ \A d \in Ids : reason[d] \in StopReasons => state[d] = "failed"
  /\ StartsAreNamed
  /\ Untroubled /\ pc = "record" /\ why \in StopReasons /\ Owed(row.id) =>
       ~InFlight(row.id) \/ ~BuildAlive(row.id)
  /\ Untroubled => \A d \in Ids : reason[d] \in StopReasons /\ Owed(d) => ~BuildAlive(d)

StopInv == FoundInv /\ StopsHold

\* Faults, shutdowns and crashes are counted, never taken back.
LEMMA TroublesCount ==
  ASSUME LoopInv, [Next]_vars
  PROVE  /\ faults' = faults \/ faults' = faults + 1
         /\ shutdowns' = shutdowns \/ shutdowns' = shutdowns + 1
         /\ crashes' = crashes \/ crashes' = crashes + 1
         /\ stopping' => stopping \/ shutdowns' = shutdowns + 1
<1> USE DEF Fault, Works, Errs, WorksOutside, ErrsOutside, around, beside, hostVars
<1>1. CASE StartSweep \/ StartTick \/ Sweep \/ Recover \/ ReleaseClaim \/ Expire \/ ClaimRow
  BY <1>1 DEF StartSweep, StartTick, List, Sweep, Recover, ReleaseClaim, Expire, ClaimRow
<1>2. CASE Start \/ Pushed \/ Promote
  BY <1>2 DEF Start, Pushed, Promote, Move
<1>7. CASE Mark
  BY <1>7 DEF Mark
<1>8. CASE RecordImage
  BY <1>8 DEF RecordImage
<1>11. CASE RecordStart
  BY <1>11 DEF RecordStart
<1>3. CASE Drive \/ Gate \/ Detect \/ Mint \/ Create \/ Credential \/ AwaitBuild \/ WaitBuild
           \/ Resolve \/ ReadConfig
  BY <1>3 DEF Drive, Gate, Detect, Mint, Create, Credential, AwaitBuild, WaitBuild, Wait, Resolve,
     ReadConfig
<1>4. CASE Prepare \/ ApplySecret \/ Apply \/ AwaitReady \/ WaitReady \/ StopBuild
           \/ RecordFailure \/ Cleanup
  BY <1>4 DEF Prepare, ApplySecret, Apply, Write, AwaitReady, WaitReady, Wait, StopBuild,
     RecordFailure, Cleanup
<1>5. CASE ReapOrphanNamespaces \/ StoreCall \/ TearDown \/ SetDisabled \/ SweepSuspended
           \/ JobStep \/ Rollout \/ BudgetRunsOut
  BY <1>5 DEF ReapOrphanNamespaces, StoreCall, TearDown, SetDisabled, SweepSuspended, JobStep,
     Rollout, BudgetRunsOut
<1>9. CASE Scale
  BY <1>9 DEF Scale
<1>10. CASE Shutdown \/ UNCHANGED vars
  BY <1>10 DEF Shutdown, vars
<1>6. CASE Crash \/ Exit
  BY <1>6 DEF Crash, Exit, Die
<1> QED
  BY <1>1, <1>2, <1>3, <1>4, <1>5, <1>6, <1>7, <1>8, <1>9, <1>10, <1>11 DEF Next, LoopStep

\* A deployment's reason is that of the failure the loop records, or it was superseded.
LEMMA ReasonFate ==
  ASSUME LoopInv, [Next]_vars, NEW d \in Ids
  PROVE  \/ reason'[d] = reason[d]
         \/ reason'[d] = "superseded"
         \/ /\ pc = "record" /\ d = row.id /\ InFlight(d)
            /\ reason'[d] = why /\ state'[d] = "failed" /\ jobs' = jobs /\ job' = job
<1>1. CASE UNCHANGED reason
  BY <1>1
<1> USE DEF storeVars, rowVars
<1>2. CASE StoreCall
  BY <1>1, <1>2 DEF StoreCall, CallDeploy, CallRollback, CallDelete, CallSetConfig,
     CreateDeployment, SoftDeleteApp, SetConfig
<1>3. CASE Start \/ Pushed \/ Promote
  BY <1>3 DEF Start, Pushed, Promote, Move, Transition, LoopInv, StoreInv, LifeInv, TypeOK
<1>4. CASE RecordImage \/ Mark
  BY <1>1, <1>4 DEF RecordImage, RecordBuildResult, Mark, MarkHealthy
<1>5. CASE RecordFailure
  <2>1. CASE Transition(row.id, "failed", why)
    <3>1. reason \in [Ids -> Reasons] /\ state \in [Ids -> States \cup {"absent"}]
      BY DEF LoopInv, StoreInv, LifeInv, TypeOK
    <3>2. pc = "record" /\ UNCHANGED <<jobs, job>>
      BY <1>5, <2>1 DEF RecordFailure, Transition, jobVars
    <3> QED BY <2>1, <3>1, <3>2 DEF Transition, CanMove, ApplyTransition
  <2> QED BY <1>1, <1>5, <2>1 DEF RecordFailure
<1> QED BY <1>1, <1>2, <1>3, <1>4, <1>5, QuietSteps

\* A build starts only when the drive of its row has applied its credential.
LEMMA StartedBefore ==
  ASSUME LoopInv, [Next]_vars, NEW d \in Ids, BuildStarted(d)'
  PROVE  BuildStarted(d) \/ (Credential /\ d = row.id)
<1>1. jobs[d] \in JobType
  BY DEF LoopInv, World, JobType
<1> QED BY <1>1, JobLife DEF BuildStarted, JobMoves, JobType

\* Once a drive has its build's name to write, only its own next step moves the loop.
LEMMA EndSteps ==
  ASSUME [Next]_vars, pc \in {"record_start", "failing", "record"}
  PROVE  \/ pc = "record_start" /\ RecordStart
         \/ pc = "failing" /\ StopBuild
         \/ pc = "record" /\ RecordFailure
         \/ UNCHANGED loopVars
         \/ Crash \/ Exit
<1>1. ~(StartSweep \/ StartTick \/ Sweep \/ Recover \/ ReleaseClaim \/ Expire \/ ClaimRow)
  BY DEF StartSweep, StartTick, List, Sweep, Recover, ReleaseClaim, Expire, ClaimRow
<1>2. ~(Drive \/ Gate \/ Start \/ Detect \/ Mint \/ Create \/ Credential \/ AwaitBuild
        \/ WaitBuild \/ Pushed \/ Resolve)
  BY DEF Drive, Gate, Start, Detect, Mint, Create, Credential, AwaitBuild, WaitBuild, Wait,
     Pushed, Resolve
<1>3. ~(RecordImage \/ Promote \/ ReadConfig \/ Prepare \/ ApplySecret \/ Apply \/ AwaitReady
        \/ WaitReady \/ Mark \/ Cleanup)
  BY DEF RecordImage, Promote, ReadConfig, Prepare, ApplySecret, Apply, AwaitReady, WaitReady,
     Wait, Mark, Cleanup
<1>4. CASE RecordStart \/ StopBuild \/ RecordFailure
  BY <1>4 DEF RecordStart, StopBuild, RecordFailure
<1>5. CASE ReapOrphanNamespaces \/ StoreCall \/ TearDown \/ SetDisabled \/ SweepSuspended
           \/ Scale \/ JobStep \/ Rollout \/ BudgetRunsOut \/ Shutdown \/ UNCHANGED vars
  BY <1>5 DEF ReapOrphanNamespaces, StoreCall, TearDown, SetDisabled, SweepSuspended, Scale,
     JobStep, Rollout, BudgetRunsOut, Shutdown, vars
<1>6. CASE Crash \/ Exit
  BY <1>6
<1> QED BY <1>1, <1>2, <1>3, <1>4, <1>5, <1>6 DEF Next, LoopStep

\* The names of Jobs are only added to the rows.
LEMMA NamesStay ==
  ASSUME LoopInv, [Next]_vars, NEW d \in job, d \in Ids
  PROVE  d \in job'
<1>1. CASE RecordStart
  BY <1>1 DEF RecordStart, RecordBuildResult, storeVars, rowVars
<1>2. CASE RecordImage
  BY <1>2 DEF RecordImage, RecordBuildResult, storeVars, rowVars
<1> QED BY <1>1, <1>2, RowColumns

\* The process goes on, and no call it makes is refused.
LEMMA GoesOn ==
  ASSUME LoopInv, StopsHold, [Next]_vars
  PROVE  /\ Untroubled' => Untroubled /\ ~stopping /\ ~Fault
         /\ Unbroken' => Unbroken /\ ~Crash /\ ~Exit
         /\ faults' \in Nat /\ shutdowns' \in Nat /\ crashes' \in Nat
         /\ stopping' => shutdowns' # 0
  BY TroublesCount DEF StopsHold, Untroubled, Unbroken, Crash, Exit, Fault

\* Where a copy leads to its Job, stopping the build ends it.
LEMMA BuildIsStopped ==
  ASSUME FoundInv, StopsHold, [Next]_vars, StopBuild, Untroubled',
         why' \in StopReasons, row.id \in Ids, Owed(row.id), InFlight(row.id)
  PROVE  ~BuildAlive(row.id)'
<1>1. /\ pc = "failing" /\ why' = (IF Spent THEN "timeout" ELSE why)
      /\ Untroubled /\ ~stopping /\ ~Fault
  BY GoesOn DEF StopBuild, FoundInv, BuiltInv, DriveInv
<1>2. Locates(row) /\ jobs \in [Ids -> JobType]
  BY <1>1 DEF FoundInv, JobsAreFound, BuiltInv, DriveInv, LoopInv, World, JobType
<1>3. CASE ~BuildAlive(row.id)
  BY <1>2, <1>3 DEF StopBuild, DeleteJob, BuildAlive, JobType
<1>4. CASE BuildAlive(row.id)
  <2>1. row.job /\ row.path = SourceEngine(row.id)
    <3>1. CASE row.id \in job
      BY <1>2, <1>4, <3>1 DEF Locates
    <3>2. CASE row.id \notin job
      BY <1>1, <3>2 DEF Owed, Unbroken, StopsHold, StartsAreNamed
    <3> QED BY <3>1, <3>2
  <2>2. jobs[row.id].ns = BuildNamespace(row)
    BY <1>4, <2>1 DEF FoundInv, JobsAreFound, BuildNamespace
  <2>4. jobs' = DeleteJob(BuildNamespace(row), row.id)
    <3>1. ~ErrsOutside
      BY <1>1 DEF ErrsOutside
    <3>2. /\ (IF Spent THEN "timeout" ELSE why) \in {"timeout", "account_suspended"}
          /\ row.job
      BY <1>1, <2>1 DEF StopReasons
    <3> QED BY <3>1, <3>2, Zenon DEF StopBuild
  <2>5. jobs'[row.id].st = "gone" /\ row' = row
    BY <1>2, <2>2, <2>4 DEF DeleteJob, JobType, StopBuild
  <2> QED BY <2>5 DEF BuildAlive
<1> QED BY <1>3, <1>4

\* A drive writes the name of the build it started, and until then holds it.
LEMMA StepStarts == StopInv /\ [Next]_vars => StartsAreNamed'
<1> SUFFICES ASSUME StopInv, [Next]_vars, Unbroken', NEW d \in Ids, InFlight(d)', BuildStarted(d)',
                    d \notin job'
             PROVE  /\ d = row'.id
                    /\ \/ pc' \in {"record_start", "record"}
                       \/ pc' = "failing" /\ row'.job /\ row'.path = SourceEngine(d)'
  BY DEF StartsAreNamed
<1>1. /\ FoundInv /\ StopsHold /\ LoopInv /\ Unbroken /\ Untroubled'
      /\ ~stopping /\ ~Fault /\ ~Crash /\ ~Exit
  BY GoesOn DEF StopInv, FoundInv, BuiltInv, DriveInv, Unbroken
<1>2. /\ d \notin job
      /\ pc = "record_start" => row \in RowType
  <2>1. d \notin job
    BY <1>1, NamesStay
  <2> QED BY <1>1, <2>1 DEF LoopInv, Memory
<1>3. CASE ~BuildStarted(d)
  <2>1. Credential /\ d = row.id
    BY <1>1, <1>3, StartedBefore
  <2>2. CASE Works /\ Goto("record_start")
    BY <2>1, <2>2 DEF Goto
  <2>3. CASE Errs /\ Spent /\ UNCHANGED jobs
    BY <1>3, <2>3 DEF BuildStarted
  <2> QED BY <1>1, <2>1, <2>2, <2>3 DEF Credential, Errs
<1>4. CASE BuildStarted(d)
  <2>1. d <= created /\ upload'[d] = upload[d]
    BY <1>1, <1>4, RowFate DEF BuildStarted, LoopInv, JobsAreBuilds
  <2>2. InFlight(d)
    BY <1>1, <2>1, EndedRowStays DEF InFlight
  <2>3. /\ d = row.id
        /\ \/ pc \in {"record_start", "record"}
           \/ pc = "failing" /\ row.job /\ row.path = SourceEngine(d)
    BY <1>1, <1>2, <1>4, <2>2 DEF StopsHold, StartsAreNamed
  <2>4. SourceEngine(d)' = SourceEngine(d)
    BY <2>1 DEF SourceEngine
  <2>5. CASE UNCHANGED loopVars
    BY <2>3, <2>4, <2>5 DEF loopVars
  <2>6. CASE pc = "record_start" /\ RecordStart
    <3>1. ~RecordBuildResult(row.id, row.path, TRUE, 0)
      BY <2>3 DEF RecordBuildResult
    <3>2. pc' = "failing" /\ row' = [row EXCEPT !.job = TRUE]
      BY <2>6, <3>1 DEF RecordStart
    <3>3. row'.job /\ row'.path = row.path /\ row'.id = row.id
      BY <1>2, <2>6, <3>2 DEF RowType
    <3>4. row.path = SourceEngine(row.id)
      BY <1>1, <2>6 DEF FoundInv, JobsAreFound, EngineSteps
    <3> QED BY <2>3, <2>4, <3>2, <3>3, <3>4
  <2>7. CASE pc = "failing" /\ StopBuild
    BY <2>3, <2>7 DEF StopBuild
  <2>8. CASE pc = "record" /\ RecordFailure
    <3>1. ~Ended
      BY <2>2, <2>3 DEF Ended, InFlight, InFlightStates, Terminal
    <3>2. Transition(row.id, "failed", why)
      BY <1>1, <2>8, <3>1 DEF RecordFailure
    <3>3. state'[d] = "failed"
      BY <1>1, <2>3, <3>2 DEF Transition, ApplyTransition, LoopInv, StoreInv, LifeInv, TypeOK
    <3> QED BY <3>3 DEF InFlight, InFlightStates
  <2> QED BY <1>1, <2>3, <2>5, <2>6, <2>7, <2>8, EndSteps
<1> QED BY <1>3, <1>4

\* No step records a stop it has not made, or starts again what was stopped.
LEMMA StepStops == StopInv /\ [Next]_vars => StopsHold'
<1> SUFFICES ASSUME StopInv, [Next]_vars PROVE StopsHold'
  OBVIOUS
<1>1. FoundInv /\ StopsHold /\ DriveInv /\ LoopInv
  BY DEF StopInv, FoundInv, BuiltInv, DriveInv
<1>2. /\ pc \in WorkSteps => row.id \in Ids /\ row.id <= created
      /\ DriveSteps \cup {"failing", "record"} \subseteq WorkSteps
      /\ {"create", "credential"} \subseteq DriveSteps
      /\ RecordStart \/ RecordImage \/ Credential => pc \in DriveSteps
  <2>1. pc \in WorkSteps => row.id \in Ids /\ row.id <= created
    BY <1>1, BoundAssumption
    DEF BoundAssumption, LoopInv, LoopFacts, Known, StoreInv, LifeInv, TypeOK, Ids
  <2> QED BY <2>1 DEF WorkSteps, DriveSteps, BuildSteps, RecordStart, RecordImage, Credential
<1>3. /\ faults' \in Nat /\ shutdowns' \in Nat /\ crashes' \in Nat
      /\ Untroubled' => Untroubled
      /\ crashes' = 0 => crashes = 0
      /\ stopping' => shutdowns' # 0
  BY <1>1, GoesOn, TroublesCount DEF StopsHold
<1>4. pc \in DriveSteps => state[row.id] # "failed"
  BY <1>1 DEF DriveInv, HandFits, LoopInv, LoopFacts, Known, Copy, InFlightStates
<1>5. ASSUME NEW d \in Ids, reason[d] \in StopReasons
      PROVE  state[d] = "failed" /\ state'[d] = "failed" /\ d <= created
  <2>1. state[d] = "failed"
    BY <1>1, <1>5 DEF StopsHold
  <2>2. d <= created
    BY <1>1, <2>1, BoundAssumption
    DEF BoundAssumption, LoopInv, StoreInv, LifeInv, Born, TypeOK, Ids
  <2>3. state'[d] = state[d]
    BY <1>1, <2>1, <2>2, EndedRowStays DEF InFlight, InFlightStates
  <2> QED BY <2>1, <2>2, <2>3
<1>6. "superseded" \notin StopReasons
  BY DEF StopReasons
<1>7. ASSUME NEW d \in Ids, reason'[d] \in StopReasons PROVE state'[d] = "failed"
  BY <1>1, <1>5, <1>6, <1>7, ReasonFate
<1>10. ASSUME NEW d \in Ids, Owed(d)', pc \in DriveSteps => d # row.id PROVE Owed(d)
  <2>1. CASE d \in job'
    BY <1>1, <1>2, <1>10, <2>1, RowColumns DEF Owed
  <2>2. CASE crashes' = 0 /\ BuildStarted(d)'
    BY <1>1, <1>2, <1>3, <1>10, <2>2, StartedBefore DEF Owed
  <2> QED BY <1>10, <2>1, <2>2 DEF Owed
<1>8. ASSUME Untroubled', NEW d \in Ids, reason'[d] \in StopReasons, Owed(d)'
      PROVE  ~BuildAlive(d)'
  <2>1. CASE reason'[d] = reason[d]
    <3>1. pc \in DriveSteps => d # row.id
      BY <1>4, <1>5, <1>8, <2>1
    <3>3. ~BuildAlive(d)
      BY <1>1, <1>3, <1>8, <1>10, <2>1, <3>1 DEF StopsHold
    <3> QED BY <1>1, <1>2, <3>1, <3>3, AliveBefore
  <2>2. CASE /\ pc = "record" /\ d = row.id /\ InFlight(d)
             /\ reason'[d] = why /\ jobs' = jobs /\ job' = job
    <3>1. Owed(d)
      BY <1>3, <1>8, <2>2 DEF Owed, BuildStarted
    <3>2. ~BuildAlive(d)
      BY <1>1, <1>3, <1>8, <2>2, <3>1 DEF StopsHold
    <3> QED BY <2>2, <3>2 DEF BuildAlive
  <2> QED BY <1>1, <1>6, <1>8, <2>1, <2>2, ReasonFate
<1>9. ASSUME Untroubled', pc' = "record", why' \in StopReasons, Owed(row.id)', InFlight(row.id)'
      PROVE  ~BuildAlive(row.id)'
  <2>1. row' = row /\ pc \in WorkSteps /\ pc \notin DriveSteps
    <3>1. CASE StopBuild
      BY <1>2, <3>1 DEF StopBuild, DriveSteps, BuildSteps, ComposeSteps
    <3>2. CASE UNCHANGED loopVars
      BY <1>2, <1>9, <3>2 DEF loopVars, DriveSteps, BuildSteps, ComposeSteps
    <3> QED BY <1>1, <1>9, <3>1, <3>2, CameFrom DEF StopReasons
  <2>2. PICK d \in Ids : d = row.id /\ d <= created
    BY <1>2, <2>1
  <2>3. Owed(d) /\ InFlight(d)
    <3>1. Owed(d)'
      BY <1>9, <2>1, <2>2 DEF Owed, BuildStarted
    <3>2. InFlight(d)'
      BY <1>9, <2>1, <2>2 DEF InFlight
    <3> QED BY <1>1, <1>10, <2>1, <2>2, <3>1, <3>2, EndedRowStays DEF InFlight
  <2>4. CASE StopBuild
    <3>1. ~BuildAlive(row.id)'
      BY <1>1, <1>9, <2>2, <2>3, <2>4, BuildIsStopped
    <3> QED BY <3>1
  <2>5. CASE pc = "record" /\ UNCHANGED <<row, why>>
    <3>1. ~BuildAlive(d)
      BY <1>1, <1>3, <1>9, <2>2, <2>3, <2>5 DEF StopsHold
    <3>2. ~BuildAlive(d)'
      BY <1>1, <2>5, <3>1, AliveBefore
    <3> QED BY <2>1, <2>2, <3>2 DEF BuildAlive
  <2> QED BY <1>1, <1>9, <2>4, <2>5, CameFrom DEF StopReasons, loopVars
<1> QED BY <1>3, <1>7, <1>8, <1>9, StepStarts DEF StopsHold

\* What a drive knows of its build suffices to stop it, all along.
LEMMA StopInvariant == Spec => []StopInv
<1>1. Init => StopInv
  <2> SUFFICES ASSUME Init PROVE StopInv
    OBVIOUS
  <2>1. BuiltInv
    BY InitDriveInv DEF Init, StoreInit, BuiltInv, BuildsWereOver
  <2>2. Passes /\ JobsAreFound
    BY DEF Init, StoreInit, Passes, JobsAreFound, Coming, BuildAlive, NoJob, InFlight, InFlightStates,
       EngineSteps, DriveSteps, BuildSteps, ComposeSteps
  <2>3. StopsHold
    BY DEF Init, StoreInit, StopsHold, StartsAreNamed, Owed, BuildAlive, BuildStarted, NoJob,
       StopReasons
  <2> QED BY <2>1, <2>2, <2>3 DEF StopInv, FoundInv
<1>2. StopInv /\ [Next]_vars => StopInv'
  BY StepLoopInv, StepHandFits, StepSweepFits, StepBuilt, StepPasses, StepFound, StepStops
  DEF StopInv, FoundInv, BuiltInv, DriveInv
<1> QED BY <1>1, <1>2, PTL DEF Spec

\* A deployment recorded as timed out, or as stopped by a suspension, has no build of
\* its own running: the copy that the drive, the sweep after a restart or the watchdog
\* works from leads to the Job, in the namespace of the engine, whoever created it.
\* The two builds the property allows for are those no row names: one a crash cut off
\* from its row, and one whose pod waits for a credential that never came.
THEOREM StoppedBuildsAreStopped == Spec => []StoppedDeployStopsItsBuild
<1>1. StopInv => StoppedDeployStopsItsBuild
  <2> SUFFICES ASSUME StopInv, NEW d \in Ids, Untroubled, reason[d] \in StopReasons, BuildAlive(d)
               PROVE  d \notin job /\ (crashes > 0 \/ jobs[d].st = "created")
    BY DEF StoppedDeployStopsItsBuild, Untroubled, StopReasons
  <2>1. ~Owed(d) /\ crashes \in Nat
    BY DEF StopInv, StopsHold
  <2> QED BY <2>1 DEF Owed, BuildAlive, BuildStarted
<1> QED BY <1>1, StopInvariant, PTL

=============================================================================
