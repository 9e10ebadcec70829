------------------------------- MODULE Backup -------------------------------
(***************************************************************************)
(* The platform's own backups (src/internal/backup): the schedule and the   *)
(* admin's button each drive a run from a snapshot on the volume to an       *)
(* object in the bucket, one row of backup_runs records it, and a mail says  *)
(* when runs start and stop failing.                                         *)
(*                                                                         *)
(* at[c] is what caller c holds between two of its calls: its next step,    *)
(* the row it inserted, the outcome it read before that, and the reason its  *)
(* run failed for.  Runs are numbered in the order their rows start.         *)
(***************************************************************************)
EXTENDS Naturals, Sequences, FiniteSets, FiniteSetsExt

CONSTANTS
  Buttons,                            \* requests of admins
  MaxRuns, MaxFaults, MaxRestarts     \* bounds on rows, failures and restarts

ASSUME BackupAssumption ==
  {MaxRuns, MaxFaults, MaxRestarts} \subseteq Nat /\ Buttons \subseteq STRING \ {"schedule"}

VARIABLES
  rows,      \* backup_runs, oldest first
  volume,    \* the temporary files, as <<run, kind>>
  bucket,    \* what each run's key holds
  mail,      \* the alert each run raised
  process,   \* "up", "stopping" after SIGTERM, or "down"
  overdue,   \* no success is younger than the interval
  at,        \* the callers
  faults, restarts,
  unwritten, \* runs whose last write failed
  unremoved, \* runs whose files could not be removed
  misread    \* runs whose reading of the previous outcome was refused or outrun

vars == <<rows, volume, bucket, mail, process, overdue, at, faults, restarts, unwritten,
          unremoved, misread>>
record == <<rows, overdue, unwritten>>
world  == <<volume, bucket, unremoved>>

Sched   == "schedule"
Callers == Buttons \union {Sched}
Runs    == 1 .. MaxRuns
Reasons == {"snapshot_failed", "integrity_failed", "encrypt_failed", "upload_failed",
            "verify_failed", "internal", "stranded"}
Row     == [outcome : {"running", "succeeded", "failed"}, reason : Reasons \union {""},
            trigger : {"schedule", "manual"}]
Steps   == {"off", "due", "timer", "tick", "previous", "start", "snapshot", "encrypt", "put",
            "verify", "succeed", "cleanup", "fail", "alert"}
Caller  == [step : Steps, run : Runs \union {0}, previous : {"", "succeeded", "failed"},
            reason : Reasons \union {""}, sure : BOOLEAN]
Off     == [step |-> "off", run |-> 0, previous |-> "", reason |-> "", sure |-> TRUE]

-----------------------------------------------------------------------------
(* Queries: the record holds at most one running row, by its partial index. *)

Running  == {r \in DOMAIN rows : rows[r].outcome = "running"}
Terminal == {r \in DOMAIN rows : rows[r].outcome \in {"succeeded", "failed"}}
LatestTerminal == IF Terminal = {} THEN "" ELSE rows[Max(Terminal)].outcome
LatestSucceeded == {r \in DOMAIN rows : rows[r].outcome = "succeeded"}

\* Bug: the partial unique index is missing.
InsertBackupRun_Unguarded(trigger) ==
  rows' = Append(rows, [outcome |-> "running", reason |-> "", trigger |-> trigger])
InsertBackupRun(trigger) ==
  /\ Running = {}
  /\ rows' = Append(rows, [outcome |-> "running", reason |-> "", trigger |-> trigger])
FinishBackupRun(r, outcome, reason) ==
  /\ r \in Running
  /\ rows' = [rows EXCEPT ![r].outcome = outcome, ![r].reason = reason]
StrandRunningBackupRuns ==
  rows' = [r \in DOMAIN rows |->
             IF r \in Running THEN [rows[r] EXCEPT !.outcome = "failed", !.reason = "stranded"]
             ELSE rows[r]]

-----------------------------------------------------------------------------
(* What may go wrong with a call of c: anything while faults last, and      *)
(* everything that takes a context once SIGTERM cancelled the schedule's.   *)

Cancelled(c) == c = Sched /\ process = "stopping"
Faulty(c) ==
  \/ Cancelled(c) /\ UNCHANGED faults
  \/ faults < MaxFaults /\ faults' = faults + 1
Sound(c) == ~Cancelled(c) /\ UNCHANGED faults

At(c, step) == at[c].step = step
Go(c, step) == at' = [at EXCEPT ![c].step = step]
\* Run returns: the schedule waits for its timer, a request is answered.
Return(c) == at' = [at EXCEPT ![c] = [Off EXCEPT !.step = IF c = Sched THEN "timer" ELSE "off"]]
GiveUp(c, reason) == at' = [at EXCEPT ![c].step = "cleanup", ![c].reason = reason]

-----------------------------------------------------------------------------
(* Schedule, and the button.                                               *)

\* A platform without a success younger than the interval is due at once.
DueNow ==
  /\ At(Sched, "due")
  /\ \/ Sound(Sched) /\ Go(Sched, IF LatestSucceeded = {} \/ overdue THEN "tick" ELSE "timer")
     \/ Faulty(Sched) /\ Go(Sched, "timer")
  /\ UNCHANGED <<record, world, mail, process, restarts, misread>>

Elapse ==
  /\ At(Sched, "timer") /\ process = "up"
  /\ overdue' = TRUE /\ Go(Sched, "tick")
  /\ UNCHANGED <<rows, unwritten, world, mail, process, faults, restarts, misread>>

Tick ==
  /\ At(Sched, "tick")
  /\ \/ Sound(Sched) /\ Go(Sched, IF Running = {} THEN "previous" ELSE "timer")
     \/ Faulty(Sched) /\ Go(Sched, "timer")
  /\ UNCHANGED <<record, world, mail, process, restarts, misread>>

AdminBackupRun(c) ==
  /\ c \in Buttons /\ At(c, "off") /\ process = "up" /\ Len(rows) < MaxRuns
  /\ Go(c, "previous")
  /\ UNCHANGED <<record, world, mail, process, faults, restarts, misread>>

-----------------------------------------------------------------------------
(* Service.Run.                                                            *)

\* A read that fails counts as no previous run.
PreviousOutcome(c) ==
  /\ At(c, "previous")
  /\ \/ /\ Sound(c)
        /\ at' = [at EXCEPT ![c].step = "start", ![c].previous = LatestTerminal, ![c].sure = TRUE]
     \/ Faulty(c) /\ at' = [at EXCEPT ![c].step = "start", ![c].sure = FALSE]
  /\ UNCHANGED <<record, world, mail, process, restarts, misread>>

\* The index refuses a second running row, quietly; another failed insert is
\* mailed and has no row.
StartBackupRun(c) ==
  /\ At(c, "start") /\ Len(rows) < MaxRuns
  /\ \/ /\ Sound(c) /\ InsertBackupRun(IF c = Sched THEN "schedule" ELSE "manual")
        /\ at' = [at EXCEPT ![c].step = "snapshot", ![c].run = Len(rows')]
        /\ misread' = IF at[c].sure THEN misread ELSE misread \union {Len(rows')}
     \/ Sound(c) /\ Running # {} /\ Return(c) /\ UNCHANGED <<rows, misread>>
     \/ Faulty(c) /\ Return(c) /\ UNCHANGED <<rows, misread>>
  /\ UNCHANGED <<overdue, unwritten, world, mail, process, restarts>>

\* The snapshot is written, then opened and counted; either may end the run
\* with whatever was written left on the volume.
Snapshot(c) ==
  /\ At(c, "snapshot")
  /\ \/ Sound(c) /\ Go(c, "encrypt") /\ volume' = volume \union {<<at[c].run, "plain">>}
     \/ /\ Faulty(c) /\ \E reason \in {"snapshot_failed", "integrity_failed"} : GiveUp(c, reason)
        /\ volume' \in {volume, volume \union {<<at[c].run, "plain">>}}
  /\ UNCHANGED <<record, bucket, unremoved, mail, process, restarts, misread>>

\* Encryption takes no context: a shutdown does not end it.
EncryptTo(c) ==
  /\ At(c, "encrypt")
  /\ \/ /\ Go(c, "put") /\ volume' = volume \union {<<at[c].run, "crypt">>}
        /\ UNCHANGED faults
     \/ /\ faults < MaxFaults /\ faults' = faults + 1 /\ GiveUp(c, "encrypt_failed")
        /\ volume' \in {volume, volume \union {<<at[c].run, "crypt">>}}
  /\ UNCHANGED <<record, bucket, unremoved, mail, process, restarts, misread>>

\* An upload that is refused may have landed; one that is taken may be torn.
Put(c) ==
  /\ At(c, "put")
  /\ \/ Sound(c) /\ Go(c, "verify") /\ bucket' = [bucket EXCEPT ![at[c].run] = "sound"]
     \/ /\ Faulty(c)
        /\ \/ GiveUp(c, "upload_failed") /\ \E got \in {"none", "torn", "sound"} :
                bucket' = [bucket EXCEPT ![at[c].run] = got]
           \/ Go(c, "verify") /\ bucket' = [bucket EXCEPT ![at[c].run] = "torn"]
  /\ UNCHANGED <<record, volume, unremoved, mail, process, restarts, misread>>

\* Bug: an object that can be opened passes.
VerifyObject_Opens(c) ==
  /\ At(c, "verify")
  /\ \/ Sound(c) /\ Go(c, "succeed")
     \/ Faulty(c) /\ GiveUp(c, "verify_failed")
  /\ UNCHANGED <<record, world, mail, process, restarts, misread>>
VerifyObject(c) ==
  /\ At(c, "verify")
  /\ \/ Sound(c) /\ bucket[at[c].run] = "sound" /\ Go(c, "succeed")
     \/ Sound(c) /\ bucket[at[c].run] # "sound" /\ GiveUp(c, "verify_failed")
     \/ Faulty(c) /\ GiveUp(c, "verify_failed")
  /\ UNCHANGED <<record, world, mail, process, restarts, misread>>

\* A caller that read the previous outcome and inserts after this end read too early.
Outrun(c, callers) ==
  [d \in Callers |-> IF d # c /\ callers[d].step = "start" THEN [callers[d] EXCEPT !.sure = FALSE]
                     ELSE callers[d]]

FinishSucceeded(c) ==
  /\ At(c, "succeed")
  /\ \/ /\ Sound(c) /\ FinishBackupRun(at[c].run, "succeeded", "") /\ overdue' = FALSE
        /\ at' = Outrun(c, [at EXCEPT ![c].step = "cleanup"])
     \/ Faulty(c) /\ GiveUp(c, "internal") /\ UNCHANGED <<rows, overdue>>
  /\ UNCHANGED <<unwritten, world, mail, process, restarts, misread>>

\* Deferred by execute: both files go, whatever the run came to.
Cleanup(c) ==
  /\ At(c, "cleanup")
  /\ Go(c, IF at[c].reason = "" THEN "alert" ELSE "fail")
  /\ \/ volume' = {f \in volume : f[1] # at[c].run} /\ UNCHANGED <<unremoved, faults>>
     \/ /\ faults < MaxFaults /\ faults' = faults + 1
        /\ unremoved' = unremoved \union {at[c].run} /\ UNCHANGED volume
  /\ UNCHANGED <<record, bucket, mail, process, restarts, misread>>

\* A failure that cannot be written is logged: the row stays running.
FinishFailed(c) ==
  /\ At(c, "fail")
  /\ \/ /\ Sound(c) /\ FinishBackupRun(at[c].run, "failed", at[c].reason) /\ UNCHANGED unwritten
        /\ at' = Outrun(c, [at EXCEPT ![c].step = "alert"])
     \/ /\ Faulty(c) /\ Go(c, "alert")
        /\ unwritten' = unwritten \union {at[c].run} /\ UNCHANGED rows
  /\ UNCHANGED <<overdue, world, mail, process, restarts, misread>>

\* Bug: every success is told as a recovery.
Alerted_Always(c) == IF at[c].reason # "" THEN "failed" ELSE "recovered"
Alerted(c) ==
  IF at[c].reason # "" THEN "failed"
  ELSE IF at[c].previous = "failed" THEN "recovered" ELSE "quiet"
Alert(c) ==
  /\ At(c, "alert")
  /\ mail' = [mail EXCEPT ![at[c].run] = Alerted(c)]
  /\ Return(c)
  /\ UNCHANGED <<record, world, process, faults, restarts, misread>>

-----------------------------------------------------------------------------
(* The process.                                                            *)

Shutdown ==
  /\ process = "up" /\ process' = "stopping"
  /\ UNCHANGED <<record, world, mail, at, faults, restarts, misread>>

ScheduleReturns ==
  /\ process = "stopping" /\ At(Sched, "timer") /\ Go(Sched, "off")
  /\ UNCHANGED <<record, world, mail, process, faults, restarts, misread>>

Exit ==
  /\ process # "down" /\ process' = "down" /\ restarts < MaxRestarts /\ restarts' = restarts + 1
  /\ at' = [c \in Callers |-> Off]
  /\ UNCHANGED <<record, world, mail, faults, misread>>

\* Bug: the startup sweep ends no row.
Boot_KeepsRows ==
  /\ process = "down" /\ process' = "up"
  /\ at' = [at EXCEPT ![Sched].step = "due"]
  /\ volume' = {} /\ unremoved' = {}
  /\ UNCHANGED <<record, bucket, mail, faults, restarts, misread>>
\* Sweep, before anything is served: neither half, nor the other's failure,
\* stops the platform starting.
Boot ==
  /\ process = "down" /\ process' = "up"
  /\ at' = [at EXCEPT ![Sched].step = "due"]
  /\ \E failed \in SUBSET {"files", "rows"} :
       /\ IF "files" \in failed
          THEN volume' \in SUBSET volume /\ unremoved' = {f[1] : f \in volume'}
          ELSE volume' = {} /\ unremoved' = {}
       /\ IF "rows" \in failed THEN unwritten' = unwritten \union Running /\ UNCHANGED rows
          ELSE StrandRunningBackupRuns /\ UNCHANGED unwritten
       /\ faults' = faults + Cardinality(failed) /\ faults' <= MaxFaults
  /\ UNCHANGED <<overdue, bucket, mail, restarts, misread>>

-----------------------------------------------------------------------------
Init ==
  /\ rows = <<>> /\ volume = {} /\ bucket = [r \in Runs |-> "none"]
  /\ mail = [r \in Runs |-> "none"] /\ process = "down" /\ overdue = TRUE
  /\ at = [c \in Callers |-> Off] /\ faults = 0 /\ restarts = 0
  /\ unwritten = {} /\ unremoved = {} /\ misread = {}

Execute(c) ==
  \/ PreviousOutcome(c) \/ StartBackupRun(c) \/ Snapshot(c) \/ EncryptTo(c) \/ Put(c)
  \/ VerifyObject(c) \/ FinishSucceeded(c) \/ Cleanup(c) \/ FinishFailed(c) \/ Alert(c)
Schedule == DueNow \/ Elapse \/ Tick \/ ScheduleReturns

Next ==
  \/ Schedule \/ Shutdown \/ Exit \/ Boot
  \/ \E c \in Callers : AdminBackupRun(c) \/ Execute(c)

\* A run's goroutine keeps running, and a pod that died is started again: one
\* replica, restarted by its Deployment.
Fairness == (\A c \in Callers : WF_vars(Execute(c))) /\ WF_vars(Boot)
Spec == Init /\ [][Next]_vars /\ Fairness

-----------------------------------------------------------------------------
(* Properties.                                                             *)

\* Every row, file and caller is one the program can write: one row at most is
\* running, and each caller works on its own.
BackupTypeOK ==
  /\ rows \in Seq(Row) /\ Len(rows) <= MaxRuns /\ Cardinality(Running) <= 1
  /\ volume \subseteq Runs \X {"plain", "crypt"}
  /\ bucket \in [Runs -> {"none", "torn", "sound"}]
  /\ mail \in [Runs -> {"none", "failed", "recovered", "quiet"}]
  /\ process \in {"up", "stopping", "down"} /\ overdue \in BOOLEAN
  /\ at \in [Callers -> Caller]
  /\ \A c, d \in Callers : at[c].run # 0 /\ at[c].run = at[d].run => c = d

\* "A success mails only when the run before it failed, so silence means
\* healthy" (src/internal/backup/run.go:233): what each run told is what the
\* record says of it and of the run before it, unless another run ended between
\* its reading of the record and its insert, or that reading failed.
RecoveryIsNews == \A r \in DOMAIN rows : mail[r] # "none" /\ r \notin misread =>
  mail[r] = IF rows[r].outcome # "succeeded" THEN "failed"
            ELSE IF r > 1 /\ rows[r - 1].outcome = "failed" THEN "recovered"
            ELSE "quiet"

\* No copy of the database, plain or encrypted, outlives its run past the next
\* start, whichever way the run or the process ended, unless its removal was
\* refused; and no row says "succeeded" of an object that does not read back.
FilesMatchTheRuns ==
  /\ process # "down" => \A f \in volume :
       \/ f[1] \in unremoved
       \/ \E c \in Callers : at[c].run = f[1] /\ at[c].step \notin {"fail", "alert"}
  /\ \A r \in LatestSucceeded : bucket[r] = "sound"

\* A row left running refuses every later run, so each must end, through
\* crashes, shutdowns and failures of every call but the write that ends it.
RunsEnd == \A r \in Runs :
  (r \in Running) ~> (r \notin Running \/ r \in unwritten)
=============================================================================
