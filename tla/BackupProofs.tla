----------------------------- MODULE BackupProofs -----------------------------
(***************************************************************************)
(* What Backup guarantees for every set of buttons and every number of     *)
(* runs, failures and restarts.                                            *)
(***************************************************************************)
EXTENDS Backup, SequenceTheorems, FiniteSetTheorems, TLAPS

-----------------------------------------------------------------------------
(* The inductive invariant. *)

\* The steps of a caller that inserted a row, and those before its run is over.
Working == {"snapshot", "encrypt", "put", "verify", "succeed", "cleanup", "fail", "alert"}
Before  == {"snapshot", "encrypt", "put", "verify", "succeed"}

\* Only the newest row may be running.
LastRuns == Running \subseteq {Len(rows)}

\* A process that is down runs nothing.
DownIsOff == process = "down" => at = [c \in Callers |-> Off]

\* What the step, the run and the reason of c say of the record, the mail and
\* the bucket.
HandFits(c) ==
  /\ at[c].run # 0 <=> at[c].step \in Working
  /\ at[c].run # 0 => at[c].run \in DOMAIN rows /\ mail[at[c].run] = "none"
  /\ at[c].step \notin {"cleanup", "fail", "alert"} => at[c].reason = ""
  /\ at[c].step = "fail" => at[c].reason # ""
  /\ at[c].step \in Before \union {"fail"} => at[c].run \in Running
  /\ at[c].step = "cleanup" /\ at[c].reason # "" => at[c].run \in Running
  /\ at[c].step \in {"cleanup", "alert"} /\ at[c].reason = "" => rows[at[c].run].outcome = "succeeded"
  /\ at[c].step = "alert" /\ at[c].reason # "" => rows[at[c].run].outcome # "succeeded"
  /\ at[c].step = "succeed" => bucket[at[c].run] = "sound"

\* The outcome c read is that of the run before the one it is about to insert
\* or has inserted, unless the reading was refused or outrun.
Preceding(r) == IF r = 1 THEN "" ELSE rows[r - 1].outcome
OutcomeFits(c) ==
  /\ at[c].step = "start" /\ at[c].sure => at[c].previous = LatestTerminal
  /\ at[c].run # 0 /\ at[c].run \notin misread => at[c].previous = Preceding(at[c].run)

MailsOfRows == \A r \in Runs : mail[r] # "none" => r \in DOMAIN rows

BackupInv ==
  /\ BackupTypeOK /\ LastRuns /\ DownIsOff
  /\ \A c \in Callers : HandFits(c)
  /\ \A c \in Callers : OutcomeFits(c)
  /\ MailsOfRows /\ RecoveryIsNews /\ FilesMatchTheRuns

-----------------------------------------------------------------------------
(* The record. *)

\* The rows are numbered from 1 and bounded by MaxRuns.
LEMMA RowNumbers ==
  ASSUME BackupTypeOK
  PROVE  /\ Len(rows) \in Nat /\ DOMAIN rows = 1..Len(rows) /\ DOMAIN rows \subseteq Runs
         /\ \A r \in DOMAIN rows : rows[r] \in Row
         /\ MaxRuns \in Nat
<1>1. rows \in Seq(Row) /\ Len(rows) <= MaxRuns /\ MaxRuns \in Nat
  BY BackupAssumption DEF BackupAssumption, BackupTypeOK
<1>2. Len(rows) \in Nat /\ DOMAIN rows = 1..Len(rows) /\ rows \in [1..Len(rows) -> Row]
  BY <1>1, LenProperties
<1> QED BY <1>1, <1>2 DEF Runs

\* The largest of the first n numbers is n.
LEMMA LargestIsLast == ASSUME NEW n \in Nat \ {0} PROVE Max(1..n) = n
<1>1. n \in 1..n /\ \A y \in 1..n : n >= y
  OBVIOUS
<1>2. \A x \in 1..n : (\A y \in 1..n : x >= y) => x = n
  <2> SUFFICES ASSUME NEW x \in 1..n, \A y \in 1..n : x >= y PROVE x = n
    OBVIOUS
  <2>1. x >= n
    BY <1>1
  <2> QED BY <2>1
<1> QED BY <1>1, <1>2 DEF Max

\* A row that is not running has ended.
LEMMA RowsEnd ==
  ASSUME BackupTypeOK, NEW r \in DOMAIN rows, r \notin Running
  PROVE  rows[r].outcome \in {"succeeded", "failed"}
<1>1. rows[r] \in Row
  BY RowNumbers
<1> QED BY <1>1 DEF Running, Row

\* With none running, the latest outcome is the last row's.
LEMMA LatestIsLast ==
  ASSUME BackupTypeOK, Running = {}
  PROVE  LatestTerminal = IF Len(rows) = 0 THEN "" ELSE rows[Len(rows)].outcome
<1>1. Len(rows) \in Nat /\ DOMAIN rows = 1..Len(rows)
  BY RowNumbers
<1>2. Terminal = DOMAIN rows
  BY RowsEnd DEF Terminal
<1>3. CASE Len(rows) = 0
  BY <1>1, <1>2, <1>3 DEF LatestTerminal
<1>4. CASE Len(rows) # 0
  <2>1. Terminal # {} /\ Max(Terminal) = Len(rows)
    BY <1>1, <1>2, <1>4, LargestIsLast
  <2> QED BY <2>1, <1>4 DEF LatestTerminal
<1> QED BY <1>3, <1>4

\* While only the last row may be running, the latest outcome is an outcome.
LEMMA LatestType ==
  ASSUME BackupTypeOK, LastRuns
  PROVE  LatestTerminal \in {"", "succeeded", "failed"}
<1>1. Len(rows) \in Nat /\ DOMAIN rows = 1..Len(rows)
  BY RowNumbers
<1>2. CASE Terminal = {}
  BY <1>2 DEF LatestTerminal
<1>3. CASE Terminal # {}
  <2>1. PICK n \in Nat \ {0} : Terminal = 1..n
    <3>1. CASE Len(rows) \in Running
      <4>1. Terminal = 1..(Len(rows) - 1)
        BY <1>1, <3>1, RowsEnd DEF Terminal, Running, LastRuns
      <4>2. Len(rows) - 1 \in Nat \ {0}
        BY <4>1, <1>1, <1>3
      <4> QED BY <4>1, <4>2
    <3>2. CASE Len(rows) \notin Running
      <4>1. Running = {}
        BY <3>2 DEF LastRuns
      <4>2. Terminal = 1..Len(rows)
        BY <1>1, <4>1, RowsEnd DEF Terminal
      <4>3. Len(rows) \in Nat \ {0}
        BY <4>2, <1>1, <1>3
      <4> QED BY <4>2, <4>3
    <3> QED BY <3>1, <3>2
  <2>2. Max(Terminal) \in Terminal
    BY <2>1, LargestIsLast
  <2> QED BY <2>2, <1>3 DEF LatestTerminal, Terminal
<1> QED BY <1>2, <1>3

\* At most one row is running.
LEMMA OneRunning == LastRuns => Cardinality(Running) <= 1
<1> SUFFICES ASSUME LastRuns PROVE Cardinality(Running) <= 1
  OBVIOUS
<1>1. CASE Running = {}
  BY <1>1, FS_EmptySet
<1>2. CASE Running # {}
  <2>1. Running = {Len(rows)}
    BY <1>2 DEF LastRuns
  <2>2. Cardinality({Len(rows)}) = 1
    BY FS_Singleton
  <2> QED BY <2>1, <2>2
<1> QED BY <1>1, <1>2

\* Ending a run leaves the other rows, and none running.
LEMMA RunFinishes ==
  ASSUME BackupTypeOK, LastRuns, NEW r, NEW outcome \in {"succeeded", "failed"},
         NEW reason \in Reasons \union {""}, FinishBackupRun(r, outcome, reason)
  PROVE  /\ rows' \in Seq(Row) /\ Len(rows') = Len(rows) /\ DOMAIN rows' = DOMAIN rows
         /\ Running' = {} /\ r \in DOMAIN rows /\ rows'[r].outcome = outcome
         /\ \A q \in DOMAIN rows \ {r} : rows'[q] = rows[q]
<1>1. Len(rows) \in Nat /\ DOMAIN rows = 1..Len(rows) /\ r \in DOMAIN rows /\ rows[r] \in Row
  BY RowNumbers DEF FinishBackupRun, Running
<1> DEFINE new == [rows[r] EXCEPT !.outcome = outcome, !.reason = reason]
<1>2. new \in Row /\ new.outcome = outcome
  BY <1>1 DEF Row
<1>3. rows' = [rows EXCEPT ![r] = new]
  BY DEF FinishBackupRun
<1> HIDE DEF new
<1>4. /\ rows' \in Seq(Row) /\ Len(rows') = Len(rows)
      /\ \A q \in 1..Len(rows) : rows'[q] = IF q = r THEN new ELSE rows[q]
  BY <1>1, <1>2, <1>3, ExceptSeq DEF BackupTypeOK
<1>5. DOMAIN rows' = DOMAIN rows
  BY <1>3
<1>6. Running' = {}
  <2>1. r = Len(rows)
    BY DEF FinishBackupRun, LastRuns
  <2> QED BY <1>1, <1>2, <1>4, <1>5, <2>1 DEF Running, LastRuns
<1> QED BY <1>1, <1>2, <1>4, <1>5, <1>6

\* Stranding leaves the rows that ended, and none running.
LEMMA RunsStranded ==
  ASSUME BackupTypeOK, StrandRunningBackupRuns
  PROVE  /\ rows' \in Seq(Row) /\ Len(rows') = Len(rows) /\ DOMAIN rows' = DOMAIN rows
         /\ Running' = {}
         /\ \A q \in DOMAIN rows : IF q \in Running THEN rows'[q].outcome = "failed"
                                   ELSE rows'[q] = rows[q]
<1>1. Len(rows) \in Nat /\ DOMAIN rows = 1..Len(rows) /\ \A q \in DOMAIN rows : rows[q] \in Row
  BY RowNumbers
<1>2. \A q \in DOMAIN rows :
        /\ rows'[q] \in Row
        /\ IF q \in Running THEN rows'[q].outcome = "failed" ELSE rows'[q] = rows[q]
  BY <1>1 DEF StrandRunningBackupRuns, Row, Reasons
<1>3. DOMAIN rows' = DOMAIN rows
  BY DEF StrandRunningBackupRuns
<1>4. rows' \in [1..Len(rows) -> Row]
  <2>1. rows' = [q \in DOMAIN rows |-> rows'[q]]
    BY DEF StrandRunningBackupRuns
  <2> QED BY <1>1, <1>2, <2>1
<1>5. rows' \in Seq(Row) /\ Len(rows') = Len(rows)
  <2>1. rows' \in Seq(Row)
    BY <1>1, <1>4, SeqDef
  <2>2. DOMAIN rows' = 1..Len(rows') /\ Len(rows') \in Nat
    BY <2>1, LenProperties
  <2> QED BY <1>1, <1>3, <2>1, <2>2
<1>6. Running' = {}
  BY <1>2, <1>3 DEF Running
<1> QED BY <1>2, <1>3, <1>5, <1>6

-----------------------------------------------------------------------------
(* The callers. *)

\* c goes on to a step, with a reason; the other callers stay where they are.
Moves(c, step, reason) ==
  /\ at' \in [Callers -> Caller]
  /\ at'[c].step = step /\ at'[c].reason = reason
  /\ at'[c].run = at[c].run /\ at'[c].previous = at[c].previous /\ at'[c].sure = at[c].sure
  /\ \A d \in Callers \ {c} : at'[d] = at[d]

\* c waits, or is away, with no run in hand.
Rests(c) ==
  /\ at' \in [Callers -> Caller]
  /\ at'[c].run = 0 /\ at'[c].step \notin Working /\ at'[c].reason = ""
  /\ at'[c].step = "start" /\ at'[c].sure => at'[c].previous = LatestTerminal
  /\ \A d \in Callers \ {c} : at'[d] = at[d]

\* Replacing what c holds leaves what the others hold.
LEMMA CallerUpdate ==
  ASSUME BackupTypeOK, NEW c \in Callers, NEW new \in Caller, at' = [at EXCEPT ![c] = new]
  PROVE  at' \in [Callers -> Caller] /\ at'[c] = new /\ \A d \in Callers \ {c} : at'[d] = at[d]
BY DEF BackupTypeOK

\* Going to a step changes the step alone.
LEMMA Going ==
  ASSUME BackupTypeOK, NEW c \in Callers, NEW step \in Steps, Go(c, step)
  PROVE  Moves(c, step, at[c].reason)
<1> DEFINE new == [at[c] EXCEPT !.step = step]
<1>1. at[c] \in Caller
  BY DEF BackupTypeOK
<1>2. /\ new \in Caller /\ new.step = step /\ new.reason = at[c].reason
      /\ new.run = at[c].run /\ new.previous = at[c].previous /\ new.sure = at[c].sure
  BY <1>1 DEF Caller
<1>3. at' = [at EXCEPT ![c] = new]
  BY DEF Go
<1> HIDE DEF new
<1> QED BY <1>2, <1>3, CallerUpdate DEF Moves

\* Giving up goes to the cleanup, with the reason.
LEMMA GivingUp ==
  ASSUME BackupTypeOK, NEW c \in Callers, NEW reason \in Reasons, GiveUp(c, reason)
  PROVE  Moves(c, "cleanup", reason) /\ reason # ""
<1> DEFINE new == [at[c] EXCEPT !.step = "cleanup", !.reason = reason]
<1>1. at[c] \in Caller
  BY DEF BackupTypeOK
<1>2. /\ new \in Caller /\ new.step = "cleanup" /\ new.reason = reason
      /\ new.run = at[c].run /\ new.previous = at[c].previous /\ new.sure = at[c].sure
  BY <1>1 DEF Caller, Steps
<1>3. at' = [at EXCEPT ![c] = new]
  BY DEF GiveUp
<1>4. reason # ""
  BY DEF Reasons
<1> HIDE DEF new
<1> QED BY <1>2, <1>3, <1>4, CallerUpdate DEF Moves

\* Returning leaves no run in hand.
LEMMA Returning ==
  ASSUME BackupTypeOK, NEW c \in Callers, Return(c)
  PROVE  Rests(c)
<1> DEFINE new == [Off EXCEPT !.step = IF c = Sched THEN "timer" ELSE "off"]
<1>1. new \in Caller /\ new.run = 0 /\ new.step \in {"timer", "off"} /\ new.reason = ""
  BY DEF Caller, Off, Steps
<1>2. at' = [at EXCEPT ![c] = new]
  BY DEF Return
<1> HIDE DEF new
<1> QED BY <1>1, <1>2, CallerUpdate DEF Rests, Working

\* A caller at work has a process under it.
LEMMA Serving == ASSUME DownIsOff, NEW c \in Callers, at[c].step # "off" PROVE process # "down"
<1> SUFFICES ASSUME process = "down" PROVE FALSE
  OBVIOUS
<1>1. at[c] = Off
  BY DEF DownIsOff
<1>2. Off.step = "off"
  BY DEF Off
<1> QED BY <1>1, <1>2

\* A step that leaves the run in hand and its row, mail and object alone keeps
\* what is true of the caller.
LEMMA OthersFit ==
  ASSUME NEW c \in Callers, HandFits(c),
         at'[c].step = at[c].step, at'[c].run = at[c].run, at'[c].reason = at[c].reason,
         DOMAIN rows \subseteq DOMAIN rows',
         at[c].run # 0 => /\ rows'[at[c].run] = rows[at[c].run]
                          /\ mail'[at[c].run] = mail[at[c].run]
                          /\ bucket'[at[c].run] = bucket[at[c].run]
  PROVE  HandFits(c)'
BY DEF HandFits, Running, Working, Before

\* Two callers have two runs in hand.
LEMMA OwnRuns ==
  ASSUME BackupTypeOK, NEW c \in Callers, NEW d \in Callers \ {c}, at[c].run # 0
  PROVE  at[d].run # at[c].run
BY DEF BackupTypeOK

\* A run in hand is one of the record, and its bucket, mail and row have types.
LEMMA RunInHand ==
  ASSUME BackupTypeOK, NEW c \in Callers, HandFits(c), at[c].step \in Working
  PROVE  /\ at[c].run \in DOMAIN rows /\ at[c].run \in Runs /\ at[c].run # 0
         /\ mail[at[c].run] = "none"
BY RowNumbers DEF HandFits

\* What precedes a row has ended, and stays.
LEMMA PrecedingKept ==
  ASSUME BackupTypeOK, LastRuns, NEW r \in DOMAIN rows,
         \A q \in DOMAIN rows \ Running : rows'[q] = rows[q]
  PROVE  Preceding(r)' = Preceding(r)
<1>1. r \in 1..Len(rows) /\ Len(rows) \in Nat /\ DOMAIN rows = 1..Len(rows)
  BY RowNumbers
<1>2. CASE r = 1
  BY <1>2 DEF Preceding
<1>3. CASE r # 1
  <2>1. r - 1 \in DOMAIN rows /\ r - 1 # Len(rows)
    BY <1>1, <1>3
  <2>2. rows'[r - 1] = rows[r - 1]
    BY <2>1 DEF LastRuns
  <2> QED BY <1>3, <2>2 DEF Preceding
<1> QED BY <1>2, <1>3

NewsFits(r) == mail[r] # "none" /\ r \notin misread =>
  mail[r] = IF rows[r].outcome # "succeeded" THEN "failed"
            ELSE IF Preceding(r) = "failed" THEN "recovered" ELSE "quiet"
News == \A r \in DOMAIN rows : NewsFits(r)

\* RecoveryIsNews, row by row.
LEMMA NewsByRow == BackupTypeOK => (RecoveryIsNews <=> News)
<1> SUFFICES ASSUME BackupTypeOK PROVE RecoveryIsNews <=> News
  OBVIOUS
<1>1. \A r \in DOMAIN rows : r \in Nat \ {0}
  BY RowNumbers
<1>2. \A r \in DOMAIN rows : (r > 1 /\ rows[r - 1].outcome = "failed") <=> Preceding(r) = "failed"
  BY <1>1 DEF Preceding
<1> QED BY <1>1, <1>2 DEF RecoveryIsNews, NewsFits, News

-----------------------------------------------------------------------------
(* Steps. *)

\* A caller without a run that goes on waiting keeps the invariant.
LEMMA StepRests ==
  ASSUME BackupInv, NEW c \in Callers, at[c].step \notin Working, Rests(c),
         process' = process, process # "down", overdue' \in BOOLEAN,
         UNCHANGED <<rows, world, mail, misread>>
  PROVE  BackupInv'
<1> USE DEF BackupInv
<1>1. UNCHANGED <<rows, volume, bucket, unremoved, mail, misread>>
  BY DEF world
<1>2. at[c].run = 0 /\ at'[c].run = 0 /\ \A d \in Callers \ {c} : at'[d] = at[d]
  BY DEF HandFits, Rests
<1>3. BackupTypeOK'
  <2>1. at' \in [Callers -> Caller]
    BY DEF Rests
  <2>2. \A d, e \in Callers : at'[d].run # 0 /\ at'[d].run = at'[e].run => d = e
    BY <1>2 DEF BackupTypeOK
  <2> QED BY <1>1, <2>1, <2>2 DEF BackupTypeOK, Running
<1>4. \A d \in Callers : HandFits(d)'
  <2>1. HandFits(c)'
    BY <1>2 DEF Rests, HandFits, Working, Before
  <2>2. \A d \in Callers \ {c} : HandFits(d)'
    BY <1>1, <1>2, OthersFit
  <2> QED BY <2>1, <2>2
<1>5. \A d \in Callers : OutcomeFits(d)'
  <2>1. LatestTerminal' = LatestTerminal
    BY <1>1 DEF LatestTerminal, Terminal
  <2>2. OutcomeFits(c)'
    BY <1>2, <2>1 DEF Rests, OutcomeFits
  <2>3. \A d \in Callers \ {c} : OutcomeFits(d)'
    BY <1>1, <1>2, <2>1 DEF OutcomeFits, Preceding
  <2> QED BY <2>2, <2>3
<1>6. LastRuns' /\ MailsOfRows' /\ RecoveryIsNews' /\ DownIsOff'
  BY <1>1 DEF LastRuns, Running, MailsOfRows, RecoveryIsNews, DownIsOff
<1>7. FilesMatchTheRuns'
  <2>1. \A f \in volume : \/ f[1] \in unremoved
                          \/ \E d \in Callers \ {c} : at[d].run = f[1] /\ at[d].step \notin {"fail", "alert"}
    <3> SUFFICES ASSUME NEW f \in volume, f[1] \notin unremoved
                 PROVE  \E d \in Callers \ {c} : at[d].run = f[1] /\ at[d].step \notin {"fail", "alert"}
      OBVIOUS
    <3>1. f[1] \in Runs
      BY DEF BackupTypeOK
    <3>2. f[1] # 0
      BY <3>1, RowNumbers DEF Runs
    <3> QED BY <1>2, <3>2 DEF FilesMatchTheRuns
  <2> QED BY <1>1, <1>2, <2>1 DEF FilesMatchTheRuns, LatestSucceeded
<1> QED BY <1>3, <1>4, <1>5, <1>6, <1>7

\* A step of a run that is not over keeps the invariant: it goes on or gives
\* up, and writes files and an object of its own.
LEMMA StepWorks ==
  ASSUME BackupInv, NEW c \in Callers, NEW step \in Before \union {"cleanup"},
         NEW reason \in Reasons \union {""}, at[c].step \in Before, Moves(c, step, reason),
         step = "cleanup" <=> reason # "",
         process' = process, process # "down",
         UNCHANGED <<record, mail, misread, unremoved>>,
         volume' \subseteq volume \union ({at[c].run} \X {"plain", "crypt"}),
         bucket' \in [Runs -> {"none", "torn", "sound"}],
         \A r \in Runs \ {at[c].run} : bucket'[r] = bucket[r],
         step = "succeed" => bucket'[at[c].run] = "sound"
  PROVE  BackupInv'
<1> USE DEF BackupInv
<1>1. UNCHANGED <<rows, overdue, unremoved, mail, misread>>
  BY DEF record
<1>2. at'[c].run = at[c].run /\ at'[c].step = step /\ \A d \in Callers \ {c} : at'[d] = at[d]
  BY DEF Moves
<1>3. /\ at[c].run \in DOMAIN rows /\ at[c].run \in Runs /\ at[c].run # 0 /\ at[c].run \in Running
      /\ mail[at[c].run] = "none"
  <2>1. at[c].step \in Working
    BY DEF Before, Working
  <2> QED BY <2>1, RunInHand DEF HandFits
<1>4. BackupTypeOK'
  <2>1. at' \in [Callers -> Caller]
    BY DEF Moves
  <2>2. ASSUME NEW d \in Callers, NEW e \in Callers, at'[d].run # 0, at'[d].run = at'[e].run
        PROVE  d = e
    <3>1. at'[d].run = at[d].run /\ at'[e].run = at[e].run
      BY <1>2
    <3>2. at[d].run # 0 /\ at[d].run = at[e].run
      BY <2>2, <3>1
    <3> QED BY <3>2 DEF BackupTypeOK
  <2>3. volume' \subseteq Runs \X {"plain", "crypt"}
    BY <1>3 DEF BackupTypeOK
  <2> QED BY <1>1, <2>1, <2>2, <2>3 DEF BackupTypeOK, Running
<1>5. \A d \in Callers : HandFits(d)'
  <2>1. HandFits(c)'
    BY <1>1, <1>2, <1>3 DEF Moves, HandFits, Working, Before, Running
  <2>2. ASSUME NEW d \in Callers \ {c} PROVE HandFits(d)'
    <3>1. at[d].run # 0 => bucket'[at[d].run] = bucket[at[d].run]
      <4>1. at[d].run # at[c].run
        BY <1>3, OwnRuns
      <4>2. at[d].run # 0 => at[d].run \in Runs
        BY RowNumbers DEF HandFits
      <4> QED BY <4>1, <4>2
    <3> QED BY <1>1, <1>2, <3>1, OthersFit
  <2> QED BY <2>1, <2>2
<1>6. \A d \in Callers : OutcomeFits(d)'
  <2>1. LatestTerminal' = LatestTerminal
    BY <1>1 DEF LatestTerminal, Terminal
  <2>2. \A r : Preceding(r)' = Preceding(r)
    BY <1>1 DEF Preceding
  <2>3. ASSUME NEW d \in Callers PROVE OutcomeFits(d)'
    <3>1. OutcomeFits(d)
      OBVIOUS
    <3>2. at'[d].run = at[d].run /\ at'[d].previous = at[d].previous /\ at'[d].sure = at[d].sure
      <4>1. CASE d = c
        BY <4>1 DEF Moves
      <4>2. CASE d # c
        BY <1>2, <4>2
      <4> QED BY <4>1, <4>2
    <3>3. at'[d].step = "start" => at[d].step = "start"
      BY <1>2 DEF Before
    <3> QED BY <1>1, <2>1, <2>2, <3>1, <3>2, <3>3 DEF OutcomeFits
  <2> QED BY <2>3
<1>7. LastRuns' /\ MailsOfRows' /\ RecoveryIsNews' /\ DownIsOff'
  <2>1. LastRuns' /\ MailsOfRows'
    BY <1>1 DEF LastRuns, Running, MailsOfRows
  <2>2. RecoveryIsNews'
    <3>1. ASSUME NEW r PROVE NewsFits(r)' <=> NewsFits(r)
      BY <1>1 DEF NewsFits, Preceding
    <3>2. BackupTypeOK' => (RecoveryIsNews' <=> News')
      BY NewsByRow, PTL
    <3>3. News'
      BY <1>1, <3>1, NewsByRow DEF News
    <3> QED BY <1>4, <3>2, <3>3
  <2>3. DownIsOff'
    BY DEF DownIsOff
  <2> QED BY <2>1, <2>2, <2>3
<1>8. FilesMatchTheRuns'
  <2>1. \A r \in LatestSucceeded' : bucket'[r] = "sound"
    <3>1. LatestSucceeded' = LatestSucceeded /\ at[c].run \notin LatestSucceeded
      BY <1>1, <1>3 DEF LatestSucceeded, Running
    <3> QED BY <3>1, RowNumbers DEF FilesMatchTheRuns, LatestSucceeded
  <2>2. \A f \in volume' : \/ f[1] \in unremoved
                           \/ \E d \in Callers : at'[d].run = f[1] /\ at'[d].step \notin {"fail", "alert"}
    <3>1. \A f \in volume' : f[1] = at[c].run \/ f \in volume
      OBVIOUS
    <3>2. at'[c].step \notin {"fail", "alert"}
      BY <1>2 DEF Before
    <3> SUFFICES ASSUME NEW f \in volume', f[1] \notin unremoved
                 PROVE  \E d \in Callers : at'[d].run = f[1] /\ at'[d].step \notin {"fail", "alert"}
      OBVIOUS
    <3>3. CASE f[1] = at[c].run
      BY <1>2, <3>2, <3>3
    <3>4. CASE f[1] # at[c].run
      <4>1. PICK d \in Callers : at[d].run = f[1] /\ at[d].step \notin {"fail", "alert"}
        BY <3>1, <3>4 DEF FilesMatchTheRuns
      <4>2. at'[d] = at[d]
        BY <1>2, <3>4, <4>1
      <4> QED BY <4>1, <4>2
    <3> QED BY <3>3, <3>4
  <2> QED BY <1>1, <2>1, <2>2 DEF FilesMatchTheRuns
<1> QED BY <1>4, <1>5, <1>6, <1>7, <1>8

\* The end of a run, written by the caller that has it in hand: every other
\* caller about to insert read too early.
LEMMA StepFinishes ==
  ASSUME BackupInv, NEW c \in Callers, NEW step \in {"cleanup", "alert"},
         NEW outcome \in {"succeeded", "failed"}, NEW reason \in Reasons \union {""},
         at[c].step \in {"succeed", "fail"},
         FinishBackupRun(at[c].run, outcome, reason),
         at' = Outrun(c, [at EXCEPT ![c].step = step]),
         outcome = "succeeded" <=> at[c].reason = "",
         outcome = "succeeded" => bucket[at[c].run] = "sound",
         step = "cleanup" <=> at[c].step = "succeed",
         process' = process, process # "down", overdue' \in BOOLEAN,
         UNCHANGED <<world, mail, misread>>
  PROVE  BackupInv'
<1> USE DEF BackupInv
<1>1. UNCHANGED <<volume, bucket, unremoved, mail, misread>>
  BY DEF world
<1>2. /\ at[c].run \in DOMAIN rows /\ at[c].run \in Runs /\ at[c].run # 0
      /\ mail[at[c].run] = "none"
  BY RunInHand DEF Working
<1>3. /\ rows' \in Seq(Row) /\ Len(rows') = Len(rows) /\ DOMAIN rows' = DOMAIN rows
      /\ Running' = {} /\ rows'[at[c].run].outcome = outcome
      /\ \A q \in DOMAIN rows \ {at[c].run} : rows'[q] = rows[q]
  BY RunFinishes
<1>4. /\ at' \in [Callers -> Caller]
      /\ at'[c].step = step
      /\ \A d \in Callers : /\ at'[d].run = at[d].run /\ at'[d].reason = at[d].reason
                            /\ at'[d].previous = at[d].previous
      /\ \A d \in Callers \ {c} : /\ at'[d].step = at[d].step
                                  /\ at'[d].step = "start" => ~at'[d].sure
  <2> DEFINE went == [at EXCEPT ![c].step = step]
  <2>1. \A d \in Callers : at[d] \in Caller
    BY DEF BackupTypeOK
  <2>2. /\ went \in [Callers -> Caller] /\ went[c] = [at[c] EXCEPT !.step = step]
        /\ \A d \in Callers \ {c} : went[d] = at[d]
    <3>1. [at[c] EXCEPT !.step = step] \in Caller
      BY <2>1 DEF Caller, Steps
    <3> QED BY <3>1 DEF BackupTypeOK
  <2> HIDE DEF went
  <2>3. at' = [d \in Callers |-> IF d # c /\ went[d].step = "start"
                                 THEN [went[d] EXCEPT !.sure = FALSE] ELSE went[d]]
    BY DEF Outrun, went
  <2>4. at'[c] = [at[c] EXCEPT !.step = step] /\ at'[c] \in Caller
    BY <2>2, <2>3
  <2>5. ASSUME NEW d \in Callers \ {c}
        PROVE  /\ at'[d] \in Caller /\ at'[d].step = at[d].step /\ at'[d].run = at[d].run
               /\ at'[d].reason = at[d].reason /\ at'[d].previous = at[d].previous
               /\ at'[d].step = "start" => ~at'[d].sure
    <3>1. at'[d] = IF at[d].step = "start" THEN [at[d] EXCEPT !.sure = FALSE] ELSE at[d]
      BY <2>2, <2>3
    <3> QED BY <2>1, <3>1 DEF Caller
  <2>6. at'[c].step = step /\ at'[c].run = at[c].run /\ at'[c].reason = at[c].reason
        /\ at'[c].previous = at[c].previous
    BY <2>1, <2>4 DEF Caller
  <2>7. at' \in [Callers -> Caller]
    BY <2>3, <2>4, <2>5
  <2> QED BY <2>5, <2>6, <2>7
<1>5. LastRuns' /\ MailsOfRows' /\ DownIsOff'
  BY <1>1, <1>3 DEF LastRuns, MailsOfRows, DownIsOff
<1>6. BackupTypeOK'
  <2>1. Len(rows') <= MaxRuns /\ Cardinality(Running') <= 1
    <3>1. LastRuns' => (Cardinality(Running) <= 1)'
      BY OneRunning, PTL
    <3>2. Len(rows) <= MaxRuns
      BY DEF BackupTypeOK
    <3>3. Cardinality(Running') <= 1
      BY <1>5, <3>1
    <3>4. Len(rows') <= MaxRuns
      BY <1>3, <3>2
    <3> QED BY <3>3, <3>4
  <2>2. ASSUME NEW d \in Callers, NEW e \in Callers, at'[d].run # 0, at'[d].run = at'[e].run
        PROVE  d = e
    <3>1. at[d].run # 0 /\ at[d].run = at[e].run
      BY <1>4, <2>2
    <3> QED BY <3>1 DEF BackupTypeOK
  <2> QED BY <1>1, <1>3, <1>4, <2>1, <2>2 DEF BackupTypeOK
<1>7. \A d \in Callers : HandFits(d)'
  <2>1. HandFits(c)'
    BY <1>1, <1>2, <1>3, <1>4 DEF HandFits, Working, Before
  <2>2. ASSUME NEW d \in Callers \ {c} PROVE HandFits(d)'
    <3>1. at[d].run # 0 => at[d].run \in DOMAIN rows \ {at[c].run}
      BY <1>2, OwnRuns DEF HandFits
    <3>2. HandFits(d) /\ at'[d].step = at[d].step /\ at'[d].run = at[d].run /\ at'[d].reason = at[d].reason
      BY <1>4
    <3> QED BY <1>1, <1>3, <3>1, <3>2, OthersFit
  <2> QED BY <2>1, <2>2
<1>8. \A r \in DOMAIN rows : Preceding(r)' = Preceding(r)
  <2>1. at[c].run \in Running
    BY DEF FinishBackupRun
  <2> QED BY <1>3, <2>1, PrecedingKept
<1>9. \A d \in Callers : OutcomeFits(d)'
  <2> SUFFICES ASSUME NEW d \in Callers PROVE OutcomeFits(d)'
    OBVIOUS
  <2>1. ~(at'[d].step = "start" /\ at'[d].sure)
    BY <1>4
  <2>2. PICK r : r = at[d].run
    OBVIOUS
  <2>3. r # 0 /\ r \notin misread => at[d].previous = Preceding(r)
    BY <2>2 DEF OutcomeFits
  <2>4. r # 0 => Preceding(r)' = Preceding(r)
    BY <1>8, <2>2 DEF HandFits
  <2>5. at'[d].run = r /\ at'[d].previous = at[d].previous /\ misread' = misread
    BY <1>1, <1>4, <2>2
  <2>6. at'[d].run # 0 /\ at'[d].run \notin misread' => at'[d].previous = Preceding(r)'
    BY <2>3, <2>4, <2>5
  <2>7. (at[d].run # 0 /\ at[d].run \notin misread => at[d].previous = Preceding(at[d].run))'
    BY <2>5, <2>6 DEF Preceding
  <2> QED BY <2>1, <2>7 DEF OutcomeFits
<1>10. RecoveryIsNews'
  <2>1. \A r \in DOMAIN rows : NewsFits(r)
    BY NewsByRow DEF News
  <2>2. ASSUME NEW r \in DOMAIN rows PROVE NewsFits(r)'
    <3>1. CASE r = at[c].run
      BY <1>1, <1>2, <3>1 DEF NewsFits
    <3>2. CASE r # at[c].run
      BY <1>1, <1>3, <1>8, <2>1, <3>2 DEF NewsFits
    <3> QED BY <3>1, <3>2
  <2>3. BackupTypeOK' => (RecoveryIsNews' <=> News')
    BY NewsByRow, PTL
  <2> QED BY <1>3, <1>6, <2>2, <2>3 DEF News
<1>11. FilesMatchTheRuns'
  <2>1. \A r \in LatestSucceeded' : bucket'[r] = "sound"
    <3>1. \A r \in LatestSucceeded' : (r = at[c].run /\ outcome = "succeeded") \/ r \in LatestSucceeded
      BY <1>3 DEF LatestSucceeded
    <3> QED BY <1>1, <3>1 DEF FilesMatchTheRuns
  <2>2. ASSUME NEW f \in volume, f[1] \notin unremoved
        PROVE  \E d \in Callers : at'[d].run = f[1] /\ at'[d].step \notin {"fail", "alert"}
    <3>1. PICK d \in Callers : at[d].run = f[1] /\ at[d].step \notin {"fail", "alert"}
      BY <2>2 DEF FilesMatchTheRuns
    <3>2. at'[d].step \notin {"fail", "alert"}
      BY <1>4, <3>1
    <3> QED BY <1>4, <3>1, <3>2
  <2> QED BY <1>1, <2>1, <2>2 DEF FilesMatchTheRuns
<1> QED BY <1>5, <1>6, <1>7, <1>9, <1>10, <1>11

\* A new row, inserted while none is running, is its caller's.
LEMMA StepInserts ==
  ASSUME BackupInv, NEW c \in Callers, at[c].step = "start", Len(rows) < MaxRuns,
         NEW trigger \in {"schedule", "manual"}, InsertBackupRun(trigger),
         at' = [at EXCEPT ![c].step = "snapshot", ![c].run = Len(rows')],
         misread' = IF at[c].sure THEN misread ELSE misread \union {Len(rows')},
         process' = process, process # "down",
         UNCHANGED <<overdue, world, mail>>
  PROVE  BackupInv'
<1> USE DEF BackupInv
<1>1. UNCHANGED <<volume, bucket, unremoved, mail, overdue>>
  BY DEF world
<1>2. /\ Len(rows) \in Nat /\ DOMAIN rows = 1..Len(rows) /\ DOMAIN rows \subseteq Runs
      /\ MaxRuns \in Nat /\ \A r \in DOMAIN rows : rows[r] \in Row
  BY RowNumbers
<1>0. PICK n \in Nat : n = Len(rows) + 1
  BY <1>2
<1>3. /\ rows' \in Seq(Row) /\ Len(rows') = n /\ DOMAIN rows' = 1..n
      /\ \A r \in DOMAIN rows : rows'[r] = rows[r]
      /\ rows'[n].outcome = "running"
  <2> DEFINE new == [outcome |-> "running", reason |-> "", trigger |-> trigger]
  <2>1. new \in Row /\ new.outcome = "running"
    BY DEF Row
  <2>2. rows \in Seq(Row) /\ rows' = Append(rows, new)
    BY DEF BackupTypeOK, InsertBackupRun
  <2> HIDE DEF new
  <2>3. rows' \in Seq(Row) /\ Len(rows') = n /\ rows'[n] = new
        /\ \A r \in 1..Len(rows) : rows'[r] = rows[r]
    BY <2>1, <2>2, <1>0, AppendProperties
  <2>4. DOMAIN rows' = 1..n
    BY <2>3, LenProperties
  <2> QED BY <1>2, <2>1, <2>3, <2>4
<1>4. n \in Runs /\ n \notin DOMAIN rows /\ n # 0 /\ mail[n] = "none"
  BY <1>0, <1>2 DEF Runs, MailsOfRows
<1>5. Running' = {n}
  <2>1. \A r \in DOMAIN rows : rows[r].outcome # "running"
    BY DEF InsertBackupRun, Running
  <2>2. \A r \in DOMAIN rows' : r # n => r \in DOMAIN rows
    BY <1>0, <1>2, <1>3
  <2>3. n \in DOMAIN rows'
    BY <1>0, <1>2, <1>3
  <2> QED BY <1>3, <2>1, <2>2, <2>3 DEF Running
<1>6. /\ at' \in [Callers -> Caller] /\ at'[c].step = "snapshot" /\ at'[c].run = n
      /\ at'[c].reason = at[c].reason /\ at'[c].previous = at[c].previous
      /\ \A d \in Callers \ {c} : at'[d] = at[d]
  <2> DEFINE new == [at[c] EXCEPT !.step = "snapshot", !.run = n]
  <2>1. at[c] \in Caller
    BY DEF BackupTypeOK
  <2>2. /\ new \in Caller /\ new.step = "snapshot" /\ new.run = n
        /\ new.reason = at[c].reason /\ new.previous = at[c].previous
    BY <1>4, <2>1 DEF Caller, Steps
  <2>3. at' = [at EXCEPT ![c] = new]
    BY <1>3
  <2> HIDE DEF new
  <2> QED BY <2>2, <2>3, CallerUpdate
<1>7. LastRuns' /\ MailsOfRows' /\ DownIsOff'
  <2>1. LastRuns'
    BY <1>3, <1>5 DEF LastRuns
  <2>2. DOMAIN rows \subseteq DOMAIN rows'
    BY <1>2, <1>3, <1>0
  <2>3. MailsOfRows'
    BY <1>1, <2>2 DEF MailsOfRows
  <2>4. DownIsOff'
    BY DEF DownIsOff
  <2> QED BY <2>1, <2>3, <2>4
<1>8. \A d \in Callers : at[d].run # n
  BY <1>4 DEF HandFits
<1>9. BackupTypeOK'
  <2>1. Len(rows') <= MaxRuns
    BY <1>2, <1>3, <1>0
  <2>2. LastRuns' => (Cardinality(Running) <= 1)'
    BY OneRunning, PTL
  <2>3. ASSUME NEW d \in Callers, NEW e \in Callers, at'[d].run # 0, at'[d].run = at'[e].run
        PROVE  d = e
    <3>1. \A b \in Callers \ {c} : at'[b].run = at[b].run /\ at'[b].run # n
      BY <1>6, <1>8
    <3>2. \A a, b \in Callers : at[a].run # 0 /\ at[a].run = at[b].run => a = b
      BY DEF BackupTypeOK
    <3> QED BY <1>6, <2>3, <3>1, <3>2
  <2> QED BY <1>1, <1>3, <1>6, <1>7, <2>1, <2>2, <2>3 DEF BackupTypeOK
<1>10. \A d \in Callers : HandFits(d)'
  <2>1. HandFits(c)'
    <3>1. at'[c].reason = ""
      BY <1>6 DEF HandFits
    <3>2. n \in DOMAIN rows'
      BY <1>2, <1>3, <1>0
    <3>3. at'[c].run # 0 /\ at'[c].step \in Working /\ at'[c].run \in DOMAIN rows'
          /\ mail'[at'[c].run] = "none" /\ at'[c].run \in Running'
      BY <1>1, <1>4, <1>5, <1>6, <3>2 DEF Working
    <3>4. at'[c].step = "snapshot"
      BY <1>6
    <3> QED BY <3>1, <3>3, <3>4 DEF HandFits
  <2>2. ASSUME NEW d \in Callers \ {c} PROVE HandFits(d)'
    <3>1. DOMAIN rows \subseteq DOMAIN rows'
      BY <1>2, <1>3, <1>0
    <3>2. HandFits(d) /\ (at[d].run # 0 => at[d].run \in DOMAIN rows)
      BY DEF HandFits
    <3> QED BY <1>1, <1>3, <1>6, <3>1, <3>2, OthersFit
  <2> QED BY <2>1, <2>2
<1>11. \A r \in DOMAIN rows : Preceding(r)' = Preceding(r)
  BY <1>3, PrecedingKept
<1>12. n \notin misread' => at[c].previous = Preceding(n)'
  <2> SUFFICES ASSUME n \notin misread' PROVE at[c].previous = Preceding(n)'
    OBVIOUS
  <2>1. at[c].sure
    BY <1>3
  <2>2. at[c].previous = LatestTerminal
    BY <2>1 DEF OutcomeFits
  <2>3. LatestTerminal = IF Len(rows) = 0 THEN "" ELSE rows[Len(rows)].outcome
    BY LatestIsLast DEF InsertBackupRun
  <2>4. Preceding(n)' = IF n = 1 THEN "" ELSE rows'[n - 1].outcome
    BY DEF Preceding
  <2>5. CASE Len(rows) = 0
    <3>1. n = 1
      BY <1>0, <2>5
    <3>2. LatestTerminal = "" /\ Preceding(n)' = ""
      BY <2>3, <2>4, <2>5, <3>1
    <3> QED BY <2>2, <3>2
  <2>6. CASE Len(rows) # 0
    <3>1. n # 1 /\ n - 1 = Len(rows) /\ Len(rows) \in DOMAIN rows
      BY <1>2, <2>6, <1>0
    <3> QED BY <1>3, <2>2, <2>3, <2>4, <2>6, <3>1
  <2> QED BY <2>5, <2>6
<1>13. LatestTerminal' = LatestTerminal
  <2>1. Terminal' = Terminal
    <3>1. n \notin Terminal'
      BY <1>3 DEF Terminal
    <3>2. \A r \in DOMAIN rows' : r # n => r \in DOMAIN rows
      BY <1>2, <1>3, <1>0
    <3>3. DOMAIN rows \subseteq DOMAIN rows'
      BY <1>2, <1>3, <1>0
    <3> QED BY <1>3, <3>1, <3>2, <3>3 DEF Terminal
  <2>2. PICK m : m = Max(Terminal)
    OBVIOUS
  <2>3. CASE Terminal = {}
    BY <2>1, <2>3 DEF LatestTerminal
  <2>4. CASE Terminal # {}
    <3>1. Terminal = 1..Len(rows) /\ Len(rows) \in Nat \ {0}
      <4>1. Terminal = DOMAIN rows
        BY RowsEnd DEF Terminal, InsertBackupRun
      <4> QED BY <1>2, <2>4, <4>1
    <3>2. m \in DOMAIN rows
      BY <1>2, <2>2, <3>1, LargestIsLast
    <3>3. LatestTerminal = rows[m].outcome /\ LatestTerminal' = rows'[m].outcome
      BY <2>1, <2>2, <2>4 DEF LatestTerminal
    <3> QED BY <1>3, <3>2, <3>3
  <2> QED BY <2>3, <2>4
<1>14. \A d \in Callers : OutcomeFits(d)'
  <2>1. OutcomeFits(c)'
    BY <1>4, <1>6, <1>12 DEF OutcomeFits, Preceding
  <2>2. ASSUME NEW d \in Callers \ {c} PROVE OutcomeFits(d)'
    <3>1. PICK r : r = at[d].run
      OBVIOUS
    <3>2. r # 0 /\ r \notin misread => at[d].previous = Preceding(r)
      BY <3>1 DEF OutcomeFits
    <3>3. r # 0 => Preceding(r)' = Preceding(r)
      BY <1>11, <3>1 DEF HandFits
    <3>4. at'[d] = at[d] /\ misread \subseteq misread'
      BY <1>6
    <3>5. (at[d].run # 0 /\ at[d].run \notin misread => at[d].previous = Preceding(at[d].run))'
      BY <3>1, <3>2, <3>3, <3>4 DEF Preceding
    <3>6. (at[d].step = "start" /\ at[d].sure => at[d].previous = LatestTerminal)'
      BY <1>13, <3>4 DEF OutcomeFits
    <3> QED BY <3>5, <3>6 DEF OutcomeFits
  <2> QED BY <2>1, <2>2
<1>15. RecoveryIsNews'
  <2>1. \A r \in DOMAIN rows : NewsFits(r)
    BY NewsByRow DEF News
  <2>2. ASSUME NEW r \in DOMAIN rows' PROVE NewsFits(r)'
    <3>1. CASE r = n
      BY <1>1, <1>4, <3>1 DEF NewsFits
    <3>2. CASE r # n
      <4>1. r \in DOMAIN rows /\ misread \subseteq misread'
        BY <1>2, <1>3, <3>2, <1>0
      <4> QED BY <1>1, <1>3, <1>11, <2>1, <4>1 DEF NewsFits
    <3> QED BY <3>1, <3>2
  <2>3. BackupTypeOK' => (RecoveryIsNews' <=> News')
    BY NewsByRow, PTL
  <2> QED BY <1>9, <2>2, <2>3 DEF News
<1>16. FilesMatchTheRuns'
  <2>1. \A r \in LatestSucceeded' : bucket'[r] = "sound"
    <3>1. \A r \in LatestSucceeded' : r # n /\ r \in DOMAIN rows'
      BY <1>3 DEF LatestSucceeded
    <3>2. \A r \in DOMAIN rows' : r # n => r \in DOMAIN rows
      BY <1>2, <1>3, <1>0
    <3> QED BY <1>1, <1>3, <3>1, <3>2 DEF FilesMatchTheRuns, LatestSucceeded
  <2>2. ASSUME NEW f \in volume, f[1] \notin unremoved
        PROVE  \E d \in Callers : at'[d].run = f[1] /\ at'[d].step \notin {"fail", "alert"}
    <3>1. PICK d \in Callers : at[d].run = f[1] /\ at[d].step \notin {"fail", "alert"}
      BY <2>2 DEF FilesMatchTheRuns
    <3>2. at[d].run # 0
      <4>1. f[1] \in Runs
        BY <2>2 DEF BackupTypeOK
      <4> QED BY <1>2, <3>1, <4>1 DEF Runs
    <3>3. d # c
      BY <3>2 DEF HandFits, Working
    <3> QED BY <1>6, <3>1, <3>3
  <2> QED BY <1>1, <2>1, <2>2 DEF FilesMatchTheRuns
<1> QED BY <1>7, <1>9, <1>10, <1>14, <1>15, <1>16

\* The deferred removal takes the run's own files, or remembers that it could not.
LEMMA StepCleansUp ==
  ASSUME BackupInv, NEW c \in Callers, Cleanup(c)
  PROVE  BackupInv'
<1> USE DEF BackupInv
<1> DEFINE step == IF at[c].reason = "" THEN "alert" ELSE "fail"
<1>1. UNCHANGED <<rows, overdue, bucket, mail, misread, process>>
  BY DEF Cleanup, record
<1>2. at[c].step = "cleanup" /\ Moves(c, step, at[c].reason)
  BY Going DEF Cleanup, At, Steps
<1>3. /\ at[c].run \in DOMAIN rows /\ at[c].run \in Runs /\ at[c].run # 0
      /\ mail[at[c].run] = "none"
  BY <1>2, RunInHand DEF Working
<1> HIDE DEF step
<1>4. /\ \A d \in Callers \ {c} : at'[d] = at[d]
      /\ at'[c].step = step /\ at'[c].run = at[c].run /\ at'[c].reason = at[c].reason
      /\ at'[c].previous = at[c].previous /\ at' \in [Callers -> Caller]
  BY <1>2 DEF Moves
<1>5. volume' \subseteq volume /\ unremoved \subseteq unremoved'
      /\ \A f \in volume' : f[1] = at[c].run => f[1] \in unremoved'
  BY DEF Cleanup
<1>6. BackupTypeOK'
  <2>1. ASSUME NEW d \in Callers, NEW e \in Callers, at'[d].run # 0, at'[d].run = at'[e].run
        PROVE  d = e
    <3>1. at[d].run # 0 /\ at[d].run = at[e].run
      BY <1>4, <2>1
    <3> QED BY <3>1 DEF BackupTypeOK
  <2>2. volume' \subseteq Runs \X {"plain", "crypt"}
    BY <1>5 DEF BackupTypeOK
  <2> QED BY <1>1, <1>4, <2>1, <2>2 DEF BackupTypeOK, Running
<1>7. \A d \in Callers : HandFits(d)'
  <2>1. HandFits(c)'
    BY <1>1, <1>2, <1>3, <1>4 DEF step, HandFits, Working, Before, Running
  <2>2. ASSUME NEW d \in Callers \ {c} PROVE HandFits(d)'
    BY <1>1, <1>4, OthersFit
  <2> QED BY <2>1, <2>2
<1>8. \A d \in Callers : OutcomeFits(d)'
  <2>1. LatestTerminal' = LatestTerminal
    BY <1>1 DEF LatestTerminal, Terminal
  <2>2. \A r : Preceding(r)' = Preceding(r)
    BY <1>1 DEF Preceding
  <2>3. OutcomeFits(c)'
    BY <1>1, <1>4, <2>2 DEF OutcomeFits, step
  <2>4. ASSUME NEW d \in Callers \ {c} PROVE OutcomeFits(d)'
    BY <1>1, <1>4, <2>1, <2>2 DEF OutcomeFits
  <2> QED BY <2>3, <2>4
<1>9. LastRuns' /\ MailsOfRows' /\ RecoveryIsNews' /\ DownIsOff'
  <2>1. process # "down"
    BY <1>2, Serving
  <2>2. LastRuns' /\ MailsOfRows'
    BY <1>1 DEF LastRuns, Running, MailsOfRows
  <2>3. RecoveryIsNews'
    <3>1. \A r : NewsFits(r)' <=> NewsFits(r)
      BY <1>1 DEF NewsFits, Preceding
    <3>2. BackupTypeOK' => (RecoveryIsNews' <=> News')
      BY NewsByRow, PTL
    <3>3. News'
      BY <1>1, <3>1, NewsByRow DEF News
    <3> QED BY <1>6, <3>2, <3>3
  <2> QED BY <1>1, <2>1, <2>2, <2>3 DEF DownIsOff
<1>10. FilesMatchTheRuns'
  <2>1. \A r \in LatestSucceeded' : bucket'[r] = "sound"
    BY <1>1 DEF FilesMatchTheRuns, LatestSucceeded
  <2>2. ASSUME NEW f \in volume', f[1] \notin unremoved', process # "down"
        PROVE  \E d \in Callers : at'[d].run = f[1] /\ at'[d].step \notin {"fail", "alert"}
    <3>1. PICK d \in Callers : at[d].run = f[1] /\ at[d].step \notin {"fail", "alert"}
      BY <1>5, <2>2 DEF FilesMatchTheRuns
    <3>2. d # c
      BY <1>5, <2>2, <3>1
    <3> QED BY <1>4, <3>1, <3>2
  <2> QED BY <1>1, <2>1, <2>2 DEF FilesMatchTheRuns
<1> QED BY <1>6, <1>7, <1>8, <1>9, <1>10

\* What a run tells fits its row and the one before.
LEMMA StepAlerts ==
  ASSUME BackupInv, NEW c \in Callers, Alert(c)
  PROVE  BackupInv'
<1> USE DEF BackupInv
<1>1. UNCHANGED <<rows, overdue, volume, bucket, unremoved, misread, process>>
  BY DEF Alert, record, world
<1>2. at[c].step = "alert" /\ Rests(c)
  BY Returning DEF Alert, At
<1>3. /\ at[c].run \in DOMAIN rows /\ at[c].run \in Runs /\ at[c].run # 0
      /\ mail[at[c].run] = "none"
  BY <1>2, RunInHand DEF Working
<1>4. /\ \A d \in Callers \ {c} : at'[d] = at[d]
      /\ at'[c].run = 0 /\ at'[c].step \notin Working /\ at'[c].reason = ""
      /\ at'[c].step = "start" /\ at'[c].sure => at'[c].previous = LatestTerminal
      /\ at' \in [Callers -> Caller]
  BY <1>2 DEF Rests
<1>5. PICK run : run = at[c].run
  OBVIOUS
<1>6. /\ mail' \in [Runs -> {"none", "failed", "recovered", "quiet"}]
      /\ mail'[run] = Alerted(c) /\ \A r \in Runs \ {run} : mail'[r] = mail[r]
  <2>1. Alerted(c) \in {"none", "failed", "recovered", "quiet"}
    BY DEF Alerted
  <2>2. mail' = [mail EXCEPT ![run] = Alerted(c)]
    BY <1>5 DEF Alert
  <2> HIDE DEF Alerted
  <2> QED BY <1>3, <1>5, <2>1, <2>2 DEF BackupTypeOK
<1>7. BackupTypeOK'
  <2>1. ASSUME NEW d \in Callers, NEW e \in Callers, at'[d].run # 0, at'[d].run = at'[e].run
        PROVE  d = e
    <3>1. d # c /\ e # c
      BY <1>4, <2>1
    <3>2. at[d].run # 0 /\ at[d].run = at[e].run
      BY <1>4, <2>1, <3>1
    <3> QED BY <3>2 DEF BackupTypeOK
  <2> QED BY <1>1, <1>4, <1>6, <2>1 DEF BackupTypeOK, Running
<1>8. \A d \in Callers : HandFits(d)'
  <2>1. HandFits(c)'
    BY <1>4 DEF HandFits, Working, Before
  <2>2. ASSUME NEW d \in Callers \ {c} PROVE HandFits(d)'
    <3>1. at[d].run # 0 => at[d].run \in Runs \ {run}
      BY <1>3, <1>5, OwnRuns, RowNumbers DEF HandFits
    <3>2. HandFits(d) /\ at'[d] = at[d]
      BY <1>4
    <3> QED BY <1>1, <1>6, <3>1, <3>2, OthersFit
  <2> QED BY <2>1, <2>2
<1>9. \A r : Preceding(r)' = Preceding(r)
  BY <1>1 DEF Preceding
<1>10. \A d \in Callers : OutcomeFits(d)'
  <2>1. LatestTerminal' = LatestTerminal
    BY <1>1 DEF LatestTerminal, Terminal
  <2>2. OutcomeFits(c)'
    BY <1>4, <2>1 DEF OutcomeFits
  <2>3. ASSUME NEW d \in Callers \ {c} PROVE OutcomeFits(d)'
    BY <1>1, <1>4, <1>9, <2>1 DEF OutcomeFits
  <2> QED BY <2>2, <2>3
<1>11. LastRuns' /\ MailsOfRows' /\ DownIsOff'
  <2>1. process # "down"
    BY <1>2, Serving
  <2>2. LastRuns'
    BY <1>1 DEF LastRuns, Running
  <2>3. MailsOfRows'
    BY <1>1, <1>3, <1>5, <1>6 DEF MailsOfRows
  <2> QED BY <1>1, <2>1, <2>2, <2>3 DEF DownIsOff
<1>12. RecoveryIsNews'
  <2>1. \A r \in DOMAIN rows : NewsFits(r)
    BY NewsByRow DEF News
  <2>2. ASSUME NEW r \in DOMAIN rows PROVE NewsFits(r)'
    <3>1. CASE r = run
      <4>1. run \notin misread => at[c].previous = Preceding(run)
        BY <1>3, <1>5 DEF OutcomeFits
      <4>2. at[c].reason = "" <=> rows[run].outcome = "succeeded"
        BY <1>2, <1>3, <1>5 DEF HandFits
      <4> QED BY <1>1, <1>6, <1>9, <3>1, <4>1, <4>2 DEF NewsFits, Alerted
    <3>2. CASE r # run
      <4>1. mail'[r] = mail[r]
        BY <1>6, <3>2, RowNumbers
      <4> QED BY <1>1, <1>9, <2>1, <4>1 DEF NewsFits
    <3> QED BY <3>1, <3>2
  <2>3. BackupTypeOK' => (RecoveryIsNews' <=> News')
    BY NewsByRow, PTL
  <2> QED BY <1>1, <1>7, <2>2, <2>3 DEF News
<1>13. FilesMatchTheRuns'
  <2>1. \A r \in LatestSucceeded' : bucket'[r] = "sound"
    BY <1>1 DEF FilesMatchTheRuns, LatestSucceeded
  <2>2. ASSUME NEW f \in volume, f[1] \notin unremoved, process # "down"
        PROVE  \E d \in Callers : at'[d].run = f[1] /\ at'[d].step \notin {"fail", "alert"}
    <3>1. PICK d \in Callers : at[d].run = f[1] /\ at[d].step \notin {"fail", "alert"}
      BY <2>2 DEF FilesMatchTheRuns
    <3>2. d # c
      BY <1>2, <3>1
    <3> QED BY <1>4, <3>1, <3>2
  <2> QED BY <1>1, <2>1, <2>2 DEF FilesMatchTheRuns
<1> QED BY <1>7, <1>8, <1>10, <1>11, <1>12, <1>13

\* A process that ends takes its callers with it.
LEMMA StepExits ==
  ASSUME BackupInv, Exit
  PROVE  BackupInv'
<1> USE DEF BackupInv
<1>1. /\ UNCHANGED <<rows, overdue, volume, bucket, unremoved, mail, misread>>
      /\ process' = "down" /\ at' = [c \in Callers |-> Off]
  BY DEF Exit, record, world
<1>2. /\ at' \in [Callers -> Caller]
      /\ \A c \in Callers : /\ at'[c].run = 0 /\ at'[c].step = "off" /\ at'[c].reason = ""
                            /\ at'[c] = Off
  <2>1. Off \in Caller /\ Off.run = 0 /\ Off.step = "off" /\ Off.reason = ""
    BY DEF Off, Caller, Steps
  <2> HIDE DEF Off
  <2> QED BY <1>1, <2>1
<1>3. BackupTypeOK'
  <2>1. \A c \in Callers : at'[c].run = 0
    BY <1>2
  <2> QED BY <1>1, <1>2, <2>1 DEF BackupTypeOK, Running
<1>4. \A c \in Callers : HandFits(c)' /\ OutcomeFits(c)'
  BY <1>2 DEF HandFits, OutcomeFits, Working, Before
<1>5. LastRuns' /\ MailsOfRows' /\ DownIsOff' /\ FilesMatchTheRuns'
  <2>1. LastRuns' /\ MailsOfRows' /\ DownIsOff'
    BY <1>1 DEF LastRuns, Running, MailsOfRows, DownIsOff
  <2>2. FilesMatchTheRuns'
    BY <1>1 DEF FilesMatchTheRuns, LatestSucceeded
  <2> QED BY <2>1, <2>2
<1>6. RecoveryIsNews'
  <2>1. \A r : NewsFits(r)' <=> NewsFits(r)
    BY <1>1 DEF NewsFits, Preceding
  <2>2. BackupTypeOK' => (RecoveryIsNews' <=> News')
    BY NewsByRow, PTL
  <2>3. News'
    BY <1>1, <2>1, NewsByRow DEF News
  <2> QED BY <1>3, <2>2, <2>3
<1> QED BY <1>3, <1>4, <1>5, <1>6

\* The startup sweep may fail in either half: the rows it strands, if any, have
\* no caller, and the files it leaves are remembered.
LEMMA StepBoots ==
  ASSUME BackupInv, Boot
  PROVE  BackupInv'
<1> USE DEF BackupInv
<1>1. /\ UNCHANGED <<overdue, bucket, mail, misread>>
      /\ process = "down" /\ process' = "up" /\ at' = [at EXCEPT ![Sched].step = "due"]
  BY DEF Boot
<1>2. /\ volume' \subseteq volume /\ \A f \in volume' : f[1] \in unremoved'
  BY DEF Boot
<1>3. /\ rows' \in Seq(Row) /\ Len(rows') = Len(rows) /\ DOMAIN rows' = DOMAIN rows
      /\ Running' \subseteq Running
      /\ \A q \in DOMAIN rows : IF q \in Running THEN rows'[q].outcome # "succeeded"
                                ELSE rows'[q] = rows[q]
  <2>1. CASE StrandRunningBackupRuns
    <3>1. \A q \in DOMAIN rows : IF q \in Running THEN rows'[q].outcome = "failed"
                                 ELSE rows'[q] = rows[q]
      BY <2>1, RunsStranded
    <3>2. \A q \in DOMAIN rows : IF q \in Running THEN rows'[q].outcome # "succeeded"
                                 ELSE rows'[q] = rows[q]
      BY <3>1
    <3> QED BY <2>1, <3>2, RunsStranded
  <2>2. CASE rows' = rows
    BY <2>2 DEF BackupTypeOK, Running
  <2>3. StrandRunningBackupRuns \/ rows' = rows
    BY DEF Boot
  <2> QED BY <2>1, <2>2, <2>3
<1>4. /\ at' \in [Callers -> Caller]
      /\ \A c \in Callers : /\ at'[c].run = 0 /\ at'[c].step \in {"off", "due"}
                            /\ at'[c].reason = ""
  <2> DEFINE new == [Off EXCEPT !.step = "due"]
  <2>1. /\ Off \in Caller /\ Off.run = 0 /\ Off.step = "off" /\ Off.reason = ""
        /\ new \in Caller /\ new.run = 0 /\ new.step = "due" /\ new.reason = ""
    BY DEF Off, Caller, Steps
  <2>2. at = [c \in Callers |-> Off] /\ Sched \in Callers
    BY <1>1 DEF DownIsOff, Callers
  <2>3. at' = [c \in Callers |-> IF c = Sched THEN new ELSE Off]
    BY <1>1, <2>2
  <2> HIDE DEF Off, new
  <2> QED BY <2>1, <2>3
<1>5. LastRuns' /\ MailsOfRows' /\ DownIsOff'
  <2>1. LastRuns'
    BY <1>3 DEF LastRuns
  <2>2. MailsOfRows'
    BY <1>1, <1>3 DEF MailsOfRows
  <2> QED BY <1>1, <2>1, <2>2 DEF DownIsOff
<1>6. BackupTypeOK'
  <2>1. Len(rows') <= MaxRuns
    BY <1>3 DEF BackupTypeOK
  <2>2. LastRuns' => (Cardinality(Running) <= 1)'
    BY OneRunning, PTL
  <2>3. volume' \subseteq Runs \X {"plain", "crypt"}
    BY <1>2 DEF BackupTypeOK
  <2>4. \A c \in Callers : at'[c].run = 0
    BY <1>4
  <2> QED BY <1>1, <1>3, <1>4, <1>5, <2>1, <2>2, <2>3, <2>4 DEF BackupTypeOK
<1>7. \A c \in Callers : HandFits(c)' /\ OutcomeFits(c)'
  BY <1>4 DEF HandFits, OutcomeFits, Working, Before
<1>8. FilesMatchTheRuns'
  <2>1. \A r \in LatestSucceeded' : r \in LatestSucceeded
    BY <1>3 DEF LatestSucceeded
  <2> QED BY <1>1, <1>2, <2>1 DEF FilesMatchTheRuns
<1>9. RecoveryIsNews'
  <2>1. \A r \in DOMAIN rows : NewsFits(r)
    BY NewsByRow DEF News
  <2>2. \A r \in DOMAIN rows : Preceding(r)' = Preceding(r)
    BY <1>3, PrecedingKept
  <2>3. ASSUME NEW r \in DOMAIN rows PROVE NewsFits(r)'
    <3>1. CASE r \in Running
      <4>1. rows[r].outcome # "succeeded"
        BY <3>1 DEF Running
      <4>2. rows'[r].outcome # "succeeded"
        BY <1>3, <3>1
      <4> QED BY <1>1, <2>1, <4>1, <4>2 DEF NewsFits
    <3>2. CASE r \notin Running
      BY <1>1, <1>3, <2>1, <2>2, <3>2 DEF NewsFits
    <3> QED BY <3>1, <3>2
  <2>4. BackupTypeOK' => (RecoveryIsNews' <=> News')
    BY NewsByRow, PTL
  <2> QED BY <1>3, <1>6, <2>3, <2>4 DEF News
<1> QED BY <1>5, <1>6, <1>7, <1>8, <1>9

\* SIGTERM changes nothing but what calls may fail.
LEMMA StepShutsDown ==
  ASSUME BackupInv, Shutdown \/ UNCHANGED vars
  PROVE  BackupInv'
<1> USE DEF BackupInv
<1>1. UNCHANGED <<rows, overdue, volume, bucket, unremoved, mail, misread, at>>
  BY DEF Shutdown, record, world, vars
<1>2. process' = process \/ (process' = "stopping" /\ process # "down")
  BY DEF Shutdown, vars
<1>3. BackupTypeOK'
  <2>1. Running' = Running
    BY <1>1 DEF Running
  <2>2. process' \in {"up", "stopping", "down"}
    BY <1>2 DEF BackupTypeOK
  <2> QED BY <1>1, <2>1, <2>2 DEF BackupTypeOK
<1>4. \A c \in Callers : HandFits(c)' /\ OutcomeFits(c)'
  <2>1. \A c \in Callers : HandFits(c)'
    BY <1>1 DEF HandFits, Running
  <2>2. LatestTerminal' = LatestTerminal
    BY <1>1 DEF LatestTerminal, Terminal
  <2>3. \A c \in Callers : OutcomeFits(c)'
    BY <1>1, <2>2 DEF OutcomeFits, Preceding
  <2> QED BY <2>1, <2>3
<1>5. LastRuns' /\ MailsOfRows' /\ DownIsOff' /\ FilesMatchTheRuns'
  <2>1. LastRuns' /\ MailsOfRows'
    BY <1>1 DEF LastRuns, Running, MailsOfRows
  <2>2. DownIsOff'
    BY <1>1, <1>2 DEF DownIsOff
  <2>3. FilesMatchTheRuns'
    BY <1>1, <1>2 DEF FilesMatchTheRuns, LatestSucceeded
  <2> QED BY <2>1, <2>2, <2>3
<1>6. RecoveryIsNews'
  <2>1. \A r : NewsFits(r)' <=> NewsFits(r)
    BY <1>1 DEF NewsFits, Preceding
  <2>2. BackupTypeOK' => (RecoveryIsNews' <=> News')
    BY NewsByRow, PTL
  <2>3. News'
    BY <1>1, <2>1, NewsByRow DEF News
  <2> QED BY <1>3, <2>2, <2>3
<1> QED BY <1>3, <1>4, <1>5, <1>6

-----------------------------------------------------------------------------
(* Every step. *)

\* The schedule, between runs.
LEMMA StepSchedules ==
  ASSUME BackupInv, Schedule
  PROVE  BackupInv'
<1>1. BackupTypeOK /\ DownIsOff /\ HandFits(Sched) /\ Sched \in Callers
  BY DEF BackupInv, Callers
<1>2. at[Sched].step \in {"due", "timer", "tick"} /\ UNCHANGED <<rows, world, mail, misread>>
      /\ process' = process
  BY DEF Schedule, DueNow, Elapse, Tick, ScheduleReturns, At, record
<1>3. at[Sched].step \notin Working /\ process # "down" /\ at[Sched].reason = "" /\ at[Sched].run = 0
  BY <1>1, <1>2, Serving DEF HandFits, Working
<1>4. overdue' \in BOOLEAN
  BY <1>1 DEF Schedule, DueNow, Elapse, Tick, ScheduleReturns, record, BackupTypeOK
<1>5. PICK step \in {"off", "timer", "tick", "previous"} : Go(Sched, step)
  BY DEF Schedule, DueNow, Elapse, Tick, ScheduleReturns
<1>6. Moves(Sched, step, at[Sched].reason)
  BY <1>1, <1>5, Going DEF Steps
<1>7. Rests(Sched)
  BY <1>3, <1>6 DEF Moves, Rests, Working
<1> QED BY <1>1, <1>2, <1>3, <1>4, <1>7, StepRests

\* A caller on its way to inserting a row, or refused one.
LEMMA StepApproaches ==
  ASSUME BackupInv, NEW c \in Callers, AdminBackupRun(c) \/ PreviousOutcome(c) \/ StartBackupRun(c)
  PROVE  BackupInv'
<1>1. BackupTypeOK /\ LastRuns /\ DownIsOff /\ HandFits(c) /\ overdue \in BOOLEAN
  BY DEF BackupInv, BackupTypeOK
<1>2. CASE AdminBackupRun(c)
  <2>1. /\ at[c].step = "off" /\ process = "up" /\ process' = process /\ Go(c, "previous")
        /\ UNCHANGED <<rows, overdue, world, mail, misread>>
    BY <1>2 DEF AdminBackupRun, At, record
  <2>2. at[c].step \notin Working /\ at[c].reason = "" /\ at[c].run = 0
    BY <1>1, <2>1 DEF HandFits, Working
  <2>3. Moves(c, "previous", at[c].reason)
    BY <1>1, <2>1, Going DEF Steps
  <2>4. Rests(c)
    BY <2>2, <2>3 DEF Moves, Rests, Working
  <2> QED BY <1>1, <2>1, <2>2, <2>4, StepRests
<1>3. CASE PreviousOutcome(c)
  <2>1. /\ at[c].step = "previous" /\ process' = process
        /\ UNCHANGED <<rows, overdue, world, mail, misread>>
    BY <1>3 DEF PreviousOutcome, At, record
  <2>2. at[c].step \notin Working /\ at[c].reason = "" /\ at[c].run = 0 /\ process # "down"
    BY <1>1, <2>1, Serving DEF HandFits, Working
  <2>3. PICK sure \in BOOLEAN, previous \in {"", "succeeded", "failed"} :
          /\ sure => previous = LatestTerminal
          /\ at' = [at EXCEPT ![c] = [@ EXCEPT !.step = "start", !.previous = previous, !.sure = sure]]
    <3>1. at[c] \in Caller
      BY <1>1 DEF BackupTypeOK
    <3>2. CASE at' = [at EXCEPT ![c].step = "start", ![c].previous = LatestTerminal, ![c].sure = TRUE]
      BY <1>1, <3>2, LatestType
    <3>3. CASE at' = [at EXCEPT ![c].step = "start", ![c].sure = FALSE]
      <4>1. [at[c] EXCEPT !.step = "start", !.sure = FALSE]
            = [at[c] EXCEPT !.step = "start", !.previous = at[c].previous, !.sure = FALSE]
        BY <3>1 DEF Caller
      <4>2. at[c].previous \in {"", "succeeded", "failed"}
        BY <3>1 DEF Caller
      <4> QED BY <3>3, <4>1, <4>2
    <3> QED BY <1>3, <3>2, <3>3 DEF PreviousOutcome
  <2>4. Rests(c)
    <3> DEFINE new == [at[c] EXCEPT !.step = "start", !.previous = previous, !.sure = sure]
    <3>1. at[c] \in Caller
      BY <1>1 DEF BackupTypeOK
    <3>2. /\ new \in Caller /\ new.step = "start" /\ new.run = 0 /\ new.reason = ""
          /\ new.sure => new.previous = LatestTerminal
      BY <2>2, <2>3, <3>1 DEF Caller, Steps
    <3>3. at' = [at EXCEPT ![c] = new]
      BY <2>3
    <3> HIDE DEF new
    <3> QED BY <1>1, <3>2, <3>3, CallerUpdate DEF Rests, Working
  <2> QED BY <1>1, <2>1, <2>2, <2>4, StepRests
<1>4. CASE StartBackupRun(c)
  <2>1. /\ at[c].step = "start" /\ Len(rows) < MaxRuns /\ process' = process
        /\ UNCHANGED <<overdue, world, mail>>
    BY <1>4 DEF StartBackupRun, At
  <2>2. at[c].step \notin Working /\ process # "down"
    BY <1>1, <2>1, Serving DEF Working
  <2>3. CASE Return(c) /\ UNCHANGED <<rows, misread>>
    BY <1>1, <2>1, <2>2, <2>3, Returning, StepRests
  <2>4. CASE /\ InsertBackupRun(IF c = Sched THEN "schedule" ELSE "manual")
             /\ at' = [at EXCEPT ![c].step = "snapshot", ![c].run = Len(rows')]
             /\ misread' = IF at[c].sure THEN misread ELSE misread \union {Len(rows')}
    BY <2>1, <2>2, <2>4, StepInserts
  <2> QED BY <1>4, <2>3, <2>4 DEF StartBackupRun
<1> QED BY <1>2, <1>3, <1>4

\* A run at work on its snapshot and its object.
LEMMA StepMakes ==
  ASSUME BackupInv, NEW c \in Callers, Snapshot(c) \/ EncryptTo(c) \/ Put(c) \/ VerifyObject(c)
  PROVE  BackupInv'
<1>1. BackupTypeOK /\ DownIsOff /\ HandFits(c)
  BY DEF BackupInv
<1>2. at[c].step \in {"snapshot", "encrypt", "put", "verify"}
  BY DEF Snapshot, EncryptTo, Put, VerifyObject, At
<1>3. /\ at[c].step \in Before /\ at[c].reason = "" /\ process # "down" /\ at[c].run \in Runs
      /\ bucket \in [Runs -> {"none", "torn", "sound"}]
  <2>1. at[c].step \in Working /\ at[c].step \in Before /\ at[c].step # "off"
    BY <1>2 DEF Working, Before
  <2> QED BY <1>1, <1>2, <2>1, RunInHand, Serving DEF HandFits, BackupTypeOK
<1>4. process' = process /\ UNCHANGED <<record, mail, misread, unremoved>>
  BY DEF Snapshot, EncryptTo, Put, VerifyObject, world
<1>5. PICK step \in Before \union {"cleanup"}, reason \in Reasons \union {""} :
        /\ Moves(c, step, reason)
        /\ step = "cleanup" <=> reason # ""
        /\ step = "succeed" => VerifyObject(c) /\ bucket[at[c].run] = "sound"
  <2>1. ASSUME NEW why \in Reasons, GiveUp(c, why)
        PROVE  \E step \in Before \union {"cleanup"}, reason \in Reasons \union {""} :
                 /\ Moves(c, step, reason)
                 /\ step = "cleanup" <=> reason # ""
                 /\ step = "succeed" => VerifyObject(c) /\ bucket[at[c].run] = "sound"
    <3>1. Moves(c, "cleanup", why) /\ why # ""
      BY <1>1, <2>1, GivingUp
    <3>2. "cleanup" \in Before \union {"cleanup"} /\ why \in Reasons \union {""} /\ "cleanup" # "succeed"
      OBVIOUS
    <3> QED BY <3>1, <3>2
  <2>2. ASSUME NEW next \in Before, Go(c, next),
               next = "succeed" => VerifyObject(c) /\ bucket[at[c].run] = "sound"
        PROVE  \E step \in Before \union {"cleanup"}, reason \in Reasons \union {""} :
                 /\ Moves(c, step, reason)
                 /\ step = "cleanup" <=> reason # ""
                 /\ step = "succeed" => VerifyObject(c) /\ bucket[at[c].run] = "sound"
    <3>1. next \in Steps /\ next # "cleanup"
      BY DEF Before, Steps
    <3>2. Moves(c, next, "")
      BY <1>1, <1>3, <2>2, <3>1, Going
    <3> QED BY <2>2, <3>1, <3>2
  <2>3. \/ \E why \in Reasons : GiveUp(c, why)
        \/ \E next \in Before : /\ Go(c, next)
                                /\ next = "succeed" => VerifyObject(c) /\ bucket[at[c].run] = "sound"
    <3>1. CASE Snapshot(c)
      <4>1. {"snapshot_failed", "integrity_failed"} \subseteq Reasons /\ "encrypt" \in Before
        BY DEF Reasons, Before
      <4> QED BY <3>1, <4>1 DEF Snapshot
    <3>2. CASE EncryptTo(c)
      <4>1. "encrypt_failed" \in Reasons /\ "put" \in Before
        BY DEF Reasons, Before
      <4> QED BY <3>2, <4>1 DEF EncryptTo
    <3>3. CASE Put(c)
      <4>1. "upload_failed" \in Reasons /\ "verify" \in Before
        BY DEF Reasons, Before
      <4> QED BY <3>3, <4>1 DEF Put
    <3>4. CASE VerifyObject(c)
      <4>1. "verify_failed" \in Reasons /\ "succeed" \in Before
        BY DEF Reasons, Before
      <4>2. \/ GiveUp(c, "verify_failed")
            \/ bucket[at[c].run] = "sound" /\ Go(c, "succeed")
        BY <3>4 DEF VerifyObject
      <4> QED BY <3>4, <4>1, <4>2
    <3> QED BY <3>1, <3>2, <3>3, <3>4
  <2> QED BY <2>1, <2>2, <2>3
<1>6. volume' \subseteq volume \union ({at[c].run} \X {"plain", "crypt"})
  <2>1. \/ volume' = volume
        \/ \E kind \in {"plain", "crypt"} : volume' = volume \union {<<at[c].run, kind>>}
    BY DEF Snapshot, EncryptTo, Put, VerifyObject, world
  <2>2. \A run, kind : kind \in {"plain", "crypt"} => <<run, kind>> \in {run} \X {"plain", "crypt"}
    OBVIOUS
  <2>3. CASE volume' = volume
    BY <2>3
  <2>4. ASSUME NEW kind \in {"plain", "crypt"}, volume' = volume \union {<<at[c].run, kind>>}
        PROVE  volume' \subseteq volume \union ({at[c].run} \X {"plain", "crypt"})
    <3>1. PICK file : file = <<at[c].run, kind>>
      OBVIOUS
    <3>2. file \in {at[c].run} \X {"plain", "crypt"}
      BY <2>2, <3>1
    <3>3. volume' = volume \union {file}
      BY <2>4, <3>1
    <3> QED BY <3>2, <3>3
  <2> QED BY <2>1, <2>3, <2>4
<1>7. /\ bucket' \in [Runs -> {"none", "torn", "sound"}]
      /\ \A r \in Runs \ {at[c].run} : bucket'[r] = bucket[r]
      /\ VerifyObject(c) => bucket' = bucket
  <2>1. bucket' = bucket \/ \E got \in {"none", "torn", "sound"} :
                              bucket' = [bucket EXCEPT ![at[c].run] = got]
    BY DEF Snapshot, EncryptTo, Put, VerifyObject, world
  <2>2. VerifyObject(c) => bucket' = bucket
    BY DEF VerifyObject, world
  <2> QED BY <1>3, <2>1, <2>2
<1> QED BY <1>3, <1>4, <1>5, <1>6, <1>7, StepWorks

\* A failure whose write is refused leaves its row running, and its caller goes on.
LEMMA StepLosesEnd ==
  ASSUME BackupInv, NEW c \in Callers, at[c].step = "fail", Go(c, "alert"),
         process' = process, process # "down",
         UNCHANGED <<rows, overdue, world, mail, misread>>
  PROVE  BackupInv'
<1> USE DEF BackupInv
<1>1. UNCHANGED <<rows, overdue, volume, bucket, unremoved, mail, misread>>
  BY DEF world
<1>2. Moves(c, "alert", at[c].reason)
  BY Going DEF Steps
<1>3. /\ at[c].run \in DOMAIN rows /\ at[c].run \in Runs /\ at[c].run # 0
      /\ mail[at[c].run] = "none" /\ at[c].run \in Running /\ at[c].reason # ""
  BY RunInHand DEF Working, HandFits
<1>4. /\ \A d \in Callers \ {c} : at'[d] = at[d]
      /\ at'[c].step = "alert" /\ at'[c].run = at[c].run /\ at'[c].reason = at[c].reason
      /\ at'[c].previous = at[c].previous /\ at' \in [Callers -> Caller]
  BY <1>2 DEF Moves
<1>5. BackupTypeOK'
  <2>1. ASSUME NEW d \in Callers, NEW e \in Callers, at'[d].run # 0, at'[d].run = at'[e].run
        PROVE  d = e
    <3>1. at[d].run # 0 /\ at[d].run = at[e].run
      BY <1>4, <2>1
    <3> QED BY <3>1 DEF BackupTypeOK
  <2>2. Running' = Running
    BY <1>1 DEF Running
  <2> QED BY <1>1, <1>4, <2>1, <2>2 DEF BackupTypeOK
<1>6. \A d \in Callers : HandFits(d)'
  <2>1. HandFits(c)'
    <3>1. rows[at[c].run].outcome # "succeeded"
      BY <1>3 DEF Running
    <3> QED BY <1>1, <1>3, <1>4, <3>1 DEF HandFits, Working, Before
  <2>2. ASSUME NEW d \in Callers \ {c} PROVE HandFits(d)'
    BY <1>1, <1>4, OthersFit
  <2> QED BY <2>1, <2>2
<1>7. \A d \in Callers : OutcomeFits(d)'
  <2>1. LatestTerminal' = LatestTerminal
    BY <1>1 DEF LatestTerminal, Terminal
  <2>2. \A r : Preceding(r)' = Preceding(r)
    BY <1>1 DEF Preceding
  <2>3. OutcomeFits(c)'
    BY <1>1, <1>4, <2>2 DEF OutcomeFits
  <2>4. ASSUME NEW d \in Callers \ {c} PROVE OutcomeFits(d)'
    BY <1>1, <1>4, <2>1, <2>2 DEF OutcomeFits
  <2> QED BY <2>3, <2>4
<1>8. LastRuns' /\ MailsOfRows' /\ RecoveryIsNews' /\ DownIsOff'
  <2>1. LastRuns' /\ MailsOfRows'
    BY <1>1 DEF LastRuns, Running, MailsOfRows
  <2>2. \A r : NewsFits(r)' <=> NewsFits(r)
    BY <1>1 DEF NewsFits, Preceding
  <2>3. BackupTypeOK' => (RecoveryIsNews' <=> News')
    BY NewsByRow, PTL
  <2>4. News'
    BY <1>1, <2>2, NewsByRow DEF News
  <2>5. DownIsOff'
    BY DEF DownIsOff
  <2> QED BY <1>5, <2>1, <2>3, <2>4, <2>5
<1>9. FilesMatchTheRuns'
  <2>1. \A r \in LatestSucceeded' : bucket'[r] = "sound"
    BY <1>1 DEF FilesMatchTheRuns, LatestSucceeded
  <2>2. ASSUME NEW f \in volume, f[1] \notin unremoved
        PROVE  \E d \in Callers : at'[d].run = f[1] /\ at'[d].step \notin {"fail", "alert"}
    <3>1. PICK d \in Callers : at[d].run = f[1] /\ at[d].step \notin {"fail", "alert"}
      BY <2>2 DEF FilesMatchTheRuns
    <3>2. d # c
      BY <3>1
    <3> QED BY <1>4, <3>1, <3>2
  <2> QED BY <1>1, <2>1, <2>2 DEF FilesMatchTheRuns
<1> QED BY <1>5, <1>6, <1>7, <1>8, <1>9

\* A run writing its end.
LEMMA StepEnds ==
  ASSUME BackupInv, NEW c \in Callers, FinishSucceeded(c) \/ FinishFailed(c)
  PROVE  BackupInv'
<1>1. BackupTypeOK /\ DownIsOff /\ HandFits(c) /\ at[c] \in Caller
  BY DEF BackupInv, BackupTypeOK
<1>2. at[c].step \in {"succeed", "fail"} /\ process' = process
      /\ UNCHANGED <<world, mail, misread>>
  BY DEF FinishSucceeded, FinishFailed, At
<1>3. /\ at[c].step \in Working /\ process # "down" /\ at[c].run \in Runs
      /\ at[c].reason \in Reasons \union {""}
  <2>1. at[c].step \in Working /\ at[c].step # "off"
    BY <1>2 DEF Working
  <2> QED BY <1>1, <2>1, RunInHand, Serving DEF Caller
<1>4. overdue' \in BOOLEAN
  BY <1>1 DEF FinishSucceeded, FinishFailed, BackupTypeOK
<1>5. CASE /\ at[c].step = "succeed" /\ FinishBackupRun(at[c].run, "succeeded", "")
           /\ at' = Outrun(c, [at EXCEPT ![c].step = "cleanup"])
  <2>1. at[c].reason = "" /\ bucket[at[c].run] = "sound"
    BY <1>1, <1>5 DEF HandFits
  <2> QED BY <1>2, <1>3, <1>4, <1>5, <2>1, StepFinishes
<1>6. CASE /\ at[c].step = "fail" /\ FinishBackupRun(at[c].run, "failed", at[c].reason)
           /\ at' = Outrun(c, [at EXCEPT ![c].step = "alert"])
  <2>1. at[c].reason # ""
    BY <1>1, <1>6 DEF HandFits
  <2> QED BY <1>2, <1>3, <1>4, <1>6, <2>1, StepFinishes
<1>7. CASE /\ at[c].step = "succeed" /\ GiveUp(c, "internal")
           /\ UNCHANGED <<record, world, mail, misread>>
  <2>1. Moves(c, "cleanup", "internal") /\ "internal" \in Reasons /\ "internal" # ""
    BY <1>1, <1>7, GivingUp DEF Reasons
  <2>2. /\ UNCHANGED <<record, mail, misread, unremoved>> /\ at[c].step \in Before
        /\ volume' = volume /\ bucket' = bucket /\ bucket \in [Runs -> {"none", "torn", "sound"}]
    BY <1>1, <1>7 DEF world, Before, BackupTypeOK
  <2>3. volume' \subseteq volume \union ({at[c].run} \X {"plain", "crypt"})
    BY <2>2
  <2> QED BY <1>2, <1>3, <2>1, <2>2, <2>3, StepWorks
<1>8. CASE /\ at[c].step = "fail" /\ Go(c, "alert")
           /\ UNCHANGED <<rows, overdue, world, mail, misread>>
  BY <1>2, <1>3, <1>8, StepLosesEnd
<1> QED BY <1>5, <1>6, <1>7, <1>8 DEF FinishSucceeded, FinishFailed, At, record

\* No run before the first start.
LEMMA InitBackup == Init => BackupInv
<1> SUFFICES ASSUME Init PROVE BackupInv
  OBVIOUS
<1>1. /\ rows = <<>> /\ volume = {} /\ bucket = [r \in Runs |-> "none"]
      /\ mail = [r \in Runs |-> "none"] /\ process = "down" /\ overdue = TRUE
      /\ at = [c \in Callers |-> Off]
  BY DEF Init
<1>2. rows \in Seq(Row) /\ Len(rows) = 0 /\ DOMAIN rows = {}
  BY <1>1, EmptySeq
<1>3. Running = {} /\ LatestSucceeded = {}
  BY <1>2 DEF Running, LatestSucceeded
<1>4. /\ at \in [Callers -> Caller]
      /\ \A c \in Callers : at[c].run = 0 /\ at[c].step = "off" /\ at[c].reason = ""
  <2>1. Off \in Caller /\ Off.run = 0 /\ Off.step = "off" /\ Off.reason = ""
    BY DEF Off, Caller, Steps
  <2> HIDE DEF Off
  <2> QED BY <1>1, <2>1
<1>5. LastRuns /\ DownIsOff /\ MailsOfRows /\ RecoveryIsNews /\ FilesMatchTheRuns
  BY <1>1, <1>2, <1>3 DEF LastRuns, DownIsOff, MailsOfRows, RecoveryIsNews, FilesMatchTheRuns
<1>6. BackupTypeOK
  <2>1. Cardinality(Running) <= 1 /\ Len(rows) <= MaxRuns
    BY <1>2, <1>5, OneRunning, BackupAssumption DEF BackupAssumption
  <2> QED BY <1>1, <1>2, <1>4, <2>1 DEF BackupTypeOK
<1>7. \A c \in Callers : HandFits(c) /\ OutcomeFits(c)
  BY <1>4 DEF HandFits, OutcomeFits, Working, Before
<1> QED BY <1>5, <1>6, <1>7 DEF BackupInv

\* BackupInv is inductive.
LEMMA BackupInvariant == Spec => []BackupInv
<1>1. BackupInv /\ [Next]_vars => BackupInv'
  <2> SUFFICES ASSUME BackupInv, [Next]_vars PROVE BackupInv'
    OBVIOUS
  <2>1. CASE Schedule
    BY <2>1, StepSchedules
  <2>2. CASE Shutdown \/ UNCHANGED vars
    BY <2>2, StepShutsDown
  <2>3. CASE Exit
    BY <2>3, StepExits
  <2>4. CASE Boot
    BY <2>4, StepBoots
  <2>5. ASSUME NEW c \in Callers, AdminBackupRun(c) \/ Execute(c) PROVE BackupInv'
    <3>1. CASE AdminBackupRun(c) \/ PreviousOutcome(c) \/ StartBackupRun(c)
      BY <3>1, StepApproaches
    <3>2. CASE Snapshot(c) \/ EncryptTo(c) \/ Put(c) \/ VerifyObject(c)
      BY <3>2, StepMakes
    <3>3. CASE FinishSucceeded(c) \/ FinishFailed(c)
      BY <3>3, StepEnds
    <3>4. CASE Cleanup(c)
      BY <3>4, StepCleansUp
    <3>5. CASE Alert(c)
      BY <3>5, StepAlerts
    <3> QED BY <2>5, <3>1, <3>2, <3>3, <3>4, <3>5 DEF Execute
  <2> QED BY <2>1, <2>2, <2>3, <2>4, <2>5 DEF Next
<1> QED BY <1>1, InitBackup, PTL DEF Spec

-----------------------------------------------------------------------------
(* Theorems. *)

\* Rows, files, objects, mails and callers are ones the program can write: at
\* most one row runs (the partial index of backup_runs), and no two callers
\* ever drive the same one.
THEOREM BackupTypeCorrect == Spec => []BackupTypeOK
<1>1. BackupInv => BackupTypeOK
  BY DEF BackupInv
<1> QED BY <1>1, BackupInvariant, PTL

\* notify's mails say what the record says: a failure is told, a recovery only
\* after a failure, and a success after a success is silent, for every order in
\* which the schedule and the buttons read the record, insert and end.
THEOREM MailTellsTheRecord == Spec => []RecoveryIsNews
<1>1. BackupInv => RecoveryIsNews
  BY DEF BackupInv
<1> QED BY <1>1, BackupInvariant, PTL

\* While the process is up, no copy of the database outlives the run that made
\* it unless its removal was refused, and a row that says "succeeded" has an
\* object that reads back.
THEOREM NoCopyOutlivesItsRun == Spec => []FilesMatchTheRuns
<1>1. BackupInv => FilesMatchTheRuns
  BY DEF BackupInv
<1> QED BY <1>1, BackupInvariant, PTL

=============================================================================
