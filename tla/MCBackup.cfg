SPECIFICATION Spec
CONSTANTS
  Buttons <- OneButton
  MaxRuns = 2
  MaxFaults = 2
  MaxRestarts = 1
INVARIANTS
  BackupTypeOK
  RecoveryIsNews
  FilesMatchTheRuns
PROPERTIES
  RunsEnd
CHECK_DEADLOCK FALSE
