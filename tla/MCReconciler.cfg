SPECIFICATION Spec
CONSTANTS
  a1 = a1
  c1 = c1
  c2 = c2
  u1 = u1
  u2 = u2
  NoApp = NoApp
  NoUpload = NoUpload
  Apps <- OneApp
  Configs <- MCConfigs
  InitialConfig = c1
  Uploads <- TwoUploads
  EngineOf <- MCEngineOf
  Engines <- MCEngines
  FailureCodes <- MCCodes
  MaxDeployments = 2
  MaxFaults = 1
  MaxCrashes = 1
  MaxAdminCalls = 1
  MaxShutdowns = 0
  MaxTroubles = 2
CONSTRAINT WithinBounds
INVARIANTS
  DriveKeepsStep
  ReleaseWasBuilt
  StoppedDeployStopsItsBuild
  DrivenAppIsLive
  RollbackRestoresItsRelease
PROPERTIES
  DeletedStaysDown
  ReleaseRanAsMinted
CHECK_DEADLOCK FALSE
