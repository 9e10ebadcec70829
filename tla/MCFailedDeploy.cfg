SPECIFICATION Spec
CONSTANTS
  a1 = a1
  c1 = c1
  c2 = c2
  u1 = u1
  u2 = u2
  NoApp = NoApp
  NoUpload = NoUpload
  Apps <- OneApp
  Configs <- OneConfig
  InitialConfig = c1
  Uploads <- TwoUploads
  EngineOf <- MCEngineOf
  Engines <- MCEngines
  FailureCodes <- MCCodes
  MaxDeployments = 2
  MaxFaults = 0
  MaxCrashes = 0
  MaxAdminCalls = 0
  MaxShutdowns = 0
  MaxTroubles = 0
INVARIANTS
  FailedDeployLeavesReleaseRunning
CHECK_DEADLOCK FALSE
