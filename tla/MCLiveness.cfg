SPECIFICATION LiveSpec
CONSTANTS
  a1 = a1
  c1 = c1
  c2 = c2
  u1 = u1
  u2 = u2
  NoApp = NoApp
  NoUpload = NoUpload
  Apps <- OneApp
  Configs <- OneConfig
  InitialConfig = c1
  Uploads <- OneUpload
  EngineOf <- DockerOnly
  Engines <- MCEngines
  FailureCodes <- MCCodes
  MaxDeployments = 1
  MaxFaults = 1
  MaxCrashes = 0
  MaxAdminCalls = 1
  MaxShutdowns = 1
  MaxTroubles = 3
INVARIANTS
  ReconcilerTypeOK
PROPERTIES
  EveryDeploymentEnds
  OrphansAreReaped
  SuspendedAppStops
CHECK_DEADLOCK FALSE
