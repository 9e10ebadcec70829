SPECIFICATION Spec
CONSTANTS
  a1 = a1
  c1 = c1
  c2 = c2
  u1 = u1
  u2 = u2
  NoApp = NoApp
  NoUpload = NoUpload
  Apps <- OneApp
  Configs <- OneConfig
  InitialConfig = c1
  Uploads <- OneUpload
  EngineOf <- DockerOnly
  Engines <- MCEngines
  FailureCodes <- MCCodes
  MaxDeployments = 1
  MaxFaults = 0
  MaxCrashes = 0
  MaxAdminCalls = 2
  MaxShutdowns = 0
  MaxTroubles = 2
PROPERTIES
  RestoreIsNotUndone
CHECK_DEADLOCK FALSE
