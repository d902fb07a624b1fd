SPECIFICATION Spec
CONSTANTS
  Missing = Missing
  Urls <- MCUrls
  Envs <- MCSslEnvs
  OldEnv <- BaseEnv
  BackoffLimit = 3
  FaultyEnvs = {}
  MaxFaults = 0
PROPERTIES
  RunbookUrlGetsReady
CHECK_DEADLOCK FALSE
