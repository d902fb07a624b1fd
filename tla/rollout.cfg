SPECIFICATION Spec
CONSTANTS
  Missing = Missing
  Urls <- MCUrls
  Envs <- MCEnvs
  OldEnv <- BaseEnv
  BackoffLimit = 3
  FaultyEnvs <- MCFaultyEnvs
  MaxFaults = 2
INVARIANTS
  ServesItsSchema
  VersionMeansTables
  RacesDoNotFailTheJob
  ForeignDatabaseUntouched
  PrepareSettles
  PreparedStarts
PROPERTIES
  GoodEnvRollsOut
CHECK_DEADLOCK FALSE
