\* Every token and every result of the SDK, one request after another.
SPECIFICATION Spec
CONSTANTS
  Settings <- AllSettings
  Tokens <- AllTokens
  Results <- AllResults
  Nothing = Nothing
INVARIANTS
  AdminsAlone
  SyncFollowsTheHit
  RefusalsChangeNothing
