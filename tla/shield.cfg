CONSTANTS
  v1 = v1
  k1 = k1
  k2 = k2
  Null = Null
  VaultSecrets = {v1}
  PoolSecrets = {k1, k2}
  DEPTH = 2
  ATTEMPTS = 3
  MaxLeaves = 3
  MaxHeight = 3
  MaxClosed = 1
SPECIFICATION ShieldSpec
INVARIANTS SecretsKept PathsRight
PROPERTY OperationsEnd
CHECK_DEADLOCK FALSE
