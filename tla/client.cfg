SPECIFICATION ClientSpec
CONSTANTS
  Native = native
  Token = token
  Assets <- BothAssets
  MaxAttempts = 1
  Anchors = {home}
  Relays = {venue}
  NoRelay = NoRelay
  MaxBids = 2
  MaxRefreshes = 2
  MaxBusy = 3
  MaxMishaps = 1
INVARIANT
  SecretsHere
PROPERTIES
  ViewCatchesUp
  BidsListed
CHECK_DEADLOCK FALSE
