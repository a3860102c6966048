CONSTANTS
  v1 = v1
  v2 = v2
  Venues = {v1, v2}
  LOG_RANGE = 2
  GLOBAL_SAMPLE = 1
  START_BLOCK = 2
  MaxBlocks = 4
  MaxMoves = 1
  MaxFaults = 2
SPECIFICATION MenusSpec
PROPERTY MenusServed
CHECK_DEADLOCK FALSE
