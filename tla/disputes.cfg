CONSTANTS
  c1 = c1
  c2 = c2
  d1 = d1
  d2 = d2
  v1 = v1
  relay = relay
  Nobody = Nobody
  Native = Native
  Treasury = Treasury
  Venues = {v1}
  MIN_WINDOW = 1
  MAX_WINDOW = 1
  MaxU96 = 10000
  Customers = {c1, c2}
  Drivers = {d1, d2}
  Tokens = {}
  Relayers = {relay}
  Values = {500}
  Tips = {0}
  Fares = {1009}
  Salts = {1}
  Secrets = {1}
  FeeBps = {250}
  CancelBps = {2000}
  RebateBps = {5000}
  ShareBps = {3333}
  ServiceFees = {0}
  Windows = {1}
  MAX_SEALED_BIDS = 1
  Supply = 1950
  MaxOrders = 1
  MaxTime = 1
  MaxStake = 3
  Stakes = {0, 3}
  MinStakes = {2}
  Periods = {1}
  Refusing = {c2}
  Bonds = {0, 5}
  Slashes = {2, 4}
  Volatile = {"drivers"}
SPECIFICATION DisputesSpec
INVARIANTS DisputesMatchOrders Backed PendingDisputesFinish
PROPERTIES OrdersPredateWithdrawal ImplementsOrders
CHECK_DEADLOCK FALSE
SYMMETRY Symmetry
