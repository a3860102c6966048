CONSTANTS
  c1 = c1
  c2 = c2
  d1 = d1
  d2 = d2
  v1 = v1
  usd = usd
  relay = relay
  Nobody = Nobody
  Native = Native
  Treasury = Treasury
  Venues = {v1}
  MIN_WINDOW = 1
  MAX_WINDOW = 2
  MaxU96 = 10000
  Customers = {c1}
  Drivers = {d1}
  Tokens = {usd}
  Relayers = {relay, Treasury}
  Values = {500}
  Tips = {0, 400}
  Fares = {1009}
  Salts = {1}
  Secrets = {1}
  FeeBps = {250}
  CancelBps = {2000}
  RebateBps = {5000}
  ShareBps = {3333}
  ServiceFees = {0, 30}
  Windows = {1, 3}
  MAX_SEALED_BIDS = 1
  Supply = 1950
  MaxOrders = 2
  MaxTime = 1
  Volatile = {"tokens", "venues"}
SPECIFICATION Spec
INVARIANTS Conservation Solvency ReputationMatchesOutcomes
PROPERTIES EscrowSpec
CHECK_DEADLOCK FALSE
