CONSTANTS
  c1 = c1
  c2 = c2
  d1 = d1
  d2 = d2
  v1 = v1
  usd = usd
  relay = relay
  Nobody = Nobody
  Native = Native
  Treasury = Treasury
  Venues = {v1}
  MIN_WINDOW = 1
  MAX_WINDOW = 1
  MaxU96 = 10000
  Customers = {c1}
  Drivers = {d1, d2}
  Tokens = {}
  Relayers = {relay, Treasury}
  Values = {0, 500}
  Tips = {0, 400}
  Fares = {1009}
  Salts = {1}
  Secrets = {1}
  FeeBps = {0, 1000}
  CancelBps = {5000}
  RebateBps = {5000}
  ShareBps = {3333, 12000}
  ServiceFees = {0, 30}
  Windows = {0}
  MAX_SEALED_BIDS = 2
  Supply = 1950
  MaxOrders = 1
  MaxTime = 2
  Volatile = {"paused", "frozen", "drivers", "config"}
SPECIFICATION Spec
INVARIANTS TypeOK EscrowMatchesStatus Entitlements ExitsOpen AssignedByBid
PROPERTY LegalTransitions
CHECK_DEADLOCK FALSE
