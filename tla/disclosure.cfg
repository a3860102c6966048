CONSTANTS
  customer = customer
  driver = driver
  council = council
  former = former
  Parties = {customer, driver}
  Arbiters = {council, former}
  Configured = council
  MSG_THREAD_MAX = 4
  MaxSent = 5
  MaxMailing = 2
  MaxFailures = 1
  Nobody = Nobody
  Unread = Unread
SYMMETRY Interchangeable
SPECIFICATION DisclosureSpec
INVARIANT DisclosureStands
CHECK_DEADLOCK FALSE
