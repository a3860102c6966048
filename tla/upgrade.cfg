SPECIFICATION Spec
CONSTANTS
  Scripts <- AllScripts
  MaxOrders = 2
PROPERTIES
  OrdersEnd
  RulingsMatch
CHECK_DEADLOCK FALSE
