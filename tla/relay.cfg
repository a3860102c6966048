CONSTANTS
  r1 = r1
  r2 = r2
  t1 = t1
  a1 = a1
  Null = Null
  Requests = {r1, r2}
  Ticks = {t1}
  Addresses = {a1}
  Costs = {1}
  FUND_AMOUNT = 3
  ONBOARD_SEED = 2
  GAS_BUDGET = 5
  PROFIT_GUARD = TRUE
  MaxWindows = 1
SPECIFICATION Spec
INVARIANTS NumbersFollow BudgetKept FundingsCoalesce
PROPERTY RequestsAnswered
CHECK_DEADLOCK FALSE
