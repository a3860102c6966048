CONSTANTS
  a1 = a1
  relay = relay
  orderBook = orderBook
  usd = usd
  n1 = n1
  n2 = n2
  Zero = Zero
  Native = Native
  NOTE_DEPTH = 2
  ROOT_HISTORY = 2
  Accounts = {a1, relay}
  Payees = {a1}
  Creditors = {orderBook}
  Tokens = {usd}
  Notes = {n1, n2}
  Ladders = {{47}, {94}}
  PASEO_UNIT = 10
  PASEO_REJECT_THRESHOLD = 5
  Amounts = {95}
  MaxCredited = 95
  TransferFee = 1
  WithdrawFees = {0, 1000}
  MaxAway = 1
  MaxSigned = 1
  Deadlines = {0}
  MaxTime = 1
  Volatile = {"ladders", "fee", "pool", "authorized"}
SPECIFICATION Spec
INVARIANTS Solvency Accounting AuthorizationsSingleUse RootsMatchClients NotesSpendable
PROPERTIES NotePoolSpec
SYMMETRY Symmetry
CHECK_DEADLOCK FALSE
