SPECIFICATION FairSpec
CONSTANTS
  Intents = {i1, i2}
  Slots = {gold}
  Buyers = {ann, bob}
  Codes = {}
  Companies = {}
  None = None
  MaxUses = 1
  Allowed <- MCAllowed
  CompanyOf <- MCUnbound
  LapsesAllowed = 2
  SessionTicks = 1
  GraceTicks = 1
  Workers = {w1, w2}
  Resolvers = {p1}
  Interrupted = {}
  Earlier = Earlier
  Staff = {}
  Sweepers = {}
  Admins = {}
  MaxInvoices = 1
  MaxTime = 4
  MaxFaults = 1
INVARIANTS
  PayableIsHeld
PROPERTIES
  SaleSpec
  PaidIsSettled
CHECK_DEADLOCK FALSE
