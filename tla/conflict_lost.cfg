SPECIFICATION Spec
CONSTANTS
  Intents = {i1}
  Slots = {gold}
  Buyers = {ann}
  Codes = {}
  Companies = {}
  None = None
  MaxUses = 1
  Allowed <- MCAllowed
  CompanyOf <- MCUnbound
  LapsesAllowed = 2
  SessionTicks = 1
  GraceTicks = 1
  Workers = {w1}
  Resolvers = {}
  Interrupted = {}
  Earlier = Earlier
  Staff = {}
  Sweepers = {b1}
  Admins = {}
  MaxInvoices = 1
  MaxTime = 4
  MaxFaults = 0
PROPERTIES
  ConflictKept
CHECK_DEADLOCK FALSE
