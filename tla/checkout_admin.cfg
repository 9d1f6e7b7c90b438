SPECIFICATION Spec
CONSTANTS
  Intents = {i1, i2}
  Slots = {gold, plat}
  Buyers = {ann, bob}
  Codes = {rep}
  Companies = {acme}
  None = None
  MaxUses = 1
  Allowed <- MCAllowed
  CompanyOf <- MCUnbound
  LapsesAllowed = 2
  SessionTicks = 1
  GraceTicks = 1
  Workers = {w1}
  Resolvers = {p1}
  Interrupted = {}
  Earlier = Earlier
  Staff = {}
  Sweepers = {}
  Admins = {a1}
  MaxInvoices = 1
  MaxTime = 3
  MaxFaults = 0
CONSTRAINT Corner
SYMMETRY Symmetry
INVARIANTS
  OneSale
  SoldIsPaid
  LimitHeldUntilLapse
CHECK_DEADLOCK FALSE
