SPECIFICATION Spec
CONSTANTS
  Intents = {i1}
  Slots = {gold}
  Buyers = {ann}
  Codes = {rep}
  Companies = {acme}
  None = None
  MaxUses = 1
  Allowed <- MCAllowed
  CompanyOf <- MCBound
  LapsesAllowed = 2
  SessionTicks = 1
  GraceTicks = 1
  Workers = {w1}
  Resolvers = {p1, p2}
  Interrupted = {i1}
  Earlier = Earlier
  Staff = {s1}
  Sweepers = {b1}
  Admins = {}
  MaxInvoices = 2
  MaxTime = 4
  MaxFaults = 1
SYMMETRY Symmetry
INVARIANTS
  TypeOK
  RefundAfterCancel
  ResolvedIsReturned
PROPERTIES
  SubscriptionKept
CHECK_DEADLOCK FALSE
