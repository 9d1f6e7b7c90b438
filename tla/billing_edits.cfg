SPECIFICATION Spec
CONSTANTS
  Subs = {first, quote}
  Stamped = {quote}
  First = first
  None = None
  Grace = 0
  Workers = {w1}
  Sweepers = {b1}
  Voiders = {}
  Staff = {s1}
  Admins = {a1}
  MaxInvoices = 2
  MaxTime = 1
  MaxActs = 1
  MaxFaults = 0
INVARIANTS
  FailureKeepsClock
PROPERTIES
  ExpiredAfterCancel
CHECK_DEADLOCK FALSE
