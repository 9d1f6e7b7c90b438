SPECIFICATION FairSpec
CONSTANTS
  Subs = {first}
  Stamped = {}
  First = first
  None = None
  Grace = 0
  Workers = {w1}
  Sweepers = {b1}
  Voiders = {v1}
  Staff = {s1}
  Admins = {}
  MaxInvoices = 2
  MaxTime = 1
  MaxActs = 1
  MaxFaults = 1
PROPERTIES
  ReactivatedByPayment
  DelinquencyEnds
  VoidsHappen
CHECK_DEADLOCK FALSE
