SPECIFICATION FairSpec
CONSTANTS
  Tabs = {t1}
  Users = {ann, bob}
  Customers = {bob}
  Keys = {k1}
  Scoped = {k1}
  Big = {}
  MaxWrites = 1
  MaxGen = 1
  MaxUpsets = 1
  MayReset = {ann}
  MayRetire = {bob}
  SlowChange = FALSE
  None = None
INVARIANTS
  StampNeverAhead
  KeptForItsOwner
  OwnEditNotMasked
  VerdictIsOwn
CHECK_DEADLOCK FALSE
PROPERTIES
  LoadingEnds
