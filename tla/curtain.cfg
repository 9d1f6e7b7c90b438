SPECIFICATION Spec
CONSTANTS
  MaxRuns = 1
  MaxParts = 0
  MaxFaults = 0
  RowCap = 2
  MaxVisits = 1
INVARIANT CurtainLifts
CHECK_DEADLOCK FALSE
