SPECIFICATION Spec
CONSTANTS
  MaxRuns = 2
  MaxParts = 1
  MaxFaults = 1
  RowCap = 2
  MaxVisits = 1
INVARIANTS OneSweep ShownIsOneRun CleanEndIsWhole NoReaderHangs NoResurrection ButtonsComeBack
CHECK_DEADLOCK FALSE
