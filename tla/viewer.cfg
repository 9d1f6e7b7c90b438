SPECIFICATION Spec
CONSTANTS
  s1 = s1
  s2 = s2
  sx = sx
  pcb = pcb
  u1 = u1
  u2 = u2
  h1 = h1
  ux = ux
  None = None
  Sheets = {s1, s2, sx}
  Root = s1
  Board = pcb
  Dropped = {sx}
  Refs = {u1, u2, ux, h1}
  SheetOf <- MCSheetOf
  DrawnOn <- MCDrawnOn
  Looks = {"plain", "lit"}
  Plain = "plain"
  Lit = "lit"
  MaxMoves = 3
  MaxOpens = 2
  MaxFails = 1
INVARIANTS OneDrawing  BoardFollowsPanel
PROPERTIES FocusedIsShown
CHECK_DEADLOCK FALSE
