SPECIFICATION Spec
CONSTANTS
    c1 = c1
    c2 = c2
    d1 = d1
    d2 = d2
    l1 = l1
    l2 = l2
    l3 = l3
    Sheets = {c1, c2}
    Designs = {d1, d2}
    Unmapped = {c1}
    Unpriceable = {d2}
    Lines = {l1, l2, l3}
    Unknown = {l2, l3}
    WithMpn = {l2}
    Dnp = {l2}
    Skus = {"a", "b"}
    Best = "a"
    ResolveCap = 1
    MaxReads = 2
    MaxPicks = 2
INVARIANTS RowsAreOfParse NeverSpins AnsweredIsNotAskedAgain PickStands
PROPERTIES PickIsLatest
CHECK_DEADLOCK FALSE
