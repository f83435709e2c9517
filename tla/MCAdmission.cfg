SPECIFICATION Spec
CONSTANTS
    Values = {0, 1}
    Default = 1
    Unset = Unset
    Editors = {e1, e2}
    MaxEdits = 2
    r1 = r1
    r2 = r2
    Requests = {r1, r2}
    Date <- MCDate
    Sessions = {s1, s2}
    Skew = 2
    Window = 2
    SafeDefault = 0
    MaxHandled = 2
    NoKey = NoKey
    MaxNow = 2
CONSTRAINT MCBound
SYMMETRY MCSymmetry
INVARIANTS HandledAgain LimitHolds HistoryTellsValue
CHECK_DEADLOCK FALSE
