SPECIFICATION SpecC
CONSTANTS
    Users = {u1}
    NoUser = NoUser
    Businesses = {b1}
    Boxes = {x1, x2}
    NoBox = NoBox
    EventIds = {e1, e2, e3}
    OrderIds = {o1, o2}
    Sessions = {s1, s2}
    RequiredEvents = 2
    RequiredDays = 2
    MaxDay = 2
SYMMETRY MCSymmetry
INVARIANTS EventsCounted DaysCovered TapsOverlap OneOrderPerBox HandedOver
CHECK_DEADLOCK FALSE
