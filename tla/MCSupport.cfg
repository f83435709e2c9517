SPECIFICATION Spec
CONSTANTS
    Locations = {l1}
    Staff = {d1}
    Admins = {a1}
    Sessions = {s1, s2}
    VisitIds = {v1, v2}
    MaxCapacity = 1
    MaxRoles = 1
    Users = {u1, u2, u3}
    BookingIds = {b1, b2, b3}
    GiftIds = {g1, g2}
    GiftMonths = 1
    MaxMonth = 1
CONSTRAINT MCBound
SYMMETRY MCSymmetry
INVARIANTS IInv OverbookedByRacers GiftSpacing
CHECK_DEADLOCK FALSE
