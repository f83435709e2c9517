SPECIFICATION Spec
CONSTANTS
    Holders = {h1}
    Admins = {a1}
    BusinessIds = {b1, b2, b3}
    FailureIds = {f1, f2, f3}
    Sessions = {s1, s2}
    Cap = 1
    FailLimit = 2
    Window = 1
    MaxDay = 1
    BeaconIds = {n1}
    Keys = {k1, k2, k3}
    NoKey = NoKey
SYMMETRY MCSymmetry
INVARIANTS CapOverrunByRacers SuspendedForCause SuspendedAtLast LoggedWasCurrent
CHECK_DEADLOCK FALSE
