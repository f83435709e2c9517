SPECIFICATION SpecA
CONSTANTS
    Users = {u1}
    Links = {l1}
    Jtis = {j1, j2}
    Apple = Apple
    Instances = {i1, i2}
    Sessions = {s1, s2}
    Lifetime = 1
    Leeway = 1
    LinkLifetime = 1
    RateTtl = 1
    UsedGrace = 0
    StaleGrace = 0
    NoKey = NoKey
    Never = Never
    MaxNow = 1
SYMMETRY MCSymmetry
INVARIANTS LinkSignsOnce
PROPERTIES LinksAreSpaced LogoutHolds
CHECK_DEADLOCK FALSE
