SPECIFICATION Spec
CONSTANTS
    Users = {u1}
    Businesses = {b1}
    Anonymous = Anonymous
    TokenIds = {t1, t2}
    AttemptIds = {a1, a2, a3}
    Sessions = {s1, s2}
    Lifetime = 0
    Minute = 1
    Limit = 0
    MaxNow = 1
SYMMETRY MCSymmetry
INVARIANTS IInv OverLimitByRacers
PROPERTIES DeadStaysDead
CHECK_DEADLOCK FALSE
