SPECIFICATION Spec
CONSTANTS
    Users = {u1}
    TokenIds = {t1, t2}
    NoToken = NoToken
    Sessions = {s1, s2, s3}
    Validity = 2
    MaxNow = 2
    MaxOpen = 2
SYMMETRY MCSymmetry
INVARIANTS IInv
PROPERTY ImplementsCredential
CHECK_DEADLOCK FALSE
