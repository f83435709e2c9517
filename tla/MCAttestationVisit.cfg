SPECIFICATION Spec
CONSTANTS
    Users = {u1, u2}
    Reviewers = {1, 2, 3, 4, 5}
    Visits = {v1}
    StaffOf <- MCStaffOf
    Rosters <- MCRosters
    Photos = {}
    NoPhoto = NoPhoto
    NoSig = NoSig
    Sessions = {s1, s2}
    CosignLimit = 0
    MaxAtt = 2
SYMMETRY MCSymmetry
INVARIANTS ReviewerServesOneAttestation IInv
CHECK_DEADLOCK FALSE
