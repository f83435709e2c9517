SPECIFICATION Spec
CONSTANTS
    Users = {u1}
    Reviewers = {1, 2, 3, 4, 5}
    Visits = {v1}
    StaffOf <- MCStaffOf
    Rosters <- MCRosters
    Photos = {p1, p2}
    NoPhoto = NoPhoto
    NoSig = NoSig
    Sessions = {s1, s2, s3}
    CosignLimit = 0
    MaxAtt = 1
SYMMETRY MCSymmetry
INVARIANTS ApprovedIsCosigned AttestedIsCosigned ApprovedOnceBothSigned
PROPERTY ImplementsTwoPersonRule
CHECK_DEADLOCK FALSE
