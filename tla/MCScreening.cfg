SPECIFICATION SpecS
CONSTANTS
    Users = {u1}
    StripeSessions = {t1, t2}
    Screenings = {sanctions, identity_fraud}
    Criminal = criminal
    Results = {"passed", "pending"}
    Sessions = {s1, s2}
    CoolingDays = 1
    RequiredOpens = 2
    ValidDays = 1
    MaxCredentials = 2
    MaxChecks = 3
    MaxDay = 3
SYMMETRY MCSymmetry
INVARIANTS ChecksAreSound CoolingEarned CriminalAfterClearance
CHECK_DEADLOCK FALSE
