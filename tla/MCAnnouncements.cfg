SPECIFICATION FairSpec
CONSTANTS
    Handlers = {h1, h2}
    Clients = {c1}
    Audience = {u1}
    Kinds <- MCKinds
    MaxConns = 2
    BusCap = 1
    StreamCap = 1
    MaxEvents = 2
    MaxStarts = 2
INVARIANTS TrailCoversCommits GapsAreExplained AuditedWasOffered
PROPERTIES EveryRequestEnds EverySentIsFinished
CHECK_DEADLOCK FALSE
