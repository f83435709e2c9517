SPECIFICATION FairSpec
CONSTANTS
    OrderIds = {o1, o2}
    IntentIds = {i1, i2}
    Codes = {c1, c2}
    NoIntent = NoIntent
    Sessions = {s1, s2}
INVARIANTS IInv
PROPERTIES ImplementsSale AuthorizedIsSettled
CHECK_DEADLOCK FALSE
