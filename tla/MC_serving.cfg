SPECIFICATION FairSpec
CONSTANTS
    Requests = {r1, r2, r3}
    Workers = 2
    None = None
INVARIANTS NoStall RefusedWithoutEffect
PROPERTIES EveryRequestAnswered
CHECK_DEADLOCK FALSE
