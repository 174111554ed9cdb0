SPECIFICATION FairSpec
CONSTANTS
    Values <- MCValues
    Children = {k1, k2}
    None = None
    Faults = {"open", "spawn", "tool", "hangup", "crash"}
INVARIANTS TypeOK AnswersTrue NeverTruncated NothingLeft
PROPERTIES CallReturns ImplementsTpmCall
