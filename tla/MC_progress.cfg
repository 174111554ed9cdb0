SPECIFICATION FairSpec
CONSTANTS
    Owners = {o1, o2}
    Devices = {d1}
    Secrets = {s1, s2}
    None = None
    Requests = {r1, r2}
    Challenges = {c1, c2}
    MaxPending = 1
    Joins = {j1}
    Faults = {"write", "delete", "tpm", "bind", "display", "crash"}
PROPERTIES JoinSettles RetriedFinishClaims CodeNeverRotates
CHECK_DEADLOCK FALSE
