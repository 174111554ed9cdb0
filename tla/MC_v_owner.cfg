SPECIFICATION Spec
CONSTANTS
    Owners = {o1}
    Devices = {d1}
    Secrets = {s1, s2}
    None = None
    Requests = {r1}
    Challenges = {c1}
    MaxPending = 1
    Joins = {j1}
    Faults = {"write"}
INVARIANTS OwnerOnRecord
CHECK_DEADLOCK FALSE
