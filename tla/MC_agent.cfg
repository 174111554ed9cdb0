SPECIFICATION Spec
CONSTANTS
    Owners = {o1, o2}
    Devices = {d1, d2}
    Secrets = {s1, s2, s3}
    None = None
    Requests = {r1, r2}
    Challenges = {c1, c2}
    MaxPending = 1
    Joins = {j1, j2}
    Faults = {"write", "delete", "read", "tpm", "bind", "display", "crash"}
SYMMETRY Symmetry
INVARIANTS TypeOK OneOwner TpmResolved ShownCodeWorks HubNeedsLocalClaim HubRecordedInOrder
PROPERTIES BindingKeepsOwner ImplementsOwnership
CHECK_DEADLOCK FALSE
