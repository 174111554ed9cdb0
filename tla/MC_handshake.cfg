SPECIFICATION Spec
CONSTANTS
    Boxes = {b1, b2}
    Couriers = {c1, c2}
    Keys = {k1, k2}
    Typo = Typo
    None = None
    ReadsFail = FALSE
    MaxTries = 3
    MaxRestarts = 1
SYMMETRY Symmetry
INVARIANTS OwnerReadCode AcceptedOwns PinnedKeyStays
CHECK_DEADLOCK FALSE
