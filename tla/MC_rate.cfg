SPECIFICATION Spec
CONSTANTS
    Threads = {t1, t2}
    Ips = {a, b}
    PerMinute = 2
    Minute = 3
    Horizon = 4
    None = None
SYMMETRY Symmetry
INVARIANTS TypeOK RateBounded
PROPERTIES RefusedOnlyWhenSpent
