SPECIFICATION Spec
CONSTANTS
    Handlers = {h1, h2}
    Ids = {c1, c2, c3, c4}
    MaxPending = 2
    Ttl = 2
    Horizon = 3
    None = None
SYMMETRY Symmetry
INVARIANTS TypeOK StoreBounded SurvivesFlood
PROPERTIES PeekFindsLive
