SPECIFICATION Spec
CONSTANTS
    Secrets <- MCSecrets
    Sessions <- MCSessions
    Endpoints <- MCEndpoints
    Words16 <- MCWords16
    MaxEdits = 2
    None = None
INVARIANTS HarmlessEdits DamageRefused  GateMatchesBlocks
CHECK_DEADLOCK FALSE
