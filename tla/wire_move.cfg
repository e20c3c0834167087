CONSTANTS
    NumGames = 2
    Views = {"plain", "barrier"}
    Sightings = {"barrier"}
    MaxSessions = 1
    Retries = 1
    MaxInflight = 2
    MaxTick = 1
    MaxAttempts = 2
    MaxLate = 2
SPECIFICATION FairSpec
INVARIANTS
    InStep
PROPERTIES
    SwitchSticky
    EveryCallSettles
