SPECIFICATION FairGameSpec
CONSTANTS
    H = 2
    W = 3
    NumCops = 1
    MaxBarriers = 1
    MaxMoves = 2
    Radius = 1
    EnableBarrier = TRUE
    CaptureOnSwap = TRUE
    Retries = 1
    CfgRetries = 1
    MaxVoids = 2
    RefereeRadius = 1
    Layouts <- MCLayouts
    Points <- MCPoints
INVARIANT HonestVerdict
INVARIANT DamageCaught
PROPERTY AuditEnds
