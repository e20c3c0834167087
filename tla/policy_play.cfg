SPECIFICATION PlaySpec
CONSTANTS
    H = 3
    W = 3
    NumCops = 1
    MaxBarriers = 2
    MaxMoves = 5
    Radius = 1
    EnableBarrier = TRUE
    CaptureOnSwap = TRUE
    RefereeRadius = 2
    RadiusMax = 2
    NumGames = 2
    MaxReplays = 1
    NumPairs = 4
    Points <- MCPoints
INVARIANT WireObsExact
INVARIANT BeliefIsSighting
INVARIANT ChoicesLegal
INVARIANT OracleShortest
INVARIANT BankedOnce
