CONSTANTS
    NumGames = 2
    MaxOffsets = 3
    MaxMoves = 2
    MaxRetries = 2
    MaxLate = 2
SPECIFICATION FairSpec
INVARIANTS
    OwnStream
    ExactlyNumGames
PROPERTIES
    MatchEnds
