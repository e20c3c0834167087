CONSTANTS
    CopsByStage <- StageTeams
    Rounds = 6
    EpisodesPerRound = 2
    UpdateRatio = 2
    WindowK = 2
    PoolSize = 2
    MinReplay = 3
    SyncInterval = 3
    MaxMoves = 3
    AnnealSteps = 4
    Capacity = 3
SPECIFICATION Spec
INVARIANTS
    BatchIsNewestGames
    PoolIsRecentHistory
    OneOpponentAWindow
    UpdatesPaced
    LossIsTheGame
CHECK_DEADLOCK FALSE
