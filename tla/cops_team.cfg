SPECIFICATION RewardSpec
CONSTANTS
    H = 2
    W = 3
    NumCops = 2
    MaxBarriers = 3
    MaxMoves = 4
    Radius = 1
    EnableBarrier = TRUE
    CaptureOnSwap = TRUE
    GammaNum = 2
    GammaDen = 3
    DistanceWeight = 3
    StepPenalty = 1
    BarrierCost = 5
    CaptureBonus = 100
    TimeoutPenalty = 50
    EvadeStep = 2
    TimeoutBonus = 40
INVARIANT BudgetExact
INVARIANT MaskedPlaceLostToMateOnly
INVARIANT ReturnTelescopes
PROPERTY OutcomeSettled
