SPECIFICATION LogSpec
CONSTANTS
    Matrix <- MCMatrix
    RoundsPerRun = 3
    LastRounds = 2
    MaxCrashes = 3
INVARIANT CompleteIsOneTraining
PROPERTY MatrixCompletes
