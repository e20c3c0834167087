CONSTANTS
    NumCalls = 5
    Failing = {1, 3}
    Burst = 2
    Cost = 2
    PerTick = 1
    MaxQueue = 2
    MaxTime = 5
SPECIFICATION FairGateSpec
INVARIANTS
    RateLimited
    FifoAdmission
    WorkConserving
PROPERTY AdmittedRuns
