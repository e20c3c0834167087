CONSTANTS
    Pairs = 2
    NumSeeds = 4
    MaxVoids = 2
    Cells <- MCCells
    Spawn <- MCSpawn
    Table <- MCTable
    Claim <- MCClaim
SPECIFICATION FairSpec
INVARIANT OneSeedPerPair
INVARIANT WithinSessionCap
INVARIANT SurvivingRunParsed
INVARIANT VoidsPayForSpares
INVARIANT VerifiedUnlessReplayed
INVARIANT AlteredBodyRefused
PROPERTY ImplementsPairedMatch
PROPERTY MatchEnds
