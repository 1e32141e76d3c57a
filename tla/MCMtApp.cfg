SPECIFICATION FairSpec
CONSTANTS
    Jobs = {j1, j2, j3}
    MaxFaults = 1
    MaxMatches = 1
INVARIANTS
    TypeOK
    PhaseBarrier
    CleanRunPasses
PROPERTIES
    OneErrorCancelled
    KeepsScanPromise
    Terminates
