SPECIFICATION FairSpec
CONSTANTS
    MaxIPs = 3
    MaxBanks = 2
    Counts <- MCCounts
    MaxFaults = 1
INVARIANTS
    TypeOK
    CommandOnFoundUnit
    MemoryOutlivesDevice
    CleanRunPasses
    StatusTellsVerdict
PROPERTIES
    KeepsScanPromise
    Terminates
