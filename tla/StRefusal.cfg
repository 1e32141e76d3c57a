SPECIFICATION Spec
CONSTANTS
    MaxIPs = 1
    MaxBanks = 1
    Counts <- MCCounts
    MaxFaults = 0
INVARIANTS
    RefusalStops
