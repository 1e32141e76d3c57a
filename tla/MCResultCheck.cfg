SPECIFICATION Spec
CONSTANTS
    NumKernels = 2
    NumPackets = 3
    NumPatterns = 2
    NumOffsets = 2
    MaxMatches = 2
    MaxEmpties = 1
    MaxFaults = 1
INVARIANTS
    TypeOK
    FileHoldsAllBuffers
    ReferenceKnowsTried
    FaithfulScanPasses
    OneFaultIsCaught
