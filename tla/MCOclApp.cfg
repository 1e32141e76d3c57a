SPECIFICATION FairSpec
CONSTANTS
    NumKernels = 3
    NumDevices = 2
INVARIANTS
    TypeOK
    BuffersOutliveQueue
    RefusalStopsBeforeScan
    PassedMeansDone
PROPERTIES
    Ends
