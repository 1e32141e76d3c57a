SPECIFICATION FairSpec
CONSTANTS
    NumKernels = 4
    MaxScans = 3
INVARIANTS
    TypeOK
    ResultsAreOfThisScan
PROPERTIES
    KeepsScanPromise
    ScansReturn
