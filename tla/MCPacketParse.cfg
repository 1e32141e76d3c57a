SPECIFICATION Spec
CONSTANTS
    NumJobs = 3
    MaxPacketCount = 6
    MaxLines = 7
    Lengths <- MCLengths
    IntMax <- MCIntMax
INVARIANTS
    TypeOK
    NoOverflow
    WalkedByLength
    IdsNameLines
    PublishedSizeIsWhole
    SuccessCoversFile
