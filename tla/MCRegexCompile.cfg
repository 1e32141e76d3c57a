SPECIFICATION Spec
CONSTANTS
    Patterns <- MCPatterns
    ConfigLen <- MCConfigLen
    Xclbins <- MCXclbins
    MaxPacketCount = 2
    MaxLines = 3
    MaxCalls = 3
INVARIANTS
    TypeOK
    WidthIsOfKernel
    TableFits
    TablesAgree
    SizeIsOfLatestTable
