SPECIFICATION Spec
CONSTANTS
    Patterns <- OnePattern
    ConfigLen <- OneConfigLen
    Xclbins <- NoXclbins
    MaxPacketCount = 1024000
    MaxLines = 10
    MaxCalls = 1
INVARIANTS
    AtMostMaxRegex
