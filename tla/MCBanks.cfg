SPECIFICATION Spec
CONSTANTS
    NumBanks = 32
    MaxKernels = 18
    MaxOtherIPs = 2
INVARIANTS
    BuffersAtPorts
    BanksOfTheirOwn
