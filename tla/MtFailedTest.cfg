SPECIFICATION Spec
CONSTANTS
    Jobs = {j1, j2}
    MaxFaults = 1
    MaxMatches = 1
INVARIANTS
    FailedTestIsNotPassed
