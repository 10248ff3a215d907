SPECIFICATION Spec
CONSTANTS
    N = 2
    Default <- MCDefault
    Allocations <- MCAllocations
    Radios <- MCRadios
    Periods <- MCPeriods
    MaxSets = 1
    MaxRequests = 2
    MaxFaults = 1
INVARIANTS
    MimoAsReceived
CHECK_DEADLOCK FALSE
