SPECIFICATION Spec
CONSTANTS
    FlagBS = TRUE
    Timeouts = {}
    Indeterminate <- Zeros
    MaxStarts = 1
    MaxCommands = 0
INVARIANTS
    StopExclusive
