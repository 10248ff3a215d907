SPECIFICATION FairSpec
CONSTANTS
    FlagBS = FALSE
    Timeouts = {}
    Indeterminate <- Zeros
    MaxStarts = 1
    MaxCommands = 0
PROPERTIES
    StopCompletes
