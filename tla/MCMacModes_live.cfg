SPECIFICATION FairSpec
CONSTANTS
    FlagBS = TRUE
    Timeouts = {}
    Indeterminate <- Zeros
    MaxStarts = 1
    MaxCommands = 0
PROPERTIES
    ReconfigCompletes
    StopReached
    StopTaken
