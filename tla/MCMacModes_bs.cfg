SPECIFICATION Spec
CONSTANTS
    FlagBS = TRUE
    Timeouts = {}
    Indeterminate <- AnyValue
    MaxStarts = 2
    MaxCommands = 3
INVARIANTS
    TypeOK
    WorkersAlive
    OwnObjects
