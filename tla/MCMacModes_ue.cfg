SPECIFICATION Spec
CONSTANTS
    FlagBS = FALSE
    Timeouts = {"timeout"}
    Indeterminate <- AnyValue
    MaxStarts = 1
    MaxCommands = 0
INVARIANTS
    AtWorkIsAnnounced
    MutexHeld
