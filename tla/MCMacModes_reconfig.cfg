SPECIFICATION Spec
CONSTANTS
    FlagBS = TRUE
    Timeouts = {"timeout"}
    Indeterminate <- AnyValue
    MaxStarts = 1
    MaxCommands = 0
INVARIANTS
    ReconfigExclusive
