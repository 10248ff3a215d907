SPECIFICATION Spec
CONSTANTS
    Ues = {1, 2}
    Kinds <- MCKinds
    MaxPackets <- TwoAndOne
    MaxFaults = 1
    SignedChar = TRUE
    Verbose = FALSE
INVARIANTS
    SurvivesDamage
CHECK_DEADLOCK FALSE
