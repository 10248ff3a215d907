SPECIFICATION FairSpec
CONSTANTS
    Ues = {1, 2}
    Kinds <- MCKinds
    MaxPackets <- TwoAndOne
    MaxFaults = 1
    SignedChar = TRUE
    Verbose = TRUE
INVARIANTS
    TypeOK
    EachAnnouncedArrives
    HeaderInverts
    CrcDetects
    PdusArrive
    LookupsSurviveDeletion
PROPERTIES
    ImplementsLossyFifo
    QueuedIsSent
    RxReturns
CHECK_DEADLOCK FALSE
