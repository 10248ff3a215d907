SPECIFICATION Spec
CONSTANTS
    FlagBS = TRUE
    Dests = {1, 2}
    OwnMac = 0
    Addresses = {1, 2, 255}
    MaxNumberBytes = 16
    MaxSdus = 4
    Sdu <- BsSdus
    Misread <- BsMisread
INVARIANTS
    TypeOK
    PduFits
    ControlFirst
    ByteCountExact
    Conservation
    Routed
    LostOnlyOversize
    EndsOnlyForBadSdu
PROPERTIES
    ImplementsTransport
