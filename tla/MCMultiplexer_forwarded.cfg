SPECIFICATION Spec
CONSTANTS
    FlagBS = FALSE
    Dests = {0}
    OwnMac = 1
    Addresses = {0, 2, 255}
    MaxNumberBytes = 16
    MaxSdus = 4
    Sdu <- UeSdus
    Misread = {}
INVARIANTS
    RefusalNamesQueue
