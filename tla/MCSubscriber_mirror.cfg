\* Queries of the registry, of another type and of another owner, one fault.
CONSTANTS
    Ids = {1, 2, 3}
    Connection = {1, 2, 3}
    OwnerOf <- MCOwners
    Addresses = {"owner"}
    QueryIDs = {}
    WatchedMsgType = {1, 3}
    Periods = {1, 7}
    Transactions <- MCAlike
    PageLimit = 2
    Capacity = 1
    Word = 8
    MaxHeight = 1
    MaxFaults = 1
SPECIFICATION Spec
INVARIANTS TypeOK ActiveIsRegistered PeriodIsCurrent RegistryRespected
