\* One query, two requests, two faults or signals, restarts.
CONSTANTS
    Ids = {1}
    Connection = {1}
    OwnerOf <- MCOwners
    Addresses = {}
    QueryIDs = {}
    WatchedMsgType = {1}
    Periods = {1}
    Transactions <- MCOneChange
    PageLimit = 1
    Capacity = 1
    Word = 8
    MaxHeight = 2
    MaxFaults = 2
    Attempts = 2
    MaxRequests = 1
SPECIFICATION ProcessFairSpec
INVARIANTS ProcessTypeOK ActiveIsRegistered StorageOutlivesUsers PathKnown
PROPERTIES OneForAll StartEnds
