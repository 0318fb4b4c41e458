\* A signal while the queue is full.
CONSTANTS
    Ids = {1, 2}
    Connection = {1, 2}
    OwnerOf <- MCOwners
    Addresses = {}
    QueryIDs = {}
    WatchedMsgType = {1, 2}
    Periods = {1}
    Transactions <- MCOneChange
    PageLimit = 2
    Capacity = 1
    Word = 8
    MaxHeight = 2
    MaxFaults = 1
SPECIFICATION FairSpec
PROPERTIES ShutsDown
