\* Two queries and a queue of one.
CONSTANTS
    Ids = {1, 2}
    Connection = {1, 2}
    OwnerOf <- MCOwners
    Addresses = {}
    QueryIDs = {}
    WatchedMsgType = {1, 2}
    Periods = {2}
    Transactions <- MCOneChange
    PageLimit = 1
    Capacity = 1
    Word = 8
    MaxHeight = 2
    MaxFaults = 0
SPECIFICATION FairSpec
PROPERTIES RegisteredIsTaken
