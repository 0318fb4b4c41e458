\* One query is updated and another removed in one transaction.
CONSTANTS
    Ids = {1, 2}
    Connection = {1, 2}
    OwnerOf <- MCOwners
    Addresses = {}
    QueryIDs = {}
    WatchedMsgType = {1, 2}
    Periods = {1, 2}
    Transactions <- MCMixed
    PageLimit = 1
    Capacity = 1
    Word = 8
    MaxHeight = 2
    MaxFaults = 0
SPECIFICATION Spec
PROPERTIES OnlyRemovedForgotten
