\* Liveness
CONSTANTS
    q1 = q1
    Queries = {q1}
    Malformed = {}
    NumTxs = 2
    TxHeight <- MCTxHeight2
    Match <- MCMatch
    PerPage = 1
    TxsChanSize = 1
    MaxHeight = 2
    Offset = 0
    Handlers = {}
    CheckAttempts = 1
    MaxFaults = 1
    MaxResubmits = 0
SPECIFICATION FairSpec
PROPERTIES EventuallyRecorded PendingChecked
