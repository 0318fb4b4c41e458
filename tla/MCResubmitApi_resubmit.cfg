\* Two concurrent requests to resubmit the one transaction there is.
CONSTANTS
    q1 = q1  h1 = h1  h2 = h2
    Queries = {q1}
    Malformed = {}
    NumTxs = 2
    TxHeight <- MCTxHeight
    Match <- MCMatch
    PerPage = 1
    TxsChanSize = 1
    MaxHeight = 1
    Offset = 0
    Handlers = {h1, h2}
    CheckAttempts = 1
    MaxFaults = 1
    MaxResubmits = 2
    Lists <- MCLists
SPECIFICATION ApiSpec
INVARIANTS ApiTypeOK StorageConsistent StatusTruthful PendingTracked ClaimIsFresh UndeliveredIsKept AnswerTruthful
SYMMETRY MCSymmetry
