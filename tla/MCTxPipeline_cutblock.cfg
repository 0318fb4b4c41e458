\* One signal during the search of a block with two transactions.
CONSTANTS
    q1 = q1
    Queries = {q1}
    Malformed = {}
    NumTxs = 2
    TxHeight <- MCTxHeight11
    Match <- MCMatch
    PerPage = 2
    TxsChanSize = 1
    MaxHeight = 1
    Offset = 0
    Handlers = {}
    CheckAttempts = 1
    MaxFaults = 1
    MaxResubmits = 0
SPECIFICATION Spec
INVARIANTS BlockCompletelyProcessed
