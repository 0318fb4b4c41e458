\* Blocks of several transactions, pages of two, a channel of one, a first search
\* one block back, one fault.
CONSTANTS
    q1 = q1
    Queries = {q1}
    Malformed = {}
    NumTxs = 3
    TxHeight <- MCTxHeight3
    Match <- MCMatch
    PerPage = 2
    TxsChanSize = 1
    MaxHeight = 2
    Offset = 1
    Handlers = {}
    CheckAttempts = 1
    MaxFaults = 1
    MaxResubmits = 0
SPECIFICATION Spec
INVARIANTS TypeOK PendingTracked NoTxSkipped RecordedInOrder SendsAccounted ClaimIsFresh
PROPERTIES HeightsGrow KeepsPromise
