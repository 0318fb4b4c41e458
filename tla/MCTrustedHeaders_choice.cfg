\* Blocks 8 to 13, pages of two, a state of an older revision.
CONSTANTS
    Revision = 1
    OldStates <- MCOldStates
    FirstHeight = 8
    MaxHeight = 13
    Wanted = {9, 12, 14}
    TrustingPeriod = 4
    SubmissionMargin = 1
    PageSize = 2
    Tens = {1, 10, 100}
    MaxFaults = 1
SPECIFICATION Spec
INVARIANTS TypeOK NothingMissed TrustedUntilSubmitted
