\* Two goroutines that send, four events that disturb the sequence.
CONSTANTS
    c1 = c1
    c2 = c2
    Callers = {c1, c2}
    Wanted = 2
    Prices = {3, 5, 9}
    GasPrices = 40
    GasPriceMultiplier = 3
    MaxGasPrice = 17
    Places = {1, 10, 100}
    Significand = 10
    MaxPending = 3
    MaxFaults = 4
SPECIFICATION FairSpec
INVARIANTS TypeOK InStep SequenceWasExpected PriceCapped
PROPERTIES EventuallyAccepted
