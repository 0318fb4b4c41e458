\* A period of two blocks; two failed calls or crashes.
CONSTANTS
    q1 = q1
    q2 = q2
    q3 = q3
    Queries = {q1, q2, q3}
    NumKeys <- MCNumKeys
    MinKvUpdatePeriod = 2
    MaxHeight = 7
    MaxFaults = 2
SPECIFICATION Spec
INVARIANTS TypeOK OneHeight ResultCovered
PROPERTIES PeriodRespected
