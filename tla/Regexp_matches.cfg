SPECIFICATION Spec
CONSTANTS
    Jobs <- MCJobs
    CaseTable <- MCCaseTable
    InterruptCounterInit = 7
    MayTimeout = TRUE
    StateChunk = 2
    MaxFaults = 1
    MaxText = 3
INVARIANTS
    InBounds
    GroupsPaired
    FindsTheFirstMatch
PROPERTIES
    Terminates
