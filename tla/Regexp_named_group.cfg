SPECIFICATION Spec
CONSTANTS
    Jobs <- MCNamedJobs
    CaseTable <- MCCaseTable
    InterruptCounterInit = 7
    MayTimeout = FALSE
    StateChunk = 2
    MaxFaults = 0
    MaxText = 3
INVARIANTS
    NamedGroupsFound
