SPECIFICATION Spec
CONSTANTS
    CaseTable <- MCCaseTable
    Operands <- MCOperands
    Universe <- MCUniverse
    SortedElsewhere <- MCSortedElsewhere
    InsertionMax = 2
    DepthMax = 2
    StackSlots = 2
    MaxCalls = 3
    MaxFaults = 1
INVARIANTS
    MergedSoFar
    OneSetLeft
    SortsArray
    StackFits
PROPERTIES
    KeepsPromise
CHECK_DEADLOCK FALSE
