SPECIFICATION Spec
CONSTANTS
    DecompTable <- MCDecompTable
    CompTable <- MCCompTable
    CcTable <- MCCcTable
    CcIndex <- MCCcIndex
    IndexBlock = 8
    ItemSize = 4
    SizeMax = 27
    Texts <- MCTexts
    MaxText = 2
    MaxFaults = 1
INVARIANTS
    InPlace
    MeansTheSame
    IsNormal
CHECK_DEADLOCK FALSE
