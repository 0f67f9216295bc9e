SPECIFICATION Spec
CONSTANTS
    Char = {"a", "b", "r", " ", "#", ".", "-"}
    Documents <- MCDocuments
    Alpha = {"a", "b", "r"}
    Digit = {}
    ListCapacity = 2
    ChildCapacity = 1
    ClassChunk = 1
    AttributeRoom = 1
    UIntMax = 31
    VoidTags <- MCVoidTags
    RootTags <- MCRootTags
    MaxFaults = 1
    MaxLines = 3
INVARIANTS
    FreedOnce
    LeftBehind
    SourceOrder
    IndentationToHtml
PROPERTIES
    Terminates
CONSTRAINT OneRound
