SPECIFICATION Spec
CONSTANTS
    Char = {"x"}
    Types = {"TAG", "CLASS", "ATTRIBUTE"}
    MaxTokens = 4
    MaxDepth = 1
    MaxTags = 5
    MaxCut = 2
    MaxNesting = 2
    TokenLists <- MCFaultyLists
    ChildCapacity = 1
    ClassChunk = 1
    AttributeRoom = 1
    UIntMax = 7
    MaxFaults = 2
INVARIANTS DocumentOrder ChildrenMatchParents TokensAccounted MergesOwnTokens LooseTakesTheRest
PROPERTIES Terminates
CONSTRAINT NodeBound
