SPECIFICATION Spec
CONSTANTS
    Char = {"x"}
    Types = {"TAG", "TEXT", "INTERPOLATION", "DOT", "COMMENT", "ID", "CLASS", "ATTRIBUTE"}
    MaxTokens = 3
    MaxDepth = 2
    MaxTags = 5
    MaxCut = 0
    MaxNesting = 3
    TokenLists <- MCTokenLists
    ChildCapacity = 1
    ClassChunk = 1
    AttributeRoom = 1
    UIntMax = 15
    MaxFaults = 0
INVARIANTS TypeOK ParentsAreShallower NearestShallower NoOverflow
PROPERTIES GrowsLikeOutline
