SPECIFICATION Spec
CONSTANTS
    Char = {"x"}
    Kinds = {"plain", "text", "void", "root", "TEXT", "COMMENT", "BLOCK_COMMENT"}
    MaxNodes = 3
    Nested = {"plain", "text", "COMMENT"}
    MaxNested = 4
    MaxDepth = 2
    Trees <- MCTrees
INVARIANTS WritesInOrder TagsNest MinifyKeepsContent OwnLines
