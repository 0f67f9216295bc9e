--------------------------- MODULE MCPugRenderer ---------------------------
(***************************************************************************)
(* Bounded trees for PugRenderer: the trees that the parser builds of      *)
(* documents of at most MaxNodes lines of depth 0 to MaxDepth, when each   *)
(* line is a node of one of the Kinds, and of MaxNested lines of the kinds *)
(* of Nested.  As the parser's theorems IndentationDecides and             *)
(* ChildrenMatch say, the parent of a node is the nearest earlier one that *)
(* is shallower.                                                           *)
(***************************************************************************)
EXTENDS PugRenderer

CONSTANTS Kinds, MaxNodes, Nested, MaxNested, MaxDepth

Artificial == [ type |-> "TAG", tag |-> "root", has_text |-> FALSE ]

Kind(k) ==
    IF k \in NodeType THEN [ type |-> k, tag |-> "plain", has_text |-> k = "TEXT" ]
    ELSE [ type |-> "TAG",
           tag |-> IF k = "text" THEN "plain" ELSE k,
           has_text |-> k = "text" ]

Parents(depths) ==
    [ n \in DOMAIN depths |->
        1 + Max({ m \in 1 .. n - 1 : depths[m] < depths[n] } \cup {0}) ]

ChildrenOf(parents, p) ==
    SelectSeq([ n \in DOMAIN parents |-> n + 1 ], LAMBDA n : parents[n - 1] = p)

(* The depth of the artificial root is never written. *)
Shape(depths) ==
    [ depth |-> << MaxDepth + 1 >> \o depths,
      children |-> [ n \in 1 .. Len(depths) + 1 |-> ChildrenOf(Parents(depths), n) ] ]

Shapes(n) == { Shape(depths) : depths \in [1 .. n -> 0 .. MaxDepth] }

Contents(n, kinds) ==
    { << Artificial >> \o [ m \in 1 .. n |-> Kind(k[m]) ] : k \in [1 .. n -> kinds] }

TreesOf(n, kinds) ==
    { [ node |-> c, depth |-> s.depth, children |-> s.children ] :
        c \in Contents(n, kinds), s \in Shapes(n) }

MCTrees == UNION { TreesOf(n, Kinds) : n \in 0 .. MaxNodes }
               \cup TreesOf(MaxNested, Nested)
=============================================================================
