---------------------------- MODULE MCPugParser ----------------------------
(***************************************************************************)
(* Bounded token lists for PugParser: every list of at most MaxTokens      *)
(* tokens and an EOF that the tokenizer can produce from lines of depth 0  *)
(* to MaxDepth with the token types of Types, and the longer and deeper    *)
(* lists of nothing but tags that MaxTags and MaxNesting give.             *)
(***************************************************************************)
EXTENDS PugParser, SequencesExt

CONSTANTS Types, MaxTokens, MaxDepth, MaxTags, MaxNesting, MaxCut

(* The layout of a list: the type of each token, and the depth of its line *)
(* if it opens one or Same if it continues the line of its predecessor.    *)
(* None pads the layouts of shorter lists.                                 *)
Same == MaxDepth + MaxNesting + 1
None == << "EOF", 0 >>

Opens(f, i) == f[i][2] # Same

(* Whether a token of type t may follow one of type s on the same line. *)
MayFollow(s, t) ==
    CASE s \in DirectiveType \cup {"EOF"} -> FALSE
      [] s \in RunType -> t \in RunType
      [] OTHER -> t \in PieceType \cup {"TEXT"}

Layouts(types, size, deepest) ==
    { f \in [1 .. size -> (types \X (0 .. deepest \cup {Same})) \cup {None}] :
        \A i \in 1 .. size :
            /\ i > 1 /\ f[i - 1] = None => f[i] = None
            /\ IF Opens(f, i) THEN f[i][1] # "INTERPOLATION"
               ELSE i > 1 /\ MayFollow(f[i - 1][1], f[i][1]) }

Value(type) == IF type \in {"DOT", "EOF"} THEN << >> ELSE << "x" >>

(* The line that token i of layout f is on, and the cell that opened it. *)
LineOf(f, i) == Cardinality({ j \in 1 .. i : Opens(f, j) })
OpenerOf(f, i) == CHOOSE j \in 1 .. i : Opens(f, j) /\ LineOf(f, j) = LineOf(f, i)

TokensOf(f) ==
    LET size == Cardinality({ i \in DOMAIN f : f[i] # None })
        eof == [ type |-> "EOF", depth |-> 0, line |-> size + 1, column |-> 0,
                 value |-> << >> ]
    IN  Append([ i \in 1 .. size |->
                   [ type |-> f[i][1], depth |-> f[OpenerOf(f, i)][2],
                     line |-> LineOf(f, i), column |-> 1,
                     value |-> Value(f[i][1]) ] ], eof)

MCTokenLists ==
    { TokensOf(f) : f \in Layouts(Types, MaxTokens, MaxDepth)
                           \cup Layouts({"TAG"}, MaxTags, MaxNesting) }

(* Lists that lost their EOF, as token_list_add could not grow the list:     *)
(* those of at most MaxCut tokens.                                           *)
MCFaultyLists ==
    MCTokenLists \cup { Front(ts) : ts \in { l \in MCTokenLists : Len(l) <= MaxCut + 1 } }

(* Without EOF the tree grows forever: the nodes of two rounds are enough. *)
NodeBound == EndsWithEof(tokens) \/ Len(node) <= 2 * MaxCut + 1

ASSUME \A ts \in MCTokenLists : WellFormedTokens(ts)
=============================================================================
