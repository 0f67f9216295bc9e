----------------------------- MODULE PugParser -----------------------------
(***************************************************************************)
(* The parser of c-pug (include/pug/pug_parser.h on the AST of             *)
(* include/pug/pug_ast.h): parse_pug walks the token list, parse_node      *)
(* builds one node from one or more tokens, and the node is hung into the  *)
(* tree according to its indentation depth.                                *)
(*                                                                         *)
(* AST nodes are numbered in the order of their creation; node 1 is the    *)
(* artificial root and NULL is the null pointer.  The fields of a node     *)
(* hold the positions of the tokens they were copied from, so that two     *)
(* fields are equal only if they came from the same source text.           *)
(*                                                                         *)
(* malloc and realloc may fail, at most MaxFaults times in a behaviour;    *)
(* the GLib allocators abort the process instead and are not modelled.     *)
(***************************************************************************)
EXTENDS PugTokens

CONSTANTS
    TokenLists,     (* the token lists that parse_pug may be given          *)
    ChildCapacity,  (* initial children_capacity of a node, 5 in the code   *)
    ClassChunk,     (* classes are allocated in chunks of 5 in the code     *)
    AttributeRoom,  (* initial capacity of an attribute list, 5 in the code *)
    UIntMax,        (* largest unsigned int, 2^32 - 1 in the code           *)
    MaxFaults       (* bound on the allocation failures of a behaviour      *)

ASSUME ParserAssumption ==
    /\ \A ts \in TokenLists :
          /\ ts \in Seq(Token)
          /\ Len(ts) < UIntMax
          /\ \A i \in DOMAIN ts : ts[i].depth < UIntMax
    /\ ChildCapacity \in Nat \ {0}
    /\ ClassChunk \in Nat \ {0}
    /\ AttributeRoom \in Nat \ {0}
    /\ UIntMax \in Nat \ {0}
    /\ MaxFaults \in Nat

NULL == 0
Root == 1

VARIABLES
    tokens,          (* ctx->tokens                                         *)
    current_token,   (* ctx->current_token, counted from 0                  *)
    current_parent,  (* ctx->current_parent                                 *)
    pc,              (* where parse_pug and parse_node are                  *)
    node,            (* the content of each node                            *)
    depth,           (* node->depth                                         *)
    parent,          (* node->parent                                        *)
    children,        (* node->children[0 .. children_count - 1]             *)
    capacity,        (* node->children_capacity                             *)
    slots,           (* pointers that fit the buffer behind node->children  *)
    dropped,         (* tokens that were passed over without a trace        *)
    leaked,          (* tokens whose copied value nothing points to         *)
    faults           (* allocation failures so far                          *)

tree == << node, depth, parent, children, capacity, slots >>
vars == << tokens, current_token, current_parent, pc, tree, dropped, leaked,
           faults >>

-----------------------------------------------------------------------------
(* parser_get_current_token: NULL past the end of the list. *)
HasCurrent == current_token < Len(tokens)
Position == current_token + 1
Current == tokens[Position]
At(types) == HasCurrent /\ Current.type \in types

(* parser_advance_token on an unsigned counter. *)
Advance(i) == IF i = UIntMax THEN 0 ELSE i + 1

(* The test with which parse_pug leaves its loop. *)
AtEof(i) == i < Len(tokens) /\ tokens[i + 1].type = "EOF"

Fresh == Len(node)

(* malloc or realloc returns NULL. *)
Fault == faults < MaxFaults /\ faults' = faults + 1

(* The token types parse_node turns into a node of its own... *)
TextLike == { "TEXT", "PIPE", "DOT" }
Standalone == TextLike \cup (DirectiveType \ {"PIPE"}) \cup {"INTERPOLATION"}
(* ... and those it rejects in the default case of its switch. *)
Stray == { "ID", "CLASS", "ATTRIBUTE" }

NewNode(type) ==
    [ type       |-> IF type \in TextLike THEN "TEXT" ELSE type,
      tok        |-> Position,
      id         |-> NULL,
      classes    |-> << >>,
      attributes |-> << >>,
      text       |-> IF type = "TAG" THEN << >> ELSE << Position >>,
      is_inline  |-> FALSE,
      is_block   |-> type \in {"DOT", "PIPE"} ]

RootNode ==
    [ type |-> "TAG", tok |-> 0, id |-> NULL, classes |-> << >>,
      attributes |-> << >>, text |-> << >>, is_inline |-> FALSE,
      is_block |-> FALSE ]

(* ast_node_create, and the head of parse_node that fills in the node. *)
CreateNode ==
    /\ node'     = Append(node, NewNode(Current.type))
    /\ depth'    = Append(depth, Current.depth)
    /\ parent'   = Append(parent, NULL)
    /\ children' = Append(children, << >>)
    /\ capacity' = Append(capacity, ChildCapacity)
    /\ slots'    = Append(slots, ChildCapacity)

Init ==
    /\ tokens \in TokenLists
    /\ current_token = 0
    /\ current_parent = Root
    /\ pc = "parse"
    /\ node = << RootNode >>
    /\ depth = << UIntMax >>
    /\ parent = << NULL >>
    /\ children = << << >> >>
    /\ capacity = << ChildCapacity >>
    /\ slots = << ChildCapacity >>
    /\ dropped = {}
    /\ leaked = {}
    /\ faults = 0

-----------------------------------------------------------------------------
(***************************************************************************)
(* parse_node: the switch on the type of the current token.                *)
(***************************************************************************)

ParseTag ==
    /\ pc = "parse"
    /\ At({"TAG"})
    /\ CreateNode
    /\ current_token' = Advance(current_token)
    /\ pc' = "merge"
    /\ UNCHANGED << tokens, current_parent, dropped, leaked, faults >>

ParseStandalone ==
    /\ pc = "parse"
    /\ At(Standalone)
    /\ CreateNode
    /\ current_token' = Advance(current_token)
    /\ pc' = "climb"
    /\ UNCHANGED << tokens, current_parent, dropped, leaked, faults >>

(* The default case frees the node, advances and returns NULL; parse_pug    *)
(* then stops at EOF or advances once more before it tries again.           *)
ParseStray ==
    /\ pc = "parse"
    /\ At(Stray)
    /\ LET next == Advance(current_token)
           passed == IF AtEof(next) THEN {Position} ELSE {Position, next + 1}
       IN  /\ current_token' = IF AtEof(next) THEN next ELSE Advance(next)
           /\ dropped' = dropped \cup (passed \cap DOMAIN tokens)
           /\ pc' = IF AtEof(next) THEN "done" ELSE "parse"
    /\ UNCHANGED << tokens, current_parent, tree, leaked, faults >>

(* ast_node_create returns NULL: parse_node does not advance, parse_pug does. *)
CreateFails ==
    /\ pc = "parse"
    /\ HasCurrent /\ ~ AtEof(current_token)
    /\ Fault
    /\ dropped' = dropped \cup {Position}
    /\ current_token' = Advance(current_token)
    /\ UNCHANGED << tokens, current_parent, pc, tree, leaked >>

ReachEof ==
    /\ pc = "parse"
    /\ AtEof(current_token)
    /\ pc' = "done"
    /\ UNCHANGED << tokens, current_token, current_parent, tree, dropped,
                    leaked, faults >>

(* Past the end of the list there is no token and hence no EOF to stop at. *)
RunPastEnd ==
    /\ pc = "parse"
    /\ ~ HasCurrent
    /\ current_token' = Advance(current_token)
    /\ UNCHANGED << tokens, current_parent, pc, tree, dropped, leaked, faults >>

-----------------------------------------------------------------------------
(***************************************************************************)
(* parse_node: the loop that merges the tokens after a tag into its node.  *)
(***************************************************************************)

(* Mutant: tokens of other depths are merged as well. *)
MergeableAnyDepth == HasCurrent
(* The next token has the depth of the node in hand. *)
Mergeable == HasCurrent /\ Current.depth = depth[Fresh]

(* Mutant: a branch forgets parser_advance_token. *)
MergeNoAdvance(types) ==
    /\ pc = "merge" /\ Mergeable /\ At(types)
    /\ UNCHANGED << tokens, current_token, current_parent, depth, parent,
                    children, capacity, slots >>

(* What the branches of the loop have in common. *)
Merge(types) ==
    /\ pc = "merge" /\ Mergeable /\ At(types)
    /\ current_token' = Advance(current_token)
    /\ UNCHANGED << tokens, current_parent, depth, parent, children,
                    capacity, slots >>

(* A second id replaces the first, whose copy is not freed. *)
MergeId ==
    /\ Merge({"ID"})
    /\ node' = [node EXCEPT ![Fresh].id = Position]
    /\ leaked' = leaked \cup ({node[Fresh].id} \ {NULL})
    /\ UNCHANGED << pc, dropped, faults >>

(* parse_classes; it ignores an empty name. *)
MergeClass ==
    /\ Merge({"CLASS"})
    /\ IF Current.value # << >>
       THEN /\ node' = [node EXCEPT ![Fresh].classes = Append(@, Position)]
            /\ UNCHANGED dropped
       ELSE /\ dropped' = dropped \cup {Position}
            /\ UNCHANGED node
    /\ UNCHANGED << pc, leaked, faults >>

(* parse_classes needs another chunk and realloc fails: the class is lost. *)
MergeClassFails ==
    /\ Merge({"CLASS"})
    /\ Current.value # << >>
    /\ node[Fresh].classes # << >>
    /\ Len(node[Fresh].classes) % ClassChunk = 0
    /\ Fault
    /\ dropped' = dropped \cup {Position}
    /\ UNCHANGED << pc, node, leaked >>

(* parse_classes does not check the malloc of the first chunk: it stores the *)
(* class through a null pointer.                                             *)
MergeFirstClassFails ==
    /\ pc = "merge" /\ Mergeable /\ At({"CLASS"})
    /\ Current.value # << >>
    /\ node[Fresh].classes = << >>
    /\ Fault
    /\ pc' = "undefined"
    /\ UNCHANGED << tokens, current_token, current_parent, tree, dropped,
                    leaked >>

(* parse_attributes.  The pairs of a token are not told apart here. *)
MergeAttributes ==
    /\ Merge({"ATTRIBUTE"})
    /\ node' = [node EXCEPT ![Fresh].attributes = Append(@, Position)]
    /\ UNCHANGED << pc, dropped, leaked, faults >>

(* The capacity of an attribute list doubles from AttributeRoom on. *)
ListIsFull(count) == \E k \in 0 .. count : count = AttributeRoom * 2 ^ k

(* The malloc of the attribute fails and the pair is skipped, or             *)
(* attribute_list_add cannot grow a full list and forgets the attribute.     *)
MergeAttributesFails ==
    /\ Merge({"ATTRIBUTE"})
    /\ Fault
    /\ \/ /\ dropped' = dropped \cup {Position}
          /\ UNCHANGED leaked
       \/ /\ ListIsFull(Len(node[Fresh].attributes))
          /\ leaked' = leaked \cup {Position}
          /\ UNCHANGED dropped
    /\ UNCHANGED << pc, node >>

MergeText ==
    /\ Merge(RunType)
    /\ node' = [node EXCEPT ![Fresh].text = Append(@, Position),
                            ![Fresh].is_inline = TRUE]
    /\ UNCHANGED << pc, dropped, leaked, faults >>

EndMerge ==
    /\ pc = "merge"
    /\ ~ (Mergeable /\ At(Stray \cup RunType))
    /\ pc' = "climb"
    /\ UNCHANGED << tokens, current_token, current_parent, tree, dropped,
                    leaked, faults >>

-----------------------------------------------------------------------------
(***************************************************************************)
(* parse_pug: hang the fresh node into the tree.                           *)
(***************************************************************************)

(* Mutants: the guard against the root's missing parent is gone; siblings do *)
(* not end the node before them.                                             *)
MustClimbUnguarded == depth[Fresh] <= depth[current_parent]
MustClimbDeeper == /\ parent[current_parent] # NULL
                   /\ depth[Fresh] < depth[current_parent]

(* The condition of the loop that backtracks to the right parent. *)
MustClimb == /\ parent[current_parent] # NULL
             /\ depth[Fresh] <= depth[current_parent]

(* Mutant: the assignment in the loop is missing. *)
ClimbStays == pc = "climb" /\ MustClimb /\ UNCHANGED vars
(* Mutant: one turn of the loop leads all the way up. *)
ClimbToRoot ==
    /\ pc = "climb"
    /\ MustClimb
    /\ current_parent' = Root
    /\ UNCHANGED << tokens, current_token, pc, tree, dropped, leaked, faults >>

Climb ==
    /\ pc = "climb"
    /\ MustClimb
    /\ current_parent' = parent[current_parent]
    /\ UNCHANGED << tokens, current_token, pc, tree, dropped, leaked, faults >>

(* Mutant: off by one. *)
FullTooLate(p) == Len(children[p]) > capacity[p]
Full(p) == Len(children[p]) >= capacity[p]

(* Mutants: the parent link is wrong or missing. *)
AttachToItself(p, n) ==
    /\ children' = [children EXCEPT ![p] = Append(@, n)]
    /\ parent' = [parent EXCEPT ![n] = n]

AttachOneWay(p, n) ==
    /\ children' = [children EXCEPT ![p] = Append(@, n)]
    /\ UNCHANGED parent

(* The end of ast_node_add_child. *)
Attach(p, n) ==
    /\ children' = [children EXCEPT ![p] = Append(@, n)]
    /\ parent' = [parent EXCEPT ![n] = p]

(* Mutant: the tree stays flat. *)
DescendNever == pc' = "parse" /\ UNCHANGED current_parent

(* The end of the loop of parse_pug: descend if the next token is deeper. *)
Descend ==
    /\ current_parent' = IF HasCurrent /\ Current.depth > depth[Fresh]
                         THEN Fresh ELSE current_parent
    /\ pc' = "parse"

AddChild ==
    /\ pc = "climb" /\ ~ MustClimb
    /\ ~ Full(current_parent)
    /\ Len(children[current_parent]) < slots[current_parent]
    /\ Attach(current_parent, Fresh)
    /\ Descend
    /\ UNCHANGED << tokens, current_token, node, depth, capacity, slots,
                    dropped, leaked, faults >>

AddChildGrow ==
    /\ pc = "climb" /\ ~ MustClimb
    /\ Full(current_parent)
    /\ Len(children[current_parent]) < 2 * capacity[current_parent]
    /\ capacity' = [capacity EXCEPT ![current_parent] = 2 * @]
    /\ slots' = [slots EXCEPT ![current_parent] = capacity'[current_parent]]
    /\ Attach(current_parent, Fresh)
    /\ Descend
    /\ UNCHANGED << tokens, current_token, node, depth, dropped, leaked, faults >>

(* realloc fails after the capacity was doubled: the node stays unattached, *)
(* parse_pug goes on as if it had been added.                               *)
AddChildFails ==
    /\ pc = "climb" /\ ~ MustClimb
    /\ Full(current_parent)
    /\ Fault
    /\ capacity' = [capacity EXCEPT ![current_parent] = 2 * @]
    /\ Descend
    /\ UNCHANGED << tokens, current_token, node, depth, parent, children,
                    slots, dropped, leaked >>

(* The buffer is smaller than the recorded capacity, or still too small when  *)
(* it was enlarged: the child is stored outside it, and nothing can be said   *)
(* of the program from here on.                                               *)
AddChildOutOfBounds ==
    /\ pc = "climb" /\ ~ MustClimb
    /\ Len(children[current_parent]) >=
          IF Full(current_parent) THEN 2 * capacity[current_parent]
                                  ELSE slots[current_parent]
    /\ pc' = "undefined"
    /\ UNCHANGED << tokens, current_token, current_parent, tree, dropped,
                    leaked, faults >>

-----------------------------------------------------------------------------
Stopped == pc \in {"done", "undefined"} /\ UNCHANGED vars

Next ==
    \/ ParseTag \/ ParseStandalone \/ ParseStray \/ CreateFails
    \/ ReachEof \/ RunPastEnd
    \/ MergeId \/ MergeClass \/ MergeClassFails \/ MergeFirstClassFails
    \/ MergeAttributes \/ MergeAttributesFails \/ MergeText \/ EndMerge
    \/ Climb \/ AddChild \/ AddChildGrow \/ AddChildFails
    \/ AddChildOutOfBounds
    \/ Stopped

(* parse_pug runs on one thread and never blocks. *)
Spec == Init /\ [][Next]_vars /\ WF_vars(Next)
-----------------------------------------------------------------------------
(***************************************************************************)
(* Properties                                                              *)
(***************************************************************************)

Node == [ type : TokenType, tok : Nat, id : Nat, classes : Seq(Nat),
          attributes : Seq(Nat), text : Seq(Nat), is_inline : BOOLEAN,
          is_block : BOOLEAN ]

(* Every variable has its type, the node arrays have one entry per node, and *)
(* current_parent points to a node.                                          *)
TypeOK ==
    /\ tokens \in Seq(Token)
    /\ current_token \in 0 .. UIntMax
    /\ pc \in {"parse", "merge", "climb", "done", "undefined"}
    /\ node \in Seq(Node) /\ Len(node) >= Root
    /\ current_parent \in DOMAIN node
    /\ depth \in Seq(Nat) /\ Len(depth) = Len(node)
    /\ parent \in Seq(Nat) /\ Len(parent) = Len(node)
    /\ children \in Seq(Seq(Nat)) /\ Len(children) = Len(node)
    /\ capacity \in Seq(Nat) /\ Len(capacity) = Len(node)
    /\ slots \in Seq(Nat) /\ Len(slots) = Len(node)
    /\ dropped \subseteq Nat
    /\ leaked \subseteq Nat
    /\ faults \in 0 .. MaxFaults

Attached(n) == parent[n] # NULL

(* The creation order of the nodes, which is the order of their source text, *)
(* is a preorder of the tree: a subtree is a contiguous run of nodes.  So    *)
(* the renderer, which walks the tree in preorder, keeps the source order,   *)
(* and climbing never leads to a parent that was already closed.             *)
DocumentOrder ==
    \A n \in DOMAIN parent : Attached(n) =>
        /\ parent[n] < n
        /\ \A m \in (parent[n] + 1) .. (n - 1) :
              Attached(m) => parent[m] >= parent[n]

(* The nodes that parse_pug is through with: all but the one in hand. *)
Finished == DOMAIN node \ IF pc \in {"merge", "climb"} THEN {Fresh} ELSE {}

(* Without allocation failures every node but the root is hung into the tree,  *)
(* and never below one of its own depth or deeper, whatever tokens were        *)
(* dropped on the way.                                                         *)
ParentsAreShallower ==
    faults = 0 =>
        \A n \in Finished \ {Root} :
            Attached(n) /\ (parent[n] = Root \/ depth[parent[n]] < depth[n])

(* As long as no token was dropped, the parent of a node is the nearest      *)
(* earlier node that is shallower: the meaning of indentation in Pug.        *)
NearestShallower ==
    faults = 0 /\ dropped = {} =>
        \A n \in DOMAIN parent : Attached(n) =>
            \A m \in (parent[n] + 1) .. (n - 1) : depth[m] >= depth[n]

(* The two directions of the tree agree: the children of a node are exactly  *)
(* the nodes whose parent it is, each once, in source order.                 *)
ChildrenMatchParents ==
    \A p \in DOMAIN children :
        /\ \A i, j \in DOMAIN children[p] :
              i < j => children[p][i] < children[p][j]
        /\ \A n \in DOMAIN parent :
              parent[n] = p <=> \E i \in DOMAIN children[p] : children[p][i] = n

(* Without allocation failures nothing is stored outside the buffers: a      *)
(* parent always has room for the child, however many children it collects.  *)
NoOverflow == pc = "undefined" => faults > 0

Positions(seq) == { seq[i] : i \in DOMAIN seq }

(* The tokens whose text a node holds. *)
Held(n) ==
    ({node[n].tok, node[n].id} \ {NULL})
        \cup Positions(node[n].classes)
        \cup Positions(node[n].attributes)
        \cup Positions(node[n].text)

(* Every token that was passed is accounted for exactly once: it is held by  *)
(* one node, or was dropped, or leaked.  No token is used twice, unless the  *)
(* list lost its EOF and is read over again.                                 *)
TokensAccounted ==
    EndsWithEof(tokens) =>
    LET used == UNION { Held(n) : n \in DOMAIN node }
    IN  /\ used \cup dropped \cup leaked = 1 .. current_token
        /\ used \cap dropped = {} /\ (used \cup dropped) \cap leaked = {}
        /\ \A n, m \in DOMAIN node : n # m => Held(n) \cap Held(m) = {}

(* A node holds only tokens of its own indentation that come before the      *)
(* first token of the next node.                                             *)
MergesOwnTokens ==
    EndsWithEof(tokens) =>
    \A n \in DOMAIN node : n # Root =>
        \A i \in Held(n) :
            /\ tokens[i].depth = depth[n]
            /\ i >= node[n].tok
            /\ n < Fresh => i < node[n + 1].tok

(* A node that could not be attached may still take children, and from then  *)
(* on all that follows belongs to the tree below it: the way up ends there,  *)
(* and no older node gets another child.                                     *)
LooseTakesTheRest ==
    \A d \in Finished \ {Root} : ~ Attached(d) /\ children[d] # << >> =>
        /\ current_parent >= d
        /\ \A n \in (d + 1) .. Len(parent) : Attached(n) => parent[n] >= d

(* Parsing a list that ends with EOF comes to an end. *)
Terminates == EndsWithEof(tokens) => <>(pc \in {"done", "undefined"})

(* The tree grows like an outline: PugOutline with the node under            *)
(* construction left out, as long as no allocation fails.                    *)
Outline == INSTANCE PugOutline
    WITH Depths <- 0 .. (UIntMax - 1),
         RootDepth <- UIntMax,
         exact <- dropped = {},
         parent <- IF pc \in {"merge", "climb"}
                   THEN SubSeq(parent, 1, Len(parent) - 1) ELSE parent,
         depth <- IF pc \in {"merge", "climb"}
                  THEN SubSeq(depth, 1, Len(depth) - 1) ELSE depth

GrowsLikeOutline == Outline!Spec
=============================================================================
