---------------------------- MODULE PugRenderer ----------------------------
(***************************************************************************)
(* The renderer of c-pug (include/pug/pug_renderer.h): render_ast calls    *)
(* render_node for the root, and render_node calls itself for the          *)
(* children.  The C stack is the variable stack; an action is the part of  *)
(* render_node between two calls.                                          *)
(*                                                                         *)
(* What is written is a sequence of items: a piece of HTML of a node, a    *)
(* line end, or an indentation.  Nothing but the writing depends on the    *)
(* flag minify, so one walk shows both outputs, output[TRUE] being the     *)
(* minified one.  The wording of a start tag, with its id, classes and     *)
(* attributes, and escape_html are left out.                               *)
(***************************************************************************)
EXTENDS PugTokens, SequencesExt

CONSTANT Trees          (* the trees render_ast may be given               *)

NULL == 0
Root == 1

(* The types parse_node gives to nodes; TEXT stands for PIPE and DOT too.   *)
NodeType == { "TAG", "TEXT", "INTERPOLATION" } \cup (DirectiveType \ {"PIPE"})

(* Of a tag name it matters whether it is "root" and whether it is in        *)
(* void_tags; only a tag may have text besides what its type stands for.    *)
(* Nodes are numbered in document order, which is what the parser's         *)
(* invariants DocumentOrder and ChildrenMatchParents say of its trees: a    *)
(* node that stands between a node and its parent hangs below the same      *)
(* parent, or deeper.                                                       *)
IsTree(t) ==
    /\ t.node \in Seq([ type : NodeType, tag : { "plain", "void", "root" },
                        has_text : BOOLEAN ])
    /\ Len(t.node) >= Root
    /\ t.node[Root] = [ type |-> "TAG", tag |-> "root", has_text |-> FALSE ]
    /\ t.depth \in Seq(Nat) /\ Len(t.depth) = Len(t.node)
    /\ t.children \in Seq(Seq(DOMAIN t.node)) /\ Len(t.children) = Len(t.node)
    /\ \A n \in DOMAIN t.node : \A i, j \in DOMAIN t.children[n] :
          i < j => t.children[n][i] < t.children[n][j]
    /\ \A n, m \in DOMAIN t.node :
          \A i \in DOMAIN t.children[n], j \in DOMAIN t.children[m] :
             LET c == t.children[n][i]
                 d == t.children[m][j]
             IN  n < c /\ (c = d => n = m) /\ (n < d /\ d < c => n <= m)

ASSUME RendererAssumption == \A t \in Trees : IsTree(t)

VARIABLES
    tree,           (* the tree that is rendered                            *)
    stack,          (* the calls of render_node that wait for a child       *)
    calling,        (* the node render_node was just called for, or NULL    *)
    output          (* what was written, for each value of minify           *)

vars == << tree, stack, calling, output >>

node == tree.node
children == tree.children

-----------------------------------------------------------------------------
(* What is written. *)

Indent(d) == [ what |-> "indent", of |-> d ]
Newline == [ what |-> "newline", of |-> 0 ]
Item(what, n) == [ what |-> what, of |-> n ]

Layout == { "indent", "newline" }

(* Left out when minified. *)
Hidden == { "COMMENT", "CODE", "INCLUDE", "EXTENDS", "MIXIN", "CALL" }

Write(pretty, minified) ==
    output' = [ minify \in BOOLEAN |->
                   output[minify] \o IF minify THEN minified ELSE pretty ]

Margin(n) == << Indent(tree.depth[n]) >>

IsArtificial(n) == node[n].tag = "root" /\ node[n].type = "TAG"
IsVoid(n) == node[n].tag = "void" /\ node[n].type = "TAG"
IsElement(n) == node[n].type = "TAG" /\ ~ IsArtificial(n) /\ ~ IsVoid(n)

Init ==
    /\ tree \in Trees
    /\ stack = << >>
    /\ calling = Root
    /\ output = [ minify \in BOOLEAN |-> << >> ]

-----------------------------------------------------------------------------
(***************************************************************************)
(* The start of a call.                                                    *)
(***************************************************************************)

Return == calling' = NULL /\ UNCHANGED << tree, stack >>

(* The call goes on with the children of n. *)
WaitFor(n) ==
    /\ calling' = NULL
    /\ stack' = Append(stack, [ node |-> n, next |-> 1 ])
    /\ UNCHANGED tree

(* A tag named root is taken for the artificial root. *)
EnterRoot ==
    /\ calling # NULL /\ IsArtificial(calling)
    /\ WaitFor(calling)
    /\ UNCHANGED output

(* Mutant: comments are written in minified output as well. *)
RenderLeafAlways ==
    /\ calling # NULL /\ node[calling].type \notin { "TAG", "BLOCK_COMMENT" }
    /\ LET leaf == << Item(node[calling].type, calling) >>
       IN  Write(Margin(calling) \o leaf \o << Newline >>, leaf)
    /\ Return

(* All cases of the switch but those below; none looks at the children. *)
RenderLeaf ==
    /\ calling # NULL /\ node[calling].type \notin { "TAG", "BLOCK_COMMENT" }
    /\ LET leaf == << Item(node[calling].type, calling) >>
       IN  Write(Margin(calling) \o leaf \o << Newline >>,
                 IF node[calling].type \in Hidden THEN << >> ELSE leaf)
    /\ Return

(* The indentation was written before the switch. *)
RenderBlockComment ==
    /\ calling # NULL /\ node[calling].type = "BLOCK_COMMENT"
    /\ Write(Margin(calling), << >>)
    /\ Return

RenderVoid ==
    /\ calling # NULL /\ IsVoid(calling)
    /\ LET tag == << Item("open", calling) >>
       IN  Write(Margin(calling) \o tag \o << Newline >>, tag)
    /\ Return

(* Mutant: every tag is closed at once. *)
OpenTagClosed ==
    /\ calling # NULL /\ IsElement(calling)
    /\ LET tag == << Item("open", calling), Item("close", calling) >>
       IN  Write(Margin(calling) \o tag, tag)
    /\ WaitFor(calling)

(* Mutant: the line ends behind a text and not behind a tag. *)
OpenTagBreak ==
    /\ calling # NULL /\ IsElement(calling)
    /\ LET n == calling
           text == IF node[n].has_text THEN << Item("text", n) >> ELSE << >>
           start == << Item("open", n) >> \o text
           break == IF node[n].has_text THEN << Newline >> ELSE << >>
       IN  Write(Margin(n) \o start \o break, start)
    /\ WaitFor(calling)

(* The text of a tag is always inline; its children start on a new line only *)
(* if there is none.                                                         *)
OpenTag ==
    /\ calling # NULL /\ IsElement(calling)
    /\ LET n == calling
           text == IF node[n].has_text THEN << Item("text", n) >> ELSE << >>
           start == << Item("open", n) >> \o text
           break == IF children[n] # << >> /\ ~ node[n].has_text
                    THEN << Newline >> ELSE << >>
       IN  Write(Margin(n) \o start \o break, start)
    /\ WaitFor(calling)

-----------------------------------------------------------------------------
(***************************************************************************)
(* The loop over the children, and the end of a call.                      *)
(***************************************************************************)

Waiting == calling = NULL /\ stack # << >>
Frame == Last(stack)
LastChild == Frame.next > Len(children[Frame.node])

(* Mutant: the counter of the loop is not incremented. *)
CallChildAgain ==
    /\ Waiting /\ ~ LastChild
    /\ calling' = children[Frame.node][Frame.next]
    /\ UNCHANGED << tree, stack, output >>

(* Mutant: the last child comes first.                                      *)
CallChildBackwards ==
    /\ Waiting /\ ~ LastChild
    /\ LET c == children[Frame.node] IN calling' = c[Len(c) + 1 - Frame.next]
    /\ stack' = [ stack EXCEPT ![Len(stack)].next = @ + 1 ]
    /\ UNCHANGED << tree, output >>

CallChild ==
    /\ Waiting /\ ~ LastChild
    /\ calling' = children[Frame.node][Frame.next]
    /\ stack' = [ stack EXCEPT ![Len(stack)].next = @ + 1 ]
    /\ UNCHANGED << tree, output >>

CloseTag ==
    /\ Waiting /\ LastChild /\ IsElement(Frame.node)
    /\ LET n == Frame.node
           tag == << Item("close", n) >>
           margin == IF children[n] # << >> /\ ~ node[n].has_text
                     THEN Margin(n) ELSE << >>
       IN  Write(margin \o tag \o << Newline >>, tag)
    /\ stack' = Front(stack)
    /\ UNCHANGED << tree, calling >>

LeaveRoot ==
    /\ Waiting /\ LastChild /\ IsArtificial(Frame.node)
    /\ stack' = Front(stack)
    /\ UNCHANGED << tree, calling, output >>

Finished == calling = NULL /\ stack = << >>
Stopped == Finished /\ UNCHANGED vars

Next ==
    \/ EnterRoot \/ RenderLeaf \/ RenderBlockComment \/ RenderVoid \/ OpenTag
    \/ CallChild \/ CloseTag \/ LeaveRoot
    \/ Stopped

(* render_ast runs on one thread and never blocks. *)
Spec == Init /\ [][Next]_vars /\ WF_vars(Next)
-----------------------------------------------------------------------------
(***************************************************************************)
(* Properties                                                              *)
(***************************************************************************)

(* The node n and all nodes below it: the smallest set that has n and the    *)
(* children of its elements.                                                 *)
ChildrenIn(set) ==
    \A n \in set : \A i \in DOMAIN children[n] : children[n][i] \in set
Subtree(n) ==
    { m \in DOMAIN node :
         \A set \in SUBSET DOMAIN node : n \in set /\ ChildrenIn(set) => m \in set }
Below(n) == Subtree(n) \ { n }

(* The nodes that are written: those in the tree, below tags with an end tag *)
(* only.                                                                     *)
Barren == { a \in DOMAIN node : ~ IsArtificial(a) /\ ~ IsElement(a) }
Shown ==
    { n \in Subtree(Root) : ~ IsArtificial(n) /\ node[n].type # "BLOCK_COMMENT" }
        \ UNION { Below(a) : a \in Barren }

(* Where a node begins in what is written.                                   *)
IsStart(item) == item.what \notin Layout \cup { "text", "close" }
Starts(written) == { i \in DOMAIN written : IsStart(written[i]) }

(* Every node that is shown is written once, in document order: what was     *)
(* written so far are the first of the nodes to be shown.                    *)
WritesInOrder ==
    LET written == output[FALSE]
        starts == Starts(written)
        seen == { written[i].of : i \in starts }
        shown == Shown
    IN  /\ \A i, j \in starts : i < j => written[i].of < written[j].of
        /\ seen \subseteq shown
        /\ \A n \in shown, m \in seen : n < m => n \in seen
        /\ Finished => seen = shown

At(written, what, n) ==
    { i \in DOMAIN written : written[i] = Item(what, n) }

(* Tags nest as the tree does: an element is closed once, behind everything  *)
(* that is written for the nodes below it and before anything of the nodes   *)
(* after it, and in the end all elements are closed.                         *)
TagsNest ==
    LET written == output[FALSE]
    IN  \A n \in DOMAIN node : IsElement(n) =>
            LET closed == At(written, "close", n)
                below == Below(n)
            IN  /\ \A c \in closed : \A i \in DOMAIN written :
                      written[i].what \notin Layout =>
                          /\ written[i].of \in below => i < c
                          /\ written[i].of > n /\ written[i].of \notin below
                                => c < i
                /\ \A c, d \in closed : c = d
                /\ Finished /\ n \in Shown => closed # {}

(* The minified output is the other one without layout, comments and         *)
(* placeholders: the same tags with the same text, in the same order.  That  *)
(* is, the k-th item that stays is the k-th one of the minified output.      *)
Staying(written) ==
    { i \in DOMAIN written : written[i].what \notin Layout \cup Hidden }
MinifyKeepsContent ==
    LET pretty == output[FALSE]
        minified == output[TRUE]
    IN  /\ Len(minified) = Cardinality(Staying(pretty))
        /\ \A i \in Staying(pretty) :
              pretty[i] = minified[Cardinality(Staying(pretty) \cap 1 .. i)]

(* Only what is below an element with text, which is written inline, shares *)
(* a line with it; everything else begins a line of its own, and no line is  *)
(* blank, whatever comments or roots are passed over in between.             *)
Unbroken(written, i, j) == \A k \in i .. j : written[k].what # "newline"
OwnLines ==
    LET written == output[FALSE]
        pieces == { i \in DOMAIN written : written[i].what \notin Layout }
        beside(a, b) == a = b \/ (IsElement(a) /\ node[a].has_text /\ b \in Below(a))
    IN  /\ \A i, j \in pieces :
              i < j /\ Unbroken(written, i, j) => beside(written[i].of, written[j].of)
        /\ \A e \in DOMAIN written : written[e].what = "newline" =>
              \E i \in pieces : i < e /\ Unbroken(written, i, e - 1)
=============================================================================
