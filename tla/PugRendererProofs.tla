------------------------- MODULE PugRendererProofs -------------------------
(***************************************************************************)
(* Theorems about PugRenderer, for all trees: the nodes are written in     *)
(* document order, tags nest as the tree does, only what is below a text   *)
(* shares a line with it, and minifying keeps the content.                 *)
(***************************************************************************)
EXTENDS PugRenderer, Integers, SequenceTheorems, FiniteSetTheorems, TLAPS

Items == [ what : NodeType \cup Layout \cup { "open", "close", "text" }, of : Nat ]

(* The walk stays in the tree.                                             *)
InTree ==
    /\ IsTree(tree)
    /\ calling \in DOMAIN node \cup { NULL }
    /\ stack \in Seq([ node : DOMAIN node, next : Nat \ {0} ])

OutputInv ==
    /\ InTree
    /\ output \in [ BOOLEAN -> Seq(Items) ]

-----------------------------------------------------------------------------
LEMMA TreeFacts ==
    ASSUME InTree
    PROVE  /\ IsTree(tree) /\ Root \in DOMAIN node /\ DOMAIN node \subseteq Nat \ {0}
           /\ \A n \in DOMAIN node : /\ node[n].type \in NodeType
                                     /\ tree.depth[n] \in Nat
                                     /\ children[n] \in Seq(DOMAIN node)
<1>1. IsTree(tree)
    BY DEF InTree
<1>2. /\ node \in Seq([ type : NodeType, tag : { "plain", "void", "root" }, has_text : BOOLEAN ])
      /\ Len(node) >= Root /\ Root = 1
      /\ tree.depth \in Seq(Nat) /\ Len(tree.depth) = Len(node)
      /\ children \in Seq(Seq(DOMAIN node)) /\ Len(children) = Len(node)
    BY <1>1 DEF IsTree, node, children, Root
<1>3. Len(node) \in Nat /\ DOMAIN node = 1 .. Len(node)
    BY <1>2, LenProperties
<1>4. \A n \in 1 .. Len(node) :
         /\ node[n] \in [ type : NodeType, tag : { "plain", "void", "root" }, has_text : BOOLEAN ]
         /\ tree.depth[n] \in Nat /\ children[n] \in Seq(DOMAIN node)
    BY <1>2, ElementOfSeq
<1> QED
    BY <1>1, <1>2, <1>3, <1>4

LEMMA Pieces ==
    ASSUME InTree, NEW n \in DOMAIN node, NEW what \in NodeType \cup { "open", "close", "text" }
    PROVE  /\ << Item(what, n) >> \in Seq(Items) /\ << Newline >> \in Seq(Items)
           /\ << >> \in Seq(Items) /\ Margin(n) \in Seq(Items)
           /\ Margin(n) \o << Item(what, n) >> \in Seq(Items)
<1>1. n \in Nat /\ tree.depth[n] \in Nat
    BY TreeFacts
<1>2. Item(what, n) \in Items /\ Newline \in Items /\ Indent(tree.depth[n]) \in Items
    BY <1>1 DEF Item, Newline, Indent, Items, Layout
<1>3. /\ << Item(what, n) >> \in Seq(Items) /\ << Newline >> \in Seq(Items)
      /\ << >> \in Seq(Items) /\ Margin(n) \in Seq(Items)
    BY <1>2 DEF Margin
<1> HIDE DEF Margin
<1>4. Margin(n) \o << Item(what, n) >> \in Seq(Items)
    BY <1>3, ConcatProperties
<1> QED
    BY <1>3, <1>4

(* A step that writes v when it does not minify.                           *)
LEMMA Written ==
    ASSUME OutputInv, NEW v \in Seq(Items), NEW u \in Seq(Items), Write(v, u)
    PROVE  output' \in [ BOOLEAN -> Seq(Items) ]
<1>1. output' = [ minify \in BOOLEAN |-> output[minify] \o IF minify THEN u ELSE v ]
    BY DEF Write
<1>2. output[FALSE] \in Seq(Items) /\ output[TRUE] \in Seq(Items)
    BY DEF OutputInv
<1> QED
    BY <1>1, <1>2, ConcatProperties

-----------------------------------------------------------------------------
(* The walk.                                                               *)

LEMMA StackKept ==
    ASSUME InTree, stack # << >>
    PROVE  /\ Len(stack) \in Nat \ {0} /\ Frame.node \in DOMAIN node
           /\ Frame.next \in Nat \ {0}
           /\ Front(stack) \in Seq([ node : DOMAIN node, next : Nat \ {0} ])
           /\ [ stack EXCEPT ![Len(stack)].next = @ + 1 ]
                 \in Seq([ node : DOMAIN node, next : Nat \ {0} ])
<1> DEFINE F == [ node : DOMAIN node, next : Nat \ {0} ]
           n == Len(stack)
<1>1. stack \in Seq(F)
    BY DEF InTree
<1>2. n \in Nat \ {0} /\ n \in 1 .. n /\ stack[n] \in F
    <2> HIDE DEF F
    <2> QED
        BY <1>1, EmptySeq, LenProperties, ElementOfSeq
<1>3. Frame.node \in DOMAIN node /\ Frame.next \in Nat \ {0}
    BY <1>2 DEF Frame, Last
<1>4. Front(stack) \in Seq(F)
    <2> HIDE DEF F
    <2>1. n - 1 \in 0 .. n /\ 1 \in 1 .. n + 1
        BY <1>2
    <2> QED
        BY <1>1, <1>2, <2>1, SubSeqProperties DEF Front
<1>5. [ stack EXCEPT ![n].next = @ + 1 ] \in Seq(F)
    <2>1. [ stack[n] EXCEPT !.next = @ + 1 ] \in F
        BY <1>2
    <2>2. [ stack EXCEPT ![n].next = @ + 1 ]
             = [ stack EXCEPT ![n] = [ stack[n] EXCEPT !.next = @ + 1 ] ]
        OBVIOUS
    <2> HIDE DEF F
    <2> QED
        BY <1>1, <1>2, <2>1, <2>2, ExceptSeq
<1> QED
    BY <1>2, <1>3, <1>4, <1>5

LEMMA Entered ==
    ASSUME InTree, calling # NULL, Return \/ WaitFor(calling)
    PROVE  InTree' /\ UNCHANGED tree
<1> DEFINE F == [ node : DOMAIN node, next : Nat \ {0} ]
           frame == [ node |-> calling, next |-> 1 ]
<1>1. UNCHANGED tree /\ calling' = NULL /\ IsTree(tree) /\ calling \in DOMAIN node
    BY DEF Return, WaitFor, InTree
<1>2. stack \in Seq(F) /\ frame \in F
    BY <1>1 DEF InTree
<1>3. stack' \in Seq(F)
    <2>1. stack' = stack \/ stack' = Append(stack, frame)
        BY DEF Return, WaitFor
    <2> HIDE DEF F, frame
    <2> QED
        BY <1>2, <2>1, AppendProperties
<1> QED
    BY <1>1, <1>3 DEF InTree, node

LEMMA OutputStep == OutputInv /\ [Next]_vars => OutputInv'
<1> SUFFICES ASSUME OutputInv, [Next]_vars PROVE OutputInv'
    OBVIOUS
<1>1. InTree /\ << Newline >> \in Seq(Items) /\ << >> \in Seq(Items)
    <2>1. InTree /\ Root \in DOMAIN node
        BY TreeFacts DEF OutputInv
    <2> QED
        BY <2>1, Pieces
<1>2. CASE EnterRoot
    <2>1. InTree'
        BY <1>1, <1>2, Entered DEF EnterRoot
    <2>2. UNCHANGED << tree, output >>
        BY <1>2 DEF EnterRoot, WaitFor
    <2> QED
        BY <2>1, <2>2 DEF OutputInv, node
<1>3. CASE RenderLeaf \/ RenderVoid
    <2> DEFINE what == IF RenderLeaf THEN node[calling].type ELSE "open"
               leaf == << Item(what, calling) >>
               v == Margin(calling) \o leaf \o << Newline >>
    <2>1. /\ calling # NULL /\ Return
          /\ Write(v, leaf) \/ Write(v, << >>)
        BY <1>3 DEF RenderLeaf, RenderVoid
    <2>2. calling \in DOMAIN node
        BY <1>1, <2>1 DEF InTree
    <2>3. what \in NodeType \cup { "open", "close", "text" }
        BY <1>1, <2>2, TreeFacts
    <2> HIDE DEF what
    <2>4. leaf \in Seq(Items) /\ Margin(calling) \o leaf \in Seq(Items)
        BY <1>1, <2>2, <2>3, Pieces
    <2> HIDE DEF leaf
    <2>5. v \in Seq(Items)
        BY <1>1, <2>4, ConcatProperties
    <2> HIDE DEF v
    <2>6. InTree' /\ UNCHANGED tree
        BY <1>1, <2>1, Entered
    <2> QED
        BY <1>1, <2>1, <2>4, <2>5, <2>6, Written DEF OutputInv
<1>4. CASE RenderBlockComment
    <2>1. calling # NULL /\ Return /\ Write(Margin(calling), << >>)
        BY <1>4 DEF RenderBlockComment
    <2>2. calling \in DOMAIN node
        BY <1>1, <2>1 DEF InTree
    <2>3. Margin(calling) \in Seq(Items)
        BY <1>1, <2>2, Pieces
    <2>4. InTree' /\ UNCHANGED tree
        BY <1>1, <2>1, Entered
    <2> QED
        BY <1>1, <2>1, <2>3, <2>4, Written DEF OutputInv
<1>5. CASE OpenTag
    <2> DEFINE n == calling
               open == << Item("open", n) >>
               text == IF node[n].has_text THEN << Item("text", n) >> ELSE << >>
               break == IF children[n] # << >> /\ ~ node[n].has_text
                        THEN << Newline >> ELSE << >>
               v == Margin(n) \o (open \o text) \o break
    <2>1. /\ calling # NULL /\ WaitFor(calling) /\ Write(v, open \o text)
        BY <1>5 DEF OpenTag
    <2>2. calling \in DOMAIN node
        BY <1>1, <2>1 DEF InTree
    <2>3. open \in Seq(Items) /\ Margin(n) \in Seq(Items) /\ text \in Seq(Items)
        BY <1>1, <2>2, Pieces
    <2>4. break \in Seq(Items)
        BY <1>1
    <2> HIDE DEF open, text, break
    <2>5. open \o text \in Seq(Items)
        BY <2>3, ConcatProperties
    <2>6. Margin(n) \o (open \o text) \in Seq(Items)
        BY <2>3, <2>5, ConcatProperties
    <2>7. v \in Seq(Items)
        BY <2>4, <2>6, ConcatProperties
    <2> HIDE DEF v
    <2>8. InTree' /\ UNCHANGED tree
        BY <1>1, <2>1, Entered
    <2> QED
        BY <2>1, <2>5, <2>7, <2>8, Written DEF OutputInv
<1>6. CASE CallChild
    <2>1. /\ stack # << >> /\ UNCHANGED << tree, output >>
          /\ ~ (Frame.next > Len(children[Frame.node]))
          /\ calling' = children[Frame.node][Frame.next]
          /\ stack' = [ stack EXCEPT ![Len(stack)].next = @ + 1 ]
        BY <1>6 DEF CallChild, Waiting, LastChild
    <2>2. Frame.node \in DOMAIN node /\ Frame.next \in Nat \ {0}
          /\ stack' \in Seq([ node : DOMAIN node, next : Nat \ {0} ])
        BY <1>1, <2>1, StackKept
    <2>3. calling' \in DOMAIN node
        <3>1. children[Frame.node] \in Seq(DOMAIN node)
            BY <1>1, <2>2, TreeFacts
        <3>2. Frame.next \in 1 .. Len(children[Frame.node])
            BY <2>1, <2>2, <3>1, LenProperties
        <3> QED
            BY <2>1, <3>1, <3>2, ElementOfSeq
    <2> QED
        BY <2>1, <2>2, <2>3 DEF OutputInv, InTree, node
<1>7. CASE CloseTag
    <2> DEFINE n == Frame.node
               tag == << Item("close", n) >>
               margin == IF children[n] # << >> /\ ~ node[n].has_text
                         THEN Margin(n) ELSE << >>
               v == margin \o tag \o << Newline >>
    <2>1. /\ stack # << >> /\ Write(v, tag) /\ stack' = Front(stack)
          /\ UNCHANGED << tree, calling >>
        BY <1>7 DEF CloseTag, Waiting
    <2>2. n \in DOMAIN node /\ Front(stack) \in Seq([ node : DOMAIN node, next : Nat \ {0} ])
        BY <1>1, <2>1, StackKept
    <2>3. tag \in Seq(Items) /\ Margin(n) \o tag \in Seq(Items) /\ << >> \o tag = tag
        BY <1>1, <2>2, Pieces, ConcatEmptySeq
    <2> HIDE DEF n, tag
    <2>4. margin \o tag \in Seq(Items)
        BY <2>3
    <2> HIDE DEF margin
    <2>5. v \in Seq(Items)
        BY <1>1, <2>4, ConcatProperties
    <2> HIDE DEF v
    <2>6. InTree'
        BY <1>1, <2>1, <2>2 DEF InTree, node
    <2> QED
        BY <2>1, <2>3, <2>5, <2>6, Written DEF OutputInv
<1>8. CASE LeaveRoot
    <2>1. /\ stack # << >> /\ stack' = Front(stack)
          /\ UNCHANGED << tree, calling, output >>
        BY <1>8 DEF LeaveRoot, Waiting
    <2>2. Front(stack) \in Seq([ node : DOMAIN node, next : Nat \ {0} ])
        BY <1>1, <2>1, StackKept
    <2> QED
        BY <2>1, <2>2 DEF OutputInv, InTree, node
<1>9. CASE UNCHANGED vars
    BY <1>9 DEF vars, OutputInv, InTree, node
<1> QED
    BY <1>2, <1>3, <1>4, <1>5, <1>6, <1>7, <1>8, <1>9 DEF Next, Stopped

(* What render_ast begins with.                                             *)
Begin ==
    /\ IsTree(tree) /\ stack = << >> /\ calling = Root
    /\ output = [ minify \in BOOLEAN |-> << >> ]

LEMMA InitBegins == Init => Begin
BY RendererAssumption DEF Init, Begin, RendererAssumption

LEMMA OutputBegin == Begin => OutputInv
<1> SUFFICES ASSUME Begin PROVE OutputInv
    OBVIOUS
<1>1. /\ IsTree(tree) /\ stack = << >> /\ calling = Root
      /\ output = [ minify \in BOOLEAN |-> << >> ]
    BY DEF Begin
<1>2. Root \in DOMAIN node
    <2>1. IsTree(tree)
        BY <1>1
    <2>2. /\ node \in Seq([ type : NodeType, tag : { "plain", "void", "root" },
                            has_text : BOOLEAN ])
          /\ Len(node) >= Root /\ Root = 1
        BY <2>1 DEF IsTree, node, Root
    <2> QED
        BY <2>2, LenProperties
<1>3. InTree
    BY <1>1, <1>2 DEF InTree
<1>4. output \in [ BOOLEAN -> Seq(Items) ]
    BY <1>1
<1> QED
    BY <1>3, <1>4 DEF OutputInv

-----------------------------------------------------------------------------
(***************************************************************************)
(* Subtrees.                                                               *)
(***************************************************************************)
Child(p, c) == \E i \in DOMAIN children[p] : children[p][i] = c
Ancestors(n) == { a \in DOMAIN node : n \in Below(a) }

LEMMA ChildFacts ==
    ASSUME InTree
    PROVE  /\ DOMAIN node \subseteq Nat \ {0} /\ Root \in DOMAIN node
           /\ \A p \in DOMAIN node : \A c :
                 Child(p, c) => c \in DOMAIN node /\ c > p
           /\ \A p, q \in DOMAIN node : \A c, d : Child(p, c) /\ Child(q, d) =>
                 (c = d => p = q) /\ (p < d /\ d < c => p <= q)
           /\ \A p \in DOMAIN node : \A i, j \in DOMAIN children[p] :
                 i < j => children[p][i] < children[p][j]
<1>1. /\ IsTree(tree) /\ Root \in DOMAIN node /\ DOMAIN node \subseteq Nat \ {0}
      /\ \A n \in DOMAIN node : children[n] \in Seq(DOMAIN node)
    BY TreeFacts
<1>2. /\ \A n \in DOMAIN node : \A i, j \in DOMAIN children[n] :
             i < j => children[n][i] < children[n][j]
      /\ \A n, m \in DOMAIN node :
           \A i \in DOMAIN children[n], j \in DOMAIN children[m] :
              LET c == children[n][i]
                  d == children[m][j]
              IN  n < c /\ (c = d => n = m) /\ (n < d /\ d < c => n <= m)
    BY <1>1 DEF IsTree, node, children
<1>3. \A p \in DOMAIN node : \A c : Child(p, c) => c \in DOMAIN node /\ c > p
    <2> SUFFICES ASSUME NEW p \in DOMAIN node, NEW i \in DOMAIN children[p]
                 PROVE  children[p][i] \in DOMAIN node /\ children[p][i] > p
        BY DEF Child
    <2>1. children[p][i] \in DOMAIN node
        BY <1>1, ElementOfSeq, LenProperties
    <2> QED
        BY <1>1, <1>2, <2>1
<1>4. \A p, q \in DOMAIN node : \A c, d : Child(p, c) /\ Child(q, d) =>
          (c = d => p = q) /\ (p < d /\ d < c => p <= q)
    BY <1>2 DEF Child
<1> QED
    BY <1>1, <1>2, <1>3, <1>4

LEMMA SubtreeFacts ==
    ASSUME InTree, NEW n \in DOMAIN node
    PROVE  /\ n \in Subtree(n) /\ Subtree(n) \subseteq DOMAIN node
           /\ \A m \in Subtree(n) : m >= n
           /\ \A m \in Subtree(n) : \A c : Child(m, c) => c \in Subtree(n)
           /\ \A set \in SUBSET DOMAIN node :
                 n \in set /\ ChildrenIn(set) => Subtree(n) \subseteq set
<1>1. n \in Subtree(n) /\ Subtree(n) \subseteq DOMAIN node
    BY DEF Subtree
<1>2. \A set \in SUBSET DOMAIN node :
          n \in set /\ ChildrenIn(set) => Subtree(n) \subseteq set
    BY DEF Subtree
<1>3. \A m \in Subtree(n) : m >= n
    <2> DEFINE later == { m \in DOMAIN node : m >= n }
    <2>1. n \in later /\ later \subseteq DOMAIN node
        BY ChildFacts
    <2>2. ChildrenIn(later)
        <3> SUFFICES ASSUME NEW m \in later, NEW i \in DOMAIN children[m]
                     PROVE  children[m][i] \in later
            BY DEF ChildrenIn
        <3>1. Child(m, children[m][i])
            BY DEF Child
        <3>2. children[m][i] \in DOMAIN node /\ children[m][i] > m /\ m \in Nat /\ n \in Nat
              /\ children[m][i] \in Nat /\ m >= n
            BY <3>1, ChildFacts
        <3> QED
            BY <3>2
    <2> QED
        BY <1>2, <2>1, <2>2
<1>4. \A m \in Subtree(n) : \A c : Child(m, c) => c \in Subtree(n)
    <2> SUFFICES ASSUME NEW m \in Subtree(n), NEW c, Child(m, c),
                        NEW set \in SUBSET DOMAIN node, n \in set, ChildrenIn(set)
                 PROVE  c \in set
        BY <1>1, ChildFacts DEF Subtree
    <2> QED
        BY <1>2 DEF ChildrenIn, Child
<1> QED
    BY <1>1, <1>2, <1>3, <1>4

(* What is below a node is below one of its children or is one.            *)
LEMMA BelowChildren ==
    ASSUME InTree, NEW n \in DOMAIN node, NEW m \in Below(n)
    PROVE  \E c : Child(n, c) /\ m \in Subtree(c)
<1> DEFINE set == { n } \cup { k \in DOMAIN node : \E c : Child(n, c) /\ k \in Subtree(c) }
<1>1. set \in SUBSET DOMAIN node /\ n \in set
    OBVIOUS
<1>2. ChildrenIn(set)
    <2> SUFFICES ASSUME NEW k \in set, NEW i \in DOMAIN children[k]
                 PROVE  children[k][i] \in set
        BY DEF ChildrenIn
    <2>1. Child(k, children[k][i]) /\ children[k][i] \in DOMAIN node
        BY <1>1, ChildFacts DEF Child
    <2>2. CASE k = n
        BY <2>1, <2>2, SubtreeFacts
    <2>3. ASSUME NEW c, Child(n, c), k \in Subtree(c)
          PROVE  children[k][i] \in set
        <3>1. c \in DOMAIN node
            BY <2>3, ChildFacts
        <3>2. children[k][i] \in Subtree(c)
            BY <2>1, <2>3, <3>1, SubtreeFacts
        <3> QED
            BY <2>1, <2>3, <3>2
    <2> QED
        BY <2>2, <2>3
<1>3. m \in set /\ m # n
    BY <1>1, <1>2, SubtreeFacts DEF Below
<1> QED
    BY <1>3

(* What is above a child is its parent and what is above that.             *)
LEMMA ChildAncestors ==
    ASSUME InTree, NEW p \in DOMAIN node, NEW c, Child(p, c)
    PROVE  /\ Ancestors(c) = Ancestors(p) \cup { p }
           /\ p \in Subtree(Root) => c \in Subtree(Root)
<1>1. c \in DOMAIN node /\ c > p /\ c \in Nat /\ p \in Nat
    BY ChildFacts
<1>2. ASSUME NEW a \in DOMAIN node, p \in Subtree(a)
      PROVE  c \in Below(a)
    <2>1. c \in Subtree(a) /\ p >= a /\ a \in Nat
        BY <1>2, SubtreeFacts, ChildFacts
    <2> QED
        BY <1>1, <2>1 DEF Below
<1>3. ASSUME NEW a \in DOMAIN node, c \in Below(a), p \notin Subtree(a)
      PROVE  FALSE
    <2> DEFINE set == Subtree(a) \ { c }
    <2>1. a \in set /\ set \in SUBSET DOMAIN node
        BY <1>3, SubtreeFacts DEF Below
    <2>2. ChildrenIn(set)
        <3> SUFFICES ASSUME NEW k \in set, NEW i \in DOMAIN children[k]
                     PROVE  children[k][i] \in set
            BY DEF ChildrenIn
        <3>1. Child(k, children[k][i]) /\ children[k][i] \in Subtree(a)
            BY <2>1, SubtreeFacts DEF Child
        <3>2. children[k][i] = c => k = p
            BY <2>1, <3>1, ChildFacts
        <3> QED
            BY <1>3, <3>1, <3>2
    <2> QED
        BY <1>3, <2>1, <2>2, SubtreeFacts DEF Below
<1>4. Ancestors(c) = Ancestors(p) \cup { p }
    BY <1>2, <1>3, SubtreeFacts DEF Ancestors, Below
<1>5. p \in Subtree(Root) => c \in Subtree(Root)
    BY SubtreeFacts, ChildFacts
<1> QED
    BY <1>4, <1>5

LEMMA RootAlone ==
    ASSUME InTree
    PROVE  Ancestors(Root) = {} /\ Root \in Subtree(Root)
<1>1. \A a \in DOMAIN node : a # Root => Root \notin Subtree(a)
    BY SubtreeFacts, ChildFacts DEF Root
<1> QED
    BY <1>1, SubtreeFacts, ChildFacts DEF Ancestors, Below

-----------------------------------------------------------------------------
(***************************************************************************)
(* The walk: what is on the stack and what is still to be visited.         *)
(***************************************************************************)
OnStack == { stack[k].node : k \in 1 .. Len(stack) }
Pending(k) ==
    { children[stack[k].node][i] : i \in { j \in DOMAIN children[stack[k].node] :
                                            j >= stack[k].next } }
Todo == { n \in { calling } : n # NULL } \cup UNION { Pending(k) : k \in 1 .. Len(stack) }

Open(n) == n \in Subtree(Root) /\ n \notin Barren

(* The stack holds the path from the root to where the walk is, and what is *)
(* pending on a call comes before what is pending on the calls around it.   *)
WalkInv ==
    /\ InTree
    /\ \A k \in 1 .. Len(stack) :
          /\ Open(stack[k].node)
          /\ Ancestors(stack[k].node) = { stack[j].node : j \in 1 .. k - 1 }
    /\ calling # NULL => calling \in Subtree(Root) /\ Ancestors(calling) = OnStack
    /\ \A k, l \in 1 .. Len(stack) :
          /\ k < l => \A c \in Pending(l), d \in Pending(k) : c < d
          /\ \A d \in Pending(k) : stack[l].node < d
    /\ calling # NULL => \A k \in 1 .. Len(stack) : \A d \in Pending(k) : calling < d

LEMMA PendingFacts ==
    ASSUME InTree
    PROVE  /\ Len(stack) \in Nat
           /\ \A k \in 1 .. Len(stack) :
                 /\ stack[k] \in [ node : DOMAIN node, next : Nat \ {0} ]
                 /\ stack[k].node \in DOMAIN node /\ stack[k].next \in Nat \ {0}
                 /\ \A d \in Pending(k) : Child(stack[k].node, d) /\ d \in DOMAIN node
           /\ Todo \subseteq DOMAIN node /\ OnStack \subseteq DOMAIN node
           /\ calling # NULL => calling \in DOMAIN node
<1> DEFINE F == [ node : DOMAIN node, next : Nat \ {0} ]
<1>1. stack \in Seq(F) /\ Len(stack) \in Nat
    <2>1. stack \in Seq(F)
        BY DEF InTree
    <2> HIDE DEF F
    <2> QED
        BY <2>1, LenProperties
<1>2. \A k \in 1 .. Len(stack) : stack[k] \in F
    <2> HIDE DEF F
    <2> QED
        BY <1>1, ElementOfSeq
<1>3. \A k \in 1 .. Len(stack) : \A d \in Pending(k) :
          Child(stack[k].node, d) /\ d \in DOMAIN node
    BY <1>2, ChildFacts DEF Pending, Child
<1>4. calling # NULL => calling \in DOMAIN node
    BY DEF InTree
<1> QED
    BY <1>1, <1>2, <1>3, <1>4 DEF Todo, OnStack

(* A call is made: the node called is the first of what was pending.       *)
LEMMA CallStep ==
    ASSUME WalkInv, InTree', CallChild
    PROVE  /\ WalkInv' /\ UNCHANGED << tree, output >>
           /\ Todo' = Todo /\ OnStack' = OnStack
<1>1. PICK n, f, c :
      /\ n = Len(stack) /\ f = stack[n] /\ c = children[f.node][f.next]
      /\ calling = NULL /\ stack # << >> /\ UNCHANGED << tree, output >>
      /\ ~ (f.next > Len(children[f.node]))
      /\ calling' = c
      /\ stack' = [ stack EXCEPT ![n].next = @ + 1 ]
    BY DEF CallChild, Waiting, LastChild, Frame, Last
<1>2. /\ n \in Nat /\ n \in 1 .. n /\ InTree
      /\ f \in [ node : DOMAIN node, next : Nat \ {0} ]
      /\ f.node \in DOMAIN node /\ f.next \in Nat \ {0}
      /\ children[f.node] \in Seq(DOMAIN node)
      /\ Len(children[f.node]) \in Nat
      /\ DOMAIN children[f.node] = 1 .. Len(children[f.node])
    <2>1. InTree /\ n \in Nat \ {0} /\ n = Len(stack)
        BY <1>1, StackKept DEF WalkInv
    <2>2. n \in 1 .. n
        BY <2>1
    <2>3. /\ f \in [ node : DOMAIN node, next : Nat \ {0} ]
          /\ f.node \in DOMAIN node /\ f.next \in Nat \ {0}
        BY <1>1, <2>1, <2>2, PendingFacts
    <2> QED
        BY <2>1, <2>2, <2>3, TreeFacts, LenProperties
<1>3. /\ Len(stack') = n
      /\ \A k \in 1 .. n : k # n => stack'[k] = stack[k]
      /\ stack'[n].node = f.node /\ stack'[n].next = f.next + 1
    <2>1. DOMAIN stack = 1 .. n /\ stack \in Seq([ node : DOMAIN node, next : Nat \ {0} ])
        BY <1>1, <1>2, LenProperties DEF InTree
    <2>2. stack' \in Seq([ node : DOMAIN node, next : Nat \ {0} ])
        BY <1>1, <1>2, StackKept
    <2>3. DOMAIN stack' = 1 .. n /\ stack' = [ stack EXCEPT ![n] = [ f EXCEPT !.next = @ + 1 ] ]
        BY <1>1, <2>1
    <2>4. Len(stack') = n
        BY <2>2, <2>3, <1>2, LenProperties
    <2> QED
        BY <1>2, <2>1, <2>3, <2>4
<1>4. f.next \in DOMAIN children[f.node] /\ Child(f.node, c) /\ c \in DOMAIN node /\ c # NULL
      /\ c \in Pending(n)
    <2>1. f.next \in DOMAIN children[f.node] /\ Child(f.node, c)
        BY <1>1, <1>2 DEF Child
    <2>2. c \in DOMAIN node /\ c # NULL
        BY <1>2, <2>1, ChildFacts DEF NULL
    <2> QED
        BY <1>1, <1>2, <2>1, <2>2 DEF Pending
<1>5. \A k \in 1 .. n : stack'[k].node = stack[k].node
    BY <1>1, <1>2, <1>3
<1>6. OnStack' = OnStack
    BY <1>1, <1>3, <1>5 DEF OnStack
<1>7. /\ \A k \in 1 .. n : k # n => Pending(k)' = Pending(k)
      /\ Pending(n) = { c } \cup Pending(n)'
      /\ \A d \in Pending(n)' : c < d
    <2>1. UNCHANGED children
        BY <1>1 DEF children
    <2>2. \A k \in 1 .. n : k # n => Pending(k)' = Pending(k)
        BY <1>3, <2>1 DEF Pending
    <2>3. Pending(n)' = { children[f.node][i] : i \in { j \in DOMAIN children[f.node] :
                                            j >= f.next + 1 } }
        BY <1>3, <2>1 DEF Pending
    <2>4. \A j \in DOMAIN children[f.node] : j >= f.next <=> j = f.next \/ j >= f.next + 1
        <3>1. DOMAIN children[f.node] \subseteq Nat
            BY <1>2
        <3> QED
            BY <1>2, <3>1
    <2>5. \A j \in DOMAIN children[f.node] : j >= f.next + 1 => c < children[f.node][j]
        <3>1. \A i, j \in DOMAIN children[f.node] :
                  i < j => children[f.node][i] < children[f.node][j]
            BY <1>2, ChildFacts
        <3>2. DOMAIN children[f.node] \subseteq Nat /\ f.next \in DOMAIN children[f.node]
            BY <1>2, <1>4
        <3>3. \A j \in DOMAIN children[f.node] : j >= f.next + 1 => f.next < j
            BY <1>2, <3>2
        <3> QED
            BY <1>1, <3>1, <3>2, <3>3
    <2>6. Pending(n) = { c } \cup Pending(n)'
        <3>1. Pending(n) = { children[f.node][i] : i \in { j \in DOMAIN children[f.node] :
                                                         j >= f.next } }
            BY <1>1 DEF Pending
        <3>2. { j \in DOMAIN children[f.node] : j >= f.next }
                = { f.next } \cup { j \in DOMAIN children[f.node] : j >= f.next + 1 }
            <4>1. f.next >= f.next
                BY <1>2
            <4> QED
                BY <1>4, <2>4, <4>1
        <3> QED
            BY <1>1, <2>3, <3>1, <3>2
    <2> QED
        BY <2>2, <2>3, <2>5, <2>6
<1>8. Todo' = Todo
    <2>0. Len(stack) = n /\ Len(stack') = n
        BY <1>1, <1>3
    <2>1. \A d : d \in Todo <=> \E k \in 1 .. n : d \in Pending(k)
        BY <1>1, <2>0 DEF Todo
    <2>2. \A d : d \in Todo' <=> d = c \/ \E k \in 1 .. n : d \in Pending(k)'
        BY <1>1, <2>0, <1>4 DEF Todo, NULL
    <2>3. \A k \in 1 .. n : \A d : d \in Pending(k) => d \in Todo'
        BY <1>7, <2>2
    <2>4. \A k \in 1 .. n : \A d : d \in Pending(k)' => d \in Todo
        BY <1>7, <2>1
    <2> QED
        BY <1>2, <1>4, <2>1, <2>2, <2>3, <2>4
<1>9. /\ c \in Subtree(Root)
      /\ Ancestors(c) = OnStack
    <2>1. Ancestors(c) = Ancestors(f.node) \cup { f.node } /\ c \in Subtree(Root)
        <3>1. Open(f.node)
            BY <1>1, <1>2 DEF WalkInv
        <3> QED
            BY <1>2, <1>4, <3>1, ChildAncestors DEF Open
    <2>2. Ancestors(f.node) = { stack[j].node : j \in 1 .. n - 1 }
        BY <1>1, <1>2 DEF WalkInv
    <2>3. 1 .. n = (1 .. n - 1) \cup { n }
        BY <1>2
    <2> QED
        BY <1>1, <2>1, <2>2, <2>3 DEF OnStack
<1>10. \A m : /\ Open(m)' = Open(m) /\ Ancestors(m)' = Ancestors(m)
              /\ Subtree(m)' = Subtree(m)
    BY <1>1 DEF Open, Ancestors, Below, Subtree, ChildrenIn, Barren, IsArtificial, IsElement,
        IsVoid, node, children
<1>11. \A k \in 1 .. n : \A d \in Pending(k)' : c < d
    <2> SUFFICES ASSUME NEW k \in 1 .. n, NEW d \in Pending(k)'
                 PROVE  c < d
        OBVIOUS
    <2>1. CASE k = n
        BY <1>7, <2>1
    <2>2. CASE k # n
        <3>1. k < n /\ d \in Pending(k)
            BY <1>2, <1>7, <2>2
        <3> QED
            BY <1>1, <1>2, <1>4, <3>1 DEF WalkInv
    <2> QED
        BY <2>1, <2>2
<1>12. \A k, l \in 1 .. n : k < l => \A b \in Pending(l)', d \in Pending(k)' : b < d
    <2>1. \A k \in 1 .. n : Pending(k)' \subseteq Pending(k)
        BY <1>7
    <2> QED
        BY <1>1, <2>1 DEF WalkInv
<1>14. \A k, l \in 1 .. n : \A d \in Pending(k)' : stack'[l].node < d
    <2>1. \A k \in 1 .. n : Pending(k)' \subseteq Pending(k)
        BY <1>7
    <2> QED
        BY <1>1, <1>5, <2>1 DEF WalkInv
<1>13. WalkInv'
    <2>1. \A k \in 1 .. n :
              /\ Open(stack'[k].node)
              /\ Ancestors(stack'[k].node) = { stack'[j].node : j \in 1 .. k - 1 }
        <3> SUFFICES ASSUME NEW k \in 1 .. n
                     PROVE  /\ Open(stack'[k].node)
                            /\ Ancestors(stack'[k].node) = { stack'[j].node : j \in 1 .. k - 1 }
            OBVIOUS
        <3>1. \A j \in 1 .. k - 1 : j \in 1 .. n
            BY <1>2
        <3>2. { stack'[j].node : j \in 1 .. k - 1 } = { stack[j].node : j \in 1 .. k - 1 }
            BY <1>5, <3>1
        <3> QED
            BY <1>1, <1>5, <3>2 DEF WalkInv
    <2>2. /\ calling' # NULL => calling' \in Subtree(Root)' /\ Ancestors(calling') = OnStack'
          /\ \A k \in 1 .. n : \A d \in Pending(k)' : calling' < d
        BY <1>1, <1>6, <1>9, <1>10, <1>11
    <2> QED
        BY <1>3, <1>10, <1>12, <1>14, <2>1, <2>2 DEF WalkInv, NULL
<1> QED
    BY <1>1, <1>6, <1>8, <1>13

(* A call returns to the one around it, with nothing pending on it.        *)
LEMMA DropStep ==
    ASSUME WalkInv, InTree', UNCHANGED tree, Waiting, LastChild,
           stack' = Front(stack), UNCHANGED calling
    PROVE  /\ WalkInv' /\ Todo' = Todo
           /\ Frame.node \in OnStack /\ OnStack' = Ancestors(Frame.node)
           /\ OnStack = OnStack' \cup { Frame.node } /\ Frame.node \in DOMAIN node
           /\ Open(Frame.node) /\ \A d \in Todo : Frame.node < d
           /\ OnStack \cap Barren = {}
<1>1. PICK n, f :
      /\ n = Len(stack) /\ f = stack[n] /\ f = Frame
      /\ calling = NULL /\ calling' = NULL /\ stack # << >>
      /\ f.next > Len(children[f.node])
      /\ stack' = Front(stack) /\ UNCHANGED << node, children >>
    BY DEF Waiting, LastChild, Frame, Last, node, children
<1>2. /\ n \in Nat \ {0} /\ n \in 1 .. n /\ InTree
      /\ f.node \in DOMAIN node /\ f.next \in Nat \ {0}
      /\ DOMAIN children[f.node] = 1 .. Len(children[f.node])
      /\ Len(children[f.node]) \in Nat
    <2>1. InTree /\ n \in Nat \ {0} /\ n = Len(stack)
        BY <1>1, StackKept DEF WalkInv
    <2>2. n \in 1 .. n
        BY <2>1
    <2>3. f.node \in DOMAIN node /\ f.next \in Nat \ {0}
        BY <1>1, <2>1, <2>2, PendingFacts
    <2> QED
        BY <2>1, <2>2, <2>3, TreeFacts, LenProperties
<1>3. Len(stack') = n - 1 /\ \A k \in 1 .. n - 1 : stack'[k] = stack[k]
    <2>1. stack \in Seq([ node : DOMAIN node, next : Nat \ {0} ])
        BY <1>2 DEF InTree
    <2>2. n - 1 \in 0 .. n /\ 1 \in 1 .. n + 1 /\ stack' = SubSeq(stack, 1, n - 1)
        BY <1>1, <1>2 DEF Front
    <2> HIDE DEF InTree
    <2> QED
        BY <1>1, <1>2, <2>1, <2>2, SubSeqProperties
<1>4. Pending(n) = {}
    <2>1. \A j \in DOMAIN children[f.node] : ~ (j >= f.next)
        BY <1>1, <1>2
    <2> QED
        BY <1>1, <2>1 DEF Pending
<1>5. \A k \in 1 .. n - 1 : k \in 1 .. n /\ Pending(k)' = Pending(k)
    BY <1>1, <1>2, <1>3 DEF Pending
<1>6. Todo' = Todo
    <2>0. Len(stack) = n /\ Len(stack') = n - 1
        BY <1>1, <1>3
    <2>1. \A d : d \in Todo <=> \E k \in 1 .. n : d \in Pending(k)
        BY <1>1, <2>0 DEF Todo
    <2>2. \A d : d \in Todo' <=> \E k \in 1 .. n - 1 : d \in Pending(k)'
        BY <1>1, <2>0 DEF Todo, NULL
    <2>3. \A k \in 1 .. n : k = n \/ k \in 1 .. n - 1
        BY <1>2
    <2>4. ASSUME NEW k \in 1 .. n, NEW d \in Pending(k)
          PROVE  \E l \in 1 .. n - 1 : d \in Pending(l)'
        BY <1>4, <1>5, <2>3
    <2>5. ASSUME NEW k \in 1 .. n - 1, NEW d \in Pending(k)'
          PROVE  \E l \in 1 .. n : d \in Pending(l)
        BY <1>5
    <2>6. \A d : d \in Todo' <=> d \in Todo
        BY <2>1, <2>2, <2>4, <2>5
    <2> QED
        BY <2>6
<1>7. Frame.node \in OnStack /\ OnStack' = Ancestors(f.node)
      /\ OnStack = OnStack' \cup { f.node }
    <2>1. OnStack' = { stack[j].node : j \in 1 .. n - 1 }
        BY <1>3 DEF OnStack
    <2>2. OnStack = { stack[j].node : j \in 1 .. n - 1 } \cup { f.node }
        <3>1. 1 .. n = (1 .. n - 1) \cup { n }
            BY <1>2
        <3> QED
            BY <1>1, <3>1 DEF OnStack
    <2>3. Ancestors(f.node) = { stack[j].node : j \in 1 .. n - 1 }
        BY <1>1, <1>2 DEF WalkInv
    <2> QED
        BY <1>1, <2>1, <2>2, <2>3
<1>8. \A m : /\ Open(m)' = Open(m) /\ Ancestors(m)' = Ancestors(m)
    BY <1>1 DEF Open, Ancestors, Below, Subtree, ChildrenIn, Barren, IsArtificial, IsElement,
        IsVoid, Root
<1>9. WalkInv'
    <2>1. \A k \in 1 .. n - 1 :
              /\ Open(stack'[k].node)
              /\ Ancestors(stack'[k].node) = { stack'[j].node : j \in 1 .. k - 1 }
        <3> SUFFICES ASSUME NEW k \in 1 .. n - 1
                     PROVE  /\ Open(stack'[k].node)
                            /\ Ancestors(stack'[k].node) = { stack'[j].node : j \in 1 .. k - 1 }
            OBVIOUS
        <3>1. k \in 1 .. n /\ \A j \in 1 .. k - 1 : j \in 1 .. n - 1
            BY <1>2
        <3>2. { stack'[j].node : j \in 1 .. k - 1 } = { stack[j].node : j \in 1 .. k - 1 }
            BY <1>3, <3>1
        <3> QED
            BY <1>1, <1>3, <3>1, <3>2 DEF WalkInv
    <2>2. \A k, l \in 1 .. n - 1 :
              k < l => \A c \in Pending(l)', d \in Pending(k)' : c < d
        BY <1>1, <1>5 DEF WalkInv
    <2>3. \A k, l \in 1 .. n - 1 : \A d \in Pending(k)' : stack'[l].node < d
        BY <1>1, <1>3, <1>5 DEF WalkInv
    <2> QED
        BY <1>1, <1>3, <1>8, <2>1, <2>2, <2>3 DEF WalkInv, NULL
<1>10. Open(f.node) /\ OnStack \cap Barren = {} /\ \A d \in Todo : f.node < d
    <2>1. Open(f.node) /\ \A k \in 1 .. n : \A d \in Pending(k) : f.node < d
        BY <1>1, <1>2 DEF WalkInv
    <2>2. \A d \in Todo : \E k \in 1 .. n : d \in Pending(k)
        BY <1>1 DEF Todo
    <2>3. OnStack \cap Barren = {}
        BY DEF WalkInv, Open, OnStack
    <2> QED
        BY <2>1, <2>2, <2>3
<1> QED
    BY <1>1, <1>2, <1>6, <1>7, <1>9, <1>10

(* A node is visited: it was the first of all that were to be visited, and *)
(* its children, if it is kept open, are now the first.                    *)
LEMMA VisitStep ==
    ASSUME WalkInv, InTree', calling # NULL, NEW x, x = calling,
           \/ Return /\ x \in Barren
           \/ WaitFor(x) /\ x \notin Barren
    PROVE  /\ WalkInv' /\ UNCHANGED tree
           /\ x \in DOMAIN node /\ x \in Subtree(Root) /\ Ancestors(x) = OnStack
           /\ OnStack' = OnStack \cup ({ x } \ Barren)
           /\ OnStack \cap Barren = {}
           /\ x \in Todo /\ \A d \in Todo' : x < d /\ (d \in Todo \/ Child(x, d))
           /\ \A n \in Shown, d \in Todo : n \in Subtree(d) =>
                 n = x \/ \E e \in Todo' : n \in Subtree(e)
<1>1. /\ UNCHANGED << tree, node, children >> /\ calling' = NULL /\ InTree
      /\ calling = x /\ x # NULL
      /\ \/ stack' = stack /\ x \in Barren
         \/ stack' = Append(stack, [ node |-> x, next |-> 1 ]) /\ x \notin Barren
    BY DEF Return, WaitFor, WalkInv, node, children
<1>2. PICK n : n = Len(stack) /\ n \in Nat
    BY <1>1, PendingFacts
<1>3. /\ x \in DOMAIN node /\ x \in Nat /\ x \in Subtree(Root) /\ Ancestors(x) = OnStack
      /\ children[x] \in Seq(DOMAIN node)
      /\ DOMAIN children[x] = 1 .. Len(children[x])
    <2>1. x \in DOMAIN node
        BY <1>1, PendingFacts
    <2> QED
        BY <1>1, <2>1, ChildFacts, TreeFacts, LenProperties DEF WalkInv
<1>4. /\ \A k \in 1 .. n : /\ Pending(k) \subseteq DOMAIN node
                            /\ \A d \in Pending(k) : x < d /\ Child(stack[k].node, d)
      /\ \A k \in 1 .. n : stack[k].node \in DOMAIN node /\ stack[k].node < x
      /\ OnStack \cap Barren = {}
    <2>1. \A k \in 1 .. n : stack[k].node \in OnStack /\ stack[k].node \in DOMAIN node
        BY <1>1, <1>2, PendingFacts DEF OnStack
    <2>2. \A a \in OnStack : a \in DOMAIN node /\ a < x
        <3> SUFFICES ASSUME NEW a \in OnStack
                     PROVE  a \in DOMAIN node /\ a < x
            OBVIOUS
        <3>1. a \in DOMAIN node /\ x \in Subtree(a) /\ x # a
            BY <1>3 DEF Ancestors, Below
        <3>2. x >= a /\ a \in Nat
            BY <1>1, <3>1, SubtreeFacts, ChildFacts
        <3> QED
            BY <1>3, <3>1, <3>2
    <2>3. OnStack \cap Barren = {}
        BY <1>2 DEF WalkInv, Open, OnStack
    <2>4. \A k \in 1 .. n : \A d \in Pending(k) : x < d
        BY <1>1, <1>2 DEF WalkInv
    <2> QED
        BY <1>1, <1>2, <2>1, <2>2, <2>3, <2>4, PendingFacts
<1>5. \A d : d \in Todo <=> d = x \/ \E k \in 1 .. n : d \in Pending(k)
    BY <1>1, <1>2 DEF Todo
<1>6. \A m : /\ Open(m)' = Open(m) /\ Ancestors(m)' = Ancestors(m)
    BY <1>1 DEF Open, Ancestors, Below, Subtree, ChildrenIn, Barren, IsArtificial, IsElement,
        IsVoid, Root
<1>7. \A m \in Shown, a \in Barren : m \notin Below(a)
    BY DEF Shown
<1>8. CASE stack' = stack /\ x \in Barren
    <2>1. \A k : Pending(k)' = Pending(k)
        BY <1>1, <1>8 DEF Pending
    <2>2. \A d : d \in Todo' <=> \E k \in 1 .. n : d \in Pending(k)
        BY <1>1, <1>2, <1>8, <2>1 DEF Todo
    <2>3. OnStack' = OnStack
        BY <1>8 DEF OnStack
    <2>4. WalkInv'
        BY <1>1, <1>6, <1>8, <2>1 DEF WalkInv, NULL
    <2>5. ASSUME NEW m \in Shown, NEW d \in Todo, m \in Subtree(d), m # x
          PROVE  \E e \in Todo' : m \in Subtree(e)
        <3>1. d # x
            BY <1>7, <1>8, <2>5 DEF Below
        <3> QED
            BY <1>5, <2>2, <2>5, <3>1
    <2>6. x \in Todo /\ \A d \in Todo' : x < d /\ d \in Todo
        BY <1>4, <1>5, <2>2
    <2> QED
        BY <1>1, <1>3, <1>4, <1>8, <2>3, <2>4, <2>5, <2>6
<1>9. CASE stack' = Append(stack, [ node |-> x, next |-> 1 ]) /\ x \notin Barren
    <2>1. /\ Len(stack') = n + 1 /\ \A k \in 1 .. n : stack'[k] = stack[k]
          /\ stack'[n + 1].node = x /\ stack'[n + 1].next = 1
        <3>1. stack \in Seq([ node : DOMAIN node, next : Nat \ {0} ])
            BY <1>1 DEF InTree
        <3>2. [ node |-> x, next |-> 1 ] \in [ node : DOMAIN node, next : Nat \ {0} ]
            BY <1>3
        <3> QED
            BY <1>2, <1>9, <3>1, <3>2, AppendProperties
    <2>2. /\ \A k \in 1 .. n : Pending(k)' = Pending(k)
          /\ \A d : d \in Pending(n + 1)' <=> Child(x, d)
        <3>1. \A k \in 1 .. n : Pending(k)' = Pending(k)
            BY <1>1, <2>1 DEF Pending
        <3>2. \A j \in DOMAIN children[x] : j >= 1
            BY <1>3
        <3>3. Pending(n + 1)' = { children[x][i] : i \in { j \in DOMAIN children[x] : j >= 1 } }
            BY <1>1, <2>1 DEF Pending
        <3> QED
            BY <3>1, <3>2, <3>3 DEF Child
    <2>3. \A k : k \in 1 .. n + 1 <=> k \in 1 .. n \/ k = n + 1
        BY <1>2
    <2>4. \A d : d \in Todo' <=> Child(x, d) \/ \E k \in 1 .. n : d \in Pending(k)
        <3>1. \A d : d \in Todo' <=> \E k \in 1 .. n + 1 : d \in Pending(k)'
            BY <1>1, <2>1 DEF Todo
        <3> QED
            BY <2>2, <2>3, <3>1
    <2>5. OnStack' = OnStack \cup { x }
        <3>1. \A a : a \in OnStack' <=> \E k \in 1 .. n + 1 : a = stack'[k].node
            BY <2>1 DEF OnStack
        <3>2. \A a : a \in OnStack <=> \E k \in 1 .. n : a = stack[k].node
            BY <1>2 DEF OnStack
        <3>3. \A a : a \in OnStack' <=> a \in OnStack \/ a = x
            BY <2>1, <2>3, <3>1, <3>2
        <3> QED
            BY <3>3
    <2>6. \A d : Child(x, d) => x < d /\ d \in Nat
        BY <1>1, <1>3, ChildFacts
    <2>7. ASSUME NEW k \in 1 .. n, NEW d \in Pending(k), NEW c, Child(x, c)
          PROVE  c < d
        <3>1. /\ stack[k].node < x /\ x < d /\ Child(stack[k].node, d)
              /\ stack[k].node \in DOMAIN node
              /\ stack[k].node \in Nat /\ d \in Nat /\ x < c /\ c \in Nat
            <4>1. DOMAIN node \subseteq Nat
                BY <1>1, ChildFacts
            <4>2. /\ stack[k].node < x /\ x < d /\ Child(stack[k].node, d)
                  /\ stack[k].node \in DOMAIN node /\ d \in DOMAIN node
                BY <1>4, <2>7
            <4>3. stack[k].node \in Nat /\ d \in Nat
                BY <4>1, <4>2
            <4>4. x < c /\ c \in Nat
                BY <2>6, <2>7
            <4> QED
                BY <4>2, <4>3, <4>4
        <3>4. \A p, q \in DOMAIN node : \A b, e : Child(p, b) /\ Child(q, e) =>
                  (b = e => p = q) /\ (p < e /\ e < b => p <= q)
            BY <1>1, ChildFacts
        <3>2. c = d => x = stack[k].node
            BY <1>3, <2>7, <3>1, <3>4
        <3>3. x < d /\ d < c => x <= stack[k].node
            BY <1>3, <2>7, <3>1, <3>4
        <3> QED
            BY <1>3, <3>1, <3>2, <3>3
    <2>8. WalkInv'
        <3>1. \A k \in 1 .. n + 1 :
                 /\ Open(stack'[k].node)
                 /\ Ancestors(stack'[k].node) = { stack'[j].node : j \in 1 .. k - 1 }
            <4> SUFFICES ASSUME NEW k \in 1 .. n + 1
                         PROVE  /\ Open(stack'[k].node)
                                /\ Ancestors(stack'[k].node)
                                      = { stack'[j].node : j \in 1 .. k - 1 }
                OBVIOUS
            <4>1. \A j \in 1 .. k - 1 : j \in 1 .. n
                BY <1>2
            <4>2. { stack'[j].node : j \in 1 .. k - 1 } = { stack[j].node : j \in 1 .. k - 1 }
                BY <2>1, <4>1
            <4>3. CASE k \in 1 .. n
                BY <1>2, <2>1, <4>2, <4>3 DEF WalkInv
            <4>4. CASE k = n + 1
                <5>1. k - 1 = n
                    BY <1>2, <4>4
                <5> QED
                    BY <1>2, <1>3, <1>9, <2>1, <4>2, <4>4, <5>1 DEF Open, OnStack
            <4> QED
                BY <2>3, <4>3, <4>4
        <3>2. \A k, l \in 1 .. n + 1 :
                  k < l => \A c \in Pending(l)', d \in Pending(k)' : c < d
            <4> SUFFICES ASSUME NEW k \in 1 .. n + 1, NEW l \in 1 .. n + 1, k < l,
                                NEW c \in Pending(l)', NEW d \in Pending(k)'
                         PROVE  c < d
                OBVIOUS
            <4>1. k \in 1 .. n /\ d \in Pending(k)
                BY <1>2, <2>2
            <4>2. CASE l \in 1 .. n
                BY <1>2, <2>2, <4>1, <4>2 DEF WalkInv
            <4>3. CASE l = n + 1
                BY <2>2, <2>7, <4>1, <4>3
            <4> QED
                BY <2>3, <4>2, <4>3
        <3>3. \A k, l \in 1 .. n + 1 : \A d \in Pending(k)' : stack'[l].node < d
            <4> SUFFICES ASSUME NEW k \in 1 .. n + 1, NEW l \in 1 .. n + 1,
                                NEW d \in Pending(k)'
                         PROVE  stack'[l].node < d
                OBVIOUS
            <4>1. x < d /\ d \in Nat
                <5>1. DOMAIN node \subseteq Nat
                    BY <1>1, ChildFacts
                <5>2. CASE k \in 1 .. n
                    BY <1>4, <2>2, <5>1, <5>2
                <5>3. CASE k = n + 1
                    BY <2>2, <2>6, <5>3
                <5> QED
                    BY <2>3, <5>2, <5>3
            <4>2. CASE l \in 1 .. n
                <5>1. stack[l].node < x /\ stack[l].node \in Nat
                    BY <1>1, <1>4, <4>2, ChildFacts
                <5> QED
                    BY <1>3, <2>1, <4>1, <4>2, <5>1
            <4>3. CASE l = n + 1
                BY <2>1, <4>1, <4>3
            <4> QED
                BY <2>3, <4>2, <4>3
        <3> QED
            BY <1>1, <1>6, <2>1, <3>1, <3>2, <3>3 DEF WalkInv, NULL
    <2>9. ASSUME NEW m \in Shown, NEW d \in Todo, m \in Subtree(d), m # x
          PROVE  \E e \in Todo' : m \in Subtree(e)
        <3>1. CASE d = x
            <4>1. m \in Below(x)
                BY <2>9, <3>1 DEF Below
            <4> QED
                BY <1>1, <1>3, <2>4, <4>1, BelowChildren
        <3>2. CASE d # x
            BY <1>5, <2>4, <2>9, <3>2
        <3> QED
            BY <3>1, <3>2
    <2>10. x \in Todo /\ \A d \in Todo' : x < d /\ (d \in Todo \/ Child(x, d))
        BY <1>4, <1>5, <2>4, <2>6
    <2> QED
        BY <1>1, <1>3, <1>4, <1>9, <2>5, <2>8, <2>9, <2>10
<1> QED
    BY <1>1, <1>8, <1>9

-----------------------------------------------------------------------------
(***************************************************************************)
(* What is written.                                                        *)
(***************************************************************************)
Solid(w) == { i \in DOMAIN w : w[i].what \notin Layout }
Closes(w) == { i \in DOMAIN w : w[i].what = "close" }

(* What was written when todo is still to be visited and the calls of open  *)
(* wait: the first of the nodes that are shown, in order, each behind the   *)
(* calls that wait for it; a call that waits has not written its end tag,   *)
(* and one that does not has.                                               *)
Ordered(w) == \A i, j \in Starts(w) : i < j => w[i].of < w[j].of
Ahead(w, todo) ==
    \A i \in Solid(w) : w[i].of \in Shown /\ \A d \in todo : w[i].of < d
Covered(w, todo) ==
    \A n \in Shown : \/ \E i \in Starts(w) : w[i].of = n
                     \/ \E d \in todo : n \in Subtree(d)
Within(w, open) ==
    \A i \in Solid(w) : \A s \in open : w[i].of > s => w[i].of \in Below(s)
StillOpen(w, open) == \A c \in Closes(w) : w[c].of \notin open
Nested(w) ==
    \A c \in Closes(w) :
        /\ \A i \in Solid(w) :
              /\ w[i].of \in Below(w[c].of) => i < c
              /\ w[i].of > w[c].of /\ w[i].of \notin Below(w[c].of) => c < i
        /\ \A d \in Closes(w) : w[c].of = w[d].of => c = d
ClosedOrOpen(w, open) ==
    \A i \in Starts(w) : IsElement(w[i].of) =>
        w[i].of \in open \/ \E c \in Closes(w) : w[c].of = w[i].of

Record(w, todo, open) ==
    /\ Ordered(w) /\ Ahead(w, todo) /\ Covered(w, todo) /\ Within(w, open)
    /\ StillOpen(w, open) /\ Nested(w) /\ ClosedOrOpen(w, open)

LEMMA KindsOfItems ==
    ASSUME NEW w \in Seq(Items)
    PROVE  /\ DOMAIN w = 1 .. Len(w) /\ Len(w) \in Nat
           /\ \A i \in DOMAIN w : w[i].of \in Nat
           /\ Starts(w) \subseteq Solid(w) /\ Closes(w) \subseteq Solid(w)
           /\ Starts(w) \cap Closes(w) = {}
           /\ Solid(w) \subseteq DOMAIN w
<1>1. DOMAIN w = 1 .. Len(w) /\ Len(w) \in Nat
    BY LenProperties
<1>2. \A i \in DOMAIN w : w[i] \in Items
    BY ElementOfSeq
<1> QED
    BY <1>1, <1>2 DEF Items, Starts, IsStart, Solid, Closes, Layout

(* v is written behind w: its items come later, and are as they are in v.  *)
LEMMA Behind ==
    ASSUME NEW w \in Seq(Items), NEW v \in Seq(Items)
    PROVE  LET u == w \o v
               n == Len(w)
           IN  /\ u \in Seq(Items) /\ n \in Nat
               /\ \A i \in DOMAIN w : i \in DOMAIN u /\ u[i] = w[i] /\ i <= n
               /\ \A j \in DOMAIN v : n + j \in DOMAIN u /\ u[n + j] = v[j] /\ n + j > n
               /\ \A i \in DOMAIN u : i \in DOMAIN w \/ \E j \in DOMAIN v : i = n + j
<1>1. /\ Len(w) \in Nat /\ Len(v) \in Nat /\ w \o v \in Seq(Items)
      /\ Len(w \o v) = Len(w) + Len(v)
      /\ \A i \in 1 .. Len(w) + Len(v) :
            (w \o v)[i] = IF i <= Len(w) THEN w[i] ELSE v[i - Len(w)]
      /\ DOMAIN w = 1 .. Len(w) /\ DOMAIN v = 1 .. Len(v)
      /\ DOMAIN (w \o v) = 1 .. Len(w) + Len(v)
    BY ConcatProperties, LenProperties
<1>2. \A i \in 1 .. Len(w) : i \in 1 .. Len(w) + Len(v) /\ i <= Len(w)
    BY <1>1
<1>3. \A j \in 1 .. Len(v) : /\ Len(w) + j \in 1 .. Len(w) + Len(v)
                              /\ ~ (Len(w) + j <= Len(w)) /\ (Len(w) + j) - Len(w) = j
    BY <1>1
<1>4. \A i \in 1 .. Len(w) + Len(v) :
          i \in 1 .. Len(w) \/ (i - Len(w) \in 1 .. Len(v) /\ i = Len(w) + (i - Len(w)))
    BY <1>1
<1> DEFINE u == w \o v
<1>5. \A i \in DOMAIN w : i \in DOMAIN u /\ u[i] = w[i] /\ i <= Len(w)
    BY <1>1, <1>2
<1>6. \A j \in DOMAIN v : Len(w) + j \in DOMAIN u /\ u[Len(w) + j] = v[j] /\ Len(w) + j > Len(w)
    <2> SUFFICES ASSUME NEW j \in 1 .. Len(v)
                 PROVE  Len(w) + j \in DOMAIN u /\ u[Len(w) + j] = v[j] /\ Len(w) + j > Len(w)
        BY <1>1
    <2>1. u[Len(w) + j] = v[(Len(w) + j) - Len(w)]
        BY <1>1, <1>3
    <2> QED
        BY <1>1, <1>3, <2>1
<1>7. \A i \in DOMAIN u : i \in DOMAIN w \/ \E j \in DOMAIN v : i = Len(w) + j
    BY <1>1, <1>4
<1> QED
    BY <1>1, <1>5, <1>6, <1>7

(* A visit: nothing is written for a node that is not shown, and one start, *)
(* perhaps with a text, for one that is.                                    *)
LEMMA RecordVisit ==
    ASSUME InTree, NEW w \in Seq(Items), NEW v \in Seq(Items), NEW x \in DOMAIN node,
           NEW todo \in SUBSET DOMAIN node, NEW later \in SUBSET DOMAIN node,
           NEW open, NEW opened,
           Record(w, todo, open),
           x \in todo, \A d \in later : x < d /\ (d \in todo \/ Child(x, d)),
           \A n \in Shown, d \in todo : n \in Subtree(d) =>
                n = x \/ \E e \in later : n \in Subtree(e),
           Ancestors(x) = open, open \subseteq opened, opened \subseteq open \cup { x },
           IsElement(x) => x \in opened,
           x \in Shown => \E e : Starts(v) = { e },
           \A j \in Solid(v) : x \in Shown /\ v[j].of = x,
           Closes(v) = {}
    PROVE  Record(w \o v, later, opened)
<1> DEFINE u == w \o v
           n == Len(w)
<1>1. /\ u \in Seq(Items) /\ n \in Nat
      /\ \A i \in DOMAIN w : i \in DOMAIN u /\ u[i] = w[i] /\ i <= n
      /\ \A j \in DOMAIN v : n + j \in DOMAIN u /\ u[n + j] = v[j] /\ n + j > n
      /\ \A i \in DOMAIN u : i \in DOMAIN w \/ \E j \in DOMAIN v : i = n + j
    BY Behind
<1>2. DOMAIN w \subseteq Nat /\ DOMAIN v \subseteq Nat /\ DOMAIN node \subseteq Nat
      /\ x \in Nat /\ Shown \subseteq DOMAIN node
      /\ Starts(w) \subseteq Solid(w) /\ Closes(w) \subseteq Solid(w)
      /\ Solid(w) \subseteq DOMAIN w
      /\ Starts(v) \subseteq Solid(v) /\ Solid(v) \subseteq DOMAIN v
    <2>1. Root \in DOMAIN node /\ DOMAIN node \subseteq Nat
        BY ChildFacts
    <2>2. Shown \subseteq DOMAIN node
        BY <2>1, SubtreeFacts DEF Shown
    <2> QED
        BY <2>1, <2>2, KindsOfItems
<1> HIDE DEF u
<1>3. /\ \A i \in Solid(u) : i \in Solid(w) \/ \E j \in Solid(v) : i = n + j
      /\ \A i \in Starts(u) : i \in Starts(w) \/ \E j \in Starts(v) : i = n + j
      /\ Closes(u) = Closes(w)
      /\ Starts(w) \subseteq Starts(u)
      /\ \A j \in Starts(v) : n + j \in Starts(u)
    BY <1>1 DEF Solid, Starts, Closes
<1>4. \A i \in Solid(w) : /\ u[i] = w[i] /\ i <= n /\ i \in Nat /\ w[i].of \in Shown
                           /\ w[i].of \in Nat /\ w[i].of < x
                           /\ \A d \in todo : w[i].of < d
    BY <1>1, <1>2 DEF Record, Ahead
<1>5. \A j \in Solid(v) : /\ u[n + j].of = x /\ n + j > n /\ j \in Nat /\ x \in Shown
    BY <1>1, <1>2
<1>6. Ordered(u)
    <2> SUFFICES ASSUME NEW i \in Starts(u), NEW j \in Starts(u), i < j
                 PROVE  u[i].of < u[j].of
        BY DEF Ordered
    <2>1. CASE i \in Starts(w) /\ j \in Starts(w)
        BY <1>2, <1>4, <2>1 DEF Record, Ordered
    <2>2. CASE j \notin Starts(w)
        <3>1. PICK k \in Starts(v) : j = n + k
            BY <1>3, <2>2
        <3>2. u[j].of = x
            BY <1>2, <1>5, <3>1
        <3>3. CASE i \in Starts(w)
            BY <1>2, <1>4, <3>2, <3>3
        <3>4. CASE i \notin Starts(w)
            <4>1. PICK l \in Starts(v) : i = n + l
                BY <1>3, <3>4
            <4>2. k = l /\ k \in Nat
                BY <1>2, <1>5
            <4> QED
                BY <1>1, <3>1, <4>1, <4>2
        <3> QED
            BY <3>3, <3>4
    <2>3. CASE i \notin Starts(w) /\ j \in Starts(w)
        <3>1. PICK l \in Starts(v) : i = n + l
            BY <1>3, <2>3
        <3>2. i > n /\ j <= n /\ i \in Nat /\ j \in Nat
            BY <1>1, <1>2, <1>4, <1>5, <2>3, <3>1
        <3> QED
            BY <1>1, <3>2
    <2> QED
        BY <2>1, <2>2, <2>3
<1>7. Ahead(u, later)
    <2> SUFFICES ASSUME NEW i \in Solid(u)
                 PROVE  u[i].of \in Shown /\ \A d \in later : u[i].of < d
        BY DEF Ahead
    <2>1. CASE i \in Solid(w)
        <3>1. \A d \in later : d \in todo \/ (x < d /\ d \in Nat)
            BY <1>2
        <3> QED
            BY <1>2, <1>4, <2>1, <3>1
    <2>2. CASE i \notin Solid(w)
        BY <1>3, <1>5, <2>2
    <2> QED
        BY <2>1, <2>2
<1>8. Covered(u, later)
    <2> SUFFICES ASSUME NEW m \in Shown
                 PROVE  \/ \E i \in Starts(u) : u[i].of = m
                        \/ \E d \in later : m \in Subtree(d)
        BY DEF Covered
    <2>1. CASE \E i \in Starts(w) : w[i].of = m
        BY <1>2, <1>3, <1>4, <2>1
    <2>2. CASE \E d \in todo : m \in Subtree(d)
        <3>1. CASE m = x
            <4>1. PICK e : Starts(v) = { e }
                BY <3>1
            <4>2. n + e \in Starts(u) /\ u[n + e].of = x
                BY <1>2, <1>3, <1>5, <4>1
            <4> QED
                BY <3>1, <4>2
        <3> QED
            BY <2>2, <3>1
    <2> QED
        BY <2>1, <2>2 DEF Record, Covered
<1>9. Within(u, opened)
    <2> SUFFICES ASSUME NEW i \in Solid(u), NEW s \in opened, u[i].of > s
                 PROVE  u[i].of \in Below(s)
        BY DEF Within
    <2>1. CASE i \in Solid(w)
        <3>1. s # x
            BY <1>2, <1>4, <2>1
        <3> QED
            BY <1>4, <2>1, <3>1 DEF Record, Within
    <2>2. CASE i \notin Solid(w)
        <3>1. u[i].of = x
            BY <1>3, <1>5, <2>2
        <3>2. s # x
            BY <1>2, <3>1
        <3> QED
            BY <3>1, <3>2 DEF Ancestors
    <2> QED
        BY <2>1, <2>2
<1>10. \A c \in Closes(w) : c \in Solid(w) /\ u[c] = w[c] /\ w[c].of # x
                            /\ w[c].of \notin open /\ c <= n /\ c \in Nat
    BY <1>2, <1>4 DEF Record, StillOpen
<1>11. StillOpen(u, opened)
    BY <1>3, <1>10 DEF StillOpen
<1>12. Nested(u)
    <2> SUFFICES ASSUME NEW c \in Closes(w)
                 PROVE  /\ \A i \in Solid(u) :
                             /\ u[i].of \in Below(u[c].of) => i < c
                             /\ u[i].of > u[c].of /\ u[i].of \notin Below(u[c].of) => c < i
                        /\ \A d \in Closes(w) : u[c].of = u[d].of => c = d
        BY <1>3 DEF Nested
    <2>1. \A d \in Closes(w) : u[c].of = u[d].of => c = d
        BY <1>10 DEF Record, Nested
    <2>2. ASSUME NEW i \in Solid(w)
          PROVE  /\ u[i].of \in Below(u[c].of) => i < c
                 /\ u[i].of > u[c].of /\ u[i].of \notin Below(u[c].of) => c < i
        BY <1>4, <1>10, <2>2 DEF Record, Nested
    <2>3. ASSUME NEW i \in Solid(u), i \notin Solid(w)
          PROVE  /\ u[i].of \notin Below(u[c].of) /\ c < i
        <3>1. PICK j \in Solid(v) : i = n + j
            BY <1>3, <2>3
        <3>2. u[i].of = x /\ i > n /\ i \in Nat
            BY <1>1, <1>5, <3>1
        <3>3. w[c].of \in DOMAIN node
            BY <1>2, <1>4, <1>10
        <3>4. x \notin Below(w[c].of)
            BY <1>10, <3>3 DEF Ancestors
        <3> QED
            BY <1>1, <1>10, <3>2, <3>4
    <2> QED
        BY <2>1, <2>2, <2>3
<1>13. ClosedOrOpen(u, opened)
    <2> SUFFICES ASSUME NEW i \in Starts(u), IsElement(u[i].of)
                 PROVE  u[i].of \in opened \/ \E c \in Closes(w) : u[c].of = u[i].of
        BY <1>3 DEF ClosedOrOpen
    <2>1. CASE i \in Starts(w)
        BY <1>2, <1>4, <1>10, <2>1 DEF Record, ClosedOrOpen
    <2>2. CASE i \notin Starts(w)
        BY <1>2, <1>3, <1>5, <2>2
    <2> QED
        BY <2>1, <2>2
<1> QED
    BY <1>6, <1>7, <1>8, <1>9, <1>11, <1>12, <1>13 DEF Record, u

(* The end of a call that has written a start tag.                         *)
LEMMA RecordClose ==
    ASSUME InTree, NEW w \in Seq(Items), NEW v \in Seq(Items), NEW x \in DOMAIN node,
           NEW todo \in SUBSET DOMAIN node, NEW open, NEW e,
           Record(w, todo, open),
           open = Ancestors(x) \cup { x }, x \in Shown, \A d \in todo : x < d,
           Starts(v) = {}, Closes(v) = { e }, Solid(v) = { e }, v[e].of = x
    PROVE  Record(w \o v, todo, Ancestors(x))
<1> DEFINE u == w \o v
           n == Len(w)
<1>1. /\ u \in Seq(Items) /\ n \in Nat
      /\ \A i \in DOMAIN w : i \in DOMAIN u /\ u[i] = w[i] /\ i <= n
      /\ \A j \in DOMAIN v : n + j \in DOMAIN u /\ u[n + j] = v[j] /\ n + j > n
      /\ \A i \in DOMAIN u : i \in DOMAIN w \/ \E j \in DOMAIN v : i = n + j
    BY Behind
<1>2. DOMAIN w \subseteq Nat /\ DOMAIN v \subseteq Nat /\ DOMAIN node \subseteq Nat
      /\ x \in Nat /\ Shown \subseteq DOMAIN node
      /\ Starts(w) \subseteq Solid(w) /\ Closes(w) \subseteq Solid(w)
      /\ Solid(w) \subseteq DOMAIN w
      /\ e \in DOMAIN v
    <2>1. Root \in DOMAIN node /\ DOMAIN node \subseteq Nat
        BY ChildFacts
    <2>2. Shown \subseteq DOMAIN node
        BY <2>1, SubtreeFacts DEF Shown
    <2>3. e \in DOMAIN v
        BY DEF Solid
    <2> QED
        BY <2>1, <2>2, <2>3, KindsOfItems
<1> HIDE DEF u
<1> DEFINE c == n + e
<1>3. /\ \A i \in Solid(u) : i \in Solid(w) \/ i = c
      /\ \A i \in Closes(u) : i \in Closes(w) \/ i = c
      /\ Starts(u) = Starts(w)
      /\ Closes(w) \subseteq Closes(u) /\ c \in Closes(u) /\ c \in Solid(u)
    BY <1>1 DEF Solid, Starts, Closes
<1>4. \A i \in Solid(w) : /\ u[i] = w[i] /\ i < c /\ i \in Nat /\ w[i].of \in Shown
                           /\ w[i].of \in Nat /\ \A d \in todo : w[i].of < d
    BY <1>1, <1>2 DEF Record, Ahead
<1>5. u[c].of = x /\ c \in Nat
    BY <1>1, <1>2
<1> HIDE DEF c
<1>6. Ordered(u)
    BY <1>2, <1>3, <1>4 DEF Record, Ordered
<1>7. Ahead(u, todo)
    BY <1>3, <1>4, <1>5 DEF Ahead
<1>8. Covered(u, todo)
    BY <1>2, <1>3, <1>4 DEF Record, Covered
<1>9. Within(u, Ancestors(x))
    <2> SUFFICES ASSUME NEW i \in Solid(u), NEW s \in Ancestors(x), u[i].of > s
                 PROVE  u[i].of \in Below(s)
        BY DEF Within
    <2>1. CASE i \in Solid(w)
        BY <1>4, <2>1 DEF Record, Within
    <2>2. CASE i = c
        BY <1>5, <2>2 DEF Ancestors
    <2> QED
        BY <1>3, <2>1, <2>2
<1>10. \A d \in Closes(w) : d \in Solid(w) /\ u[d] = w[d] /\ w[d].of \notin open
    BY <1>2, <1>4 DEF Record, StillOpen
<1>11. x \notin Ancestors(x) /\ x \notin Below(x)
    BY DEF Ancestors, Below
<1>12. StillOpen(u, Ancestors(x))
    BY <1>3, <1>5, <1>10, <1>11 DEF StillOpen
<1>13. Nested(u)
    <2>1. ASSUME NEW d \in Closes(w), NEW i \in Solid(w)
          PROVE  /\ u[i].of \in Below(u[d].of) => i < d
                 /\ u[i].of > u[d].of /\ u[i].of \notin Below(u[d].of) => d < i
        BY <1>4, <1>10, <2>1 DEF Record, Nested
    <2>2. ASSUME NEW d \in Closes(w)
          PROVE  u[c].of \notin Below(u[d].of) /\ d < c /\ u[d].of # x
        <3>1. w[d].of \in DOMAIN node /\ w[d].of \notin Ancestors(x) /\ w[d].of # x
            BY <1>2, <1>4, <1>10
        <3> QED
            BY <1>4, <1>5, <1>10, <3>1 DEF Ancestors
    <2>3. ASSUME NEW i \in Solid(w)
          PROVE  i < c /\ (u[i].of > x => u[i].of \in Below(x))
        BY <1>4, <2>3 DEF Record, Within
    <2>4. ~ (x > x)
        BY <1>2
    <2>5. \A d, f \in Closes(u) : u[d].of = u[f].of => d = f
        BY <1>3, <1>5, <1>10, <2>2 DEF Record, Nested
    <2>6. ASSUME NEW d \in Closes(u), NEW i \in Solid(u)
          PROVE  /\ u[i].of \in Below(u[d].of) => i < d
                 /\ u[i].of > u[d].of /\ u[i].of \notin Below(u[d].of) => d < i
        <3>1. CASE d \in Closes(w) /\ i \in Solid(w)
            BY <2>1, <3>1
        <3>2. CASE d \in Closes(w) /\ i = c
            BY <2>2, <3>2
        <3>3. CASE d = c /\ i \in Solid(w)
            BY <1>5, <2>3, <3>3
        <3>4. CASE d = c /\ i = c
            BY <1>5, <1>11, <2>4, <3>4
        <3> QED
            BY <1>3, <3>1, <3>2, <3>3, <3>4
    <2> QED
        BY <2>5, <2>6 DEF Nested
<1>14. ClosedOrOpen(u, Ancestors(x))
    <2> SUFFICES ASSUME NEW i \in Starts(w), IsElement(u[i].of)
                 PROVE  u[i].of \in Ancestors(x) \/ \E d \in Closes(u) : u[d].of = u[i].of
        BY <1>3 DEF ClosedOrOpen
    <2>1. CASE u[i].of = x
        BY <1>3, <1>5, <2>1
    <2>2. CASE u[i].of # x
        BY <1>2, <1>3, <1>4, <1>10, <2>2 DEF Record, ClosedOrOpen
    <2> QED
        BY <2>1, <2>2
<1> QED
    BY <1>6, <1>7, <1>8, <1>9, <1>12, <1>13, <1>14 DEF Record, u

(* The end of a call that has written nothing.                             *)
LEMMA RecordLeave ==
    ASSUME NEW w, NEW todo, NEW open, NEW x, Record(w, todo, open), ~ IsElement(x),
           NEW rest, open = rest \cup { x }
    PROVE  Record(w, todo, rest)
BY DEF Record, Within, StillOpen, ClosedOrOpen

(* What the pieces of output consist of.                                   *)
Blank(v) == v \in Seq(Items) /\ Solid(v) = {} /\ Starts(v) = {} /\ Closes(v) = {}
StartOf(v, x) ==
    /\ v \in Seq(Items) /\ \E e : Starts(v) = { e }
    /\ \A j \in Solid(v) : v[j].of = x
    /\ Closes(v) = {}
EndOf(v, x) ==
    v \in Seq(Items) /\ Starts(v) = {}
        /\ \E e : Closes(v) = { e } /\ Solid(v) = { e } /\ v[e].of = x

(* The items of w \o v are those of w and, moved by Len(w), those of v.     *)
Joins(w, v) ==
    /\ w \o v \in Seq(Items)
    /\ \A i : i \in Solid(w \o v) <=>
             i \in Solid(w) \/ \E j \in Solid(v) : i = Len(w) + j
    /\ \A i : i \in Starts(w \o v) <=>
             i \in Starts(w) \/ \E j \in Starts(v) : i = Len(w) + j
    /\ \A i : i \in Closes(w \o v) <=>
             i \in Closes(w) \/ \E j \in Closes(v) : i = Len(w) + j
    /\ \A j \in Solid(w) : (w \o v)[j] = w[j]
    /\ \A j \in Solid(v) : (w \o v)[Len(w) + j] = v[j]

LEMMA Joined ==
    ASSUME NEW w \in Seq(Items), NEW v \in Seq(Items)
    PROVE  Joins(w, v)
<1> DEFINE u == w \o v
           n == Len(w)
<1>1. /\ u \in Seq(Items) /\ n \in Nat
      /\ \A i \in DOMAIN w : i \in DOMAIN u /\ u[i] = w[i] /\ i <= n
      /\ \A j \in DOMAIN v : n + j \in DOMAIN u /\ u[n + j] = v[j] /\ n + j > n
      /\ \A i \in DOMAIN u : i \in DOMAIN w \/ \E j \in DOMAIN v : i = n + j
    BY Behind
<1> HIDE DEF u, n
<1>2. \A i : i \in Solid(u) <=> i \in Solid(w) \/ \E j \in Solid(v) : i = n + j
    BY <1>1 DEF Solid
<1>3. \A i : i \in Starts(u) <=> i \in Starts(w) \/ \E j \in Starts(v) : i = n + j
    BY <1>1 DEF Starts
<1>4. \A i : i \in Closes(u) <=> i \in Closes(w) \/ \E j \in Closes(v) : i = n + j
    BY <1>1 DEF Closes
<1>5. /\ \A j \in Solid(w) : u[j] = w[j]
      /\ \A j \in Solid(v) : u[n + j] = v[j]
    BY <1>1 DEF Solid
<1> QED
    BY <1>1, <1>2, <1>3, <1>4, <1>5 DEF u, n, Joins

LEMMA BlankBefore ==
    ASSUME NEW b, Blank(b), NEW v, NEW x
    PROVE  /\ StartOf(v, x) => StartOf(b \o v, x)
           /\ EndOf(v, x) => EndOf(b \o v, x)
<1>0. b \in Seq(Items) /\ Solid(b) = {} /\ Starts(b) = {} /\ Closes(b) = {}
    BY DEF Blank
<1>1. ASSUME v \in Seq(Items)
      PROVE  /\ b \o v \in Seq(Items)
             /\ \A i : i \in Solid(b \o v) <=> \E j \in Solid(v) : i = Len(b) + j
             /\ \A i : i \in Starts(b \o v) <=> \E j \in Starts(v) : i = Len(b) + j
             /\ \A i : i \in Closes(b \o v) <=> \E j \in Closes(v) : i = Len(b) + j
             /\ \A j \in Solid(v) : (b \o v)[Len(b) + j] = v[j]
    <2>1. Joins(b, v)
        BY <1>0, <1>1, Joined
    <2> QED
        BY <1>0, <2>1 DEF Joins
<1>2. ASSUME StartOf(v, x) PROVE StartOf(b \o v, x)
    <2>1. PICK e : Starts(v) = { e }
        BY <1>2 DEF StartOf
    <2>2. \A i : i \in Starts(b \o v) <=> i = Len(b) + e
        BY <1>1, <1>2, <2>1 DEF StartOf
    <2>3. Starts(b \o v) = { Len(b) + e }
        BY <2>2
    <2>4. v \in Seq(Items) /\ Closes(v) = {} /\ \A j \in Solid(v) : v[j].of = x
        BY <1>2 DEF StartOf
    <2>5. /\ b \o v \in Seq(Items) /\ Closes(b \o v) = {}
          /\ \A j \in Solid(b \o v) : (b \o v)[j].of = x
        <3>1. b \o v \in Seq(Items) /\ Closes(b \o v) = {}
            BY <1>1, <2>4
        <3>2. ASSUME NEW i \in Solid(b \o v)
              PROVE  (b \o v)[i].of = x
            <4>1. PICK j \in Solid(v) : i = Len(b) + j
                BY <1>1, <2>4
            <4>2. (b \o v)[i] = v[j]
                BY <1>1, <2>4, <4>1
            <4> QED
                BY <2>4, <4>1, <4>2
        <3> QED
            BY <3>1, <3>2
    <2> QED
        BY <2>3, <2>5 DEF StartOf
<1>3. ASSUME EndOf(v, x) PROVE EndOf(b \o v, x)
    <2>1. PICK e : Closes(v) = { e } /\ Solid(v) = { e } /\ v[e].of = x
        BY <1>3 DEF EndOf
    <2>2. /\ \A i : i \in Closes(b \o v) <=> i = Len(b) + e
          /\ \A i : i \in Solid(b \o v) <=> i = Len(b) + e
          /\ (b \o v)[Len(b) + e].of = x
        BY <1>1, <1>3, <2>1 DEF EndOf
    <2>3. b \o v \in Seq(Items) /\ Starts(b \o v) = {}
        BY <1>1, <1>3 DEF EndOf
    <2> QED
        BY <2>2, <2>3 DEF EndOf
<1> QED
    BY <1>2, <1>3

LEMMA BlankBehind ==
    ASSUME NEW b, Blank(b), NEW v, NEW x
    PROVE  /\ StartOf(v, x) => StartOf(v \o b, x)
           /\ EndOf(v, x) => EndOf(v \o b, x)
           /\ Blank(v) => Blank(v \o b)
<1>0. b \in Seq(Items) /\ Solid(b) = {} /\ Starts(b) = {} /\ Closes(b) = {}
    BY DEF Blank
<1>1. ASSUME v \in Seq(Items)
      PROVE  /\ v \o b \in Seq(Items) /\ Solid(v \o b) = Solid(v)
             /\ Starts(v \o b) = Starts(v) /\ Closes(v \o b) = Closes(v)
             /\ \A j \in Solid(v) : (v \o b)[j] = v[j]
    <2>1. Joins(v, b)
        BY <1>0, <1>1, Joined
    <2> QED
        BY <1>0, <2>1 DEF Joins
<1> QED
    BY <1>1 DEF StartOf, EndOf, Blank

LEMMA Parts ==
    ASSUME InTree, NEW n \in DOMAIN node, NEW type \in NodeType \cup { "open" }
    PROVE  /\ Blank(Margin(n)) /\ Blank(<< Newline >>) /\ Blank(<< >>)
           /\ StartOf(<< Item(type, n) >>, n)
           /\ StartOf(<< Item("open", n) >> \o << Item("text", n) >>, n)
           /\ EndOf(<< Item("close", n) >>, n)
<1>1. /\ << Item(type, n) >> \in Seq(Items) /\ << Item("open", n) >> \in Seq(Items)
      /\ << Item("text", n) >> \in Seq(Items) /\ << Item("close", n) >> \in Seq(Items)
      /\ Margin(n) \in Seq(Items) /\ << Newline >> \in Seq(Items) /\ << >> \in Seq(Items)
    BY Pieces
<1>2. type \notin Layout \cup { "text", "close" }
    BY DEF Layout, NodeType, DirectiveType
<1>3. Blank(Margin(n)) /\ Blank(<< Newline >>)
    BY <1>1 DEF Blank, Solid, Starts, Closes, IsStart, Margin, Newline, Indent, Layout
<1>4. Blank(<< >>)
    BY <1>1 DEF Blank, Solid, Starts, Closes
<1>5. ASSUME NEW what
      PROVE  /\ DOMAIN << Item(what, n) >> = { 1 }
             /\ << Item(what, n) >>[1].what = what /\ << Item(what, n) >>[1].of = n
    BY DEF Item
<1>6. ASSUME NEW what, what \notin Layout \cup { "text", "close" }
      PROVE  /\ Solid(<< Item(what, n) >>) = { 1 } /\ Starts(<< Item(what, n) >>) = { 1 }
             /\ Closes(<< Item(what, n) >>) = {}
    BY <1>5, <1>6 DEF Solid, Starts, IsStart, Closes
<1>7. /\ Solid(<< Item("text", n) >>) = { 1 } /\ Starts(<< Item("text", n) >>) = {}
      /\ Closes(<< Item("text", n) >>) = {}
    BY <1>5 DEF Solid, Starts, IsStart, Closes, Layout
<1>8. /\ Solid(<< Item("close", n) >>) = { 1 } /\ Starts(<< Item("close", n) >>) = {}
      /\ Closes(<< Item("close", n) >>) = { 1 }
    <2> DEFINE v == << Item("close", n) >>
    <2>1. DOMAIN v = { 1 } /\ v[1].what = "close"
        BY <1>5
    <2>2. "close" \notin Layout /\ ~ IsStart(v[1])
        BY <2>1 DEF Layout, IsStart
    <2> HIDE DEF v
    <2>3. Solid(v) = { 1 } /\ Starts(v) = {} /\ Closes(v) = { 1 }
        BY <2>1, <2>2 DEF Solid, Starts, Closes
    <2> QED
        BY <2>3 DEF v
<1>9. StartOf(<< Item(type, n) >>, n)
    <2> DEFINE v == << Item(type, n) >>
    <2>1. v \in Seq(Items) /\ Solid(v) = { 1 } /\ Starts(v) = { 1 } /\ Closes(v) = {}
          /\ v[1].of = n
        BY <1>1, <1>2, <1>5, <1>6
    <2> HIDE DEF v
    <2>2. StartOf(v, n)
        BY <2>1 DEF StartOf
    <2> QED
        BY <2>2 DEF v
<1>10. EndOf(<< Item("close", n) >>, n)
    BY <1>1, <1>5, <1>8 DEF EndOf
<1>11. StartOf(<< Item("open", n) >> \o << Item("text", n) >>, n)
    <2> DEFINE o == << Item("open", n) >>
               t == << Item("text", n) >>
    <2>1. /\ Solid(o) = { 1 } /\ Starts(o) = { 1 } /\ Closes(o) = {} /\ o[1].of = n
          /\ Solid(t) = { 1 } /\ Starts(t) = {} /\ Closes(t) = {} /\ t[1].of = n
          /\ o \in Seq(Items) /\ t \in Seq(Items)
        BY <1>1, <1>5, <1>6, <1>7 DEF Layout
    <2> HIDE DEF o, t
    <2>2. Joins(o, t)
        BY <2>1, Joined
    <2>3. StartOf(o \o t, n)
        <3>1. /\ \A i : i \in Solid(o \o t) <=> i = 1 \/ i = Len(o) + 1
              /\ \A i : i \in Starts(o \o t) <=> i = 1
              /\ \A i : i \notin Closes(o \o t)
              /\ (o \o t)[1].of = n /\ (o \o t)[Len(o) + 1].of = n
              /\ o \o t \in Seq(Items)
            BY <2>1, <2>2 DEF Joins
        <3>2. Starts(o \o t) = { 1 } /\ Closes(o \o t) = {}
            BY <3>1
        <3> QED
            BY <3>1, <3>2 DEF StartOf
    <2> QED
        BY <2>3 DEF o, t
<1> QED
    BY <1>3, <1>4, <1>9, <1>10, <1>11

-----------------------------------------------------------------------------
(* The walk and what it has written.                                       *)
OrderInv ==
    /\ OutputInv /\ WalkInv
    /\ Record(output[FALSE], Todo, OnStack)

LEMMA RecordNext ==
    ASSUME NEW w, NEW todo, NEW open, Record(w, todo, open), UNCHANGED tree,
           output'[FALSE] = w, Todo' = todo, OnStack' = open
    PROVE  Record(output[FALSE], Todo, OnStack)'
<1>1. UNCHANGED << node, children >>
    BY DEF node, children
<1>2. UNCHANGED << Barren, Shown >>
    BY <1>1 DEF Shown, Subtree, Below, ChildrenIn, Barren, IsElement, IsArtificial, IsVoid, Root
<1>3. \A n : Below(n)' = Below(n) /\ Subtree(n)' = Subtree(n) /\ IsElement(n)' = IsElement(n)
    BY <1>1 DEF Subtree, Below, ChildrenIn, IsElement, IsArtificial, IsVoid
<1>4. (Ordered(output[FALSE]) /\ Nested(output[FALSE]))'
    BY <1>3 DEF Record, Ordered, Nested, Starts, Solid, Closes, IsStart, Layout
<1>5. (Ahead(output[FALSE], Todo) /\ Covered(output[FALSE], Todo))'
    BY <1>2, <1>3 DEF Record, Ahead, Covered, Starts, Solid, IsStart, Layout
<1>6. (Within(output[FALSE], OnStack) /\ StillOpen(output[FALSE], OnStack))'
    BY <1>3 DEF Record, Within, StillOpen, Solid, Closes, Layout
<1>7. ClosedOrOpen(output[FALSE], OnStack)'
    BY <1>3 DEF Record, ClosedOrOpen, Starts, Closes, IsStart, Layout
<1> QED
    BY <1>4, <1>5, <1>6, <1>7 DEF Record

(* A visit that writes v.                                                  *)
LEMMA OrderVisit ==
    ASSUME OrderInv, OutputInv', calling # NULL,
           \/ Return /\ calling \in Barren
           \/ WaitFor(calling) /\ calling \notin Barren,
           NEW v \in Seq(Items), output'[FALSE] = output[FALSE] \o v,
           calling \in Shown => StartOf(v, calling),
           calling \notin Shown => Blank(v)
    PROVE  OrderInv'
<1>1. PICK x : x = calling
    OBVIOUS
<1>2. WalkInv /\ InTree /\ InTree' /\ output[FALSE] \in Seq(Items)
    BY DEF OrderInv, OutputInv
<1>3. /\ WalkInv' /\ UNCHANGED tree
      /\ x \in DOMAIN node /\ x \in Subtree(Root) /\ Ancestors(x) = OnStack
      /\ OnStack' = OnStack \cup ({ x } \ Barren)
      /\ OnStack \cap Barren = {}
      /\ x \in Todo /\ \A d \in Todo' : x < d /\ (d \in Todo \/ Child(x, d))
      /\ \A n \in Shown, d \in Todo : n \in Subtree(d) =>
            n = x \/ \E e \in Todo' : n \in Subtree(e)
    BY <1>1, <1>2, VisitStep
<1>4. PICK w, todo, later, open, opened :
          /\ w = output[FALSE] /\ todo = Todo /\ later = Todo'
          /\ open = OnStack /\ opened = OnStack'
    OBVIOUS
<1>5. /\ todo \in SUBSET DOMAIN node /\ later \in SUBSET DOMAIN node
    <2>1. Todo \subseteq DOMAIN node
        BY <1>2, PendingFacts
    <2>2. \A d \in later : d \in DOMAIN node
        BY <1>2, <1>3, <1>4, <2>1, ChildFacts
    <2> QED
        BY <1>4, <2>1, <2>2
<1>6. /\ x \in Shown => \E e : Starts(v) = { e }
      /\ \A j \in Solid(v) : x \in Shown /\ v[j].of = x
      /\ Closes(v) = {}
    BY <1>1 DEF StartOf, Blank
<1>7. IsElement(x) => x \in opened
    BY <1>3, <1>4 DEF Barren
<1>8. Record(w, todo, open)
    BY <1>4 DEF OrderInv
<1>9. Record(w \o v, later, opened)
    BY <1>2, <1>3, <1>4, <1>5, <1>6, <1>7, <1>8, RecordVisit
<1>10. Record(output[FALSE], Todo, OnStack)'
    BY <1>3, <1>4, <1>9, RecordNext
<1> QED
    BY <1>3, <1>10 DEF OrderInv

(* What is called, or waits, lies below nothing that is barren: it is shown *)
(* if it is written at all.                                                 *)
LEMMA ShownWhen ==
    ASSUME InTree, NEW x \in Subtree(Root), Ancestors(x) \cap Barren = {}
    PROVE  x \in Shown <=> ~ IsArtificial(x) /\ node[x].type # "BLOCK_COMMENT"
BY DEF Shown, Ancestors, Barren

LEMMA Visited ==
    ASSUME WalkInv, calling # NULL
    PROVE  /\ calling \in DOMAIN node
           /\ calling \in Shown <=>
                 ~ IsArtificial(calling) /\ node[calling].type # "BLOCK_COMMENT"
<1>1. InTree /\ calling \in Subtree(Root) /\ Ancestors(calling) = OnStack
    BY DEF WalkInv
<1>2. OnStack \cap Barren = {}
    BY DEF WalkInv, Open, OnStack
<1> QED
    BY <1>1, <1>2, ShownWhen, PendingFacts

LEMMA WritesBehind ==
    ASSUME OutputInv, NEW v, NEW u, Write(v, u)
    PROVE  /\ output'[FALSE] = output[FALSE] \o v
           /\ output'[TRUE] = output[TRUE] \o u
BY DEF Write

LEMMA OrderStep == OrderInv /\ [Next]_vars => OrderInv'
<1> SUFFICES ASSUME OrderInv, [Next]_vars PROVE OrderInv'
    OBVIOUS
<1>1. OutputInv /\ WalkInv /\ InTree /\ OutputInv' /\ InTree'
    BY OutputStep DEF OrderInv, OutputInv
<1>2. output[FALSE] \in Seq(Items) /\ << >> \in Seq(Items) /\ Blank(<< >>) /\ Blank(<< Newline >>)
    BY <1>1, ChildFacts, Parts DEF OutputInv, Blank
<1>3. CASE EnterRoot
    <2>1. calling # NULL /\ IsArtificial(calling) /\ WaitFor(calling) /\ UNCHANGED output
        BY <1>3 DEF EnterRoot
    <2>2. calling \notin Barren /\ calling \notin Shown
        BY <1>1, <2>1, Visited DEF Barren
    <2>3. output'[FALSE] = output[FALSE] \o << >>
        BY <1>2, <2>1, ConcatEmptySeq
    <2> QED
        BY <1>1, <1>2, <2>1, <2>2, <2>3, OrderVisit
<1>4. CASE RenderLeaf \/ RenderVoid
    <2>1. PICK what, x :
             /\ x = calling /\ calling # NULL /\ Return /\ what \in NodeType \cup { "open" }
             /\ ~ IsArtificial(x) /\ ~ IsElement(x) /\ node[x].type # "BLOCK_COMMENT"
             /\ \E u : Write(Margin(x) \o << Item(what, x) >> \o << Newline >>, u)
        <3>1. CASE RenderLeaf
            <4>1. calling \in DOMAIN node /\ node[calling].type \in NodeType
                BY <1>1, <3>1, Visited, TreeFacts DEF RenderLeaf
            <4> QED
                BY <3>1, <4>1 DEF RenderLeaf, IsArtificial, IsElement
        <3>2. CASE RenderVoid
            BY <3>2 DEF RenderVoid, IsArtificial, IsElement, IsVoid
        <3> QED
            BY <1>4, <3>1, <3>2
    <2>2. x \in DOMAIN node /\ x \in Shown /\ x \in Barren
        BY <1>1, <2>1, Visited DEF Barren
    <2> DEFINE item == << Item(what, x) >>
               v == (Margin(x) \o item) \o << Newline >>
    <2>3. Blank(Margin(x)) /\ StartOf(item, x)
        BY <1>1, <2>1, <2>2, Parts
    <2>4. StartOf(v, x)
        <3> HIDE DEF item
        <3>1. StartOf(Margin(x) \o item, x)
            BY <2>3, BlankBefore
        <3> QED
            BY <1>2, <3>1, BlankBehind
    <2>5. v \in Seq(Items) /\ output'[FALSE] = output[FALSE] \o v
        BY <1>1, <2>1, <2>4, WritesBehind DEF StartOf
    <2> HIDE DEF v
    <2> QED
        BY <1>1, <2>1, <2>2, <2>4, <2>5, OrderVisit
<1>5. CASE RenderBlockComment
    <2>1. /\ calling # NULL /\ Return /\ Write(Margin(calling), << >>)
          /\ node[calling].type = "BLOCK_COMMENT"
        BY <1>5 DEF RenderBlockComment
    <2>2. calling \in DOMAIN node /\ calling \notin Shown /\ calling \in Barren
        BY <1>1, <2>1, Visited DEF Barren, IsArtificial, IsElement
    <2>3. Blank(Margin(calling))
        BY <1>1, <2>2, Parts
    <2>4. /\ Margin(calling) \in Seq(Items)
          /\ output'[FALSE] = output[FALSE] \o Margin(calling)
        BY <1>1, <2>1, <2>3, WritesBehind DEF Blank
    <2> QED
        BY <1>1, <2>1, <2>2, <2>3, <2>4, OrderVisit
<1>6. CASE OpenTag
    <2>1. PICK x, text, break :
             /\ x = calling /\ calling # NULL /\ WaitFor(calling) /\ IsElement(x)
             /\ text = << >> \/ text = << Item("text", x) >>
             /\ break = << >> \/ break = << Newline >>
             /\ \E u : Write(Margin(x) \o (<< Item("open", x) >> \o text) \o break, u)
        BY <1>6 DEF OpenTag
    <2>2. x \in DOMAIN node /\ x \in Shown /\ x \notin Barren
        BY <1>1, <2>1, Visited DEF Barren, IsElement
    <2> DEFINE open == << Item("open", x) >>
               v == (Margin(x) \o (open \o text)) \o break
    <2>3. Blank(Margin(x)) /\ StartOf(open \o text, x)
        <3>1. /\ Blank(Margin(x)) /\ StartOf(open, x)
              /\ StartOf(open \o << Item("text", x) >>, x)
            BY <1>1, <2>2, Parts
        <3>2. open \o << >> = open
            BY <3>1, ConcatEmptySeq DEF StartOf
        <3> HIDE DEF open
        <3> QED
            BY <2>1, <3>1, <3>2
    <2>4. StartOf(v, x)
        <3> HIDE DEF open
        <3>1. StartOf(Margin(x) \o (open \o text), x)
            BY <2>3, BlankBefore
        <3>2. Blank(break)
            BY <1>2, <2>1
        <3> QED
            BY <3>1, <3>2, BlankBehind
    <2>5. v \in Seq(Items) /\ output'[FALSE] = output[FALSE] \o v
        BY <1>1, <2>1, <2>4, WritesBehind DEF StartOf
    <2> HIDE DEF v
    <2> QED
        BY <1>1, <2>1, <2>2, <2>4, <2>5, OrderVisit
<1>7. CASE CallChild
    <2>1. WalkInv' /\ UNCHANGED << tree, output >> /\ Todo' = Todo /\ OnStack' = OnStack
        BY <1>1, <1>7, CallStep
    <2>2. PICK w, todo, open : w = output[FALSE] /\ todo = Todo /\ open = OnStack
        OBVIOUS
    <2>3. Record(w, todo, open)
        BY <2>2 DEF OrderInv
    <2>4. Record(output[FALSE], Todo, OnStack)'
        BY <2>1, <2>2, <2>3, RecordNext
    <2> QED
        BY <1>1, <2>1, <2>4 DEF OrderInv
<1>8. ASSUME CloseTag \/ LeaveRoot
      PROVE  /\ Waiting /\ LastChild /\ stack' = Front(stack) /\ UNCHANGED << tree, calling >>
             /\ WalkInv' /\ Todo' = Todo
             /\ OnStack' = Ancestors(Frame.node)
             /\ OnStack = Ancestors(Frame.node) \cup { Frame.node }
             /\ Frame.node \in DOMAIN node /\ Open(Frame.node)
             /\ \A d \in Todo : Frame.node < d
             /\ OnStack \cap Barren = {} /\ Todo \in SUBSET DOMAIN node
    <2>1. /\ Waiting /\ LastChild /\ stack' = Front(stack)
          /\ UNCHANGED tree /\ UNCHANGED calling
        BY <1>8 DEF CloseTag, LeaveRoot
    <2> QED
        BY <1>1, <2>1, DropStep, PendingFacts
<1>9. CASE CloseTag
    <2>1. PICK x, margin :
             /\ x = Frame.node /\ IsElement(x)
             /\ margin = << >> \/ margin = Margin(x)
             /\ \E u : Write(margin \o << Item("close", x) >> \o << Newline >>, u)
        BY <1>9 DEF CloseTag
    <2>2. PICK w, todo, open : w = output[FALSE] /\ todo = Todo /\ open = OnStack
        OBVIOUS
    <2>3. /\ x \in DOMAIN node /\ open = Ancestors(x) \cup { x }
          /\ todo \in SUBSET DOMAIN node /\ \A d \in todo : x < d
        BY <1>8, <1>9, <2>1, <2>2
    <2>4. x \in Shown
        <3>1. x \in Subtree(Root) /\ Ancestors(x) \cap Barren = {}
            BY <1>8, <1>9, <2>1 DEF Open
        <3> QED
            BY <1>1, <2>1, <3>1, ShownWhen DEF IsElement
    <2> DEFINE tag == << Item("close", x) >>
               v == (margin \o tag) \o << Newline >>
    <2>5. EndOf(v, x)
        <3>1. Blank(margin) /\ EndOf(tag, x)
            BY <1>1, <1>2, <2>1, <2>3, Parts
        <3> HIDE DEF tag
        <3>2. EndOf(margin \o tag, x)
            BY <3>1, BlankBefore
        <3> QED
            BY <1>2, <3>2, BlankBehind
    <2>6. output'[FALSE] = w \o v
        BY <1>1, <2>1, <2>2, WritesBehind
    <2> HIDE DEF v
    <2>7. PICK e : /\ v \in Seq(Items) /\ Starts(v) = {} /\ Closes(v) = { e }
                   /\ Solid(v) = { e } /\ v[e].of = x
        BY <2>5 DEF EndOf
    <2>8. Record(w, todo, open)
        BY <2>2 DEF OrderInv
    <2>9. Record(w \o v, todo, Ancestors(x))
        BY <1>1, <1>2, <2>2, <2>3, <2>4, <2>7, <2>8, RecordClose
    <2>10. PICK rest : rest = Ancestors(x)
        OBVIOUS
    <2>11. Record(output[FALSE], Todo, OnStack)'
        BY <1>8, <1>9, <2>1, <2>2, <2>6, <2>9, <2>10, RecordNext
    <2> QED
        BY <1>1, <1>8, <1>9, <2>11 DEF OrderInv
<1>10. CASE LeaveRoot
    <2>1. PICK x, w, todo, open, rest :
             /\ x = Frame.node /\ w = output[FALSE] /\ todo = Todo /\ open = OnStack
             /\ rest = Ancestors(x)
        OBVIOUS
    <2>2. ~ IsElement(x) /\ UNCHANGED output
        BY <1>10, <2>1 DEF LeaveRoot, IsElement
    <2>3. Record(w, todo, open)
        BY <2>1 DEF OrderInv
    <2>4. Record(w, todo, rest)
        BY <1>8, <1>10, <2>1, <2>2, <2>3, RecordLeave
    <2>5. Record(output[FALSE], Todo, OnStack)'
        BY <1>8, <1>10, <2>1, <2>2, <2>4, RecordNext
    <2> QED
        BY <1>1, <1>8, <1>10, <2>5 DEF OrderInv
<1>11. CASE UNCHANGED vars
    <2>1. PICK w, todo, open : w = output[FALSE] /\ todo = Todo /\ open = OnStack
        OBVIOUS
    <2>2. Record(w, todo, open)
        BY <2>1 DEF OrderInv
    <2>3. UNCHANGED << tree, stack, calling, output, node, children >>
        BY <1>11 DEF vars, node, children
    <2>4. Todo' = Todo /\ OnStack' = OnStack
        BY <2>3 DEF Todo, OnStack, Pending
    <2>5. Record(output[FALSE], Todo, OnStack)'
        BY <2>1, <2>2, <2>3, <2>4, RecordNext
    <2>6. WalkInv'
        <3>1. \A m : Open(m)' = Open(m) /\ Ancestors(m)' = Ancestors(m)
                    /\ Subtree(m)' = Subtree(m)
            BY <2>3 DEF Open, Ancestors, Below, Subtree, ChildrenIn, Barren, IsArtificial,
                IsElement, IsVoid, Root
        <3>2. \A k : Pending(k)' = Pending(k)
            BY <2>3 DEF Pending
        <3> QED
            BY <1>1, <2>3, <2>4, <3>1, <3>2 DEF WalkInv, NULL, Root
    <2> QED
        BY <1>1, <2>5, <2>6 DEF OrderInv
<1> QED
    BY <1>3, <1>4, <1>5, <1>6, <1>7, <1>9, <1>10, <1>11 DEF Next, Stopped

LEMMA OrderBegin == Begin => OrderInv
<1> SUFFICES ASSUME Begin PROVE OrderInv
    OBVIOUS
<1>1. OutputInv /\ InTree
    BY OutputBegin DEF OutputInv
<1>2. /\ stack = << >> /\ Len(stack) = 0 /\ 1 .. Len(stack) = {} /\ calling = Root
      /\ output[FALSE] = << >>
    BY DEF Begin
<1>3. OnStack = {} /\ Todo = { Root }
    BY <1>2 DEF OnStack, Todo, Root, NULL
<1>4. Ancestors(Root) = {} /\ Root \in Subtree(Root)
    BY <1>1, RootAlone
<1>5. WalkInv
    BY <1>1, <1>2, <1>3, <1>4 DEF WalkInv
<1>6. Blank(<< >>) /\ << >> \in Seq(Items)
    BY <1>1, ChildFacts, Parts DEF Blank
<1>7. Shown \subseteq Subtree(Root)
    BY DEF Shown
<1>8. Record(<< >>, { Root }, {})
    BY <1>6, <1>7 DEF Blank, Record, Ordered, Ahead, Covered, Within, StillOpen, Nested, ClosedOrOpen
<1> QED
    BY <1>1, <1>2, <1>3, <1>5, <1>8 DEF OrderInv

LEMMA OrderHolds == Spec => []OrderInv
BY InitBegins, OrderBegin, OrderStep, PTL DEF Spec

LEMMA AllVisited ==
    ASSUME OrderInv, Finished
    PROVE  Todo = {} /\ OnStack = {}
<1>1. calling = NULL /\ 1 .. Len(stack) = {}
    BY DEF Finished
<1> QED
    BY <1>1 DEF Todo, OnStack

(* Where the walk stands says what was written.                             *)
LEMMA OrderSays == OrderInv => WritesInOrder
<1> SUFFICES ASSUME OrderInv PROVE WritesInOrder
    OBVIOUS
<1> DEFINE w == output[FALSE]
           seen == { w[i].of : i \in Starts(w) }
<1>1. /\ InTree /\ Starts(w) \subseteq Solid(w) /\ DOMAIN node \subseteq Nat
      /\ Todo \subseteq DOMAIN node /\ Shown \subseteq DOMAIN node
    <2>1. InTree /\ w \in Seq(Items)
        BY DEF OrderInv, OutputInv
    <2> QED
        BY <2>1, KindsOfItems, ChildFacts, PendingFacts, SubtreeFacts DEF Shown
<1>2. Record(w, Todo, OnStack)
    BY DEF OrderInv
<1>3. \A i, j \in Starts(w) : i < j => w[i].of < w[j].of
    BY <1>2 DEF Record, Ordered
<1>4. seen \subseteq Shown
    BY <1>1, <1>2 DEF Record, Ahead
<1>5. ASSUME NEW n \in Shown, NEW i \in Starts(w), n < w[i].of, n \notin seen
      PROVE  FALSE
    <2>1. PICK d \in Todo : n \in Subtree(d)
        BY <1>2, <1>5 DEF Record, Covered
    <2>2. n >= d /\ d \in Nat /\ n \in Nat
        BY <1>1, <2>1, SubtreeFacts
    <2>3. w[i].of < d /\ w[i].of \in Nat
        <3>1. i \in Solid(w) /\ Ahead(w, Todo)
            BY <1>1, <1>2 DEF Record
        <3>2. w[i].of < d /\ w[i].of \in Shown
            BY <2>1, <3>1 DEF Ahead
        <3> QED
            BY <1>1, <3>2
    <2>4. n < w[i].of
        BY <1>5
    <2> HIDE DEF w
    <2> QED
        BY <2>2, <2>3, <2>4
<1>6. Finished => Shown \subseteq seen
    BY <1>2, AllVisited DEF Record, Covered
<1> QED
    BY <1>3, <1>4, <1>5, <1>6 DEF WritesInOrder

(* For all trees: each node that is shown is begun once, in document order, *)
(* and in the end all of them are.                                          *)
THEOREM NodesInOrder == Spec => []WritesInOrder
BY OrderSays, OrderHolds, PTL

(* For all trees: an element is closed once, behind all that is written for *)
(* the nodes below it and before all of the nodes after it.                 *)
THEOREM TagsNestAsTheTree == Spec => []TagsNest
<1>1. OrderInv => TagsNest
    <2> SUFFICES ASSUME OrderInv PROVE TagsNest
        OBVIOUS
    <2> DEFINE w == output[FALSE]
    <2>1. /\ w \in Seq(Items) /\ Record(w, Todo, OnStack)
          /\ \A i \in DOMAIN w : w[i] \in Items
        <3>1. w \in Seq(Items)
            BY DEF OrderInv, OutputInv
        <3>2. \A i \in DOMAIN w : w[i] \in Items
            BY <3>1, ElementOfSeq, LenProperties
        <3> QED
            BY <3>1, <3>2 DEF OrderInv
    <2> SUFFICES ASSUME NEW n \in DOMAIN node, IsElement(n)
                 PROVE  LET closed == At(w, "close", n)
                            below == Below(n)
                        IN  /\ \A c \in closed : \A i \in DOMAIN w :
                                  w[i].what \notin Layout =>
                                      /\ w[i].of \in below => i < c
                                      /\ w[i].of > n /\ w[i].of \notin below
                                            => c < i
                            /\ \A c, d \in closed : c = d
                            /\ Finished /\ n \in Shown => closed # {}
        BY DEF TagsNest
    <2>2. \A c : c \in At(w, "close", n) <=> c \in Closes(w) /\ w[c].of = n
        <3>1. \A c \in DOMAIN w : w[c] = Item("close", n) <=> w[c].what = "close" /\ w[c].of = n
            <4> SUFFICES ASSUME NEW c \in DOMAIN w
                         PROVE  w[c] = Item("close", n) <=> w[c].what = "close" /\ w[c].of = n
                OBVIOUS
            <4>1. w[c] \in Items
                BY <2>1
            <4> HIDE DEF w
            <4> QED
                BY <4>1 DEF Item, Items
        <3> QED
            BY <3>1 DEF At, Closes
    <2>3. \A c \in At(w, "close", n) : \A i \in Solid(w) :
              /\ w[i].of \in Below(n) => i < c
              /\ w[i].of > n /\ w[i].of \notin Below(n) => c < i
        <3>1. Nested(w)
            BY <2>1 DEF Record
        <3> HIDE DEF w
        <3> QED
            BY <2>2, <3>1 DEF Nested
    <2>4. \A c, d \in At(w, "close", n) : c = d
        BY <2>1, <2>2 DEF Record, Nested
    <2>5. ASSUME Finished, n \in Shown
          PROVE  At(w, "close", n) # {}
        <3>1. Todo = {} /\ OnStack = {}
            BY <2>5, AllVisited
        <3>2. PICK i \in Starts(w) : w[i].of = n
            BY <2>1, <2>5, <3>1 DEF Record, Covered
        <3> QED
            BY <2>1, <2>2, <3>1, <3>2 DEF Record, ClosedOrOpen
    <2> QED
        BY <2>3, <2>4, <2>5 DEF Solid
<1> QED
    BY <1>1, OrderHolds, PTL

-----------------------------------------------------------------------------
(***************************************************************************)
(* Lines.  What stands on the line that is not ended yet belongs to calls  *)
(* that wait, each with a text, but for an element that has nothing in it. *)
(***************************************************************************)
Ends(w) == { i \in DOMAIN w : w[i].what = "newline" }
LastLine(w) == { i \in Solid(w) : \A e \in Ends(w) : e < i }

Beside(a, b) == a = b \/ (IsElement(a) /\ node[a].has_text /\ b \in Below(a))

LinesApart(w) ==
    /\ \A i, j \in Solid(w) : i < j /\ Unbroken(w, i, j) => Beside(w[i].of, w[j].of)
    /\ \A e \in Ends(w) : \E i \in Solid(w) : i < e /\ Unbroken(w, i, e - 1)

Begun(w) ==
    \A i \in LastLine(w) :
        LET a == w[i].of
        IN  /\ a \in OnStack /\ IsElement(a)
            /\ node[a].has_text \/ (calling = NULL /\ a = Frame.node /\ children[a] = << >>)

LineInv == OrderInv /\ LinesApart(output[FALSE]) /\ Begun(output[FALSE])

(* A piece of one node, which may end the line.                            *)
Piece(v, x) == v \in Seq(Items) /\ Ends(v) = {} /\ \A j \in Solid(v) : v[j].of = x
Whole(v, x) ==
    /\ v \in Seq(Items) /\ Ends(v) = { Len(v) } /\ Solid(v) # {}
    /\ \A j \in Solid(v) : v[j].of = x

LEMMA PieceParts ==
    ASSUME InTree, NEW n \in DOMAIN node, NEW what \in NodeType \cup { "open", "close", "text" }
    PROVE  /\ Piece(Margin(n), n) /\ Piece(<< >>, n)
           /\ Piece(<< Item(what, n) >>, n) /\ Solid(<< Item(what, n) >>) # {}
<1>1. /\ Margin(n) \in Seq(Items) /\ << >> \in Seq(Items) /\ << Item(what, n) >> \in Seq(Items)
    BY Pieces
<1>2. what \notin Layout
    BY DEF Layout, NodeType, DirectiveType
<1>3. Piece(Margin(n), n)
    BY <1>1 DEF Piece, Ends, Solid, Margin, Indent, Layout
<1>4. Piece(<< >>, n)
    BY <1>1 DEF Piece, Ends, Solid
<1>5. /\ DOMAIN << Item(what, n) >> = { 1 }
      /\ << Item(what, n) >>[1].what = what /\ << Item(what, n) >>[1].of = n
    BY DEF Item
<1>6. Piece(<< Item(what, n) >>, n) /\ Solid(<< Item(what, n) >>) # {}
    <2> DEFINE v == << Item(what, n) >>
    <2>1. DOMAIN v = { 1 } /\ v[1].what \notin Layout /\ v[1].of = n /\ v \in Seq(Items)
        BY <1>1, <1>2, <1>5
    <2> HIDE DEF v
    <2>2. Ends(v) = {} /\ Solid(v) = { 1 }
        BY <2>1 DEF Ends, Solid, Layout
    <2> QED
        BY <2>1, <2>2 DEF Piece, v
<1> QED
    BY <1>3, <1>4, <1>6

LEMMA PieceJoined ==
    ASSUME NEW x, NEW u, NEW v, Piece(u, x), Piece(v, x)
    PROVE  /\ Piece(u \o v, x)
           /\ Solid(u) # {} \/ Solid(v) # {} => Solid(u \o v) # {}
<1>1. u \in Seq(Items) /\ v \in Seq(Items)
    BY DEF Piece
<1> DEFINE w == u \o v
           n == Len(u)
<1>2. /\ w \in Seq(Items) /\ n \in Nat
      /\ \A i \in DOMAIN u : i \in DOMAIN w /\ w[i] = u[i]
      /\ \A j \in DOMAIN v : n + j \in DOMAIN w /\ w[n + j] = v[j]
      /\ \A i \in DOMAIN w : i \in DOMAIN u \/ \E j \in DOMAIN v : i = n + j
    BY <1>1, Behind
<1> HIDE DEF w, n
<1>3. /\ \A i \in DOMAIN u : u[i].what # "newline" /\ (i \in Solid(u) => u[i].of = x)
      /\ \A j \in DOMAIN v : v[j].what # "newline" /\ (j \in Solid(v) => v[j].of = x)
    BY DEF Piece, Ends
<1>4. Ends(w) = {} /\ \A i \in Solid(w) : w[i].of = x
    BY <1>2, <1>3 DEF Ends, Solid
<1>5. Solid(u) # {} \/ Solid(v) # {} => Solid(w) # {}
    BY <1>2 DEF Solid
<1> QED
    BY <1>2, <1>4, <1>5 DEF Piece, w

LEMMA LineEnded ==
    ASSUME NEW x, NEW u, Piece(u, x), Solid(u) # {}
    PROVE  Whole(u \o << Newline >>, x)
<1> DEFINE e == << Newline >>
           w == u \o e
           n == Len(u)
<1>1. u \in Seq(Items) /\ e \in Seq(Items) /\ DOMAIN e = { 1 } /\ Len(e) = 1
      /\ e[1].what = "newline"
    BY DEF Piece, Newline, Items, Layout
<1> HIDE DEF e
<1>2. /\ w \in Seq(Items) /\ n \in Nat /\ Len(w) = n + 1
      /\ \A i \in DOMAIN u : i \in DOMAIN w /\ w[i] = u[i]
      /\ n + 1 \in DOMAIN w /\ w[n + 1] = e[1]
      /\ \A i \in DOMAIN w : i \in DOMAIN u \/ i = n + 1
    BY <1>1, Behind, ConcatProperties, LenProperties
<1> HIDE DEF w, n
<1>3. \A i \in DOMAIN u : u[i].what # "newline" /\ (i \in Solid(u) => u[i].of = x)
    BY DEF Piece, Ends
<1>4. Ends(w) = { n + 1 }
    BY <1>1, <1>2, <1>3 DEF Ends
<1>5. Solid(w) # {} /\ \A i \in Solid(w) : w[i].of = x
    BY <1>1, <1>2, <1>3 DEF Solid, Layout
<1> QED
    BY <1>2, <1>4, <1>5 DEF Whole, w, e

RoomFor(w, x) == \A i \in LastLine(w) : Beside(w[i].of, x)

(* What stands on the last line of u, which is w with v behind it.         *)
Continued(u, w, v, x) ==
    \A i \in LastLine(u) :
        /\ Piece(v, x)
        /\ \/ Solid(v) # {} /\ u[i].of = x
           \/ i \in LastLine(w) /\ u[i] = w[i]

(* A piece of x is written, and x may stand beside all that is on the line. *)
LEMMA LineGoesOn ==
    ASSUME NEW w \in Seq(Items), NEW x, NEW v, Piece(v, x) \/ Whole(v, x),
           LinesApart(w), RoomFor(w, x)
    PROVE  LinesApart(w \o v) /\ Continued(w \o v, w, v, x)
<1> DEFINE u == w \o v
           n == Len(w)
<1>1. v \in Seq(Items) /\ \A j \in Solid(v) : v[j].of = x
    BY DEF Piece, Whole
<1>2. /\ u \in Seq(Items) /\ n \in Nat
      /\ \A i \in DOMAIN w : i \in DOMAIN u /\ u[i] = w[i] /\ i <= n
      /\ \A j \in DOMAIN v : n + j \in DOMAIN u /\ u[n + j] = v[j] /\ n + j > n
      /\ \A i \in DOMAIN u : i \in DOMAIN w \/ \E j \in DOMAIN v : i = n + j
      /\ DOMAIN w = 1 .. n /\ DOMAIN v = 1 .. Len(v) /\ Len(v) \in Nat
    BY <1>1, Behind, LenProperties
<1> HIDE DEF u, n
<1>3. /\ \A i : i \in Solid(u) <=> i \in Solid(w) \/ \E j \in Solid(v) : i = n + j
      /\ \A i : i \in Ends(u) <=> i \in Ends(w) \/ \E j \in Ends(v) : i = n + j
      /\ Solid(w) \subseteq 1 .. n /\ Ends(w) \subseteq 1 .. n
      /\ Solid(v) \subseteq 1 .. Len(v) /\ Ends(v) \subseteq 1 .. Len(v)
    BY <1>2 DEF Solid, Ends
<1>4. /\ \A i \in Solid(w) : u[i] = w[i]
      /\ \A j \in Solid(v) : u[n + j].of = x
    BY <1>1, <1>2 DEF Solid
<1>5. \A i, j \in 1 .. n : Unbroken(u, i, j) <=> Unbroken(w, i, j)
    <2> SUFFICES ASSUME NEW i \in 1 .. n, NEW j \in 1 .. n
                 PROVE  Unbroken(u, i, j) <=> Unbroken(w, i, j)
        OBVIOUS
    <2>1. \A k \in i .. j : k \in DOMAIN w /\ u[k] = w[k]
        BY <1>2
    <2> QED
        BY <2>1 DEF Unbroken
<1>6. ASSUME NEW i \in Solid(u), NEW j \in Solid(u), i < j, Unbroken(u, i, j)
      PROVE  Beside(u[i].of, u[j].of)
    <2>1. CASE i \in Solid(w) /\ j \in Solid(w)
        BY <1>3, <1>4, <1>5, <1>6, <2>1 DEF LinesApart
    <2>2. ASSUME i \in Solid(w), NEW l \in Solid(v), j = n + l PROVE Beside(u[i].of, u[j].of)
        <3>1. ASSUME NEW e \in Ends(w), ~ (e < i) PROVE FALSE
            <4>1. e \in i .. j /\ u[e].what = "newline"
                BY <1>2, <1>3, <2>2, <3>1 DEF Ends
            <4> QED
                BY <1>6, <4>1 DEF Unbroken
        <3>2. i \in LastLine(w)
            BY <2>2, <3>1 DEF LastLine
        <3> QED
            BY <1>4, <2>2, <3>2 DEF RoomFor
    <2>3. ASSUME NEW k \in Solid(v), i = n + k, NEW l \in Solid(v), j = n + l
          PROVE  Beside(u[i].of, u[j].of)
        BY <1>4, <2>3 DEF Beside
    <2>4. ASSUME NEW k \in Solid(v), i = n + k, j \in Solid(w) PROVE FALSE
        BY <1>2, <1>3, <1>6, <2>4
    <2> QED
        BY <1>3, <2>1, <2>2, <2>3, <2>4
<1>7. ASSUME NEW e \in Ends(u)
      PROVE  \E i \in Solid(u) : i < e /\ Unbroken(u, i, e - 1)
    <2>1. CASE e \in Ends(w)
        <3>1. PICK i \in Solid(w) : i < e /\ Unbroken(w, i, e - 1)
            BY <2>1 DEF LinesApart
        <3>2. i \in 1 .. n /\ e - 1 \in 1 .. n
            BY <1>2, <1>3, <2>1, <3>1
        <3> QED
            BY <1>3, <1>5, <3>1, <3>2
    <2>2. ASSUME NEW l \in Ends(v), e = n + l
          PROVE  \E i \in Solid(u) : i < e /\ Unbroken(u, i, e - 1)
        <3>1. Ends(v) = { Len(v) } /\ Solid(v) # {}
            BY <2>2 DEF Piece, Whole
        <3>2. PICK k \in Solid(v) : TRUE
            BY <3>1
        <3>3. k \in 1 .. Len(v) /\ l = Len(v) /\ k # l
            BY <1>3, <2>2, <3>1, <3>2 DEF Solid, Ends, Layout
        <3>4. Unbroken(u, n + k, e - 1)
            <4> SUFFICES ASSUME NEW m \in (n + k) .. (e - 1) PROVE u[m].what # "newline"
                BY DEF Unbroken
            <4>1. m - n \in 1 .. Len(v) /\ m - n # Len(v) /\ m = n + (m - n)
                <5>1. n \in Nat /\ k \in Nat /\ Len(v) \in Nat /\ k >= 1 /\ e = n + Len(v)
                    BY <1>2, <2>2, <3>3
                <5>2. m \in Int /\ n + k <= m /\ m <= e - 1
                    BY <5>1
                <5> QED
                    BY <5>1, <5>2
            <4>2. u[m] = v[m - n]
                BY <1>2, <4>1
            <4>3. m - n \notin Ends(v)
                BY <3>1, <4>1
            <4> QED
                BY <1>2, <4>1, <4>2, <4>3 DEF Ends
        <3>5. n + k \in Solid(u) /\ n + k < e
            <4>1. n + k \in Solid(u)
                BY <1>3, <3>2
            <4>2. PICK m : m = Len(v)
                OBVIOUS
            <4>3. n \in Nat /\ m \in Nat /\ k \in 1 .. m /\ k # m /\ e = n + m
                BY <1>2, <2>2, <3>3, <4>2
            <4> QED
                BY <4>1, <4>3
        <3> QED
            BY <3>4, <3>5
    <2> QED
        BY <1>3, <2>1, <2>2
<1>8. ASSUME NEW i \in LastLine(u)
      PROVE  /\ Piece(v, x)
             /\ \/ Solid(v) # {} /\ u[i].of = x
                \/ i \in LastLine(w) /\ u[i] = w[i]
    <2>1. i \in Solid(u) /\ \A e \in Ends(u) : e < i
        BY <1>8 DEF LastLine
    <2>2. Piece(v, x)
        <3> SUFFICES ASSUME Whole(v, x) PROVE FALSE
            OBVIOUS
        <3>1. n + Len(v) \in Ends(u)
            BY <1>3 DEF Whole
        <3>2. PICK e : e = n + Len(v) /\ e < i
            BY <2>1, <3>1
        <3>3. CASE i \in 1 .. n
            BY <1>2, <3>2, <3>3
        <3>4. ASSUME NEW j \in 1 .. Len(v), i = n + j PROVE FALSE
            BY <1>2, <3>2, <3>4
        <3> QED
            BY <1>3, <2>1, <3>3, <3>4
    <2>3. CASE i \in Solid(w)
        <3>1. \A e \in Ends(w) : e < i
            BY <1>3, <2>1
        <3>2. i \in LastLine(w)
            BY <2>3, <3>1 DEF LastLine
        <3> QED
            BY <1>4, <2>2, <2>3, <3>2
    <2>4. CASE i \notin Solid(w)
        BY <1>3, <1>4, <2>1, <2>2, <2>4
    <2> QED
        BY <2>2, <2>3, <2>4
<1> QED
    BY <1>6, <1>7, <1>8 DEF LinesApart, Continued, u

(* The tree is as it was.                                                  *)
LEMMA SameLines ==
    ASSUME NEW w, LinesApart(w), UNCHANGED tree, output'[FALSE] = w
    PROVE  /\ LinesApart(output[FALSE])'
           /\ LastLine(output[FALSE])' = LastLine(w)
           /\ \A a : IsElement(a)' = IsElement(a)
           /\ UNCHANGED << node, children >>
<1>1. UNCHANGED << node, children >>
    BY DEF node, children
<1>2. /\ \A a, b : Beside(a, b)' = Beside(a, b)
      /\ \A a : IsElement(a)' = IsElement(a)
    BY <1>1 DEF Beside, Below, Subtree, ChildrenIn, IsElement, IsArtificial, IsVoid
<1>3. Solid(output[FALSE])' = Solid(w) /\ Ends(output[FALSE])' = Ends(w)
    BY DEF Solid, Ends, Layout
<1>4. LastLine(output[FALSE])' = LastLine(w)
    BY <1>3 DEF LastLine
<1>5. LinesApart(output[FALSE])'
    BY <1>2, <1>3 DEF LinesApart, Unbroken
<1> QED
    BY <1>1, <1>2, <1>4, <1>5

(* All that is on the line may have x beside it.                           *)
LEMMA LineAround ==
    ASSUME NEW w, Begun(w), NEW x, OnStack \subseteq Ancestors(x) \cup { x },
           calling # NULL \/ x = Frame.node
    PROVE  RoomFor(w, x)
BY DEF RoomFor, Begun, Beside, Ancestors

(* A visit that writes v, and leaves the line open only for what stays open. *)
LEMMA LineVisit ==
    ASSUME LineInv, OrderInv', calling # NULL, NEW x, x = calling,
           \/ Return /\ x \in Barren
           \/ WaitFor(x) /\ x \notin Barren,
           NEW v, output'[FALSE] = output[FALSE] \o v,
           Piece(v, x) \/ Whole(v, x),
           Piece(v, x) /\ Solid(v) # {} =>
                WaitFor(x) /\ IsElement(x) /\ (node[x].has_text \/ children[x] = << >>)
    PROVE  LineInv'
<1>1. /\ OrderInv /\ OutputInv /\ WalkInv /\ InTree /\ InTree'
      /\ output[FALSE] \in Seq(Items) /\ LinesApart(output[FALSE]) /\ Begun(output[FALSE])
    BY DEF LineInv, OrderInv, OutputInv
<1>2. /\ UNCHANGED tree /\ Ancestors(x) = OnStack
      /\ OnStack' = OnStack \cup ({ x } \ Barren)
    BY <1>1, VisitStep
<1>3. calling' = NULL /\ (WaitFor(x) => Frame'.node = x)
    <2>1. calling' = NULL
        BY DEF Return, WaitFor
    <2>2. ASSUME WaitFor(x) PROVE Frame'.node = x
        <3> DEFINE F == [ node : DOMAIN node, next : Nat \ {0} ]
                   frame == [ node |-> x, next |-> 1 ]
        <3>1. x \in DOMAIN node /\ stack \in Seq(F) /\ frame \in F
            BY <1>1 DEF InTree
        <3>2. frame.node = x /\ stack' = Append(stack, frame)
            BY <2>2 DEF WaitFor
        <3> HIDE DEF F, frame
        <3>3. Last(stack') = frame
            BY <3>1, <3>2, AppendProperties DEF Last
        <3> QED
            BY <3>2, <3>3 DEF Frame
    <2> QED
        BY <2>1, <2>2
<1>4. PICK w, u : w = output[FALSE] /\ u = w \o v
    OBVIOUS
<1>5. RoomFor(w, x)
    BY <1>1, <1>2, <1>4, LineAround
<1>6. LinesApart(u) /\ Continued(u, w, v, x)
    <2>1. w \in Seq(Items) /\ LinesApart(w)
        BY <1>1, <1>4
    <2> QED
        BY <1>4, <1>5, <2>1, LineGoesOn
<1>7. /\ LinesApart(output[FALSE])' /\ LastLine(output[FALSE])' = LastLine(u)
      /\ \A a : IsElement(a)' = IsElement(a)
      /\ UNCHANGED << node, children >>
    BY <1>2, <1>4, <1>6, SameLines
<1>8. ASSUME NEW i \in LastLine(u), NEW a, a = u[i].of
      PROVE  /\ a \in OnStack' /\ IsElement(a)
             /\ node[a].has_text \/ (a = Frame'.node /\ children[a] = << >>)
    <2>1. CASE Solid(v) # {} /\ a = x
        <3>1. WaitFor(x) /\ IsElement(x) /\ (node[x].has_text \/ children[x] = << >>)
            BY <1>6, <1>8, <2>1 DEF Continued
        <3>2. x \notin Barren
            BY <3>1 DEF Barren
        <3> QED
            BY <1>2, <1>3, <2>1, <3>1, <3>2
    <2>2. CASE i \in LastLine(w) /\ a = w[i].of
        <3>1. a \in OnStack /\ IsElement(a) /\ node[a].has_text
            BY <1>1, <1>4, <2>2 DEF Begun
        <3> QED
            BY <1>2, <3>1
    <2> QED
        BY <1>6, <1>8, <2>1, <2>2 DEF Continued
<1>9. Begun(output[FALSE])'
    <2>1. output'[FALSE] = u
        BY <1>4
    <2> QED
        BY <1>3, <1>7, <1>8, <2>1 DEF Begun
<1> QED
    BY <1>7, <1>9 DEF LineInv

(* A return, which ends the line when it writes.                           *)
LEMMA LineReturn ==
    ASSUME LineInv, OrderInv', Waiting, LastChild, stack' = Front(stack),
           UNCHANGED << tree, calling >>, NEW x, x = Frame.node,
           \/ UNCHANGED output /\ ~ IsElement(x)
           \/ \E v : Whole(v, x) /\ output'[FALSE] = output[FALSE] \o v
    PROVE  LineInv'
<1>1. /\ OrderInv /\ OutputInv /\ WalkInv /\ InTree /\ InTree'
      /\ output[FALSE] \in Seq(Items) /\ LinesApart(output[FALSE]) /\ Begun(output[FALSE])
    BY DEF LineInv, OrderInv, OutputInv
<1>2. /\ OnStack' = Ancestors(x) /\ OnStack = Ancestors(x) \cup { x }
      /\ UNCHANGED << tree, calling >>
    BY <1>1, DropStep
<1>3. PICK w : w = output[FALSE]
    OBVIOUS
<1>4. CASE UNCHANGED output /\ ~ IsElement(x)
    <2>1. /\ LinesApart(output[FALSE])' /\ LastLine(output[FALSE])' = LastLine(w)
          /\ \A a : IsElement(a)' = IsElement(a)
          /\ UNCHANGED << node, children >>
        BY <1>1, <1>2, <1>3, <1>4, SameLines
    <2>2. \A i \in LastLine(w) :
              w[i].of \in OnStack' /\ IsElement(w[i].of) /\ node[w[i].of].has_text
        BY <1>1, <1>2, <1>3, <1>4 DEF Begun
    <2>3. Begun(output[FALSE])'
        BY <1>3, <1>4, <2>1, <2>2 DEF Begun
    <2> QED
        BY <2>1, <2>3 DEF LineInv
<1>5. ASSUME NEW v, Whole(v, x), output'[FALSE] = output[FALSE] \o v PROVE LineInv'
    <2>1. PICK u : u = w \o v
        OBVIOUS
    <2>2. RoomFor(w, x)
        BY <1>1, <1>2, <1>3, LineAround
    <2>3. LinesApart(u) /\ \A i \in LastLine(u) : Piece(v, x)
        BY <1>1, <1>3, <1>5, <2>1, <2>2, LineGoesOn DEF Continued
    <2>4. LastLine(u) = {}
        BY <1>5, <2>3 DEF Piece, Whole
    <2>5. LinesApart(output[FALSE])' /\ LastLine(output[FALSE])' = {}
        BY <1>2, <1>3, <1>5, <2>1, <2>3, <2>4, SameLines
    <2>6. Begun(output[FALSE])'
        BY <2>5 DEF Begun
    <2> QED
        BY <2>5, <2>6 DEF LineInv
<1> QED
    BY <1>4, <1>5

LEMMA LineStep == LineInv /\ [Next]_vars => LineInv'
<1> SUFFICES ASSUME LineInv, [Next]_vars PROVE LineInv'
    OBVIOUS
<1>1. /\ OrderInv /\ OrderInv' /\ OutputInv /\ WalkInv /\ InTree /\ InTree'
      /\ output[FALSE] \in Seq(Items) /\ LinesApart(output[FALSE]) /\ Begun(output[FALSE])
    BY OrderStep DEF LineInv, OrderInv, OutputInv
<1>2. CASE EnterRoot
    <2>1. PICK x : x = calling /\ calling # NULL
        BY <1>2 DEF EnterRoot
    <2>2. WaitFor(x) /\ x \notin Barren /\ x \in DOMAIN node
        BY <1>1, <1>2, <2>1 DEF EnterRoot, Barren, InTree
    <2>3. output'[FALSE] = output[FALSE] \o << >>
        BY <1>1, <1>2, ConcatEmptySeq DEF EnterRoot
    <2>4. Piece(<< >>, x) /\ Solid(<< >>) = {}
        <3>1. << >> \in Seq(Items) /\ DOMAIN << >> = {}
            OBVIOUS
        <3>2. Solid(<< >>) = {} /\ Ends(<< >>) = {}
            BY <3>1 DEF Solid, Ends
        <3> QED
            BY <3>1, <3>2 DEF Piece
    <2> QED
        BY <1>1, <2>1, <2>2, <2>3, <2>4, LineVisit
<1>3. CASE RenderLeaf \/ RenderVoid
    <2>1. PICK what, x :
             /\ x = calling /\ calling # NULL /\ Return /\ what \in NodeType \cup { "open" }
             /\ ~ IsArtificial(x) /\ ~ IsElement(x) /\ x \in DOMAIN node
             /\ \E u : Write(Margin(x) \o << Item(what, x) >> \o << Newline >>, u)
        <3>1. CASE RenderLeaf
            <4>1. calling \in DOMAIN node /\ node[calling].type \in NodeType
                BY <1>1, <3>1, Visited, TreeFacts DEF RenderLeaf
            <4> QED
                BY <3>1, <4>1 DEF RenderLeaf, IsArtificial, IsElement
        <3>2. CASE RenderVoid
            BY <1>1, <3>2, Visited DEF RenderVoid, IsArtificial, IsElement, IsVoid
        <3> QED
            BY <1>3, <3>1, <3>2
    <2>2. x \in Barren
        BY <2>1 DEF Barren
    <2> DEFINE item == << Item(what, x) >>
               v == (Margin(x) \o item) \o << Newline >>
    <2>3. Piece(Margin(x), x) /\ Piece(item, x) /\ Solid(item) # {}
        BY <1>1, <2>1, PieceParts
    <2>4. Whole(v, x)
        <3> HIDE DEF item
        <3>1. Piece(Margin(x) \o item, x) /\ Solid(Margin(x) \o item) # {}
            BY <2>3, PieceJoined
        <3> QED
            BY <3>1, LineEnded
    <2>5. output'[FALSE] = output[FALSE] \o v
        BY <1>1, <2>1, WritesBehind
    <2> HIDE DEF v
    <2>6. ~ Piece(v, x)
        BY <2>4 DEF Piece, Whole
    <2> QED
        BY <1>1, <2>1, <2>2, <2>4, <2>5, <2>6, LineVisit
<1>4. CASE RenderBlockComment
    <2>1. PICK x : /\ x = calling /\ calling # NULL /\ Return /\ Write(Margin(x), << >>)
                   /\ node[x].type = "BLOCK_COMMENT"
        BY <1>4 DEF RenderBlockComment
    <2>2. x \in DOMAIN node /\ x \in Barren
        BY <1>1, <2>1, Visited DEF Barren, IsArtificial, IsElement
    <2>3. Piece(Margin(x), x)
        BY <1>1, <2>2, PieceParts
    <2>4. Solid(Margin(x)) = {}
        BY DEF Solid, Margin, Indent, Layout
    <2>5. output'[FALSE] = output[FALSE] \o Margin(x)
        BY <1>1, <2>1, WritesBehind
    <2> QED
        BY <1>1, <2>1, <2>2, <2>3, <2>4, <2>5, LineVisit
<1>5. CASE OpenTag
    <2>1. PICK x, text, break :
             /\ x = calling /\ calling # NULL /\ WaitFor(x) /\ IsElement(x)
             /\ text = << >> \/ text = << Item("text", x) >>
             /\ \/ break = << Newline >>
                \/ break = << >> /\ (node[x].has_text \/ children[x] = << >>)
             /\ \E u : Write(Margin(x) \o (<< Item("open", x) >> \o text) \o break, u)
        BY <1>5 DEF OpenTag
    <2>2. x \in DOMAIN node /\ x \notin Barren
        BY <1>1, <2>1, Visited DEF Barren
    <2> DEFINE start == Margin(x) \o (<< Item("open", x) >> \o text)
               v == start \o break
    <2>3. Piece(start, x) /\ Solid(start) # {}
        <3> DEFINE open == << Item("open", x) >>
        <3>1. /\ Piece(Margin(x), x) /\ Piece(open, x) /\ Solid(open) # {}
              /\ Piece(text, x)
            BY <1>1, <2>1, <2>2, PieceParts
        <3> HIDE DEF open
        <3>2. Piece(open \o text, x) /\ Solid(open \o text) # {}
            BY <3>1, PieceJoined
        <3>3. Piece(Margin(x) \o (open \o text), x) /\ Solid(Margin(x) \o (open \o text)) # {}
            BY <3>1, <3>2, PieceJoined
        <3> QED
            BY <3>3 DEF open
    <2>4. output'[FALSE] = output[FALSE] \o v
        BY <1>1, <2>1, WritesBehind
    <2>5. \/ Whole(v, x)
          \/ Piece(v, x) /\ (node[x].has_text \/ children[x] = << >>)
        <3> HIDE DEF start
        <3>1. CASE break = << Newline >>
            BY <2>3, <3>1, LineEnded
        <3>2. CASE break = << >> /\ (node[x].has_text \/ children[x] = << >>)
            <4>1. start \o << >> = start
                BY <2>3, ConcatEmptySeq DEF Piece
            <4> QED
                BY <2>3, <3>2, <4>1
        <3> QED
            BY <2>1, <3>1, <3>2
    <2> HIDE DEF v
    <2>6. Whole(v, x) => ~ Piece(v, x)
        BY DEF Piece, Whole
    <2> QED
        BY <1>1, <2>1, <2>2, <2>4, <2>5, <2>6, LineVisit
<1>6. CASE CallChild
    <2>1. UNCHANGED << tree, output >> /\ OnStack' = OnStack
        BY <1>1, <1>6, CallStep
    <2>2. PICK w : w = output[FALSE]
        OBVIOUS
    <2>3. /\ LinesApart(output[FALSE])' /\ LastLine(output[FALSE])' = LastLine(w)
          /\ \A a : IsElement(a)' = IsElement(a)
          /\ UNCHANGED << node, children >>
        BY <1>1, <2>1, <2>2, SameLines
    <2>4. children[Frame.node] # << >>
        <3>1. stack # << >> /\ ~ (Frame.next > Len(children[Frame.node]))
            BY <1>6 DEF CallChild, Waiting, LastChild
        <3>2. Frame.next \in Nat \ {0}
            BY <1>1, <3>1, StackKept
        <3> QED
            BY <3>1, <3>2
    <2>5. \A i \in LastLine(w) :
              w[i].of \in OnStack /\ IsElement(w[i].of) /\ node[w[i].of].has_text
        BY <1>1, <2>2, <2>4 DEF Begun
    <2>6. Begun(output[FALSE])'
        BY <2>1, <2>2, <2>3, <2>5 DEF Begun
    <2> QED
        BY <1>1, <2>3, <2>6 DEF LineInv
<1>7. CASE CloseTag
    <2>1. PICK x, margin :
             /\ x = Frame.node /\ (margin = << >> \/ margin = Margin(x))
             /\ \E u : Write(margin \o << Item("close", x) >> \o << Newline >>, u)
        BY <1>7 DEF CloseTag
    <2>2. /\ Waiting /\ LastChild /\ stack' = Front(stack)
          /\ UNCHANGED tree /\ UNCHANGED calling
        BY <1>7 DEF CloseTag
    <2>3. x \in DOMAIN node
        BY <1>1, <2>1, <2>2, StackKept DEF Waiting
    <2> DEFINE tag == << Item("close", x) >>
               v == (margin \o tag) \o << Newline >>
    <2>4. Whole(v, x)
        <3>1. Piece(margin, x) /\ Piece(tag, x) /\ Solid(tag) # {}
            BY <1>1, <2>1, <2>3, PieceParts
        <3> HIDE DEF tag
        <3>2. Piece(margin \o tag, x) /\ Solid(margin \o tag) # {}
            BY <3>1, PieceJoined
        <3> QED
            BY <3>2, LineEnded
    <2>5. output'[FALSE] = output[FALSE] \o v
        BY <1>1, <2>1, WritesBehind
    <2> HIDE DEF v
    <2> QED
        BY <1>1, <2>1, <2>2, <2>4, <2>5, LineReturn
<1>8. CASE LeaveRoot
    <2>1. PICK x : x = Frame.node /\ ~ IsElement(x)
        BY <1>8 DEF LeaveRoot, IsElement
    <2> QED
        BY <1>1, <1>8, <2>1, LineReturn DEF LeaveRoot
<1>9. CASE UNCHANGED vars
    <2>1. UNCHANGED << tree, stack, calling, output >>
        BY <1>9 DEF vars
    <2>2. PICK w : w = output[FALSE]
        OBVIOUS
    <2>3. /\ LinesApart(output[FALSE])' /\ LastLine(output[FALSE])' = LastLine(w)
          /\ \A a : IsElement(a)' = IsElement(a)
          /\ UNCHANGED << node, children >>
        BY <1>1, <2>1, <2>2, SameLines
    <2>4. OnStack' = OnStack /\ Frame' = Frame
        BY <2>1 DEF OnStack, Frame, Last
    <2>5. Begun(output[FALSE])'
        BY <1>1, <2>1, <2>2, <2>3, <2>4 DEF Begun, NULL
    <2> QED
        BY <1>1, <2>3, <2>5 DEF LineInv
<1> QED
    BY <1>2, <1>3, <1>4, <1>5, <1>6, <1>7, <1>8, <1>9 DEF Next, Stopped

LEMMA LineBegin == Begin => LineInv
<1> SUFFICES ASSUME Begin PROVE LineInv
    OBVIOUS
<1>1. OrderInv /\ output[FALSE] = << >>
    BY OrderBegin DEF Begin
<1>2. Solid(<< >>) = {} /\ Ends(<< >>) = {}
    BY DEF Solid, Ends
<1> QED
    BY <1>1, <1>2 DEF LineInv, LinesApart, Begun, LastLine

(* For all trees: only what is below an element with text stands on the    *)
(* line of that element, and every line that ends has something on it.      *)
THEOREM LinesAreOwn == Spec => []OwnLines
<1>1. LineInv => OwnLines
    <2> SUFFICES ASSUME LineInv PROVE OwnLines
        OBVIOUS
    <2>1. LinesApart(output[FALSE])
        BY DEF LineInv
    <2> QED
        BY <2>1 DEF LinesApart, OwnLines, Solid, Ends, Beside
<1> QED
    BY <1>1, InitBegins, LineBegin, LineStep, PTL DEF Spec

-----------------------------------------------------------------------------
(***************************************************************************)
(* Minifying.                                                              *)
(***************************************************************************)
Stays(item) == item.what \notin Layout \cup Hidden

(* m is what stays of w.                                                   *)
Minified(w, m) ==
    /\ w \in Seq(Items) /\ m \in Seq(Items)
    /\ Len(m) = Cardinality(Staying(w))
    /\ \A i \in Staying(w) : w[i] = m[Cardinality(Staying(w) \cap 1 .. i)]

LEMMA StayingFacts ==
    ASSUME NEW w \in Seq(Items), NEW item \in Items
    PROVE  LET u == w \o << item >>
               n == Len(w)
           IN  /\ u \in Seq(Items) /\ n \in Nat
               /\ Staying(w) \subseteq 1 .. n /\ IsFiniteSet(Staying(w))
               /\ Staying(u) = IF Stays(item) THEN Staying(w) \cup { n + 1 } ELSE Staying(w)
               /\ \A i \in 1 .. n : u[i] = w[i]
               /\ u[n + 1] = item
<1> DEFINE u == w \o << item >>
           n == Len(w)
<1>1. /\ << item >> \in Seq(Items) /\ Len(<< item >>) = 1 /\ << item >>[1] = item
    OBVIOUS
<1>2. /\ n \in Nat /\ u \in Seq(Items) /\ Len(u) = n + 1
      /\ \A i \in 1 .. n + 1 : u[i] = IF i <= n THEN w[i] ELSE << item >>[i - n]
      /\ DOMAIN w = 1 .. n /\ DOMAIN u = 1 .. n + 1
    BY <1>1, ConcatProperties, LenProperties
<1> HIDE DEF u, n
<1>3. (\A i \in 1 .. n : u[i] = w[i]) /\ u[n + 1] = item
    BY <1>1, <1>2
<1>4. 1 .. n + 1 = (1 .. n) \cup { n + 1 } /\ n + 1 \notin 1 .. n
    BY <1>2
<1>5. Staying(u) = IF Stays(item) THEN Staying(w) \cup { n + 1 } ELSE Staying(w)
    BY <1>2, <1>3, <1>4 DEF Staying, Stays
<1>6. Staying(w) \subseteq 1 .. n
    BY <1>2 DEF Staying
<1>7. IsFiniteSet(Staying(w))
    <2>1. IsFiniteSet(1 .. n)
        BY <1>2, FS_Interval
    <2> QED
        BY <1>6, <2>1, FS_Subset
<1> QED
    BY <1>2, <1>3, <1>5, <1>6, <1>7 DEF u, n

LEMMA LeftOut ==
    ASSUME NEW w, NEW m, Minified(w, m), NEW item \in Items, ~ Stays(item)
    PROVE  Minified(w \o << item >>, m)
<1> DEFINE u == w \o << item >>
<1>1. /\ u \in Seq(Items) /\ Staying(u) = Staying(w) /\ Staying(w) \subseteq 1 .. Len(w)
      /\ \A i \in 1 .. Len(w) : u[i] = w[i]
    BY StayingFacts DEF Minified
<1> HIDE DEF u
<1>2. Minified(u, m)
    BY <1>1 DEF Minified
<1> QED
    BY <1>2 DEF u

LEMMA KeptToo ==
    ASSUME NEW w, NEW m, Minified(w, m), NEW item \in Items, Stays(item)
    PROVE  Minified(w \o << item >>, m \o << item >>)
<1> DEFINE u == w \o << item >>
           v == m \o << item >>
           n == Len(w)
           S == Staying(w)
           k == Cardinality(S)
<1>1. /\ u \in Seq(Items) /\ Staying(u) = S \cup { n + 1 } /\ S \subseteq 1 .. n
      /\ n \in Nat /\ IsFiniteSet(S)
      /\ \A i \in 1 .. n : u[i] = w[i]
      /\ u[n + 1] = item
    BY StayingFacts DEF Minified
<1>2. /\ v \in Seq(Items) /\ Len(m) = k /\ k \in Nat /\ Len(v) = k + 1
      /\ \A i \in 1 .. k : v[i] = m[i]
      /\ v[k + 1] = item
    <2>1. /\ m \in Seq(Items) /\ << item >> \in Seq(Items) /\ Len(<< item >>) = 1
          /\ << item >>[1] = item /\ Len(m) = k
        BY DEF Minified
    <2>2. /\ Len(m) \in Nat /\ v \in Seq(Items) /\ Len(v) = Len(m) + 1
          /\ \A i \in 1 .. Len(m) + 1 : v[i] = IF i <= Len(m) THEN m[i] ELSE << item >>[i - Len(m)]
        BY <2>1, ConcatProperties, LenProperties
    <2> HIDE DEF v, k
    <2> QED
        BY <2>1, <2>2
<1>3. \A i \in S : w[i] = m[Cardinality(S \cap 1 .. i)]
    BY DEF Minified
<1> HIDE DEF u, v, n, S
<1>4. Cardinality(S \cup { n + 1 }) = k + 1
    <2>1. n + 1 \notin S
        BY <1>1
    <2> QED
        BY <1>1, <2>1, FS_AddElement
<1>5. ASSUME NEW i \in S
      PROVE  u[i] = v[Cardinality((S \cup { n + 1 }) \cap 1 .. i)]
    <2>1. i \in 1 .. n /\ n + 1 \notin 1 .. i
        BY <1>1
    <2>2. (S \cup { n + 1 }) \cap 1 .. i = S \cap 1 .. i
        BY <2>1
    <2>3. Cardinality(S \cap 1 .. i) \in 1 .. k
        <3>1. S \cap 1 .. i \subseteq S /\ i \in S \cap 1 .. i
            BY <2>1
        <3>2. /\ IsFiniteSet(S \cap 1 .. i) /\ Cardinality(S \cap 1 .. i) <= k
            BY <1>1, <3>1, FS_Subset
        <3>3. Cardinality(S \cap 1 .. i) \in Nat /\ Cardinality(S \cap 1 .. i) # 0
            BY <3>1, <3>2, FS_CardinalityType, FS_EmptySet
        <3> QED
            BY <1>2, <3>2, <3>3
    <2> QED
        <3>1. u[i] = w[i] /\ w[i] = m[Cardinality(S \cap 1 .. i)]
            BY <1>1, <1>3, <2>1
        <3>2. m[Cardinality(S \cap 1 .. i)] = v[Cardinality(S \cap 1 .. i)]
            BY <1>2, <2>3
        <3> QED
            BY <2>2, <3>1, <3>2
<1>6. u[n + 1] = v[Cardinality((S \cup { n + 1 }) \cap 1 .. n + 1)]
    <2>1. (S \cup { n + 1 }) \cap 1 .. n + 1 = S \cup { n + 1 }
        <3>1. S \subseteq 1 .. n + 1 /\ n + 1 \in 1 .. n + 1
            BY <1>1
        <3> QED
            BY <3>1
    <2>2. Cardinality((S \cup { n + 1 }) \cap 1 .. n + 1) = k + 1
        BY <1>4, <2>1
    <2> HIDE DEF k
    <2> QED
        BY <1>1, <1>2, <2>2
<1>7. Minified(u, v)
    BY <1>1, <1>2, <1>4, <1>5, <1>6 DEF Minified
<1> QED
    BY <1>7 DEF u, v

(* Writing a piece that is layout only, an item that is left out when       *)
(* minified, or one that stays.                                             *)
LEMMA WritesLayout ==
    ASSUME NEW w, NEW m, Minified(w, m), NEW n \in Nat, tree.depth[n] \in Nat
    PROVE  /\ Minified(w \o << Newline >>, m)
           /\ Minified(w \o Margin(n), m)
<1>1. Newline \in Items /\ ~ Stays(Newline)
    BY DEF Newline, Items, Stays, Layout
<1>2. Indent(tree.depth[n]) \in Items /\ ~ Stays(Indent(tree.depth[n]))
    BY DEF Indent, Items, Stays, Layout
<1> QED
    BY <1>1, <1>2, LeftOut DEF Margin

LEMMA WritesItem ==
    ASSUME NEW w, NEW m, Minified(w, m), NEW n \in Nat,
           NEW what \in NodeType \cup { "open", "close", "text" }
    PROVE  Minified(w \o << Item(what, n) >>,
                    IF what \in Hidden THEN m ELSE m \o << Item(what, n) >>)
<1>1. Item(what, n) \in Items /\ Item(what, n).what = what
    BY DEF Item, Items
<1>2. what \notin Layout
    BY DEF Layout, NodeType, DirectiveType
<1>3. Stays(Item(what, n)) <=> what \notin Hidden
    BY <1>1, <1>2 DEF Stays
<1> QED
    BY <1>1, <1>3, LeftOut, KeptToo

LEMMA Join ==
    ASSUME NEW a \in Seq(Items), NEW b \in Seq(Items)
    PROVE  a \o b \in Seq(Items)
BY ConcatProperties, Zenon

LEMMA Regroup ==
    \A a, b, c \in Seq(Items) : a \o (b \o c) = (a \o b) \o c
<1> SUFFICES ASSUME NEW a \in Seq(Items), NEW b \in Seq(Items), NEW c \in Seq(Items)
             PROVE  a \o (b \o c) = (a \o b) \o c
    OBVIOUS
<1> QED
    BY ConcatAssociative

LEMMA RegroupFour ==
    \A a, b, c, d \in Seq(Items) : a \o ((b \o c) \o d) = ((a \o b) \o c) \o d
<1> SUFFICES ASSUME NEW a \in Seq(Items), NEW b \in Seq(Items), NEW c \in Seq(Items),
                    NEW d \in Seq(Items)
             PROVE  a \o ((b \o c) \o d) = ((a \o b) \o c) \o d
    OBVIOUS
<1>1. PICK bc \in Seq(Items) : bc = b \o c
    BY Join, Zenon
<1>2. a \o (bc \o d) = (a \o bc) \o d
    BY Regroup, Zenon
<1>3. a \o (b \o c) = (a \o b) \o c
    BY Regroup, Zenon
<1> QED
    BY <1>1, <1>2, <1>3, Zenon

MinifyInv == OutputInv /\ Minified(output[FALSE], output[TRUE])

LEMMA MinifyStep == MinifyInv /\ [Next]_vars => MinifyInv'
<1> SUFFICES ASSUME MinifyInv, [Next]_vars PROVE MinifyInv'
    OBVIOUS
<1>1. OutputInv /\ OutputInv' /\ InTree /\ DOMAIN node \subseteq Nat
      /\ \A n \in DOMAIN node : tree.depth[n] \in Nat
    BY OutputStep, TreeFacts DEF MinifyInv, OutputInv
<1>2. PICK w, m : w = output[FALSE] /\ m = output[TRUE]
    OBVIOUS
<1>3. Minified(w, m) /\ w \in Seq(Items) /\ m \in Seq(Items) /\ m \o << >> = m
      /\ \A u, v : Write(v, u) => output'[FALSE] = w \o v /\ output'[TRUE] = m \o u
    <2>1. Minified(w, m) /\ w \in Seq(Items) /\ m \in Seq(Items)
        BY <1>2 DEF MinifyInv, Minified
    <2> QED
        BY <1>1, <1>2, <2>1, WritesBehind, ConcatEmptySeq
<1> DEFINE Kept == Minified(output'[FALSE], output'[TRUE])
<1>4. CASE RenderLeaf \/ RenderVoid
    <2>1. PICK what, x :
             /\ x \in DOMAIN node /\ what \in NodeType \cup { "open", "close", "text" }
             /\ Write(Margin(x) \o << Item(what, x) >> \o << Newline >>,
                      IF what \in Hidden THEN << >> ELSE << Item(what, x) >>)
        <3>1. CASE RenderLeaf
            <4>1. calling \in DOMAIN node /\ node[calling].type \in NodeType
                BY <1>1, <3>1, TreeFacts DEF RenderLeaf, InTree
            <4> QED
                BY <3>1, <4>1 DEF RenderLeaf
        <3>2. CASE RenderVoid
            <4>1. calling \in DOMAIN node /\ "open" \notin Hidden
                BY <1>1, <3>2 DEF RenderVoid, InTree, Hidden
            <4> QED
                BY <3>2, <4>1 DEF RenderVoid
        <3> QED
            BY <1>4, <3>1, <3>2
    <2> DEFINE i == << Item(what, x) >>
               m2 == IF what \in Hidden THEN m ELSE m \o i
    <2>2. Margin(x) \in Seq(Items) /\ i \in Seq(Items) /\ << Newline >> \in Seq(Items)
        BY <1>1, <2>1, Pieces
    <2>3. x \in Nat /\ tree.depth[x] \in Nat
        BY <1>1, <2>1
    <2>4. Minified(w \o Margin(x), m)
        BY <1>3, <2>3, WritesLayout
    <2>5. Minified((w \o Margin(x)) \o i, m2)
        BY <2>1, <2>3, <2>4, WritesItem
    <2>6. Minified(((w \o Margin(x)) \o i) \o << Newline >>, m2)
        BY <2>3, <2>5, WritesLayout
    <2>7. output'[FALSE] = ((w \o Margin(x)) \o i) \o << Newline >>
        <3> HIDE DEF i
        <3>1. output'[FALSE] = w \o ((Margin(x) \o i) \o << Newline >>)
            BY <1>3, <2>1 DEF i
        <3>2. w \in Seq(Items)
            BY <1>3
        <3> QED
            BY <2>2, <3>1, <3>2, RegroupFour
    <2>8. output'[TRUE] = m2
        BY <1>3, <2>1
    <2> QED
        BY <1>1, <2>6, <2>7, <2>8 DEF MinifyInv
<1>5. CASE RenderBlockComment
    <2>1. calling \in DOMAIN node /\ Write(Margin(calling), << >>)
        BY <1>1, <1>5 DEF RenderBlockComment, InTree
    <2>2. output'[FALSE] = w \o Margin(calling) /\ output'[TRUE] = m
        BY <1>3, <2>1
    <2>3. Minified(w \o Margin(calling), m)
        BY <1>1, <1>3, <2>1, WritesLayout
    <2> QED
        BY <1>1, <2>2, <2>3 DEF MinifyInv
<1>6. CASE OpenTag
    <2>1. PICK x, text, break :
             /\ x \in DOMAIN node
             /\ text = << >> \/ text = << Item("text", x) >>
             /\ break = << >> \/ break = << Newline >>
             /\ Write(Margin(x) \o (<< Item("open", x) >> \o text) \o break,
                      << Item("open", x) >> \o text)
        BY <1>1, <1>6 DEF OpenTag, InTree
    <2> DEFINE open == << Item("open", x) >>
    <2>2. /\ Margin(x) \in Seq(Items) /\ open \in Seq(Items) /\ text \in Seq(Items)
          /\ break \in Seq(Items) /\ "open" \notin Hidden /\ "text" \notin Hidden
        BY <1>1, <2>1, Pieces DEF Hidden
    <2>3. x \in Nat /\ tree.depth[x] \in Nat
        BY <1>1, <2>1
    <2>4. Minified(w \o Margin(x), m)
        BY <1>3, <2>3, WritesLayout
    <2>5. Minified((w \o Margin(x)) \o open, m \o open)
        BY <2>2, <2>3, <2>4, WritesItem
    <2>6. Minified(((w \o Margin(x)) \o open) \o text, (m \o open) \o text)
        <3>1. CASE text = << >>
            <4> HIDE DEF open
            <4>1. (w \o Margin(x)) \o open \in Seq(Items) /\ m \o open \in Seq(Items)
                BY <2>5 DEF Minified
            <4> QED
                BY <2>5, <3>1, <4>1, ConcatEmptySeq
        <3>2. CASE text = << Item("text", x) >>
            <4> HIDE DEF open
            <4> QED
                BY <2>2, <2>3, <2>5, <3>2, WritesItem
        <3> QED
            BY <2>1, <3>1, <3>2
    <2> HIDE DEF open
    <2>7. Minified((((w \o Margin(x)) \o open) \o text) \o break, (m \o open) \o text)
        <3>1. CASE break = << >>
            <4>1. ((w \o Margin(x)) \o open) \o text \in Seq(Items)
                BY <2>6 DEF Minified
            <4> QED
                BY <2>6, <3>1, <4>1, ConcatEmptySeq
        <3>2. CASE break = << Newline >>
            BY <2>3, <2>6, <3>2, WritesLayout
        <3> QED
            BY <2>1, <3>1, <3>2
    <2>8. output'[FALSE] = (((w \o Margin(x)) \o open) \o text) \o break
        <3>1. output'[FALSE] = w \o ((Margin(x) \o (open \o text)) \o break)
            BY <1>3, <2>1 DEF open
        <3>2. open \o text \in Seq(Items) /\ w \o Margin(x) \in Seq(Items)
            BY <1>3, <2>2, Join, Zenon
        <3>3. w \o ((Margin(x) \o (open \o text)) \o break)
                = ((w \o Margin(x)) \o (open \o text)) \o break
            <4>1. w \in Seq(Items) /\ Margin(x) \in Seq(Items) /\ break \in Seq(Items)
                BY <1>3, <2>2
            <4>2. PICK mid, front : mid = Margin(x) \o (open \o text) /\ front = open \o text
                OBVIOUS
            <4>3. front \in Seq(Items)
                BY <3>2, <4>2
            <4>4. mid \in Seq(Items)
                BY <4>1, <4>2, <4>3, Join, Zenon
            <4>5. w \o (mid \o break) = (w \o mid) \o break
                BY <4>1, <4>4, Regroup
            <4>6. w \o (Margin(x) \o front) = (w \o Margin(x)) \o front
                BY <4>1, <4>3, Regroup
            <4> QED
                BY <4>2, <4>5, <4>6
        <3>4. (w \o Margin(x)) \o (open \o text) = ((w \o Margin(x)) \o open) \o text
            <4>1. PICK front : front = w \o Margin(x)
                OBVIOUS
            <4>2. front \in Seq(Items) /\ open \in Seq(Items) /\ text \in Seq(Items)
                BY <2>2, <3>2, <4>1
            <4>3. front \o (open \o text) = (front \o open) \o text
                BY <4>2, Regroup
            <4> QED
                BY <4>1, <4>3
        <3> QED
            BY <3>1, <3>3, <3>4
    <2>9. output'[TRUE] = (m \o open) \o text
        <3>1. output'[TRUE] = m \o (open \o text)
            BY <1>3, <2>1 DEF open
        <3> QED
            BY <1>3, <2>2, <3>1, Regroup, Zenon
    <2> QED
        BY <1>1, <2>7, <2>8, <2>9 DEF MinifyInv
<1>7. CASE CloseTag
    <2>1. PICK x, margin :
             /\ x \in DOMAIN node
             /\ margin = << >> \/ margin = Margin(x)
             /\ Write(margin \o << Item("close", x) >> \o << Newline >>,
                      << Item("close", x) >>)
        BY <1>1, <1>7, StackKept DEF CloseTag, Waiting
    <2> DEFINE tag == << Item("close", x) >>
    <2>2. /\ Margin(x) \in Seq(Items) /\ tag \in Seq(Items) /\ << Newline >> \in Seq(Items)
          /\ margin \in Seq(Items) /\ "close" \notin Hidden
        BY <1>1, <2>1, Pieces DEF Hidden
    <2>3. x \in Nat /\ tree.depth[x] \in Nat
        BY <1>1, <2>1
    <2>4. Minified(w \o margin, m)
        BY <1>3, <2>1, <2>3, WritesLayout, ConcatEmptySeq
    <2>5. Minified((w \o margin) \o tag, m \o tag)
        BY <2>2, <2>3, <2>4, WritesItem
    <2>6. Minified(((w \o margin) \o tag) \o << Newline >>, m \o tag)
        BY <2>3, <2>5, WritesLayout
    <2>7. /\ output'[FALSE] = w \o ((margin \o tag) \o << Newline >>)
          /\ output'[TRUE] = m \o tag
        BY <1>3, <2>1
    <2>8. w \o ((margin \o tag) \o << Newline >>) = ((w \o margin) \o tag) \o << Newline >>
        <3> HIDE DEF tag
        <3> QED
            <4>1. /\ w \in Seq(Items) /\ margin \in Seq(Items) /\ tag \in Seq(Items)
                  /\ << Newline >> \in Seq(Items)
                BY <1>3, <2>2
            <4> QED
                BY <4>1, RegroupFour
    <2> QED
        BY <1>1, <2>6, <2>7, <2>8 DEF MinifyInv
<1>8. CASE UNCHANGED output
    <2>1. Minified(output'[FALSE], output'[TRUE])
        BY <1>2, <1>3, <1>8
    <2> QED
        BY <1>1, <2>1 DEF MinifyInv, Minified, Staying, Layout, Hidden
<1> QED
    BY <1>4, <1>5, <1>6, <1>7, <1>8
       DEF Next, Stopped, vars, EnterRoot, CallChild, LeaveRoot

(* For all trees: what is left of the output without layout, comments and   *)
(* placeholders is the minified output.                                     *)
THEOREM MinifiedOutput == Spec => []MinifyKeepsContent
<1>1. Init => MinifyInv
    <2> SUFFICES ASSUME Init PROVE MinifyInv
        OBVIOUS
    <2>1. OutputInv /\ output[FALSE] = << >> /\ output[TRUE] = << >>
        BY InitBegins, OutputBegin DEF Init
    <2>2. Staying(<< >>) = {} /\ << >> \in Seq(Items)
        BY DEF Staying
    <2>3. Minified(<< >>, << >>)
        BY <2>2, FS_EmptySet DEF Minified
    <2> QED
        BY <2>1, <2>3 DEF MinifyInv
<1>2. Spec => []MinifyInv
    BY <1>1, MinifyStep, PTL DEF Spec
<1>3. MinifyInv => MinifyKeepsContent
    BY DEF MinifyInv, Minified, MinifyKeepsContent
<1> QED
    BY <1>2, <1>3, PTL

=============================================================================
