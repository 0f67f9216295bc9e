------------------------- MODULE PugPipelineProofs -------------------------
(***************************************************************************)
(* Theorems about PugPipeline, for all documents and whatever allocations  *)
(* fail: the invariants of the tokenizer, the parser and the renderer,     *)
(* each proved in a module of its own, hold of the stages of the program,  *)
(* and together they say what the program does as a whole.  The second     *)
(* half is about its memory: nothing is freed twice, and what is left      *)
(* behind at the end are the nodes that do not hang in the tree.           *)
(***************************************************************************)
EXTENDS PugPipeline, Integers, SequenceTheorems, FiniteSetTheorems, TLAPS

-----------------------------------------------------------------------------
(***************************************************************************)
(* The memory of the program: which blocks are allocated besides the       *)
(* nodes, and, while the tree is freed, which of its nodes are.  This part *)
(* knows of the tree only that its nodes are apart.                        *)
(***************************************************************************)

NodeBlocks == { NodeBlock(n) : n \in DOMAIN node }

(* The stages before there is a node.                                      *)
Unread == { "read", "show", "tokenize", "root" }

(* What is allocated besides the nodes.                                    *)
Kept ==
    { b \in { Content } : stage \notin { "read", "exit" } }
      \cup { b \in TokensOf(token_list) :
                stage \in { "show", "tokenize", "root", "parse", "render", "free" } }
      \cup { b \in { Context } :
                stage \in { "root", "parse", "render", "free", "tree", "context" } }
      \cup { b \in { Html } :
                node # << >> /\ stage \notin Unread \cup { "parse", "exit" } }

(* The nodes that were freed.                                              *)
Gone == { n \in DOMAIN node : NodeBlock(n) \notin live }

(* The calls of ast_node_free are a path from the root down; below a call  *)
(* the children before the counter are freed and those behind it are not.  *)
OnPath == { freeing[l].node : l \in 1 .. Len(freeing) }
Visiting(l) ==
    LET n == freeing[l].node
        next == freeing[l].next
        last == IF l = Len(freeing) THEN next ELSE next - 1
    IN  /\ next <= Len(children[n]) + 1
        /\ \A i \in DOMAIN children[n] : i < last => children[n][i] \in Gone
        /\ \A i \in DOMAIN children[n] : i >= next => children[n][i] \notin Gone
        /\ l < Len(freeing) => /\ last \in DOMAIN children[n]
                               /\ freeing[l + 1].node = children[n][last]

FreeingInv ==
    /\ freeing \in Seq([ node : DOMAIN node, next : Nat \ {0} ])
    /\ freeing # << >> /\ freeing[1].node = Parser!Root
    /\ \A l \in 1 .. Len(freeing) : Visiting(l)
    /\ OnPath \cap Gone = {} /\ OnPath \cup Gone \subseteq InTree
    /\ \A n \in Gone : \A i \in DOMAIN children[n] : children[n][i] \in Gone
    /\ \A n \in DOMAIN node \ (Gone \cup OnPath) :
          \A i \in DOMAIN children[n] : children[n][i] \notin Gone

LiveInv == Kept \subseteq live /\ live \subseteq Kept \cup NodeBlocks

FreedInv ==
    /\ stage \notin { "tree", "context", "report", "exit" } => Gone = {}
    /\ stage = "tree" => FreeingInv
    /\ stage \in { "context", "report", "exit" } /\ node # << >> => Gone = InTree

LEMMA BlocksApart ==
    /\ Content \notin { List, Context, Html } /\ List \notin { Context, Html }
    /\ Context # Html
    /\ \A i, n : /\ TokenBlock(i) \notin { Content, List, Context, Html, NodeBlock(n) }
                 /\ NodeBlock(i) \notin { Content, List, Context, Html }
                 /\ NodeBlock(i) = NodeBlock(n) => i = n
                 /\ TokenBlock(i) = TokenBlock(n) => i = n
BY DEF Content, List, Context, Html, TokenBlock, NodeBlock

(* Only the nodes are not in Kept.                                         *)
LEMMA KeptApart ==
    /\ NodeBlocks \cap Kept = {} /\ Kept \subseteq TokensOf(token_list) \cup { Content, Context, Html }
    /\ NodeBlocks \cap TokensOf(token_list) = {}
    /\ { Content, Context, Html } \cap TokensOf(token_list) = {}
<1>1. Kept \subseteq TokensOf(token_list) \cup { Content, Context, Html }
    BY DEF Kept
<1>2. \A n : NodeBlock(n) \notin TokensOf(token_list) \cup { Content, Context, Html }
    BY BlocksApart DEF TokensOf
<1>3. { Content, Context, Html } \cap TokensOf(token_list) = {}
    BY BlocksApart DEF TokensOf
<1> QED
    BY <1>1, <1>2, <1>3 DEF NodeBlocks

(* A step that allocates and frees other blocks than nodes.                *)
LEMMA OtherBlocks ==
    ASSUME LiveInv, UNCHANGED << node, token_list >>,
           NEW new, NEW old, new \cap NodeBlocks = {}, old \cap NodeBlocks = {},
           live' = (live \ old) \cup new, Kept' = (Kept \ old) \cup new
    PROVE  LiveInv' /\ Gone' = Gone
<1>1. NodeBlocks' = NodeBlocks
    BY DEF NodeBlocks
<1>2. LiveInv'
    BY <1>1 DEF LiveInv
<1>3. \A n \in DOMAIN node : NodeBlock(n) \in NodeBlocks
    BY DEF NodeBlocks
<1>4. Gone' = Gone
    BY <1>3 DEF Gone
<1> QED
    BY <1>2, <1>4

LEMMA NotNodes ==
    /\ {} \cap NodeBlocks = {} /\ { Content } \cap NodeBlocks = {}
    /\ { List } \cap NodeBlocks = {} /\ { Context } \cap NodeBlocks = {}
    /\ { Html } \cap NodeBlocks = {} /\ TokensOf(token_list) \cap NodeBlocks = {}
<1>1. List \in TokensOf(token_list)
    BY DEF TokensOf
<1>2. \A n : NodeBlock(n) \notin { Content, List, Context, Html }
    BY BlocksApart
<1> QED
    BY <1>2, KeptApart DEF NodeBlocks

LEMMA Least ==
    ASSUME NEW a \in Int, NEW b \in Int, NEW T \in SUBSET (a .. b), T # {}
    PROVE  \E i \in T : \A j \in T : i <= j
<1> SUFFICES ASSUME \A i \in T : \E j \in T : j < i
             PROVE  FALSE
    OBVIOUS
<1> DEFINE U == { i \in a .. b : \E j \in T : j <= i }
           down == [ i \in U |-> i - 1 ]
<1>1. IsFiniteSet(U)
    <2>1. U \in SUBSET (a .. b) /\ IsFiniteSet(a .. b)
        BY FS_Interval
    <2> QED
        BY <2>1, FS_Subset
<1>2. \A i \in U : i - 1 \in U
    <2> TAKE i \in U
    <2>1. PICK j \in T : j <= i
        OBVIOUS
    <2>2. PICK k \in T : k < j
        OBVIOUS
    <2>3. j \in a .. b /\ k \in a .. b /\ i \in a .. b
        OBVIOUS
    <2> QED
        BY <2>1, <2>2, <2>3
<1>3. down \in Injection(U, U)
    <2>1. down \in [U -> U]
        BY <1>2
    <2>2. \A i, j \in U : down[i] = down[j] => i = j
        OBVIOUS
    <2> QED
        BY <2>1, <2>2 DEF Injection, IsInjective
<1>4. down \in Surjection(U, U)
    BY <1>1, <1>3, FS_Injection
<1>5. b \in U
    <2>1. PICK j \in T : TRUE
        OBVIOUS
    <2>2. j \in a .. b
        OBVIOUS
    <2> QED
        BY <2>1, <2>2
<1>6. \E i \in U : down[i] = b
    BY <1>4, <1>5 DEF Surjection
<1> QED
    BY <1>6

(* The children of a node come behind it and are those of no other node.   *)
ChildrenApart ==
    \A n \in DOMAIN node :
       /\ DOMAIN node \subseteq Nat \ {0} /\ DOMAIN children[n] = 1 .. Len(children[n])
       /\ Len(children[n]) \in Nat /\ 1 \in DOMAIN node
       /\ \A i \in DOMAIN children[n] :
             /\ children[n][i] \in DOMAIN node /\ n < children[n][i]
             /\ \A j \in DOMAIN children[n] : i < j => children[n][i] # children[n][j]
             /\ \A m \in DOMAIN node : \A j \in DOMAIN children[m] :
                   children[n][i] = children[m][j] => n = m
             /\ n \in InTree => children[n][i] \in InTree

LEMMA ChildIsApart ==
    ASSUME ChildrenApart, NEW n \in DOMAIN node
    PROVE  /\ DOMAIN node \subseteq Nat \ {0} /\ DOMAIN children[n] = 1 .. Len(children[n])
           /\ Len(children[n]) \in Nat /\ 1 \in DOMAIN node
           /\ \A i \in DOMAIN children[n] :
                 /\ children[n][i] \in DOMAIN node /\ n < children[n][i]
                 /\ \A j \in DOMAIN children[n] : i < j => children[n][i] # children[n][j]
                 /\ \A m \in DOMAIN node : \A j \in DOMAIN children[m] :
                       children[n][i] = children[m][j] => n = m
                 /\ n \in InTree => children[n][i] \in InTree
BY DEF ChildrenApart

(* The path goes down: no node is on it twice.                             *)
LEMMA PathFacts ==
    ASSUME ChildrenApart, FreeingInv
    PROVE  LET k == Len(freeing)
           IN  /\ k \in Nat /\ k >= 1 /\ DOMAIN freeing = 1 .. k
               /\ Last(freeing) = freeing[k] /\ Freed = freeing[k].node
               /\ \A l \in 1 .. k : /\ freeing[l].node \in DOMAIN node
                                    /\ freeing[l].next \in Nat \ {0}
               /\ \A l \in 1 .. k : freeing[l].node <= freeing[k].node
               /\ \A l \in 1 .. k - 1 : freeing[l].node < freeing[k].node
<1>1. PICK k \in Nat : k = Len(freeing)
    BY LenProperties DEF FreeingInv
<1>2. /\ k >= 1 /\ DOMAIN freeing = 1 .. k
      /\ \A l \in 1 .. k : freeing[l] \in [ node : DOMAIN node, next : Nat \ {0} ]
    <2>1. freeing \in Seq([ node : DOMAIN node, next : Nat \ {0} ]) /\ freeing # << >>
        BY DEF FreeingInv
    <2>2. k # 0
        BY <1>1, <2>1, EmptySeq
    <2>3. DOMAIN freeing = 1 .. k
        BY <1>1, <2>1, LenProperties
    <2>4. k >= 1
        BY <2>2
    <2> QED
        BY <2>1, <2>3, <2>4, ElementOfSeq, <1>1
<1>3. \A l \in 1 .. k : freeing[l].node \in DOMAIN node /\ freeing[l].next \in Nat \ {0}
    BY <1>2
<1>4. Last(freeing) = freeing[k] /\ Freed = freeing[k].node
    BY <1>1 DEF Last, Freed
<1>5. \A l \in 1 .. k - 1 : freeing[l].node < freeing[l + 1].node
    <2> TAKE l \in 1 .. k - 1
    <2>1. l \in 1 .. k /\ l < k
        BY <1>1
    <2>2. PICK i \in DOMAIN children[freeing[l].node] :
             freeing[l + 1].node = children[freeing[l].node][i]
        BY <1>1, <2>1 DEF FreeingInv, Visiting
    <2> QED
        BY <1>3, <2>1, <2>2, ChildIsApart
<1>6. \A l \in 1 .. k : freeing[l].node \in Nat
    BY <1>3, ChildIsApart
<1>7. \A l \in 1 .. k : l < k => freeing[l].node < freeing[k].node
    <2> DEFINE bad == { l \in 1 .. k : l < k /\ ~ freeing[l].node < freeing[k].node }
               back == { k - l : l \in bad }
    <2> SUFFICES ASSUME bad # {} PROVE FALSE
        OBVIOUS
    <2>1. PICK l \in bad : \A m \in bad : m <= l
        <3>1. back \in SUBSET (1 .. k) /\ back # {} /\ 1 \in Int /\ k \in Int
            BY <1>1
        <3>2. PICK i \in back : \A j \in back : i <= j
            BY <3>1, Least
        <3>3. PICK l \in bad : i = k - l
            BY <3>2
        <3>4. \A m \in bad : k - l <= k - m
            BY <3>2, <3>3
        <3>5. \A m \in bad : m <= l
            BY <1>1, <3>4
        <3> QED
            BY <3>5
    <2>2. l \in 1 .. k - 1 /\ l + 1 \in 1 .. k /\ l \in 1 .. k
        BY <1>1
    <2>3. l + 1 = k \/ freeing[l + 1].node < freeing[k].node
        <3>1. l + 1 \notin bad
            BY <2>1, <2>2
        <3> QED
            BY <1>1, <2>2, <3>1
    <2>4. freeing[l].node < freeing[l + 1].node
        BY <1>5, <2>2
    <2>5. freeing[l].node \in Nat /\ freeing[l + 1].node \in Nat /\ freeing[k].node \in Nat
        BY <1>1, <1>2, <1>6, <2>2
    <2> QED
        BY <2>3, <2>4, <2>5
<1>8. /\ \A l \in 1 .. k : freeing[l].node <= freeing[k].node
      /\ \A l \in 1 .. k - 1 : freeing[l].node < freeing[k].node
    <2>1. \A l \in 1 .. k : l = k \/ l < k
        BY <1>1
    <2>2. \A l \in 1 .. k - 1 : l \in 1 .. k /\ l < k
        BY <1>1
    <2>3. k \in 1 .. k
        BY <1>2
    <2> QED
        BY <1>6, <1>7, <2>1, <2>2, <2>3
<1> QED
    BY <1>1, <1>2, <1>3, <1>4, <1>8

(* ast_node_free is called for the next child: the path gets longer.       *)
LEMMA FreeingDown ==
    ASSUME ChildrenApart, FreeingInv, FreeChild
    PROVE  FreeingInv'
<1>1. PICK k \in Nat : k = Len(freeing)
    BY PathFacts
<1>2. PICK top \in DOMAIN node : top = freeing[k].node
    BY <1>1, PathFacts
<1>3. PICK next \in Nat \ {0} : next = freeing[k].next
    BY <1>1, PathFacts
<1>4. /\ UNCHANGED << stage, live, tokenizer, parser, renderer >>
      /\ next <= Len(children[top])
      /\ freeing' = Append([ freeing EXCEPT ![k].next = next + 1 ],
                           Call(children[top][next]))
    BY <1>1, <1>2, <1>3, PathFacts DEF FreeChild, Unvisited
<1>5. /\ UNCHANGED << node, children, depth, token_list >>
      /\ Gone' = Gone /\ InTree' = InTree
    <2>1. UNCHANGED << node, children, depth, token_list, live >>
        BY <1>4 DEF parser, tokenizer
    <2>2. Tree' = Tree
        BY <2>1 DEF Tree, Rendered, Name
    <2> QED
        BY <2>1, <2>2 DEF InTree, Renderer!Subtree, Renderer!ChildrenIn, Renderer!node,
                    Renderer!children, Gone
<1>6. next \in DOMAIN children[top] /\ DOMAIN children[top] \subseteq Nat
      /\ Len(children[top]) \in Nat /\ DOMAIN children[top] = 1 .. Len(children[top])
    BY <1>3, <1>4, ChildIsApart
<1>7. PICK c \in DOMAIN node : /\ c = children[top][next] /\ top < c /\ c \notin Gone
                               /\ c \notin OnPath /\ c \in InTree
    <2>1. Visiting(k) /\ k \in 1 .. k
        BY <1>1, PathFacts DEF FreeingInv
    <2>2. children[top][next] \notin Gone
        BY <1>2, <1>3, <1>6, <2>1 DEF Visiting
    <2>3. top \in InTree
        BY <1>1, <1>2, <2>1 DEF FreeingInv, OnPath
    <2>4. /\ children[top][next] \in DOMAIN node /\ top < children[top][next]
          /\ children[top][next] \in InTree
        BY <1>6, <2>3, ChildIsApart
    <2>5. children[top][next] \notin OnPath
        <3>1. \A l \in 1 .. k : freeing[l].node \in Nat /\ freeing[l].node <= top
            BY <1>1, <1>2, PathFacts, ChildIsApart
        <3>2. \A l \in 1 .. k : freeing[l].node # children[top][next]
            BY <2>4, <3>1, ChildIsApart
        <3> QED
            BY <1>1, <3>2 DEF OnPath
    <2> QED
        BY <2>2, <2>4, <2>5
<1>8. /\ freeing' \in Seq([ node : DOMAIN node, next : Nat \ {0} ])
      /\ Len(freeing') = k + 1
      /\ freeing'[k + 1] = [ node |-> c, next |-> 1 ]
      /\ freeing'[k] = [ node |-> top, next |-> next + 1 ]
      /\ \A l \in 1 .. k - 1 : freeing'[l] = freeing[l]
    <2> DEFINE S == [ node : DOMAIN node, next : Nat \ {0} ]
               f == [ freeing EXCEPT ![k].next = next + 1 ]
    <2>1. freeing \in Seq(S) /\ k \in 1 .. Len(freeing) /\ DOMAIN freeing = 1 .. k
        BY <1>1, PathFacts DEF FreeingInv
    <2>2. freeing[k] \in S
        <3> HIDE DEF S
        <3> QED
            BY <2>1, ElementOfSeq
    <2>3. [ freeing[k] EXCEPT !.next = next + 1 ] = [ node |-> top, next |-> next + 1 ]
        BY <1>2, <2>2
    <2>4. f = [ freeing EXCEPT ![k] = [ node |-> top, next |-> next + 1 ] ]
        BY <2>3
    <2>5. [ node |-> top, next |-> next + 1 ] \in S /\ Call(c) \in S
        BY DEF Call
    <2>6. f \in Seq(S) /\ Len(f) = k /\ f[k] = [ node |-> top, next |-> next + 1 ]
          /\ \A l \in 1 .. k - 1 : f[l] = freeing[l]
        <3>1. f \in Seq(S) /\ Len(f) = k
            <4> DEFINE r == [ node |-> top, next |-> next + 1 ]
            <4>1. freeing \in Seq(S) /\ k \in 1 .. Len(freeing) /\ r \in S
                  /\ f = [ freeing EXCEPT ![k] = r ]
                BY <2>1, <2>4, <2>5
            <4> HIDE DEF S, f, r
            <4> QED
                BY <1>1, <4>1, ExceptSeq
        <3>2. \A l \in 1 .. k - 1 : l # k /\ l \in 1 .. k
            BY <1>1
        <3> QED
            BY <1>1, <2>1, <2>4, <3>1, <3>2
    <2>7. freeing' = Append(f, Call(c))
        BY <1>4, <1>7
    <2> HIDE DEF f, S
    <2>8. /\ freeing' \in Seq(S) /\ Len(freeing') = k + 1 /\ freeing'[k + 1] = Call(c)
          /\ \A l \in 1 .. k : freeing'[l] = f[l]
        BY <1>1, <2>5, <2>6, <2>7, AppendProperties
    <2>9. \A l \in 1 .. k - 1 : l \in 1 .. k
        BY <1>1
    <2> QED
        BY <2>1, <2>6, <2>8, <2>9 DEF S, Call
<1>9. OnPath' = OnPath \cup { c }
    <2>1. \A l \in 1 .. k + 1 : l \in 1 .. k - 1 \/ l = k \/ l = k + 1
        BY <1>1
    <2>2. \A l \in 1 .. k - 1 : l \in 1 .. k /\ l \in 1 .. k + 1
        BY <1>1
    <2>3. k \in 1 .. k /\ k \in 1 .. k + 1 /\ k + 1 \in 1 .. k + 1
        BY <1>1, PathFacts
    <2>4. /\ \A l \in 1 .. k : freeing'[l].node = freeing[l].node
          /\ freeing'[k + 1].node = c
        <3>1. \A l \in 1 .. k : l \in 1 .. k - 1 \/ l = k
            BY <1>1
        <3> QED
            BY <1>2, <1>8, <3>1
    <2>5. \A l \in 1 .. k + 1 : l \in 1 .. k \/ l = k + 1
        BY <1>1
    <2>6. 1 .. k \subseteq 1 .. k + 1
        BY <1>1
    <2>7. OnPath' = { freeing'[l].node : l \in 1 .. k + 1 }
          /\ OnPath = { freeing[l].node : l \in 1 .. k }
        BY <1>1, <1>8 DEF OnPath
    <2> QED
        BY <2>3, <2>4, <2>5, <2>6, <2>7
<1>10. ASSUME NEW l \in 1 .. k + 1
       PROVE  Visiting(l)'
    <2>1. CASE l = k + 1
        <3>1. /\ Len(children[c]) \in Nat
              /\ \A i \in DOMAIN children[c] : i \in Nat \ {0} /\ children[c][i] \notin Gone
            <4>1. \A i \in DOMAIN children[c] : children[c][i] \notin Gone
                BY <1>7 DEF FreeingInv
            <4>2. Len(children[c]) \in Nat /\ DOMAIN children[c] = 1 .. Len(children[c])
                BY ChildIsApart
            <4> QED
                BY <4>1, <4>2
        <3>2. freeing'[l].node = c /\ freeing'[l].next = 1 /\ Len(freeing') = l
            BY <1>8, <2>1
        <3>3. /\ 1 <= Len(children[c]) + 1
              /\ \A i \in DOMAIN children[c] : ~ i < 1
            BY <3>1
        <3> QED
            BY <1>5, <3>1, <3>2, <3>3 DEF Visiting
    <2>2. CASE l = k
        <3>1. freeing'[l].node = top /\ freeing'[l].next = next + 1 /\ Len(freeing') = l + 1
              /\ freeing'[l + 1].node = c
            BY <1>8, <2>2
        <3>2. \A i \in DOMAIN children[top] : /\ i < next => children[top][i] \in Gone
                                              /\ i >= next => children[top][i] \notin Gone
            BY <1>1, <1>2, <1>3, <2>2, PathFacts DEF FreeingInv, Visiting
        <3>3. \A i \in DOMAIN children[top] : i \in Nat /\ (i >= next + 1 => i >= next)
            BY <1>6
        <3>4. next + 1 <= Len(children[top]) + 1 /\ next + 1 - 1 = next /\ l # l + 1 /\ l < l + 1
            BY <1>1, <1>4, <1>6, <2>2
        <3>5. next = freeing'[l].next - 1 /\ l # Len(freeing') /\ l < Len(freeing')
              /\ freeing'[l].next <= Len(children[top]) + 1
            BY <1>3, <3>1, <3>4
        <3>6. \A i \in DOMAIN children[top] :
                 /\ i < next => children[top][i] \in Gone'
                 /\ i >= freeing'[l].next => children[top][i] \notin Gone'
            BY <1>5, <3>1, <3>2, <3>3
        <3>7. next \in DOMAIN children[top] /\ freeing'[l + 1].node = children[top][next]
            BY <1>6, <1>7, <3>1
        <3>8. children' = children /\ freeing'[l].node = top
            BY <1>5, <3>1
        <3> QED
            BY <3>5, <3>6, <3>7, <3>8 DEF Visiting
    <2>3. CASE l \in 1 .. k - 1
        <3>1. /\ l \in 1 .. k /\ l # k /\ l < k /\ l # k + 1 /\ l < k + 1
              /\ l + 1 = k \/ l + 1 \in 1 .. k - 1
            BY <1>1, <2>3
        <3>2. Visiting(l)
            BY <1>1, <3>1 DEF FreeingInv
        <3>3. freeing'[l] = freeing[l] /\ freeing'[l + 1].node = freeing[l + 1].node
            BY <1>2, <1>8, <2>3, <3>1
        <3> QED
            BY <1>1, <1>5, <1>8, <3>1, <3>2, <3>3 DEF Visiting
    <2>4. l = k + 1 \/ l = k \/ l \in 1 .. k - 1
        BY <1>1
    <2> QED
        BY <2>1, <2>2, <2>3, <2>4
<1>11. freeing' # << >> /\ freeing'[1].node = Parser!Root
    <2>1. freeing'[1].node = freeing[1].node
        <3>1. 1 = k \/ 1 \in 1 .. k - 1
            BY <1>1, PathFacts
        <3> QED
            BY <1>2, <1>8, <3>1
    <2>2. Len(freeing') # 0
        BY <1>1, <1>8
    <2> QED
        BY <2>1, <2>2 DEF FreeingInv
<1>12. /\ OnPath' \cap Gone' = {} /\ OnPath' \cup Gone' \subseteq InTree'
       /\ \A n \in Gone' : \A i \in DOMAIN children'[n] : children'[n][i] \in Gone'
       /\ \A n \in DOMAIN node' \ (Gone' \cup OnPath') :
             \A i \in DOMAIN children'[n] : children'[n][i] \notin Gone'
    BY <1>5, <1>7, <1>9 DEF FreeingInv
<1> QED
    BY <1>5, <1>8, <1>10, <1>11, <1>12 DEF FreeingInv

(* ast_node_free returns: the node is freed, its subtree was.              *)
LEMMA FreeingUp ==
    ASSUME ChildrenApart, FreeingInv, FreeNode, live' = live \ { NodeBlock(Freed) }
    PROVE  /\ Gone' = Gone \cup { Freed } /\ InTree' = InTree
           /\ Len(freeing) = 1 => Gone' = InTree
           /\ Len(freeing) # 1 => FreeingInv'
<1>1. PICK k \in Nat : k = Len(freeing)
    BY PathFacts
<1>2. PICK top \in DOMAIN node : top = freeing[k].node /\ top = Freed
    BY <1>1, PathFacts
<1>3. /\ k >= 1 /\ k \in 1 .. k /\ Visiting(k)
      /\ \A l \in 1 .. k : freeing[l].next \in Nat
    BY <1>1, PathFacts DEF FreeingInv
<1>4. \A i \in DOMAIN children[top] : children[top][i] \in Gone
    <2>1. ~ freeing[k].next <= Len(children[top])
        BY <1>1, <1>2, PathFacts DEF FreeNode, Unvisited
    <2>2. DOMAIN children[top] = 1 .. Len(children[top]) /\ Len(children[top]) \in Nat
        BY ChildIsApart
    <2>3. \A i \in DOMAIN children[top] : i < freeing[k].next
        BY <1>3, <2>1, <2>2
    <2> QED
        BY <1>1, <1>2, <1>3, <2>3 DEF Visiting
<1>5. /\ UNCHANGED << node, children, depth, token_list >> /\ InTree' = InTree
      /\ freeing' = Front(freeing)
    <2>1. UNCHANGED << node, children, depth, token_list >> /\ freeing' = Front(freeing)
        BY DEF FreeNode, parser, tokenizer
    <2>2. Tree' = Tree
        BY <2>1 DEF Tree, Rendered, Name
    <2> QED
        BY <2>1, <2>2 DEF InTree, Renderer!Subtree, Renderer!ChildrenIn, Renderer!node,
                    Renderer!children
<1>6. Gone' = Gone \cup { top }
    <2>1. \A n \in DOMAIN node : NodeBlock(n) \in live' <=> NodeBlock(n) \in live /\ n # top
        BY <1>2, BlocksApart
    <2> QED
        BY <1>2, <1>5, <2>1 DEF Gone
<1>7. top \in OnPath /\ top \in InTree
    BY <1>1, <1>2, <1>3 DEF OnPath, FreeingInv
<1>8. \A n \in Gone' : \A i \in DOMAIN children'[n] : children'[n][i] \in Gone'
    BY <1>4, <1>5, <1>6 DEF FreeingInv
<1>9. ASSUME k = 1
      PROVE  Gone' = InTree
    <2>1. Parser!Root \in Gone'
        BY <1>2, <1>6, <1>9 DEF FreeingInv
    <2>2. Gone' \in SUBSET DOMAIN Renderer!node
        <3>1. DOMAIN Renderer!node = DOMAIN node
            BY DEF Renderer!node, Tree
        <3> QED
            BY <1>2, <1>6, <3>1 DEF Gone
    <2>3. Renderer!ChildrenIn(Gone')
        BY <1>5, <1>8 DEF Renderer!ChildrenIn, Renderer!children, Tree
    <2>4. InTree \subseteq Gone'
        BY <2>1, <2>2, <2>3 DEF InTree, Renderer!Subtree
    <2>5. Gone' \subseteq InTree
        BY <1>6, <1>7 DEF FreeingInv
    <2> QED
        BY <2>4, <2>5
<1>10. ASSUME k # 1
       PROVE  FreeingInv'
    <2>1. PICK j \in Nat : j = k - 1 /\ j >= 1 /\ j + 1 = k /\ j \in 1 .. k /\ j < k /\ j # k
        BY <1>1, <1>3, <1>10
    <2>2. /\ freeing' \in Seq([ node : DOMAIN node, next : Nat \ {0} ])
          /\ Len(freeing') = j /\ \A l \in 1 .. j : freeing'[l] = freeing[l]
        <3> DEFINE S == [ node : DOMAIN node, next : Nat \ {0} ]
        <3>1. freeing \in Seq(S) /\ freeing # << >>
            BY DEF FreeingInv
        <3> HIDE DEF S
        <3>2. /\ SubSeq(freeing, 1, j) \in Seq(S) /\ Len(SubSeq(freeing, 1, j)) = j
              /\ \A l \in 1 .. j : SubSeq(freeing, 1, j)[l] = freeing[l]
            BY <1>1, <2>1, <3>1
        <3>3. freeing' = SubSeq(freeing, 1, j)
            BY <1>1, <1>5, <2>1 DEF Front
        <3> QED
            BY <3>2, <3>3 DEF S
    <2>3. \A l \in 1 .. j : l \in 1 .. k /\ l + 1 \in 1 .. k /\ l < k /\ l # k
        BY <1>1, <2>1
    <2>4. PICK p \in DOMAIN node, last \in Nat :
             /\ p = freeing[j].node /\ last \in DOMAIN children[p] /\ last = freeing[j].next - 1
             /\ children[p][last] = top
        <3>1. Visiting(j) /\ freeing[j].node \in DOMAIN node
            BY <1>1, <2>1, PathFacts DEF FreeingInv
        <3>2. DOMAIN children[freeing[j].node] \subseteq Nat
            BY <3>1, ChildIsApart
        <3> QED
            BY <1>1, <1>2, <2>1, <3>1, <3>2 DEF Visiting
    <2>5. \A l \in 1 .. j : freeing[l].node \in DOMAIN node /\ freeing[l].node # top
        <3>1. \A l \in 1 .. k - 1 : freeing[l].node < freeing[k].node
            BY <1>1, PathFacts
        <3>2. \A l \in 1 .. k : freeing[l].node \in DOMAIN node
            BY <1>1, PathFacts
        <3>3. DOMAIN node \subseteq Nat
            BY ChildIsApart, <1>2
        <3> QED
            BY <1>2, <2>1, <2>3, <3>1, <3>2, <3>3
    <2>6. \A l \in 1 .. j : l # j => freeing[l].node # p
        <3> SUFFICES ASSUME NEW l \in 1 .. j, l # j, freeing[l].node = p PROVE FALSE
            OBVIOUS
        <3>1. Visiting(l) /\ Visiting(j)
            BY <1>1, <2>1, <2>3 DEF FreeingInv
        <3>2. PICK i \in DOMAIN children[p] : /\ i = freeing[l].next - 1
                                              /\ freeing[l + 1].node = children[p][i]
            BY <1>1, <2>3, <3>1 DEF Visiting
        <3>3. l + 1 \in 1 .. j
            BY <2>1
        <3>4. freeing[l + 1].node # top
            BY <2>5, <3>3
        <3>5. /\ DOMAIN children[p] = 1 .. Len(children[p]) /\ Len(children[p]) \in Nat
              /\ freeing[l].next \in Nat /\ freeing[j].next \in Nat
            BY <1>3, <2>1, <2>3, ChildIsApart
        <3>6. i < last \/ last < i
            <4>1. i # last
                BY <2>4, <3>2, <3>4
            <4>2. i \in Nat /\ last \in Nat
                BY <2>4, <3>2, <3>5
            <4> QED
                BY <4>1, <4>2
        <3>7. last < i => children[p][last] \in Gone
            BY <1>1, <2>3, <2>4, <3>1, <3>2 DEF Visiting
        <3>8. top \notin Gone
            BY <1>7 DEF FreeingInv
        <3>9. i < last => children[p][i] \in Gone
            BY <1>1, <2>1, <2>4, <3>1 DEF Visiting
        <3>10. freeing[l + 1].node \notin Gone
            <4>1. l + 1 \in 1 .. Len(freeing)
                BY <1>1, <2>3
            <4> QED
                BY <4>1 DEF FreeingInv, OnPath
        <3> QED
            BY <2>4, <3>2, <3>6, <3>7, <3>8, <3>9, <3>10
    <2>7. ASSUME NEW l \in 1 .. j
          PROVE  Visiting(l)'
        <3>1. PICK n \in DOMAIN node : n = freeing[l].node /\ n # top
            BY <2>5
        <3>2. /\ Visiting(l) /\ l \in 1 .. k /\ l # k /\ l < k
              /\ freeing'[l] = freeing[l] /\ freeing[l].next \in Nat
              /\ DOMAIN children[n] \subseteq Nat
            <4>1. l \in 1 .. k /\ l # k /\ l < k /\ freeing'[l] = freeing[l]
                BY <2>2, <2>3
            <4>2. Visiting(l)
                BY <1>1, <4>1 DEF FreeingInv
            <4>3. DOMAIN children[n] \subseteq Nat
                BY ChildIsApart
            <4> QED
                BY <1>3, <4>1, <4>2, <4>3
        <3>3. PICK next \in Nat : next = freeing[l].next
            BY <3>2
        <3>4. /\ next <= Len(children[n]) + 1
              /\ \A i \in DOMAIN children[n] : i < next - 1 => children[n][i] \in Gone
              /\ \A i \in DOMAIN children[n] : i >= next => children[n][i] \notin Gone
              /\ next - 1 \in DOMAIN children[n]
              /\ freeing[l + 1].node = children[n][next - 1]
            BY <1>1, <3>1, <3>2, <3>3 DEF Visiting
        <3>5. \A i \in DOMAIN children[n] : i >= next => children[n][i] # top
            <4> SUFFICES ASSUME NEW i \in DOMAIN children[n], i >= next, children[n][i] = top
                         PROVE  FALSE
                OBVIOUS
            <4>1. n = p
                BY <2>4, ChildIsApart
            <4>2. l = j
                BY <2>6, <3>1, <4>1
            <4>3. last = next - 1 /\ last < i
                BY <2>4, <3>2, <3>3, <4>2
            <4> QED
                BY <2>4, <4>1, <4>3, ChildIsApart
        <3>6. CASE l = j
            <4>1. children[n][next - 1] = top
                BY <1>2, <2>1, <3>4, <3>6
            <4>2. \A i \in DOMAIN children[n] : i < next => i < next - 1 \/ i = next - 1
                BY <3>2
            <4>3. \A i \in DOMAIN children[n] : i < next => children[n][i] \in Gone'
                BY <1>6, <3>4, <4>1, <4>2
            <4>4. \A i \in DOMAIN children[n] : i >= next => children[n][i] \notin Gone'
                BY <1>6, <3>4, <3>5
            <4>5. freeing'[l].node = n /\ freeing'[l].next = next /\ Len(freeing') = l
                  /\ children' = children /\ ~ l < l
                BY <1>5, <2>1, <2>2, <3>1, <3>2, <3>3, <3>6
            <4> QED
                BY <3>4, <4>3, <4>4, <4>5 DEF Visiting
        <3>7. CASE l # j
            <4>1. l + 1 \in 1 .. j /\ freeing'[l + 1].node = freeing[l + 1].node
                BY <2>1, <2>2, <3>7
            <4>2. \A i \in DOMAIN children[n] : i < next - 1 => children[n][i] \in Gone'
                BY <1>6, <3>4
            <4>3. \A i \in DOMAIN children[n] : i >= next => children[n][i] \notin Gone'
                BY <1>6, <3>4, <3>5
            <4>4. freeing'[l].node = n /\ freeing'[l].next = next /\ Len(freeing') # l
                  /\ children' = children
                BY <1>5, <2>2, <3>1, <3>2, <3>3, <3>7
            <4> QED
                BY <3>4, <4>1, <4>2, <4>3, <4>4 DEF Visiting
        <3> QED
            BY <3>6, <3>7
    <2>8. OnPath' = OnPath \ { top }
        <3>1. OnPath' = { freeing[l].node : l \in 1 .. j }
            BY <2>2 DEF OnPath
        <3>2. \A l \in 1 .. k : l \in 1 .. j \/ l = k
            BY <1>1, <2>1
        <3>3. OnPath = { freeing[l].node : l \in 1 .. k }
            BY <1>1 DEF OnPath
        <3> QED
            BY <1>2, <2>3, <2>5, <3>1, <3>2, <3>3
    <2>9. ASSUME NEW n \in DOMAIN node \ (Gone' \cup OnPath'), NEW i \in DOMAIN children[n]
          PROVE  children[n][i] \notin Gone'
        <3>1. n \in DOMAIN node \ (Gone \cup OnPath)
            BY <1>6, <2>8
        <3>2. children[n][i] \notin Gone
            BY <3>1 DEF FreeingInv
        <3>3. children[n][i] # top
            <4> SUFFICES ASSUME children[n][i] = top PROVE FALSE
                OBVIOUS
            <4>1. n = p
                BY <2>4, ChildIsApart
            <4>2. p \in OnPath'
                BY <2>1, <2>2, <2>4 DEF OnPath
            <4> QED
                BY <4>1, <4>2
        <3> QED
            BY <1>6, <3>2, <3>3
    <2>10. freeing' # << >> /\ freeing'[1].node = Parser!Root
        <3>1. 1 \in 1 .. j /\ Len(freeing') # 0
            BY <2>1, <2>2
        <3> QED
            BY <2>2, <3>1 DEF FreeingInv
    <2>11. OnPath' \cap Gone' = {} /\ OnPath' \cup Gone' \subseteq InTree'
        BY <1>5, <1>6, <1>7, <2>8 DEF FreeingInv
    <2> QED
        BY <1>5, <1>8, <2>2, <2>7, <2>9, <2>10, <2>11 DEF FreeingInv
<1> QED
    BY <1>1, <1>2, <1>5, <1>6, <1>9, <1>10

-----------------------------------------------------------------------------
(***************************************************************************)
(* The modules with the proofs of the stages                               *)
(***************************************************************************)

(* The lists that end with EOF and whose counters do not overflow.         *)
ReadableLists ==
    { ts \in Seq(Token) : /\ EndsWithEof(ts)
                          /\ Len(ts) < UIntMax
                          /\ \A i \in DOMAIN ts : ts[i].depth < UIntMax }

T == INSTANCE PugTokenizerProofs WITH capacity <- list_capacity
P == INSTANCE PugParserProofs WITH tokens <- token_list, TokenLists <- ReadableLists
R == INSTANCE PugRendererProofs WITH tree <- Tree, Trees <- {}

-----------------------------------------------------------------------------
(***************************************************************************)
(* The stages as instances of the modules with the proofs: their steps are *)
(* those of the program, and their assumptions hold here.                  *)
(***************************************************************************)

LEMMA SameTokens ==
    /\ T!Token = Token /\ P!Token = Token
    /\ \A ts : T!EndsWithEof(ts) = EndsWithEof(ts) /\ P!EndsWithEof(ts) = EndsWithEof(ts)
BY DEF T!Token, P!Token, Token, T!TokenType, P!TokenType, TokenType,
       T!DirectiveType, P!DirectiveType, DirectiveType,
       T!PieceType, P!PieceType, PieceType, T!RunType, P!RunType, RunType,
       T!EndsWithEof, P!EndsWithEof, EndsWithEof

LEMMA TokenizerHolds ==
    /\ Documents \subseteq Seq(Seq(Char))
    /\ Alpha \subseteq Char /\ Digit \subseteq Char
    /\ Alpha \cap Digit = {}
    /\ (Alpha \cup Digit) \cap (T!Blank \cup T!Mark) = {}
    /\ T!NUL \notin Char
    /\ ListCapacity \in Nat \ {0}
    /\ MaxFaults \in Nat
BY PipelineAssumption DEF T!Blank, T!Mark, T!NUL, Tokenizer!Blank, Tokenizer!Mark,
                          Tokenizer!NUL

LEMMA ParserHolds ==
    /\ \A ts \in ReadableLists :
          /\ ts \in Seq(P!Token)
          /\ Len(ts) < UIntMax
          /\ \A i \in DOMAIN ts : ts[i].depth < UIntMax
    /\ ChildCapacity \in Nat \ {0}
    /\ ClassChunk \in Nat \ {0}
    /\ AttributeRoom \in Nat \ {0}
    /\ UIntMax \in Nat \ {0}
    /\ MaxFaults \in Nat
BY PipelineAssumption, SameTokens DEF ReadableLists

LEMMA ReadableListsEnd == P!ListsEndWithEof
<1> SUFFICES ASSUME NEW ts \in ReadableLists PROVE P!EndsWithEof(ts)
    BY DEF P!ListsEndWithEof
<1>1. EndsWithEof(ts)
    BY DEF ReadableLists
<1> QED
    BY <1>1 DEF P!EndsWithEof, EndsWithEof

LEMMA TokenizerSteps == Tokenizer!Next => T!Next
BY DEF T!Next, Tokenizer!Next, T!Cardinality, Tokenizer!Cardinality, T!NUL,
    Tokenizer!NUL, T!Blank, Tokenizer!Blank, T!CharAt, Tokenizer!CharAt,
    T!SpanEnd, Tokenizer!SpanEnd, T!IdChar, Tokenizer!IdChar, T!TagChar,
    Tokenizer!TagChar, T!Opened, Tokenizer!Opened, T!Closing,
    Tokenizer!Closing, T!Margin, Tokenizer!Margin, T!RunStart,
    Tokenizer!RunStart, T!IndentLevel, Tokenizer!IndentLevel, T!Line,
    Tokenizer!Line, T!InLine, Tokenizer!InLine, T!Here, Tokenizer!Here,
    T!Ahead, Tokenizer!Ahead, T!ListFull, Tokenizer!ListFull, T!NewToken,
    Tokenizer!NewToken, T!Eof, Tokenizer!Eof, T!Store, Tokenizer!Store,
    T!Lose, Tokenizer!Lose, T!Add, Tokenizer!Add, T!Emit, Tokenizer!Emit,
    T!NextLine, Tokenizer!NextLine, T!Word, Tokenizer!Word, T!Opener,
    Tokenizer!Opener, T!DirectiveOf, Tokenizer!DirectiveOf, T!IsComment,
    Tokenizer!IsComment, T!SkipBlankLine, Tokenizer!SkipBlankLine,
    T!ScanDirective, Tokenizer!ScanDirective, T!ScanComment,
    Tokenizer!ScanComment, T!OpenLine, Tokenizer!OpenLine, T!ScanIn,
    Tokenizer!ScanIn, T!ScanId, Tokenizer!ScanId, T!ClassOrDot,
    Tokenizer!ClassOrDot, T!ScanClass, Tokenizer!ScanClass, T!ScanAttribute,
    Tokenizer!ScanAttribute, T!TagPast, Tokenizer!TagPast, T!ScanTag,
    Tokenizer!ScanTag, T!StartsText, Tokenizer!StartsText, T!SkipBlanks,
    Tokenizer!SkipBlanks, T!OpenText, Tokenizer!OpenText, T!SkipOther,
    Tokenizer!SkipOther, T!ScanText, Tokenizer!ScanText, T!ScanInterpolation,
    Tokenizer!ScanInterpolation, T!SkipHash, Tokenizer!SkipHash, T!EndLine,
    Tokenizer!EndLine, T!AddEof, Tokenizer!AddEof, T!Stopped,
    Tokenizer!Stopped, T!list, Tokenizer!list, T!vars, Tokenizer!vars

LEMMA ParserSteps == Parser!Next => P!Next
BY DEF P!Next, Parser!Next, P!Advance, Parser!Advance, P!At, Parser!At, P!AtEof,
    Parser!AtEof, P!Current, Parser!Current, P!Position, Parser!Position,
    P!HasCurrent, Parser!HasCurrent, P!CreateNode, Parser!CreateNode,
    P!Fault, Parser!Fault, P!Fresh, Parser!Fresh, P!Attach, Parser!Attach,
    P!Descend, Parser!Descend, P!Full, Parser!Full, P!ListIsFull,
    Parser!ListIsFull, P!Merge, Parser!Merge, P!Mergeable, Parser!Mergeable,
    P!MustClimb, Parser!MustClimb, P!NewNode, Parser!NewNode, P!NULL,
    Parser!NULL, P!TextLike, Parser!TextLike, P!Standalone,
    Parser!Standalone, P!Stray, Parser!Stray, P!tree, Parser!tree, P!vars,
    Parser!vars, P!ParseTag, Parser!ParseTag, P!ParseStandalone,
    Parser!ParseStandalone, P!ParseStray, Parser!ParseStray, P!CreateFails,
    Parser!CreateFails, P!ReachEof, Parser!ReachEof, P!RunPastEnd,
    Parser!RunPastEnd, P!MergeId, Parser!MergeId, P!MergeClass,
    Parser!MergeClass, P!MergeClassFails, Parser!MergeClassFails,
    P!MergeFirstClassFails, Parser!MergeFirstClassFails, P!MergeAttributes,
    Parser!MergeAttributes, P!MergeAttributesFails,
    Parser!MergeAttributesFails, P!MergeText, Parser!MergeText, P!EndMerge,
    Parser!EndMerge, P!Climb, Parser!Climb, P!AddChild, Parser!AddChild,
    P!AddChildGrow, Parser!AddChildGrow, P!AddChildFails,
    Parser!AddChildFails, P!AddChildOutOfBounds, Parser!AddChildOutOfBounds,
    P!Stopped, Parser!Stopped, P!DirectiveType, Parser!DirectiveType,
    P!RunType, Parser!RunType

LEMMA RendererSteps ==
    /\ Renderer!Next => R!Next
    /\ Renderer!Finished <=> R!Finished
BY Zenon DEF R!Next, Renderer!Next, R!Last, Renderer!Last, R!Front, Renderer!Front,
    R!NULL, Renderer!NULL, R!node, Renderer!node, R!children,
    Renderer!children, R!Indent, Renderer!Indent, R!Newline,
    Renderer!Newline, R!Item, Renderer!Item, R!Hidden, Renderer!Hidden,
    R!Write, Renderer!Write, R!Margin, Renderer!Margin, R!IsArtificial,
    Renderer!IsArtificial, R!IsVoid, Renderer!IsVoid, R!IsElement,
    Renderer!IsElement, R!Return, Renderer!Return, R!WaitFor,
    Renderer!WaitFor, R!EnterRoot, Renderer!EnterRoot, R!RenderLeaf,
    Renderer!RenderLeaf, R!RenderBlockComment, Renderer!RenderBlockComment,
    R!RenderVoid, Renderer!RenderVoid, R!OpenTag, Renderer!OpenTag,
    R!Waiting, Renderer!Waiting, R!Frame, Renderer!Frame, R!LastChild,
    Renderer!LastChild, R!CallChild, Renderer!CallChild, R!CloseTag,
    Renderer!CloseTag, R!LeaveRoot, Renderer!LeaveRoot, R!Finished,
    Renderer!Finished, R!Stopped, Renderer!Stopped, R!vars, Renderer!vars

-----------------------------------------------------------------------------
(***************************************************************************)
(* What holds at the stages: the invariant of the tokenizer always, that   *)
(* of the parser from the artificial root on, that of the renderer from    *)
(* the call of render_ast on.                                              *)
(***************************************************************************)


ListInv == T!RisingInv /\ lines \in Documents

RendererIdle ==
    stack = << >> /\ calling = 0 /\ output = [ minify \in BOOLEAN |-> << >> ]

NoTree ==
    /\ current_token = 0 /\ pc = "parse" /\ node = << >>
    /\ dropped = {} /\ leaked = {}
    /\ RendererIdle
    /\ stage \notin { "parse", "render", "tree" }
    /\ stage \notin Unread \cup { "exit" } => faults > 0

Parsing == stage = "parse" /\ P!ParserInv /\ RendererIdle

Parsed ==
    /\ stage \notin Unread \cup { "parse" }
    /\ P!ParserInv /\ pc = "done" /\ token_list \in ReadableLists
    /\ R!OrderInv
    /\ stage # "render" => R!Finished

StageInv == ListInv /\ (NoTree \/ Parsing \/ Parsed)

-----------------------------------------------------------------------------
(* What a step leaves alone stays as it is.                                *)

LEMMA FaultsBound ==
    ASSUME ListInv
    PROVE  faults \in 0 .. MaxFaults /\ MaxFaults \in Nat
BY PipelineAssumption DEF ListInv, T!RisingInv, T!CutInv, T!TypeOK

LEMMA ListKept ==
    ASSUME ListInv, UNCHANGED tokenizer, faults' \in 0 .. MaxFaults
    PROVE  ListInv'
<1>1. UNCHANGED << lines, current_line, mode, pos, column, token_list,
                   list_capacity, spans >>
    BY DEF tokenizer
<1>2. T!RisingInv'
    BY <1>1, TokenizerHolds, T!RisingKept DEF ListInv
<1> QED
    BY <1>1, <1>2 DEF ListInv

LEMMA ParserKept ==
    ASSUME P!ParserInv, UNCHANGED << token_list, parser, faults >>
    PROVE  P!ParserInv'
<1>1. UNCHANGED P!vars
    BY DEF parser, P!vars, P!tree
<1> QED
    BY <1>1, ParserHolds, ReadableListsEnd, P!ParserInvStep

LEMMA OrderKept ==
    ASSUME R!OrderInv, UNCHANGED << token_list, parser, renderer >>
    PROVE  R!OrderInv' /\ (R!Finished' <=> R!Finished)
<1>1. UNCHANGED << token_list, node, depth, children, stack, calling, output >>
    BY DEF parser, renderer
<1>2. Tree' = Tree
    BY <1>1 DEF Tree, Rendered, Name
<1>3. UNCHANGED R!vars
    BY <1>1, <1>2 DEF R!vars
<1>4. R!OrderInv'
    BY <1>3, R!OrderStep
<1> QED
    BY <1>1, <1>4 DEF R!Finished

(* The list fits: it has a token for each character at most.               *)
LEMMA ListFits ==
    ASSUME ListInv
    PROVE  /\ token_list \in Seq(Token) /\ Len(token_list) \in Nat
           /\ Len(token_list) < UIntMax
           /\ \A i \in DOMAIN token_list : token_list[i].depth < UIntMax
<1>1. /\ T!Cardinality(T!Places(lines)) \in Nat
      /\ Len(token_list) <= T!Cardinality(T!Places(lines)) + 1
      /\ \A i \in DOMAIN token_list :
            token_list[i].depth <= T!Cardinality(T!Places(lines))
    BY TokenizerHolds, T!ListSize DEF ListInv
<1>2. T!Cardinality(T!Places(lines)) = Cardinality(Places(lines))
    BY DEF T!Cardinality, Cardinality, T!Places, Places
<1>3. Cardinality(Places(lines)) + 1 < UIntMax /\ UIntMax \in Nat
    BY PipelineAssumption DEF ListInv
<1>4. token_list \in Seq(Token) /\ Len(token_list) \in Nat
    BY SameTokens, LenProperties DEF ListInv, T!RisingInv, T!CutInv, T!TypeOK
<1>5. \A i \in DOMAIN token_list : token_list[i].depth \in Nat
    <2>1. \A i \in DOMAIN token_list : token_list[i] \in Token
        BY <1>4
    <2> QED
        BY <2>1 DEF Token
<1> QED
    BY <1>1, <1>2, <1>3, <1>4, <1>5

(* When parsing is done, the list ends with EOF: the parser stopped at one, *)
(* and no token comes behind it.                                            *)
LEMMA DoneIsReadable ==
    ASSUME ListInv, P!ParserInv, pc = "done"
    PROVE  token_list \in ReadableLists
<1>1. /\ token_list \in Seq(Token) /\ Len(token_list) \in Nat
      /\ DOMAIN token_list = 1 .. Len(token_list)
    BY ListFits, LenProperties
<1>2. /\ current_token \in Nat /\ current_token < Len(token_list)
      /\ token_list[current_token + 1].type = "EOF"
    <2>1. current_token \in 0 .. UIntMax /\ UIntMax \in Nat
        BY PipelineAssumption DEF P!ParserInv, P!TreeInv, P!TypeOK
    <2> QED
        BY <2>1 DEF P!ParserInv, P!StopsAtEof, P!HasCurrent, P!Current, P!Position
<1>3. \A i \in 1 .. Len(token_list) - 1 : token_list[i].type # "EOF"
    <2>1. Len(token_list) \in DOMAIN token_list
        BY <1>1, <1>2
    <2> QED
        BY <2>1 DEF ListInv, T!RisingInv, T!Rising
<1>4. current_token + 1 = Len(token_list)
    <2>1. PICK k \in Nat : k = Len(token_list)
        BY <1>1
    <2>2. current_token \in Nat /\ current_token < k
        BY <1>2, <2>1
    <2>3. ~ current_token + 1 \in 1 .. k - 1
        BY <1>2, <1>3, <2>1
    <2>4. current_token + 1 = k
        BY <2>2, <2>3
    <2> QED
        BY <2>1, <2>4
<1>5. token_list[Len(token_list)].depth = 0
    <2>1. Len(token_list) \in DOMAIN token_list
        BY <1>1, <1>2
    <2> QED
        BY <1>2, <1>4, <2>1 DEF ListInv, T!RisingInv, T!Placed, T!Fits
<1>6. EndsWithEof(token_list)
    <2>1. token_list # << >>
        BY <1>1, <1>2
    <2>2. \A i \in DOMAIN token_list : token_list[i].type = "EOF" <=> i = Len(token_list)
        BY <1>1, <1>2, <1>3, <1>4
    <2> QED
        BY <1>5, <2>1, <2>2 DEF EndsWithEof
<1> QED
    BY <1>1, <1>6, ListFits DEF ReadableLists

(* What the parser built is a tree as the renderer expects it: its numbers  *)
(* are a preorder, and its child lists and parent links agree.              *)
LEMMA NodeFacts ==
    ASSUME P!ParserInv
    PROVE  LET k == Len(node)
           IN  /\ k \in Nat /\ k >= 1
               /\ DOMAIN node = 1 .. k /\ DOMAIN depth = 1 .. k
               /\ DOMAIN parent = 1 .. k /\ DOMAIN children = 1 .. k
               /\ depth \in Seq(Nat) /\ Len(depth) = k /\ Len(children) = k
               /\ \A n \in 1 .. k : /\ node[n].text \in Seq(Nat) /\ depth[n] \in Nat
                                    /\ node[n].tok \in Nat
                                    /\ parent[n] \in 0 .. k /\ parent[n] < n
                                    /\ children[n] \in Seq(1 .. k)
<1>1. /\ node \in Seq(P!Node) /\ Len(node) >= 1
      /\ depth \in Seq(Nat) /\ Len(depth) = Len(node)
      /\ parent \in Seq(Nat) /\ Len(parent) = Len(node)
      /\ children \in Seq(Seq(Nat)) /\ Len(children) = Len(node)
    BY DEF P!ParserInv, P!TreeInv, P!TypeOK, P!Root
<1>2. PICK k \in Nat : k = Len(node)
    BY <1>1, LenProperties
<1>3. /\ DOMAIN node = 1 .. k /\ DOMAIN depth = 1 .. k
      /\ DOMAIN parent = 1 .. k /\ DOMAIN children = 1 .. k
    BY <1>1, <1>2, LenProperties
<1>4. \A n \in 1 .. k : node[n] \in P!Node /\ depth[n] \in Nat /\ parent[n] \in Nat
                        /\ children[n] \in Seq(Nat)
    BY <1>1, <1>2, <1>3
<1>5. \A n \in 1 .. k : node[n].text \in Seq(Nat) /\ node[n].tok \in Nat
    BY <1>4 DEF P!Node
<1>6. \A n \in 1 .. k : parent[n] < n
    <2>1. \A n \in 1 .. k : parent[n] # 0 => parent[n] < n
        BY <1>3 DEF P!ParserInv, P!TreeInv, P!DocumentOrder, P!Attached, P!NULL
    <2> QED
        BY <1>2, <1>4, <2>1
<1>7. \A n \in 1 .. k : children[n] \in Seq(1 .. k)
    <2> TAKE n \in 1 .. k
    <2>1. \A i \in DOMAIN children[n] : children[n][i] \in 1 .. k
        BY <1>3 DEF P!ParserInv, P!ChildInv, P!ChildrenExist
    <2>2. children[n] \in Seq(Nat)
        BY <1>4
    <2> QED
        BY <2>1, <2>2
<1>8. \A n \in 1 .. k : parent[n] \in 0 .. k
    BY <1>4, <1>6
<1>9. k >= 1 /\ depth \in Seq(Nat) /\ Len(depth) = k /\ Len(children) = k
    BY <1>1, <1>2
<1>10. \A n \in 1 .. k : /\ node[n].text \in Seq(Nat) /\ depth[n] \in Nat
                          /\ node[n].tok \in Nat
                          /\ parent[n] \in 0 .. k /\ parent[n] < n
                          /\ children[n] \in Seq(1 .. k)
    BY <1>4, <1>5, <1>6, <1>7, <1>8
<1> QED
    BY <1>2, <1>3, <1>9, <1>10

LEMMA RenderedTree ==
    ASSUME P!ParserInv
    PROVE  /\ Tree.node = [ n \in 1 .. Len(node) |-> Rendered(n) ]
           /\ Tree.depth = depth /\ Tree.children = children
BY NodeFacts DEF Tree

LEMMA TreeIsTree ==
    ASSUME P!ParserInv
    PROVE  R!IsTree(Tree)
<1> DEFINE S == [ type : R!NodeType, tag : { "plain", "void", "root" }, has_text : BOOLEAN ]
<1>1. PICK k \in Nat : k = Len(node)
    BY NodeFacts
<1>2. /\ k >= 1 /\ DOMAIN node = 1 .. k /\ DOMAIN children = 1 .. k /\ DOMAIN parent = 1 .. k
      /\ depth \in Seq(Nat) /\ Len(depth) = k /\ Len(children) = k
      /\ \A n \in 1 .. k : /\ parent[n] \in 0 .. k /\ parent[n] < n
                           /\ children[n] \in Seq(1 .. k)
    BY <1>1, NodeFacts
<1>3. ASSUME NEW n \in 1 .. k
      PROVE  Rendered(n) \in S
    <2>1. node[n].type \in R!NodeType
        BY <1>2 DEF P!ParserInv, P!NodeKinds, P!Kinds, R!NodeType, P!DirectiveType,
                    R!DirectiveType
    <2> QED
        BY <2>1 DEF Rendered
<1>4. /\ Tree.node = [ n \in 1 .. k |-> Rendered(n) ]
      /\ Tree.depth = depth /\ Tree.children = children
    BY <1>1, RenderedTree
<1>5. Tree.node \in Seq(S) /\ Len(Tree.node) = k /\ DOMAIN Tree.node = 1 .. k
    <2> HIDE DEF S
    <2> QED
        BY <1>1, <1>3, <1>4
<1>6. Tree.node[R!Root] = [ type |-> "TAG", tag |-> "root", has_text |-> FALSE ]
    <2>1. node[1].type = "TAG" /\ node[1].text = << >>
        BY DEF P!ParserInv, P!NodeKinds, P!RootNode, P!Root
    <2>2. Rendered(1) = [ type |-> "TAG", tag |-> "root", has_text |-> FALSE ]
        BY <2>1 DEF Rendered
    <2> QED
        BY <1>2, <1>4, <2>2 DEF R!Root
<1>7. children \in Seq(Seq(1 .. k))
    <2>1. children \in Seq(Seq(Nat))
        BY DEF P!ParserInv, P!TreeInv, P!TypeOK
    <2>2. children \in [ 1 .. k -> Seq(1 .. k) ]
        BY <1>2, <2>1
    <2> QED
        BY <2>2
<1>8. ASSUME NEW n \in 1 .. k
      PROVE  /\ \A i, j \in DOMAIN children[n] : i < j => children[n][i] < children[n][j]
             /\ \A i \in DOMAIN children[n] : /\ children[n][i] \in 1 .. k
                                              /\ parent[children[n][i]] = n
    <2>1. \A i \in DOMAIN children[n] : children[n][i] \in 1 .. k
        BY <1>2 DEF P!ParserInv, P!ChildInv, P!ChildrenExist
    <2> QED
        BY <1>2, <2>1 DEF P!ParserInv, P!ChildInv, P!ChildrenMatchParents
<1>9. ASSUME NEW c \in 1 .. k, NEW d \in 1 .. k, parent[c] # 0, parent[d] # 0
      PROVE  /\ parent[c] < c
             /\ c = d => parent[c] = parent[d]
             /\ parent[c] < d /\ d < c => parent[c] <= parent[d]
    <2>1. parent[c] < d /\ d < c => d \in (parent[c] + 1) .. (c - 1)
        BY <1>2
    <2>2. \A m \in (parent[c] + 1) .. (c - 1) : parent[m] # 0 => parent[m] >= parent[c]
        BY <1>2, <1>9 DEF P!ParserInv, P!TreeInv, P!DocumentOrder, P!Attached, P!NULL
    <2> QED
        BY <1>2, <1>9, <2>1, <2>2
<1>10. ASSUME NEW n \in 1 .. k, NEW m \in 1 .. k,
              NEW i \in DOMAIN children[n], NEW j \in DOMAIN children[m]
       PROVE  LET c == children[n][i]
                  d == children[m][j]
              IN  n < c /\ (c = d => n = m) /\ (n < d /\ d < c => n <= m)
    <2>1. PICK c \in 1 .. k, d \in 1 .. k : c = children[n][i] /\ d = children[m][j]
        BY <1>8
    <2>2. parent[c] = n /\ parent[d] = m
        BY <1>8, <2>1
    <2> QED
        BY <1>9, <2>1, <2>2
<1> HIDE DEF S
<1>11. /\ Len(Tree.node) >= 1
       /\ Tree.depth \in Seq(Nat) /\ Len(Tree.depth) = Len(Tree.node)
       /\ Tree.children \in Seq(Seq(DOMAIN Tree.node))
       /\ Len(Tree.children) = Len(Tree.node)
    BY <1>2, <1>4, <1>5, <1>7
<1>12. \A n \in DOMAIN Tree.node : \A i, j \in DOMAIN Tree.children[n] :
          i < j => Tree.children[n][i] < Tree.children[n][j]
    BY <1>4, <1>5, <1>8
<1>13. \A n, m \in DOMAIN Tree.node :
          \A i \in DOMAIN Tree.children[n], j \in DOMAIN Tree.children[m] :
             LET c == Tree.children[n][i]
                 d == Tree.children[m][j]
             IN  n < c /\ (c = d => n = m) /\ (n < d /\ d < c => n <= m)
    BY <1>4, <1>5, <1>10
<1> QED
    BY <1>5, <1>6, <1>11, <1>12, <1>13 DEF R!IsTree, R!Root, S

-----------------------------------------------------------------------------
(* Every step of the program keeps what holds at the stages.               *)

LEMMA ListBegins == T!Begin => T!RisingInv
BY TokenizerHolds, T!RisingBegin

LEMMA ParserBegins == P!Begin => P!ParserInv
BY ParserHolds, ReadableListsEnd, P!ParserInvBegin

LEMMA WalkBegins == R!Begin => R!OrderInv
BY R!OrderBegin

(* From the finished parser on, the tree is one that the renderer expects. *)
LEMMA TreeIsReady == P!ParserInv => R!IsTree(Tree)
BY TreeIsTree

LEMMA StageInit == Init => StageInv
<1> SUFFICES ASSUME Init PROVE StageInv
    OBVIOUS
<1>1. /\ lines \in Documents /\ current_line = 1 /\ mode = "line" /\ pos = 1 /\ column = 1
      /\ token_list = << >> /\ list_capacity = ListCapacity /\ spans = << >>
    BY DEF Init, Tokenizer!Init
<1>2. faults \in 0 .. MaxFaults
    BY PipelineAssumption DEF Init
<1>3. T!RisingInv /\ lines \in Documents
    BY <1>1, <1>2, ListBegins DEF T!Begin
<1>4. NoTree
    BY DEF Init, NoTree, RendererIdle, Parser!NULL, Unread
<1> QED
    BY <1>3, <1>4 DEF StageInv, ListInv

LEMMA TokenizeKeeps ==
    ASSUME StageInv, Tokenize
    PROVE  StageInv'
<1>1. T!Next
    BY TokenizerSteps DEF Tokenize
<1>2. T!RisingInv'
    BY <1>1, TokenizerHolds, T!RisingStep DEF StageInv, ListInv
<1>3. lines' = lines
    <2>1. T!TypeOK
        BY DEF StageInv, ListInv, T!RisingInv, T!CutInv
    <2>2. \/ \E type, first, past, col : T!Scanned(type, first, past, col)
          \/ T!PassedOver \/ T!AddEof \/ UNCHANGED T!vars
        BY <1>1, <2>1, TokenizerHolds, T!Steps
    <2> QED
        BY <2>2 DEF T!Scanned, T!PassedOver, T!AddEof, T!vars
<1>4. NoTree /\ stage \in Unread
    BY DEF StageInv, Tokenize, Unread, Parsing, Parsed
<1>5. NoTree'
    BY <1>4 DEF NoTree, RendererIdle, Tokenize, parser, renderer
<1> QED
    BY <1>2, <1>3, <1>5 DEF StageInv, ListInv

LEMMA EndStatisticsKeeps ==
    ASSUME StageInv, EndStatistics
    PROVE  StageInv'
<1>1. faults' \in 0 .. MaxFaults
    BY FaultsBound DEF StageInv, EndStatistics
<1>2. T!Begin'
    BY <1>1 DEF T!Begin, StageInv, ListInv, EndStatistics, StartAgain
<1>4. T!RisingInv'
    BY <1>2, ListBegins, PTL
<1>5. NoTree
    BY DEF StageInv, EndStatistics, Unread, Parsing, Parsed
<1>6. NoTree'
    BY <1>5 DEF NoTree, RendererIdle, EndStatistics, Goto, Unread, parser, renderer
<1> QED
    BY <1>4, <1>6 DEF StageInv, ListInv, EndStatistics, StartAgain

LEMMA CreateRootKeeps ==
    ASSUME StageInv, CreateRoot
    PROVE  StageInv'
<1>1. NoTree
    BY DEF StageInv, CreateRoot, Unread, Parsing, Parsed
<1>2. ListInv'
    BY FaultsBound, ListKept DEF StageInv, CreateRoot, NoFault
<1>3. P!Begin'
    <2>1. token_list' \in Seq(P!Token)
        BY SameTokens, ListFits DEF StageInv, CreateRoot, tokenizer
    <2>2. faults' \in 0 .. MaxFaults
        BY FaultsBound DEF StageInv, CreateRoot, NoFault
    <2>3. Parser!RootNode = P!RootNode /\ Parser!NULL = P!NULL /\ Parser!Root = P!Root
        BY DEF Parser!RootNode, P!RootNode, Parser!NULL, P!NULL, Parser!Root, P!Root
    <2> QED
        BY <1>1, <2>1, <2>2, <2>3 DEF P!Begin, NoTree, CreateRoot
<1>4. P!ParserInv'
    BY <1>3, ParserBegins, PTL
<1>5. Parsing'
    BY <1>1, <1>4 DEF Parsing, NoTree, RendererIdle, CreateRoot, Goto, renderer
<1> QED
    BY <1>2, <1>5 DEF StageInv

LEMMA ParseKeeps ==
    ASSUME StageInv, Parse
    PROVE  StageInv'
<1>1. Parsing
    BY DEF StageInv, Parse, NoTree, Parsed
<1>2. P!Next
    BY ParserSteps DEF Parse
<1>3. P!ParserInv'
    BY <1>1, <1>2, ParserHolds, ReadableListsEnd, P!ParserInvStep DEF Parsing
<1>4. faults' \in 0 .. MaxFaults
    BY <1>3 DEF P!ParserInv, P!TreeInv, P!TypeOK
<1>5. ListInv'
    BY <1>4, ListKept DEF StageInv, Parse
<1>6. Parsing'
    BY <1>1, <1>3 DEF Parsing, RendererIdle, Parse, renderer
<1> QED
    BY <1>5, <1>6 DEF StageInv

LEMMA StartRenderKeeps ==
    ASSUME StageInv, StartRender
    PROVE  StageInv'
<1>1. Parsing
    BY DEF StageInv, StartRender, NoTree, Parsed
<1>2. ListInv'
    BY FaultsBound, ListKept DEF StageInv, StartRender
<1>3. UNCHANGED << token_list, parser, faults >>
    BY DEF StartRender, tokenizer
<1>4. P!ParserInv'
    BY <1>1, <1>3, ParserKept DEF Parsing
<1>5. token_list \in ReadableLists
    BY <1>1, DoneIsReadable DEF StageInv, StartRender, Parsing
<1>6. R!IsTree(Tree)'
    BY <1>4, TreeIsReady, PTL
<1>7. R!Begin'
    BY <1>1, <1>6 DEF R!Begin, Parsing, RendererIdle, StartRender, Parser!Root, R!Root
<1>8. R!OrderInv'
    BY <1>7, WalkBegins, PTL
<1>9. Parsed'
    BY <1>3, <1>4, <1>5, <1>8 DEF Parsed, StartRender, Goto, Unread, parser
<1> QED
    BY <1>2, <1>9 DEF StageInv

LEMMA RenderKeeps ==
    ASSUME StageInv, Render
    PROVE  StageInv'
<1>1. Parsed
    BY DEF StageInv, Render, NoTree, Parsing
<1>2. ListInv'
    BY FaultsBound, ListKept DEF StageInv, Render
<1>3. UNCHANGED << token_list, parser, faults >>
    BY DEF Render, tokenizer
<1>4. P!ParserInv'
    BY <1>1, <1>3, ParserKept DEF Parsed
<1>5. R!OrderInv'
    BY <1>1, RendererSteps, R!OrderStep DEF Parsed, Render
<1>6. Parsed'
    BY <1>1, <1>3, <1>4, <1>5 DEF Parsed, Render, Unread, parser
<1> QED
    BY <1>2, <1>6 DEF StageInv

(* The steps that only free memory or go on to the next stage. *)
LEMMA OthersKeep ==
    ASSUME StageInv, UNCHANGED << tokenizer, parser, renderer >>,
           faults' \in 0 .. MaxFaults, faults <= faults',
           stage' # stage =>
               /\ stage # "parse"
               /\ stage = "render" => R!Finished
               /\ stage' \notin { "parse", "render" }
               /\ stage' = "tree" => node # << >>
               /\ stage' \in Unread \cup { "exit" } \/ faults' > 0 \/ node # << >>
               /\ stage' \in Unread => node = << >>,
           stage = stage' => UNCHANGED faults,
           stage \in { "tokenize", "root" } \/ UNCHANGED faults
    PROVE  StageInv'
<1>1. ListInv'
    BY ListKept DEF StageInv
<1>2. UNCHANGED << token_list, current_token, pc, node, dropped, leaked, stack,
                   calling, output >>
    BY DEF tokenizer, parser, renderer
<1>3. faults \in Int /\ faults' \in Int
    BY FaultsBound DEF StageInv
<1>4. CASE NoTree
    <2>1. NoTree'
        BY <1>2, <1>3, <1>4 DEF NoTree, RendererIdle, Unread
    <2> QED
        BY <1>1, <2>1 DEF StageInv
<1>5. CASE Parsing
    <2>1. UNCHANGED << stage, faults >>
        BY <1>5 DEF Parsing
    <2>2. Parsing'
        BY <1>2, <1>5, <2>1, ParserKept DEF Parsing, RendererIdle
    <2> QED
        BY <1>1, <2>2 DEF StageInv
<1>6. CASE Parsed
    <2>1. node # << >>
        BY <1>6, NodeFacts DEF Parsed
    <2>2. R!OrderInv' /\ (R!Finished' <=> R!Finished)
        BY <1>2, <1>6, OrderKept DEF Parsed
    <2>3. stage \notin Unread /\ UNCHANGED << faults, parser >>
        BY <1>6 DEF Parsed, Unread
    <2>4. P!ParserInv'
        BY <1>2, <1>6, <2>3, ParserKept DEF Parsed
    <2>5. stage' \notin Unread \cup { "parse" }
        BY <1>6, <2>1 DEF Parsed
    <2>6. Parsed'
        BY <1>2, <1>6, <2>2, <2>4, <2>5 DEF Parsed
    <2> QED
        BY <1>1, <2>6 DEF StageInv
<1> QED
    BY <1>4, <1>5, <1>6 DEF StageInv

LEMMA StageStep == StageInv /\ [Next]_vars => StageInv'
<1> SUFFICES ASSUME StageInv, [Next]_vars PROVE StageInv'
    OBVIOUS
<1>1. faults \in 0 .. MaxFaults /\ faults \in Int /\ MaxFaults \in Nat
    BY FaultsBound DEF StageInv
<1>2. /\ stage \notin Unread \cup { "exit", "parse" } => faults > 0 \/ node # << >>
      /\ stage \in Unread => node = << >>
      /\ stage = "tree" => node # << >>
    BY NodeFacts DEF StageInv, NoTree, Parsing, Parsed, Unread
<1>3. CASE Read
    BY <1>1, <1>2, <1>3, OthersKeep DEF Read, Goto, Unread
<1>4. CASE CreateContext
    <2>1. stage = "tokenize" /\ stage' = "root" /\ node = << >>
        BY <1>2, <1>4 DEF CreateContext, Goto, Unread
    <2>2. UNCHANGED << tokenizer, parser, renderer, faults >>
        BY <1>4 DEF CreateContext, NoFault
    <2> QED
        BY <1>1, <2>1, <2>2, OthersKeep DEF Unread
<1>5. CASE CreateContextFails
    <2>1. faults' \in 0 .. MaxFaults /\ faults <= faults' /\ faults' > 0
        BY <1>1, <1>5 DEF CreateContextFails, Fault
    <2>2. stage' \in { "report", "undefined" }
        BY <1>5 DEF CreateContextFails, Free, Goto
    <2> QED
        BY <1>5, <2>1, <2>2, OthersKeep DEF CreateContextFails, Fault, Unread
<1>6. CASE CreateRootFails
    <2>1. faults' \in 0 .. MaxFaults /\ faults <= faults' /\ faults' > 0
        BY <1>1, <1>6 DEF CreateRootFails, Fault
    <2> QED
        BY <1>6, <2>1, OthersKeep DEF CreateRootFails, Goto, Unread
<1>7. CASE EndRender
    <2>1. R!Finished
        BY <1>7, RendererSteps DEF EndRender
    <2>2. UNCHANGED << tokenizer, parser, renderer, faults >>
        BY <1>7 DEF EndRender
    <2>3. stage = "render" /\ stage' = "free" /\ (faults > 0 \/ node # << >>)
        BY <1>2, <1>7 DEF EndRender, Goto, Unread
    <2> QED
        BY <1>1, <2>1, <2>2, <2>3, OthersKeep DEF Unread
<1>8. CASE FreeTokens
    <2>1. \/ stage' \in { "context", "undefined" }
          \/ stage' = "tree" /\ node # << >>
        BY <1>8 DEF FreeTokens, Free, Goto
    <2> QED
        BY <1>1, <1>2, <1>8, <2>1, OthersKeep DEF FreeTokens, Unread
<1>9. CASE FreeChild
    BY <1>1, <1>2, <1>9, OthersKeep DEF FreeChild
<1>10. CASE FreeNode
    <2>1. stage' \in { "context", "undefined", "tree" }
        BY <1>10 DEF FreeNode, Free, Goto
    <2> QED
        BY <1>1, <1>2, <1>10, <2>1, OthersKeep DEF FreeNode, Unread
<1>11. CASE FreeContext
    <2>1. stage' \in { "report", "undefined" }
        BY <1>11 DEF FreeContext, Free, Goto
    <2> QED
        BY <1>1, <1>2, <1>11, <2>1, OthersKeep DEF FreeContext, Unread
<1>12. CASE Report
    <2>1. stage' \in { "exit", "undefined" }
        BY <1>12 DEF Report, Free, Goto
    <2> QED
        BY <1>1, <1>2, <1>12, <2>1, OthersKeep DEF Report, Unread
<1>13. CASE Stopped \/ UNCHANGED vars
    <2>1. UNCHANGED << stage, faults, tokenizer, parser, renderer >>
        BY <1>13 DEF Stopped, vars
    <2> QED
        BY <1>1, <2>1, OthersKeep
<1> QED
    BY <1>3, <1>4, <1>5, <1>6, <1>7, <1>8, <1>9, <1>10, <1>11, <1>12, <1>13,
       TokenizeKeeps, EndStatisticsKeeps, CreateRootKeeps, ParseKeeps,
       StartRenderKeeps, RenderKeeps
    DEF Next

LEMMA StageHolds == Spec => []StageInv
BY StageInit, StageStep, PTL DEF Spec

-----------------------------------------------------------------------------
(***************************************************************************)
(* SourceOrder.  The renderer visits the nodes in their order (OrderInv),  *)
(* the parser numbers them in the order of their tokens (TokRising), and   *)
(* the tokenizer cuts those in the order of the text (Rising).             *)
(***************************************************************************)

LEMMA SameStarts == \A w : Renderer!Starts(w) = R!Starts(w)
BY DEF Renderer!Starts, R!Starts, Renderer!IsStart, R!IsStart, Renderer!Layout, R!Layout

(* What is seen are nodes with a token, not the artificial root.           *)
LEMMA SeenNodes ==
    ASSUME Parsed
    PROVE  R!Shown \subseteq DOMAIN node \ { 1 }
<1> SUFFICES ASSUME NEW n \in R!Shown PROVE n \in DOMAIN node \ { 1 }
    OBVIOUS
<1>1. n \in DOMAIN R!node /\ ~ R!IsArtificial(n)
    BY DEF R!Shown, R!Subtree
<1>2. DOMAIN R!node = DOMAIN node
    BY RenderedTree, NodeFacts DEF Parsed, R!node
<1>3. R!IsArtificial(1)
    <2>1. R!node[R!Root] = [ type |-> "TAG", tag |-> "root", has_text |-> FALSE ]
        BY TreeIsTree DEF Parsed, R!IsTree, R!node
    <2> QED
        BY <2>1 DEF R!IsArtificial, R!Root
<1> QED
    BY <1>1, <1>2, <1>3

LEMMA TokensRise ==
    ASSUME Parsed, NEW m \in DOMAIN node \ { 1 }, NEW n \in DOMAIN node \ { 1 }, m < n
    PROVE  /\ node[m].tok \in DOMAIN token_list /\ node[n].tok \in DOMAIN token_list
           /\ node[m].tok < node[n].tok
BY DEF Parsed, P!ParserInv, P!ReadInv, P!TokRising, P!Root

LEMMA SourceRises ==
    ASSUME ListInv, NEW i \in DOMAIN token_list, NEW j \in DOMAIN token_list, i < j
    PROVE  Earlier(<< token_list[i].line, spans[i][1] >>,
                   << token_list[j].line, spans[j][1] >>)
<1>1. token_list \in Seq(Token) /\ DOMAIN token_list = 1 .. Len(token_list)
      /\ Len(token_list) \in Nat
    BY ListFits, LenProperties
<1>2. token_list[i].line \in Nat /\ token_list[j].line \in Nat
    <2>1. token_list[i] \in Token /\ token_list[j] \in Token
        BY <1>1
    <2> QED
        BY <2>1 DEF Token
<1>3. i \in 1 .. j - 1
    BY <1>1
<1>4. /\ token_list[i].line <= token_list[j].line
      /\ token_list[i].line = token_list[j].line => spans[i][1] < spans[j][1]
    BY <1>3 DEF ListInv, T!RisingInv, T!Rising
<1> QED
    BY <1>2, <1>4 DEF Earlier

LEMMA StageSource == StageInv => SourceOrder
<1> SUFFICES ASSUME StageInv PROVE SourceOrder
    OBVIOUS
<1>1. CASE RendererIdle
    <2>1. output[FALSE] = << >>
        BY <1>1 DEF RendererIdle
    <2>2. Renderer!Starts(output[FALSE]) = {}
        BY <2>1 DEF Renderer!Starts
    <2> QED
        BY <2>2 DEF SourceOrder
<1>2. CASE Parsed
    <2> DEFINE written == output[FALSE]
    <2> SUFFICES ASSUME NEW i \in R!Starts(written), NEW j \in R!Starts(written), i < j
                 PROVE  Earlier(Source(written[i].of), Source(written[j].of))
        BY SameStarts DEF SourceOrder
    <2>1. R!WritesInOrder
        BY <1>2, R!OrderSays DEF Parsed
    <2>2. written[i].of \in R!Shown /\ written[j].of \in R!Shown
          /\ written[i].of < written[j].of
        BY <2>1 DEF R!WritesInOrder
    <2>3. PICK m \in DOMAIN node \ { 1 }, n \in DOMAIN node \ { 1 } :
             m = written[i].of /\ n = written[j].of /\ m < n
        BY <1>2, <2>2, SeenNodes
    <2>4. Earlier(Source(m), Source(n))
        BY <1>2, <2>3, TokensRise, SourceRises DEF StageInv, Source
    <2> QED
        BY <2>3, <2>4
<1> QED
    BY <1>1, <1>2 DEF StageInv, NoTree, Parsing

(* What is written starts in the order of the document (see SourceOrder):  *)
(* for any document and any allocation failures, neither tokenize_file nor *)
(* parse_pug nor render_ast turns two pieces of the source around.         *)
THEOREM SourceInOrder == Spec => []SourceOrder
BY StageHolds, StageSource, PTL

-----------------------------------------------------------------------------
(***************************************************************************)
(* IndentationToHtml.  Nodes and tokens correspond, in the same order, so  *)
(* that a token encloses another if between their nodes all are deeper     *)
(* than the first; and that is so if the other is below it in the tree.    *)
(***************************************************************************)

(* The child lists as the renderer reads them are the parent links.        *)
LEMMA RenderedNodes ==
    ASSUME Parsed
    PROVE  /\ R!InTree
           /\ R!node = [ n \in 1 .. Len(node) |-> Rendered(n) ] /\ R!children = children
           /\ \A p \in DOMAIN node : \A c \in DOMAIN node :
                 R!Child(p, c) <=> parent[c] = p
<1>1. R!InTree
    BY DEF Parsed, R!OrderInv, R!OutputInv
<1>2. R!node = [ n \in 1 .. Len(node) |-> Rendered(n) ] /\ R!children = children
    BY RenderedTree DEF Parsed, R!node, R!children
<1>3. ASSUME NEW p \in DOMAIN node, NEW c \in DOMAIN node
      PROVE  R!Child(p, c) <=> parent[c] = p
    <2>1. DOMAIN node = DOMAIN children /\ DOMAIN node = DOMAIN parent
        BY NodeFacts DEF Parsed
    <2>2. parent[c] = p <=> \E i \in DOMAIN children[p] : children[p][i] = c
        BY <2>1 DEF Parsed, P!ParserInv, P!ChildInv, P!ChildrenMatchParents
    <2> QED
        BY <1>2, <2>2 DEF R!Child
<1> QED
    BY <1>1, <1>2, <1>3

(* Without failures all nodes hang in the tree, below a shallower one.     *)
LEMMA AllHang ==
    ASSUME Parsed, faults = 0, NEW n \in DOMAIN node \ { 1 }
    PROVE  /\ parent[n] \in DOMAIN node /\ parent[n] < n
           /\ parent[n] = 1 \/ depth[parent[n]] < depth[n]
<1>1. pc = "done" /\ n \in P!Finished \ { P!Root }
    BY DEF Parsed, P!Finished, P!Root
<1>2. parent[n] # 0 /\ (parent[n] = 1 \/ depth[parent[n]] < depth[n])
    BY <1>1 DEF Parsed, P!ParserInv, P!ParentsAreShallower, P!Attached, P!NULL, P!Root
<1>3. DOMAIN node = 1 .. Len(node) /\ parent[n] \in 0 .. Len(node) /\ parent[n] < n
    BY NodeFacts DEF Parsed
<1> QED
    BY <1>2, <1>3

LEMMA AllInTree ==
    ASSUME Parsed, faults = 0
    PROVE  R!Subtree(R!Root) = DOMAIN node
<1>1. DOMAIN R!node = DOMAIN node /\ R!InTree /\ 1 \in DOMAIN node
      /\ DOMAIN node = 1 .. Len(node) /\ Len(node) \in Nat
    BY RenderedNodes, NodeFacts DEF Parsed
<1> DEFINE rest == DOMAIN node \ R!Subtree(R!Root)
<1>2. /\ R!Root \in R!Subtree(R!Root) /\ R!Subtree(R!Root) \subseteq DOMAIN node
      /\ \A m \in R!Subtree(R!Root) : \A c : R!Child(m, c) => c \in R!Subtree(R!Root)
    BY <1>1, R!SubtreeFacts DEF R!Root
<1> SUFFICES ASSUME rest # {} PROVE FALSE
    BY <1>2
<1>3. PICK n \in rest : \A m \in rest : n <= m
    <2>1. rest \in SUBSET (1 .. Len(node)) /\ 1 \in Int /\ Len(node) \in Int
        BY <1>1
    <2> QED
        BY <2>1, TokenizerHolds, T!Least
<1>4. n \in DOMAIN node \ { 1 }
    BY <1>2 DEF R!Root
<1>5. parent[n] \in DOMAIN node /\ parent[n] < n
    BY <1>4, AllHang
<1>6. parent[n] \in R!Subtree(R!Root)
    BY <1>1, <1>3, <1>5
<1> QED
    BY <1>2, <1>4, <1>5, <1>6, RenderedNodes

(* If no token was dropped either, the parent is the nearest shallower one, *)
(* and below a node are those that follow it as long as they are deeper.   *)
Deeper(a, n) == \A m \in a + 1 .. n : depth[a] < depth[m]

LEMMA Nearest ==
    ASSUME Parsed, faults = 0, dropped = {}, NEW n \in DOMAIN node \ { 1 }
    PROVE  \A m \in DOMAIN node : parent[n] < m /\ m < n => depth[m] >= depth[n]
<1> SUFFICES ASSUME NEW m \in DOMAIN node, parent[n] < m, m < n
             PROVE  depth[m] >= depth[n]
    OBVIOUS
<1>1. DOMAIN node = 1 .. Len(node) /\ Len(node) \in Nat /\ DOMAIN parent = 1 .. Len(node)
    BY NodeFacts DEF Parsed
<1>2. parent[n] # 0 /\ parent[n] \in DOMAIN node
    BY <1>1, AllHang
<1>3. m \in parent[n] + 1 .. n - 1
    BY <1>1, <1>2
<1>4. P!NearestShallower
    BY DEF Parsed, P!ParserInv, P!ReadInv, P!NearInv
<1> QED
    BY <1>1, <1>2, <1>3, <1>4 DEF P!NearestShallower, P!Attached, P!NULL

LEMMA BelowIsDeeper ==
    ASSUME Parsed, faults = 0, dropped = {}, NEW a \in DOMAIN node \ { 1 },
           NEW n \in R!Below(a)
    PROVE  n \in DOMAIN node \ { 1 } /\ a < n /\ Deeper(a, n)
<1>1. PICK k \in Nat : k = Len(node)
    BY NodeFacts DEF Parsed
<1>2. /\ DOMAIN node = 1 .. k /\ DOMAIN R!node = 1 .. k /\ R!InTree
      /\ \A m \in 1 .. k : depth[m] \in Nat
    BY <1>1, RenderedNodes, NodeFacts DEF Parsed
<1> DEFINE set == { m \in 1 .. k : m = a \/ (a < m /\ Deeper(a, m)) }
<1>3. ASSUME NEW m \in set, NEW i \in DOMAIN R!children[m]
      PROVE  R!children[m][i] \in set
    <2>1. PICK c : c = R!children[m][i] /\ R!Child(m, c)
        BY DEF R!Child
    <2>2. c \in 1 .. k /\ m < c
        BY <1>2, <2>1, R!ChildFacts
    <2>3. parent[c] = m /\ c \in DOMAIN node \ { 1 } /\ m # 1
        BY <1>2, <2>1, <2>2, RenderedNodes
    <2>4. depth[m] < depth[c]
        BY <2>3, AllHang
    <2>5. \A j \in DOMAIN node : m < j /\ j < c => depth[j] >= depth[c]
        BY <2>3, Nearest
    <2>6. ASSUME NEW j \in a + 1 .. c
          PROVE  depth[a] < depth[j]
        <3>1. j \in 1 .. k /\ a \in 1 .. k
            BY <1>2, <2>2
        <3>2. depth[a] <= depth[m] /\ (j <= m => depth[a] < depth[j])
            <4>1. m = a => ~ j <= m
                BY <1>2
            <4>2. m # a => m \in a + 1 .. m /\ (j <= m => j \in a + 1 .. m)
                BY <1>2
            <4> QED
                BY <1>2, <3>1, <4>1, <4>2 DEF Deeper
        <3>3. m < j => depth[m] < depth[j]
            BY <1>2, <2>2, <2>4, <2>5, <3>1
        <3> QED
            BY <1>2, <2>2, <3>1, <3>2, <3>3
    <2> QED
        BY <1>2, <2>1, <2>2, <2>6 DEF Deeper
<1>4. R!ChildrenIn(set)
    BY <1>3 DEF R!ChildrenIn
<1>5. R!Subtree(a) \subseteq set
    BY <1>2, <1>4, R!SubtreeFacts
<1> QED
    BY <1>2, <1>5 DEF R!Below

LEMMA DeeperIsBelow ==
    ASSUME Parsed, faults = 0, dropped = {}, NEW a \in DOMAIN node \ { 1 },
           NEW n \in DOMAIN node \ { 1 }, a < n, Deeper(a, n)
    PROVE  n \in R!Below(a)
<1>1. PICK k \in Nat : k = Len(node)
    BY NodeFacts DEF Parsed
<1>2. /\ DOMAIN node = 1 .. k /\ DOMAIN R!node = 1 .. k /\ R!InTree
      /\ \A m \in 1 .. k : depth[m] \in Nat
    BY <1>1, RenderedNodes, NodeFacts DEF Parsed
<1>3. /\ a \in R!Subtree(a)
      /\ \A m \in R!Subtree(a) : \A c : R!Child(m, c) => c \in R!Subtree(a)
    BY <1>2, R!SubtreeFacts
<1> DEFINE rest == (a .. n) \ R!Subtree(a)
<1> SUFFICES ASSUME rest # {} PROVE FALSE
    BY <1>2 DEF R!Below
<1>4. PICK m \in rest : \A j \in rest : m <= j
    <2>1. rest \in SUBSET (a .. n) /\ a \in Int /\ n \in Int
        BY <1>2
    <2> QED
        BY <2>1, TokenizerHolds, T!Least
<1>5. m \in a + 1 .. n /\ m \in DOMAIN node \ { 1 } /\ a < m
    BY <1>2, <1>3
<1>6. parent[m] \in DOMAIN node /\ parent[m] < m
    BY <1>5, AllHang
<1>7. a <= parent[m]
    <2>1. depth[a] < depth[m]
        BY <1>5 DEF Deeper
    <2>2. parent[m] < a => depth[a] >= depth[m]
        BY <1>5, Nearest
    <2> QED
        BY <1>2, <1>5, <1>6, <2>1, <2>2
<1>8. parent[m] \in R!Subtree(a)
    <2>1. PICK p \in 1 .. k : p = parent[m] /\ p < m /\ a <= p
        BY <1>2, <1>6, <1>7
    <2>2. p \in a .. n /\ ~ m <= p
        BY <1>2, <1>5, <2>1
    <2> QED
        BY <1>4, <2>1, <2>2
<1>9. R!Child(parent[m], m)
    BY <1>5, <1>6, RenderedNodes
<1> QED
    BY <1>3, <1>8, <1>9

(* Between the nodes are the nodes of the tokens between the tokens.       *)
LEMMA EnclosesBelow ==
    ASSUME Parsed, faults = 0, dropped = {}, NEW a \in DOMAIN node \ { 1 },
           NEW n \in DOMAIN node \ { 1 }, a < n
    PROVE  Encloses(node[a].tok, node[n].tok) <=> n \in R!Below(a)
<1>1. PICK k \in Nat : k = Len(node)
    BY NodeFacts DEF Parsed
<1>2. /\ DOMAIN node = 1 .. k /\ \A m \in 1 .. k : node[m].tok \in Nat
    BY <1>1, NodeFacts DEF Parsed
<1>3. \A m \in DOMAIN node \ { 1 } : token_list[node[m].tok].depth = depth[m]
    <2> TAKE m \in DOMAIN node \ { 1 }
    <2>1. node[m].tok \in DOMAIN token_list
        BY DEF Parsed, P!ParserInv, P!ReadInv, P!TokRising, P!Root
    <2>2. node[m].tok # 0
        <3>1. token_list \in Seq(Token)
            BY DEF Parsed, ReadableLists
        <3> QED
            BY <2>1, <3>1, LenProperties
    <2>3. node[m].tok \in P!HeldBy(node[m])
        BY <2>2 DEF P!HeldBy, P!Rest, P!NULL
    <2> QED
        BY <2>3 DEF Parsed, P!ParserInv, P!ReadInv, P!TokenInv, P!OwnTokens
<1>4. \A m \in DOMAIN node \ { 1 }, l \in DOMAIN node \ { 1 } :
         node[l].tok < node[m].tok <=> l < m
    <2> TAKE m \in DOMAIN node \ { 1 }, l \in DOMAIN node \ { 1 }
    <2>1. l < m => node[l].tok < node[m].tok
        BY TokensRise
    <2>2. m < l => node[m].tok < node[l].tok
        BY TokensRise
    <2>3. m \in Nat /\ l \in Nat /\ node[m].tok \in Nat /\ node[l].tok \in Nat
        BY <1>2
    <2> QED
        BY <2>1, <2>2, <2>3
<1>5. Encloses(node[a].tok, node[n].tok) <=>
         \A m \in DOMAIN node \ { 1 } : a < m /\ m <= n => depth[a] < depth[m]
    <2>1. \A m \in DOMAIN node \ { 1 } :
             (node[a].tok < node[m].tok /\ node[m].tok <= node[n].tok) <=> (a < m /\ m <= n)
        <3> TAKE m \in DOMAIN node \ { 1 }
        <3>1. node[a].tok < node[m].tok <=> a < m
            BY <1>4
        <3>2. node[n].tok < node[m].tok <=> n < m
            BY <1>4
        <3>3. node[n].tok \in Nat /\ node[m].tok \in Nat /\ n \in Nat /\ m \in Nat
            BY <1>2
        <3> QED
            BY <3>1, <3>2, <3>3
    <2>2. Encloses(node[a].tok, node[n].tok) <=>
             \A m \in DOMAIN node \ { 1 } :
                node[a].tok < node[m].tok /\ node[m].tok <= node[n].tok =>
                   token_list[node[a].tok].depth < token_list[node[m].tok].depth
        BY DEF Encloses, Opening
    <2> QED
        BY <1>3, <2>1, <2>2
<1>6. (\A m \in DOMAIN node \ { 1 } : a < m /\ m <= n => depth[a] < depth[m]) <=> Deeper(a, n)
    <2>1. \A m : m \in DOMAIN node \ { 1 } /\ a < m /\ m <= n <=> m \in a + 1 .. n
        BY <1>2
    <2> QED
        BY <2>1 DEF Deeper
<1> QED
    BY <1>5, <1>6, BelowIsDeeper, DeeperIsBelow

(* What the renderer asks of a node is what its token says.                *)
LEMMA KindsAgree ==
    ASSUME Parsed, NEW n \in DOMAIN node \ { 1 }
    PROVE  LET t == token_list[node[n].tok]
           IN  /\ n \in R!Barren <=> ~ HasContent(node[n].tok)
               /\ t.type = "TAG" => /\ R!node[n].type = "TAG"
                                    /\ R!IsArtificial(n) <=> t.value \in RootTags
<1> DEFINE t == token_list[node[n].tok]
<1>1. R!node[n] = Rendered(n) /\ DOMAIN R!node = DOMAIN node
    BY RenderedNodes, NodeFacts DEF Parsed
<1>2. node[n].type = "TAG" <=> t.type = "TAG"
    BY DEF Parsed, P!ParserInv, P!NodeKinds, P!KindOf, P!TextLike, P!Root
<1>3. Name(n) = t.value
    BY DEF Name
<1>4. R!IsArtificial(n) <=> t.type = "TAG" /\ t.value \in RootTags
    BY <1>1, <1>2, <1>3 DEF R!IsArtificial, Rendered
<1>5. R!IsVoid(n) <=> t.type = "TAG" /\ t.value \in VoidTags
    BY <1>1, <1>2, <1>3, PipelineAssumption DEF R!IsVoid, Rendered
<1>6. n \in R!Barren <=> ~ HasContent(node[n].tok)
    <2>1. R!node[n].type = "TAG" <=> t.type = "TAG"
        BY <1>1, <1>2 DEF Rendered
    <2>2. n \in DOMAIN R!node
        BY <1>1
    <2>3. n \in R!Barren <=> ~ (t.type = "TAG" /\ t.value \notin VoidTags)
        BY <1>4, <1>5, <2>1, <2>2, PipelineAssumption DEF R!Barren, R!IsElement
    <2> QED
        BY <2>3 DEF HasContent
<1> QED
    BY <1>1, <1>2, <1>4, <1>6 DEF Rendered

(* A tag is shown if and only if it is not called root and all that it is  *)
(* indented below can have content.                                        *)
LEMMA ShownTags ==
    ASSUME Parsed, faults = 0, dropped = {}, NEW n \in DOMAIN node \ { 1 },
           token_list[node[n].tok].type = "TAG"
    PROVE  n \in R!Shown <=>
               /\ token_list[node[n].tok].value \notin RootTags
               /\ \A j \in Opening :
                     j < node[n].tok /\ Encloses(j, node[n].tok) => HasContent(j)
<1>1. /\ n \in R!Subtree(R!Root)
      /\ R!node[n].type = "TAG"
      /\ R!IsArtificial(n) <=> token_list[node[n].tok].value \in RootTags
    BY AllInTree, KindsAgree
<1>2. n \in R!Shown <=> /\ token_list[node[n].tok].value \notin RootTags
                        /\ \A a \in R!Barren : n \notin R!Below(a)
    BY <1>1 DEF R!Shown
<1>3. R!Barren \subseteq DOMAIN node \ { 1 }
    <2>1. DOMAIN R!node = DOMAIN node
        BY RenderedNodes, NodeFacts DEF Parsed
    <2>2. R!IsArtificial(1)
        <3>1. R!node[R!Root] = [ type |-> "TAG", tag |-> "root", has_text |-> FALSE ]
            BY TreeIsTree DEF Parsed, R!IsTree, R!node
        <3> QED
            BY <3>1 DEF R!IsArtificial, R!Root
    <2> QED
        BY <2>1, <2>2 DEF R!Barren
<1>4. ASSUME NEW a \in DOMAIN node \ { 1 }
      PROVE  n \in R!Below(a) <=>
                node[a].tok < node[n].tok /\ Encloses(node[a].tok, node[n].tok)
    <2>1. a \in Nat /\ n \in Nat /\ node[a].tok \in Nat /\ node[n].tok \in Nat
        BY NodeFacts DEF Parsed
    <2>2. CASE a < n
        BY <2>2, TokensRise, EnclosesBelow
    <2>3. CASE ~ a < n
        <3>1. n \notin R!Below(a)
            BY <2>3, BelowIsDeeper
        <3>2. a = n \/ node[n].tok < node[a].tok
            BY <2>1, <2>3, TokensRise
        <3> QED
            BY <2>1, <3>1, <3>2
    <2> QED
        BY <2>2, <2>3
<1>5. (\A a \in R!Barren : n \notin R!Below(a)) <=>
          \A a \in DOMAIN node \ { 1 } :
             n \in R!Below(a) => HasContent(node[a].tok)
    BY <1>3, KindsAgree
<1>6. (\A a \in DOMAIN node \ { 1 } : n \in R!Below(a) => HasContent(node[a].tok)) <=>
          \A j \in Opening :
             j < node[n].tok /\ Encloses(j, node[n].tok) => HasContent(j)
    BY <1>4 DEF Opening
<1> QED
    BY <1>2, <1>5, <1>6

LEMMA StageHtml == StageInv => IndentationToHtml
<1> DEFINE starts == { output[FALSE][i].of : i \in Renderer!Starts(output[FALSE]) }
           written == { node[n].tok : n \in starts }
<1> SUFFICES ASSUME StageInv, stage = "report", faults = 0, dropped = {},
                    NEW k \in Opening, token_list[k].type = "TAG"
             PROVE  k \in written <=>
                        /\ token_list[k].value \notin RootTags
                        /\ \A j \in Opening : j < k /\ Encloses(j, k) => HasContent(j)
    BY DEF IndentationToHtml
<1>1. Parsed /\ R!Finished
    BY DEF StageInv, NoTree, Parsing, Parsed, Unread
<1>2. starts = R!Shown
    <2>1. R!WritesInOrder
        BY <1>1, R!OrderSays DEF Parsed
    <2>2. starts = { output[FALSE][i].of : i \in R!Starts(output[FALSE]) }
        BY SameStarts
    <2> QED
        BY <1>1, <2>1, <2>2 DEF R!WritesInOrder
<1>3. PICK n \in DOMAIN node \ { 1 } : k = node[n].tok
    BY DEF Opening
<1>4. k \in written <=> n \in R!Shown
    <2>1. \A m \in R!Shown : m \in DOMAIN node \ { 1 }
        BY <1>1, SeenNodes
    <2>2. \A m \in DOMAIN node \ { 1 } : node[m].tok = node[n].tok => m = n
        <3> SUFFICES ASSUME NEW m \in DOMAIN node \ { 1 }, m # n
                     PROVE  node[m].tok # node[n].tok
            OBVIOUS
        <3>1. m \in Nat /\ n \in Nat /\ node[m].tok \in Nat /\ node[n].tok \in Nat
            BY <1>1, NodeFacts DEF Parsed
        <3>2. m < n \/ n < m
            BY <3>1
        <3> QED
            BY <1>1, <3>1, <3>2, TokensRise
    <2> QED
        BY <1>2, <1>3, <2>1, <2>2
<1> QED
    BY <1>1, <1>3, <1>4, ShownTags

(* The meaning of indentation (see IndentationToHtml), for every document:  *)
(* without failures, and if parse_pug dropped no token, the HTML has a tag  *)
(* if and only if every token the tag is indented below can have content.   *)
THEOREM IndentationIsMeant == Spec => []IndentationToHtml
BY StageHolds, StageHtml, PTL

-----------------------------------------------------------------------------
(***************************************************************************)
(* The memory in all stages: nothing is freed twice, and at the end the    *)
(* nodes are left that do not hang in the tree                             *)
(***************************************************************************)

MemoryInv ==
    /\ StageInv /\ stage # "undefined"
    /\ LiveInv /\ FreedInv
    /\ stage = "read" => token_list = << >>

(* The lists only grow.                                                    *)
LEMMA ListGrows ==
    ASSUME StageInv, Tokenize
    PROVE  DOMAIN token_list \subseteq DOMAIN token_list'
<1>1. T!Next
    BY TokenizerSteps DEF Tokenize
<1>2. T!TypeOK
    BY DEF StageInv, ListInv, T!RisingInv, T!CutInv
<1>3. \/ \E type, first, past, col : T!Scanned(type, first, past, col)
      \/ T!PassedOver \/ T!AddEof \/ UNCHANGED T!vars
    BY <1>1, <1>2, TokenizerHolds, T!Steps
<1>4. ASSUME NEW token, UNCHANGED token_list \/ token_list' = Append(token_list, token)
      PROVE  DOMAIN token_list \subseteq DOMAIN token_list'
    <2>1. token_list \in Seq(Token)
        BY ListFits DEF StageInv
    <2> QED
        BY <1>4, <2>1, AppendProperties
<1>5. \E token : UNCHANGED token_list \/ token_list' = Append(token_list, token)
    BY <1>3 DEF T!Scanned, T!PassedOver, T!AddEof, T!vars, T!list, T!Emit, T!Add, T!Store, T!Lose
<1> QED
    BY <1>4, <1>5

LEMMA NodesGrow ==
    ASSUME StageInv, Parse
    PROVE  DOMAIN node \subseteq DOMAIN node' /\ node # << >> /\ node' # << >>
<1>1. Parsing /\ P!Next /\ P!TypeOK /\ P!TreeInv
    BY ParserSteps DEF StageInv, Parse, NoTree, Parsed, Parsing, P!ParserInv, P!TreeInv
<1>2. \/ (P!ParseTag \/ P!ParseStandalone)
               /\ P!HasCurrent /\ P!CreateNode
               /\ P!Current.type \in P!Standalone \cup {"TAG"}
      \/ P!MergeId \/ P!MergeClass \/ P!MergeAttributes \/ P!MergeText
      \/ UNCHANGED node
    BY <1>1, ParserHolds, P!NodeSteps
<1>3. 1 \in DOMAIN node
    BY <1>1, NodeFacts DEF Parsing
<1>4. DOMAIN node \subseteq DOMAIN node'
    <2>1. ASSUME P!MergeId \/ P!MergeClass \/ P!MergeAttributes \/ P!MergeText
          PROVE  DOMAIN node' = DOMAIN node
        BY <1>1, <2>1, ParserHolds, P!MergedNode
    <2>2. ASSUME P!HasCurrent, P!CreateNode, P!Current.type \in P!Standalone \cup {"TAG"}
          PROVE  DOMAIN node \subseteq DOMAIN node'
        <3>1. PICK k \in Nat : DOMAIN node = 1 .. k /\ DOMAIN node' = 1 .. k + 1
            BY <1>1, <2>2, ParserHolds, P!CreatedNode
        <3> QED
            BY <3>1
    <2> QED
        BY <1>2, <2>1, <2>2
<1> QED
    BY <1>3, <1>4

LEMMA MemoryInit == Init => MemoryInv
<1> SUFFICES ASSUME Init PROVE MemoryInv
    OBVIOUS
<1>1. stage = "read" /\ live = {} /\ node = << >>
    BY DEF Init
<1>2. Kept = {} /\ Gone = {}
    BY <1>1 DEF Kept, Gone, Unread
<1> QED
    BY <1>1, <1>2, StageInit DEF MemoryInv, LiveInv, FreedInv, Init, Tokenizer!Init


(* The steps before the tree is freed, up to the stage.                    *)
LEMMA MemoryStart ==
    ASSUME MemoryInv, Read \/ EndStatistics \/ CreateContext \/ CreateContextFails
                        \/ CreateRootFails
    PROVE  MemoryInv'
<1>1. /\ StageInv' /\ node = << >> /\ node' = << >>
      /\ stage \in { "read", "show", "tokenize", "root" }
    <2>1. StageInv'
        BY StageStep DEF MemoryInv, Next
    <2>2. stage \in { "read", "show", "tokenize", "root" }
        BY DEF Read, EndStatistics, CreateContext, CreateContextFails, CreateRootFails
    <2>3. node = << >>
        BY <2>2 DEF MemoryInv, StageInv, NoTree, Parsing, Parsed, Unread
    <2>4. node' = node
        BY DEF Read, EndStatistics, CreateContext, CreateContextFails, CreateRootFails, parser
    <2> QED
        BY <2>1, <2>2, <2>3, <2>4
<1>2. Gone' = {} /\ NodeBlocks = {} /\ NodeBlocks' = {}
    BY <1>1 DEF Gone, NodeBlocks
<1>3. live = Kept
    BY <1>2 DEF MemoryInv, LiveInv
<1> SUFFICES live' = Kept' /\ stage' \notin { "read", "undefined", "tree" }
    BY <1>1, <1>2 DEF MemoryInv, LiveInv, FreedInv
<1>4. CASE Read
    <2>1. token_list' = << >> /\ live = {}
        BY <1>3, <1>4 DEF MemoryInv, Read, tokenizer, Kept, Unread
    <2>2. TokensOf(<< >>) = { List }
        BY DEF TokensOf
    <2> QED
        BY <1>1, <1>4, <2>1, <2>2 DEF Read, Goto, Kept, Unread
<1>5. CASE EndStatistics
    <2>1. live = { Content } \cup TokensOf(token_list)
        BY <1>1, <1>3, <1>5 DEF EndStatistics, Kept, Unread
    <2>2. token_list' = << >> /\ TokensOf(<< >>) = { List }
        BY <1>5 DEF EndStatistics, StartAgain, TokensOf
    <2>3. live' = { Content } \cup { List }
        BY <1>5, <2>1, KeptApart DEF EndStatistics
    <2> QED
        BY <1>1, <1>5, <2>2, <2>3 DEF EndStatistics, Goto, Kept, Unread
<1>6. CASE CreateContext
    <2>1. token_list' = token_list
        BY <1>6 DEF CreateContext, tokenizer
    <2> QED
        BY <1>1, <1>3, <1>6, <2>1 DEF CreateContext, Goto, Kept, Unread
<1>7. CASE CreateContextFails
    <2>1. live = { Content } \cup TokensOf(token_list)
        BY <1>1, <1>3, <1>7 DEF CreateContextFails, Kept, Unread
    <2>2. live' = live \ TokensOf(token_list) /\ stage' = "report"
        BY <1>7, <2>1 DEF CreateContextFails, Free, Goto
    <2> QED
        BY <1>1, <2>1, <2>2, KeptApart DEF Kept, Unread
<1>8. CASE CreateRootFails
    <2>1. token_list' = token_list
        BY <1>8 DEF CreateRootFails, tokenizer
    <2> QED
        BY <1>1, <1>3, <1>8, <2>1 DEF CreateRootFails, Goto, Kept, Unread
<1> QED
    BY <1>4, <1>5, <1>6, <1>7, <1>8

LEMMA MemoryTokenize ==
    ASSUME MemoryInv, Tokenize
    PROVE  MemoryInv'
<1>1. /\ StageInv' /\ node = << >> /\ node' = << >>
      /\ stage \in { "show", "tokenize" } /\ stage' = stage
    <2>1. StageInv'
        BY StageStep DEF MemoryInv, Next
    <2>2. stage \in { "show", "tokenize" } /\ stage' = stage /\ node' = node
        BY DEF Tokenize, parser
    <2>3. node = << >>
        BY <2>2 DEF MemoryInv, StageInv, NoTree, Parsing, Parsed, Unread
    <2> QED
        BY <2>1, <2>2, <2>3
<1>2. Gone' = {} /\ NodeBlocks = {} /\ NodeBlocks' = {}
    BY <1>1 DEF Gone, NodeBlocks
<1>3. live = { Content } \cup TokensOf(token_list)
    BY <1>1, <1>2 DEF MemoryInv, LiveInv, Kept, Unread
<1>4. live' = { Content } \cup TokensOf(token_list')
    <2>1. DOMAIN token_list \subseteq DOMAIN token_list'
        BY ListGrows DEF MemoryInv
    <2>2. live' = live \cup { TokenBlock(i) : i \in DOMAIN token_list' \ DOMAIN token_list }
        BY DEF Tokenize
    <2> QED
        BY <1>3, <2>1, <2>2 DEF TokensOf
<1> QED
    BY <1>1, <1>2, <1>4 DEF MemoryInv, LiveInv, FreedInv, Kept, Unread

LEMMA MemoryParse ==
    ASSUME MemoryInv, CreateRoot \/ Parse
    PROVE  MemoryInv'
<1>1. /\ StageInv' /\ node' # << >> /\ DOMAIN node \subseteq DOMAIN node'
      /\ stage \in { "root", "parse" } /\ stage' = "parse" /\ token_list' = token_list
      /\ live' = live \cup { NodeBlock(n) : n \in DOMAIN node' \ DOMAIN node }
    <2>1. StageInv'
        BY StageStep DEF MemoryInv, Next
    <2>2. CASE CreateRoot
        <3>1. node = << >>
            BY <2>2 DEF MemoryInv, StageInv, NoTree, Parsing, Parsed, Unread, CreateRoot
        <3>2. DOMAIN node = {} /\ DOMAIN node' = { 1 } /\ node' # << >>
            BY <2>2, <3>1 DEF CreateRoot
        <3> QED
            BY <2>1, <2>2, <3>2 DEF CreateRoot, Goto, tokenizer
    <2>3. CASE Parse
        BY <2>1, <2>3, NodesGrow DEF MemoryInv, Parse, tokenizer
    <2> QED
        BY <2>2, <2>3
<1>2. Kept' = Kept
    BY <1>1 DEF Kept, Unread
<1>3. \A n \in DOMAIN node : NodeBlock(n) \in live
    BY <1>1 DEF MemoryInv, FreedInv, Gone
<1>4. Gone' = {} /\ LiveInv'
    BY <1>1, <1>2, <1>3 DEF Gone, MemoryInv, LiveInv, NodeBlocks
<1> QED
    BY <1>1, <1>4 DEF MemoryInv, FreedInv

LEMMA MemoryRender ==
    ASSUME MemoryInv, StartRender \/ Render \/ EndRender
    PROVE  MemoryInv'
<1>1. /\ StageInv' /\ node # << >> /\ UNCHANGED << node, token_list >>
      /\ stage \in { "parse", "render" } /\ stage' \in { "render", "free" }
    <2>1. StageInv'
        BY StageStep DEF MemoryInv, Next
    <2>2. stage \in { "parse", "render" }
        BY DEF StartRender, Render, EndRender
    <2>3. node # << >>
        BY <2>2, NodeFacts DEF MemoryInv, StageInv, NoTree, Parsing, Parsed
    <2> QED
        BY <2>1, <2>2, <2>3 DEF StartRender, Render, EndRender, Goto, parser, tokenizer
<1>2. CASE StartRender
    <2>1. Kept' = (Kept \ {}) \cup { Html } /\ live' = (live \ {}) \cup { Html }
        BY <1>1, <1>2 DEF Kept, StartRender, Goto, Unread
    <2>2. LiveInv' /\ Gone' = Gone
        BY <1>1, <2>1, NotNodes, OtherBlocks DEF MemoryInv
    <2> QED
        BY <1>1, <2>2 DEF MemoryInv, FreedInv
<1>3. CASE Render \/ EndRender
    <2>1. Kept' = (Kept \ {}) \cup {} /\ live' = (live \ {}) \cup {} /\ stage = "render"
        BY <1>1, <1>3 DEF Kept, Render, EndRender, Goto, Unread
    <2>2. LiveInv' /\ Gone' = Gone
        BY <1>1, <2>1, NotNodes, OtherBlocks DEF MemoryInv
    <2> QED
        BY <1>1, <2>1, <2>2 DEF MemoryInv, FreedInv
<1> QED
    BY <1>2, <1>3

(* The start of the recursion: no node was freed yet.                      *)
LEMMA FreeingBegins ==
    Parsed /\ Gone = {} /\ freeing = << Call(Parser!Root) >> => FreeingInv
<1> SUFFICES ASSUME Parsed, Gone = {}, freeing = << Call(Parser!Root) >>
             PROVE  FreeingInv
    OBVIOUS
<1>1. /\ Len(freeing) = 1 /\ freeing[1] = [ node |-> 1, next |-> 1 ]
      /\ 1 \in DOMAIN node /\ Len(children[1]) \in Nat
      /\ DOMAIN children[1] \subseteq Nat \ {0}
    <2>1. Len(node) \in Nat /\ Len(node) >= 1 /\ DOMAIN node = 1 .. Len(node)
        BY NodeFacts DEF Parsed
    <2>2. 1 \in DOMAIN node
        BY <2>1
    <2>3. children[1] \in Seq(1 .. Len(node))
        BY <2>1, <2>2, NodeFacts DEF Parsed
    <2> QED
        BY <2>2, <2>3, LenProperties DEF Call, Parser!Root
<1>2. freeing \in Seq([ node : DOMAIN node, next : Nat \ {0} ])
    <2>1. Call(Parser!Root) \in [ node : DOMAIN node, next : Nat \ {0} ]
        BY <1>1 DEF Call, Parser!Root
    <2> QED
        BY <2>1
<1>3. Visiting(1)
    <2>1. /\ 1 <= Len(children[1]) + 1
          /\ \A i \in DOMAIN children[1] : ~ i < 1
        BY <1>1
    <2>2. freeing[1].node = 1 /\ freeing[1].next = 1
        BY <1>1
    <2> QED
        BY <1>1, <2>1, <2>2 DEF Visiting
<1>4. OnPath = { 1 }
    BY <1>1 DEF OnPath
<1>5. 1 \in InTree
    BY <1>1 DEF InTree, Renderer!Subtree, Parser!Root, Renderer!node, Tree
<1> QED
    BY <1>1, <1>2, <1>3, <1>4, <1>5 DEF FreeingInv, Parser!Root

LEMMA MemoryFreeTokens ==
    ASSUME MemoryInv, FreeTokens
    PROVE  MemoryInv'
<1>1. StageInv' /\ UNCHANGED << node, children, token_list >> /\ stage = "free"
    BY StageStep DEF MemoryInv, Next, FreeTokens, tokenizer, parser
<1>2. TokensOf(token_list) \subseteq Kept
    BY <1>1 DEF Kept
<1>3. live' = live \ TokensOf(token_list) /\ stage' = IF node = << >> THEN "context" ELSE "tree"
    BY <1>2 DEF FreeTokens, Free, Goto, MemoryInv, LiveInv
<1>4. stage' \in { "context", "tree" } /\ (node = << >> <=> stage' = "context")
    BY <1>3
<1>5. Kept' = (Kept \ TokensOf(token_list)) \cup {}
    <2>1. /\ Kept = ({ Content, Context } \cup TokensOf(token_list))
                        \cup { b \in { Html } : node # << >> }
        BY <1>1 DEF Kept, Unread
    <2>2. Kept' = { Content, Context } \cup { b \in { Html } : node # << >> }
        BY <1>1, <1>4 DEF Kept, Unread
    <2> QED
        BY <2>1, <2>2, KeptApart
<1>6. LiveInv' /\ Gone' = Gone /\ Gone = {}
    <2>1. live' = (live \ TokensOf(token_list)) \cup {}
        BY <1>3
    <2> QED
        BY <1>1, <1>5, <2>1, NotNodes, OtherBlocks DEF MemoryInv, FreedInv
<1>7. CASE node = << >>
    BY <1>1, <1>4, <1>6, <1>7 DEF MemoryInv, FreedInv
<1>8. CASE node # << >>
    <2>1. Parsed' /\ freeing' = << Call(Parser!Root) >>
        <3>1. stage' # "parse" /\ node' # << >>
            BY <1>1, <1>4, <1>8
        <3>2. Parsed'
            BY <1>1, <3>1 DEF StageInv, NoTree, Parsing
        <3> QED
            BY <1>8, <3>2 DEF FreeTokens
    <2>2. FreeingInv'
        <3>1. (Parsed /\ Gone = {} /\ freeing = << Call(Parser!Root) >>)'
            BY <1>6, <2>1
        <3> QED
            BY <3>1, FreeingBegins, PTL
    <2> QED
        BY <1>1, <1>4, <1>6, <1>8, <2>2 DEF MemoryInv, FreedInv
<1> QED
    BY <1>7, <1>8

LEMMA MemoryEnd ==
    ASSUME MemoryInv, FreeContext \/ Report \/ Stopped \/ UNCHANGED vars
    PROVE  MemoryInv'
<1>1. StageInv' /\ UNCHANGED << node, token_list >> /\ InTree' = InTree
    <2>1. StageInv'
        BY StageStep DEF MemoryInv, Next
    <2>2. UNCHANGED << tokenizer, parser >>
        BY DEF FreeContext, Report, Stopped, vars
    <2>3. UNCHANGED << node, depth, children, token_list >>
        BY <2>2 DEF tokenizer, parser
    <2>4. Tree' = Tree
        BY <2>3 DEF Tree, Rendered, Name
    <2>5. InTree' = InTree
        BY <2>4 DEF InTree, Renderer!Subtree, Renderer!ChildrenIn, Renderer!node,
                    Renderer!children
    <2> QED
        BY <2>1, <2>3, <2>5
<1>2. CASE FreeContext
    <2>1. Context \in Kept
        BY <1>2 DEF FreeContext, Kept
    <2>2. live' = (live \ { Context }) \cup {} /\ stage' = "report" /\ stage = "context"
        BY <1>2, <2>1 DEF FreeContext, Free, Goto, MemoryInv, LiveInv
    <2>3. Kept' = (Kept \ { Context }) \cup {}
        BY <1>1, <2>2, BlocksApart DEF Kept, Unread
    <2>4. LiveInv' /\ Gone' = Gone
        BY <1>1, <2>2, <2>3, NotNodes, OtherBlocks DEF MemoryInv
    <2> QED
        BY <1>1, <2>2, <2>4 DEF MemoryInv, FreedInv
<1>3. CASE Report
    <2>1. Kept = { Content } \cup { b \in { Html } : node # << >> } /\ stage = "report"
        BY <1>3 DEF Report, Kept, Unread
    <2>2. live \cap { Html } = { b \in { Html } : node # << >> }
        <3>1. Html \notin NodeBlocks /\ Html # Content
            BY NotNodes, BlocksApart
        <3> QED
            BY <2>1, <3>1 DEF MemoryInv, LiveInv
    <2>3. { Content } \cup (live \cap { Html }) = Kept
        BY <2>1, <2>2
    <2>4. live' = (live \ Kept) \cup {} /\ stage' = "exit"
        BY <1>3, <2>3 DEF Report, Free, Goto, MemoryInv, LiveInv
    <2>5. Kept' = (Kept \ Kept) \cup {}
        BY <1>1, <2>4 DEF Kept
    <2>6. LiveInv' /\ Gone' = Gone
        <3>1. {} \cap NodeBlocks = {} /\ Kept \cap NodeBlocks = {}
            BY KeptApart
        <3> QED
            BY <1>1, <2>4, <2>5, <3>1, OtherBlocks DEF MemoryInv
    <2> QED
        BY <1>1, <2>1, <2>4, <2>6 DEF MemoryInv, FreedInv
<1>4. CASE Stopped \/ UNCHANGED vars
    <2>1. UNCHANGED << stage, live, freeing, node, children, token_list >>
        BY <1>4 DEF Stopped, vars, parser, tokenizer
    <2>2. Kept' = Kept /\ Gone' = Gone /\ NodeBlocks' = NodeBlocks
        BY <2>1 DEF Kept, Gone, NodeBlocks
    <2>3. FreeingInv => FreeingInv'
        BY <1>1, <2>1, <2>2 DEF FreeingInv, OnPath, Visiting
    <2> QED
        BY <1>1, <2>1, <2>2, <2>3 DEF MemoryInv, LiveInv, FreedInv
<1> QED
    BY <1>2, <1>3, <1>4

LEMMA NodesAreApart ==
    ASSUME Parsed, NEW n \in DOMAIN node
    PROVE  /\ DOMAIN node \subseteq Nat \ {0} /\ DOMAIN children[n] = 1 .. Len(children[n])
           /\ Len(children[n]) \in Nat /\ 1 \in DOMAIN node
           /\ \A i \in DOMAIN children[n] :
                 /\ children[n][i] \in DOMAIN node /\ n < children[n][i]
                 /\ \A j \in DOMAIN children[n] : i < j => children[n][i] # children[n][j]
                 /\ \A m \in DOMAIN node : \A j \in DOMAIN children[m] :
                       children[n][i] = children[m][j] => n = m
                 /\ n \in InTree => children[n][i] \in InTree
<1>1. /\ R!InTree /\ R!children = children /\ DOMAIN R!node = DOMAIN node
    BY RenderedNodes, NodeFacts DEF Parsed
<1>2. /\ Len(node) \in Nat /\ Len(node) >= 1 /\ DOMAIN node = 1 .. Len(node)
      /\ children[n] \in Seq(1 .. Len(node))
    BY NodeFacts DEF Parsed
<1>3. InTree = R!Subtree(R!Root)
    BY DEF InTree, R!Root, Parser!Root, Renderer!Subtree, R!Subtree, Renderer!ChildrenIn,
           R!ChildrenIn, Renderer!node, R!node, Renderer!children, R!children
<1>4. /\ DOMAIN node \subseteq Nat \ {0} /\ DOMAIN children[n] = 1 .. Len(children[n])
      /\ Len(children[n]) \in Nat /\ 1 \in DOMAIN node
    BY <1>2, LenProperties
<1>5. ASSUME NEW i \in DOMAIN children[n]
      PROVE  /\ children[n][i] \in DOMAIN node /\ n < children[n][i]
             /\ \A j \in DOMAIN children[n] : i < j => children[n][i] # children[n][j]
             /\ \A m \in DOMAIN node : \A j \in DOMAIN children[m] :
                   children[n][i] = children[m][j] => n = m
             /\ n \in InTree => children[n][i] \in InTree
    <2>1. R!Child(n, children[n][i])
        BY <1>1 DEF R!Child
    <2>2. children[n][i] \in DOMAIN node /\ n < children[n][i]
        BY <1>1, <2>1, R!ChildFacts
    <2>3. \A j \in DOMAIN children[n] : i < j => children[n][i] < children[n][j]
        BY <1>1, R!ChildFacts
    <2>4. \A j \in DOMAIN children[n] : children[n][j] \in Nat
        BY <1>2, <1>4
    <2>5. ASSUME NEW m \in DOMAIN node, NEW j \in DOMAIN children[m],
                 children[n][i] = children[m][j]
          PROVE  n = m
        <3>1. R!Child(m, children[m][j])
            BY <1>1 DEF R!Child
        <3> QED
            BY <1>1, <2>1, <2>5, <3>1, R!ChildFacts
    <2>6. n \in InTree => children[n][i] \in InTree
        <3>1. R!Root \in DOMAIN R!node
            BY <1>1, <1>4 DEF R!Root
        <3> QED
            BY <1>1, <1>3, <2>1, <3>1, R!SubtreeFacts
    <2> QED
        BY <2>2, <2>3, <2>4, <2>5, <2>6
<1> QED
    BY <1>4, <1>5

LEMMA TreeIsApart == Parsed => ChildrenApart
BY NodesAreApart DEF ChildrenApart

LEMMA MemoryTree ==
    ASSUME MemoryInv, FreeChild \/ FreeNode
    PROVE  MemoryInv'
<1>1. /\ StageInv' /\ UNCHANGED << node, token_list >> /\ stage = "tree"
      /\ Parsed /\ FreeingInv /\ ChildrenApart
    <2>1. StageInv'
        BY StageStep DEF MemoryInv, Next
    <2>2. stage = "tree" /\ UNCHANGED << node, token_list >>
        BY DEF FreeChild, FreeNode, parser, tokenizer
    <2>3. Parsed
        BY <2>2 DEF MemoryInv, StageInv, NoTree, Parsing
    <2> QED
        BY <2>1, <2>2, <2>3, TreeIsApart DEF MemoryInv, FreedInv
<1>2. CASE FreeChild
    <2>1. stage' = stage /\ live' = live
        BY <1>2 DEF FreeChild
    <2>2. LiveInv'
        BY <1>1, <2>1 DEF LiveInv, Kept, NodeBlocks, MemoryInv
    <2>3. FreeingInv'
        BY <1>1, <1>2, FreeingDown
    <2> QED
        BY <1>1, <2>1, <2>2, <2>3 DEF MemoryInv, FreedInv
<1>3. CASE FreeNode
    <2>1. Freed \in DOMAIN node /\ Freed \in OnPath
        <3>1. PICK k \in Nat : k = Len(freeing) /\ k >= 1
            BY <1>1, PathFacts
        <3>2. k \in 1 .. k
            BY <3>1
        <3> QED
            BY <1>1, <3>1, <3>2, PathFacts DEF OnPath
    <2>2. NodeBlock(Freed) \in live /\ NodeBlock(Freed) \in NodeBlocks
        BY <1>1, <2>1 DEF FreeingInv, Gone, NodeBlocks
    <2>3. live' = live \ { NodeBlock(Freed) }
          /\ stage' = IF Len(freeing) = 1 THEN "context" ELSE "tree"
        BY <1>3, <2>2 DEF FreeNode, Free, Goto
    <2>4. /\ Len(freeing) = 1 => Gone' = InTree /\ InTree' = InTree
          /\ Len(freeing) # 1 => FreeingInv'
        BY <1>1, <1>3, <2>3, FreeingUp
    <2>5. Kept' = Kept
        BY <1>1, <2>3 DEF Kept, Unread
    <2>6. LiveInv'
        <3>1. NodeBlocks' = NodeBlocks /\ NodeBlock(Freed) \notin Kept
            BY <1>1, <2>2, KeptApart DEF NodeBlocks
        <3> QED
            BY <2>3, <2>5, <3>1 DEF MemoryInv, LiveInv
    <2>7. /\ stage' \in { "context", "tree" }
          /\ stage' = "tree" => Len(freeing) # 1
          /\ stage' = "context" => Len(freeing) = 1
        BY <2>3
    <2> QED
        BY <1>1, <2>4, <2>6, <2>7 DEF MemoryInv, FreedInv
<1> QED
    BY <1>2, <1>3

LEMMA MemoryStep == MemoryInv /\ [Next]_vars => MemoryInv'
BY MemoryStart, MemoryTokenize, MemoryParse, MemoryRender, MemoryFreeTokens, MemoryTree,
   MemoryEnd
DEF Next

LEMMA MemoryHolds == Spec => []MemoryInv
BY MemoryInit, MemoryStep, PTL DEF Spec

(* No block is freed that is not allocated (see FreedOnce): whatever fails *)
(* in process_pug_file or below it, what is freed on the way out is what   *)
(* was allocated until then, and ast_node_free meets no node twice.        *)
THEOREM NothingFreedTwice == Spec => []FreedOnce
<1>1. MemoryInv => FreedOnce
    BY DEF MemoryInv, FreedOnce
<1> QED
    BY <1>1, MemoryHolds, PTL

LEMMA ExitIsClean == MemoryInv => LeftBehind
<1> SUFFICES ASSUME MemoryInv, stage = "exit" PROVE
       /\ live = { NodeBlock(n) : n \in DOMAIN node \ (IF node = << >> THEN {} ELSE InTree) }
       /\ faults = 0 => live = {} /\ \A i \in leaked : Replaced(i)
    BY DEF LeftBehind
<1>1. Kept = {}
    BY DEF Kept, Unread
<1>2. live = { NodeBlock(n) : n \in DOMAIN node \ Gone }
    BY <1>1 DEF MemoryInv, LiveInv, NodeBlocks, Gone
<1>3. CASE node = << >>
    <2>1. ~ P!ParserInv
        BY <1>3 DEF P!ParserInv, P!TreeInv, P!TypeOK, P!Root
    <2>2. leaked = {}
        BY <2>1 DEF MemoryInv, StageInv, NoTree, Parsing, Parsed
    <2> QED
        BY <1>2, <1>3, <2>2
<1>4. CASE node # << >>
    <2>1. Parsed /\ Gone = InTree
        BY <1>4 DEF MemoryInv, StageInv, NoTree, Parsing, FreedInv
    <2>2. InTree = R!Subtree(R!Root)
        BY DEF InTree, R!Root, Parser!Root, Renderer!Subtree, R!Subtree, Renderer!ChildrenIn,
               R!ChildrenIn, Renderer!node, R!node, Renderer!children, R!children
    <2>3. faults = 0 => Gone = DOMAIN node
        BY <2>1, <2>2, AllInTree
    <2>4. (IF node = << >> THEN {} ELSE InTree) = Gone
        BY <1>4, <2>1
    <2>5. faults = 0 => live = {}
        BY <1>2, <2>3
    <2>6. faults = 0 => \A i \in leaked : Replaced(i)
        BY <2>1 DEF Parsed, P!ParserInv, P!ReadInv, P!IdInv, P!IdOf, Replaced
    <2> QED
        BY <1>2, <2>4, <2>5, <2>6
<1> QED
    BY <1>3, <1>4

(* What the program has not freed at its end (see LeftBehind): the nodes    *)
(* that parse_pug could not hang into the tree, which needs a failure, and  *)
(* what parse_node has leaked, without a failure only ids that a later id   *)
(* of the same node replaced.                                               *)
THEOREM LeaksOnlyLooseNodes == Spec => []LeftBehind
BY MemoryHolds, ExitIsClean, PTL
=============================================================================
