-------------------------- MODULE PugParserProofs --------------------------
(***************************************************************************)
(* Theorems about PugParser, for every set of token lists, every initial   *)
(* capacity and any number of allocation failures unless a theorem says    *)
(* otherwise.                                                              *)
(***************************************************************************)
EXTENDS PugParser, SequenceTheorems, TLAPS

(* Parents are older than their children, and while a node is in hand the   *)
(* parent it may get is older than it: why the way up always ends at Root.  *)
ParentsEarlier == \A n \in DOMAIN parent : parent[n] < n
OlderThanFresh == pc \in {"merge", "climb"} => current_parent < Fresh

-----------------------------------------------------------------------------
(* What the type of the variables says about the list and the arrays. *)

LEMMA Arrays ==
    ASSUME TypeOK
    PROVE  /\ Len(node) \in Nat /\ Len(node) >= 1
           /\ Fresh = Len(node) /\ Fresh \in 1 .. Len(node)
           /\ current_parent \in 1 .. Len(node)
           /\ DOMAIN node = 1 .. Len(node)
           /\ DOMAIN depth = 1 .. Len(node)
           /\ DOMAIN parent = 1 .. Len(node)
           /\ DOMAIN children = 1 .. Len(node)
           /\ DOMAIN capacity = 1 .. Len(node)
           /\ DOMAIN slots = 1 .. Len(node)
           /\ \A n \in 1 .. Len(node) :
                 /\ node[n] \in Node /\ depth[n] \in Nat /\ parent[n] \in Nat
                 /\ children[n] \in Seq(Nat)
                 /\ capacity[n] \in Nat /\ slots[n] \in Nat
<1>1. node \in Seq(Node) /\ Len(node) >= 1
    BY DEF TypeOK, Root
<1>2. /\ Len(node) \in Nat /\ DOMAIN node = 1 .. Len(node)
      /\ \A n \in 1 .. Len(node) : node[n] \in Node
    BY <1>1, LenProperties, ElementOfSeq
<1>3. Fresh = Len(node) /\ Fresh \in 1 .. Len(node)
    BY <1>1, <1>2 DEF Fresh
<1>4. current_parent \in 1 .. Len(node)
    BY <1>2 DEF TypeOK
<1>5. depth \in Seq(Nat) /\ Len(depth) = Len(node)
    BY DEF TypeOK
<1>6. /\ DOMAIN depth = 1 .. Len(node)
      /\ \A n \in 1 .. Len(node) : depth[n] \in Nat
    BY <1>5, LenProperties, ElementOfSeq
<1>7. parent \in Seq(Nat) /\ Len(parent) = Len(node)
    BY DEF TypeOK
<1>8. /\ DOMAIN parent = 1 .. Len(node)
      /\ \A n \in 1 .. Len(node) : parent[n] \in Nat
    BY <1>7, LenProperties, ElementOfSeq
<1>9. children \in Seq(Seq(Nat)) /\ Len(children) = Len(node)
    BY DEF TypeOK
<1>10. /\ DOMAIN children = 1 .. Len(node)
       /\ \A n \in 1 .. Len(node) : children[n] \in Seq(Nat)
    BY <1>9, LenProperties, ElementOfSeq
<1>11. capacity \in Seq(Nat) /\ Len(capacity) = Len(node)
    BY DEF TypeOK
<1>12. /\ DOMAIN capacity = 1 .. Len(node)
       /\ \A n \in 1 .. Len(node) : capacity[n] \in Nat
    BY <1>11, LenProperties, ElementOfSeq
<1>13. slots \in Seq(Nat) /\ Len(slots) = Len(node)
    BY DEF TypeOK
<1>14. /\ DOMAIN slots = 1 .. Len(node)
       /\ \A n \in 1 .. Len(node) : slots[n] \in Nat
    BY <1>13, LenProperties, ElementOfSeq
<1>. QED
    BY <1>1, <1>2, <1>3, <1>4, <1>6, <1>8, <1>10, <1>12, <1>14

LEMMA Counters ==
    ASSUME TypeOK
    PROVE  /\ UIntMax \in Nat /\ MaxFaults \in Nat
           /\ Len(tokens) \in Nat
           /\ DOMAIN tokens = 1 .. Len(tokens)
           /\ current_token \in Nat
           /\ Position \in Nat
           /\ Advance(current_token) \in 0 .. UIntMax
           /\ Advance(Advance(current_token)) \in 0 .. UIntMax
           /\ Fault => faults' \in 0 .. MaxFaults
           /\ HasCurrent => Position \in 1 .. Len(tokens) /\ Current \in Token
<1>1. UIntMax \in Nat /\ MaxFaults \in Nat
    BY ParserAssumption DEF ParserAssumption
<1>2. tokens \in Seq(Token)
    BY DEF TypeOK
<1>3. Len(tokens) \in Nat /\ DOMAIN tokens = 1 .. Len(tokens)
    BY <1>2, LenProperties
<1>4. current_token \in 0 .. UIntMax
    BY DEF TypeOK
<1>5. current_token \in Nat /\ Position \in Nat
    BY <1>1, <1>4 DEF Position
<1>6. \A i \in 0 .. UIntMax : Advance(i) \in 0 .. UIntMax
    BY <1>1 DEF Advance
<1>7. Fault => faults' \in 0 .. MaxFaults
    BY <1>1 DEF Fault, TypeOK
<1>8. HasCurrent => Position \in 1 .. Len(tokens) /\ Current \in Token
    BY <1>2, <1>3, <1>5, ElementOfSeq DEF HasCurrent, Position, Current
<1>. QED
    BY <1>1, <1>3, <1>4, <1>5, <1>6, <1>7, <1>8

-----------------------------------------------------------------------------
(* ast_node_create makes all arrays one entry longer and changes no other. *)

LEMMA NewNodeType ==
    ASSUME TypeOK, HasCurrent
    PROVE  NewNode(Current.type) \in Node
<1>1. Position \in Nat
    BY Counters
<1>2. Current.type \in TokenType
    BY Counters DEF Token
<1>3. "TEXT" \in TokenType
    BY DEF TokenType, RunType
<1>. QED
    BY <1>1, <1>2, <1>3 DEF NewNode, Node, NULL, TextLike

LEMMA AppendEntry ==
    ASSUME NEW S, NEW s \in Seq(S), NEW e \in S, NEW k \in Nat, Len(s) = k
    PROVE  /\ Append(s, e) \in Seq(S)
           /\ Len(Append(s, e)) = k + 1
           /\ DOMAIN Append(s, e) = 1 .. k + 1
           /\ \A n \in 1 .. k : Append(s, e)[n] = s[n]
           /\ Append(s, e)[k + 1] = e
BY AppendProperties, LenProperties

LEMMA CreateNodeArrays ==
    ASSUME TypeOK, HasCurrent, CreateNode
    PROVE  /\ node' \in Seq(Node) /\ Len(node') = Len(node) + 1
           /\ depth' \in Seq(Nat) /\ Len(depth') = Len(node) + 1
           /\ parent' \in Seq(Nat) /\ Len(parent') = Len(node) + 1
           /\ children' \in Seq(Seq(Nat)) /\ Len(children') = Len(node) + 1
           /\ capacity' \in Seq(Nat) /\ Len(capacity') = Len(node) + 1
           /\ slots' \in Seq(Nat) /\ Len(slots') = Len(node) + 1
           /\ DOMAIN node' = 1 .. Len(node) + 1
           /\ DOMAIN parent' = 1 .. Len(node) + 1
           /\ DOMAIN children' = 1 .. Len(node) + 1
           /\ Fresh' = Len(node) + 1
           /\ \A n \in 1 .. Len(node) :
                 /\ node'[n] = node[n]
                 /\ depth'[n] = depth[n] /\ parent'[n] = parent[n]
                 /\ children'[n] = children[n]
                 /\ capacity'[n] = capacity[n] /\ slots'[n] = slots[n]
           /\ node'[Len(node) + 1] = NewNode(Current.type)
           /\ depth'[Len(node) + 1] = Current.depth
           /\ parent'[Len(node) + 1] = NULL
           /\ children'[Len(node) + 1] = << >>
           /\ capacity'[Len(node) + 1] = ChildCapacity
           /\ slots'[Len(node) + 1] = ChildCapacity
<1>1. Len(node) \in Nat
    BY Arrays
<1>2. Current.depth \in Nat
    BY Counters DEF Token
<1>3. ChildCapacity \in Nat
    BY ParserAssumption DEF ParserAssumption
<1>4. /\ node' \in Seq(Node) /\ Len(node') = Len(node) + 1
      /\ DOMAIN node' = 1 .. Len(node) + 1
      /\ \A n \in 1 .. Len(node) : node'[n] = node[n]
      /\ node'[Len(node) + 1] = NewNode(Current.type)
    <2>1. /\ node \in Seq(Node)           /\ node' = Append(node, NewNode(Current.type))
        BY DEF TypeOK, CreateNode
    <2>2. NewNode(Current.type) \in Node
        BY NewNodeType
    <2>. QED
        BY <1>1, <2>1, <2>2, AppendEntry
<1>5. /\ depth' \in Seq(Nat) /\ Len(depth') = Len(node) + 1
      /\ DOMAIN depth' = 1 .. Len(node) + 1
      /\ \A n \in 1 .. Len(node) : depth'[n] = depth[n]
      /\ depth'[Len(node) + 1] = Current.depth
    <2>1. /\ depth \in Seq(Nat) /\ Len(depth) = Len(node)
          /\ depth' = Append(depth, Current.depth)
        BY DEF TypeOK, CreateNode
    <2>2. Current.depth \in Nat
        BY <1>2
    <2>. QED
        BY <1>1, <2>1, <2>2, AppendEntry
<1>6. /\ parent' \in Seq(Nat) /\ Len(parent') = Len(node) + 1
      /\ DOMAIN parent' = 1 .. Len(node) + 1
      /\ \A n \in 1 .. Len(node) : parent'[n] = parent[n]
      /\ parent'[Len(node) + 1] = NULL
    <2>1. /\ parent \in Seq(Nat) /\ Len(parent) = Len(node)
          /\ parent' = Append(parent, NULL)
        BY DEF TypeOK, CreateNode
    <2>2. NULL \in Nat
        BY DEF NULL
    <2>. QED
        BY <1>1, <2>1, <2>2, AppendEntry
<1>7. /\ children' \in Seq(Seq(Nat)) /\ Len(children') = Len(node) + 1
      /\ DOMAIN children' = 1 .. Len(node) + 1
      /\ \A n \in 1 .. Len(node) : children'[n] = children[n]
      /\ children'[Len(node) + 1] = << >>
    <2>1. /\ children \in Seq(Seq(Nat)) /\ Len(children) = Len(node)
          /\ children' = Append(children, << >>)
        BY DEF TypeOK, CreateNode
    <2>2. << >> \in Seq(Nat)
        OBVIOUS
    <2>. QED
        BY <1>1, <2>1, <2>2, AppendEntry
<1>8. /\ capacity' \in Seq(Nat) /\ Len(capacity') = Len(node) + 1
      /\ DOMAIN capacity' = 1 .. Len(node) + 1
      /\ \A n \in 1 .. Len(node) : capacity'[n] = capacity[n]
      /\ capacity'[Len(node) + 1] = ChildCapacity
    <2>1. /\ capacity \in Seq(Nat) /\ Len(capacity) = Len(node)
          /\ capacity' = Append(capacity, ChildCapacity)
        BY DEF TypeOK, CreateNode
    <2>2. ChildCapacity \in Nat
        BY <1>3
    <2>. QED
        BY <1>1, <2>1, <2>2, AppendEntry
<1>9. /\ slots' \in Seq(Nat) /\ Len(slots') = Len(node) + 1
      /\ DOMAIN slots' = 1 .. Len(node) + 1
      /\ \A n \in 1 .. Len(node) : slots'[n] = slots[n]
      /\ slots'[Len(node) + 1] = ChildCapacity
    <2>1. /\ slots \in Seq(Nat) /\ Len(slots) = Len(node)
          /\ slots' = Append(slots, ChildCapacity)
        BY DEF TypeOK, CreateNode
    <2>2. ChildCapacity \in Nat
        BY <1>3
    <2>. QED
        BY <1>1, <2>1, <2>2, AppendEntry
<1>. QED
    BY <1>4, <1>5, <1>6, <1>7, <1>8, <1>9 DEF Fresh

-----------------------------------------------------------------------------
(* Merging a token changes one field of the node in hand. *)

LEMMA NodeFields ==
    ASSUME NEW r \in Node
    PROVE  /\ r.id \in Nat
           /\ r.classes \in Seq(Nat)
           /\ r.attributes \in Seq(Nat)
           /\ r.text \in Seq(Nat)
BY DEF Node

LEMMA NodeUpdates ==
    ASSUME NEW r \in Node, NEW i \in Nat
    PROVE  /\ [r EXCEPT !.id = i] \in Node
           /\ [r EXCEPT !.classes = Append(@, i)] \in Node
           /\ [r EXCEPT !.attributes = Append(@, i)] \in Node
           /\ [r EXCEPT !.text = Append(@, i), !.is_inline = TRUE] \in Node
<1>1. /\ Append(r.classes, i) \in Seq(Nat)
      /\ Append(r.attributes, i) \in Seq(Nat)
      /\ Append(r.text, i) \in Seq(Nat)
    BY NodeFields
<1>2. [r EXCEPT !.id = i] \in Node
    BY DEF Node
<1>3. [r EXCEPT !.classes = Append(@, i)] \in Node
    BY <1>1 DEF Node
<1>4. [r EXCEPT !.attributes = Append(@, i)] \in Node
    BY <1>1 DEF Node
<1>5. [r EXCEPT !.text = Append(@, i), !.is_inline = TRUE] \in Node
    BY <1>1 DEF Node
<1>. QED
    BY <1>2, <1>3, <1>4, <1>5

LEMMA NodeArrayUpdate ==
    ASSUME TypeOK, NEW r \in Node, node' = [node EXCEPT ![Fresh] = r]
    PROVE  node' \in Seq(Node) /\ Len(node') = Len(node)
<1>1. node \in Seq(Node) /\ Fresh \in 1 .. Len(node)
    BY Arrays DEF TypeOK
<1>. QED
    BY <1>1, ExceptSeq

-----------------------------------------------------------------------------
(* ast_node_add_child, and the choice of the next parent. *)

LEMMA AttachType ==
    ASSUME TypeOK, Attach(current_parent, Fresh)
    PROVE  /\ parent' \in Seq(Nat) /\ Len(parent') = Len(node)
           /\ children' \in Seq(Seq(Nat)) /\ Len(children') = Len(node)
<1>1. /\ current_parent \in 1 .. Len(node) /\ Fresh \in 1 .. Len(node)
      /\ current_parent \in Nat /\ Fresh \in Nat
    BY Arrays
<1>2. parent \in Seq(Nat) /\ Len(parent) = Len(node)
    BY DEF TypeOK
<1>3. parent' \in Seq(Nat) /\ Len(parent') = Len(node)
    BY <1>1, <1>2, ExceptSeq DEF Attach
<1>4. children \in Seq(Seq(Nat)) /\ Len(children) = Len(node)
    BY DEF TypeOK
<1>5. Append(children[current_parent], Fresh) \in Seq(Nat)
    BY <1>1, <1>4, ElementOfSeq
<1>6. children' \in Seq(Seq(Nat)) /\ Len(children') = Len(node)
    BY <1>1, <1>4, <1>5, ExceptSeq DEF Attach
<1>. QED
    BY <1>3, <1>6

LEMMA DescendType ==
    ASSUME TypeOK, Descend
    PROVE  current_parent' \in DOMAIN node /\ pc' = "parse"
BY Arrays DEF Descend

LEMMA GrowType ==
    ASSUME TypeOK, capacity' = [capacity EXCEPT ![current_parent] = 2 * @]
    PROVE  /\ capacity' \in Seq(Nat) /\ Len(capacity') = Len(node)
           /\ capacity'[current_parent] = 2 * capacity[current_parent]
           /\ capacity'[current_parent] \in Nat
<1>1. /\ current_parent \in 1 .. Len(node)
      /\ capacity \in Seq(Nat) /\ Len(capacity) = Len(node)
    BY Arrays DEF TypeOK
<1>2. 2 * capacity[current_parent] \in Nat
    BY <1>1, ElementOfSeq
<1>. QED
    BY <1>1, <1>2, ExceptSeq

LEMMA SlotsType ==
    ASSUME TypeOK, NEW m \in Nat, slots' = [slots EXCEPT ![current_parent] = m]
    PROVE  slots' \in Seq(Nat) /\ Len(slots') = Len(node)
<1>1. /\ current_parent \in 1 .. Len(node)
      /\ slots \in Seq(Nat) /\ Len(slots) = Len(node)
    BY Arrays DEF TypeOK
<1>. QED
    BY <1>1, ExceptSeq

LEMMA TypeOKInductive ==
    ASSUME TypeOK, ParentsEarlier, [Next]_vars
    PROVE  TypeOK'
<1>a. Position \in Nat
    BY Counters
<1>b. /\ Advance(current_token) \in 0 .. UIntMax
      /\ Advance(Advance(current_token)) \in 0 .. UIntMax
    BY Counters
<1>d. node[Fresh] \in Node
    BY Arrays
<1>f. Fault => faults' \in 0 .. MaxFaults
    BY Counters
<1>1. CASE ParseTag
    <2>1. HasCurrent /\ CreateNode
        BY <1>1 DEF ParseTag, At
    <2>2. current_parent \in DOMAIN node' /\ Len(node') >= 1
        BY <2>1, Arrays, CreateNodeArrays
    <2>. QED
        BY <1>1, <1>b, <2>1, <2>2, CreateNodeArrays DEF ParseTag, TypeOK, Root
<1>2. CASE ParseStandalone
    <2>1. HasCurrent /\ CreateNode
        BY <1>2 DEF ParseStandalone, At
    <2>2. current_parent \in DOMAIN node' /\ Len(node') >= 1
        BY <2>1, Arrays, CreateNodeArrays
    <2>. QED
        BY <1>2, <1>b, <2>1, <2>2, CreateNodeArrays DEF ParseStandalone, TypeOK, Root
<1>3. CASE ParseStray
    <2>1. dropped' \subseteq Nat
        <3>1. 1 .. Len(tokens) \subseteq Nat
            OBVIOUS
        <3>2. dropped \subseteq Nat
            BY DEF TypeOK
        <3>3. PICK passed : dropped' = dropped \cup (passed \cap DOMAIN tokens)
            BY <1>3 DEF ParseStray
        <3>. QED
            BY <3>1, <3>2, <3>3, Counters
    <2>2. current_token' \in 0 .. UIntMax
        BY <1>3, <1>b DEF ParseStray
    <2>3. pc' \in {"done", "parse"}
        BY <1>3 DEF ParseStray
    <2>. QED
        BY <1>3, <2>1, <2>2, <2>3 DEF ParseStray, TypeOK, tree
<1>4. CASE CreateFails
    BY <1>4, <1>a, <1>b, <1>f DEF CreateFails, TypeOK, tree
<1>5. CASE ReachEof
    BY <1>5 DEF ReachEof, TypeOK, tree
<1>6. CASE RunPastEnd
    BY <1>6, <1>b DEF RunPastEnd, TypeOK, tree
<1>7. CASE MergeId
    <2>. DEFINE r == [node[Fresh] EXCEPT !.id = Position]
    <2>1. r \in Node
        BY <1>a, <1>d, NodeUpdates
    <2>2. node' \in Seq(Node) /\ Len(node') = Len(node)
        BY <1>7, <2>1, NodeArrayUpdate DEF MergeId
    <2>3. leaked' \subseteq Nat
        BY <1>7, <1>d, NodeFields DEF MergeId, TypeOK
    <2>. QED
        BY <1>7, <1>a, <1>b, <2>2, <2>3 DEF MergeId, Merge, TypeOK
<1>8. CASE MergeClass
    <2>. DEFINE r == [node[Fresh] EXCEPT !.classes = Append(@, Position)]
    <2>1. r \in Node
        BY <1>a, <1>d, NodeUpdates
    <2>2. node' \in Seq(Node) /\ Len(node') = Len(node)
        <3>1. CASE Current.value # << >>
            BY <1>8, <2>1, <3>1, NodeArrayUpdate DEF MergeClass
        <3>2. CASE Current.value = << >>
            BY <1>8, <3>2 DEF MergeClass, TypeOK
        <3>. QED
            BY <3>1, <3>2
    <2>. QED
        BY <1>8, <1>a, <1>b, <2>2 DEF MergeClass, Merge, TypeOK
<1>9. CASE MergeClassFails
    BY <1>9, <1>a, <1>b, <1>f DEF MergeClassFails, Merge, TypeOK
<1>10. CASE MergeFirstClassFails
    BY <1>10, <1>f DEF MergeFirstClassFails, TypeOK, tree
<1>11. CASE MergeAttributes
    <2>. DEFINE r == [node[Fresh] EXCEPT !.attributes = Append(@, Position)]
    <2>1. r \in Node
        BY <1>a, <1>d, NodeUpdates
    <2>2. node' \in Seq(Node) /\ Len(node') = Len(node)
        BY <1>11, <2>1, NodeArrayUpdate DEF MergeAttributes
    <2>. QED
        BY <1>11, <1>a, <1>b, <2>2 DEF MergeAttributes, Merge, TypeOK
<1>12. CASE MergeAttributesFails
    BY <1>12, <1>a, <1>b, <1>f DEF MergeAttributesFails, Merge, TypeOK
<1>13. CASE MergeText
    <2>. DEFINE r == [node[Fresh] EXCEPT !.text = Append(@, Position),
                                      !.is_inline = TRUE]
    <2>1. r \in Node
        BY <1>a, <1>d, NodeUpdates
    <2>2. node' \in Seq(Node) /\ Len(node') = Len(node)
        BY <1>13, <2>1, NodeArrayUpdate DEF MergeText
    <2>. QED
        BY <1>13, <1>a, <1>b, <2>2 DEF MergeText, Merge, TypeOK
<1>14. CASE EndMerge
    BY <1>14 DEF EndMerge, TypeOK, tree
<1>15. CASE Climb
    <2>1. current_parent' \in DOMAIN node
        BY <1>15, Arrays DEF Climb, MustClimb, NULL, ParentsEarlier
    <2>. QED
        BY <1>15, <2>1 DEF Climb, TypeOK, tree
<1>16. CASE AddChild
    <2>1. Attach(current_parent, Fresh) /\ Descend
        BY <1>16 DEF AddChild
    <2>. QED
        BY <1>16, <2>1, AttachType, DescendType DEF AddChild, TypeOK
<1>17. CASE AddChildGrow
    <2>1. Attach(current_parent, Fresh) /\ Descend
        BY <1>17 DEF AddChildGrow
    <2>2. capacity' \in Seq(Nat) /\ Len(capacity') = Len(node)
        BY <1>17, GrowType DEF AddChildGrow
    <2>3. slots' \in Seq(Nat) /\ Len(slots') = Len(node)
        BY <1>17, GrowType, SlotsType DEF AddChildGrow
    <2>. QED
        BY <1>17, <2>1, <2>2, <2>3, AttachType, DescendType
        DEF AddChildGrow, TypeOK
<1>18. CASE AddChildFails
    <2>1. Descend
        BY <1>18 DEF AddChildFails
    <2>2. capacity' \in Seq(Nat) /\ Len(capacity') = Len(node)
        BY <1>18, GrowType DEF AddChildFails
    <2>. QED
        BY <1>18, <1>f, <2>1, <2>2, DescendType DEF AddChildFails, TypeOK
<1>19. CASE AddChildOutOfBounds
    BY <1>19 DEF AddChildOutOfBounds, TypeOK, tree
<1>20. CASE UNCHANGED vars
    BY <1>20 DEF vars, TypeOK, tree
<1>. QED
    BY <1>1, <1>2, <1>3, <1>4, <1>5, <1>6, <1>7, <1>8, <1>9, <1>10, <1>11,
       <1>12, <1>13, <1>14, <1>15, <1>16, <1>17, <1>18, <1>19, <1>20
    DEF Next, Stopped

(***************************************************************************)
(* DocumentOrder.  The part of the tree to the right of the current parent *)
(* is closed: nothing there hangs above the current parent any more.       *)
(***************************************************************************)

RightIsClosed ==
    \A m \in DOMAIN parent :
        m > current_parent /\ Attached(m) => parent[m] >= current_parent

TreeInv ==
    /\ TypeOK
    /\ ParentsEarlier
    /\ OlderThanFresh
    /\ DocumentOrder
    /\ RightIsClosed

(* What parse_pug begins with, whatever has failed before.                  *)
Begin ==
    /\ tokens \in Seq(Token)
    /\ faults \in 0 .. MaxFaults
    /\ current_token = 0 /\ current_parent = Root /\ pc = "parse"
    /\ node = << RootNode >> /\ depth = << UIntMax >> /\ parent = << NULL >>
    /\ children = << << >> >>
    /\ capacity = << ChildCapacity >> /\ slots = << ChildCapacity >>
    /\ dropped = {} /\ leaked = {}

LEMMA InitBegins == Init => Begin
BY ParserAssumption DEF Init, Begin, ParserAssumption

LEMMA TreeInvBegin == Begin => TreeInv
<1>. SUFFICES ASSUME Begin PROVE TreeInv
    OBVIOUS
<1>1. RootNode \in Node
    BY DEF RootNode, Node, TokenType, PieceType, NULL
<1>2. << >> \in Seq(Nat) /\ << << >> >> \in Seq(Seq(Nat))
    OBVIOUS
<1>3. TypeOK
    BY <1>1, <1>2, ParserAssumption
    DEF Begin, TypeOK, ParserAssumption, Root, NULL
<1>4. DOMAIN parent = {1} /\ parent[1] = 0
    BY DEF Begin, NULL
<1>. QED
    BY <1>3, <1>4 DEF Begin, TreeInv, ParentsEarlier, OlderThanFresh,
                      DocumentOrder, RightIsClosed, Attached, NULL

LEMMA TreeInvInit == Init => TreeInv
BY InitBegins, TreeInvBegin

(* The steps that neither change a parent link nor move the current parent. *)
LEMMA TreeInvUnmoved ==
    ASSUME TreeInv, TypeOK', UNCHANGED << parent, current_parent >>,
           Len(node') = Len(node),
           pc' \in {"merge", "climb"} => pc \in {"merge", "climb"}
    PROVE  TreeInv'
BY DEF TreeInv, ParentsEarlier, OlderThanFresh, DocumentOrder, RightIsClosed,
       Attached, Fresh

LEMMA TreeInvCreate ==
    ASSUME TreeInv, TypeOK', HasCurrent, CreateNode, UNCHANGED current_parent
    PROVE  TreeInv'
<1>1. /\ TypeOK /\ Len(node) \in Nat /\ current_parent \in 1 .. Len(node)
      /\ DOMAIN parent = 1 .. Len(node)
    BY Arrays DEF TreeInv
<1>2. /\ DOMAIN parent' = 1 .. Len(node) + 1
      /\ Fresh' = Len(node) + 1
      /\ \A n \in 1 .. Len(node) : parent'[n] = parent[n]
      /\ parent'[Len(node) + 1] = 0
    BY <1>1, CreateNodeArrays DEF NULL
<1>3. ParentsEarlier' /\ OlderThanFresh'
    BY <1>1, <1>2 DEF TreeInv, ParentsEarlier, OlderThanFresh
<1>4. DocumentOrder'
    <2>. SUFFICES ASSUME NEW n \in 1 .. Len(node), parent'[n] # 0,
                         NEW m \in (parent'[n] + 1) .. (n - 1), parent'[m] # 0
                  PROVE  parent'[m] >= parent'[n]
        BY <1>1, <1>2, <1>3 DEF DocumentOrder, Attached, ParentsEarlier, NULL
    <2>1. parent'[n] = parent[n] /\ parent[n] \in Nat
        BY <1>1, <1>2, Arrays
    <2>2. m \in 1 .. Len(node) /\ parent'[m] = parent[m]
        BY <1>1, <1>2, <2>1
    <2>. QED
        BY <1>1, <2>1, <2>2 DEF TreeInv, DocumentOrder, Attached, NULL
<1>5. RightIsClosed'
    BY <1>1, <1>2 DEF TreeInv, RightIsClosed, Attached, NULL
<1>. QED
    BY <1>3, <1>4, <1>5 DEF TreeInv

LEMMA TreeInvClimb ==
    ASSUME TreeInv, TypeOK', Climb
    PROVE  TreeInv'
<1>1. /\ TypeOK /\ Len(node) \in Nat /\ current_parent \in 1 .. Len(node)
      /\ DOMAIN parent = 1 .. Len(node)
      /\ \A n \in 1 .. Len(node) : parent[n] \in Nat
    BY Arrays DEF TreeInv
<1>2. /\ UNCHANGED << parent, node, pc >>
      /\ Attached(current_parent)
      /\ current_parent' = parent[current_parent]
      /\ current_parent' \in Nat /\ current_parent' < current_parent
    BY <1>1 DEF Climb, MustClimb, Attached, tree, TreeInv, ParentsEarlier
<1>3. ParentsEarlier' /\ DocumentOrder'
    BY <1>2 DEF TreeInv, ParentsEarlier, DocumentOrder, Attached
<1>4. OlderThanFresh'
    BY <1>1, <1>2, Arrays DEF TreeInv, OlderThanFresh, Fresh
<1>5. RightIsClosed'
    <2>. SUFFICES ASSUME NEW m \in 1 .. Len(node),
                         m > parent[current_parent], Attached(m)
                  PROVE  parent[m] >= parent[current_parent]
        BY <1>1, <1>2 DEF RightIsClosed, Attached
    <2>1. CASE m > current_parent
        <3>1. parent[m] >= current_parent
            BY <1>1, <2>1 DEF TreeInv, RightIsClosed
        <3>. QED
            BY <1>1, <1>2, <3>1
    <2>2. CASE m = current_parent
        BY <1>1, <2>2
    <2>3. CASE m < current_parent
        <3>1. m \in (parent[current_parent] + 1) .. (current_parent - 1)
            BY <1>1, <2>3
        <3>. QED
            BY <1>1, <1>2, <3>1 DEF TreeInv, DocumentOrder
    <2>. QED
        BY <1>1, <2>1, <2>2, <2>3
<1>. QED
    BY <1>3, <1>4, <1>5 DEF TreeInv

LEMMA TreeInvAttach ==
    ASSUME TreeInv, TypeOK', pc = "climb", Attach(current_parent, Fresh),
           Descend, UNCHANGED node
    PROVE  TreeInv'
<1>1. /\ TypeOK /\ Len(node) \in Nat /\ current_parent \in 1 .. Len(node)
      /\ Fresh = Len(node)
      /\ DOMAIN parent = 1 .. Len(node)
      /\ \A n \in 1 .. Len(node) : parent[n] \in Nat
    BY Arrays DEF TreeInv
<1>2. current_parent < Len(node)
    BY <1>1 DEF TreeInv, OlderThanFresh
<1>3. /\ DOMAIN parent' = 1 .. Len(node)
      /\ parent'[Len(node)] = current_parent
      /\ \A n \in 1 .. Len(node) : n < Len(node) => parent'[n] = parent[n]
    BY <1>1 DEF Attach
<1>4. current_parent' \in {current_parent, Len(node)} /\ pc' = "parse"
    BY <1>1 DEF Descend
<1>5. ParentsEarlier'
    BY <1>1, <1>2, <1>3 DEF TreeInv, ParentsEarlier
<1>6. OlderThanFresh'
    BY <1>4 DEF OlderThanFresh
<1>7. DocumentOrder'
    <2>. SUFFICES ASSUME NEW n \in 1 .. Len(node), parent'[n] # NULL,
                         NEW m \in (parent'[n] + 1) .. (n - 1), parent'[m] # NULL
                  PROVE  parent'[m] >= parent'[n]
        BY <1>3, <1>5 DEF DocumentOrder, Attached, ParentsEarlier
    <2>1. m \in 1 .. Len(node) /\ m < Len(node) /\ parent'[m] = parent[m]
        <3>1. parent'[n] \in Nat
            BY <1>1, <1>3
        <3>. QED
            BY <1>1, <1>3, <3>1
    <2>2. CASE n = Len(node)
        BY <1>1, <1>2, <1>3, <2>1, <2>2 DEF TreeInv, RightIsClosed, Attached
    <2>3. CASE n < Len(node)
        <3>1. parent'[n] = parent[n]
            BY <1>3, <2>3
        <3>. QED
            BY <1>1, <2>1, <3>1 DEF TreeInv, DocumentOrder, Attached
    <2>. QED
        BY <1>1, <2>2, <2>3
<1>8. RightIsClosed'
    <2>. SUFFICES ASSUME NEW m \in 1 .. Len(node), m > current_parent',
                         parent'[m] # NULL
                  PROVE  parent'[m] >= current_parent'
        BY <1>3 DEF RightIsClosed, Attached
    <2>1. current_parent' = current_parent
        BY <1>1, <1>4
    <2>2. CASE m = Len(node)
        BY <1>1, <1>3, <2>1, <2>2
    <2>3. CASE m < Len(node)
        BY <1>1, <1>3, <2>1, <2>3 DEF TreeInv, RightIsClosed, Attached
    <2>. QED
        BY <1>1, <2>2, <2>3
<1>. QED
    BY <1>5, <1>6, <1>7, <1>8 DEF TreeInv

LEMMA TreeInvStep ==
    ASSUME TreeInv, [Next]_vars
    PROVE  TreeInv'
<1>0. TypeOK'
    BY TypeOKInductive DEF TreeInv
<1>1. CASE ParseTag \/ ParseStandalone
    BY <1>0, <1>1, TreeInvCreate DEF ParseTag, ParseStandalone, At
<1>2. CASE ParseStray \/ CreateFails \/ ReachEof \/ RunPastEnd
    BY <1>0, <1>2, TreeInvUnmoved
    DEF ParseStray, CreateFails, ReachEof, RunPastEnd, tree
<1>3. CASE MergeId \/ MergeClass \/ MergeAttributes \/ MergeText
    <2>1. /\ pc = "merge" /\ UNCHANGED << parent, current_parent >>
          /\ UNCHANGED depth
        BY <1>3 DEF MergeId, MergeClass, MergeAttributes, MergeText, Merge
    <2>2. Len(node') = Len(node)
        BY <1>0, <2>1 DEF TypeOK, TreeInv
    <2>. QED
        BY <1>0, <2>1, <2>2, TreeInvUnmoved
<1>4. CASE \/ MergeClassFails \/ MergeFirstClassFails \/ MergeAttributesFails
           \/ EndMerge
    BY <1>0, <1>4, TreeInvUnmoved
    DEF MergeClassFails, MergeFirstClassFails, MergeAttributesFails, Merge,
        EndMerge, tree
<1>5. CASE Climb
    BY <1>0, <1>5, TreeInvClimb
<1>6. CASE AddChild \/ AddChildGrow
    BY <1>0, <1>6, TreeInvAttach DEF AddChild, AddChildGrow
<1>7. CASE AddChildFails
    <2>1. /\ current_parent' \in {current_parent, Len(node)} /\ pc' = "parse"
          /\ UNCHANGED << parent, node >>
        BY <1>7 DEF AddChildFails, Descend, Fresh
    <2>2. Len(node) \in Nat /\ DOMAIN parent = 1 .. Len(node)
        BY Arrays DEF TreeInv
    <2>3. ParentsEarlier' /\ OlderThanFresh' /\ DocumentOrder'
        BY <2>1
        DEF TreeInv, ParentsEarlier, OlderThanFresh, DocumentOrder, Attached
    <2>4. RightIsClosed'
        BY <2>1, <2>2 DEF TreeInv, RightIsClosed, Attached
    <2>. QED
        BY <1>0, <2>3, <2>4 DEF TreeInv
<1>8. CASE AddChildOutOfBounds \/ UNCHANGED vars
    BY <1>0, <1>8, TreeInvUnmoved DEF AddChildOutOfBounds, vars, tree
<1>. QED
    BY <1>1, <1>2, <1>3, <1>4, <1>5, <1>6, <1>7, <1>8 DEF Next, Stopped

THEOREM TreeInvariant == Spec => []TreeInv
<1>1. TreeInv /\ [Next]_vars => TreeInv'
    BY TreeInvStep
<1>. QED
    BY <1>1, TreeInvInit, PTL DEF Spec

(***************************************************************************)
(* Every reachable state is well typed: the walk up the tree never leaves  *)
(* it, so parse_pug never follows a null parent.                           *)
(***************************************************************************)
THEOREM TypeCorrect == Spec => []TypeOK
<1>1. TreeInv => TypeOK
    BY DEF TreeInv
<1>. QED
    BY <1>1, TreeInvariant, PTL

(***************************************************************************)
(* Creation order is a preorder of the tree, even if allocations fail, so  *)
(* the renderer's preorder walk keeps the order of the source.             *)
(***************************************************************************)
THEOREM DocumentOrderHolds == Spec => []DocumentOrder
<1>1. TreeInv => DocumentOrder
    BY DEF TreeInv
<1>. QED
    BY <1>1, TreeInvariant, PTL

(***************************************************************************)
(* ChildrenMatchParents.  A child list names existing nodes only, and the  *)
(* node in hand is in none of them.                                        *)
(***************************************************************************)

ChildrenExist ==
    \A p \in DOMAIN children :
        \A i \in DOMAIN children[p] : children[p][i] \in DOMAIN parent

FreshIsLoose == pc \in {"merge", "climb"} => parent[Fresh] = NULL

ChildInv == ChildrenMatchParents /\ ChildrenExist /\ FreshIsLoose

LEMMA ChildFacts ==
    ASSUME TypeOK, ChildInv, NEW p \in 1 .. Len(node)
    PROVE  /\ \A i, j \in DOMAIN children[p] :
                 i < j => children[p][i] < children[p][j]
           /\ \A n \in 1 .. Len(node) :
                 parent[n] = p <=> \E i \in DOMAIN children[p] :
                                      children[p][i] = n
           /\ \A i \in DOMAIN children[p] : children[p][i] \in 1 .. Len(node)
<1>1. DOMAIN children = 1 .. Len(node) /\ DOMAIN parent = 1 .. Len(node)
    BY Arrays
<1>2. p \in DOMAIN children
    BY <1>1
<1>3. /\ \A i, j \in DOMAIN children[p] :
            i < j => children[p][i] < children[p][j]
      /\ \A n \in DOMAIN parent :
            parent[n] = p <=> \E i \in DOMAIN children[p] : children[p][i] = n
    BY <1>2, Zenon DEF ChildInv, ChildrenMatchParents
<1>4. \A i \in DOMAIN children[p] : children[p][i] \in DOMAIN parent
    BY <1>2, Zenon DEF ChildInv, ChildrenExist
<1>. QED
    BY <1>1, <1>3, <1>4, Zenon

LEMMA ChildInvUnmoved ==
    ASSUME ChildInv, UNCHANGED << parent, children >>, Len(node') = Len(node),
           pc' \in {"merge", "climb"} => pc \in {"merge", "climb"}
    PROVE  ChildInv'
BY DEF ChildInv, ChildrenMatchParents, ChildrenExist, FreshIsLoose, Fresh

LEMMA ChildInvCreate ==
    ASSUME TreeInv, ChildInv, HasCurrent, CreateNode
    PROVE  ChildInv'
<1>. DEFINE k == Len(node)
<1>1. /\ TypeOK /\ k \in Nat /\ DOMAIN parent = 1 .. k
      /\ DOMAIN children = 1 .. k
      /\ \A p \in 1 .. k : children[p] \in Seq(Nat)
    BY Arrays DEF TreeInv
<1>2. /\ DOMAIN parent' = 1 .. k + 1 /\ DOMAIN children' = 1 .. k + 1
      /\ Fresh' = k + 1
      /\ \A n \in 1 .. k : parent'[n] = parent[n] /\ children'[n] = children[n]
      /\ parent'[k + 1] = 0 /\ children'[k + 1] = << >>
    BY <1>1, CreateNodeArrays DEF NULL
<1>3. \A n \in 1 .. k : parent[n] < n
    BY <1>1 DEF TreeInv, ParentsEarlier
<1>4. \A p \in 1 .. k : \A i \in DOMAIN children[p] : children[p][i] \in 1 .. k
    BY <1>1 DEF ChildInv, ChildrenExist
<1>5. FreshIsLoose'
    BY <1>2 DEF FreshIsLoose, NULL
<1>6. ChildrenExist'
    <2>. SUFFICES ASSUME NEW p \in 1 .. k + 1, NEW i \in DOMAIN children'[p]
                  PROVE  children'[p][i] \in 1 .. k + 1
        BY <1>2 DEF ChildrenExist
    <2>1. CASE p = k + 1
        BY <1>2, <2>1
    <2>2. CASE p \in 1 .. k
        BY <1>1, <1>2, <1>4, <2>2
    <2>. QED
        BY <1>1, <2>1, <2>2
<1>7. ChildrenMatchParents'
    <2>. SUFFICES ASSUME NEW p \in 1 .. k + 1
                  PROVE  /\ \A i, j \in DOMAIN children'[p] :
                               i < j => children'[p][i] < children'[p][j]
                         /\ \A n \in 1 .. k + 1 :
                               parent'[n] = p <=> \E i \in DOMAIN children'[p] :
                                                     children'[p][i] = n
        BY <1>2 DEF ChildrenMatchParents
    <2>1. CASE p = k + 1
        <3>1. DOMAIN children'[p] = {}
            BY <1>2, <2>1
        <3>2. \A n \in 1 .. k + 1 : parent'[n] # p
            BY <1>1, <1>2, <1>3, <2>1
        <3>. QED
            BY <3>1, <3>2
    <2>2. CASE p \in 1 .. k
        <3>1. children'[p] = children[p]
            BY <1>2, <2>2
        <3>2. \A i, j \in DOMAIN children[p] :
                  i < j => children[p][i] < children[p][j]
            BY <1>1, <2>2, ChildFacts, Zenon
        <3>3. ASSUME NEW n \in 1 .. k
              PROVE  parent'[n] = p <=> \E i \in DOMAIN children[p] :
                                           children[p][i] = n
            <4>1. parent'[n] = parent[n]
                BY <1>2
            <4>2. parent[n] = p <=> \E i \in DOMAIN children[p] : children[p][i] = n
                BY <1>1, <2>2, ChildFacts
            <4>. QED
                BY <4>1, <4>2
        <3>4. parent'[k + 1] # p
            BY <1>2, <2>2
        <3>5. \A i \in DOMAIN children[p] : children[p][i] # k + 1
            BY <1>1, <1>4, <2>2
        <3>6. ASSUME NEW n \in 1 .. k + 1
              PROVE  parent'[n] = p <=> \E i \in DOMAIN children[p] :
                                           children[p][i] = n
            <4>1. CASE n = k + 1
                BY <3>4, <3>5, <4>1
            <4>2. CASE n \in 1 .. k
                BY <3>3, <4>2
            <4>. QED
                BY <1>1, <4>1, <4>2
        <3>. QED
            BY <3>1, <3>2, <3>6
    <2>3. p = k + 1 \/ p \in 1 .. k
        BY <1>1
    <2>. QED
        BY <2>1, <2>2, <2>3, Zenon
<1>. QED
    BY <1>5, <1>6, <1>7 DEF ChildInv

LEMMA ChildInvAttach ==
    ASSUME TreeInv, ChildInv, pc = "climb", Attach(current_parent, Fresh),
           Descend, UNCHANGED node
    PROVE  ChildInv'
<1>. DEFINE k == Len(node)
            q == current_parent
            c == children[q]
<1>1. /\ TypeOK /\ k \in Nat /\ DOMAIN parent = 1 .. k /\ Fresh = k
      /\ DOMAIN children = 1 .. k /\ q \in 1 .. k /\ k >= 1
      /\ \A p \in 1 .. k : children[p] \in Seq(Nat)
    BY Arrays DEF TreeInv
<1>2. /\ DOMAIN parent' = 1 .. k /\ DOMAIN children' = 1 .. k
      /\ \A n \in 1 .. k : parent'[n] = IF n = k THEN q ELSE parent[n]
      /\ \A p \in 1 .. k : children'[p] = IF p = q THEN Append(c, k)
                                                  ELSE children[p]
    BY <1>1 DEF Attach
<1>3. /\ Len(c) \in Nat /\ DOMAIN c = 1 .. Len(c)
      /\ DOMAIN Append(c, k) = 1 .. Len(c) + 1
      /\ \A i \in 1 .. Len(c) : Append(c, k)[i] = c[i]
      /\ Append(c, k)[Len(c) + 1] = k
    <2>1. c \in Seq(Nat) /\ k \in Nat
        BY <1>1
    <2>. QED
        BY <2>1, AppendEntry, LenProperties
<1>4. parent[k] = 0
    BY <1>1 DEF ChildInv, FreshIsLoose, NULL
<1>5. \A p \in 1 .. k : \A i \in DOMAIN children[p] :
          children[p][i] \in 1 .. k /\ children[p][i] # k
    <2>. SUFFICES ASSUME NEW p \in 1 .. k, NEW i \in DOMAIN children[p]
                  PROVE  children[p][i] \in 1 .. k /\ children[p][i] # k
        OBVIOUS
    <2>1. children[p][i] \in 1 .. k
        BY <1>1 DEF ChildInv, ChildrenExist
    <2>2. parent[children[p][i]] = p
        BY <1>1, <2>1 DEF ChildInv, ChildrenMatchParents
    <2>. QED
        BY <1>4, <2>1, <2>2
<1>6. FreshIsLoose'
    BY DEF FreshIsLoose, Descend
<1>7. ChildrenExist'
    <2>. SUFFICES ASSUME NEW p \in 1 .. k, NEW i \in DOMAIN children'[p]
                  PROVE  children'[p][i] \in 1 .. k
        BY <1>2 DEF ChildrenExist
    <2>1. CASE p = q
        <3>1. children'[p] = Append(c, k) /\ \A j \in 1 .. Len(c) : c[j] \in 1 .. k
            BY <1>1, <1>2, <1>3, <1>5, <2>1
        <3>2. i \in 1 .. Len(c) + 1
            BY <1>3, <3>1
        <3>. QED
            BY <1>1, <1>3, <3>1, <3>2
    <2>2. CASE p # q
        BY <1>1, <1>2, <1>5, <2>2
    <2>. QED
        BY <2>1, <2>2
<1>8. ChildrenMatchParents'
    <2>. SUFFICES ASSUME NEW p \in 1 .. k
                  PROVE  /\ \A i, j \in DOMAIN children'[p] :
                               i < j => children'[p][i] < children'[p][j]
                         /\ \A n \in 1 .. k :
                               parent'[n] = p <=> \E i \in DOMAIN children'[p] :
                                                     children'[p][i] = n
        BY <1>2 DEF ChildrenMatchParents
    <2>1. /\ \A i, j \in DOMAIN children[p] :
                i < j => children[p][i] < children[p][j]
          /\ \A n \in 1 .. k :
                parent[n] = p <=> \E i \in DOMAIN children[p] : children[p][i] = n
        BY <1>1, ChildFacts, Zenon
    <2>2. CASE p # q
        <3>1. children'[p] = children[p]
            BY <1>2, <2>2
        <3>2. \A n \in 1 .. k : parent'[n] = p <=> parent[n] = p /\ n # k
            BY <1>1, <1>2, <2>2
        <3>. QED
            BY <1>1, <1>5, <2>1, <3>1, <3>2
    <2>3. CASE p = q
        <3>1. children'[p] = Append(c, k)
            BY <1>2, <2>3
        <3>2. ASSUME NEW i \in 1 .. Len(c) + 1, NEW j \in 1 .. Len(c) + 1, i < j
              PROVE  Append(c, k)[i] < Append(c, k)[j]
            <4>1. i \in 1 .. Len(c) /\ Append(c, k)[i] = c[i]
                BY <1>3, <3>2
            <4>2. CASE j = Len(c) + 1
                BY <1>1, <1>3, <1>5, <2>3, <4>1, <4>2
            <4>3. CASE j # Len(c) + 1
                BY <1>3, <2>1, <2>3, <3>2, <4>1, <4>3
            <4>. QED
                BY <4>2, <4>3
        <3>3. ASSUME NEW n \in 1 .. k
              PROVE  parent'[n] = q <=> \E i \in 1 .. Len(c) + 1 :
                                           Append(c, k)[i] = n
            <4>1. CASE n = k
                BY <1>1, <1>2, <1>3, <4>1
            <4>2. CASE n # k
                <5>1. parent'[n] = q <=> \E i \in 1 .. Len(c) : c[i] = n
                    BY <1>2, <1>3, <2>1, <2>3, <4>2
                <5>. QED
                    BY <1>3, <4>2, <5>1
            <4>. QED
                BY <4>1, <4>2
        <3>. QED
            BY <1>3, <2>3, <3>1, <3>2, <3>3
    <2>. QED
        BY <2>2, <2>3
<1>. QED
    BY <1>6, <1>7, <1>8 DEF ChildInv

LEMMA ChildInvStep ==
    ASSUME TreeInv, TreeInv', ChildInv, [Next]_vars
    PROVE  ChildInv'
<1>1. CASE ParseTag \/ ParseStandalone
    BY <1>1, ChildInvCreate DEF ParseTag, ParseStandalone, At
<1>2. CASE ParseStray \/ CreateFails \/ ReachEof \/ RunPastEnd
    BY <1>2, ChildInvUnmoved
    DEF ParseStray, CreateFails, ReachEof, RunPastEnd, tree
<1>3. CASE MergeId \/ MergeClass \/ MergeAttributes \/ MergeText
    <2>1. /\ pc = "merge" /\ UNCHANGED << parent, children, depth >>
        BY <1>3 DEF MergeId, MergeClass, MergeAttributes, MergeText, Merge
    <2>2. Len(node') = Len(node)
        BY <2>1 DEF TypeOK, TreeInv
    <2>. QED
        BY <2>1, <2>2, ChildInvUnmoved
<1>4. CASE \/ MergeClassFails \/ MergeFirstClassFails \/ MergeAttributesFails
           \/ EndMerge \/ Climb
    BY <1>4, ChildInvUnmoved
    DEF MergeClassFails, MergeFirstClassFails, MergeAttributesFails, Merge,
        EndMerge, Climb, tree
<1>5. CASE AddChild \/ AddChildGrow
    BY <1>5, ChildInvAttach DEF AddChild, AddChildGrow
<1>6. CASE AddChildFails
    BY <1>6, ChildInvUnmoved DEF AddChildFails, Descend
<1>7. CASE AddChildOutOfBounds \/ UNCHANGED vars
    BY <1>7, ChildInvUnmoved DEF AddChildOutOfBounds, vars, tree
<1>. QED
    BY <1>1, <1>2, <1>3, <1>4, <1>5, <1>6, <1>7 DEF Next, Stopped

LEMMA ChildInvBegin == Begin => ChildInv
<1>. SUFFICES ASSUME Begin PROVE ChildInv
    OBVIOUS
<1>1. /\ DOMAIN children = {1} /\ children[1] = << >>
      /\ DOMAIN parent = {1} /\ parent[1] = 0 /\ pc = "parse"
    BY DEF Begin, NULL
<1>. QED
    BY <1>1 DEF ChildInv, ChildrenMatchParents, ChildrenExist, FreshIsLoose

(***************************************************************************)
(* The child lists and the parent links describe the same tree, in every   *)
(* state and whatever allocations fail.                                    *)
(***************************************************************************)
THEOREM ChildrenMatch == Spec => []ChildrenMatchParents
<1>1. Init => ChildInv
    BY InitBegins, ChildInvBegin
<1>2. TreeInv /\ TreeInv' /\ ChildInv /\ [Next]_vars => ChildInv'
    BY ChildInvStep
<1>3. ChildInv => ChildrenMatchParents
    BY DEF ChildInv
<1>. QED
    BY <1>1, <1>2, <1>3, TreeInvariant, PTL DEF Spec

(***************************************************************************)
(* LooseTakesTheRest.  A node that has no parent and is being filled, or   *)
(* was, holds all that came after it.                                      *)
(***************************************************************************)

Sunk(d) ==
    d # Root /\ parent[d] = NULL /\ (current_parent = d \/ children[d] # << >>)

HoldsTheRest(d) ==
    /\ current_parent >= d
    /\ \A n \in (d + 1) .. Len(parent) : parent[n] # NULL => parent[n] >= d

LooseInv == \A d \in DOMAIN parent : Sunk(d) => HoldsTheRest(d)

LEMMA LooseInvUnmoved ==
    ASSUME LooseInv, UNCHANGED << parent, children, current_parent >>
    PROVE  LooseInv'
BY DEF LooseInv, Sunk, HoldsTheRest

LEMMA LooseInvCreate ==
    ASSUME TreeInv, LooseInv, HasCurrent, CreateNode, UNCHANGED current_parent
    PROVE  LooseInv'
<1> DEFINE k == Len(node)
<1>1. /\ TypeOK /\ k \in Nat /\ DOMAIN parent = 1 .. k /\ Len(parent) = k
      /\ current_parent \in 1 .. k
    BY Arrays DEF TreeInv, TypeOK
<1>2. /\ DOMAIN parent' = 1 .. k + 1 /\ Len(parent') = k + 1
      /\ \A n \in 1 .. k : parent'[n] = parent[n] /\ children'[n] = children[n]
      /\ parent'[k + 1] = NULL /\ children'[k + 1] = << >>
    BY <1>1, CreateNodeArrays
<1> SUFFICES ASSUME NEW d \in 1 .. k + 1, Sunk(d)' PROVE HoldsTheRest(d)'
    BY <1>2 DEF LooseInv
<1>3. d \in 1 .. k /\ Sunk(d)
    BY <1>1, <1>2 DEF Sunk
<1>4. HoldsTheRest(d)
    BY <1>1, <1>3 DEF LooseInv
<1> QED
    BY <1>1, <1>2, <1>3, <1>4 DEF HoldsTheRest

(* The way up ends at a node without a parent.                             *)
LEMMA LooseInvClimb ==
    ASSUME TreeInv, ChildInv, LooseInv, Climb
    PROVE  LooseInv'
<1> DEFINE k == Len(node)
           q == parent[current_parent]
<1>1. /\ TypeOK /\ k \in Nat /\ DOMAIN parent = 1 .. k /\ Len(parent) = k
      /\ current_parent \in 1 .. k /\ q \in Nat
    BY Arrays DEF TreeInv, TypeOK
<1>2. /\ UNCHANGED << parent, children >> /\ q # NULL /\ current_parent' = q
    BY DEF Climb, MustClimb, tree
<1>3. q \in 1 .. k /\ q < current_parent
    BY <1>1, <1>2 DEF TreeInv, ParentsEarlier, NULL
<1>4. children[q] # << >>
    <2>1. \E i \in DOMAIN children[q] : children[q][i] = current_parent
        BY <1>1, <1>3, ChildFacts
    <2> QED
        BY <2>1
<1> SUFFICES ASSUME NEW d \in 1 .. k, Sunk(d)' PROVE HoldsTheRest(d)'
    BY <1>1, <1>2 DEF LooseInv
<1>5. Sunk(d)
    BY <1>2, <1>4 DEF Sunk
<1>6. HoldsTheRest(d)
    BY <1>1, <1>5 DEF LooseInv
<1>7. d # current_parent
    BY <1>2, <1>5 DEF Sunk
<1>8. q >= d
    BY <1>1, <1>2, <1>6, <1>7 DEF HoldsTheRest
<1> QED
    BY <1>2, <1>6, <1>8 DEF HoldsTheRest

LEMMA LooseInvAttach ==
    ASSUME TreeInv, LooseInv, pc = "climb", Attach(current_parent, Fresh), Descend
    PROVE  LooseInv'
<1> DEFINE k == Len(node)
           q == current_parent
<1>1. /\ TypeOK /\ k \in Nat /\ Fresh = k /\ DOMAIN parent = 1 .. k /\ Len(parent) = k
      /\ DOMAIN children = 1 .. k /\ q \in 1 .. k
    BY Arrays DEF TreeInv, TypeOK
<1>2. q < k
    BY <1>1 DEF TreeInv, OlderThanFresh
<1>3. /\ DOMAIN parent' = 1 .. k /\ Len(parent') = k
      /\ \A n \in 1 .. k : parent'[n] = IF n = k THEN q ELSE parent[n]
      /\ \A n \in 1 .. k : n # q => children'[n] = children[n]
      /\ current_parent' \in { q, k }
    <2>1. parent \in Seq(Nat) /\ k \in 1 .. k
        BY <1>1 DEF TypeOK
    <2> QED
        BY <1>1, <1>2, <2>1 DEF Attach, Descend
<1> SUFFICES ASSUME NEW d \in 1 .. k, Sunk(d)' PROVE HoldsTheRest(d)'
    BY <1>3 DEF LooseInv
<1>4. d # k
    BY <1>1, <1>3 DEF Sunk, NULL
<1>5. Sunk(d)
    BY <1>3, <1>4 DEF Sunk
<1>6. HoldsTheRest(d)
    BY <1>1, <1>5 DEF LooseInv
<1> QED
    BY <1>1, <1>3, <1>4, <1>6 DEF HoldsTheRest

(* The node that could not be attached has no younger one beside it yet.   *)
LEMMA LooseInvFails ==
    ASSUME TreeInv, ChildInv, LooseInv, AddChildFails
    PROVE  LooseInv'
<1> DEFINE k == Len(node)
<1>1. /\ TypeOK /\ k \in Nat /\ Fresh = k /\ DOMAIN parent = 1 .. k /\ Len(parent) = k
      /\ current_parent \in 1 .. k /\ k >= 1
    BY Arrays DEF TreeInv, TypeOK
<1>2. UNCHANGED << parent, children >> /\ current_parent' \in { current_parent, k }
    BY <1>1 DEF AddChildFails, Descend
<1>3. children[k] = << >>
    <2>1. \A i \in DOMAIN children[k] : FALSE
        <3> SUFFICES ASSUME NEW i \in DOMAIN children[k] PROVE FALSE
            OBVIOUS
        <3>1. children[k][i] \in 1 .. k /\ parent[children[k][i]] = k
            BY <1>1, ChildFacts
        <3> QED
            BY <1>1, <3>1 DEF TreeInv, ParentsEarlier
    <2>2. children[k] \in Seq(Nat) /\ Len(children[k]) \in Nat
          /\ DOMAIN children[k] = 1 .. Len(children[k])
        BY <1>1, Arrays, LenProperties
    <2>3. Len(children[k]) = 0
        <3>1. ASSUME Len(children[k]) # 0 PROVE FALSE
            <4>1. 1 \in DOMAIN children[k]
                BY <2>2, <3>1
            <4> QED
                BY <2>1, <4>1
        <3> QED
            BY <3>1
    <2> QED
        BY <2>2, <2>3, EmptySeq
<1> SUFFICES ASSUME NEW d \in 1 .. k, Sunk(d)' PROVE HoldsTheRest(d)'
    BY <1>1, <1>2 DEF LooseInv
<1>4. CASE d = k
    BY <1>1, <1>2, <1>3, <1>4 DEF Sunk, HoldsTheRest
<1>5. CASE d # k
    <2>1. Sunk(d)
        BY <1>2, <1>5 DEF Sunk
    <2>2. HoldsTheRest(d)
        BY <1>1, <2>1 DEF LooseInv
    <2> QED
        BY <1>1, <1>2, <2>2 DEF HoldsTheRest
<1> QED
    BY <1>4, <1>5

LEMMA LooseInvStep ==
    ASSUME TreeInv, ChildInv, LooseInv, [Next]_vars
    PROVE  LooseInv'
<1>1. CASE ParseTag \/ ParseStandalone
    BY <1>1, LooseInvCreate DEF ParseTag, ParseStandalone, At
<1>2. CASE ParseStray \/ CreateFails \/ ReachEof \/ RunPastEnd
    BY <1>2, LooseInvUnmoved DEF ParseStray, CreateFails, ReachEof, RunPastEnd, tree
<1>3. CASE \/ MergeId \/ MergeClass \/ MergeAttributes \/ MergeText
           \/ MergeClassFails \/ MergeAttributesFails
    BY <1>3, LooseInvUnmoved
    DEF MergeId, MergeClass, MergeAttributes, MergeText, MergeClassFails,
        MergeAttributesFails, Merge
<1>4. CASE MergeFirstClassFails \/ EndMerge \/ AddChildOutOfBounds \/ UNCHANGED vars
    BY <1>4, LooseInvUnmoved
    DEF MergeFirstClassFails, EndMerge, AddChildOutOfBounds, vars, tree
<1>5. CASE Climb
    BY <1>5, LooseInvClimb
<1>6. CASE AddChild \/ AddChildGrow
    BY <1>6, LooseInvAttach DEF AddChild, AddChildGrow
<1>7. CASE AddChildFails
    BY <1>7, LooseInvFails
<1> QED
    BY <1>1, <1>2, <1>3, <1>4, <1>5, <1>6, <1>7 DEF Next, Stopped

(***************************************************************************)
(* Once a node that could not be attached takes a child, all that follows  *)
(* hangs in the tree below it, however many allocations fail.              *)
(***************************************************************************)
THEOREM LooseTreesTakeTheRest == Spec => []LooseTakesTheRest
<1>1. Init => ChildInv /\ LooseInv
    <2> SUFFICES ASSUME Init PROVE ChildInv /\ LooseInv
        OBVIOUS
    <2>1. ChildInv
        BY InitBegins, ChildInvBegin
    <2>2. LooseInv
        BY DEF Init, LooseInv, Sunk, Root
    <2> QED
        BY <2>1, <2>2
<1>2. TreeInv /\ TreeInv' /\ ChildInv /\ LooseInv /\ [Next]_vars => ChildInv' /\ LooseInv'
    BY ChildInvStep, LooseInvStep
<1>3. TreeInv /\ LooseInv => LooseTakesTheRest
    <2> SUFFICES ASSUME TreeInv, LooseInv, NEW d \in Finished \ {Root},
                        ~ Attached(d), children[d] # << >>
                 PROVE  HoldsTheRest(d)
        BY DEF LooseTakesTheRest, HoldsTheRest, Attached
    <2>1. d \in DOMAIN parent
        BY Arrays DEF TreeInv, Finished
    <2>2. Sunk(d)
        BY DEF Sunk, Attached
    <2> QED
        BY <2>1, <2>2 DEF LooseInv
<1> QED
    BY <1>1, <1>2, <1>3, TreeInvariant, PTL DEF Spec

-----------------------------------------------------------------------------
(***************************************************************************)
(* What holds of the tree as long as no allocation fails: the buffers have *)
(* room, every node hangs below a shallower one, the indentation of the    *)
(* source decides below which, and PugParser implements PugOutline.        *)
(***************************************************************************)

(***************************************************************************)
(* NoOverflow.  The recorded capacity is the size of the buffer.           *)
(***************************************************************************)

Roomy ==
    faults = 0 =>
        \A n \in DOMAIN node :
            /\ slots[n] = capacity[n] /\ capacity[n] >= 1
            /\ Len(children[n]) <= capacity[n]

RoomInv == Roomy /\ NoOverflow

LEMMA RoomInvUnmoved ==
    ASSUME TypeOK, RoomInv, UNCHANGED << children, capacity, slots >>,
           Len(node') = Len(node), DOMAIN node' = DOMAIN node,
           faults' = faults \/ faults' = faults + 1,
           pc' = "undefined" => faults' > 0
    PROVE  RoomInv'
<1>1. faults \in Nat
    BY Counters DEF TypeOK
<1>2. faults' = 0 => faults = 0
    BY <1>1
<1>. QED
    BY <1>2 DEF RoomInv, Roomy, NoOverflow

LEMMA RoomInvCreate ==
    ASSUME TypeOK, RoomInv, HasCurrent, CreateNode, UNCHANGED faults,
           pc' # "undefined"
    PROVE  RoomInv'
<1>. DEFINE k == Len(node)
<1>1. k \in Nat /\ DOMAIN node = 1 .. k
    BY Arrays
<1>2. ChildCapacity \in Nat /\ ChildCapacity >= 1
    BY ParserAssumption DEF ParserAssumption
<1>3. /\ DOMAIN node' = 1 .. k + 1
      /\ \A n \in 1 .. k : /\ children'[n] = children[n]
                           /\ capacity'[n] = capacity[n]
                           /\ slots'[n] = slots[n]
      /\ children'[k + 1] = << >> /\ capacity'[k + 1] = ChildCapacity
      /\ slots'[k + 1] = ChildCapacity
    BY CreateNodeArrays
<1>4. Roomy'
    <2>. SUFFICES ASSUME faults = 0, NEW n \in 1 .. k + 1
                  PROVE  /\ slots'[n] = capacity'[n] /\ capacity'[n] >= 1
                         /\ Len(children'[n]) <= capacity'[n]
        BY <1>3 DEF Roomy
    <2>1. CASE n = k + 1
        BY <1>2, <1>3, <2>1
    <2>2. CASE n \in 1 .. k
        BY <1>1, <1>3, <2>2 DEF RoomInv, Roomy
    <2>. QED
        BY <1>1, <2>1, <2>2
<1>. QED
    BY <1>4 DEF RoomInv, NoOverflow

LEMMA RoomInvAttach ==
    ASSUME TypeOK, RoomInv, Attach(current_parent, Fresh),
           UNCHANGED << node, faults >>, pc' = "parse",
           \/ /\ ~ Full(current_parent)
              /\ UNCHANGED << capacity, slots >>
           \/ /\ capacity' = [capacity EXCEPT ![current_parent] = 2 * @]
              /\ slots' = [slots EXCEPT
                              ![current_parent] = capacity'[current_parent]]
    PROVE  RoomInv'
<1>. DEFINE q == current_parent
<1>1. /\ DOMAIN node = 1 .. Len(node) /\ q \in 1 .. Len(node)
      /\ DOMAIN children = 1 .. Len(node)
      /\ DOMAIN capacity = 1 .. Len(node) /\ DOMAIN slots = 1 .. Len(node)
      /\ capacity[q] \in Nat /\ children[q] \in Seq(Nat)
      /\ Fresh \in Nat
    BY Arrays
<1>2. Roomy'
    <2>. SUFFICES ASSUME faults = 0, NEW n \in 1 .. Len(node)
                  PROVE  /\ slots'[n] = capacity'[n] /\ capacity'[n] >= 1
                         /\ Len(children'[n]) <= capacity'[n]
        BY <1>1 DEF Roomy
    <2>1. /\ slots[n] = capacity[n] /\ capacity[n] >= 1
          /\ Len(children[n]) <= capacity[n]
        BY <1>1 DEF RoomInv, Roomy
    <2>2. CASE n # q
        <3>1. /\ slots'[n] = slots[n] /\ capacity'[n] = capacity[n]
              /\ children'[n] = children[n]
            BY <1>1, <2>2 DEF Attach
        <3>. QED
            BY <2>1, <3>1
    <2>3. CASE n = q
        <3>1. children'[q] = Append(children[q], Fresh)
            BY <1>1 DEF Attach
        <3>2. Len(children'[q]) = Len(children[q]) + 1 /\ Len(children[q]) \in Nat
            BY <1>1, <3>1, AppendProperties, LenProperties
        <3>3. CASE ~ Full(q) /\ UNCHANGED << capacity, slots >>
            <4>1. Len(children[q]) < capacity[q]
                BY <1>1, <3>2, <3>3 DEF Full
            <4>. QED
                BY <1>1, <2>1, <2>3, <3>2, <3>3, <4>1
        <3>4. CASE /\ capacity' = [capacity EXCEPT ![q] = 2 * @]
                   /\ slots' = [slots EXCEPT ![q] = capacity'[q]]
            <4>1. capacity'[q] = 2 * capacity[q] /\ slots'[q] = capacity'[q]
                BY <1>1, <3>4
            <4>. QED
                BY <1>1, <2>1, <2>3, <3>2, <4>1
        <3>. QED
            BY <3>3, <3>4
    <2>. QED
        BY <2>2, <2>3
<1>. QED
    BY <1>2 DEF RoomInv, NoOverflow

LEMMA RoomInvStep ==
    ASSUME TypeOK, TypeOK', RoomInv, [Next]_vars
    PROVE  RoomInv'
<1>0. /\ faults \in Nat
      /\ Fault => faults' = faults + 1 /\ faults' > 0
    BY Counters DEF Fault, TypeOK
<1>1. CASE ParseTag \/ ParseStandalone
    BY <1>1, RoomInvCreate DEF ParseTag, ParseStandalone, At
<1>2. CASE ParseStray \/ CreateFails \/ ReachEof \/ RunPastEnd
    <2>1. /\ UNCHANGED << children, capacity, slots, node >>
          /\ faults' = faults \/ faults' = faults + 1
          /\ pc' # "undefined"
        BY <1>0, <1>2
        DEF ParseStray, CreateFails, ReachEof, RunPastEnd, tree
    <2>. QED
        BY <2>1, RoomInvUnmoved
<1>3. CASE MergeId \/ MergeClass \/ MergeAttributes \/ MergeText
    <2>1. UNCHANGED << children, capacity, slots, faults, depth >>
        BY <1>3 DEF MergeId, MergeClass, MergeAttributes, MergeText, Merge
    <2>2. pc' # "undefined"
        BY <1>3 DEF MergeId, MergeClass, MergeAttributes, MergeText, Merge
    <2>3. Len(node') = Len(node) /\ DOMAIN node' = DOMAIN node
        <3>1. node \in Seq(Node) /\ node' \in Seq(Node) /\ Len(node') = Len(node)
            BY <2>1 DEF TypeOK
        <3>. QED
            BY <3>1, LenProperties
    <2>. QED
        BY <2>1, <2>2, <2>3, RoomInvUnmoved
<1>4. CASE \/ MergeClassFails \/ MergeFirstClassFails \/ MergeAttributesFails
           \/ EndMerge \/ Climb
    <2>1. /\ UNCHANGED << children, capacity, slots, node >>
          /\ faults' = faults \/ faults' = faults + 1
          /\ pc' = "undefined" => faults' > 0
        BY <1>0, <1>4
        DEF MergeClassFails, MergeFirstClassFails, MergeAttributesFails, Merge,
            EndMerge, Climb, tree
    <2>. QED
        BY <2>1, RoomInvUnmoved
<1>5. CASE AddChild \/ AddChildGrow
    BY <1>5, RoomInvAttach DEF AddChild, AddChildGrow, Descend
<1>6. CASE AddChildFails
    BY <1>0, <1>6 DEF AddChildFails, Descend, RoomInv, Roomy, NoOverflow
<1>7. CASE AddChildOutOfBounds
    <2>1. /\ current_parent \in DOMAIN node
          /\ Len(children[current_parent]) \in Nat
          /\ capacity[current_parent] \in Nat /\ slots[current_parent] \in Nat
        BY Arrays, LenProperties
    <2>2. faults # 0
        BY <1>7, <2>1 DEF AddChildOutOfBounds, Full, RoomInv, Roomy
    <2>3. UNCHANGED << children, capacity, slots, node, faults >>
        BY <1>7 DEF AddChildOutOfBounds, tree
    <2>. QED
        BY <1>0, <2>2, <2>3, RoomInvUnmoved
<1>8. CASE UNCHANGED vars
    BY <1>8 DEF vars, tree, RoomInv, Roomy, NoOverflow
<1>. QED
    BY <1>1, <1>2, <1>3, <1>4, <1>5, <1>6, <1>7, <1>8 DEF Next, Stopped

LEMMA RoomInvBegin == Begin => RoomInv
<1>. SUFFICES ASSUME Begin PROVE RoomInv
    OBVIOUS
<1>1. ChildCapacity \in Nat /\ ChildCapacity >= 1
    BY ParserAssumption DEF ParserAssumption
<1>2. /\ DOMAIN node = {1} /\ children[1] = << >> /\ slots[1] = ChildCapacity
      /\ capacity[1] = ChildCapacity /\ pc = "parse"
    BY DEF Begin
<1>. QED
    BY <1>1, <1>2 DEF RoomInv, Roomy, NoOverflow

(***************************************************************************)
(* As long as no allocation fails, no child and no class is ever stored    *)
(* outside its buffer, for documents of any size.                          *)
(***************************************************************************)
THEOREM NeverOverflows == Spec => []NoOverflow
<1>1. Init => RoomInv
    BY InitBegins, RoomInvBegin
<1>2. TypeOK /\ TypeOK' /\ RoomInv /\ [Next]_vars => RoomInv'
    BY RoomInvStep
<1>3. RoomInv => NoOverflow
    BY DEF RoomInv
<1>. QED
    BY <1>1, <1>2, <1>3, TypeCorrect, PTL DEF Spec

(***************************************************************************)
(* ParentsAreShallower.                                                    *)
(***************************************************************************)

LEMMA WithoutLast ==
    ASSUME NEW k \in Nat, k >= 1
    PROVE  (1 .. k) \ {k} = 1 .. k - 1
OBVIOUS

LEMMA FinishedNodes ==
    ASSUME TypeOK
    PROVE  Finished = IF pc \in {"merge", "climb"} THEN 1 .. Len(node) - 1
                                                   ELSE 1 .. Len(node)
<1>1. /\ DOMAIN node = 1 .. Len(node) /\ Fresh = Len(node)
      /\ Len(node) \in Nat /\ Len(node) >= 1
    BY Arrays
<1>2. (1 .. Len(node)) \ {Len(node)} = 1 .. Len(node) - 1
    BY <1>1, WithoutLast
<1>. QED
    BY <1>1, <1>2 DEF Finished

(* The same for the next state. *)
LEMMA FinishedNodesNext ==
    ASSUME node' \in Seq(Node), NEW k \in Nat, k >= 1, Len(node') = k
    PROVE  Finished' = IF pc' \in {"merge", "climb"} THEN 1 .. k - 1 ELSE 1 .. k
<1>1. DOMAIN node' = 1 .. k
    BY LenProperties
<1>2. (1 .. k) \ {k} = 1 .. k - 1
    BY WithoutLast
<1>. QED
    BY <1>1, <1>2 DEF Finished, Fresh

LEMMA ParentsAreShallowerUnmoved ==
    ASSUME ParentsAreShallower, UNCHANGED << parent, depth >>,
           DOMAIN node' = DOMAIN node, Len(node') = Len(node),
           faults' = 0 => faults = 0,
           pc \in {"merge", "climb"} <=> pc' \in {"merge", "climb"}
    PROVE  ParentsAreShallower'
BY DEF ParentsAreShallower, Finished, Fresh, Attached

LEMMA ShallowBegin == Begin => ParentsAreShallower
BY DEF Begin, ParentsAreShallower, Finished, Root

LEMMA ParentsAreShallowerStep ==
    ASSUME TreeInv, TypeOK', NoOverflow', ParentsAreShallower, [Next]_vars
    PROVE  ParentsAreShallower'
<1>. DEFINE k == Len(node)
<1>0. /\ TypeOK /\ k \in Nat /\ k >= 1 /\ Fresh = k
      /\ current_parent \in 1 .. k /\ DOMAIN parent = 1 .. k
    BY Arrays DEF TreeInv
<1>f. Fault => faults' # 0
    <2>1. faults \in Nat
        BY <1>0, Counters DEF TypeOK
    <2>. QED
        BY <2>1 DEF Fault
<1>1. CASE ParseTag \/ ParseStandalone
    <2>1. /\ HasCurrent /\ CreateNode /\ UNCHANGED faults
          /\ pc = "parse" /\ pc' \in {"merge", "climb"}
        BY <1>1 DEF ParseTag, ParseStandalone, At
    <2>2. /\ Len(node') = k + 1
          /\ \A n \in 1 .. k : parent'[n] = parent[n] /\ depth'[n] = depth[n]
        BY <1>0, <2>1, CreateNodeArrays
    <2>3. Finished = 1 .. k /\ Finished' = 1 .. k
        <3>1. node' \in Seq(Node) /\ k + 1 \in Nat /\ k + 1 >= 1 /\ k + 1 - 1 = k
            BY <1>0, <2>1, CreateNodeArrays
        <3>2. Finished = 1 .. k
            BY <1>0, <2>1, FinishedNodes
        <3>3. Finished' = 1 .. k + 1 - 1
            BY <2>1, <2>2, <3>1, FinishedNodesNext
        <3>. QED
            BY <3>1, <3>2, <3>3
    <2>. SUFFICES ASSUME faults = 0, NEW n \in (1 .. k) \ {Root}
                  PROVE  /\ parent'[n] # NULL
                         /\ parent'[n] = Root \/ depth'[parent'[n]] < depth'[n]
        BY <2>1, <2>3 DEF ParentsAreShallower, Attached
    <2>4. parent[n] # NULL /\ (parent[n] = Root \/ depth[parent[n]] < depth[n])
        BY <2>3 DEF ParentsAreShallower, Attached
    <2>5. parent[n] \in 1 .. k
        <3>1. parent[n] \in Nat /\ parent[n] < n
            BY <1>0, Arrays DEF TreeInv, ParentsEarlier
        <3>. QED
            BY <2>4, <3>1 DEF NULL
    <2>. QED
        BY <2>2, <2>4, <2>5
<1>2. CASE ParseStray \/ CreateFails \/ ReachEof \/ RunPastEnd
    <2>1. /\ UNCHANGED << parent, depth, node >>
          /\ pc = "parse" /\ pc' \in {"parse", "done"}
          /\ faults' = 0 => faults = 0
        BY <1>f, <1>2 DEF ParseStray, CreateFails, ReachEof, RunPastEnd, tree
    <2>. QED
        BY <2>1, ParentsAreShallowerUnmoved
<1>3. CASE MergeId \/ MergeClass \/ MergeAttributes \/ MergeText
    <2>1. /\ UNCHANGED << parent, depth, faults, pc >>
        BY <1>3 DEF MergeId, MergeClass, MergeAttributes, MergeText, Merge
    <2>2. Len(node') = Len(node) /\ DOMAIN node' = DOMAIN node
        <3>1. node \in Seq(Node) /\ node' \in Seq(Node) /\ Len(node') = Len(node)
            BY <1>0, <2>1 DEF TypeOK
        <3>. QED
            BY <3>1, LenProperties
    <2>. QED
        BY <2>1, <2>2, ParentsAreShallowerUnmoved
<1>4. CASE MergeClassFails \/ MergeFirstClassFails \/ MergeAttributesFails
    BY <1>f, <1>4
    DEF MergeClassFails, MergeFirstClassFails, MergeAttributesFails,
        ParentsAreShallower
<1>5. CASE EndMerge \/ Climb
    BY <1>5, ParentsAreShallowerUnmoved DEF EndMerge, Climb, tree
<1>6. CASE AddChild \/ AddChildGrow
    <2>1. /\ pc = "climb" /\ pc' = "parse" /\ ~ MustClimb
          /\ parent' = [parent EXCEPT ![k] = current_parent]
          /\ UNCHANGED << depth, node, faults >>
        BY <1>0, <1>6 DEF AddChild, AddChildGrow, Attach, Descend
    <2>2. current_parent \in 1 .. k - 1
        BY <1>0, <2>1 DEF TreeInv, OlderThanFresh
    <2>3. Finished = 1 .. k - 1 /\ Finished' = 1 .. k
        <3>1. node' \in Seq(Node) /\ Len(node') = k
            BY <1>0, <2>1 DEF TypeOK
        <3>2. Finished = 1 .. k - 1
            BY <1>0, <2>1, FinishedNodes
        <3>3. Finished' = 1 .. k
            BY <1>0, <2>1, <3>1, FinishedNodesNext
        <3>. QED
            BY <3>2, <3>3
    <2>. SUFFICES ASSUME faults = 0, NEW n \in (1 .. k) \ {Root}
                  PROVE  /\ parent'[n] # NULL
                         /\ parent'[n] = Root \/ depth[parent'[n]] < depth[n]
        BY <2>1, <2>3 DEF ParentsAreShallower, Attached
    <2>4. CASE n = k
        <3>1. parent'[n] = current_parent
            BY <1>0, <2>1, <2>4
        <3>2. parent[current_parent] = NULL => current_parent = Root
            BY <2>2, <2>3 DEF ParentsAreShallower, Attached
        <3>3. depth[k] \in Nat /\ depth[current_parent] \in Nat
            BY <1>0, Arrays
        <3>4. current_parent = Root \/ depth[current_parent] < depth[k]
            BY <1>0, <2>1, <3>2, <3>3 DEF MustClimb
        <3>. QED
            BY <2>2, <2>4, <3>1, <3>4 DEF NULL
    <2>5. CASE n # k
        <3>1. parent'[n] = parent[n] /\ n \in Finished
            BY <1>0, <2>1, <2>3, <2>5
        <3>. QED
            BY <3>1 DEF ParentsAreShallower, Attached
    <2>. QED
        BY <2>4, <2>5
<1>7. CASE AddChildFails
    BY <1>f, <1>7 DEF AddChildFails, ParentsAreShallower
<1>8. CASE AddChildOutOfBounds
    <2>1. faults' > 0
        BY <1>8 DEF AddChildOutOfBounds, NoOverflow
    <2>. QED
        BY <2>1 DEF ParentsAreShallower
<1>9. CASE UNCHANGED vars
    BY <1>9, ParentsAreShallowerUnmoved DEF vars, tree
<1>. QED
    BY <1>1, <1>2, <1>3, <1>4, <1>5, <1>6, <1>7, <1>8, <1>9 DEF Next, Stopped

(***************************************************************************)
(* As long as no allocation fails, every node parse_pug is done with hangs *)
(* in the tree, below the root or a shallower node, whatever tokens were   *)
(* dropped.                                                                *)
(***************************************************************************)
THEOREM ShallowParents == Spec => []ParentsAreShallower
<1>1. Init => ParentsAreShallower
    BY InitBegins, ShallowBegin
<1>2. /\ TreeInv /\ TypeOK' /\ NoOverflow' /\ ParentsAreShallower /\ [Next]_vars
      => ParentsAreShallower'
    BY ParentsAreShallowerStep
<1>. QED
    BY <1>1, <1>2, TreeInvariant, TypeCorrect, NeverOverflows, PTL DEF Spec

(***************************************************************************)
(* A list that ends with EOF is never left: the counter stays within it.   *)
(***************************************************************************)

ListsEndWithEof == \A ts \in TokenLists : EndsWithEof(ts)

InList ==
    /\ tokens \in TokenLists
    /\ HasCurrent
    /\ \A n \in DOMAIN depth : n # Root => depth[n] < UIntMax

LEMMA ListFacts ==
    ASSUME ListsEndWithEof, TypeOK, tokens \in TokenLists
    PROVE  /\ Len(tokens) \in Nat /\ Len(tokens) < UIntMax
           /\ \A i \in 1 .. Len(tokens) :
                 /\ tokens[i].type = "EOF" <=> i = Len(tokens)
                 /\ tokens[i].depth < UIntMax
<1>1. Len(tokens) \in Nat /\ DOMAIN tokens = 1 .. Len(tokens)
    BY Counters
<1>2. Len(tokens) < UIntMax /\ \A i \in DOMAIN tokens : tokens[i].depth < UIntMax
    BY ParserAssumption DEF ParserAssumption
<1>3. \A i \in DOMAIN tokens : tokens[i].type = "EOF" <=> i = Len(tokens)
    BY DEF ListsEndWithEof, EndsWithEof
<1>. QED
    BY <1>1, <1>2, <1>3

(* Advancing from a token other than EOF leads to a token. *)
LEMMA AdvanceInList ==
    ASSUME ListsEndWithEof, TypeOK, tokens \in TokenLists,
           NEW i \in Nat, i < Len(tokens), tokens[i + 1].type # "EOF"
    PROVE  Advance(i) = i + 1 /\ i + 1 < Len(tokens)
<1>1. i + 1 \in 1 .. Len(tokens) /\ i + 1 # Len(tokens)
    BY ListFacts
<1>2. UIntMax \in Nat /\ Len(tokens) < UIntMax
    BY Counters, ListFacts
<1>. QED
    BY <1>1, <1>2 DEF Advance

LEMMA NotEof ==
    ASSUME NEW types, At(types), "EOF" \notin types
    PROVE  Current.type # "EOF"
BY DEF At

LEMMA InListStep ==
    ASSUME ListsEndWithEof, TypeOK, TypeOK', InList, [Next]_vars
    PROVE  InList'
<1>0. /\ current_token \in Nat /\ current_token < Len(tokens)
      /\ tokens \in TokenLists /\ Current = tokens[current_token + 1]
      /\ Len(tokens) \in Nat
    BY Counters DEF InList, HasCurrent, Current, Position
<1>t. UNCHANGED tokens
    BY DEF Next, vars, ParseTag, ParseStandalone, ParseStray, CreateFails,
           ReachEof, RunPastEnd, MergeId, MergeClass, MergeClassFails,
           MergeFirstClassFails, MergeAttributes, MergeAttributesFails,
           MergeText, Merge, EndMerge, Climb, AddChild, AddChildGrow,
           AddChildFails, AddChildOutOfBounds, Stopped
<1>a. Current.type # "EOF" => Advance(current_token) < Len(tokens)
    BY <1>0, AdvanceInList
<1>1. CASE ParseTag \/ ParseStandalone
    <2>1. /\ HasCurrent /\ CreateNode /\ Current.type # "EOF"
          /\ current_token' = Advance(current_token)
        BY <1>1, NotEof DEF ParseTag, ParseStandalone, Standalone, TextLike,
                            DirectiveType, At
    <2>2. HasCurrent'
        BY <1>a, <1>t, <2>1 DEF HasCurrent
    <2>3. Current.depth < UIntMax
        BY <1>0, ListFacts
    <2>4. /\ Len(node) \in Nat /\ DOMAIN depth = 1 .. Len(node)
          /\ DOMAIN depth' = 1 .. Len(node) + 1
          /\ \A n \in 1 .. Len(node) : depth'[n] = depth[n]
          /\ depth'[Len(node) + 1] = Current.depth
        <3>1. depth' \in Seq(Nat) /\ Len(depth') = Len(node) + 1
            BY <2>1, CreateNodeArrays
        <3>2. DOMAIN depth' = 1 .. Len(node) + 1
            BY <3>1, LenProperties
        <3>. QED
            BY <2>1, <3>2, Arrays, CreateNodeArrays
    <2>. QED
        BY <1>0, <1>t, <2>2, <2>3, <2>4 DEF InList
<1>2. CASE ParseStray
    <2>1. Current.type # "EOF" /\ UNCHANGED depth
        BY <1>2, NotEof DEF ParseStray, Stray, tree
    <2>. DEFINE next == Advance(current_token)
    <2>2. next = current_token + 1 /\ next \in Nat /\ next < Len(tokens)
        BY <1>0, <2>1, AdvanceInList
    <2>3. CASE AtEof(next)
        BY <1>0, <1>2, <1>t, <2>1, <2>2, <2>3 DEF ParseStray, InList, HasCurrent
    <2>4. CASE ~ AtEof(next)
        <3>1. tokens[next + 1].type # "EOF"
            BY <2>2, <2>4 DEF AtEof
        <3>2. Advance(next) < Len(tokens)
            BY <1>0, <2>2, <3>1, AdvanceInList
        <3>. QED
            BY <1>0, <1>2, <1>t, <2>1, <2>4, <3>2
            DEF ParseStray, InList, HasCurrent
    <2>. QED
        BY <2>3, <2>4
<1>3. CASE CreateFails
    <2>1. Current.type # "EOF" /\ UNCHANGED depth
        BY <1>0, <1>3 DEF CreateFails, AtEof, tree
    <2>. QED
        BY <1>0, <1>3, <1>a, <1>t, <2>1 DEF CreateFails, InList, HasCurrent
<1>4. CASE RunPastEnd
    BY <1>4 DEF RunPastEnd, InList
<1>5. CASE \/ MergeId \/ MergeClass \/ MergeClassFails \/ MergeAttributes
           \/ MergeAttributesFails \/ MergeText
    <2>1. /\ Current.type # "EOF" /\ UNCHANGED depth
          /\ current_token' = Advance(current_token)
        BY <1>5, NotEof
        DEF MergeId, MergeClass, MergeClassFails, MergeAttributes,
            MergeAttributesFails, MergeText, Merge, RunType
    <2>. QED
        BY <1>0, <1>a, <1>t, <2>1 DEF InList, HasCurrent
<1>6. CASE \/ ReachEof \/ MergeFirstClassFails \/ EndMerge \/ Climb
           \/ AddChild \/ AddChildGrow \/ AddChildFails
           \/ AddChildOutOfBounds \/ UNCHANGED vars
    <2>1. UNCHANGED << depth, current_token >>
        BY <1>6
        DEF ReachEof, MergeFirstClassFails, EndMerge, Climb, AddChild,
            AddChildGrow, AddChildFails, AddChildOutOfBounds, vars, tree
    <2>. QED
        BY <1>t, <2>1 DEF InList, HasCurrent
<1>. QED
    BY <1>1, <1>2, <1>3, <1>4, <1>5, <1>6 DEF Next, Stopped

LEMMA InListBegin ==
    ASSUME ListsEndWithEof, Begin, tokens \in TokenLists
    PROVE  InList
<1>1. tokens \in Seq(Token)
    BY DEF Begin
<1>2. tokens # << >>
    BY DEF ListsEndWithEof, EndsWithEof
<1>3. Len(tokens) \in Nat \ {0}
    BY <1>1, <1>2, EmptySeq
<1>4. DOMAIN depth = {1}
    BY DEF Begin
<1>. QED
    BY <1>3, <1>4 DEF Begin, InList, HasCurrent, Root

LEMMA InListAlways ==
    ASSUME ListsEndWithEof
    PROVE  Spec => []InList
<1>1. Init => InList
    BY InitBegins, InListBegin DEF Init
<1>2. TypeOK /\ TypeOK' /\ InList /\ [Next]_vars => InList'
    BY InListStep
<1>. QED
    BY <1>1, <1>2, TypeCorrect, PTL DEF Spec

(***************************************************************************)
(* NearestShallower.  To the right of the current parent everything is at  *)
(* least as deep as the node that comes next.                              *)
(***************************************************************************)

Faultless == faults = 0 /\ dropped = {}

RightIsDeeper ==
    Faultless =>
        \A m \in DOMAIN depth : m > current_parent =>
            /\ pc = "parse" => Current.depth <= depth[m]
            /\ pc \in {"merge", "climb"} /\ m # Fresh => depth[Fresh] <= depth[m]

NearInv == NearestShallower /\ RightIsDeeper

LEMMA NearInvUnmoved ==
    ASSUME NearInv, Faultless' => Faultless,
           UNCHANGED << parent, depth, current_parent >>, Len(node') = Len(node),
           \/ pc' \in {"done", "undefined"}
           \/ pc \in {"merge", "climb"} /\ pc' \in {"merge", "climb"}
           \/ pc = "parse" /\ UNCHANGED << pc, tokens, current_token >>
    PROVE  NearInv'
<1>1. NearestShallower'
    BY DEF NearInv, NearestShallower, Attached, Faultless
<1>2. RightIsDeeper'
    BY DEF NearInv, RightIsDeeper, Fresh, Current, Position
<1>. QED
    BY <1>1, <1>2 DEF NearInv

LEMMA NearInvCreate ==
    ASSUME TreeInv, NearInv, HasCurrent, CreateNode, pc = "parse",
           pc' \in {"merge", "climb"},
           UNCHANGED << current_parent, dropped, faults >>
    PROVE  NearInv'
<1>. DEFINE k == Len(node)
<1>0. /\ TypeOK /\ k \in Nat /\ current_parent \in 1 .. k
      /\ DOMAIN depth = 1 .. k /\ DOMAIN parent = 1 .. k
      /\ \A n \in 1 .. k : parent[n] \in Nat
    BY Arrays DEF TreeInv
<1>1. /\ DOMAIN parent' = 1 .. k + 1 /\ Fresh' = k + 1
      /\ \A n \in 1 .. k : parent'[n] = parent[n] /\ depth'[n] = depth[n]
      /\ parent'[k + 1] = 0 /\ depth'[k + 1] = Current.depth
    BY <1>0, CreateNodeArrays DEF NULL
<1>2. DOMAIN depth' = 1 .. k + 1
    BY <1>0, CreateNodeArrays, LenProperties
<1>3. NearestShallower'
    <2>. SUFFICES ASSUME Faultless, NEW n \in 1 .. k, parent'[n] # 0,
                         NEW m \in (parent'[n] + 1) .. (n - 1)
                  PROVE  depth'[m] >= depth'[n]
        BY <1>0, <1>1 DEF NearestShallower, Attached, NULL, Faultless
    <2>1. parent'[n] = parent[n] /\ parent[n] \in Nat
        BY <1>0, <1>1
    <2>2. m \in 1 .. k
        BY <1>0, <2>1
    <2>3. depth[m] >= depth[n]
        BY <1>0, <2>1
        DEF NearInv, NearestShallower, Attached, NULL, Faultless
    <2>. QED
        BY <1>1, <2>2, <2>3
<1>4. RightIsDeeper'
    <2>. SUFFICES ASSUME Faultless, NEW m \in 1 .. k, m > current_parent
                  PROVE  depth'[k + 1] <= depth'[m]
        BY <1>0, <1>1, <1>2 DEF RightIsDeeper, Faultless
    <2>1. Current.depth <= depth[m]
        BY <1>0 DEF NearInv, RightIsDeeper
    <2>. QED
        BY <1>1, <2>1
<1>. QED
    BY <1>3, <1>4 DEF NearInv

LEMMA NearInvClimb ==
    ASSUME TreeInv, NearInv, Climb
    PROVE  NearInv'
<1>. DEFINE k == Len(node)
            q == current_parent
<1>0. /\ TypeOK /\ k \in Nat /\ q \in 1 .. k /\ Fresh = k /\ k \in 1 .. k
      /\ DOMAIN depth = 1 .. k /\ DOMAIN parent = 1 .. k
      /\ \A n \in 1 .. k : parent[n] \in Nat /\ depth[n] \in Nat
    BY Arrays DEF TreeInv
<1>1. /\ UNCHANGED << parent, depth, node, pc, dropped, faults >>
      /\ pc = "climb" /\ Attached(q) /\ depth[k] <= depth[q]
      /\ current_parent' = parent[q]
    BY <1>0 DEF Climb, MustClimb, Attached, tree
<1>2. NearestShallower'
    BY <1>1 DEF NearInv, NearestShallower, Attached
<1>3. ASSUME Faultless, NEW m \in 1 .. k, m > parent[q], m # k
      PROVE  depth[k] <= depth[m]
    <2>1. CASE m > q
        BY <1>0, <1>1, <1>3, <2>1 DEF NearInv, RightIsDeeper
    <2>2. CASE m = q
        BY <1>1, <2>2
    <2>3. CASE m < q
        <3>1. m \in (parent[q] + 1) .. (q - 1)
            BY <1>0, <1>3, <2>3
        <3>2. depth[m] >= depth[q]
            BY <1>0, <1>1, <1>3, <3>1 DEF NearInv, NearestShallower, Faultless
        <3>. QED
            BY <1>0, <1>1, <3>2
    <2>. QED
        BY <1>0, <2>1, <2>2, <2>3
<1>4. Fresh' = k
    BY <1>0, <1>1 DEF Fresh
<1>5. RightIsDeeper'
    BY <1>0, <1>1, <1>3, <1>4 DEF RightIsDeeper, Faultless
<1>. QED
    BY <1>2, <1>5 DEF NearInv

LEMMA NearInvAttach ==
    ASSUME TreeInv, NearInv, InList, pc = "climb", Descend,
           Attach(current_parent, Fresh),
           UNCHANGED << node, depth, tokens, current_token, dropped, faults >>
    PROVE  NearInv'
<1>. DEFINE k == Len(node)
            q == current_parent
<1>0. /\ TypeOK /\ k \in Nat /\ q \in 1 .. k /\ Fresh = k /\ k \in 1 .. k
      /\ DOMAIN depth = 1 .. k /\ DOMAIN parent = 1 .. k
      /\ \A n \in 1 .. k : parent[n] \in Nat /\ depth[n] \in Nat
    BY Arrays DEF TreeInv
<1>1. /\ DOMAIN parent' = 1 .. k
      /\ \A n \in 1 .. k : parent'[n] = IF n = k THEN q ELSE parent[n]
    BY <1>0 DEF Attach
<1>2. q < k
    BY <1>0 DEF TreeInv, OlderThanFresh
<1>3. ASSUME Faultless, NEW m \in 1 .. k, m > q
      PROVE  depth[k] <= depth[m]
    <2>1. CASE m = k
        BY <1>0, <2>1
    <2>2. CASE m # k
        BY <1>0, <1>3, <2>2 DEF NearInv, RightIsDeeper
    <2>. QED
        BY <2>1, <2>2
<1>4. NearestShallower'
    <2>. SUFFICES ASSUME Faultless, NEW n \in 1 .. k, parent'[n] # 0,
                         NEW m \in (parent'[n] + 1) .. (n - 1)
                  PROVE  depth[m] >= depth[n]
        BY <1>0, <1>1 DEF NearestShallower, Attached, NULL, Faultless
    <2>1. CASE n = k
        <3>1. m \in 1 .. k /\ m > q
            BY <1>0, <1>1, <2>1
        <3>2. depth[k] <= depth[m] /\ depth[m] \in Nat /\ depth[k] \in Nat
            BY <1>0, <1>3, <3>1
        <3>. QED
            BY <2>1, <3>2
    <2>2. CASE n # k
        <3>1. parent'[n] = parent[n]
            BY <1>1, <2>2
        <3>. QED
            BY <1>0, <3>1
            DEF NearInv, NearestShallower, Attached, NULL, Faultless
    <2>. QED
        BY <2>1, <2>2
<1>5. /\ Current' = Current /\ Current.depth \in Nat /\ pc' = "parse"
      /\ HasCurrent
    BY <1>0, Counters DEF Current, Position, Token, Descend, InList
<1>6. RightIsDeeper'
    <2>. SUFFICES ASSUME Faultless, NEW m \in 1 .. k, m > current_parent'
                  PROVE  Current.depth <= depth[m]
        BY <1>0, <1>5 DEF RightIsDeeper, Faultless
    <2>1. CASE Current.depth > depth[k]
        BY <1>0, <1>5, <2>1 DEF Descend
    <2>2. CASE ~ (Current.depth > depth[k])
        <3>1. current_parent' = q
            BY <1>0, <2>2 DEF Descend
        <3>2. depth[k] <= depth[m]
            BY <1>3, <3>1
        <3>. QED
            BY <1>0, <1>5, <2>2, <3>2
    <2>. QED
        BY <2>1, <2>2
<1>. QED
    BY <1>4, <1>6 DEF NearInv

LEMMA NearInvStep ==
    ASSUME TreeInv, TypeOK', NoOverflow', InList, NearInv, [Next]_vars
    PROVE  NearInv'
<1>0. TypeOK /\ faults \in Nat /\ HasCurrent /\ Position \in DOMAIN tokens
    <2>1. TypeOK /\ HasCurrent
        BY DEF TreeInv, InList
    <2>2. faults \in Nat
        BY <2>1, Counters DEF TypeOK
    <2>. QED
        BY <2>1, <2>2, Counters
<1>f. Fault => ~ Faultless'
    BY <1>0 DEF Fault, Faultless
<1>v. ~ Faultless' => NearInv'
    BY DEF NearInv, NearestShallower, RightIsDeeper, Faultless
<1>1. CASE ParseTag \/ ParseStandalone
    BY <1>1, NearInvCreate DEF ParseTag, ParseStandalone, At
<1>2. CASE ParseStray
    <2>1. Position \in dropped'
        BY <1>0, <1>2 DEF ParseStray
    <2>. QED
        BY <1>v, <2>1 DEF Faultless
<1>3. CASE \/ CreateFails \/ MergeClassFails \/ MergeFirstClassFails
           \/ MergeAttributesFails \/ AddChildFails
    BY <1>3, <1>f, <1>v
    DEF CreateFails, MergeClassFails, MergeFirstClassFails,
        MergeAttributesFails, AddChildFails
<1>4. CASE ReachEof \/ EndMerge
    BY <1>4, NearInvUnmoved DEF ReachEof, EndMerge, tree, Faultless
<1>5. CASE RunPastEnd
    BY <1>0, <1>5 DEF RunPastEnd
<1>6. CASE MergeId \/ MergeClass \/ MergeAttributes \/ MergeText
    <2>1. /\ UNCHANGED << parent, depth, current_parent, faults, pc >>
          /\ pc = "merge"
        BY <1>6 DEF MergeId, MergeClass, MergeAttributes, MergeText, Merge
    <2>2. dropped' = {} => dropped = {}
        BY <1>6 DEF MergeId, MergeClass, MergeAttributes, MergeText
    <2>3. Len(node') = Len(node)
        BY <1>0, <2>1 DEF TypeOK
    <2>. QED
        BY <2>1, <2>2, <2>3, NearInvUnmoved DEF Faultless
<1>7. CASE Climb
    BY <1>7, NearInvClimb
<1>8. CASE AddChild \/ AddChildGrow
    BY <1>8, NearInvAttach DEF AddChild, AddChildGrow
<1>9. CASE AddChildOutOfBounds
    <2>1. ~ Faultless'
        BY <1>9 DEF AddChildOutOfBounds, NoOverflow, Faultless
    <2>. QED
        BY <1>v, <2>1
<1>10. CASE UNCHANGED vars
    BY <1>10
    DEF vars, tree, NearInv, NearestShallower, RightIsDeeper, Faultless,
        Attached, Fresh, Current, Position
<1>. QED
    BY <1>1, <1>2, <1>3, <1>4, <1>5, <1>6, <1>7, <1>8, <1>9, <1>10
    DEF Next, Stopped

LEMMA NearInvBegin == Begin => NearInv
<1>. SUFFICES ASSUME Begin PROVE NearInv
    OBVIOUS
<1>1. /\ DOMAIN depth = {1} /\ DOMAIN parent = {1} /\ parent[1] = 0
      /\ current_parent = 1
    BY DEF Begin, Root, NULL
<1>. QED
    BY <1>1 DEF NearInv, NearestShallower, RightIsDeeper, Attached, NULL

LEMMA NearInvAlways ==
    ASSUME ListsEndWithEof
    PROVE  Spec => []NearInv
<1>1. Init => NearInv
    BY InitBegins, NearInvBegin
<1>2. /\ TreeInv /\ TypeOK' /\ NoOverflow' /\ InList /\ NearInv /\ [Next]_vars
      => NearInv'
    BY NearInvStep
<1>. QED
    BY <1>1, <1>2, TreeInvariant, TypeCorrect, NeverOverflows, InListAlways,
       PTL DEF Spec

(***************************************************************************)
(* Indentation means what it says: for every list that ends with EOF, as   *)
(* long as no token is dropped and no allocation fails, every node hangs   *)
(* below the nearest earlier node that is shallower.                       *)
(***************************************************************************)
THEOREM IndentationDecides ==
    ASSUME ListsEndWithEof
    PROVE  Spec => []NearestShallower
<1>1. NearInv => NearestShallower
    BY DEF NearInv
<1>. QED
    BY <1>1, NearInvAlways, PTL

(***************************************************************************)
(* PugParser implements PugOutline.                                        *)
(***************************************************************************)

(* The outline the parser has built so far. *)
OutlineParent == IF pc \in {"merge", "climb"}
                 THEN SubSeq(parent, 1, Len(parent) - 1) ELSE parent
OutlineDepth == IF pc \in {"merge", "climb"}
                THEN SubSeq(depth, 1, Len(depth) - 1) ELSE depth

LEMMA AppendThenDrop ==
    ASSUME NEW S, NEW s \in Seq(S), NEW e \in S
    PROVE  SubSeq(Append(s, e), 1, Len(Append(s, e)) - 1) = s
OBVIOUS

LEMMA DropThenAppend ==
    ASSUME NEW S, NEW s \in Seq(S), NEW k \in Nat, Len(s) = k, k >= 1
    PROVE  /\ SubSeq(s, 1, k - 1) \in Seq(S)
           /\ Len(SubSeq(s, 1, k - 1)) = k - 1
           /\ \A i \in 1 .. k - 1 : SubSeq(s, 1, k - 1)[i] = s[i]
           /\ s = Append(SubSeq(s, 1, k - 1), s[k])
OBVIOUS

LEMMA OutlineStutters ==
    ASSUME OutlineParent' = OutlineParent, OutlineDepth' = OutlineDepth,
           (dropped = {})' = (dropped = {}) \/ dropped' # {}
    PROVE  [Outline!Next]_(Outline!outline)
<1>1. CASE (dropped = {})' = (dropped = {})
    BY <1>1 DEF Outline!outline, OutlineParent, OutlineDepth
<1>2. CASE dropped' # {}
    BY <1>2 DEF Outline!Next, Outline!Skip, OutlineParent, OutlineDepth
<1>. QED
    BY <1>1, <1>2

LEMMA OutlineGrows ==
    ASSUME TreeInv, ParentsAreShallower, NearInv, InList, faults = 0,
           pc = "climb", ~ MustClimb, pc' = "parse",
           Attach(current_parent, Fresh), UNCHANGED << depth, dropped >>
    PROVE  [Outline!Next]_(Outline!outline)
<1>. DEFINE k == Len(node)
            q == current_parent
            P == SubSeq(parent, 1, k - 1)
            D == SubSeq(depth, 1, k - 1)
<1>0. /\ TypeOK /\ k \in Nat /\ q \in 1 .. k /\ Fresh = k /\ k \in 1 .. k
      /\ DOMAIN depth = 1 .. k /\ DOMAIN parent = 1 .. k
      /\ \A n \in 1 .. k : parent[n] \in Nat /\ depth[n] \in Nat
    BY Arrays DEF TreeInv
<1>1. /\ parent \in Seq(Nat) /\ Len(parent) = k /\ k >= 1
      /\ depth \in Seq(Nat) /\ Len(depth) = k
    BY <1>0 DEF TypeOK
<1>k. k \in Nat /\ Len(parent) = k /\ Len(depth) = k /\ k >= 1
    BY <1>0, <1>1
<1>2. /\ P \in Seq(Nat) /\ Len(P) = k - 1 /\ DOMAIN P = 1 .. k - 1
      /\ \A n \in 1 .. k - 1 : P[n] = parent[n]
      /\ parent' = Append(P, q)
    <2>1. parent' = [parent EXCEPT ![k] = q] /\ q \in Nat
        BY <1>0 DEF Attach
    <2>2. /\ P \in Seq(Nat) /\ Len(P) = k - 1
          /\ \A n \in 1 .. k - 1 : P[n] = parent[n]
        BY <1>1, <1>k, DropThenAppend
    <2>3. DOMAIN P = 1 .. k - 1
        BY <2>2, LenProperties
    <2>4. parent' \in Seq(Nat) /\ Len(parent') = k
        BY <1>0, AttachType
    <2>5. /\ Append(P, q) \in Seq(Nat) /\ Len(Append(P, q)) = k
          /\ \A n \in 1 .. k - 1 : Append(P, q)[n] = P[n]
          /\ Append(P, q)[k] = q
        BY <1>k, <2>1, <2>2, AppendEntry
    <2>6. \A n \in 1 .. k : parent'[n] = IF n = k THEN q ELSE parent[n]
        BY <1>0, <2>1
    <2>7. \A n \in 1 .. k : parent'[n] = Append(P, q)[n]
        BY <1>k, <2>2, <2>5, <2>6
    <2>8. parent' = Append(P, q)
        BY <2>4, <2>5, <2>7, SeqEqual
    <2>. QED
        BY <2>2, <2>3, <2>8
<1>3. /\ D \in Seq(Nat) /\ \A n \in 1 .. k - 1 : D[n] = depth[n]
      /\ depth' = Append(D, depth[k])
    <2>1. /\ D \in Seq(Nat) /\ \A n \in 1 .. k - 1 : D[n] = depth[n]
          /\ depth = Append(D, depth[k])
        BY <1>1, <1>k, DropThenAppend
    <2>. QED
        BY <2>1
<1>4. /\ OutlineParent = P /\ OutlineDepth = D
      /\ OutlineParent' = Append(P, q) /\ OutlineDepth' = Append(D, depth[k])
    BY <1>1, <1>2, <1>3 DEF OutlineParent, OutlineDepth
<1>5. q \in 1 .. k - 1
    BY <1>0 DEF TreeInv, OlderThanFresh
<1>6. depth[k] \in 0 .. (UIntMax - 1)
    <2>1. k # Root
        BY <1>0, <1>5 DEF Root
    <2>. QED
        BY <1>0, <2>1, Counters DEF InList
<1>7. Finished = 1 .. k - 1
    BY <1>0, FinishedNodes
<1>8. \A m \in 1 .. k - 1 : m > q => P[m] >= q
    <2>. SUFFICES ASSUME NEW m \in 1 .. k - 1, m > q
                  PROVE  parent[m] >= q
        BY <1>2
    <2>1. m \in Finished \ {Root} /\ m \in DOMAIN parent
        BY <1>0, <1>7 DEF Root
    <2>2. Attached(m)
        BY <2>1 DEF ParentsAreShallower
    <2>. QED
        BY <2>1, <2>2 DEF TreeInv, RightIsClosed
<1>9. q = 1 \/ D[q] < depth[k]
    <2>1. parent[q] = NULL => q = Root
        BY <1>5, <1>7 DEF ParentsAreShallower, Attached
    <2>2. q = Root \/ depth[q] < depth[k]
        BY <1>0, <2>1 DEF MustClimb
    <2>. QED
        BY <1>3, <1>5, <2>2 DEF Root
<1>10. dropped = {} => \A m \in 1 .. k - 1 : m > q => D[m] >= depth[k]
    <2>. SUFFICES ASSUME dropped = {}, NEW m \in 1 .. k - 1, m > q
                  PROVE  depth[m] >= depth[k]
        BY <1>3
    <2>1. m \in DOMAIN depth /\ m # Fresh
        BY <1>0
    <2>2. depth[k] <= depth[m]
        BY <1>0, <2>1 DEF NearInv, RightIsDeeper, Faultless
    <2>. QED
        BY <1>0, <2>1, <2>2
<1>11. Outline!AddNode(depth[k])
    BY <1>2, <1>4, <1>5, <1>8, <1>9, <1>10
    DEF Outline!AddNode, Outline!Open, Outline!Shallower, Outline!Nearest,
        Outline!Root, OutlineParent, OutlineDepth
<1>. QED
    BY <1>6, <1>11 DEF Outline!Next

LEMMA OutlineStep ==
    ASSUME MaxFaults = 0, TreeInv, TypeOK', ParentsAreShallower, NoOverflow',
           InList, NearInv, [Next]_vars
    PROVE  [Outline!Next]_(Outline!outline)
<1>0. /\ TypeOK /\ faults = 0 /\ faults' = 0
      /\ parent \in Seq(Nat) /\ depth \in Seq(Nat)
    <2>1. TypeOK
        BY DEF TreeInv
    <2>2. parent \in Seq(Nat) /\ depth \in Seq(Nat) /\ faults \in 0 .. MaxFaults
        BY <2>1 DEF TypeOK
    <2>3. faults' \in 0 .. MaxFaults
        BY DEF TypeOK
    <2>. QED
        BY <2>1, <2>2, <2>3
<1>f. ~ Fault
    BY <1>0 DEF Fault
<1>1. CASE ParseTag \/ ParseStandalone
    <2>1. /\ HasCurrent /\ CreateNode /\ UNCHANGED dropped
          /\ pc = "parse" /\ pc' \in {"merge", "climb"}
        BY <1>1 DEF ParseTag, ParseStandalone, At
    <2>2. Current.depth \in Nat
        BY <1>0, <2>1, Counters DEF Token
    <2>3. OutlineParent' = OutlineParent
        BY <1>0, <2>1, AppendThenDrop DEF OutlineParent, CreateNode, NULL
    <2>4. OutlineDepth' = OutlineDepth
        BY <1>0, <2>1, <2>2, AppendThenDrop DEF OutlineDepth, CreateNode
    <2>. QED
        BY <2>1, <2>3, <2>4, OutlineStutters
<1>2. CASE ParseStray
    <2>1. /\ UNCHANGED << parent, depth >> /\ Position \in dropped'
          /\ pc = "parse" /\ pc' \in {"parse", "done"}
        <3>1. Position \in DOMAIN tokens
            BY <1>0, Counters DEF InList
        <3>. QED
            BY <1>2, <3>1 DEF ParseStray, tree
    <2>. QED
        BY <2>1, OutlineStutters DEF OutlineParent, OutlineDepth
<1>3. CASE \/ CreateFails \/ MergeClassFails \/ MergeFirstClassFails
           \/ MergeAttributesFails \/ AddChildFails
    BY <1>3, <1>f
    DEF CreateFails, MergeClassFails, MergeFirstClassFails,
        MergeAttributesFails, AddChildFails
<1>4. CASE ReachEof \/ RunPastEnd \/ EndMerge \/ Climb
    <2>1. /\ UNCHANGED << parent, depth, dropped >>
          /\ pc \in {"merge", "climb"} <=> pc' \in {"merge", "climb"}
        BY <1>4 DEF ReachEof, RunPastEnd, EndMerge, Climb, tree
    <2>. QED
        BY <2>1, OutlineStutters DEF OutlineParent, OutlineDepth
<1>5. CASE MergeId \/ MergeClass \/ MergeAttributes \/ MergeText
    <2>1. UNCHANGED << parent, depth, pc >>
        BY <1>5 DEF MergeId, MergeClass, MergeAttributes, MergeText, Merge
    <2>2. dropped' = dropped \/ dropped' # {}
        BY <1>5 DEF MergeId, MergeClass, MergeAttributes, MergeText
    <2>. QED
        BY <2>1, <2>2, OutlineStutters DEF OutlineParent, OutlineDepth
<1>6. CASE AddChild \/ AddChildGrow
    BY <1>0, <1>6, OutlineGrows DEF AddChild, AddChildGrow, Descend
<1>7. CASE AddChildOutOfBounds
    BY <1>0, <1>7 DEF AddChildOutOfBounds, NoOverflow
<1>8. CASE UNCHANGED vars
    BY <1>8, OutlineStutters DEF vars, tree, OutlineParent, OutlineDepth
<1>. QED
    BY <1>1, <1>2, <1>3, <1>4, <1>5, <1>6, <1>7, <1>8 DEF Next, Stopped

(***************************************************************************)
(* Without allocation failures parse_pug, given any list that ends with    *)
(* EOF, grows its tree step by step like an outline.                       *)
(***************************************************************************)
THEOREM ImplementsOutline ==
    ASSUME ListsEndWithEof, MaxFaults = 0
    PROVE  Spec => GrowsLikeOutline
<1>1. Init => Outline!Init
    BY DEF Init, Outline!Init, NULL
<1>2. /\ TreeInv /\ TypeOK' /\ ParentsAreShallower /\ NoOverflow' /\ InList
      /\ NearInv /\ [Next]_vars
      => [Outline!Next]_(Outline!outline)
    BY OutlineStep
<1>. QED
    BY <1>1, <1>2, TreeInvariant, TypeCorrect, NeverOverflows, ShallowParents,
       InListAlways, NearInvAlways, PTL DEF Spec, GrowsLikeOutline, Outline!Spec

-----------------------------------------------------------------------------
(***************************************************************************)
(* Theorems about the tokens PugParser reads: none is lost or used twice,  *)
(* and a node takes only what is its own.  For every set of token lists    *)
(* that end with EOF, whatever allocations fail.                           *)
(***************************************************************************)

(* parse_pug is finished only at an EOF token, for any list.                *)
StopsAtEof == pc = "done" => HasCurrent /\ Current.type = "EOF"

LEMMA StopsAtEofStep ==
    StopsAtEof /\ [Next]_vars => StopsAtEof'
<1> SUFFICES ASSUME StopsAtEof, [Next]_vars, pc' = "done"
             PROVE  (HasCurrent /\ Current.type = "EOF")'
    BY DEF StopsAtEof
<1>1. CASE ParseTag \/ ParseStandalone \/ CreateFails \/ RunPastEnd
    BY <1>1 DEF ParseTag, ParseStandalone, CreateFails, RunPastEnd
<1>2. CASE ParseStray
    <2>1. AtEof(Advance(current_token)) /\ current_token' = Advance(current_token)
        BY <1>2 DEF ParseStray
    <2>2. tokens' = tokens
        BY <1>2 DEF ParseStray
    <2> QED
        BY <2>1, <2>2 DEF AtEof, HasCurrent, Current, Position
<1>3. CASE ReachEof
    BY <1>3 DEF ReachEof, AtEof, HasCurrent, Current, Position
<1>4. CASE \/ MergeId \/ MergeClass \/ MergeClassFails \/ MergeFirstClassFails
           \/ MergeAttributes \/ MergeAttributesFails \/ MergeText \/ EndMerge
    BY <1>4 DEF MergeId, MergeClass, MergeClassFails, MergeFirstClassFails,
        MergeAttributes, MergeAttributesFails, MergeText, EndMerge, Merge
<1>5. CASE Climb \/ AddChild \/ AddChildGrow \/ AddChildFails \/ AddChildOutOfBounds
    BY <1>5 DEF Climb, AddChild, AddChildGrow, AddChildFails, AddChildOutOfBounds,
        Descend
<1>6. CASE UNCHANGED vars
    BY <1>6 DEF StopsAtEof, vars, HasCurrent, Current, Position
<1> QED
    BY <1>1, <1>2, <1>3, <1>4, <1>5, <1>6 DEF Next, Stopped

-----------------------------------------------------------------------------
(* What a node holds, and what of it is not its id.                        *)
Rest(r) == ({r.tok} \ {NULL}) \cup Positions(r.classes)
               \cup Positions(r.attributes) \cup Positions(r.text)
HeldBy(r) == ({r.id} \ {NULL}) \cup Rest(r)

Used == UNION { HeldBy(node[n]) : n \in DOMAIN node }

(* Every token up to the counter is held, dropped or leaked, and only once;*)
(* the id of a node, the only field that is ever replaced, is in no other  *)
(* field of it.                                                            *)
Accounted ==
    /\ Used \cup dropped \cup leaked = 1 .. current_token
    /\ Used \cap dropped = {}
    /\ (Used \cup dropped) \cap leaked = {}
    /\ \A n, m \in DOMAIN node : n # m => HeldBy(node[n]) \cap HeldBy(node[m]) = {}

IdApart == \A n \in DOMAIN node : node[n].id \notin Rest(node[n])

OwnTokens ==
    \A n \in DOMAIN node :
        /\ n = Root => HeldBy(node[n]) = {}
        /\ \A i \in HeldBy(node[n]) :
              /\ tokens[i].depth = depth[n]
              /\ i >= node[n].tok
              /\ n < Fresh => i < node[n + 1].tok

TokenInv == Accounted /\ IdApart /\ OwnTokens

LEMMA HeldIsHeldBy == \A n : Held(n) = HeldBy(node[n])
BY DEF Held, HeldBy, Rest

LEMMA TokenInvSays ==
    ASSUME TokenInv, TypeOK
    PROVE  TokensAccounted /\ MergesOwnTokens
<1>1. \A n : Held(n) = HeldBy(node[n])
    BY HeldIsHeldBy
<1>2. UNION { Held(n) : n \in DOMAIN node } = Used
    BY <1>1 DEF Used
<1>3. TokensAccounted
    BY <1>1, <1>2 DEF TokenInv, Accounted, TokensAccounted
<1>4. MergesOwnTokens
    BY <1>1 DEF TokenInv, OwnTokens, MergesOwnTokens
<1> QED
    BY <1>3, <1>4

LEMMA PositionsAppend ==
    ASSUME NEW s \in Seq(Nat), NEW i \in Nat
    PROVE  Positions(Append(s, i)) = Positions(s) \cup {i}
<1> DEFINE t == Append(s, i)
<1>1. /\ Len(s) \in Nat /\ DOMAIN s = 1 .. Len(s)
      /\ DOMAIN t = 1 .. Len(s) + 1
      /\ \A k \in 1 .. Len(s) : t[k] = s[k]
      /\ t[Len(s) + 1] = i
    BY AppendEntry, LenProperties
<1> HIDE DEF t
<1>2. Positions(t) \subseteq Positions(s) \cup {i}
    BY <1>1 DEF Positions
<1>3. Positions(s) \cup {i} \subseteq Positions(t)
    BY <1>1 DEF Positions
<1> QED
    BY <1>2, <1>3 DEF t

(* Merging a token adds it to what the node holds; a new id replaces the   *)
(* one before.                                                             *)
LEMMA HeldByUpdates ==
    ASSUME NEW r \in Node, NEW i \in Nat \ {NULL}
    PROVE  /\ HeldBy([r EXCEPT !.classes = Append(@, i)]) = HeldBy(r) \cup {i}
           /\ Rest([r EXCEPT !.classes = Append(@, i)]) = Rest(r) \cup {i}
           /\ HeldBy([r EXCEPT !.attributes = Append(@, i)]) = HeldBy(r) \cup {i}
           /\ Rest([r EXCEPT !.attributes = Append(@, i)]) = Rest(r) \cup {i}
           /\ HeldBy([r EXCEPT !.text = Append(@, i), !.is_inline = TRUE])
                  = HeldBy(r) \cup {i}
           /\ Rest([r EXCEPT !.text = Append(@, i), !.is_inline = TRUE])
                  = Rest(r) \cup {i}
           /\ HeldBy([r EXCEPT !.id = i]) = Rest(r) \cup {i}
           /\ Rest([r EXCEPT !.id = i]) = Rest(r)
<1>1. /\ Positions(Append(r.classes, i)) = Positions(r.classes) \cup {i}
      /\ Positions(Append(r.attributes, i)) = Positions(r.attributes) \cup {i}
      /\ Positions(Append(r.text, i)) = Positions(r.text) \cup {i}
    BY NodeFields, PositionsAppend
<1>2. \A x : LET q == [r EXCEPT !.classes = x]
             IN  q.tok = r.tok /\ q.id = r.id /\ q.classes = x
                    /\ q.attributes = r.attributes /\ q.text = r.text
    BY DEF Node
<1>3. \A x : LET q == [r EXCEPT !.attributes = x]
             IN  q.tok = r.tok /\ q.id = r.id /\ q.classes = r.classes
                    /\ q.attributes = x /\ q.text = r.text
    BY DEF Node
<1>4. \A x : LET q == [r EXCEPT !.text = x, !.is_inline = TRUE]
             IN  q.tok = r.tok /\ q.id = r.id /\ q.classes = r.classes
                    /\ q.attributes = r.attributes /\ q.text = x
    BY DEF Node
<1>5. LET q == [r EXCEPT !.id = i]
      IN  q.tok = r.tok /\ q.id = i /\ q.classes = r.classes
             /\ q.attributes = r.attributes /\ q.text = r.text
    BY DEF Node
<1>6. Rest([r EXCEPT !.classes = Append(@, i)]) = Rest(r) \cup {i}
    BY <1>1, <1>2 DEF Rest
<1>7. Rest([r EXCEPT !.attributes = Append(@, i)]) = Rest(r) \cup {i}
    BY <1>1, <1>3 DEF Rest
<1>8. Rest([r EXCEPT !.text = Append(@, i), !.is_inline = TRUE]) = Rest(r) \cup {i}
    BY <1>1, <1>4 DEF Rest
<1>9. Rest([r EXCEPT !.id = i]) = Rest(r)
    BY <1>5 DEF Rest
<1>10. HeldBy([r EXCEPT !.classes = Append(@, i)]) = HeldBy(r) \cup {i}
    BY <1>2, <1>6 DEF HeldBy
<1>11. HeldBy([r EXCEPT !.attributes = Append(@, i)]) = HeldBy(r) \cup {i}
    BY <1>3, <1>7 DEF HeldBy
<1>12. HeldBy([r EXCEPT !.text = Append(@, i), !.is_inline = TRUE]) = HeldBy(r) \cup {i}
    BY <1>4, <1>8 DEF HeldBy
<1>13. HeldBy([r EXCEPT !.id = i]) = Rest(r) \cup {i}
    BY <1>5, <1>9 DEF HeldBy, NULL
<1> QED
    BY <1>6, <1>7, <1>8, <1>9, <1>10, <1>11, <1>12, <1>13

-----------------------------------------------------------------------------
(* One token is passed: it is taken by the node in hand (T), dropped (D),  *)
(* or leaked (L); the node may give up what it held (R), which then leaks. *)
TokenPassed(T, D, L, R) ==
    /\ T \cup D \cup L = {Position}
    /\ T \cap D = {} /\ T \cap L = {} /\ D \cap L = {}
    /\ R \subseteq HeldBy(node[Fresh])
    /\ tokens' = tokens /\ depth' = depth
    /\ current_token' = current_token + 1
    /\ Len(node') = Len(node) /\ DOMAIN node' = DOMAIN node
    /\ \A n \in DOMAIN node : n # Fresh => node'[n] = node[n]
    /\ HeldBy(node'[Fresh]) = (HeldBy(node[Fresh]) \ R) \cup T
    /\ node'[Fresh].tok = node[Fresh].tok
    /\ node'[Fresh].id \notin Rest(node'[Fresh])
    /\ T # {} => Current.depth = depth[Fresh] /\ Fresh # Root
    /\ dropped' = dropped \cup D
    /\ leaked' = leaked \cup L \cup R

LEMMA PassedAccounted ==
    ASSUME TypeOK, TokenInv, NEW T, NEW D, NEW L, NEW R, TokenPassed(T, D, L, R)
    PROVE  Accounted'
<1>1. /\ Fresh \in DOMAIN node /\ DOMAIN node' = DOMAIN node
      /\ current_token \in Nat /\ Position = current_token + 1
      /\ current_token' = current_token + 1
    BY Arrays, Counters DEF TokenPassed, Position
<1>2. \A n \in DOMAIN node : n # Fresh => HeldBy(node'[n]) = HeldBy(node[n])
    BY DEF TokenPassed
<1>3. HeldBy(node'[Fresh]) = (HeldBy(node[Fresh]) \ R) \cup T
    BY DEF TokenPassed
<1>4. /\ Used \cup dropped \cup leaked = 1 .. current_token
      /\ Used \cap dropped = {}
      /\ (Used \cup dropped) \cap leaked = {}
      /\ \A n, m \in DOMAIN node : n # m => HeldBy(node[n]) \cap HeldBy(node[m]) = {}
    BY DEF TokenInv, Accounted
<1>5. /\ T \cup D \cup L = {Position} /\ R \subseteq HeldBy(node[Fresh])
      /\ T \cap D = {} /\ T \cap L = {} /\ D \cap L = {}
      /\ dropped' = dropped \cup D /\ leaked' = leaked \cup L \cup R
    BY DEF TokenPassed
<1>6. \A n \in DOMAIN node : HeldBy(node[n]) \subseteq Used
    BY DEF Used
<1>7. R \subseteq Used
    BY <1>1, <1>5, <1>6
<1>8. Used' = (Used \ R) \cup T
    <2>1. Used' = UNION { HeldBy(node'[n]) : n \in DOMAIN node }
        BY <1>1 DEF Used
    <2>2. ASSUME NEW i \in Used' PROVE i \in (Used \ R) \cup T
        <3>1. PICK n \in DOMAIN node : i \in HeldBy(node'[n])
            BY <2>1, <2>2
        <3>2. CASE n = Fresh
            BY <1>3, <1>6, <3>1, <3>2
        <3>3. CASE n # Fresh
            <4>1. i \in HeldBy(node[n])
                BY <1>2, <3>1, <3>3
            <4>2. i \notin R
                BY <1>1, <1>4, <1>5, <3>3, <4>1
            <4> QED
                BY <1>6, <4>1, <4>2
        <3> QED
            BY <3>2, <3>3
    <2>3. ASSUME NEW i \in (Used \ R) \cup T PROVE i \in Used'
        <3>1. CASE i \in T
            BY <1>1, <1>3, <2>1, <3>1
        <3>2. CASE i \in Used \ R
            <4>1. PICK n \in DOMAIN node : i \in HeldBy(node[n])
                BY <3>2 DEF Used
            <4>2. i \in HeldBy(node'[n])
                BY <1>2, <1>3, <3>2, <4>1
            <4> QED
                BY <2>1, <4>1, <4>2
        <3> QED
            BY <2>3, <3>1, <3>2
    <2> QED
        BY <2>2, <2>3
<1>9. Position \notin Used /\ Position \notin dropped /\ Position \notin leaked
    BY <1>1, <1>4
<1>10. 1 .. current_token + 1 = (1 .. current_token) \cup {Position}
    BY <1>1
<1>11. Used' \cup dropped' \cup leaked' = 1 .. current_token'
    BY <1>1, <1>4, <1>5, <1>7, <1>8, <1>10
<1>12. /\ Used' \cap dropped' = {}
       /\ (Used' \cup dropped') \cap leaked' = {}
    BY <1>4, <1>5, <1>7, <1>8, <1>9
<1>13. \A n, m \in DOMAIN node' : n # m => HeldBy(node'[n]) \cap HeldBy(node'[m]) = {}
    <2> SUFFICES ASSUME NEW n \in DOMAIN node, NEW m \in DOMAIN node, n # m,
                        NEW i \in HeldBy(node'[n]), i \in HeldBy(node'[m])
                 PROVE  FALSE
        BY <1>1
    <2>1. T \subseteq {Position}
        BY <1>5
    <2>2. CASE n # Fresh /\ m # Fresh
        BY <1>2, <1>4, <2>2
    <2>3. CASE n = Fresh
        <3>1. i \in HeldBy(node[m]) /\ i # Position
            BY <1>2, <1>6, <1>9, <2>3
        <3>2. i \in HeldBy(node[n])
            BY <1>3, <2>1, <2>3, <3>1
        <3> QED
            BY <1>4, <3>1, <3>2
    <2>4. CASE m = Fresh
        <3>1. i \in HeldBy(node[n]) /\ i # Position
            BY <1>2, <1>6, <1>9, <2>4
        <3>2. i \in HeldBy(node[m])
            BY <1>3, <2>1, <2>4, <3>1
        <3> QED
            BY <1>4, <3>1, <3>2
    <2> QED
        BY <2>2, <2>3, <2>4
<1> QED
    BY <1>11, <1>12, <1>13 DEF Accounted

LEMMA PassedInv ==
    ASSUME TypeOK, TokenInv, NEW T, NEW D, NEW L, NEW R, TokenPassed(T, D, L, R)
    PROVE  TokenInv'
<1>1. /\ Fresh \in 1 .. Len(node) /\ Fresh = Len(node) /\ Len(node) \in Nat
      /\ DOMAIN node = 1 .. Len(node) /\ DOMAIN node' = DOMAIN node
      /\ Fresh' = Fresh
      /\ current_token \in Nat /\ Position = current_token + 1
    BY Arrays, Counters DEF TokenPassed, Position, Fresh
<1>2. \A n \in DOMAIN node : n # Fresh => node'[n] = node[n]
    BY DEF TokenPassed
<1>3. /\ HeldBy(node'[Fresh]) = (HeldBy(node[Fresh]) \ R) \cup T
      /\ node'[Fresh].tok = node[Fresh].tok
      /\ node'[Fresh].id \notin Rest(node'[Fresh])
      /\ T # {} => Current.depth = depth[Fresh] /\ Fresh # Root
      /\ T \subseteq {Position}
      /\ tokens' = tokens /\ depth' = depth
    BY DEF TokenPassed
<1>4. \A n \in DOMAIN node : node'[n].tok = node[n].tok
    BY <1>2, <1>3
<1>5. IdApart'
    BY <1>1, <1>2, <1>3 DEF TokenInv, IdApart
<1>6. node[Fresh].tok <= Position
    <2>1. node[Fresh].tok \in Nat
        BY <1>1, Arrays DEF Node
    <2>2. CASE node[Fresh].tok = NULL
        BY <1>1, <2>2 DEF NULL
    <2>3. CASE node[Fresh].tok # NULL
        <3>1. node[Fresh].tok \in HeldBy(node[Fresh])
            BY <2>3 DEF HeldBy, Rest
        <3>2. node[Fresh].tok \in 1 .. current_token
            BY <1>1, <3>1 DEF TokenInv, Accounted, Used
        <3> QED
            BY <1>1, <3>2
    <2> QED
        BY <2>2, <2>3
<1>7. OwnTokens'
    <2> SUFFICES ASSUME NEW n \in DOMAIN node
                 PROVE  /\ n = Root => HeldBy(node'[n]) = {}
                        /\ \A i \in HeldBy(node'[n]) :
                              /\ tokens[i].depth = depth[n]
                              /\ i >= node[n].tok
                              /\ n < Fresh => i < node'[n + 1].tok
        BY <1>1, <1>3, <1>4 DEF OwnTokens
    <2>1. /\ n = Root => HeldBy(node[n]) = {}
          /\ \A i \in HeldBy(node[n]) :
                /\ tokens[i].depth = depth[n]
                /\ i >= node[n].tok
                /\ n < Fresh => i < node[n + 1].tok
        BY DEF TokenInv, OwnTokens
    <2>2. n < Fresh => node'[n + 1].tok = node[n + 1].tok
        <3>1. n < Fresh => n + 1 \in DOMAIN node
            BY <1>1
        <3> QED
            BY <1>4, <3>1
    <2>3. CASE n # Fresh
        BY <1>2, <2>1, <2>2, <2>3
    <2>4. CASE n = Fresh
        <3>1. ~(n < Fresh)
            BY <1>1, <2>4
        <3>2. n = Root => HeldBy(node'[n]) = {}
            BY <1>3, <2>1, <2>4
        <3>3. ASSUME NEW i \in HeldBy(node'[n])
              PROVE  tokens[i].depth = depth[n] /\ i >= node[n].tok
            <4>1. CASE i \in HeldBy(node[n])
                BY <2>1, <4>1
            <4>2. CASE i \notin HeldBy(node[n])
                <5>1. i = Position /\ T # {}
                    BY <1>3, <2>4, <3>3, <4>2
                <5> QED
                    BY <1>3, <1>6, <2>4, <5>1 DEF Current
            <4> QED
                BY <4>1, <4>2
        <3> QED
            BY <3>1, <3>2, <3>3
    <2> QED
        BY <2>3, <2>4
<1> QED
    BY <1>5, <1>7, PassedAccounted DEF TokenInv

(* Tokens are passed over and only dropped.                                *)
LEMMA DroppedInv ==
    ASSUME TypeOK, TokenInv, UNCHANGED << tokens, node, depth, leaked >>,
           current_token' \in Nat, current_token <= current_token',
           dropped' = dropped \cup (current_token + 1 .. current_token')
    PROVE  TokenInv'
<1>1. current_token \in Nat
    BY Counters
<1>2. /\ Used \cup dropped \cup leaked = 1 .. current_token
      /\ Used \cap dropped = {}
      /\ (Used \cup dropped) \cap leaked = {}
    BY DEF TokenInv, Accounted
<1>3. Used' = Used
    BY DEF Used
<1>4. 1 .. current_token' = (1 .. current_token) \cup (current_token + 1 .. current_token')
    BY <1>1
<1>5. (1 .. current_token) \cap (current_token + 1 .. current_token') = {}
    BY <1>1
<1>6. /\ Used' \cup dropped' \cup leaked' = 1 .. current_token'
      /\ Used' \cap dropped' = {}
      /\ (Used' \cup dropped') \cap leaked' = {}
    BY <1>2, <1>3, <1>4, <1>5
<1>7. \A n, m \in DOMAIN node' : n # m => HeldBy(node'[n]) \cap HeldBy(node'[m]) = {}
    BY DEF TokenInv, Accounted
<1>8. IdApart' /\ OwnTokens'
    BY DEF TokenInv, IdApart, OwnTokens, Fresh
<1> QED
    BY <1>6, <1>7, <1>8 DEF TokenInv, Accounted

(* A new node takes the token it is made of.                               *)
LEMMA CreatedHolds ==
    ASSUME TypeOK, HasCurrent
    PROVE  LET r == NewNode(Current.type)
           IN  /\ HeldBy(r) = {Position} /\ r.tok = Position /\ r.id \notin Rest(r)
<1> DEFINE r == NewNode(Current.type)
<1>1. Position \in Nat \ {NULL}
    BY Counters DEF NULL
<1>2. /\ r.tok = Position /\ r.id = NULL
      /\ r.classes = << >> /\ r.attributes = << >>
      /\ r.text \in { << >>, << Position >> }
    BY DEF NewNode
<1>3. Positions(<< >>) = {} /\ Positions(<< Position >>) = {Position}
    BY DEF Positions
<1>4. Rest(r) = {Position}
    BY <1>1, <1>2, <1>3 DEF Rest
<1> QED
    BY <1>1, <1>2, <1>4 DEF HeldBy

LEMMA CreatedInv ==
    ASSUME TypeOK, TokenInv, HasCurrent, CreateNode,
           UNCHANGED << tokens, dropped, leaked >>,
           current_token' = current_token + 1
    PROVE  TokenInv'
<1> DEFINE k == Len(node)
           r == NewNode(Current.type)
<1>1. /\ k \in Nat /\ k >= 1 /\ Fresh = k /\ DOMAIN node = 1 .. k
      /\ current_token \in Nat /\ Position = current_token + 1
    BY Arrays, Counters DEF Position
<1>2. /\ DOMAIN node' = 1 .. k + 1 /\ Fresh' = k + 1
      /\ \A n \in 1 .. k : node'[n] = node[n] /\ depth'[n] = depth[n]
      /\ node'[k + 1] = r /\ depth'[k + 1] = Current.depth
    BY CreateNodeArrays
<1>3. HeldBy(r) = {Position} /\ r.tok = Position /\ r.id \notin Rest(r)
    BY CreatedHolds
<1> HIDE DEF k, r
<1>4. /\ Used \cup dropped \cup leaked = 1 .. current_token
      /\ Used \cap dropped = {}
      /\ (Used \cup dropped) \cap leaked = {}
      /\ \A n, m \in 1 .. k : n # m => HeldBy(node[n]) \cap HeldBy(node[m]) = {}
    BY <1>1 DEF TokenInv, Accounted
<1>5. Used = UNION { HeldBy(node[n]) : n \in 1 .. k }
    BY <1>1 DEF Used
<1>6. Used' = UNION { HeldBy(node'[n]) : n \in 1 .. k + 1 }
    BY <1>2 DEF Used
<1>7. Used' = Used \cup {Position}
    <2>1. ASSUME NEW i \in Used' PROVE i \in Used \cup {Position}
        <3>1. PICK n \in 1 .. k + 1 : i \in HeldBy(node'[n])
            BY <1>6, <2>1
        <3>2. n \in 1 .. k \/ n = k + 1
            BY <1>1
        <3> QED
            BY <1>2, <1>3, <1>5, <3>1, <3>2
    <2>2. Used \subseteq Used'
        <3>1. \A n \in 1 .. k : n \in 1 .. k + 1
            BY <1>1
        <3> QED
            BY <1>2, <1>5, <1>6, <3>1
    <2>3. Position \in Used'
        <3>1. k + 1 \in 1 .. k + 1
            BY <1>1
        <3> QED
            BY <1>2, <1>3, <1>6, <3>1
    <2> QED
        BY <2>1, <2>2, <2>3
<1>8. Position \notin Used /\ Position \notin dropped /\ Position \notin leaked
    BY <1>1, <1>4
<1>9. 1 .. current_token + 1 = (1 .. current_token) \cup {Position}
    BY <1>1
<1>10. /\ Used' \cup dropped' \cup leaked' = 1 .. current_token'
       /\ Used' \cap dropped' = {}
       /\ (Used' \cup dropped') \cap leaked' = {}
    BY <1>4, <1>7, <1>8, <1>9
<1>11. \A n, m \in DOMAIN node' : n # m => HeldBy(node'[n]) \cap HeldBy(node'[m]) = {}
    <2> SUFFICES ASSUME NEW n \in 1 .. k + 1, NEW m \in 1 .. k + 1, n # m,
                        NEW i \in HeldBy(node'[n]), i \in HeldBy(node'[m])
                 PROVE  FALSE
        BY <1>2
    <2>1. \A j \in 1 .. k : HeldBy(node'[j]) = HeldBy(node[j]) /\ Position \notin HeldBy(node[j])
        BY <1>2, <1>5, <1>8
    <2>2. HeldBy(node'[k + 1]) = {Position}
        BY <1>2, <1>3
    <2>3. CASE n \in 1 .. k /\ m \in 1 .. k
        BY <1>4, <2>1, <2>3
    <2>4. CASE n = k + 1 /\ m \in 1 .. k
        BY <2>1, <2>2, <2>4
    <2>5. CASE n \in 1 .. k /\ m = k + 1
        BY <2>1, <2>2, <2>5
    <2> QED
        BY <1>1, <2>3, <2>4, <2>5
<1>12. IdApart'
    <2>1. \A n \in 1 .. k + 1 : n \in 1 .. k \/ n = k + 1
        BY <1>1
    <2> QED
        BY <1>1, <1>2, <1>3, <2>1 DEF TokenInv, IdApart
<1>13. OwnTokens'
    <2> SUFFICES ASSUME NEW n \in 1 .. k + 1
                 PROVE  /\ n = Root => HeldBy(node'[n]) = {}
                        /\ \A i \in HeldBy(node'[n]) :
                              /\ tokens[i].depth = depth'[n]
                              /\ i >= node'[n].tok
                              /\ n < k + 1 => i < node'[n + 1].tok
        BY <1>2 DEF OwnTokens
    <2>1. CASE n = k + 1
        BY <1>1, <1>2, <1>3, <2>1 DEF Root, Current
    <2>2. CASE n \in 1 .. k
        <3>1. /\ n = Root => HeldBy(node[n]) = {}
              /\ \A i \in HeldBy(node[n]) :
                    /\ tokens[i].depth = depth[n]
                    /\ i >= node[n].tok
                    /\ n < k => i < node[n + 1].tok
            BY <1>1, <2>2 DEF TokenInv, OwnTokens
        <3>2. ASSUME NEW i \in HeldBy(node[n]) PROVE i < node'[n + 1].tok
            <4>1. CASE n < k
                <5>1. n + 1 \in 1 .. k
                    BY <1>1, <2>2, <4>1
                <5> QED
                    BY <1>2, <3>1, <3>2, <4>1, <5>1
            <4>2. CASE n = k
                <5>1. i \in 1 .. current_token
                    BY <1>4, <1>5, <2>2, <3>2
                <5> QED
                    BY <1>1, <1>2, <1>3, <4>2, <5>1
            <4> QED
                BY <1>1, <2>2, <4>1, <4>2
        <3> QED
            BY <1>2, <2>2, <3>1, <3>2
    <2> QED
        BY <1>1, <2>1, <2>2
<1> QED
    BY <1>10, <1>11, <1>12, <1>13 DEF TokenInv, Accounted

-----------------------------------------------------------------------------
LEMMA TokenInvBegin == Begin => TokenInv
<1> SUFFICES ASSUME Begin PROVE TokenInv
    OBVIOUS
<1>1. DOMAIN node = {1} /\ node[1] = RootNode /\ Fresh = 1
    BY DEF Begin, Fresh
<1>2. Positions(<< >>) = {}
    BY DEF Positions
<1>3. Rest(RootNode) = {} /\ RootNode.id = NULL
    BY <1>2 DEF Rest, RootNode, NULL
<1>4. HeldBy(RootNode) = {}
    BY <1>3 DEF HeldBy
<1>5. Used = {}
    BY <1>1, <1>4 DEF Used
<1>6. current_token = 0 /\ dropped = {} /\ leaked = {}
    BY DEF Begin
<1>7. 1 .. 0 = {}
    OBVIOUS
<1>8. Accounted
    BY <1>1, <1>5, <1>6, <1>7 DEF Accounted
<1>9. IdApart /\ OwnTokens
    BY <1>1, <1>3, <1>4 DEF IdApart, OwnTokens
<1> QED
    BY <1>8, <1>9 DEF TokenInv

LEMMA TokenInvInit == Init => TokenInv
BY InitBegins, TokenInvBegin

(* What the branches of the merging loop know: there is a token that is not *)
(* EOF, it has the depth of the node in hand, and that is not the root.    *)
LEMMA MergeFacts ==
    ASSUME ListsEndWithEof, TreeInv, TokenInv, InList,
           NEW types \in SUBSET (Stray \cup RunType), Merge(types)
    PROVE  /\ current_token' = current_token + 1
           /\ current_token \in Nat
           /\ Position = current_token + 1
           /\ Current.depth = depth[Fresh] /\ Fresh # Root
           /\ Fresh \in DOMAIN node /\ node[Fresh] \in Node
           /\ node[Fresh].id \notin Rest(node[Fresh])
           /\ Position \notin HeldBy(node[Fresh])
           /\ Position # NULL
           /\ UNCHANGED << tokens, depth >>
<1>1. TypeOK
    BY DEF TreeInv
<1>2. current_token \in Nat /\ Position = current_token + 1 /\ HasCurrent
    BY <1>1, Counters DEF Position, InList
<1>3. Current.type # "EOF"
    BY NotEof DEF Merge, At, Stray, RunType
<1>4. current_token' = current_token + 1
    <2>1. tokens \in TokenLists /\ current_token < Len(tokens)
        BY <1>2 DEF InList, HasCurrent
    <2>2. Advance(current_token) = current_token + 1
        BY <1>1, <1>2, <1>3, <2>1, AdvanceInList DEF Current
    <2> QED
        BY <2>2 DEF Merge
<1>5. Fresh \in DOMAIN node /\ node[Fresh] \in Node
    BY <1>1, Arrays
<1>6. Fresh # Root
    <2>1. current_parent < Fresh
        BY DEF TreeInv, OlderThanFresh, Merge
    <2>2. current_parent \in 1 .. Len(node) /\ Fresh = Len(node) /\ Len(node) \in Nat
        BY <1>1, Arrays
    <2> QED
        BY <2>1, <2>2 DEF Root
<1>7. Position \notin HeldBy(node[Fresh])
    <2>1. HeldBy(node[Fresh]) \subseteq 1 .. current_token
        BY <1>5 DEF TokenInv, Accounted, Used
    <2> QED
        BY <1>2, <2>1
<1>8. Current.depth = depth[Fresh] /\ UNCHANGED << tokens, depth >>
    BY DEF Merge, Mergeable
<1> QED
    BY <1>2, <1>4, <1>5, <1>6, <1>7, <1>8 DEF TokenInv, IdApart, NULL

LEMMA MergeTakes ==
    ASSUME ListsEndWithEof, TreeInv, TokenInv, InList,
           NEW types \in SUBSET (Stray \cup RunType), Merge(types),
           NEW q, node' = [node EXCEPT ![Fresh] = q],
           HeldBy(q) = HeldBy(node[Fresh]) \cup {Position},
           Rest(q) = Rest(node[Fresh]) \cup {Position},
           q.id = node[Fresh].id, q.tok = node[Fresh].tok,
           UNCHANGED << dropped, leaked >>
    PROVE  TokenInv'
<1>1. /\ current_token' = current_token + 1
      /\ Current.depth = depth[Fresh] /\ Fresh # Root
      /\ Fresh \in DOMAIN node /\ node[Fresh].id \notin Rest(node[Fresh])
      /\ Position \notin HeldBy(node[Fresh]) /\ Position # NULL
      /\ UNCHANGED << tokens, depth >>
    BY MergeFacts
<1>2. node \in Seq(Node) /\ Len(node) \in Nat /\ DOMAIN node = 1 .. Len(node)
    BY Arrays DEF TreeInv, TypeOK
<1>3. /\ DOMAIN node' = DOMAIN node /\ node'[Fresh] = q
      /\ \A n \in DOMAIN node : n # Fresh => node'[n] = node[n]
    BY <1>1
<1>4. Len(node') = Len(node)
    BY <1>2, <1>3
<1>5. q.id \notin Rest(q)
    BY <1>1 DEF HeldBy
<1>6. TokenPassed({Position}, {}, {}, {})
    BY <1>1, <1>3, <1>4, <1>5 DEF TokenPassed
<1> QED
    BY <1>6, PassedInv DEF TreeInv

(* A second id drives out the first, which leaks.                          *)
LEMMA MergeIdInv ==
    ASSUME ListsEndWithEof, TreeInv, TokenInv, InList, MergeId
    PROVE  TokenInv'
<1> DEFINE r == node[Fresh]
           q == [r EXCEPT !.id = Position]
           R == {r.id} \ {NULL}
<1>0. Merge({"ID"}) /\ {"ID"} \in SUBSET (Stray \cup RunType)
    BY DEF MergeId, Stray
<1>1. /\ current_token' = current_token + 1
      /\ Current.depth = depth[Fresh] /\ Fresh # Root
      /\ Fresh \in DOMAIN node /\ r \in Node /\ r.id \notin Rest(r)
      /\ Position \notin HeldBy(r) /\ Position \in Nat \ {NULL}
      /\ UNCHANGED << tokens, depth >>
    <2>1. Position \in Nat
        BY Counters DEF TreeInv
    <2> QED
        BY <1>0, <2>1, MergeFacts
<1>2. node' = [node EXCEPT ![Fresh] = q] /\ leaked' = leaked \cup R /\ dropped' = dropped
    BY DEF MergeId
<1>3. HeldBy(q) = Rest(r) \cup {Position} /\ Rest(q) = Rest(r)
    BY <1>1, HeldByUpdates
<1>4. q.id = Position /\ q.tok = r.tok
    BY <1>1 DEF Node
<1> HIDE DEF q
<1>5. HeldBy(q) = (HeldBy(r) \ R) \cup {Position} /\ R \subseteq HeldBy(r)
    BY <1>1, <1>3 DEF HeldBy
<1>6. q.id \notin Rest(q)
    BY <1>1, <1>3, <1>4 DEF HeldBy
<1>7. node \in Seq(Node) /\ Len(node) \in Nat /\ DOMAIN node = 1 .. Len(node)
    BY Arrays DEF TreeInv, TypeOK
<1>8. /\ DOMAIN node' = DOMAIN node /\ node'[Fresh] = q
      /\ \A n \in DOMAIN node : n # Fresh => node'[n] = node[n]
    BY <1>1, <1>2
<1>9. Len(node') = Len(node)
    BY <1>7, <1>8
<1>10. TokenPassed({Position}, {}, {}, R)
    BY <1>1, <1>2, <1>4, <1>5, <1>6, <1>8, <1>9 DEF TokenPassed
<1> QED
    BY <1>10, PassedInv DEF TreeInv

(* The memory for an attribute is gone: its token is dropped or leaks.     *)
LEMMA MergeLosesInv ==
    ASSUME ListsEndWithEof, TreeInv, TokenInv, InList,
           NEW types \in SUBSET (Stray \cup RunType), Merge(types),
           UNCHANGED node,
           \/ dropped' = dropped \cup {Position} /\ UNCHANGED leaked
           \/ leaked' = leaked \cup {Position} /\ UNCHANGED dropped
    PROVE  TokenInv'
<1>1. /\ current_token' = current_token + 1
      /\ node[Fresh].id \notin Rest(node[Fresh])
      /\ UNCHANGED << tokens, depth >>
    BY MergeFacts
<1>2. CASE dropped' = dropped \cup {Position} /\ UNCHANGED leaked
    <2>1. TokenPassed({}, {Position}, {}, {})
        BY <1>1, <1>2 DEF TokenPassed
    <2> QED
        BY <2>1, PassedInv DEF TreeInv
<1>3. CASE leaked' = leaked \cup {Position} /\ UNCHANGED dropped
    <2>1. TokenPassed({}, {}, {Position}, {})
        BY <1>1, <1>3 DEF TokenPassed
    <2> QED
        BY <2>1, PassedInv DEF TreeInv
<1> QED
    BY <1>2, <1>3

(* The default case of parse_node and the retry of parse_pug pass over one *)
(* token, or over two.                                                     *)
LEMMA StrayInv ==
    ASSUME ListsEndWithEof, TypeOK, TokenInv, InList, ParseStray
    PROVE  TokenInv'
<1> DEFINE next == Advance(current_token)
<1>0. /\ current_token \in Nat /\ current_token < Len(tokens)
      /\ tokens \in TokenLists /\ Current = tokens[current_token + 1]
      /\ Len(tokens) \in Nat /\ DOMAIN tokens = 1 .. Len(tokens)
      /\ Position = current_token + 1
    BY Counters DEF InList, HasCurrent, Current, Position
<1>1. Current.type # "EOF"
    BY NotEof DEF ParseStray, Stray
<1>2. next = current_token + 1 /\ next < Len(tokens)
    BY <1>0, <1>1, AdvanceInList
<1>3. UNCHANGED << tokens, node, depth, leaked >>
    BY DEF ParseStray, tree
<1>4. CASE AtEof(next)
    <2>1. current_token' = current_token + 1
        BY <1>2, <1>4 DEF ParseStray
    <2>2. dropped' = dropped \cup {Position}
        BY <1>0, <1>4 DEF ParseStray
    <2>3. current_token + 1 .. current_token + 1 = {Position}
        BY <1>0
    <2> QED
        BY <1>0, <1>3, <2>1, <2>2, <2>3, DroppedInv
<1>5. CASE ~ AtEof(next)
    <2>1. tokens[next + 1].type # "EOF"
        BY <1>2, <1>5 DEF AtEof
    <2>2. Advance(next) = next + 1
        BY <1>0, <1>2, <2>1, AdvanceInList
    <2>3. current_token' = current_token + 2
        BY <1>0, <1>2, <1>5, <2>2 DEF ParseStray
    <2>4. dropped' = dropped \cup {Position, next + 1}
        <3>1. {Position, next + 1} \subseteq DOMAIN tokens
            BY <1>0, <1>2
        <3> QED
            BY <1>5, <3>1 DEF ParseStray
    <2>5. current_token + 1 .. current_token + 2 = {Position, next + 1}
        BY <1>0, <1>2
    <2> QED
        BY <1>0, <1>3, <2>3, <2>4, <2>5, DroppedInv
<1> QED
    BY <1>4, <1>5

LEMMA TokenInvStep ==
    ASSUME ListsEndWithEof, TreeInv, TokenInv, InList, [Next]_vars
    PROVE  TokenInv'
<1>0. /\ TypeOK /\ HasCurrent /\ current_token \in Nat
      /\ Position = current_token + 1 /\ Position \in Nat \ {NULL}
    BY Counters DEF TreeInv, InList, Position, NULL
<1>a. Current.type # "EOF" => Advance(current_token) = current_token + 1
    BY <1>0, AdvanceInList DEF InList, HasCurrent, Current
<1>b. Fresh \in DOMAIN node /\ node[Fresh] \in Node
    BY <1>0, Arrays
<1>1. CASE ParseTag \/ ParseStandalone
    <2>1. /\ CreateNode /\ Current.type # "EOF"
          /\ current_token' = Advance(current_token)
          /\ UNCHANGED << tokens, dropped, leaked >>
        BY <1>1, NotEof DEF ParseTag, ParseStandalone, Standalone, TextLike,
                            DirectiveType, At
    <2> QED
        BY <1>0, <1>a, <2>1, CreatedInv
<1>2. CASE ParseStray
    BY <1>0, <1>2, StrayInv
<1>3. CASE CreateFails
    <2>1. Current.type # "EOF"
        BY <1>0, <1>3 DEF CreateFails, AtEof, HasCurrent, Current, Position
    <2>2. current_token' = current_token + 1 /\ dropped' = dropped \cup {Position}
        BY <1>3, <1>a, <2>1 DEF CreateFails
    <2>3. UNCHANGED << tokens, node, depth, leaked >>
        BY <1>3 DEF CreateFails, tree
    <2>4. current_token + 1 .. current_token + 1 = {Position}
        BY <1>0
    <2> QED
        BY <1>0, <2>2, <2>3, <2>4, DroppedInv
<1>4. CASE MergeId
    BY <1>4, MergeIdInv
<1>5. CASE MergeClass
    <2>1. Merge({"CLASS"}) /\ {"CLASS"} \in SUBSET (Stray \cup RunType)
        BY <1>5 DEF MergeClass, Stray
    <2>2. CASE Current.value # << >>
        <3> DEFINE q == [node[Fresh] EXCEPT !.classes = Append(@, Position)]
        <3>1. HeldBy(q) = HeldBy(node[Fresh]) \cup {Position}
              /\ Rest(q) = Rest(node[Fresh]) \cup {Position}
            BY <1>0, <1>b, HeldByUpdates
        <3>2. q.id = node[Fresh].id /\ q.tok = node[Fresh].tok
            BY <1>b DEF Node
        <3>3. node' = [node EXCEPT ![Fresh] = q] /\ UNCHANGED << dropped, leaked >>
            BY <1>5, <2>2 DEF MergeClass
        <3> HIDE DEF q
        <3> QED
            BY <2>1, <3>1, <3>2, <3>3, MergeTakes
    <2>3. CASE Current.value = << >>
        BY <1>5, <2>1, <2>3, MergeLosesInv DEF MergeClass
    <2> QED
        BY <2>2, <2>3
<1>6. CASE MergeClassFails
    <2>1. {"CLASS"} \in SUBSET (Stray \cup RunType)
        BY DEF Stray
    <2> QED
        BY <1>6, <2>1, MergeLosesInv DEF MergeClassFails
<1>7. CASE MergeAttributes
    <2> DEFINE q == [node[Fresh] EXCEPT !.attributes = Append(@, Position)]
    <2>1. Merge({"ATTRIBUTE"}) /\ {"ATTRIBUTE"} \in SUBSET (Stray \cup RunType)
        BY <1>7 DEF MergeAttributes, Stray
    <2>2. HeldBy(q) = HeldBy(node[Fresh]) \cup {Position}
          /\ Rest(q) = Rest(node[Fresh]) \cup {Position}
        BY <1>0, <1>b, HeldByUpdates
    <2>3. q.id = node[Fresh].id /\ q.tok = node[Fresh].tok
        BY <1>b DEF Node
    <2>4. node' = [node EXCEPT ![Fresh] = q] /\ UNCHANGED << dropped, leaked >>
        BY <1>7 DEF MergeAttributes
    <2> HIDE DEF q
    <2> QED
        BY <2>1, <2>2, <2>3, <2>4, MergeTakes
<1>8. CASE MergeAttributesFails
    <2>1. {"ATTRIBUTE"} \in SUBSET (Stray \cup RunType)
        BY DEF Stray
    <2> QED
        BY <1>8, <2>1, MergeLosesInv DEF MergeAttributesFails
<1>9. CASE MergeText
    <2> DEFINE q == [node[Fresh] EXCEPT !.text = Append(@, Position),
                                        !.is_inline = TRUE]
    <2>1. Merge(RunType) /\ RunType \in SUBSET (Stray \cup RunType)
        BY <1>9 DEF MergeText
    <2>2. HeldBy(q) = HeldBy(node[Fresh]) \cup {Position}
          /\ Rest(q) = Rest(node[Fresh]) \cup {Position}
        BY <1>0, <1>b, HeldByUpdates
    <2>3. q.id = node[Fresh].id /\ q.tok = node[Fresh].tok
        BY <1>b DEF Node
    <2>4. node' = [node EXCEPT ![Fresh] = q] /\ UNCHANGED << dropped, leaked >>
        BY <1>9 DEF MergeText
    <2> HIDE DEF q
    <2> QED
        BY <2>1, <2>2, <2>3, <2>4, MergeTakes
<1>10. CASE \/ ReachEof \/ MergeFirstClassFails \/ EndMerge \/ Climb
            \/ AddChild \/ AddChildGrow \/ AddChildFails
            \/ AddChildOutOfBounds \/ UNCHANGED vars
    <2>1. UNCHANGED << tokens, node, depth, current_token, dropped, leaked >>
        BY <1>10
        DEF ReachEof, MergeFirstClassFails, EndMerge, Climb, AddChild,
            AddChildGrow, AddChildFails, AddChildOutOfBounds, vars, tree
    <2>2. dropped' = dropped \cup (current_token + 1 .. current_token')
        BY <1>0, <2>1
    <2> QED
        BY <1>0, <2>1, <2>2, DroppedInv
<1>11. CASE RunPastEnd
    BY <1>0, <1>11 DEF RunPastEnd
<1> QED
    BY <1>1, <1>2, <1>3, <1>4, <1>5, <1>6, <1>7, <1>8, <1>9, <1>10, <1>11
    DEF Next, Stopped

LEMMA TokenInvAlways ==
    ASSUME ListsEndWithEof
    PROVE  Spec => [](TokenInv /\ TypeOK)
<1>1. TreeInv /\ InList /\ TokenInv /\ [Next]_vars => TokenInv'
    BY TokenInvStep
<1> QED
    BY <1>1, TokenInvInit, InListAlways, TreeInvariant, TypeCorrect, PTL DEF Spec

(* Every token that was passed is held by one node, or was dropped or      *)
(* leaked, and only one of these, whatever allocations fail.               *)
THEOREM EveryTokenAccounted ==
    ASSUME ListsEndWithEof
    PROVE  Spec => []TokensAccounted
<1>1. TokenInv /\ TypeOK => TokensAccounted
    BY TokenInvSays
<1> QED
    BY <1>1, TokenInvAlways, PTL

(* A node holds only tokens of its own depth, and none that belongs to the *)
(* nodes after it.                                                         *)
THEOREM OwnTokensOnly ==
    ASSUME ListsEndWithEof
    PROVE  Spec => []MergesOwnTokens
<1>1. TokenInv /\ TypeOK => MergesOwnTokens
    BY TokenInvSays
<1> QED
    BY <1>1, TokenInvAlways, PTL

-----------------------------------------------------------------------------
(***************************************************************************)
(* What the later stages rely on: the kinds of nodes, and that nodes come  *)
(* in the order of the tokens they were begun with.                        *)
(***************************************************************************)
Kinds == { "TAG", "TEXT", "INTERPOLATION" } \cup (DirectiveType \ {"PIPE"})

KindOf(type) == IF type \in TextLike THEN "TEXT" ELSE type

NodeKinds ==
    /\ node[Root] = RootNode
    /\ \A n \in DOMAIN node : node[n].type \in Kinds
    /\ \A n \in DOMAIN node \ { Root } : node[n].type = KindOf(tokens[node[n].tok].type)

TokRising ==
    \A n \in DOMAIN node : n # Root =>
        /\ node[n].tok \in DOMAIN tokens
        /\ \A m \in DOMAIN node : m # Root /\ m < n => node[m].tok < node[n].tok

(* Merging changes neither the type of a node nor its first token.         *)
LEMMA MergedNode ==
    ASSUME TreeInv, MergeId \/ MergeClass \/ MergeAttributes \/ MergeText
    PROVE  /\ DOMAIN node' = DOMAIN node /\ node'[Root] = node[Root]
           /\ \A n \in DOMAIN node :
                 node'[n].type = node[n].type /\ node'[n].tok = node[n].tok
<1>1. TypeOK /\ pc = "merge"
    BY DEF TreeInv, MergeId, MergeClass, MergeAttributes, MergeText, Merge
<1>2. /\ Fresh \in DOMAIN node /\ node[Fresh] \in Node
      /\ current_parent \in 1 .. Len(node) /\ Fresh = Len(node) /\ Len(node) \in Nat
    BY <1>1, Arrays
<1>3. Fresh # Root
    BY <1>1, <1>2 DEF TreeInv, OlderThanFresh, Root
<1>4. PICK q : /\ node' = [node EXCEPT ![Fresh] = q]
               /\ q.type = node[Fresh].type /\ q.tok = node[Fresh].tok
    <2>1. CASE MergeId
        <3> DEFINE q == [node[Fresh] EXCEPT !.id = Position]
        <3>1. node' = [node EXCEPT ![Fresh] = q]
            BY <2>1 DEF MergeId
        <3>2. q.type = node[Fresh].type /\ q.tok = node[Fresh].tok
            BY <1>2 DEF Node
        <3> HIDE DEF q
        <3> QED
            BY <3>1, <3>2
    <2>2. CASE MergeClass
        <3>1. \/ UNCHANGED node
              \/ node' = [node EXCEPT ![Fresh] = [node[Fresh] EXCEPT !.classes = Append(@, Position)]]
            BY <2>2 DEF MergeClass
        <3>2. UNCHANGED node => node' = [node EXCEPT ![Fresh] = node[Fresh]]
            BY <1>1 DEF TypeOK
        <3> QED
            BY <1>2, <3>1, <3>2 DEF Node
    <2>3. CASE MergeAttributes
        <3> DEFINE q == [node[Fresh] EXCEPT !.attributes = Append(@, Position)]
        <3>1. node' = [node EXCEPT ![Fresh] = q]
            BY <2>3 DEF MergeAttributes
        <3>2. q.type = node[Fresh].type /\ q.tok = node[Fresh].tok
            BY <1>2 DEF Node
        <3> HIDE DEF q
        <3> QED
            BY <3>1, <3>2
    <2>4. CASE MergeText
        <3> DEFINE q == [node[Fresh] EXCEPT
                          !.text = Append(@, Position), !.is_inline = TRUE]
        <3>1. node' = [node EXCEPT ![Fresh] = q]
            BY <2>4 DEF MergeText
        <3>2. q.type = node[Fresh].type /\ q.tok = node[Fresh].tok
            BY <1>2 DEF Node
        <3> HIDE DEF q
        <3> QED
            BY <3>1, <3>2
    <2> QED
        BY <2>1, <2>2, <2>3, <2>4
<1> QED
    BY <1>2, <1>3, <1>4

(* The steps that neither create nor merge.                                *)
LEMMA NodeSteps ==
    ASSUME TypeOK, [Next]_vars
    PROVE  /\ UNCHANGED tokens
           /\ \/ (ParseTag \/ ParseStandalone)
                   /\ HasCurrent /\ CreateNode /\ Current.type \in Standalone \cup {"TAG"}
              \/ MergeId \/ MergeClass \/ MergeAttributes \/ MergeText
              \/ UNCHANGED node
BY DEF Next, vars, ParseTag, ParseStandalone, ParseStray, CreateFails, ReachEof, At,
       RunPastEnd, MergeId, MergeClass, MergeClassFails, MergeFirstClassFails,
       MergeAttributes, MergeAttributesFails, MergeText, Merge, EndMerge, Climb,
       AddChild, AddChildGrow, AddChildFails, AddChildOutOfBounds, Stopped, tree

LEMMA CreatedNode ==
    ASSUME TypeOK, HasCurrent, CreateNode, Current.type \in Standalone \cup {"TAG"}
    PROVE  LET k == Len(node)
           IN  /\ k \in Nat /\ k >= 1 /\ DOMAIN node = 1 .. k /\ DOMAIN node' = 1 .. k + 1
               /\ \A n \in 1 .. k : node'[n] = node[n]
               /\ node'[k + 1].type \in Kinds /\ node'[k + 1].tok = current_token + 1
               /\ node'[k + 1].type = KindOf(tokens[current_token + 1].type)
<1>1. /\ NewNode(Current.type).type \in Kinds
      /\ NewNode(Current.type).tok = current_token + 1
      /\ NewNode(Current.type).type = KindOf(tokens[current_token + 1].type)
    BY DEF NewNode, Kinds, Standalone, TextLike, DirectiveType, Position, KindOf, Current
<1> QED
    BY <1>1, Arrays, CreateNodeArrays

LEMMA NodeKindsStep ==
    ASSUME TreeInv, NodeKinds, [Next]_vars
    PROVE  NodeKinds'
<1>1. TypeOK /\ UNCHANGED tokens
    BY NodeSteps DEF TreeInv
<1>2. CASE MergeId \/ MergeClass \/ MergeAttributes \/ MergeText
    BY <1>1, <1>2, MergedNode DEF NodeKinds
<1>3. CASE HasCurrent /\ CreateNode /\ Current.type \in Standalone \cup {"TAG"}
    <2>1. PICK k : k = Len(node)
        OBVIOUS
    <2>2. /\ k \in Nat /\ k >= 1 /\ DOMAIN node = 1 .. k /\ DOMAIN node' = 1 .. k + 1
          /\ \A n \in 1 .. k : node'[n] = node[n]
          /\ node'[k + 1].type \in Kinds /\ node'[k + 1].tok = current_token + 1
          /\ node'[k + 1].type = KindOf(tokens[current_token + 1].type)
        BY <1>1, <1>3, <2>1, CreatedNode
    <2>3. \A n \in 1 .. k + 1 : n \in 1 .. k \/ n = k + 1
        BY <2>2
    <2>4. \A n \in DOMAIN node' \ { Root } :
             node'[n].type = KindOf(tokens'[node'[n].tok].type)
        BY <1>1, <2>2, <2>3 DEF NodeKinds
    <2> QED
        BY <2>2, <2>3, <2>4 DEF NodeKinds, Root
<1>4. CASE UNCHANGED node
    BY <1>1, <1>4 DEF NodeKinds
<1> QED
    BY <1>1, <1>2, <1>3, <1>4, NodeSteps

LEMMA NodeKindsBegin == Begin => NodeKinds
<1> SUFFICES ASSUME Begin PROVE NodeKinds
    OBVIOUS
<1>1. DOMAIN node = {1} /\ node[1] = RootNode
    BY DEF Begin
<1>2. RootNode.type \in Kinds
    BY DEF RootNode, Kinds
<1> QED
    BY <1>1, <1>2 DEF NodeKinds, Root

LEMMA TokRisingStep ==
    ASSUME TreeInv, InList, TokenInv, TokRising, [Next]_vars
    PROVE  TokRising'
<1>1. TypeOK /\ UNCHANGED tokens
    BY NodeSteps DEF TreeInv
<1>2. CASE MergeId \/ MergeClass \/ MergeAttributes \/ MergeText
    BY <1>1, <1>2, MergedNode DEF TokRising
<1>3. CASE HasCurrent /\ CreateNode /\ Current.type \in Standalone \cup {"TAG"}
    <2>1. PICK k : k = Len(node)
        OBVIOUS
    <2>2. /\ k \in Nat /\ k >= 1 /\ DOMAIN node = 1 .. k /\ DOMAIN node' = 1 .. k + 1
          /\ \A n \in 1 .. k : node'[n] = node[n]
          /\ node'[k + 1].tok = current_token + 1
        BY <1>1, <1>3, <2>1, CreatedNode
    <2>3. /\ current_token \in Nat /\ current_token + 1 \in DOMAIN tokens
          /\ DOMAIN tokens \subseteq Nat \ {0}
        BY <1>1, <1>3, Counters DEF Position
    <2>4. \A m \in 1 .. k : m # Root => node[m].tok \in Nat /\ node[m].tok <= current_token
        <3> SUFFICES ASSUME NEW m \in 1 .. k, m # Root
                     PROVE  node[m].tok \in Nat /\ node[m].tok <= current_token
            OBVIOUS
        <3>1. node[m].tok \in Nat \ {0}
            BY <2>2, <2>3 DEF TokRising
        <3>2. node[m].tok \in Used
            BY <2>2, <3>1 DEF Used, HeldBy, Rest, NULL
        <3>3. node[m].tok \in 1 .. current_token
            BY <3>2 DEF TokenInv, Accounted
        <3> QED
            BY <2>3, <3>3
    <2>5. \A n \in 1 .. k + 1 : n # Root =>
             /\ node'[n].tok \in DOMAIN tokens
             /\ \A m \in 1 .. k + 1 : m # Root /\ m < n => node'[m].tok < node'[n].tok
        <3> SUFFICES ASSUME NEW n \in 1 .. k + 1, n # Root
                     PROVE  /\ node'[n].tok \in DOMAIN tokens
                            /\ \A m \in 1 .. k + 1 :
                                  m # Root /\ m < n => node'[m].tok < node'[n].tok
            OBVIOUS
        <3>1. \A m \in 1 .. k + 1 : m < n => m \in 1 .. k
            BY <2>2
        <3>2. CASE n \in 1 .. k
            BY <2>2, <3>1, <3>2 DEF TokRising
        <3>3. CASE n = k + 1
            BY <2>2, <2>3, <2>4, <3>1, <3>3
        <3> QED
            BY <2>2, <3>2, <3>3
    <2> QED
        BY <1>1, <2>2, <2>5 DEF TokRising
<1>4. CASE UNCHANGED node
    BY <1>1, <1>4 DEF TokRising
<1> QED
    BY <1>1, <1>2, <1>3, <1>4, NodeSteps

LEMMA TokRisingBegin == Begin => TokRising
<1> SUFFICES ASSUME Begin PROVE TokRising
    OBVIOUS
<1>1. DOMAIN node = {1}
    BY DEF Begin
<1> QED
    BY <1>1 DEF TokRising, Root

(***************************************************************************)
(* Ids.  An id that is leaked was replaced by a later one of its node, as  *)
(* long as no allocation failed.                                           *)
(***************************************************************************)
IdOf(i, r) == tokens[i].type = "ID" /\ r.tok < i
IdInv ==
    /\ \A n \in DOMAIN node : node[n].id # NULL => IdOf(node[n].id, node[n])
    /\ faults = 0 =>
          \A i \in leaked : \E n \in DOMAIN node : IdOf(i, node[n]) /\ i < node[n].id

(* What keeps the ids, their nodes and what is leaked.                     *)
LEMMA IdsKept ==
    ASSUME IdInv, faults \in Nat, UNCHANGED tokens, DOMAIN node \subseteq DOMAIN node',
           \A n \in DOMAIN node : node'[n].id = node[n].id /\ node'[n].tok = node[n].tok,
           \A n \in DOMAIN node' \ DOMAIN node : node'[n].id = NULL,
           (faults' = faults /\ leaked' = leaked) \/ faults' = faults + 1
    PROVE  IdInv'
<1>1. \A n \in DOMAIN node' : node'[n].id # NULL => IdOf(node[n].id, node[n]) /\ n \in DOMAIN node
    BY DEF IdInv
<1>2. \A n \in DOMAIN node : \A i : IdOf(i, node[n])' = IdOf(i, node[n])
    BY DEF IdOf
<1>3. \A n \in DOMAIN node' : node'[n].id # NULL => IdOf(node[n].id, node[n])'
    BY <1>1, <1>2
<1>4. ASSUME faults' = 0, NEW i \in leaked'
      PROVE  \E n \in DOMAIN node' : IdOf(i, node[n])' /\ i < node'[n].id
    <2>1. faults = 0 /\ i \in leaked
        BY <1>4
    <2>2. PICK n \in DOMAIN node : IdOf(i, node[n]) /\ i < node[n].id
        BY <2>1 DEF IdInv
    <2> QED
        BY <1>2, <2>2
<1> QED
    BY <1>3, <1>4 DEF IdInv, NULL

LEMMA IdInvStep ==
    ASSUME TypeOK, InList, TokenInv, IdInv, [Next]_vars
    PROVE  IdInv'
<1>1. /\ Fresh \in DOMAIN node /\ DOMAIN node = 1 .. Len(node) /\ Len(node) \in Nat
      /\ \A n \in DOMAIN node : node[n] \in Node
      /\ Position = current_token + 1 /\ current_token \in Nat /\ faults \in Nat
    <2>1. faults \in Nat
        BY Counters DEF TypeOK
    <2> QED
        BY <2>1, Arrays, Counters DEF Position
<1>2. CASE ParseTag \/ ParseStandalone
    <2>1. /\ node' = Append(node, NewNode(Current.type))
          /\ UNCHANGED << tokens, leaked, faults >>
        BY <1>2 DEF ParseTag, ParseStandalone, CreateNode
    <2>2. NewNode(Current.type).id = NULL
        BY DEF NewNode
    <2> HIDE DEF NewNode
    <2>3. /\ DOMAIN node' = 1 .. Len(node) + 1 /\ node'[Len(node) + 1].id = NULL
          /\ \A n \in DOMAIN node : node'[n] = node[n]
        BY <1>1, <2>1, <2>2, AppendEntry DEF TypeOK
    <2> QED
        BY <1>1, <2>1, <2>3, IdsKept
<1>3. CASE MergeId
    <2>1. /\ node' = [node EXCEPT ![Fresh].id = Position]
          /\ leaked' = leaked \cup ({node[Fresh].id} \ {NULL})
          /\ UNCHANGED << tokens, faults >> /\ Current.type = "ID"
        BY <1>3 DEF MergeId, Merge, At
    <2>2. /\ DOMAIN node' = DOMAIN node
          /\ \A n \in DOMAIN node \ { Fresh } : node'[n] = node[n]
          /\ node'[Fresh].id = Position /\ node'[Fresh].tok = node[Fresh].tok
        BY <1>1, <2>1 DEF Node
    <2>3. \A n \in DOMAIN node : \A i : IdOf(i, node[n])' = IdOf(i, node[n])
        BY <2>1, <2>2 DEF IdOf
    <2>4. node[Fresh].tok <= current_token
          /\ (node[Fresh].id # NULL => node[Fresh].id <= current_token)
        <3>1. HeldBy(node[Fresh]) \subseteq 1 .. current_token
            BY <1>1 DEF TokenInv, Accounted, Used
        <3>2. node[Fresh].tok \in HeldBy(node[Fresh]) \/ node[Fresh].tok = 0
            BY DEF HeldBy, Rest, NULL
        <3>3. node[Fresh].id # NULL => node[Fresh].id \in HeldBy(node[Fresh])
            BY DEF HeldBy
        <3> QED
            BY <1>1, <3>1, <3>2, <3>3
    <2>5. node[Fresh].tok \in Nat /\ node[Fresh].id \in Nat
        BY <1>1 DEF Node
    <2>6. IdOf(Position, node[Fresh])
        BY <1>1, <2>1, <2>4, <2>5 DEF IdOf, Current
    <2>7. \A n \in DOMAIN node' : node'[n].id # NULL => IdOf(node[n].id, node[n])'
        <3> SUFFICES ASSUME NEW n \in DOMAIN node, node'[n].id # NULL
                     PROVE  IdOf(node'[n].id, node[n])
            BY <2>2, <2>3 DEF IdOf
        <3>1. CASE n = Fresh
            BY <2>2, <2>6, <3>1
        <3>2. CASE n # Fresh
            BY <2>2, <3>2 DEF IdInv
        <3> QED
            BY <3>1, <3>2
    <2>8. ASSUME faults' = 0, NEW i \in leaked'
          PROVE  \E n \in DOMAIN node' : IdOf(i, node[n])' /\ i < node'[n].id
        <3>1. CASE i \in leaked
            <4>1. PICK n \in DOMAIN node : IdOf(i, node[n]) /\ i < node[n].id
                BY <2>1, <2>8, <3>1 DEF IdInv
            <4>2. i < node'[n].id
                <5>1. CASE n = Fresh
                    <6>1. i \in 1 .. current_token
                        BY <3>1 DEF TokenInv, Accounted
                    <6> QED
                        BY <1>1, <2>2, <5>1, <6>1
                <5>2. CASE n # Fresh
                    BY <2>2, <4>1, <5>2
                <5> QED
                    BY <5>1, <5>2
            <4> QED
                BY <2>2, <2>3, <4>1, <4>2
        <3>2. CASE i = node[Fresh].id /\ i # NULL
            <4>1. IdOf(i, node[Fresh])
                BY <1>1, <3>2 DEF IdInv
            <4>2. i < node'[Fresh].id
                BY <1>1, <2>2, <2>4, <2>5, <3>2
            <4> QED
                BY <1>1, <2>2, <2>3, <4>1, <4>2
        <3> QED
            BY <2>1, <2>8, <3>1, <3>2
    <2> QED
        BY <2>7, <2>8 DEF IdInv
<1>4. CASE MergeClass \/ MergeAttributes \/ MergeText
    <2>1. PICK q : /\ q.id = node[Fresh].id /\ q.tok = node[Fresh].tok
                   /\ node' = [node EXCEPT ![Fresh] = q] \/ node' = node
                   /\ UNCHANGED << tokens, leaked, faults >>
        <3>1. CASE MergeClass
            <4>1. PICK q : q = [node[Fresh] EXCEPT !.classes = Append(@, Position)]
                OBVIOUS
            <4> QED
                BY <1>1, <3>1, <4>1 DEF MergeClass, Merge, Node
        <3>2. CASE MergeAttributes
            <4>1. PICK q : q = [node[Fresh] EXCEPT !.attributes = Append(@, Position)]
                OBVIOUS
            <4> QED
                BY <1>1, <3>2, <4>1 DEF MergeAttributes, Merge, Node
        <3>3. CASE MergeText
            <4>1. PICK q : q = [node[Fresh] EXCEPT !.text = Append(@, Position),
                                                    !.is_inline = TRUE]
                OBVIOUS
            <4> QED
                BY <1>1, <3>3, <4>1 DEF MergeText, Merge, Node
        <3> QED
            BY <1>4, <3>1, <3>2, <3>3
    <2>2. /\ DOMAIN node' = DOMAIN node
          /\ \A n \in DOMAIN node : node'[n].id = node[n].id /\ node'[n].tok = node[n].tok
        BY <1>1, <2>1
    <2> QED
        BY <1>1, <2>1, <2>2, IdsKept
<1>5. CASE \/ ParseStray \/ ReachEof \/ RunPastEnd \/ EndMerge \/ Climb
           \/ AddChild \/ AddChildGrow \/ UNCHANGED vars
    <2>1. UNCHANGED << tokens, node, leaked, faults >>
        BY <1>5
        DEF ParseStray, ReachEof, RunPastEnd, EndMerge, Climb, AddChild, AddChildGrow, vars, tree
    <2> QED
        BY <1>1, <2>1, IdsKept
<1>6. CASE \/ CreateFails \/ MergeClassFails \/ MergeFirstClassFails
           \/ MergeAttributesFails \/ AddChildFails \/ AddChildOutOfBounds
    <2>1. UNCHANGED << tokens, node >>
          /\ (faults' = faults + 1 \/ UNCHANGED << leaked, faults >>)
        BY <1>6
        DEF CreateFails, MergeClassFails, MergeFirstClassFails, MergeAttributesFails,
            AddChildFails, AddChildOutOfBounds, Fault, Merge, tree
    <2> QED
        BY <1>1, <2>1, IdsKept
<1> QED
    BY <1>2, <1>3, <1>4, <1>5, <1>6 DEF Next, Stopped

LEMMA IdInvBegin == Begin => IdInv
<1> SUFFICES ASSUME Begin PROVE IdInv
    OBVIOUS
<1>1. leaked = {} /\ DOMAIN node = {1} /\ node[1].id = NULL
    BY DEF Begin, RootNode
<1> QED
    BY <1>1 DEF IdInv

(***************************************************************************)
(* All of this together, for the stages that read the finished tree.       *)
(***************************************************************************)
ReadInv == InList /\ TokenInv /\ TokRising /\ NearInv /\ IdInv

ParserInv ==
    /\ TreeInv /\ ChildInv /\ NodeKinds /\ StopsAtEof
    /\ RoomInv /\ ParentsAreShallower
    /\ tokens \in TokenLists => ReadInv

LEMMA ParserInvBegin ==
    ASSUME ListsEndWithEof, Begin
    PROVE  ParserInv
<1>1. StopsAtEof
    BY DEF Begin, StopsAtEof
<1> QED
    BY <1>1, TreeInvBegin, ChildInvBegin, NodeKindsBegin, RoomInvBegin, ShallowBegin,
       InListBegin, TokenInvBegin, TokRisingBegin, NearInvBegin, IdInvBegin
    DEF ParserInv, ReadInv

LEMMA ParserInvStep ==
    ASSUME ListsEndWithEof, ParserInv, [Next]_vars
    PROVE  ParserInv'
<1>1. /\ TreeInv /\ TypeOK /\ ChildInv /\ NodeKinds /\ StopsAtEof /\ RoomInv
      /\ ParentsAreShallower
    BY DEF ParserInv, TreeInv
<1>2. TreeInv' /\ TypeOK'
    BY <1>1, TreeInvStep DEF TreeInv
<1>3. ChildInv'
    BY <1>1, <1>2, ChildInvStep
<1>4. NodeKinds' /\ StopsAtEof'
    BY <1>1, NodeKindsStep, StopsAtEofStep
<1>5. RoomInv' /\ NoOverflow'
    BY <1>1, <1>2, RoomInvStep DEF RoomInv
<1>6. ParentsAreShallower'
    BY <1>1, <1>2, <1>5, ParentsAreShallowerStep
<1>7. ASSUME tokens' \in TokenLists
      PROVE  ReadInv'
    <2>1. InList /\ TokenInv /\ TokRising /\ NearInv /\ IdInv
        BY <1>1, <1>7, NodeSteps DEF ParserInv, ReadInv
    <2>2. InList'
        BY <1>1, <1>2, <2>1, InListStep
    <2>3. TokenInv' /\ TokRising'
        BY <1>1, <2>1, TokenInvStep, TokRisingStep
    <2>4. NearInv'
        BY <1>1, <1>2, <1>5, <2>1, NearInvStep
    <2>5. IdInv'
        BY <1>1, <2>1, IdInvStep
    <2> QED
        BY <2>2, <2>3, <2>4, <2>5 DEF ReadInv
<1> QED
    BY <1>2, <1>3, <1>4, <1>5, <1>6, <1>7 DEF ParserInv
=============================================================================
