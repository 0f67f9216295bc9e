----------------------------- MODULE PugOutline -----------------------------
(***************************************************************************)
(* What the parser promises about the shape of the tree, without tokens,   *)
(* loops or pointers: the outline of a document grows by one node at a     *)
(* time, each hung below an earlier node.  As long as the outline is       *)
(* exact, that is, nothing of the document was skipped, the parent is the  *)
(* nearest earlier node that is shallower; afterwards it is still some     *)
(* shallower node that is not closed yet.                                  *)
(***************************************************************************)
EXTENDS Naturals, Sequences

CONSTANTS Depths,       (* the indentation depths a node may have          *)
          RootDepth     (* the depth of the artificial root, node 1        *)

VARIABLES parent,       (* the parent of each node, 0 for the root         *)
          depth,        (* the depth of each node                          *)
          exact         (* nothing was skipped so far                      *)

Root == 1
outline == << parent, depth, exact >>

(* A node is open if no later node was hung above it: the open nodes are   *)
(* the last node and its ancestors.                                        *)
Open(p) == \A m \in DOMAIN parent : m > p => parent[m] >= p

Shallower(p, d) == p = Root \/ depth[p] < d

(* No node after p could be the parent of a node of depth d.               *)
Nearest(p, d) == \A m \in DOMAIN parent : m > p => depth[m] >= d

Init ==
    /\ parent = << 0 >>
    /\ depth = << RootDepth >>
    /\ exact = TRUE

AddNode(d) ==
    \E p \in DOMAIN parent :
        /\ Open(p) /\ Shallower(p, d)
        /\ exact => Nearest(p, d)
        /\ parent' = Append(parent, p)
        /\ depth' = Append(depth, d)
        /\ UNCHANGED exact

Skip ==
    /\ exact' = FALSE
    /\ UNCHANGED << parent, depth >>

Next == Skip \/ \E d \in Depths : AddNode(d)

Spec == Init /\ [][Next]_outline
=============================================================================
