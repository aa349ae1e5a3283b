------------------------- MODULE ResourceGraphProofs -------------------------
(***************************************************************************)
(* For any set of names: the adjacency maps of the resource graph mirror   *)
(* each other, and as long as no child is linked before it is added, both  *)
(* ends of every edge are in the graph.  What the matrix holds is left to  *)
(* TLC, as it is computed by recursion over sequences of edges.            *)
(***************************************************************************)
EXTENDS ResourceGraph, TLAPS

\* The three maps are functions of the names.
Shape(G) ==
    /\ G.nodes = [n \in Name |-> G.nodes[n]]
    /\ G.children = [n \in Name |-> G.children[n]]
    /\ G.parents = [n \in Name |-> G.parents[n]]

Mirrored(G) == \A c, p \in Name : c \in G.children[p] <=> p \in G.parents[c]

Sound(G) == Shape(G) /\ Mirrored(G)

-----------------------------------------------------------------------------
(* What the unexported methods preserve *)

\* addNode leaves the edges alone.
LEMMA AddNodeSound ==
    ASSUME NEW G, NEW n, NEW v, Sound(G)
    PROVE  Sound(addNode(G, n, v))
  BY DEF Sound, Shape, Mirrored, addNode

\* addChildren enters an edge in both maps.
LEMMA AddChildrenSound ==
    ASSUME NEW G, NEW child, NEW parent, Sound(G)
    PROVE  Sound(addChildren(G, child, parent))
<1> DEFINE H == withParent(G, parent)
<1>1. Sound(H)
  BY AddNodeSound, SMTT(30) DEF withParent
<1> HIDE DEF H
<1>2. CASE parent \in H.parents[child]
  BY <1>1, <1>2, SMTT(30) DEF addChildren, H
<1>3. CASE parent \notin H.parents[child]
  <2> DEFINE K == [nodes |-> H.nodes,
                   children |-> [H.children EXCEPT ![parent] = @ \union {child}],
                   parents |-> [H.parents EXCEPT ![child] = @ \union {parent}],
                   tc |-> addTransitiveClosure(H.tc, child, parent)]
  <2>1. addChildren(G, child, parent) = K
    BY <1>3, SMTT(30) DEF addChildren, H
  <2>2. Shape(K)
    BY <1>1, Zenon DEF Sound, Shape
  <2>3. Mirrored(K)
    BY <1>1 DEF Sound, Shape, Mirrored
  <2> QED
    BY <2>1, <2>2, <2>3, SMTT(30) DEF Sound
<1> QED
  BY SMTT(30), <1>2, <1>3

\* removeChildren takes an edge out of both maps.
LEMMA RemoveChildrenSound ==
    ASSUME NEW G, NEW child, NEW parent, Sound(G)
    PROVE  Sound(removeChildren(G, child, parent))
  BY ZenonT(30) DEF Sound, Shape, Mirrored, removeChildren

\* remove takes every edge of a node out of both maps.
LEMMA RemoveSound ==
    ASSUME NEW G, NEW n, NEW edges, Sound(G)
    PROVE  Sound(remove(G, n, edges))
  BY DEF Sound, Shape, Mirrored, remove

-----------------------------------------------------------------------------
(* The maps mirror each other *)

\* NewGraph is sound.
LEMMA InitSound == Init => Sound(g)
  BY DEF Init, Empty, Sound, Shape, Mirrored

\* Every method, and every round of a loop in one, keeps the graph sound.
LEMMA NextSound ==
    ASSUME Sound(g), [Next]_vars
    PROVE  Sound(g')
<1>1. ASSUME NEW n \in Name, AddNode(n) PROVE Sound(g')
  BY <1>1, AddNodeSound, SMTT(30) DEF AddNode, Quick
<1>2. ASSUME NEW n \in Name, Remove_(n) PROVE Sound(g')
  BY <1>2, RemoveSound, SMTT(30) DEF Remove_, Quick
<1>3. ASSUME NEW n \in Name, SubGraph(n) PROVE Sound(g')
  BY <1>3, SMTT(30) DEF SubGraph
<1>4. ASSUME NEW n \in Name, CopyNodeAndChildren(n) PROVE Sound(g')
  BY <1>4, AddNodeSound, SMTT(30) DEF CopyNodeAndChildren
<1>5. ASSUME NEW c \in Name, NEW p \in Name, AddChildren(c, p) PROVE Sound(g')
  BY <1>5, AddChildrenSound, SMTT(30) DEF AddChildren, Quick
<1>6. ASSUME NEW c \in Name, NEW p \in Name, RemoveChildren(c, p) PROVE Sound(g')
  BY <1>6, RemoveChildrenSound, SMTT(30) DEF RemoveChildren, Quick
<1>7. ASSUME NEW c \in Name, NEW p \in Name, RenameNode(c, p) PROVE Sound(g')
  BY <1>7, AddNodeSound, SMTT(30) DEF RenameNode
<1>8. CASE RenameParent
  <2>1. PICK p \in left : \/ g' = removeChildren(g, node, p)
                          \/ g' = addChildren(removeChildren(g, node, p), target, p)
    BY <1>8, SMTT(30) DEF RenameParent
  <2> QED
    BY SMTT(30), <2>1, RemoveChildrenSound, AddChildrenSound
<1>9. CASE RenameChild
  <2>1. PICK c \in left2 : \/ g' = removeChildren(g, c, node)
                           \/ g' = addChildren(removeChildren(g, c, node), c, target)
    BY <1>9, SMTT(30) DEF RenameChild
  <2> QED
    BY SMTT(30), <2>1, RemoveChildrenSound, AddChildrenSound
<1>10. CASE RenameRemove
  BY <1>10, RemoveSound, SMTT(30) DEF RenameRemove
<1>11. CASE Clone \/ MergeRemove \/ MergeAdd \/ Return \/ UNCHANGED vars
  BY <1>11, SMTT(30) DEF Clone, MergeRemove, MergeAdd, Return, vars
<1>12. CASE MergeRemoveNode
  BY <1>12, RemoveSound, SMTT(30) DEF MergeRemoveNode
<1>13. CASE MergeAddNode
  <2> DEFINE n == Head(sorted)
  <2>1. \/ \E edges \in removalOrders(g, n) : g' = addNode(remove(g, n, edges), n, other.nodes[n])
        \/ g' = addNode(g, n, other.nodes[n])
    BY <1>13, SMTT(30) DEF MergeAddNode
  <2> QED
    BY SMTT(30), <2>1, AddNodeSound, RemoveSound
<1>14. CASE LinkChild
  <2>1. PICK c \in left :
           LET H == IF op = "copy" /\ c \notin Nodes(g) THEN addNode(g, c, "nil") ELSE g
           IN  g' = H \/ g' = addChildren(H, c, node)
    BY <1>14 DEF LinkChild
  <2> DEFINE H == IF op = "copy" /\ c \notin Nodes(g) THEN addNode(g, c, "nil") ELSE g
  <2>2. Sound(H)
    BY SMTT(30), AddNodeSound
  <2>3. g' = H \/ g' = addChildren(H, c, node)
    BY <2>1
  <2> HIDE DEF H
  <2> QED
    BY SMTT(30), <2>2, <2>3, AddChildrenSound
<1> QED
  BY <1>1, <1>2, <1>3, <1>4, <1>5, <1>6, <1>7, <1>8, <1>9, <1>10, <1>11, <1>12,
     <1>13, <1>14 DEF Next

\* getAllChildrenOf and getAllParentOf always agree, half way through a rename
\* or a merge too: a child is in its parent's set exactly if the parent is in
\* the child's.
THEOREM MirrorHolds == Spec => []Mirror
<1>1. Init => Sound(g)
  BY SMTT(30), InitSound
<1>2. Sound(g) /\ [Next]_vars => Sound(g)'
  BY NextSound, SMTT(30) DEF Sound, Shape, Mirrored
<1>3. Sound(g) => Mirror
  BY SMTT(30) DEF Sound, Mirrored, Mirror
<1> QED
  BY <1>1, <1>2, <1>3, PTL DEF Spec

-----------------------------------------------------------------------------
(* Both ends of an edge are in the graph *)

EdgesIn(G) == \A c, p \in Name : p \in G.parents[c] => {c, p} \subseteq Nodes(G)

\* Without a second graph only RenameNode loops.  While it does, both names are
\* in the graph, and so are the nodes whose edges have still to move.
Closed ==
    /\ Sound(g) /\ EdgesIn(g)
    /\ g.nodes \in [Name -> Value]
    /\ op \in {"none", "rename"}
    /\ op = "rename" =>
         /\ node \in Nodes(g) /\ target \in Nodes(g) /\ node # target
         /\ left \subseteq Nodes(g) /\ left2 \subseteq Nodes(g)

\* addNode loses no node.
LEMMA AddNodeNodes ==
    ASSUME NEW G, Sound(G), EdgesIn(G), G.nodes \in [Name -> Value],
           NEW n \in Name, NEW v \in Value \ {"absent"}
    PROVE  /\ EdgesIn(addNode(G, n, v))
           /\ addNode(G, n, v).nodes \in [Name -> Value]
           /\ Nodes(addNode(G, n, v)) = Nodes(G) \union {n}
  BY SMTT(30) DEF addNode, EdgesIn, Nodes, Value

\* addChildren adds at most the parent, and an edge of a child that is there.
LEMMA AddChildrenNodes ==
    ASSUME NEW G, Sound(G), EdgesIn(G), G.nodes \in [Name -> Value],
           NEW child \in Nodes(G), NEW parent \in Name
    PROVE  /\ EdgesIn(addChildren(G, child, parent))
           /\ addChildren(G, child, parent).nodes \in [Name -> Value]
           /\ Nodes(addChildren(G, child, parent)) = Nodes(G) \union {parent}
<1> DEFINE H == withParent(G, parent)
<1>1. /\ Sound(H) /\ EdgesIn(H) /\ H.nodes \in [Name -> Value]
      /\ Nodes(H) = Nodes(G) \union {parent}
  BY AddNodeNodes, AddNodeSound, "nil" \in Value \ {"absent"}, SMTT(30) DEF withParent, Value
<1> HIDE DEF H
<1>2. CASE parent \in H.parents[child]
  BY <1>1, <1>2, SMTT(30) DEF addChildren, H
<1>3. CASE parent \notin H.parents[child]
  <2> DEFINE K == [nodes |-> H.nodes,
                   children |-> [H.children EXCEPT ![parent] = @ \union {child}],
                   parents |-> [H.parents EXCEPT ![child] = @ \union {parent}],
                   tc |-> addTransitiveClosure(H.tc, child, parent)]
  <2>1. addChildren(G, child, parent) = K
    BY <1>3 DEF addChildren, H
  <2>2. Nodes(K) = Nodes(H) /\ K.nodes \in [Name -> Value]
    BY <1>1 DEF Nodes
  <2>3. EdgesIn(K)
    BY <1>1, <2>2, SMTT(30) DEF EdgesIn, Sound, Shape
  <2> QED
    BY Zenon, <1>1, <2>1, <2>2, <2>3
<1> QED
  BY SMTT(30), <1>2, <1>3

\* removeChildren touches no node.
LEMMA RemoveChildrenNodes ==
    ASSUME NEW G, Sound(G), EdgesIn(G), G.nodes \in [Name -> Value], NEW child, NEW parent
    PROVE  /\ EdgesIn(removeChildren(G, child, parent))
           /\ removeChildren(G, child, parent).nodes \in [Name -> Value]
           /\ Nodes(removeChildren(G, child, parent)) = Nodes(G)
  BY SMTT(30) DEF removeChildren, EdgesIn, Nodes, Sound, Shape

\* remove takes the node out with all its edges.
LEMMA RemoveNodes ==
    ASSUME NEW G, Sound(G), EdgesIn(G), G.nodes \in [Name -> Value], NEW n, NEW edges
    PROVE  /\ EdgesIn(remove(G, n, edges))
           /\ remove(G, n, edges).nodes \in [Name -> Value]
           /\ Nodes(remove(G, n, edges)) = Nodes(G) \ {n}
  BY ZenonT(30) DEF remove, EdgesIn, Nodes, Value

\* NewGraph has no edges.
LEMMA InitClosed == Init => Closed
  BY InitSound DEF Init, Empty, Closed, EdgesIn, Nodes, Value

\* Every method that works on one graph keeps the edges inside it.
LEMMA NextClosed ==
    ASSUME ~WithOther, ~MissingChild, Closed, [Next]_vars
    PROVE  Closed'
<1> USE DEF Closed
<1>0. Sound(g)'
  BY NextSound, SMTT(30) DEF Sound, Shape, Mirrored
<1> SUFFICES /\ EdgesIn(g') /\ g'.nodes \in [Name -> Value]
             /\ op' \in {"none", "rename"}
             /\ op' = "rename" =>
                  /\ node' \in Nodes(g') /\ target' \in Nodes(g') /\ node' # target'
                  /\ left' \subseteq Nodes(g') /\ left2' \subseteq Nodes(g')
  BY <1>0, SMTT(30) DEF EdgesIn, Nodes
<1> DEFINE Goal == /\ EdgesIn(g') /\ g'.nodes \in [Name -> Value]
                   /\ op' \in {"none", "rename"}
                   /\ op' = "rename" =>
                        /\ node' \in Nodes(g') /\ target' \in Nodes(g') /\ node' # target'
                        /\ left' \subseteq Nodes(g') /\ left2' \subseteq Nodes(g')
<1>1. ASSUME NEW n \in Name, AddNode(n) PROVE Goal
  BY <1>1, AddNodeNodes, SMTT(30) DEF AddNode, Quick, Value
<1>2. ASSUME NEW n \in Name, Remove_(n) PROVE Goal
  BY <1>2, RemoveNodes, SMTT(30) DEF Remove_, Quick
<1>3. ASSUME NEW c \in Name, NEW p \in Name, AddChildren(c, p) PROVE Goal
  BY <1>3, AddChildrenNodes, SMTT(30) DEF AddChildren, Quick
<1>4. ASSUME NEW c \in Name, NEW p \in Name, RemoveChildren(c, p) PROVE Goal
  BY <1>4, RemoveChildrenNodes, SMTT(30) DEF RemoveChildren, Quick
<1>5. ASSUME NEW old \in Name, NEW new \in Name, RenameNode(old, new) PROVE Goal
  <2>1. /\ old \in Nodes(g) /\ new \notin Nodes(g)
        /\ g' = addNode(g, new, g.nodes[old])
        /\ op' = "rename" /\ node' = old /\ target' = new
        /\ left' = getAllParentOf(g, old) /\ left2' = getAllChildrenOf(g, old)
    BY <1>5, SMTT(30) DEF RenameNode, Enter
  <2>2. g.nodes[old] \in Value \ {"absent"}
    BY <2>1, SMTT(30) DEF Nodes
  <2>3. getAllParentOf(g, old) \subseteq Nodes(g) /\ getAllChildrenOf(g, old) \subseteq Nodes(g)
    BY SMTT(30) DEF getAllParentOf, getAllChildrenOf, EdgesIn, Sound, Mirrored
  <2> QED
    BY SMTT(30), <2>1, <2>2, <2>3, AddNodeNodes
<1>6. CASE RenameParent
  <2>1. PICK p \in left :
          LET H == removeChildren(g, node, p)
          IN  \/ g' = H /\ op' = "none"
              \/ /\ g' = addChildren(H, target, p)
                 /\ left' = left \ {p}
                 /\ UNCHANGED <<op, node, target, left2>>
    BY <1>6, SMTT(30) DEF RenameParent, Leave
  <2>2. op = "rename"
    BY <1>6, SMTT(30) DEF RenameParent
  <2> DEFINE H == removeChildren(g, node, p)
  <2>3. Sound(H) /\ EdgesIn(H) /\ H.nodes \in [Name -> Value] /\ Nodes(H) = Nodes(g)
    BY SMTT(30), RemoveChildrenNodes, RemoveChildrenSound
  <2>4. \/ g' = H /\ op' = "none"
        \/ /\ g' = addChildren(H, target, p)
           /\ left' = left \ {p}
           /\ UNCHANGED <<op, node, target, left2>>
    BY SMTT(30), <2>1
  <2> HIDE DEF H
  <2>5. p \in Nodes(H) /\ p \in Name /\ target \in Nodes(H)
    BY <2>2, <2>3, SMTT(30) DEF Nodes
  <2> QED
    BY SMTT(30), <2>2, <2>3, <2>4, <2>5, AddChildrenNodes
<1>7. CASE RenameChild
  <2>1. PICK c \in left2 :
          LET H == removeChildren(g, c, node)
          IN  \/ g' = H /\ op' = "none"
              \/ /\ g' = addChildren(H, c, target)
                 /\ left2' = left2 \ {c}
                 /\ UNCHANGED <<op, node, target, left>>
    BY <1>7, SMTT(30) DEF RenameChild, Leave
  <2>2. op = "rename"
    BY <1>7, SMTT(30) DEF RenameChild
  <2> DEFINE H == removeChildren(g, c, node)
  <2>3. Sound(H) /\ EdgesIn(H) /\ H.nodes \in [Name -> Value] /\ Nodes(H) = Nodes(g)
    BY SMTT(30), RemoveChildrenNodes, RemoveChildrenSound
  <2>4. \/ g' = H /\ op' = "none"
        \/ /\ g' = addChildren(H, c, target)
           /\ left2' = left2 \ {c}
           /\ UNCHANGED <<op, node, target, left>>
    BY SMTT(30), <2>1
  <2> HIDE DEF H
  <2>5. c \in Nodes(H) /\ target \in Nodes(H) /\ target \in Name
    BY <2>2, <2>3, SMTT(30) DEF Nodes
  <2> QED
    BY SMTT(30), <2>2, <2>3, <2>4, <2>5, AddChildrenNodes
<1>8. CASE RenameRemove
  BY <1>8, RemoveNodes, SMTT(30) DEF RenameRemove, Leave
<1>9. CASE UNCHANGED vars
  BY <1>9, SMTT(30) DEF vars
<1>10. ASSUME NEW n \in Name
       PROVE  ~SubGraph(n) /\ ~CopyNodeAndChildren(n)
  BY SMTT(30) DEF SubGraph, CopyNodeAndChildren
<1>11. ~Clone /\ ~MergeRemove /\ ~MergeRemoveNode /\ ~MergeAdd /\ ~MergeAddNode
       /\ ~LinkChild /\ ~Return
  BY SMTT(30) DEF Clone, MergeRemove, MergeRemoveNode, MergeAdd, MergeAddNode, LinkChild, Return
<1>12. CASE \E n \in Name : AddNode(n) \/ Remove_(n)
  BY SMTT(30), <1>1, <1>2, <1>12
<1>13. CASE \E c, p \in Name : AddChildren(c, p) \/ RemoveChildren(c, p) \/ RenameNode(c, p)
  BY SMTT(30), <1>3, <1>4, <1>5, <1>13
<1>14. \/ \E n \in Name : AddNode(n) \/ Remove_(n)
       \/ \E c, p \in Name : AddChildren(c, p) \/ RemoveChildren(c, p) \/ RenameNode(c, p)
       \/ RenameParent \/ RenameChild \/ RenameRemove \/ UNCHANGED vars
  BY <1>10, <1>11, SMTT(30) DEF Next
<1> QED
  BY <1>6, <1>7, <1>8, <1>9, <1>12, <1>13, <1>14

\* Removing or renaming a node leaves no edge behind: whatever an edge mentions
\* is in the graph.  Linking a child that has not been added breaks this.
THEOREM EdgesInGraphHolds ==
    ~WithOther /\ ~MissingChild => (Spec => []EdgesInGraph)
<1> SUFFICES ASSUME ~WithOther, ~MissingChild PROVE Spec => []EdgesInGraph
  OBVIOUS
<1>1. Init => Closed
  BY SMTT(30), InitClosed
<1>2. Closed /\ [Next]_vars => Closed'
  BY SMTT(30), NextClosed
<1>3. Closed => EdgesInGraph
  BY DEF Closed, EdgesIn, EdgesInGraph
<1> QED
  BY <1>1, <1>2, <1>3, PTL DEF Spec
=============================================================================
