---------------------------- MODULE ResourceGraph ----------------------------
(***************************************************************************)
(* resource.Graph (resource/resource_graph.go): the resources of a robot   *)
(* and what they depend on.  A child depends on its parents.  Besides the  *)
(* two adjacency maps the graph keeps, for every pair of nodes, the number *)
(* of dependency paths between them (transitiveClosureMatrix), updates it  *)
(* incrementally, and answers from it whether an edge closes a cycle and   *)
(* what a subgraph contains.                                               *)
(*                                                                         *)
(* A graph is a record.  A map entry that is missing and one that is empty *)
(* read alike in the code, and are one here; so are a missing row and a    *)
(* row of zeros.  A removed node keeps its column in the other rows.  The  *)
(* matrix is updated in place by the code: as no path leads from a parent  *)
(* to its child, no entry that is read has been written before.            *)
(*                                                                         *)
(* Every exported method holds the lock throughout.  Those that loop over  *)
(* a map are one step per round, in any order; no other method starts      *)
(* while one is under way (op).                                            *)
(***************************************************************************)
EXTENDS Integers, Sequences, FiniteSets, SequencesExt

CONSTANTS
    Name,          \* resource names
    WithOther,     \* whether methods that take a second graph are called
    MissingChild,  \* whether AddChildren is called for a child not yet added
    Nil            \* no name

ASSUME ConstantsOK ==
    /\ IsFiniteSet(Name)
    /\ WithOther \in BOOLEAN
    /\ MissingChild \in BOOLEAN
    /\ Nil \notin Name

VARIABLES
    g,             \* the graph
    other,         \* a second one, cloned or cut out of it earlier
    op,            \* the method under way, "none" between methods
    node, target,  \* its arguments: the node; the new name of RenameNode
    left, left2,   \* the nodes its loops have still to visit
    sorted,        \* the rest of the sort MergeAdd goes through
    before         \* history: the graph when the method started

vars == <<g, other, op, node, target, left, left2, sorted, before>>

Value == {"absent", "nil", "resource"}

Graph == [nodes : [Name -> Value],
          children : [Name -> SUBSET Name],
          parents : [Name -> SUBSET Name],
          tc : [Name -> [Name -> Nat]]]

\* NewGraph
Empty == [nodes |-> [n \in Name |-> "absent"],
          children |-> [n \in Name |-> {}],
          parents |-> [n \in Name |-> {}],
          tc |-> [u \in Name |-> [v \in Name |-> 0]]]

Nodes(G) == {n \in Name : G.nodes[n] # "absent"}

-----------------------------------------------------------------------------
(* The unexported methods, as functions of the graph *)

getAllChildrenOf(G, n) == {k \in Name : n \in Nodes(G) /\ n \in G.parents[k]}
getAllParentOf(G, n) == {k \in Name : n \in Nodes(G) /\ n \in G.children[k]}
roots(G) == {n \in Nodes(G) : G.parents[n] = {}}

leaves(G) == {n \in Nodes(G) : G.children[n] = {}}

DirectlyDependingOn(G, n, child) ==
    n = child \/ n \in G.parents[child]

isNodeDependingOn(G, n, child) ==
    n \in Nodes(G) /\ child \in Nodes(G) /\ G.tc[child][n] # 0

addNode(G, n, v) ==
    [nodes |-> [G.nodes EXCEPT ![n] = v],
     children |-> G.children,
     parents |-> G.parents,
     tc |-> [G.tc EXCEPT ![n] = [@ EXCEPT ![n] = 1]]]

addTransitiveClosureOneWay(tc, child, parent) ==
    [u \in Name |-> [v \in Name |->
        IF u = child THEN tc[u][v] + tc[parent][v] ELSE tc[u][v]]]

addTransitiveClosure(tc, child, parent) ==
    [u \in Name |-> [v \in Name |-> tc[u][v] + tc[u][child] * tc[parent][v]]]

removeTransitiveClosure(tc, child, parent) ==
    [u \in Name |-> [v \in Name |-> tc[u][v] - tc[u][child] * tc[parent][v]]]

\* removeTransitiveClosure for a sequence of edges <<child, parent>>.
removeClosures(tc, edges) ==
    LET f[i \in 0..Len(edges)] ==
          IF i = 0 THEN tc
          ELSE removeTransitiveClosure(f[i - 1], edges[i][1], edges[i][2])
    IN  f[Len(edges)]

\* addChildren refuses an edge to itself and one that closes a cycle.
addChildrenFails(G, child, parent) ==
    \/ child = parent
    \/ parent \in Nodes(G) /\ G.tc[parent][child] # 0

\* A parent that is not in the graph is added without a resource.
withParent(G, parent) ==
    IF parent \in Nodes(G) THEN G ELSE addNode(G, parent, "nil")

addChildren(G, child, parent) ==
    LET H == withParent(G, parent)
    IN  IF parent \in H.parents[child] THEN H
        ELSE [nodes |-> H.nodes,
              children |-> [H.children EXCEPT ![parent] = @ \union {child}],
              parents |-> [H.parents EXCEPT ![child] = @ \union {parent}],
              tc |-> addTransitiveClosure(H.tc, child, parent)]

removeChildren(G, child, parent) ==
    [nodes |-> G.nodes,
     children |-> [G.children EXCEPT ![parent] = @ \ {child}],
     parents |-> [G.parents EXCEPT ![child] = @ \ {parent}],
     tc |-> removeTransitiveClosure(G.tc, child, parent)]

\* The orders in which remove may take the edges of a node out of the matrix:
\* those to its parents first.
removalOrders(G, n) ==
    {s \o t : s \in SetToSeqs({n} \X G.parents[n]), t \in SetToSeqs(G.children[n] \X {n})}

remove(G, n, edges) ==
    [nodes |-> [G.nodes EXCEPT ![n] = "absent"],
     children |-> [k \in Name |-> IF k = n THEN {} ELSE G.children[k] \ {n}],
     parents |-> [k \in Name |-> IF k = n THEN {} ELSE G.parents[k] \ {n}],
     tc |-> [removeClosures(G.tc, edges) EXCEPT ![n] = [v \in Name |-> 0]]]

removeOne(G, n) == remove(G, n, CHOOSE edges \in removalOrders(G, n) : TRUE)

\* TopologicalSort repeatedly takes off the leaves; layer i of the result may
\* come in any order.
layers(G) ==
    LET cut[i \in 0..Cardinality(Name)] ==
          IF i = 0 THEN G ELSE FoldSet(LAMBDA n, H : removeOne(H, n), cut[i - 1], leaves(cut[i - 1]))
    IN  [i \in 1..Cardinality(Name) |-> leaves(cut[i - 1])]

TopologicalSorts(G) ==
    LET L == layers(G)
        all[i \in 0..Cardinality(Name)] ==
          IF i = 0 THEN {<< >>} ELSE {s \o t : s \in all[i - 1], t \in SetToSeqs(L[i])}
    IN  all[Cardinality(Name)]

\* SubGraphFrom removes, in the reverse of the order s, what does not depend on n.
SubGraphFrom(G, n, s) ==
    LET cut[i \in 0..Len(s)] ==
          IF i = 0 THEN G
          ELSE LET m == s[Len(s) + 1 - i]
               IN  IF isNodeDependingOn(cut[i - 1], n, m) THEN cut[i - 1]
                   ELSE removeOne(cut[i - 1], m)
    IN  cut[Len(s)]

-----------------------------------------------------------------------------
(* The exported methods *)

TypeOK ==
    /\ g \in Graph
    /\ other \in Graph
    /\ op \in {"none", "rename", "mergeAdd", "mergeRemove", "copy"}
    /\ node \in Name \union {Nil}
    /\ target \in Name \union {Nil}
    /\ left \subseteq Name
    /\ left2 \subseteq Name
    /\ sorted \in Seq(Name)
    /\ before \in Graph

Init ==
    /\ g = Empty
    /\ other = Empty
    /\ op = "none"
    /\ node = Nil /\ target = Nil
    /\ left = {} /\ left2 = {}
    /\ sorted = << >>
    /\ before = Empty

\* A method that does its work in one step.
Quick(G) ==
    /\ op = "none"
    /\ g' = G
    /\ UNCHANGED <<other, op, node, target, left, left2, sorted, before>>

\* A method that loops is entered, and left.
Enter(method, n, t, first, second) ==
    /\ op = "none"
    /\ op' = method
    /\ node' = n
    /\ target' = t
    /\ left' = first
    /\ left2' = second
    /\ before' = g

Leave ==
    /\ op' = "none"
    /\ left' = {}
    /\ left2' = {}
    /\ sorted' = << >>
    /\ before' = Empty
    /\ node' = Nil
    /\ target' = Nil
    /\ UNCHANGED other

AddNode(n) == Quick(addNode(g, n, "resource"))

AddChildren(child, parent) ==
    /\ MissingChild \/ child \in Nodes(g)
    /\ ~addChildrenFails(g, child, parent)
    /\ Quick(addChildren(g, child, parent))

\* Callers unlink edges that GetAllParentsOf has listed.
RemoveChildren(child, parent) ==
    /\ parent \in getAllParentOf(g, child)
    /\ Quick(removeChildren(g, child, parent))

Remove_(n) ==
    \E edges \in removalOrders(g, n) : Quick(remove(g, n, edges))

\* RenameNode: the new node is added, the edges move over one by one, first
\* those to the parents, then those of the children, and the old node goes.
RenameNode(old, new) ==
    /\ old \in Nodes(g) /\ new \notin Nodes(g)
    /\ Enter("rename", old, new, getAllParentOf(g, old), getAllChildrenOf(g, old))
    /\ g' = addNode(g, new, g.nodes[old])
    /\ UNCHANGED <<other, sorted>>

RenameParent ==
    /\ op = "rename"
    /\ \E p \in left :
         LET H == removeChildren(g, node, p)
         IN  IF addChildrenFails(H, target, p)
             THEN g' = H /\ Leave
             ELSE /\ g' = addChildren(H, target, p)
                  /\ left' = left \ {p}
                  /\ UNCHANGED <<other, op, node, target, left2, sorted, before>>

RenameChildKeepsOld ==
    /\ op = "rename" /\ left = {}
    /\ \E c \in left2 :
         /\ g' = removeChildren(g, c, node)
         /\ left2' = left2 \ {c}
    /\ UNCHANGED <<other, op, node, target, left, sorted, before>>

RenameChild ==
    /\ op = "rename" /\ left = {}
    /\ \E c \in left2 :
         LET H == removeChildren(g, c, node)
         IN  IF addChildrenFails(H, c, target)
             THEN g' = H /\ Leave
             ELSE /\ g' = addChildren(H, c, target)
                  /\ left2' = left2 \ {c}
                  /\ UNCHANGED <<other, op, node, target, left, sorted, before>>

RenameRemove ==
    /\ op = "rename" /\ left = {} /\ left2 = {}
    /\ \E edges \in removalOrders(g, node) : g' = remove(g, node, edges)
    /\ Leave

\* Clone, and SubGraphFrom.
Clone ==
    /\ WithOther /\ op = "none"
    /\ other' = g
    /\ UNCHANGED <<g, op, node, target, left, left2, sorted, before>>

SubGraph(n) ==
    /\ WithOther /\ op = "none"
    /\ n \in Nodes(g)
    /\ \E s \in TopologicalSorts(g) : other' = SubGraphFrom(g, n, s)
    /\ UNCHANGED <<g, op, node, target, left, left2, sorted, before>>

MergeRemove ==
    /\ WithOther
    /\ Enter("mergeRemove", Nil, Nil, Nodes(other), {})
    /\ UNCHANGED <<g, other, sorted>>

MergeRemoveNode ==
    /\ op = "mergeRemove"
    /\ \E n \in left :
         /\ \E edges \in removalOrders(g, n) : g' = remove(g, n, edges)
         /\ left' = left \ {n}
    /\ UNCHANGED <<other, op, node, target, left2, sorted, before>>

\* MergeAdd goes through the other graph, children first.
MergeAdd ==
    /\ WithOther
    /\ Enter("mergeAdd", Nil, Nil, {}, {})
    /\ sorted' \in TopologicalSorts(other)
    /\ UNCHANGED <<g, other>>

MergeAddParentsFirst ==
    /\ op = "mergeAdd" /\ left = {} /\ sorted # << >>
    /\ LET n == Last(sorted)
       IN  /\ \E edges \in removalOrders(g, n) :
                 g' = addNode(remove(g, n, edges), n, other.nodes[n])
           /\ node' = n
           /\ left' = getAllChildrenOf(other, n)
    /\ sorted' = Front(sorted)
    /\ UNCHANGED <<other, op, target, left2, before>>

\* A node with a resource is replaced, one without is filled in.
MergeAddNode ==
    /\ op = "mergeAdd" /\ left = {} /\ sorted # << >>
    /\ LET n == Head(sorted)
       IN  /\ \/ /\ g.nodes[n] = "resource"
                 /\ \E edges \in removalOrders(g, n) :
                       g' = addNode(remove(g, n, edges), n, other.nodes[n])
              \/ /\ g.nodes[n] # "resource"
                 /\ g' = addNode(g, n, other.nodes[n])
           /\ node' = n
           /\ left' = getAllChildrenOf(other, n)
    /\ sorted' = Tail(sorted)
    /\ UNCHANGED <<other, op, target, left2, before>>

\* The loop that MergeAdd and CopyNodeAndChildren share: one child of the node
\* in the other graph is linked; a cycle ends the method.
LinkChild ==
    /\ op \in {"mergeAdd", "copy"}
    /\ \E c \in left :
         LET H == IF op = "copy" /\ c \notin Nodes(g) THEN addNode(g, c, "nil") ELSE g
         IN  IF addChildrenFails(H, c, node)
             THEN g' = H /\ Leave
             ELSE /\ g' = addChildren(H, c, node)
                  /\ left' = left \ {c}
                  /\ UNCHANGED <<other, op, node, target, left2, sorted, before>>

CopyNodeAndChildren(n) ==
    /\ WithOther
    /\ n \in Nodes(other)
    /\ Enter("copy", n, Nil, getAllChildrenOf(other, n), {})
    /\ g' = addNode(g, n, other.nodes[n])
    /\ UNCHANGED <<other, sorted>>

\* The loops are through.
Return ==
    /\ op \in {"mergeAdd", "mergeRemove", "copy"}
    /\ left = {} /\ sorted = << >>
    /\ Leave
    /\ UNCHANGED g

Next ==
    \/ \E n \in Name : AddNode(n) \/ Remove_(n) \/ SubGraph(n)
                       \/ CopyNodeAndChildren(n)
    \/ \E c, p \in Name : AddChildren(c, p) \/ RemoveChildren(c, p) \/ RenameNode(c, p)
    \/ RenameParent \/ RenameChild \/ RenameRemove
    \/ Clone \/ MergeRemove \/ MergeRemoveNode \/ MergeAdd \/ MergeAddNode
    \/ LinkChild \/ Return

Spec == Init /\ [][Next]_vars

-----------------------------------------------------------------------------
(* Reference definitions *)

\* The number of dependency paths from u to v, by their length.
Paths(G) ==
    LET walks[i \in 0..Cardinality(Name)] ==
          [u \in Name |-> [v \in Name |->
             IF i = 0 THEN IF u = v THEN 1 ELSE 0
             ELSE MapThenSumSet(LAMBDA p : walks[i - 1][p][v], G.parents[u])]]
    IN  [u \in Name |-> [v \in Name |->
           MapThenSumSet(LAMBDA i : walks[i][u][v], 0..Cardinality(Name))]]

\* G with old and new exchanged.
Renamed(G, old, new) ==
    LET swap(n) == CASE n = old -> new [] n = new -> old [] OTHER -> n
    IN  [nodes |-> [n \in Name |-> G.nodes[swap(n)]],
         parents |-> [n \in Name |-> {swap(p) : p \in G.parents[swap(n)]}]]

-----------------------------------------------------------------------------
(* What holds *)

\* The two adjacency maps mirror each other, also half way through a method:
\* getAllChildrenOf reads the one, leaves and getAllParentOf the other.
Mirror ==
    \A c, p \in Name : c \in g.children[p] <=> p \in g.parents[c]

\* Both ends of an edge are in the graph: removal leaves no edge behind that
\* would keep a node from ever becoming a leaf.
EdgesInGraph ==
    \A c, p \in Name : p \in g.parents[c] => {c, p} \subseteq Nodes(g)

\* The matrix counts the paths of the graph, of which there are finitely many: the
\* entries are what addTransitiveClosure and removeTransitiveClosure keep adding to and
\* taking from, across every method.
CountsPaths ==
    LET P == Paths(g)
    IN  \A u, v \in Nodes(g) : g.tc[u][v] = P[u][v]

\* A sort lists every node once, and dependents before what they depend on:
\* the order in which resources are closed, and in reverse configured.
SortIsTopological ==
    op = "none" => \A s \in TopologicalSorts(g) :
       /\ Len(s) = Cardinality(Nodes(g)) /\ ToSet(s) = Nodes(g)
       /\ \A i, j \in 1..Len(s) : s[j] \in g.parents[s[i]] => i < j

\* A subgraph holds the nodes that depend on the given one, all their edges
\* among each other, and path counts of its own.
SubGraphIsExact ==
    LET P == Paths(g)
    IN  op = "none" => \A n \in Nodes(g) :
          LET keep == {m \in Nodes(g) : P[m][n] > 0}
          IN  \A S \in {SubGraphFrom(g, n, s) : s \in TopologicalSorts(g)} :
                 LET Q == Paths(S)
                 IN  /\ Nodes(S) = keep
                     /\ \A m \in keep : S.parents[m] = g.parents[m] \intersect keep
                     /\ \A u, v \in keep : S.tc[u][v] = Q[u][v]

\* RenameNode keeps the dependencies: the graph it leaves is the one it found
\* with one name replaced; it never fails half way.
RenameKeeps ==
    [][op = "rename" /\ op' = "none" =>
         LET R == Renamed(before, node, target)
         IN  g'.nodes = R.nodes /\ g'.parents = R.parents]_vars

\* When MergeAdd succeeds, every node and every edge of the other graph is in
\* this one, and a node that was not in the other keeps its resource.
MergeAddContains ==
    [][op = "mergeAdd" /\ op' = "none" /\ left = {} =>
         \A n \in Name :
            IF n \in Nodes(other)
            THEN g'.nodes[n] = other.nodes[n] /\ other.parents[n] \subseteq g'.parents[n]
            ELSE g'.nodes[n] = before.nodes[n]]_vars
==============================================================================
