---------------------------- MODULE MCResourceGraph ----------------------------
(* ResourceGraph for TLC.                                                      *)
EXTENDS ResourceGraph

Sym == Permutations(Name)

\* One graph over all names, or two that mention three of them between them.
Mentioned(G) == Nodes(G) \union {n \in Name : \E u \in Name : G.tc[u][n] > 0}
Small == other = Empty \/ Cardinality(Mentioned(g) \union Mentioned(other)) <= 3
=============================================================================
