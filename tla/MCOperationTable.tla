--------------------------- MODULE MCOperationTable ---------------------------
(* OperationTable for TLC.                                                     *)
EXTENDS OperationTable, TLC

Sym == Permutations(Rpc) \union Permutations(OpId)
=============================================================================
