---------------------------- MODULE MCDataCapture ----------------------------
(* DataCapture for TLC.                                                      *)
EXTENDS DataCapture, TLC

Sym == Permutations(Reading) \union Permutations(Uploader)
==============================================================================
