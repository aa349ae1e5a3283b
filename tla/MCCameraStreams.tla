--------------------------- MODULE MCCameraStreams ---------------------------
(* CameraStreams for TLC: cameras are interchangeable. *)
EXTENDS CameraStreams, TLC

Sym == Permutations(Camera)
=============================================================================
