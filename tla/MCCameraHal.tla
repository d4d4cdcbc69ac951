----------------------------- MODULE MCCameraHal -----------------------------
(***************************************************************************)
(* CameraHal and the display adapter for TLC: three buffers, of which the  *)
(* window keeps one.                                                       *)
(***************************************************************************)
EXTENDS CameraHal, TLC

CONSTANTS b1, b2, b3

MCBuffers == {b1, b2, b3}

MCSymmetry == Permutations(MCBuffers)
=============================================================================
