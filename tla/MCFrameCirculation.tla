------------------------- MODULE MCFrameCirculation -------------------------
(* Two and three preview buffers; all but one are queueable, as the window *)
(* keeps at least one buffer for itself.                                   *)
EXTENDS FrameCirculation

CONSTANTS b1, b2, b3

MCTwoBuffers == {b1, b2}
MCThreeBuffers == {b1, b2, b3}
MCOneQueueable == {b1}
MCTwoQueueable == {b1, b2}
=============================================================================
