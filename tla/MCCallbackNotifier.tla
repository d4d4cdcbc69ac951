------------------------- MODULE MCCallbackNotifier -------------------------
(***************************************************************************)
(* The callback notifier for TLC: two image buffers and two encoders, so   *)
(* that both frames of a burst can be with encoders at once; a burst of    *)
(* three fills a returned buffer again.                                    *)
(***************************************************************************)
EXTENDS CallbackNotifier

CONSTANTS b1, b2, e1, e2

MCBuffers == {b1, b2}
MCEncoders == {e1, e2}
MCBursts == {1, 3}
=============================================================================
