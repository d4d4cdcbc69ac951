---------------------------- MODULE MCSmoothZoom ----------------------------
(* Six zoom stages, enough for a zoom that starts, is turned round and is  *)
(* stopped between its ends; indices wrap at 32 instead of 2^32.           *)
EXTENDS SmoothZoom

MCStages == 6
MCModulus == 32
=============================================================================
