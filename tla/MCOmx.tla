------------------------------- MODULE MCOmx -------------------------------
(* The OMX adapter for TLC: its bounds are numbers, given in omx.cfg.      *)
EXTENDS OmxAdapter
=============================================================================
