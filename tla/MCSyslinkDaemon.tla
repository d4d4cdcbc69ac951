-------------------------- MODULE MCSyslinkDaemon ---------------------------
(* Both cores, with and without an AppM3 image; crashes without bound.     *)
EXTENDS SyslinkDaemon
=============================================================================
