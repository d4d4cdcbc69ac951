---------------------------- MODULE MCRcmClient -----------------------------
(* Three callers and two message blocks: a mailman and a recipient, or a   *)
(* caller that has gone away, and a third that takes over a block and the  *)
(* locks as they come free.                                                *)
EXTENDS RcmClient

CONSTANTS t1, t2, t3, m1, m2

MCThreads == {t1, t2, t3}
MCMsgs == {m1, m2}
=============================================================================
