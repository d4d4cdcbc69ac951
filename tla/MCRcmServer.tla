---------------------------- MODULE MCRcmServer -----------------------------
(* An in-band default pool, and one pool with two workers for the jobs, so *)
(* that jobs are acquired and released by the server thread while workers  *)
(* run.  Three messages: one executed and two that wait, or a release next *)
(* to them.  One job id, which comes round at once.                        *)
EXTENDS RcmServer

CONSTANTS m1, m2, m3, w1, w2

MCMsgs == {m1, m2, m3}
MCWorkers == {w1, w2}
MCPoolOf == [w \in MCWorkers |-> 1]

Call(type, j, p) == [type |-> type, job |-> j, pool |-> p, target |-> 0]

(* Calls of a job stream and discrete ones, an unknown pool, a deferred    *)
(* call, and the requests for jobs, which clients send to the default pool. *)
MCRequests ==
    { Call("msg", 1, 1), Call("msg", 0, 1), Call("dpc", 1, 1), Call("msg", 0, 2),
      Call("acq", 0, 0), [type |-> "rel", job |-> 0, pool |-> 0, target |-> 1] }
=============================================================================
