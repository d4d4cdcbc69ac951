------------------------------ MODULE RcmCalls ------------------------------
(***************************************************************************)
(* What an RCM client instance promises the threads that share it: a call  *)
(* message goes to the server and comes back, and the thread that sent it  *)
(* is the one that gets it back, exactly once.  How the replies of many    *)
(* threads are sorted out of one message queue is the business of          *)
(* RcmClient, which implements this module.                                *)
(***************************************************************************)
CONSTANTS Threads, Msgs, NoThread

VARIABLES owner,   \* the thread that allocated the message, or NoThread
          phase    \* where the message is in its call

callVars == <<owner, phase>>

CallInit ==
    /\ owner = [m \in Msgs |-> NoThread]
    /\ phase = [m \in Msgs |-> "free"]

Move(m, from, to) ==
    /\ phase[m] = from
    /\ phase' = [phase EXCEPT ![m] = to]

Allocate(t, m) == Move(m, "free", "client") /\ owner' = [owner EXCEPT ![m] = t]

Send(t, m) == owner[m] = t /\ Move(m, "client", "server") /\ UNCHANGED owner

Reply(m) == Move(m, "server", "replied") /\ UNCHANGED owner

Receive(t, m) == owner[m] = t /\ Move(m, "replied", "client") /\ UNCHANGED owner

Release(t, m) ==
    /\ owner[m] = t
    /\ Move(m, "client", "free")
    /\ owner' = [owner EXCEPT ![m] = NoThread]

CallNext ==
    \E m \in Msgs :
        \/ Reply(m)
        \/ \E t \in Threads :
              Allocate(t, m) \/ Send(t, m) \/ Receive(t, m) \/ Release(t, m)

CallSpec == CallInit /\ [][CallNext]_callVars
=============================================================================
