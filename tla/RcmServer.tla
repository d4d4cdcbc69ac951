----------------------------- MODULE RcmServer -----------------------------
(***************************************************************************)
(* An RCM server: the server thread takes messages from its queue and      *)
(* executes them itself (in-band, when the default pool has no workers) or *)
(* hands them to the worker threads of a static pool.  Messages of a job   *)
(* stream are executed one after the other, in the order they came: one of *)
(* them at a time is in a ready queue or with a worker, the rest wait in   *)
(* the queue of the job.  RcmServer_delete() ends the threads and returns  *)
(* what they have not executed.                                            *)
(*                                                                         *)
(* A critical section under obj->gate is one step.  Operations of the      *)
(* lists, semaphores and the message queue do not fail.                    *)
(***************************************************************************)
EXTENDS Integers, Sequences, FiniteSets

CONSTANTS Msgs,       \* the message blocks of the clients
          Workers,    \* the worker threads
          PoolCount,  \* poolMap0Len: the pools are 0 .. PoolCount - 1
          PoolOf,     \* the pool of each worker
          Requests,   \* what a client may write into a message
          JobIdMax,   \* 0xFFFF in the code
          None

Pools == 0 .. PoolCount - 1
JobIds == 1 .. JobIdMax
DEFAULTPOOLID == 0
DISCRETEJOBID == 0
Server == "server"
Threads == Workers \cup {Server}

(* The work a message asks for: "msg" is a call, command or symbol lookup, *)
(* whose message is handed back at the end.                                *)
Types == {"msg", "dpc", "acq", "rel"}

ASSUME ServerAssumption ==
    /\ PoolCount \in Nat \ {0} /\ JobIdMax \in Nat \ {0}
    /\ IsFiniteSet(Workers) /\ Server \notin Workers
    /\ PoolOf \in [Workers -> Pools]
    /\ Requests \subseteq [type : Types, job : JobIds \cup {DISCRETEJOBID}, pool : Nat,
                           target : JobIds \cup {DISCRETEJOBID}]
    /\ None \notin Msgs \cup Requests

VARIABLES
    request,      \* what each message asks for, None while the client has it
    serverQue,    \* the inbound queue
    ready, sem,   \* of each pool: the ready queue and its counting semaphore
    jobList,      \* ids of the job streams
    empty,        \* the job streams whose flag `empty' is set
    msgQue,       \* of each job stream: the messages that wait
    jobId,        \* the id handed out last
    pc, held, job,  \* of each thread: where it is, its packet, its local jobId
    running,      \* the local of the server thread
    shutdown, terminate,
    finalize,     \* progress of RcmServer_delete(): its step and the pool it is at
    stream        \* history: the messages of each job in order of arrival, not yet executed

queues == <<ready, sem>>
jobs == <<jobList, empty, msgQue, jobId, stream>>
threads == <<pc, held, job, running>>
ending == <<shutdown, terminate, finalize>>
vars == <<request, serverQue, queues, jobs, threads, ending>>

Init ==
    /\ request = [m \in Msgs |-> None]
    /\ serverQue = <<>>
    /\ ready = [p \in Pools |-> <<>>] /\ sem = [p \in Pools |-> 0]
    /\ jobList = {} /\ empty = {} /\ msgQue = [j \in JobIds |-> <<>>]
    /\ jobId = JobIdMax
    /\ stream = [j \in JobIds |-> <<>>]
    /\ pc = [t \in Threads |-> IF t = Server THEN "start" ELSE "pend"]
    /\ held = [t \in Threads |-> None]
    /\ job = [t \in Threads |-> DISCRETEJOBID]
    /\ running = TRUE /\ shutdown = FALSE
    /\ terminate = [p \in Pools |-> FALSE]
    /\ finalize = [step |-> "none", pool |-> 0]

-----------------------------------------------------------------------------
Elems(s) == {s[i] : i \in DOMAIN s}
WorkersOf(p) == {w \in Workers : PoolOf[w] = p}
Goto(t, point) == pc' = [pc EXCEPT ![t] = point]

(* Messages go back to their clients: as replies, or freed. *)
GiveBack(S) == request' = [m \in Msgs |-> IF m \in S THEN None ELSE request[m]]

(* List_put() on a ready queue and the post of its semaphore. *)
MakeReady(m) ==
    /\ ready' = [ready EXCEPT ![request[m].pool] = Append(@, m)]
    /\ sem' = [sem EXCEPT ![request[m].pool] = @ + 1]

-----------------------------------------------------------------------------
(* A client sends a message.  Once the server is being deleted it does not *)
(* acquire jobs any more.                                                  *)
SendRequest(m, r) ==
    /\ request[m] = None
    /\ finalize.step # "done"
    /\ shutdown => r.type # "acq"
    /\ request' = [request EXCEPT ![m] = r]
    /\ serverQue' = Append(serverQue, m)
    /\ UNCHANGED <<queues, jobs, threads, ending>>

(* RcmServer_start() releases the server thread. *)
Start ==
    /\ pc[Server] = "start"
    /\ Goto(Server, "get")
    /\ UNCHANGED <<request, serverQue, queues, jobs, held, job, running, ending>>

-----------------------------------------------------------------------------
(* The next id that is not in the list, from the last one on, 0xFFFF being *)
(* followed by 1.                                                          *)
IsNextJobId(i) ==
    LET distance(k) == (k - jobId - 1) % JobIdMax
    IN  \A k \in JobIds \ jobList : distance(i) <= distance(k)

(* The messages of a job that are in a ready queue or with a worker, the   *)
(* ones of a job that has been released included.                          *)
ReadyOf(j) == {m \in UNION {Elems(ready[p]) : p \in Pools} : request[m].job = j}
BusyWith(j) == {w \in Workers : job[w] = j}

(* _RcmServer_acqJobId(): fails when every id is in use.  The 2^16 - 1 ids *)
(* do not come round while a message of a released job is being executed.  *)
(* left: the history of the streams, without the request itself.           *)
AcqJobId(left) ==
    /\ IF jobList = JobIds
       THEN UNCHANGED <<jobList, empty, jobId>>
       ELSE \E i \in JobIds \ jobList :
              /\ IsNextJobId(i)
              /\ ReadyOf(i) = {} /\ BusyWith(i) = {}
              /\ jobId' = i
              /\ jobList' = jobList \cup {i}
              /\ empty' = empty \cup {i}
    /\ stream' = left
    /\ UNCHANGED msgQue

(* Mutant: the messages that are returned stay in the queue. *)
RelJobIdKeepsQueue(j, left) ==
    /\ jobList' = jobList \ {j}
    /\ empty' = empty \ {j}
    /\ stream' = IF j \in jobList THEN [left EXCEPT ![j] = <<>>] ELSE left
    /\ UNCHANGED <<jobId, msgQue>>

(* _RcmServer_relJobId(): the messages that wait go back unprocessed; the  *)
(* one being executed is left alone.                                       *)
RelJobId(j, left) ==
    /\ jobList' = jobList \ {j}
    /\ empty' = empty \ {j}
    /\ msgQue' = IF j \in jobList THEN [msgQue EXCEPT ![j] = <<>>] ELSE msgQue
    /\ stream' = IF j \in jobList THEN [left EXCEPT ![j] = <<>>] ELSE left
    /\ UNCHANGED jobId

Waiting(j) == IF j \in jobList THEN Elems(msgQue[j]) ELSE {}

(* A message of a job leaves the stream when a worker executes it. *)
Executed(t) ==
    IF t \in Workers /\ job[t] \in jobList THEN [stream EXCEPT ![job[t]] = Tail(@)] ELSE stream

(* Where a thread goes when a message has been processed. *)
Processed(t) ==
    CASE t = Server -> IF running THEN "get" ELSE "gone"
      [] t # Server /\ job[t] = DISCRETEJOBID -> "pend"
      [] t # Server /\ job[t] # DISCRETEJOBID -> "next"

(* _RcmServer_process(): a DPC is answered before its function is called.  *)
Process(t) ==
    LET m == held[t]
        r == request[m]
    IN  /\ \/ r.type \in {"msg", "dpc"} /\ GiveBack({m})
              /\ stream' = Executed(t) /\ UNCHANGED <<jobList, empty, msgQue, jobId>>
           \/ r.type = "acq" /\ GiveBack({m}) /\ AcqJobId(Executed(t))
           \/ r.type = "rel" /\ GiveBack({m} \cup Waiting(r.target))
              /\ RelJobId(r.target, Executed(t))
        /\ held' = [held EXCEPT ![t] = None]
        /\ Goto(t, IF r.type = "dpc" THEN "call" ELSE Processed(t))

CallDpc(t) ==
    /\ pc[t] = "call"
    /\ Goto(t, Processed(t))
    /\ UNCHANGED <<request, serverQue, queues, jobs, held, job, running, ending>>

-----------------------------------------------------------------------------
(* The server thread: MessageQ_get(), and the test of shutdown after it... *)
GetMessage ==
    /\ pc[Server] = "get"
    /\ serverQue # <<>>
    /\ held' = [held EXCEPT ![Server] = Head(serverQue)]
    /\ serverQue' = Tail(serverQue)
    /\ running' = ~ shutdown
    /\ Goto(Server, "handle")
    /\ UNCHANGED <<request, queues, jobs, job, ending>>

(* ...which MessageQ_unblock() ends without a message... *)
Unblocked ==
    /\ pc[Server] = "get"
    /\ shutdown
    /\ Goto(Server, "gone")
    /\ UNCHANGED <<request, serverQue, queues, jobs, held, job, running, ending>>

InBand(r) == r.pool = DEFAULTPOOLID /\ WorkersOf(DEFAULTPOOLID) = {}

(* ...then the message is executed in-band... *)
ServerProcess ==
    /\ pc[Server] = "handle"
    /\ InBand(request[held[Server]])
    /\ Process(Server)
    /\ UNCHANGED <<serverQue, queues, job, running, ending>>

(* Mutant: a message that has to wait goes in front. *)
DispatchInFront(m, r) ==
    \/ /\ r.job = DISCRETEJOBID \/ r.job \in empty
       /\ MakeReady(m)
       /\ empty' = empty \ {r.job}
       /\ stream' = IF r.job \in empty THEN [stream EXCEPT ![r.job] = Append(@, m)] ELSE stream
       /\ UNCHANGED msgQue
    \/ /\ r.job \in jobList \ empty
       /\ msgQue' = [msgQue EXCEPT ![r.job] = <<m>> \o @]
       /\ stream' = [stream EXCEPT ![r.job] = Append(@, m)]
       /\ UNCHANGED <<queues, empty>>

(* _RcmServer_dispatch(): discrete messages and the first message of a job *)
(* are ready at once, others wait for the job's turn.                      *)
Dispatch(m, r) ==
    \/ /\ r.job = DISCRETEJOBID \/ r.job \in empty
       /\ MakeReady(m)
       /\ empty' = empty \ {r.job}
       /\ stream' = IF r.job \in empty THEN [stream EXCEPT ![r.job] = Append(@, m)] ELSE stream
       /\ UNCHANGED msgQue
    \/ /\ r.job \in jobList \ empty
       /\ msgQue' = [msgQue EXCEPT ![r.job] = Append(@, m)]
       /\ stream' = [stream EXCEPT ![r.job] = Append(@, m)]
       /\ UNCHANGED <<queues, empty>>

(* ...or dispatched; a message for an unknown pool or job goes back.       *)
ServerDispatch ==
    /\ pc[Server] = "handle"
    /\ LET m == held[Server]
           r == request[m]
           known == r.pool \in Pools /\ r.job \in jobList \cup {DISCRETEJOBID}
       IN  /\ ~ InBand(r)
           /\ \/ known /\ Dispatch(m, r) /\ UNCHANGED request
              \/ ~ known /\ GiveBack({m}) /\ UNCHANGED <<queues, empty, msgQue, stream>>
    /\ held' = [held EXCEPT ![Server] = None]
    /\ Goto(Server, IF running THEN "get" ELSE "gone")
    /\ UNCHANGED <<serverQue, jobList, jobId, job, running, ending>>

-----------------------------------------------------------------------------
(* A worker thread waits for its pool's semaphore... *)
Pend(w) ==
    /\ pc[w] = "pend"
    /\ sem[PoolOf[w]] > 0
    /\ sem' = [sem EXCEPT ![PoolOf[w]] = @ - 1]
    /\ Goto(w, "take")
    /\ UNCHANGED <<request, serverQue, ready, jobs, held, job, running, ending>>

(* ...ends when it has been told to, or takes a message, if there is one... *)
Take(w) ==
    /\ pc[w] = "take"
    /\ LET queue == ready[PoolOf[w]]
       IN  \/ /\ terminate[PoolOf[w]]
              /\ Goto(w, "gone")
              /\ UNCHANGED <<ready, held, job>>
           \/ /\ ~ terminate[PoolOf[w]]
              /\ IF queue = <<>>
                 THEN Goto(w, "pend") /\ UNCHANGED <<ready, held, job>>
                 ELSE /\ ready' = [ready EXCEPT ![PoolOf[w]] = Tail(queue)]
                      /\ held' = [held EXCEPT ![w] = Head(queue)]
                      /\ job' = [job EXCEPT ![w] = request[Head(queue)].job]
                      /\ Goto(w, "work")
    /\ UNCHANGED <<request, serverQue, sem, jobs, running, ending>>

(* ...executes it... *)
Work(w) ==
    /\ pc[w] = "work"
    /\ Process(w)
    /\ UNCHANGED <<serverQue, queues, job, running, ending>>

(* Mutant: the worker does not signal its own pool. *)
NextOfJobNoPost(w, j) ==
    \/ j \notin jobList /\ UNCHANGED <<queues, empty, msgQue>>
    \/ j \in jobList /\ msgQue[j] = <<>> /\ empty' = empty \cup {j} /\ UNCHANGED <<queues, msgQue>>
    \/ /\ j \in jobList /\ msgQue[j] # <<>>
       /\ msgQue' = [msgQue EXCEPT ![j] = Tail(@)]
       /\ LET p == request[Head(msgQue[j])].pool
          IN  /\ ready' = [ready EXCEPT ![p] = Append(@, Head(msgQue[j]))]
              /\ sem' = [sem EXCEPT ![p] = @ + (IF p = PoolOf[w] THEN 0 ELSE 1)]
       /\ UNCHANGED empty

(* ...and makes the next message of the job ready.  Its pool is known:     *)
(* Dispatch has looked it up.  A job released meanwhile is no error.       *)
NextOfJob(w, j) ==
    \/ j \notin jobList /\ UNCHANGED <<queues, empty, msgQue>>
    \/ j \in jobList /\ msgQue[j] = <<>> /\ empty' = empty \cup {j} /\ UNCHANGED <<queues, msgQue>>
    \/ /\ j \in jobList /\ msgQue[j] # <<>>
       /\ msgQue' = [msgQue EXCEPT ![j] = Tail(@)]
       /\ MakeReady(Head(msgQue[j]))
       /\ UNCHANGED empty

FinishJobMessage(w) ==
    /\ pc[w] = "next"
    /\ NextOfJob(w, job[w])
    /\ job' = [job EXCEPT ![w] = DISCRETEJOBID]
    /\ Goto(w, "pend")
    /\ UNCHANGED <<request, serverQue, jobList, jobId, stream, held, running, ending>>

-----------------------------------------------------------------------------
(***************************************************************************)
(* RcmServer_delete() of a server that has been started, by an application *)
(* that has released its jobs: "there should not be any".  The server      *)
(* thread is joined first, then pool after pool.                           *)
(***************************************************************************)
InServer == {m \in Msgs : request[m] # None}

At(step) == finalize.step = step /\ UNCHANGED <<serverQue, jobs, threads>>

Delete ==
    /\ At("none")
    /\ pc[Server] # "start"
    /\ jobList = {}
    /\ \A m \in InServer : request[m].type # "acq"
    /\ shutdown' = TRUE
    /\ finalize' = [finalize EXCEPT !.step = "server"]
    /\ UNCHANGED <<request, queues, terminate>>

JoinServer ==
    /\ At("server")
    /\ pc[Server] = "gone"
    /\ finalize' = [finalize EXCEPT !.step = "mark"]
    /\ UNCHANGED <<request, queues, shutdown, terminate>>

MarkWorkers ==
    /\ At("mark")
    /\ terminate' = [terminate EXCEPT ![finalize.pool] = TRUE]
    /\ finalize' = [finalize EXCEPT !.step = "post"]
    /\ UNCHANGED <<request, queues, shutdown>>

(* Mutant: one post for the whole pool. *)
PostWorkersOnce ==
    /\ At("post")
    /\ sem' = [sem EXCEPT ![finalize.pool] = @ + 1]
    /\ finalize' = [finalize EXCEPT !.step = "join"]
    /\ UNCHANGED <<request, ready, shutdown, terminate>>

PostWorkers ==
    /\ At("post")
    /\ sem' = [sem EXCEPT ![finalize.pool] = @ + Cardinality(WorkersOf(finalize.pool))]
    /\ finalize' = [finalize EXCEPT !.step = "join"]
    /\ UNCHANGED <<request, ready, shutdown, terminate>>

NextPool ==
    finalize' = IF finalize.pool + 1 = PoolCount
                THEN [step |-> "done", pool |-> 0]
                ELSE [step |-> "mark", pool |-> finalize.pool + 1]

(* Mutant: what is left in the ready queue is not returned. *)
JoinWorkersKeeps ==
    /\ At("join")
    /\ \A w \in WorkersOf(finalize.pool) : pc[w] = "gone"
    /\ NextPool
    /\ UNCHANGED <<request, queues, shutdown, terminate>>

JoinWorkers ==
    /\ At("join")
    /\ \A w \in WorkersOf(finalize.pool) : pc[w] = "gone"
    /\ GiveBack(Elems(ready[finalize.pool]))
    /\ ready' = [ready EXCEPT ![finalize.pool] = <<>>]
    /\ NextPool
    /\ UNCHANGED <<sem, shutdown, terminate>>

-----------------------------------------------------------------------------
ServerStep == GetMessage \/ Unblocked \/ ServerProcess \/ ServerDispatch \/ CallDpc(Server)
WorkerStep(w) == Pend(w) \/ Take(w) \/ Work(w) \/ CallDpc(w) \/ FinishJobMessage(w)
FinalizeStep == JoinServer \/ MarkWorkers \/ PostWorkers \/ JoinWorkers

Next ==
    \/ \E m \in Msgs, r \in Requests : SendRequest(m, r)
    \/ Start \/ Delete
    \/ ServerStep \/ FinalizeStep
    \/ \E w \in Workers : WorkerStep(w)

Spec == Init /\ [][Next]_vars

(* The threads run; nobody has to send, start or delete. *)
FairSpec ==
    /\ Spec
    /\ WF_vars(ServerStep) /\ WF_vars(FinalizeStep)
    /\ \A w \in Workers : WF_vars(WorkerStep(w))

-----------------------------------------------------------------------------
(* The type invariant; ids are 1 .. 0xFFFF. *)
TypeOK ==
    /\ request \in [Msgs -> Requests \cup {None}]
    /\ serverQue \in Seq(Msgs)
    /\ ready \in [Pools -> Seq(Msgs)]
    /\ sem \in [Pools -> Nat]
    /\ jobList \subseteq JobIds /\ empty \subseteq jobList /\ jobId \in JobIds
    /\ msgQue \in [JobIds -> Seq(Msgs)] /\ stream \in [JobIds -> Seq(Msgs)]
    /\ pc \in [Threads -> {"start", "get", "handle", "call", "pend", "take", "work", "next", "gone"}]
    /\ held \in [Threads -> Msgs \cup {None}]
    /\ job \in [Threads -> JobIds \cup {DISCRETEJOBID}]
    /\ running \in BOOLEAN /\ shutdown \in BOOLEAN
    /\ terminate \in [Pools -> BOOLEAN]
    /\ finalize \in [step : {"none", "server", "mark", "post", "join", "done"}, pool : Pools]

(* A set of one element. *)
HasOne(S) == \E x \in S : S = {x}

(* The lines a message may stand in: the inbound queue, the ready queues,  *)
(* the queues of the jobs, and the hands of each thread, a line of one or  *)
(* none.                                                                   *)
Inbound == <<"serverQue", 0>>
Hands(t) == <<"held", t>>
Ready(p) == <<"ready", p>>
Job(j) == <<"job", j>>

Lines == {Inbound} \cup {Hands(t) : t \in Threads} \cup {Ready(p) : p \in Pools}
         \cup {Job(j) : j \in JobIds}

InHands(m) == IF m = None THEN <<>> ELSE <<m>>

Line(l, que, hands, pools, waiting) ==
    CASE l[1] = "serverQue" -> que
      [] l[1] = "held" -> InHands(hands[l[2]])
      [] l[1] = "ready" -> pools[l[2]]
      [] l[1] = "job" -> waiting[l[2]]

LinesOf(que, hands, pools, waiting) == [l \in Lines |-> Line(l, que, hands, pools, waiting)]

(* The places where a message is. *)
Places(m) ==
    LET C == LinesOf(serverQue, held, ready, msgQue)
    IN  UNION {{l} \X {x \in DOMAIN C[l] : C[l][x] = m} : l \in Lines}

(* Every message the clients have sent is in exactly one place: a queue,   *)
(* or a thread's hands.  A list element cannot be in two lists, and a      *)
(* message that was returned must not be in any.                           *)
OnePlace == \A m \in Msgs : IF request[m] = None THEN Places(m) = {} ELSE HasOne(Places(m))

(* Messages of a job are executed one at a time and in the order in which  *)
(* they came: one of them at most is ready or with a worker, the flag      *)
(* `empty' says whether there is none, and it is the oldest.               *)
JobInOrder ==
    /\ \A j \in jobList :
          IF j \in empty THEN ReadyOf(j) = {} /\ BusyWith(j) = {} /\ msgQue[j] = <<>>
          ELSE \/ HasOne(ReadyOf(j)) /\ BusyWith(j) = {}
               \/ ReadyOf(j) = {} /\ HasOne(BusyWith(j))
    /\ \A w \in Workers :
          pc[w] = "work" /\ job[w] \in jobList =>
             stream[job[w]] # <<>> /\ held[w] = Head(stream[job[w]])

(* No wake-up is lost: for every ready message there is a post that no     *)
(* worker has used yet, or a worker on its way to the queue.               *)
PostsCover ==
    \A p \in Pools : ~ terminate[p] =>
       Len(ready[p]) <= sem[p] + Cardinality({w \in WorkersOf(p) : pc[w] = "take"})

(* Every message the server thread has taken is handed back, executed or   *)
(* not, also while the server is being deleted.                            *)
Taken(m) == request[m] # None /\ m \notin Elems(serverQue)
Answered == \A m \in Msgs : Taken(m) ~> request[m] = None

(* RcmServer_delete() returns: the thread of the server and every worker   *)
(* end, whatever they were doing.                                          *)
DeleteReturns == shutdown ~> finalize.step = "done"

-----------------------------------------------------------------------------
(* What PostsCover rests on: the queues hold messages, and the server      *)
(* thread has one when it dispatches.                                      *)
PostsInv ==
    /\ serverQue \in Seq(Msgs) /\ ready \in [Pools -> Seq(Msgs)]
    /\ jobList \subseteq JobIds /\ jobId \in JobIds /\ msgQue \in [JobIds -> Seq(Msgs)]
    /\ sem \in [Pools -> Nat] /\ terminate \in [Pools -> BOOLEAN]
    /\ pc \in [Threads -> {"start", "get", "handle", "call", "pend", "take", "work", "next", "gone"}]
    /\ held \in [Threads -> Msgs \cup {None}]
    /\ pc[Server] = "handle" => held[Server] \in Msgs
    /\ \A w \in Workers : pc[w] # "handle"
    /\ pc[Server] # "take"
    /\ PostsCover

=============================================================================
