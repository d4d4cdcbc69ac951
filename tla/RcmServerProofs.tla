--------------------------- MODULE RcmServerProofs ---------------------------
(***************************************************************************)
(* No wake-up of a worker of an RCM server is lost, for any number of      *)
(* messages, workers, pools and job streams.                               *)
(***************************************************************************)
EXTENDS RcmServer, FiniteSetTheorems, TLAPS

(* The workers of a pool that are on their way to its ready queue. *)
Takers(f, p) == {w \in WorkersOf(p) : f[w] = "take"}

(* A step puts as many messages into each ready queue as it posts. *)
Balanced ==
    \A p \in Pools : \/ Len(ready'[p]) = Len(ready[p]) /\ sem'[p] = sem[p]
                     \/ Len(ready'[p]) = Len(ready[p]) + 1 /\ sem'[p] = sem[p] + 1

(* A step neither sends a worker to its queue nor brings one from it. *)
TakersSame == \A p \in Pools : Takers(pc', p) = Takers(pc, p)

(* A pool is never told to go on once it has been told to end. *)
TerminateGrows ==
    /\ terminate' \in [Pools -> BOOLEAN]
    /\ \A p \in Pools : terminate[p] => terminate'[p]

(* The part of the invariant that is about types. *)
PostTypes ==
    /\ serverQue \in Seq(Msgs) /\ ready \in [Pools -> Seq(Msgs)]
    /\ jobList \subseteq JobIds /\ jobId \in JobIds /\ msgQue \in [JobIds -> Seq(Msgs)]
    /\ sem \in [Pools -> Nat] /\ terminate \in [Pools -> BOOLEAN]
    /\ pc \in [Threads -> {"start", "get", "handle", "call", "pend", "take", "work", "next", "gone"}]
    /\ held \in [Threads -> Msgs \cup {None}]
    /\ pc[Server] = "handle" => held[Server] \in Msgs
    /\ \A w \in Workers : pc[w] # "handle"
    /\ pc[Server] # "take"

(* The invariant is the types and the cover. *)
LEMMA InvParts == PostsInv <=> PostTypes /\ PostsCover
BY DEF PostsInv, PostTypes

(* There are finitely many workers. *)
LEMMA WorkersFinite ==
    ASSUME NEW f, NEW p
    PROVE  /\ IsFiniteSet(WorkersOf(p)) /\ Cardinality(WorkersOf(p)) \in Nat
           /\ IsFiniteSet(Takers(f, p)) /\ Cardinality(Takers(f, p)) \in Nat
<1>1. WorkersOf(p) \subseteq Workers /\ Takers(f, p) \subseteq Workers
  BY DEF WorkersOf, Takers
<1>2. IsFiniteSet(WorkersOf(p)) /\ IsFiniteSet(Takers(f, p))
  BY <1>1, ServerAssumption, FS_Subset
<1> QED BY <1>2, FS_CardinalityType, Zenon

(* The cover in terms of Takers. *)
LEMMA CoverIs ==
    PostsCover <=> \A p \in Pools : ~ terminate[p] =>
                      Len(ready[p]) <= sem[p] + Cardinality(Takers(pc, p))
BY Zenon DEF PostsCover, Takers

(* A balanced step that moves no worker to or from a queue keeps the cover. *)
LEMMA CoverKept ==
    ASSUME PostsInv, Balanced, TakersSame, TerminateGrows
    PROVE  PostsCover'
<1> SUFFICES ASSUME NEW p \in Pools, ~ terminate'[p]
             PROVE  Len(ready'[p]) <= sem'[p] + Cardinality(Takers(pc', p))
  BY DEF PostsCover, Takers
<1>1. Len(ready[p]) <= sem[p] + Cardinality(Takers(pc, p))
  BY CoverIs DEF PostsInv, TerminateGrows
<1>2. Takers(pc', p) = Takers(pc, p) /\ Cardinality(Takers(pc, p)) \in Nat
  BY WorkersFinite DEF TakersSame
<1>3. ready[p] \in Seq(Msgs) /\ Len(ready[p]) \in Nat /\ sem[p] \in Nat
  BY DEF PostsInv
<1> QED BY <1>1, <1>2, <1>3 DEF Balanced

(* Where nothing happens to the queues the step is balanced. *)
LEMMA QueuesSame == ASSUME UNCHANGED <<ready, sem>> PROVE Balanced
BY DEF Balanced

(* A thread that is not on its way to a queue goes somewhere else. *)
LEMMA GotoElsewhere ==
    ASSUME PostsInv, NEW t \in Threads, NEW point, Goto(t, point), pc[t] # "take", point # "take"
    PROVE  TakersSame
BY Zenon DEF PostsInv, Goto, TakersSame, Takers, WorkersOf, Threads

(* A message made ready is posted. *)
LEMMA MakeReadyBalanced ==
    ASSUME PostsInv, NEW m \in Msgs, MakeReady(m)
    PROVE  Balanced /\ ready' \in [Pools -> Seq(Msgs)] /\ sem' \in [Pools -> Nat]
<1>1. ready' \in [Pools -> Seq(Msgs)] /\ sem' \in [Pools -> Nat]
  <2> DEFINE q == request[m].pool
  <2>0. ready \in [Pools -> Seq(Msgs)] /\ sem \in [Pools -> Nat]
    BY DEF PostsInv
  <2>1. CASE q \in Pools
    <3>1. Append(ready[q], m) \in Seq(Msgs) /\ sem[q] + 1 \in Nat
      BY <2>0, <2>1
    <3> QED BY <2>0, <3>1, Zenon DEF MakeReady
  <2>2. CASE q \notin Pools
    BY <2>0, <2>2, Zenon DEF MakeReady
  <2> QED BY <2>1, <2>2, Zenon
<1>2. ASSUME NEW p \in Pools, p = request[m].pool
      PROVE  Len(ready'[p]) = Len(ready[p]) + 1 /\ sem'[p] = sem[p] + 1
  <2>1. ready'[p] = Append(ready[p], m) /\ sem'[p] = sem[p] + 1 /\ ready[p] \in Seq(Msgs)
    BY <1>2, Zenon DEF PostsInv, MakeReady
  <2> QED BY <2>1
<1>3. ASSUME NEW p \in Pools, p # request[m].pool
      PROVE  Len(ready'[p]) = Len(ready[p]) /\ sem'[p] = sem[p]
  BY <1>3, Zenon DEF PostsInv, MakeReady
<1> QED BY <1>1, <1>2, <1>3, Zenon DEF Balanced

(* Processing a message touches neither the ready queues nor a worker on   *)
(* its way to one.                                                         *)
LEMMA ProcessKeeps ==
    ASSUME PostsInv, NEW t \in Threads, Process(t), pc[t] # "take"
    PROVE  /\ TakersSame /\ jobList' \subseteq JobIds /\ jobId' \in JobIds
           /\ msgQue' \in [JobIds -> Seq(Msgs)]
           /\ held' \in [Threads -> Msgs \cup {None}]
           /\ pc' \in [Threads -> {"start", "get", "handle", "call", "pend", "take", "work", "next", "gone"}]
           /\ \A u \in Threads \ {t} : pc'[u] = pc[u]
           /\ pc'[t] \in {"call", "get", "gone", "pend", "next"}
<1>1. Processed(t) \in {"get", "gone", "pend", "next"}
  BY Zenon DEF Processed
<1>2. PICK point \in {"call", "get", "gone", "pend", "next"} : Goto(t, point)
  BY <1>1, Zenon DEF Process
<1>3. TakersSame
  BY <1>2, GotoElsewhere
<1>4. msgQue' \in [JobIds -> Seq(Msgs)]
  <2>1. msgQue' = msgQue \/ \E j : msgQue' = [msgQue EXCEPT ![j] = <<>>]
    BY Zenon DEF Process, AcqJobId, RelJobId
  <2>2. msgQue \in [JobIds -> Seq(Msgs)] /\ <<>> \in Seq(Msgs)
    BY DEF PostsInv
  <2> QED BY <2>1, <2>2, Zenon
<1>5. held' \in [Threads -> Msgs \cup {None}]
  BY DEF Process, PostsInv
<1>6. /\ pc' \in [Threads -> {"start", "get", "handle", "call", "pend", "take", "work", "next", "gone"}]
      /\ \A u \in Threads \ {t} : pc'[u] = pc[u]
      /\ pc'[t] = point
  BY <1>2, Zenon DEF Goto, PostsInv
<1>7. jobList' \subseteq JobIds /\ jobId' \in JobIds
  <2>1. \/ UNCHANGED <<jobList, jobId>>
        \/ \E i \in JobIds : jobId' = i /\ jobList' = jobList \cup {i}
        \/ jobList' \subseteq jobList /\ jobId' = jobId
    BY Zenon DEF Process, AcqJobId, RelJobId
  <2> QED BY <2>1, Zenon DEF PostsInv
<1> QED BY <1>3, <1>4, <1>5, <1>6, <1>7, Zenon

-----------------------------------------------------------------------------
(* A new server has nothing ready. *)
LEMMA InitPosts == Init => PostsInv
<1> SUFFICES ASSUME Init PROVE PostsInv
  OBVIOUS
<1>1. PostTypes
  <2>1. jobList \subseteq JobIds /\ jobId \in JobIds
    BY ServerAssumption DEF Init, JobIds
  <2> QED BY <2>1, ServerAssumption DEF Init, PostTypes, Threads, Server
<1>2. PostsCover
  <2> SUFFICES ASSUME NEW p \in Pools
               PROVE  Len(ready[p]) <= sem[p] + Cardinality(Takers(pc, p))
    BY CoverIs, Zenon
  <2>1. Len(ready[p]) = 0 /\ sem[p] = 0
    BY Zenon DEF Init
  <2> QED BY <2>1, WorkersFinite
<1> QED BY <1>1, <1>2, InvParts, Zenon

(* The steps of clients and of RcmServer_start(). *)
LEMMA ClientPosts ==
    ASSUME PostsInv, (\E m \in Msgs, r \in Requests : SendRequest(m, r)) \/ Start \/ Delete
    PROVE  PostsInv'
<1>1. UNCHANGED <<ready, sem, terminate, jobList, jobId, msgQue, held>>
  BY Zenon DEF SendRequest, Start, Delete, At, queues, jobs, threads, ending
<1>2. TakersSame /\ PostTypes'
  <2>1. ASSUME NEW m \in Msgs, NEW r \in Requests, SendRequest(m, r) PROVE TakersSame /\ PostTypes'
    BY <2>1, <1>1 DEF SendRequest, TakersSame, PostTypes, PostsInv, threads
  <2>2. CASE Start
    <3>1. TakersSame
      BY <2>2, GotoElsewhere, Zenon DEF Start, Threads
    <3>2. PostTypes'
      BY <2>2, <1>1, ServerAssumption, Zenon DEF Start, Goto, PostTypes, PostsInv, Threads
    <3> QED BY <3>1, <3>2, Zenon
  <2>3. CASE Delete
    BY <2>3, <1>1, Zenon DEF Delete, At, TakersSame, PostTypes, PostsInv, threads
  <2> QED BY <2>1, <2>2, <2>3, Zenon
<1>3. Balanced /\ TerminateGrows
  BY <1>1, QueuesSame, Zenon DEF TerminateGrows, PostsInv
<1>4. PostsCover'
  BY <1>2, <1>3, CoverKept, Zenon
<1> QED BY <1>2, <1>4, InvParts, Zenon DEF PostsInv, PostTypes

(* The steps of the server thread. *)
LEMMA ServerPosts == ASSUME PostsInv, ServerStep PROVE PostsInv'
<1>0. Server \in Threads /\ pc[Server] # "take" /\ \A w \in Workers : w \in Threads /\ w # Server
  BY ServerAssumption, Zenon DEF PostsInv, Threads
<1>1. terminate' = terminate
  BY DEF ServerStep, GetMessage, Unblocked, ServerProcess, ServerDispatch, CallDpc, ending
<1>2. TerminateGrows
  BY <1>1, Zenon DEF TerminateGrows, PostsInv
<1>3. CASE GetMessage
  <2>1. TakersSame
    BY <1>0, <1>3, GotoElsewhere, Zenon DEF GetMessage
  <2>2. Head(serverQue) \in Msgs /\ Tail(serverQue) \in Seq(Msgs)
    BY <1>3 DEF GetMessage, PostsInv
  <2>3. PostTypes'
    BY <1>0, <1>1, <1>3, <2>2, Zenon DEF GetMessage, Goto, PostTypes, PostsInv, queues, jobs
  <2>4. Balanced
    BY <1>3, QueuesSame, Zenon DEF GetMessage, queues
  <2> QED BY <1>2, <2>1, <2>3, <2>4, CoverKept, Zenon DEF PostsInv, PostTypes
<1>4. CASE Unblocked
  <2>1. TakersSame
    BY <1>0, <1>4, GotoElsewhere, Zenon DEF Unblocked
  <2>2. PostTypes'
    BY <1>0, <1>1, <1>4, Zenon DEF Unblocked, Goto, PostTypes, PostsInv, queues, jobs
  <2>3. Balanced
    BY <1>4, QueuesSame, Zenon DEF Unblocked, queues
  <2> QED BY <1>2, <2>1, <2>2, <2>3, CoverKept DEF PostsInv, PostTypes
<1>5. CASE ServerProcess
  <2>1. Process(Server) /\ UNCHANGED <<serverQue, ready, sem>>
    BY <1>5 DEF ServerProcess, queues
  <2>2. TakersSame /\ PostTypes'
    BY <1>0, <1>1, <2>1, ProcessKeeps, Zenon DEF PostTypes, PostsInv
  <2> QED BY <1>2, <2>1, <2>2, QueuesSame, CoverKept, Zenon DEF PostsInv, PostTypes
<1>6. CASE ServerDispatch
  <2> DEFINE m == held[Server]
             r == request[m]
  <2>1. m \in Msgs
    BY <1>6 DEF ServerDispatch, PostsInv
  <2>2. \/ MakeReady(m) /\ msgQue' = msgQue
        \/ UNCHANGED <<ready, sem>> /\ msgQue' = [msgQue EXCEPT ![r.job] = Append(@, m)]
        \/ UNCHANGED <<ready, sem, msgQue>>
    BY <1>6, Zenon DEF ServerDispatch, Dispatch, queues
  <2>3. Balanced /\ ready' \in [Pools -> Seq(Msgs)] /\ sem' \in [Pools -> Nat]
    BY <2>1, <2>2, MakeReadyBalanced, QueuesSame, Zenon DEF PostsInv
  <2>4. msgQue' \in [JobIds -> Seq(Msgs)]
    <3>1. msgQue \in [JobIds -> Seq(Msgs)]
      BY DEF PostsInv
    <3>2. CASE r.job \in JobIds
      <4>1. Append(msgQue[r.job], m) \in Seq(Msgs)
        BY <2>1, <3>1, <3>2
      <4> QED BY <2>2, <3>1, <4>1, Zenon
    <3>3. CASE r.job \notin JobIds
      BY <2>2, <3>1, <3>3, Zenon
    <3> QED BY <3>2, <3>3, Zenon
  <2>5. PICK point \in {"get", "gone"} : Goto(Server, point)
    BY <1>6, Zenon DEF ServerDispatch
  <2>6. TakersSame
    BY <1>0, <2>5, GotoElsewhere, Zenon
  <2>7. UNCHANGED <<serverQue, jobList, jobId>> /\ held' = [held EXCEPT ![Server] = None]
    BY <1>6 DEF ServerDispatch
  <2>8. PostTypes'
    BY <1>0, <1>1, <2>3, <2>4, <2>5, <2>7, Zenon DEF Goto, PostTypes, PostsInv
  <2> QED BY <1>2, <2>3, <2>6, <2>8, CoverKept, Zenon DEF PostsInv, PostTypes
<1>7. CASE CallDpc(Server)
  <2>1. PICK point \in {"get", "gone"} : Goto(Server, point)
    BY <1>0, <1>7, Zenon DEF CallDpc, Processed
  <2>2. TakersSame
    BY <1>0, <2>1, GotoElsewhere
  <2>3. PostTypes'
    BY <1>0, <1>1, <1>7, <2>1, Zenon DEF CallDpc, Goto, PostTypes, PostsInv, queues, jobs
  <2>4. Balanced
    BY <1>7, QueuesSame, Zenon DEF CallDpc, queues
  <2> QED BY <1>2, <2>2, <2>3, <2>4, CoverKept, Zenon DEF PostsInv, PostTypes
<1> QED BY <1>3, <1>4, <1>5, <1>6, <1>7, Zenon DEF ServerStep

(* A worker that has used a post is on its way to the queue. *)
LEMMA PendPosts == ASSUME PostsInv, NEW w \in Workers, Pend(w) PROVE PostsInv'
<1>0. /\ w \in Threads /\ w # Server /\ Server \in Threads /\ PoolOf[w] \in Pools
      /\ sem \in [Pools -> Nat] /\ pc[w] = "pend" /\ sem[PoolOf[w]] > 0
  BY ServerAssumption, Zenon DEF Threads, PostsInv, Pend
<1>1. /\ sem' = [sem EXCEPT ![PoolOf[w]] = @ - 1]
      /\ pc' = [pc EXCEPT ![w] = "take"]
      /\ UNCHANGED <<ready, serverQue, jobList, jobId, msgQue, held, terminate>>
  BY DEF Pend, Goto, jobs, ending
<1>2. sem' \in [Pools -> Nat]
  BY <1>0, <1>1
<1>3. PostTypes'
  BY <1>0, <1>1, <1>2 DEF PostTypes, PostsInv
<1>4. PostsCover'
  <2> SUFFICES ASSUME NEW p \in Pools, ~ terminate[p]
               PROVE  Len(ready[p]) <= sem'[p] + Cardinality(Takers(pc', p))
    BY <1>1, Zenon DEF PostsCover, Takers
  <2>1. Len(ready[p]) <= sem[p] + Cardinality(Takers(pc, p))
    BY CoverIs, Zenon DEF PostsInv
  <2>2. Cardinality(Takers(pc, p)) \in Nat /\ IsFiniteSet(Takers(pc, p)) /\ Len(ready[p]) \in Nat
    BY WorkersFinite DEF PostsInv
  <2>3. CASE p = PoolOf[w]
    <3>1. Takers(pc', p) = Takers(pc, p) \cup {w} /\ w \notin Takers(pc, p)
      BY <1>0, <1>1, <2>3, Zenon DEF Takers, WorkersOf, Threads, PostsInv
    <3>2. Cardinality(Takers(pc', p)) = Cardinality(Takers(pc, p)) + 1
      BY <2>2, <3>1, FS_AddElement, Zenon
    <3>3. sem'[p] = sem[p] - 1 /\ sem[p] \in Nat
      BY <1>0, <1>1, <2>3, Zenon
    <3> QED BY <2>1, <2>2, <3>2, <3>3
  <2>4. CASE p # PoolOf[w]
    <3>1. Takers(pc', p) = Takers(pc, p)
      BY <1>0, <1>1, <2>4, Zenon DEF Takers, WorkersOf, Threads, PostsInv
    <3>2. sem'[p] = sem[p]
      BY <1>0, <1>1, <2>4, Zenon
    <3> QED BY <2>1, <3>1, <3>2, Zenon
  <2> QED BY <2>3, <2>4
<1> QED BY <1>3, <1>4, InvParts, Zenon DEF PostsInv, PostTypes

(* A worker at the queue takes a message, finds none, or ends. *)
LEMMA TakePosts == ASSUME PostsInv, NEW w \in Workers, Take(w) PROVE PostsInv'
<1>0. /\ w \in Threads /\ w # Server /\ Server \in Threads /\ PoolOf[w] \in Pools
      /\ ready \in [Pools -> Seq(Msgs)] /\ pc[w] = "take" /\ ready[PoolOf[w]] \in Seq(Msgs)
  BY ServerAssumption, Zenon DEF Threads, PostsInv, Take
<1>1. UNCHANGED <<serverQue, sem, jobList, jobId, msgQue, terminate>>
  BY DEF Take, jobs, ending
<1>2. PICK point \in {"gone", "pend", "work"} : pc' = [pc EXCEPT ![w] = point]
  BY Zenon DEF Take, Goto
<1>3. \/ terminate[PoolOf[w]] /\ UNCHANGED <<ready, held>>
      \/ ready[PoolOf[w]] = <<>> /\ UNCHANGED <<ready, held>>
      \/ /\ ready[PoolOf[w]] # <<>>
         /\ ready' = [ready EXCEPT ![PoolOf[w]] = Tail(ready[PoolOf[w]])]
         /\ held' = [held EXCEPT ![w] = Head(ready[PoolOf[w]])]
  BY DEF Take
<1>4. ready' \in [Pools -> Seq(Msgs)]
  <2>1. ready[PoolOf[w]] # <<>> => Tail(ready[PoolOf[w]]) \in Seq(Msgs)
    BY <1>0
  <2> QED BY <1>0, <1>3, <2>1, Zenon
<1>5. held' \in [Threads -> Msgs \cup {None}] /\ held'[Server] = held[Server]
  <2>1. ready[PoolOf[w]] # <<>> => Head(ready[PoolOf[w]]) \in Msgs
    BY <1>0
  <2> QED BY <1>0, <1>3, <2>1, Zenon DEF PostsInv
<1>6. PostTypes'
  <2>1. \A v \in Workers : v \in Threads
    BY DEF Threads
  <2>2. pc' \in [Threads -> {"start", "get", "handle", "call", "pend", "take", "work", "next", "gone"}]
    BY <1>0, <1>2 DEF PostsInv
  <2>3. pc'[Server] = pc[Server] /\ \A v \in Workers : pc'[v] # "handle"
    BY <1>0, <1>2, <2>1 DEF PostsInv
  <2> QED BY <1>1, <1>4, <1>5, <2>2, <2>3 DEF PostTypes, PostsInv
<1>7. PostsCover'
  <2> SUFFICES ASSUME NEW p \in Pools, ~ terminate[p]
               PROVE  Len(ready'[p]) <= sem[p] + Cardinality(Takers(pc', p))
    BY <1>1, Zenon DEF PostsCover, Takers
  <2>1. Len(ready[p]) <= sem[p] + Cardinality(Takers(pc, p))
    BY CoverIs, Zenon DEF PostsInv
  <2>2. /\ Cardinality(Takers(pc, p)) \in Nat /\ IsFiniteSet(Takers(pc, p))
        /\ Cardinality(Takers(pc', p)) \in Nat /\ Len(ready[p]) \in Nat /\ sem[p] \in Nat
    BY WorkersFinite DEF PostsInv
  <2>3. CASE p = PoolOf[w]
    <3>1. Takers(pc', p) = Takers(pc, p) \ {w} /\ w \in Takers(pc, p)
      BY <1>0, <1>2, <2>3, Zenon DEF Takers, WorkersOf, Threads, PostsInv
    <3>2. Cardinality(Takers(pc', p)) = Cardinality(Takers(pc, p)) - 1
      BY <2>2, <3>1, FS_RemoveElement, Zenon
    <3>3. CASE ready[p] = <<>>
      <4>1. Len(ready'[p]) = 0
        BY <1>3, <2>3, <3>3
      <4> QED BY <2>2, <4>1
    <3>4. CASE ready[p] # <<>>
      <4>1. ready'[p] = Tail(ready[p])
        BY <1>0, <1>3, <2>3, <3>4, Zenon
      <4>2. Len(ready'[p]) = Len(ready[p]) - 1
        BY <1>0, <2>3, <3>4, <4>1
      <4> QED BY <2>1, <2>2, <3>2, <4>2
    <3> QED BY <3>3, <3>4, Zenon
  <2>4. CASE p # PoolOf[w]
    <3>1. Takers(pc', p) = Takers(pc, p)
      BY <1>0, <1>2, <2>4, Zenon DEF Takers, WorkersOf, Threads, PostsInv
    <3>2. ready'[p] = ready[p]
      BY <1>0, <1>3, <2>4, Zenon
    <3> QED BY <2>1, <3>1, <3>2, Zenon
  <2> QED BY <2>3, <2>4, Zenon
<1> QED BY <1>6, <1>7, InvParts, Zenon DEF PostsInv, PostTypes

(* The other steps of a worker: it executes a message and makes the next   *)
(* one of the job ready.                                                   *)
LEMMA WorkPosts ==
    ASSUME PostsInv, NEW w \in Workers, Work(w) \/ CallDpc(w) \/ FinishJobMessage(w)
    PROVE  PostsInv'
<1>0. w \in Threads /\ w # Server /\ Server \in Threads /\ \A v \in Workers : v \in Threads
  BY ServerAssumption, Zenon DEF Threads
<1>1. terminate' = terminate
  BY DEF Work, CallDpc, FinishJobMessage, ending
<1>2. TerminateGrows
  BY <1>1, Zenon DEF TerminateGrows, PostsInv
<1>3. CASE Work(w)
  <2>1. Process(w) /\ pc[w] # "take" /\ UNCHANGED <<serverQue, ready, sem>>
    BY <1>3, Zenon DEF Work, queues
  <2>2. held'[Server] = held[Server]
    BY <1>0, <2>1, Zenon DEF Process, PostsInv
  <2>3. TakersSame /\ PostTypes'
    BY <1>0, <1>1, <2>1, <2>2, ProcessKeeps, Zenon DEF PostTypes, PostsInv
  <2> QED BY <1>2, <2>1, <2>3, QueuesSame, CoverKept, Zenon DEF PostsInv, PostTypes
<1>4. CASE CallDpc(w)
  <2>1. PICK point \in {"pend", "next"} : Goto(w, point)
    BY <1>0, <1>4 DEF CallDpc, Processed
  <2>2. TakersSame
    BY <1>0, <1>4, <2>1, GotoElsewhere, Zenon DEF CallDpc
  <2>3. PostTypes'
    BY <1>0, <1>1, <1>4, <2>1, Zenon DEF CallDpc, Goto, PostTypes, PostsInv, queues, jobs
  <2>4. Balanced
    BY <1>4, QueuesSame, Zenon DEF CallDpc, queues
  <2> QED BY <1>2, <2>2, <2>3, <2>4, CoverKept, Zenon DEF PostsInv, PostTypes
<1>5. CASE FinishJobMessage(w)
  <2> DEFINE j == job[w]
  <2>1. \/ UNCHANGED <<ready, sem, msgQue>>
        \/ /\ j \in JobIds /\ msgQue[j] # <<>> /\ MakeReady(Head(msgQue[j]))
           /\ msgQue' = [msgQue EXCEPT ![j] = Tail(@)]
    BY <1>5, Zenon DEF FinishJobMessage, NextOfJob, queues, PostsInv
  <2>2. /\ Balanced /\ ready' \in [Pools -> Seq(Msgs)] /\ sem' \in [Pools -> Nat]
        /\ msgQue' \in [JobIds -> Seq(Msgs)]
    <3>1. msgQue \in [JobIds -> Seq(Msgs)]
      BY Zenon DEF PostsInv
    <3>2. CASE UNCHANGED <<ready, sem, msgQue>>
      BY <3>1, <3>2, QueuesSame, Zenon DEF PostsInv
    <3>3. CASE /\ j \in JobIds /\ msgQue[j] # <<>> /\ MakeReady(Head(msgQue[j]))
               /\ msgQue' = [msgQue EXCEPT ![j] = Tail(@)]
      <4>1. Head(msgQue[j]) \in Msgs /\ Tail(msgQue[j]) \in Seq(Msgs)
        BY <3>1, <3>3
      <4> QED BY <3>1, <3>3, <4>1, MakeReadyBalanced, Zenon
    <3> QED BY <2>1, <3>2, <3>3, Zenon
  <2>3. Goto(w, "pend") /\ pc[w] # "take" /\ UNCHANGED <<serverQue, held, jobList, jobId>>
    BY <1>5 DEF FinishJobMessage
  <2>4. TakersSame
    BY <1>0, <2>3, GotoElsewhere, Zenon
  <2>5. PostTypes'
    BY <1>0, <1>1, <2>2, <2>3, Zenon DEF Goto, PostTypes, PostsInv
  <2> QED BY <1>2, <2>2, <2>4, <2>5, CoverKept, Zenon DEF PostsInv, PostTypes
<1> QED BY <1>3, <1>4, <1>5, Zenon

(* The steps of RcmServer_delete(). *)
LEMMA FinalizePosts == ASSUME PostsInv, FinalizeStep PROVE PostsInv'
<1>1. UNCHANGED <<serverQue, jobList, jobId, msgQue, pc, held>>
  BY DEF FinalizeStep, JoinServer, MarkWorkers, PostWorkers, JoinWorkers, At, jobs, threads
<1>2. TakersSame
  BY <1>1, Zenon DEF TakersSame
<1>3. CASE UNCHANGED <<ready, sem>> /\ TerminateGrows
  BY <1>1, <1>2, <1>3, QueuesSame, CoverKept, Zenon DEF PostsInv, TerminateGrows
<1>4. CASE JoinServer
  BY <1>3, <1>4, Zenon DEF JoinServer, queues, TerminateGrows, PostsInv
<1>5. CASE MarkWorkers
  BY <1>3, <1>5, Zenon DEF MarkWorkers, queues, TerminateGrows, PostsInv
<1>6. CASE PostWorkers
  <2> DEFINE n == Cardinality(WorkersOf(finalize.pool))
  <2>1. n \in Nat /\ sem' = [sem EXCEPT ![finalize.pool] = @ + n] /\ UNCHANGED <<ready, terminate>>
    BY <1>6, WorkersFinite, Zenon DEF PostWorkers
  <2>2. sem' \in [Pools -> Nat] /\ \A p \in Pools : sem'[p] >= sem[p]
    <3>1. sem \in [Pools -> Nat]
      BY Zenon DEF PostsInv
    <3>2. ASSUME NEW p \in Pools PROVE sem'[p] \in Nat /\ sem'[p] >= sem[p]
      BY <2>1, <3>1
    <3> QED BY <2>1, <3>1, <3>2, Zenon
  <2>3. PostsCover'
    <3> SUFFICES ASSUME NEW p \in Pools, ~ terminate[p]
                 PROVE  Len(ready[p]) <= sem'[p] + Cardinality(Takers(pc, p))
      BY <1>1, <2>1, Zenon DEF PostsCover, Takers
    <3>1. Len(ready[p]) <= sem[p] + Cardinality(Takers(pc, p))
      BY CoverIs, Zenon DEF PostsInv
    <3>2. Cardinality(Takers(pc, p)) \in Nat /\ Len(ready[p]) \in Nat /\ sem[p] \in Nat
      BY WorkersFinite DEF PostsInv
    <3> QED BY <2>2, <3>1, <3>2
  <2> QED BY <1>1, <2>1, <2>2, <2>3, Zenon DEF PostsInv
<1>7. CASE JoinWorkers
  <2>1. ready' = [ready EXCEPT ![finalize.pool] = <<>>] /\ UNCHANGED <<sem, terminate>>
    BY <1>7 DEF JoinWorkers
  <2>2. ready' \in [Pools -> Seq(Msgs)] /\ \A p \in Pools : ready'[p] = ready[p] \/ ready'[p] = <<>>
    <3>1. ready \in [Pools -> Seq(Msgs)] /\ <<>> \in Seq(Msgs)
      BY DEF PostsInv
    <3> QED BY <2>1, <3>1, Zenon
  <2>3. PostsCover'
    <3> SUFFICES ASSUME NEW p \in Pools, ~ terminate[p]
                 PROVE  Len(ready'[p]) <= sem[p] + Cardinality(Takers(pc, p))
      BY <1>1, <2>1, Zenon DEF PostsCover, Takers
    <3>1. Len(ready[p]) <= sem[p] + Cardinality(Takers(pc, p))
      BY CoverIs DEF PostsInv
    <3>2. Cardinality(Takers(pc, p)) \in Nat /\ Len(ready[p]) \in Nat /\ sem[p] \in Nat
      BY WorkersFinite DEF PostsInv
    <3> QED BY <2>2, <3>1, <3>2
  <2> QED BY <1>1, <2>1, <2>2, <2>3, Zenon DEF PostsInv
<1> QED BY <1>4, <1>5, <1>6, <1>7, Zenon DEF FinalizeStep

(* The posts of the semaphores cover the ready messages, with the facts    *)
(* this rests on.                                                          *)
THEOREM PostsInvariant == Spec => []PostsInv
<1>1. PostsInv /\ [Next]_vars => PostsInv'
  <2> SUFFICES ASSUME PostsInv, [Next]_vars PROVE PostsInv'
    OBVIOUS
  <2>1. ASSUME NEW w \in Workers, WorkerStep(w) PROVE PostsInv'
    BY <2>1, PendPosts, TakePosts, WorkPosts, Zenon DEF WorkerStep
  <2>2. CASE UNCHANGED vars
    BY <2>2, Zenon DEF vars, queues, jobs, threads, ending, PostsInv, PostsCover
  <2> QED BY <2>1, <2>2, ClientPosts, ServerPosts, FinalizePosts, Zenon DEF Next
<1> QED BY <1>1, InitPosts, PTL DEF Spec

(* For every message in a ready queue there is a post no worker has used,  *)
(* or a worker on its way to the queue: no wake-up is lost, whatever the   *)
(* numbers of messages, workers, pools and job ids, and also while the     *)
(* server is being deleted.                                                *)
THEOREM NoWakeUpLost == Spec => []PostsCover
<1>1. Spec => []PostsInv
  BY PostsInvariant, Zenon
<1>2. PostsInv => PostsCover
  BY DEF PostsInv
<1> QED BY <1>1, <1>2, PTL

=============================================================================
