--------------------------- MODULE RcmServerJobs ----------------------------
(***************************************************************************)
(* In which order the messages of a job stream are executed by the workers *)
(* of an RCM server, for any number of messages, workers, pools and job    *)
(* streams.  The proofs rest on those of RcmServerPlaces.                  *)
(***************************************************************************)
EXTENDS RcmServerPlaces

(* The messages in the ready queues. *)
ReadyIn(pools) == UNION {Elems(pools[p]) : p \in Pools}

(* Message m is the oldest one of job j, and the others wait. *)
Oldest(m, j) == stream[j] # <<>> /\ Head(stream[j]) = m /\ Tail(stream[j]) = msgQue[j]

(* A job has nothing to do... *)
Idle(j) == ReadyOf(j) = {} /\ BusyWith(j) = {} /\ msgQue[j] = <<>> /\ stream[j] = <<>>

(* ...or its oldest message is ready... *)
Turn(m, j) == ReadyOf(j) = {m} /\ BusyWith(j) = {} /\ Oldest(m, j)

(* ...or with a worker, that executes it or has executed it. *)
Served(w, j) ==
    /\ ReadyOf(j) = {} /\ BusyWith(j) = {w}
    /\ IF pc[w] = "work" THEN Oldest(held[w], j) ELSE stream[j] = msgQue[j]

JobState(j) ==
    IF j \in empty THEN Idle(j) ELSE (\E m \in Msgs : Turn(m, j)) \/ \E w \in Workers : Served(w, j)

(* The types, and where the jobs and the workers of no interest are. *)
StreamsInv ==
    /\ stream \in [JobIds -> Seq(Msgs)] /\ empty \subseteq jobList
    /\ job \in [Threads -> JobIds \cup {DISCRETEJOBID}]
    /\ \A j \in JobIds \ jobList : msgQue[j] = <<>> /\ stream[j] = <<>>
    /\ \A w \in Workers : job[w] # DISCRETEJOBID => pc[w] \in {"work", "call", "next"}

(* While the server is deleted there are no jobs, and none can be made. *)
EndingInv ==
    /\ shutdown => jobList = {} /\ \A m \in InServer : request[m].type # "acq"
    /\ finalize.step # "none" => shutdown

(* The inductive invariant. *)
JobsInv == PlacesInv /\ StreamsInv /\ EndingInv /\ \A j \in jobList : JobState(j)

(* A message in the server asks for the same until it goes back. *)
RequestsStay == \A m \in InServer \cap InServer' : request'[m] = request[m]

-----------------------------------------------------------------------------
(* No job has the id that discrete messages carry. *)
LEMMA JobsNotDiscrete == DISCRETEJOBID \notin JobIds
BY DEF JobIds, DISCRETEJOBID

(* Ready messages are in the server. *)
LEMMA ReadyPresent ==
    ASSUME NEW q, NEW h, NEW r, NEW g, Tidy(q, h, r, g), NEW m \in ReadyIn(r)
    PROVE  m \in Has(q, h, r, g) /\ m \in Msgs
<1> DEFINE C == LinesOf(q, h, r, g)
<1>1. PICK p \in Pools : m \in Elems(r[p])
  BY Zenon DEF ReadyIn
<1>2. C \in [Lines -> Seq(Msgs)] /\ Ready(p) \in Lines /\ C[Ready(p)] = r[p] /\ r[p] \in Seq(Msgs)
  BY LineIs DEF Tidy, LinesTyped
<1>3. \E x \in DOMAIN C[Ready(p)] : C[Ready(p)][x] = m
  BY <1>1, <1>2 DEF Elems
<1>4. m \in Msgs
  BY <1>1, <1>2 DEF Elems
<1> HIDE DEF C
<1>5. m \in Present(C)
  BY <1>2, <1>3, PresentIs, Zenon
<1> QED BY <1>4, <1>5, Zenon DEF Has, C

(* The ready messages of a job. *)
LEMMA ReadyOfIs ==
    ASSUME NEW j
    PROVE  /\ ReadyOf(j) = {m \in ReadyIn(ready) : request[m].job = j}
           /\ ReadyOf(j)' = {m \in ReadyIn(ready') : request'[m].job = j}
BY DEF ReadyOf, ReadyIn

(* They are the same after a step that leaves the ready queues alone. *)
LEMMA ReadySame ==
    ASSUME PlacesInv, PlacesInv', RequestsStay, UNCHANGED ready, NEW j
    PROVE  ReadyOf(j)' = ReadyOf(j)
<1>1. ASSUME NEW m \in ReadyIn(ready) PROVE request'[m] = request[m]
  <2>1. m \in InServer
    BY ReadyPresent DEF PlacesInv, LinesInv
  <2>2. m \in InServer'
    BY ReadyPresent DEF PlacesInv, LinesInv
  <2> QED BY <2>1, <2>2 DEF RequestsStay
<1> QED BY <1>1, ReadyOfIs, ZenonT(60)

(* A step that has nothing to do with a job leaves the job as it was. *)
LEMMA JobStays ==
    ASSUME NEW j, JobState(j), ReadyOf(j)' = ReadyOf(j), BusyWith(j)' = BusyWith(j),
           msgQue'[j] = msgQue[j], stream'[j] = stream[j], j \in empty' <=> j \in empty,
           \A w \in BusyWith(j) : (pc'[w] = "work" <=> pc[w] = "work") /\ held'[w] = held[w]
    PROVE  JobState(j)'
<1>1. CASE j \in empty
  BY <1>1 DEF JobState, Idle
<1>2. ASSUME j \notin empty, NEW m \in Msgs, Turn(m, j) PROVE JobState(j)'
  <2>1. Turn(m, j)'
    BY <1>2 DEF Turn, Oldest
  <2> QED BY <1>2, <2>1 DEF JobState
<1>3. ASSUME j \notin empty, NEW w \in Workers, Served(w, j) PROVE JobState(j)'
  <2>1. Served(w, j)'
    BY <1>3 DEF Served, Oldest
  <2> QED BY <1>3, <2>1 DEF JobState
<1> QED BY <1>1, <1>2, <1>3 DEF JobState

(* A worker that has a message of a job is the only one, and the message   *)
(* is the oldest.                                                          *)
LEMMA ServedBy ==
    ASSUME NEW w \in Workers, job[w] \in jobList, JobState(job[w])
    PROVE  Served(w, job[w]) /\ job[w] \notin empty
<1>1. w \in BusyWith(job[w])
  BY DEF BusyWith
<1>2. job[w] \notin empty
  BY <1>1 DEF JobState, Idle
<1>3. ASSUME NEW m \in Msgs, Turn(m, job[w]) PROVE FALSE
  BY <1>1, <1>3, Zenon DEF Turn
<1>4. PICK u \in Workers : Served(u, job[w])
  BY <1>2, <1>3, Zenon DEF JobState
<1>5. u = w
  BY <1>1, <1>4, Zenon DEF Served
<1> QED BY <1>2, <1>4, <1>5

(* The steps that leave the jobs alone. *)
LEMMA JobsSame ==
    ASSUME JobsInv, PlacesInv', RequestsStay,
           UNCHANGED <<ready, msgQue, stream, empty, jobList, job>>,
           \A w \in Workers : job[w] # DISCRETEJOBID =>
              /\ pc'[w] = pc[w] \/ {pc[w], pc'[w]} \subseteq {"call", "next"}
              /\ held'[w] = held[w]
    PROVE  StreamsInv' /\ \A j \in jobList' : JobState(j)'
<1>1. StreamsInv'
  BY Zenon DEF JobsInv, StreamsInv
<1>2. ASSUME NEW j \in jobList PROVE JobState(j)'
  <2>1. ReadyOf(j)' = ReadyOf(j)
    BY ReadySame, Zenon DEF JobsInv
  <2>2. BusyWith(j)' = BusyWith(j)
    BY Zenon DEF BusyWith
  <2>3. j # DISCRETEJOBID
    BY JobsNotDiscrete, Zenon DEF JobsInv, PlacesInv, PartsInv
  <2>4. \A w \in BusyWith(j) : (pc'[w] = "work" <=> pc[w] = "work") /\ held'[w] = held[w]
    BY <2>3, Zenon DEF BusyWith
  <2> QED BY <2>1, <2>2, <2>4, JobStays, Zenon DEF JobsInv
<1> QED BY <1>1, <1>2, Zenon

-----------------------------------------------------------------------------
(* A thread about to execute a message. *)
AtWork(t) == t \in Threads /\ pc[t] = IF t = Server THEN "handle" ELSE "work"

(* The message that is executed is taken from the history of its job. *)
LEMMA ExecutedIs ==
    ASSUME JobsInv, NEW t, AtWork(t), NEW k \in JobIds
    PROVE  /\ Executed(t) \in [JobIds -> Seq(Msgs)]
           /\ t \in Workers /\ job[t] \in jobList /\ k = job[t] => Executed(t)[k] = Tail(stream[k])
           /\ ~ (t \in Workers /\ job[t] \in jobList /\ k = job[t]) => Executed(t)[k] = stream[k]
<1>1. stream \in [JobIds -> Seq(Msgs)] /\ jobList \subseteq JobIds
  BY Zenon DEF JobsInv, StreamsInv, PlacesInv, PartsInv
<1>2. CASE t \in Workers /\ job[t] \in jobList
  <2>1. Served(t, job[t]) /\ pc[t] = "work"
    BY <1>2, ServedBy, ServerAssumption, Zenon DEF JobsInv, AtWork
  <2>2. stream[job[t]] # <<>> /\ stream[job[t]] \in Seq(Msgs) /\ job[t] \in JobIds
    BY <1>1, <1>2, <2>1, Zenon DEF Served, Oldest
  <2>3. Tail(stream[job[t]]) \in Seq(Msgs)
    BY <2>2
  <2>4. Executed(t) = [stream EXCEPT ![job[t]] = Tail(@)]
    BY <1>2, Zenon DEF Executed
  <2> QED BY <1>1, <1>2, <2>2, <2>3, <2>4, Zenon
<1>3. CASE ~ (t \in Workers /\ job[t] \in jobList)
  BY <1>1, <1>3, Zenon DEF Executed
<1> QED BY <1>2, <1>3, Zenon

(* Where the thread is then. *)
LEMMA ProcessGoes ==
    ASSUME JobsInv, NEW t, AtWork(t), Process(t)
    PROVE  /\ \A u \in Threads \ {t} : pc'[u] = pc[u] /\ held'[u] = held[u]
           /\ t \in Workers => pc'[t] \in {"call", "pend", "next"}
           /\ t \in Workers /\ job[t] # DISCRETEJOBID => pc'[t] \in {"call", "next"}
<1>1. pc \in [Threads -> ServerPoints \cup WorkerPoints] /\ held \in [Threads -> Msgs \cup {None}]
  BY DEF JobsInv, PlacesInv, HandsInv, LinesInv, Tidy, LinesTyped
<1>2. PICK point \in {"call", Processed(t)} : pc' = [pc EXCEPT ![t] = point]
  BY Zenon DEF Process, Goto
<1>3. held' = [held EXCEPT ![t] = None]
  BY DEF Process
<1>4. t \in Threads
  BY DEF AtWork
<1>5. t \in Workers => /\ Processed(t) \in {"pend", "next"}
                       /\ job[t] # DISCRETEJOBID => Processed(t) = "next"
  BY ServerAssumption, Zenon DEF Processed
<1> QED BY <1>1, <1>2, <1>3, <1>4, <1>5, Zenon

(* A job the processed message does not release goes on. *)
LEMMA ProcessJob ==
    ASSUME JobsInv, PlacesInv', RequestsStay, NEW t, AtWork(t), Process(t), UNCHANGED <<ready, job>>,
           NEW k \in jobList, stream'[k] = Executed(t)[k], msgQue'[k] = msgQue[k],
           k \in empty' <=> k \in empty
    PROVE  JobState(k)'
<1>1. ReadyOf(k)' = ReadyOf(k)
  BY ReadySame, Zenon DEF JobsInv
<1>2. BusyWith(k)' = BusyWith(k)
  BY Zenon DEF BusyWith
<1>3. k \in JobIds /\ k # DISCRETEJOBID
  BY JobsNotDiscrete, Zenon DEF JobsInv, PlacesInv, PartsInv
<1>4. CASE t \in Workers /\ job[t] = k
  <2>1. Served(t, k) /\ k \notin empty /\ pc[t] = "work"
    BY <1>4, ServedBy, ServerAssumption, Zenon DEF JobsInv, AtWork
  <2>2. stream'[k] = msgQue'[k]
    BY <1>3, <1>4, <2>1, ExecutedIs DEF Served, Oldest
  <2>3. pc'[t] # "work"
    BY <1>4, ProcessGoes, Zenon
  <2>4. Served(t, k)'
    BY <1>1, <1>2, <2>1, <2>2, <2>3, Zenon DEF Served
  <2> QED BY <1>4, <2>1, <2>4, Zenon DEF JobState
<1>5. CASE ~ (t \in Workers /\ job[t] = k)
  <2>1. stream'[k] = stream[k]
    BY <1>3, <1>5, ExecutedIs, Zenon
  <2>2. \A w \in BusyWith(k) : pc'[w] = pc[w] /\ held'[w] = held[w]
    BY <1>5, ProcessGoes DEF BusyWith, Threads
  <2> QED BY <1>1, <1>2, <2>1, <2>2, JobStays, Zenon DEF JobsInv
<1> QED BY <1>4, <1>5, Zenon

(* A message is processed. *)
LEMMA ProcessJobs ==
    ASSUME JobsInv, PlacesInv', RequestsStay, NEW t, AtWork(t), Process(t), UNCHANGED <<ready, job>>
    PROVE  StreamsInv' /\ \A j \in jobList' : JobState(j)'
<1> DEFINE r == request[held[t]]
           e == Executed(t)
<1>1. /\ stream \in [JobIds -> Seq(Msgs)] /\ msgQue \in [JobIds -> Seq(Msgs)] /\ e \in [JobIds -> Seq(Msgs)]
      /\ jobList \subseteq JobIds /\ empty \subseteq jobList
  BY ExecutedIs, ServerAssumption, Zenon DEF JobsInv, StreamsInv, PlacesInv, PartsInv, LinesInv,
     Tidy, LinesTyped, JobIds
<1>2. ASSUME NEW k \in JobIds \ jobList PROVE msgQue[k] = <<>> /\ e[k] = <<>>
  <2>1. msgQue[k] = <<>> /\ stream[k] = <<>>
    BY Zenon DEF JobsInv, StreamsInv
  <2> QED BY <2>1, ExecutedIs, Zenon
<1>3. /\ job' \in [Threads -> JobIds \cup {DISCRETEJOBID}]
      /\ \A w \in Workers : job'[w] # DISCRETEJOBID => pc'[w] \in {"work", "call", "next"}
  BY ProcessGoes, Zenon DEF JobsInv, StreamsInv, Threads
<1> HIDE DEF r, e
<1>4. CASE stream' = e /\ UNCHANGED <<jobList, empty, msgQue>>
  <2>1. StreamsInv'
    BY <1>1, <1>2, <1>3, <1>4, Zenon DEF StreamsInv
  <2>2. \A j \in jobList' : JobState(j)'
    BY <1>4, ProcessJob, Zenon DEF e
  <2> QED BY <2>1, <2>2, Zenon
<1>5. ASSUME NEW n \in JobIds \ jobList, stream' = e, UNCHANGED msgQue,
             jobList' = jobList \cup {n}, empty' = empty \cup {n},
             ReadyOf(n) = {}, BusyWith(n) = {}
      PROVE  StreamsInv' /\ \A j \in jobList' : JobState(j)'
  <2>1. StreamsInv'
    BY <1>1, <1>2, <1>3, <1>5, Zenon DEF StreamsInv
  <2>2. ASSUME NEW j \in jobList PROVE JobState(j)'
    <3>1. j # n /\ (j \in empty' <=> j \in empty)
      BY <1>5, Zenon
    <3> QED BY <1>5, <3>1, ProcessJob, Zenon DEF e
  <2>3. JobState(n)'
    <3>1. ReadyOf(n)' = {}
      BY <1>5, ReadySame, Zenon DEF JobsInv
    <3>2. BusyWith(n)' = {}
      BY <1>5, Zenon DEF BusyWith
    <3> QED BY <1>2, <1>5, <3>1, <3>2, Zenon DEF JobState, Idle
  <2> QED BY <1>5, <2>2, <2>1, <2>3, Zenon
<1>6. ASSUME NEW n, RelJobId(n, e)
      PROVE  StreamsInv' /\ \A j \in jobList' : JobState(j)'
  <2>1. CASE n \in jobList
    <3>1. /\ jobList' = jobList \ {n} /\ empty' = empty \ {n} /\ n \in JobIds
          /\ msgQue' = [msgQue EXCEPT ![n] = <<>>] /\ stream' = [e EXCEPT ![n] = <<>>]
      BY <1>1, <1>6, <2>1, Zenon DEF RelJobId
    <3>2. \A k \in JobIds : /\ msgQue'[k] = IF k = n THEN <<>> ELSE msgQue[k]
                            /\ stream'[k] = IF k = n THEN <<>> ELSE e[k]
      BY <1>1, <3>1, Zenon
    <3>3. stream' \in [JobIds -> Seq(Msgs)]
      BY <1>1, <3>1
    <3>4. StreamsInv'
      BY <1>1, <1>2, <1>3, <3>1, <3>2, <3>3, Zenon DEF StreamsInv
    <3>5. ASSUME NEW j \in jobList' PROVE JobState(j)'
      <4>1. j \in jobList /\ j \in JobIds /\ j # n /\ (j \in empty' <=> j \in empty)
        BY <1>1, <3>1, Zenon
      <4> QED BY <3>2, <4>1, ProcessJob, Zenon DEF e
    <3> QED BY <3>4, <3>5, Zenon
  <2>2. CASE n \notin jobList
    <3>1. stream' = e /\ jobList' = jobList /\ empty' = empty /\ msgQue' = msgQue
      BY <1>1, <1>6, <2>2, Zenon DEF RelJobId
    <3> QED BY <1>4, <3>1, Zenon
  <2> QED BY <2>1, <2>2, Zenon
<1>7. ASSUME AcqJobId(e) PROVE StreamsInv' /\ \A j \in jobList' : JobState(j)'
  <2>1. CASE jobList = JobIds
    BY <1>4, <1>7, <2>1, Zenon DEF AcqJobId
  <2>2. CASE jobList # JobIds
    <3>1. PICK i \in JobIds \ jobList :
             /\ ReadyOf(i) = {} /\ BusyWith(i) = {} /\ jobId' = i
             /\ jobList' = jobList \cup {i} /\ empty' = empty \cup {i}
      BY <1>7, <2>2, Zenon DEF AcqJobId
    <3> QED BY <1>5, <1>7, <3>1, Zenon DEF AcqJobId
  <2> QED BY <2>1, <2>2, Zenon
<1>8. \/ stream' = e /\ UNCHANGED <<jobList, empty, msgQue>>
      \/ AcqJobId(e)
      \/ RelJobId(r.target, e)
  BY DEF Process, e, r
<1> QED BY <1>4, <1>6, <1>7, <1>8, Zenon

-----------------------------------------------------------------------------
(* The first of a queue stays the first when a message joins. *)
LEMMA JoinBehind ==
    ASSUME NEW s \in Seq(Msgs), NEW m \in Msgs, s # <<>>
    PROVE  Append(s, m) # <<>> /\ Head(Append(s, m)) = Head(s) /\ Tail(Append(s, m)) = Append(Tail(s), m)
OBVIOUS

(* A message becomes ready. *)
LEMMA ReadyJoins ==
    ASSUME ready \in [Pools -> Seq(Msgs)], NEW m \in Msgs, request[m].pool \in Pools, MakeReady(m)
    PROVE  ReadyIn(ready') = ReadyIn(ready) \cup {m}
<1> DEFINE p == request[m].pool
<1>1. \A k \in Pools : ready'[k] = IF k = p THEN Append(ready[k], m) ELSE ready[k]
  BY Zenon DEF MakeReady
<1>2. p \in Pools
  OBVIOUS
<1> HIDE DEF p
<1>3. \A k \in Pools : Elems(ready'[k]) = IF k = p THEN Elems(ready[k]) \cup {m} ELSE Elems(ready[k])
  BY <1>1, JoinElems, Zenon
<1>4. ASSUME NEW x PROVE x \in ReadyIn(ready') <=> x \in ReadyIn(ready) \cup {m}
  <2>1. ASSUME NEW k \in Pools, x \in Elems(ready'[k]) PROVE x \in ReadyIn(ready) \cup {m}
    BY <1>3, <2>1, Zenon DEF ReadyIn
  <2>2. ASSUME NEW k \in Pools, x \in Elems(ready[k]) PROVE x \in ReadyIn(ready')
    BY <1>3, <2>2, Zenon DEF ReadyIn
  <2>3. m \in ReadyIn(ready')
    BY <1>2, <1>3, Zenon DEF ReadyIn
  <2> QED BY <2>1, <2>2, <2>3, Zenon DEF ReadyIn
<1> QED BY <1>4, Zenon

(* The first message of a ready queue is taken. *)
LEMMA ReadyLeaves ==
    ASSUME ready \in [Pools -> Seq(Msgs)], NEW p \in Pools, ready[p] # <<>>,
           ready' = [ready EXCEPT ![p] = Tail(ready[p])]
    PROVE  ReadyIn(ready) = ReadyIn(ready') \cup {Head(ready[p])}
<1>1. \A k \in Pools : ready'[k] = IF k = p THEN Tail(ready[k]) ELSE ready[k]
  OBVIOUS
<1>2. Elems(ready[p]) = Elems(ready'[p]) \cup {Head(ready[p])}
  BY <1>1, LeaveElems, Zenon
<1>3. \A k \in Pools \ {p} : Elems(ready[k]) = Elems(ready'[k])
  BY <1>1
<1>4. ASSUME NEW x PROVE x \in ReadyIn(ready) <=> x \in ReadyIn(ready') \cup {Head(ready[p])}
  <2>1. ASSUME NEW k \in Pools, x \in Elems(ready[k]) PROVE x \in ReadyIn(ready') \cup {Head(ready[p])}
    BY <1>2, <1>3, <2>1, Zenon DEF ReadyIn
  <2>2. ASSUME NEW k \in Pools, x \in Elems(ready'[k]) PROVE x \in ReadyIn(ready)
    BY <1>2, <1>3, <2>2, Zenon DEF ReadyIn
  <2>3. Head(ready[p]) \in ReadyIn(ready)
    BY <1>2, Zenon DEF ReadyIn
  <2> QED BY <2>1, <2>2, <2>3, Zenon DEF ReadyIn
<1> QED BY <1>4, Zenon

(* The parts of the invariant that are about types. *)
LEMMA JobTypes ==
    ASSUME JobsInv
    PROVE  /\ ready \in [Pools -> Seq(Msgs)] /\ msgQue \in [JobIds -> Seq(Msgs)]
           /\ stream \in [JobIds -> Seq(Msgs)] /\ held \in [Threads -> Msgs \cup {None}]
           /\ pc \in [Threads -> ServerPoints \cup WorkerPoints]
           /\ job \in [Threads -> JobIds \cup {DISCRETEJOBID}]
           /\ jobList \subseteq JobIds /\ empty \subseteq jobList
           /\ DISCRETEJOBID \notin jobList
BY DEF JobsInv, PlacesInv, PartsInv, HandsInv, LinesInv, Tidy, LinesTyped, StreamsInv, JobIds,
   DISCRETEJOBID

(* A discrete message, or the first one of a job, becomes ready. *)
LEMMA FirstJobs ==
    ASSUME JobsInv, NEW m \in Msgs, NEW n, n = request[m].job, n = DISCRETEJOBID \/ n \in empty,
           request[m].pool \in Pools, MakeReady(m), empty' = empty \ {n},
           stream' = IF n \in empty THEN [stream EXCEPT ![n] = Append(@, m)] ELSE stream,
           UNCHANGED <<request, msgQue, jobList, job>>,
           \A w \in Workers : pc'[w] = pc[w] /\ held'[w] = held[w]
    PROVE  StreamsInv' /\ \A j \in jobList' : JobState(j)'
<1>1. ReadyIn(ready') = ReadyIn(ready) \cup {m}
  BY JobTypes, ReadyJoins, Zenon
<1>2. \A j : ReadyOf(j)' = IF n = j THEN ReadyOf(j) \cup {m} ELSE ReadyOf(j)
  <2>1. \A j : ReadyOf(j)' = {k \in ReadyIn(ready') : request[k].job = j}
    BY ReadyOfIs, Zenon
  <2>2. \A j : ReadyOf(j) = {k \in ReadyIn(ready) : request[k].job = j}
    BY ReadyOfIs, Zenon
  <2> QED BY <1>1, <2>1, <2>2, Zenon
<1>3. /\ stream' \in [JobIds -> Seq(Msgs)]
      /\ \A j \in JobIds : stream'[j] = IF j \in empty /\ j = n THEN Append(stream[j], m) ELSE stream[j]
  BY JobTypes
<1>4. StreamsInv'
  BY <1>3, Zenon DEF JobsInv, StreamsInv
<1>5. \A j : BusyWith(j)' = BusyWith(j) /\ BusyWith(j) \subseteq Workers
  BY Zenon DEF BusyWith
<1>6. ASSUME NEW j \in jobList, j # n PROVE JobState(j)'
  <2>1. stream'[j] = stream[j] /\ (j \in empty' <=> j \in empty) /\ ReadyOf(j)' = ReadyOf(j)
    BY <1>2, <1>3, <1>6, JobTypes, Zenon
  <2> QED BY <1>5, <2>1, JobStays, Zenon DEF JobsInv
<1>7. ASSUME n \in jobList PROVE JobState(n)'
  <2>1. n \in empty /\ Idle(n) /\ n \in JobIds
    BY <1>7, JobTypes, Zenon DEF JobsInv, JobState
  <2>2. stream'[n] = <<m>> /\ msgQue'[n] = <<>>
    BY <1>3, <2>1 DEF Idle
  <2>3. Oldest(m, n)'
    <3>1. <<m>> # <<>> /\ Head(<<m>>) = m /\ Tail(<<m>>) = <<>>
      OBVIOUS
    <3> QED BY <2>2, <3>1, Zenon DEF Oldest
  <2>4. ReadyOf(n)' = {m} /\ BusyWith(n)' = {}
    BY <1>2, <1>5, <2>1, Zenon DEF Idle
  <2> QED BY <2>3, <2>4, Zenon DEF JobState, Turn
<1> QED BY <1>4, <1>6, <1>7, Zenon

(* Another message of a job waits behind the ones there are. *)
LEMMA WaitingJobs ==
    ASSUME JobsInv, NEW m \in Msgs, NEW n \in jobList \ empty,
           msgQue' = [msgQue EXCEPT ![n] = Append(@, m)],
           stream' = [stream EXCEPT ![n] = Append(@, m)],
           UNCHANGED <<request, ready, empty, jobList, job>>,
           \A w \in Workers : pc'[w] = pc[w] /\ held'[w] = held[w]
    PROVE  StreamsInv' /\ \A j \in jobList' : JobState(j)'
<1>1. n \in JobIds /\ stream[n] \in Seq(Msgs) /\ msgQue[n] \in Seq(Msgs)
  BY JobTypes, Zenon
<1>2. /\ stream' \in [JobIds -> Seq(Msgs)]
      /\ \A j \in JobIds : j # n => stream'[j] = stream[j] /\ msgQue'[j] = msgQue[j]
      /\ stream'[n] = Append(stream[n], m) /\ msgQue'[n] = Append(msgQue[n], m)
  BY <1>1, JobTypes
<1>3. StreamsInv'
  BY <1>2, Zenon DEF JobsInv, StreamsInv
<1>4. \A j : ReadyOf(j)' = ReadyOf(j) /\ BusyWith(j)' = BusyWith(j) /\ BusyWith(j) \subseteq Workers
  BY Zenon DEF BusyWith, ReadyOf
<1>5. ASSUME NEW j \in jobList, j # n PROVE JobState(j)'
  <2>1. stream'[j] = stream[j] /\ msgQue'[j] = msgQue[j]
    BY <1>2, <1>5, JobTypes, Zenon
  <2> QED BY <1>4, <2>1, JobStays, Zenon DEF JobsInv
<1>6. ASSUME NEW k, Oldest(k, n) PROVE Oldest(k, n)'
  <2>1. stream[n] # <<>> /\ Head(stream[n]) = k /\ Tail(stream[n]) = msgQue[n]
    BY <1>6, Zenon DEF Oldest
  <2>2. /\ stream'[n] # <<>> /\ Head(stream'[n]) = Head(stream[n])
        /\ Tail(stream'[n]) = Append(Tail(stream[n]), m)
    BY <1>1, <1>2, <2>1, JoinBehind, Zenon
  <2> QED BY <1>2, <2>1, <2>2, Zenon DEF Oldest
<1>7. JobState(n)'
  <2>1. ASSUME NEW k \in Msgs, Turn(k, n) PROVE Turn(k, n)'
    BY <1>4, <1>6, <2>1, Zenon DEF Turn
  <2>2. ASSUME NEW w \in Workers, Served(w, n) PROVE Served(w, n)'
    <3>1. CASE pc[w] = "work"
      <4>1. Oldest(held[w], n)
        BY <2>2, <3>1, Zenon DEF Served
      <4>2. PICK k : k = held[w]
        BY Zenon
      <4>3. Oldest(k, n)' /\ held'[w] = k
        BY <1>6, <4>1, <4>2, Zenon
      <4>4. pc'[w] = "work" /\ (stream'[n] # <<>> /\ Head(stream'[n]) = held'[w] /\ Tail(stream'[n]) = msgQue'[n])
        BY <3>1, <4>3, Zenon DEF Oldest
      <4> QED BY <1>4, <2>2, <4>4, Zenon DEF Served, Oldest
    <3>2. CASE pc[w] # "work"
      BY <1>2, <1>4, <2>2, <3>2, Zenon DEF Served
    <3> QED BY <3>1, <3>2, Zenon
  <2> QED BY <2>1, <2>2, Zenon DEF JobsInv, JobState
<1> QED BY <1>3, <1>5, <1>7, Zenon

(* The server thread dispatches a message, or returns it. *)
LEMMA DispatchJobs ==
    ASSUME JobsInv, PlacesInv', RequestsStay, ServerDispatch
    PROVE  StreamsInv' /\ \A j \in jobList' : JobState(j)'
<1>1. PICK m \in Msgs : m = held[Server]
  <2>1. Server \in Threads /\ pc[Server] = "handle"
    BY Zenon DEF Threads, ServerDispatch
  <2> QED BY <2>1, HeldMessage, Zenon DEF JobsInv
<1>2. UNCHANGED <<jobList, job>> /\ \A w \in Workers : pc'[w] = pc[w] /\ held'[w] = held[w]
  <2>1. \A w \in Workers : w \in Threads /\ w # Server
    BY ServerAssumption, Zenon DEF Threads
  <2> QED BY <2>1, JobTypes, Zenon DEF ServerDispatch, Goto
<1>3. PICK n : n = request[m].job
  BY Zenon
<1>4. CASE UNCHANGED <<ready, msgQue, empty, stream>>
  BY <1>2, <1>4, JobsSame, Zenon
<1>5. CASE request[m].pool \in Pools /\ Dispatch(m, request[m]) /\ UNCHANGED request
  <2>1. CASE /\ n = DISCRETEJOBID \/ n \in empty
             /\ MakeReady(m) /\ empty' = empty \ {n} /\ UNCHANGED msgQue
             /\ stream' = IF n \in empty THEN [stream EXCEPT ![n] = Append(@, m)] ELSE stream
    BY <1>2, <1>3, <1>5, <2>1, FirstJobs, Zenon
  <2>2. CASE /\ n \in jobList \ empty /\ UNCHANGED <<ready, empty>>
             /\ msgQue' = [msgQue EXCEPT ![n] = Append(@, m)]
             /\ stream' = [stream EXCEPT ![n] = Append(@, m)]
    BY <1>2, <1>5, <2>2, WaitingJobs, Zenon
  <2>3. \/ /\ n = DISCRETEJOBID \/ n \in empty
           /\ MakeReady(m) /\ empty' = empty \ {n} /\ UNCHANGED msgQue
           /\ stream' = IF n \in empty THEN [stream EXCEPT ![n] = Append(@, m)] ELSE stream
        \/ /\ n \in jobList \ empty /\ UNCHANGED <<ready, empty>>
           /\ msgQue' = [msgQue EXCEPT ![n] = Append(@, m)]
           /\ stream' = [stream EXCEPT ![n] = Append(@, m)]
    BY <1>3, <1>5, Zenon DEF Dispatch, queues
  <2> QED BY <2>1, <2>2, <2>3, Zenon
<1> QED BY <1>1, <1>4, <1>5, Zenon DEF ServerDispatch, queues

(* A worker takes a message: the job, if it is still there, is served. *)
LEMMA TakeJobs ==
    ASSUME JobsInv, PlacesInv', RequestsStay, NEW w \in Workers, Take(w)
    PROVE  StreamsInv' /\ \A j \in jobList' : JobState(j)'
<1>1. /\ w \in Threads /\ w # Server /\ pc[w] = "take" /\ job[w] = DISCRETEJOBID /\ PoolOf[w] \in Pools
      /\ \A u \in Workers : u \in Threads
  BY ServerAssumption, Zenon DEF Take, JobsInv, StreamsInv, Threads
<1>2. UNCHANGED <<request, msgQue, stream, empty, jobList>>
  BY DEF Take, jobs
<1>3. CASE (Goto(w, "gone") \/ Goto(w, "pend")) /\ UNCHANGED <<ready, held, job>>
  <2>1. \A u \in Workers \ {w} : pc'[u] = pc[u]
    BY <1>1, <1>3, JobTypes, Zenon DEF Goto
  <2> QED BY <1>1, <1>2, <1>3, <2>1, JobsSame, Zenon
<1>4. CASE /\ ready[PoolOf[w]] # <<>>
           /\ ready' = [ready EXCEPT ![PoolOf[w]] = Tail(ready[PoolOf[w]])]
           /\ held' = [held EXCEPT ![w] = Head(ready[PoolOf[w]])]
           /\ job' = [job EXCEPT ![w] = request[Head(ready[PoolOf[w]])].job]
           /\ Goto(w, "work")
  <2>1. PICK p \in Pools : p = PoolOf[w]
    BY <1>1, Zenon
  <2>2. PICK m : m = Head(ready[p])
    OBVIOUS
  <2>3. PICK n : n = request[m].job
    BY Zenon
  <2>4. /\ \A u \in Workers \ {w} : pc'[u] = pc[u] /\ held'[u] = held[u] /\ job'[u] = job[u]
        /\ pc'[w] = "work" /\ held'[w] = m /\ job'[w] = n
    BY <1>1, <1>4, <2>1, <2>2, <2>3, JobTypes, Zenon DEF Goto
  <2>5. ReadyIn(ready) = ReadyIn(ready') \cup {m}
    BY <1>4, <2>1, <2>2, JobTypes, ReadyLeaves, Zenon
  <2>6. m \in Msgs /\ m \notin ReadyIn(ready')
    <3>1. ready[p] # <<>> /\ ready' = Put(ready, p, Rest(ready[p])) /\ m = First(ready[p])
      BY <1>4, <2>1, <2>2, Zenon DEF Put, Rest, First
    <3>2. Tidy(serverQue, held, ready, msgQue)
      BY Zenon DEF JobsInv, PlacesInv, LinesInv
    <3>3. /\ m \in Msgs /\ Tidy(serverQue, held, ready', msgQue)
          /\ m \notin Has(serverQue, held, ready', msgQue)
      BY <3>1, <3>2, TakeReady
    <3> QED BY <3>3, ReadyPresent, Zenon
  <2>7. n \in JobIds \cup {DISCRETEJOBID}
    <3>1. m \in InServer
      BY <2>5, ReadyPresent, Zenon DEF JobsInv, PlacesInv, LinesInv
    <3>2. request[m] \in Requests
      BY <3>1, <2>6, Zenon DEF JobsInv, PlacesInv, PartsInv, InServer
    <3> QED BY <2>3, <3>2, ServerAssumption, Zenon
  <2>8. StreamsInv'
    <3>1. job' \in [Threads -> JobIds \cup {DISCRETEJOBID}]
      BY <1>4, <2>1, <2>2, <2>3, <2>7, JobTypes, Zenon
    <3> QED BY <1>2, <2>4, <3>1, Zenon DEF JobsInv, StreamsInv
  <2>9. \A j : ReadyOf(j)' = ReadyOf(j) \ {m}
    <3>1. \A j : ReadyOf(j)' = {k \in ReadyIn(ready') : request[k].job = j}
      BY <1>2, ReadyOfIs, Zenon
    <3>2. \A j : ReadyOf(j) = {k \in ReadyIn(ready) : request[k].job = j}
      BY ReadyOfIs, Zenon
    <3> QED BY <2>5, <2>6, <3>1, <3>2, Zenon
  <2>10. m \in ReadyOf(n) /\ \A j : j # n => m \notin ReadyOf(j)
    BY <2>3, <2>5, ReadyOfIs, Zenon
  <2>11. ASSUME NEW j \in jobList, j # n PROVE JobState(j)'
    <3>1. ReadyOf(j)' = ReadyOf(j)
      BY <2>9, <2>10, <2>11, Zenon
    <3>2. job[w] # j /\ job'[w] # j
      BY <1>1, <2>4, <2>11, JobTypes, Zenon
    <3>3. BusyWith(j)' = BusyWith(j) /\ BusyWith(j) \subseteq Workers \ {w}
      BY <2>4, <3>2, Zenon DEF BusyWith
    <3> QED BY <1>2, <2>4, <3>1, <3>3, JobStays, Zenon DEF JobsInv
  <2>12. ASSUME n \in jobList PROVE JobState(n)'
    <3>1. n \notin empty /\ JobState(n)
      BY <2>10, <2>12, Zenon DEF JobsInv, JobState, Idle
    <3>2. Turn(m, n)
      BY <2>10, <3>1, Zenon DEF JobState, Turn, Served
    <3>3. ReadyOf(n)' = {} /\ BusyWith(n) = {} /\ Oldest(m, n)
      BY <2>9, <3>2, Zenon DEF Turn
    <3>4. BusyWith(n)' = {w}
      BY <2>4, <3>3, Zenon DEF BusyWith
    <3>5. Served(w, n)'
      BY <1>2, <2>4, <3>3, <3>4, Zenon DEF Served, Oldest
    <3> QED BY <1>2, <3>1, <3>5, Zenon DEF JobState
  <2> QED BY <1>2, <2>8, <2>11, <2>12, Zenon
<1> QED BY <1>3, <1>4, Zenon DEF Take

(* A worker has done with a message: the next one of the job has its turn. *)
LEMMA FinishJobs ==
    ASSUME JobsInv, PlacesInv', RequestsStay, NEW w \in Workers, FinishJobMessage(w)
    PROVE  StreamsInv' /\ \A j \in jobList' : JobState(j)'
<1>1. PICK n : n = job[w]
  BY Zenon
<1>2. /\ w \in Threads /\ \A u \in Workers : u \in Threads
      /\ pc[w] = "next" /\ NextOfJob(w, n)
      /\ UNCHANGED <<request, jobList, stream, held>>
  BY <1>1, Zenon DEF FinishJobMessage, Threads
<1>3. /\ \A u \in Workers \ {w} : pc'[u] = pc[u] /\ job'[u] = job[u]
      /\ pc'[w] = "pend" /\ job'[w] = DISCRETEJOBID
      /\ job' \in [Threads -> JobIds \cup {DISCRETEJOBID}]
  BY <1>2, JobTypes, Zenon DEF FinishJobMessage, Goto
<1>4. \A j \in jobList : BusyWith(j)' = BusyWith(j) \ {w}
  BY <1>3, JobTypes, Zenon DEF BusyWith
<1>5. n \in jobList => Served(w, n) /\ n \notin empty /\ n \in JobIds
  BY <1>1, ServedBy, JobTypes, Zenon DEF JobsInv
<1>6. \A j \in jobList : j # n => w \notin BusyWith(j)
  BY <1>1, Zenon DEF BusyWith
<1>7. ASSUME NEW j \in jobList, j # n, ReadyOf(j)' = ReadyOf(j), msgQue'[j] = msgQue[j],
             j \in empty' <=> j \in empty
      PROVE  JobState(j)'
  <2>1. BusyWith(j)' = BusyWith(j) /\ BusyWith(j) \subseteq Workers \ {w}
    BY <1>4, <1>6, <1>7, Zenon DEF BusyWith
  <2> QED BY <1>2, <1>3, <1>7, <2>1, JobStays, Zenon DEF JobsInv
<1>8. CASE n \notin jobList /\ UNCHANGED <<ready, empty, msgQue>>
  <2>1. \A j : ReadyOf(j)' = ReadyOf(j)
    BY <1>2, <1>8, Zenon DEF ReadyOf
  <2>2. StreamsInv'
    BY <1>2, <1>3, <1>8, Zenon DEF JobsInv, StreamsInv
  <2> QED BY <1>2, <1>7, <1>8, <2>1, <2>2, Zenon
<1>9. CASE n \in jobList /\ msgQue[n] = <<>> /\ empty' = empty \cup {n} /\ UNCHANGED <<ready, msgQue>>
  <2>1. \A j : ReadyOf(j)' = ReadyOf(j)
    BY <1>2, <1>9, Zenon DEF ReadyOf
  <2>2. StreamsInv'
    BY <1>2, <1>3, <1>9, Zenon DEF JobsInv, StreamsInv
  <2>3. JobState(n)'
    <3>1. ReadyOf(n)' = {} /\ BusyWith(n)' = {} /\ stream'[n] = <<>> /\ msgQue'[n] = <<>>
      BY <1>2, <1>4, <1>5, <1>9, <2>1, Zenon DEF Served
    <3> QED BY <1>9, <3>1, Zenon DEF JobState, Idle
  <2>4. ASSUME NEW j \in jobList, j # n PROVE JobState(j)'
    BY <1>7, <1>9, <2>1, <2>4, Zenon
  <2> QED BY <1>2, <2>2, <2>3, <2>4, Zenon
<1>10. CASE /\ n \in jobList /\ msgQue[n] # <<>> /\ UNCHANGED empty
            /\ msgQue' = [msgQue EXCEPT ![n] = Tail(@)]
            /\ MakeReady(Head(msgQue[n]))
  <2>1. PICK m : m = Head(msgQue[n])
    BY Zenon
  <2>2. msgQue[n] \in Seq(Msgs) /\ m \in Msgs /\ m \in Elems(msgQue[n])
    BY <1>5, <1>10, <2>1, JobTypes, LeaveElems
  <2>3. request[m].job = n /\ request[m].pool \in Pools /\ MakeReady(m)
    BY <1>5, <1>10, <2>1, <2>2, Zenon DEF JobsInv, PlacesInv, QueueInv
  <2>4. ReadyIn(ready') = ReadyIn(ready) \cup {m}
    BY <2>2, <2>3, JobTypes, ReadyJoins, Zenon
  <2>5. \A j : ReadyOf(j)' = IF j = n THEN ReadyOf(j) \cup {m} ELSE ReadyOf(j)
    <3>1. \A j : ReadyOf(j)' = {k \in ReadyIn(ready') : request[k].job = j}
      BY <1>2, ReadyOfIs, Zenon
    <3>2. \A j : ReadyOf(j) = {k \in ReadyIn(ready) : request[k].job = j}
      BY ReadyOfIs, Zenon
    <3> QED BY <2>3, <2>4, <3>1, <3>2, Zenon
  <2>6. msgQue'[n] = Tail(msgQue[n]) /\ \A j \in JobIds : j # n => msgQue'[j] = msgQue[j]
    BY <1>5, <1>10, JobTypes, Zenon
  <2>7. StreamsInv'
    BY <1>2, <1>3, <1>10, <2>6, Zenon DEF JobsInv, StreamsInv
  <2>8. JobState(n)'
    <3>1. ReadyOf(n)' = {m} /\ BusyWith(n)' = {} /\ stream'[n] = msgQue[n]
      BY <1>2, <1>4, <1>5, <1>10, <2>5, Zenon DEF Served
    <3>2. Oldest(m, n)'
      BY <1>10, <2>1, <2>6, <3>1, Zenon DEF Oldest
    <3> QED BY <1>5, <1>10, <2>2, <3>1, <3>2, Zenon DEF JobState, Turn
  <2>9. ASSUME NEW j \in jobList, j # n PROVE JobState(j)'
    <3>1. j \in JobIds /\ ReadyOf(j)' = ReadyOf(j)
      BY <2>5, <2>9, JobTypes, Zenon
    <3> QED BY <1>7, <1>10, <2>6, <2>9, <3>1, Zenon
  <2> QED BY <1>2, <2>7, <2>8, <2>9, Zenon
<1> QED BY <1>2, <1>8, <1>9, <1>10, Zenon DEF NextOfJob, queues

-----------------------------------------------------------------------------
(* What each step does to the messages in the server. *)
LEMMA RequestsStep ==
    ASSUME PlacesInv, [Next]_vars
    PROVE  \/ UNCHANGED request
           \/ \E S : GiveBack(S)
           \/ \E m \in Msgs, r \in Requests : SendRequest(m, r)
<1>1. ASSUME NEW t, Process(t) PROVE \E S : GiveBack(S)
  BY <1>1, Zenon DEF Process
<1>2. CASE Start \/ Delete \/ GetMessage \/ Unblocked \/ CallDpc(Server) \/ JoinServer \/ MarkWorkers \/ PostWorkers
  BY <1>2, Zenon DEF Start, Delete, GetMessage, Unblocked, CallDpc, JoinServer, MarkWorkers,
     PostWorkers
<1>3. CASE ServerProcess
  BY <1>1, <1>3, Zenon DEF ServerProcess
<1>4. CASE ServerDispatch
  BY <1>4, Zenon DEF ServerDispatch
<1>5. CASE JoinWorkers
  BY <1>5, Zenon DEF JoinWorkers
<1>6. ASSUME NEW w \in Workers, WorkerStep(w) PROVE UNCHANGED request \/ \E S : GiveBack(S)
  <2>1. CASE Work(w)
    BY <1>1, <2>1, Zenon DEF Work
  <2>2. CASE Pend(w) \/ Take(w) \/ CallDpc(w) \/ FinishJobMessage(w)
    BY <2>2, Zenon DEF Pend, Take, CallDpc, FinishJobMessage
  <2> QED BY <1>6, <2>1, <2>2, Zenon DEF WorkerStep
<1>7. CASE UNCHANGED vars
  BY <1>7, Zenon DEF vars
<1> QED BY <1>2, <1>3, <1>4, <1>5, <1>6, <1>7, Zenon DEF Next, ServerStep, FinalizeStep

(* A message asks for the same as long as it is in the server, and what is *)
(* sent to a server that is being deleted is no request for a job.         *)
LEMMA RequestsKept ==
    ASSUME PlacesInv, [Next]_vars
    PROVE  /\ RequestsStay
           /\ \A m \in InServer' : m \in InServer \/ (shutdown => request'[m].type # "acq")
<1>1. request \in [Msgs -> Requests \cup {None}]
  BY Zenon DEF PlacesInv, PartsInv
<1>2. CASE UNCHANGED request
  BY <1>2, Zenon DEF RequestsStay, InServer
<1>3. ASSUME NEW S, GiveBack(S) PROVE RequestsStay /\ InServer' \subseteq InServer
  BY <1>3, GiveBackKeeps, Zenon DEF PlacesInv, RequestsStay
<1>4. ASSUME NEW m \in Msgs, NEW r \in Requests, SendRequest(m, r)
      PROVE  /\ RequestsStay
             /\ \A k \in InServer' : k \in InServer \/ (shutdown => request'[k].type # "acq")
  BY <1>1, <1>4, Zenon DEF SendRequest, RequestsStay, InServer
<1> QED BY <1>2, <1>3, <1>4, RequestsStep, Zenon

(* Without a request for one no job is made. *)
LEMMA NoNewJob ==
    ASSUME PlacesInv, [Next]_vars, \A m \in InServer : request[m].type # "acq"
    PROVE  jobList' \subseteq jobList
<1>1. ASSUME NEW t, AtWork(t), Process(t) PROVE jobList' \subseteq jobList
  <2>1. request[held[t]].type # "acq"
    BY <1>1, HeldMessage, Zenon DEF AtWork
  <2> QED BY <1>1, <2>1, Zenon DEF Process, RelJobId
<1>2. CASE \E m \in Msgs, r \in Requests : SendRequest(m, r)
  BY <1>2, Zenon DEF SendRequest, jobs
<1>3. CASE Start \/ GetMessage \/ Unblocked \/ CallDpc(Server) \/ ServerDispatch
  BY <1>3, Zenon DEF Start, GetMessage, Unblocked, CallDpc, ServerDispatch, jobs
<1>4. CASE Delete \/ JoinServer \/ MarkWorkers \/ PostWorkers \/ JoinWorkers
  BY <1>4, Zenon DEF Delete, JoinServer, MarkWorkers, PostWorkers, JoinWorkers, At, jobs
<1>5. CASE ServerProcess
  <2>1. AtWork(Server)
    BY <1>5, Zenon DEF ServerProcess, AtWork, Threads
  <2> QED BY <1>1, <1>5, <2>1, Zenon DEF ServerProcess
<1>6. ASSUME NEW w \in Workers, WorkerStep(w) PROVE jobList' \subseteq jobList
  <2>1. CASE Work(w)
    <3>1. AtWork(w)
      BY <2>1, ServerAssumption, Zenon DEF Work, AtWork, Threads
    <3> QED BY <1>1, <2>1, <3>1, Zenon DEF Work
  <2>2. CASE Pend(w) \/ Take(w) \/ CallDpc(w) \/ FinishJobMessage(w)
    BY <2>2, Zenon DEF Pend, Take, CallDpc, FinishJobMessage, jobs
  <2> QED BY <1>6, <2>1, <2>2, Zenon DEF WorkerStep
<1>7. CASE UNCHANGED vars
  BY <1>7, Zenon DEF vars, jobs
<1> QED BY <1>2, <1>3, <1>4, <1>5, <1>6, <1>7, Zenon DEF Next, ServerStep, FinalizeStep

(* RcmServer_delete() is called once, and first says so. *)
LEMMA EndingStep ==
    ASSUME JobsInv, [Next]_vars
    PROVE  EndingInv'
<1>1. CASE Delete
  <2>1. /\ jobList' = {} /\ shutdown' /\ UNCHANGED request
        /\ \A m \in InServer : request[m].type # "acq"
    BY <1>1, Zenon DEF Delete, At, jobs
  <2> QED BY <2>1, Zenon DEF EndingInv, InServer
<1>2. CASE UNCHANGED shutdown /\ (UNCHANGED finalize \/ finalize.step # "none")
  <2>1. finalize'.step # "none" => shutdown'
    BY <1>2, Zenon DEF JobsInv, EndingInv
  <2>2. ASSUME shutdown PROVE jobList' = {} /\ \A m \in InServer' : request'[m].type # "acq"
    <3>1. jobList = {} /\ \A m \in InServer : request[m].type # "acq"
      BY <2>2, Zenon DEF JobsInv, EndingInv
    <3>2. jobList' = {}
      BY <3>1, NoNewJob, Zenon DEF JobsInv
    <3> QED BY <2>2, <3>1, <3>2, RequestsKept, Zenon DEF JobsInv, RequestsStay
  <2> QED BY <1>2, <2>1, <2>2, Zenon DEF EndingInv
<1>3. CASE JoinServer \/ MarkWorkers \/ PostWorkers \/ JoinWorkers
  BY <1>2, <1>3, Zenon DEF JoinServer, MarkWorkers, PostWorkers, JoinWorkers, At
<1>4. CASE \E m \in Msgs, r \in Requests : SendRequest(m, r)
  BY <1>2, <1>4, Zenon DEF SendRequest, ending
<1>5. CASE Start \/ ServerStep
  BY <1>2, <1>5, Zenon DEF Start, ServerStep, GetMessage, Unblocked, ServerProcess, ServerDispatch,
     CallDpc, ending
<1>6. CASE \E w \in Workers : WorkerStep(w)
  BY <1>2, <1>6, Zenon DEF WorkerStep, Pend, Take, Work, CallDpc, FinishJobMessage, ending
<1>7. CASE UNCHANGED vars
  BY <1>2, <1>7, Zenon DEF vars, ending
<1> QED BY <1>1, <1>3, <1>4, <1>5, <1>6, <1>7, Zenon DEF Next, FinalizeStep

(* A step of a thread or a client that leaves the jobs alone. *)
LEMMA QuietJobs ==
    ASSUME JobsInv, PlacesInv', RequestsStay,
           \/ \E m \in Msgs, r \in Requests : SendRequest(m, r)
           \/ Start \/ GetMessage \/ Unblocked \/ CallDpc(Server)
           \/ \E w \in Workers : Pend(w) \/ CallDpc(w)
    PROVE  StreamsInv' /\ \A j \in jobList' : JobState(j)'
<1>1. UNCHANGED <<ready, msgQue, stream, empty, jobList, job>>
  BY Zenon DEF SendRequest, Start, GetMessage, Unblocked, CallDpc, Pend, queues, jobs, threads
<1>2. \A w \in Workers : w \in Threads /\ w # Server
  BY ServerAssumption, Zenon DEF Threads
<1>3. CASE \E m \in Msgs, r \in Requests : SendRequest(m, r)
  BY <1>1, <1>3, JobsSame, Zenon DEF SendRequest, threads
<1>4. CASE Start \/ GetMessage \/ Unblocked \/ CallDpc(Server)
  <2>1. \A w \in Workers : pc'[w] = pc[w] /\ held'[w] = held[w]
    BY <1>2, <1>4, JobTypes, Zenon DEF Start, GetMessage, Unblocked, CallDpc, Goto
  <2> QED BY <1>1, <2>1, JobsSame, Zenon
<1>5. ASSUME NEW w \in Workers, Pend(w) PROVE StreamsInv' /\ \A j \in jobList' : JobState(j)'
  <2>1. UNCHANGED held /\ \A u \in Workers \ {w} : pc'[u] = pc[u]
    BY <1>2, <1>5, JobTypes, Zenon DEF Pend, Goto
  <2>2. job[w] = DISCRETEJOBID
    BY <1>5, Zenon DEF Pend, JobsInv, StreamsInv
  <2> QED BY <1>1, <2>1, <2>2, JobsSame, Zenon
<1>6. ASSUME NEW w \in Workers, CallDpc(w) PROVE StreamsInv' /\ \A j \in jobList' : JobState(j)'
  <2>1. /\ UNCHANGED held /\ \A u \in Workers \ {w} : pc'[u] = pc[u]
        /\ pc[w] = "call" /\ pc'[w] = Processed(w)
    BY <1>2, <1>6, JobTypes, Zenon DEF CallDpc, Goto
  <2>2. job[w] # DISCRETEJOBID => Processed(w) = "next"
    BY <1>2, Zenon DEF Processed
  <2> QED BY <1>1, <2>1, <2>2, JobsSame, Zenon
<1> QED BY <1>3, <1>4, <1>5, <1>6, Zenon

(* The steps of RcmServer_delete(): there are no jobs when queues are      *)
(* emptied.                                                                *)
LEMMA DeleteJobs ==
    ASSUME JobsInv, PlacesInv', RequestsStay, Delete \/ FinalizeStep
    PROVE  StreamsInv' /\ \A j \in jobList' : JobState(j)'
<1>1. UNCHANGED <<msgQue, stream, empty, jobList, job, pc, held>>
  BY Zenon DEF Delete, FinalizeStep, JoinServer, MarkWorkers, PostWorkers, JoinWorkers, At, jobs,
     threads
<1>2. CASE UNCHANGED ready
  BY <1>1, <1>2, JobsSame, Zenon
<1>3. CASE JoinWorkers
  <2>1. jobList' = {}
    BY <1>1, <1>3, Zenon DEF JoinWorkers, At, JobsInv, EndingInv
  <2>2. StreamsInv'
    BY <1>1, Zenon DEF JobsInv, StreamsInv
  <2> QED BY <2>1, <2>2, Zenon
<1> QED BY <1>2, <1>3, Zenon DEF Delete, FinalizeStep, JoinServer, MarkWorkers, PostWorkers, queues

(* Every step keeps the invariant. *)
LEMMA JobsStep == JobsInv /\ [Next]_vars => JobsInv'
<1> SUFFICES ASSUME JobsInv, [Next]_vars PROVE JobsInv'
  OBVIOUS
<1>1. PlacesInv' /\ RequestsStay /\ EndingInv'
  BY PlacesStep, RequestsKept, EndingStep, Zenon DEF JobsInv
<1>2. StreamsInv' /\ \A j \in jobList' : JobState(j)'
  <2>1. CASE \/ \E m \in Msgs, r \in Requests : SendRequest(m, r)
             \/ Start \/ GetMessage \/ Unblocked \/ CallDpc(Server)
             \/ \E w \in Workers : Pend(w) \/ CallDpc(w)
    BY <1>1, <2>1, QuietJobs, Zenon
  <2>2. CASE Delete \/ FinalizeStep
    BY <1>1, <2>2, DeleteJobs, Zenon
  <2>3. CASE ServerProcess
    <3>1. AtWork(Server) /\ Process(Server) /\ UNCHANGED <<ready, job>>
      BY <2>3, Zenon DEF ServerProcess, AtWork, Threads, queues
    <3> QED BY <1>1, <3>1, ProcessJobs, Zenon
  <2>4. CASE ServerDispatch
    BY <1>1, <2>4, DispatchJobs, Zenon
  <2>5. ASSUME NEW w \in Workers, Work(w) PROVE StreamsInv' /\ \A j \in jobList' : JobState(j)'
    <3>1. AtWork(w) /\ Process(w) /\ UNCHANGED <<ready, job>>
      BY <2>5, ServerAssumption, Zenon DEF Work, AtWork, Threads, queues
    <3> QED BY <1>1, <3>1, ProcessJobs, Zenon
  <2>6. ASSUME NEW w \in Workers, Take(w) PROVE StreamsInv' /\ \A j \in jobList' : JobState(j)'
    BY <1>1, <2>6, TakeJobs, Zenon
  <2>7. ASSUME NEW w \in Workers, FinishJobMessage(w)
        PROVE  StreamsInv' /\ \A j \in jobList' : JobState(j)'
    BY <1>1, <2>7, FinishJobs, Zenon
  <2>8. CASE UNCHANGED vars
    <3>1. UNCHANGED <<ready, msgQue, stream, empty, jobList, job, pc, held>>
      BY <2>8, Zenon DEF vars, queues, jobs, threads
    <3> QED BY <1>1, <3>1, JobsSame, Zenon
  <2> QED BY <2>1, <2>2, <2>3, <2>4, <2>5, <2>6, <2>7, <2>8, Zenon DEF Next, ServerStep, WorkerStep
<1> QED BY <1>1, <1>2, Zenon DEF JobsInv

(* In the initial state there are no jobs. *)
LEMMA InitJobs == Init => JobsInv
<1> SUFFICES ASSUME Init PROVE JobsInv
  BY Zenon
<1>1. StreamsInv
  BY DEF Init, StreamsInv, DISCRETEJOBID, Threads
<1>2. EndingInv /\ jobList = {}
  BY DEF Init, EndingInv
<1> QED BY <1>1, <1>2, InitPlaces, Zenon DEF JobsInv

(* Each job is idle, or its oldest message has its turn or is with one     *)
(* worker.                                                                 *)
THEOREM JobsInvariant == Spec => []JobsInv
<1>1. Init => JobsInv
  BY InitJobs
<1>2. JobsInv /\ [Next]_vars => JobsInv'
  BY JobsStep, Zenon
<1> QED BY <1>1, <1>2, PTL DEF Spec

(* The messages of a job are then in order. *)
LEMMA StatesGiveOrder == JobsInv => JobInOrder
<1> SUFFICES ASSUME JobsInv PROVE JobInOrder
  OBVIOUS
<1>1. ASSUME NEW j \in jobList
      PROVE  IF j \in empty THEN ReadyOf(j) = {} /\ BusyWith(j) = {} /\ msgQue[j] = <<>>
             ELSE \/ HasOne(ReadyOf(j)) /\ BusyWith(j) = {}
                  \/ ReadyOf(j) = {} /\ HasOne(BusyWith(j))
  <2>1. CASE j \in empty
    BY <2>1, Zenon DEF JobsInv, JobState, Idle
  <2>2. CASE j \notin empty
    <3>1. \/ \E m : ReadyOf(j) = {m} /\ BusyWith(j) = {}
          \/ \E w : ReadyOf(j) = {} /\ BusyWith(j) = {w}
      BY <2>2, Zenon DEF JobsInv, JobState, Turn, Served
    <3> QED BY <2>2, <3>1, Zenon DEF HasOne
  <2> QED BY <2>1, <2>2, Zenon
<1>2. ASSUME NEW w \in Workers, pc[w] = "work", job[w] \in jobList
      PROVE  stream[job[w]] # <<>> /\ held[w] = Head(stream[job[w]])
  <2>1. Served(w, job[w])
    BY <1>2, ServedBy, Zenon DEF JobsInv
  <2> QED BY <1>2, <2>1, Zenon DEF Served, Oldest
<1> QED BY <1>1, <1>2, Zenon DEF JobInOrder

(* The messages of a job stream are executed one at a time and in the      *)
(* order in which the server thread has taken them.                        *)
THEOREM JobsRunInOrder == Spec => []JobInOrder
<1>1. Spec => []JobsInv
  BY JobsInvariant, Zenon
<1>2. JobsInv => JobInOrder
  BY StatesGiveOrder
<1> QED BY <1>1, <1>2, PTL

=============================================================================
