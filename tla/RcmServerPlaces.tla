-------------------------- MODULE RcmServerPlaces ---------------------------
(***************************************************************************)
(* Where the messages of an RCM server are, for any number of messages,    *)
(* workers, pools and job streams.                                         *)
(*                                                                         *)
(* The places are seen as lines: the inbound queue, the ready queues, the  *)
(* queues of the jobs, and the hands of each thread, a line of one or      *)
(* none.  A step of the server appends a message to a line, takes the      *)
(* first one of a line, or clears a line.                                  *)
(***************************************************************************)
EXTENDS RcmServer, TLAPS

(* Names for what a step does to a function and to a sequence, so that a   *)
(* proof can use them without looking into them.                           *)
Put(f, x, v) == [f EXCEPT ![x] = v]
Joined(s, m) == Append(s, m)
First(s) == Head(s)
Rest(s) == Tail(s)
Nothing == <<>>

(* No message is twice in the lines of C. *)
Unique(C) ==
    \A k, l \in Lines : \A x \in DOMAIN C[k], y \in DOMAIN C[l] :
        C[k][x] = C[l][y] => k = l /\ x = y

(* The messages in the lines of C. *)
Present(C) == UNION {Elems(C[l]) : l \in Lines}

-----------------------------------------------------------------------------
(* What is in a sequence when a message joins it... *)
LEMMA JoinElems ==
    ASSUME NEW s \in Seq(Msgs), NEW m \in Msgs
    PROVE  Elems(Append(s, m)) = Elems(s) \cup {m}
<1>1. /\ DOMAIN s = 1 .. Len(s) /\ DOMAIN Append(s, m) = 1 .. (Len(s) + 1) /\ Len(s) \in Nat
      /\ \A x \in 1 .. Len(s) : Append(s, m)[x] = s[x]
      /\ Append(s, m)[Len(s) + 1] = m
  OBVIOUS
<1> QED BY <1>1 DEF Elems

(* ...and when the first one leaves. *)
LEMMA LeaveElems ==
    ASSUME NEW s \in Seq(Msgs), s # <<>>
    PROVE  Elems(s) = Elems(Tail(s)) \cup {Head(s)}
<1>1. /\ DOMAIN s = 1 .. Len(s) /\ DOMAIN Tail(s) = 1 .. (Len(s) - 1) /\ Len(s) \in Nat \ {0}
      /\ \A x \in 1 .. (Len(s) - 1) : Tail(s)[x] = s[x + 1]
      /\ Head(s) = s[1]
  OBVIOUS
<1>2. ASSUME NEW x \in 1 .. Len(s), x # 1 PROVE s[x] \in Elems(Tail(s))
  <2>1. x - 1 \in 1 .. (Len(s) - 1) /\ Tail(s)[x - 1] = s[x]
    BY <1>1, <1>2
  <2> QED BY <1>1, <2>1, Zenon DEF Elems
<1>3. ASSUME NEW x \in 1 .. (Len(s) - 1) PROVE Tail(s)[x] \in Elems(s)
  <2>1. x + 1 \in 1 .. Len(s) /\ Tail(s)[x] = s[x + 1]
    BY <1>1
  <2> QED BY <1>1, <2>1 DEF Elems
<1>4. Elems(s) \subseteq Elems(Tail(s)) \cup {Head(s)}
  BY <1>1, <1>2 DEF Elems
<1>5. Elems(Tail(s)) \cup {Head(s)} \subseteq Elems(s)
  BY <1>1, <1>3 DEF Elems
<1> QED BY <1>4, <1>5

(* What it is to be present. *)
LEMMA PresentIs ==
    ASSUME NEW C \in [Lines -> Seq(Msgs)], NEW m
    PROVE  m \in Present(C) <=> \E l \in Lines : \E x \in DOMAIN C[l] : C[l][x] = m
BY DEF Present, Elems

(* A message that is nowhere is appended to a line. *)
LEMMA AppendToLine ==
    ASSUME NEW C \in [Lines -> Seq(Msgs)], NEW l \in Lines, NEW m \in Msgs,
           NEW D, D = Put(C, l, Joined(C[l], m)),
           Unique(C), m \notin Present(C)
    PROVE  /\ D \in [Lines -> Seq(Msgs)] /\ Unique(D)
           /\ Present(D) = Present(C) \cup {m}
<1> DEFINE n == Len(C[l])
<1>1. C[l] \in Seq(Msgs) /\ n \in Nat /\ Append(C[l], m) \in Seq(Msgs)
  OBVIOUS
<1>2. D \in [Lines -> Seq(Msgs)]
  BY <1>1 DEF Put, Joined
<1>3. \A k \in Lines \ {l} : D[k] = C[k]
  BY DEF Put
<1>4. /\ DOMAIN C[l] = 1 .. n /\ DOMAIN D[l] = 1 .. (n + 1)
      /\ \A x \in 1 .. n : D[l][x] = C[l][x]
      /\ D[l][n + 1] = m
  BY <1>1 DEF Put, Joined
<1>5. ASSUME NEW k \in Lines, NEW x \in DOMAIN D[k]
      PROVE  \/ x \in DOMAIN C[k] /\ D[k][x] = C[k][x]
             \/ k = l /\ x = n + 1 /\ D[k][x] = m
  BY <1>1, <1>3, <1>4
<1>6. ASSUME NEW k \in Lines, NEW x \in DOMAIN C[k]
      PROVE  x \in DOMAIN D[k] /\ D[k][x] = C[k][x] /\ C[k][x] # m
  BY <1>1, <1>3, <1>4, PresentIs
<1>7. Unique(D)
  BY <1>5, <1>6 DEF Unique
<1>8. Present(D) = Present(C) \cup {m}
  <2>1. ASSUME NEW y \in Present(D) PROVE y \in Present(C) \cup {m}
    <3>1. PICK k \in Lines : \E x \in DOMAIN D[k] : D[k][x] = y
      BY <1>2, PresentIs, Zenon
    <3>2. PICK x \in DOMAIN D[k] : D[k][x] = y
      BY <3>1
    <3>3. y = m \/ \E z \in DOMAIN C[k] : C[k][z] = y
      BY <1>5, <3>2
    <3> QED BY <3>3, PresentIs, Zenon
  <2>2. ASSUME NEW y \in Present(C) PROVE y \in Present(D)
    <3>1. PICK k \in Lines : \E x \in DOMAIN C[k] : C[k][x] = y
      BY PresentIs
    <3>2. \E x \in DOMAIN D[k] : D[k][x] = y
      BY <1>6, <3>1
    <3> QED BY <1>2, <3>2, PresentIs, Zenon
  <2>3. m \in Present(D)
    <3>1. n + 1 \in DOMAIN D[l] /\ D[l][n + 1] = m
      BY <1>1, <1>4
    <3>2. \E x \in DOMAIN D[l] : D[l][x] = m
      BY <3>1
    <3> QED BY <1>2, <3>2, PresentIs, Zenon
  <2> QED BY <2>1, <2>2, <2>3, Zenon
<1> QED BY <1>2, <1>7, <1>8, Zenon

(* The first message of a line is taken. *)
LEMMA TakeFromLine ==
    ASSUME NEW C \in [Lines -> Seq(Msgs)], NEW l \in Lines, C[l] # <<>>,
           NEW D, D = Put(C, l, Rest(C[l])), Unique(C)
    PROVE  /\ D \in [Lines -> Seq(Msgs)] /\ Unique(D)
           /\ First(C[l]) \in Msgs /\ First(C[l]) \in Present(C)
           /\ Present(D) = Present(C) \ {First(C[l])}
<1> DEFINE n == Len(C[l])
<1>1. C[l] \in Seq(Msgs) /\ n \in Nat \ {0} /\ Tail(C[l]) \in Seq(Msgs)
  OBVIOUS
<1>2. D \in [Lines -> Seq(Msgs)]
  BY <1>1 DEF Put, Rest
<1>3. \A k \in Lines \ {l} : D[k] = C[k]
  BY DEF Put
<1>4. /\ DOMAIN C[l] = 1 .. n /\ DOMAIN D[l] = 1 .. (n - 1)
      /\ \A x \in 1 .. (n - 1) : D[l][x] = C[l][x + 1]
      /\ Head(C[l]) = C[l][1] /\ 1 \in DOMAIN C[l]
  BY <1>1 DEF Put, Rest
<1>5. ASSUME NEW k \in Lines, NEW x \in DOMAIN D[k]
      PROVE  \/ k # l /\ x \in DOMAIN C[k] /\ D[k][x] = C[k][x]
             \/ k = l /\ x \in Nat /\ x + 1 \in DOMAIN C[k] /\ x # 0 /\ D[k][x] = C[k][x + 1]
  BY <1>1, <1>3, <1>4
<1>6. Head(C[l]) \in Msgs /\ Head(C[l]) \in Present(C)
  <2>1. C[l][1] \in Msgs
    BY <1>1, <1>4
  <2> QED BY <1>4, <2>1, PresentIs, Zenon
<1>7. Unique(D)
  <2> SUFFICES ASSUME NEW k1 \in Lines, NEW k2 \in Lines,
                      NEW x \in DOMAIN D[k1], NEW y \in DOMAIN D[k2], D[k1][x] = D[k2][y]
               PROVE  k1 = k2 /\ x = y
    BY DEF Unique
  <2>1. CASE k1 # l /\ k2 # l
    BY <2>1, <1>5 DEF Unique
  <2>2. CASE k1 = l /\ k2 # l
    BY <2>2, <1>5 DEF Unique
  <2>3. CASE k1 # l /\ k2 = l
    BY <2>3, <1>5 DEF Unique
  <2>4. CASE k1 = l /\ k2 = l
    <3>1. /\ x \in Nat /\ y \in Nat /\ x + 1 \in DOMAIN C[l] /\ y + 1 \in DOMAIN C[l]
          /\ C[l][x + 1] = C[l][y + 1]
      BY <2>4, <1>5, Zenon
    <3>2. x + 1 = y + 1
      BY <3>1 DEF Unique
    <3> QED BY <2>4, <3>1, <3>2
  <2> QED BY <2>1, <2>2, <2>3, <2>4
<1>8. ASSUME NEW y \in Present(D) PROVE y \in Present(C) /\ y # Head(C[l])
  <2>1. PICK k \in Lines : \E x \in DOMAIN D[k] : D[k][x] = y
    BY <1>2, PresentIs, Zenon
  <2>2. PICK x \in DOMAIN D[k] : D[k][x] = y
    BY <2>1
  <2>3. CASE k # l
    <3>1. x \in DOMAIN C[k] /\ C[k][x] = y
      BY <2>2, <2>3, <1>5
    <3>2. C[k][x] = C[l][1] => k = l
      BY <1>4, <3>1, Zenon DEF Unique
    <3> QED BY <2>3, <3>1, <3>2, <1>4, PresentIs, Zenon
  <2>4. CASE k = l
    <3>1. x \in Nat /\ x # 0 /\ x + 1 \in DOMAIN C[l] /\ y = C[l][x + 1]
      BY <2>2, <2>4, <1>5
    <3>2. x + 1 # 1
      BY <3>1
    <3>3. \A z \in DOMAIN C[l] : C[l][z] = C[l][1] => z = 1
      BY <1>4, SMT DEF Unique
    <3> QED BY <3>1, <3>2, <3>3, <1>4, PresentIs, Zenon
  <2> QED BY <2>3, <2>4
<1>9. ASSUME NEW y \in Present(C), y # Head(C[l]) PROVE y \in Present(D)
  <2>1. PICK k \in Lines : \E x \in DOMAIN C[k] : C[k][x] = y
    BY PresentIs
  <2>2. PICK x \in DOMAIN C[k] : C[k][x] = y
    BY <2>1
  <2>3. CASE k # l
    BY <2>2, <2>3, <1>2, <1>3, PresentIs, Zenon
  <2>4. CASE k = l
    <3>1. x \in 1 .. n /\ x # 1
      BY <2>2, <2>4, <1>4, <1>9
    <3>2. x - 1 \in 1 .. (n - 1) /\ (x - 1) + 1 = x
      BY <3>1, <1>1
    <3>3. x - 1 \in DOMAIN D[l] /\ D[l][x - 1] = y
      BY <3>2, <1>4, <2>2, <2>4
    <3> QED BY <3>3, <1>2, PresentIs, Zenon
  <2> QED BY <2>3, <2>4
<1>10. Present(D) = Present(C) \ {Head(C[l])}
  BY <1>8, <1>9, Zenon
<1> QED BY <1>2, <1>6, <1>7, <1>10, Zenon DEF First

(* A line is cleared. *)
LEMMA ClearLine ==
    ASSUME NEW C \in [Lines -> Seq(Msgs)], NEW l \in Lines,
           NEW D, D = Put(C, l, Nothing), Unique(C)
    PROVE  /\ D \in [Lines -> Seq(Msgs)] /\ Unique(D)
           /\ Present(D) = Present(C) \ Elems(C[l])
<1>1. <<>> \in Seq(Msgs) /\ DOMAIN <<>> = {}
  OBVIOUS
<1>2. D \in [Lines -> Seq(Msgs)] /\ D[l] = <<>>
  BY <1>1 DEF Put, Nothing
<1>3. \A k \in Lines \ {l} : D[k] = C[k]
  BY DEF Put
<1>4. Unique(D)
  <2> SUFFICES ASSUME NEW k1 \in Lines, NEW k2 \in Lines,
                      NEW x \in DOMAIN D[k1], NEW y \in DOMAIN D[k2], D[k1][x] = D[k2][y]
               PROVE  k1 = k2 /\ x = y
    BY Zenon DEF Unique
  <2>1. k1 # l /\ k2 # l
    BY <1>1, <1>2, Zenon
  <2>2. D[k1] = C[k1] /\ D[k2] = C[k2]
    BY <1>3, <2>1
  <2> QED BY <2>2, SMT DEF Unique
<1>5. ASSUME NEW y \in Present(D) PROVE y \in Present(C) /\ y \notin Elems(C[l])
  <2>1. PICK k \in Lines : \E x \in DOMAIN D[k] : D[k][x] = y
    BY <1>2, PresentIs, Zenon
  <2>2. k # l
    BY <1>1, <1>2, <2>1
  <2>3. PICK x \in DOMAIN C[k] : C[k][x] = y
    BY <1>3, <2>1, <2>2
  <2>4. y \in Present(C)
    BY <2>3, PresentIs, Zenon
  <2>5. y \notin Elems(C[l])
    BY <2>2, <2>3 DEF Unique, Elems
  <2> QED BY <2>4, <2>5
<1>6. ASSUME NEW y \in Present(C), y \notin Elems(C[l]) PROVE y \in Present(D)
  <2>1. PICK k \in Lines : \E x \in DOMAIN C[k] : C[k][x] = y
    BY PresentIs
  <2>2. k # l
    BY <1>6, <2>1 DEF Elems
  <2> QED BY <2>1, <2>2, <1>2, <1>3, PresentIs, Zenon
<1> QED BY <1>2, <1>4, <1>5, <1>6, Zenon

-----------------------------------------------------------------------------
LinesTyped(que, hands, pools, waiting) ==
    /\ que \in Seq(Msgs) /\ hands \in [Threads -> Msgs \cup {None}]
    /\ pools \in [Pools -> Seq(Msgs)] /\ waiting \in [JobIds -> Seq(Msgs)]

(* Lines have one name each. *)
LEMMA LinesDiffer ==
    /\ \A t : Inbound # Hands(t) /\ Inbound # Ready(t) /\ Inbound # Job(t)
    /\ \A t, u : Hands(t) # Ready(u) /\ Hands(t) # Job(u) /\ Ready(t) # Job(u)
    /\ \A t, u : (Hands(t) = Hands(u) => t = u) /\ (Ready(t) = Ready(u) => t = u)
                /\ (Job(t) = Job(u) => t = u)
BY DEF Inbound, Hands, Ready, Job

(* What holds of the lines of every kind holds of every line. *)
LEMMA LineKinds ==
    ASSUME NEW l \in Lines
    PROVE  \/ l = Inbound
           \/ \E t \in Threads : l = Hands(t)
           \/ \E p \in Pools : l = Ready(p)
           \/ \E j \in JobIds : l = Job(j)
BY DEF Lines

(* The lines are sequences of messages, each what its name says. *)
LEMMA LineIs ==
    ASSUME NEW q, NEW h, NEW r, NEW g, LinesTyped(q, h, r, g)
    PROVE  /\ LinesOf(q, h, r, g) \in [Lines -> Seq(Msgs)]
           /\ Inbound \in Lines /\ LinesOf(q, h, r, g)[Inbound] = q
           /\ \A t \in Threads : Hands(t) \in Lines /\ LinesOf(q, h, r, g)[Hands(t)] = InHands(h[t])
           /\ \A p \in Pools : Ready(p) \in Lines /\ LinesOf(q, h, r, g)[Ready(p)] = r[p]
           /\ \A j \in JobIds : Job(j) \in Lines /\ LinesOf(q, h, r, g)[Job(j)] = g[j]
<1> DEFINE F == LinesOf(q, h, r, g)
<1>1. Inbound \in Lines /\ F[Inbound] = q
  BY DEF LinesOf, Line, Lines, Inbound
<1>2. ASSUME NEW t \in Threads PROVE Hands(t) \in Lines /\ F[Hands(t)] = InHands(h[t])
  BY DEF LinesOf, Line, Lines, Hands
<1>3. ASSUME NEW p \in Pools PROVE Ready(p) \in Lines /\ F[Ready(p)] = r[p]
  BY DEF LinesOf, Line, Lines, Ready
<1>4. ASSUME NEW j \in JobIds PROVE Job(j) \in Lines /\ F[Job(j)] = g[j]
  BY DEF LinesOf, Line, Lines, Job
<1>5. ASSUME NEW t \in Threads PROVE InHands(h[t]) \in Seq(Msgs)
  BY DEF InHands, LinesTyped
<1>6. ASSUME NEW l \in Lines PROVE F[l] \in Seq(Msgs)
  <2>1. CASE l = Inbound
    BY <1>1, <2>1 DEF LinesTyped
  <2>2. ASSUME NEW t \in Threads, l = Hands(t) PROVE F[l] \in Seq(Msgs)
    BY <1>2, <1>5, <2>2
  <2>3. ASSUME NEW p \in Pools, l = Ready(p) PROVE F[l] \in Seq(Msgs)
    BY <1>3, <2>3 DEF LinesTyped
  <2>4. ASSUME NEW j \in JobIds, l = Job(j) PROVE F[l] \in Seq(Msgs)
    BY <1>4, <2>4 DEF LinesTyped
  <2> QED BY <2>1, <2>2, <2>3, <2>4, LineKinds
<1>7. F = [l \in Lines |-> F[l]]
  BY DEF LinesOf
<1> QED BY <1>1, <1>2, <1>3, <1>4, <1>6, <1>7, Zenon

(* Changing one part of the server changes one line: the inbound queue, *)
LEMMA InboundChanges ==
    ASSUME NEW q, NEW h, NEW r, NEW g, LinesTyped(q, h, r, g), NEW s \in Seq(Msgs)
    PROVE  /\ LinesTyped(s, h, r, g)
           /\ LinesOf(s, h, r, g) = Put(LinesOf(q, h, r, g), Inbound, s)
<1>1. LinesTyped(s, h, r, g)
  BY DEF LinesTyped, Put
<1>2. ASSUME NEW k \in Lines
      PROVE  Line(k, s, h, r, g) = IF k = Inbound THEN s ELSE Line(k, q, h, r, g)
  BY LineKinds DEF Line, Inbound, Hands, Ready, Job, LinesTyped, Put
<1>3. Inbound \in Lines
  BY DEF Lines
<1> QED BY <1>1, <1>2, <1>3, Zenon DEF LinesOf, Put

(* what a thread has, *)
LEMMA HandsChange ==
    ASSUME NEW q, NEW h, NEW r, NEW g, LinesTyped(q, h, r, g), NEW t \in Threads, NEW m \in Msgs \cup {None}
    PROVE  /\ LinesTyped(q, Put(h, t, m), r, g)
           /\ LinesOf(q, Put(h, t, m), r, g) = Put(LinesOf(q, h, r, g), Hands(t), InHands(m))
<1>1. LinesTyped(q, Put(h, t, m), r, g)
  BY DEF LinesTyped, Put
<1>2. ASSUME NEW k \in Lines
      PROVE  Line(k, q, Put(h, t, m), r, g) = IF k = Hands(t) THEN InHands(m) ELSE Line(k, q, h, r, g)
  BY LineKinds DEF Line, Inbound, Hands, Ready, Job, LinesTyped, Put
<1>3. Hands(t) \in Lines
  BY DEF Lines
<1> QED BY <1>1, <1>2, <1>3, Zenon DEF LinesOf, Put

(* a ready queue, *)
LEMMA ReadyChanges ==
    ASSUME NEW q, NEW h, NEW r, NEW g, LinesTyped(q, h, r, g), NEW p \in Pools, NEW s \in Seq(Msgs)
    PROVE  /\ LinesTyped(q, h, Put(r, p, s), g)
           /\ LinesOf(q, h, Put(r, p, s), g) = Put(LinesOf(q, h, r, g), Ready(p), s)
<1>1. LinesTyped(q, h, Put(r, p, s), g)
  BY DEF LinesTyped, Put
<1>2. ASSUME NEW k \in Lines
      PROVE  Line(k, q, h, Put(r, p, s), g) = IF k = Ready(p) THEN s ELSE Line(k, q, h, r, g)
  BY LineKinds DEF Line, Inbound, Hands, Ready, Job, LinesTyped, Put
<1>3. Ready(p) \in Lines
  BY DEF Lines
<1> QED BY <1>1, <1>2, <1>3, Zenon DEF LinesOf, Put

(* the queue of a job. *)
LEMMA JobChanges ==
    ASSUME NEW q, NEW h, NEW r, NEW g, LinesTyped(q, h, r, g), NEW j \in JobIds, NEW s \in Seq(Msgs)
    PROVE  /\ LinesTyped(q, h, r, Put(g, j, s))
           /\ LinesOf(q, h, r, Put(g, j, s)) = Put(LinesOf(q, h, r, g), Job(j), s)
<1>1. LinesTyped(q, h, r, Put(g, j, s))
  BY DEF LinesTyped, Put
<1>2. ASSUME NEW k \in Lines
      PROVE  Line(k, q, h, r, Put(g, j, s)) = IF k = Job(j) THEN s ELSE Line(k, q, h, r, g)
  BY LineKinds DEF Line, Inbound, Hands, Ready, Job, LinesTyped, Put
<1>3. Job(j) \in Lines
  BY Zenon DEF Lines
<1> QED BY <1>1, <1>2, <1>3, Zenon DEF LinesOf, Put

-----------------------------------------------------------------------------
(* The lines hold messages, none of them twice. *)
Tidy(que, hands, pools, waiting) ==
    LinesTyped(que, hands, pools, waiting) /\ Unique(LinesOf(que, hands, pools, waiting))

(* The messages the server has. *)
Has(que, hands, pools, waiting) == Present(LinesOf(que, hands, pools, waiting))

(* A thread has a message when it is about to process or dispatch it. *)
ServerPoints == {"start", "get", "handle", "call", "gone"}
WorkerPoints == {"pend", "take", "work", "call", "next", "gone"}

HandsInv ==
    /\ pc \in [Threads -> ServerPoints \cup WorkerPoints]
    /\ pc[Server] \in ServerPoints /\ (held[Server] # None <=> pc[Server] = "handle")
    /\ \A w \in Workers : pc[w] \in WorkerPoints /\ (held[w] # None <=> pc[w] = "work")

(* What waits in the queue of a job is of that job, and for a known pool. *)
QueueInv ==
    \A j \in JobIds : \A m \in Elems(msgQue[j]) : request[m].job = j /\ request[m].pool \in Pools

(* The messages in the lines are those the clients have sent. *)
LinesInv ==
    /\ Tidy(serverQue, held, ready, msgQue)
    /\ Has(serverQue, held, ready, msgQue) = InServer

PartsInv ==
    /\ request \in [Msgs -> Requests \cup {None}]
    /\ jobList \subseteq JobIds /\ jobId \in JobIds
    /\ finalize \in [step : {"none", "server", "mark", "post", "join", "done"}, pool : Pools]

(* The inductive invariant. *)
PlacesInv == PartsInv /\ HandsInv /\ QueueInv /\ LinesInv

(* A message joins a line... *)
LEMMA PutLine ==
    ASSUME NEW q, NEW h, NEW r, NEW g, Tidy(q, h, r, g), NEW l \in Lines, NEW s, LinesOf(q, h, r, g)[l] = s,
           NEW m \in Msgs, m \notin Has(q, h, r, g),
           NEW q2, NEW h2, NEW r2, NEW g2, LinesTyped(q2, h2, r2, g2),
           LinesOf(q2, h2, r2, g2) = Put(LinesOf(q, h, r, g), l, Joined(s, m))
    PROVE  /\ Tidy(q2, h2, r2, g2)
           /\ Has(q2, h2, r2, g2) = Has(q, h, r, g) \cup {m}
<1> DEFINE C == LinesOf(q, h, r, g)
           D == LinesOf(q2, h2, r2, g2)
<1>1. C \in [Lines -> Seq(Msgs)] /\ Unique(C)
  BY LineIs DEF Tidy
<1>2. Tidy(q2, h2, r2, g2) <=> Unique(D)
  BY DEF Tidy
<1>3. Has(q, h, r, g) = Present(C) /\ Has(q2, h2, r2, g2) = Present(D)
  BY Zenon DEF Has
<1> HIDE DEF C, D
<1> QED BY <1>1, <1>2, <1>3, AppendToLine DEF C, D

(* ...the first message of a line leaves... *)
LEMMA TakeLine ==
    ASSUME NEW q, NEW h, NEW r, NEW g, Tidy(q, h, r, g), NEW l \in Lines, NEW s, LinesOf(q, h, r, g)[l] = s, s # <<>>,
           NEW q2, NEW h2, NEW r2, NEW g2, LinesTyped(q2, h2, r2, g2),
           LinesOf(q2, h2, r2, g2) = Put(LinesOf(q, h, r, g), l, Rest(s))
    PROVE  /\ Tidy(q2, h2, r2, g2)
           /\ First(s) \in Msgs /\ First(s) \in Has(q, h, r, g)
           /\ Has(q2, h2, r2, g2) = Has(q, h, r, g) \ {First(s)}
<1> DEFINE C == LinesOf(q, h, r, g)
           D == LinesOf(q2, h2, r2, g2)
<1>1. C \in [Lines -> Seq(Msgs)] /\ Unique(C)
  BY LineIs DEF Tidy
<1>2. Tidy(q2, h2, r2, g2) <=> Unique(D)
  BY DEF Tidy
<1>3. Has(q, h, r, g) = Present(C) /\ Has(q2, h2, r2, g2) = Present(D)
  BY Zenon DEF Has
<1> HIDE DEF C, D
<1> QED BY <1>1, <1>2, <1>3, TakeFromLine DEF C, D

(* ...a line is cleared. *)
LEMMA EmptyLine ==
    ASSUME NEW q, NEW h, NEW r, NEW g, Tidy(q, h, r, g), NEW l \in Lines, NEW s, LinesOf(q, h, r, g)[l] = s,
           NEW q2, NEW h2, NEW r2, NEW g2, LinesTyped(q2, h2, r2, g2),
           LinesOf(q2, h2, r2, g2) = Put(LinesOf(q, h, r, g), l, Nothing)
    PROVE  /\ Tidy(q2, h2, r2, g2)
           /\ Has(q2, h2, r2, g2) = Has(q, h, r, g) \ Elems(s)
<1> DEFINE C == LinesOf(q, h, r, g)
           D == LinesOf(q2, h2, r2, g2)
<1>1. C \in [Lines -> Seq(Msgs)] /\ Unique(C)
  BY LineIs DEF Tidy
<1>2. Tidy(q2, h2, r2, g2) <=> Unique(D)
  BY DEF Tidy
<1>3. Has(q, h, r, g) = Present(C) /\ Has(q2, h2, r2, g2) = Present(D)
  BY Zenon DEF Has
<1> HIDE DEF C, D
<1> QED BY <1>1, <1>2, <1>3, ClearLine, Zenon DEF C, D

(* A client sends a message. *)
LEMMA PutInbound ==
    ASSUME NEW q, NEW h, NEW r, NEW g, Tidy(q, h, r, g),
           NEW m \in Msgs, m \notin Has(q, h, r, g),
           NEW q2, q2 = Joined(q, m)
    PROVE  /\ Tidy(q2, h, r, g)
           /\ Has(q2, h, r, g) = Has(q, h, r, g) \cup {m}
<1>1. LinesTyped(q, h, r, g) /\ Joined(q, m) \in Seq(Msgs)
  BY DEF Tidy, LinesTyped, Joined
<1>2. Inbound \in Lines /\ LinesOf(q, h, r, g)[Inbound] = q
  BY <1>1, LineIs
<1>3. /\ LinesTyped(q2, h, r, g)
      /\ LinesOf(q2, h, r, g) = Put(LinesOf(q, h, r, g), Inbound, Joined(q, m))
  BY <1>1, InboundChanges
<1> QED BY <1>1, <1>2, <1>3, PutLine

(* A thread gets a message. *)
LEMMA PutHands ==
    ASSUME NEW q, NEW h, NEW r, NEW g, Tidy(q, h, r, g),
           NEW t \in Threads, NEW m \in Msgs, m \notin Has(q, h, r, g), h[t] = None,
           NEW h2, h2 = Put(h, t, m)
    PROVE  /\ Tidy(q, h2, r, g)
           /\ Has(q, h2, r, g) = Has(q, h, r, g) \cup {m}
<1>1. /\ LinesTyped(q, h, r, g) /\ m \in Msgs \cup {None}
      /\ InHands(m) = Joined(InHands(h[t]), m)
  BY ServerAssumption DEF Tidy, LinesTyped, InHands, Joined
<1>2. Hands(t) \in Lines /\ LinesOf(q, h, r, g)[Hands(t)] = InHands(h[t])
  BY <1>1, LineIs
<1>3. /\ LinesTyped(q, h2, r, g)
      /\ LinesOf(q, h2, r, g) = Put(LinesOf(q, h, r, g), Hands(t), Joined(InHands(h[t]), m))
  BY <1>1, HandsChange
<1> QED BY <1>1, <1>2, <1>3, PutLine

(* A message becomes ready. *)
LEMMA PutReady ==
    ASSUME NEW q, NEW h, NEW r, NEW g, Tidy(q, h, r, g),
           NEW p \in Pools, NEW m \in Msgs, m \notin Has(q, h, r, g),
           NEW r2, r2 = Put(r, p, Joined(r[p], m))
    PROVE  /\ Tidy(q, h, r2, g)
           /\ Has(q, h, r2, g) = Has(q, h, r, g) \cup {m}
<1>1. LinesTyped(q, h, r, g) /\ Joined(r[p], m) \in Seq(Msgs)
  BY DEF Tidy, LinesTyped, Joined
<1>2. Ready(p) \in Lines /\ LinesOf(q, h, r, g)[Ready(p)] = r[p]
  BY <1>1, LineIs
<1>3. /\ LinesTyped(q, h, r2, g)
      /\ LinesOf(q, h, r2, g) = Put(LinesOf(q, h, r, g), Ready(p), Joined(r[p], m))
  BY <1>1, ReadyChanges
<1> QED BY <1>1, <1>2, <1>3, PutLine

(* A message joins its job. *)
LEMMA PutJob ==
    ASSUME NEW q, NEW h, NEW r, NEW g, Tidy(q, h, r, g),
           NEW j \in JobIds, NEW m \in Msgs, m \notin Has(q, h, r, g),
           NEW g2, g2 = Put(g, j, Joined(g[j], m))
    PROVE  /\ Tidy(q, h, r, g2)
           /\ Has(q, h, r, g2) = Has(q, h, r, g) \cup {m}
<1>1. LinesTyped(q, h, r, g) /\ Joined(g[j], m) \in Seq(Msgs)
  BY DEF Tidy, LinesTyped, Joined
<1>2. Job(j) \in Lines /\ LinesOf(q, h, r, g)[Job(j)] = g[j]
  BY <1>1, LineIs
<1>3. /\ LinesTyped(q, h, r, g2)
      /\ LinesOf(q, h, r, g2) = Put(LinesOf(q, h, r, g), Job(j), Joined(g[j], m))
  BY <1>1, JobChanges
<1> QED BY <1>1, <1>2, <1>3, PutLine

(* A message leaves the inbound queue. *)
LEMMA TakeInbound ==
    ASSUME NEW q, NEW h, NEW r, NEW g, Tidy(q, h, r, g),
           q # <<>>,
           NEW q2, q2 = Rest(q)
    PROVE  /\ Tidy(q2, h, r, g)
           /\ First(q) \in Msgs /\ First(q) \in Has(q, h, r, g)
           /\ Has(q2, h, r, g) = Has(q, h, r, g) \ {First(q)}
<1>1. LinesTyped(q, h, r, g) /\ Rest(q) \in Seq(Msgs)
  BY DEF Tidy, LinesTyped, Rest
<1>2. Inbound \in Lines /\ LinesOf(q, h, r, g)[Inbound] = q
  BY <1>1, LineIs
<1>3. /\ LinesTyped(q2, h, r, g)
      /\ LinesOf(q2, h, r, g) = Put(LinesOf(q, h, r, g), Inbound, Rest(q))
  BY <1>1, InboundChanges
<1> QED BY <1>1, <1>2, <1>3, TakeLine

(* A thread gives its message away. *)
LEMMA TakeHands ==
    ASSUME NEW q, NEW h, NEW r, NEW g, Tidy(q, h, r, g),
           NEW t \in Threads, h[t] # None,
           NEW h2, h2 = Put(h, t, None)
    PROVE  /\ Tidy(q, h2, r, g)
           /\ h[t] \in Msgs /\ h[t] \in Has(q, h, r, g)
           /\ Has(q, h2, r, g) = Has(q, h, r, g) \ {h[t]}
<1>1. /\ LinesTyped(q, h, r, g) /\ InHands(h[t]) # <<>>
      /\ InHands(None) = Rest(InHands(h[t])) /\ h[t] = First(InHands(h[t]))
  BY ServerAssumption DEF Tidy, LinesTyped, InHands, Rest, First
<1>2. Hands(t) \in Lines /\ LinesOf(q, h, r, g)[Hands(t)] = InHands(h[t])
  BY <1>1, LineIs
<1>3. /\ LinesTyped(q, h2, r, g)
      /\ LinesOf(q, h2, r, g) = Put(LinesOf(q, h, r, g), Hands(t), Rest(InHands(h[t])))
  BY <1>1, HandsChange
<1> QED BY <1>1, <1>2, <1>3, TakeLine

(* A message leaves a ready queue. *)
LEMMA TakeReady ==
    ASSUME NEW q, NEW h, NEW r, NEW g, Tidy(q, h, r, g),
           NEW p \in Pools, r[p] # <<>>,
           NEW r2, r2 = Put(r, p, Rest(r[p]))
    PROVE  /\ Tidy(q, h, r2, g)
           /\ First(r[p]) \in Msgs /\ First(r[p]) \in Has(q, h, r, g)
           /\ Has(q, h, r2, g) = Has(q, h, r, g) \ {First(r[p])}
<1>1. LinesTyped(q, h, r, g) /\ Rest(r[p]) \in Seq(Msgs)
  BY DEF Tidy, LinesTyped, Rest
<1>2. Ready(p) \in Lines /\ LinesOf(q, h, r, g)[Ready(p)] = r[p]
  BY <1>1, LineIs
<1>3. /\ LinesTyped(q, h, r2, g)
      /\ LinesOf(q, h, r2, g) = Put(LinesOf(q, h, r, g), Ready(p), Rest(r[p]))
  BY <1>1, ReadyChanges
<1> QED BY <1>1, <1>2, <1>3, TakeLine

(* A message leaves the queue of its job. *)
LEMMA TakeJob ==
    ASSUME NEW q, NEW h, NEW r, NEW g, Tidy(q, h, r, g),
           NEW j \in JobIds, g[j] # <<>>,
           NEW g2, g2 = Put(g, j, Rest(g[j]))
    PROVE  /\ Tidy(q, h, r, g2)
           /\ First(g[j]) \in Msgs /\ First(g[j]) \in Has(q, h, r, g)
           /\ Has(q, h, r, g2) = Has(q, h, r, g) \ {First(g[j])}
<1>1. LinesTyped(q, h, r, g) /\ Rest(g[j]) \in Seq(Msgs)
  BY DEF Tidy, LinesTyped, Rest
<1>2. Job(j) \in Lines /\ LinesOf(q, h, r, g)[Job(j)] = g[j]
  BY <1>1, LineIs
<1>3. /\ LinesTyped(q, h, r, g2)
      /\ LinesOf(q, h, r, g2) = Put(LinesOf(q, h, r, g), Job(j), Rest(g[j]))
  BY <1>1, JobChanges
<1> QED BY <1>1, <1>2, <1>3, TakeLine

(* A ready queue is cleared. *)
LEMMA ClearReady ==
    ASSUME NEW q, NEW h, NEW r, NEW g, Tidy(q, h, r, g), NEW p \in Pools,
           NEW r2, r2 = Put(r, p, Nothing)
    PROVE  /\ Tidy(q, h, r2, g)
           /\ Has(q, h, r2, g) = Has(q, h, r, g) \ Elems(r[p])
<1>1. LinesTyped(q, h, r, g) /\ Nothing \in Seq(Msgs)
  BY DEF Tidy, Nothing
<1>2. Ready(p) \in Lines /\ LinesOf(q, h, r, g)[Ready(p)] = r[p]
  BY <1>1, LineIs
<1>3. /\ LinesTyped(q, h, r2, g)
      /\ LinesOf(q, h, r2, g) = Put(LinesOf(q, h, r, g), Ready(p), Nothing)
  BY <1>1, ReadyChanges
<1> QED BY <1>1, <1>2, <1>3, EmptyLine

(* The queue of a job is cleared. *)
LEMMA ClearJob ==
    ASSUME NEW q, NEW h, NEW r, NEW g, Tidy(q, h, r, g), NEW j \in JobIds,
           NEW g2, g2 = Put(g, j, Nothing)
    PROVE  /\ Tidy(q, h, r, g2)
           /\ Has(q, h, r, g2) = Has(q, h, r, g) \ Elems(g[j])
<1>1. LinesTyped(q, h, r, g) /\ Nothing \in Seq(Msgs)
  BY DEF Tidy, Nothing
<1>2. Job(j) \in Lines /\ LinesOf(q, h, r, g)[Job(j)] = g[j]
  BY <1>1, LineIs
<1>3. /\ LinesTyped(q, h, r, g2)
      /\ LinesOf(q, h, r, g2) = Put(LinesOf(q, h, r, g), Job(j), Nothing)
  BY <1>1, JobChanges
<1> QED BY <1>1, <1>2, <1>3, EmptyLine

(* What waits in the queue of a job is in the server. *)
LEMMA WaitingPresent ==
    ASSUME NEW q, NEW h, NEW r, NEW g, Tidy(q, h, r, g),
           NEW j \in JobIds, NEW m \in Elems(g[j])
    PROVE  m \in Has(q, h, r, g)
<1> DEFINE C == LinesOf(q, h, r, g)
<1>1. C \in [Lines -> Seq(Msgs)] /\ Job(j) \in Lines /\ C[Job(j)] = g[j]
  BY LineIs DEF Tidy
<1>2. \E x \in DOMAIN C[Job(j)] : C[Job(j)][x] = m
  BY <1>1, Zenon DEF Elems
<1> HIDE DEF C
<1>3. m \in Present(C)
  BY <1>1, <1>2, PresentIs, Zenon
<1> QED BY <1>3, Zenon DEF Has, C

(* Messages that go back are not in the server any more, and the others    *)
(* ask for what they asked.                                                *)
LEMMA GiveBackKeeps ==
    ASSUME PartsInv, NEW S, GiveBack(S)
    PROVE  /\ request' \in [Msgs -> Requests \cup {None}]
           /\ InServer' = InServer \ S
           /\ \A m \in InServer' : request'[m] = request[m]
BY ServerAssumption, Zenon DEF PartsInv, GiveBack, InServer

(* The queues of the jobs get no message. *)
LEMMA QueueKept ==
    ASSUME PlacesInv, LinesInv', \A j \in JobIds : Elems(msgQue'[j]) \subseteq Elems(msgQue[j]),
           \A m \in InServer \cap InServer' : request'[m] = request[m]
    PROVE  QueueInv'
<1> SUFFICES ASSUME NEW j \in JobIds, NEW m \in Elems(msgQue'[j])
             PROVE  request'[m].job = j /\ request'[m].pool \in Pools
  BY Zenon DEF QueueInv
<1>1. m \in Elems(msgQue[j])
  BY Zenon
<1>2. m \in InServer
  BY <1>1, WaitingPresent, Zenon DEF PlacesInv, LinesInv
<1>3. m \in InServer'
  BY WaitingPresent, Zenon DEF LinesInv
<1>4. request[m].job = j /\ request[m].pool \in Pools
  BY <1>1 DEF PlacesInv, QueueInv
<1> QED BY <1>2, <1>3, <1>4, Zenon

(* Nothing moves. *)
LEMMA NothingMoves ==
    ASSUME PlacesInv, UNCHANGED <<request, serverQue, held, ready, msgQue>>
    PROVE  QueueInv' /\ LinesInv'
<1>1. LinesInv'
  BY DEF PlacesInv, LinesInv, InServer
<1>2. QueueInv'
  BY Zenon DEF PlacesInv, QueueInv
<1> QED BY <1>1, <1>2, Zenon

(* A thread goes on with what it has in its hands... *)
LEMMA ThreadGoes ==
    ASSUME PlacesInv, NEW t \in Threads, NEW point, Goto(t, point), UNCHANGED held, held[t] = None,
           point \in IF t = Server THEN ServerPoints \ {"handle"} ELSE WorkerPoints \ {"work"}
    PROVE  HandsInv'
<1>1. /\ pc \in [Threads -> ServerPoints \cup WorkerPoints]
      /\ pc' = [pc EXCEPT ![t] = point] /\ point \in ServerPoints \cup WorkerPoints
  BY Zenon DEF PlacesInv, HandsInv, Goto
<1>2. pc' \in [Threads -> ServerPoints \cup WorkerPoints]
  BY <1>1, Zenon
<1> QED BY <1>1, <1>2, ServerAssumption, Zenon DEF PlacesInv, HandsInv, Threads

(* ...or gets or gives away a message. *)
LEMMA ThreadMoves ==
    ASSUME PlacesInv, NEW t \in Threads, NEW point, Goto(t, point),
           NEW x \in Msgs \cup {None}, held' = Put(held, t, x),
           point \in IF t = Server THEN ServerPoints ELSE WorkerPoints,
           x # None <=> point = IF t = Server THEN "handle" ELSE "work"
    PROVE  HandsInv'
<1>1. /\ pc \in [Threads -> ServerPoints \cup WorkerPoints]
      /\ pc' = [pc EXCEPT ![t] = point] /\ point \in ServerPoints \cup WorkerPoints
      /\ held \in [Threads -> Msgs \cup {None}] /\ held' = [held EXCEPT ![t] = x]
  BY Zenon DEF PlacesInv, HandsInv, Goto, LinesInv, Tidy, LinesTyped, Put
<1>2. pc' \in [Threads -> ServerPoints \cup WorkerPoints]
  BY <1>1, Zenon
<1> QED BY <1>1, <1>2, ServerAssumption, Zenon DEF PlacesInv, HandsInv, Threads

-----------------------------------------------------------------------------
(* At first there are no messages. *)
LEMMA InitPlaces == Init => PlacesInv
<1> SUFFICES ASSUME Init PROVE PlacesInv
  BY Zenon
<1> DEFINE C == LinesOf(serverQue, held, ready, msgQue)
<1>1. PartsInv
  BY ServerAssumption DEF Init, PartsInv, JobIds, Pools
<1>2. HandsInv
  BY ServerAssumption, Zenon DEF Init, HandsInv, ServerPoints, WorkerPoints, Threads
<1>3. QueueInv
  BY DEF Init, QueueInv, Elems
<1>4. LinesTyped(serverQue, held, ready, msgQue)
  BY DEF Init, LinesTyped
<1>5. ASSUME NEW l \in Lines PROVE C[l] = <<>>
  <2>1. l = Inbound => C[l] = <<>>
    BY <1>4, LineIs DEF Init
  <2>2. ASSUME NEW t \in Threads, l = Hands(t) PROVE C[l] = <<>>
    <3>1. held[t] = None
      BY DEF Init
    <3>2. InHands(held[t]) = <<>>
      BY <3>1, Zenon DEF InHands
    <3>3. C[Hands(t)] = InHands(held[t])
      BY <1>4, LineIs
    <3> QED BY <2>2, <3>2, <3>3, Zenon
  <2>3. ASSUME NEW k \in Pools, l = Ready(k) PROVE C[l] = <<>>
    <3>1. ready[k] = <<>>
      BY Zenon DEF Init
    <3> QED BY <1>4, <2>3, <3>1, LineIs
  <2>4. ASSUME NEW j \in JobIds, l = Job(j) PROVE C[l] = <<>>
    <3>1. msgQue[j] = <<>>
      BY DEF Init
    <3> QED BY <1>4, <2>4, <3>1, LineIs
  <2> QED BY <2>1, <2>2, <2>3, <2>4, LineKinds, Zenon
<1>6. LinesInv
  <2> HIDE DEF C
  <2>1. Unique(C) /\ Present(C) = {}
    BY <1>5 DEF Unique, Present, Elems
  <2>2. InServer = {}
    BY Zenon DEF Init, InServer
  <2> QED BY <1>4, <2>1, <2>2, Zenon DEF LinesInv, Tidy, Has, C
<1> QED BY <1>1, <1>2, <1>3, <1>6, Zenon DEF PlacesInv

(* A client sends. *)
LEMMA SendPlaces ==
    ASSUME PlacesInv, NEW m \in Msgs, NEW r \in Requests, SendRequest(m, r)
    PROVE  PlacesInv'
<1>1. /\ m \notin InServer /\ InServer' = InServer \cup {m}
      /\ request' \in [Msgs -> Requests \cup {None}]
      /\ \A k \in InServer : request'[k] = request[k]
  BY ServerAssumption DEF PlacesInv, PartsInv, SendRequest, InServer
<1>2. UNCHANGED <<held, ready, msgQue, pc, jobList, jobId, finalize>> /\ serverQue' = Joined(serverQue, m)
  BY Zenon DEF SendRequest, Joined, queues, jobs, threads, ending
<1>3. LinesInv'
  <2>1. Tidy(serverQue, held, ready, msgQue) /\ Has(serverQue, held, ready, msgQue) = InServer
    BY Zenon DEF PlacesInv, LinesInv
  <2> QED BY <1>1, <1>2, <2>1, PutInbound DEF LinesInv
<1>4. QueueInv'
  BY <1>1, <1>2, <1>3, QueueKept, Zenon
<1>5. PartsInv' /\ HandsInv'
  BY <1>1, <1>2, Zenon DEF PlacesInv, PartsInv, HandsInv
<1> QED BY <1>3, <1>4, <1>5, Zenon DEF PlacesInv

(* A step of a thread that does nothing with messages. *)
LEMMA IdlePlaces ==
    ASSUME PlacesInv, NEW t \in Threads, NEW point, Goto(t, point), held[t] = None,
           point \in IF t = Server THEN ServerPoints \ {"handle"} ELSE WorkerPoints \ {"work"},
           UNCHANGED <<request, serverQue, held, ready, msgQue, jobList, jobId, finalize>>
    PROVE  PlacesInv'
<1>1. QueueInv' /\ LinesInv'
  BY NothingMoves, Zenon
<1>2. HandsInv'
  BY ThreadGoes, Zenon
<1>3. PartsInv'
  BY Zenon DEF PlacesInv, PartsInv
<1> QED BY <1>1, <1>2, <1>3, Zenon DEF PlacesInv

(* The server thread gets a message. *)
LEMMA GetPlaces == ASSUME PlacesInv, GetMessage PROVE PlacesInv'
<1>1. /\ UNCHANGED <<request, ready, msgQue, jobList, jobId, finalize>> /\ serverQue # <<>>
      /\ serverQue' = Rest(serverQue) /\ held' = Put(held, Server, First(serverQue))
      /\ Goto(Server, "handle") /\ Server \in Threads
  BY Zenon DEF GetMessage, Rest, Put, First, queues, jobs, ending, Threads
<1>2. held[Server] = None
  BY Zenon DEF PlacesInv, HandsInv, GetMessage
<1>3. Tidy(serverQue, held, ready, msgQue) /\ Has(serverQue, held, ready, msgQue) = InServer
  BY Zenon DEF PlacesInv, LinesInv
<1>4. /\ First(serverQue) \in Msgs /\ First(serverQue) \in InServer
      /\ Tidy(serverQue', held, ready, msgQue)
      /\ Has(serverQue', held, ready, msgQue) = InServer \ {First(serverQue)}
  BY <1>1, <1>3, TakeInbound
<1>5. LinesInv'
  <2>1. /\ Tidy(serverQue', held', ready, msgQue)
        /\ Has(serverQue', held', ready, msgQue) = Has(serverQue', held, ready, msgQue) \cup {First(serverQue)}
    BY <1>1, <1>2, <1>4, PutHands
  <2>2. InServer' = InServer
    BY <1>1, Zenon DEF InServer
  <2> QED BY <1>1, <1>4, <2>1, <2>2, Zenon DEF LinesInv
<1>6. QueueInv'
  BY <1>1, <1>5, QueueKept
<1>7. HandsInv'
  <2>1. First(serverQue) # None
    BY <1>4, ServerAssumption
  <2> QED BY <1>1, <1>4, <2>1, ThreadMoves, Zenon DEF ServerPoints
<1>8. PartsInv'
  BY <1>1, Zenon DEF PlacesInv, PartsInv
<1> QED BY <1>5, <1>6, <1>7, <1>8, Zenon DEF PlacesInv

(* A thread that has a message has it in its hands only. *)
LEMMA HeldMessage ==
    ASSUME PlacesInv, NEW t \in Threads, pc[t] = IF t = Server THEN "handle" ELSE "work"
    PROVE  /\ held[t] \in Msgs /\ held[t] # None /\ held[t] \in InServer
           /\ request[held[t]] \in Requests
           /\ Tidy(serverQue, Put(held, t, None), ready, msgQue)
           /\ Has(serverQue, Put(held, t, None), ready, msgQue) = InServer \ {held[t]}
<1>1. held[t] # None
  BY DEF PlacesInv, HandsInv, Threads
<1>2. Tidy(serverQue, held, ready, msgQue) /\ Has(serverQue, held, ready, msgQue) = InServer
  BY Zenon DEF PlacesInv, LinesInv
<1>3. /\ held[t] \in Msgs /\ held[t] \in InServer
      /\ Tidy(serverQue, Put(held, t, None), ready, msgQue)
      /\ Has(serverQue, Put(held, t, None), ready, msgQue) = InServer \ {held[t]}
  BY <1>1, <1>2, TakeHands
<1>4. request[held[t]] \in Requests
  BY <1>3, Zenon DEF PlacesInv, PartsInv, InServer
<1> QED BY <1>1, <1>3, <1>4, Zenon

(* A job that is released has no messages waiting any more, and no other   *)
(* line changes.                                                           *)
LEMMA ReleaseMoves ==
    ASSUME NEW q, NEW h, NEW r, Tidy(q, h, r, msgQue), jobList \subseteq JobIds,
           NEW j, NEW left, RelJobId(j, left)
    PROVE  /\ Tidy(q, h, r, msgQue')
           /\ Has(q, h, r, msgQue') = Has(q, h, r, msgQue) \ Waiting(j)
           /\ \A k \in JobIds : Elems(msgQue'[k]) \subseteq Elems(msgQue[k])
<1>1. CASE j \in jobList
  <2>1. j \in JobIds /\ msgQue' = Put(msgQue, j, Nothing) /\ Waiting(j) = Elems(msgQue[j])
    BY <1>1, Zenon DEF RelJobId, Put, Nothing, Waiting
  <2>2. Tidy(q, h, r, msgQue') /\ Has(q, h, r, msgQue') = Has(q, h, r, msgQue) \ Waiting(j)
    BY <2>1, ClearJob
  <2>3. ASSUME NEW k \in JobIds PROVE Elems(msgQue'[k]) \subseteq Elems(msgQue[k])
    <3>1. msgQue'[k] = msgQue[k] \/ msgQue'[k] = <<>>
      BY <2>1, Zenon DEF Tidy, LinesTyped, Put, Nothing
    <3> QED BY <3>1 DEF Elems
  <2> QED BY <2>2, <2>3, Zenon
<1>2. CASE j \notin jobList
  BY <1>2 DEF RelJobId, Waiting
<1> QED BY <1>1, <1>2, Zenon

(* A message is processed. *)
LEMMA ProcessPlaces ==
    ASSUME PlacesInv, NEW t \in Threads, pc[t] = IF t = Server THEN "handle" ELSE "work",
           Process(t), UNCHANGED <<serverQue, ready, finalize>>
    PROVE  PlacesInv'
<1> DEFINE m == held[t]
           r == request[m]
<1>1. /\ m \in Msgs /\ m \in InServer /\ r \in Requests
      /\ Tidy(serverQue, Put(held, t, None), ready, msgQue)
      /\ Has(serverQue, Put(held, t, None), ready, msgQue) = InServer \ {m}
  BY HeldMessage, Zenon
<1>2. held' = Put(held, t, None)
  BY DEF Process, Put
<1>3. PICK S : /\ GiveBack({m} \cup S)
               /\ Tidy(serverQue', held', ready', msgQue')
               /\ Has(serverQue', held', ready', msgQue') = (InServer \ {m}) \ S
               /\ jobList' \subseteq JobIds /\ jobId' \in JobIds
               /\ \A k \in JobIds : Elems(msgQue'[k]) \subseteq Elems(msgQue[k])
  <2>1. CASE r.type \in {"msg", "dpc"}
    <3>1. GiveBack({m} \cup {}) /\ UNCHANGED <<jobList, msgQue, jobId>>
      BY <2>1, Zenon DEF Process
    <3>2. Has(serverQue', held', ready', msgQue') = (InServer \ {m}) \ {}
      BY <1>1, <1>2, <3>1, Zenon
    <3> QED BY <1>1, <1>2, <3>1, <3>2, Zenon DEF PlacesInv, PartsInv
  <2>2. CASE r.type = "acq"
    <3>1. GiveBack({m} \cup {}) /\ AcqJobId(Executed(t)) /\ msgQue' = msgQue
      BY <2>2, Zenon DEF Process, AcqJobId
    <3>2. Has(serverQue', held', ready', msgQue') = (InServer \ {m}) \ {}
      BY <1>1, <1>2, <3>1, Zenon
    <3>3. jobList' \subseteq JobIds /\ jobId' \in JobIds
      BY <3>1, Zenon DEF AcqJobId, PlacesInv, PartsInv
    <3> QED BY <1>1, <1>2, <3>1, <3>2, <3>3, Zenon
  <2>3. CASE r.type = "rel"
    <3>1. GiveBack({m} \cup Waiting(r.target)) /\ RelJobId(r.target, Executed(t))
      BY <2>3 DEF Process
    <3>2. jobList \subseteq JobIds /\ jobId \in JobIds
      BY Zenon DEF PlacesInv, PartsInv
    <3>3. /\ Tidy(serverQue', held', ready', msgQue')
          /\ Has(serverQue', held', ready', msgQue') = (InServer \ {m}) \ Waiting(r.target)
          /\ \A k \in JobIds : Elems(msgQue'[k]) \subseteq Elems(msgQue[k])
      BY <1>1, <1>2, <3>1, <3>2, ReleaseMoves
    <3>4. jobList' \subseteq JobIds /\ jobId' \in JobIds
      BY <3>1, <3>2 DEF RelJobId
    <3> QED BY <3>1, <3>3, <3>4, Zenon
  <2> QED BY <2>1, <2>2, <2>3, Zenon DEF Process
<1> HIDE DEF m, r
<1>4. /\ request' \in [Msgs -> Requests \cup {None}] /\ InServer' = InServer \ ({m} \cup S)
      /\ \A k \in InServer' : request'[k] = request[k]
  BY <1>3, GiveBackKeeps, Zenon DEF PlacesInv
<1>5. LinesInv'
  BY <1>3, <1>4, Zenon DEF LinesInv
<1>6. QueueInv'
  BY <1>3, <1>4, <1>5, QueueKept, Zenon
<1>7. PartsInv'
  BY <1>3, <1>4 DEF PlacesInv, PartsInv
<1>8. HandsInv'
  <2>1. PICK point \in {"call", Processed(t)} : Goto(t, point)
    BY DEF Process
  <2>2. /\ point \in IF t = Server THEN ServerPoints ELSE WorkerPoints
        /\ point # IF t = Server THEN "handle" ELSE "work"
    BY <2>1, Zenon DEF Processed, ServerPoints, WorkerPoints
  <2> QED BY <1>2, <2>1, <2>2, ThreadMoves, Zenon
<1> QED BY <1>5, <1>6, <1>7, <1>8, Zenon DEF PlacesInv

(* A message becomes ready in the pool it names. *)
LEMMA MakeReadyMoves ==
    ASSUME NEW q, NEW h, NEW g, Tidy(q, h, ready, g),
           NEW m \in Msgs, m \notin Has(q, h, ready, g), request[m].pool \in Pools, MakeReady(m)
    PROVE  Tidy(q, h, ready', g) /\ Has(q, h, ready', g) = Has(q, h, ready, g) \cup {m}
<1>1. ready' = Put(ready, request[m].pool, Joined(ready[request[m].pool], m))
  BY DEF MakeReady, Put, Joined
<1> QED BY <1>1, PutReady

(* The server thread dispatches a message, or returns it. *)
LEMMA DispatchPlaces == ASSUME PlacesInv, ServerDispatch PROVE PlacesInv'
<1> DEFINE m == held[Server]
           r == request[m]
<1>1. Server \in Threads /\ pc[Server] = "handle" /\ held' = Put(held, Server, None)
  BY Zenon DEF Threads, ServerDispatch, Put
<1>2. UNCHANGED <<serverQue, jobList, jobId, finalize>>
  BY Zenon DEF ServerDispatch, ending
<1>3. /\ m \in Msgs /\ m \in InServer /\ r \in Requests
      /\ Tidy(serverQue', held', ready, msgQue)
      /\ Has(serverQue', held', ready, msgQue) = InServer \ {m}
  BY <1>1, <1>2, HeldMessage, Zenon
<1>4. HandsInv'
  <2>1. PICK point \in {"get", "gone"} : Goto(Server, point)
    BY Zenon DEF ServerDispatch
  <2> QED BY <1>1, <2>1, ThreadMoves, Zenon DEF ServerPoints
<1>5. CASE GiveBack({m}) /\ UNCHANGED <<ready, msgQue>>
  <2> HIDE DEF m, r
  <2>1. /\ request' \in [Msgs -> Requests \cup {None}] /\ InServer' = InServer \ {m}
        /\ \A k \in InServer' : request'[k] = request[k]
    BY <1>5, GiveBackKeeps, Zenon DEF PlacesInv
  <2>2. LinesInv'
    BY <1>3, <1>5, <2>1, Zenon DEF LinesInv
  <2>3. QueueInv'
    BY <1>5, <2>1, <2>2, QueueKept, Zenon
  <2>4. PartsInv'
    BY <1>2, <2>1, Zenon DEF PlacesInv, PartsInv
  <2> QED BY <1>4, <2>2, <2>3, <2>4, Zenon DEF PlacesInv
<1>6. CASE r.pool \in Pools /\ MakeReady(m) /\ UNCHANGED <<request, msgQue>>
  <2> HIDE DEF m
  <2>1. InServer' = InServer /\ PartsInv'
    BY <1>2, <1>6, Zenon DEF PlacesInv, PartsInv, InServer
  <2>2. /\ Tidy(serverQue', held', ready', msgQue)
        /\ Has(serverQue', held', ready', msgQue) = Has(serverQue', held', ready, msgQue) \cup {m}
    BY <1>3, <1>6, MakeReadyMoves
  <2>3. LinesInv'
    BY <1>3, <1>6, <2>1, <2>2, Zenon DEF LinesInv
  <2>4. QueueInv'
    BY <1>6, <2>1, <2>3, QueueKept, Zenon
  <2> QED BY <1>4, <2>1, <2>3, <2>4, Zenon DEF PlacesInv
<1>7. CASE /\ r.pool \in Pools /\ r.job \in JobIds /\ UNCHANGED <<request, ready>>
           /\ msgQue' = [msgQue EXCEPT ![r.job] = Append(@, m)]
  <2> DEFINE j == r.job
  <2>1. /\ j \in JobIds /\ request[m].pool \in Pools /\ request[m].job = j
        /\ UNCHANGED <<request, ready>> /\ msgQue' = Put(msgQue, j, Joined(msgQue[j], m))
    BY <1>7, Zenon DEF Put, Joined
  <2> HIDE DEF m, r, j
  <2>2. InServer' = InServer /\ PartsInv'
    BY <1>2, <2>1, Zenon DEF PlacesInv, PartsInv, InServer
  <2>3. QueueInv'
    <3> SUFFICES ASSUME NEW i \in JobIds, NEW k \in Elems(msgQue'[i])
                 PROVE  request[k].job = i /\ request[k].pool \in Pools
      BY <2>1, Zenon DEF QueueInv
    <3>1. msgQue \in [JobIds -> Seq(Msgs)]
      BY DEF PlacesInv, LinesInv, Tidy, LinesTyped
    <3>2. msgQue'[i] = IF i = j THEN Joined(msgQue[j], m) ELSE msgQue[i]
      BY <2>1, <3>1, Zenon DEF Put
    <3>3. Elems(Joined(msgQue[j], m)) = Elems(msgQue[j]) \cup {m}
      BY <1>3, <2>1, <3>1, JoinElems, Zenon DEF Joined
    <3>4. k \in Elems(msgQue[i]) \/ (i = j /\ k = m)
      BY <3>2, <3>3, Zenon
    <3> QED BY <2>1, <3>4, Zenon DEF PlacesInv, QueueInv
  <2>4. LinesInv'
    <3>1. /\ Tidy(serverQue', held', ready, msgQue')
          /\ Has(serverQue', held', ready, msgQue') = Has(serverQue', held', ready, msgQue) \cup {m}
      BY <1>3, <2>1, PutJob
    <3> QED BY <1>3, <2>1, <2>2, <3>1, Zenon DEF LinesInv
  <2> QED BY <1>4, <2>2, <2>3, <2>4, Zenon DEF PlacesInv
<1>8. \/ GiveBack({m}) /\ UNCHANGED <<ready, msgQue>>
      \/ r.pool \in Pools /\ Dispatch(m, r) /\ UNCHANGED request
  BY Zenon DEF ServerDispatch, queues
<1>9. Dispatch(m, r) => \/ MakeReady(m) /\ UNCHANGED msgQue
                       \/ /\ r.job \in JobIds /\ UNCHANGED ready
                          /\ msgQue' = [msgQue EXCEPT ![r.job] = Append(@, m)]
  BY Zenon DEF Dispatch, queues, PlacesInv, PartsInv
<1> HIDE DEF m, r
<1> QED BY <1>5, <1>6, <1>7, <1>8, <1>9, Zenon

(* A worker takes a ready message. *)
LEMMA TakePlaces ==
    ASSUME PlacesInv, NEW w \in Workers, Take(w)
    PROVE  PlacesInv'
<1>1. w \in Threads /\ w # Server /\ held[w] = None /\ PoolOf[w] \in Pools
  BY ServerAssumption, Zenon DEF Take, PlacesInv, HandsInv, Threads
<1>2. UNCHANGED <<request, serverQue, msgQue, jobList, jobId, finalize>>
  BY Zenon DEF Take, jobs, ending
<1>3. CASE (Goto(w, "gone") \/ Goto(w, "pend")) /\ UNCHANGED <<ready, held>>
  BY <1>1, <1>2, <1>3, IdlePlaces, Zenon DEF WorkerPoints
<1>4. CASE /\ ready[PoolOf[w]] # <<>>
           /\ ready' = [ready EXCEPT ![PoolOf[w]] = Tail(ready[PoolOf[w]])]
           /\ held' = [held EXCEPT ![w] = Head(ready[PoolOf[w]])]
           /\ Goto(w, "work")
  <2> DEFINE p == PoolOf[w]
             m == First(ready[p])
  <2>1. /\ p \in Pools /\ ready[p] # <<>> /\ ready' = Put(ready, p, Rest(ready[p]))
        /\ held' = Put(held, w, m) /\ Goto(w, "work")
    BY <1>1, <1>4 DEF Put, First, Rest
  <2> HIDE DEF p
  <2>2. Tidy(serverQue, held, ready, msgQue) /\ Has(serverQue, held, ready, msgQue) = InServer
    BY Zenon DEF PlacesInv, LinesInv
  <2>3. /\ m \in Msgs /\ m \in InServer /\ Tidy(serverQue, held, ready', msgQue)
        /\ Has(serverQue, held, ready', msgQue) = InServer \ {m}
    BY <2>1, <2>2, TakeReady
  <2> HIDE DEF m
  <2>4. /\ Tidy(serverQue, held', ready', msgQue)
        /\ Has(serverQue, held', ready', msgQue) = Has(serverQue, held, ready', msgQue) \cup {m}
    BY <1>1, <2>1, <2>3, PutHands
  <2>5. InServer' = InServer /\ PartsInv'
    BY <1>2, Zenon DEF PlacesInv, PartsInv, InServer
  <2>6. LinesInv'
    BY <1>2, <2>3, <2>4, <2>5, Zenon DEF LinesInv
  <2>7. QueueInv'
    BY <1>2, <2>6, QueueKept, Zenon
  <2>8. HandsInv'
    <3>1. m # None
      BY <2>3, ServerAssumption, Zenon
    <3> QED BY <1>1, <2>1, <2>3, <3>1, ThreadMoves, Zenon DEF WorkerPoints
  <2> QED BY <2>5, <2>6, <2>7, <2>8, Zenon DEF PlacesInv
<1> QED BY <1>3, <1>4, Zenon DEF Take

(* A worker makes the next message of its job ready. *)
LEMMA FinishPlaces ==
    ASSUME PlacesInv, NEW w \in Workers, FinishJobMessage(w)
    PROVE  PlacesInv'
<1>1. w \in Threads /\ w # Server /\ held[w] = None /\ Goto(w, "pend")
  BY ServerAssumption, Zenon DEF FinishJobMessage, PlacesInv, HandsInv, Threads
<1>2. UNCHANGED <<request, serverQue, held, jobList, jobId, finalize>>
  BY Zenon DEF FinishJobMessage, ending
<1>3. CASE UNCHANGED <<ready, msgQue>>
  BY <1>1, <1>2, <1>3, IdlePlaces, Zenon DEF WorkerPoints
<1>4. ASSUME NEW j \in JobIds, msgQue[j] # <<>>, msgQue' = [msgQue EXCEPT ![j] = Tail(@)],
             MakeReady(Head(msgQue[j]))
      PROVE  PlacesInv'
  <2> DEFINE m == First(msgQue[j])
  <2>1. msgQue' = Put(msgQue, j, Rest(msgQue[j])) /\ MakeReady(m)
    BY <1>4 DEF Put, First, Rest
  <2>2. Tidy(serverQue, held, ready, msgQue) /\ Has(serverQue, held, ready, msgQue) = InServer
    BY Zenon DEF PlacesInv, LinesInv
  <2>3. /\ m \in Msgs /\ m \in InServer /\ Tidy(serverQue, held, ready, msgQue')
        /\ Has(serverQue, held, ready, msgQue') = InServer \ {m}
    <3>1. msgQue[j] # <<>>
      BY <1>4, Zenon
    <3> QED BY <2>1, <2>2, <3>1, TakeJob
  <2>4. /\ request[m].pool \in Pools
        /\ \A k \in JobIds : Elems(msgQue'[k]) \subseteq Elems(msgQue[k])
    <3>1. msgQue \in [JobIds -> Seq(Msgs)] /\ msgQue[j] \in Seq(Msgs)
      BY <2>2, Zenon DEF Tidy, LinesTyped
    <3>2. m \in Elems(msgQue[j])
      BY <1>4, <3>1 DEF First, Elems
    <3>3. Elems(Tail(msgQue[j])) \subseteq Elems(msgQue[j])
      BY <1>4, <3>1 DEF Elems
    <3>4. ASSUME NEW k \in JobIds PROVE Elems(msgQue'[k]) \subseteq Elems(msgQue[k])
      <4>1. msgQue'[k] = IF k = j THEN Tail(msgQue[j]) ELSE msgQue[k]
        BY <1>4, <3>1, Zenon
      <4> QED BY <3>3, <4>1
    <3> QED BY <3>2, <3>4, Zenon DEF PlacesInv, QueueInv
  <2> HIDE DEF m
  <2>5. /\ Tidy(serverQue, held, ready', msgQue')
        /\ Has(serverQue, held, ready', msgQue') = Has(serverQue, held, ready, msgQue') \cup {m}
    BY <2>1, <2>3, <2>4, MakeReadyMoves
  <2>6. InServer' = InServer /\ PartsInv'
    BY <1>2, Zenon DEF PlacesInv, PartsInv, InServer
  <2>7. LinesInv'
    BY <1>2, <2>3, <2>5, <2>6, Zenon DEF LinesInv
  <2>8. QueueInv'
    BY <1>2, <2>4, <2>7, QueueKept, Zenon
  <2>9. HandsInv'
    BY <1>1, <1>2, ThreadGoes, Zenon DEF WorkerPoints
  <2> QED BY <2>6, <2>7, <2>8, <2>9, Zenon DEF PlacesInv
<1>5. \/ UNCHANGED <<ready, msgQue>>
      \/ \E j \in JobIds : /\ msgQue[j] # <<>> /\ msgQue' = [msgQue EXCEPT ![j] = Tail(@)]
                           /\ MakeReady(Head(msgQue[j]))
  BY Zenon DEF FinishJobMessage, NextOfJob, queues, PlacesInv, PartsInv
<1> QED BY <1>3, <1>4, <1>5, Zenon

(* The rest of a ready queue is returned when its workers have ended. *)
LEMMA JoinPlaces == ASSUME PlacesInv, JoinWorkers PROVE PlacesInv'
<1> DEFINE p == finalize.pool
           S == Elems(ready[p])
<1>1. /\ p \in Pools /\ ready' = Put(ready, p, Nothing) /\ GiveBack(S)
      /\ UNCHANGED <<serverQue, held, pc, msgQue, jobList, jobId>>
  BY Zenon DEF PlacesInv, PartsInv, JoinWorkers, At, Put, Nothing, jobs, threads
<1>2. finalize' \in [step : {"none", "server", "mark", "post", "join", "done"}, pool : Pools]
  BY <1>1, ServerAssumption, SMTT(30) DEF JoinWorkers, NextPool, Pools
<1> HIDE DEF p
<1>3. Tidy(serverQue, held, ready, msgQue) /\ Has(serverQue, held, ready, msgQue) = InServer
  BY Zenon DEF PlacesInv, LinesInv
<1>4. Tidy(serverQue, held, ready', msgQue) /\ Has(serverQue, held, ready', msgQue) = InServer \ S
  BY <1>1, <1>3, ClearReady
<1> HIDE DEF S
<1>5. /\ request' \in [Msgs -> Requests \cup {None}] /\ InServer' = InServer \ S
      /\ \A k \in InServer' : request'[k] = request[k]
  BY <1>1, GiveBackKeeps, Zenon DEF PlacesInv
<1>6. LinesInv'
  BY <1>1, <1>4, <1>5, Zenon DEF LinesInv
<1>7. QueueInv'
  BY <1>1, <1>5, <1>6, QueueKept, Zenon
<1>8. PartsInv' /\ HandsInv'
  BY <1>1, <1>2, <1>5, Zenon DEF PlacesInv, PartsInv, HandsInv
<1> QED BY <1>6, <1>7, <1>8, Zenon DEF PlacesInv

(* The other steps of RcmServer_delete() leave the messages alone. *)
LEMMA DeletePlaces ==
    ASSUME PlacesInv, Delete \/ JoinServer \/ MarkWorkers \/ PostWorkers
    PROVE  PlacesInv'
<1>1. UNCHANGED <<request, serverQue, held, pc, ready, msgQue, jobList, jobId>>
  BY Zenon DEF Delete, JoinServer, MarkWorkers, PostWorkers, At, queues, jobs, threads
<1>2. finalize' \in [step : {"none", "server", "mark", "post", "join", "done"}, pool : Pools]
  BY DEF Delete, JoinServer, MarkWorkers, PostWorkers, At, PlacesInv, PartsInv
<1>3. QueueInv' /\ LinesInv'
  BY <1>1, NothingMoves, Zenon
<1>4. PartsInv' /\ HandsInv'
  BY <1>1, <1>2, Zenon DEF PlacesInv, PartsInv, HandsInv
<1> QED BY <1>3, <1>4, Zenon DEF PlacesInv

(* A step of a thread that only waits, starts, ends or calls a DPC. *)
LEMMA WaitPlaces ==
    ASSUME PlacesInv, \/ Start \/ Unblocked \/ CallDpc(Server)
                      \/ \E w \in Workers : Pend(w) \/ CallDpc(w)
    PROVE  PlacesInv'
<1>1. UNCHANGED <<request, serverQue, held, ready, msgQue, jobList, jobId, finalize>>
  BY Zenon DEF Start, Unblocked, CallDpc, Pend, queues, jobs, ending
<1>2. ASSUME NEW point \in {"get", "gone"}, Goto(Server, point), pc[Server] # "handle" PROVE PlacesInv'
  <2>1. Server \in Threads /\ held[Server] = None /\ point \in ServerPoints \ {"handle"}
    BY <1>2, Zenon DEF Threads, PlacesInv, HandsInv, ServerPoints
  <2> QED BY <1>1, <1>2, <2>1, IdlePlaces, Zenon
<1>3. ASSUME NEW w \in Workers, NEW point \in {"take", "pend", "next"}, Goto(w, point), pc[w] # "work"
      PROVE  PlacesInv'
  <2>1. w \in Threads /\ w # Server /\ held[w] = None /\ point \in WorkerPoints \ {"work"}
    BY <1>3, ServerAssumption, Zenon DEF Threads, PlacesInv, HandsInv, WorkerPoints
  <2> QED BY <1>1, <1>3, <2>1, IdlePlaces, Zenon
<1>4. CASE Start \/ Unblocked
  BY <1>2, <1>4, Zenon DEF Start, Unblocked
<1>5. CASE CallDpc(Server)
  <2>1. Processed(Server) \in {"get", "gone"}
    BY Zenon DEF Processed
  <2> QED BY <1>2, <1>5, <2>1, Zenon DEF CallDpc
<1>6. ASSUME NEW w \in Workers, Pend(w) \/ CallDpc(w) PROVE PlacesInv'
  <2>0. w # Server
    BY ServerAssumption
  <2>1. Processed(w) \in {"pend", "next"}
    BY <2>0, Zenon DEF Processed
  <2> QED BY <1>3, <1>6, <2>1, Zenon DEF Pend, CallDpc
<1> QED BY <1>4, <1>5, <1>6, Zenon

-----------------------------------------------------------------------------
(* Every step keeps the invariant. *)
LEMMA PlacesStep == PlacesInv /\ [Next]_vars => PlacesInv'
<1> SUFFICES ASSUME PlacesInv, [Next]_vars PROVE PlacesInv'
  BY Zenon
<1>1. CASE \E m \in Msgs, r \in Requests : SendRequest(m, r)
  BY <1>1, SendPlaces, Zenon
<1>2. CASE Start \/ Unblocked \/ CallDpc(Server) \/ \E w \in Workers : Pend(w) \/ CallDpc(w)
  BY <1>2, WaitPlaces, Zenon
<1>3. CASE Delete \/ JoinServer \/ MarkWorkers \/ PostWorkers
  BY <1>3, DeletePlaces, Zenon
<1>4. CASE GetMessage
  BY <1>4, GetPlaces
<1>5. CASE ServerProcess
  <2>1. /\ Server \in Threads /\ pc[Server] = "handle" /\ Process(Server)
        /\ UNCHANGED <<serverQue, ready, finalize>>
    BY <1>5, Zenon DEF ServerProcess, Threads, queues, ending
  <2> QED BY <2>1, ProcessPlaces, Zenon
<1>6. CASE ServerDispatch
  BY <1>6, DispatchPlaces
<1>7. CASE JoinWorkers
  BY <1>7, JoinPlaces
<1>8. ASSUME NEW w \in Workers, Work(w) PROVE PlacesInv'
  <2>1. /\ w \in Threads /\ w # Server /\ pc[w] = "work" /\ Process(w)
        /\ UNCHANGED <<serverQue, ready, finalize>>
    BY <1>8, ServerAssumption, Zenon DEF Work, Threads, queues, ending
  <2> QED BY <2>1, ProcessPlaces, Zenon
<1>9. ASSUME NEW w \in Workers, Take(w) \/ FinishJobMessage(w) PROVE PlacesInv'
  BY <1>9, TakePlaces, FinishPlaces, Zenon
<1>10. CASE UNCHANGED vars
  <2>1. UNCHANGED <<request, serverQue, held, ready, msgQue, pc, jobList, jobId, finalize>>
    BY <1>10 DEF vars, queues, jobs, threads, ending
  <2>2. QueueInv' /\ LinesInv'
    BY <2>1, NothingMoves, Zenon
  <2>3. PartsInv' /\ HandsInv'
    BY <2>1, Zenon DEF PlacesInv, PartsInv, HandsInv
  <2> QED BY <2>2, <2>3, Zenon DEF PlacesInv
<1> QED BY <1>1, <1>2, <1>3, <1>4, <1>5, <1>6, <1>7, <1>8, <1>9, <1>10, Zenon
        DEF Next, ServerStep, WorkerStep, FinalizeStep

(* The lines of the server hold the messages the clients have sent, each   *)
(* of them once.                                                           *)
THEOREM PlacesInvariant == Spec => []PlacesInv
<1>1. Init => PlacesInv
  BY InitPlaces, Zenon
<1>2. PlacesInv /\ [Next]_vars => PlacesInv'
  BY PlacesStep, Zenon
<1> QED BY <1>1, <1>2, PTL DEF Spec

(* A message in the lines is in one place, another one in none. *)
LEMMA LinesGivePlaces == PlacesInv => OnePlace
<1> SUFFICES ASSUME PlacesInv, NEW m \in Msgs
             PROVE  IF request[m] = None THEN Places(m) = {} ELSE HasOne(Places(m))
  BY DEF OnePlace
<1> DEFINE C == LinesOf(serverQue, held, ready, msgQue)
<1>1. /\ LinesTyped(serverQue, held, ready, msgQue) /\ Unique(C)
      /\ (m \in Present(C) <=> request[m] # None)
  BY Zenon DEF PlacesInv, LinesInv, Tidy, Has, InServer
<1>2. C \in [Lines -> Seq(Msgs)]
  BY <1>1, LineIs, Zenon
<1>3. \A a : a \in Places(m) <=>
              \E l \in Lines : \E x \in DOMAIN C[l] : C[l][x] = m /\ a = <<l, x>>
  BY DEF Places
<1> HIDE DEF C
<1>4. CASE request[m] = None
  <2>1. Places(m) = {}
    BY <1>1, <1>2, <1>3, <1>4, PresentIs, Zenon
  <2> QED BY <1>4, <2>1, Zenon
<1>5. CASE request[m] # None
  <2>1. PICK l \in Lines : \E x \in DOMAIN C[l] : C[l][x] = m
    BY <1>1, <1>2, <1>5, PresentIs, Zenon
  <2>2. PICK x \in DOMAIN C[l] : C[l][x] = m
    BY <2>1, Zenon
  <2>3. \A k \in Lines : \A y \in DOMAIN C[k] : C[k][y] = m => k = l /\ y = x
    BY <1>1, <2>2, Zenon DEF Unique
  <2>4. Places(m) = {<<l, x>>}
    BY <1>3, <2>2, <2>3
  <2> QED BY <1>5, <2>4, Zenon DEF HasOne
<1> QED BY <1>4, <1>5, Zenon

(* Every message a client has sent is in exactly one place, and a message  *)
(* that was returned is in none, whatever the threads do.                  *)
THEOREM EveryMessageInOnePlace == Spec => []OnePlace
<1>1. Spec => []PlacesInv
  BY PlacesInvariant
<1>2. PlacesInv => OnePlace
  BY LinesGivePlaces
<1> QED BY <1>1, <1>2, PTL

=============================================================================
