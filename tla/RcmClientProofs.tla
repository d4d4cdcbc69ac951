-------------------------- MODULE RcmClientProofs ---------------------------
(***************************************************************************)
(* Proofs about RcmClient, for any number of threads and messages, as long *)
(* as ids are not handed out again while they are in use.                  *)
(***************************************************************************)
EXTENDS RcmClient, TLAPS

(* What is left of a sequence without its first element. *)
LEMMA TailFacts ==
    ASSUME NEW S, NEW s \in Seq(S), s # <<>>
    PROVE  /\ Head(s) \in S /\ Tail(s) \in Seq(S)
           /\ Head(s) = s[1] /\ 1 \in DOMAIN s
           /\ \A i \in DOMAIN Tail(s) :
                 i \in Nat /\ i + 1 \in DOMAIN s /\ i # 0 /\ Tail(s)[i] = s[i + 1]
  OBVIOUS

(* The elements of a sequence with one more at its end. *)
LEMMA AppendFacts ==
    ASSUME NEW S, NEW s \in Seq(S), NEW e \in S
    PROVE  /\ Append(s, e) \in Seq(S)
           /\ \A i \in DOMAIN Append(s, e) :
                 \/ i \in DOMAIN s /\ Append(s, e)[i] = s[i]
                 \/ i = Len(s) + 1 /\ i \notin DOMAIN s /\ Append(s, e)[i] = e
  OBVIOUS

(* At the start nobody waits and every message is free. *)
LEMMA InitHolds == Init => IndInv
  <1> SUFFICES ASSUME Init PROVE IndInv
    OBVIOUS
  <1> USE ClientAssumption DEF Init
  <1>1. TypeOK
    BY DEF TypeOK, MsgIds, INVALIDMSGID, Points
  <1>2. OnePlace
    BY DEF OnePlace, Away
  <1>3. UniqueIds /\ RightMessage /\ NoSleeperForgotten
    BY DEF UniqueIds, RightMessage, NoSleeperForgotten
  <1>4. \A t \in Threads : Waiting(t)
    BY Zenon DEF Waiting, INVALIDMSGID, Mailman
  <1> QED
    BY <1>1, <1>2, <1>3, <1>4 DEF IndInv

(* A step that leaves the messages where they are. *)
LEMMA SamePlaces ==
    ASSUME OnePlace, UNCHANGED <<owner, holder, atServer, newMail, msgQue, box, msgqMsg>>
    PROVE  OnePlace'
  <1>1. Queued' = Queued /\ \A m : Away(m)' <=> Away(m)
    BY DEF Queued, Away
  <1> QED
    BY <1>1 DEF OnePlace

(* A message the client holds is in none of the places of OnePlace. *)
LEMMA SendPlace ==
    ASSUME IndInv, NEW t \in Threads, NEW m \in Msgs, SendMessage(t, m)
    PROVE  OnePlace'
  <1>1. holder[m] # NoThread /\ OnePlace /\ TypeOK
    BY ClientAssumption DEF SendMessage, IndInv
  <1>2. /\ m \notin newMail /\ m \notin atServer
        /\ \A i \in DOMAIN msgQue : msgQue[i] # m
        /\ \A u \in Threads : box[u] # m /\ msgqMsg[u] # m
    BY <1>1, ClientAssumption DEF OnePlace, Away
  <1>3. owner[m] # NoThread
    BY <1>1 DEF IndInv, RightMessage
  <1>4. \A n \in Msgs : Away(n)' <=> Away(n) \/ n = m
    BY <1>1, <1>3 DEF SendMessage, TypeOK, Away
  <1>5. /\ atServer' = atServer \cup {m} /\ Queued' = Queued /\ DOMAIN msgQue' = DOMAIN msgQue
        /\ UNCHANGED <<msgQue, newMail, box, msgqMsg>>
    BY DEF SendMessage, Queued
  <1>6. m \notin Queued
    BY <1>2 DEF Queued
  <1>7. \A i \in DOMAIN msgQue : msgQue[i] \in Msgs
    BY <1>1 DEF TypeOK
  <1>8. (\A n \in atServer : Away(n) /\ n \notin newMail)' /\ (\A n \in newMail : Away(n))'
    BY <1>1, <1>2, <1>4, <1>5 DEF OnePlace, TypeOK
  <1>9. (\A i \in DOMAIN msgQue :
          /\ Away(msgQue[i]) /\ msgQue[i] \notin atServer \cup newMail
          /\ \A j \in DOMAIN msgQue : msgQue[i] = msgQue[j] => i = j)'
    BY <1>1, <1>2, <1>4, <1>5, <1>7, Zenon DEF OnePlace
  <1>10. (\A u \in Threads : box[u] # NoMsg =>
          Away(box[u]) /\ box[u] \notin atServer \cup newMail \cup Queued)'
    BY <1>1, <1>2, <1>4, <1>5, Zenon DEF OnePlace, TypeOK
  <1>11. (\A u \in Threads : msgqMsg[u] # NoMsg =>
          /\ Away(msgqMsg[u]) /\ msgqMsg[u] \notin atServer \cup newMail \cup Queued
          /\ \A v \in Threads : box[v] # msgqMsg[u])'
    BY <1>1, <1>2, <1>4, <1>5, Zenon DEF OnePlace, TypeOK
  <1> QED
    BY <1>8, <1>9, <1>10, <1>11 DEF OnePlace

(* Deliver() keeps its variables typed. *)
LEMMA DeliverType ==
    ASSUME TypeOK, NEW t \in Threads, NEW m \in Msgs, Deliver(t, m)
    PROVE  /\ holder' \in [Msgs -> Threads \cup {NoThread}]
           /\ want' \in [Threads -> MsgIds \cup {INVALIDMSGID}]
           /\ pc' \in [Threads -> Points]
           /\ posted' \subseteq recipients
           /\ newMail' \subseteq Msgs
           /\ box' \in [Threads -> Msgs \cup {NoMsg}]
           /\ mbxLock' \in Threads \cup {NoThread}
           /\ queueLock' \in Threads \cup {NoThread}
  <1> USE DEF TypeOK
  <1>1. posted' \subseteq recipients
    BY DEF Deliver, HandOver, Post, Unserved
  <1>2. CASE id[m] = want[t]
    BY <1>1, <1>2 DEF Deliver, PickUp, Goto, INVALIDMSGID, Points
  <1>3. CASE id[m] # want[t]
    <2>1. box' \in [Threads -> Msgs \cup {NoMsg}] /\ newMail' \subseteq Msgs
      BY <1>3 DEF Deliver
    <2>2. pc' \in [Threads -> Points]
      BY <1>3 DEF Deliver, Goto, Points
    <2> QED
      BY <1>1, <1>3, <2>1, <2>2, Zenon DEF Deliver
  <1> QED
    BY <1>2, <1>3

(* A reply with the id a thread waits for is that thread's own. *)
LEMMA OwnReply ==
    ASSUME IndInv, NEW t \in Threads, NEW m \in Msgs,
           Away(m), id[m] = want[t], pc[t] # "idle"
    PROVE  owner[m] = t
  <1>1. PICK n \in Msgs : owner[n] = t /\ holder[n] = NoThread /\ id[n] = want[t]
    BY DEF IndInv, Waiting
  <1>2. m = n
    BY <1>1, ClientAssumption DEF IndInv, UniqueIds, Away
  <1> QED
    BY <1>1, <1>2, Zenon

(* The message of a mailman that waits for mbxLock. *)
LEMMA InHand ==
    ASSUME IndInv, NEW t \in Threads, pc[t] = "relock"
    PROVE  /\ msgqMsg[t] \in Msgs /\ Away(msgqMsg[t])
           /\ msgqMsg[t] \notin atServer \cup newMail \cup Queued
           /\ \A u \in Threads : box[u] # msgqMsg[t]
  <1>1. TypeOK /\ OnePlace /\ Waiting(t)
    BY DEF IndInv
  <1>2. msgqMsg[t] # NoMsg
    BY <1>1 DEF Waiting
  <1> QED
    BY <1>1, <1>2 DEF TypeOK, OnePlace

(* A delivery keeps what is known of every thread that waits. *)
LEMMA DeliverWaiting ==
    ASSUME IndInv, NEW t \in Threads, NEW m \in Msgs, pc[t] \in Mailman, Away(m),
           Deliver(t, m), UNCHANGED <<calls, recipients>>,
           msgqMsg' = [msgqMsg EXCEPT ![t] = NoMsg], NEW u \in Threads
    PROVE  Waiting(u)'
  <1> USE DEF IndInv
  <1>1. TypeOK /\ Waiting(t) /\ Waiting(u) /\ pc[t] # "idle"
    BY Zenon DEF Mailman
  <1>2. t \notin recipients /\ box[t] = NoMsg
    BY <1>1, Zenon DEF Waiting, Mailman
  <1>3. CASE id[m] = want[t]
    <2>1. owner[m] = t
      BY <1>1, <1>3, OwnReply, Zenon
    <2>2. CASE u = t
      BY <1>1, <1>2, <1>3, <2>2 DEF TypeOK, Deliver, PickUp, Goto, Waiting, Mailman
    <2>3. CASE u # t
      <3>1. want'[u] = want[u] /\ pc'[u] = pc[u] /\ msgqMsg'[u] = msgqMsg[u]
        BY <1>1, <1>3, <2>3 DEF TypeOK, Deliver, PickUp, Goto
      <3>2. pc[u] \notin Mailman
        BY <1>1, <2>3, Zenon DEF Waiting
      <3>3. want[u] # INVALIDMSGID =>
              (\E n \in Msgs : owner[n] = u /\ holder[n] = NoThread /\ id[n] = want[u])'
        BY <1>1, <1>3, <2>1, <2>3, <3>1 DEF TypeOK, Deliver, PickUp, Waiting, calls
      <3> QED
        BY <1>1, <1>3, <3>1, <3>2, <3>3 DEF Deliver, Waiting, InNewMail, calls
    <2> QED
      BY <2>2, <2>3
  <1>4. CASE id[m] # want[t]
    <2>1. /\ want' = want /\ holder' = holder /\ queueLock' = queueLock
          /\ pc' = [pc EXCEPT ![t] = "drain"]
      BY <1>4, Zenon DEF Deliver, Goto
    <2>2. InNewMail(u)' => InNewMail(u) \/ u \notin recipients
      BY <1>4, <2>1, Zenon DEF Deliver, InNewMail, calls
    <2>3. box'[u] # NoMsg => u \in recipients /\ id[box'[u]] = want[u]
      BY <1>1, <1>4 DEF Deliver, Waiting, TypeOK
    <2> QED
      BY <1>1, <1>2, <2>1, <2>2, <2>3 DEF Waiting, TypeOK, Mailman, calls
  <1> QED
    BY <1>3, <1>4, Zenon

(* A delivery leaves nobody asleep without a mailman to come: the mailman  *)
(* that stops has posted an unserved recipient, if there is one.           *)
LEMMA DeliverWakes ==
    ASSUME IndInv, NEW t \in Threads, NEW m \in Msgs, pc[t] \in Mailman,
           Deliver(t, m), UNCHANGED <<calls, recipients>>
    PROVE  NoSleeperForgotten'
  <1>1. TypeOK /\ Waiting(t) /\ NoSleeperForgotten /\ recipients \subseteq Threads
    BY Zenon DEF IndInv, TypeOK
  <1>2. queueLock = t /\ t \notin recipients /\ t # NoThread
    BY <1>1, ClientAssumption, Zenon DEF Waiting, Mailman
  <1>3. posted \subseteq posted' /\ \A r \in recipients : pc'[r] = pc[r]
    BY <1>1, <1>2, Zenon DEF Deliver, HandOver, Post, PickUp, Goto, TypeOK
  <1>4. \A r \in recipients : Awake(r) => Awake(r)'
    BY <1>3 DEF Awake
  <1>5. CASE id[m] = want[t]
    <2>1. Unserved' = Unserved /\ HandOver(t)
      BY <1>5, Zenon DEF Deliver, Unserved
    <2>2. CASE Unserved = {}
      BY <1>1, <1>4, <2>2 DEF NoSleeperForgotten
    <2>3. CASE Unserved # {}
      <3>1. PICK s \in Unserved : s \in posted'
        BY <2>1, <2>3, Zenon DEF HandOver, Post
      <3>2. s \in Threads /\ Successor(s)'
        BY <1>1, <2>1, <3>1 DEF Successor, Awake, Unserved
      <3> QED
        BY <1>1, <1>4, <2>1, <3>2 DEF NoSleeperForgotten
    <2> QED
      BY <2>2, <2>3, Zenon
  <1>6. CASE id[m] # want[t]
    <2>1. queueLock' # NoThread
      BY <1>2, <1>6, Zenon DEF Deliver
    <2>2. \A r \in recipients : r \in Unserved => r \in Unserved' \/ Awake(r)'
      BY <1>1, <1>6 DEF Deliver, Post, Unserved, Awake, TypeOK
    <2> QED
      BY <1>1, <1>4, <2>1, <2>2, Zenon DEF NoSleeperForgotten
  <1> QED
    BY <1>5, <1>6

(* The messages of the queue. *)
LEMMA QueuedMember ==
    ASSUME TypeOK
    PROVE  \A i \in DOMAIN msgQue : msgQue[i] \in Msgs /\ msgQue[i] \in Queued
  <1>1. \A i \in DOMAIN msgQue : msgQue[i] \in Msgs
    BY DEF TypeOK
  <1>2. \A i \in DOMAIN msgQue : msgQue[i] \in Queued
    BY Zenon DEF Queued
  <1> QED
    BY <1>1, <1>2

(* What the queue keeps when its first message, or none, is taken: the     *)
(* messages left are away, in no other place, and not the one in hand.     *)
QueueWithout(m) ==
    /\ Queued' \subseteq Queued /\ m \notin Queued'
    /\ \A i \in DOMAIN msgQue' :
          /\ msgQue'[i] \in Msgs \ {m}
          /\ Away(msgQue'[i]) /\ msgQue'[i] \notin atServer \cup newMail
          /\ \A j \in DOMAIN msgQue' : msgQue'[i] = msgQue'[j] => i = j

(* The first message of the queue is nowhere else. *)
LEMMA TakeHead ==
    ASSUME IndInv, msgQue # <<>>, msgQue' = Tail(msgQue)
    PROVE  /\ Head(msgQue) \in Msgs /\ Away(Head(msgQue)) /\ QueueWithout(Head(msgQue))
           /\ Head(msgQue) \notin atServer \cup newMail
           /\ \A u \in Threads : box[u] # Head(msgQue) /\ msgqMsg[u] # Head(msgQue)
  <1> DEFINE h == Head(msgQue)
  <1>1. TypeOK /\ OnePlace /\ msgQue \in Seq(Msgs)
    BY Zenon DEF IndInv, TypeOK
  <1>2. /\ h \in Msgs /\ h = msgQue[1] /\ 1 \in DOMAIN msgQue /\ Tail(msgQue) \in Seq(Msgs)
        /\ \A i \in DOMAIN Tail(msgQue) :
              i \in Nat /\ i # 0 /\ i + 1 \in DOMAIN msgQue /\ Tail(msgQue)[i] = msgQue[i + 1]
    BY <1>1, TailFacts, Zenon
  <1>3. h \in Queued /\ Away(h) /\ h \notin atServer \cup newMail
    BY <1>1, <1>2 DEF OnePlace, Queued
  <1>4. \A u \in Threads : box[u] # h /\ msgqMsg[u] # h
    BY <1>1, <1>2, <1>3, ClientAssumption DEF OnePlace
  <1>5. \A i \in DOMAIN Tail(msgQue) : Tail(msgQue)[i] \in Msgs /\ Tail(msgQue)[i] # h
    <2> SUFFICES ASSUME NEW i \in DOMAIN Tail(msgQue)
                 PROVE  Tail(msgQue)[i] \in Msgs /\ Tail(msgQue)[i] # h
      OBVIOUS
    <2>1. i + 1 # 1 /\ i + 1 \in DOMAIN msgQue /\ Tail(msgQue)[i] = msgQue[i + 1]
      BY <1>2
    <2>2. msgQue[i + 1] # msgQue[1]
      BY <2>1, <1>1, <1>2, Zenon DEF OnePlace
    <2> QED
      BY <2>1, <2>2, <1>1, <1>2
  <1>6. ASSUME NEW i \in DOMAIN Tail(msgQue)
        PROVE  /\ Away(Tail(msgQue)[i]) /\ Tail(msgQue)[i] \notin atServer \cup newMail
               /\ \A j \in DOMAIN Tail(msgQue) : Tail(msgQue)[i] = Tail(msgQue)[j] => i = j
    <2>1. Away(Tail(msgQue)[i]) /\ Tail(msgQue)[i] \notin atServer \cup newMail
      BY <1>1, <1>2 DEF OnePlace
    <2>2. ASSUME NEW j \in DOMAIN Tail(msgQue), Tail(msgQue)[i] = Tail(msgQue)[j]
          PROVE  i = j
      <3>1. i + 1 = j + 1
        BY <1>1, <1>2, <2>2 DEF OnePlace
      <3> QED
        BY <1>2, <3>1
    <2> QED
      BY <2>1, <2>2, Zenon
  <1>7. Queued' \subseteq Queued /\ h \notin Queued'
    BY <1>2, <1>5 DEF Queued
  <1> QED
    BY <1>2, <1>3, <1>4, <1>5, <1>6, <1>7, Zenon DEF QueueWithout

(* A delivered message is in one place again. *)
LEMMA DeliverPlace ==
    ASSUME IndInv, NEW t \in Threads, NEW m \in Msgs, Away(m),
           m \notin atServer \cup newMail, QueueWithout(m),
           \A u \in Threads : box[u] # m, \A u \in Threads : msgqMsg'[u] # m,
           \A u \in Threads : msgqMsg'[u] \in {msgqMsg[u], NoMsg},
           Deliver(t, m), UNCHANGED <<calls, recipients>>
    PROVE  OnePlace'
  <1>1. TypeOK /\ OnePlace
    BY DEF IndInv
  <1>2. \A n \in Msgs \ {m} : Away(n)' <=> Away(n)
    BY <1>1, Zenon DEF Deliver, PickUp, TypeOK, Away, calls
  <1>3. Queued' \subseteq Queued /\ m \notin Queued' /\ atServer' = atServer
    BY Zenon DEF QueueWithout, calls
  <1>4. (\A i \in DOMAIN msgQue :
          /\ Away(msgQue[i]) /\ msgQue[i] \notin atServer \cup newMail
          /\ \A j \in DOMAIN msgQue : msgQue[i] = msgQue[j] => i = j)'
    <2>1. newMail' \subseteq newMail \cup {m}
      BY Zenon DEF Deliver
    <2> QED
      BY <1>2, <1>3, <2>1 DEF QueueWithout
  <1>5. CASE id[m] = want[t]
    BY <1>1, <1>2, <1>3, <1>4, <1>5 DEF OnePlace, Deliver, TypeOK
  <1>6. CASE id[m] # want[t]
    <2>1. \A n \in Msgs : Away(n)' <=> Away(n)
      BY <1>6, Zenon DEF Deliver, Away, calls
    <2>2. CASE newMail' = newMail \cup {m} /\ box' = box
      <3>1. (\A n \in atServer : Away(n) /\ n \notin newMail)' /\ (\A n \in newMail : Away(n))'
        BY <1>1, <1>3, <2>1, <2>2 DEF OnePlace, TypeOK
      <3>2. (\A u \in Threads : box[u] # NoMsg =>
               Away(box[u]) /\ box[u] \notin atServer \cup newMail \cup Queued)'
        BY <1>1, <1>3, <2>1, <2>2, Zenon DEF OnePlace, TypeOK
      <3>3. (\A u \in Threads : msgqMsg[u] # NoMsg =>
               /\ Away(msgqMsg[u]) /\ msgqMsg[u] \notin atServer \cup newMail \cup Queued
               /\ \A v \in Threads : box[v] # msgqMsg[u])'
        BY <1>1, <1>3, <2>1, <2>2, Zenon DEF OnePlace, TypeOK
      <3> QED
        BY <1>4, <3>1, <3>2, <3>3, Zenon DEF OnePlace
    <2>3. CASE newMail' = newMail /\ \E r \in Threads : box' = [box EXCEPT ![r] = m]
      <3>1. \A u \in Threads : box'[u] \in {box[u], m}
        BY <1>1, <2>3 DEF TypeOK
      <3> QED
        BY <1>1, <1>3, <1>4, <2>1, <2>3, <3>1 DEF OnePlace, TypeOK
    <2> QED
      BY <1>1, <1>6, <2>2, <2>3, Zenon DEF Deliver, TypeOK
  <1> QED
    BY <1>5, <1>6, Zenon

(* A new message gets an id no other message has. *)
LEMMA AllocStep ==
    ASSUME IndInv, NEW t \in Threads, NEW m \in Msgs, Alloc(t, m), ~ ReusesIds
    PROVE  IndInv'
  <1>1. TypeOK'
    BY ClientAssumption
       DEF IndInv, Alloc, Allocated, genMsgId,
           TypeOK, MsgIds, INVALIDMSGID, Points
  <1>2. OnePlace'
    BY ClientAssumption
       DEF IndInv, Alloc, Allocated, genMsgId,
           TypeOK, OnePlace, Away, Queued
  <1>3. UniqueIds' /\ (\A n \in Msgs : owner[n] # NoThread => id[n] # INVALIDMSGID)'
    BY ClientAssumption
       DEF IndInv, Alloc, Allocated, genMsgId,
           TypeOK, UniqueIds, MsgIds, INVALIDMSGID
  <1>4. RightMessage'
    BY ClientAssumption
       DEF IndInv, Alloc, Allocated, genMsgId,
           TypeOK, RightMessage, OnePlace, Away, UniqueIds, Waiting, Mailman
  <1>5. ASSUME NEW u \in Threads PROVE Waiting(u)'
    BY ClientAssumption
       DEF IndInv, Alloc, Allocated, genMsgId,
           TypeOK, Waiting, InNewMail, Mailman, INVALIDMSGID, Points,
           OnePlace, Away, UniqueIds, RightMessage
  <1>6. NoSleeperForgotten'
    BY ClientAssumption
       DEF IndInv, Alloc, Allocated, genMsgId,
           TypeOK, NoSleeperForgotten, Successor, Unserved, Awake, InNewMail,
           Waiting, Mailman, OnePlace, Away
  <1> QED
    BY <1>1, <1>2, <1>3, <1>4, <1>5, <1>6, Zenon DEF IndInv

(* A message that its owner gives back to the heap. *)
LEMMA FreeStep ==
    ASSUME IndInv, NEW t \in Threads, NEW m \in Msgs, Free(t, m)
    PROVE  IndInv'
  <1>1. TypeOK'
    BY ClientAssumption, Zenon
       DEF IndInv, Free,
           TypeOK, MsgIds, INVALIDMSGID, Points
  <1>2. OnePlace'
    BY ClientAssumption
       DEF IndInv, Free,
           TypeOK, OnePlace, Away, Queued
  <1>3. UniqueIds' /\ (\A n \in Msgs : owner[n] # NoThread => id[n] # INVALIDMSGID)'
    BY ClientAssumption, Zenon
       DEF IndInv, Free,
           TypeOK, UniqueIds, MsgIds, INVALIDMSGID
  <1>4. RightMessage'
    BY ClientAssumption
       DEF IndInv, Free,
           TypeOK, RightMessage, OnePlace, Away, UniqueIds, Waiting, Mailman
  <1>5. ASSUME NEW u \in Threads PROVE Waiting(u)'
    BY ClientAssumption
       DEF IndInv, Free,
           TypeOK, Waiting, InNewMail, Mailman, INVALIDMSGID, Points,
           OnePlace, Away, UniqueIds, RightMessage
  <1>6. NoSleeperForgotten'
    BY ClientAssumption
       DEF IndInv, Free,
           TypeOK, NoSleeperForgotten, Successor, Unserved, Awake, InNewMail,
           Waiting, Mailman
  <1> QED
    BY <1>1, <1>2, <1>3, <1>4, <1>5, <1>6, Zenon DEF IndInv

(* A call that does not wait. *)
LEMMA ExecNoWaitStep ==
    ASSUME IndInv, NEW t \in Threads, NEW m \in Msgs, ExecNoWait(t, m)
    PROVE  IndInv'
  <1>1. TypeOK'
    BY ClientAssumption
       DEF IndInv, ExecNoWait, SendMessage,
           TypeOK, MsgIds, INVALIDMSGID, Points
  <1>2. OnePlace'
    BY SendPlace DEF ExecNoWait
  <1>3. UniqueIds' /\ (\A n \in Msgs : owner[n] # NoThread => id[n] # INVALIDMSGID)'
    BY ClientAssumption, Zenon
       DEF IndInv, ExecNoWait, SendMessage,
           TypeOK, UniqueIds, MsgIds, INVALIDMSGID
  <1>4. RightMessage'
    BY ClientAssumption
       DEF IndInv, ExecNoWait, SendMessage,
           TypeOK, RightMessage, OnePlace, Away, UniqueIds, Waiting, Mailman
  <1>5. ASSUME NEW u \in Threads PROVE Waiting(u)'
    BY ClientAssumption
       DEF IndInv, ExecNoWait, SendMessage,
           TypeOK, Waiting, InNewMail, Mailman, INVALIDMSGID, Points,
           OnePlace, Away, UniqueIds, RightMessage
  <1>6. NoSleeperForgotten'
    BY ClientAssumption
       DEF IndInv, ExecNoWait, SendMessage,
           TypeOK, NoSleeperForgotten, Successor, Unserved, Awake, InNewMail,
           Waiting, Mailman
  <1> QED
    BY <1>1, <1>2, <1>3, <1>4, <1>5, <1>6, Zenon DEF IndInv

(* A call that waits for its reply. *)
LEMMA ExecStep ==
    ASSUME IndInv, NEW t \in Threads, NEW m \in Msgs, Exec(t, m)
    PROVE  IndInv'
  <1>1. TypeOK'
    BY ClientAssumption
       DEF IndInv, Exec, SendMessage, WaitFor, Goto,
           TypeOK, MsgIds, INVALIDMSGID, Points
  <1>2. OnePlace'
    BY SendPlace DEF Exec
  <1>3. UniqueIds' /\ (\A n \in Msgs : owner[n] # NoThread => id[n] # INVALIDMSGID)'
    BY ClientAssumption, Zenon
       DEF IndInv, Exec, SendMessage, WaitFor, Goto,
           TypeOK, UniqueIds, MsgIds, INVALIDMSGID
  <1>4. RightMessage'
    BY ClientAssumption
       DEF IndInv, Exec, SendMessage, WaitFor, Goto,
           TypeOK, RightMessage, OnePlace, Away, UniqueIds, Waiting, Mailman
  <1>5. ASSUME NEW u \in Threads PROVE Waiting(u)'
    BY ClientAssumption
       DEF IndInv, Exec, SendMessage, WaitFor, Goto,
           TypeOK, Waiting, InNewMail, Mailman, INVALIDMSGID, Points,
           OnePlace, Away, UniqueIds, RightMessage
  <1>6. NoSleeperForgotten'
    BY ClientAssumption
       DEF IndInv, Exec, SendMessage, WaitFor, Goto,
           TypeOK, NoSleeperForgotten, Successor, Unserved, Awake, InNewMail,
           Waiting, Mailman
  <1> QED
    BY <1>1, <1>2, <1>3, <1>4, <1>5, <1>6, Zenon DEF IndInv

(* A thread begins to wait for an earlier call. *)
LEMMA WaitUntilDoneStep ==
    ASSUME IndInv, NEW t \in Threads, WaitUntilDone(t)
    PROVE  IndInv'
  <1>1. TypeOK'
    BY ClientAssumption
       DEF IndInv, WaitUntilDone, WaitFor, Goto, calls,
           TypeOK, MsgIds, INVALIDMSGID, Points
  <1>2. OnePlace'
    BY SamePlaces, Zenon DEF IndInv, WaitUntilDone, calls
  <1>3. UniqueIds' /\ (\A n \in Msgs : owner[n] # NoThread => id[n] # INVALIDMSGID)'
    BY ClientAssumption, Zenon
       DEF IndInv, WaitUntilDone, WaitFor, Goto, calls,
           TypeOK, UniqueIds, MsgIds, INVALIDMSGID
  <1>4. RightMessage'
    BY ClientAssumption, Zenon
       DEF IndInv, WaitUntilDone, WaitFor, Goto, calls,
           RightMessage
  <1>5. ASSUME NEW u \in Threads PROVE Waiting(u)'
    BY ClientAssumption
       DEF IndInv, WaitUntilDone, WaitFor, Goto, calls,
           TypeOK, Waiting, InNewMail, Mailman, INVALIDMSGID, Points
  <1>6. NoSleeperForgotten'
    BY ClientAssumption
       DEF IndInv, WaitUntilDone, WaitFor, Goto, calls,
           TypeOK, NoSleeperForgotten, Successor, Unserved, Awake, InNewMail,
           Waiting, Mailman
  <1> QED
    BY <1>1, <1>2, <1>3, <1>4, <1>5, <1>6, Zenon DEF IndInv

(* A reply arrives in the queue. *)
LEMMA ServerRepliesStep ==
    ASSUME IndInv, NEW m \in Msgs, ServerReplies(m)
    PROVE  IndInv'
  <1>1. TypeOK'
    BY ClientAssumption, AppendFacts, Zenon
       DEF IndInv, ServerReplies,
           TypeOK, MsgIds, INVALIDMSGID, Points
  <1>2. OnePlace'
    <2>1. TypeOK /\ OnePlace /\ m \in atServer
      BY DEF IndInv, ServerReplies
    <2>2. /\ atServer' = atServer \ {m} /\ msgQue' = Append(msgQue, m)
          /\ UNCHANGED <<owner, holder, newMail, box, msgqMsg>>
      BY DEF ServerReplies
    <2>3. Away(m) /\ m \notin newMail \cup Queued /\ \A n : Away(n)' <=> Away(n)
      BY <2>1, <2>2, Zenon DEF OnePlace, Away, Queued
    <2>4. \A i \in DOMAIN msgQue' :
             \/ i \in DOMAIN msgQue /\ msgQue'[i] = msgQue[i]
             \/ i = Len(msgQue) + 1 /\ msgQue'[i] = m
      BY <2>1, <2>2, AppendFacts DEF TypeOK
    <2>5. Queued' \subseteq Queued \cup {m}
      BY <2>4 DEF Queued
    <2>6. (\A i \in DOMAIN msgQue :
             /\ Away(msgQue[i]) /\ msgQue[i] \notin atServer \cup newMail
             /\ \A j \in DOMAIN msgQue : msgQue[i] = msgQue[j] => i = j)'
      <3>1. \A i \in DOMAIN msgQue : msgQue[i] # m /\ msgQue[i] \notin atServer \cup newMail
        BY <2>1, <2>3, QueuedMember, Zenon DEF OnePlace
      <3>2. (\A i \in DOMAIN msgQue : Away(msgQue[i]) /\ msgQue[i] \notin atServer \cup newMail)'
        BY <2>1, <2>2, <2>3, <2>4, <3>1, Zenon DEF OnePlace
      <3>3. (\A i, j \in DOMAIN msgQue : msgQue[i] = msgQue[j] => i = j)'
        BY <2>1, <2>4, <3>1 DEF OnePlace
      <3> QED
        BY <3>2, <3>3, Zenon
    <2>7. (\A u \in Threads : box[u] # NoMsg =>
             Away(box[u]) /\ box[u] \notin atServer \cup newMail \cup Queued)'
      <3>1. \A u \in Threads : box[u] # NoMsg =>
               Away(box[u]) /\ box[u] # m /\ box[u] \notin atServer \cup newMail \cup Queued
        BY <2>1, Zenon DEF OnePlace
      <3> QED
        BY <2>2, <2>3, <2>5, <3>1, Zenon
    <2>8. (\A u \in Threads : msgqMsg[u] # NoMsg =>
             /\ Away(msgqMsg[u]) /\ msgqMsg[u] \notin atServer \cup newMail \cup Queued
             /\ \A v \in Threads : box[v] # msgqMsg[u])'
      BY <2>1, <2>2, <2>3, <2>5, Zenon DEF OnePlace
    <2>9. (\A n \in atServer : Away(n) /\ n \notin newMail)' /\ (\A n \in newMail : Away(n))'
      BY <2>1, <2>2, <2>3, Zenon DEF OnePlace
    <2> QED
      BY <2>6, <2>7, <2>8, <2>9, Zenon DEF OnePlace
  <1>3. UniqueIds' /\ (\A n \in Msgs : owner[n] # NoThread => id[n] # INVALIDMSGID)'
    BY ClientAssumption, Zenon
       DEF IndInv, ServerReplies,
           TypeOK, UniqueIds, MsgIds, INVALIDMSGID
  <1>4. RightMessage'
    BY ClientAssumption, AppendFacts, Zenon
       DEF IndInv, ServerReplies,
           RightMessage
  <1>5. ASSUME NEW u \in Threads PROVE Waiting(u)'
    BY ClientAssumption, AppendFacts, Zenon
       DEF IndInv, ServerReplies,
           TypeOK, Waiting, InNewMail, Mailman, INVALIDMSGID, Points
  <1>6. NoSleeperForgotten'
    BY ClientAssumption, AppendFacts
       DEF IndInv, ServerReplies,
           TypeOK, NoSleeperForgotten, Successor, Unserved, Awake, InNewMail,
           Waiting, Mailman
  <1> QED
    BY <1>1, <1>2, <1>3, <1>4, <1>5, <1>6, Zenon DEF IndInv

(* A thread finds its reply in newMail. *)
LEMMA CollectNewMailStep ==
    ASSUME IndInv, NEW t \in Threads, CollectNewMail(t)
    PROVE  IndInv'
  <1>1. TypeOK'
    BY ClientAssumption
       DEF IndInv, CollectNewMail, Searching, PickUp, Goto, calls,
           TypeOK, MsgIds, INVALIDMSGID, Points
  <1>2. OnePlace'
    BY ClientAssumption
       DEF IndInv, CollectNewMail, Searching, PickUp, Goto, calls,
           TypeOK, OnePlace, Away, Queued
  <1>3. UniqueIds' /\ (\A n \in Msgs : owner[n] # NoThread => id[n] # INVALIDMSGID)'
    BY ClientAssumption, Zenon
       DEF IndInv, CollectNewMail, Searching, PickUp, Goto, calls,
           TypeOK, UniqueIds, MsgIds, INVALIDMSGID
  <1>4. RightMessage'
    <2>1. TypeOK /\ RightMessage /\ OnePlace
      BY Zenon DEF IndInv
    <2>2. PICK m \in newMail : id[m] = want[t] /\ PickUp(t, m)
      BY Zenon DEF CollectNewMail
    <2>3. m \in Msgs /\ Away(m) /\ pc[t] # "idle"
      BY <2>1, <2>2 DEF TypeOK, OnePlace, CollectNewMail, Searching
    <2>4. owner[m] = t
      BY <2>2, <2>3, OwnReply, Zenon
    <2> QED
      BY <2>1, <2>2, <2>3, <2>4, Zenon DEF PickUp, RightMessage, TypeOK, CollectNewMail, calls
  <1>5. ASSUME NEW u \in Threads PROVE Waiting(u)'
    BY ClientAssumption
       DEF IndInv, CollectNewMail, Searching, PickUp, Goto, calls,
           TypeOK, Waiting, InNewMail, Mailman, INVALIDMSGID, Points,
           OnePlace, Away, UniqueIds, RightMessage
  <1>6. NoSleeperForgotten'
    BY ClientAssumption
       DEF IndInv, CollectNewMail, Searching, PickUp, Goto, calls,
           TypeOK, NoSleeperForgotten, Successor, Unserved, Awake, InNewMail,
           Waiting, Mailman
  <1> QED
    BY <1>1, <1>2, <1>3, <1>4, <1>5, <1>6, Zenon DEF IndInv

(* A thread takes the queue. *)
LEMMA BecomeMailmanStep ==
    ASSUME IndInv, NEW t \in Threads, BecomeMailman(t)
    PROVE  IndInv'
  <1>1. TypeOK'
    BY ClientAssumption, Zenon
       DEF IndInv, BecomeMailman, Searching, Goto, calls,
           TypeOK, MsgIds, INVALIDMSGID, Points
  <1>2. OnePlace'
    BY SamePlaces, Zenon DEF IndInv, BecomeMailman, calls
  <1>3. UniqueIds' /\ (\A n \in Msgs : owner[n] # NoThread => id[n] # INVALIDMSGID)'
    BY ClientAssumption, Zenon
       DEF IndInv, BecomeMailman, Searching, Goto, calls,
           TypeOK, UniqueIds, MsgIds, INVALIDMSGID
  <1>4. RightMessage'
    BY ClientAssumption, Zenon
       DEF IndInv, BecomeMailman, Searching, Goto, calls,
           RightMessage
  <1>5. ASSUME NEW u \in Threads PROVE Waiting(u)'
    BY ClientAssumption
       DEF IndInv, BecomeMailman, Searching, Goto, calls,
           TypeOK, Waiting, InNewMail, Mailman, INVALIDMSGID, Points
  <1>6. NoSleeperForgotten'
    BY ClientAssumption
       DEF IndInv, BecomeMailman, Searching, Goto, calls,
           TypeOK, NoSleeperForgotten, Successor, Unserved, Awake, InNewMail,
           Waiting, Mailman
  <1> QED
    BY <1>1, <1>2, <1>3, <1>4, <1>5, <1>6, Zenon DEF IndInv

(* A thread that finds a mailman at work goes to sleep. *)
LEMMA JoinRecipientsStep ==
    ASSUME IndInv, NEW t \in Threads, JoinRecipients(t)
    PROVE  IndInv'
  <1>1. TypeOK'
    BY ClientAssumption, Zenon
       DEF IndInv, JoinRecipients, Searching, Goto, calls,
           TypeOK, MsgIds, INVALIDMSGID, Points
  <1>2. OnePlace'
    BY SamePlaces, Zenon DEF IndInv, JoinRecipients, calls
  <1>3. UniqueIds' /\ (\A n \in Msgs : owner[n] # NoThread => id[n] # INVALIDMSGID)'
    BY ClientAssumption, Zenon
       DEF IndInv, JoinRecipients, Searching, Goto, calls,
           TypeOK, UniqueIds, MsgIds, INVALIDMSGID
  <1>4. RightMessage'
    BY ClientAssumption, Zenon
       DEF IndInv, JoinRecipients, Searching, Goto, calls,
           RightMessage
  <1>5. ASSUME NEW u \in Threads PROVE Waiting(u)'
    BY ClientAssumption
       DEF IndInv, JoinRecipients, Searching, Goto, calls,
           TypeOK, Waiting, InNewMail, Mailman, INVALIDMSGID, Points
  <1>6. NoSleeperForgotten'
    BY ClientAssumption
       DEF IndInv, JoinRecipients, Searching, Goto, calls,
           TypeOK, NoSleeperForgotten, Successor, Unserved, Awake, InNewMail,
           Waiting, Mailman
  <1> QED
    BY <1>1, <1>2, <1>3, <1>4, <1>5, <1>6, Zenon DEF IndInv

(* The mailman delivers a message it found at once. *)
LEMMA DrainStep ==
    ASSUME IndInv, NEW t \in Threads, Drain(t)
    PROVE  IndInv'
  <1>1. TypeOK'
    <2>1. Head(msgQue) \in Msgs /\ Tail(msgQue) \in Seq(Msgs) /\ TypeOK
      BY TailFacts, Zenon DEF IndInv, TypeOK, Drain
    <2> QED
      BY <2>1, DeliverType DEF TypeOK, Drain, calls
  <1>2. OnePlace'
    <2>1. /\ msgQue # <<>> /\ msgQue' = Tail(msgQue) /\ Deliver(t, Head(msgQue))
          /\ UNCHANGED <<calls, recipients, msgqMsg>>
      BY Zenon DEF Drain
    <2> QED
      BY <2>1, TakeHead, DeliverPlace
  <1>3. UniqueIds' /\ (\A n \in Msgs : owner[n] # NoThread => id[n] # INVALIDMSGID)'
    BY ClientAssumption, Zenon
       DEF IndInv, Drain, Deliver, HandOver, Post, PickUp, Goto, calls,
           TypeOK, UniqueIds, MsgIds, INVALIDMSGID
  <1>4. RightMessage'
    BY ClientAssumption, TailFacts
       DEF IndInv, Drain, Deliver, HandOver, Post, PickUp, Goto, calls,
           TypeOK, RightMessage, OnePlace, Away, UniqueIds, Waiting, Mailman
  <1>5. ASSUME NEW u \in Threads PROVE Waiting(u)'
    <2>1. /\ Head(msgQue) \in Msgs /\ Away(Head(msgQue)) /\ TypeOK
          /\ pc[t] \in Mailman /\ msgqMsg[t] = NoMsg
      BY TailFacts DEF IndInv, TypeOK, OnePlace, Drain, Mailman, Waiting
    <2>2. msgqMsg' = [msgqMsg EXCEPT ![t] = NoMsg]
      BY <2>1 DEF Drain, TypeOK
    <2> QED
      BY <2>1, <2>2, DeliverWaiting, Zenon DEF Drain
  <1>6. NoSleeperForgotten'
    <2>1. Head(msgQue) \in Msgs /\ pc[t] \in Mailman
      BY TakeHead, Zenon DEF Drain, Mailman
    <2> QED
      BY <2>1, DeliverWakes DEF Drain
  <1> QED
    BY <1>1, <1>2, <1>3, <1>4, <1>5, <1>6, Zenon DEF IndInv

(* The mailman goes to wait for the queue. *)
LEMMA QueueEmptyStep ==
    ASSUME IndInv, NEW t \in Threads, QueueEmpty(t)
    PROVE  IndInv'
  <1>1. TypeOK'
    BY ClientAssumption, Zenon
       DEF IndInv, QueueEmpty, Goto, calls,
           TypeOK, MsgIds, INVALIDMSGID, Points
  <1>2. OnePlace'
    BY SamePlaces, Zenon DEF IndInv, QueueEmpty, calls
  <1>3. UniqueIds' /\ (\A n \in Msgs : owner[n] # NoThread => id[n] # INVALIDMSGID)'
    BY ClientAssumption, Zenon
       DEF IndInv, QueueEmpty, Goto, calls,
           TypeOK, UniqueIds, MsgIds, INVALIDMSGID
  <1>4. RightMessage'
    BY ClientAssumption, Zenon
       DEF IndInv, QueueEmpty, Goto, calls,
           RightMessage
  <1>5. ASSUME NEW u \in Threads PROVE Waiting(u)'
    BY ClientAssumption
       DEF IndInv, QueueEmpty, Goto, calls,
           TypeOK, Waiting, InNewMail, Mailman, INVALIDMSGID, Points
  <1>6. NoSleeperForgotten'
    BY ClientAssumption
       DEF IndInv, QueueEmpty, Goto, calls,
           TypeOK, NoSleeperForgotten, Successor, Unserved, Awake, InNewMail,
           Waiting, Mailman
  <1> QED
    BY <1>1, <1>2, <1>3, <1>4, <1>5, <1>6, Zenon DEF IndInv

(* The mailman gets a message without mbxLock. *)
LEMMA GetForeverStep ==
    ASSUME IndInv, NEW t \in Threads, GetForever(t)
    PROVE  IndInv'
  <1>1. TypeOK'
    BY ClientAssumption, TailFacts, Zenon
       DEF IndInv, GetForever, Goto, calls,
           TypeOK, MsgIds, INVALIDMSGID, Points
  <1>2. OnePlace'
    <2> DEFINE h == Head(msgQue)
    <2>1. TypeOK /\ OnePlace
      BY Zenon DEF IndInv
    <2>2. /\ msgQue # <<>> /\ msgQue' = Tail(msgQue) /\ msgqMsg' = [msgqMsg EXCEPT ![t] = h]
          /\ UNCHANGED <<owner, holder, atServer, newMail, box>>
      BY DEF GetForever, calls
    <2>3. /\ h \in Msgs /\ Away(h) /\ QueueWithout(h) /\ h \notin atServer \cup newMail
          /\ \A u \in Threads : box[u] # h
      BY <2>2, TakeHead, Zenon
    <2>4. \A n : Away(n)' <=> Away(n)
      BY <2>2 DEF Away
    <2>5. (\A i \in DOMAIN msgQue :
             /\ Away(msgQue[i]) /\ msgQue[i] \notin atServer \cup newMail
             /\ \A j \in DOMAIN msgQue : msgQue[i] = msgQue[j] => i = j)'
      BY <2>2, <2>3, <2>4, Zenon DEF QueueWithout
    <2>6. (\A u \in Threads : box[u] # NoMsg =>
             Away(box[u]) /\ box[u] \notin atServer \cup newMail \cup Queued)'
      BY <2>1, <2>2, <2>3, <2>4, Zenon DEF OnePlace, QueueWithout
    <2>7. (\A u \in Threads : msgqMsg[u] # NoMsg =>
             /\ Away(msgqMsg[u]) /\ msgqMsg[u] \notin atServer \cup newMail \cup Queued
             /\ \A v \in Threads : box[v] # msgqMsg[u])'
      BY <2>1, <2>2, <2>3, <2>4 DEF OnePlace, QueueWithout, TypeOK
    <2> QED
      BY <2>1, <2>2, <2>4, <2>5, <2>6, <2>7, Zenon DEF OnePlace
  <1>3. UniqueIds' /\ (\A n \in Msgs : owner[n] # NoThread => id[n] # INVALIDMSGID)'
    BY ClientAssumption, Zenon
       DEF IndInv, GetForever, Goto, calls,
           TypeOK, UniqueIds, MsgIds, INVALIDMSGID
  <1>4. RightMessage'
    BY ClientAssumption, TailFacts, Zenon
       DEF IndInv, GetForever, Goto, calls,
           RightMessage
  <1>5. ASSUME NEW u \in Threads PROVE Waiting(u)'
    BY ClientAssumption, TailFacts
       DEF IndInv, GetForever, Goto, calls,
           TypeOK, Waiting, InNewMail, Mailman, INVALIDMSGID, Points
  <1>6. NoSleeperForgotten'
    BY ClientAssumption, TailFacts
       DEF IndInv, GetForever, Goto, calls,
           TypeOK, NoSleeperForgotten, Successor, Unserved, Awake, InNewMail,
           Waiting, Mailman
  <1> QED
    BY <1>1, <1>2, <1>3, <1>4, <1>5, <1>6, Zenon DEF IndInv

(* The mailman delivers that message. *)
LEMMA RelockStep ==
    ASSUME IndInv, NEW t \in Threads, Relock(t)
    PROVE  IndInv'
  <1>1. TypeOK'
    <2>1. msgqMsg[t] \in Msgs /\ TypeOK
      BY InHand, Zenon DEF Relock, IndInv
    <2> QED
      BY <2>1, DeliverType, Zenon DEF TypeOK, Relock, calls
  <1>2. OnePlace'
    <2>1. /\ msgqMsg[t] \in Msgs /\ TypeOK /\ Away(msgqMsg[t])
          /\ msgqMsg[t] \notin atServer \cup newMail \cup Queued
          /\ \A u \in Threads : box[u] # msgqMsg[t]
      BY InHand, Zenon DEF Relock, IndInv
    <2>2. \A u \in Threads \ {t} : msgqMsg[u] = NoMsg
      BY DEF IndInv, Waiting, Mailman, Relock
    <2>3. \A u \in Threads : msgqMsg'[u] = NoMsg
      BY <2>1, <2>2, Zenon DEF TypeOK, Relock
    <2> QED
      <3>1. QueueWithout(msgqMsg[t])
        <4>1. /\ msgQue' = msgQue /\ Queued' = Queued
              /\ \A i \in DOMAIN msgQue : msgQue[i] \in Msgs /\ msgQue[i] \in Queued
          BY <2>1, QueuedMember, Zenon DEF Relock, Queued, IndInv
        <4> QED
          BY <2>1, <4>1, Zenon DEF QueueWithout, IndInv, OnePlace
      <3> QED
        BY <2>1, <2>3, <3>1, ClientAssumption, DeliverPlace DEF Relock
  <1>3. UniqueIds' /\ (\A n \in Msgs : owner[n] # NoThread => id[n] # INVALIDMSGID)'
    BY ClientAssumption, Zenon
       DEF IndInv, Relock, Deliver, HandOver, Post, PickUp, Goto, calls,
           TypeOK, UniqueIds, MsgIds, INVALIDMSGID
  <1>4. RightMessage'
    <2>1. msgqMsg[t] \in Msgs /\ TypeOK /\ Away(msgqMsg[t])
      BY InHand, Zenon DEF Relock, IndInv
    <2>2. id[msgqMsg[t]] = want[t] => owner[msgqMsg[t]] = t
      BY <2>1, OwnReply DEF Relock
    <2> QED
      BY <2>1, <2>2, Zenon DEF IndInv, RightMessage, TypeOK, Relock, Deliver, PickUp, calls
  <1>5. ASSUME NEW u \in Threads PROVE Waiting(u)'
    <2>1. msgqMsg[t] \in Msgs /\ Away(msgqMsg[t]) /\ pc[t] \in Mailman
      BY InHand, Zenon DEF Relock, Mailman
    <2> QED
      BY <2>1, DeliverWaiting, Zenon DEF Relock
  <1>6. NoSleeperForgotten'
    <2>1. msgqMsg[t] \in Msgs /\ pc[t] \in Mailman
      BY InHand, Zenon DEF Relock, Mailman
    <2> QED
      BY <2>1, DeliverWakes DEF Relock
  <1> QED
    BY <1>1, <1>2, <1>3, <1>4, <1>5, <1>6, Zenon DEF IndInv

(* A failing read leaves with the locks. *)
LEMMA LoseMessageStep ==
    ASSUME IndInv, NEW t \in Threads, LoseMessage(t)
    PROVE  IndInv'
  <1>1. TypeOK'
    BY ClientAssumption, Zenon
       DEF IndInv, LoseMessage, Goto, calls,
           TypeOK, MsgIds, INVALIDMSGID, Points
  <1>2. OnePlace'
    BY SamePlaces, Zenon DEF IndInv, LoseMessage, calls
  <1>3. UniqueIds' /\ (\A n \in Msgs : owner[n] # NoThread => id[n] # INVALIDMSGID)'
    BY ClientAssumption, Zenon
       DEF IndInv, LoseMessage, Goto, calls,
           TypeOK, UniqueIds, MsgIds, INVALIDMSGID
  <1>4. RightMessage'
    BY ClientAssumption, Zenon
       DEF IndInv, LoseMessage, Goto, calls,
           RightMessage
  <1>5. ASSUME NEW u \in Threads PROVE Waiting(u)'
    BY ClientAssumption
       DEF IndInv, LoseMessage, Goto, calls,
           TypeOK, Waiting, InNewMail, Mailman, INVALIDMSGID, Points
  <1>6. NoSleeperForgotten'
    BY ClientAssumption
       DEF IndInv, LoseMessage, Goto, calls,
           TypeOK, NoSleeperForgotten, Successor, Unserved, Awake, InNewMail,
           Waiting, Mailman
  <1> QED
    BY <1>1, <1>2, <1>3, <1>4, <1>5, <1>6, Zenon DEF IndInv

(* A recipient's event is posted. *)
LEMMA WakeStep ==
    ASSUME IndInv, NEW t \in Threads, Wake(t)
    PROVE  IndInv'
  <1>1. TypeOK'
    BY ClientAssumption, Zenon
       DEF IndInv, Wake, Goto, calls,
           TypeOK, MsgIds, INVALIDMSGID, Points
  <1>2. OnePlace'
    BY SamePlaces, Zenon DEF IndInv, Wake, calls
  <1>3. UniqueIds' /\ (\A n \in Msgs : owner[n] # NoThread => id[n] # INVALIDMSGID)'
    BY ClientAssumption, Zenon
       DEF IndInv, Wake, Goto, calls,
           TypeOK, UniqueIds, MsgIds, INVALIDMSGID
  <1>4. RightMessage'
    BY ClientAssumption, Zenon
       DEF IndInv, Wake, Goto, calls,
           RightMessage
  <1>5. ASSUME NEW u \in Threads PROVE Waiting(u)'
    BY ClientAssumption
       DEF IndInv, Wake, Goto, calls,
           TypeOK, Waiting, InNewMail, Mailman, INVALIDMSGID, Points
  <1>6. NoSleeperForgotten'
    BY ClientAssumption
       DEF IndInv, Wake, Goto, calls,
           TypeOK, NoSleeperForgotten, Successor, Unserved, Awake, InNewMail,
           Waiting, Mailman
  <1> QED
    BY <1>1, <1>2, <1>3, <1>4, <1>5, <1>6, Zenon DEF IndInv

(* A recipient leaves the list, with its reply or without. *)
LEMMA LeaveRecipientsStep ==
    ASSUME IndInv, NEW t \in Threads, LeaveRecipients(t)
    PROVE  IndInv'
  <1>1. TypeOK'
    <2>1. TypeOK
      BY Zenon DEF IndInv
    <2>2. posted' \subseteq recipients' /\ recipients' \subseteq Threads
      BY <2>1 DEF TypeOK, LeaveRecipients
    <2>3. box' \in [Threads -> Msgs \cup {NoMsg}]
      BY <2>1, Zenon DEF TypeOK, LeaveRecipients
    <2>4. CASE box[t] = NoMsg
      BY <2>1, <2>2, <2>3, <2>4, Zenon DEF TypeOK, LeaveRecipients, Goto, Points, calls
    <2>5. CASE box[t] # NoMsg
      <3>1. box[t] \in Msgs /\ PickUp(t, box[t])
        BY <2>1, <2>5 DEF TypeOK, LeaveRecipients
      <3>2. /\ holder' \in [Msgs -> Threads \cup {NoThread}]
            /\ want' \in [Threads -> MsgIds \cup {INVALIDMSGID}]
            /\ pc' \in [Threads -> Points]
        BY <2>1, <3>1, Zenon DEF TypeOK, PickUp, Goto, Points
      <3> QED
        BY <2>1, <2>2, <2>3, <3>2, Zenon DEF TypeOK, LeaveRecipients, calls
    <2> QED
      BY <2>4, <2>5, Zenon
  <1>2. OnePlace'
    <2>1. TypeOK /\ OnePlace /\ \A u \in Threads : Waiting(u)
      BY Zenon DEF IndInv
    <2>2. CASE box[t] = NoMsg
      <3>1. UNCHANGED <<holder, owner, atServer, msgQue, newMail, msgqMsg>>
        BY <2>2 DEF LeaveRecipients, calls
      <3>2. box' = box
        BY <2>1, <2>2, Zenon DEF LeaveRecipients, TypeOK
      <3> QED
        BY <2>1, <3>1, <3>2, SamePlaces, Zenon
    <2>3. CASE box[t] # NoMsg
      <3>1. /\ holder' = [holder EXCEPT ![box[t]] = t] /\ box' = [box EXCEPT ![t] = NoMsg]
            /\ UNCHANGED <<owner, atServer, msgQue, newMail, msgqMsg, Queued>>
        BY <2>3 DEF LeaveRecipients, PickUp, calls, Queued
      <3>2. \A u \in Threads \ {t} : box[u] # box[t]
        <4>1. ASSUME NEW u \in Threads, box[u] = box[t] PROVE owner[box[t]] = u
          BY <2>1, <2>3, <4>1, OwnReply DEF OnePlace, TypeOK, Waiting
        <4> QED
          BY <4>1, Zenon
      <3>3. \A n \in Msgs : n # box[t] => (Away(n)' <=> Away(n))
        BY <2>1, <3>1 DEF Away, TypeOK
      <3>4. \A u \in Threads : box'[u] # NoMsg => u # t /\ box'[u] = box[u]
        BY <2>1, <3>1, Zenon DEF TypeOK
      <3> QED
        <4>1. (\A n \in atServer : Away(n) /\ n \notin newMail)' /\ (\A n \in newMail : Away(n))'
          BY <2>1, <2>3, <3>1, <3>3 DEF OnePlace, TypeOK
        <4>2. (\A i \in DOMAIN msgQue :
                /\ Away(msgQue[i]) /\ msgQue[i] \notin atServer \cup newMail
                /\ \A j \in DOMAIN msgQue : msgQue[i] = msgQue[j] => i = j)'
          <5>1. \A i \in DOMAIN msgQue : msgQue[i] \in Msgs /\ msgQue[i] \in Queued
            BY <2>1, QueuedMember
          <5>2. box[t] \notin Queued
            BY <2>1, <2>3, Zenon DEF OnePlace
          <5> QED
            BY <2>1, <3>1, <3>3, <5>1, <5>2, Zenon DEF OnePlace
        <4>3. (\A u \in Threads : box[u] # NoMsg =>
                Away(box[u]) /\ box[u] \notin atServer \cup newMail \cup Queued)'
          BY <2>1, <3>1, <3>2, <3>3, <3>4, Zenon DEF OnePlace, TypeOK
        <4>4. (\A u \in Threads : msgqMsg[u] # NoMsg =>
                /\ Away(msgqMsg[u]) /\ msgqMsg[u] \notin atServer \cup newMail \cup Queued
                /\ \A v \in Threads : box[v] # msgqMsg[u])'
          BY <2>1, <3>1, <3>3, <3>4, Zenon DEF OnePlace, TypeOK
        <4> QED
          BY <4>1, <4>2, <4>3, <4>4, Zenon DEF OnePlace
    <2> QED
      BY <2>2, <2>3
  <1>3. UniqueIds' /\ (\A n \in Msgs : owner[n] # NoThread => id[n] # INVALIDMSGID)'
    BY ClientAssumption, Zenon
       DEF IndInv, LeaveRecipients, PickUp, Goto, calls,
           TypeOK, UniqueIds, MsgIds, INVALIDMSGID
  <1>4. RightMessage'
    <2>1. TypeOK /\ RightMessage /\ OnePlace /\ Waiting(t)
      BY Zenon DEF IndInv
    <2>2. CASE box[t] = NoMsg
      BY <2>1, <2>2, Zenon DEF LeaveRecipients, RightMessage, calls
    <2>3. CASE box[t] # NoMsg
      <3>1. box[t] \in Msgs /\ Away(box[t]) /\ id[box[t]] = want[t] /\ pc[t] # "idle"
        BY <2>1, <2>3, Zenon DEF TypeOK, OnePlace, Waiting, LeaveRecipients
      <3>2. owner[box[t]] = t
        BY <3>1, OwnReply, Zenon
      <3> QED
        BY <2>1, <2>3, <3>1, <3>2, Zenon DEF LeaveRecipients, PickUp, RightMessage, TypeOK, calls
    <2> QED
      BY <2>2, <2>3
  <1>5. ASSUME NEW u \in Threads PROVE Waiting(u)'
    <2>1. TypeOK /\ OnePlace /\ Waiting(u) /\ Waiting(t)
      BY Zenon DEF IndInv
    <2>2. UNCHANGED <<owner, id, newMail, queueLock, msgqMsg>>
      BY Zenon DEF LeaveRecipients, calls
    <2>3. CASE box[t] = NoMsg
      BY <2>1, <2>2, <2>3 DEF LeaveRecipients, Goto, TypeOK, Waiting, InNewMail, Mailman
    <2>4. CASE box[t] # NoMsg
      <3>1. box[t] \in Msgs /\ Away(box[t]) /\ id[box[t]] = want[t] /\ pc[t] = "woken"
        BY <2>1, <2>4, Zenon DEF TypeOK, OnePlace, Waiting, LeaveRecipients
      <3>2. owner[box[t]] = t
        BY <3>1, OwnReply
      <3>3. /\ holder' = [holder EXCEPT ![box[t]] = t] /\ want' = [want EXCEPT ![t] = INVALIDMSGID]
            /\ pc' = [pc EXCEPT ![t] = "idle"] /\ box' = [box EXCEPT ![t] = NoMsg]
            /\ recipients' = recipients \ {t}
        BY <2>4, Zenon DEF LeaveRecipients, PickUp, Goto
      <3>4. CASE u = t
        BY <2>1, <2>2, <3>1, <3>3, <3>4, Zenon DEF TypeOK, Waiting, Mailman
      <3>5. CASE u # t
        BY <2>1, <2>2, <3>1, <3>2, <3>3, <3>5, Zenon DEF TypeOK, Waiting, InNewMail
      <3> QED
        BY <3>4, <3>5, Zenon
    <2> QED
      BY <2>3, <2>4
  <1>6. NoSleeperForgotten'
    BY ClientAssumption
       DEF IndInv, LeaveRecipients, PickUp, Goto, calls,
           TypeOK, NoSleeperForgotten, Successor, Unserved, Awake, InNewMail,
           Waiting, Mailman
  <1> QED
    BY <1>1, <1>2, <1>3, <1>4, <1>5, <1>6, Zenon DEF IndInv

(* No step of the client breaks the invariant, unless ids are reused. *)
LEMMA StepKeepsInv ==
    ASSUME IndInv, [Next]_vars, ~ ReusesIds
    PROVE  IndInv'
  <1>1. CASE UNCHANGED vars
    <2> USE <1>1 DEF vars, calls
    <2>1. TypeOK' /\ UniqueIds' /\ RightMessage'
      BY Zenon DEF IndInv, TypeOK, UniqueIds, RightMessage
    <2>2. OnePlace'
      BY SamePlaces, Zenon DEF IndInv
    <2>3. \A t \in Threads : Waiting(t)'
      BY DEF IndInv, Waiting, InNewMail
    <2>4. \A u : Successor(u)' <=> Successor(u)
      BY Zenon DEF Successor, Unserved, Awake, InNewMail
    <2>5. NoSleeperForgotten'
      BY <2>4, Zenon DEF IndInv, NoSleeperForgotten, Awake, Unserved
    <2> QED
      BY <2>1, <2>2, <2>3, <2>5, Zenon DEF IndInv
  <1>2. CASE Next
    <2>1. ASSUME NEW t \in Threads, Call(t) PROVE IndInv'
      BY <2>1, AllocStep, FreeStep, ExecNoWaitStep, ExecStep, WaitUntilDoneStep, Zenon DEF Call
    <2>2. ASSUME NEW t \in Threads, GetReturnMsg(t) PROVE IndInv'
      BY <2>2, CollectNewMailStep, BecomeMailmanStep, JoinRecipientsStep, DrainStep,
         QueueEmptyStep, GetForeverStep, RelockStep, WakeStep, LeaveRecipientsStep
         DEF GetReturnMsg
    <2> QED
      BY <1>2, <2>1, <2>2, LoseMessageStep, ServerRepliesStep, Zenon DEF Next
  <1> QED
    BY <1>1, <1>2, Zenon

(* IndInv is an invariant of the client as long as ids are not reused.     *)
THEOREM ClientInvariant == ASSUME ~ ReusesIds PROVE Spec => []IndInv
  <1>1. Init => IndInv
    BY InitHolds
  <1>2. IndInv /\ [Next]_vars => IndInv'
    BY StepKeepsInv
  <1> QED
    BY <1>1, <1>2, PTL DEF Spec

(* Type correctness of the client. *)
THEOREM TypeCorrect == ASSUME ~ ReusesIds PROVE Spec => []TypeOK
  <1>1. IndInv => TypeOK
    BY Zenon DEF IndInv
  <1> QED
    BY <1>1, ClientInvariant, PTL

(* _RcmClient_getReturnMsg() gives every thread the reply to a message of  *)
(* its own, even when reads of the queue fail.                             *)
THEOREM RightReply == ASSUME ~ ReusesIds PROVE Spec => []RightMessage
  <1>1. IndInv => RightMessage
    BY Zenon DEF IndInv
  <1> QED
    BY <1>1, ClientInvariant, PTL

(* The mailman's hand-over never leaves a sleeping recipient without a     *)
(* reader of the queue, present or on its way.                             *)
THEOREM HandOverWorks == ASSUME ~ ReusesIds PROVE Spec => []NoSleeperForgotten
  <1>1. IndInv => NoSleeperForgotten
    BY DEF IndInv
  <1> QED
    BY <1>1, ClientInvariant, PTL

-----------------------------------------------------------------------------
(* The refinement: phase and owner change as RcmCalls lets them, or not.   *)
LEMMA PhaseTaken ==
    ASSUME IndInv, NEW t \in Threads, NEW m \in Msgs, Away(m), m \notin atServer,
           id[m] = want[t], pc[t] # "idle",
           holder' = [holder EXCEPT ![m] = t], UNCHANGED <<owner, atServer>>
    PROVE  Calls!Receive(t, m)
  <1>1. owner[m] = t /\ TypeOK
    BY OwnReply, Zenon DEF IndInv
  <1>2. callPhase[m] = "replied"
    BY <1>1, ClientAssumption DEF callPhase, Away
  <1>3. callPhase' = [callPhase EXCEPT ![m] = "client"]
    BY <1>1, ClientAssumption, Zenon DEF callPhase, TypeOK
  <1> QED
    BY <1>1, <1>2, <1>3, Zenon DEF Calls!Receive, Calls!Move

(* Every step of the client is a step of the call it serves, or of none. *)
LEMMA StepRefines ==
    ASSUME IndInv, [Next]_vars
    PROVE  [Calls!CallNext]_(Calls!callVars)
  <1> USE DEF Calls!callVars, Calls!CallNext
  <1>0. TypeOK /\ OnePlace /\ RightMessage /\ \A t \in Threads : Waiting(t)
    BY Zenon DEF IndInv
  <1>1. ASSUME UNCHANGED <<owner, holder, atServer>> PROVE UNCHANGED Calls!callVars
    BY <1>1, Zenon DEF callPhase
  <1>2. ASSUME NEW t \in Threads, NEW m \in Msgs, Alloc(t, m) PROVE Calls!Allocate(t, m)
    <2>1. callPhase[m] = "free" /\ callPhase' = [callPhase EXCEPT ![m] = "client"]
      BY <1>0, <1>2, ClientAssumption, Zenon DEF Alloc, Allocated, callPhase, TypeOK
    <2> QED
      BY <1>2, <2>1 DEF Alloc, Calls!Allocate, Calls!Move
  <1>3. ASSUME NEW t \in Threads, NEW m \in Msgs, Free(t, m) PROVE Calls!Release(t, m)
    <2>1. owner[m] = t
      BY <1>0, <1>3, ClientAssumption DEF Free, RightMessage
    <2>2. callPhase[m] = "client" /\ callPhase' = [callPhase EXCEPT ![m] = "free"]
      BY <1>0, <1>3, <2>1, ClientAssumption, Zenon DEF Free, callPhase, TypeOK
    <2> QED
      BY <1>3, <2>1, <2>2, Zenon DEF Free, Calls!Release, Calls!Move
  <1>4. ASSUME NEW t \in Threads, NEW m \in Msgs, SendMessage(t, m) PROVE Calls!Send(t, m)
    <2>1. owner[m] = t
      BY <1>0, <1>4, ClientAssumption DEF SendMessage, RightMessage
    <2>2. callPhase[m] = "client" /\ callPhase' = [callPhase EXCEPT ![m] = "server"]
      BY <1>0, <1>4, <2>1, ClientAssumption, Zenon DEF SendMessage, callPhase, TypeOK
    <2> QED
      BY <1>4, <2>1, <2>2, Zenon DEF SendMessage, Calls!Send, Calls!Move
  <1>5. ASSUME NEW m \in Msgs, ServerReplies(m) PROVE Calls!Reply(m)
    <2>1. Away(m)
      BY <1>0, <1>5, Zenon DEF OnePlace, ServerReplies
    <2>2. callPhase[m] = "server" /\ callPhase' = [callPhase EXCEPT ![m] = "replied"]
      BY <1>0, <1>5, <2>1, ClientAssumption, Zenon DEF ServerReplies, callPhase, Away, TypeOK
    <2> QED
      BY <1>5, <2>2, Zenon DEF ServerReplies, Calls!Reply, Calls!Move
  <1>6. ASSUME NEW t \in Threads, Call(t) PROVE [Calls!CallNext]_(Calls!callVars)
    <2>1. WaitUntilDone(t) => UNCHANGED <<owner, holder, atServer>>
      BY Zenon DEF WaitUntilDone, calls
    <2> QED
      BY <1>1, <1>2, <1>3, <1>4, <1>6, <2>1 DEF Call, Exec, ExecNoWait
  <1>7. ASSUME NEW t \in Threads, CollectNewMail(t) PROVE Calls!CallNext
    <2>1. PICK m \in newMail : id[m] = want[t] /\ PickUp(t, m)
      BY <1>7, Zenon DEF CollectNewMail
    <2>2. m \in Msgs /\ Away(m) /\ m \notin atServer
      BY <1>0, Zenon DEF OnePlace, TypeOK
    <2>3. Calls!Receive(t, m)
      BY <1>7, <2>1, <2>2, PhaseTaken, Zenon DEF CollectNewMail, Searching, PickUp, calls
    <2> QED
      BY <2>2, <2>3, Zenon
  <1>8. ASSUME NEW t \in Threads, NEW m \in Msgs, Away(m), m \notin atServer,
               pc[t] # "idle", Deliver(t, m), UNCHANGED calls
        PROVE  [Calls!CallNext]_(Calls!callVars)
    <2>1. CASE id[m] = want[t]
      BY <1>8, <2>1, PhaseTaken, Zenon DEF Deliver, PickUp, calls
    <2>2. CASE id[m] # want[t]
      BY <1>1, <1>8, <2>2, Zenon DEF Deliver, calls
    <2> QED
      BY <2>1, <2>2, Zenon
  <1>9. ASSUME NEW t \in Threads, Drain(t) PROVE [Calls!CallNext]_(Calls!callVars)
    <2>1. Head(msgQue) \in Msgs /\ Away(Head(msgQue)) /\ Head(msgQue) \notin atServer
      BY <1>0, <1>9, TailFacts DEF Drain, OnePlace, TypeOK
    <2> QED
      BY <1>8, <1>9, <2>1, Zenon DEF Drain
  <1>10. ASSUME NEW t \in Threads, Relock(t) PROVE [Calls!CallNext]_(Calls!callVars)
    <2>1. msgqMsg[t] \in Msgs /\ Away(msgqMsg[t]) /\ msgqMsg[t] \notin atServer
      BY <1>10, InHand DEF Relock
    <2> QED
      BY <1>8, <1>10, <2>1, Zenon DEF Relock
  <1>11. ASSUME NEW t \in Threads, LeaveRecipients(t) PROVE [Calls!CallNext]_(Calls!callVars)
    <2>1. CASE box[t] = NoMsg
      BY <1>1, <1>11, <2>1, Zenon DEF LeaveRecipients, calls
    <2>2. CASE box[t] # NoMsg
      <3>1. /\ box[t] \in Msgs /\ Away(box[t]) /\ box[t] \notin atServer
            /\ id[box[t]] = want[t]
        BY <1>0, <2>2 DEF OnePlace, TypeOK, Waiting
      <3> QED
        BY <1>11, <2>2, <3>1, PhaseTaken, Zenon DEF LeaveRecipients, PickUp, calls
    <2> QED
      BY <2>1, <2>2, Zenon
  <1>12. ASSUME NEW t \in Threads,
                BecomeMailman(t) \/ JoinRecipients(t) \/ QueueEmpty(t) \/ GetForever(t)
                   \/ Wake(t) \/ LoseMessage(t)
         PROVE  UNCHANGED <<owner, holder, atServer>>
    BY <1>12, Zenon DEF BecomeMailman, JoinRecipients, QueueEmpty, GetForever, Wake, LoseMessage,
       calls
  <1>13. ASSUME NEW t \in Threads, GetReturnMsg(t) PROVE [Calls!CallNext]_(Calls!callVars)
    BY <1>1, <1>7, <1>9, <1>10, <1>11, <1>12, <1>13, Zenon DEF GetReturnMsg
  <1>14. CASE UNCHANGED vars
    BY <1>1, <1>14 DEF vars, calls
  <1> QED
    BY <1>1, <1>5, <1>6, <1>12, <1>13, <1>14, Zenon DEF Next

(* The client implements RcmCalls: every call comes back to its caller,    *)
(* once, whatever the mailmen do.                                          *)
THEOREM ClientImplementsCalls == ASSUME ~ ReusesIds PROVE Spec => ImplementsCalls
  <1>1. Init => Calls!CallInit
    BY DEF Init, Calls!CallInit, callPhase
  <1>2. IndInv /\ [Next]_vars => [Calls!CallNext]_(Calls!callVars)
    BY StepRefines
  <1> QED
    BY <1>1, <1>2, ClientInvariant, PTL DEF Spec, ImplementsCalls, Calls!CallSpec

=============================================================================
