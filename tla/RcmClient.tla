----------------------------- MODULE RcmClient ------------------------------
(***************************************************************************)
(* An RCM client instance (RcmClient.c) shared by several threads.  Every  *)
(* call sends a message to the server; all replies come back on one queue, *)
(* msgQue, in any order.  _RcmClient_getReturnMsg() sorts them: the thread *)
(* that gets queueLock is the mailman, reads the queue and delivers to the *)
(* others; who does not get it waits in the recipients list.  A mailman    *)
(* who finds its own reply wakes one waiting recipient to take over.       *)
(*                                                                         *)
(* newMail, recipients and the locks change only with mbxLock held, so     *)
(* what a thread does between taking and releasing it is one step, except  *)
(* for the mailman: it keeps the lock while it drains the queue, one step  *)
(* per message, as the server may add replies meanwhile.                   *)
(***************************************************************************)
EXTENDS Naturals, Sequences

CONSTANTS Threads,    \* the callers
          Msgs,       \* the message blocks of the heap
          MaxMsgId,   \* 0xFFFF in the code
          ReusesIds,  \* ids may come round while an old one is in use
          GetFails,   \* MessageQ_get() may report an error
          NoThread, NoMsg

ASSUME ClientAssumption ==
    /\ MaxMsgId \in Nat \ {0}
    /\ {ReusesIds, GetFails} \subseteq BOOLEAN
    /\ NoThread \notin Threads
    /\ NoMsg \notin Msgs

MsgIds == 1 .. MaxMsgId
INVALIDMSGID == 0

VARIABLES
    msgId,        \* the last id handed out
    id,           \* the id in each message's packet
    owner,        \* who allocated a message, or NoThread: a free block
    holder,       \* the thread that has the message in its hands, or NoThread
    atServer,     \* messages the server has, queued or executing
    msgQue,       \* replies not yet read
    newMail,      \* replies read by a mailman, whose recipient was not waiting
    recipients,   \* threads in the wait list
    box,          \* recipient->msg
    posted,       \* recipients whose event has been posted; it is pended once and
                  \* then deleted, so that its count does not matter
    mbxLock, queueLock,
    want,         \* the msgId a thread is waiting for
    msgqMsg,      \* the message a mailman got from its blocking read
    pc

calls == <<msgId, id, owner, atServer>>
vars == <<calls, holder, msgQue, newMail, recipients, box, posted, mbxLock, queueLock,
          want, msgqMsg, pc>>

(* "search": at the top of the loop; "drain": mailman with mbxLock;        *)
(* "block": mailman in MessageQ_get(FOREVER); "relock": mailman with a new *)
(* message, waiting for mbxLock; "sleep": recipient on its event; "woken": *)
(* recipient waiting for mbxLock.                                          *)
Points == {"idle", "search", "drain", "block", "relock", "sleep", "woken"}

Mailman == {"drain", "block", "relock"}

Init ==
    /\ msgId = MaxMsgId
    /\ id = [m \in Msgs |-> INVALIDMSGID]
    /\ owner = [m \in Msgs |-> NoThread]
    /\ holder = [m \in Msgs |-> NoThread]
    /\ atServer = {} /\ msgQue = <<>> /\ newMail = {} /\ recipients = {}
    /\ box = [t \in Threads |-> NoMsg]
    /\ posted = {}
    /\ mbxLock = NoThread /\ queueLock = NoThread
    /\ want = [t \in Threads |-> INVALIDMSGID]
    /\ msgqMsg = [t \in Threads |-> NoMsg]
    /\ pc = [t \in Threads |-> "idle"]

Goto(t, point) == pc' = [pc EXCEPT ![t] = point]

-----------------------------------------------------------------------------
Allocated == {m \in Msgs : owner[m] # NoThread}

genMsgId == IF msgId = MaxMsgId THEN 1 ELSE msgId + 1

(* RcmClient_alloc().  An id counts as in use until its message is freed.  *)
Alloc(t, m) ==
    /\ pc[t] = "idle"
    /\ m \notin Allocated
    /\ ReusesIds \/ \A n \in Allocated : id[n] # genMsgId
    /\ msgId' = genMsgId
    /\ id' = [id EXCEPT ![m] = genMsgId]
    /\ owner' = [owner EXCEPT ![m] = t]
    /\ holder' = [holder EXCEPT ![m] = t]
    /\ UNCHANGED <<atServer, msgQue, newMail, recipients, box, posted, mbxLock,
                   queueLock, want, msgqMsg, pc>>

(* RcmClient_free(). *)
Free(t, m) ==
    /\ pc[t] = "idle"
    /\ holder[m] = t
    /\ owner' = [owner EXCEPT ![m] = NoThread]
    /\ holder' = [holder EXCEPT ![m] = NoThread]
    /\ UNCHANGED <<msgId, id, atServer, msgQue, newMail, recipients, box, posted,
                   mbxLock, queueLock, want, msgqMsg, pc>>

(* MessageQ_put() to the server's queue, with msgQue as the reply queue.   *)
SendMessage(t, m) ==
    /\ pc[t] = "idle"
    /\ holder[m] = t
    /\ holder' = [holder EXCEPT ![m] = NoThread]
    /\ atServer' = atServer \cup {m}
    /\ UNCHANGED <<msgId, id, owner, msgQue, newMail, recipients, box, posted,
                   mbxLock, queueLock, msgqMsg>>

ExecNoWait(t, m) == SendMessage(t, m) /\ UNCHANGED <<want, pc>>

WaitFor(t, i) == want' = [want EXCEPT ![t] = i] /\ Goto(t, "search")

(* RcmClient_exec(), and the calls built like it: execDpc(), getSymbolIndex(), *)
(* acquireJobId() and releaseJobId().                                      *)
Exec(t, m) == SendMessage(t, m) /\ WaitFor(t, id[m])

(* RcmClient_waitUntilDone(), for a message this thread sent earlier. *)
WaitUntilDone(t) ==
    /\ pc[t] = "idle"
    /\ \E m \in Msgs :
          /\ owner[m] = t /\ holder[m] = NoThread
          /\ WaitFor(t, id[m])
    /\ UNCHANGED <<calls, holder, msgQue, newMail, recipients, box, posted, mbxLock,
                   queueLock, msgqMsg>>

(* The server returns a message, in any order (RcmServer.c).               *)
ServerReplies(m) ==
    /\ m \in atServer
    /\ atServer' = atServer \ {m}
    /\ msgQue' = Append(msgQue, m)
    /\ UNCHANGED <<msgId, id, owner, holder, newMail, recipients, box, posted, mbxLock,
                   queueLock, want, msgqMsg, pc>>

-----------------------------------------------------------------------------
(***************************************************************************)
(* _RcmClient_getReturnMsg().  At the top of the loop, with mbxLock: take  *)
(* the message from newMail, or become mailman, or join the recipients.    *)
(***************************************************************************)
PickUp(t, m) ==
    /\ holder' = [holder EXCEPT ![m] = t]
    /\ want' = [want EXCEPT ![t] = INVALIDMSGID]
    /\ Goto(t, "idle")

InNewMail(t) == \E m \in newMail : id[m] = want[t]

Searching(t) == pc[t] = "search" /\ mbxLock = NoThread

(* Mutant: the message stays in the list. *)
CollectNewMailKeeps(t) ==
    /\ Searching(t)
    /\ \E m \in newMail : id[m] = want[t] /\ PickUp(t, m)
    /\ UNCHANGED <<calls, msgQue, newMail, recipients, box, posted, mbxLock, queueLock, msgqMsg>>

CollectNewMail(t) ==
    /\ Searching(t)
    /\ \E m \in newMail :
          /\ id[m] = want[t]
          /\ newMail' = newMail \ {m}
          /\ PickUp(t, m)
    /\ UNCHANGED <<calls, msgQue, recipients, box, posted, mbxLock, queueLock, msgqMsg>>

BecomeMailman(t) ==
    /\ Searching(t) /\ ~ InNewMail(t)
    /\ queueLock = NoThread
    /\ queueLock' = t /\ mbxLock' = t
    /\ Goto(t, "drain")
    /\ UNCHANGED <<calls, holder, msgQue, newMail, recipients, box, posted, want, msgqMsg>>

(* Mutant: a thread that cannot be mailman does not look into newMail. *)
JoinRecipientsUnsearched(t) ==
    /\ Searching(t)
    /\ queueLock # NoThread
    /\ recipients' = recipients \cup {t}
    /\ Goto(t, "sleep")
    /\ UNCHANGED <<calls, holder, msgQue, newMail, box, posted, mbxLock, queueLock,
                   want, msgqMsg>>

JoinRecipients(t) ==
    /\ Searching(t) /\ ~ InNewMail(t)
    /\ queueLock # NoThread
    /\ recipients' = recipients \cup {t}
    /\ Goto(t, "sleep")
    /\ UNCHANGED <<calls, holder, msgQue, newMail, box, posted, mbxLock, queueLock,
                   want, msgqMsg>>

-----------------------------------------------------------------------------
(***************************************************************************)
(* The mailman's treatment of a message it has read.  Its own: wake one    *)
(* recipient that has no message yet (the code takes the first of the      *)
(* list, here it is any) and release both locks.  A waiting recipient's:   *)
(* put it in that recipient's hands.  Any other: to newMail.               *)
(***************************************************************************)
Post(t) == posted' = posted \cup {t}

Unserved == {r \in recipients : box[r] = NoMsg}

(* Mutant: no new mailman is sought. *)
HandOverNone(t) == UNCHANGED posted

HandOver(t) ==
    \/ \E r \in Unserved : Post(r)
    \/ Unserved = {} /\ UNCHANGED posted

(* Mutant: the mailman takes whatever message comes for its own. *)
DeliverUnchecked(t, m) ==
    /\ PickUp(t, m)
    /\ HandOver(t)
    /\ mbxLock' = NoThread /\ queueLock' = NoThread
    /\ UNCHANGED <<newMail, box>>

Deliver(t, m) ==
    \/ /\ id[m] = want[t]
       /\ PickUp(t, m)
       /\ HandOver(t)
       /\ mbxLock' = NoThread /\ queueLock' = NoThread
       /\ UNCHANGED <<newMail, box>>
    \/ /\ id[m] # want[t]
       /\ mbxLock' = t
       /\ Goto(t, "drain")
       /\ \/ \E r \in recipients :
                /\ want[r] = id[m]
                /\ box' = [box EXCEPT ![r] = m]
                /\ Post(r)
                /\ UNCHANGED newMail
          \/ /\ \A r \in recipients : want[r] # id[m]
             /\ newMail' = newMail \cup {m}
             /\ UNCHANGED <<box, posted>>
       /\ UNCHANGED <<holder, queueLock, want>>

(* MessageQ_get(WAIT_NONE) finds a message, or the queue empty: then the   *)
(* mailman gives up mbxLock and blocks on the queue.                       *)
Drain(t) ==
    /\ pc[t] = "drain"
    /\ msgQue # <<>>
    /\ msgQue' = Tail(msgQue)
    /\ Deliver(t, Head(msgQue))
    /\ UNCHANGED <<calls, recipients, msgqMsg>>

QueueEmpty(t) ==
    /\ pc[t] = "drain"
    /\ msgQue = <<>>
    /\ mbxLock' = NoThread
    /\ Goto(t, "block")
    /\ UNCHANGED <<calls, holder, msgQue, newMail, recipients, box, posted, queueLock,
                   want, msgqMsg>>

GetForever(t) ==
    /\ pc[t] = "block"
    /\ msgQue # <<>>
    /\ msgqMsg' = [msgqMsg EXCEPT ![t] = Head(msgQue)]
    /\ msgQue' = Tail(msgQue)
    /\ Goto(t, "relock")
    /\ UNCHANGED <<calls, holder, newMail, recipients, box, posted, mbxLock, queueLock, want>>

Relock(t) ==
    /\ pc[t] = "relock"
    /\ mbxLock = NoThread
    /\ Deliver(t, msgqMsg[t])
    /\ msgqMsg' = [msgqMsg EXCEPT ![t] = NoMsg]
    /\ UNCHANGED <<calls, msgQue, recipients>>

(* A MessageQ_get() that fails: the function returns RcmClient_E_LOSTMSG   *)
(* at once, with the locks it has.                                         *)
LoseMessage(t) ==
    /\ GetFails
    /\ pc[t] \in {"drain", "block"}
    /\ want' = [want EXCEPT ![t] = INVALIDMSGID]
    /\ Goto(t, "idle")
    /\ UNCHANGED <<calls, holder, msgQue, newMail, recipients, box, posted, mbxLock,
                   queueLock, msgqMsg>>

-----------------------------------------------------------------------------
(* A recipient: pend on the event, then, with mbxLock, take the message if *)
(* there is one, leave the list, delete the event; with no message, start  *)
(* over (as the new mailman, if nobody was faster).                        *)
Wake(t) ==
    /\ pc[t] = "sleep"
    /\ t \in posted
    /\ posted' = posted \ {t}
    /\ Goto(t, "woken")
    /\ UNCHANGED <<calls, holder, msgQue, newMail, recipients, box, mbxLock, queueLock,
                   want, msgqMsg>>

LeaveRecipients(t) ==
    /\ pc[t] = "woken"
    /\ mbxLock = NoThread
    /\ recipients' = recipients \ {t}
    /\ box' = [box EXCEPT ![t] = NoMsg]
    /\ posted' = posted \ {t}
    /\ \/ box[t] # NoMsg /\ PickUp(t, box[t])
       \/ box[t] = NoMsg /\ Goto(t, "search") /\ UNCHANGED <<holder, want>>
    /\ UNCHANGED <<calls, msgQue, newMail, mbxLock, queueLock, msgqMsg>>

-----------------------------------------------------------------------------
Call(t) ==
    \/ \E m \in Msgs : Alloc(t, m) \/ Free(t, m) \/ ExecNoWait(t, m) \/ Exec(t, m)
    \/ WaitUntilDone(t)

GetReturnMsg(t) ==
    \/ CollectNewMail(t) \/ BecomeMailman(t) \/ JoinRecipients(t)
    \/ Drain(t) \/ QueueEmpty(t) \/ GetForever(t) \/ Relock(t)
    \/ Wake(t) \/ LeaveRecipients(t)

Next ==
    \/ \E t \in Threads : Call(t) \/ GetReturnMsg(t) \/ LoseMessage(t)
    \/ \E m \in Msgs : ServerReplies(m)

Spec == Init /\ [][Next]_vars

(* Threads inside getReturnMsg() keep running, and one that pends on       *)
(* mbxLock gets it if it becomes free again and again.  Nobody has to      *)
(* call, and the server need not answer.                                   *)
TakeMbxLock(t) ==
    CollectNewMail(t) \/ BecomeMailman(t) \/ JoinRecipients(t) \/ Relock(t) \/ LeaveRecipients(t)

Fairness ==
    \A t \in Threads : WF_vars(GetReturnMsg(t)) /\ SF_vars(TakeMbxLock(t))

FairSpec == Spec /\ Fairness

-----------------------------------------------------------------------------
(* The type invariant. *)
TypeOK ==
    /\ msgId \in MsgIds
    /\ id \in [Msgs -> MsgIds \cup {INVALIDMSGID}]
    /\ owner \in [Msgs -> Threads \cup {NoThread}]
    /\ holder \in [Msgs -> Threads \cup {NoThread}]
    /\ atServer \subseteq Msgs
    /\ newMail \subseteq Msgs
    /\ msgQue \in Seq(Msgs)
    /\ recipients \subseteq Threads
    /\ posted \subseteq recipients
    /\ box \in [Threads -> Msgs \cup {NoMsg}]
    /\ msgqMsg \in [Threads -> Msgs \cup {NoMsg}]
    /\ mbxLock \in Threads \cup {NoThread}
    /\ queueLock \in Threads \cup {NoThread}
    /\ want \in [Threads -> MsgIds \cup {INVALIDMSGID}]
    /\ pc \in [Threads -> Points]

(* getReturnMsg() gives a thread the reply to a message of its own: the    *)
(* ids that _RcmClient_genMsgId() promises to be unique ("Generate unique  *)
(* message ID for RCM messages") tell the calls of all threads apart.      *)
RightMessage == \A m \in Msgs : holder[m] \in {owner[m], NoThread}

(***************************************************************************)
(* The hand-over between mailmen never leaves a waiting recipient behind:  *)
(* while one sleeps, somebody reads the queue, or a thread that will read  *)
(* it is on its way (a recipient that was woken without a message, or one  *)
(* at the top of the loop whose message is not in newMail).  A recipient   *)
(* that was given its message has been woken.                              *)
(***************************************************************************)
Awake(t) == t \in posted \/ pc[t] = "woken"

Successor(t) ==
    \/ t \in Unserved /\ Awake(t)
    \/ pc[t] = "search" /\ ~ InNewMail(t)

NoSleeperForgotten ==
    \A r \in recipients :
        \/ Awake(r)
        \/ r \in Unserved /\ (queueLock # NoThread \/ \E t \in Threads : Successor(t))

(***************************************************************************)
(* The inductive strengthening.  A message is in one place at a time, and  *)
(* nobody's while it is away; ids of allocated messages differ; who waits  *)
(* is waited for by a message of its own; the mailman has queueLock; a     *)
(* recipient's message is not in newMail, and what is in its box is its    *)
(* own.                                                                    *)
(***************************************************************************)
Queued == {msgQue[i] : i \in DOMAIN msgQue}

Away(m) == owner[m] # NoThread /\ holder[m] = NoThread

OnePlace ==
    /\ \A m \in atServer : Away(m) /\ m \notin newMail
    /\ \A m \in newMail : Away(m)
    /\ \A i \in DOMAIN msgQue :
          /\ Away(msgQue[i]) /\ msgQue[i] \notin atServer \cup newMail
          /\ \A j \in DOMAIN msgQue : msgQue[i] = msgQue[j] => i = j
    /\ \A t \in Threads : box[t] # NoMsg =>
          Away(box[t]) /\ box[t] \notin atServer \cup newMail \cup Queued
    /\ \A t \in Threads : msgqMsg[t] # NoMsg =>
          /\ Away(msgqMsg[t]) /\ msgqMsg[t] \notin atServer \cup newMail \cup Queued
          /\ \A u \in Threads : box[u] # msgqMsg[t]

UniqueIds ==
    \A m, n \in Msgs :
        (owner[m] # NoThread /\ owner[n] # NoThread /\ id[m] = id[n]) => m = n

Waiting(t) ==
    /\ want[t] # INVALIDMSGID <=> pc[t] # "idle"
    /\ want[t] # INVALIDMSGID =>
          \E m \in Msgs : owner[m] = t /\ holder[m] = NoThread /\ id[m] = want[t]
    /\ pc[t] \in Mailman => queueLock = t
    /\ msgqMsg[t] # NoMsg <=> pc[t] = "relock"
    /\ t \in recipients <=> pc[t] \in {"sleep", "woken"}
    /\ t \in recipients => ~ InNewMail(t)
    /\ box[t] # NoMsg => t \in recipients /\ id[box[t]] = want[t]

IndInv ==
    /\ TypeOK
    /\ OnePlace
    /\ UniqueIds
    /\ \A m \in Msgs : owner[m] # NoThread => id[m] # INVALIDMSGID
    /\ \A t \in Threads : Waiting(t)
    /\ RightMessage
    /\ NoSleeperForgotten

(***************************************************************************)
(* A waiting thread whose reply has come back returns with it ("guarantees *)
(* that a waiting recipient is released as soon as his message arrives",   *)
(* "message delivery is never stalled waiting on absent recipient"),       *)
(* whatever happens to the calls of the other threads.  Only a read that   *)
(* fails keeps the others from it: the locks it leaves are nobody's.       *)
(***************************************************************************)
ReadAbandoned == queueLock # NoThread /\ pc[queueLock] \notin Mailman

Replied(m) == owner[m] # NoThread /\ holder[m] = NoThread /\ m \notin atServer

HasReply(t) == want[t] # INVALIDMSGID /\ \E m \in Msgs : Replied(m) /\ id[m] = want[t]

ReplyCollected ==
    \A t \in Threads : HasReply(t) ~> want[t] = INVALIDMSGID \/ ReadAbandoned

(* The client implements RcmCalls: every message that is sent and answered *)
(* comes back to the thread that sent it, once.                            *)
callPhase == [m \in Msgs |->
                IF owner[m] = NoThread THEN "free"
                ELSE IF holder[m] # NoThread THEN "client"
                ELSE IF m \in atServer THEN "server" ELSE "replied"]

Calls == INSTANCE RcmCalls WITH phase <- callPhase

ImplementsCalls == Calls!CallSpec
=============================================================================
