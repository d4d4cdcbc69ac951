------------------------------ MODULE OmxEvents ------------------------------
(***************************************************************************)
(* How OMXCameraAdapter waits for the OMX component on the remote          *)
(* processor: an operation registers the event it expects together with    *)
(* one of the adapter's semaphores in mEventSignalQ, sends the command and *)
(* waits on the semaphore with a timeout; the OMX callback thread looks    *)
(* the event up in mEventSignalQ and posts the semaphore it finds there.   *)
(* The words of an event keep the values of the OMX headers, because the   *)
(* comparison of the code is about those values: OMX_CommandStateSet is 0, *)
(* and OMX_StateIdle and the preview port are both 2.                      *)
(***************************************************************************)
EXTENDS Naturals, Sequences, SequencesExt

(* OMX_EVENTTYPE *)
EventCmdComplete         == 0
EventIndexSettingChanged == 111

(* OMX_COMMANDTYPE *)
StateSet    == 0
FlushPort   == 1
PortDisable == 2
PortEnable  == 3

(* OMX_STATETYPE *)
StateInvalid   == 0
StateLoaded    == 1
StateIdle      == 2
StateExecuting == 3

(* The ports of the camera component. *)
PreviewPort == 2
ImagePort   == 5

(* OMX_ALL and the two indices whose change is reported by an event. *)
All          == 100
ShutterIndex == 101
FocusIndex   == 102

(* An event, and a registration of it, which also names a semaphore. *)
Completed(command, param) == [event |-> EventCmdComplete, data1 |-> command, data2 |-> param]
Changed(index) == [event |-> EventIndexSettingChanged, data1 |-> All, data2 |-> index]

RegisterForEvent(q, ev, semaphore) == Append(q, [ev |-> ev, sem |-> semaphore])

(* Mutant: the second data word is not compared. *)
MatchesCommandOnly(msg, ev) ==
    /\ msg.ev.event # 0 \/ msg.ev.event = ev.event
    /\ msg.ev.data1 = 0 \/ msg.ev.data1 = ev.data1

(***************************************************************************)
(* The test of SignalEvent() and RemoveEvent().  A zero data word of the   *)
(* registration is a wildcard, and the event type is compared only when    *)
(* the registered one is 0.                                                *)
(***************************************************************************)
Matches(msg, ev) ==
    /\ msg.ev.event # 0 \/ msg.ev.event = ev.event
    /\ msg.ev.data1 = 0 \/ msg.ev.data1 = ev.data1
    /\ msg.ev.data2 = 0 \/ msg.ev.data2 = ev.data2

FirstMatch(q, ev) == SelectInSeq(q, LAMBDA msg : Matches(msg, ev))

(* RemoveEvent(), and what SignalEvent() leaves in the queue. *)
RemoveEvent(q, ev) == IF FirstMatch(q, ev) = 0 THEN q ELSE RemoveAt(q, FirstMatch(q, ev))

(* SignalEvent(): the first registration that matches has its semaphore posted. *)
SignalEvent(q, count, ev) ==
    IF FirstMatch(q, ev) = 0 THEN count
    ELSE [count EXCEPT ![q[FirstMatch(q, ev)].sem] = @ + 1]
=============================================================================
