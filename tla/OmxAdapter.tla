------------------------------ MODULE OmxAdapter ------------------------------
(***************************************************************************)
(* OMXCameraAdapter's operations that wait for the OMX component: preview, *)
(* the switches between Loaded, Idle and Executing, image capture and      *)
(* autofocus.  Three threads meet here: the client (the camera service's   *)
(* thread inside BaseCameraAdapter::sendCommand, which serialises commands *)
(* with setState/commitState), the worker (CommandHandler's thread) and    *)
(* the OMX callback thread, which runs the event handler for the component.*)
(*                                                                         *)
(* A wait is a "stage" of its operation: at "send" the thread is about to  *)
(* register the event and send the command, at "wait" it is blocked on the *)
(* stage's semaphore, at "late" its WaitTimeout() has failed and it has    *)
(* not yet acted on that, at "lock" it is blocked in mStateSwitchLock.     *)
(* Any command may be slow, and any wait may time out.                     *)
(***************************************************************************)
EXTENDS OmxEvents, AdapterStates

CONSTANTS MaxQueue,     \* bound on the commands waiting for the worker
          MaxLeft       \* bound on the registrations left behind when a call is made

VARIABLES
    mAdapterState, mNextState,  \* BaseCameraAdapter's state and next state
    mComponentState,            \* the adapter's idea of the component's state
    mHandleComp,                \* TRUE while the adapter holds a handle
    mStateSwitchLock,           \* TRUE while locked: no owner, any thread unlocks it
    mEventSignalQ, sem,         \* registrations, and the count of each semaphore
    mCommandQ,                  \* CommandHandler's queue
    th,                         \* the stage of the client and of the worker
    capture,                    \* mCaptureConfigured, mCaptureSignalled, mCapturedFrames
    omx,                        \* the component (external)
    end                         \* "open", "closing" in the destructor, or how it ended

adapterVars == <<mAdapterState, mNextState>>
eventVars   == <<mEventSignalQ, sem>>
vars == <<adapterVars, mComponentState, mHandleComp, mStateSwitchLock, eventVars,
          mCommandQ, th, capture, omx, end>>

Threads == {"client", "worker"}

(* Every stage: its semaphore, and the event it registers. *)
Stage ==
    [ UseLoaded    |-> [sem |-> "UsePreview",     ev |-> Completed(StateSet, StateIdle)],
      UseEnable    |-> [sem |-> "UsePreview",     ev |-> Completed(PortEnable, PreviewPort)],
      StartPreview |-> [sem |-> "StartPreview",   ev |-> Completed(StateSet, StateExecuting)],
      ImageOff     |-> [sem |-> "StopCapture",    ev |-> Completed(PortDisable, ImagePort)],
      ParamImageOff |-> [sem |-> "StopCapture",   ev |-> Completed(PortDisable, ImagePort)],
      Flush        |-> [sem |-> "Flush",          ev |-> Completed(FlushPort, PreviewPort)],
      PreviewOff   |-> [sem |-> "StopPreview",    ev |-> Completed(PortDisable, PreviewPort)],
      LoadIdle     |-> [sem |-> "SwitchToLoaded", ev |-> Completed(StateSet, StateIdle)],
      LoadLoaded   |-> [sem |-> "SwitchToLoaded", ev |-> Completed(StateSet, StateLoaded)],
      LoadEnable   |-> [sem |-> "SwitchToLoaded", ev |-> Completed(PortEnable, PreviewPort)],
      ExecDisable  |-> [sem |-> "SwitchToExec",   ev |-> Completed(PortDisable, PreviewPort)],
      ExecIdle     |-> [sem |-> "SwitchToExec",   ev |-> Completed(StateSet, StateIdle)],
      ExecExec     |-> [sem |-> "SwitchToExec",   ev |-> Completed(StateSet, StateExecuting)],
      UseCapture   |-> [sem |-> "UseCapture",     ev |-> Completed(PortEnable, ImagePort)],
      CaptureDone  |-> [sem |-> "Capture",        ev |-> Changed(All)],
      Shutter      |-> [sem |-> "StartCapture",   ev |-> Changed(ShutterIndex)],
      Focus        |-> [sem |-> "DoAF",           ev |-> Changed(FocusIndex)] ]

Semaphores == {Stage[s].sem : s \in DOMAIN Stage}
UseStages  == {"UseLoaded", "UseEnable"}
LoadStages == {"LoadIdle", "LoadLoaded", "LoadEnable"}
ExecStages == {"ExecDisable", "ExecIdle", "ExecExec"}
ClientStages == UseStages \cup LoadStages \cup
                {"StartPreview", "ImageOff", "ParamImageOff", "Flush", "PreviewOff", "UseCapture",
                 "CaptureDone"}
WorkerStages == ExecStages \cup {"Shutter", "Focus"}

Rest == [stage |-> "none", at |-> "rest"]
At(stage, at) == [stage |-> stage, at |-> at]
GoTo(t, stage, at) == th' = [th EXCEPT ![t] = At(stage, at)]
SemOf(t) == Stage[th[t].stage].sem
EventOf(t) == Stage[th[t].stage].ev

Running == end \in {"open", "closing"}
ClientIdle == end = "open" /\ th.client = Rest
HoldsStateLock == end = "open" /\ th.client.stage \notin {"none", "Switch", "ParamImageOff"}

(* The registrations that no thread in progress has made. *)
LeftBehind ==
    Len(SelectSeq(mEventSignalQ,
          LAMBDA msg : ~\E t \in Threads : th[t].at \in {"wait", "late"} /\ SemOf(t) = msg.sem))

Component == [state |-> StateLoaded, pending |-> <<>>, shutter |-> FALSE, focus |-> FALSE,
              capturing |-> "no", scanning |-> FALSE, events |-> {}]

(* The state initialize() leaves when it succeeds. *)
Init ==
    /\ mAdapterState = INTIALIZED_STATE /\ mNextState = INTIALIZED_STATE
    /\ mComponentState = StateLoaded /\ mHandleComp = TRUE /\ mStateSwitchLock = FALSE
    /\ mEventSignalQ = <<>> /\ sem = [s \in Semaphores |-> 0]
    /\ mCommandQ = <<>> /\ th = [t \in Threads |-> Rest]
    /\ capture = [configured |-> FALSE, signalled |-> FALSE, frames |-> 0]
    /\ omx = Component /\ end = "open"
-----------------------------------------------------------------------------
(* BaseCameraAdapter::sendCommand(): setState() accepts the command ... *)
SetState(command) ==
    /\ ClientIdle
    /\ \E next \in AdapterState : /\ <<mAdapterState, command, next>> \in Transitions
                                  /\ mNextState' = next
    /\ UNCHANGED mAdapterState

(* ... and commitState() or rollbackState() ends it, whether it waited or not. *)
Return(ok) ==
    /\ th' = [th EXCEPT !.client = Rest]
    /\ mAdapterState' = IF ok THEN mNextState ELSE mAdapterState
    /\ mNextState' = mAdapterState'
    /\ end' = IF end = "closing" THEN "closed" ELSE end

AtOnce(command, ok) ==
    /\ ClientIdle
    /\ \E next \in AdapterState :
         /\ <<mAdapterState, command, next>> \in Transitions
         /\ mAdapterState' = IF ok THEN next ELSE mAdapterState
         /\ mNextState' = mAdapterState'
    /\ UNCHANGED <<th, end>>

(* The handle is freed, and with it whatever the component was doing. *)
PerformCleanupAfterError ==
    /\ mHandleComp' = FALSE
    /\ mComponentState' = StateInvalid
    /\ omx' = Component

(* The EXIT label of each operation: who unlocks mStateSwitchLock, who answers. *)
UnlockingExits == LoadStages \cup ExecStages \cup {"StartPreview"}

(* Mutant: the component is kept after an error. *)
ErrorExitKeepsComponent(t) ==
    /\ UNCHANGED <<mHandleComp, mComponentState, omx>>
    /\ mStateSwitchLock' = (mStateSwitchLock /\ th[t].stage \notin UnlockingExits)
    /\ capture' = IF th[t].stage = "Shutter" THEN [capture EXCEPT !.signalled = FALSE] ELSE capture
    /\ \/ t = "client" /\ Return(th[t].stage \in LoadStages)
       \/ t = "worker" /\ th' = [th EXCEPT !.worker = Rest] /\ UNCHANGED <<adapterVars, end>>

ErrorExit(t) ==
    /\ IF th[t].stage = "ParamImageOff" THEN UNCHANGED <<mHandleComp, mComponentState, omx>>
       ELSE PerformCleanupAfterError
    /\ mStateSwitchLock' = (mStateSwitchLock /\ th[t].stage \notin UnlockingExits)
    /\ capture' = IF th[t].stage = "Shutter" THEN [capture EXCEPT !.signalled = FALSE] ELSE capture
    /\ \/ t = "client" /\ Return(th[t].stage \in LoadStages)
       \/ t = "worker" /\ th' = [th EXCEPT !.worker = Rest] /\ UNCHANGED <<adapterVars, end>>
-----------------------------------------------------------------------------
(***************************************************************************)
(* The client's calls.  A refusal before anything is touched is a failed   *)
(* command: setState() and rollbackState() cancel out.                     *)
(***************************************************************************)
unchangedByCall == <<mComponentState, mHandleComp, mStateSwitchLock, eventVars, mCommandQ,
                     capture, omx, end>>

UseBuffersPreview ==
    /\ sem.UsePreview = 0
    /\ SetState("USE_BUFFERS_PREVIEW")
    /\ GoTo("client", "Use", "lock")
    /\ UNCHANGED unchangedByCall

(* The end of startPreview(): unlock, and queue the buffers, which may fail. *)
QueueBuffers(state) ==
    /\ mStateSwitchLock' = FALSE
    /\ \/ /\ mHandleComp
          /\ mComponentState' = state
          /\ Return(TRUE)
          /\ UNCHANGED <<mHandleComp, omx>>
       \/ /\ mHandleComp
          /\ PerformCleanupAfterError
          /\ Return(FALSE)
       \/ /\ ~mHandleComp
          /\ end' = "crashed"
          /\ UNCHANGED <<mHandleComp, mComponentState, omx, th, adapterVars>>

StartPreview ==
    /\ sem.StartPreview = 0
    /\ SetState("START_PREVIEW")
    /\ GoTo("client", "StartPreview", IF mComponentState = StateIdle THEN "send" ELSE "queue")
    /\ UNCHANGED unchangedByCall

StartPreviewQueue ==
    /\ Running
    /\ th.client = At("StartPreview", "queue")
    /\ QueueBuffers(mComponentState)
    /\ UNCHANGED <<eventVars, mCommandQ, capture>>

(* cancelAutoFocus(): stopAutoFocus(), then a dummy focus event. *)
FocusOff == [omx EXCEPT !.focus = FALSE, !.scanning = FALSE]
CancelFocus ==
    /\ omx' = IF mComponentState = StateExecuting THEN FocusOff ELSE omx
    /\ mEventSignalQ' = RemoveEvent(mEventSignalQ, Changed(FocusIndex))
    /\ sem' = SignalEvent(mEventSignalQ, sem, Changed(FocusIndex))

StopPreview ==
    /\ mComponentState = StateExecuting
    /\ sem.StopPreview = 0
    /\ SetState("STOP_PREVIEW")
    /\ CancelFocus
    /\ GoTo("client", IF capture.configured THEN "ImageOff" ELSE "Flush", "send")
    /\ capture' = [capture EXCEPT !.configured = FALSE]
    /\ UNCHANGED <<mComponentState, mHandleComp, mStateSwitchLock, mCommandQ, end>>

UseBuffersCapture ==
    /\ sem.UseCapture = 0
    /\ \/ /\ capture.configured
          /\ AtOnce("USE_BUFFERS_IMAGE_CAPTURE", TRUE)
          /\ capture' = [capture EXCEPT !.frames = 1]
       \/ /\ ~capture.configured
          /\ SetState("USE_BUFFERS_IMAGE_CAPTURE")
          /\ GoTo("client", "UseCapture", "send")
          /\ UNCHANGED <<capture, end>>
    /\ UNCHANGED <<mComponentState, mHandleComp, mStateSwitchLock, eventVars, mCommandQ, omx>>

(***************************************************************************)
(* setParametersCapture() with capture settings pending: disableImagePort()*)
(* without the state lock, whose result is ignored.                        *)
(***************************************************************************)
SetParametersCapture ==
    /\ ClientIdle /\ capture.configured
    /\ LeftBehind + Len(omx.pending) + Len(mCommandQ) + sem.Capture + sem.StopCapture <= MaxLeft
    /\ capture' = [capture EXCEPT !.configured = FALSE]
    /\ GoTo("client", "ParamImageOff", "send")
    /\ UNCHANGED <<adapterVars, mComponentState, mHandleComp, mStateSwitchLock, eventVars,
                   mCommandQ, omx, end>>

(* takePicture() and autoFocus() put a message in CommandHandler's queue. *)
Enqueue(command, message) ==
    /\ Len(mCommandQ) < MaxQueue /\ LeftBehind <= MaxLeft
    /\ AtOnce(command, TRUE)
    /\ mCommandQ' = Append(mCommandQ, message)
    /\ UNCHANGED <<mComponentState, mHandleComp, mStateSwitchLock, eventVars, capture, omx>>

TakePicture == Enqueue("START_IMAGE_CAPTURE", "START_IMAGE_CAPTURE")
AutoFocus == Enqueue("PERFORM_AUTOFOCUS", "PERFORM_AUTOFOCUS")

CancelAutoFocus ==
    /\ mComponentState # StateInvalid
    /\ AtOnce("CANCEL_AUTOFOCUS", TRUE)
    /\ CancelFocus
    /\ UNCHANGED <<mComponentState, mHandleComp, mStateSwitchLock, mCommandQ, capture>>

(***************************************************************************)
(* stopImageCapture().  The shutter callback is switched off.  The loop    *)
(* that should wake a thread waiting for the shutter never runs, because   *)
(* Count() of a semaphore somebody waits on is 0; a left-over post is      *)
(* wiped by Create(0).                                                     *)
(***************************************************************************)
StopImageCapture ==
    \/ /\ ~capture.configured
       /\ AtOnce("STOP_IMAGE_CAPTURE", TRUE)
       /\ UNCHANGED <<mComponentState, mHandleComp, mStateSwitchLock, eventVars, mCommandQ,
                      capture, omx>>
    \/ /\ capture.configured /\ sem.StopCapture # 0
       /\ AtOnce("STOP_IMAGE_CAPTURE", FALSE)
       /\ PerformCleanupAfterError
       /\ UNCHANGED <<mStateSwitchLock, eventVars, mCommandQ, capture>>
    \/ /\ capture.configured /\ sem.StopCapture = 0
       /\ SetState("STOP_IMAGE_CAPTURE")
       /\ omx' = IF mComponentState = StateExecuting THEN [omx EXCEPT !.shutter = FALSE] ELSE omx
       /\ sem' = [sem EXCEPT !.StartCapture = 0]
       /\ GoTo("client", "CaptureDone", "wait")
       /\ UNCHANGED <<mComponentState, mHandleComp, mStateSwitchLock, mEventSignalQ, mCommandQ,
                      capture, end>>

(* CAMERA_SWITCH_TO_EXECUTING: sent by CameraHal::startPreview() while there is no window. *)
SwitchToExecuting ==
    /\ ClientIdle /\ mAdapterState = INTIALIZED_STATE
    /\ Len(mCommandQ) < MaxQueue /\ LeftBehind <= MaxLeft
    /\ GoTo("client", "Switch", "lock")
    /\ UNCHANGED <<unchangedByCall, adapterVars>>

(***************************************************************************)
(* ~OMXCameraAdapter().  CameraHal first rolls the adapter back to         *)
(* INTIALIZED_STATE, which gets stuck in LOADED_PREVIEW_STATE, or in any   *)
(* state once the component is gone.                                       *)
(***************************************************************************)
Destroy ==
    /\ ClientIdle
    /\ mAdapterState \in {INTIALIZED_STATE, LOADED_PREVIEW_STATE} \/ mComponentState = StateInvalid
    /\ end' = "closing"
    /\ GoTo("client", "LoadIdle", "lock")
    /\ UNCHANGED <<mComponentState, mHandleComp, mStateSwitchLock, eventVars, mCommandQ,
                   capture, omx, adapterVars>>

(***************************************************************************)
(* mStateSwitchLock.lock() in UseBuffersPreview(), switchToLoaded() and    *)
(* switchToExecuting(): the last hands the lock to the worker with its     *)
(* message, switchToLoaded() has nothing to do in Loaded and Invalid.      *)
(***************************************************************************)
TakeStateSwitchLock ==
    /\ Running /\ th.client.at = "lock" /\ ~mStateSwitchLock
    /\ \/ /\ th.client.stage = "Use"
          /\ mStateSwitchLock' = TRUE
          /\ GoTo("client", IF mComponentState = StateLoaded THEN "UseLoaded" ELSE "UseEnable",
                  "send")
          /\ UNCHANGED <<mCommandQ, adapterVars, end>>
       \/ /\ th.client.stage = "LoadIdle"
          /\ mComponentState \notin {StateLoaded, StateInvalid}
          /\ mStateSwitchLock' = TRUE
          /\ GoTo("client", "LoadIdle", "send")
          /\ UNCHANGED <<mCommandQ, adapterVars, end>>
       \/ /\ th.client.stage = "LoadIdle"
          /\ mComponentState \in {StateLoaded, StateInvalid}
          /\ Return(TRUE)
          /\ UNCHANGED <<mStateSwitchLock, mCommandQ>>
       \/ /\ th.client.stage = "Switch"
          /\ mStateSwitchLock' = TRUE
          /\ mCommandQ' = Append(mCommandQ, "SWITCH_TO_EXECUTING")
          /\ Return(FALSE)
    /\ UNCHANGED <<mComponentState, mHandleComp, eventVars, capture, omx>>
-----------------------------------------------------------------------------
(***************************************************************************)
(* The worker: CommandHandler::Handler() takes a message and runs          *)
(* doSwitchToExecuting(), startImageCapture() or doAutoFocus().            *)
(***************************************************************************)
TakeCommand(message) ==
    /\ Running /\ th.worker = Rest
    /\ mCommandQ # <<>> /\ Head(mCommandQ) = message
    /\ mCommandQ' = Tail(mCommandQ)

(* Mutant: nothing to do means nothing to unlock. *)
DoSwitchToExecutingKeepsLock ==
    /\ TakeCommand("SWITCH_TO_EXECUTING")
    /\ \/ mComponentState \in {StateExecuting, StateInvalid} /\ UNCHANGED th
       \/ /\ mComponentState \notin {StateExecuting, StateInvalid}
          /\ GoTo("worker", "ExecDisable", "send")
    /\ UNCHANGED <<adapterVars, mComponentState, mHandleComp, mStateSwitchLock, eventVars,
                   capture, omx, end>>

DoSwitchToExecuting ==
    /\ TakeCommand("SWITCH_TO_EXECUTING")
    /\ \/ /\ mComponentState \in {StateExecuting, StateInvalid}
          /\ mStateSwitchLock' = FALSE
          /\ UNCHANGED th
       \/ /\ mComponentState \notin {StateExecuting, StateInvalid}
          /\ GoTo("worker", "ExecDisable", "send")
          /\ UNCHANGED mStateSwitchLock
    /\ UNCHANGED <<adapterVars, mComponentState, mHandleComp, eventVars, capture, omx, end>>

(* Only the modes in which the component reports the shutter (HIGH_QUALITY). *)
StartImageCapture ==
    /\ TakeCommand("START_IMAGE_CAPTURE")
    /\ \/ /\ \/ ~capture.configured \/ sem.StartCapture # 0 \/ "CAPTURE" \notin mNextState
          /\ UNCHANGED <<mComponentState, mHandleComp, mEventSignalQ, th, capture, omx>>
       \/ /\ capture.configured /\ sem.StartCapture = 0 /\ "CAPTURE" \in mNextState
          /\ mEventSignalQ' = RegisterForEvent(mEventSignalQ, Changed(ShutterIndex), "StartCapture")
          /\ \/ /\ mComponentState = StateExecuting
                /\ omx' = [omx EXCEPT !.shutter = TRUE, !.capturing = "exposing"]
                /\ capture' = [capture EXCEPT !.signalled = FALSE]
                /\ GoTo("worker", "Shutter", "wait")
                /\ UNCHANGED <<mComponentState, mHandleComp>>
             \/ /\ PerformCleanupAfterError
                /\ capture' = [capture EXCEPT !.signalled = FALSE]
                /\ UNCHANGED th
    /\ UNCHANGED <<adapterVars, mStateSwitchLock, sem, end>>

(***************************************************************************)
(* doAutoFocus(), in the modes that scan.  A refused configuration call    *)
(* returns without an answer and leaves the registration behind.           *)
(***************************************************************************)
DoAutoFocus ==
    /\ TakeCommand("PERFORM_AUTOFOCUS")
    /\ \/ /\ mComponentState # StateExecuting
          /\ GoTo("worker", "FocusReturn", "check")
          /\ UNCHANGED <<mEventSignalQ, omx>>
       \/ /\ mComponentState = StateExecuting
          /\ sem.DoAF # 0 \/ "AF" \notin (mAdapterState \cup mNextState)
          /\ UNCHANGED <<mEventSignalQ, omx, th>>
       \/ /\ mComponentState = StateExecuting
          /\ sem.DoAF = 0 /\ "AF" \in (mAdapterState \cup mNextState)
          /\ mEventSignalQ' = RegisterForEvent(mEventSignalQ, Changed(FocusIndex), "DoAF")
          /\ \/ /\ omx' = [omx EXCEPT !.focus = TRUE, !.scanning = TRUE]
                /\ GoTo("worker", "Focus", "wait")
             \/ /\ omx' = [omx EXCEPT !.focus = TRUE]
                /\ UNCHANGED th
    /\ UNCHANGED <<adapterVars, mComponentState, mHandleComp, mStateSwitchLock, sem, capture,
                   end>>

(***************************************************************************)
(* returnFocusStatus(): the states are read without a lock, and only later *)
(* does setState(CANCEL_AUTOFOCUS) take the state lock.                    *)
(***************************************************************************)
ReturnFocusCheck ==
    /\ Running /\ th.worker = At("FocusReturn", "check")
    /\ \/ /\ "AF" \in (mAdapterState \cup mNextState)
          /\ omx' = IF mComponentState = StateExecuting THEN FocusOff ELSE omx
          /\ GoTo("worker", "FocusReturn", "commit")
       \/ /\ "AF" \notin (mAdapterState \cup mNextState)
          /\ th' = [th EXCEPT !.worker = Rest]
          /\ UNCHANGED omx
    /\ UNCHANGED <<adapterVars, mComponentState, mHandleComp, mStateSwitchLock, eventVars,
                   mCommandQ, capture, end>>

ReturnFocusCommit ==
    /\ Running /\ th.worker = At("FocusReturn", "commit") /\ ~HoldsStateLock
    /\ \/ /\ ~Accepts(mAdapterState, "CANCEL_AUTOFOCUS")
          /\ UNCHANGED adapterVars
       \/ \E next \in AdapterState :
             /\ <<mAdapterState, "CANCEL_AUTOFOCUS", next>> \in Transitions
             /\ mAdapterState' = next /\ mNextState' = next
    /\ th' = [th EXCEPT !.worker = Rest]
    /\ UNCHANGED <<mComponentState, mHandleComp, mStateSwitchLock, eventVars, mCommandQ,
                   capture, omx, end>>
-----------------------------------------------------------------------------
(***************************************************************************)
(* Register, send, wait.  Three operations first find a semaphore that is  *)
(* not at 0 and give up.  Two do not look at what OMX_SendCommand returned;*)
(* four overwrite it with the result of the buffer calls that follow,      *)
(* which may fail on their own, also when the command was accepted.        *)
(***************************************************************************)
Counted == {"Flush", "LoadIdle", "ExecDisable"}
NeverLooks == {"StartPreview", "ExecDisable"}
Overwrites == {"UseEnable", "PreviewOff", "ImageOff", "ParamImageOff"}
Busy(t) == th[t].stage \in Counted /\ sem[SemOf(t)] # 0

SendCommand(t) ==
    /\ Running /\ th[t].at = "send" /\ ~Busy(t)
    /\ mEventSignalQ' = RegisterForEvent(mEventSignalQ, EventOf(t), SemOf(t))
    /\ \/ /\ mHandleComp
          /\ omx' = [omx EXCEPT !.pending = Append(@, EventOf(t))]
          /\ mComponentState' = IF th[t].stage = "UseLoaded" THEN StateIdle ELSE mComponentState
          /\ GoTo(t, th[t].stage, "wait")
          /\ UNCHANGED <<adapterVars, mHandleComp, mStateSwitchLock, capture, end>>
       \/ /\ mHandleComp /\ th[t].stage \in NeverLooks \cup Overwrites
          /\ GoTo(t, th[t].stage, "wait")
          /\ UNCHANGED <<adapterVars, mComponentState, mHandleComp, mStateSwitchLock, capture,
                         omx, end>>
       \/ /\ mHandleComp /\ th[t].stage \notin NeverLooks
          /\ ErrorExit(t)
       \/ /\ mHandleComp /\ th[t].stage = "ParamImageOff"
          /\ omx' = [omx EXCEPT !.pending = Append(@, EventOf(t))]
          /\ Return(FALSE)
          /\ UNCHANGED <<mComponentState, mHandleComp, mStateSwitchLock, capture>>
       \/ /\ ~mHandleComp
          /\ end' = "crashed"
          /\ UNCHANGED <<adapterVars, mComponentState, mHandleComp, mStateSwitchLock, th,
                         capture, omx>>
    /\ UNCHANGED <<sem, mCommandQ>>

SemaphoreBusy(t) ==
    /\ Running /\ th[t].at = "send" /\ Busy(t)
    /\ ErrorExit(t)
    /\ UNCHANGED <<eventVars, mCommandQ>>

(* The wait succeeded.  All but doSwitchToExecuting() look for Invalid first. *)
Woken(t, stage) ==
    /\ Running /\ th[t] = At(stage, "wait")
    /\ sem[Stage[stage].sem] > 0
    /\ sem' = [sem EXCEPT ![Stage[stage].sem] = @ - 1]
    /\ UNCHANGED <<mEventSignalQ, mCommandQ>>

WokenInvalid(t) ==
    \E stage \in DOMAIN Stage \ (ExecStages \cup {"Focus", "ParamImageOff"}) :
        Woken(t, stage) /\ mComponentState = StateInvalid /\ ErrorExit(t)

UseBuffersPreviewDone ==
    /\ \E stage \in UseStages : Woken("client", stage)
    /\ mComponentState # StateInvalid
    /\ Return(TRUE)
    /\ UNCHANGED <<mComponentState, mHandleComp, mStateSwitchLock, capture, omx>>

StartPreviewDone ==
    /\ Woken("client", "StartPreview")
    /\ mComponentState # StateInvalid
    /\ QueueBuffers(StateExecuting)
    /\ UNCHANGED capture

(* The client's stages that lead to another: the rest of stopPreview(), switchToLoaded(). *)
FollowingStage ==
    [ ImageOff |-> At("Flush", "send"), Flush |-> At("PreviewOff", "send"),
      PreviewOff |-> At("LoadIdle", "lock"), LoadIdle |-> At("LoadLoaded", "send"),
      LoadLoaded |-> At("LoadEnable", "send") ]

(* Mutant: switchToLoaded() does not record that the component is in Loaded. *)
ClientGoesOnForgets ==
    /\ \E stage \in DOMAIN FollowingStage :
         /\ Woken("client", stage)
         /\ th' = [th EXCEPT !.client = FollowingStage[stage]]
    /\ mComponentState # StateInvalid
    /\ UNCHANGED <<adapterVars, mComponentState, mHandleComp, mStateSwitchLock, capture, omx, end>>

ClientGoesOn ==
    /\ \E stage \in DOMAIN FollowingStage :
         /\ Woken("client", stage)
         /\ th' = [th EXCEPT !.client = FollowingStage[stage]]
         /\ mComponentState' = IF stage = "LoadLoaded" THEN StateLoaded ELSE mComponentState
    /\ mComponentState # StateInvalid
    /\ UNCHANGED <<adapterVars, mHandleComp, mStateSwitchLock, capture, omx, end>>

SwitchToLoadedDone ==
    /\ Woken("client", "LoadEnable")
    /\ mComponentState # StateInvalid
    /\ mStateSwitchLock' = FALSE
    /\ Return(TRUE)
    /\ UNCHANGED <<mComponentState, mHandleComp, capture, omx>>

UseBuffersCaptureDone ==
    /\ Woken("client", "UseCapture")
    /\ mComponentState # StateInvalid
    /\ capture' = [capture EXCEPT !.configured = TRUE, !.frames = 1]
    /\ Return(TRUE)
    /\ UNCHANGED <<mComponentState, mHandleComp, mStateSwitchLock, omx>>

SetParametersCaptureDone ==
    /\ Woken("client", "ParamImageOff")
    /\ Return(FALSE)
    /\ UNCHANGED <<mComponentState, mHandleComp, mStateSwitchLock, capture, omx>>

(* The rest of stopImageCapture(), whether its wait succeeded or not. *)
CaptureStopped ==
    \/ /\ capture' = [capture EXCEPT !.signalled = TRUE]
       /\ omx' = [omx EXCEPT !.capturing = "no"]
       /\ Return(TRUE)
       /\ UNCHANGED <<mComponentState, mHandleComp, mStateSwitchLock>>
    \/ ErrorExit("client")

StopImageCaptureDone ==
    /\ Woken("client", "CaptureDone")
    /\ mComponentState # StateInvalid
    /\ CaptureStopped

(* doSwitchToExecuting(): the last stage unlocks mStateSwitchLock. *)
DoSwitchGoesOn ==
    /\ \/ /\ Woken("worker", "ExecDisable")
          /\ GoTo("worker", "ExecIdle", "send")
          /\ UNCHANGED <<mComponentState, mStateSwitchLock>>
       \/ /\ Woken("worker", "ExecIdle")
          /\ GoTo("worker", "ExecExec", "send")
          /\ mComponentState' = StateIdle
          /\ UNCHANGED mStateSwitchLock
       \/ /\ Woken("worker", "ExecExec")
          /\ th' = [th EXCEPT !.worker = Rest]
          /\ mComponentState' = StateExecuting
          /\ mStateSwitchLock' = FALSE
    /\ UNCHANGED <<adapterVars, mHandleComp, capture, omx, end>>

ShutterSeen ==
    /\ Woken("worker", "Shutter")
    /\ \/ /\ mComponentState = StateExecuting
          /\ th' = [th EXCEPT !.worker = Rest]
          /\ UNCHANGED <<adapterVars, mComponentState, mHandleComp, mStateSwitchLock, capture,
                         omx, end>>
       \/ /\ mComponentState \notin {StateExecuting, StateInvalid}
          /\ ErrorExit("worker")

FocusSeen ==
    /\ Woken("worker", "Focus")
    /\ th' = [th EXCEPT !.worker = IF mComponentState = StateInvalid THEN Rest
                                   ELSE At("FocusReturn", "check")]
    /\ omx' = IF mComponentState = StateInvalid THEN omx ELSE [omx EXCEPT !.focus = FALSE]
    /\ UNCHANGED <<adapterVars, mComponentState, mHandleComp, mStateSwitchLock, capture, end>>
-----------------------------------------------------------------------------
(* Mutant: stopPreview() waits for its port without a timeout. *)
TimesOutNotInStopPreview(t) ==
    /\ Running /\ th[t].at = "wait" /\ th[t].stage # "PreviewOff"
    /\ sem[SemOf(t)] = 0
    /\ GoTo(t, th[t].stage, "late")
    /\ UNCHANGED <<adapterVars, mComponentState, mHandleComp, mStateSwitchLock, eventVars,
                   mCommandQ, capture, omx, end>>

(***************************************************************************)
(* WaitTimeout() fails: the semaphore is created anew with count 0.  Until *)
(* the thread removes its registration, the event can still come.          *)
(***************************************************************************)
TimesOut(t) ==
    /\ Running /\ th[t].at = "wait"
    /\ sem[SemOf(t)] = 0
    /\ GoTo(t, th[t].stage, "late")
    /\ UNCHANGED <<adapterVars, mComponentState, mHandleComp, mStateSwitchLock, eventVars,
                   mCommandQ, capture, omx, end>>

(* The registration is removed, except in UseBuffersPreview(), which signals an event. *)
RemovesEvent == LoadStages \cup {"StartPreview", "ImageOff", "ParamImageOff", "Flush",
                                 "PreviewOff", "UseCapture", "Shutter"}

GivesUp(t) ==
    /\ Running /\ th[t].at = "late"
    /\ \/ /\ mComponentState = StateInvalid /\ th[t].stage \notin ExecStages \cup {"Focus"}
          /\ ErrorExit(t) /\ UNCHANGED eventVars
       \/ /\ mComponentState # StateInvalid /\ th[t].stage \in RemovesEvent
          /\ ErrorExit(t)
          /\ mEventSignalQ' = RemoveEvent(mEventSignalQ, EventOf(t)) /\ UNCHANGED sem
       \/ /\ mComponentState # StateInvalid /\ th[t].stage \in UseStages
          /\ ErrorExit(t)
          /\ mEventSignalQ' = RemoveEvent(mEventSignalQ, Completed(PortEnable, PreviewPort))
          /\ sem' = SignalEvent(mEventSignalQ, sem, Completed(PortEnable, PreviewPort))
       \/ /\ th[t].stage \in {"ExecIdle", "ExecExec"}
          /\ ErrorExit(t) /\ UNCHANGED eventVars
       \/ /\ mComponentState # StateInvalid /\ th[t].stage = "CaptureDone"
          /\ CaptureStopped /\ UNCHANGED eventVars
    /\ UNCHANGED <<mCommandQ>>

(* The two timeouts of the worker that it survives. *)
DoSwitchGoesOnLate ==
    /\ Running /\ th.worker = At("ExecDisable", "late")
    /\ GoTo("worker", "ExecIdle", "send")
    /\ UNCHANGED <<adapterVars, mComponentState, mHandleComp, mStateSwitchLock, eventVars,
                   mCommandQ, capture, omx, end>>

(* Mutant: a scan that timed out is not answered. *)
FocusTimedOutSilent ==
    /\ Running /\ th.worker = At("Focus", "late")
    /\ th' = [th EXCEPT !.worker = Rest]
    /\ mEventSignalQ' = RemoveEvent(mEventSignalQ, Changed(FocusIndex))
    /\ UNCHANGED <<adapterVars, mComponentState, mHandleComp, mStateSwitchLock, sem,
                   mCommandQ, capture, omx, end>>

FocusTimedOut ==
    /\ Running /\ th.worker = At("Focus", "late")
    /\ \/ /\ mComponentState = StateInvalid
          /\ th' = [th EXCEPT !.worker = Rest]
          /\ UNCHANGED <<omx, mEventSignalQ>>
       \/ /\ mComponentState # StateInvalid
          /\ omx' = [omx EXCEPT !.focus = FALSE]
          /\ mEventSignalQ' = RemoveEvent(mEventSignalQ, Changed(FocusIndex))
          /\ GoTo("worker", "FocusReturn", "check")
    /\ UNCHANGED <<adapterVars, mComponentState, mHandleComp, mStateSwitchLock, sem,
                   mCommandQ, capture, end>>
-----------------------------------------------------------------------------
(***************************************************************************)
(* The component (external) and the OMX callback thread: commands complete *)
(* in order, each with its event; exposure and scan are reported to who    *)
(* asked for it, and such a report may be under way when it is no longer   *)
(* wanted; the captured image comes back; the hardware fails.              *)
(***************************************************************************)
unchangedByComponent == <<adapterVars, mComponentState, mHandleComp, mStateSwitchLock,
                          mCommandQ, th>>

EventHandler(ev) ==
    /\ mEventSignalQ' = RemoveEvent(mEventSignalQ, ev)
    /\ sem' = SignalEvent(mEventSignalQ, sem, ev)

CommandCompletes ==
    /\ Running /\ omx.pending # <<>>
    /\ LET ev == Head(omx.pending) IN
         /\ EventHandler(ev)
         /\ omx' = [omx EXCEPT !.pending = Tail(@),
                               !.state = IF ev.data1 = StateSet THEN ev.data2 ELSE @]
    /\ UNCHANGED <<unchangedByComponent, capture, end>>

Exposes ==
    /\ Running /\ omx.capturing = "exposing"
    /\ omx' = [omx EXCEPT !.capturing = "reading",
                          !.events = @ \cup IF omx.shutter THEN {ShutterIndex} ELSE {}]
    /\ UNCHANGED <<unchangedByComponent, eventVars, capture, end>>

Focuses ==
    /\ Running /\ omx.scanning
    /\ omx' = [omx EXCEPT !.scanning = FALSE,
                          !.events = @ \cup IF omx.focus THEN {FocusIndex} ELSE {}]
    /\ UNCHANGED <<unchangedByComponent, eventVars, capture, end>>

SettingChanged ==
    /\ Running
    /\ \E index \in omx.events : /\ EventHandler(Changed(index))
                                  /\ omx' = [omx EXCEPT !.events = @ \ {index}]
    /\ UNCHANGED <<unchangedByComponent, capture, end>>

(* FillBufferDone() for the image port. *)
FillBufferDone ==
    /\ Running /\ omx.capturing = "reading"
    /\ omx' = [omx EXCEPT !.capturing = "no"]
    /\ LET first == capture.frames > 0 /\ ~capture.signalled IN
         /\ sem' = [sem EXCEPT !.Capture = IF first THEN @ + 1 ELSE @]
         /\ capture' = [capture EXCEPT !.signalled = @ \/ first,
                           !.frames = IF "CAPTURE" \in mAdapterState /\ @ > 0 THEN @ - 1 ELSE @]
    /\ UNCHANGED <<unchangedByComponent, mEventSignalQ, end>>

(* OMX_ErrorHardware: every waiter is released, and errorNotify() aborts the process. *)
HardwareError ==
    /\ Running /\ mComponentState # StateInvalid
    /\ end' = "aborted"
    /\ UNCHANGED <<unchangedByComponent, eventVars, capture, omx>>
-----------------------------------------------------------------------------
ClientCalls ==
    \/ UseBuffersPreview \/ StartPreview \/ StopPreview \/ UseBuffersCapture \/ TakePicture
    \/ SetParametersCapture \/ StopImageCapture \/ AutoFocus \/ CancelAutoFocus
    \/ SwitchToExecuting \/ Destroy

ClientGoes ==
    \/ TakeStateSwitchLock \/ StartPreviewQueue
    \/ SendCommand("client") \/ SemaphoreBusy("client") \/ WokenInvalid("client")
    \/ UseBuffersPreviewDone \/ StartPreviewDone \/ ClientGoesOn \/ SwitchToLoadedDone
    \/ UseBuffersCaptureDone \/ SetParametersCaptureDone \/ StopImageCaptureDone
    \/ GivesUp("client")

WorkerGoes ==
    \/ DoSwitchToExecuting \/ StartImageCapture \/ DoAutoFocus
    \/ ReturnFocusCheck \/ ReturnFocusCommit
    \/ SendCommand("worker") \/ SemaphoreBusy("worker") \/ WokenInvalid("worker")
    \/ DoSwitchGoesOn \/ ShutterSeen \/ FocusSeen \/ GivesUp("worker")
    \/ DoSwitchGoesOnLate \/ FocusTimedOut

ComponentGoes ==
    CommandCompletes \/ Exposes \/ Focuses \/ SettingChanged \/ FillBufferDone \/ HardwareError

Next == ClientCalls \/ ClientGoes \/ WorkerGoes \/ ComponentGoes \/ \E t \in Threads : TimesOut(t)

Spec == Init /\ [][Next]_vars
FairSpec == Spec /\ WF_vars(ClientGoes) /\ WF_vars(WorkerGoes)
                 /\ \A t \in Threads : WF_vars(TimesOut(t))
-----------------------------------------------------------------------------
(* The type invariant; a semaphore's count is a number because no Wait() takes it below 0. *)
TypeOK ==
    /\ mAdapterState \in AdapterState /\ mNextState \in AdapterState
    /\ mComponentState \in StateInvalid..StateExecuting
    /\ mHandleComp \in BOOLEAN /\ mStateSwitchLock \in BOOLEAN
    /\ mEventSignalQ \in Seq([ev : {Stage[s].ev : s \in DOMAIN Stage}, sem : Semaphores])
    /\ sem \in [Semaphores -> Nat]
    /\ mCommandQ \in Seq({"SWITCH_TO_EXECUTING", "START_IMAGE_CAPTURE", "PERFORM_AUTOFOCUS"})
    /\ th.client.stage \in ClientStages \cup {"none", "Use", "Switch"}
    /\ th.worker.stage \in WorkerStages \cup {"none", "FocusReturn"}
    /\ capture \in [configured : BOOLEAN, signalled : BOOLEAN, frames : 0..1]
    /\ end \in {"open", "closing", "closed", "crashed", "aborted"}

(* The state the component is in once it has done everything it was sent. *)
Heading == FoldLeft(LAMBDA st, ev : IF ev.data1 = StateSet THEN ev.data2 ELSE st,
                    omx.state, omx.pending)

AllRest == Running /\ \A t \in Threads : th[t] = Rest
Alive == mComponentState # StateInvalid

(***************************************************************************)
(* What the adapter believes is where the component is going: when nothing *)
(* is in progress, mComponentState is the state the component has or will  *)
(* have after the commands it still has to complete, even after            *)
(* doSwitchToExecuting() went on past a timeout and took late events for   *)
(* the ones it waits for.                                                  *)
(***************************************************************************)
ComponentStateHolds == AllRest /\ Alive => Heading = mComponentState

(* The component delivers event ev in this step. *)
Delivered(ev) ==
    /\ Running /\ th' = th /\ mHandleComp' = mHandleComp
    /\ \/ omx.pending # <<>> /\ Head(omx.pending) = ev /\ omx'.pending = Tail(omx.pending)
       \/ ev \in {Changed(index) : index \in omx.events \ omx'.events}

(***************************************************************************)
(* The event a thread waits for wakes that thread, and is not taken by     *)
(* another registration, although a zero word of a registration matches    *)
(* everything and the type of the event is hardly compared: the exception  *)
(* is an older registration of the very same event that was left behind.   *)
(***************************************************************************)
EventReachesWaiter ==
    [][\A t \in Threads :
          (/\ th[t].at = "wait" /\ th[t].stage # "CaptureDone" /\ Delivered(EventOf(t))
           /\ Cardinality({i \in DOMAIN mEventSignalQ : mEventSignalQ[i].ev = EventOf(t)}) = 1)
          => sem'[SemOf(t)] = sem[SemOf(t)] + 1]_vars

Switching == "SWITCH_TO_EXECUTING" \in Range(mCommandQ) \/ th.worker.stage \in ExecStages

(***************************************************************************)
(* mStateSwitchLock is taken by one thread and released by another, or by  *)
(* a later call: as long as the component lives, whenever it is held there *)
(* is a thread or a pending START_PREVIEW that releases it.                *)
(***************************************************************************)
LockHasReleaser ==
    Running /\ Alive /\ mStateSwitchLock =>
        \/ Switching
        \/ th.client.stage \in UseStages \cup {"StartPreview"}
        \/ th.client.stage \in LoadStages /\ th.client.at # "lock"
        \/ mAdapterState = LOADED_PREVIEW_STATE

(***************************************************************************)
(* A semaphore that an operation refuses to start with (Count() # 0) is at *)
(* 0 between operations while the component lives: no timeout and no late  *)
(* event locks preview, capture buffers, flush or switchToLoaded() out.    *)
(* Exempt are the semaphores of the four waits whose timeout is survived,  *)
(* in doSwitchToExecuting(), doAutoFocus(), stopImageCapture() and         *)
(* setParametersCapture(): their late event can leave a post behind.       *)
(***************************************************************************)
SemaphoresAtRest ==
    AllRest /\ Alive =>
        \A s \in Semaphores \ {"SwitchToExec", "DoAF", "Capture", "StopCapture"} : sem[s] = 0

(***************************************************************************)
(* The client waits for mStateSwitchLock and nobody will release it: an    *)
(* error exit or an abandoned preview kept it; or it belongs to a queued   *)
(* switch, and the worker first needs the state lock the client holds.     *)
(***************************************************************************)
Hung ==
    /\ th.client.at = "lock" /\ mStateSwitchLock
    /\ ~Switching \/ (th.worker = At("FocusReturn", "commit") /\ HoldsStateLock)

(***************************************************************************)
(* Every call returns: no wait is for ever, whatever events are lost, late *)
(* or taken by another waiter, except in mStateSwitchLock in the two cases *)
(* Hung names.                                                             *)
(***************************************************************************)
CallReturns == th.client # Rest ~> (th.client = Rest \/ ~Running \/ Hung)

FocusLeftOver ==
    \/ sem.DoAF > 0
    \/ /\ th.worker.stage # "Focus"
       /\ \E i \in DOMAIN mEventSignalQ : mEventSignalQ[i].sem = "DoAF"

(***************************************************************************)
(* Autofocus ends: the adapter does not stay in an AF state, unless the    *)
(* component is gone or an earlier scan left its registration or its post  *)
(* behind.                                                                 *)
(***************************************************************************)
AutoFocusEnds == "AF" \in mAdapterState ~>
                    ("AF" \notin mAdapterState \/ ~Running \/ ~Alive \/ FocusLeftOver)
=============================================================================
