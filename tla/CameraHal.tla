------------------------------ MODULE CameraHal ------------------------------
(***************************************************************************)
(* CameraHal's preview, picture and recording operations over the display  *)
(* adapter, the callback notifier and the camera adapter's state machine.  *)
(*                                                                         *)
(* The application's thread runs one operation at a time; its program is   *)
(* the sequence todo of steps still to do, so that an early return drops   *)
(* the rest and the error exit of startPreview() replaces it.  Meanwhile   *)
(* run the camera's callback thread, the display thread, and the thread    *)
(* that returns the last picture frame and so ends the capture             *)
(* (signalEndImageCapture, with mLock).  startPreview(), stopPreview() and *)
(* setPreviewWindow() take no lock.                                        *)
(***************************************************************************)
EXTENDS DisplayAdapter, Sequences

CONSTANTS CommandsFail   \* an accepted command of the camera adapter may fail

ASSUME CameraHalAssumption == CommandsFail \in BOOLEAN

VARIABLES
    mDisplayAdapter,              \* there is a display adapter
    mSetPreviewWindowCalled,
    mPreviewEnabled, mPreviewStartInProgress, mDisplayPaused, mRecordingEnabled,
    mNotifierStarted,             \* mNotifierState of the notifier
    mRecording,                   \* mRecording of the notifier
    mPreviewBufs,                 \* "orphaned": their display adapter is deleted
    picture,                      \* a picture: not taken yet, or its frame is out
    todo, undo,                   \* the call in progress; the undo command it chose
    mishaps                       \* what the properties make an exception for

halFlags == <<mDisplayAdapter, mSetPreviewWindowCalled, mPreviewEnabled,
              mPreviewStartInProgress, mDisplayPaused, mRecordingEnabled, mPreviewBufs>>
notifier == <<mNotifierStarted, mRecording>>
call == <<todo, undo>>
halVars == <<halFlags, notifier, picture, call, mishaps>>
vars == <<displayVars, halVars>>

Steps == { "startPreview", "alloc", "useBuffers", "startNotifier", "enable", "enabled",
           "START_PREVIEW", "stopBracketing", "disable", "disabled", "destroy", "destroyed",
           "newWindow", "stopNotifier", "rollback", "undo", "free", "STOP_PREVIEW",
           "clearFlags", "clearFailed", "startVideo" }

TypeOK ==
    /\ DisplayTypeOK
    /\ {mDisplayAdapter, mSetPreviewWindowCalled, mPreviewEnabled, mPreviewStartInProgress,
        mDisplayPaused, mRecordingEnabled, mNotifierStarted, mRecording}
          \subseteq BOOLEAN
    /\ mPreviewBufs \in {"NULL", "allocated", "orphaned"}
    /\ mishaps \subseteq {"failed", "windowWhilePaused", "stoppedWhilePaused"}
    /\ picture \in {"none", "pending", "out"}
    /\ todo \in Seq(Steps)
    /\ undo \in OperationCommands \cup {None}

Init ==
    /\ DisplayInit
    /\ mDisplayAdapter = FALSE /\ mSetPreviewWindowCalled = FALSE
    /\ mPreviewEnabled = FALSE /\ mPreviewStartInProgress = FALSE
    /\ mDisplayPaused = FALSE /\ mRecordingEnabled = FALSE
    /\ mNotifierStarted = FALSE /\ mRecording = FALSE
    /\ mPreviewBufs = "NULL"
    /\ mishaps = {}
    /\ picture = "none"
    /\ todo = <<>>
    /\ undo = None

previewEnabled == mPreviewEnabled \/ mPreviewStartInProgress

-----------------------------------------------------------------------------
(* A command of the camera adapter: accepted by setState() and carried     *)
(* out, or refused or failed.                                              *)
Succeeds(command) ==
    /\ mAdapterState' \in AdapterState
    /\ <<mAdapterState, command, mAdapterState'>> \in Transitions
    /\ UNCHANGED mishaps

Fails(command) ==
    /\ \/ ~ Accepts(mAdapterState, command) /\ UNCHANGED mishaps
       \/ /\ CommandsFail /\ Accepts(mAdapterState, command)
          /\ mishaps' = mishaps \cup {"failed"}
    /\ UNCHANGED mAdapterState

(* Stopping the capture: a picture that has not been taken never comes. *)
StopsPicture(command) ==
    picture' = IF /\ picture = "pending"
                  /\ command \in {"STOP_IMAGE_CAPTURE", "STOP_BRACKET_CAPTURE"}
                  /\ Accepts(mAdapterState, command)
               THEN "none" ELSE picture

(* Steps of a call. *)
At(step) == ~ crashed /\ todo # <<>> /\ Head(todo) = step
Goes(steps) == todo' = steps \o Tail(todo)
Returns == todo' = <<>>

StartSteps == <<"alloc", "useBuffers", "startNotifier", "enable", "START_PREVIEW">>
ErrorSteps == <<"free", "STOP_PREVIEW", "destroy", "stopNotifier", "clearFailed">>
ForceStopSteps == <<"stopBracketing", "disable", "stopNotifier", "rollback", "free", "clearFlags">>

-----------------------------------------------------------------------------
(***************************************************************************)
(* startPreview().                                                         *)
(***************************************************************************)
(* CAMERA_QUERY_RESOLUTION_PREVIEW, when it is sent, leaves the state. *)
QueryResolution(ok) ==
    IF mPreviewStartInProgress \/ mDisplayPaused
    THEN ok
    ELSE IF ok THEN Accepts(mAdapterState, "QUERY_RESOLUTION_PREVIEW")
         ELSE CommandsFail \/ ~ Accepts(mAdapterState, "QUERY_RESOLUTION_PREVIEW")

StartPreview ==
    /\ At("startPreview")
    /\ \/ /\ mPreviewEnabled \/ QueryResolution(FALSE)
          /\ Returns
          /\ UNCHANGED <<mPreviewEnabled, mPreviewStartInProgress, mDisplayPaused, mPaused, mishaps>>
       \/ /\ ~ mPreviewEnabled /\ QueryResolution(TRUE)
          /\ ~ mSetPreviewWindowCalled \/ ~ mDisplayAdapter
          /\ mPreviewStartInProgress' = TRUE
          /\ Goes(<<>>) \/ (CommandsFail /\ Returns)    \* CAMERA_SWITCH_TO_EXECUTING
          /\ UNCHANGED <<mPreviewEnabled, mDisplayPaused, mPaused, mishaps>>
       \/ /\ ~ mPreviewEnabled /\ QueryResolution(TRUE)
          /\ mSetPreviewWindowCalled /\ mDisplayAdapter /\ mDisplayPaused
          /\ mDisplayPaused' = FALSE
          /\ mPreviewEnabled' = TRUE
          /\ \/ mPaused' = FALSE /\ UNCHANGED mishaps
             \/ /\ CommandsFail                     \* setParameters() had failed
                /\ mishaps' = mishaps \cup {"failed"}
                /\ UNCHANGED mPaused
          /\ Goes(<<>>)
          /\ UNCHANGED mPreviewStartInProgress
       \/ /\ ~ mPreviewEnabled /\ QueryResolution(TRUE)
          /\ mSetPreviewWindowCalled /\ mDisplayAdapter /\ ~ mDisplayPaused
          /\ Goes(StartSteps)
          /\ UNCHANGED <<mPreviewEnabled, mPreviewStartInProgress, mDisplayPaused, mPaused, mishaps>>
    /\ UNCHANGED <<window, mGrallocHandleMap, map, mDisplayQ, messages, mDisplayState,
                   mDisplayEnabled, subscribed, camera, post, frame, faults,
                   mDisplayAdapter, mSetPreviewWindowCalled, mRecordingEnabled, mPreviewBufs,
                   notifier, picture, undo>>

Alloc ==
    /\ At("alloc")
    /\ IF mPreviewBufs # "NULL"
       THEN /\ Goes(<<>>)
            /\ UNCHANGED <<window, mGrallocHandleMap, map, faults, mPreviewBufs>>
       ELSE \/ AllocateBuffer /\ mPreviewBufs' = "allocated" /\ Goes(<<>>)
            \/ AllocateFails /\ UNCHANGED mPreviewBufs /\ todo' = ErrorSteps
    /\ UNCHANGED <<mDisplayQ, messages, flags, camera, post, frame, mDisplayAdapter,
                   mSetPreviewWindowCalled, mPreviewEnabled, mPreviewStartInProgress,
                   mDisplayPaused, mRecordingEnabled, notifier, picture, undo, mishaps>>

(* The state before is INTIALIZED_STATE, which accepts the command. *)
UseBuffersPreview ==
    /\ At("useBuffers")
    /\ \/ Succeeds("USE_BUFFERS_PREVIEW") /\ Goes(<<>>)
       \/ Fails("USE_BUFFERS_PREVIEW") /\ todo' = <<"free">>
    /\ UNCHANGED <<window, mGrallocHandleMap, map, mDisplayQ, messages, flags, ducati, post,
                   frame, faults, halFlags, notifier, picture, undo>>

StartNotifier ==
    /\ At("startNotifier")
    /\ mNotifierStarted' = TRUE
    /\ Goes(<<>>)
    /\ UNCHANGED <<displayVars, halFlags, mRecording, picture, undo, mishaps>>

(* enableDisplay(): a message to the display thread and its answer, then   *)
(* the subscription.                                                       *)
EnableDisplay ==
    /\ At("enable")
    /\ IF mDisplayEnabled
       THEN Goes(<<>>) /\ UNCHANGED messages
       ELSE Goes(<<"enabled">>) /\ msgQ' = "START" /\ acked' = FALSE
    /\ UNCHANGED <<window, mGrallocHandleMap, map, mDisplayQ, flags, camera, post, frame, faults,
                   halFlags, notifier, picture, undo, mishaps>>

DisplayIsEnabled ==
    /\ At("enabled")
    /\ acked
    /\ post = None
    /\ subscribed' = TRUE
    /\ mDisplayEnabled' = TRUE
    /\ Goes(<<>>)
    /\ UNCHANGED <<window, mGrallocHandleMap, map, mDisplayQ, messages, mDisplayState, mPaused,
                   camera, post, frame, faults, halFlags, notifier, picture, undo, mishaps>>

(* CAMERA_START_PREVIEW queues the buffers the display has dequeued. *)
SendStartPreview ==
    /\ At("START_PREVIEW")
    /\ \/ /\ Succeeds("START_PREVIEW")
          /\ ducati' = map
          /\ mPreviewEnabled' = TRUE
          /\ mPreviewStartInProgress' = FALSE
          /\ Goes(<<>>)
       \/ /\ Fails("START_PREVIEW")
          /\ todo' = ErrorSteps
          /\ UNCHANGED <<ducati, mPreviewEnabled, mPreviewStartInProgress>>
    /\ UNCHANGED <<window, mGrallocHandleMap, map, mDisplayQ, messages, flags, post, frame, faults,
                   mDisplayAdapter, mSetPreviewWindowCalled, mDisplayPaused, mRecordingEnabled,
                   mPreviewBufs, notifier, picture, undo>>

(* freePreviewBufs() frees them through the display adapter that allocated *)
(* them, which may have been deleted.                                      *)
FreePreviewBufs ==
    /\ At("free")
    /\ \/ /\ mPreviewBufs = "allocated"
          /\ FreeBuffer
          /\ UNCHANGED faults
       \/ /\ mPreviewBufs = "orphaned"
          /\ crashed' = TRUE
          /\ UNCHANGED <<mANativeWindow, owned, mGrallocHandleMap, map, trouble>>
       \/ /\ mPreviewBufs = "NULL"
          /\ UNCHANGED <<mANativeWindow, owned, mGrallocHandleMap, map, faults>>
    /\ mPreviewBufs' = "NULL"
    /\ Goes(<<>>)
    /\ UNCHANGED <<abandoned, mDisplayQ, messages, flags, camera, post, frame, mDisplayAdapter,
                   mSetPreviewWindowCalled, mPreviewEnabled, mPreviewStartInProgress,
                   mDisplayPaused, mRecordingEnabled, notifier, picture, undo, mishaps>>

(* CAMERA_STOP_PREVIEW in the error exit, refused in LOADED_PREVIEW_STATE. *)
SendStopPreview ==
    /\ At("STOP_PREVIEW")
    /\ IF Accepts(mAdapterState, "STOP_PREVIEW")
       THEN mAdapterState' = INTIALIZED_STATE /\ ducati' = {}
       ELSE UNCHANGED camera
    /\ Goes(<<>>)
    /\ UNCHANGED <<window, mGrallocHandleMap, map, mDisplayQ, messages, flags, post, frame, faults,
                   halFlags, notifier, picture, undo, mishaps>>

(* The end of forceStopPreview(), and of the error exit. *)
ClearFlags ==
    /\ At("clearFlags") \/ At("clearFailed")
    /\ mPreviewEnabled' = FALSE
    /\ mPreviewStartInProgress' = FALSE
    /\ IF At("clearFlags")
       THEN /\ mDisplayPaused' = FALSE
            /\ mishaps' = (mishaps \ {"windowWhilePaused"})
                            \cup (IF mDisplayPaused THEN {"stoppedWhilePaused"} ELSE {})
       ELSE UNCHANGED <<mDisplayPaused, mishaps>>
    /\ Goes(<<>>)
    /\ UNCHANGED <<displayVars, mDisplayAdapter, mSetPreviewWindowCalled, mRecordingEnabled,
                   mPreviewBufs, notifier, picture, undo>>

-----------------------------------------------------------------------------
(* Mutant: unsubscribing does not wait for the frame that is being posted. *)
DisableDisplayAtOnce ==
    /\ At("disable") \/ At("destroy")
    /\ IF mDisplayAdapter /\ mDisplayEnabled
       THEN /\ subscribed' = FALSE
            /\ msgQ' = "STOP" /\ acked' = FALSE
            /\ Goes(IF At("disable") THEN <<"disabled">> ELSE <<"destroyed">>)
       ELSE Goes(<<>>) /\ UNCHANGED <<subscribed, messages>>
    /\ UNCHANGED <<window, mGrallocHandleMap, map, mDisplayQ, mDisplayState, mDisplayEnabled,
                   mPaused, camera, post, frame, faults, halFlags, notifier, picture, undo, mishaps>>

(***************************************************************************)
(* disableDisplay(), by forceStopPreview() ("disable", the buffers go back *)
(* to the window) or by destroy() and the error exit ("destroy", they are  *)
(* forgotten with the window).  Unsubscribing needs mSubscriberLock.       *)
(***************************************************************************)
DisableDisplay ==
    /\ At("disable") \/ At("destroy")
    /\ IF mDisplayAdapter /\ mDisplayEnabled
       THEN /\ post = None
            /\ subscribed' = FALSE
            /\ msgQ' = "STOP" /\ acked' = FALSE
            /\ Goes(IF At("disable") THEN <<"disabled">> ELSE <<"destroyed">>)
       ELSE Goes(<<>>) /\ UNCHANGED <<subscribed, messages>>
    /\ UNCHANGED <<window, mGrallocHandleMap, map, mDisplayQ, mDisplayState, mDisplayEnabled,
                   mPaused, camera, post, frame, faults, halFlags, notifier, picture, undo, mishaps>>

DisplayIsDisabled ==
    /\ At("disabled") \/ At("destroyed")
    /\ acked
    /\ FinishDisable(At("disabled"))
    /\ Goes(<<>>)
    /\ UNCHANGED <<abandoned, mGrallocHandleMap, mDisplayQ, messages, mDisplayState, mPaused,
                   subscribed, camera, post, frame, faults, halFlags, notifier, picture, undo, mishaps>>

(* forceStopPreview() begins with stopImageBracketing(), whose command a   *)
(* running capture accepts too.                                            *)
StopImageBracketing ==
    /\ At("stopBracketing")
    /\ \/ previewEnabled /\ Succeeds("STOP_BRACKET_CAPTURE") /\ StopsPicture("STOP_BRACKET_CAPTURE")
       \/ previewEnabled /\ Fails("STOP_BRACKET_CAPTURE") /\ UNCHANGED picture
       \/ ~ previewEnabled /\ UNCHANGED <<mAdapterState, picture, mishaps>>
    /\ Goes(<<>>)
    /\ UNCHANGED <<window, mGrallocHandleMap, map, mDisplayQ, messages, flags, ducati, post, frame,
                   faults, halFlags, notifier, undo>>

StopNotifier ==
    /\ At("stopNotifier")
    /\ mNotifierStarted' = FALSE
    /\ Goes(<<>>)
    /\ UNCHANGED <<displayVars, halFlags, mRecording, picture, undo, mishaps>>

(***************************************************************************)
(* rollbackToInitializedState(): the state is read, and the command that   *)
(* undoes it is sent with nothing held in between.  A command that is      *)
(* refused or fails, or a state nothing undoes, ends the loop.             *)
(***************************************************************************)
Rollback ==
    /\ At("rollback")
    /\ \/ /\ mAdapterState = INTIALIZED_STATE
          /\ Goes(<<>>)
          /\ UNCHANGED <<undo, mishaps>>
       \/ \E command \in OperationCommands :
             /\ <<mAdapterState, command>> \in UndoCommand
             /\ undo' = command
             /\ Goes(<<"undo">>)
             /\ UNCHANGED mishaps
       \/ /\ mAdapterState # INTIALIZED_STATE
          /\ \A command \in OperationCommands : <<mAdapterState, command>> \notin UndoCommand
          /\ mishaps' = mishaps \cup {"failed"}
          /\ Goes(<<>>)
          /\ UNCHANGED undo
    /\ UNCHANGED <<displayVars, halFlags, notifier, picture>>

(* Mutant: the rollback undoes one state only. *)
SendUndoOnce ==
    /\ At("undo")
    /\ Succeeds(undo) \/ Fails(undo)
    /\ Goes(<<>>)
    /\ ducati' = IF undo = "STOP_PREVIEW" /\ Accepts(mAdapterState, undo) THEN {} ELSE ducati
    /\ StopsPicture(undo)
    /\ undo' = None
    /\ UNCHANGED <<window, mGrallocHandleMap, map, mDisplayQ, messages, flags, post, frame, faults,
                   halFlags, notifier>>

SendUndo ==
    /\ At("undo")
    /\ \/ Succeeds(undo) /\ Goes(<<"rollback">>)
       \/ /\ CommandsFail \/ ~ Accepts(mAdapterState, undo)
          /\ mishaps' = mishaps \cup {"failed"}
          /\ Goes(<<>>)
          /\ UNCHANGED mAdapterState
    /\ ducati' = IF undo = "STOP_PREVIEW" /\ Accepts(mAdapterState, undo) THEN {} ELSE ducati
    /\ StopsPicture(undo)
    /\ undo' = None
    /\ UNCHANGED <<window, mGrallocHandleMap, map, mDisplayQ, messages, flags, post, frame, faults,
                   halFlags, notifier>>

-----------------------------------------------------------------------------
(***************************************************************************)
(* The operations of the application, one at a time.                       *)
(***************************************************************************)
Begin(steps) ==
    /\ ~ crashed
    /\ todo = <<>>
    /\ todo' = steps
    /\ UNCHANGED undo

CallStartPreview ==
    /\ Begin(<<"startPreview">>)
    /\ UNCHANGED <<displayVars, halFlags, notifier, picture, mishaps>>

(* stopPreview(): a paused display with no capture running is left alone. *)
CallStopPreview ==
    /\ (previewEnabled \/ mDisplayPaused) /\ ~ mRecordingEnabled
    /\ ~ mDisplayPaused \/ mAdapterState = CAPTURE_STATE
    /\ Begin(ForceStopSteps)
    /\ UNCHANGED <<displayVars, halFlags, notifier, picture, mishaps>>

(* setPreviewWindow() with a window, for a HAL without a display adapter. *)
SetFirstWindow ==
    /\ ~ mDisplayAdapter
    /\ Begin(IF mPreviewStartInProgress THEN <<"startPreview">> ELSE <<>>)
    /\ NewDisplay
    /\ mDisplayAdapter' = TRUE
    /\ mSetPreviewWindowCalled' = TRUE
    /\ UNCHANGED <<messages, subscribed, camera, post, frame, crashed, mPreviewEnabled,
                   mPreviewStartInProgress, mDisplayPaused, mRecordingEnabled, mPreviewBufs,
                   notifier, picture, mishaps>>

(* With another window: the display adapter's setPreviewWindow() calls     *)
(* destroy(), and a running preview is restarted on the new window.        *)
SetOtherWindow ==
    /\ mDisplayAdapter
    /\ Begin(<<"destroy", "newWindow">>)
    /\ mSetPreviewWindowCalled' = TRUE
    /\ mishaps' = IF mDisplayPaused THEN mishaps \cup {"windowWhilePaused"} ELSE mishaps
    /\ UNCHANGED <<displayVars, mDisplayAdapter, mPreviewEnabled, mPreviewStartInProgress,
                   mDisplayPaused, mRecordingEnabled, mPreviewBufs, notifier, picture>>

(* Mutant: a running preview is not restarted on the new window. *)
NewWindowNoRestart ==
    /\ At("newWindow")
    /\ mANativeWindow' = TRUE
    /\ owned' = Buffers
    /\ abandoned' = FALSE
    /\ Goes(<<>>)
    /\ UNCHANGED <<mGrallocHandleMap, map, mDisplayQ, messages, flags, camera, post, frame, faults,
                   halFlags, notifier, picture, undo, mishaps>>

NewWindow ==
    /\ At("newWindow")
    /\ mANativeWindow' = TRUE
    /\ owned' = Buffers
    /\ abandoned' = FALSE
    /\ Goes(IF previewEnabled THEN ForceStopSteps \o <<"startPreview">> ELSE <<>>)
    /\ UNCHANGED <<mGrallocHandleMap, map, mDisplayQ, messages, flags, camera, post, frame, faults,
                   halFlags, notifier, picture, undo, mishaps>>

(***************************************************************************)
(* With NULL: the display adapter is deleted.  Its destructor deletes the  *)
(* frame provider before destroy(), which needs it if the display is       *)
(* enabled.  The display thread exits before the destructor returns.       *)
(***************************************************************************)
SetNullWindow ==
    /\ Begin(<<>>)
    /\ \/ /\ mDisplayAdapter /\ mDisplayEnabled
          /\ crashed' = TRUE
          /\ UNCHANGED <<mANativeWindow, map, mDisplayAdapter, mSetPreviewWindowCalled, mPreviewBufs>>
       \/ /\ mDisplayAdapter /\ ~ mDisplayEnabled
          /\ mANativeWindow' = FALSE
          /\ mFramesWithCameraAdapterMap' = {}
          /\ mDisplayAdapter' = FALSE
          /\ mSetPreviewWindowCalled' = FALSE
          /\ mPreviewBufs' = IF mPreviewBufs = "NULL" THEN "NULL" ELSE "orphaned"
          /\ UNCHANGED crashed
       \/ /\ ~ mDisplayAdapter
          /\ mSetPreviewWindowCalled' = TRUE
          /\ UNCHANGED <<mANativeWindow, map, mDisplayAdapter, mPreviewBufs, crashed>>
    /\ UNCHANGED <<owned, abandoned, mGrallocHandleMap, mDisplayQ, messages, flags, camera, post,
                   frame, trouble, mPreviewEnabled, mPreviewStartInProgress, mDisplayPaused,
                   mRecordingEnabled, notifier, picture, mishaps>>

(***************************************************************************)
(* takePicture(), with mLock: the preview is paused unless recording or    *)
(* taking a burst, then commands, the first refused or failing one of      *)
(* which ends it.  (Where setState() refuses USE_BUFFERS_IMAGE_CAPTURE it  *)
(* also refuses the query before it or the start after it.)                *)
(***************************************************************************)
TakePicture ==
    /\ Begin(<<>>)
    /\ previewEnabled \/ mDisplayPaused
    /\ mAdapterState \notin {CAPTURE_STATE, VIDEO_CAPTURE_STATE}
    /\ \/ UNCHANGED <<mDisplayPaused, mPreviewEnabled, mPaused>>
       \/ /\ mDisplayAdapter /\ mAdapterState # VIDEO_STATE
          /\ mDisplayPaused' = TRUE /\ mPreviewEnabled' = FALSE /\ mPaused' = TRUE
    /\ \/ Fails("USE_BUFFERS_IMAGE_CAPTURE") /\ UNCHANGED picture
       \/ \E loaded \in AdapterState :
             /\ <<mAdapterState, "USE_BUFFERS_IMAGE_CAPTURE", loaded>> \in Transitions
             /\ \/ /\ mAdapterState' \in AdapterState
                   /\ <<loaded, "START_IMAGE_CAPTURE", mAdapterState'>> \in Transitions
                   /\ picture' = "pending"
                   /\ UNCHANGED mishaps
                \/ /\ CommandsFail
                   /\ mAdapterState' = loaded
                   /\ mishaps' = mishaps \cup {"failed"}
                   /\ UNCHANGED picture
    /\ UNCHANGED <<window, mGrallocHandleMap, map, mDisplayQ, messages, mDisplayState,
                   mDisplayEnabled, subscribed, ducati, post, frame, faults, mDisplayAdapter,
                   mSetPreviewWindowCalled, mPreviewStartInProgress, mRecordingEnabled,
                   mPreviewBufs, notifier>>

CancelPicture ==
    /\ Begin(<<>>)
    /\ Succeeds("STOP_IMAGE_CAPTURE") \/ Fails("STOP_IMAGE_CAPTURE")
    /\ StopsPicture("STOP_IMAGE_CAPTURE")
    /\ UNCHANGED <<window, mGrallocHandleMap, map, mDisplayQ, messages, flags, ducati, post, frame,
                   faults, halFlags, notifier>>

(* startRecording(): the preview may have to be restarted for the video    *)
(* mode; then the notifier starts recording, then the camera adapter.      *)
CallStartRecording ==
    /\ previewEnabled
    /\ \/ Begin(<<"startVideo">>)
       \/ ~ mRecordingEnabled /\ Begin(ForceStopSteps \o <<"startPreview", "startVideo">>)
    /\ UNCHANGED <<displayVars, halFlags, notifier, picture, mishaps>>

StartVideo ==
    /\ At("startVideo")
    /\ Goes(<<>>)
    /\ \/ /\ mRecording \/ mPreviewBufs = "NULL"
          /\ UNCHANGED <<mRecording, mAdapterState, mRecordingEnabled, mishaps>>
       \/ /\ ~ mRecording /\ mPreviewBufs # "NULL"
          /\ mRecording' = TRUE
          /\ \/ Succeeds("START_VIDEO") /\ mRecordingEnabled' = TRUE
             \/ Fails("START_VIDEO") /\ UNCHANGED mRecordingEnabled
    /\ UNCHANGED <<window, mGrallocHandleMap, map, mDisplayQ, messages, flags, ducati, post, frame,
                   faults, mDisplayAdapter, mSetPreviewWindowCalled, mPreviewEnabled,
                   mPreviewStartInProgress, mDisplayPaused, mPreviewBufs, mNotifierStarted,
                   picture, undo>>

(* stopRecording(), with mLock, whatever its commands answer. *)
StopRecording ==
    /\ Begin(<<>>)
    /\ mRecordingEnabled
    /\ \/ /\ mAdapterState' = CASE mAdapterState = VIDEO_CAPTURE_STATE -> PREVIEW_STATE
                                  [] mAdapterState = VIDEO_STATE -> PREVIEW_STATE
                                  [] mAdapterState = VIDEO_ZOOM_STATE -> ZOOM_STATE
                                  [] OTHER -> mAdapterState
          /\ UNCHANGED mishaps
       \/ /\ CommandsFail
          /\ \/ UNCHANGED mAdapterState
             \/ mAdapterState = VIDEO_CAPTURE_STATE /\ mAdapterState' = VIDEO_STATE
          /\ mishaps' = mishaps \cup {"failed"}
    /\ picture' = IF mAdapterState = VIDEO_CAPTURE_STATE /\ picture = "pending"
                  THEN "none" ELSE picture
    /\ mRecording' = FALSE
    /\ mRecordingEnabled' = FALSE
    /\ UNCHANGED <<window, mGrallocHandleMap, map, mDisplayQ, messages, flags, ducati, post, frame,
                   faults, mDisplayAdapter, mSetPreviewWindowCalled, mPreviewEnabled,
                   mPreviewStartInProgress, mDisplayPaused, mPreviewBufs, mNotifierStarted>>

-----------------------------------------------------------------------------
(* The picture comes, and whoever returns its frame ends the capture:      *)
(* fillThisBuffer(), endImageCapture(), signalEndImageCapture().           *)
PictureArrives ==
    /\ ~ crashed
    /\ picture = "pending" /\ "CAPTURE" \in mAdapterState
    /\ picture' = "out"
    /\ UNCHANGED <<displayVars, halFlags, notifier, call, mishaps>>

EndCapture ==
    /\ ~ crashed
    /\ picture = "out"
    /\ picture' = "none"
    /\ \/ "PREVIEW" \notin mAdapterState /\ UNCHANGED <<mAdapterState, mishaps>>
       \/ "PREVIEW" \in mAdapterState /\ Succeeds("STOP_IMAGE_CAPTURE")
       \/ "PREVIEW" \in mAdapterState /\ Fails("STOP_IMAGE_CAPTURE")
    /\ UNCHANGED <<window, mGrallocHandleMap, map, mDisplayQ, messages, flags, ducati, post, frame,
                   faults, halFlags, notifier, call>>

CallSteps ==
    \/ StartPreview \/ Alloc \/ UseBuffersPreview \/ StartNotifier \/ EnableDisplay
    \/ DisplayIsEnabled \/ SendStartPreview \/ FreePreviewBufs \/ SendStopPreview \/ ClearFlags
    \/ DisableDisplay \/ DisplayIsDisabled \/ StopImageBracketing \/ StopNotifier
    \/ Rollback \/ SendUndo \/ NewWindow \/ StartVideo

Application ==
    \/ CallStartPreview \/ CallStopPreview \/ SetFirstWindow \/ SetOtherWindow
    \/ SetNullWindow \/ TakePicture \/ CancelPicture \/ CallStartRecording \/ StopRecording

Display ==
    \/ ProcessHalMsg /\ UNCHANGED halVars
    \/ Dequeue /\ UNCHANGED halVars
    \/ AddToMap /\ UNCHANGED halVars
    \/ ReturnToCamera /\ UNCHANGED halVars
    \/ RacingUpdates /\ UNCHANGED halVars
    \/ PostFrame /\ UNCHANGED halVars
    \/ Abandon /\ UNCHANGED halVars
    \/ \E b \in Buffers : FillBufferDone(b) /\ UNCHANGED halVars

Next == CallSteps \/ Application \/ PictureArrives \/ EndCapture \/ Display

Spec == Init /\ [][Next]_vars

-----------------------------------------------------------------------------
Quiet == ~ abandoned /\ ~ trouble /\ ~ crashed

(***************************************************************************)
(* While the HAL has buffers and the window has not failed, the map names  *)
(* exactly the buffers that are dequeued and not on their way into it: no  *)
(* buffer is cancelled that the window has, and none is forgotten.         *)
(***************************************************************************)
MapIsDequeued ==
    mPreviewBufs = "allocated" /\ mANativeWindow /\ Quiet
    => map = (Buffers \ owned) \ (IF frame.at = "add" THEN {frame.buf} ELSE {})

(***************************************************************************)
(* While the display is enabled every buffer given to the window is        *)
(* dequeued again sooner or later: what the camera side has, what is being *)
(* dequeued and what mDisplayQ owes add up to what the camera was given    *)
(* at first.  Otherwise the camera runs out of buffers.                    *)
(***************************************************************************)
CameraNeverStarves ==
    mPreviewBufs = "allocated" /\ mDisplayEnabled /\ mDisplayState = "STARTED" /\ mANativeWindow /\ Quiet
    => Cardinality(Buffers \ owned) + mDisplayQ = Cardinality(Buffers) - Undequeued

AtRest == todo = <<>> /\ ~ crashed
Smooth == mishaps \subseteq {"stoppedWhilePaused"}

(***************************************************************************)
(* Between calls, what the HAL believes is what its parts do: a preview it *)
(* reports as enabled is one that runs and can be seen, and HAL, notifier  *)
(* and camera agree on recording.  (The display stays paused after a       *)
(* stopPreview() during a capture, which resets mDisplayPaused of the HAL  *)
(* only.)                                                                  *)
(***************************************************************************)
PartsAgree ==
    AtRest /\ Smooth
    => /\ mPreviewEnabled =>
             /\ mDisplayEnabled /\ subscribed /\ mNotifierStarted
             /\ "PREVIEW" \in mAdapterState
             /\ mPaused => "stoppedWhilePaused" \in mishaps
       /\ mRecordingEnabled => mRecording
       /\ "VIDEO" \in mAdapterState => mRecordingEnabled

(***************************************************************************)
(* Nobody is left with buffers that are gone.  PostFrame() always has its  *)
(* handles, and it has a window unless the application abandoned it:       *)
(* disableDisplay() cannot take either away from a frame that is being     *)
(* posted.  And the camera never has buffers that have been freed.         *)
(***************************************************************************)
BuffersInUseLive ==
    /\ post # None => mGrallocHandleMap /\ (mANativeWindow \/ abandoned)
    /\ ducati # {} /\ Smooth => mPreviewBufs # "NULL"

(***************************************************************************)
(* Between calls, without a preview everything it took is given back: the  *)
(* camera has no buffers and is in its first state, the window has them.   *)
(***************************************************************************)
StopUndoesStart ==
    AtRest /\ Smooth /\ ~ previewEnabled /\ ~ mDisplayPaused
    => /\ ducati = {} /\ mAdapterState = INTIALIZED_STATE /\ mPreviewBufs = "NULL"
       /\ ~ mDisplayEnabled /\ ~ subscribed
       /\ mANativeWindow /\ Quiet => owned = Buffers
=============================================================================
