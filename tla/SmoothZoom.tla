----------------------------- MODULE SmoothZoom -----------------------------
(***************************************************************************)
(* The zoom indices of the OMX camera adapter.  The application sets the   *)
(* zoom at once through setParameters(), or starts and stops a smooth zoom *)
(* that the OMX callback thread carries out, one stage per preview frame,  *)
(* in advanceZoom().  All of it runs under mZoomLock, but setParameters()  *)
(* and getParameters() take the adapter's state before they take the lock. *)
(* The deadlock between mZoomLock and the lock of the state machine is the *)
(* subject of CameraAdapterState.                                          *)
(***************************************************************************)
EXTENDS Integers

CONSTANTS ZOOM_STAGES,
          IndexModulus,  \* the indices are unsigned: 2^32 in the code
          ConfigFails,   \* OMX_SetConfig() may fail
          AppWaits       \* the application waits until its last zoom is applied

ASSUME ZoomAssumption ==
    /\ ZOOM_STAGES \in Nat \ {0}
    /\ IndexModulus \in Nat /\ IndexModulus > 2 * ZOOM_STAGES + 2
    /\ {ConfigFails, AppWaits} \subseteq BOOLEAN

VARIABLES
    zooming,             \* the adapter's state has ZOOM_ACTIVE
    mCurrentZoomIdx, mTargetZoomIdx,
    mPreviousZoomIndx,   \* the index the camera last took
    refused,             \* the last OMX_SetConfig() of doZoom() failed
    mZoomParameterIdx,   \* the index getParameters() shows during a smooth zoom
    mZoomInc,
    mReturnZoomStatus,   \* a stopped smooth zoom has its last step to take
    mZoomUpdating, mZoomUpdate,
    call                 \* the application's call, with the state it saw

indices == <<mCurrentZoomIdx, mTargetZoomIdx, mPreviousZoomIndx, refused, mZoomParameterIdx>>
flags == <<mZoomInc, mReturnZoomStatus, mZoomUpdating, mZoomUpdate>>
zoomVars == <<zooming, indices, flags, call>>

Stages == 0 .. ZOOM_STAGES - 1
NoCall == [op |-> "none", sawZoom |-> FALSE, zoom |-> 0]

ZoomInit ==
    /\ zooming = FALSE
    /\ mCurrentZoomIdx = 0 /\ mTargetZoomIdx = 0 /\ mPreviousZoomIndx = 0
    /\ mZoomParameterIdx = 0 /\ refused = FALSE
    /\ mZoomInc = 1
    /\ mReturnZoomStatus = FALSE /\ mZoomUpdating = FALSE /\ mZoomUpdate = FALSE
    /\ call = NoCall

-----------------------------------------------------------------------------
(* Unsigned addition of a signed step. *)
Add(idx, inc) == (idx + inc) % IndexModulus

(* doZoom(): the index the camera has afterwards.  An index out of range   *)
(* and a failing OMX_SetConfig() leave the old one.                        *)
Applied(index, before) ==
    IF index \notin Stages \/ index = before THEN {before}
    ELSE {index} \cup (IF ConfigFails THEN {before} ELSE {})

-----------------------------------------------------------------------------
(* setParameters() and getParameters() first read the adapter's state... *)
BeginCall(op, zoom) ==
    /\ call = NoCall
    /\ op = "setParameters" /\ AppWaits => ~ mReturnZoomStatus
    /\ call' = [op |-> op, sawZoom |-> zooming, zoom |-> zoom]
    /\ UNCHANGED <<zooming, indices, flags>>

(* Mutant: a zoom that finds another one being applied is forgotten. *)
SetParametersZoomForgets ==
    /\ call.op = "setParameters"
    /\ call' = NoCall
    /\ IF call.sawZoom \/ call.zoom \notin Stages
       THEN UNCHANGED <<indices, flags>>
       ELSE /\ mTargetZoomIdx' = call.zoom
            /\ mCurrentZoomIdx' = call.zoom
            /\ mPreviousZoomIndx' \in IF mZoomUpdating THEN {mPreviousZoomIndx}
                                      ELSE Applied(call.zoom, mPreviousZoomIndx)
            /\ refused' = IF mZoomUpdating THEN refused ELSE mPreviousZoomIndx' # call.zoom
            /\ mZoomUpdating' = TRUE
            /\ UNCHANGED <<mZoomParameterIdx, mZoomInc, mReturnZoomStatus, mZoomUpdate>>
    /\ UNCHANGED zooming

(* ...and setParametersZoom() then works under mZoomLock. *)
SetParametersZoom ==
    /\ call.op = "setParameters"
    /\ call' = NoCall
    /\ IF call.sawZoom \/ call.zoom \notin Stages
       THEN UNCHANGED <<indices, flags>>
       ELSE /\ mTargetZoomIdx' = call.zoom
            /\ mCurrentZoomIdx' = call.zoom
            /\ IF mZoomUpdating
               THEN /\ mZoomUpdate' = TRUE
                    /\ UNCHANGED <<mPreviousZoomIndx, refused, mZoomUpdating>>
               ELSE /\ mPreviousZoomIndx' \in Applied(call.zoom, mPreviousZoomIndx)
                    /\ refused' = (mPreviousZoomIndx' # call.zoom)
                    /\ mZoomUpdating' = TRUE
                    /\ UNCHANGED mZoomUpdate
            /\ UNCHANGED <<mZoomParameterIdx, mZoomInc, mReturnZoomStatus>>
    /\ UNCHANGED zooming

(* getParameters() lets the index it shows follow the current one, and     *)
(* ends a smooth zoom that has been shown completely.                      *)
GetParameters ==
    /\ call.op = "getParameters"
    /\ call' = NoCall
    /\ mZoomParameterIdx' =
          IF call.sawZoom /\ mZoomParameterIdx # mCurrentZoomIdx
          THEN Add(mZoomParameterIdx, mZoomInc) ELSE mZoomParameterIdx
    /\ zooming' = (zooming /\ ~ (/\ call.sawZoom
                                 /\ mCurrentZoomIdx = mTargetZoomIdx
                                 /\ mZoomParameterIdx' = mCurrentZoomIdx))
    /\ UNCHANGED <<mCurrentZoomIdx, mTargetZoomIdx, mPreviousZoomIndx, refused, flags>>

(* Mutant: the index shown is not reset. *)
StartSmoothZoomOldParameter(target) ==
    /\ call = NoCall
    /\ AppWaits => ~ mZoomUpdate
    /\ ~ zooming
    /\ target \in Stages
    /\ zooming' = TRUE
    /\ mTargetZoomIdx' = target
    /\ mReturnZoomStatus' = FALSE
    /\ UNCHANGED <<mCurrentZoomIdx, mPreviousZoomIndx, refused, mZoomParameterIdx, mZoomInc,
                   mZoomUpdating, mZoomUpdate, call>>

(* CAMERA_START_SMOOTH_ZOOM: refused while a smooth zoom runs; rolled back *)
(* when the target is out of range.                                        *)
StartSmoothZoom(target) ==
    /\ call = NoCall
    /\ AppWaits => ~ mZoomUpdate
    /\ ~ zooming
    /\ target \in Stages
    /\ zooming' = TRUE
    /\ mTargetZoomIdx' = target
    /\ mZoomParameterIdx' = mCurrentZoomIdx
    /\ mReturnZoomStatus' = FALSE
    /\ UNCHANGED <<mCurrentZoomIdx, mPreviousZoomIndx, refused, mZoomInc, mZoomUpdating,
                   mZoomUpdate, call>>

(* The step from one index towards another. *)
Direction(from, to) == IF from < to THEN 1 ELSE -1

(* Mutant: the step of an earlier zoom is kept. *)
StopSmoothZoomOldStep ==
    /\ call = NoCall
    /\ zooming' = FALSE
    /\ mReturnZoomStatus' = (mReturnZoomStatus \/ mTargetZoomIdx # mCurrentZoomIdx)
    /\ UNCHANGED <<indices, mZoomInc, mZoomUpdating, mZoomUpdate, call>>

(* CAMERA_STOP_SMOOTH_ZOOM, which PREVIEW_STATE and the zoom states accept: *)
(* the callback thread takes one more step towards the target.             *)
StopSmoothZoom ==
    /\ call = NoCall
    /\ zooming' = FALSE
    /\ IF mTargetZoomIdx # mCurrentZoomIdx
       THEN /\ mZoomInc' = Direction(mCurrentZoomIdx, mTargetZoomIdx)
            /\ mReturnZoomStatus' = TRUE
       ELSE UNCHANGED <<mZoomInc, mReturnZoomStatus>>
    /\ UNCHANGED <<indices, mZoomUpdating, mZoomUpdate, call>>

-----------------------------------------------------------------------------
(***************************************************************************)
(* advanceZoom(), once per preview frame.  The last thing it does is to    *)
(* apply an immediate zoom that came while another one was being applied.  *)
(***************************************************************************)
Finish(index, failed, target) ==
    /\ mPreviousZoomIndx' \in IF mZoomUpdate THEN Applied(target, index) ELSE {index}
    /\ refused' = IF mZoomUpdate THEN mPreviousZoomIndx' # target ELSE failed
    /\ mZoomUpdating' = mZoomUpdate
    /\ mZoomUpdate' = FALSE

(* The last step of a smooth zoom that was stopped. *)
LastStep ==
    /\ mReturnZoomStatus
    /\ LET next == Add(mCurrentZoomIdx, mZoomInc)
       IN  /\ mCurrentZoomIdx' = next
           /\ mTargetZoomIdx' = next
           /\ \E index \in Applied(next, mPreviousZoomIndx) : Finish(index, index # next, next)
    /\ mReturnZoomStatus' = FALSE
    /\ UNCHANGED <<zooming, mZoomInc>>

(* A step of a smooth zoom.  It ends the zoom when the target is reached   *)
(* and doZoom() succeeded.                                                 *)
SmoothStep ==
    /\ ~ mReturnZoomStatus
    /\ zooming /\ mCurrentZoomIdx # mTargetZoomIdx
    /\ mZoomInc' = Direction(mCurrentZoomIdx, mTargetZoomIdx)
    /\ LET next == Add(mCurrentZoomIdx, mZoomInc')
       IN  /\ mCurrentZoomIdx' = next
           /\ \E index \in Applied(next, mPreviousZoomIndx) :
                 /\ zooming' = ~ (next = mTargetZoomIdx /\ index = next)
                 /\ Finish(index, index # next, mTargetZoomIdx)
    /\ UNCHANGED <<mTargetZoomIdx, mReturnZoomStatus>>

(* Mutant: a smooth zoom whose last step failed stays on. *)
SettleKeepsZooming ==
    /\ ~ mReturnZoomStatus
    /\ zooming => mCurrentZoomIdx = mTargetZoomIdx
    /\ mCurrentZoomIdx' = mTargetZoomIdx
    /\ IF mCurrentZoomIdx = mTargetZoomIdx
       THEN Finish(mPreviousZoomIndx, refused, mTargetZoomIdx)
       ELSE \E index \in Applied(mTargetZoomIdx, mPreviousZoomIndx) :
               Finish(index, index # mTargetZoomIdx, mTargetZoomIdx)
    /\ UNCHANGED <<zooming, mTargetZoomIdx, mReturnZoomStatus, mZoomInc>>

(* No step is left: a smooth zoom that is still on ends, and without one   *)
(* the current index becomes the target.                                   *)
Settle ==
    /\ ~ mReturnZoomStatus
    /\ zooming => mCurrentZoomIdx = mTargetZoomIdx
    /\ zooming' = FALSE
    /\ mCurrentZoomIdx' = mTargetZoomIdx
    /\ IF mCurrentZoomIdx = mTargetZoomIdx
       THEN Finish(mPreviousZoomIndx, refused, mTargetZoomIdx)
       ELSE \E index \in Applied(mTargetZoomIdx, mPreviousZoomIndx) :
               Finish(index, index # mTargetZoomIdx, mTargetZoomIdx)
    /\ UNCHANGED <<mTargetZoomIdx, mReturnZoomStatus, mZoomInc>>

AdvanceZoom ==
    /\ LastStep \/ SmoothStep \/ Settle
    /\ UNCHANGED <<mZoomParameterIdx, call>>

ZoomNext ==
    \/ \E zoom \in Stages : BeginCall("setParameters", zoom)
    \/ BeginCall("getParameters", 0)
    \/ SetParametersZoom \/ GetParameters
    \/ \E target \in Stages : StartSmoothZoom(target)
    \/ StopSmoothZoom
    \/ AdvanceZoom

ZoomSpec == ZoomInit /\ [][ZoomNext]_zoomVars

(* Preview frames keep coming. *)
ZoomFairSpec == ZoomSpec /\ WF_zoomVars(AdvanceZoom)

-----------------------------------------------------------------------------
Indices == 0 .. IndexModulus - 1

(* The type invariant. *)
ZoomTypeOK ==
    /\ zooming \in BOOLEAN
    /\ mCurrentZoomIdx \in Indices /\ mTargetZoomIdx \in Indices
    /\ mPreviousZoomIndx \in Stages /\ mZoomParameterIdx \in Indices
    /\ mZoomInc \in {-1, 1}
    /\ mReturnZoomStatus \in BOOLEAN /\ refused \in BOOLEAN
    /\ mZoomUpdating \in BOOLEAN /\ mZoomUpdate \in BOOLEAN
    /\ call \in [op : {"none", "setParameters", "getParameters"}, sawZoom : BOOLEAN, zoom : Stages]

(* The indices stay inside ZOOM_STEPS: the step that ends a stopped smooth *)
(* zoom does not leave the range, so doZoom() does not fail.               *)
IndexInRange == mCurrentZoomIdx \in Stages /\ mTargetZoomIdx \in Stages

(* The index getParameters() shows lags behind the current one and never   *)
(* runs past it, whatever the callback thread does between the calls.      *)
ParameterFollows ==
    zooming => /\ mZoomParameterIdx \in Stages
               /\ mZoomInc = 1 => mZoomParameterIdx <= mCurrentZoomIdx
               /\ mZoomInc = -1 => mZoomParameterIdx >= mCurrentZoomIdx

(* Every smooth zoom ends, also when the camera refuses some of the steps. *)
SmoothZoomEnds == zooming ~> ~ zooming

(* The index the adapter believes in is the one the camera has, unless the *)
(* camera refused it or setParametersZoom() left it for the next frame: a  *)
(* refused step is made good by the next one that succeeds.                *)
ZoomApplied == ~ mZoomUpdate /\ ~ refused => mPreviousZoomIndx = mCurrentZoomIdx

-----------------------------------------------------------------------------
(* What keeps the last step of a stopped zoom in range: it goes towards    *)
(* the target, and an application that waits changes neither index first.  *)
StepDue ==
    /\ mReturnZoomStatus => /\ ~ zooming
                            /\ mCurrentZoomIdx # mTargetZoomIdx
                            /\ mZoomInc = Direction(mCurrentZoomIdx, mTargetZoomIdx)
    /\ call.op = "setParameters" => ~ mReturnZoomStatus

ZoomInv == ZoomTypeOK /\ IndexInRange /\ StepDue

(* What keeps the index shown and the camera's index right: during a smooth *)
(* zoom no immediate zoom is due or on its way, and while the index shown   *)
(* lags behind the zoom goes on in one direction.                           *)
ZoomUndisturbed ==
    /\ zooming => ~ mZoomUpdate
    /\ call.op = "setParameters" /\ ~ call.sawZoom => ~ zooming
    /\ zooming /\ mZoomParameterIdx # mCurrentZoomIdx /\ mCurrentZoomIdx # mTargetZoomIdx
       => mZoomInc = Direction(mCurrentZoomIdx, mTargetZoomIdx)

FollowInv == ParameterFollows /\ ZoomApplied /\ ZoomUndisturbed

=============================================================================
