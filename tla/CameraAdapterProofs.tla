------------------------ MODULE CameraAdapterProofs -------------------------
(***************************************************************************)
(* Proofs about the camera adapter: its zoom, the circulation of its       *)
(* buffers and its states.                                                 *)
(*                                                                         *)
(* SmoothZoom: with an application that waits until its last zoom has been *)
(* applied, no index leaves the range of ZOOM_STEPS, the index shown never *)
(* runs past the current one, and the camera has the index the adapter     *)
(* believes in, however many stages there are.                             *)
(*                                                                         *)
(* FrameCirculation: as long as recording is not stopped under running     *)
(* preview and zooming succeeds, the reference counts are exact, whatever  *)
(* the number of buffers: no buffer the camera may write is held by        *)
(* anybody, none is queued twice, and none drops out of the circulation.   *)
(*                                                                         *)
(* CameraAdapterState: for any set of clients, any subset of the adapter's *)
(* own threads and any set of operations that may fail.                    *)
(***************************************************************************)
EXTENDS SmoothZoom, FrameCirculation, CameraAdapterState, FiniteSetTheorems, TLAPS

(* An index in range does not wrap. *)
LEMMA NoWrap == ASSUME NEW x \in Stages PROVE x % IndexModulus = x
BY ZoomAssumption DEF Stages

(* Adding a step gives an index. *)
LEMMA AddIsIndex ==
    ASSUME NEW x \in Indices, NEW inc \in {-1, 1}
    PROVE  Add(x, inc) \in Indices
BY ZoomAssumption DEF Add, Indices

(* The stages are indices. *)
LEMMA StagesAreIndices == Stages \subseteq Indices
BY ZoomAssumption DEF Stages, Indices

(* One step towards a stage leads to a stage. *)
LEMMA StepTowards ==
    ASSUME NEW x \in Stages, NEW y \in Stages, x # y
    PROVE  /\ Direction(x, y) \in {-1, 1}
           /\ Add(x, Direction(x, y)) \in Stages
<1>1. x + Direction(x, y) \in Stages /\ Direction(x, y) \in {-1, 1}
  BY ZoomAssumption DEF Stages, Direction
<1> QED BY <1>1, NoWrap, Zenon DEF Add

(* doZoom() leaves the camera with a stage. *)
LEMMA AppliedIsStage ==
    ASSUME NEW index, NEW before \in Stages, NEW after \in Applied(index, before)
    PROVE  after \in Stages
BY DEF Applied

(* The end of advanceZoom() keeps the types. *)
LEMMA FinishTypes ==
    ASSUME ZoomTypeOK, NEW index \in Stages, NEW failed \in BOOLEAN, NEW target,
           Finish(index, failed, target)
    PROVE  /\ mPreviousZoomIndx' \in Stages /\ refused' \in BOOLEAN
           /\ mZoomUpdating' \in BOOLEAN /\ mZoomUpdate' \in BOOLEAN
BY AppliedIsStage, Zenon DEF Finish, ZoomTypeOK

(* The adapter starts unzoomed, with nothing due. *)
LEMMA ZoomStarts == ZoomInit => ZoomInv
<1>1. 0 \in Stages /\ 0 \in Indices
  BY ZoomAssumption DEF Stages, Indices
<1>2. NoCall \in [op : {"none", "setParameters", "getParameters"},
                       sawZoom : BOOLEAN, zoom : Stages]
  BY <1>1 DEF NoCall
<1>3. ZoomInit => ZoomTypeOK
  BY <1>1, <1>2, Zenon DEF ZoomInit, ZoomTypeOK
<1>4. ZoomInit => IndexInRange /\ StepDue
  BY <1>1, Zenon DEF ZoomInit, IndexInRange, StepDue, NoCall
<1> QED BY <1>3, <1>4, Zenon DEF ZoomInv

(* Every step of a waiting application and of the callback thread keeps    *)
(* the indices in range.                                                   *)
LEMMA ZoomStep ==
    ASSUME AppWaits, ZoomInv, [ZoomNext]_zoomVars
    PROVE  ZoomInv'
<1> USE DEF ZoomInv, indices, flags
<1>1. ASSUME NEW zoom \in Stages, BeginCall("setParameters", zoom) PROVE ZoomInv'
  BY <1>1, Zenon DEF BeginCall, ZoomTypeOK, IndexInRange, StepDue
<1>2. ASSUME BeginCall("getParameters", 0) PROVE ZoomInv'
  BY <1>2, ZoomAssumption
     DEF BeginCall, ZoomTypeOK, IndexInRange, StepDue, Stages
<1>3. ASSUME SetParametersZoom PROVE ZoomInv'
  <2>1. NoCall \in [op : {"none", "setParameters", "getParameters"},
                         sawZoom : BOOLEAN, zoom : Stages]
    BY ZoomAssumption DEF NoCall, Stages
  <2>2. mPreviousZoomIndx' \in Stages /\ refused' \in BOOLEAN
    BY <1>3, AppliedIsStage, Zenon DEF SetParametersZoom, ZoomTypeOK
  <2>3. ~ mReturnZoomStatus /\ mReturnZoomStatus' = mReturnZoomStatus
    BY <1>3, Zenon DEF SetParametersZoom, StepDue
  <2>4. /\ mCurrentZoomIdx' \in Stages /\ mTargetZoomIdx' \in Stages
        /\ UNCHANGED <<zooming, mZoomParameterIdx, mZoomInc>> /\ call' = NoCall
        /\ mZoomUpdating' \in BOOLEAN /\ mZoomUpdate' \in BOOLEAN
    BY <1>3, Zenon DEF SetParametersZoom, ZoomTypeOK, IndexInRange
  <2> QED BY <2>1, <2>2, <2>3, <2>4, StagesAreIndices, Zenon
     DEF ZoomTypeOK, IndexInRange, StepDue, NoCall
<1>4. ASSUME GetParameters PROVE ZoomInv'
  <2>1. NoCall \in [op : {"none", "setParameters", "getParameters"},
                         sawZoom : BOOLEAN, zoom : Stages]
    BY ZoomAssumption DEF NoCall, Stages
  <2>2. mZoomParameterIdx' \in Indices
    BY <1>4, AddIsIndex, Zenon DEF GetParameters, ZoomTypeOK
  <2>3. zooming' \in BOOLEAN /\ (zooming' => zooming)
    BY <1>4, Zenon DEF GetParameters, ZoomTypeOK
  <2>4. /\ call' = NoCall
        /\ UNCHANGED <<mCurrentZoomIdx, mTargetZoomIdx, mPreviousZoomIndx, refused, flags>>
    BY <1>4 DEF GetParameters
  <2> QED BY <2>1, <2>2, <2>3, <2>4, Zenon DEF ZoomTypeOK, IndexInRange, StepDue, NoCall
<1>5. ASSUME NEW target \in Stages, StartSmoothZoom(target) PROVE ZoomInv'
  BY <1>5, StagesAreIndices, Zenon DEF StartSmoothZoom, ZoomTypeOK, IndexInRange,
     StepDue
<1>6. ASSUME StopSmoothZoom PROVE ZoomInv'
  BY <1>6, StepTowards, Zenon
     DEF StopSmoothZoom, ZoomTypeOK, IndexInRange, StepDue, NoCall
<1>7. ASSUME AdvanceZoom PROVE ZoomInv'
  <2>0. UNCHANGED <<mZoomParameterIdx, call>>
    BY <1>7, Zenon DEF AdvanceZoom
  <2>1. CASE LastStep
    <3>1. Add(mCurrentZoomIdx, mZoomInc) \in Stages
      BY <2>1, StepTowards, Zenon DEF LastStep, StepDue, IndexInRange
    <3>2. \E index \in Stages, failed \in BOOLEAN :
              Finish(index, failed, Add(mCurrentZoomIdx, mZoomInc))
      BY <2>1, AppliedIsStage, Zenon DEF LastStep, ZoomTypeOK
    <3>3. /\ mPreviousZoomIndx' \in Stages /\ refused' \in BOOLEAN
          /\ mZoomUpdating' \in BOOLEAN /\ mZoomUpdate' \in BOOLEAN
      BY <3>2, FinishTypes, Zenon
    <3> QED BY <2>0, <2>1, <3>1, <3>3, StagesAreIndices, Zenon
       DEF LastStep, ZoomTypeOK, IndexInRange, StepDue
  <2>2. CASE SmoothStep
    <3>1. /\ mZoomInc' \in {-1, 1}
          /\ mCurrentZoomIdx' \in Stages
      BY <2>2, StepTowards, Zenon DEF SmoothStep, IndexInRange
    <3>2. \E index \in Stages, failed \in BOOLEAN : Finish(index, failed, mTargetZoomIdx)
      BY <2>2, AppliedIsStage, Zenon DEF SmoothStep, ZoomTypeOK
    <3>3. /\ mPreviousZoomIndx' \in Stages /\ refused' \in BOOLEAN
          /\ mZoomUpdating' \in BOOLEAN /\ mZoomUpdate' \in BOOLEAN
      BY <3>2, FinishTypes, Zenon
    <3>4. zooming' \in BOOLEAN
      BY <2>2, Zenon DEF SmoothStep
    <3> QED BY <2>0, <2>2, <3>1, <3>3, <3>4, StagesAreIndices, Zenon
            DEF SmoothStep, ZoomTypeOK, IndexInRange, StepDue
  <2>3. CASE Settle
    <3>1. \E index \in Stages, failed \in BOOLEAN : Finish(index, failed, mTargetZoomIdx)
      BY <2>3, AppliedIsStage, Zenon DEF Settle, ZoomTypeOK
    <3>2. /\ mPreviousZoomIndx' \in Stages /\ refused' \in BOOLEAN
          /\ mZoomUpdating' \in BOOLEAN /\ mZoomUpdate' \in BOOLEAN
      BY <3>1, FinishTypes
    <3> QED BY <2>0, <2>3, <3>2, Zenon DEF Settle, ZoomTypeOK, IndexInRange, StepDue
  <2> QED BY <1>7, <2>1, <2>2, <2>3, Zenon DEF AdvanceZoom
<1>8. CASE UNCHANGED zoomVars
  BY <1>8, Zenon DEF zoomVars, ZoomTypeOK, IndexInRange, StepDue
<1> QED BY <1>1, <1>2, <1>3, <1>4, <1>5, <1>6, <1>7, <1>8, Zenon DEF ZoomNext

(* A waiting application keeps every index inside ZOOM_STEPS: the last     *)
(* step of a stopped smooth zoom never makes doZoom() fail.                *)
THEOREM ZoomStaysInRange ==
    ASSUME AppWaits
    PROVE  ZoomSpec => []IndexInRange
<1>1. ZoomInv /\ [ZoomNext]_zoomVars => ZoomInv'
  BY ZoomStep, Zenon
<1>2. ZoomInv => IndexInRange
  BY DEF ZoomInv
<1> QED BY <1>1, <1>2, ZoomStarts, PTL DEF ZoomSpec

-----------------------------------------------------------------------------
(* One step towards a stage is one stage. *)
LEMMA StepIsOne ==
    ASSUME NEW x \in Stages, NEW y \in Stages, x # y
    PROVE  Add(x, Direction(x, y)) = x + Direction(x, y)
<1>1. x + Direction(x, y) \in Stages
  BY ZoomAssumption DEF Stages, Direction
<1> QED BY <1>1, NoWrap, Zenon DEF Add

(* The adapter starts with the index the camera has. *)
LEMMA FollowInit == ZoomInit => FollowInv
BY
   DEF ZoomInit, FollowInv, ParameterFollows, ZoomApplied, ZoomUndisturbed,
       NoCall

(* Every step keeps what is shown behind the index, and the index with the *)
(* camera.                                                                 *)
LEMMA FollowStep ==
    ASSUME AppWaits, ZoomInv, FollowInv, [ZoomNext]_zoomVars
    PROVE  FollowInv'
<1> USE DEF FollowInv, indices, flags
<1>1. ASSUME NEW name, NEW zoom, BeginCall(name, zoom) PROVE FollowInv'
  BY <1>1, Zenon DEF BeginCall, ParameterFollows, ZoomApplied, ZoomUndisturbed
<1>2. ASSUME SetParametersZoom PROVE FollowInv'
  <2>1. CASE call.sawZoom \/ call.zoom \notin Stages
    BY <1>2, <2>1, Zenon
       DEF SetParametersZoom, ParameterFollows, ZoomApplied, ZoomUndisturbed,
           NoCall
  <2>2. CASE ~ (call.sawZoom \/ call.zoom \notin Stages)
    <3>1. ~ zooming /\ ~ zooming'
      BY <1>2, <2>2, Zenon DEF SetParametersZoom, ZoomUndisturbed
    <3>2. ZoomApplied'
      BY <1>2, <2>2, Zenon DEF SetParametersZoom, ZoomApplied
    <3>3. call' = NoCall
      BY <1>2, Zenon DEF SetParametersZoom
    <3> QED BY <3>1, <3>2, <3>3, Zenon DEF ParameterFollows, ZoomUndisturbed
  <2> QED BY <2>1, <2>2, Zenon
<1>3. ASSUME GetParameters PROVE FollowInv'
  <2>1. /\ call' = NoCall /\ (zooming' => zooming)
        /\ UNCHANGED <<mCurrentZoomIdx, mTargetZoomIdx, mPreviousZoomIndx, refused, flags>>
    BY <1>3, Zenon DEF GetParameters
  <2>2. ZoomApplied'
    BY <2>1, Zenon DEF ZoomApplied
  <2>3. ASSUME zooming, mZoomParameterIdx # mCurrentZoomIdx
        PROVE  /\ Add(mZoomParameterIdx, mZoomInc) = mZoomParameterIdx + mZoomInc
               /\ mZoomParameterIdx + mZoomInc \in Stages
               /\ mZoomInc = 1 => mZoomParameterIdx + mZoomInc <= mCurrentZoomIdx
               /\ mZoomInc = -1 => mZoomParameterIdx + mZoomInc >= mCurrentZoomIdx
    <3>1. /\ mZoomInc \in {-1, 1} /\ mCurrentZoomIdx \in Stages
          /\ mZoomParameterIdx \in Stages
          /\ mZoomInc = 1 => mZoomParameterIdx <= mCurrentZoomIdx
          /\ mZoomInc = -1 => mZoomParameterIdx >= mCurrentZoomIdx
      BY <2>3, Zenon DEF ZoomInv, ZoomTypeOK, IndexInRange, ParameterFollows
    <3>2. /\ mZoomParameterIdx + mZoomInc \in Stages
          /\ mZoomInc = 1 => mZoomParameterIdx + mZoomInc <= mCurrentZoomIdx
          /\ mZoomInc = -1 => mZoomParameterIdx + mZoomInc >= mCurrentZoomIdx
      BY <2>3, <3>1, ZoomAssumption DEF Stages
    <3> QED BY <3>2, NoWrap, Zenon DEF Add
  <2>4. ParameterFollows'
    BY <1>3, <2>1, <2>3, Zenon DEF GetParameters, ParameterFollows
  <2>5. zooming' /\ mZoomParameterIdx' # mCurrentZoomIdx => mZoomParameterIdx # mCurrentZoomIdx
    BY <1>3, Zenon DEF GetParameters
  <2>6. ZoomUndisturbed'
    BY <2>1, <2>5, Zenon DEF ZoomUndisturbed, NoCall
  <2> QED BY <2>2, <2>4, <2>6, Zenon
<1>4. ASSUME NEW target \in Stages, StartSmoothZoom(target) PROVE FollowInv'
  <2>1. ParameterFollows'
    BY <1>4, ZoomAssumption
       DEF StartSmoothZoom, ParameterFollows, ZoomInv, IndexInRange, Stages
  <2>2. ZoomApplied' /\ ZoomUndisturbed'
    BY <1>4, Zenon DEF StartSmoothZoom, ZoomApplied, ZoomUndisturbed, NoCall
  <2> QED BY <2>1, <2>2, Zenon
<1>5. ASSUME StopSmoothZoom PROVE FollowInv'
  BY <1>5, Zenon DEF StopSmoothZoom, ParameterFollows, ZoomApplied, ZoomUndisturbed
<1>6. ASSUME AdvanceZoom PROVE FollowInv'
  <2>0. UNCHANGED <<mZoomParameterIdx, call>>
    BY <1>6, Zenon DEF AdvanceZoom
  <2>1. CASE LastStep
    <3>1. ~ zooming'
      BY <2>1, Zenon DEF LastStep, ZoomInv, StepDue
    <3>2. ZoomApplied'
      BY <2>1, Zenon DEF LastStep, Finish, ZoomApplied
    <3> QED BY <3>1, <3>2, Zenon DEF ParameterFollows, ZoomUndisturbed
  <2>2. CASE SmoothStep
    <3>1. /\ zooming /\ ~ mZoomUpdate /\ mCurrentZoomIdx # mTargetZoomIdx
          /\ mCurrentZoomIdx \in Stages /\ mTargetZoomIdx \in Stages
          /\ mZoomInc' = Direction(mCurrentZoomIdx, mTargetZoomIdx)
          /\ mTargetZoomIdx' = mTargetZoomIdx
      BY <2>2, Zenon DEF SmoothStep, ZoomUndisturbed, ZoomInv, IndexInRange
    <3>2. mCurrentZoomIdx' = mCurrentZoomIdx + mZoomInc'
      BY <2>2, <3>1, StepIsOne, Zenon DEF SmoothStep
    <3>3. ZoomApplied' /\ ~ mZoomUpdate'
      BY <2>2, <3>1, Zenon DEF SmoothStep, Finish, ZoomApplied
    <3>4. \/ mZoomInc' = Direction(mCurrentZoomIdx', mTargetZoomIdx')
          \/ mCurrentZoomIdx' = mTargetZoomIdx'
      BY <3>1, <3>2, ZoomAssumption DEF Direction, Stages
    <3>5. ZoomUndisturbed'
      BY <2>0, <3>1, <3>3, <3>4, Zenon DEF ZoomUndisturbed
    <3>6. mZoomParameterIdx = mCurrentZoomIdx \/ mZoomInc = mZoomInc'
      BY <3>1, Zenon DEF ZoomUndisturbed
    <3>7. ParameterFollows'
      <4>1. mZoomInc' \in {-1, 1} /\ mZoomParameterIdx \in Stages
        BY <3>1, Zenon DEF Direction, ParameterFollows
      <4>2. /\ mZoomInc' = 1 => mZoomParameterIdx <= mCurrentZoomIdx
            /\ mZoomInc' = -1 => mZoomParameterIdx >= mCurrentZoomIdx
        BY <3>1, <3>6, ZoomAssumption DEF ParameterFollows, Stages
      <4> QED BY <2>0, <3>1, <3>2, <4>1, <4>2, ZoomAssumption
         DEF ParameterFollows, Stages
    <3> QED BY <3>3, <3>5, <3>7, Zenon
  <2>3. CASE Settle
    <3>1. ~ zooming'
      BY <2>3, Zenon DEF Settle
    <3>2. ZoomApplied'
      BY <2>3, Zenon DEF Settle, Finish, ZoomApplied
    <3> QED BY <3>1, <3>2 DEF ParameterFollows, ZoomUndisturbed
  <2> QED BY <1>6, <2>1, <2>2, <2>3, Zenon DEF AdvanceZoom
<1>7. CASE UNCHANGED zoomVars
  BY <1>7, Zenon DEF zoomVars, ParameterFollows, ZoomApplied, ZoomUndisturbed
<1> QED BY <1>1, <1>2, <1>3, <1>4, <1>5, <1>6, <1>7, Zenon DEF ZoomNext

(* The index getParameters() shows during a smooth zoom never runs past    *)
(* the index the callback thread has reached.                              *)
THEOREM ShownIndexFollows ==
    ASSUME AppWaits
    PROVE  ZoomSpec => []ParameterFollows
<1>1. ZoomInv /\ FollowInv /\ [ZoomNext]_zoomVars => (ZoomInv /\ FollowInv)'
  BY ZoomStep, FollowStep, Zenon
<1>2. FollowInv => ParameterFollows
  BY Zenon DEF FollowInv
<1> QED BY <1>1, <1>2, ZoomStarts, FollowInit, PTL DEF ZoomSpec

(* The adapter's index is the camera's, unless the camera refused it or an *)
(* immediate zoom waits for the next frame.                                *)
THEOREM CameraHasTheIndex ==
    ASSUME AppWaits
    PROVE  ZoomSpec => []ZoomApplied
<1>1. ZoomInv /\ FollowInv /\ [ZoomNext]_zoomVars => (ZoomInv /\ FollowInv)'
  BY ZoomStep, FollowStep
<1>2. FollowInv => ZoomApplied
  BY DEF FollowInv
<1> QED BY <1>1, <1>2, ZoomStarts, FollowInit, PTL DEF ZoomSpec

-----------------------------------------------------------------------------
(* The circulation of the buffers. *)
Undisturbed == ~ StopsVideo /\ ~ ZoomFails

(* How many callbacks a delivery makes. *)
LEMMA SubscriberCounts ==
    /\ Cardinality({"display"}) = 1
    /\ Cardinality({"notifier"}) = 1
    /\ Cardinality(Consumers) = 2
<1>1. Cardinality({"display"}) = 1 /\ Cardinality({"notifier"}) = 1
  BY FS_Singleton, Zenon
<1>2. Cardinality({"display"} \cup {"notifier"}) = Cardinality({"display"}) + 1
  BY FS_AddElement, FS_Singleton, Zenon
<1>3. Consumers = {"display"} \cup {"notifier"}
  BY DEF Consumers
<1> QED BY <1>1, <1>2, <1>3

(* The initial state is counted correctly. *)
LEMMA CirculationInit == FramesInit => FramesInv
<1> SUFFICES ASSUME FramesInit PROVE FramesInv
  BY Zenon
<1> USE CirculationAssumption DEF FramesInit, Consumers
<1>1. FramesTypeOK
  BY Zenon DEF FramesTypeOK, NoFrame, NoReturn, HandlerStates, ReturnCalls
<1>2. CountsMatchHolders
  BY DEF CountsMatchHolders, VideoCount, PreviewPending, VideoPending, NoFrame
<1>3. RecordingInv
  BY Zenon DEF RecordingInv
<1>4. HandlerInv /\ ReturnInv
  BY Zenon DEF HandlerInv, ReturnInv, PreviewPending, VideoPending, NoFrame
<1>5. CameraInv
  BY DEF CameraInv, VideoCount, NoFrame, NoReturn
<1> QED BY <1>1, <1>2, <1>3, <1>4, <1>5 DEF FramesInv

(* While recording goes on, and for preview counts always, a lookup finds  *)
(* the count of its buffer.                                                *)
LEMMA KnownCount ==
    ASSUME FramesInv, NEW b \in Buffers, NEW type, recording \/ type # "VIDEO"
    PROVE  Known(b, type) /\ FrameRefCount(b, type) = {RefCount(b, type)}
BY Zenon DEF FramesInv, RecordingInv, Known, FrameRefCount

(* The second half of returnFrame() queues a buffer nobody refers to. *)
LEMMA ReturnFrameStep == FramesInv /\ ReturnFrame => FramesInv'
<1> SUFFICES ASSUME FramesInv, ReturnFrame PROVE FramesInv'
  BY Zenon
<1> USE CirculationAssumption
<1> DEFINE b == returning.buf
<1>1. b \in Buffers /\ b # None /\ returning # NoReturn
  BY Zenon DEF FramesInv, ReturnInv, ReturnFrame
<1>2. ducati[b] = 0
  BY <1>1, Zenon DEF FramesInv, CameraInv
<1>3. ducati' = IF mPreviewBuffersAvailable[b] = 0 /\ VideoCount(b) = 0
                THEN [ducati EXCEPT ![b] = 1] ELSE ducati
  <2> DEFINE n == IF recording THEN RefCount(b, OtherType(returning.type)) ELSE 0
  <2>1. ducati' = IF returning.refCount + n = 0 THEN [ducati EXCEPT ![b] = @ + 1] ELSE ducati
    BY <1>1, KnownCount DEF ReturnFrame
  <2>2. mPreviewBuffersAvailable[b] \in Nat /\ VideoCount(b) \in Nat
    BY <1>1, Zenon DEF FramesInv, FramesTypeOK, VideoCount
  <2>3. returning.type \in {"PREVIEW", "VIDEO"} /\ ~ recording => VideoCount(b) = 0
    BY <1>1, Zenon DEF FramesInv, FramesTypeOK, ReturnCalls, RecordingInv, VideoCount
  <2>4. returning.refCount + n = mPreviewBuffersAvailable[b] + VideoCount(b)
    BY <1>1, <2>2, <2>3 DEF FramesInv, ReturnInv, RecordingInv, RefCount, OtherType, VideoCount
  <2> QED BY <2>1, <2>2, <2>4, <1>1, <1>2 DEF FramesInv, FramesTypeOK
<1>4. FramesTypeOK'
  <2>1. ducati' \in [Buffers -> Nat]
    BY <1>1, <1>3, Zenon DEF FramesInv, FramesTypeOK
  <2>2. returning' \in ReturnCalls
    BY Zenon DEF ReturnFrame, NoReturn, ReturnCalls
  <2>3. UNCHANGED <<counts, recording, subscribers, held, heldVideo, fbd, hal, visit>>
    BY Zenon DEF ReturnFrame
  <2> QED BY <2>1, <2>2, <2>3, Zenon DEF FramesInv, FramesTypeOK, counts, subscribers
<1>5. CountsMatchHolders' /\ RecordingInv' /\ HandlerInv'
  BY Zenon DEF FramesInv, ReturnFrame, counts, subscribers, CountsMatchHolders, RecordingInv,
     HandlerInv,
         VideoCount, PreviewPending, VideoPending
<1>6. ReturnInv'
  BY DEF ReturnFrame, ReturnInv
<1>7. CameraInv'
  <2> SUFFICES ASSUME NEW q \in Buffers
               PROVE  ducati'[q] = IF \/ mPreviewBuffersAvailable[q] > 0
                                      \/ VideoCount(q) > 0
                                      \/ fbd.at = "count" /\ fbd.buf = q
                                   THEN 0 ELSE 1
    BY Zenon DEF ReturnFrame, CameraInv, VideoCount, counts, NoReturn
  <2>1. mPreviewBuffersAvailable[q] \in Nat /\ VideoCount(q) \in Nat
    BY Zenon DEF FramesInv, FramesTypeOK, VideoCount
  <2>2. CASE q = b
    BY <2>1, <2>2, <1>1, <1>3, <1>2 DEF FramesInv, ReturnInv, FramesTypeOK
  <2>3. CASE q # b
    BY <2>1, <2>3, <1>1, <1>3, Zenon DEF FramesInv, CameraInv, FramesTypeOK
  <2> QED BY <2>2, <2>3, Zenon
<1> QED BY <1>4, <1>5, <1>6, <1>7, Zenon DEF FramesInv

(* The counts are natural numbers, also where the video map has no key. *)
LEMMA CountTypes ==
    ASSUME FramesInv, NEW q \in Buffers
    PROVE  /\ mPreviewBuffersAvailable[q] \in Nat
           /\ VideoCount(q) \in Nat
           /\ heldVideo[q] \in Nat
           /\ held["display"][q] \in Nat
           /\ held["notifier"][q] \in Nat
BY Zenon DEF FramesInv, FramesTypeOK, VideoCount, Consumers

(* A consumer's return takes one reference of a buffer that has one. *)
LEMMA ConsumerReturnsStep ==
    ASSUME FramesInv, NEW c \in Consumers, NEW b \in Buffers, ConsumerReturns(c, b)
    PROVE  FramesInv'
<1> USE CirculationAssumption
<1>0. /\ mPreviewBuffersAvailable[b] \in Nat
      /\ held["display"][b] \in Nat /\ held["notifier"][b] \in Nat
  BY CountTypes, Zenon
<1>1. held[c][b] > 0 /\ ~ PreviewPending(b)
  BY DEF FramesInv, ConsumerReturns, HandlerInv
<1>2. mPreviewBuffersAvailable[b] = held["display"][b] + held["notifier"][b]
  BY <1>0, <1>1 DEF FramesInv, CountsMatchHolders
<1>3. mPreviewBuffersAvailable[b] > 0
  BY <1>0, <1>1, <1>2 DEF Consumers
<1>4. /\ returning' = [buf |-> b, type |-> "PREVIEW", by |-> c,
                       refCount |-> mPreviewBuffersAvailable[b] - 1]
      /\ mPreviewBuffersAvailable' = [mPreviewBuffersAvailable EXCEPT ![b] = @ - 1]
      /\ mVideoBuffersAvailable' = mVideoBuffersAvailable
  <2>1. FrameRefCount(b, "PREVIEW") = {mPreviewBuffersAvailable[b]}
    BY KnownCount, Zenon DEF RefCount
  <2> QED BY <2>1, <1>0, <1>3 DEF ConsumerReturns, TakeReference, SetFrameRefCount
<1>5. held' = [held EXCEPT ![c][b] = @ - 1]
  BY Zenon DEF ConsumerReturns
<1>6. UNCHANGED <<recording, subscribers, ducati, heldVideo, fbd, hal, visit>>
  BY Zenon DEF ConsumerReturns
<1>7. FramesTypeOK'
  <2>1. mPreviewBuffersAvailable' \in [Buffers -> Nat]
    BY <1>0, <1>3, <1>4 DEF FramesInv, FramesTypeOK
  <2>2. returning' \in ReturnCalls
    BY <1>0, <1>3, <1>4 DEF ReturnCalls
  <2>3. held' \in [Consumers -> [Buffers -> Nat]]
    BY <1>1, <1>5 DEF FramesInv, FramesTypeOK
  <2> QED BY <2>1, <2>2, <2>3, <1>4, <1>6, Zenon DEF FramesInv, FramesTypeOK, subscribers
<1>8. CountsMatchHolders'
  <2> SUFFICES ASSUME NEW q \in Buffers
               PROVE  /\ mPreviewBuffersAvailable'[q] = held'["display"][q] + held'["notifier"][q]
                            + (IF PreviewPending(q) THEN Cardinality(mFrameSubscribers) ELSE 0)
                      /\ VideoCount(q) = heldVideo[q] + (IF VideoPending(q) THEN 1 ELSE 0)
    BY <1>4, <1>6, Zenon DEF CountsMatchHolders, VideoCount, PreviewPending, VideoPending, subscribers
  <2>1. CASE q = b
    BY <2>1, <1>1, <1>2, <1>4, <1>5, <1>0 DEF FramesInv, CountsMatchHolders, FramesTypeOK, Consumers
  <2>2. CASE q # b
    BY <2>2, <1>4, <1>5, Zenon DEF FramesInv, CountsMatchHolders, FramesTypeOK, Consumers
  <2> QED BY <2>1, <2>2, Zenon
<1>9. RecordingInv'
  BY <1>4, <1>6, Zenon DEF FramesInv, RecordingInv, subscribers
<1>10. HandlerInv'
  <2>1. fbd.at = "count" => fbd.buf # b
    BY <1>3 DEF FramesInv, HandlerInv
  <2>2. fbd.at = "count" => mPreviewBuffersAvailable'[fbd.buf] = 0 /\ VideoCount(fbd.buf)' = 0
    BY <2>1, <1>4, <1>6, Zenon DEF FramesInv, HandlerInv, FramesTypeOK, VideoCount
  <2>3. \A q \in Buffers : PreviewPending(q) => \A d \in Consumers : held'[d][q] = 0
    BY <1>1, <1>5, Zenon DEF FramesInv, HandlerInv, FramesTypeOK
  <2> QED BY <2>2, <2>3, <1>6, Zenon DEF FramesInv, HandlerInv, VideoCount, PreviewPending,
             VideoPending
<1>11. ReturnInv'
  <2>1. fbd.at = "count" => fbd.buf # b
    BY <1>3 DEF FramesInv, HandlerInv
  <2> QED BY <2>1, <1>4, <1>6, Zenon DEF FramesInv, ReturnInv, FramesTypeOK
<1>12. CameraInv'
  <2>1. returning.buf # b /\ returning.buf \notin Buffers
    BY DEF ConsumerReturns, TakeReference, NoReturn
  <2>2. ducati[b] = 0
    BY <1>3, Zenon DEF FramesInv, CameraInv
  <2> SUFFICES ASSUME NEW q \in Buffers
               PROVE  ducati[q] = IF \/ mPreviewBuffersAvailable'[q] > 0
                                     \/ VideoCount(q) > 0
                                     \/ q = b
                                     \/ fbd.at = "count" /\ fbd.buf = q
                                  THEN 0 ELSE 1
    BY <1>4, <1>6, Zenon DEF CameraInv, VideoCount
  <2>3. CASE q = b
    BY <2>2, <2>3, Zenon
  <2>4. CASE q # b
    BY <2>1, <2>4, <1>4, Zenon DEF FramesInv, CameraInv, FramesTypeOK
  <2> QED BY <2>3, <2>4, Zenon
<1> QED BY <1>7, <1>8, <1>9, <1>10, <1>11, <1>12, Zenon DEF FramesInv

(* The encoder's return does the same with the video count. *)
LEMMA EncoderReturnsStep ==
    ASSUME FramesInv, NEW b \in Buffers, EncoderReturns(b)
    PROVE  FramesInv'
<1> USE CirculationAssumption
<1>0. VideoCount(b) \in Nat /\ heldVideo[b] \in Nat
  BY CountTypes, Zenon
<1>1. heldVideo[b] > 0 /\ ~ VideoPending(b)
  BY DEF FramesInv, EncoderReturns, HandlerInv
<1>2. VideoCount(b) = heldVideo[b] /\ VideoCount(b) > 0
  BY <1>0, <1>1 DEF FramesInv, CountsMatchHolders
<1>3. recording /\ mVideoBuffersAvailable \in [Buffers -> Nat]
  BY <1>2 DEF FramesInv, RecordingInv, FramesTypeOK, VideoCount
<1>4. /\ returning' = [buf |-> b, type |-> "VIDEO", by |-> "encoder",
                       refCount |-> mVideoBuffersAvailable[b] - 1]
      /\ mVideoBuffersAvailable' = [mVideoBuffersAvailable EXCEPT ![b] = @ - 1]
      /\ mPreviewBuffersAvailable' = mPreviewBuffersAvailable
  <2>1. Known(b, "VIDEO") /\ FrameRefCount(b, "VIDEO") = {mVideoBuffersAvailable[b]}
    BY <1>3, KnownCount, Zenon DEF RefCount
  <2>2. mVideoBuffersAvailable[b] # 0
    BY <1>2, <1>3 DEF VideoCount
  <2> QED BY <2>1, <2>2, <1>3, Zenon DEF EncoderReturns, TakeReference, SetFrameRefCount
<1>5. heldVideo' = [heldVideo EXCEPT ![b] = @ - 1]
  BY Zenon DEF EncoderReturns
<1>6. UNCHANGED <<recording, subscribers, ducati, held, fbd, hal, visit>>
  BY Zenon DEF EncoderReturns
<1>7. \A q \in Buffers : VideoCount(q)' = IF q = b THEN VideoCount(q) - 1 ELSE VideoCount(q)
  BY <1>3, <1>4, Zenon DEF VideoCount
<1>8. FramesTypeOK'
  <2>1. mVideoBuffersAvailable' \in [Buffers -> Nat]
    BY <1>2, <1>3, <1>4 DEF VideoCount
  <2>2. returning' \in ReturnCalls
    BY <1>2, <1>3, <1>4 DEF ReturnCalls, VideoCount
  <2>3. heldVideo \in [Buffers -> Nat] /\ heldVideo[b] - 1 \in Nat
    BY <1>0, <1>1 DEF FramesInv, FramesTypeOK
  <2>4. heldVideo' \in [Buffers -> Nat]
    BY <2>3, <1>5, Zenon
  <2> QED BY <2>1, <2>2, <2>4, <1>4, <1>6, Zenon DEF FramesInv, FramesTypeOK, subscribers
<1>9. CountsMatchHolders'
  <2> SUFFICES ASSUME NEW q \in Buffers
               PROVE  /\ mPreviewBuffersAvailable[q] = held["display"][q] + held["notifier"][q]
                            + (IF PreviewPending(q) THEN Cardinality(mFrameSubscribers) ELSE 0)
                      /\ VideoCount(q)' = heldVideo'[q] + (IF VideoPending(q) THEN 1 ELSE 0)
    BY <1>4, <1>6, Zenon DEF CountsMatchHolders, PreviewPending, VideoPending, subscribers
  <2>1. CASE q = b
    BY <2>1, <1>0, <1>1, <1>2, <1>5, <1>7 DEF FramesInv, CountsMatchHolders, FramesTypeOK
  <2>2. CASE q # b
    BY <2>2, <1>5, <1>7, Zenon DEF FramesInv, CountsMatchHolders, FramesTypeOK
  <2> QED BY <2>1, <2>2, Zenon
<1>10. RecordingInv'
  BY <1>3, <1>4, <1>6, Zenon DEF FramesInv, RecordingInv, subscribers
<1>11. fbd.at = "count" => fbd.buf # b
  BY <1>2 DEF FramesInv, HandlerInv
<1>12. HandlerInv'
  <2>1. fbd.at = "count" => mPreviewBuffersAvailable[fbd.buf] = 0 /\ VideoCount(fbd.buf)' = 0
    BY <1>3, <1>4, <1>6, <1>11, Zenon DEF FramesInv, HandlerInv, VideoCount
  <2>2. \A q \in Buffers : VideoPending(q) => heldVideo'[q] = 0
    BY <1>1, <1>5, Zenon DEF FramesInv, HandlerInv, FramesTypeOK
  <2> QED BY <2>1, <2>2, <1>4, <1>6, Zenon DEF FramesInv, HandlerInv, PreviewPending, VideoPending
<1>13. ReturnInv'
  BY <1>3, <1>4, <1>6, <1>7, <1>11, Zenon DEF ReturnInv, VideoCount
<1>14. CameraInv'
  <2>1. returning.buf \notin Buffers
    BY Zenon DEF EncoderReturns, TakeReference, NoReturn
  <2>2. ducati[b] = 0
    BY <1>2, Zenon DEF FramesInv, CameraInv
  <2> SUFFICES ASSUME NEW q \in Buffers
               PROVE  ducati[q] = IF \/ mPreviewBuffersAvailable[q] > 0
                                     \/ VideoCount(q)' > 0
                                     \/ q = b
                                     \/ fbd.at = "count" /\ fbd.buf = q
                                  THEN 0 ELSE 1
    BY <1>4, <1>6, Zenon DEF CameraInv
  <2>3. CASE q = b
    BY <2>2, <2>3, Zenon
  <2>4. CASE q # b
    BY <2>1, <2>4, <1>7, Zenon DEF FramesInv, CameraInv
  <2> QED BY <2>3, <2>4, Zenon
<1> QED BY <1>8, <1>9, <1>10, <1>12, <1>13, <1>14, Zenon DEF FramesInv

(* A buffer comes back from the camera counted nowhere. *)
LEMMA FillBufferDoneStep ==
    ASSUME FramesInv, NEW b \in Buffers, NEW type \in {"PREVIEW", "SNAPSHOT"},
           FillBufferDone(b, type)
    PROVE  FramesInv'
<1> USE CirculationAssumption
<1>1. /\ mPreviewBuffersAvailable[b] \in Nat /\ VideoCount(b) \in Nat
      /\ ducati[b] > 0
  BY CountTypes, Zenon DEF FillBufferDone
<1>2. /\ ducati[b] = 1 /\ mPreviewBuffersAvailable[b] = 0 /\ VideoCount(b) = 0
      /\ returning.buf # b
  BY <1>1 DEF FramesInv, CameraInv
<1>3. fbd' = [at |-> "count", buf |-> b, type |-> type, video |-> recording]
  BY Zenon DEF FillBufferDone
<1>4. ducati' = [ducati EXCEPT ![b] = 0]
  BY <1>2 DEF FillBufferDone
<1>5. UNCHANGED <<mPreviewBuffersAvailable, mVideoBuffersAvailable, recording, mFrameSubscribers,
                  mVideoSubscribers, held, heldVideo, returning, hal, visit>>
  BY Zenon DEF FillBufferDone, counts, subscribers
<1>6. fbd.at = "idle"
  BY Zenon DEF FillBufferDone, NoFrame
<1>7. FramesTypeOK'
  <2>1. fbd' \in HandlerStates
    BY <1>3, Zenon DEF HandlerStates, FramesInv, FramesTypeOK
  <2>2. ducati' \in [Buffers -> Nat]
    BY <1>4, Zenon DEF FramesInv, FramesTypeOK
  <2> QED BY <2>1, <2>2, <1>5, Zenon DEF FramesInv, FramesTypeOK
<1>8. CountsMatchHolders'
  BY <1>3, <1>5, <1>6, Zenon DEF FramesInv, CountsMatchHolders, PreviewPending, VideoPending,
     VideoCount
<1>9. RecordingInv'
  BY <1>5, Zenon DEF FramesInv, RecordingInv
<1>10. HandlerInv'
  BY <1>2, <1>3, <1>5, Zenon DEF HandlerInv, PreviewPending, VideoPending, VideoCount
<1>11. ReturnInv'
  BY <1>2, <1>3, <1>5, Zenon DEF FramesInv, ReturnInv, VideoCount
<1>12. CameraInv'
  BY <1>2, <1>3, <1>4, <1>5, <1>6, Zenon DEF FramesInv, CameraInv, VideoCount, FramesTypeOK
<1> QED BY <1>7, <1>8, <1>9, <1>10, <1>11, <1>12, Zenon DEF FramesInv

(* Counting gives one pending reference to every subscriber. *)
LEMMA SetInitFrameRefCountStep == ASSUME FramesInv, SetInitFrameRefCount PROVE FramesInv'
<1> USE CirculationAssumption
<1> DEFINE b == fbd.buf
           n == Cardinality(mFrameSubscribers)
<1>1. /\ fbd.at = "count" /\ b \in Buffers
      /\ mPreviewBuffersAvailable[b] = 0 /\ VideoCount(b) = 0
  BY Zenon DEF SetInitFrameRefCount, FramesInv, HandlerInv
<1>2. /\ \A c \in Consumers : held[c][b] = 0
      /\ heldVideo[b] = 0
      /\ ~ PreviewPending(b) /\ ~ VideoPending(b)
  <2>1. ~ PreviewPending(b) /\ ~ VideoPending(b)
    BY <1>1, Zenon DEF PreviewPending, VideoPending
  <2>2. /\ held["display"][b] \in Nat /\ held["notifier"][b] \in Nat
        /\ heldVideo[b] \in Nat
    BY <1>1, CountTypes, Zenon
  <2> QED BY <1>1, <2>1, <2>2 DEF FramesInv, CountsMatchHolders, Consumers
<1>3. n \in {1, 2}
  BY SubscriberCounts, Zenon DEF FramesInv, RecordingInv
<1>4. fbd.video => /\ recording /\ mVideoBuffersAvailable \in [Buffers -> Nat]
                   /\ Cardinality(mVideoSubscribers) = 1
  BY SubscriberCounts, Zenon DEF FramesInv, HandlerInv, RecordingInv, FramesTypeOK
<1>5. mPreviewBuffersAvailable' = [mPreviewBuffersAvailable EXCEPT ![b] = n]
  BY DEF SetInitFrameRefCount
<1>6. mVideoBuffersAvailable' = IF fbd.video THEN [mVideoBuffersAvailable EXCEPT ![b] = 1]
                                ELSE mVideoBuffersAvailable
  BY <1>1, <1>4, Zenon DEF SetInitFrameRefCount
<1>7. /\ fbd' = [fbd EXCEPT !.at = IF fbd.type = "SNAPSHOT" /\ fbd.video
                                   THEN "video" ELSE "preview"]
      /\ fbd \in HandlerStates
  BY Zenon DEF SetInitFrameRefCount, FramesInv, FramesTypeOK
<1>8. UNCHANGED <<recording, mFrameSubscribers, mVideoSubscribers, ducati, held, heldVideo,
                  returning, hal, visit>>
  BY Zenon DEF SetInitFrameRefCount, subscribers, holders
<1>9. \A q \in Buffers : VideoCount(q)' = IF q = b /\ fbd.video THEN 1 ELSE VideoCount(q)
  BY <1>4, <1>6, Zenon DEF VideoCount
<1>10. /\ fbd'.buf = b /\ fbd'.type = fbd.type /\ fbd'.video = fbd.video
       /\ fbd'.at = IF fbd.type = "SNAPSHOT" /\ fbd.video THEN "video" ELSE "preview"
       /\ fbd.type \in {"PREVIEW", "SNAPSHOT"} /\ fbd.video \in BOOLEAN
       /\ fbd' \in HandlerStates
  BY <1>7, Zenon DEF HandlerStates
<1>11. \A q \in Buffers : PreviewPending(q)' <=> q = b
  BY <1>10, Zenon DEF PreviewPending
<1>12. \A q \in Buffers : VideoPending(q)' <=> q = b /\ fbd.video
  BY <1>10, Zenon DEF VideoPending
<1>13. FramesTypeOK'
  <2>1. mPreviewBuffersAvailable' \in [Buffers -> Nat]
    <3>1. mPreviewBuffersAvailable \in [Buffers -> Nat]
      BY Zenon DEF FramesInv, FramesTypeOK
    <3> HIDE DEF n
    <3>2. n \in Nat
      BY <1>3
    <3> QED BY <3>1, <3>2, <1>1, <1>5, Zenon
  <2>2. mVideoBuffersAvailable' \in [Buffers -> Nat] \cup [{} -> Nat]
    BY <1>4, <1>6, Zenon DEF FramesInv, FramesTypeOK
  <2> QED BY <2>1, <2>2, <1>8, <1>10, Zenon DEF FramesInv, FramesTypeOK
<1>14. CountsMatchHolders'
  <2> SUFFICES ASSUME NEW q \in Buffers
               PROVE  /\ mPreviewBuffersAvailable'[q] = held["display"][q] + held["notifier"][q]
                            + (IF q = b THEN n ELSE 0)
                      /\ VideoCount(q)' = heldVideo[q] + (IF q = b /\ fbd.video THEN 1 ELSE 0)
    BY <1>8, <1>11, <1>12, Zenon DEF CountsMatchHolders
  <2>1. CASE q = b
    <3>1. mPreviewBuffersAvailable \in [Buffers -> Nat]
      BY Zenon DEF FramesInv, FramesTypeOK
    <3>2. held["display"][b] = 0 /\ held["notifier"][b] = 0
      BY <1>2, Zenon DEF Consumers
    <3> HIDE DEF n
    <3> QED BY <3>1, <3>2, <2>1, <1>1, <1>2, <1>3, <1>5, <1>9
  <2>2. CASE q # b
    <3>1. ~ PreviewPending(q) /\ ~ VideoPending(q)
      BY <2>2, Zenon DEF PreviewPending, VideoPending
    <3> QED BY <3>1, <2>2, <1>5, <1>9, Zenon DEF FramesInv, CountsMatchHolders, FramesTypeOK
  <2> QED BY <2>1, <2>2, Zenon
<1>15. RecordingInv'
  BY <1>6, <1>8, Zenon DEF FramesInv, RecordingInv
<1>16. HandlerInv'
  BY <1>1, <1>2, <1>4, <1>8, <1>10, <1>11, <1>12, Zenon DEF HandlerInv
<1>17. ReturnInv'
  <2>1. returning # NoReturn => returning.buf # b
    BY <1>1, Zenon DEF FramesInv, ReturnInv
  <2> QED BY <2>1, <1>5, <1>8, <1>9, <1>10, Zenon DEF FramesInv, ReturnInv, FramesTypeOK
<1>18. CameraInv'
  <2> SUFFICES ASSUME NEW q \in Buffers
               PROVE  ducati[q] = IF \/ mPreviewBuffersAvailable'[q] > 0
                                     \/ VideoCount(q)' > 0
                                     \/ returning.buf = q
                                  THEN 0 ELSE 1
    BY <1>8, <1>10, Zenon DEF CameraInv
  <2>1. CASE q = b
    BY <2>1, <1>1, <1>3, <1>5 DEF FramesInv, CameraInv, FramesTypeOK
  <2>2. CASE q # b
    BY <2>2, <1>5, <1>9, Zenon DEF FramesInv, CameraInv, FramesTypeOK
  <2> QED BY <2>1, <2>2, Zenon
<1> QED BY <1>13, <1>14, <1>15, <1>16, <1>17, <1>18, Zenon DEF FramesInv

(* Delivery turns the pending references into held ones. *)
LEMMA SendPreviewStep == ASSUME FramesInv, SendPreview PROVE FramesInv'
<1> USE CirculationAssumption
<1> DEFINE b == fbd.buf
           n == Cardinality(mFrameSubscribers)
<1>1. /\ fbd.at = "preview" /\ b \in Buffers /\ PreviewPending(b)
      /\ fbd \in HandlerStates
  BY Zenon DEF SendPreview, FramesInv, HandlerInv, PreviewPending, FramesTypeOK
<1>2. held["display"][b] = 0 /\ held["notifier"][b] = 0
  BY <1>1, Zenon DEF FramesInv, HandlerInv, Consumers
<1>3. n \in {1, 2} /\ (mFrameSubscribers = {"display"} => n = 1)
      /\ (mFrameSubscribers = Consumers => n = 2)
      /\ mFrameSubscribers \in {{"display"}, Consumers}
  BY SubscriberCounts, Zenon DEF FramesInv, RecordingInv
<1>4. mPreviewBuffersAvailable[b] = n
  <2>1. mPreviewBuffersAvailable[b] = 0 + 0 + n
    BY <1>1, <1>2, Zenon DEF FramesInv, CountsMatchHolders
  <2> HIDE DEF n
  <2> QED BY <2>1, <1>3
<1>5. /\ held' = [c \in Consumers |-> IF c \in mFrameSubscribers
                                      THEN [held[c] EXCEPT ![b] = @ + 1] ELSE held[c]]
      /\ fbd' = [fbd EXCEPT !.at = IF fbd.video /\ fbd.type = "PREVIEW" THEN "video" ELSE "zoom"]
  <2>1. ~ (n = 0 \/ n > n)
    BY <1>3
  <2> QED BY <2>1, <1>4, Zenon DEF SendPreview, RefCount
<1>6. UNCHANGED <<mPreviewBuffersAvailable, mVideoBuffersAvailable, recording, mFrameSubscribers,
                  mVideoSubscribers, ducati, heldVideo, returning, hal, visit>>
  BY Zenon DEF SendPreview, counts, subscribers
<1>7. /\ fbd'.buf = b /\ fbd'.type = fbd.type /\ fbd'.video = fbd.video
      /\ fbd'.at = IF fbd.video /\ fbd.type = "PREVIEW" THEN "video" ELSE "zoom"
      /\ fbd.type \in {"PREVIEW", "SNAPSHOT"}
      /\ fbd' \in HandlerStates
  BY <1>1, <1>5, Zenon DEF HandlerStates
<1>8. \A q \in Buffers : /\ ~ PreviewPending(q)'
                         /\ PreviewPending(q) <=> q = b
                         /\ VideoPending(q)' <=> VideoPending(q)
  BY <1>1, <1>7, Zenon DEF PreviewPending, VideoPending
<1>9. FramesTypeOK'
  <2>1. held \in [Consumers -> [Buffers -> Nat]]
    BY Zenon DEF FramesInv, FramesTypeOK
  <2>2. \A c \in Consumers : [held[c] EXCEPT ![b] = @ + 1] \in [Buffers -> Nat]
    BY <2>1, <1>1
  <2>3. held' \in [Consumers -> [Buffers -> Nat]]
    BY <2>1, <2>2, <1>5, Zenon
  <2> QED BY <2>3, <1>6, <1>7, Zenon DEF FramesInv, FramesTypeOK
<1>10. CountsMatchHolders'
  <2>1. \A q \in Buffers : VideoCount(q)' = heldVideo'[q] + (IF VideoPending(q)' THEN 1 ELSE 0)
    BY <1>6, <1>8, Zenon DEF FramesInv, CountsMatchHolders, VideoCount
  <2>2. ASSUME NEW q \in Buffers
        PROVE  mPreviewBuffersAvailable[q] = held'["display"][q] + held'["notifier"][q] + 0
    <3>1. held \in [Consumers -> [Buffers -> Nat]]
      BY Zenon DEF FramesInv, FramesTypeOK
    <3>2. CASE q = b
      BY <3>1, <3>2, <1>1, <1>2, <1>3, <1>4, <1>5 DEF Consumers
    <3>3. CASE q # b
      <4>1. mPreviewBuffersAvailable[q] = held["display"][q] + held["notifier"][q] + 0
        BY <3>3, <1>8, Zenon DEF FramesInv, CountsMatchHolders
      <4>2. held'["display"][q] = held["display"][q] /\ held'["notifier"][q] = held["notifier"][q]
        BY <3>1, <3>3, <1>5, Zenon DEF Consumers
      <4> QED BY <4>1, <4>2, Zenon
    <3> QED BY <3>2, <3>3, Zenon
  <2> QED BY <2>1, <2>2, <1>6, <1>8, Zenon DEF CountsMatchHolders
<1>11. RecordingInv'
  BY <1>6, Zenon DEF FramesInv, RecordingInv
<1>12. HandlerInv'
  BY <1>1, <1>6, <1>7, <1>8, Zenon DEF FramesInv, HandlerInv
<1>13. ReturnInv'
  BY <1>6, <1>7, Zenon DEF FramesInv, ReturnInv, VideoCount
<1>14. CameraInv'
  BY <1>1, <1>6, <1>7, Zenon DEF FramesInv, CameraInv, VideoCount
<1> QED BY <1>9, <1>10, <1>11, <1>12, <1>13, <1>14 DEF FramesInv

(* The same for the video reference. *)
LEMMA SendVideoStep == ASSUME FramesInv, SendVideo PROVE FramesInv'
<1> USE CirculationAssumption
<1> DEFINE b == fbd.buf
<1>1. /\ fbd.at = "video" /\ b \in Buffers /\ VideoPending(b) /\ fbd.video /\ recording
      /\ fbd \in HandlerStates
  BY Zenon DEF SendVideo, FramesInv, HandlerInv, VideoPending, FramesTypeOK
<1>2. heldVideo[b] = 0 /\ VideoCount(b) = 1
  BY <1>1 DEF FramesInv, HandlerInv, CountsMatchHolders
<1>3. mVideoBuffersAvailable[b] = 1 /\ Cardinality(mVideoSubscribers) = 1
  BY <1>1, <1>2, SubscriberCounts, Zenon DEF FramesInv, RecordingInv, VideoCount
<1>4. /\ heldVideo' = [heldVideo EXCEPT ![b] = @ + 1]
      /\ fbd' = [fbd EXCEPT !.at = IF fbd.type = "SNAPSHOT" THEN "preview" ELSE "zoom"]
  <2>1. FrameRefCount(b, "VIDEO") = {1}
    BY <1>1, <1>3, KnownCount, Zenon DEF RefCount
  <2> QED BY <2>1, <1>3 DEF SendVideo
<1>5. UNCHANGED <<mPreviewBuffersAvailable, mVideoBuffersAvailable, recording, mFrameSubscribers,
                  mVideoSubscribers, ducati, held, returning, hal, visit>>
  BY DEF SendVideo, counts, subscribers
<1>6. /\ fbd'.buf = b /\ fbd'.type = fbd.type /\ fbd'.video = fbd.video
      /\ fbd'.at = IF fbd.type = "SNAPSHOT" THEN "preview" ELSE "zoom"
      /\ fbd.type \in {"PREVIEW", "SNAPSHOT"}
      /\ fbd' \in HandlerStates
  BY <1>1, <1>4, Zenon DEF HandlerStates
<1>7. \A q \in Buffers : /\ PreviewPending(q)' <=> PreviewPending(q)
                         /\ VideoPending(q) <=> q = b
                         /\ ~ VideoPending(q)'
  BY <1>1, <1>6, Zenon DEF PreviewPending, VideoPending
<1>8. FramesTypeOK'
  <2>1. heldVideo' \in [Buffers -> Nat]
    <3>1. heldVideo \in [Buffers -> Nat]
      BY DEF FramesInv, FramesTypeOK
    <3> QED BY <3>1, <1>1, <1>4
  <2> QED BY <2>1, <1>5, <1>6, Zenon DEF FramesInv, FramesTypeOK
<1>9. CountsMatchHolders'
  <2>1. \A q \in Buffers :
          mPreviewBuffersAvailable'[q] = held'["display"][q] + held'["notifier"][q]
            + (IF PreviewPending(q)' THEN Cardinality(mFrameSubscribers)' ELSE 0)
    BY <1>5, <1>7, Zenon DEF FramesInv, CountsMatchHolders
  <2>2. ASSUME NEW q \in Buffers PROVE VideoCount(q)' = heldVideo'[q] + 0
    <3>1. heldVideo \in [Buffers -> Nat] /\ VideoCount(q)' = VideoCount(q)
      BY <1>5, Zenon DEF FramesInv, FramesTypeOK, VideoCount
    <3>2. CASE q = b
      BY <3>1, <3>2, <1>2, <1>4
    <3>3. CASE q # b
      BY <3>1, <3>3, <1>4, <1>7, Zenon DEF FramesInv, CountsMatchHolders
    <3> QED BY <3>2, <3>3, Zenon
  <2> QED BY <2>1, <2>2, <1>7, Zenon DEF CountsMatchHolders
<1>10. RecordingInv'
  BY <1>5, Zenon DEF FramesInv, RecordingInv
<1>11. HandlerInv'
  BY <1>1, <1>5, <1>6, <1>7, Zenon DEF FramesInv, HandlerInv
<1>12. ReturnInv'
  BY <1>5, <1>6, Zenon DEF FramesInv, ReturnInv, VideoCount
<1>13. CameraInv'
  BY <1>1, <1>5, <1>6, Zenon DEF FramesInv, CameraInv, VideoCount
<1> QED BY <1>8, <1>9, <1>10, <1>11, <1>12, <1>13 DEF FramesInv

(* Without zoom errors the handler ends with nothing pending. *)
LEMMA ZoomAfterDeliveryStep == ASSUME Undisturbed, FramesInv, ZoomAfterDelivery PROVE FramesInv'
<1> USE CirculationAssumption
<1>1. fbd.at = "zoom" /\ fbd' = NoFrame
  BY DEF ZoomAfterDelivery, Undisturbed
<1>2. UNCHANGED <<mPreviewBuffersAvailable, mVideoBuffersAvailable, recording, mFrameSubscribers,
                  mVideoSubscribers, ducati, held, heldVideo, returning, hal, visit>>
  BY Zenon DEF ZoomAfterDelivery, counts, subscribers, holders
<1>3. \A q \in Buffers : /\ ~ PreviewPending(q) /\ ~ VideoPending(q)
                         /\ ~ PreviewPending(q)' /\ ~ VideoPending(q)'
                         /\ VideoCount(q)' = VideoCount(q)
  BY <1>1, <1>2, Zenon DEF PreviewPending, VideoPending, NoFrame, VideoCount
<1>4. FramesTypeOK'
  <2>1. NoFrame \in HandlerStates
    BY Zenon DEF NoFrame, HandlerStates
  <2> QED BY <2>1, <1>1, <1>2, Zenon DEF FramesInv, FramesTypeOK
<1>5. CountsMatchHolders'
  BY <1>2, <1>3, Zenon DEF FramesInv, CountsMatchHolders
<1>6. RecordingInv'
  BY <1>2, Zenon DEF FramesInv, RecordingInv
<1>7. HandlerInv'
  BY <1>1, <1>3, Zenon DEF HandlerInv, NoFrame
<1>8. ReturnInv' /\ CameraInv'
  BY <1>1, <1>2, Zenon DEF FramesInv, ReturnInv, CameraInv, VideoCount, NoFrame
<1> QED BY <1>4, <1>5, <1>6, <1>7, <1>8, Zenon DEF FramesInv

(* Subscriptions change only while no delivery is pending. *)
LEMMA SubscriptionStep ==
    ASSUME FramesInv, PreviewCallbacks \/ StartRecording
    PROVE  FramesInv'
<1> USE CirculationAssumption
<1>1. \A q \in Buffers : ~ PreviewPending(q) /\ ~ VideoPending(q)
  BY Zenon DEF PreviewCallbacks, StartRecording, SubscriberLockFree, PreviewPending, VideoPending
<1>2. UNCHANGED <<mPreviewBuffersAvailable, mVideoBuffersAvailable, recording, ducati, held,
                  heldVideo, fbd, returning, visit>>
  BY Zenon DEF PreviewCallbacks, StartRecording, counts, holders
<1>3. \A q \in Buffers : /\ ~ PreviewPending(q)' /\ ~ VideoPending(q)'
                         /\ VideoCount(q)' = VideoCount(q)
  BY <1>1, <1>2, Zenon DEF PreviewPending, VideoPending, VideoCount
<1>4. RecordingInv'
  BY Zenon DEF FramesInv, RecordingInv, PreviewCallbacks, StartRecording, Consumers, counts
<1>5. FramesTypeOK'
  BY <1>2, Zenon DEF FramesInv, FramesTypeOK, PreviewCallbacks, StartRecording, Consumers
<1>6. CountsMatchHolders'
  BY <1>1, <1>2, <1>3, Zenon DEF FramesInv, CountsMatchHolders
<1>7. HandlerInv'
  BY <1>2, <1>3, Zenon DEF FramesInv, HandlerInv, VideoCount
<1>8. ReturnInv' /\ CameraInv'
  BY <1>2, Zenon DEF FramesInv, ReturnInv, CameraInv, VideoCount
<1> QED BY <1>4, <1>5, <1>6, <1>7, <1>8, Zenon DEF FramesInv

(* Recording starts with every buffer in the video map at count zero. *)
LEMMA StartVideoCaptureStep == ASSUME FramesInv, StartVideoCapture PROVE FramesInv'
<1> USE CirculationAssumption
<1>1. /\ ~ recording /\ recording' /\ hal' = "recording" /\ hal = "starting"
      /\ mVideoBuffersAvailable' = [b \in Buffers |-> 0]
  BY Zenon DEF StartVideoCapture
<1>2. UNCHANGED <<mPreviewBuffersAvailable, mFrameSubscribers, mVideoSubscribers, ducati, held,
                  heldVideo, fbd, returning, visit>>
  BY Zenon DEF StartVideoCapture, subscribers, holders
<1>3. \A q \in Buffers : /\ VideoCount(q)' = 0 /\ VideoCount(q) = 0
                         /\ PreviewPending(q)' <=> PreviewPending(q)
                         /\ VideoPending(q)' <=> VideoPending(q)
  <2>1. DOMAIN mVideoBuffersAvailable = {}
    BY <1>1, Zenon DEF FramesInv, RecordingInv
  <2> QED BY <2>1, <1>1, <1>2, Zenon DEF VideoCount, PreviewPending, VideoPending
<1>4. FramesTypeOK'
  <2>1. mVideoBuffersAvailable' \in [Buffers -> Nat] /\ recording' \in BOOLEAN
    BY <1>1 DEF StartVideoCapture
  <2> QED BY <2>1, <1>1, <1>2, Zenon DEF FramesInv, FramesTypeOK
<1>5. CountsMatchHolders'
  BY <1>2, <1>3, Zenon DEF FramesInv, CountsMatchHolders
<1>6. RecordingInv'
  BY <1>1, <1>2, Zenon DEF FramesInv, RecordingInv, StartVideoCapture
<1>7. HandlerInv'
  <2>1. ~ fbd.video /\ fbd.at # "video"
    BY <1>1, Zenon DEF FramesInv, HandlerInv
  <2>2. fbd.at = "count" => mPreviewBuffersAvailable'[fbd'.buf] = 0 /\ VideoCount(fbd.buf)' = 0
    BY <1>1, <1>2, Zenon DEF FramesInv, HandlerInv, VideoCount
  <2> QED BY <2>1, <2>2, <1>2, <1>3, Zenon DEF FramesInv, HandlerInv
<1>8. ReturnInv'
  BY <1>1, <1>2, Zenon DEF FramesInv, ReturnInv
<1>9. CameraInv'
  BY <1>2, <1>3, Zenon DEF FramesInv, CameraInv
<1> QED BY <1>4, <1>5, <1>6, <1>7, <1>8, <1>9 DEF FramesInv

(* Every step keeps the counts exact. *)
LEMMA CirculationStep == ASSUME Undisturbed, FramesInv, [FramesNext]_frameVars PROVE FramesInv'
<1>1. CASE ReturnFrame
  BY <1>1, ReturnFrameStep
<1>2. CASE \E c \in Consumers, b \in Buffers : ConsumerReturns(c, b)
  BY <1>2, ConsumerReturnsStep
<1>3. CASE \E b \in Buffers, type \in {"PREVIEW", "SNAPSHOT"} : FillBufferDone(b, type)
  BY <1>3, FillBufferDoneStep, Zenon
<1>4. CASE SetInitFrameRefCount \/ SendPreview \/ SendVideo \/ ZoomAfterDelivery
  BY <1>4, SetInitFrameRefCountStep, SendPreviewStep, SendVideoStep, ZoomAfterDeliveryStep, Zenon
<1>5. CASE PreviewCallbacks \/ StartRecording \/ StartVideoCapture
  BY <1>5, SubscriptionStep, StartVideoCaptureStep, Zenon
<1>6. CASE \E b \in Buffers : EncoderReturns(b)
  BY <1>6, EncoderReturnsStep, Zenon
<1>7. ~ ReturnAfterError
  BY Zenon DEF FramesInv, HandlerInv, ReturnAfterError
<1>8. ~ StopRecording /\ ~ ClearVideoBuffers /\ ~ StopVideoCapture /\ ~ RecordingDisabled
  BY Zenon DEF Undisturbed, FramesInv, RecordingInv, StopRecording, ClearVideoBuffers,
     StopVideoCapture,
         RecordingDisabled
<1>9. ASSUME NEW b \in Buffers PROVE ~ VisitVideoBuffer(b)
  BY Zenon DEF FramesInv, RecordingInv, VisitVideoBuffer
<1>10. CASE UNCHANGED frameVars
  BY <1>10, Zenon DEF frameVars, counts, subscribers, holders, FramesInv, FramesTypeOK,
     CountsMatchHolders, RecordingInv,
               HandlerInv, ReturnInv, CameraInv, VideoCount, PreviewPending, VideoPending
<1> QED BY <1>1, <1>2, <1>3, <1>4, <1>5, <1>6, <1>7, <1>8, <1>9, <1>10 DEF FramesNext

(* Undisturbed, the reference counts are those of the references there     *)
(* are, for any number of buffers, in every reachable state.               *)
THEOREM CountsExact == ASSUME Undisturbed PROVE FramesSpec => []FramesInv
<1>1. FramesInv /\ [FramesNext]_frameVars => FramesInv'
  BY CirculationStep
<1> QED BY <1>1, CirculationInit, PTL DEF FramesSpec

(* The type invariant of every reachable state. *)
THEOREM CirculationTyped == ASSUME Undisturbed PROVE FramesSpec => []FramesTypeOK
<1>1. FramesInv => FramesTypeOK
  BY Zenon DEF FramesInv
<1>2. FramesSpec => []FramesInv
  BY CountsExact, Zenon
<1> QED BY <1>1, <1>2, PTL

(* setInitFrameRefCount() and returnFrame() count what consumers hold. *)
THEOREM CountsFollowHolders == ASSUME Undisturbed PROVE FramesSpec => []CountsMatchHolders
<1>1. FramesInv => CountsMatchHolders
  BY Zenon DEF FramesInv
<1>2. FramesSpec => []FramesInv
  BY CountsExact
<1> QED BY <1>1, <1>2, PTL

(* returnFrame() gives the camera no buffer that somebody is holding. *)
THEOREM CameraBuffersAreFree == ASSUME Undisturbed PROVE FramesSpec => []HeldNotWithCamera
<1>1. FramesInv => HeldNotWithCamera
  <2> SUFFICES ASSUME FramesInv, NEW b \in Buffers, ducati[b] > 0
               PROVE  /\ \A c \in Consumers : held[c][b] = 0
                      /\ heldVideo[b] = 0
    BY Zenon DEF HeldNotWithCamera
  <2>1. /\ mPreviewBuffersAvailable[b] \in Nat /\ VideoCount(b) \in Nat /\ heldVideo[b] \in Nat
        /\ held["display"][b] \in Nat /\ held["notifier"][b] \in Nat
    BY CountTypes, Zenon
  <2>2. mPreviewBuffersAvailable[b] = 0 /\ VideoCount(b) = 0
    BY <2>1 DEF FramesInv, CameraInv
  <2>3. ~ PreviewPending(b) /\ ~ VideoPending(b)
    <3>1. Cardinality(mFrameSubscribers) \in {1, 2}
      BY SubscriberCounts, Zenon DEF FramesInv, RecordingInv
    <3>2. /\ 0 = held["display"][b] + held["notifier"][b]
                 + (IF PreviewPending(b) THEN Cardinality(mFrameSubscribers) ELSE 0)
          /\ 0 = heldVideo[b] + (IF VideoPending(b) THEN 1 ELSE 0)
      BY <2>2, Zenon DEF FramesInv, CountsMatchHolders
    <3>3. ~ PreviewPending(b)
      BY <2>1, <3>1, <3>2
    <3>4. ~ VideoPending(b)
      BY <2>1, <3>2
    <3> QED BY <3>3, <3>4, Zenon
  <2>4. 0 = held["display"][b] + held["notifier"][b] + 0 /\ 0 = heldVideo[b] + 0
    BY <2>2, <2>3, Zenon DEF FramesInv, CountsMatchHolders
  <2> QED BY <2>1, <2>4 DEF Consumers
<1>2. FramesSpec => []FramesInv
  BY CountsExact
<1> QED BY <1>1, <1>2, PTL

(* No buffer is queued to the camera while the camera has it. *)
THEOREM QueuedOnce == ASSUME Undisturbed PROVE FramesSpec => []NeverQueuedTwice
<1>1. FramesInv => NeverQueuedTwice
  BY DEF FramesInv, CameraInv, NeverQueuedTwice
<1>2. FramesSpec => []FramesInv
  BY CountsExact
<1> QED BY <1>1, <1>2, PTL

(* No buffer drops out of the circulation. *)
THEOREM NothingLost == ASSUME Undisturbed PROVE FramesSpec => []NoBufferLost
<1>1. FramesInv => NoBufferLost
  <2> SUFFICES ASSUME FramesInv, NEW b \in Buffers, ~ (ducati[b] > 0),
                      b \notin {fbd.buf, returning.buf}
               PROVE  (\E c \in Consumers : held[c][b] > 0) \/ heldVideo[b] > 0
    BY Zenon DEF NoBufferLost
  <2>1. /\ mPreviewBuffersAvailable[b] \in Nat /\ VideoCount(b) \in Nat /\ heldVideo[b] \in Nat
        /\ held["display"][b] \in Nat /\ held["notifier"][b] \in Nat
    BY CountTypes, Zenon
  <2>2. mPreviewBuffersAvailable[b] > 0 \/ VideoCount(b) > 0
    BY <2>1 DEF FramesInv, CameraInv
  <2>3. ~ PreviewPending(b) /\ ~ VideoPending(b)
    BY Zenon DEF PreviewPending, VideoPending
  <2> QED BY <2>1, <2>2, <2>3 DEF FramesInv, CountsMatchHolders, Consumers
<1>2. FramesSpec => []FramesInv
  BY CountsExact
<1> QED BY <1>1, <1>2, PTL

(* getFrameRefCount() finds every key it is asked for: the keys of the     *)
(* video map are there as long as mRecording is set.                       *)
THEOREM LookupsSucceed == ASSUME Undisturbed PROVE FramesSpec => []LookupsFindTheirKey
<1>1. FramesInv => LookupsFindTheirKey
  BY Zenon DEF FramesInv, RecordingInv, HandlerInv, ReturnInv, LookupsFindTheirKey, Known
<1>2. FramesSpec => []FramesInv
  BY CountsExact
<1> QED BY <1>1, <1>2, PTL

-----------------------------------------------------------------------------
(* The states. *)
(* What a row of the state table does to the VIDEO bit. *)
VideoRule(state, command, next) ==
    /\ command = "START_VIDEO" => ~ Recording(state) /\ Recording(next)
    /\ command = "STOP_VIDEO" => Recording(state) /\ ~ Recording(next)
    /\ command \notin {"START_VIDEO", "STOP_VIDEO"} =>
          (Recording(state) <=> Recording(next))

(***************************************************************************)
(* The table of setState(): START_VIDEO enters a video state, STOP_VIDEO   *)
(* leaves one, and no other command changes the VIDEO bit.  Shown for each *)
(* group of rows.                                                          *)
(***************************************************************************)
LEMMA TableVideoRule ==
    ASSUME NEW state, NEW command, NEW next, <<state, command, next>> \in Transitions
    PROVE  VideoRule(state, command, next)
<1>1. CASE <<state, command, next>> \in PreviewRows
  BY <1>1 DEF PreviewRows, Row, VideoRule, Recording, INTIALIZED_STATE,
     LOADED_PREVIEW_STATE, PREVIEW_STATE, AF_STATE, ZOOM_STATE,
     LOADED_CAPTURE_STATE,
     VIDEO_STATE
<1>2. CASE <<state, command, next>> \in CaptureRows
  BY <1>2 DEF CaptureRows, Row, VideoRule, Recording, PREVIEW_STATE,
     LOADED_CAPTURE_STATE, CAPTURE_STATE, BRACKETING_STATE
<1>3. CASE <<state, command, next>> \in AFZoomRows
  BY <1>3 DEF AFZoomRows, Row, VideoRule, Recording, PREVIEW_STATE,
     AF_STATE,
     ZOOM_STATE, AF_ZOOM_STATE, BRACKETING_STATE, BRACKETING_ZOOM_STATE,
     VIDEO_ZOOM_STATE
<1>4. CASE <<state, command, next>> \in VideoRows
  BY <1>4 DEF VideoRows, Row, VideoRule, Recording, PREVIEW_STATE,
     VIDEO_STATE,
     VIDEO_AF_STATE, VIDEO_ZOOM_STATE, VIDEO_LOADED_CAPTURE_STATE,
     VIDEO_CAPTURE_STATE, ZOOM_STATE
<1> QED
  BY <1>1, <1>2, <1>3, <1>4, Zenon DEF Transitions

(* The table leads to states of the enumeration only. *)
LEMMA TableNextState ==
    ASSUME NEW state, NEW command, NEW next, <<state, command, next>> \in Transitions
    PROVE  next \in AdapterState
<1>1. <<state, command, next>> \in PreviewRows \cup CaptureRows
                                     \cup AFZoomRows \cup VideoRows
  BY Zenon DEF Transitions
<1> QED
  BY <1>1, Zenon DEF PreviewRows, CaptureRows, AFZoomRows, VideoRows,
     Row, AdapterState

(* The initial state of the adapter satisfies the inductive invariant. *)
LEMMA StatesInit == Init => IndInv
<1> SUFFICES ASSUME Init
             PROVE  IndInv
  OBVIOUS
<1>1. TypeOK
  BY Zenon DEF Init, TypeOK, AdapterState, Points, Result
<1>2. Settled /\ RecordingMatchesState
  BY DEF Init, Settled, RecordingMatchesState, INTIALIZED_STATE
<1>3. \A t \in Threads : ThreadInv(t)
  BY ThreadsAssumption, Zenon DEF Init, ThreadInv, UseBuffersCommands
<1> QED
  BY <1>1, <1>2, <1>3, Zenon DEF IndInv

(***************************************************************************)
(* Type correctness of a step, one action at a time.                       *)
(***************************************************************************)
LEMMA StatesType ==
    IndInv /\ [Next]_vars => TypeOK'
<1> SUFFICES ASSUME IndInv, [Next]_vars
             PROVE  TypeOK'
  BY Zenon
<1> USE DEF IndInv, TypeOK, Points, Result, Goto
<1>1. ASSUME NEW c \in Clients, NEW command \in CameraCommands, SendCommand(c, command)
      PROVE  TypeOK'
  BY <1>1, Zenon DEF SendCommand, Threads
<1>2. ASSUME NEW t \in Threads, SetState(t)
      PROVE  TypeOK'
  BY <1>2, Zenon DEF SetState
<1>3. ASSUME NEW c \in Clients, Perform(c)
      PROVE  TypeOK'
  BY <1>3, Zenon DEF Perform, Threads
<1>4. ASSUME NEW t \in Threads, CommitState(t)
      PROVE  TypeOK'
  <2>1. mNextState \in AdapterState
    BY <1>4, TableNextState, Zenon DEF CommitState, ThreadInv
  <2> QED
    BY <1>4, <2>1, Zenon DEF CommitState, Leave
<1>5. ASSUME NEW t \in Threads, RollbackState(t)
      PROVE  TypeOK'
  BY <1>5, Zenon DEF RollbackState, Leave
<1>6. ASSUME NEW w \in Workers, ReturnFocusStatus(w) \/ AdvanceZoomStops(w)
      PROVE  TypeOK'
  BY <1>6 DEF ReturnFocusStatus, AdvanceZoomStops, Threads, CameraCommands,
     OperationCommands
<1>7. ASSUME NEW c \in Clients, RollbackToInitializedState(c) \/ RollbackLoop(c)
      PROVE  TypeOK'
  BY <1>7, Zenon DEF RollbackToInitializedState, RollbackLoop, Threads
<1>8. ASSUME NEW c \in Clients, RollbackToPreviousState(c)
      PROVE  TypeOK'
  <2>1. op' \in [Threads -> CameraCommands \cup {"NONE"}]
    BY <1>8, Zenon DEF RollbackToPreviousState, Threads, CameraCommands
  <2>2. pc' \in [Threads -> Points]
    BY <1>8, Zenon DEF RollbackToPreviousState, Threads
  <2>3. ret' \in [Threads -> Result]
    BY <1>8, Zenon DEF RollbackToPreviousState, Threads
  <2> QED
    BY <1>8, <2>1, <2>2, <2>3, Zenon DEF RollbackToPreviousState
<1>9. CASE UNCHANGED vars
  BY <1>9, Zenon DEF vars
<1> QED
  BY <1>1, <1>2, <1>3, <1>4, <1>5, <1>6, <1>7, <1>8, <1>9, Zenon
     DEF Next, Send, ClientStep, WorkerStep, Threads

(***************************************************************************)
(* A step preserves the part of the invariant that relates the two states, *)
(* the lock, mRecording and the program points.                            *)
(***************************************************************************)
StatesSafe ==
    /\ Settled /\ RecordingMatchesState
    /\ \A t \in Threads : ThreadInv(t)

(* The step lemma of that part. *)
LEMMA StatesSafeStep ==
    IndInv /\ [Next]_vars => StatesSafe'
<1> SUFFICES ASSUME IndInv, [Next]_vars
             PROVE  StatesSafe'
  BY Zenon
<1> USE ThreadsAssumption DEF IndInv, TypeOK, Goto, StatesSafe,
        Settled, RecordingMatchesState
<1>1. ASSUME NEW c \in Clients, NEW command \in CameraCommands, SendCommand(c, command)
      PROVE  StatesSafe'
  BY <1>1, Zenon DEF SendCommand, Threads, ThreadInv
<1>2. ASSUME NEW t \in Threads, SetState(t)
      PROVE  StatesSafe'
  <2> USE DEF SetState
  <2>1. Settled' /\ RecordingMatchesState'
    BY <1>2, Zenon
  <2>2. ASSUME NEW u \in Threads, u # t
        PROVE  ThreadInv(u)'
    <3>1. pc'[u] = pc[u] /\ op'[u] = op[u] /\ ret'[u] = ret[u]
      BY <1>2, <2>2, Zenon
    <3>2. pc[u] \notin {"perform", "resolve"} /\ mLock' # u
      BY <1>2, <2>2, Zenon DEF ThreadInv
    <3>3. mNextState' # Garbage \/ mNextState' = mNextState
      BY <1>2, Zenon
    <3> QED
      BY <3>1, <3>2, <3>3, Zenon DEF ThreadInv
  <2>3. ThreadInv(t)'
    <3>1. mLock' = t /\ op'[t] = op[t] /\ mAdapterState' = mAdapterState
          /\ mRecording' = mRecording /\ (mRecording <=> Recording(mAdapterState))
      BY <1>2, Zenon DEF Recording
    <3>2. /\ pc'[t] \in {"perform", "resolve"}
          /\ pc'[t] = "perform" <=> Performs(t)
      BY <1>2, Zenon
    <3>3. CASE Accepts(mAdapterState, op[t])
      <4>1. PICK next \in AdapterState : /\ <<mAdapterState, op[t], next>> \in Transitions
                                         /\ mNextState' = next
                                         /\ ret' = [ret EXCEPT ![t] = "NO_ERROR"]
        BY <1>2, <3>3, Zenon
      <4>2. VideoRule(mAdapterState, op[t], next)
        BY <4>1, TableVideoRule, Zenon
      <4>3. pc'[t] = "perform" \/ t \in Workers
        BY <3>2, <3>3, Zenon DEF Performs, Threads
      <4> QED
        BY <3>1, <3>2, <4>1, <4>2, <4>3, Zenon DEF ThreadInv, VideoRule, Performs
    <3>4. CASE ~ Accepts(mAdapterState, op[t])
      <4>1. mNextState' = mNextState /\ ret'[t] = "INVALID_OPERATION"
        BY <1>2, <3>4, Zenon DEF Accepts
      <4>2. pc'[t] = "perform" => op[t] \in UseBuffersCommands /\ t \in Clients
        BY <3>2, <3>4, Zenon DEF Performs
      <4>3. mNextState \in {mAdapterState, Garbage}
        BY <1>2, Zenon
      <4>4. Accepts(mAdapterState, op[t])' <=> Accepts(mAdapterState, op[t])
        BY <3>1, Zenon DEF Accepts
      <4> QED
        BY <3>1, <3>2, <3>4, <4>1, <4>2, <4>3, <4>4, Zenon DEF ThreadInv
    <3> QED
      BY <3>3, <3>4, Zenon
  <2> QED
    BY <2>1, <2>2, <2>3, Zenon
<1>3. ASSUME NEW c \in Clients, Perform(c)
      PROVE  StatesSafe'
  <2> USE DEF Perform
  <2>1. mLock' = c /\ mLock = c /\ c \in Threads
    BY <1>3, Zenon DEF Threads, ThreadInv
  <2>2. Settled' /\ RecordingMatchesState'
    BY <2>1, Zenon
  <2>3. ASSUME NEW u \in Threads, u # c
        PROVE  ThreadInv(u)'
    BY <1>3, <2>1, <2>3, Zenon DEF ThreadInv
  <2>4. ThreadInv(c)'
    <3>1. /\ mAdapterState' = mAdapterState /\ mNextState' = mNextState
          /\ op' = op /\ pc'[c] = "resolve"
      BY <1>3, <2>1, Zenon
    <3>2. <<mAdapterState, op[c], mNextState>> \in Transitions
             => VideoRule(mAdapterState, op[c], mNextState)
      BY TableVideoRule, Zenon
    <3>3. /\ mRecording <=> Recording(mAdapterState)
          /\ \/ <<mAdapterState, op[c], mNextState>> \in Transitions
             \/ /\ ~ Accepts(mAdapterState, op[c])
                /\ mNextState = mAdapterState
                /\ op[c] \in UseBuffersCommands
      BY <1>3, <2>1, Zenon DEF ThreadInv
    <3>4. mRecording' <=>
             Recording(IF ret'[c] = "NO_ERROR" THEN mNextState ELSE mAdapterState)
      BY <1>3, <2>1, <3>2, <3>3, Zenon DEF VideoRule, UseBuffersCommands
    <3> QED
      BY <1>3, <2>1, <3>1, <3>3, <3>4, Zenon DEF ThreadInv, Accepts
  <2> QED
    BY <2>2, <2>3, <2>4, Zenon
<1>4. ASSUME NEW t \in Threads, CommitState(t)
      PROVE  StatesSafe'
  BY <1>4, Zenon DEF CommitState, Leave, ThreadInv, UseBuffersCommands,
     Recording
<1>5. ASSUME NEW t \in Threads, RollbackState(t)
      PROVE  StatesSafe'
  BY <1>5, Zenon DEF RollbackState, Leave, ThreadInv,
     UseBuffersCommands, Recording
<1>6. ASSUME NEW w \in Workers, ReturnFocusStatus(w) \/ AdvanceZoomStops(w)
      PROVE  StatesSafe'
  <2>1. /\ w \in Threads /\ pc[w] = "idle" /\ pc' = [pc EXCEPT ![w] = "setState"]
        /\ UNCHANGED <<mAdapterState, mNextState, mLock, mRecording, ret>>
    BY <1>6, Zenon DEF ReturnFocusStatus, AdvanceZoomStops, Threads
  <2>2. \E command \in {"CANCEL_AUTOFOCUS", "STOP_SMOOTH_ZOOM"} :
           op' = [op EXCEPT ![w] = command]
    BY <1>6, Zenon DEF ReturnFocusStatus, AdvanceZoomStops
  <2>3. ASSUME NEW u \in Threads, u # w
        PROVE  ThreadInv(u)'
    BY <2>1, <2>2, <2>3, Zenon DEF ThreadInv, Accepts
  <2>4. ThreadInv(w)'
    BY <2>1, <2>2, Zenon DEF ThreadInv, UseBuffersCommands
  <2> QED
    BY <2>1, <2>3, <2>4, Zenon
<1>7. ASSUME NEW c \in Clients,
             RollbackToInitializedState(c) \/ RollbackLoop(c) \/ RollbackToPreviousState(c)
      PROVE  StatesSafe'
  <2>1. /\ c \in Threads
        /\ UNCHANGED <<mAdapterState, mNextState, mLock, mRecording>>
    BY <1>7, Zenon DEF RollbackToInitializedState, RollbackLoop, RollbackToPreviousState, Threads
  <2>2. /\ pc[c] \notin {"perform", "resolve"}
        /\ pc'[c] \in {"idle", "rbLoop", "rbPrevious", "setState"}
    BY <1>7, <2>1, Zenon DEF RollbackToInitializedState, RollbackLoop, RollbackToPreviousState
  <2>3. op'[c] = op[c] \/ op'[c] \in OperationCommands
    BY <1>7, <2>1, Zenon DEF RollbackToInitializedState, RollbackLoop, RollbackToPreviousState
  <2>4. ASSUME NEW u \in Threads, u # c
        PROVE  pc'[u] = pc[u] /\ op'[u] = op[u] /\ ret'[u] = ret[u]
    BY <1>7, <2>4, Zenon DEF RollbackToInitializedState, RollbackLoop, RollbackToPreviousState
  <2>5. ASSUME NEW u \in Threads, u # c
        PROVE  ThreadInv(u)'
    BY <2>1, <2>4, <2>5, Zenon DEF ThreadInv, Accepts, Recording
  <2>6. c \notin Workers
    BY Zenon
  <2>7. \A command \in OperationCommands : command \notin UseBuffersCommands
    BY Zenon DEF OperationCommands, UseBuffersCommands
  <2>8. ThreadInv(c)'
    BY <2>1, <2>2, <2>3, <2>6, <2>7, Zenon DEF ThreadInv
  <2>9. Settled' /\ RecordingMatchesState'
    BY <2>1, Zenon DEF Recording
  <2> QED
    BY <2>5, <2>8, <2>9, Zenon
<1>8. CASE UNCHANGED vars
  BY <1>8, Zenon DEF vars, ThreadInv, Accepts
<1> QED
  BY <1>1, <1>2, <1>3, <1>4, <1>5, <1>6, <1>7, <1>8, Zenon
     DEF Next, Send, ClientStep, WorkerStep, Threads

(***************************************************************************)
(* IndInv is an invariant of the state machine: whatever the commands, the *)
(* threads and the failures of sendCommand()'s operations are.             *)
(***************************************************************************)
THEOREM StatesInvariant == Spec => []IndInv
<1>1. IndInv /\ [Next]_vars => IndInv'
  BY StatesType, StatesSafeStep, Zenon DEF IndInv, StatesSafe
<1> QED
  BY StatesInit, <1>1, PTL DEF Spec

(* The variables of BaseCameraAdapter stay in their types; in particular   *)
(* commitState() never stores the uninitialised mNextState.                *)
THEOREM StatesTyped == Spec => []TypeOK
<1>1. IndInv => TypeOK
  BY Zenon DEF IndInv
<1> QED
  BY StatesInvariant, <1>1, PTL

(* mAdapterState and mNextState agree whenever mLock is free, for every    *)
(* interleaving of sendCommand(), returnFocusStatus() and advanceZoom().   *)
THEOREM StatesSettle == Spec => []Settled
<1>1. IndInv => Settled
  BY Zenon DEF IndInv
<1> QED
  BY StatesInvariant, <1>1, PTL

(* mRecording and the VIDEO bit of mAdapterState agree whenever mLock is   *)
(* free: start/stopVideoCapture() never meet their NO_INIT branch.         *)
THEOREM RecordingFollowsState ==
    Spec => []RecordingMatchesState
<1>1. IndInv => RecordingMatchesState
  BY DEF IndInv
<1> QED
  BY StatesInvariant, <1>1, PTL

(* A command setState() refuses leaves mAdapterState as it is, also when   *)
(* sendCommand() goes on to commitState().                                 *)
THEOREM RefusalKeepsState ==
    Spec => RefusedKeepsState
<1> DEFINE Kept(t) == (mLock = t /\ mLock' = NoThread /\ ~ Accepts(mAdapterState, op[t]))
                         => mAdapterState' = mAdapterState
<1>1. ASSUME IndInv, [Next]_vars, NEW t \in Threads,
             mLock = t, mLock' = NoThread, ~ Accepts(mAdapterState, op[t])
      PROVE  mAdapterState' = mAdapterState
  <2>1. ASSUME NEW u \in Threads, CommitState(u)
        PROVE  mAdapterState' = mAdapterState
    <3>1. u = t /\ pc[t] = "resolve" /\ ret[t] = "NO_ERROR"
      BY <1>1, <2>1, Zenon DEF IndInv, ThreadInv, CommitState
    <3>2. <<mAdapterState, op[t], mNextState>> \notin Transitions
      BY <1>1, TableNextState, Zenon DEF Accepts
    <3>3. mNextState \in {mAdapterState, Garbage} /\ mNextState # Garbage
      BY <1>1, <3>1, <3>2, Zenon DEF IndInv, ThreadInv
    <3> QED
      BY <2>1, <3>3, Zenon DEF CommitState
  <2>2. CASE \E u \in Threads : CommitState(u)
    BY <2>1, <2>2, Zenon
  <2>3. CASE ~ \E u \in Threads : CommitState(u)
    BY <1>1, <2>3, Zenon DEF Next, Send, ClientStep, WorkerStep,
       Threads, SendCommand, SetState,
       Perform, RollbackState, ReturnFocusStatus, AdvanceZoomStops,
       RollbackToInitializedState,
       RollbackLoop, RollbackToPreviousState, vars
  <2> QED
    BY <2>2, <2>3, Zenon
<1>2. IndInv /\ [Next]_vars => [\A t \in Threads : Kept(t)]_vars
  BY <1>1, Zenon
<1> QED
  BY StatesInvariant, <1>2, PTL DEF Spec, RefusedKeepsState

=============================================================================
