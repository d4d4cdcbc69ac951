-------------------------- MODULE FrameCirculation --------------------------
(***************************************************************************)
(* The circulation of preview buffers between the camera (Ducati), the     *)
(* adapter and the consumers of frames, and the reference counts that      *)
(* decide when a buffer goes back to the camera.                           *)
(*                                                                         *)
(* Four kinds of threads meet here.  The OMX callback thread runs          *)
(* OMXCameraAdapterFillBufferDone() for one buffer at a time; consumers    *)
(* (display, notifier, video encoder) give buffers back with returnFrame() *)
(* at any time; the application starts and stops recording through         *)
(* CameraHal; and subscriptions change.  returnFrame() is serialised by    *)
(* mReturnFrameLock, delivery by mSubscriberLock, and neither of them      *)
(* excludes startVideoCapture() or stopVideoCapture().                     *)
(***************************************************************************)
EXTENDS Naturals, FiniteSets

CONSTANTS Buffers,       \* the preview buffers
          Queueable,     \* those the window lets the adapter have at start
          StopsVideo,    \* the application stops recording while preview runs
          ZoomFails,     \* advanceZoom() may report an error
          MaxHeld,       \* bound: how often a consumer may hold the same buffer at once
          None

ASSUME CirculationAssumption ==
    /\ Queueable \subseteq Buffers
    /\ None \notin Buffers
    /\ MaxHeld \in Nat \ {0}
    /\ {StopsVideo, ZoomFails} \subseteq BOOLEAN

Consumers == {"display", "notifier"}

VARIABLES
    mPreviewBuffersAvailable,  \* preview and snapshot count of every buffer
    mVideoBuffersAvailable,    \* video count; its domain is the key set of the map
    recording,                 \* mRecording
    mFrameSubscribers,         \* consumers subscribed to preview frames
    mVideoSubscribers,         \* {} or {"notifier"}
    ducati,                    \* how often a buffer is queued to the camera
    held,                      \* preview or snapshot frames a consumer must return
    heldVideo,                 \* video frames the notifier or the encoder has
    fbd,                       \* the callback thread: current buffer and progress
    returning,                 \* the returnFrame() call inside mReturnFrameLock
    hal,                       \* progress of CameraHal::start/stopRecording()
    visit                      \* buffers stopVideoCapture()'s loop has still to visit

counts == <<mPreviewBuffersAvailable, mVideoBuffersAvailable>>
subscribers == <<mFrameSubscribers, mVideoSubscribers>>
holders == <<ducati, held, heldVideo>>
frameVars == <<counts, recording, subscribers, holders, fbd, returning, hal, visit>>

HandlerStates ==
    [at : {"idle", "count", "preview", "video", "zoom", "error"},
     buf : Buffers \cup {None}, type : {"PREVIEW", "SNAPSHOT"}, video : BOOLEAN]

ReturnCalls ==
    [buf : Buffers \cup {None}, type : {"PREVIEW", "VIDEO"},
     by : Consumers \cup {"encoder", "callback", "stop", "nobody"}, refCount : Nat]

NoFrame == [at |-> "idle", buf |-> None, type |-> "PREVIEW", video |-> FALSE]
NoReturn == [buf |-> None, type |-> "PREVIEW", by |-> "nobody", refCount |-> 0]

(* CAMERA_USE_BUFFERS_PREVIEW and startPreview(): the camera has the       *)
(* queueable buffers; the others count one reference of the window.        *)
FramesInit ==
    /\ mPreviewBuffersAvailable = [b \in Buffers |-> IF b \in Queueable THEN 0 ELSE 1]
    /\ mVideoBuffersAvailable = [b \in {} |-> 0]
    /\ recording = FALSE
    /\ mFrameSubscribers = {"display"}
    /\ mVideoSubscribers = {}
    /\ ducati = [b \in Buffers |-> IF b \in Queueable THEN 1 ELSE 0]
    /\ held = [c \in Consumers |-> [b \in Buffers |->
                  IF c = "display" /\ b \notin Queueable THEN 1 ELSE 0]]
    /\ heldVideo = [b \in Buffers |-> 0]
    /\ fbd = NoFrame
    /\ returning = NoReturn
    /\ hal = "idle"
    /\ visit = {}

-----------------------------------------------------------------------------
(***************************************************************************)
(* returnFrame(), under mReturnFrameLock.  The first step takes the lock   *)
(* and the count; a count of zero ends the call.  The second adds the      *)
(* count of the other map while recording, and gives the buffer to the     *)
(* camera when the sum is zero.                                            *)
(***************************************************************************)
Known(b, type) == type # "VIDEO" \/ b \in DOMAIN mVideoBuffersAvailable

RefCount(b, type) ==
    IF type = "VIDEO" THEN mVideoBuffersAvailable[b] ELSE mPreviewBuffersAvailable[b]

(* getFrameRefCount(): a buffer that is no key of its map has whatever     *)
(* count KeyedVector::valueFor() finds outside its items: zero, the count  *)
(* of a single subscriber, or more.  A negative number is left out: before *)
(* the items are a reference count and a size.                             *)
FrameRefCount(b, type) == IF Known(b, type) THEN {RefCount(b, type)} ELSE 0 .. 2

(* setFrameRefCount(), which has no effect for a buffer that is no key. *)
SetFrameRefCount(b, type, n) ==
    /\ mVideoBuffersAvailable' =
          IF type = "VIDEO" /\ Known(b, type)
          THEN [mVideoBuffersAvailable EXCEPT ![b] = n] ELSE mVideoBuffersAvailable
    /\ mPreviewBuffersAvailable' =
          IF type = "VIDEO" THEN mPreviewBuffersAvailable
          ELSE [mPreviewBuffersAvailable EXCEPT ![b] = n]

TakeReference(b, type, who) ==
    /\ returning = NoReturn
    /\ \E n \in FrameRefCount(b, type) :
          IF n = 0
          THEN UNCHANGED <<counts, returning>>
          ELSE /\ returning' = [buf |-> b, type |-> type, by |-> who, refCount |-> n - 1]
               /\ SetFrameRefCount(b, type, n - 1)

OtherType(type) == IF type = "VIDEO" THEN "PREVIEW" ELSE "VIDEO"

(* Mutant: the count of the other map is left out of the sum. *)
ReturnFrameOwnCount ==
    /\ returning # NoReturn
    /\ ducati' = IF returning.refCount = 0
                 THEN [ducati EXCEPT ![returning.buf] = @ + 1] ELSE ducati
    /\ returning' = NoReturn
    /\ UNCHANGED <<counts, recording, subscribers, held, heldVideo, fbd, hal, visit>>

ReturnFrame ==
    /\ returning # NoReturn
    /\ LET b == returning.buf
           other == OtherType(returning.type)
       IN  \E n \in IF recording THEN FrameRefCount(b, other) ELSE {0} :
              ducati' = IF returning.refCount + n = 0
                        THEN [ducati EXCEPT ![b] = @ + 1] ELSE ducati
    /\ returning' = NoReturn
    /\ UNCHANGED <<counts, recording, subscribers, held, heldVideo, fbd, hal, visit>>

(* A consumer has finished with a preview or snapshot frame. *)
ConsumerReturns(c, b) ==
    /\ held[c][b] > 0
    /\ TakeReference(b, "PREVIEW", c)
    /\ held' = [held EXCEPT ![c][b] = @ - 1]
    /\ UNCHANGED <<recording, subscribers, ducati, heldVideo, fbd, hal, visit>>

-----------------------------------------------------------------------------
(***************************************************************************)
(* OMXCameraAdapterFillBufferDone() for a preview buffer.  The frame is a  *)
(* preview or a snapshot frame, and a video frame too if mRecording is     *)
(* seen set.                                                               *)
(***************************************************************************)
FillBufferDone(b, type) ==
    /\ fbd = NoFrame
    /\ ducati[b] > 0
    /\ heldVideo[b] < MaxHeld /\ \A c \in Consumers : held[c][b] < MaxHeld
    /\ ducati' = [ducati EXCEPT ![b] = @ - 1]
    /\ fbd' = [at |-> "count", buf |-> b, type |-> type, video |-> recording]
    /\ UNCHANGED <<counts, recording, subscribers, held, heldVideo, returning, hal, visit>>

(* Mutant: every known consumer is counted, subscribed or not. *)
SetInitFrameRefCountOfAll ==
    /\ fbd.at = "count"
    /\ mPreviewBuffersAvailable' =
          [mPreviewBuffersAvailable EXCEPT ![fbd.buf] = Cardinality(Consumers)]
    /\ mVideoBuffersAvailable' =
          IF fbd.video /\ fbd.buf \in DOMAIN mVideoBuffersAvailable
          THEN [mVideoBuffersAvailable EXCEPT ![fbd.buf] = Cardinality(mVideoSubscribers)]
          ELSE mVideoBuffersAvailable
    /\ fbd' = [fbd EXCEPT !.at = IF fbd.type = "SNAPSHOT" /\ fbd.video THEN "video" ELSE "preview"]
    /\ UNCHANGED <<recording, subscribers, holders, returning, hal, visit>>

(* sendCallBacks() with mSubscriberLock: setInitFrameRefCount().  Setting  *)
(* the count of a key the video map does not hold has no effect.  The      *)
(* types are then delivered in the order of their mask bits: preview,      *)
(* video, snapshot.                                                        *)
SetInitFrameRefCount ==
    /\ fbd.at = "count"
    /\ mPreviewBuffersAvailable' =
          [mPreviewBuffersAvailable EXCEPT ![fbd.buf] = Cardinality(mFrameSubscribers)]
    /\ mVideoBuffersAvailable' =
          IF fbd.video /\ fbd.buf \in DOMAIN mVideoBuffersAvailable
          THEN [mVideoBuffersAvailable EXCEPT ![fbd.buf] = Cardinality(mVideoSubscribers)]
          ELSE mVideoBuffersAvailable
    /\ fbd' = [fbd EXCEPT !.at = IF fbd.type = "SNAPSHOT" /\ fbd.video THEN "video" ELSE "preview"]
    /\ UNCHANGED <<recording, subscribers, holders, returning, hal, visit>>

(* __sendFrameToSubscribers() for the preview or snapshot type: one call   *)
(* of the callback per subscriber, or an error when the count is zero.     *)
SendPreview ==
    /\ fbd.at = "preview"
    /\ LET n == RefCount(fbd.buf, "PREVIEW")
       IN  IF n = 0 \/ n > Cardinality(mFrameSubscribers)
           THEN /\ fbd' = [fbd EXCEPT !.at = "error"]
                /\ UNCHANGED held
           ELSE /\ held' = [c \in Consumers |->
                              IF c \in mFrameSubscribers
                              THEN [held[c] EXCEPT ![fbd.buf] = @ + 1] ELSE held[c]]
                /\ fbd' = [fbd EXCEPT !.at = IF fbd.video /\ fbd.type = "PREVIEW"
                                             THEN "video" ELSE "zoom"]
    /\ UNCHANGED <<counts, recording, subscribers, ducati, heldVideo, returning, hal, visit>>

(* The same for the video type. *)
SendVideo ==
    /\ fbd.at = "video"
    /\ \E n \in FrameRefCount(fbd.buf, "VIDEO") :
           IF n = 0 \/ n > Cardinality(mVideoSubscribers)
           THEN /\ fbd' = [fbd EXCEPT !.at = "error"]
                /\ UNCHANGED heldVideo
           ELSE /\ heldVideo' = [heldVideo EXCEPT ![fbd.buf] = @ + 1]
                /\ fbd' = [fbd EXCEPT !.at = IF fbd.type = "SNAPSHOT" THEN "preview" ELSE "zoom"]
    /\ UNCHANGED <<counts, recording, subscribers, ducati, held, returning, hal, visit>>

(* The rest of the handler: "stat |= advanceZoom()", after mSubscriberLock *)
(* has been released.  An error of the delivery is kept across it.         *)
ZoomAfterDelivery ==
    /\ fbd.at = "zoom"
    /\ \/ fbd' = NoFrame
       \/ ZoomFails /\ fbd' = [fbd EXCEPT !.at = "error"]
    /\ UNCHANGED <<counts, recording, subscribers, holders, returning, hal, visit>>

(* An error makes the handler return the frame in the consumers' place. *)
ReturnAfterError ==
    /\ fbd.at = "error"
    /\ TakeReference(fbd.buf, "PREVIEW", "callback")
    /\ fbd' = NoFrame
    /\ UNCHANGED <<recording, subscribers, holders, hal, visit>>

-----------------------------------------------------------------------------
(***************************************************************************)
(* Subscriptions, under mSubscriberLock: the application turns preview     *)
(* callbacks on and off.  The display stays subscribed while preview runs. *)
(***************************************************************************)
SubscriberLockFree == fbd.at \in {"idle", "count", "zoom", "error"}

PreviewCallbacks ==
    /\ SubscriberLockFree
    /\ \/ /\ "notifier" \notin mFrameSubscribers
          /\ mFrameSubscribers' = mFrameSubscribers \cup {"notifier"}
       \/ /\ "notifier" \in mFrameSubscribers
          /\ mFrameSubscribers' = mFrameSubscribers \ {"notifier"}
    /\ UNCHANGED <<counts, recording, mVideoSubscribers, holders, fbd, returning, hal, visit>>

(***************************************************************************)
(* CameraHal::startRecording(): the notifier subscribes to video frames,   *)
(* then START_VIDEO runs startVideoCapture(), which adds every preview     *)
(* buffer to the video map with count 0 and sets mRecording.               *)
(***************************************************************************)
StartRecording ==
    /\ hal = "idle"
    /\ SubscriberLockFree
    /\ mVideoSubscribers' = {"notifier"}
    /\ hal' = "starting"
    /\ UNCHANGED <<counts, recording, mFrameSubscribers, holders, fbd, returning, visit>>

StartVideoCapture ==
    /\ hal = "starting"
    /\ ~ recording
    /\ mVideoBuffersAvailable' = [b \in Buffers |-> 0]
    /\ recording' = TRUE
    /\ hal' = "recording"
    /\ UNCHANGED <<mPreviewBuffersAvailable, subscribers, holders, fbd, returning, visit>>

RecordingEnabled == hal \in {"recording", "stopping", "cleared", "stopped"}

(* The encoder gives a frame back: releaseRecordingFrame(), which          *)
(* CameraHal lets through while mRecordingEnabled is set.                  *)
EncoderReturns(b) ==
    /\ heldVideo[b] > 0
    /\ RecordingEnabled
    /\ TakeReference(b, "VIDEO", "encoder")
    /\ heldVideo' = [heldVideo EXCEPT ![b] = @ - 1]
    /\ UNCHANGED <<recording, subscribers, ducati, held, fbd, hal, visit>>

(***************************************************************************)
(* CameraHal::stopRecording(), by a recorder that has given every frame    *)
(* back: the notifier unsubscribes; then STOP_VIDEO runs                   *)
(* stopVideoCapture(), which returns once every buffer with a video count, *)
(* clears the map and resets mRecording.                                   *)
(***************************************************************************)
StopRecording ==
    /\ StopsVideo
    /\ hal = "recording"
    /\ returning.type # "VIDEO" /\ \A b \in Buffers : heldVideo[b] = 0
    /\ SubscriberLockFree
    /\ mVideoSubscribers' = {}
    /\ hal' = "stopping"
    /\ visit' = Buffers
    /\ UNCHANGED <<counts, recording, mFrameSubscribers, holders, fbd, returning>>

VisitVideoBuffer(b) ==
    /\ hal = "stopping"
    /\ b \in visit
    /\ visit' = visit \ {b}
    /\ IF RefCount(b, "VIDEO") > 0
       THEN TakeReference(b, "VIDEO", "stop")
       ELSE UNCHANGED <<counts, returning>>
    /\ UNCHANGED <<recording, subscribers, holders, fbd, hal>>

ClearVideoBuffers ==
    /\ hal = "stopping"
    /\ visit = {}
    /\ returning.by # "stop"
    /\ mVideoBuffersAvailable' = [b \in {} |-> 0]
    /\ hal' = "cleared"
    /\ UNCHANGED <<mPreviewBuffersAvailable, recording, subscribers, holders, fbd, returning, visit>>

StopVideoCapture ==
    /\ hal = "cleared"
    /\ recording' = FALSE
    /\ hal' = "stopped"
    /\ UNCHANGED <<counts, subscribers, holders, fbd, returning, visit>>

RecordingDisabled ==
    /\ hal = "stopped"
    /\ hal' = "idle"
    /\ UNCHANGED <<counts, recording, subscribers, holders, fbd, returning, visit>>

FramesNext ==
    \/ ReturnFrame
    \/ \E c \in Consumers, b \in Buffers : ConsumerReturns(c, b)
    \/ \E b \in Buffers, type \in {"PREVIEW", "SNAPSHOT"} : FillBufferDone(b, type)
    \/ SetInitFrameRefCount \/ SendPreview \/ SendVideo \/ ZoomAfterDelivery \/ ReturnAfterError
    \/ PreviewCallbacks \/ StartRecording \/ StartVideoCapture \/ StopRecording
    \/ \E b \in Buffers : EncoderReturns(b) \/ VisitVideoBuffer(b)
    \/ ClearVideoBuffers \/ StopVideoCapture \/ RecordingDisabled

FramesSpec == FramesInit /\ [][FramesNext]_frameVars

-----------------------------------------------------------------------------
(* The type invariant. *)
FramesTypeOK ==
    /\ mPreviewBuffersAvailable \in [Buffers -> Nat]
    /\ mVideoBuffersAvailable \in [Buffers -> Nat] \cup [{} -> Nat]
    /\ recording \in BOOLEAN
    /\ mFrameSubscribers \subseteq Consumers
    /\ mVideoSubscribers \subseteq {"notifier"}
    /\ ducati \in [Buffers -> Nat]
    /\ held \in [Consumers -> [Buffers -> Nat]]
    /\ heldVideo \in [Buffers -> Nat]
    /\ fbd \in HandlerStates
    /\ returning \in ReturnCalls
    /\ hal \in {"idle", "starting", "recording", "stopping", "cleared", "stopped"}
    /\ visit \subseteq Buffers

(* returnFrame() "check[s] if someone is holding this buffer" before it    *)
(* gives it to the camera: a buffer the camera may write is held by no     *)
(* consumer and, while recording goes on, not by the encoder.              *)
HeldNotWithCamera ==
    \A b \in Buffers : ducati[b] > 0 =>
        /\ \A c \in Consumers : held[c][b] = 0
        /\ hal = "recording" => heldVideo[b] = 0

(* The debug build complains "Buffer already with Ducati!!": a buffer is   *)
(* never queued to the camera a second time before the camera is done.     *)
NeverQueuedTwice == \A b \in Buffers : ducati[b] <= 1

(* No buffer drops out of the circulation: one that is not with the camera *)
(* is held by a consumer or the encoder, or a handler is busy with it.     *)
NoBufferLost ==
    \A b \in Buffers :
        \/ ducati[b] > 0
        \/ \E c \in Consumers : held[c][b] > 0
        \/ heldVideo[b] > 0
        \/ b \in {fbd.buf, returning.buf}

(* getFrameRefCount() is never asked for a buffer its map does not have. *)
LookupsFindTheirKey ==
    /\ fbd.at = "video" => Known(fbd.buf, "VIDEO")
    /\ returning # NoReturn /\ recording => Known(returning.buf, OtherType(returning.type))
    /\ \A b \in Buffers : hal = "recording" /\ heldVideo[b] > 0 => Known(b, "VIDEO")

-----------------------------------------------------------------------------
(***************************************************************************)
(* While recording is not stopped and zooming succeeds, the counts are     *)
(* exact.  The parts of the inductive invariant that says so follow.       *)
(***************************************************************************)
VideoCount(b) == IF b \in DOMAIN mVideoBuffersAvailable THEN mVideoBuffersAvailable[b] ELSE 0

(* References already counted whose callback the handler has still to make. *)
PreviewPending(b) ==
    fbd.buf = b /\ (fbd.at = "preview" \/ (fbd.at = "video" /\ fbd.type = "SNAPSHOT"))

VideoPending(b) ==
    fbd.buf = b /\ (fbd.at = "video" \/ (fbd.at = "preview" /\ fbd.video /\ fbd.type = "PREVIEW"))

(* The counts of setInitFrameRefCount() and returnFrame() are the number   *)
(* of references consumers hold or are about to be given.                  *)
CountsMatchHolders ==
    \A b \in Buffers :
        /\ mPreviewBuffersAvailable[b] = held["display"][b] + held["notifier"][b]
              + (IF PreviewPending(b) THEN Cardinality(mFrameSubscribers) ELSE 0)
        /\ VideoCount(b) = heldVideo[b] + (IF VideoPending(b) THEN 1 ELSE 0)

(* Recording, its map and its subscription go together. *)
RecordingInv ==
    /\ hal \in {"idle", "starting", "recording"}
    /\ recording = (hal = "recording")
    /\ DOMAIN mVideoBuffersAvailable = IF recording THEN Buffers ELSE {}
    /\ hal # "idle" => mVideoSubscribers = {"notifier"}
    /\ mFrameSubscribers \in {{"display"}, Consumers}

(* The handler's frame is its own until it has been delivered. *)
HandlerInv ==
    /\ fbd.at # "error"
    /\ fbd.at = "idle" => fbd = NoFrame
    /\ fbd.at # "idle" => fbd.buf \in Buffers
    /\ fbd.at = "video" => fbd.video
    /\ fbd.video => recording
    /\ fbd.at = "count" => mPreviewBuffersAvailable[fbd.buf] = 0 /\ VideoCount(fbd.buf) = 0
    /\ \A b \in Buffers : PreviewPending(b) => \A c \in Consumers : held[c][b] = 0
    /\ \A b \in Buffers : VideoPending(b) => heldVideo[b] = 0

ReturnInv ==
    returning # NoReturn =>
        /\ returning.buf \in Buffers
        /\ returning.refCount = IF returning.type = "VIDEO" THEN VideoCount(returning.buf)
                                ELSE mPreviewBuffersAvailable[returning.buf]
        /\ returning.type = "VIDEO" => recording
        /\ ~ (fbd.at = "count" /\ fbd.buf = returning.buf)

(* A buffer is with the camera exactly when it is counted nowhere and no   *)
(* handler or returnFrame() call is about to count or to queue it.         *)
CameraInv ==
    \A b \in Buffers :
        ducati[b] = IF \/ mPreviewBuffersAvailable[b] > 0
                       \/ VideoCount(b) > 0
                       \/ returning.buf = b
                       \/ fbd.at = "count" /\ fbd.buf = b
                    THEN 0 ELSE 1

FramesInv ==
    /\ FramesTypeOK /\ CountsMatchHolders /\ RecordingInv /\ HandlerInv /\ ReturnInv /\ CameraInv

=============================================================================
