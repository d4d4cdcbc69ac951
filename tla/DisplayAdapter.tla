--------------------------- MODULE DisplayAdapter ---------------------------
(***************************************************************************)
(* ANativeWindowDisplayAdapter: the preview buffers between the window and *)
(* the camera.  The adapter dequeues buffers from the window for the       *)
(* camera (allocateBuffer), gives a filled one to the window in the OMX    *)
(* callback thread (PostFrame), and for each one given dequeues another in *)
(* the display thread (handleFrameReturn).  mFramesWithCameraAdapterMap    *)
(* says which buffers are dequeued; it is what disableDisplay() gives back.*)
(*                                                                         *)
(* PostFrame runs inside the adapter's sendCallBacks(), with               *)
(* mSubscriberLock, and updates the map with mLock; handleFrameReturn()    *)
(* updates the map with no lock.  The window is external: it may be        *)
(* abandoned by the application, after which its calls fail.               *)
(***************************************************************************)
EXTENDS Naturals, FiniteSets, AdapterStates

CONSTANTS Buffers,      \* the buffers of the window
          Undequeued,   \* how many of them the window keeps for itself
          WindowFails,  \* the window may be abandoned, and gralloc locks may fail
          None

ASSUME DisplayAssumption ==
    /\ IsFiniteSet(Buffers)
    /\ Undequeued \in 1 .. Cardinality(Buffers) - 1
    /\ WindowFails \in BOOLEAN
    /\ None \notin Buffers

VARIABLES
    mANativeWindow,               \* FALSE: the pointer is NULL
    owned,                        \* the buffers the window has
    abandoned,                    \* the window's calls fail
    mGrallocHandleMap,            \* FALSE: the pointer is NULL
    mFramesWithCameraAdapterMap,
    mDisplayQ,                    \* how many frames wait to be dequeued
    msgQ,                         \* the message of the HAL, and
    acked,                        \* whether its semaphore has been signalled
    mDisplayState, mDisplayEnabled, mPaused,
    subscribed,                   \* the display gets the camera's frames
    mAdapterState,                \* the state of the camera adapter
    ducati,                       \* the buffers queued to the camera
    post,                         \* the buffer in PostFrame(), or None
    frame,                        \* handleFrameReturn(): its buffer and progress
    trouble,                      \* a fault since the buffers were allocated
    crashed                       \* a call went through a NULL pointer

window == <<mANativeWindow, owned, abandoned>>
map == mFramesWithCameraAdapterMap
messages == <<msgQ, acked>>
flags == <<mDisplayState, mDisplayEnabled, mPaused, subscribed>>
camera == <<mAdapterState, ducati>>
faults == <<trouble, crashed>>
displayVars == <<window, mGrallocHandleMap, map, mDisplayQ, messages, flags, camera,
                 post, frame, faults>>

NoReturn == [at |-> "idle", buf |-> None]

DisplayTypeOK ==
    /\ {mANativeWindow, abandoned, mGrallocHandleMap, acked, mDisplayEnabled, mPaused,
        subscribed, trouble, crashed} \subseteq BOOLEAN
    /\ \A set \in {owned, map, ducati} : set \subseteq Buffers
    /\ mDisplayQ \in 0 .. Cardinality(Buffers)
    /\ msgQ \in {"NONE", "START", "STOP"}
    /\ mDisplayState \in {"INIT", "STARTED", "STOPPED"}
    /\ mAdapterState \in AdapterState
    /\ post \in Buffers \cup {None}
    /\ frame \in [at : {"idle", "add", "give"}, buf : Buffers \cup {None}]

(* A new adapter with a window, as CameraHal::setPreviewWindow() makes it. *)
NewDisplay ==
    /\ mANativeWindow' = TRUE
    /\ owned' = Buffers
    /\ abandoned' = FALSE
    /\ mGrallocHandleMap' = FALSE
    /\ mFramesWithCameraAdapterMap' = {}
    /\ mDisplayQ' = 0
    /\ mDisplayState' = "INIT"
    /\ mDisplayEnabled' = FALSE
    /\ mPaused' = FALSE
    /\ trouble' = FALSE

DisplayInit ==
    /\ mANativeWindow = FALSE /\ abandoned = FALSE /\ mGrallocHandleMap = FALSE
    /\ mDisplayEnabled = FALSE /\ mPaused = FALSE /\ subscribed = FALSE
    /\ acked = FALSE /\ crashed = FALSE
    /\ owned = Buffers
    /\ mFramesWithCameraAdapterMap = {} /\ ducati = {} /\ trouble = FALSE
    /\ mDisplayQ = 0
    /\ msgQ = "NONE"
    /\ mDisplayState = "INIT"
    /\ mAdapterState = INTIALIZED_STATE
    /\ post = None
    /\ frame = NoReturn

-----------------------------------------------------------------------------
(***************************************************************************)
(* The OMX callback thread.  A frame of the camera reaches the display if  *)
(* it is subscribed; with no subscriber its count is zero and it is in     *)
(* nobody's hands.  mSubscriberLock is held while post is a buffer.        *)
(***************************************************************************)
FillBufferDone(b) ==
    /\ ~ crashed
    /\ post = None
    /\ b \in ducati
    /\ ducati' = ducati \ {b}
    /\ post' = IF subscribed THEN b ELSE None
    /\ UNCHANGED <<window, mGrallocHandleMap, map, mDisplayQ, messages, flags,
                   mAdapterState, frame, faults>>

(* Mutant: a frame that is not shown is not counted in mDisplayQ. *)
GiveToWindowUncounted ==
    /\ owned' = owned \cup {post}
    /\ mDisplayQ' = IF mPaused THEN mDisplayQ ELSE mDisplayQ + 1

(* Shown with enqueue_buffer or, when paused or not started, given back    *)
(* with cancel_buffer: the window has the buffer, and another is due.  An  *)
(* error of the window is only logged.                                     *)
GiveToWindow ==
    /\ owned' = owned \cup {post}
    /\ mDisplayQ' = mDisplayQ + 1

PostFrame ==
    /\ ~ crashed
    /\ post # None
    /\ post' = None
    /\ IF mGrallocHandleMap /\ mANativeWindow
       THEN /\ GiveToWindow
            /\ mFramesWithCameraAdapterMap' = map \ {post}
            /\ UNCHANGED crashed
       ELSE /\ crashed' = mGrallocHandleMap   \* no handles: -EINVAL
            /\ UNCHANGED <<owned, map, mDisplayQ>>
    /\ UNCHANGED <<mANativeWindow, abandoned, mGrallocHandleMap, messages, flags, camera,
                   frame, trouble>>

-----------------------------------------------------------------------------
(***************************************************************************)
(* The display thread: a message of the HAL first, then a frame.           *)
(***************************************************************************)
ProcessHalMsg ==
    /\ ~ crashed
    /\ frame = NoReturn
    /\ msgQ # "NONE"
    /\ mDisplayState' = IF msgQ = "START" THEN "STARTED" ELSE "STOPPED"
    /\ mDisplayQ' = IF msgQ = "STOP" THEN 0 ELSE mDisplayQ
    /\ msgQ' = "NONE"
    /\ acked' = TRUE
    /\ UNCHANGED <<window, mGrallocHandleMap, map, mDisplayEnabled, mPaused, subscribed,
                   camera, post, frame, faults>>

(* handleFrameReturn() up to the gralloc lock of the buffer it dequeued. *)
Dequeue ==
    /\ ~ crashed
    /\ frame = NoReturn
    /\ msgQ = "NONE"
    /\ mDisplayQ > 0 /\ mDisplayState # "INIT"
    /\ mDisplayQ' = mDisplayQ - 1
    /\ \/ /\ mDisplayState # "STARTED" \/ ~ mANativeWindow
          /\ UNCHANGED <<window, frame, trouble>>
       \/ /\ mDisplayState = "STARTED" /\ mANativeWindow /\ abandoned
          /\ mANativeWindow' \in BOOLEAN      \* NULL if the error is ENODEV
          /\ UNCHANGED <<owned, abandoned, frame, trouble>>
       \/ /\ mDisplayState = "STARTED" /\ mANativeWindow /\ ~ abandoned
          /\ \E b \in owned :
                /\ owned' = owned \ {b}
                /\ \/ /\ frame' = [at |-> "add", buf |-> b]
                      /\ UNCHANGED trouble
                      /\ UNCHANGED <<mANativeWindow, abandoned>>
                   \/ /\ WindowFails          \* lock_buffer(), or LOCK_BUFFER_TRIES used up
                      /\ trouble' = TRUE
                      /\ mANativeWindow' \in BOOLEAN
                      /\ abandoned' = ~ mANativeWindow'
                      /\ UNCHANGED frame
    /\ UNCHANGED <<mGrallocHandleMap, map, messages, flags, camera, post, crashed>>

AddToMap ==
    /\ ~ crashed
    /\ frame.at = "add"
    /\ mFramesWithCameraAdapterMap' = map \cup {frame.buf}
    /\ frame' = [frame EXCEPT !.at = "give"]
    /\ UNCHANGED <<window, mGrallocHandleMap, mDisplayQ, messages, flags, camera, post, faults>>

(***************************************************************************)
(* The add of the display thread, which has no lock, at the same time as   *)
(* the removeItem of PostFrame: both happen, or either one is lost.        *)
(***************************************************************************)
RacingUpdates ==
    /\ ~ crashed
    /\ frame.at = "add"
    /\ post # None /\ mGrallocHandleMap /\ mANativeWindow
    /\ GiveToWindow
    /\ mFramesWithCameraAdapterMap' \in {map \cup {frame.buf}, map \ {post}}
    /\ trouble' = TRUE
    /\ frame' = [frame EXCEPT !.at = "give"]
    /\ post' = None
    /\ UNCHANGED <<mANativeWindow, abandoned, mGrallocHandleMap, messages, flags, camera, crashed>>

(* returnFrame() and fillThisBuffer(), which refuses a frame when the      *)
(* adapter is not previewing.                                              *)
ReturnToCamera ==
    /\ ~ crashed
    /\ frame.at = "give"
    /\ ducati' = IF "PREVIEW" \in mAdapterState THEN ducati \cup {frame.buf} ELSE ducati
    /\ frame' = NoReturn
    /\ UNCHANGED <<window, mGrallocHandleMap, map, mDisplayQ, messages, flags,
                   mAdapterState, post, faults>>

(* The application abandons its surface. *)
Abandon ==
    /\ ~ crashed
    /\ WindowFails
    /\ mANativeWindow /\ ~ abandoned
    /\ abandoned' = TRUE
    /\ UNCHANGED <<mANativeWindow, owned, mGrallocHandleMap, map, mDisplayQ, messages, flags,
                   camera, post, frame, faults>>

-----------------------------------------------------------------------------
(***************************************************************************)
(* The parts of the operations the HAL calls.                              *)
(***************************************************************************)
(* allocateBuffer(): all buffers are dequeued and Undequeued of them are   *)
(* cancelled; entries the map still has stay in it.                        *)
AllocateBuffer ==
    /\ mANativeWindow /\ ~ abandoned
    /\ \E kept \in SUBSET Buffers :
          /\ Cardinality(kept) = Undequeued
          /\ owned' = kept
          /\ mFramesWithCameraAdapterMap' = map \cup (Buffers \ kept)
    /\ mGrallocHandleMap' = TRUE
    /\ trouble' = (map # {})
    /\ UNCHANGED <<mANativeWindow, abandoned, crashed>>

(* Its first error returns NULL and, before the fail label, leaves an      *)
(* array without handles.  When the window is abandoned after some buffers *)
(* were dequeued they cannot be cancelled, and with ENODEV the cancelling  *)
(* goes through the pointer that was just cleared.                         *)
AllocateFails ==
    \/ /\ ~ mANativeWindow
       /\ mGrallocHandleMap' = TRUE
       /\ UNCHANGED <<window, map, faults>>
    \/ /\ mANativeWindow /\ abandoned
       /\ mGrallocHandleMap' = TRUE
       /\ mANativeWindow' \in BOOLEAN
       /\ UNCHANGED <<owned, abandoned, map, faults>>
    \/ /\ mANativeWindow /\ ~ abandoned /\ WindowFails
       /\ mGrallocHandleMap' = FALSE
       /\ abandoned' = TRUE
       /\ mANativeWindow' \in BOOLEAN
       /\ crashed' = ~ mANativeWindow'
       /\ \E dequeued \in (SUBSET Buffers) \ {{}} :
             /\ owned' = owned \ dequeued
             /\ mFramesWithCameraAdapterMap' = map \cup dequeued
       /\ UNCHANGED trouble

(* Mutant: the map is not cleared when its buffers have been cancelled. *)
ReturnBuffersToWindowNoClear ==
    \/ /\ mANativeWindow /\ ~ abandoned
       /\ owned' = owned \cup map
       /\ UNCHANGED <<mANativeWindow, map>>
    \/ /\ ~ mANativeWindow
       /\ UNCHANGED <<mANativeWindow, owned, map>>

(* returnBuffersToWindow(): the first error ends it before the clear. *)
ReturnBuffersToWindow ==
    \/ /\ mANativeWindow /\ ~ abandoned
       /\ owned' = owned \cup map
       /\ mFramesWithCameraAdapterMap' = {}
       /\ UNCHANGED mANativeWindow
    \/ /\ ~ mANativeWindow
       /\ mFramesWithCameraAdapterMap' = {}
       /\ UNCHANGED <<mANativeWindow, owned>>
    \/ /\ mANativeWindow /\ abandoned
       /\ IF map = {} THEN UNCHANGED mANativeWindow ELSE mANativeWindow' \in BOOLEAN
       /\ UNCHANGED <<owned, map>>

FreeBuffer ==
    /\ ReturnBuffersToWindow
    /\ mGrallocHandleMap' = FALSE

(* disableDisplay() after the display thread has answered. *)
FinishDisable(cancel_buffer) ==
    /\ mDisplayEnabled' = FALSE
    /\ IF cancel_buffer
       THEN ReturnBuffersToWindow
       ELSE /\ mANativeWindow' = FALSE
            /\ mFramesWithCameraAdapterMap' = {}
            /\ UNCHANGED owned

=============================================================================
