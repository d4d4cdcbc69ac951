-------------------------- MODULE CallbackNotifier --------------------------
(***************************************************************************)
(* How a picture gets from the camera to the application: the image frames *)
(* of AppCallbackNotifier, the JPEG encoder threads it starts, and the     *)
(* operations of CameraHal that run against them.                          *)
(*                                                                         *)
(* Four kinds of thread meet here.  The application's thread is inside one *)
(* operation of CameraHal at a time.  The camera's callback thread puts    *)
(* image frames on mFrameQ.  The notifier's thread takes them: a frame the *)
(* camera compressed is copied and sent, any other is handed to a new      *)
(* encoder thread, which sends it.  Whoever is done with a frame calls     *)
(* returnFrame(), and the return of the last one ends the capture, which   *)
(* needs CameraHal's mLock.  The locks are CameraHal::mLock ("hal"),       *)
(* AppCallbackNotifier's mLock ("notifier") and mBurstLock ("burst"),      *)
(* mReturnFrameLock ("return") and the camera adapter's state lock         *)
(* ("state").  One that a thread holds only within a step is a condition   *)
(* of that step; one held across steps has its owner in lock.              *)
(*                                                                         *)
(* Pictures are without bracketing and raw frames, and the memory they     *)
(* need is always there.                                                   *)
(***************************************************************************)
EXTENDS Naturals, Sequences, FiniteSets, Functions

CONSTANTS Buffers,     \* the image buffers: NO_BUFFERS_IMAGE_CAPTURE of them
          Encoders,    \* encoder threads, used again once nothing refers to them
          Bursts,      \* how many pictures a takePicture() may ask for
          AppWaits,    \* the application lets each picture come to its end
          None

ASSUME NotifierAssumption ==
    /\ IsFiniteSet(Buffers) /\ Buffers # {}
    /\ Bursts \subseteq Nat \ {0}
    /\ AppWaits \in BOOLEAN
    /\ None \notin Encoders \cup Buffers \cup {"app", "notifier", "exited"}
    /\ Encoders \cap {"app", "notifier", "exited"} = {}

Threads == Encoders \cup {"app", "notifier"}
Locks == {"hal", "notifier", "burst", "return", "state"}

VARIABLES
    lock,              \* the owner of each lock, None when free
    state,             \* the camera adapter's: initialised, preview or capture
    mCapturedFrames,   \* frames the capture in progress still has to bring
    available,         \* the buffers whose count in mCaptureBuffersAvailable is 1
    camera,            \* the image buffers queued at the camera
    mImageBufs,        \* CameraHal has image buffers allocated
    encodes,           \* mQuirks of the frames of this capture: they need encoding
    mNotifierStarted, mFrameQ, gEncoderQueue,
    encoder,           \* the encoder threads
    frame,             \* the notifier thread's frame, and the encoder it started
    at,                \* where "app" and "notifier" are
    returning,         \* how far each thread is in returnFrame()
    waiting,           \* pictures the application has asked for and not got
    crashed            \* a lookup in gEncoderQueue read outside its array

adapter == <<state, mCapturedFrames, available, camera, mImageBufs, encodes>>
notifier == <<mNotifierStarted, mFrameQ, gEncoderQueue, encoder, frame>>
threads == <<lock, at, returning, waiting, crashed>>
vars == <<adapter, notifier, threads>>

Idle == [at |-> "no", buf |-> None]

NewEncoder == [at |-> "none", buf |-> None, mCancelEncoding |-> FALSE,
               mem |-> 0, exif |-> 0, fate |-> "clean"]

TypeOK ==
    /\ lock \in [Locks -> Threads \cup {None}]
    /\ state \in {"initialised", "preview", "capture"}
    /\ mCapturedFrames \in Nat
    /\ available \subseteq Buffers /\ camera \subseteq Buffers
    /\ {mImageBufs, encodes, mNotifierStarted, crashed} \subseteq BOOLEAN
    /\ mFrameQ \in Seq([buf : Buffers, encode : BOOLEAN])
    /\ DOMAIN gEncoderQueue \subseteq Buffers /\ Range(gEncoderQueue) \subseteq Encoders \cup {"exited"}
    /\ encoder \in [Encoders ->
          [at : {"none", "encode", "done", "send", "burst", "test", "release", "return"},
           buf : Buffers \cup {None}, mCancelEncoding : BOOLEAN, mem : 0..2, exif : 0..2,
           fate : {"clean", "early", "met", "missed"}]]
    /\ frame \in [buf : Buffers \cup {None}, encoder : Encoders \cup {None, "exited"}]
    /\ at \in [{"app", "notifier"} ->
          {"idle", "setBurst", "cancelEncoders", "flush", "flushing", "rollback", "stopping",
           "encode", "add", "msgType", "lockBurst", "lock", "copy", "skip", "send"}]
    /\ returning \in [Threads -> [at : {"no", "return", "end", "stopping"},
                                  buf : Buffers \cup {None}]]
    /\ waiting \in Nat

Free(l) == lock[l] = None
Owned(l, t) == lock' = [lock EXCEPT ![l] = t]
Released(ls) == lock' = [l \in Locks |-> IF l \in ls THEN None ELSE lock[l]]
Goto(t, where) == at' = [at EXCEPT ![t] = where]
Returns(t, where, b) == returning' = [returning EXCEPT ![t] = [at |-> where, buf |-> b]]
Delivered == waiting' = IF waiting > 0 THEN waiting - 1 ELSE 0

Init ==
    /\ lock = [l \in Locks |-> None]
    /\ state = "initialised" /\ mCapturedFrames = 0 /\ available = {} /\ camera = {}
    /\ mImageBufs = FALSE /\ encodes = FALSE
    /\ mNotifierStarted = FALSE /\ mFrameQ = <<>> /\ gEncoderQueue = <<>>
    /\ encoder = [e \in Encoders |-> NewEncoder]
    /\ frame = [buf |-> None, encoder |-> None]
    /\ at = [t \in {"app", "notifier"} |-> "idle"]
    /\ returning = [t \in Threads |-> Idle]
    /\ waiting = 0 /\ crashed = FALSE
-----------------------------------------------------------------------------
(***************************************************************************)
(* returnFrame() of the camera adapter, run by thread t.                   *)
(***************************************************************************)

\* The count goes down and the buffer back to the camera, unless nobody held it, preview
\* is over, or the capture has all its frames: then mLock of CameraHal is asked for with
\* mReturnFrameLock held.
ReturnFrame(t) ==
    LET b == returning[t].buf IN
    /\ returning[t].at = "return" /\ Free("return")
    /\ available' = available \ {b}
    /\ IF b \in available /\ state # "initialised" /\ mCapturedFrames < 1
       THEN Returns(t, "end", b) /\ Owned("return", t) /\ camera' = camera
       ELSE /\ Returns(t, "no", None) /\ lock' = lock
            /\ camera' = IF b \in available /\ state # "initialised"
                         THEN camera \cup {b} ELSE camera
    /\ UNCHANGED <<state, mCapturedFrames, mImageBufs, encodes, notifier, at, waiting, crashed>>

\* Mutant: the refused command returns without unlocking mReturnFrameLock.
StopImageCaptureNoUnlock(t) ==
    /\ returning[t].at = "end" /\ Free("hal") /\ Free("state")
    /\ IF state = "capture"
       THEN /\ Returns(t, "stopping", None)
            /\ lock' = [lock EXCEPT !["hal"] = t, !["state"] = t]
       ELSE Returns(t, "no", None) /\ lock' = lock
    /\ UNCHANGED <<adapter, notifier, at, waiting, crashed>>

\* signalEndImageCapture() and cancelPicture(): with mLock, STOP_IMAGE_CAPTURE is sent.
\* The adapter refuses it when no capture is on.
StopImageCapture(t) ==
    /\ returning[t].at = "end" /\ Free("hal") /\ Free("state")
    /\ IF state = "capture"
       THEN /\ Returns(t, "stopping", None)
            /\ lock' = [lock EXCEPT !["hal"] = t, !["state"] = t]
       ELSE /\ Returns(t, "no", None)
            /\ lock' = IF lock["return"] = t THEN [lock EXCEPT !["return"] = None] ELSE lock
    /\ UNCHANGED <<adapter, notifier, at, waiting, crashed>>

\* stopImageCapture() has waited for the frame of the capture, or for the timeout, and
\* the adapter is back in preview.
ImageCaptureStopped(t) ==
    /\ returning[t].at = "stopping"
    /\ state' = "preview" /\ encodes' = FALSE
    /\ Returns(t, "no", None)
    /\ Released({l \in Locks : l \in {"hal", "state"} \/ (l = "return" /\ lock[l] = t)})
    /\ UNCHANGED <<mCapturedFrames, available, camera, mImageBufs, notifier, at, waiting, crashed>>
-----------------------------------------------------------------------------
(***************************************************************************)
(* The camera's callback thread.                                           *)
(***************************************************************************)

\* An image buffer comes back filled: with a capture on and frames still due it goes to
\* the notifier, else it is dropped.
FillBufferDone(b) ==
    /\ b \in camera /\ state = "capture" /\ mCapturedFrames > 0
    /\ mCapturedFrames' = mCapturedFrames - 1
    /\ available' = available \cup {b}
    /\ camera' = camera \ {b}
    /\ mFrameQ' = Append(mFrameQ, [buf |-> b, encode |-> encodes])
    /\ UNCHANGED <<state, mImageBufs, encodes, mNotifierStarted, gEncoderQueue, encoder, frame,
                   threads>>

DropFrame(b) ==
    /\ b \in camera /\ (state # "capture" \/ mCapturedFrames < 1)
    /\ camera' = camera \ {b}
    /\ UNCHANGED <<state, mCapturedFrames, available, mImageBufs, encodes, notifier, threads>>
-----------------------------------------------------------------------------
(***************************************************************************)
(* The notifier's thread: notifyFrame().                                   *)
(***************************************************************************)

NotifyFrame ==
    /\ at["notifier"] = "idle" /\ mFrameQ # <<>> /\ Free("notifier")
    /\ mFrameQ' = Tail(mFrameQ)
    /\ frame' = [frame EXCEPT !.buf = Head(mFrameQ).buf]
    /\ Goto("notifier", IF Head(mFrameQ).encode THEN "encode" ELSE "msgType")
    /\ UNCHANGED <<adapter, mNotifierStarted, gEncoderQueue, encoder, lock, returning, waiting,
                   crashed>>

\* The encoder thread runs before gEncoderQueue has it, whatever mNotifierState is.
RunEncoder ==
    LET unused == {e \in Encoders : encoder[e].at = "none"}
        e == CHOOSE e \in unused : TRUE IN
    /\ at["notifier"] = "encode" /\ unused # {}
    /\ encoder' = [encoder EXCEPT ![e] =
          [NewEncoder EXCEPT !.at = "encode", !.buf = frame.buf,
                             !.fate = IF mNotifierStarted THEN "clean" ELSE "missed"]]
    /\ frame' = [frame EXCEPT !.encoder = e]
    /\ Goto("notifier", "add")
    /\ UNCHANGED <<adapter, mNotifierStarted, mFrameQ, gEncoderQueue, lock, returning, waiting,
                   crashed>>

\* Mutant: the frame is returned once its encoder is started.
AddEncoderReturnsFrame ==
    /\ at["notifier"] = "add"
    /\ gEncoderQueue' = [b \in DOMAIN gEncoderQueue \cup {frame.buf} |->
                            IF b = frame.buf THEN frame.encoder ELSE gEncoderQueue[b]]
    /\ frame' = [buf |-> None, encoder |-> None]
    /\ Goto("notifier", "idle")
    /\ Returns("notifier", "return", frame.buf)
    /\ UNCHANGED <<adapter, mNotifierStarted, mFrameQ, encoder, lock, waiting, crashed>>

AddEncoder ==
    /\ at["notifier"] = "add"
    /\ gEncoderQueue' = [b \in DOMAIN gEncoderQueue \cup {frame.buf} |->
                            IF b = frame.buf THEN frame.encoder ELSE gEncoderQueue[b]]
    /\ frame' = [buf |-> None, encoder |-> None]
    /\ Goto("notifier", "idle")
    /\ UNCHANGED <<adapter, mNotifierStarted, mFrameQ, encoder, lock, returning, waiting, crashed>>

\* A compressed frame: msgTypeEnabled() takes and leaves mLock of CameraHal, then
\* mBurstLock is held until the picture is sent.
AskMsgType ==
    /\ at["notifier"] = "msgType" /\ Free("hal")
    /\ Goto("notifier", "lockBurst")
    /\ UNCHANGED <<adapter, notifier, lock, returning, waiting, crashed>>

LockBurst ==
    /\ at["notifier"] = "lockBurst" /\ Free("burst")
    /\ Owned("burst", "notifier")
    /\ Goto("notifier", "lock")
    /\ UNCHANGED <<adapter, notifier, returning, waiting, crashed>>

\* copyAndSendPictureFrame() copies under the notifier's mLock if the notifier is started,
\* and returns the frame in any case.
StartCopy ==
    /\ at["notifier"] = "lock" /\ Free("notifier")
    /\ IF mNotifierStarted
       THEN Goto("notifier", "copy") /\ Owned("notifier", "notifier") /\ UNCHANGED returning
       ELSE Goto("notifier", "skip") /\ Returns("notifier", "return", frame.buf) /\ UNCHANGED lock
    /\ UNCHANGED <<adapter, notifier, waiting, crashed>>

Copied ==
    /\ at["notifier"] = "copy"
    /\ Goto("notifier", "send")
    /\ Released({"notifier"})
    /\ Returns("notifier", "return", frame.buf)
    /\ UNCHANGED <<adapter, notifier, waiting, crashed>>

\* With the frame returned the copy is sent, after another msgTypeEnabled().
SendCopy ==
    /\ at["notifier"] \in {"send", "skip"} /\ returning["notifier"].at = "no"
    /\ IF at["notifier"] = "send" /\ mNotifierStarted
       THEN Free("hal") /\ Delivered
       ELSE UNCHANGED waiting
    /\ frame' = [frame EXCEPT !.buf = None]
    /\ Released({"burst"})
    /\ Goto("notifier", "idle")
    /\ UNCHANGED <<adapter, mNotifierStarted, mFrameQ, gEncoderQueue, encoder, returning, crashed>>

NotifierStep ==
    /\ ~ crashed
    /\ \/ NotifyFrame
       \/ RunEncoder
       \/ AddEncoder
       \/ AskMsgType
       \/ LockBurst
       \/ StartCopy
       \/ Copied
       \/ SendCopy
-----------------------------------------------------------------------------
(***************************************************************************)
(* An encoder thread: threadLoop() and EncoderDoneCb().                    *)
(***************************************************************************)

\* The thread ends; its object stays where gEncoderQueue or the notifier's thread has it.
ExitEncoder(e) ==
    /\ encoder' = [encoder EXCEPT ![e] = NewEncoder]
    /\ gEncoderQueue' = [b \in DOMAIN gEncoderQueue |->
                            IF gEncoderQueue[b] = e THEN "exited" ELSE gEncoderQueue[b]]
    /\ frame' = IF frame.encoder = e THEN [frame EXCEPT !.encoder = "exited"] ELSE frame

\* The image, or with mCancelEncoding set what there is of it, is encoded; a cancelled
\* encoder calls back to no effect.
Encode(e) ==
    /\ encoder[e].at = "encode"
    /\ IF encoder[e].mCancelEncoding
       THEN ExitEncoder(e)
       ELSE /\ encoder' = [encoder EXCEPT ![e].at = "done",
                  ![e].fate = IF frame.encoder = e /\ @ = "clean" THEN "early" ELSE @]
            /\ UNCHANGED <<gEncoderQueue, frame>>
    /\ UNCHANGED <<adapter, mNotifierStarted, mFrameQ, threads>>

\* Under the notifier's mLock the picture is put together and the EXIF table deleted.
BuildPicture(e) ==
    /\ encoder[e].at = "done" /\ Free("notifier")
    /\ encoder' = [encoder EXCEPT ![e].at = "send", ![e].exif = @ + 1]
    /\ UNCHANGED <<adapter, mNotifierStarted, mFrameQ, gEncoderQueue, frame, threads>>

\* dummyRaw() and the test before sending take and leave mLock of CameraHal.
TestEnabled(e) ==
    /\ encoder[e].at = "send" /\ Free("hal")
    /\ encoder' = [encoder EXCEPT ![e].at = IF mNotifierStarted THEN "burst" ELSE "test"]
    /\ UNCHANGED <<adapter, mNotifierStarted, mFrameQ, gEncoderQueue, frame, threads>>

SendPicture(e) ==
    /\ encoder[e].at = "burst" /\ Free("burst")
    /\ Delivered
    /\ encoder' = [encoder EXCEPT ![e].at = "test"]
    /\ UNCHANGED <<adapter, mNotifierStarted, mFrameQ, gEncoderQueue, frame, lock, at, returning,
                   crashed>>

\* mNotifierState is read with no lock: started, the encoder releases what it holds and
\* its frame; stopped, it leaves both.
TestStarted(e) ==
    /\ encoder[e].at = "test"
    /\ IF mNotifierStarted
       THEN encoder' = [encoder EXCEPT ![e].at = "release"] /\ UNCHANGED <<gEncoderQueue, frame>>
       ELSE ExitEncoder(e)
    /\ UNCHANGED <<adapter, mNotifierStarted, mFrameQ, threads>>

\* Mutant: the finished encoder stays in gEncoderQueue.
ReleaseEncoderKeepsEntry(e) ==
    LET b == encoder[e].buf IN
    /\ encoder[e].at = "release"
    /\ encoder' = [encoder EXCEPT ![e].at = "return", ![e].mem = @ + 1]
    /\ gEncoderQueue' = gEncoderQueue
    /\ crashed' \in IF b \in DOMAIN gEncoderQueue THEN {FALSE} ELSE BOOLEAN
    /\ Returns(e, "return", b)
    /\ UNCHANGED <<adapter, mNotifierStarted, mFrameQ, frame, lock, at, waiting>>

\* Mutant: the encoder's frame is not returned.
ReleaseEncoderKeepsFrame(e) ==
    LET b == encoder[e].buf IN
    /\ encoder[e].at = "release"
    /\ encoder' = [encoder EXCEPT ![e].at = "return", ![e].mem = @ + 1]
    /\ gEncoderQueue' = Restrict(gEncoderQueue, DOMAIN gEncoderQueue \ {b})
    /\ crashed' \in IF b \in DOMAIN gEncoderQueue THEN {FALSE} ELSE BOOLEAN
    /\ UNCHANGED <<adapter, mNotifierStarted, mFrameQ, frame, lock, at, returning, waiting>>

\* The memory goes, then the entry under the frame's address.  valueFor() of an absent key
\* reads in front of the array: the program ends there or finds a null pointer.
ReleaseEncoder(e) ==
    LET b == encoder[e].buf IN
    /\ encoder[e].at = "release"
    /\ encoder' = [encoder EXCEPT ![e].at = "return", ![e].mem = @ + 1]
    /\ gEncoderQueue' = Restrict(gEncoderQueue, DOMAIN gEncoderQueue \ {b})
    /\ crashed' \in IF b \in DOMAIN gEncoderQueue THEN {FALSE} ELSE BOOLEAN
    /\ Returns(e, "return", b)
    /\ UNCHANGED <<adapter, mNotifierStarted, mFrameQ, frame, lock, at, waiting>>

EncoderExits(e) ==
    /\ encoder[e].at = "return" /\ returning[e].at = "no"
    /\ ExitEncoder(e)
    /\ UNCHANGED <<adapter, mNotifierStarted, mFrameQ, threads>>

EncoderStep(e) ==
    /\ ~ crashed
    /\ \/ Encode(e)
       \/ BuildPicture(e)
       \/ TestEnabled(e)
       \/ SendPicture(e)
       \/ TestStarted(e)
       \/ ReleaseEncoder(e)
       \/ EncoderExits(e)
-----------------------------------------------------------------------------
(***************************************************************************)
(* The application's thread, in the operations of CameraHal.               *)
(***************************************************************************)

AppIdle == at["app"] = "idle" /\ returning["app"].at = "no"

\* Nothing of an earlier picture is under way.
PicturesDone ==
    /\ waiting = 0 /\ mFrameQ = <<>> /\ at["notifier"] = "idle"
    /\ \A e \in Encoders : encoder[e].at = "none"

StartPreview ==
    /\ AppIdle /\ state = "initialised"
    /\ mNotifierStarted' = TRUE /\ gEncoderQueue' = <<>>
    /\ state' = "preview"
    /\ UNCHANGED <<mCapturedFrames, available, camera, mImageBufs, encodes, mFrameQ, encoder, frame,
                   threads>>

\* takePicture() holds mLock while setBurst() waits for mBurstLock.
TakePicture ==
    /\ AppIdle /\ state = "preview" /\ Free("hal")
    /\ AppWaits => PicturesDone
    /\ Owned("hal", "app")
    /\ Goto("app", "setBurst")
    /\ UNCHANGED <<adapter, notifier, returning, waiting, crashed>>

\* A burst has all the image buffers, a single picture the first one.
StartImageCapture(n, encode) ==
    /\ at["app"] = "setBurst" /\ Free("burst")
    /\ mImageBufs' = TRUE /\ available' = {} /\ mCapturedFrames' = n
    /\ camera' = (IF n > 1 THEN Buffers ELSE {CHOOSE b \in Buffers : TRUE})
    /\ encodes' = encode
    /\ state' = "capture" /\ waiting' = n
    /\ Released({"hal"})
    /\ Goto("app", "idle")
    /\ UNCHANGED <<notifier, returning, crashed>>

CancelPicture ==
    /\ AppIdle /\ state = "capture"
    /\ Returns("app", "end", None)
    /\ waiting' = 0
    /\ UNCHANGED <<adapter, notifier, lock, at, crashed>>

\* setParameters() with another picture size or quality disables the image port and frees
\* the image buffers.
ChangeCaptureSettings ==
    /\ AppIdle /\ mImageBufs /\ Free("hal") /\ Free("state")
    /\ AppWaits => PicturesDone
    /\ mImageBufs' = FALSE /\ camera' = {}
    /\ UNCHANGED <<state, mCapturedFrames, available, encodes, notifier, threads>>

\* forceStopPreview(): the notifier is stopped, ...
StopNotifier ==
    /\ AppIdle /\ state # "initialised" /\ Free("notifier")
    /\ mNotifierStarted' = FALSE
    /\ waiting' = 0
    /\ Goto("app", "cancelEncoders")
    /\ UNCHANGED <<adapter, mFrameQ, gEncoderQueue, encoder, frame, lock, returning, crashed>>

\* ... which cancels every encoder in gEncoderQueue and releases what it holds (cancel()
\* waits for the end of the encoding only if a thumbnail is encoded too, and not for ever),
CancelEncoder(b) ==
    LET e == gEncoderQueue[b] IN
    /\ at["app"] = "cancelEncoders" /\ b \in DOMAIN gEncoderQueue
    /\ gEncoderQueue' = Restrict(gEncoderQueue, DOMAIN gEncoderQueue \ {b})
    /\ encoder' = IF e = "exited" THEN encoder ELSE [encoder EXCEPT
          ![e].mCancelEncoding = TRUE, ![e].mem = @ + 1, ![e].exif = @ + 1,
          ![e].fate = IF encoder[e].at = "encode" THEN @ ELSE "met"]
    /\ UNCHANGED <<adapter, mNotifierStarted, mFrameQ, frame, threads>>

EncodersCancelled ==
    /\ at["app"] = "cancelEncoders" /\ DOMAIN gEncoderQueue = {}
    /\ encoder' = [e \in Encoders |->
          IF e = frame.encoder THEN [encoder[e] EXCEPT !.fate = "missed"] ELSE encoder[e]]
    /\ Goto("app", "flush")
    /\ UNCHANGED <<adapter, mNotifierStarted, mFrameQ, gEncoderQueue, frame, lock, returning, waiting,
                   crashed>>

\* ... then the frames in mFrameQ are returned with the notifier's mLock held, ...
LockFlush ==
    /\ at["app"] = "flush" /\ Free("notifier")
    /\ Owned("notifier", "app")
    /\ Goto("app", "flushing")
    /\ UNCHANGED <<adapter, notifier, returning, waiting, crashed>>

FlushFrame ==
    /\ at["app"] = "flushing" /\ returning["app"].at = "no" /\ mFrameQ # <<>>
    /\ mFrameQ' = Tail(mFrameQ)
    /\ Returns("app", "return", Head(mFrameQ).buf)
    /\ UNCHANGED <<adapter, mNotifierStarted, gEncoderQueue, encoder, frame, lock, at, waiting,
                   crashed>>

Flushed ==
    /\ at["app"] = "flushing" /\ returning["app"].at = "no" /\ mFrameQ = <<>>
    /\ Released({"notifier"})
    /\ Goto("app", "rollback")
    /\ UNCHANGED <<adapter, notifier, returning, waiting, crashed>>

\* ... and the adapter is rolled back; while it stops a capture, frames may still come.
Rollback ==
    /\ at["app"] = "rollback" /\ Free("state")
    /\ Owned("state", "app")
    /\ Goto("app", "stopping")
    /\ UNCHANGED <<adapter, notifier, returning, waiting, crashed>>

RolledBack ==
    /\ at["app"] = "stopping"
    /\ state' = "initialised" /\ camera' = {} /\ encodes' = FALSE
    /\ Released({"state"})
    /\ Goto("app", "idle")
    /\ UNCHANGED <<mCapturedFrames, available, mImageBufs, notifier, returning, waiting, crashed>>

AppCall ==
    /\ ~ crashed
    /\ \/ StartPreview
       \/ TakePicture
       \/ CancelPicture
       \/ ChangeCaptureSettings
       \/ StopNotifier

AppStep ==
    /\ ~ crashed
    /\ \/ \E n \in Bursts, encode \in BOOLEAN : StartImageCapture(n, encode)
       \/ \E b \in Buffers : CancelEncoder(b)
       \/ EncodersCancelled
       \/ LockFlush
       \/ FlushFrame
       \/ Flushed
       \/ Rollback
       \/ RolledBack
-----------------------------------------------------------------------------
CameraStep == ~ crashed /\ \E b \in Buffers : FillBufferDone(b) \/ DropFrame(b)

ReturnStep(t) == ~ crashed /\ (ReturnFrame(t) \/ StopImageCapture(t) \/ ImageCaptureStopped(t))

Next ==
    \/ AppCall
    \/ AppStep
    \/ NotifierStep
    \/ \E e \in Encoders : EncoderStep(e)
    \/ \E t \in Threads : ReturnStep(t)
    \/ CameraStep

\* Threads are scheduled and the locks they wait for reach them in turn; the camera
\* fills what it is given.  The application calls when it likes.
Fairness ==
    /\ SF_vars(AppStep \/ ReturnStep("app"))
    /\ SF_vars(NotifierStep \/ ReturnStep("notifier"))
    /\ \A e \in Encoders : SF_vars(EncoderStep(e) \/ ReturnStep(e))
    /\ WF_vars(CameraStep)

Spec == Init /\ [][Next]_vars /\ Fairness
-----------------------------------------------------------------------------
(***************************************************************************)
(* Properties.                                                             *)
(***************************************************************************)

(* What an encoder holds (the memory it writes, the EXIF table) is released *)
(* once and its entry in gEncoderQueue removed, by its callback or by       *)
(* stop(), and the entry is its own when it looks it up.  The exceptions    *)
(* are the races the code leaves open: an encoder that ends before it is in *)
(* gEncoderQueue ("early"), one that stop() finds in its callback ("met"),  *)
(* and one that stop() does not find because it is not in gEncoderQueue yet *)
(* ("missed").                                                              *)
EncoderHoldings ==
    \A e \in Encoders : encoder[e].fate = "clean" =>
       /\ encoder[e].mem <= 1 /\ encoder[e].exif <= 1
       /\ encoder[e].at \in {"test", "release"} =>
             encoder[e].buf \in DOMAIN gEncoderQueue /\ gEncoderQueue[encoder[e].buf] = e
       /\ encoder[e].at = "return" \/ encoder[e].mCancelEncoding =>
             encoder[e].mem = 1 /\ encoder[e].exif = 1 /\ e \notin Range(gEncoderQueue)

(* A picture is neither freed nor filled again by the camera while the      *)
(* notifier's thread copies it or an encoder reads it, in a burst that uses *)
(* its buffers again, through cancelPicture() and stopPreview(): returned   *)
(* frames go back to the camera only when they have been read.              *)
SourceStays ==
    /\ at["notifier"] = "copy" => mImageBufs /\ frame.buf \notin camera
    /\ \A e \in Encoders :
          encoder[e].at = "encode" /\ ~ encoder[e].mCancelEncoding /\ encoder[e].fate # "missed"
          => mImageBufs /\ encoder[e].buf \notin camera

(* Every capture ends: its last frame comes back through returnFrame(),     *)
(* which gets mLock of CameraHal and stops the capture.                     *)
CaptureEnds == (state = "capture") ~> (state # "capture" \/ crashed)

(* Every operation returns and every picture asked for is sent or given up: *)
(* the five locks do not close a cycle as long as the application lets a    *)
(* picture come to its end before it takes the next one.                    *)
ApplicationServed ==
    (~ AppIdle \/ waiting > 0) ~> ((AppIdle /\ waiting = 0) \/ crashed)
=============================================================================
