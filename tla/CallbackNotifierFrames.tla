----------------------- MODULE CallbackNotifierFrames -----------------------
(***************************************************************************)
(* The inductive invariant of the notifier's pictures, for any number of   *)
(* image buffers and encoder threads and bursts of any length, and the     *)
(* steps of the camera adapter and of the notifier's thread: a frame moves *)
(* from the camera into mFrameQ, to the notifier's thread, to an encoder   *)
(* and back.  CallbackNotifierProofs has the other steps and the theorems. *)
(***************************************************************************)
EXTENDS CallbackNotifier, TLAPS

(* Where an encoder still has its frame. *)
Reading == {"encode", "done", "send", "burst", "test", "release"}

(* The points of the notifier's thread at which its frame is its own, and  *)
(* those of the application's thread inside forceStopPreview().            *)
Owning == {"encode", "msgType", "lockBurst", "lock", "copy"}
StopPhase == {"cancelEncoders", "flush", "flushing", "rollback", "stopping"}

(* The buffers in mFrameQ, with the notifier's thread, with the encoders   *)
(* and in returnFrame(); the others are with the camera or unused.         *)
Bufs(q) == {q[x].buf : x \in DOMAIN q}
InQueue == Bufs(mFrameQ)
Taken == IF at["notifier"] \in Owning THEN {frame.buf} ELSE {}
Readers == {e \in Encoders : encoder[e].at \in Reading}
Read == {encoder[e].buf : e \in Readers}
Returners == {t \in Threads : returning[t].at = "return"}
Returned == {returning[t].buf : t \in Returners}

(* The types that the proof needs. *)
Frames == [buf : Buffers, encode : BOOLEAN]

AdapterTypes ==
    /\ state \in {"initialised", "preview", "capture"}
    /\ camera \subseteq Buffers
    /\ mImageBufs \in BOOLEAN /\ encodes \in BOOLEAN /\ mNotifierStarted \in BOOLEAN

QueueTypes ==
    /\ mFrameQ \in Seq(Frames)
    /\ DOMAIN gEncoderQueue \subseteq Buffers
    /\ \A b \in DOMAIN gEncoderQueue : gEncoderQueue[b] \in Encoders \cup {"exited"}

EncoderTypes ==
    /\ encoder \in [Encoders ->
          [at : Reading \cup {"none", "return"}, buf : Buffers \cup {None},
           mCancelEncoding : BOOLEAN, mem : Nat, exif : Nat,
           fate : {"clean", "early", "met", "missed"}]]
    /\ frame \in [buf : Buffers \cup {None}, encoder : Encoders \cup {None, "exited"}]

ThreadTypes ==
    /\ at \in [{"app", "notifier"} ->
          StopPhase \cup Owning \cup {"idle", "setBurst", "add", "skip", "send"}]
    /\ returning \in [Threads -> [at : {"no", "return", "end", "stopping"}, buf : Buffers \cup {None}]]
    /\ lock \in [Locks -> Threads \cup {None}]

Types == AdapterTypes /\ QueueTypes /\ EncoderTypes /\ ThreadTypes

(* A buffer is in one place. *)
Distinct(q) == \A x, y \in DOMAIN q : q[x].buf = q[y].buf => x = y

OnePlace ==
    /\ camera \cap InQueue = {} /\ camera \cap Taken = {} /\ camera \cap Read = {}
    /\ camera \cap Returned = {}
    /\ InQueue \cap Taken = {} /\ InQueue \cap Read = {} /\ InQueue \cap Returned = {}
    /\ Taken \cap Read = {} /\ Taken \cap Returned = {} /\ Read \cap Returned = {}
    /\ Distinct(mFrameQ)
    /\ \A e, f \in Readers : encoder[e].buf = encoder[f].buf => e = f
    /\ \A t, u \in Returners : returning[t].buf = returning[u].buf => t = u

(* Wherever there are image buffers, they are allocated. *)
Allocated == camera \cup InQueue \cup Taken \cup Read \cup Returned # {} => mImageBufs

(* Who is in returnFrame(), and who has which frame. *)
ThreadsInv ==
    /\ \A e \in Encoders : returning[e].at # "no" => encoder[e].at = "return"
    /\ returning["notifier"].at # "no" => at["notifier"] \in {"skip", "send"}
    /\ returning["app"].at # "no" => at["app"] \in {"idle", "flushing"}
    /\ \A t \in Returners : returning[t].buf \in Buffers
    /\ at["notifier"] \in Owning \cup {"idle", "add", "skip", "send"}
    /\ at["notifier"] # "idle" => frame.buf \in Buffers
    /\ frame.encoder # None <=> at["notifier"] = "add"
    /\ \A e \in Encoders : IF encoder[e].at = "none" THEN encoder[e] = NewEncoder
                           ELSE encoder[e].buf \in Buffers

(* The camera adapter's state lock, and what the application's thread is   *)
(* doing when the notifier is stopped.                                     *)
StateInv ==
    /\ \A t \in Threads : returning[t].at = "stopping" => lock["state"] = t /\ state = "capture"
    /\ at["app"] = "stopping" => lock["state"] = "app"
    /\ at["app"] = "setBurst" =>
          /\ state = "preview" /\ at["notifier"] = "idle" /\ mFrameQ = <<>>
          /\ \A e \in Encoders : encoder[e].at = "none"
    /\ mNotifierStarted <=> state # "initialised" /\ at["app"] \notin StopPhase

(* gEncoderQueue has running encoders under the address of their frames;   *)
(* the one that is to be added is not in it, and no other reads its frame. *)
QueueInv ==
    /\ \A b \in DOMAIN gEncoderQueue : gEncoderQueue[b] \in Encoders =>
          encoder[gEncoderQueue[b]].at # "none" /\ encoder[gEncoderQueue[b]].buf = b
    /\ frame.encoder \in Encoders =>
          /\ encoder[frame.encoder].at # "none" /\ encoder[frame.encoder].buf = frame.buf
          /\ frame.encoder \notin Range(gEncoderQueue)
    /\ at["notifier"] = "add" =>
          \A e \in Encoders \ {frame.encoder} : encoder[e].at \in Reading => encoder[e].buf # frame.buf

(* The life of an encoder that meets none of the races. *)
Entered(e) == encoder[e].buf \in DOMAIN gEncoderQueue /\ gEncoderQueue[encoder[e].buf] = e
Gone(e) == e \notin Range(gEncoderQueue) /\ frame.encoder # e
Holdings(e, mem, exif) == encoder[e].mem = mem /\ encoder[e].exif = exif

Life(e) ==
    \/ encoder[e].at = "none" /\ Gone(e)
    \/ /\ encoder[e].at = "encode" /\ ~ encoder[e].mCancelEncoding
       /\ Holdings(e, 0, 0) /\ (Entered(e) \/ frame.encoder = e)
    \/ encoder[e].at = "encode" /\ encoder[e].mCancelEncoding /\ Holdings(e, 1, 1) /\ Gone(e)
    \/ encoder[e].at = "done" /\ ~ encoder[e].mCancelEncoding /\ Holdings(e, 0, 0) /\ Entered(e)
    \/ /\ encoder[e].at \in {"send", "burst", "test", "release"} /\ ~ encoder[e].mCancelEncoding
       /\ Holdings(e, 0, 1) /\ Entered(e)
    \/ encoder[e].at = "return" /\ ~ encoder[e].mCancelEncoding /\ Holdings(e, 1, 1) /\ Gone(e)

(* Once stop() has been through gEncoderQueue it has cancelled them all. *)
LivesInv ==
    \A e \in Encoders : encoder[e].fate = "clean" =>
        /\ Life(e)
        /\ ~ mNotifierStarted /\ at["app"] # "cancelEncoders" /\ encoder[e].at \in Reading =>
              encoder[e].mCancelEncoding

(* The inductive invariant. *)
PictureInv == Types /\ OnePlace /\ Allocated /\ ThreadsInv /\ StateInv /\ QueueInv /\ LivesInv

-----------------------------------------------------------------------------
(* A frame at the end of mFrameQ. *)
LEMMA AppendedFrame ==
    ASSUME NEW q \in Seq(Frames), NEW f \in Frames, Distinct(q), f.buf \notin Bufs(q),
           NEW p, p = Append(q, f)
    PROVE  /\ p \in Seq(Frames) /\ Distinct(p)
           /\ Bufs(p) = Bufs(q) \cup {f.buf}
<1>1. /\ p \in Seq(Frames) /\ Len(q) \in Nat /\ DOMAIN q = 1 .. Len(q)
      /\ DOMAIN p = 1 .. (Len(q) + 1)
      /\ \A x \in 1 .. Len(q) : p[x] = q[x]
      /\ p[Len(q) + 1] = f
  OBVIOUS
<1>2. \A x \in DOMAIN p : (x \in DOMAIN q /\ p[x] = q[x]) \/ (x = Len(q) + 1 /\ p[x] = f)
  BY <1>1
<1>3. \A x \in DOMAIN q : x \in DOMAIN p /\ p[x] = q[x] /\ x # Len(q) + 1
  BY <1>1
<1>4. Len(q) + 1 \in DOMAIN p
  BY <1>1
<1>5. Distinct(p)
  BY <1>2 DEF Distinct, Bufs
<1>6. Bufs(p) = Bufs(q) \cup {f.buf}
  BY <1>1, <1>2, <1>3, <1>4 DEF Bufs
<1> QED BY <1>1, <1>5, <1>6

(* The first frame of mFrameQ is taken. *)
LEMMA TakenFrame ==
    ASSUME NEW q \in Seq(Frames), q # <<>>, Distinct(q), NEW p, p = Tail(q)
    PROVE  /\ p \in Seq(Frames) /\ Distinct(p) /\ Head(q) \in Frames /\ Head(q).buf \in Bufs(q)
           /\ Bufs(p) = Bufs(q) \ {Head(q).buf}
<1>1. /\ p \in Seq(Frames) /\ Len(q) \in Nat /\ Len(q) > 0 /\ DOMAIN q = 1 .. Len(q)
      /\ Head(q) = q[1] /\ Head(q) \in Frames
      /\ Len(p) = Len(q) - 1 /\ DOMAIN p = 1 .. (Len(q) - 1)
      /\ \A x \in 1 .. (Len(q) - 1) : p[x] = q[x + 1]
  OBVIOUS
<1>2. \A x \in DOMAIN p : x + 1 \in DOMAIN q /\ x + 1 # 1 /\ p[x] = q[x + 1] /\ x \in Nat
  BY <1>1
<1>3. \A y \in DOMAIN q : y # 1 => y - 1 \in DOMAIN p /\ p[y - 1] = q[y]
  BY <1>1
<1>4. 1 \in DOMAIN q
  BY <1>1
<1>5. Distinct(p)
  <2> SUFFICES ASSUME NEW x \in DOMAIN p, NEW y \in DOMAIN p, p[x].buf = p[y].buf PROVE x = y
    BY DEF Distinct
  <2>1. x + 1 = y + 1
    BY <1>2 DEF Distinct
  <2> QED BY <1>2, <2>1
<1>6. ASSUME NEW b PROVE b \in Bufs(p) <=> b \in Bufs(q) /\ b # Head(q).buf
  <2>1. ASSUME b \in Bufs(p) PROVE b \in Bufs(q) /\ b # Head(q).buf
    <3>1. PICK x \in DOMAIN p : b = p[x].buf
      BY <2>1 DEF Bufs
    <3>2. x + 1 \in DOMAIN q /\ x + 1 # 1 /\ b = q[x + 1].buf
      BY <1>2, <3>1
    <3> QED BY <1>1, <1>4, <3>2 DEF Bufs, Distinct
  <2>2. ASSUME b \in Bufs(q), b # Head(q).buf PROVE b \in Bufs(p)
    <3>1. PICK y \in DOMAIN q : b = q[y].buf
      BY <2>2 DEF Bufs
    <3>2. y # 1
      BY <1>1, <2>2, <3>1, Zenon
    <3> QED BY <1>3, <3>1, <3>2, Zenon DEF Bufs
  <2> QED BY <2>1, <2>2
<1>7. Head(q).buf \in Bufs(q)
  BY <1>1, <1>4 DEF Bufs
<1> QED BY <1>1, <1>5, <1>6, <1>7

-----------------------------------------------------------------------------
(* The first state. *)
LEMMA InitPicture == Init => PictureInv
<1> SUFFICES ASSUME Init PROVE PictureInv
  OBVIOUS
<1>1. Types
  <2>1. AdapterTypes
    BY Zenon DEF Init, AdapterTypes
  <2>2. QueueTypes
    BY DEF Init, QueueTypes
  <2>3. EncoderTypes
    BY DEF Init, EncoderTypes, NewEncoder
  <2>4. ThreadTypes
    BY DEF Init, ThreadTypes, Idle
  <2> QED BY <2>1, <2>2, <2>3, <2>4, Zenon DEF Types
<1>2. /\ camera = {} /\ InQueue = {} /\ Taken = {} /\ Readers = {} /\ Read = {} /\ Returners = {}
      /\ Returned = {}
  BY DEF Init, InQueue, Bufs, Taken, Owning, Readers, Read, Returners, Returned, Reading, NewEncoder,
         Idle
<1>3. OnePlace /\ Allocated
  BY <1>2 DEF Init, OnePlace, Allocated, Distinct
<1>4. ThreadsInv
  BY <1>2 DEF Init, ThreadsInv, Idle, NewEncoder, Threads
<1>5. StateInv
  BY Zenon DEF Init, StateInv, Idle
<1>6. QueueInv /\ LivesInv
  BY NotifierAssumption
     DEF Init, QueueInv, LivesInv, Life, Gone, Range, NewEncoder, Reading
<1> QED BY <1>1, <1>3, <1>4, <1>5, <1>6, Zenon DEF PictureInv

(* A step that brings no buffer anywhere. *)
LEMMA PlacesShrink ==
    ASSUME PictureInv, camera' \subseteq camera, UNCHANGED <<mFrameQ, mImageBufs>>,
           Taken' \subseteq Taken,
           \A e \in Encoders : encoder'[e].at \in Reading =>
                encoder[e].at \in Reading /\ encoder'[e].buf = encoder[e].buf,
           \A t \in Threads : returning'[t].at = "return" =>
                returning[t].at = "return" /\ returning'[t].buf = returning[t].buf
    PROVE  OnePlace' /\ Allocated'
<1>1. Readers' \subseteq Readers /\ Returners' \subseteq Returners
  BY DEF Readers, Returners
<1>2. /\ \A e \in Readers' : encoder'[e].buf = encoder[e].buf
      /\ \A t \in Returners' : returning'[t].buf = returning[t].buf
  BY DEF Readers, Returners
<1>3. Read' \subseteq Read /\ Returned' \subseteq Returned /\ InQueue' = InQueue
  BY <1>1, <1>2, Zenon DEF Read, Returned, InQueue, Bufs
<1>4. OnePlace'
  BY <1>1, <1>2, <1>3 DEF PictureInv, OnePlace, Distinct
<1>5. Allocated'
  BY <1>3 DEF PictureInv, Allocated
<1> QED BY <1>4, <1>5, Zenon

(* A step that leaves the encoders and gEncoderQueue alone, and the        *)
(* notifier's frame if it has started an encoder for it.                   *)
LEMMA LivesKept ==
    ASSUME PictureInv, UNCHANGED <<encoder, gEncoderQueue, mNotifierStarted>>,
           frame' = frame \/ (frame.encoder = None /\ frame'.encoder = None),
           at'["notifier"] = "add" => at["notifier"] = "add",
           at'["app"] # "cancelEncoders" => at["app"] # "cancelEncoders"
    PROVE  QueueInv' /\ LivesInv'
<1>1. frame'.encoder = frame.encoder /\ (at'["notifier"] = "add" => frame' = frame)
  BY Zenon DEF PictureInv, ThreadsInv
<1>2. QueueInv'
  <2>1. frame'.encoder \in Encoders => frame' = frame
    BY <1>1, NotifierAssumption, Zenon
  <2> QED BY <1>1, <2>1, Zenon DEF PictureInv, QueueInv
<1>3. LivesInv'
  BY <1>1 DEF PictureInv, LivesInv, Life, Entered, Gone, Holdings
<1> QED BY <1>2, <1>3, Zenon

-----------------------------------------------------------------------------
(* returnFrame(): the buffer goes from the thread to the camera, or is     *)
(* given up.                                                               *)
LEMMA ReturnFrameStep ==
    ASSUME PictureInv, NEW t \in Threads, ReturnFrame(t)
    PROVE  PictureInv'
<1> DEFINE b == returning[t].buf
<1>1. /\ returning[t].at = "return" /\ camera' \subseteq camera \cup {b}
      /\ \/ returning' = [returning EXCEPT ![t] = [at |-> "end", buf |-> b]]
         \/ returning' = [returning EXCEPT ![t] = [at |-> "no", buf |-> None]]
      /\ lock' \in {lock, [lock EXCEPT !["return"] = t]}
      /\ UNCHANGED <<state, mImageBufs, encodes, mNotifierStarted, mFrameQ, gEncoderQueue, encoder,
                     frame, at>>
  BY Zenon DEF ReturnFrame, Returns, Owned, notifier
<1>2. /\ returning \in [Threads -> [at : {"no", "return", "end", "stopping"}, buf : Buffers \cup {None}]]
      /\ lock \in [Locks -> Threads \cup {None}] /\ b \in Buffers /\ b \in Returned
  BY <1>1, Zenon DEF PictureInv, Types, ThreadTypes, ThreadsInv, Returners, Returned
<1> HIDE DEF b
<1>3. /\ returning'[t].at \in {"end", "no"}
      /\ \A u \in Threads : u # t => returning'[u] = returning[u]
      /\ lock'["state"] = lock["state"]
  BY <1>1, <1>2 DEF Locks
<1>4. Types'
  <2>1. ThreadTypes'
    BY <1>1, <1>2 DEF PictureInv, Types, ThreadTypes, Locks
  <2> QED BY <1>1, <1>2, <2>1, Zenon DEF PictureInv, Types, AdapterTypes, QueueTypes, EncoderTypes
<1>5. OnePlace'
  <2>1. InQueue' = InQueue /\ Taken' = Taken /\ Readers' = Readers /\ Read' = Read
    BY <1>1 DEF InQueue, Taken, Readers, Read
  <2>2. Returners' = Returners \ {t} /\ \A u \in Returners' : returning'[u] = returning[u]
    BY <1>3, Zenon DEF Returners
  <2>3. t \in Returners
    BY <1>1, Zenon DEF Returners
  <2>4. Returned' \subseteq Returned \ {b}
    BY <2>2, <2>3 DEF PictureInv, OnePlace, Returned, b
  <2> QED BY <1>1, <1>2, <2>1, <2>2, <2>4 DEF PictureInv, OnePlace
<1>6. Allocated'
  BY <1>1, <1>2, Zenon DEF PictureInv, Allocated
<1>7. ThreadsInv'
  <2>1. \A u \in Threads : returning'[u].at # "no" => returning[u].at # "no"
    BY <1>1, <1>3, Zenon
  <2>2. \A u \in Returners' : u \in Returners /\ returning'[u] = returning[u]
    BY <1>3, Zenon DEF Returners
  <2> QED BY <1>1, <2>1, <2>2, Zenon DEF PictureInv, ThreadsInv, Threads
<1>8. StateInv'
  <2>1. \A u \in Threads : returning'[u].at = "stopping" => returning[u].at = "stopping"
    BY <1>3, Zenon
  <2> QED BY <1>1, <1>3, <2>1, Zenon DEF PictureInv, StateInv
<1>9. QueueInv' /\ LivesInv'
  BY <1>1, LivesKept, Zenon
<1> QED BY <1>4, <1>5, <1>6, <1>7, <1>8, <1>9, Zenon DEF PictureInv

(* A step of one thread in returnFrame() beyond the return of the buffer.  *)
LEMMA EndingPlaces ==
    ASSUME PictureInv, NEW t \in Threads, NEW r, returning' = [returning EXCEPT ![t] = r],
           r \in [at : {"no", "end", "stopping"}, buf : {None}], returning[t].at # "no",
           UNCHANGED <<camera, mFrameQ, mImageBufs, encoder, frame, at, gEncoderQueue,
                       mNotifierStarted>>
    PROVE  /\ OnePlace' /\ Allocated' /\ ThreadsInv' /\ QueueInv' /\ LivesInv'
           /\ returning' \in [Threads -> [at : {"no", "return", "end", "stopping"},
                                           buf : Buffers \cup {None}]]
           /\ \A u \in Threads : u # t => returning'[u] = returning[u]
           /\ returning'[t] = r
<1>1. returning \in [Threads -> [at : {"no", "return", "end", "stopping"}, buf : Buffers \cup {None}]]
  BY DEF PictureInv, Types, ThreadTypes
<1>2. /\ returning' \in [Threads -> [at : {"no", "return", "end", "stopping"},
                                      buf : Buffers \cup {None}]]
      /\ \A u \in Threads : u # t => returning'[u] = returning[u]
      /\ returning'[t] = r
  BY <1>1, Zenon
<1>3. \A u \in Threads : returning'[u].at = "return" =>
                returning[u].at = "return" /\ returning'[u].buf = returning[u].buf
  BY <1>2, Zenon
<1>4. OnePlace' /\ Allocated'
  <2>1. Taken' = Taken
    BY Zenon DEF Taken
  <2> QED BY <1>3, <2>1, PlacesShrink, Zenon
<1>5. ThreadsInv'
  <2>1. \A u \in Threads : returning'[u].at # "no" => returning[u].at # "no"
    BY <1>2, Zenon
  <2>2. \A u \in Returners' : u \in Returners /\ returning'[u].buf = returning[u].buf
    BY <1>3 DEF Returners
  <2> QED BY <2>1, <2>2, Zenon DEF PictureInv, ThreadsInv, Threads
<1>6. QueueInv' /\ LivesInv'
  BY LivesKept, Zenon
<1> QED BY <1>2, <1>4, <1>5, <1>6, Zenon

(* STOP_IMAGE_CAPTURE takes the adapter's state lock, if a capture is on. *)
LEMMA StopCaptureStep ==
    ASSUME PictureInv, NEW t \in Threads, StopImageCapture(t)
    PROVE  PictureInv'
<1>1. /\ returning[t].at = "end" /\ lock["state"] = None
      /\ UNCHANGED <<state, camera, mImageBufs, encodes, mNotifierStarted, mFrameQ, gEncoderQueue,
                     encoder, frame, at>>
  BY Zenon DEF StopImageCapture, Free, adapter, notifier
<1>2. PICK r \in {[at |-> "stopping", buf |-> None], [at |-> "no", buf |-> None]} :
        /\ returning' = [returning EXCEPT ![t] = r]
        /\ \/ /\ r.at = "stopping" /\ state = "capture"
              /\ lock' = [lock EXCEPT !["hal"] = t, !["state"] = t]
           \/ r.at = "no" /\ lock' \in {lock, [lock EXCEPT !["return"] = None]}
  BY DEF StopImageCapture, Returns
<1>3. /\ OnePlace' /\ Allocated' /\ ThreadsInv' /\ QueueInv' /\ LivesInv'
      /\ returning' \in [Threads -> [at : {"no", "return", "end", "stopping"},
                                      buf : Buffers \cup {None}]]
      /\ \A u \in Threads : u # t => returning'[u] = returning[u]
      /\ returning'[t] = r
  BY <1>1, <1>2, EndingPlaces, Zenon
<1>4. lock \in [Locks -> Threads \cup {None}]
  BY DEF PictureInv, Types, ThreadTypes
<1>5. Types'
  <2>1. lock' \in [Locks -> Threads \cup {None}]
    BY <1>2, <1>4, Zenon DEF Locks
  <2> QED BY <1>1, <1>3, <2>1
          DEF PictureInv, Types, AdapterTypes, QueueTypes, EncoderTypes, ThreadTypes
<1>6. StateInv'
  <2>1. \A u \in Threads : returning[u].at # "stopping"
    BY <1>1, NotifierAssumption, Zenon DEF PictureInv, StateInv, Threads
  <2>2. at["app"] # "stopping"
    BY <1>1, NotifierAssumption, Zenon DEF PictureInv, StateInv
  <2>3. \A u \in Threads : returning'[u].at = "stopping" => lock'["state"] = u /\ state = "capture"
    BY <1>2, <1>3, <1>4, <2>1, Zenon DEF Locks
  <2> QED BY <1>1, <2>2, <2>3, Zenon DEF PictureInv, StateInv
<1> QED BY <1>3, <1>5, <1>6, Zenon DEF PictureInv

(* The capture has been stopped. *)
LEMMA CaptureStoppedStep ==
    ASSUME PictureInv, NEW t \in Threads, ImageCaptureStopped(t)
    PROVE  PictureInv'
<1> DEFINE r == [at |-> "no", buf |-> None]
<1>1. /\ returning[t].at = "stopping" /\ state' = "preview" /\ encodes' = FALSE
      /\ returning' = [returning EXCEPT ![t] = r]
      /\ UNCHANGED <<camera, mImageBufs, mNotifierStarted, mFrameQ, gEncoderQueue, encoder, frame, at>>
      /\ lock' = [l \in Locks |-> IF l \in {"hal", "state"} \/ (l = "return" /\ lock[l] = t)
                                  THEN None ELSE lock[l]]
  BY DEF ImageCaptureStopped, Returns, Released, notifier
<1>2. /\ OnePlace' /\ Allocated' /\ ThreadsInv' /\ QueueInv' /\ LivesInv'
      /\ returning' \in [Threads -> [at : {"no", "return", "end", "stopping"},
                                      buf : Buffers \cup {None}]]
      /\ \A u \in Threads : u # t => returning'[u] = returning[u]
      /\ returning'[t] = r
  BY <1>1, EndingPlaces, Zenon
<1>3. lock["state"] = t /\ state = "capture"
  BY <1>1 DEF PictureInv, StateInv
<1>4. Types'
  <2>1. lock' \in [Locks -> Threads \cup {None}]
    BY <1>1, Zenon DEF PictureInv, Types, ThreadTypes
  <2>2. ThreadTypes'
    BY <1>1, <1>2, <2>1, Zenon DEF PictureInv, Types, ThreadTypes
  <2> QED BY <1>1, <2>2, Zenon DEF PictureInv, Types, AdapterTypes, QueueTypes, EncoderTypes
<1>5. StateInv'
  <2>1. \A u \in Threads : returning'[u].at # "stopping"
    BY <1>1, <1>2, <1>3, Zenon DEF PictureInv, StateInv
  <2>2. at["app"] # "stopping"
    BY <1>1, <1>3, Zenon DEF PictureInv, StateInv, ThreadsInv
  <2>3. at["app"] # "setBurst"
    BY <1>3 DEF PictureInv, StateInv
  <2> QED BY <1>1, <1>3, <2>1, <2>2, <2>3, Zenon DEF PictureInv, StateInv
<1> QED BY <1>2, <1>4, <1>5, Zenon DEF PictureInv

(* A frame comes from the camera. *)
LEMMA FillStep ==
    ASSUME PictureInv, NEW b \in Buffers, FillBufferDone(b)
    PROVE  PictureInv'
<1> DEFINE f == [buf |-> b, encode |-> encodes]
<1>1. /\ b \in camera /\ state = "capture" /\ camera' = camera \ {b} /\ mFrameQ' = Append(mFrameQ, f)
      /\ UNCHANGED <<state, mImageBufs, encodes, mNotifierStarted, gEncoderQueue, encoder, frame, lock,
                     at, returning>>
  BY Zenon DEF FillBufferDone, threads
<1>2. f \in Frames /\ f.buf = b /\ mFrameQ \in Seq(Frames) /\ Distinct(mFrameQ) /\ b \notin Bufs(mFrameQ)
  BY <1>1 DEF PictureInv, Types, AdapterTypes, QueueTypes, OnePlace, InQueue, Frames
<1> HIDE DEF f
<1>3. mFrameQ' \in Seq(Frames) /\ Distinct(mFrameQ') /\ Bufs(mFrameQ') = Bufs(mFrameQ) \cup {b}
  BY <1>1, <1>2, AppendedFrame, Zenon
<1>4. Types'
  BY <1>1, <1>3, Zenon DEF PictureInv, Types, AdapterTypes, QueueTypes, EncoderTypes, ThreadTypes
<1>5. /\ Taken' = Taken /\ Readers' = Readers /\ Read' = Read /\ Returners' = Returners
      /\ Returned' = Returned /\ InQueue' = InQueue \cup {b}
  BY <1>1, <1>3, Zenon DEF Taken, Readers, Read, Returners, Returned, InQueue
<1>6. OnePlace'
  BY <1>1, <1>3, <1>5 DEF PictureInv, OnePlace
<1>7. Allocated'
  BY <1>1 DEF PictureInv, Allocated
<1>8. ThreadsInv'
  BY <1>1, <1>5, Zenon DEF PictureInv, ThreadsInv
<1>9. StateInv'
  BY <1>1, Zenon DEF PictureInv, StateInv
<1>10. QueueInv' /\ LivesInv'
  BY <1>1, LivesKept, Zenon
<1> QED BY <1>4, <1>6, <1>7, <1>8, <1>9, <1>10, Zenon DEF PictureInv

(* Steps that change nothing but the buffers at the camera, and their      *)
(* allocation when there are none.                                         *)
LEMMA CameraStepKeeps ==
    ASSUME PictureInv, camera' \subseteq camera, UNCHANGED <<state, encodes, notifier, lock, at, returning>>,
           \/ UNCHANGED mImageBufs
           \/ mImageBufs' = FALSE /\ camera' = {} /\ PicturesDone /\ returning["app"].at = "no"
    PROVE  PictureInv'
<1>1. UNCHANGED <<mNotifierStarted, mFrameQ, gEncoderQueue, encoder, frame>>
  BY Zenon DEF notifier
<1>2. /\ Taken' = Taken /\ Readers' = Readers /\ Read' = Read /\ Returners' = Returners
      /\ Returned' = Returned /\ InQueue' = InQueue
  BY <1>1 DEF Taken, Readers, Read, Returners, Returned, InQueue
<1>3. Types'
  BY <1>1, Zenon DEF PictureInv, Types, AdapterTypes, QueueTypes, EncoderTypes, ThreadTypes
<1>4. OnePlace'
  BY <1>1, <1>2 DEF PictureInv, OnePlace
<1>5. Allocated'
  <2>1. CASE UNCHANGED mImageBufs
    BY <1>2, <2>1, Zenon DEF PictureInv, Allocated
  <2>2. CASE camera' = {} /\ PicturesDone /\ returning["app"].at = "no"
    <3>1. InQueue = {} /\ Taken = {}
      BY <2>2 DEF PicturesDone, InQueue, Bufs, Taken, Owning
    <3>2. Readers = {} /\ Returners = {}
      BY <2>2, Zenon DEF PicturesDone, Readers, Reading, Returners, PictureInv, ThreadsInv, Threads
    <3>3. Read = {} /\ Returned = {}
      BY <3>2, Zenon DEF Read, Returned
    <3> QED BY <1>2, <2>2, <3>1, <3>3, Zenon DEF Allocated
  <2> QED BY <2>1, <2>2, Zenon
<1>6. ThreadsInv' /\ StateInv'
  BY <1>1, <1>2, Zenon DEF PictureInv, ThreadsInv, StateInv
<1>7. QueueInv' /\ LivesInv'
  BY <1>1, LivesKept, Zenon
<1> QED BY <1>3, <1>4, <1>5, <1>6, <1>7, Zenon DEF PictureInv

-----------------------------------------------------------------------------
(* The notifier's thread takes a frame from mFrameQ. *)
LEMMA NotifyFrameStep == PictureInv /\ NotifyFrame => PictureInv'
<1> SUFFICES ASSUME PictureInv, NotifyFrame PROVE PictureInv'
  OBVIOUS
<1> DEFINE b == Head(mFrameQ).buf
<1>1. /\ at["notifier"] = "idle" /\ mFrameQ # <<>> /\ mFrameQ' = Tail(mFrameQ)
      /\ frame' = [frame EXCEPT !.buf = b]
      /\ at' \in {[at EXCEPT !["notifier"] = "encode"], [at EXCEPT !["notifier"] = "msgType"]}
      /\ UNCHANGED <<state, camera, mImageBufs, encodes, mNotifierStarted, gEncoderQueue, encoder,
                     lock, returning>>
  BY Zenon DEF NotifyFrame, Goto, adapter
<1>2. /\ mFrameQ \in Seq(Frames) /\ Distinct(mFrameQ)
      /\ frame \in [buf : Buffers \cup {None}, encoder : Encoders \cup {None, "exited"}]
      /\ at \in [{"app", "notifier"} ->
              StopPhase \cup Owning \cup {"idle", "setBurst", "add", "skip", "send"}]
  BY DEF PictureInv, Types, QueueTypes, EncoderTypes, ThreadTypes, OnePlace
<1>3. /\ mFrameQ' \in Seq(Frames) /\ Distinct(mFrameQ') /\ Head(mFrameQ) \in Frames /\ b \in Bufs(mFrameQ)
      /\ Bufs(mFrameQ') = Bufs(mFrameQ) \ {b}
  BY <1>1, <1>2, TakenFrame, Zenon
<1>4. b \in Buffers
  BY <1>3 DEF Frames
<1> HIDE DEF b
<1>5. /\ at'["notifier"] \in {"encode", "msgType"} /\ at'["app"] = at["app"]
      /\ frame'.buf = b /\ frame'.encoder = frame.encoder
      /\ frame' \in [buf : Buffers \cup {None}, encoder : Encoders \cup {None, "exited"}]
  BY <1>1, <1>2, <1>4, Zenon
<1>6. Types'
  <2>1. ThreadTypes'
    BY <1>1, <1>2 DEF PictureInv, Types, ThreadTypes, Owning
  <2> QED BY <1>1, <1>3, <1>5, <2>1, Zenon DEF PictureInv, Types, AdapterTypes, QueueTypes,
             EncoderTypes
<1>7. /\ Taken = {} /\ Taken' = {b} /\ Readers' = Readers /\ Read' = Read /\ Returners' = Returners
      /\ Returned' = Returned /\ InQueue' = InQueue \ {b} /\ b \in InQueue
  BY <1>1, <1>3, <1>5 DEF Taken, Owning, Readers, Read, Returners, Returned, InQueue
<1>8. OnePlace'
  BY <1>1, <1>3, <1>7 DEF PictureInv, OnePlace
<1>9. Allocated'
  BY <1>1, <1>7, Zenon DEF PictureInv, Allocated
<1>10. ThreadsInv'
  BY <1>1, <1>4, <1>5, <1>7, Zenon DEF PictureInv, ThreadsInv, Owning
<1>11. StateInv'
  BY <1>1, <1>5, Zenon DEF PictureInv, StateInv
<1>12. QueueInv' /\ LivesInv'
  <2>1. frame.encoder = None
    BY <1>1 DEF PictureInv, ThreadsInv
  <2> QED BY <1>1, <1>5, <2>1, LivesKept, Zenon
<1> QED BY <1>6, <1>8, <1>9, <1>10, <1>11, <1>12, Zenon DEF PictureInv

(* It waits for a lock. *)
LEMMA WaitForLockStep ==
    ASSUME PictureInv, AskMsgType \/ LockBurst
    PROVE  PictureInv'
<1>1. /\ at["notifier"] \in Owning
      /\ at' \in {[at EXCEPT !["notifier"] = "lockBurst"], [at EXCEPT !["notifier"] = "lock"]}
      /\ lock' \in {lock, [lock EXCEPT !["burst"] = "notifier"]}
      /\ UNCHANGED <<state, camera, mImageBufs, encodes, mNotifierStarted, mFrameQ, gEncoderQueue,
                     encoder, frame, returning>>
  BY DEF AskMsgType, LockBurst, Goto, Owned, Owning, adapter, notifier
<1>2. /\ at \in [{"app", "notifier"} ->
              StopPhase \cup Owning \cup {"idle", "setBurst", "add", "skip", "send"}]
      /\ lock \in [Locks -> Threads \cup {None}]
  BY Zenon DEF PictureInv, Types, ThreadTypes
<1>3. at'["notifier"] \in {"lockBurst", "lock"} /\ at'["app"] = at["app"] /\ lock'["state"] = lock["state"]
  BY <1>1, <1>2, Zenon DEF Locks
<1>4. Types'
  <2>1. ThreadTypes'
    BY <1>1, <1>2 DEF PictureInv, Types, ThreadTypes, Owning, Locks, Threads
  <2> QED BY <1>1, <2>1, Zenon DEF PictureInv, Types, AdapterTypes, QueueTypes, EncoderTypes
<1>5. OnePlace' /\ Allocated'
  <2>1. Taken' = Taken
    BY <1>1, <1>3, Zenon DEF Taken, Owning
  <2> QED BY <1>1, <2>1, PlacesShrink, Zenon
<1>6. ThreadsInv'
  BY <1>1, <1>3, Zenon DEF PictureInv, ThreadsInv, Owning, Returners
<1>7. StateInv'
  BY <1>1, <1>3, Zenon DEF PictureInv, StateInv, Owning
<1>8. QueueInv' /\ LivesInv'
  BY <1>1, <1>3, LivesKept, Zenon
<1> QED BY <1>4, <1>5, <1>6, <1>7, <1>8, Zenon DEF PictureInv

(* It copies its frame. *)
LEMMA BeginCopyStep ==
    ASSUME PictureInv, StartCopy, mNotifierStarted
    PROVE  PictureInv'
<1>1. /\ at["notifier"] = "lock" /\ at' = [at EXCEPT !["notifier"] = "copy"]
      /\ lock' = [lock EXCEPT !["notifier"] = "notifier"]
      /\ UNCHANGED <<state, camera, mImageBufs, encodes, mNotifierStarted, mFrameQ, gEncoderQueue,
                     encoder, frame, returning>>
  BY DEF StartCopy, Goto, Owned, adapter, notifier
<1>2. /\ at \in [{"app", "notifier"} ->
              StopPhase \cup Owning \cup {"idle", "setBurst", "add", "skip", "send"}]
      /\ lock \in [Locks -> Threads \cup {None}]
  BY Zenon DEF PictureInv, Types, ThreadTypes
<1>3. at'["notifier"] = "copy" /\ at'["app"] = at["app"] /\ lock'["state"] = lock["state"]
  BY <1>1, <1>2, Zenon DEF Locks
<1>4. Types'
  <2>1. ThreadTypes'
    BY <1>1, <1>2, Zenon DEF PictureInv, Types, ThreadTypes, Owning, Locks, Threads
  <2> QED BY <1>1, <2>1, Zenon DEF PictureInv, Types, AdapterTypes, QueueTypes, EncoderTypes
<1>5. OnePlace' /\ Allocated'
  <2>1. Taken' = Taken
    BY <1>1, <1>3 DEF Taken, Owning
  <2> QED BY <1>1, <2>1, PlacesShrink, Zenon
<1>6. ThreadsInv'
  BY <1>1, <1>3, Zenon DEF PictureInv, ThreadsInv, Owning, Returners
<1>7. StateInv'
  BY <1>1, <1>3, Zenon DEF PictureInv, StateInv
<1>8. QueueInv' /\ LivesInv'
  BY <1>1, <1>3, LivesKept, Zenon
<1> QED BY <1>4, <1>5, <1>6, <1>7, <1>8, Zenon DEF PictureInv

(* It returns its frame, copied or not. *)
LEMMA ReturnCopyStep ==
    ASSUME PictureInv, Copied \/ (StartCopy /\ ~ mNotifierStarted)
    PROVE  PictureInv'
<1> DEFINE b == frame.buf
<1>1. /\ at["notifier"] \in {"copy", "lock"}
      /\ at' \in {[at EXCEPT !["notifier"] = "send"], [at EXCEPT !["notifier"] = "skip"]}
      /\ lock' \in {lock, [l \in Locks |-> IF l \in {"notifier"} THEN None ELSE lock[l]]}
      /\ returning' = [returning EXCEPT !["notifier"] = [at |-> "return", buf |-> b]]
      /\ UNCHANGED <<state, camera, mImageBufs, encodes, mNotifierStarted, mFrameQ, gEncoderQueue,
                     encoder, frame>>
  BY DEF Copied, StartCopy, Goto, Returns, Released, adapter, notifier
<1>2. /\ at \in [{"app", "notifier"} ->
              StopPhase \cup Owning \cup {"idle", "setBurst", "add", "skip", "send"}]
      /\ lock \in [Locks -> Threads \cup {None}]
      /\ returning \in [Threads -> [at : {"no", "return", "end", "stopping"}, buf : Buffers \cup {None}]]
  BY Zenon DEF PictureInv, Types, ThreadTypes
<1>3. b \in Buffers /\ Taken = {b} /\ returning["notifier"].at = "no"
  BY <1>1, Zenon DEF PictureInv, ThreadsInv, Taken, Owning
<1> HIDE DEF b
<1>4. /\ at'["notifier"] \in {"send", "skip"} /\ at'["app"] = at["app"]
      /\ lock'["state"] = lock["state"] /\ lock' \in [Locks -> Threads \cup {None}]
      /\ returning'["notifier"] = [at |-> "return", buf |-> b]
      /\ \A t \in Threads : t # "notifier" => returning'[t] = returning[t]
  BY <1>1, <1>2 DEF Locks, Threads
<1>5. Types'
  <2>1. ThreadTypes'
    BY <1>1, <1>2, <1>3, <1>4 DEF ThreadTypes
  <2> QED BY <1>1, <2>1, Zenon DEF PictureInv, Types, AdapterTypes, QueueTypes, EncoderTypes
<1>6. /\ Taken' = {} /\ InQueue' = InQueue /\ Readers' = Readers /\ Read' = Read
      /\ Returners' = Returners \cup {"notifier"} /\ "notifier" \notin Returners
  BY <1>1, <1>3, <1>4 DEF Taken, Owning, InQueue, Readers, Read, Returners, Threads
<1>7. /\ \A t \in Returners : returning'[t] = returning[t] /\ t \in Threads
      /\ Returned' = Returned \cup {b}
  BY <1>4, <1>6 DEF Returners, Returned
<1>8. OnePlace'
  <2>1. b \notin Returned
    BY <1>3, Zenon DEF PictureInv, OnePlace
  <2>2. \A t, u \in Returners' : returning'[t].buf = returning'[u].buf => t = u
    BY <1>4, <1>6, <1>7, <2>1 DEF PictureInv, OnePlace, Returned
  <2> QED BY <1>1, <1>3, <1>6, <1>7, <2>1, <2>2 DEF PictureInv, OnePlace
<1>9. Allocated'
  BY <1>1, <1>3, <1>6, <1>7, Zenon DEF PictureInv, Allocated
<1>10. ThreadsInv'
  <2>1. \A t \in Returners' : returning'[t].buf \in Buffers
    BY <1>3, <1>4, <1>6, <1>7 DEF PictureInv, ThreadsInv
  <2>2. \A e \in Encoders : returning'[e] = returning[e]
    BY <1>4, NotifierAssumption, Zenon DEF Threads
  <2> QED BY <1>1, <1>4, <2>1, <2>2, Zenon DEF PictureInv, ThreadsInv, Owning, Threads
<1>11. StateInv'
  BY <1>1, <1>4 DEF PictureInv, StateInv
<1>12. QueueInv' /\ LivesInv'
  BY <1>1, <1>4, LivesKept, Zenon
<1> QED BY <1>5, <1>8, <1>9, <1>10, <1>11, <1>12, Zenon DEF PictureInv

(* It sends the copy. *)
LEMMA SendCopyStep == PictureInv /\ SendCopy => PictureInv'
<1> SUFFICES ASSUME PictureInv, SendCopy PROVE PictureInv'
  OBVIOUS
<1>1. /\ at["notifier"] \in {"send", "skip"} /\ returning["notifier"].at = "no"
      /\ frame' = [frame EXCEPT !.buf = None] /\ at' = [at EXCEPT !["notifier"] = "idle"]
      /\ lock' = [l \in Locks |-> IF l \in {"burst"} THEN None ELSE lock[l]]
      /\ UNCHANGED <<state, camera, mImageBufs, encodes, mNotifierStarted, mFrameQ, gEncoderQueue,
                     encoder, returning>>
  BY DEF SendCopy, Goto, Released, adapter
<1>2. /\ at \in [{"app", "notifier"} ->
              StopPhase \cup Owning \cup {"idle", "setBurst", "add", "skip", "send"}]
      /\ lock \in [Locks -> Threads \cup {None}]
      /\ frame \in [buf : Buffers \cup {None}, encoder : Encoders \cup {None, "exited"}]
      /\ frame.encoder = None
  BY <1>1, Zenon DEF PictureInv, Types, ThreadTypes, EncoderTypes, ThreadsInv
<1>3. /\ at'["notifier"] = "idle" /\ at'["app"] = at["app"] /\ lock'["state"] = lock["state"]
      /\ frame'.encoder = None
      /\ frame' \in [buf : Buffers \cup {None}, encoder : Encoders \cup {None, "exited"}]
  BY <1>1, <1>2, Zenon DEF Locks
<1>4. Types'
  <2>1. ThreadTypes'
    BY <1>1, <1>2, Zenon DEF PictureInv, Types, ThreadTypes
  <2> QED BY <1>1, <1>3, <2>1 DEF PictureInv, Types, AdapterTypes, QueueTypes, EncoderTypes
<1>5. OnePlace' /\ Allocated'
  <2>1. Taken' = {}
    BY <1>3, Zenon DEF Taken, Owning
  <2> QED BY <1>1, <2>1, PlacesShrink, Zenon
<1>6. ThreadsInv'
  BY <1>1, <1>3, Zenon DEF PictureInv, ThreadsInv, Returners
<1>7. StateInv'
  BY <1>1, <1>3, Zenon DEF PictureInv, StateInv
<1>8. QueueInv' /\ LivesInv'
  BY <1>1, <1>2, <1>3, LivesKept, Zenon
<1> QED BY <1>4, <1>5, <1>6, <1>7, <1>8, Zenon DEF PictureInv

(* It starts an encoder for its frame. *)
LEMMA RunEncoderStep == PictureInv /\ RunEncoder => PictureInv'
<1> SUFFICES ASSUME PictureInv, RunEncoder PROVE PictureInv'
  OBVIOUS
<1> DEFINE b == frame.buf
<1>1. PICK e \in Encoders :
        /\ encoder[e].at = "none"
        /\ encoder' = [encoder EXCEPT ![e] =
              [NewEncoder EXCEPT !.at = "encode", !.buf = b,
                                 !.fate = IF mNotifierStarted THEN "clean" ELSE "missed"]]
        /\ frame' = [frame EXCEPT !.encoder = e]
  <2> DEFINE unused == {e \in Encoders : encoder[e].at = "none"}
             e == CHOOSE e \in unused : TRUE
  <2>1. unused # {}
    BY DEF RunEncoder
  <2>2. e \in unused
    BY <2>1
  <2> QED BY <2>2, Zenon DEF RunEncoder
<1>2. /\ at["notifier"] = "encode" /\ at' = [at EXCEPT !["notifier"] = "add"]
      /\ UNCHANGED <<state, camera, mImageBufs, encodes, mNotifierStarted, mFrameQ, gEncoderQueue,
                     lock, returning>>
  BY Zenon DEF RunEncoder, Goto, adapter
<1>3. /\ at \in [{"app", "notifier"} ->
              StopPhase \cup Owning \cup {"idle", "setBurst", "add", "skip", "send"}]
      /\ encoder \in [Encoders ->
           [at : Reading \cup {"none", "return"}, buf : Buffers \cup {None},
            mCancelEncoding : BOOLEAN, mem : Nat, exif : Nat,
            fate : {"clean", "early", "met", "missed"}]]
      /\ frame \in [buf : Buffers \cup {None}, encoder : Encoders \cup {None, "exited"}]
      /\ b \in Buffers /\ frame.encoder = None /\ Taken = {b} /\ mNotifierStarted \in BOOLEAN
  BY <1>2
     DEF PictureInv, Types, ThreadTypes, EncoderTypes, AdapterTypes, ThreadsInv, Taken, Owning
<1> HIDE DEF b
<1>4. /\ at'["notifier"] = "add" /\ at'["app"] = at["app"]
      /\ frame'.encoder = e /\ frame'.buf = b
      /\ encoder'[e].at = "encode" /\ encoder'[e].buf = b /\ ~ encoder'[e].mCancelEncoding
      /\ encoder'[e].mem = 0 /\ encoder'[e].exif = 0
      /\ encoder'[e].fate = IF mNotifierStarted THEN "clean" ELSE "missed"
      /\ \A f \in Encoders : f # e => encoder'[f] = encoder[f]
  BY <1>1, <1>2, <1>3, Zenon DEF NewEncoder, b
<1>5. Types'
  <2>1. ThreadTypes'
    BY <1>2, <1>3 DEF PictureInv, Types, ThreadTypes
  <2>2. EncoderTypes'
    BY <1>1, <1>3, Zenon DEF EncoderTypes, NewEncoder, Reading
  <2> QED BY <1>2, <2>1, <2>2, Zenon DEF PictureInv, Types, AdapterTypes, QueueTypes
<1>6. /\ Taken' = {} /\ InQueue' = InQueue /\ Returners' = Returners /\ Returned' = Returned
      /\ Readers' = Readers \cup {e} /\ e \notin Readers
  BY <1>1, <1>2, <1>4 DEF Taken, Owning, InQueue, Returners, Returned, Readers, Reading
<1>7. /\ \A f \in Readers : encoder'[f] = encoder[f] /\ f \in Encoders
      /\ Read' = Read \cup {b} /\ b \notin Read
  BY <1>3, <1>4, <1>6 DEF Read, Readers, PictureInv, OnePlace
<1>8. OnePlace'
  <2>1. \A f, g \in Readers' : encoder'[f].buf = encoder'[g].buf => f = g
    BY <1>4, <1>6, <1>7 DEF PictureInv, OnePlace, Read
  <2> QED BY <1>2, <1>3, <1>6, <1>7, <2>1 DEF PictureInv, OnePlace
<1>9. Allocated'
  BY <1>2, <1>3, <1>6, <1>7, Zenon DEF PictureInv, Allocated
<1>10. ThreadsInv'
  <2>1. \A f \in Encoders : /\ returning[f].at # "no" => encoder'[f].at = "return"
                            /\ IF encoder'[f].at = "none" THEN encoder'[f] = NewEncoder
                               ELSE encoder'[f].buf \in Buffers
    BY <1>1, <1>3, <1>4 DEF PictureInv, ThreadsInv
  <2> QED BY <1>2, <1>3, <1>4, <1>6, <2>1, NotifierAssumption DEF PictureInv, ThreadsInv
<1>11. StateInv'
  BY <1>2, <1>4, Zenon DEF PictureInv, StateInv
<1>12. e \notin Range(gEncoderQueue)
  BY <1>1 DEF PictureInv, QueueInv, Range
<1>13. QueueInv'
  <2>1. \A c \in DOMAIN gEncoderQueue : gEncoderQueue[c] \in Encoders =>
           encoder'[gEncoderQueue[c]].at # "none" /\ encoder'[gEncoderQueue[c]].buf = c
    BY <1>4, <1>12, Zenon DEF PictureInv, QueueInv, Range
  <2>2. \A f \in Encoders \ {e} : encoder'[f].at \in Reading => encoder'[f].buf # b
    BY <1>4, <1>7 DEF Read, Readers
  <2> QED BY <1>2, <1>4, <1>12, <2>1, <2>2, Zenon DEF QueueInv
<1>14. LivesInv'
  <2> SUFFICES ASSUME NEW f \in Encoders, encoder'[f].fate = "clean"
               PROVE  /\ Life(f)'
                      /\ ~ mNotifierStarted' /\ at'["app"] # "cancelEncoders"
                         /\ encoder'[f].at \in Reading => encoder'[f].mCancelEncoding
    BY Zenon DEF LivesInv
  <2>1. CASE f = e
    <3>1. mNotifierStarted
      BY <1>4, <2>1, Zenon
    <3> QED BY <1>2, <1>4, <2>1, <3>1, Zenon DEF Life, Holdings
  <2>2. CASE f # e
    <3>1. encoder'[f] = encoder[f] /\ frame.encoder # f /\ frame'.encoder # f
      BY <1>3, <1>4, <2>2, NotifierAssumption, Zenon
    <3> QED BY <1>2, <1>4, <3>1 DEF PictureInv, LivesInv, Life, Entered, Gone, Holdings
  <2> QED BY <2>1, <2>2, Zenon
<1> QED BY <1>5, <1>8, <1>9, <1>10, <1>11, <1>13, <1>14, Zenon DEF PictureInv

(* It enters the encoder into gEncoderQueue. *)
LEMMA AddEncoderStep == PictureInv /\ AddEncoder => PictureInv'
<1> SUFFICES ASSUME PictureInv, AddEncoder PROVE PictureInv'
  OBVIOUS
<1> DEFINE b == frame.buf
           e == frame.encoder
<1>1. /\ at["notifier"] = "add" /\ at' = [at EXCEPT !["notifier"] = "idle"]
      /\ gEncoderQueue' = [c \in DOMAIN gEncoderQueue \cup {b} |->
                              IF c = b THEN e ELSE gEncoderQueue[c]]
      /\ frame' = [buf |-> None, encoder |-> None]
      /\ UNCHANGED <<state, camera, mImageBufs, encodes, mNotifierStarted, mFrameQ, encoder, lock,
                     returning>>
  BY Zenon DEF AddEncoder, Goto, adapter
<1>2. /\ at \in [{"app", "notifier"} ->
              StopPhase \cup Owning \cup {"idle", "setBurst", "add", "skip", "send"}]
      /\ b \in Buffers /\ e \in Encoders \cup {"exited"}
  BY <1>1, Zenon DEF PictureInv, Types, ThreadTypes, EncoderTypes, ThreadsInv
<1>3. /\ e \in Encoders => /\ encoder[e].at # "none" /\ encoder[e].buf = b
                           /\ e \notin Range(gEncoderQueue)
      /\ \A f \in Encoders \ {e} : encoder[f].at \in Reading => encoder[f].buf # b
  BY <1>1, Zenon DEF PictureInv, QueueInv
<1> HIDE DEF b, e
<1>4. /\ at'["notifier"] = "idle" /\ at'["app"] = at["app"]
      /\ frame'.encoder = None /\ frame'.buf = None
      /\ DOMAIN gEncoderQueue' = DOMAIN gEncoderQueue \cup {b} /\ gEncoderQueue'[b] = e
      /\ \A c \in DOMAIN gEncoderQueue : c # b => gEncoderQueue'[c] = gEncoderQueue[c]
  BY <1>1, <1>2
<1>5. Types'
  <2>1. ThreadTypes'
    BY <1>1, <1>2, Zenon DEF PictureInv, Types, ThreadTypes
  <2>2. QueueTypes'
    BY <1>1, <1>2, <1>4, Zenon DEF PictureInv, Types, QueueTypes
  <2>3. EncoderTypes'
    BY <1>1, Zenon DEF PictureInv, Types, EncoderTypes
  <2> QED BY <1>1, <2>1, <2>2, <2>3, Zenon DEF PictureInv, Types, AdapterTypes
<1>6. OnePlace' /\ Allocated'
  <2>1. Taken' = {}
    BY <1>4, Zenon DEF Taken, Owning
  <2> QED BY <1>1, <2>1, PlacesShrink, Zenon
<1>7. ThreadsInv'
  BY <1>1, <1>4, Zenon DEF PictureInv, ThreadsInv, Returners
<1>8. StateInv'
  BY <1>1, <1>4, Zenon DEF PictureInv, StateInv
<1>9. QueueInv'
  <2>1. \A c \in DOMAIN gEncoderQueue' : gEncoderQueue'[c] \in Encoders =>
           encoder[gEncoderQueue'[c]].at # "none" /\ encoder[gEncoderQueue'[c]].buf = c
    BY <1>3, <1>4 DEF PictureInv, QueueInv
  <2> QED BY <1>1, <1>4, <2>1, NotifierAssumption, Zenon DEF QueueInv
<1>10. LivesInv'
  <2> SUFFICES ASSUME NEW f \in Encoders, encoder[f].fate = "clean"
               PROVE  Life(f)'
    BY <1>1, <1>4, Zenon DEF PictureInv, LivesInv
  <2>1. Life(f) /\ f # None
    BY NotifierAssumption, Zenon DEF PictureInv, LivesInv
  <2>2. CASE f = e
    <3>1. encoder[f].at = "encode" /\ ~ encoder[f].mCancelEncoding /\ Holdings(f, 0, 0)
      BY <1>3, <2>1, <2>2, Zenon DEF Life, Gone, Entered, Range, e
    <3>2. Entered(f)'
      BY <1>1, <1>3, <1>4, <2>2, Zenon DEF Entered
    <3> QED BY <1>1, <3>1, <3>2, Zenon DEF Life, Holdings
  <2>3. CASE f # e
    <3>1. f \notin Range(gEncoderQueue) => f \notin Range(gEncoderQueue')
      BY <1>4, <2>3, Zenon DEF Range
    <3>2. Gone(f) => Gone(f)'
      BY <1>4, <2>1, <3>1, Zenon DEF Gone
    <3>3. encoder[f].at \in Reading /\ Entered(f) => Entered(f)'
      BY <1>1, <1>3, <1>4, <2>3, Zenon DEF Entered
    <3> QED BY <1>1, <2>1, <2>3, <3>2, <3>3, Zenon DEF Life, Holdings, Reading, e
  <2> QED BY <2>2, <2>3, Zenon
<1> QED BY <1>5, <1>6, <1>7, <1>8, <1>9, <1>10, Zenon DEF PictureInv

=============================================================================
