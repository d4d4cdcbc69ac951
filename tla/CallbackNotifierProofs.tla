----------------------- MODULE CallbackNotifierProofs -----------------------
(***************************************************************************)
(* Proofs about the pictures of the callback notifier, for any number of   *)
(* image buffers and encoder threads and bursts of any length, when the    *)
(* application lets each picture come to its end (AppWaits): a picture is  *)
(* not overwritten while somebody reads it, and what an encoder holds is   *)
(* released once.  The invariant is that of CallbackNotifierFrames; here   *)
(* are the steps of the encoders and of the application's thread.          *)
(***************************************************************************)
EXTENDS CallbackNotifierFrames

(* An encoder goes on with its frame. *)
LEMMA EncoderGoesOn ==
    ASSUME PictureInv, NEW e \in Encoders, NEW r,
           r \in [at : Reading, buf : {encoder[e].buf}, mCancelEncoding : BOOLEAN, mem : Nat, exif : Nat,
                  fate : {"clean", "early", "met", "missed"}],
           encoder[e].at \in Reading, encoder' = [encoder EXCEPT ![e] = r],
           UNCHANGED <<state, camera, mImageBufs, encodes, mNotifierStarted, mFrameQ, gEncoderQueue,
                       frame, lock, at, returning>>,
           r.fate = "clean" => /\ encoder[e].fate = "clean" /\ Life(e)'
                               /\ encoder[e].mCancelEncoding => r.mCancelEncoding
    PROVE  PictureInv'
<1>1. /\ encoder \in [Encoders ->
           [at : Reading \cup {"none", "return"}, buf : Buffers \cup {None},
            mCancelEncoding : BOOLEAN, mem : Nat, exif : Nat,
            fate : {"clean", "early", "met", "missed"}]]
      /\ encoder[e].buf \in Buffers
  BY DEF PictureInv, Types, EncoderTypes, ThreadsInv, Reading
<1>2. /\ encoder'[e] = r /\ \A f \in Encoders : f # e => encoder'[f] = encoder[f]
      /\ r.buf = encoder[e].buf /\ r.at \in Reading /\ r.at \notin {"none", "return"}
  BY <1>1, Zenon DEF Reading
<1>3. Types'
  <2>1. EncoderTypes'
    BY <1>1 DEF PictureInv, Types, EncoderTypes
  <2> QED BY <2>1, Zenon DEF PictureInv, Types, AdapterTypes, QueueTypes, ThreadTypes
<1>4. OnePlace' /\ Allocated'
  <2>1. \A f \in Encoders : encoder'[f].at \in Reading =>
           encoder[f].at \in Reading /\ encoder'[f].buf = encoder[f].buf
    BY <1>2
  <2>2. Taken' = Taken
    BY Zenon DEF Taken
  <2> QED BY <2>1, <2>2, PlacesShrink
<1>5. ThreadsInv'
  <2>1. returning[e].at = "no"
    BY Zenon DEF PictureInv, ThreadsInv, Reading
  <2> QED BY <1>1, <1>2, <2>1 DEF PictureInv, ThreadsInv, Returners
<1>6. StateInv'
  BY Zenon DEF PictureInv, StateInv, Reading
<1>7. QueueInv'
  BY <1>2, NotifierAssumption DEF PictureInv, QueueInv
<1>8. LivesInv'
  <2> SUFFICES ASSUME NEW f \in Encoders, encoder'[f].fate = "clean"
               PROVE  /\ Life(f)'
                      /\ ~ mNotifierStarted' /\ at'["app"] # "cancelEncoders"
                         /\ encoder'[f].at \in Reading => encoder'[f].mCancelEncoding
    BY DEF LivesInv
  <2>1. CASE f = e
    BY <1>2, <2>1, Zenon DEF PictureInv, LivesInv
  <2>2. CASE f # e
    BY <1>2, <2>2 DEF PictureInv, LivesInv, Life, Entered, Gone, Holdings
  <2> QED BY <2>1, <2>2, Zenon
<1> QED BY <1>3, <1>4, <1>5, <1>6, <1>7, <1>8, Zenon DEF PictureInv

(* An encoder ends: its entries are those of an exited thread. *)
LEMMA ExitStep ==
    ASSUME PictureInv, NEW e \in Encoders, ExitEncoder(e), encoder[e].at # "none",
           returning[e].at = "no",
           UNCHANGED <<state, camera, mImageBufs, encodes, mNotifierStarted, mFrameQ, lock, at,
                       returning>>
    PROVE  PictureInv'
<1>1. /\ encoder' = [encoder EXCEPT ![e] = NewEncoder]
      /\ gEncoderQueue' = [b \in DOMAIN gEncoderQueue |->
                              IF gEncoderQueue[b] = e THEN "exited" ELSE gEncoderQueue[b]]
      /\ frame' = IF frame.encoder = e THEN [frame EXCEPT !.encoder = "exited"] ELSE frame
  BY Zenon DEF ExitEncoder
<1>2. /\ encoder \in [Encoders ->
           [at : Reading \cup {"none", "return"}, buf : Buffers \cup {None},
            mCancelEncoding : BOOLEAN, mem : Nat, exif : Nat,
            fate : {"clean", "early", "met", "missed"}]]
      /\ frame \in [buf : Buffers \cup {None}, encoder : Encoders \cup {None, "exited"}]
      /\ e \notin {None, "exited"}
  BY NotifierAssumption DEF PictureInv, Types, EncoderTypes
<1>3. /\ encoder'[e] = NewEncoder /\ \A f \in Encoders : f # e => encoder'[f] = encoder[f]
      /\ frame'.buf = frame.buf
      /\ frame'.encoder = IF frame.encoder = e THEN "exited" ELSE frame.encoder
      /\ frame' \in [buf : Buffers \cup {None}, encoder : Encoders \cup {None, "exited"}]
      /\ DOMAIN gEncoderQueue' = DOMAIN gEncoderQueue
      /\ \A b \in DOMAIN gEncoderQueue :
            gEncoderQueue'[b] = IF gEncoderQueue[b] = e THEN "exited" ELSE gEncoderQueue[b]
      /\ NewEncoder.at = "none"
  BY <1>1, <1>2, Zenon DEF NewEncoder
<1>4. Types'
  <2>1. EncoderTypes'
    BY <1>1, <1>2, <1>3, Zenon DEF EncoderTypes, NewEncoder
  <2>2. QueueTypes'
    BY <1>3 DEF PictureInv, Types, QueueTypes
  <2> QED BY <2>1, <2>2 DEF PictureInv, Types, AdapterTypes, ThreadTypes
<1>5. OnePlace' /\ Allocated'
  <2>1. \A f \in Encoders : encoder'[f].at \in Reading =>
           encoder[f].at \in Reading /\ encoder'[f].buf = encoder[f].buf
    BY <1>3 DEF Reading
  <2>2. Taken' = Taken
    BY <1>3, Zenon DEF Taken
  <2> QED BY <2>1, <2>2, PlacesShrink, Zenon
<1>6. ThreadsInv'
  <2>1. \A f \in Encoders : /\ returning[f].at # "no" => encoder'[f].at = "return"
                            /\ IF encoder'[f].at = "none" THEN encoder'[f] = NewEncoder
                               ELSE encoder'[f].buf \in Buffers
    BY <1>3 DEF PictureInv, ThreadsInv
  <2>2. frame'.encoder # None <=> frame.encoder # None
    BY <1>2, <1>3, NotifierAssumption, Zenon
  <2> QED BY <1>3, <2>1, <2>2, Zenon DEF PictureInv, ThreadsInv, Returners
<1>7. StateInv'
  BY <1>3, Zenon DEF PictureInv, StateInv
<1>8. \A f \in Encoders : f \notin Range(gEncoderQueue) => f \notin Range(gEncoderQueue')
  BY <1>3, NotifierAssumption DEF Range
<1>9. QueueInv'
  <2>1. \A b \in DOMAIN gEncoderQueue' : gEncoderQueue'[b] \in Encoders =>
           gEncoderQueue'[b] = gEncoderQueue[b] /\ gEncoderQueue[b] # e
    BY <1>3, NotifierAssumption, Zenon
  <2>2. frame'.encoder \in Encoders => frame'.encoder = frame.encoder /\ frame.encoder # e
    BY <1>3, NotifierAssumption, Zenon
  <2>3. ASSUME at["notifier"] = "add", NEW f \in Encoders \ {frame'.encoder}, encoder'[f].at \in Reading
        PROVE  encoder'[f].buf # frame'.buf
    <3>1. f # e /\ f # frame.encoder
      BY <1>3, <2>3, Zenon DEF Reading
    <3> QED BY <1>3, <2>3, <3>1 DEF PictureInv, QueueInv
  <2> QED BY <1>3, <1>8, <2>1, <2>2, <2>3 DEF PictureInv, QueueInv
<1>10. LivesInv'
  <2> SUFFICES ASSUME NEW f \in Encoders, encoder'[f].fate = "clean"
               PROVE  /\ Life(f)'
                      /\ ~ mNotifierStarted' /\ at'["app"] # "cancelEncoders"
                         /\ encoder'[f].at \in Reading => encoder'[f].mCancelEncoding
    BY Zenon DEF LivesInv
  <2>1. CASE f = e
    <3>1. e \notin Range(gEncoderQueue')
      BY <1>2, <1>3 DEF Range
    <3> QED BY <1>2, <1>3, <2>1, <3>1, Zenon DEF Life, Gone, Reading
  <2>2. CASE f # e
    <3>1. Gone(f) => Gone(f)'
      BY <1>3, <1>8, <2>2, NotifierAssumption, Zenon DEF Gone
    <3>2. (Entered(f) => Entered(f)') /\ (frame.encoder = f => frame'.encoder = f)
      BY <1>3, <2>2 DEF Entered
    <3> QED BY <1>3, <2>2, <3>1, <3>2 DEF PictureInv, LivesInv, Life, Holdings
  <2> QED BY <2>1, <2>2, Zenon
<1> QED BY <1>4, <1>5, <1>6, <1>7, <1>9, <1>10, Zenon DEF PictureInv

(* The callback of an encoder, up to its release of what it holds. *)
LEMMA EncodingStep ==
    ASSUME PictureInv, NEW e \in Encoders,
           Encode(e) \/ BuildPicture(e) \/ TestEnabled(e) \/ SendPicture(e) \/ TestStarted(e)
    PROVE  PictureInv'
<1>1. /\ encoder \in [Encoders ->
           [at : Reading \cup {"none", "return"}, buf : Buffers \cup {None},
            mCancelEncoding : BOOLEAN, mem : Nat, exif : Nat,
            fate : {"clean", "early", "met", "missed"}]]
      /\ encoder[e].at # "return" => returning[e].at = "no"
      /\ encoder[e].fate = "clean" => Life(e)
  BY DEF PictureInv, Types, EncoderTypes, ThreadsInv, LivesInv
<1>2. CASE Encode(e) /\ ~ encoder[e].mCancelEncoding
  <2> DEFINE r == [encoder[e] EXCEPT !.at = "done",
                     !.fate = IF frame.encoder = e /\ @ = "clean" THEN "early" ELSE @]
  <2>1. /\ encoder[e].at = "encode" /\ encoder' = [encoder EXCEPT ![e] = r]
        /\ UNCHANGED <<state, camera, mImageBufs, encodes, mNotifierStarted, mFrameQ, gEncoderQueue,
                       frame, lock, at, returning>>
    BY <1>1, <1>2, Zenon DEF Encode, adapter, threads
  <2>2. /\ r \in [at : Reading, buf : {encoder[e].buf}, mCancelEncoding : BOOLEAN, mem : Nat,
                  exif : Nat, fate : {"clean", "early", "met", "missed"}]
        /\ encoder'[e] = r /\ r.at = "done" /\ r.buf = encoder[e].buf /\ r.mem = encoder[e].mem
        /\ r.exif = encoder[e].exif /\ r.mCancelEncoding = encoder[e].mCancelEncoding
        /\ r.fate = "clean" => encoder[e].fate = "clean" /\ frame.encoder # e
    BY <1>1, <2>1, Zenon DEF Reading
  <2> HIDE DEF r
  <2>3. r.fate = "clean" => Life(e)'
    BY <1>1, <1>2, <2>1, <2>2 DEF Life, Entered, Holdings
  <2>4. encoder[e].at \in Reading
    BY <2>1, Zenon DEF Reading
  <2> QED BY <2>1, <2>2, <2>3, <2>4, EncoderGoesOn, Zenon
<1>3. CASE (Encode(e) /\ encoder[e].mCancelEncoding) \/ (TestStarted(e) /\ ~ mNotifierStarted)
  <2>1. /\ encoder[e].at \in {"encode", "test"} /\ ExitEncoder(e)
        /\ UNCHANGED <<state, camera, mImageBufs, encodes, mNotifierStarted, mFrameQ, lock, at,
                       returning>>
    BY <1>3 DEF Encode, TestStarted, adapter, threads
  <2> QED BY <1>1, <2>1, ExitStep, Zenon
<1>4. CASE BuildPicture(e)
  <2> DEFINE k == encoder[e].exif + 1
             r == [encoder[e] EXCEPT !.at = "send", !.exif = k]
  <2>1. /\ encoder[e].at = "done" /\ encoder' = [encoder EXCEPT ![e] = r]
        /\ UNCHANGED <<state, camera, mImageBufs, encodes, mNotifierStarted, mFrameQ, gEncoderQueue,
                       frame, lock, at, returning>>
    BY <1>1, <1>4, Zenon DEF BuildPicture, adapter, threads
  <2>nat. k \in Nat
    BY <1>1
  <2> HIDE DEF k
  <2>2. /\ r \in [at : Reading, buf : {encoder[e].buf}, mCancelEncoding : BOOLEAN, mem : Nat,
                  exif : Nat, fate : {"clean", "early", "met", "missed"}]
        /\ encoder'[e] = r /\ r.at = "send" /\ r.buf = encoder[e].buf /\ r.mem = encoder[e].mem
        /\ r.exif = k /\ r.mCancelEncoding = encoder[e].mCancelEncoding
        /\ r.fate = encoder[e].fate
    BY <1>1, <2>1, <2>nat, Zenon DEF Reading
  <2> HIDE DEF r
  <2>3. r.fate = "clean" => Life(e)'
    BY <1>1, <2>1, <2>2 DEF Life, Entered, Holdings, k
  <2>4. encoder[e].at \in Reading
    BY <2>1 DEF Reading
  <2> QED BY <2>1, <2>2, <2>3, <2>4, EncoderGoesOn, Zenon
<1>5. CASE TestEnabled(e) \/ SendPicture(e) \/ (TestStarted(e) /\ mNotifierStarted)
  <2>1. PICK x \in {"burst", "test", "release"} :
          /\ encoder[e].at \in {"send", "burst", "test"}
          /\ encoder' = [encoder EXCEPT ![e] = [encoder[e] EXCEPT !.at = x]]
          /\ UNCHANGED <<state, camera, mImageBufs, encodes, mNotifierStarted, mFrameQ,
                         gEncoderQueue, frame, lock, at, returning>>
    <3>1. CASE TestEnabled(e)
      BY <1>1, <3>1, Zenon DEF TestEnabled, adapter, threads
    <3>2. CASE SendPicture(e)
      BY <1>1, <3>2 DEF SendPicture, adapter
    <3>3. CASE TestStarted(e) /\ mNotifierStarted
      BY <1>1, <3>3 DEF TestStarted, adapter, threads
    <3> QED BY <1>5, <3>1, <3>2, <3>3
  <2> DEFINE r == [encoder[e] EXCEPT !.at = x]
  <2>2. /\ r \in [at : Reading, buf : {encoder[e].buf}, mCancelEncoding : BOOLEAN, mem : Nat,
                  exif : Nat, fate : {"clean", "early", "met", "missed"}]
        /\ encoder'[e] = r /\ r.at = x /\ r.buf = encoder[e].buf /\ r.mem = encoder[e].mem
        /\ r.exif = encoder[e].exif /\ r.mCancelEncoding = encoder[e].mCancelEncoding
        /\ r.fate = encoder[e].fate
    BY <1>1, <2>1 DEF Reading
  <2>3. encoder' = [encoder EXCEPT ![e] = r]
    BY <2>1, Zenon
  <2> HIDE DEF r
  <2>4. r.fate = "clean" => Life(e)'
    BY <1>1, <2>1, <2>2 DEF Life, Entered, Holdings
  <2>5. encoder[e].at \in Reading
    BY <2>1, Zenon DEF Reading
  <2> QED BY <2>1, <2>2, <2>3, <2>4, <2>5, EncoderGoesOn, ZenonT(30)
<1> QED BY <1>2, <1>3, <1>4, <1>5, Zenon DEF PictureInv, Types, AdapterTypes

(* The callback releases the memory and its entry and returns the frame. *)
LEMMA ReleaseEncoderStep ==
    ASSUME PictureInv, NEW e \in Encoders, ReleaseEncoder(e)
    PROVE  PictureInv'
<1> DEFINE b == encoder[e].buf
           k == encoder[e].mem + 1
           r == [encoder[e] EXCEPT !.at = "return", !.mem = k]
<1>1. /\ encoder \in [Encoders ->
           [at : Reading \cup {"none", "return"}, buf : Buffers \cup {None},
            mCancelEncoding : BOOLEAN, mem : Nat, exif : Nat,
            fate : {"clean", "early", "met", "missed"}]]
      /\ returning \in [Threads -> [at : {"no", "return", "end", "stopping"}, buf : Buffers \cup {None}]]
      /\ e \in Threads /\ e \notin {"app", "notifier", None}
  BY NotifierAssumption, Zenon DEF PictureInv, Types, EncoderTypes, ThreadTypes, Threads
<1>2. /\ encoder[e].at = "release" /\ encoder' = [encoder EXCEPT ![e] = r]
      /\ gEncoderQueue' = [c \in DOMAIN gEncoderQueue \ {b} |-> gEncoderQueue[c]]
      /\ returning' = [returning EXCEPT ![e] = [at |-> "return", buf |-> b]]
      /\ UNCHANGED <<state, camera, mImageBufs, encodes, mNotifierStarted, mFrameQ, frame, lock, at>>
  BY <1>1, Zenon DEF ReleaseEncoder, Returns, Restrict, adapter
<1>3. /\ b \in Buffers /\ e \in Readers /\ b \in Read
      /\ returning[e].at = "no"
  BY <1>2 DEF PictureInv, ThreadsInv, Readers, Read, Reading
<1>nat. k \in Nat
  BY <1>1
<1> HIDE DEF k
<1>4. /\ encoder'[e] = r /\ r.at = "return" /\ r.buf = b /\ r.mem = k
      /\ r.exif = encoder[e].exif /\ r.mCancelEncoding = encoder[e].mCancelEncoding
      /\ r.fate = encoder[e].fate
      /\ r \in [at : Reading \cup {"none", "return"}, buf : Buffers \cup {None},
                mCancelEncoding : BOOLEAN, mem : Nat, exif : Nat,
                fate : {"clean", "early", "met", "missed"}]
      /\ \A f \in Encoders : f # e => encoder'[f] = encoder[f]
      /\ returning'[e] = [at |-> "return", buf |-> b]
      /\ \A t \in Threads : t # e => returning'[t] = returning[t]
  BY <1>1, <1>2, <1>nat, Zenon
<1> HIDE DEF b, r
<1>5. /\ DOMAIN gEncoderQueue' = DOMAIN gEncoderQueue \ {b}
      /\ \A c \in DOMAIN gEncoderQueue' : gEncoderQueue'[c] = gEncoderQueue[c]
  BY <1>2
<1>6. Types'
  <2>1. EncoderTypes'
    BY <1>1, <1>2, <1>4, Zenon DEF PictureInv, Types, EncoderTypes
  <2>2. QueueTypes'
    BY <1>2, <1>5, Zenon DEF PictureInv, Types, QueueTypes
  <2>3. ThreadTypes'
    BY <1>1, <1>2, <1>3, Zenon DEF PictureInv, Types, ThreadTypes
  <2> QED BY <1>2, <2>1, <2>2, <2>3 DEF PictureInv, Types, AdapterTypes
<1>7. /\ Taken' = Taken /\ InQueue' = InQueue
      /\ Readers' = Readers \ {e} /\ Returners' = Returners \cup {e} /\ e \notin Returners
      /\ \A f \in Readers' : encoder'[f] = encoder[f]
      /\ \A t \in Returners : returning'[t] = returning[t]
  BY <1>1, <1>2, <1>3, <1>4 DEF Taken, InQueue, Readers, Returners, Reading
<1>8. Read' = Read \ {b} /\ Returned' = Returned \cup {b}
  <2>1. Read' = Read \ {b}
    BY <1>3, <1>7 DEF PictureInv, OnePlace, Read, b
  <2>2. Returned' = Returned \cup {b}
    BY <1>4, <1>7 DEF Returned
  <2> QED BY <2>1, <2>2, Zenon
<1>9. OnePlace'
  <2>1. b \notin Returned
    BY <1>3, Zenon DEF PictureInv, OnePlace
  <2>2. \A t, u \in Returners' : returning'[t].buf = returning'[u].buf => t = u
    BY <1>4, <1>7, <2>1 DEF PictureInv, OnePlace, Returned
  <2>3. \A f, g \in Readers' : encoder'[f].buf = encoder'[g].buf => f = g
    BY <1>7 DEF PictureInv, OnePlace
  <2> QED BY <1>2, <1>3, <1>7, <1>8, <2>1, <2>2, <2>3 DEF PictureInv, OnePlace
<1>10. Allocated'
  BY <1>2, <1>3, <1>7, <1>8, Zenon DEF PictureInv, Allocated
<1>11. ThreadsInv'
  <2>1. \A f \in Encoders : /\ returning'[f].at # "no" => encoder'[f].at = "return"
                            /\ IF encoder'[f].at = "none" THEN encoder'[f] = NewEncoder
                               ELSE encoder'[f].buf \in Buffers
    BY <1>3, <1>4 DEF PictureInv, ThreadsInv, Threads
  <2>2. \A t \in Returners' : returning'[t].buf \in Buffers
    BY <1>3, <1>4, <1>7 DEF PictureInv, ThreadsInv
  <2>3. returning'["app"] = returning["app"] /\ returning'["notifier"] = returning["notifier"]
    BY <1>1, <1>4, Zenon DEF Threads
  <2> QED BY <1>2, <2>1, <2>2, <2>3, Zenon DEF PictureInv, ThreadsInv
<1>12. StateInv'
  BY <1>2, <1>4 DEF PictureInv, StateInv
<1>13. \A x : x \notin Range(gEncoderQueue) => x \notin Range(gEncoderQueue')
  BY <1>5 DEF Range
<1>14. QueueInv'
  <2>1. \A c \in DOMAIN gEncoderQueue' : gEncoderQueue'[c] \in Encoders =>
           encoder'[gEncoderQueue'[c]].at # "none" /\ encoder'[gEncoderQueue'[c]].buf = c
    BY <1>2, <1>4, <1>5 DEF PictureInv, QueueInv, b
  <2>2. frame.encoder \in Encoders =>
          encoder'[frame.encoder].at # "none" /\ encoder'[frame.encoder].buf = frame.buf
    BY <1>4, Zenon DEF PictureInv, QueueInv, b
  <2>3. \A f \in Encoders : encoder'[f].at \in Reading => encoder[f].at \in Reading /\ encoder'[f] = encoder[f]
    BY <1>4, Zenon DEF Reading
  <2> QED BY <1>2, <1>13, <2>1, <2>2, <2>3, Zenon DEF PictureInv, QueueInv
<1>15. LivesInv'
  <2> SUFFICES ASSUME NEW f \in Encoders, encoder'[f].fate = "clean"
               PROVE  /\ Life(f)'
                      /\ ~ mNotifierStarted' /\ at'["app"] # "cancelEncoders"
                         /\ encoder'[f].at \in Reading => encoder'[f].mCancelEncoding
    BY Zenon DEF LivesInv
  <2>1. CASE f = e
    <3>1. ~ encoder[e].mCancelEncoding /\ Holdings(e, 0, 1) /\ Entered(e)
      BY <1>2, <1>4, <2>1, Zenon DEF PictureInv, LivesInv, Life
    <3>2. e \notin Range(gEncoderQueue')
      BY <1>5 DEF PictureInv, QueueInv, Range, b
    <3>3. frame.encoder # e
      BY <3>1 DEF PictureInv, QueueInv, Entered, Range
    <3>4. r.at \notin Reading
      BY <1>4, Zenon DEF Reading
    <3> QED BY <1>2, <1>4, <2>1, <3>1, <3>2, <3>3, <3>4 DEF Life, Gone, Holdings, k
  <2>2. CASE f # e
    <3>1. Gone(f) => Gone(f)'
      BY <1>2, <1>13, Zenon DEF Gone
    <3>2. encoder[f].at \in Reading => encoder[f].buf # b
      BY <1>3, <2>2, Zenon DEF PictureInv, OnePlace, Readers, b
    <3>3. encoder[f].at \in Reading /\ Entered(f) => Entered(f)'
      BY <1>4, <1>5, <2>2, <3>2 DEF Entered
    <3>4. encoder'[f] = encoder[f] /\ Life(f) /\ (frame.encoder = f => frame'.encoder = f)
      BY <1>2, <1>4, <2>2, Zenon DEF PictureInv, LivesInv
    <3>5. Life(f)'
      BY <3>1, <3>3, <3>4, Zenon DEF Life, Holdings, Reading
    <3> QED BY <1>2, <3>4, <3>5 DEF PictureInv, LivesInv
  <2> QED BY <2>1, <2>2, Zenon
<1> QED BY <1>6, <1>9, <1>10, <1>11, <1>12, <1>14, <1>15, Zenon DEF PictureInv

(* The encoder's thread ends. *)
LEMMA EncoderExitsStep ==
    ASSUME PictureInv, NEW e \in Encoders, EncoderExits(e)
    PROVE  PictureInv'
BY ExitStep, Zenon DEF EncoderExits, adapter, threads

-----------------------------------------------------------------------------
(* startPreview() clears gEncoderQueue: the encoders left are cancelled.   *)
LEMMA StartPreviewStep == PictureInv /\ StartPreview => PictureInv'
<1> SUFFICES ASSUME PictureInv, StartPreview PROVE PictureInv'
  BY Zenon
<1>1. /\ at["app"] = "idle" /\ state = "initialised" /\ state' = "preview"
      /\ mNotifierStarted' = TRUE /\ gEncoderQueue' = <<>>
      /\ UNCHANGED <<camera, mImageBufs, encodes, mFrameQ, encoder, frame, lock, at, returning>>
  BY Zenon DEF StartPreview, AppIdle, threads
<1>2. DOMAIN gEncoderQueue' = {} /\ Range(gEncoderQueue') = {}
  BY <1>1 DEF Range
<1>3. Types'
  <2>1. QueueTypes'
    BY <1>1, <1>2, Zenon DEF PictureInv, Types, QueueTypes
  <2> QED BY <1>1, <2>1, Zenon DEF PictureInv, Types, AdapterTypes, EncoderTypes, ThreadTypes
<1>4. OnePlace' /\ Allocated'
  <2>1. Taken' = Taken
    BY <1>1 DEF Taken
  <2> QED BY <1>1, <2>1, PlacesShrink, Zenon
<1>5. ThreadsInv'
  BY <1>1, Zenon DEF PictureInv, ThreadsInv, Returners
<1>6. StateInv'
  BY <1>1 DEF PictureInv, StateInv, StopPhase
<1>7. QueueInv'
  BY <1>1, <1>2, Zenon DEF PictureInv, QueueInv
<1>8. LivesInv'
  <2> SUFFICES ASSUME NEW f \in Encoders, encoder[f].fate = "clean"
               PROVE  Life(f)'
    BY <1>1, Zenon DEF LivesInv
  <2>1. Life(f) /\ (encoder[f].at \in Reading => encoder[f].mCancelEncoding)
    BY <1>1, Zenon DEF PictureInv, LivesInv, StateInv
  <2>2. Gone(f) => Gone(f)'
    BY <1>1, <1>2, Zenon DEF Gone
  <2> QED BY <1>1, <2>1, <2>2, Zenon DEF Life, Reading, Holdings
<1> QED BY <1>3, <1>4, <1>5, <1>6, <1>7, <1>8, Zenon DEF PictureInv

(* takePicture() begins when the pictures before it are done. *)
LEMMA TakePictureStep == AppWaits /\ PictureInv /\ TakePicture => PictureInv'
<1> SUFFICES ASSUME AppWaits, PictureInv, TakePicture PROVE PictureInv'
  BY Zenon
<1>1. /\ at["app"] = "idle" /\ returning["app"].at = "no" /\ state = "preview" /\ PicturesDone
      /\ lock' = [lock EXCEPT !["hal"] = "app"] /\ at' = [at EXCEPT !["app"] = "setBurst"]
      /\ UNCHANGED <<state, camera, mImageBufs, encodes, mNotifierStarted, mFrameQ, gEncoderQueue,
                     encoder, frame, returning>>
  BY Zenon DEF TakePicture, AppIdle, Owned, Goto, adapter, notifier
<1>2. /\ at \in [{"app", "notifier"} ->
              StopPhase \cup Owning \cup {"idle", "setBurst", "add", "skip", "send"}]
      /\ lock \in [Locks -> Threads \cup {None}]
  BY Zenon DEF PictureInv, Types, ThreadTypes
<1>3. at'["notifier"] = at["notifier"] /\ at'["app"] = "setBurst" /\ lock'["state"] = lock["state"]
  BY <1>1, <1>2, Zenon DEF Locks
<1>4. Types'
  <2>1. ThreadTypes'
    BY <1>1, <1>2, Zenon DEF PictureInv, Types, ThreadTypes, Locks, Threads
  <2> QED BY <1>1, <2>1, Zenon DEF PictureInv, Types, AdapterTypes, QueueTypes, EncoderTypes
<1>5. OnePlace' /\ Allocated'
  <2>1. Taken' = Taken
    BY <1>1, <1>3, Zenon DEF Taken
  <2> QED BY <1>1, <2>1, PlacesShrink
<1>6. ThreadsInv'
  BY <1>1, <1>3, Zenon DEF PictureInv, ThreadsInv, Returners
<1>7. StateInv'
  BY <1>1, <1>3, Zenon DEF PictureInv, StateInv, StopPhase, PicturesDone
<1>8. QueueInv' /\ LivesInv'
  BY <1>1, <1>3, LivesKept, Zenon
<1> QED BY <1>4, <1>5, <1>6, <1>7, <1>8, Zenon DEF PictureInv

(* The capture starts with buffers that are nowhere else. *)
LEMMA StartImageCaptureStep ==
    ASSUME PictureInv, NEW n \in Bursts, NEW encode \in BOOLEAN, StartImageCapture(n, encode)
    PROVE  PictureInv'
<1>1. /\ at["app"] = "setBurst" /\ at' = [at EXCEPT !["app"] = "idle"]
      /\ mImageBufs' = TRUE /\ encodes' \in BOOLEAN /\ state' = "capture"
      /\ lock' = [l \in Locks |-> IF l \in {"hal"} THEN None ELSE lock[l]]
      /\ UNCHANGED <<mNotifierStarted, mFrameQ, gEncoderQueue, encoder, frame, returning>>
  BY DEF StartImageCapture, Goto, Released, notifier
<1>2. camera' \subseteq Buffers
  <2>1. (CHOOSE b \in Buffers : TRUE) \in Buffers
    BY NotifierAssumption, Zenon
  <2> QED BY <2>1 DEF StartImageCapture
<1>3. /\ at \in [{"app", "notifier"} ->
              StopPhase \cup Owning \cup {"idle", "setBurst", "add", "skip", "send"}]
      /\ lock \in [Locks -> Threads \cup {None}]
      /\ state = "preview" /\ at["notifier"] = "idle" /\ mFrameQ = <<>>
      /\ \A e \in Encoders : encoder[e].at = "none"
  BY <1>1, Zenon DEF PictureInv, Types, ThreadTypes, StateInv
<1>4. at'["notifier"] = "idle" /\ at'["app"] = "idle" /\ lock'["state"] = lock["state"]
  BY <1>1, <1>3, Zenon DEF Locks
<1>5. Types'
  <2>1. ThreadTypes'
    BY <1>1, <1>3, Zenon DEF PictureInv, Types, ThreadTypes
  <2> QED BY <1>1, <1>2, <2>1, Zenon DEF PictureInv, Types, AdapterTypes, QueueTypes, EncoderTypes
<1>6. \A t \in Threads : returning[t].at = "no"
  BY <1>1, <1>3, Zenon DEF PictureInv, ThreadsInv, Threads
<1>7. InQueue' = {} /\ Taken' = {} /\ Readers' = {} /\ Returners' = {} /\ Distinct(mFrameQ')
  BY <1>1, <1>3, <1>4, <1>6
     DEF InQueue, Bufs, Taken, Owning, Readers, Reading, Returners, Distinct
<1>8. Read' = {} /\ Returned' = {}
  BY <1>7 DEF Read, Returned
<1>9. OnePlace' /\ Allocated'
  BY <1>1, <1>7, <1>8, Zenon DEF OnePlace, Allocated
<1>10. ThreadsInv'
  BY <1>1, <1>4, <1>6, <1>7 DEF PictureInv, ThreadsInv, Threads
<1>11. StateInv'
  BY <1>1, <1>3, <1>4, <1>6, Zenon DEF PictureInv, StateInv, StopPhase
<1>12. QueueInv' /\ LivesInv'
  BY <1>1, <1>3, <1>4, LivesKept, Zenon
<1> QED BY <1>5, <1>9, <1>10, <1>11, <1>12, Zenon DEF PictureInv

(* cancelPicture() *)
LEMMA CancelPictureStep == PictureInv /\ CancelPicture => PictureInv'
<1> SUFFICES ASSUME PictureInv, CancelPicture PROVE PictureInv'
  OBVIOUS
<1>1. /\ at["app"] = "idle" /\ returning["app"].at = "no"
      /\ returning' = [returning EXCEPT !["app"] = [at |-> "end", buf |-> None]]
      /\ UNCHANGED <<state, camera, mImageBufs, encodes, mNotifierStarted, mFrameQ, gEncoderQueue,
                     encoder, frame, lock, at>>
  BY Zenon DEF CancelPicture, AppIdle, Returns, adapter, notifier
<1>2. /\ returning \in [Threads -> [at : {"no", "return", "end", "stopping"}, buf : Buffers \cup {None}]]
      /\ "app" \in Threads
  BY Zenon DEF PictureInv, Types, ThreadTypes, Threads
<1>3. /\ returning'["app"].at = "end" /\ returning'["app"].at # "no"
      /\ \A t \in Threads : t # "app" => returning'[t] = returning[t]
  BY <1>1, <1>2, Zenon
<1>4. Types'
  <2>1. ThreadTypes'
    BY <1>1, <1>2, Zenon DEF PictureInv, Types, ThreadTypes
  <2> QED BY <1>1, <2>1, Zenon DEF PictureInv, Types, AdapterTypes, QueueTypes, EncoderTypes
<1>5. \A t \in Threads : returning'[t].at = "return" =>
         returning[t].at = "return" /\ returning'[t].buf = returning[t].buf
  BY <1>3, Zenon
<1>6. OnePlace' /\ Allocated'
  <2>1. Taken' = Taken
    BY <1>1, Zenon DEF Taken
  <2> QED BY <1>1, <1>5, <2>1, PlacesShrink
<1>7. ThreadsInv'
  <2>1. \A e \in Encoders : returning'[e] = returning[e]
    BY <1>3, NotifierAssumption, Zenon DEF Threads
  <2>2. returning'["notifier"] = returning["notifier"]
    BY <1>3, Zenon DEF Threads
  <2>3. \A t \in Returners' : returning'[t].buf \in Buffers
    BY <1>5, Zenon DEF PictureInv, ThreadsInv, Returners
  <2> QED BY <1>1, <2>1, <2>2, <2>3, Zenon DEF PictureInv, ThreadsInv
<1>8. StateInv'
  BY <1>1, <1>3 DEF PictureInv, StateInv
<1>9. QueueInv' /\ LivesInv'
  BY <1>1, LivesKept, Zenon
<1> QED BY <1>4, <1>6, <1>7, <1>8, <1>9, Zenon DEF PictureInv

-----------------------------------------------------------------------------
(* forceStopPreview() stops the notifier. *)
LEMMA StopNotifierStep == PictureInv /\ StopNotifier => PictureInv'
<1> SUFFICES ASSUME PictureInv, StopNotifier PROVE PictureInv'
  OBVIOUS
<1>1. /\ at["app"] = "idle" /\ returning["app"].at = "no" /\ state # "initialised"
      /\ mNotifierStarted' = FALSE /\ at' = [at EXCEPT !["app"] = "cancelEncoders"]
      /\ UNCHANGED <<state, camera, mImageBufs, encodes, mFrameQ, gEncoderQueue, encoder, frame,
                     lock, returning>>
  BY DEF StopNotifier, AppIdle, Goto, adapter
<1>2. at \in [{"app", "notifier"} ->
              StopPhase \cup Owning \cup {"idle", "setBurst", "add", "skip", "send"}]
  BY Zenon DEF PictureInv, Types, ThreadTypes
<1>3. at'["notifier"] = at["notifier"] /\ at'["app"] = "cancelEncoders"
  BY <1>1, <1>2
<1>4. Types'
  <2>1. ThreadTypes'
    BY <1>1, <1>2, Zenon DEF PictureInv, Types, ThreadTypes, StopPhase
  <2> QED BY <1>1, <2>1, Zenon DEF PictureInv, Types, AdapterTypes, QueueTypes, EncoderTypes
<1>5. OnePlace' /\ Allocated'
  <2>1. Taken' = Taken
    BY <1>1, <1>3, Zenon DEF Taken
  <2> QED BY <1>1, <2>1, PlacesShrink, Zenon
<1>6. ThreadsInv'
  BY <1>1, <1>3, Zenon DEF PictureInv, ThreadsInv, Returners
<1>7. StateInv'
  BY <1>1, <1>3, Zenon DEF PictureInv, StateInv, StopPhase
<1>8. QueueInv'
  BY <1>1, <1>3, Zenon DEF PictureInv, QueueInv
<1>9. LivesInv'
  BY <1>1, <1>3 DEF PictureInv, LivesInv, Life, Entered, Gone, Holdings
<1> QED BY <1>4, <1>5, <1>6, <1>7, <1>8, <1>9 DEF PictureInv

(* It cancels an encoder that gEncoderQueue has. *)
LEMMA CancelEncoderStep ==
    ASSUME PictureInv, NEW b \in Buffers, CancelEncoder(b)
    PROVE  PictureInv'
<1> DEFINE e == gEncoderQueue[b]
<1>1. /\ at["app"] = "cancelEncoders" /\ b \in DOMAIN gEncoderQueue
      /\ gEncoderQueue' = [c \in DOMAIN gEncoderQueue \ {b} |-> gEncoderQueue[c]]
      /\ UNCHANGED <<state, camera, mImageBufs, encodes, mNotifierStarted, mFrameQ, frame, lock, at,
                     returning>>
  BY DEF CancelEncoder, Restrict, adapter, threads
<1>2. /\ encoder \in [Encoders ->
           [at : Reading \cup {"none", "return"}, buf : Buffers \cup {None},
            mCancelEncoding : BOOLEAN, mem : Nat, exif : Nat,
            fate : {"clean", "early", "met", "missed"}]]
      /\ e \in Encoders \cup {"exited"} /\ "exited" \notin Encoders
  BY <1>1, NotifierAssumption, Zenon DEF PictureInv, Types, EncoderTypes, QueueTypes
<1>3. /\ \A f \in Encoders : f # e => encoder'[f] = encoder[f]
      /\ e \in Encoders =>
            /\ encoder'[e].at = encoder[e].at /\ encoder'[e].buf = encoder[e].buf
            /\ encoder'[e].mCancelEncoding
            /\ encoder'[e].mem = encoder[e].mem + 1 /\ encoder'[e].exif = encoder[e].exif + 1
            /\ encoder'[e].fate = IF encoder[e].at = "encode" THEN encoder[e].fate ELSE "met"
      /\ EncoderTypes'
  <2>1. CASE e = "exited"
    BY <1>1, <1>2, <2>1, Zenon DEF CancelEncoder, PictureInv, Types, EncoderTypes
  <2>2. CASE e \in Encoders
    <3> DEFINE m == encoder[e].mem + 1
               x == encoder[e].exif + 1
               y == IF encoder[e].at = "encode" THEN encoder[e].fate ELSE "met"
               r == [encoder[e] EXCEPT !.mCancelEncoding = TRUE, !.mem = m, !.exif = x, !.fate = y]
    <3>1. encoder' = [encoder EXCEPT ![e] = r]
      BY <1>2, <2>2, Zenon DEF CancelEncoder
    <3>2. m \in Nat /\ x \in Nat /\ y \in {"clean", "early", "met", "missed"}
      BY <1>2, <2>2
    <3> HIDE DEF m, x, y, e
    <3>3. /\ r.at = encoder[e].at /\ r.buf = encoder[e].buf /\ r.mCancelEncoding
          /\ r.mem = m /\ r.exif = x /\ r.fate = y
      BY <1>2, <2>2
    <3>4. r \in [at : Reading \cup {"none", "return"}, buf : Buffers \cup {None},
                 mCancelEncoding : BOOLEAN, mem : Nat, exif : Nat,
                 fate : {"clean", "early", "met", "missed"}]
      BY <1>2, <2>2, <3>2, Zenon
    <3> HIDE DEF r
    <3>5. EncoderTypes'
      BY <1>1, <1>2, <3>1, <3>4, Zenon DEF PictureInv, Types, EncoderTypes
    <3>6. encoder'[e] = r /\ \A f \in Encoders : f # e => encoder'[f] = encoder[f]
      BY <1>2, <2>2, <3>1, Zenon
    <3> QED BY <3>3, <3>5, <3>6, Zenon DEF m, x, y
  <2> QED BY <1>2, <2>1, <2>2, Zenon
<1>4. /\ e \in Encoders => encoder[e].at # "none" /\ encoder[e].buf = b /\ frame.encoder # e
      /\ e \in Range(gEncoderQueue) /\ gEncoderQueue[b] = e
  BY <1>1 DEF PictureInv, QueueInv, Range
<1>5. /\ DOMAIN gEncoderQueue' = DOMAIN gEncoderQueue \ {b}
      /\ \A c \in DOMAIN gEncoderQueue' : gEncoderQueue'[c] = gEncoderQueue[c]
  BY <1>1, Zenon
<1> HIDE DEF e
<1>6. Types'
  <2>1. QueueTypes'
    BY <1>1, <1>5, Zenon DEF PictureInv, Types, QueueTypes
  <2> QED BY <1>1, <1>3, <2>1, Zenon DEF PictureInv, Types, AdapterTypes, ThreadTypes
<1>7. \A f \in Encoders : encoder'[f].at = encoder[f].at /\ encoder'[f].buf = encoder[f].buf
  BY <1>3, Zenon
<1>8. OnePlace' /\ Allocated'
  <2>1. Taken' = Taken
    BY <1>1, Zenon DEF Taken
  <2> QED BY <1>1, <1>7, <2>1, PlacesShrink, Zenon
<1>9. ThreadsInv'
  <2>1. \A f \in Encoders : IF encoder'[f].at = "none" THEN encoder'[f] = NewEncoder
                            ELSE encoder'[f].buf \in Buffers
    BY <1>3, <1>4 DEF PictureInv, ThreadsInv
  <2> QED BY <1>1, <1>7, <2>1, Zenon DEF PictureInv, ThreadsInv, Returners
<1>10. StateInv'
  BY <1>1, <1>7, Zenon DEF PictureInv, StateInv
<1>11. \A x : x \notin Range(gEncoderQueue) => x \notin Range(gEncoderQueue')
  BY <1>5, Zenon DEF Range
<1>12. QueueInv'
  <2>1. \A c \in DOMAIN gEncoderQueue' : gEncoderQueue'[c] \in Encoders =>
           encoder'[gEncoderQueue'[c]].at # "none" /\ encoder'[gEncoderQueue'[c]].buf = c
    BY <1>5, <1>7 DEF PictureInv, QueueInv
  <2>2. frame.encoder \in Encoders =>
          /\ encoder'[frame.encoder].at # "none" /\ encoder'[frame.encoder].buf = frame.buf
          /\ frame.encoder \notin Range(gEncoderQueue')
    BY <1>7, <1>11, Zenon DEF PictureInv, QueueInv
  <2>3. at["notifier"] = "add" =>
          \A f \in Encoders \ {frame.encoder} : encoder'[f].at \in Reading => encoder'[f].buf # frame.buf
    BY <1>7, Zenon DEF PictureInv, QueueInv
  <2> QED BY <1>1, <2>1, <2>2, <2>3, Zenon DEF QueueInv
<1>13. LivesInv'
  <2> SUFFICES ASSUME NEW f \in Encoders, encoder'[f].fate = "clean"
               PROVE  Life(f)'
    BY <1>1, Zenon DEF LivesInv
  <2>1. CASE f = e
    <3>1. encoder[e].at = "encode" /\ encoder[e].fate = "clean"
      BY <1>3, <2>1, Zenon
    <3>2. Holdings(e, 0, 0)
      BY <1>4, <2>1, <3>1, Zenon DEF PictureInv, LivesInv, Life, Gone
    <3>3. e \notin Range(gEncoderQueue')
      BY <1>4, <1>5, <2>1 DEF PictureInv, QueueInv, Range
    <3> QED BY <1>1, <1>3, <1>4, <2>1, <3>1, <3>2, <3>3 DEF Life, Gone, Holdings
  <2>2. CASE f # e
    <3>1. Gone(f) => Gone(f)'
      BY <1>1, <1>11, Zenon DEF Gone
    <3>2. Entered(f) => Entered(f)'
      BY <1>3, <1>4, <1>5, <2>2 DEF Entered
    <3>3. encoder'[f] = encoder[f] /\ Life(f)
      BY <1>3, <2>2, Zenon DEF PictureInv, LivesInv
    <3> QED BY <1>1, <3>1, <3>2, <3>3, Zenon DEF Life, Holdings
  <2> QED BY <2>1, <2>2
<1> QED BY <1>6, <1>8, <1>9, <1>10, <1>12, <1>13, Zenon DEF PictureInv

(* It has cancelled them all. *)
LEMMA EncodersCancelledStep == PictureInv /\ EncodersCancelled => PictureInv'
<1> SUFFICES ASSUME PictureInv, EncodersCancelled PROVE PictureInv'
  OBVIOUS
<1>1. /\ at["app"] = "cancelEncoders" /\ DOMAIN gEncoderQueue = {}
      /\ encoder' = [e \in Encoders |->
            IF e = frame.encoder THEN [encoder[e] EXCEPT !.fate = "missed"] ELSE encoder[e]]
      /\ at' = [at EXCEPT !["app"] = "flush"]
      /\ UNCHANGED <<state, camera, mImageBufs, encodes, mNotifierStarted, mFrameQ, gEncoderQueue,
                     frame, lock, returning>>
  BY Zenon DEF EncodersCancelled, Goto, adapter
<1>2. /\ at \in [{"app", "notifier"} ->
              StopPhase \cup Owning \cup {"idle", "setBurst", "add", "skip", "send"}]
      /\ encoder \in [Encoders ->
           [at : Reading \cup {"none", "return"}, buf : Buffers \cup {None},
            mCancelEncoding : BOOLEAN, mem : Nat, exif : Nat,
            fate : {"clean", "early", "met", "missed"}]]
  BY DEF PictureInv, Types, ThreadTypes, EncoderTypes
<1>3. /\ at'["notifier"] = at["notifier"] /\ at'["app"] = "flush"
      /\ \A e \in Encoders : /\ encoder'[e].at = encoder[e].at /\ encoder'[e].buf = encoder[e].buf
                             /\ e # frame.encoder => encoder'[e] = encoder[e]
                             /\ e = frame.encoder => encoder'[e].fate = "missed"
  BY <1>1, <1>2
<1>4. Types'
  <2>1. ThreadTypes'
    BY <1>1, <1>2, Zenon DEF PictureInv, Types, ThreadTypes, StopPhase
  <2>2. EncoderTypes'
    <3> DEFINE R == [at : Reading \cup {"none", "return"}, buf : Buffers \cup {None},
                     mCancelEncoding : BOOLEAN, mem : Nat, exif : Nat,
                     fate : {"clean", "early", "met", "missed"}]
    <3>1. \A e \in Encoders : encoder[e] \in R
      BY <1>2
    <3>2. ASSUME NEW e \in Encoders PROVE [encoder[e] EXCEPT !.fate = "missed"] \in R
      BY <3>1
    <3> HIDE DEF R
    <3>3. encoder' \in [Encoders -> R]
      BY <1>1, <3>1, <3>2, Zenon
    <3> QED BY <1>1, <3>3, Zenon DEF PictureInv, Types, EncoderTypes, R
  <2> QED BY <1>1, <2>1, <2>2, Zenon DEF PictureInv, Types, AdapterTypes, QueueTypes
<1>5. OnePlace' /\ Allocated'
  <2>1. Taken' = Taken
    BY <1>1, <1>3, Zenon DEF Taken
  <2> QED BY <1>1, <1>3, <2>1, PlacesShrink, Zenon
<1>6. ThreadsInv'
  <2>1. \A e \in Encoders : IF encoder'[e].at = "none" THEN encoder'[e] = NewEncoder
                            ELSE encoder'[e].buf \in Buffers
    BY <1>3 DEF PictureInv, ThreadsInv, QueueInv
  <2>2. returning["app"].at = "no"
    BY <1>1, Zenon DEF PictureInv, ThreadsInv
  <2> QED BY <1>1, <1>3, <2>1, <2>2 DEF PictureInv, ThreadsInv, Returners
<1>7. StateInv'
  BY <1>1, <1>3, Zenon DEF PictureInv, StateInv, StopPhase
<1>8. QueueInv'
  BY <1>1, <1>3 DEF PictureInv, QueueInv
<1>9. LivesInv'
  <2> SUFFICES ASSUME NEW f \in Encoders, encoder'[f].fate = "clean"
               PROVE  Life(f)' /\ (encoder'[f].at \in Reading => encoder'[f].mCancelEncoding)
    BY Zenon DEF LivesInv
  <2>1. encoder'[f] = encoder[f] /\ f # frame.encoder /\ Life(f) /\ ~ Entered(f)
    BY <1>1, <1>3 DEF PictureInv, LivesInv, Entered
  <2>2. Gone(f) => Gone(f)'
    BY <1>1 DEF Gone
  <2> QED BY <2>1, <2>2, Zenon DEF Life, Holdings, Reading
<1> QED BY <1>4, <1>5, <1>6, <1>7, <1>8, <1>9 DEF PictureInv

(* forceStopPreview() goes on: it takes the notifier's lock for the        *)
(* frames in mFrameQ, leaves it, and asks for the adapter's state lock.    *)
LEMMA ForceStopStep ==
    ASSUME PictureInv, LockFlush \/ Flushed \/ Rollback
    PROVE  PictureInv'
<1>1. /\ at["app"] \in {"flush", "flushing", "rollback"} /\ returning["app"].at = "no"
      /\ UNCHANGED <<state, camera, mImageBufs, encodes, mNotifierStarted, mFrameQ, gEncoderQueue,
                     encoder, frame, returning>>
  BY Zenon DEF LockFlush, Flushed, Rollback, adapter, notifier, PictureInv, ThreadsInv
<1>2. PICK x \in {"flushing", "rollback", "stopping"} :
        /\ at' = [at EXCEPT !["app"] = x]
        /\ IF x = "stopping" THEN lock["state"] = None /\ lock' = [lock EXCEPT !["state"] = "app"]
           ELSE lock' \in {[lock EXCEPT !["notifier"] = "app"],
                           [l \in Locks |-> IF l \in {"notifier"} THEN None ELSE lock[l]]}
  BY Zenon DEF LockFlush, Flushed, Rollback, Goto, Owned, Released, Free
<1>3. /\ at \in [{"app", "notifier"} ->
              StopPhase \cup Owning \cup {"idle", "setBurst", "add", "skip", "send"}]
      /\ lock \in [Locks -> Threads \cup {None}]
  BY Zenon DEF PictureInv, Types, ThreadTypes
<1>4. /\ at'["notifier"] = at["notifier"] /\ at'["app"] = x
      /\ IF x = "stopping" THEN lock'["state"] = "app" ELSE lock'["state"] = lock["state"]
      /\ lock' \in [Locks -> Threads \cup {None}]
  BY <1>2, <1>3 DEF Locks, Threads
<1>5. Types'
  <2>1. ThreadTypes'
    BY <1>1, <1>2, <1>3, <1>4, Zenon DEF PictureInv, Types, ThreadTypes, StopPhase
  <2> QED BY <1>1, <2>1, Zenon DEF PictureInv, Types, AdapterTypes, QueueTypes, EncoderTypes
<1>6. OnePlace' /\ Allocated'
  <2>1. Taken' = Taken
    BY <1>1, <1>4, Zenon DEF Taken
  <2> QED BY <1>1, <2>1, PlacesShrink, Zenon
<1>7. ThreadsInv'
  BY <1>1, <1>4, Zenon DEF PictureInv, ThreadsInv, Returners
<1>8. StateInv'
  <2>1. x = "stopping" => \A t \in Threads : returning[t].at # "stopping"
    BY <1>2, NotifierAssumption, Zenon DEF PictureInv, StateInv, Threads
  <2> QED BY <1>1, <1>4, <2>1, Zenon DEF PictureInv, StateInv, StopPhase
<1>9. QueueInv' /\ LivesInv'
  BY <1>1, <1>4, LivesKept, Zenon
<1> QED BY <1>5, <1>6, <1>7, <1>8, <1>9, Zenon DEF PictureInv

(* A frame goes from mFrameQ into returnFrame(). *)
LEMMA FlushFrameStep == PictureInv /\ FlushFrame => PictureInv'
<1> SUFFICES ASSUME PictureInv, FlushFrame PROVE PictureInv'
  OBVIOUS
<1> DEFINE b == Head(mFrameQ).buf
<1>1. /\ at["app"] = "flushing" /\ returning["app"].at = "no" /\ mFrameQ # <<>>
      /\ mFrameQ' = Tail(mFrameQ)
      /\ returning' = [returning EXCEPT !["app"] = [at |-> "return", buf |-> b]]
      /\ UNCHANGED <<state, camera, mImageBufs, encodes, mNotifierStarted, gEncoderQueue, encoder,
                     frame, lock, at>>
  BY Zenon DEF FlushFrame, Returns, adapter
<1>2. /\ returning \in [Threads -> [at : {"no", "return", "end", "stopping"}, buf : Buffers \cup {None}]]
      /\ "app" \in Threads /\ mFrameQ \in Seq(Frames) /\ Distinct(mFrameQ)
  BY DEF PictureInv, Types, ThreadTypes, QueueTypes, Threads, OnePlace
<1>3. /\ mFrameQ' \in Seq(Frames) /\ Distinct(mFrameQ') /\ Head(mFrameQ) \in Frames
      /\ b \in InQueue /\ InQueue' = InQueue \ {b}
  BY <1>1, <1>2, TakenFrame, Zenon DEF InQueue
<1>4. b \in Buffers
  BY <1>3 DEF Frames
<1> HIDE DEF b
<1>5. /\ returning'["app"] = [at |-> "return", buf |-> b]
      /\ \A t \in Threads : t # "app" => returning'[t] = returning[t]
  BY <1>1, <1>2, Zenon
<1>6. Types'
  <2>1. ThreadTypes'
    BY <1>1, <1>2, <1>4, Zenon DEF PictureInv, Types, ThreadTypes
  <2> QED BY <1>1, <1>3, <2>1, Zenon DEF PictureInv, Types, AdapterTypes, QueueTypes, EncoderTypes
<1>7. /\ Taken' = Taken /\ Readers' = Readers /\ Read' = Read
      /\ Returners' = Returners \cup {"app"} /\ "app" \notin Returners
  BY <1>1, <1>2, <1>5 DEF Taken, Readers, Read, Returners
<1>8. /\ \A t \in Returners : returning'[t] = returning[t] /\ t \in Threads
      /\ Returned' = Returned \cup {b}
  BY <1>5, <1>7 DEF Returners, Returned
<1>9. OnePlace'
  <2>1. b \notin Returned
    BY <1>3, Zenon DEF PictureInv, OnePlace
  <2>2. \A t, u \in Returners' : returning'[t].buf = returning'[u].buf => t = u
    BY <1>5, <1>7, <1>8, <2>1 DEF PictureInv, OnePlace, Returned
  <2> QED BY <1>1, <1>3, <1>7, <1>8, <2>1, <2>2 DEF PictureInv, OnePlace
<1>10. Allocated'
  BY <1>1, <1>3, <1>7, <1>8, Zenon DEF PictureInv, Allocated
<1>11. ThreadsInv'
  <2>1. \A t \in Returners' : returning'[t].buf \in Buffers
    BY <1>4, <1>5, <1>7, <1>8 DEF PictureInv, ThreadsInv
  <2>2. \A e \in Encoders : returning'[e] = returning[e]
    BY <1>5, NotifierAssumption DEF Threads
  <2>3. returning'["notifier"] = returning["notifier"]
    BY <1>5, Zenon DEF Threads
  <2> QED BY <1>1, <2>1, <2>2, <2>3, Zenon DEF PictureInv, ThreadsInv
<1>12. StateInv'
  BY <1>1, <1>5 DEF PictureInv, StateInv
<1>13. QueueInv' /\ LivesInv'
  BY <1>1, LivesKept, Zenon
<1> QED BY <1>6, <1>9, <1>10, <1>11, <1>12, <1>13, Zenon DEF PictureInv

(* The adapter is rolled back, and has no buffers any more. *)
LEMMA RolledBackStep == PictureInv /\ RolledBack => PictureInv'
<1> SUFFICES ASSUME PictureInv, RolledBack PROVE PictureInv'
  OBVIOUS
<1>1. /\ at["app"] = "stopping" /\ at' = [at EXCEPT !["app"] = "idle"]
      /\ state' = "initialised" /\ camera' = {} /\ encodes' = FALSE
      /\ lock' = [l \in Locks |-> IF l \in {"state"} THEN None ELSE lock[l]]
      /\ UNCHANGED <<mImageBufs, mNotifierStarted, mFrameQ, gEncoderQueue, encoder, frame, returning>>
  BY Zenon DEF RolledBack, Goto, Released, notifier
<1>2. /\ at \in [{"app", "notifier"} ->
              StopPhase \cup Owning \cup {"idle", "setBurst", "add", "skip", "send"}]
      /\ lock \in [Locks -> Threads \cup {None}]
  BY Zenon DEF PictureInv, Types, ThreadTypes
<1>3. at'["notifier"] = at["notifier"] /\ at'["app"] = "idle"
  BY <1>1, <1>2, Zenon
<1>4. Types'
  <2>1. ThreadTypes'
    BY <1>1, <1>2, Zenon DEF PictureInv, Types, ThreadTypes
  <2> QED BY <1>1, <2>1, Zenon DEF PictureInv, Types, AdapterTypes, QueueTypes, EncoderTypes
<1>5. OnePlace' /\ Allocated'
  <2>1. Taken' = Taken
    BY <1>1, <1>3, Zenon DEF Taken
  <2> QED BY <1>1, <2>1, PlacesShrink, Zenon
<1>6. ThreadsInv'
  BY <1>1, <1>3, Zenon DEF PictureInv, ThreadsInv, Returners
<1>7. StateInv'
  <2>1. \A t \in Threads : returning[t].at # "stopping"
    BY <1>1, Zenon DEF PictureInv, StateInv, ThreadsInv
  <2> QED BY <1>1, <1>3, <2>1, Zenon DEF PictureInv, StateInv, StopPhase
<1>8. QueueInv' /\ LivesInv'
  BY <1>1, <1>3, LivesKept, Zenon
<1> QED BY <1>4, <1>5, <1>6, <1>7, <1>8 DEF PictureInv


-----------------------------------------------------------------------------
(* Every step keeps the invariant. *)
LEMMA NextPicture == ASSUME AppWaits, PictureInv, [Next]_vars PROVE PictureInv'
<1>1. CASE AppCall
  <2>1. CASE ChangeCaptureSettings
    BY <2>1, CameraStepKeeps, Zenon DEF ChangeCaptureSettings, AppIdle, threads
  <2> QED BY <1>1, <2>1, StartPreviewStep, TakePictureStep, CancelPictureStep, StopNotifierStep, Zenon
          DEF AppCall
<1>2. CASE AppStep
  <2>1. ASSUME NEW n \in Bursts, NEW encode \in BOOLEAN, StartImageCapture(n, encode) PROVE PictureInv'
    BY <2>1, StartImageCaptureStep, Zenon
  <2>2. ASSUME NEW b \in Buffers, CancelEncoder(b) PROVE PictureInv'
    BY <2>2, CancelEncoderStep, Zenon
  <2>3. CASE LockFlush \/ Flushed \/ Rollback
    BY <2>3, ForceStopStep, Zenon
  <2> QED BY <1>2, <2>1, <2>2, <2>3, EncodersCancelledStep, FlushFrameStep, RolledBackStep, Zenon
          DEF AppStep
<1>3. CASE NotifierStep
  <2>1. CASE AskMsgType \/ LockBurst
    BY <2>1, WaitForLockStep, Zenon
  <2>2. CASE StartCopy \/ Copied
    BY <2>2, BeginCopyStep, ReturnCopyStep, Zenon
  <2> QED BY <1>3, <2>1, <2>2, NotifyFrameStep, RunEncoderStep, AddEncoderStep, SendCopyStep, Zenon
          DEF NotifierStep
<1>4. ASSUME NEW e \in Encoders, EncoderStep(e) PROVE PictureInv'
  <2>1. CASE Encode(e) \/ BuildPicture(e) \/ TestEnabled(e) \/ SendPicture(e) \/ TestStarted(e)
    BY <2>1, EncodingStep, Zenon
  <2>2. CASE ReleaseEncoder(e)
    BY <2>2, ReleaseEncoderStep
  <2>3. CASE EncoderExits(e)
    BY <2>3, EncoderExitsStep
  <2> QED BY <1>4, <2>1, <2>2, <2>3, Zenon DEF EncoderStep
<1>5. ASSUME NEW t \in Threads, ReturnStep(t) PROVE PictureInv'
  <2>1. CASE ReturnFrame(t)
    BY <2>1, ReturnFrameStep, Zenon
  <2>2. CASE StopImageCapture(t)
    BY <2>2, StopCaptureStep, Zenon
  <2>3. CASE ImageCaptureStopped(t)
    BY <2>3, CaptureStoppedStep
  <2> QED BY <1>5, <2>1, <2>2, <2>3, Zenon DEF ReturnStep
<1>6. ASSUME NEW b \in Buffers, FillBufferDone(b) \/ DropFrame(b) PROVE PictureInv'
  <2>1. CASE FillBufferDone(b)
    BY <2>1, FillStep
  <2>2. CASE DropFrame(b)
    BY <2>2, CameraStepKeeps, Zenon DEF DropFrame, threads
  <2> QED BY <1>6, <2>1, <2>2, Zenon
<1>7. CASE UNCHANGED vars
  BY <1>7, CameraStepKeeps DEF vars, adapter, threads
<1> QED BY <1>1, <1>2, <1>3, <1>4, <1>5, <1>6, <1>7, Zenon DEF Next, CameraStep

(* The invariant holds of every execution in which the application lets    *)
(* each picture come to its end before it takes the next or changes the    *)
(* capture settings.                                                       *)
THEOREM PictureInvariant == ASSUME AppWaits PROVE Spec => []PictureInv
<1>1. PictureInv /\ [Next]_vars => PictureInv'
  BY NextPicture
<1> QED BY <1>1, InitPicture, PTL DEF Spec

(* What an encoder holds is released once, by its callback or by stop(),   *)
(* unless it meets one of the races EncoderHoldings names.                 *)
THEOREM HoldingsReleasedOnce == ASSUME AppWaits PROVE Spec => []EncoderHoldings
<1>1. ASSUME PictureInv PROVE EncoderHoldings
  <2>1. ASSUME NEW e \in Encoders, encoder[e].fate = "clean"
        PROVE  /\ encoder[e].mem \in {0, 1} /\ encoder[e].exif \in {0, 1}
               /\ encoder[e].at \in {"test", "release"} => Entered(e)
               /\ encoder[e].at = "return" \/ encoder[e].mCancelEncoding => Holdings(e, 1, 1) /\ Gone(e)
    <3>1. /\ Life(e)
          /\ encoder[e].at = "none" => encoder[e].mem = 0 /\ encoder[e].exif = 0 /\ ~ encoder[e].mCancelEncoding
      BY <1>1, <2>1 DEF PictureInv, LivesInv, ThreadsInv, NewEncoder
    <3> QED BY <3>1, Zenon DEF Life, Holdings
  <2> QED BY <2>1 DEF EncoderHoldings, Entered, Gone, Holdings
<1> QED BY <1>1, PictureInvariant, PTL

(* Neither the camera nor a change of the capture settings touches a       *)
(* picture that the notifier's thread copies or an encoder reads.          *)
THEOREM PictureSourceStays == ASSUME AppWaits PROVE Spec => []SourceStays
<1>1. ASSUME PictureInv PROVE SourceStays
  <2>1. at["notifier"] = "copy" => frame.buf \in Taken
    BY Zenon DEF Taken, Owning
  <2>2. \A e \in Encoders : encoder[e].at = "encode" => encoder[e].buf \in Read
    BY DEF Read, Readers, Reading
  <2> QED BY <1>1, <2>1, <2>2, Zenon DEF PictureInv, OnePlace, Allocated, SourceStays
<1> QED BY <1>1, PictureInvariant, PTL
=============================================================================
