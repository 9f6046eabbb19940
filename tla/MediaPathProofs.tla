--------------------------- MODULE MediaPathProofs ---------------------------
(***************************************************************************)
(* Proofs about RtmpStream, for every frame size of the encoder, every     *)
(* size of the staging buffer that SizeAssumption admits, and any number   *)
(* of Init calls, of frames and of PCM bytes, under any caller that keeps  *)
(* to its protocol; and about MediaPath: the handler keeps to it, for      *)
(* every frame and every size, so that what holds of any caller holds of   *)
(* the program's own.                                                      *)
(***************************************************************************)
EXTENDS MediaPath, TLAPS

-----------------------------------------------------------------------------
(* The inductive invariant.                                                *)

(* A header is written by the last Init only, for it then is the last.     *)
HeaderInv == header # {} => /\ life = "alive" => m_bIsPushing
                            /\ header = {inits}

(* What the last Init made is still pointed to and will be freed.          *)
LastInv == life = "alive" =>
             \A m \in Members :
               <<m, inits>> \in live => ptr[m] = inits /\ Freed(m)

IInv == /\ TypeOK
        /\ PushingIsReady
        /\ AudioClock
        /\ HeaderInv
        /\ LastInv
        /\ HeaderGetsTrailer
        /\ PublishedIsSafe
        /\ LastInitIsFreed

(* Facts about the order in which Init sets the members.                   *)
LEMMA Steps ==
  /\ \A m \in Members : SetBy[m] \in 1..WriteHeader
  /\ \A passed \in Int : passed >= WriteHeader =>
       \A m \in Members : SetBy[m] <= passed
  /\ {"oc", "video_enc", "audio_enc"} \subseteq Members
  /\ SetBy["oc"] = AllocContext
  /\ \A m \in Members : m = "video_enc" => SetBy[m] >= AddVideo
  /\ \A m \in Members : m \in {"audio_enc", "frame", "tmp_frame", "swr_ctx"}
                          => SetBy[m] >= AddAudio
BY DEF Members, SetBy, AllocContext, AddVideo, AddAudio, OpenVideo, OpenAudio,
       FillRaw, FillConvert, AllocSwr, InitSwr, OpenIo, WriteHeader

(* The constructor sets up the invariant.                                  *)
LEMMA InitInv == Init => IInv
<1> SUFFICES ASSUME Init PROVE IInv
  OBVIOUS
<1>1. TypeOK
  <2>1. /\ inits \in 0..MaxInits /\ ptsInc \in 0..MaxFrames
        /\ received \in 0..MaxPcm /\ pcmencodesize \in Nat
        /\ next_pts \in Nat /\ samples_count \in 0..next_pts
    BY SizeAssumption DEF Init
  <2>2. ptr \in [Members -> 0..inits]
    BY DEF Init
  <2>3. live = {} /\ header = {} /\ trailer = {}
    BY DEF Init
  <2>4. have_video \in BOOLEAN /\ have_audio \in BOOLEAN
        /\ m_bIsPushing \in BOOLEAN
    BY DEF Init
  <2>5. fmt \in {"unset", "flv"} /\ life \in {"alive", "destroyed", "crashed"}
    BY DEF Init
  <2> QED BY <2>1, <2>2, <2>3, <2>4, <2>5 DEF TypeOK
<1>2. PushingIsReady /\ HeaderInv /\ LastInv /\ HeaderGetsTrailer
      /\ PublishedIsSafe /\ LastInitIsFreed
  BY DEF Init, PushingIsReady, HeaderInv, LastInv, HeaderGetsTrailer,
     PublishedIsSafe, LastInitIsFreed
<1>3. AudioClock
  BY SizeAssumption DEF Init, AudioClock, iRawBuffSize
<1> QED BY <1>1, <1>2, <1>3 DEF IInv

(* Init keeps the invariant at whichever step it stops, and after          *)
(* whatever earlier calls have left.                                       *)
LEMMA InitStreamInv ==
  ASSUME IInv, NEW passed \in 0..WriteHeader, InitStream(passed)
  PROVE  IInv'
<1> USE DEF IInv
<1>0. /\ inits \in Nat /\ inits' = inits + 1 /\ inits' <= MaxInits
      /\ passed \in Int /\ MaxInits \in Nat
  BY SizeAssumption DEF InitStream, CallInit, MayInit, Pushes, TypeOK,
     WriteHeader
<1>1. ptr' \in [Members -> 0..inits']
  BY <1>0 DEF InitStream, CallInit, MayInit, Pushes, TypeOK
<1>2. live' \subseteq Members \X (1..inits')
  BY <1>0 DEF InitStream, CallInit, MayInit, Pushes, TypeOK
<1>3. header' \subseteq 1..inits' /\ trailer' \subseteq 1..inits'
  BY <1>0 DEF InitStream, CallInit, MayInit, Pushes, TypeOK
<1>4. TypeOK'
  BY <1>0, <1>1, <1>2, <1>3 DEF InitStream, CallInit, MayInit, Pushes,
     TypeOK, audio
<1>5. header = {}
  BY DEF InitStream, CallInit, MayInit, Pushes, HeaderInv
<1>6. HeaderInv' /\ HeaderGetsTrailer' /\ PublishedIsSafe' /\ LastInitIsFreed'
  BY <1>5 DEF InitStream, CallInit, MayInit, Pushes, HeaderInv,
     HeaderGetsTrailer,
     PublishedIsSafe,
     LastInitIsFreed
<1>7. PushingIsReady'
  <2>1. CASE passed >= WriteHeader
    <3>1. \A m \in Members : ptr'[m] = inits'
      BY <1>0, <2>1, Steps DEF InitStream, CallInit, MayInit, Pushes
    <3>2. inits' \in header'
      BY <2>1 DEF InitStream, CallInit, MayInit, Pushes
    <3>3. passed >= AddVideo /\ passed >= AddAudio
      BY <1>0, <2>1 DEF WriteHeader, AddVideo, AddAudio
    <3>4. have_video' /\ have_audio'
      BY <3>3 DEF InitStream, CallInit, MayInit, Pushes
    <3> QED BY <3>1, <3>2, <3>4 DEF PushingIsReady
  <2>2. CASE ~(passed >= WriteHeader)
    BY <2>2 DEF InitStream, CallInit, MayInit, Pushes, PushingIsReady
  <2> QED BY <2>1, <2>2
<1>8. LastInv'
  <2> SUFFICES ASSUME NEW m \in Members, <<m, inits'>> \in live'
               PROVE  ptr'[m] = inits' /\ Freed(m)'
    BY DEF LastInv
  <2>1. <<m, inits'>> \notin live
    BY <1>0 DEF TypeOK
  <2>2. SetBy[m] <= passed
    BY <2>1 DEF InitStream, CallInit, MayInit, Pushes
  <2>3. /\ m = "video_enc" => passed >= AddVideo
        /\ m \in {"audio_enc", "frame", "tmp_frame", "swr_ctx"}
             => passed >= AddAudio
    BY <1>0, <2>2, Steps DEF AddVideo, AddAudio, WriteHeader
  <2>4. Freed(m)'
    BY <2>3 DEF InitStream, CallInit, MayInit, Pushes, Freed
  <2> QED BY <2>2, <2>4 DEF InitStream, CallInit, MayInit, Pushes
<1>9. AudioClock'
  BY DEF InitStream, CallInit, MayInit, Pushes, AudioClock, audio
<1> QED BY <1>4, <1>6, <1>7, <1>8, <1>9

(* A call of write_audio_frame touches only the staging and the clocks.    *)
LEMMA AudioInv ==
  ASSUME IInv, NEW n \in AudioLens,
         WriteAudioFrame(n)
  PROVE  IInv'
<1> USE DEF IInv
<1>0. StageAudio(n) \/ EncodeAudio(n) \/ ConvertFails(n)
  BY DEF WriteAudioFrame, CallWriteAudio
<1>1. UNCHANGED <<context, ptsInc>> /\ received' = received + n
      /\ received' <= MaxPcm
  BY <1>0 DEF StageAudio, EncodeAudio, ConvertFails, TakeAudio, Arrive
<1>2. /\ n \in Nat /\ n <= iRawBuffSize /\ nb_samples \in Nat \ {0}
      /\ iRawBuffSize = 2 * nb_samples /\ MaxPcm \in Nat
  BY SizeAssumption DEF iRawBuffSize
<1>3. /\ pcmencodesize \in Nat /\ next_pts \in Nat /\ received \in Nat
      /\ samples_count \in 0..next_pts
  BY <1>2 DEF TypeOK
<1>4. AudioClock' /\ pcmencodesize' \in Nat
  <2>1. CASE StageAudio(n)
    BY <1>1, <1>2, <1>3, <2>1 DEF StageAudio, AudioClock, iRawBuffSize
  <2>2. CASE EncodeAudio(n) \/ ConvertFails(n)
    BY <1>1, <1>2, <1>3, <2>2
       DEF EncodeAudio, ConvertFails, TakeAudio, AudioClock, iRawBuffSize
  <2> QED BY <1>0, <2>1, <2>2
<1>5. next_pts' \in Nat /\ samples_count' \in 0..next_pts'
  BY <1>0, <1>2, <1>3 DEF StageAudio, EncodeAudio, ConvertFails, TakeAudio
<1>6. received' \in 0..MaxPcm
  BY <1>1, <1>2, <1>3
<1>7. TypeOK'
  BY <1>1, <1>4, <1>5, <1>6 DEF TypeOK, context
<1>8. PushingIsReady' /\ HeaderInv' /\ LastInv' /\ HeaderGetsTrailer'
      /\ PublishedIsSafe' /\ LastInitIsFreed'
  BY <1>1 DEF context, PushingIsReady, HeaderInv, LastInv, Freed,
     HeaderGetsTrailer, PublishedIsSafe, LastInitIsFreed
<1> QED BY <1>4, <1>7, <1>8

(* The destructor ends and frees what the last Init began.                 *)
LEMMA DestroyInv == ASSUME IInv, Destroy \/ DestroyCrashes PROVE IInv'
<1> USE DEF IInv
<1>1. /\ UNCHANGED <<inits, ptr, fmt, have_video, have_audio, header, audio,
                     ptsInc>>
      /\ life = "alive" /\ life' \in {"destroyed", "crashed"}
  BY DEF Destroy, CallDestroy, DestroyCrashes, CallDestroyCrashes
<1>b. (m_bIsPushing' => m_bIsPushing) /\ m_bIsPushing' \in BOOLEAN
  <2>1. m_bIsPushing \in BOOLEAN
    BY DEF TypeOK
  <2>2. m_bIsPushing' = FALSE \/ m_bIsPushing' = m_bIsPushing
    BY DEF Destroy, CallDestroy, DestroyCrashes, CallDestroyCrashes
  <2>3. CASE m_bIsPushing' = FALSE
    BY <2>3
  <2>4. CASE m_bIsPushing' = m_bIsPushing
    BY <2>1, <2>4, Zenon
  <2> QED BY <2>2, <2>3, <2>4
<1>2. /\ trailer' \subseteq 1..inits /\ live' \subseteq live
  <2>1. ptr["oc"] \in 0..inits /\ inits \in Nat
    BY Steps, SizeAssumption DEF TypeOK
  <2>2. trailer' \subseteq trailer \cup ({ptr["oc"]} \ {0})
    BY DEF Destroy, CallDestroy, DestroyCrashes, CallDestroyCrashes
  <2>3. live' \subseteq live
    BY DEF Destroy, CallDestroy, DestroyCrashes, CallDestroyCrashes
  <2>4. trailer \subseteq 1..inits
    BY DEF TypeOK
  <2> QED BY <2>1, <2>2, <2>3, <2>4
<1>3. TypeOK'
  BY <1>1, <1>b, <1>2 DEF TypeOK, audio
<1>4. PushingIsReady' /\ AudioClock' /\ HeaderInv' /\ LastInv'
  BY <1>1, <1>b DEF audio, PushingIsReady, AudioClock, HeaderInv, LastInv
<1>5. header # {} => ptr["oc"] = inits /\ header = {inits} /\ inits # 0
  BY <1>1, Steps DEF HeaderInv, PushingIsReady, TypeOK
<1>6. CASE Destroy
  <2>1. HeaderGetsTrailer' /\ PublishedIsSafe'
    BY <1>1, <1>5, <1>6 DEF Destroy, CallDestroy, HeaderGetsTrailer,
       PublishedIsSafe
  <2>2. LastInitIsFreed'
    BY <1>1, <1>6 DEF Destroy, CallDestroy, LastInv, LastInitIsFreed
  <2> QED BY <1>3, <1>4, <2>1, <2>2
<1>7. CASE DestroyCrashes
  <2>1. PublishedIsSafe'
    BY <1>1, <1>5, <1>7 DEF DestroyCrashes, CallDestroyCrashes,
       PublishedIsSafe, NullContextRead,
       TrailerWithoutHeader
  <2>2. HeaderGetsTrailer' /\ LastInitIsFreed'
    BY <1>7 DEF DestroyCrashes, CallDestroyCrashes, HeaderGetsTrailer,
       LastInitIsFreed
  <2> QED BY <1>3, <1>4, <2>1, <2>2
<1> QED BY <1>6, <1>7

(* Every operation of the stream keeps the invariant.                      *)
LEMMA NextInv == IInv /\ [Next]_vars => IInv'
<1> SUFFICES ASSUME IInv, [Next]_vars PROVE IInv'
  OBVIOUS
<1>1. CASE WriteVideoFrame
  <2>1. TypeOK'
    BY <1>1, SizeAssumption DEF IInv, WriteVideoFrame, CallWriteVideo,
       context, audio, TypeOK
  <2>2. PushingIsReady' /\ AudioClock' /\ HeaderInv' /\ LastInv'
        /\ HeaderGetsTrailer' /\ PublishedIsSafe' /\ LastInitIsFreed'
    BY <1>1 DEF IInv, WriteVideoFrame, CallWriteVideo, context, audio,
       PushingIsReady,
       AudioClock, HeaderInv, LastInv, Freed, HeaderGetsTrailer,
       PublishedIsSafe, LastInitIsFreed
  <2> QED BY <2>1, <2>2 DEF IInv
<1>2. CASE UNCHANGED vars
  BY <1>2 DEF IInv, vars, TypeOK, PushingIsReady, AudioClock, HeaderInv,
     LastInv, Freed, HeaderGetsTrailer, PublishedIsSafe, LastInitIsFreed
<1> QED BY <1>1, <1>2, InitStreamInv, AudioInv, DestroyInv DEF Next, Gone

-----------------------------------------------------------------------------
(* The inductive invariant of the stream holds in every reachable state.   *)
THEOREM Invariance == Spec => []IInv
BY InitInv, NextInv, PTL DEF Spec

(* Every variable keeps its type; no pointer is newer than the last Init.  *)
THEOREM TypeCorrect == Spec => []TypeOK
<1>1. IInv => TypeOK
  BY DEF IInv
<1> QED BY <1>1, Invariance, PTL

(* A stream that pushes is made by one Init.                               *)
THEOREM PushingStreamIsReady == Spec => []PushingIsReady
<1>1. IInv => PushingIsReady
  BY DEF IInv
<1> QED BY <1>1, Invariance, PTL

(* The audio clock and the staging buffer account for every byte of PCM.   *)
THEOREM AudioClockIsExact == Spec => []AudioClock
<1>1. IInv => AudioClock
  BY DEF IInv
<1> QED BY <1>1, Invariance, PTL

(* The staging buffer never overflows.                                     *)
THEOREM StagingNeverOverflows == Spec => []StagingFits
<1>1. IInv => StagingFits
  BY SizeAssumption DEF IInv, AudioClock, StagingFits, TypeOK, iRawBuffSize
<1> QED BY <1>1, Invariance, PTL

(* A stream that has begun is ended.                                       *)
THEOREM BegunStreamsEnd == Spec => []HeaderGetsTrailer
<1>1. IInv => HeaderGetsTrailer
  BY DEF IInv
<1> QED BY <1>1, Invariance, PTL

(* Destroying a stream that was published cannot crash the process.        *)
THEOREM PublishedStreamsAreSafe == Spec => []PublishedIsSafe
<1>1. IInv => PublishedIsSafe
  BY DEF IInv
<1> QED BY <1>1, Invariance, PTL

(* The destructor undoes the last Init wherever that stopped.              *)
THEOREM DestructorFreesLastInit == Spec => []LastInitIsFreed
<1>1. IInv => LastInitIsFreed
  BY DEF IInv
<1> QED BY <1>1, Invariance, PTL

-----------------------------------------------------------------------------
(* The handler.                                                            *)

(* Where the handler is tells what the stream is ready for, what the codec *)
(* holds, and how much of the PCM it has yet to hand over.                 *)
HandlerInv ==
  /\ pc \in {"idle", "Init", "Write", "WritePcm", "overrun"}
  /\ pc = "Init" => life = "alive" /\ ~m_bIsPushing
  /\ pc \in {"Write", "WritePcm"} => life = "alive" /\ m_bIsPushing
  /\ pc # "overrun" => m_nOutBufLen \in 0..OutBytes

OwedInv ==
  /\ received \in Int /\ owed \in Int
  /\ pc = "WritePcm" => owed = received + m_nOutBufLen
  /\ pc # "WritePcm" => owed = received

(* The length is zero only as the number of samples of the last frame.     *)
CodecInv ==
  /\ Codec!TypeOK
  /\ lastSamples \in {-1} \cup Nat
  /\ life = "alive" /\ pc # "overrun" =>
       /\ m_pOutBuf = "held"
       /\ m_nOutBufLen = 0 <=> lastSamples = 0
  /\ LeakOnlyAfterEmptyFrame

FrameInv == frame \in FrameRecords \cup {NoFrame}

PathInv == FrameInv /\ HandlerInv /\ OwedInv /\ CodecInv

-----------------------------------------------------------------------------
(* A frame whose samples fit comes to as many bytes of PCM as the codec    *)
(* says, and to no more than its buffer has.                               *)
LEMMA PcmFits ==
  ASSUME frame.len \in Int, Samples \in 0..OutBytes \div 2
  PROVE  /\ Codec!PcmBytes(Type, frame.len) = 2 * Samples
         /\ 2 * Samples \in 0..OutBytes
<1>1. OutBytes \in Nat
  BY PathAssumption
<1>2. 2 * (OutBytes \div 2) <= OutBytes /\ OutBytes \div 2 \in Nat
  BY <1>1
<1>3. Samples \in Int /\ 0 <= Samples /\ Samples <= OutBytes \div 2
  BY <1>2
<1>4. 2 * Samples \in 0..OutBytes
  BY <1>1, <1>2, <1>3
<1>5. Codec!PcmBytes(Type, frame.len) = 2 * Samples
  BY DEF Codec!PcmBytes, Samples
<1> QED
  BY <1>4, <1>5

(* A frame in hand has a length.                                           *)
LEMMA FrameLength == FrameInv => frame.len \in Int
BY DEF FrameInv, FrameRecords, NoFrame

(* A new decoder has a stream that does not push and an empty handler.     *)
LEMMA PathInitInv == PathInit => PathInv
<1> SUFFICES ASSUME PathInit PROVE PathInv
  OBVIOUS
<1>1. FrameInv /\ HandlerInv /\ OwedInv
  BY PathAssumption DEF PathInit, Init, Codec!Init, FrameInv, HandlerInv,
     OwedInv
<1>2. CodecInv
  BY PathAssumption DEF PathInit, Init, Codec!Init, Codec!TypeOK, Codec!Types,
     CodecInv, LeakOnlyAfterEmptyFrame
<1> QED
  BY <1>1, <1>2 DEF PathInv

(* What a call of the stream leaves alone.                                 *)
LEMMA CallsKeep ==
  /\ \A passed \in 0..WriteHeader :
       CallInit(passed) => UNCHANGED <<life, received>>
  /\ CallWriteVideo => UNCHANGED <<life, m_bIsPushing, received>>
  /\ \A n : CallWriteAudio(n) =>
       UNCHANGED <<life, m_bIsPushing>> /\ received' = received + n
  /\ CallDestroy => life' = "destroyed" /\ received' = received
  /\ CallDestroyCrashes => life' = "crashed" /\ received' = received
<1>1. \A passed \in 0..WriteHeader :
        CallInit(passed) => UNCHANGED <<life, received>>
  BY DEF CallInit, audio
<1>2. CallWriteVideo => UNCHANGED <<life, m_bIsPushing, received>>
  BY DEF CallWriteVideo, context, audio
<1>3. \A n : CallWriteAudio(n) =>
        UNCHANGED <<life, m_bIsPushing>> /\ received' = received + n
  BY DEF CallWriteAudio, StageAudio, EncodeAudio, ConvertFails, TakeAudio,
     Arrive, context
<1>4. CallDestroy => life' = "destroyed" /\ received' = received
  BY DEF CallDestroy, audio
<1>5. CallDestroyCrashes => life' = "crashed" /\ received' = received
  BY DEF CallDestroyCrashes, audio
<1> QED
  BY <1>1, <1>2, <1>3, <1>4, <1>5

(* Every step of the handler keeps the invariant.                          *)
LEMMA PathNextInv == PathInv /\ [PathNext]_pathVars => PathInv'
<1> SUFFICES ASSUME PathInv, [PathNext]_pathVars PROVE PathInv'
  OBVIOUS
<1> USE DEF PathInv
<1>0. Type \in Codec!Types
  BY DEF Type, Codec!AudioType, Codec!Types
<1>1. ASSUME NEW f \in Frames, OnFrame(f) PROVE PathInv'
  <2>1. /\ pc = "idle" /\ life = "alive" /\ UNCHANGED <<vars, codec, history>>
        /\ pc' = IF m_bIsPushing THEN "Write" ELSE "Init"
        /\ frame' = f /\ f \in FrameRecords
    BY <1>1, PathAssumption DEF OnFrame, stream
  <2>2. UNCHANGED <<life, m_bIsPushing, received, m_nOutBufLen, m_eType,
                    m_pOutBuf, owed, lastSamples>>
    BY <2>1 DEF vars, codec, history
  <2> QED
    BY <2>1, <2>2 DEF FrameInv, HandlerInv, OwedInv, CodecInv,
       Codec!TypeOK, LeakOnlyAfterEmptyFrame
<1>2. ASSUME NEW passed \in 0..WriteHeader, InitStreams(passed) PROVE PathInv'
  <2>1. /\ pc = "Init" /\ UNCHANGED <<life, received, codec, history>>
        /\ \/ m_bIsPushing' /\ pc' = "Write" /\ frame' = frame
           \/ ~m_bIsPushing' /\ pc' = "idle" /\ frame' = NoFrame
    BY <1>2, CallsKeep DEF InitStreams, WriteOnceInited, HandlerReturns
  <2>2. UNCHANGED <<m_nOutBufLen, m_eType, m_pOutBuf, owed, lastSamples>>
    BY <2>1 DEF codec, history
  <2> QED
    BY <2>1, <2>2 DEF FrameInv, HandlerInv, OwedInv, CodecInv,
       Codec!TypeOK, LeakOnlyAfterEmptyFrame
<1>3. CASE WriteVideo
  <2>1. /\ pc = "Write" /\ pc' = "idle" /\ frame' = NoFrame
        /\ UNCHANGED <<life, m_bIsPushing, received, codec, history>>
    BY <1>3, CallsKeep DEF WriteVideo, HandlerReturns
  <2>2. UNCHANGED <<m_nOutBufLen, m_eType, m_pOutBuf, owed, lastSamples>>
    BY <2>1 DEF codec, history
  <2> QED
    BY <2>1, <2>2 DEF FrameInv, HandlerInv, OwedInv, CodecInv,
       Codec!TypeOK, LeakOnlyAfterEmptyFrame
<1>4. CASE DecodeAudio
  <2>1. /\ pc = "Write" /\ pc' = "WritePcm" /\ UNCHANGED <<vars, frame>>
        /\ owed' = owed + 2 * Samples /\ lastSamples' = Samples
        /\ Samples \in 0..OutBytes \div 2
        /\ m_nOutBufLen' = Codec!PcmBytes(Type, frame.len)
        /\ m_eType' = Type /\ m_pOutBuf' = m_pOutBuf
    BY <1>4 DEF DecodeAudio, stream, Codec!DecodeAudio, Codec!Decode,
       Codec!Unsupported
  <2>2. m_nOutBufLen' = 2 * Samples /\ 2 * Samples \in 0..OutBytes
    BY <2>1, FrameLength, PcmFits
  <2>3. UNCHANGED <<life, m_bIsPushing, received>>
    BY <2>1 DEF vars
  <2>4. Samples \in Nat /\ OutBytes \in Nat
    <3>1. OutBytes \in Nat
      BY PathAssumption
    <3> QED
      BY <2>1, <3>1
  <2>5. FrameInv' /\ HandlerInv' /\ OwedInv'
    BY <2>1, <2>2, <2>3, <2>4 DEF FrameInv, HandlerInv, OwedInv
  <2>6. m_nOutBufLen' \in Int /\ (m_nOutBufLen' = 0 <=> lastSamples' = 0)
    BY <2>1, <2>2, <2>4
  <2>7. life' = "alive"
    BY <2>1, <2>3 DEF HandlerInv
  <2> QED
    BY <1>0, <2>1, <2>3, <2>4, <2>5, <2>6, <2>7
       DEF HandlerInv, CodecInv, Codec!TypeOK, LeakOnlyAfterEmptyFrame
<1>5. CASE DecodeOverruns
  <2>1. /\ pc = "Write" /\ pc' = "overrun" /\ UNCHANGED <<vars, frame, history>>
        /\ m_nOutBufLen' = Codec!PcmBytes(Type, frame.len)
        /\ m_eType' = Type /\ m_pOutBuf' = m_pOutBuf
    BY <1>5 DEF DecodeOverruns, stream, Codec!DecodeAudio, Codec!Decode,
       Codec!Unsupported
  <2>2. m_nOutBufLen' \in Int
    BY <2>1, FrameLength DEF Codec!PcmBytes
  <2>3. UNCHANGED <<life, m_bIsPushing, received, owed, lastSamples>>
    BY <2>1 DEF vars, history
  <2> QED
    BY <1>0, <2>1, <2>2, <2>3 DEF FrameInv, HandlerInv, OwedInv, CodecInv,
       Codec!TypeOK, LeakOnlyAfterEmptyFrame
<1>6. CASE UnsupportedAudio
  <2>1. /\ pc = "Write" /\ pc' = "idle" /\ frame' = NoFrame
        /\ UNCHANGED <<vars, history, m_nOutBufLen, m_pOutBuf>>
        /\ m_eType' = Type
    BY <1>6 DEF UnsupportedAudio, HandlerReturns, stream, Codec!DecodeAudio,
       Codec!Decode, Codec!Unsupported
  <2>2. UNCHANGED <<life, m_bIsPushing, received, owed, lastSamples>>
    BY <2>1 DEF vars, history
  <2> QED
    BY <1>0, <2>1, <2>2 DEF FrameInv, HandlerInv, OwedInv, CodecInv,
       Codec!TypeOK, LeakOnlyAfterEmptyFrame
<1>7. CASE WritePcm
  <2>1. /\ pc = "WritePcm" /\ pc' = "idle" /\ frame' = NoFrame
        /\ UNCHANGED <<life, m_bIsPushing, codec, history>>
        /\ received' = received + m_nOutBufLen
    BY <1>7, CallsKeep DEF WritePcm, HandlerReturns
  <2>2. UNCHANGED <<m_nOutBufLen, m_eType, m_pOutBuf, owed, lastSamples>>
    BY <2>1 DEF codec, history
  <2> QED
    BY <2>1, <2>2 DEF FrameInv, HandlerInv, OwedInv, CodecInv,
       Codec!TypeOK, LeakOnlyAfterEmptyFrame
<1>8. CASE DropEntry
  <2>1. /\ pc = "idle" /\ life = "alive" /\ life' = "destroyed"
        /\ UNCHANGED <<received, handler, history>>
        /\ m_nOutBufLen' = 0 /\ m_eType' = m_eType
        /\ m_pOutBuf' = IF m_nOutBufLen # 0 THEN "freed" ELSE m_pOutBuf
    BY <1>8, CallsKeep DEF DropEntry, Codec!Free
  <2>2. UNCHANGED <<pc, frame, owed, lastSamples>>
    BY <2>1 DEF handler, history
  <2>3. m_nOutBufLen' \in 0..OutBytes
    BY <2>1, PathAssumption
  <2> QED
    BY <2>1, <2>2, <2>3 DEF FrameInv, HandlerInv, OwedInv, CodecInv,
       Codec!TypeOK, LeakOnlyAfterEmptyFrame
<1>9. CASE DropEntryCrashes
  <2>1. /\ pc = "idle" /\ life = "alive" /\ life' = "crashed"
        /\ UNCHANGED <<received, codec, handler, history>>
    BY <1>9, CallsKeep DEF DropEntryCrashes
  <2>2. UNCHANGED <<pc, frame, owed, lastSamples, m_nOutBufLen, m_eType,
                    m_pOutBuf>>
    BY <2>1 DEF handler, history, codec
  <2> QED
    BY <2>1, <2>2 DEF FrameInv, HandlerInv, OwedInv, CodecInv,
       Codec!TypeOK, LeakOnlyAfterEmptyFrame
<1>10. CASE UNCHANGED pathVars
  <2>1. UNCHANGED <<pc, frame, owed, lastSamples, m_nOutBufLen, m_eType,
                    m_pOutBuf, life, m_bIsPushing, received>>
    BY <1>10 DEF pathVars, vars
  <2> QED
    BY <2>1 DEF FrameInv, HandlerInv, OwedInv, CodecInv,
       Codec!TypeOK, LeakOnlyAfterEmptyFrame
<1> QED
  BY <1>1, <1>2, <1>3, <1>4, <1>5, <1>6, <1>7, <1>8, <1>9, <1>10
     DEF PathNext, Ended

(* The inductive invariant of the handler holds in every reachable state.  *)
THEOREM PathInvariance == PathSpec => []PathInv
BY PathInitInv, PathNextInv, PTL DEF PathSpec

-----------------------------------------------------------------------------
(* Each step of the handler is a call the stream is ready for, or none.    *)
LEMMA PathRefines == PathInv /\ [PathNext]_pathVars => [Next]_vars
<1> SUFFICES ASSUME PathInv, [PathNext]_pathVars PROVE [Next]_vars
  OBVIOUS
<1> USE DEF PathInv
<1>1. ASSUME NEW f \in Frames, OnFrame(f) PROVE UNCHANGED vars
  BY <1>1 DEF OnFrame, stream
<1>2. ASSUME NEW passed \in 0..WriteHeader, InitStreams(passed) PROVE Next
  <2>1. InitStream(passed)
    BY <1>2 DEF InitStreams, InitStream, MayInit, HandlerInv
  <2> QED
    BY <2>1 DEF Next
<1>3. CASE WriteVideo
  BY <1>3 DEF WriteVideo, WriteVideoFrame, Writing, HandlerInv, Next
<1>4. CASE DecodeAudio \/ DecodeOverruns \/ UnsupportedAudio
  BY <1>4 DEF DecodeAudio, DecodeOverruns, UnsupportedAudio, stream
<1>5. CASE WritePcm
  <2>1. m_nOutBufLen \in AudioLens
    BY <1>5, PathAssumption DEF WritePcm, HandlerInv
  <2>2. WriteAudioFrame(m_nOutBufLen)
    BY <1>5 DEF WritePcm, WriteAudioFrame, Writing, HandlerInv
  <2> QED
    BY <2>1, <2>2 DEF Next
<1>6. CASE DropEntry \/ DropEntryCrashes
  BY <1>6 DEF DropEntry, DropEntryCrashes, Destroy, DestroyCrashes, Next
<1>7. CASE UNCHANGED pathVars
  BY <1>7 DEF pathVars
<1> QED
  BY <1>1, <1>2, <1>3, <1>4, <1>5, <1>6, <1>7 DEF PathNext, Ended

(* The handler with its codec is a caller RtmpStream allows for.           *)
THEOREM PathImplementsRtmpStream == PathSpec => ImplementsRtmpStream
<1>1. PathInit => Init
  BY DEF PathInit
<1> QED
  BY <1>1, PathRefines, PathInvariance, PTL
     DEF PathSpec, ImplementsRtmpStream, Spec

(* The audio clock of the program's own stream is exact.                   *)
THEOREM PathAudioClock == PathSpec => []AudioClock
BY PathImplementsRtmpStream, AudioClockIsExact DEF ImplementsRtmpStream

(* The staging buffer has room for whatever the codec delivers.            *)
THEOREM PathStagingFits == PathSpec => []StagingFits
BY PathImplementsRtmpStream, StagingNeverOverflows DEF ImplementsRtmpStream

(* Whatever the frames, the stream is handed the PCM they came to.         *)
THEOREM PathHandsOverAllPcm == PathSpec => []PcmOfFrames
<1>1. PathInv => PcmOfFrames
  BY DEF PathInv, OwedInv, PcmOfFrames
<1> QED
  BY <1>1, PathInvariance, PTL

(* The composition keeps its types: among them, that the clock of what was *)
(* encoded stays behind what was taken, that the length CCodec keeps from  *)
(* frame to frame is within its buffer until a frame overruns that, and    *)
(* that the stream has all the PCM decoded but what one buffer may hold.   *)
THEOREM PathTypeCorrect == PathSpec => []PathTypeOK
<1>1. TypeOK /\ PathInv => PathTypeOK
  <2> SUFFICES ASSUME TypeOK, PathInv PROVE PathTypeOK
    OBVIOUS
  <2>1. received \in 0..MaxPcm /\ MaxPcm \in Nat /\ OutBytes \in Nat
    BY SizeAssumption, PathAssumption DEF TypeOK
  <2>2. owed \in received..received + OutBytes
    BY <2>1 DEF PathInv, OwedInv, HandlerInv
  <2> QED
    BY <2>2 DEF PathInv, FrameInv, HandlerInv, CodecInv, PathTypeOK
<1>2. PathSpec => []TypeOK
  BY PathImplementsRtmpStream, TypeCorrect DEF ImplementsRtmpStream
<1> QED
  BY <1>1, <1>2, PathInvariance, PTL

(* ~CCodec leaves its buffer behind only after a frame without samples.    *)
THEOREM PathLeaksOnlyAfterEmptyFrame == PathSpec => []LeakOnlyAfterEmptyFrame
<1>1. PathInv => LeakOnlyAfterEmptyFrame
  BY DEF PathInv, CodecInv
<1> QED
  BY <1>1, PathInvariance, PTL
=============================================================================
