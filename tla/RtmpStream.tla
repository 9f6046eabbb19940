----------------------------- MODULE RtmpStream -----------------------------
(***************************************************************************)
(* CRtmpStream as the handler of one connection uses it: Init on the first *)
(* frame and again on every later one while it has not succeeded, then     *)
(* WriteData for every frame, and the destructor when the connection's     *)
(* Entry is dropped, which may be at any time between two calls.  What the *)
(* calls do (Call...) is kept apart from when they may be made, for        *)
(* MediaPath to show that the handler keeps to it.                         *)
(*                                                                         *)
(* FFmpeg is external: each of its calls may fail.  An object it allocates *)
(* is named by the member that points to it and the number of the Init     *)
(* call that made it, so that an object no member points to any more can   *)
(* still be spoken of.                                                     *)
(***************************************************************************)
EXTENDS Integers

CONSTANTS
  nb_samples,      \* frame_size of the AAC encoder
  StagingBytes,    \* sizeof(pcmencodebuf)
  AudioLens,       \* lengths of the PCM that CCodec delivers in one call
  MaxInits,        \* bound: calls of Init
  MaxPcm,          \* bound: bytes of PCM written
  MaxFrames        \* bound: video frames written

iRawBuffSize == 2 * nb_samples         \* one channel of 16-bit samples

ASSUME SizeAssumption ==
  /\ nb_samples \in Nat \ {0}
  /\ StagingBytes \in Nat
  /\ MaxInits \in Nat /\ MaxPcm \in Nat /\ MaxFrames \in Nat
  /\ \A n \in AudioLens : /\ n \in Nat
                          /\ n <= iRawBuffSize
                          /\ iRawBuffSize + n <= StagingBytes

VARIABLES
  inits,           \* calls of Init so far
  ptr,             \* the Init call that set a member, 0 for NULL
  live,            \* objects allocated and not freed
  fmt,             \* "unset": the constructor leaves it uninitialised
  have_video,
  have_audio,
  m_bIsPushing,
  header,          \* Init calls whose context got its header written
  trailer,         \* Init calls whose context got its trailer written
  life,            \* "crashed": the destructor did not survive
  pcmencodesize,
  next_pts,        \* of audio_st
  samples_count,   \* of audio_st
  ptsInc,
  received         \* history: bytes of PCM handed to write_audio_frame

context == <<inits, ptr, live, fmt, have_video, have_audio, m_bIsPushing,
             header, trailer, life>>
audio == <<pcmencodesize, next_pts, samples_count, received>>
vars == <<inits, ptr, live, fmt, have_video, have_audio, m_bIsPushing, header,
          trailer, life, pcmencodesize, next_pts, samples_count, ptsInc,
          received>>

-----------------------------------------------------------------------------
(* The steps of Init that can fail, in their order.                        *)
AllocContext == 1
AddVideo == 2
AddAudio == 3
OpenVideo == 4
OpenAudio == 5
FillRaw == 6
FillConvert == 7
AllocSwr == 8
InitSwr == 9
OpenIo == 10
WriteHeader == 11

(* The step after which a member points to an object of this call.  pb     *)
(* lies in the context that oc points to.                                  *)
SetBy == [oc |-> AllocContext, video_enc |-> AddVideo, audio_enc |-> AddAudio,
          pRawBuff |-> OpenAudio, tmp_frame |-> OpenAudio,
          pConvertBuff |-> FillRaw, frame |-> FillRaw,
          swr_ctx |-> AllocSwr, pb |-> OpenIo]
Members == DOMAIN SetBy

(* Members that are NULL when the call ends after `passed` of its steps:   *)
(* an allocation that fails is assigned too, and a new context has no pb.  *)
Nulled(m, passed) == \/ m \in {"oc", "swr_ctx"} /\ SetBy[m] = passed + 1
                     \/ m = "pb"

(* What the members may hold; among it that the clock of what was encoded  *)
(* never passes that of what was taken.                                    *)
TypeOK ==
  /\ inits \in 0..MaxInits
  /\ ptr \in [Members -> 0..inits]
  /\ live \subseteq Members \X (1..inits)
  /\ fmt \in {"unset", "flv"}
  /\ have_video \in BOOLEAN
  /\ have_audio \in BOOLEAN
  /\ m_bIsPushing \in BOOLEAN
  /\ header \subseteq 1..inits
  /\ trailer \subseteq 1..inits
  /\ life \in {"alive", "destroyed", "crashed"}
  /\ pcmencodesize \in Nat
  /\ next_pts \in Nat
  /\ samples_count \in 0..next_pts
  /\ ptsInc \in 0..MaxFrames
  /\ received \in 0..MaxPcm

(* The constructor.                                                        *)
Init ==
  /\ inits = 0
  /\ ptr = [m \in Members |-> 0]
  /\ live = {}
  /\ fmt = "unset"
  /\ have_video = FALSE
  /\ have_audio = FALSE
  /\ m_bIsPushing = FALSE
  /\ header = {}
  /\ trailer = {}
  /\ life = "alive"
  /\ pcmencodesize = 0
  /\ next_pts = 0
  /\ samples_count = 0
  /\ ptsInc = 0
  /\ received = 0

-----------------------------------------------------------------------------
(* The handler calls Init while GetPushState() is false.                   *)
MayInit == life = "alive" /\ ~m_bIsPushing

(* m_bIsPushing is set after the last step.                                *)
PushesBeforeHeader(passed) == passed >= OpenIo       \* faulty variant
Pushes(passed) == passed >= WriteHeader

(* CRtmpStream::Init, which returns at the first step that fails and       *)
(* releases nothing.                                                       *)
CallInit(passed) ==
  /\ inits < MaxInits
  /\ inits' = inits + 1
  /\ ptr' = [m \in Members |-> IF SetBy[m] <= passed THEN inits'
                               ELSE IF Nulled(m, passed) THEN 0
                               ELSE ptr[m]]
  /\ live' = live \cup {m \in Members : SetBy[m] <= passed} \X {inits'}
  /\ fmt' = IF passed >= AllocContext THEN "flv" ELSE fmt
  /\ have_video' = (have_video \/ passed >= AddVideo)
  /\ have_audio' = (have_audio \/ passed >= AddAudio)
  /\ header' = header \cup (IF passed >= WriteHeader THEN {inits'} ELSE {})
  /\ m_bIsPushing' = Pushes(passed)
  /\ UNCHANGED <<trailer, life, audio, ptsInc>>

InitStream(passed) == MayInit /\ CallInit(passed)

-----------------------------------------------------------------------------
(* WriteData.  A failure is reported to the handler, which half-closes the *)
(* connection but may well come back with more.                            *)
Writing == life = "alive" /\ m_bIsPushing

CallWriteVideo ==
  /\ ptsInc < MaxFrames
  /\ ptsInc' = ptsInc + 1
  /\ UNCHANGED <<context, audio>>

WriteVideoFrame == Writing /\ CallWriteVideo

(* Staging PCM until there is a frame for the encoder.                     *)
Arrive(datalen) ==
  /\ received + datalen <= MaxPcm
  /\ received' = received + datalen
  /\ UNCHANGED <<context, ptsInc>>

(* Faulty variant: > for >= in the test for a full frame.                  *)
StageWholeFrame(datalen) ==
  /\ Arrive(datalen)
  /\ pcmencodesize + datalen <= iRawBuffSize
  /\ pcmencodesize' = pcmencodesize + datalen
  /\ UNCHANGED <<next_pts, samples_count>>

StageAudio(datalen) ==
  /\ Arrive(datalen)
  /\ pcmencodesize + datalen < iRawBuffSize
  /\ pcmencodesize' = pcmencodesize + datalen
  /\ UNCHANGED <<next_pts, samples_count>>

(* Faulty variant: the time stamp is not moved on.                         *)
TakeAudioKeepsPts(datalen) ==
  /\ Arrive(datalen)
  /\ pcmencodesize + datalen >= iRawBuffSize
  /\ pcmencodesize' = pcmencodesize + datalen - iRawBuffSize
  /\ next_pts' = next_pts

(* One frame leaves the staging buffer, whether resampling, encoding and   *)
(* writing it succeed or not.                                              *)
TakeAudio(datalen) ==
  /\ Arrive(datalen)
  /\ pcmencodesize + datalen >= iRawBuffSize
  /\ pcmencodesize' = pcmencodesize + datalen - iRawBuffSize
  /\ next_pts' = next_pts + nb_samples

EncodeAudio(datalen) ==
  /\ TakeAudio(datalen)
  /\ samples_count' = samples_count + nb_samples

ConvertFails(datalen) ==
  /\ TakeAudio(datalen)
  /\ UNCHANGED samples_count

CallWriteAudio(datalen) == \/ StageAudio(datalen)
                           \/ EncodeAudio(datalen)
                           \/ ConvertFails(datalen)

WriteAudioFrame(datalen) == Writing /\ CallWriteAudio(datalen)

-----------------------------------------------------------------------------
(* The destructor.  fmt is read though Init may never have set it, and     *)
(* oc->pb is read through oc though oc may be NULL.  FFmpeg promises       *)
(* nothing of a trailer without a header.                                  *)
NullContextRead == ptr["oc"] = 0
FmtIsSet == fmt = "flv"
TrailerWithoutHeader == ptr["oc"] # 0 /\ ptr["oc"] \notin header

(* Faulty variant: close_stream leaves the resampler alone.                *)
FreedButSwr(m) == /\ m # "swr_ctx"
                  /\ m = "video_enc" => have_video
                  /\ m \in {"audio_enc", "frame", "tmp_frame"} => have_audio

(* close_stream is called for a stream that add_stream has set up.         *)
Freed(m) == /\ m = "video_enc" => have_video
            /\ m \in {"audio_enc", "frame", "tmp_frame", "swr_ctx"}
                 => have_audio

CallDestroy ==
  /\ ~(NullContextRead /\ FmtIsSet)
  /\ life' = "destroyed"
  /\ trailer' = trailer \cup ({ptr["oc"]} \ {0})
  /\ live' = live \ {<<m, ptr[m]>> : m \in {n \in Members : Freed(n)}}
  /\ m_bIsPushing' = FALSE
  /\ UNCHANGED <<inits, ptr, fmt, have_video, have_audio, header, audio, ptsInc>>

Destroy == life = "alive" /\ CallDestroy

(* An uninitialised fmt may be NULL, and then Destroy is what happens, or  *)
(* anything else.                                                          *)
CallDestroyCrashes ==
  /\ NullContextRead \/ TrailerWithoutHeader
  /\ life' = "crashed"
  /\ UNCHANGED <<inits, ptr, live, fmt, have_video, have_audio, m_bIsPushing,
                 header, trailer, audio, ptsInc>>

DestroyCrashes == life = "alive" /\ CallDestroyCrashes

-----------------------------------------------------------------------------
Gone == life # "alive" /\ UNCHANGED vars

Next == \/ \E passed \in 0..WriteHeader : InitStream(passed)
        \/ WriteVideoFrame
        \/ \E n \in AudioLens : WriteAudioFrame(n)
        \/ Destroy \/ DestroyCrashes
        \/ Gone

Spec == Init /\ [][Next]_vars

-----------------------------------------------------------------------------
(* While GetPushState() is true everything WriteData uses was made by one  *)
(* and the same Init, the last, whatever earlier calls left behind.        *)
PushingIsReady ==
  m_bIsPushing => /\ \A m \in Members : ptr[m] = inits
                  /\ inits \in header
                  /\ have_video /\ have_audio

(* The audio clock counts exactly the PCM that was handed over and is not  *)
(* staged any more: draining one frame per call is enough, and a failure   *)
(* to convert, encode or send does not move the staging out of step.       *)
AudioClock ==
  /\ received = 2 * next_pts + pcmencodesize
  /\ pcmencodesize < iRawBuffSize

(* The staging buffer has room for whatever comes next.                    *)
StagingFits == \A n \in AudioLens : pcmencodesize + n <= StagingBytes

(* A stream that has begun is ended: a context with a header gets its      *)
(* trailer before the destructor returns.                                  *)
HeaderGetsTrailer == life = "destroyed" => header \subseteq trailer

(* The destruction of a stream that reached the RTMP server is safe: only  *)
(* one that never did can take the process down.                           *)
PublishedIsSafe == life = "crashed" => header = {}

(* However far the last Init came, the destructor frees all it allocated.  *)
LastInitIsFreed ==
  life = "destroyed" => \A m \in Members : <<m, inits>> \notin live

(* CRtmpStream.cpp:37, "Close each codec.", which the code does not keep.  *)
EachCodecClosed ==
  life = "destroyed" =>
    \A k \in 1..inits : /\ <<"video_enc", k>> \notin live
                        /\ <<"audio_enc", k>> \notin live
=============================================================================
