----------------------------- MODULE MediaPath -----------------------------
(***************************************************************************)
(* The way of a finished frame from __OnMessage to the RTMP stream: Init   *)
(* while the stream is not pushing, then WriteDataToStream, which hands a  *)
(* video frame to CRtmpStream as it is and an audio frame by way of        *)
(* CCodec; and ~CDecoder, which deletes both once no handler is running.   *)
(*                                                                         *)
(* It composes RtmpStream and CCodec.  The handler's program counter takes *)
(* the place of the guards of RtmpStream, and ImplementsRtmpStream says    *)
(* that it never makes a call those would have forbidden.                  *)
(*                                                                         *)
(* A decoded frame that does not fit the buffer of CCodec, or has a        *)
(* negative length, ends in undefined behaviour and is followed no further.*)
(***************************************************************************)
EXTENDS RtmpStream

CONSTANTS OutBytes,      \* of the buffer of CCodec
          Frames         \* finished frames the terminal may send

CodingTypes == {"eH264", "eAdpcm", "eG711A", "eG711U"}
NoFrame == [media |-> "none", coding |-> "eH264", len |-> 0]
FrameRecords == [media : {"video", "audio"}, coding : CodingTypes, len : Nat]

(* 2048 bytes of PCM at most, an encoder frame of 2 * 1024 and a staging   *)
(* buffer of 4096 satisfy this and SizeAssumption.                         *)
ASSUME PathAssumption == /\ OutBytes \in Nat \ {0}
                         /\ AudioLens = 0..OutBytes
                         /\ Frames \subseteq FrameRecords

VARIABLES
  m_nOutBufLen, m_eType, m_pOutBuf,
  pc,              \* of the handler; "overrun": memory is overwritten
  frame,           \* the frame it has in hand
  owed,            \* history: PCM the audio frames handed over came to
  lastSamples      \* history: samples of the last one decoded, -1 for none

Codec == INSTANCE CCodec

stream == <<vars>>
codec == <<m_nOutBufLen, m_eType, m_pOutBuf>>
handler == <<pc, frame>>
history == <<owed, lastSamples>>
pathVars == <<vars, m_nOutBufLen, m_eType, m_pOutBuf, pc, frame, owed,
              lastSamples>>

(* Until a frame overruns it, what CCodec says it holds fits its buffer;   *)
(* and the stream is never behind by more than one such buffer of PCM.     *)
PathTypeOK == /\ TypeOK
              /\ Codec!TypeOK
              /\ pc \in {"idle", "Init", "Write", "WritePcm", "overrun"}
              /\ frame \in FrameRecords \cup {NoFrame}
              /\ pc # "overrun" => m_nOutBufLen \in 0..OutBytes
              /\ owed \in received..received + OutBytes
              /\ lastSamples \in {-1} \cup Nat

PathInit == /\ Init
            /\ Codec!Init
            /\ pc = "idle"
            /\ frame = NoFrame
            /\ owed = 0
            /\ lastSamples = -1

-----------------------------------------------------------------------------
(* Faulty variant: the handler does not ask whether the stream pushes.     *)
OnFrameInits(f) ==
  /\ pc = "idle"
  /\ life = "alive"
  /\ inits < MaxInits
  /\ frame' = f
  /\ pc' = "Init"
  /\ UNCHANGED <<stream, codec, history>>

(* Decode has finished a frame.                                            *)
OnFrame(f) ==
  /\ pc = "idle"
  /\ life = "alive"
  /\ m_bIsPushing \/ inits < MaxInits
  /\ f.media = "video" => ptsInc < MaxFrames
  /\ f.media = "audio" => received + OutBytes <= MaxPcm
  /\ frame' = f
  /\ pc' = IF m_bIsPushing THEN "Write" ELSE "Init"
  /\ UNCHANGED <<stream, codec, history>>

HandlerReturns == pc' = "idle" /\ frame' = NoFrame

(* Faulty variant: a failed Init is not noticed.                           *)
WriteNext == pc' = "Write" /\ UNCHANGED frame

WriteOnceInited == \/ m_bIsPushing' /\ pc' = "Write" /\ UNCHANGED frame
                   \/ ~m_bIsPushing' /\ HandlerReturns

InitStreams(passed) ==
  /\ pc = "Init"
  /\ CallInit(passed)
  /\ WriteOnceInited
  /\ UNCHANGED <<codec, history>>

WriteVideo ==
  /\ pc = "Write"
  /\ frame.media = "video"
  /\ CallWriteVideo
  /\ HandlerReturns
  /\ UNCHANGED <<codec, history>>

Type == Codec!AudioType(frame.coding)
Samples == IF Type = "eAdpcm" THEN 2 * (frame.len - 8) ELSE frame.len

(* DecodeAudio of a frame that the buffer can take.                        *)
DecodeAudio ==
  /\ pc = "Write"
  /\ frame.media = "audio"
  /\ Type # "eUnSupport"
  /\ Samples \in 0..OutBytes \div 2
  /\ Codec!DecodeAudio(Type, frame.len)
  /\ pc' = "WritePcm"
  /\ owed' = owed + 2 * Samples
  /\ lastSamples' = Samples
  /\ UNCHANGED <<stream, frame>>

DecodeOverruns ==
  /\ pc = "Write"
  /\ frame.media = "audio"
  /\ Type # "eUnSupport"
  /\ Samples \notin 0..OutBytes \div 2
  /\ Codec!DecodeAudio(Type, frame.len)
  /\ pc' = "overrun"
  /\ UNCHANGED <<stream, frame, history>>

(* Faulty variant: what is in the buffer is written all the same.          *)
StaleAudio ==
  /\ pc = "Write"
  /\ frame.media = "audio"
  /\ Type = "eUnSupport"
  /\ Codec!DecodeAudio(Type, frame.len)
  /\ pc' = "WritePcm"
  /\ UNCHANGED <<stream, frame, history>>

(* An audio frame that claims to be H.264 is given up.                     *)
UnsupportedAudio ==
  /\ pc = "Write"
  /\ frame.media = "audio"
  /\ Type = "eUnSupport"
  /\ Codec!DecodeAudio(Type, frame.len)
  /\ HandlerReturns
  /\ UNCHANGED <<stream, history>>

WritePcm ==
  /\ pc = "WritePcm"
  /\ CallWriteAudio(m_nOutBufLen)
  /\ HandlerReturns
  /\ UNCHANGED <<codec, history>>

(* ~CDecoder, when the connection's Entry is dropped.                      *)
DropEntry ==
  /\ pc = "idle"
  /\ life = "alive"
  /\ CallDestroy
  /\ Codec!Free
  /\ UNCHANGED <<handler, history>>

DropEntryCrashes ==
  /\ pc = "idle"
  /\ life = "alive"
  /\ CallDestroyCrashes
  /\ UNCHANGED <<codec, handler, history>>

-----------------------------------------------------------------------------
Ended == (pc = "overrun" \/ life # "alive") /\ UNCHANGED pathVars

PathNext == \/ \E f \in Frames : OnFrame(f)
            \/ \E passed \in 0..WriteHeader : InitStreams(passed)
            \/ WriteVideo
            \/ DecodeAudio \/ DecodeOverruns \/ UnsupportedAudio \/ WritePcm
            \/ DropEntry \/ DropEntryCrashes
            \/ Ended

PathSpec == PathInit /\ [][PathNext]_pathVars

-----------------------------------------------------------------------------
(* The handler makes no call that the stream is not ready for: no Init     *)
(* once it pushes, no write before, none once it is deleted, and no PCM of *)
(* a length the staging buffer was not laid out for.                       *)
ImplementsRtmpStream == Spec

(* The stream is handed exactly the samples of the audio frames, though    *)
(* every one of them goes through the one result of CCodec, which keeps    *)
(* the length of an earlier frame when it meets a coding it does not know. *)
PcmOfFrames == pc = "idle" => received = owed

(* The buffer of CCodec outlives the connection exactly when the last      *)
(* audio frame that was decoded had no samples.                            *)
LeakOnlyAfterEmptyFrame ==
  life = "destroyed" => (m_pOutBuf = "held" <=> lastSamples = 0)
=============================================================================
