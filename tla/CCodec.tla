------------------------------- MODULE CCodec -------------------------------
(***************************************************************************)
(* CCodec: the audio decoders of a connection and their one result, in     *)
(* which m_nOutBufLen is at first the size of m_pOutBuf, then the length   *)
(* of the last PCM, and in the end what the destructor takes for the sign  *)
(* of a buffer to free.                                                    *)
(***************************************************************************)
EXTENDS Integers

CONSTANT OutBytes         \* 2048; MediaPath assumes of it what is needed

VARIABLES m_nOutBufLen, m_eType,
          m_pOutBuf       \* "held", "freed"

result == <<m_nOutBufLen, m_eType, m_pOutBuf>>

Types == {"eG711A", "eG711U", "eAdpcm", "eUnSupport"}

TypeOK == /\ m_nOutBufLen \in Int
          /\ m_eType \in Types
          /\ m_pOutBuf \in {"held", "freed"}

Init == /\ m_nOutBufLen = OutBytes
        /\ m_eType = "eUnSupport"
        /\ m_pOutBuf = "held"

(* The coding of the packet as CDecoder::DecodeAudio hands it on.          *)
AudioType(coding) == IF coding \in Types THEN coding ELSE "eUnSupport"

(* Two bytes for a code, and an ADPCM frame has two codes in a byte once   *)
(* the 8 bytes of decoder state are taken off.                             *)
PcmBytes(type, n) == IF type = "eAdpcm" THEN 4 * (n - 8) ELSE 2 * n

Decode(type, n) ==
  /\ type # "eUnSupport"
  /\ m_nOutBufLen' = PcmBytes(type, n)
  /\ m_eType' = type
  /\ UNCHANGED m_pOutBuf

(* Faulty variant: there is no PCM of the frame, so its length is zero.    *)
DecodeNothing(type) ==
  /\ type = "eUnSupport"
  /\ m_nOutBufLen' = 0
  /\ m_eType' = type
  /\ UNCHANGED m_pOutBuf

(* The length is left as it was.                                           *)
Unsupported(type) ==
  /\ type = "eUnSupport"
  /\ m_eType' = type
  /\ UNCHANGED <<m_nOutBufLen, m_pOutBuf>>

DecodeAudio(type, n) == Decode(type, n) \/ Unsupported(type)

(* ~CCodec                                                                 *)
Free == /\ m_pOutBuf' = IF m_nOutBufLen # 0 THEN "freed" ELSE m_pOutBuf
        /\ m_nOutBufLen' = 0
        /\ UNCHANGED m_eType
=============================================================================
