---------------------------- MODULE VideoSession ----------------------------
(***************************************************************************)
(* One terminal connection as the event loop that owns it serves it: the   *)
(* input Buffer of muduo, the CDecoder of the connection's Entry, and      *)
(* CRealTimeVideoServer::__OnMessage, which feeds the one to the other and *)
(* writes every finished frame to the RTMP stream.                         *)
(*                                                                         *)
(* A handler runs to completion on its loop: bytes join the Buffer only    *)
(* while pc = "idle".  Its steps are the parser phases, so that each       *)
(* return of Decode and each assertion is a state of the model.            *)
(*                                                                         *)
(* conn->shutdown() of muduo closes the sending half only: the handler     *)
(* goes on being called with what the terminal sends afterwards.  The      *)
(* RTMP stream is abstract here: Init and WriteData may fail at any time.  *)
(***************************************************************************)
EXTENDS JT1078Wire, Sequences

LOCAL INSTANCE Functions

VARIABLES
  stream,         \* what this terminal sends
  arrived,        \* bytes the loop has read from the socket so far
  pos,            \* bytes the decoder has taken out of the Buffer so far
  m_iRecvLen,     \* the decoder wants more than this many readable bytes
  m_eCurrentStat,
  m_eSubMarke,
  m_eDataType,
  m_eSkip,
  m_eErr,
  m_eCodingType,
  m_iHeader,      \* offset of the last packet whose first part was accepted
  m_sData,        \* the bodies gathered, each named by its packet's offset
  m_bIsPushing,   \* CRtmpStream::GetPushState()
  shutdown,       \* conn->shutdown() has been called
  pc,             \* where the handler is
  sent            \* frames written to the RTMP stream

parser == <<m_iRecvLen, m_eSkip, m_iHeader>>
kind == <<m_eSubMarke, m_eDataType, m_eCodingType>>
io == <<stream, arrived>>
vars == <<stream, arrived, pos, m_iRecvLen, m_eCurrentStat, m_eSubMarke,
          m_eDataType, m_eSkip, m_eErr, m_eCodingType, m_iHeader, m_sData,
          m_bIsPushing, shutdown, pc, sent>>

Readable == arrived - pos
More == Readable > m_iRecvLen
Pkt == stream.pkt[pos]             \* the packet whose mark is next
Hdr == stream.pkt[m_iHeader]       \* the packet being parsed

Writes == [frame : Seq(Nat), media : {"video", "audio"}, coding : CodingTypes]

Media == IF m_eDataType \in VideoTypes THEN "video" ELSE "audio"

(* What the decoder and the handler may hold.  In particular no byte is    *)
(* taken out of the Buffer that has not come.                              *)
TypeOK ==
  /\ stream \in Streams
  /\ arrived \in 0..stream.len
  /\ pos \in 0..arrived
  /\ m_iRecvLen \in Nat
  /\ m_eCurrentStat \in {"eInit", "eReceiving", "eCompleted"}
  /\ m_eSubMarke \in SubMarks
  /\ m_eDataType \in DataTypes
  /\ m_eSkip \in {"eSkipNon", "eSkipPaser16", "eSkipPaserTheRestData"}
  /\ m_eErr \in {"eNoError", "eMarkeError", "eTypeError", "eLengthError",
                 "eCodingTypeError"}
  /\ m_eCodingType \in CodingTypes
  /\ m_iHeader \in Nat
  /\ m_sData \in Seq(Nat)
  /\ m_bIsPushing \in BOOLEAN
  /\ shutdown \in BOOLEAN
  /\ pc \in {"idle", "Decode", "ParseRest", "Dispatch", "aborted", "crashed",
             "closed"}
  /\ sent \in Seq(Writes)

Init ==
  /\ stream \in Streams
  /\ arrived = 0
  /\ pos = 0
  /\ m_iRecvLen = sm_nFirstReceiveBytes
  /\ m_eCurrentStat = "eInit"
  /\ m_eSubMarke = "eFirst"
  /\ m_eDataType = "eVideoI"
  /\ m_eSkip = "eSkipNon"
  /\ m_eErr = "eNoError"
  /\ m_eCodingType = "eH264"
  /\ m_iHeader = 0
  /\ m_sData = <<>>
  /\ m_bIsPushing = FALSE
  /\ shutdown = FALSE
  /\ pc = "idle"
  /\ sent = <<>>

-----------------------------------------------------------------------------
(* The socket: the loop reads what has come and calls __OnMessage.         *)
OnMessage ==
  /\ pc = "idle"
  /\ \E n \in (arrived + 1)..stream.len : arrived' = n
  /\ pc' = "Decode"
  /\ UNCHANGED <<stream, pos, parser, m_eCurrentStat, kind, m_eErr, m_sData,
                 m_bIsPushing, shutdown, sent>>

(* The terminal closes: the loop calls __OnConnection, never __OnMessage.  *)
PeerCloses ==
  /\ pc = "idle"
  /\ pc' = "closed"
  /\ UNCHANGED <<io, pos, parser, m_eCurrentStat, kind, m_eErr, m_sData,
                 m_bIsPushing, shutdown, sent>>

-----------------------------------------------------------------------------
(* CDecoder::Decode                                                        *)

(* The loop is left for want of bytes and Decode returns true.             *)
DecodeDone ==
  /\ pc = "Decode"
  /\ ~More
  /\ pc' = "Dispatch"
  /\ UNCHANGED <<io, pos, parser, m_eCurrentStat, kind, m_eErr, m_sData,
                 m_bIsPushing, shutdown, sent>>

(* assert(m_eErr == eNoError), the first line of DecodeHeader and of       *)
(* DecodeBody: an error left by an earlier call ends the process.          *)
AbortInDecode ==
  /\ pc = "Decode"
  /\ More
  /\ m_eErr # "eNoError"
  /\ pc' = "aborted"
  /\ UNCHANGED <<io, pos, parser, m_eCurrentStat, kind, m_eErr, m_sData,
                 m_bIsPushing, shutdown, sent>>

(* The loop body begins by dropping what an earlier frame left behind.     *)
ClearedData == IF m_eCurrentStat = "eInit" THEN <<>> ELSE m_sData

AtHeader == /\ pc = "Decode"
            /\ More
            /\ m_eErr = "eNoError"
            /\ m_eSkip = "eSkipNon"
            /\ m_sData' = ClearedData

(* Faulty variant: the connection is not half-closed.                      *)
DecodeFailsQuietly == /\ pc' = "idle"
                      /\ UNCHANGED <<io, m_bIsPushing, shutdown, sent>>

(* Decode returns false: __OnMessage half-closes and returns.              *)
DecodeFails == /\ shutdown' = TRUE
               /\ pc' = "idle"
               /\ UNCHANGED <<io, m_bIsPushing, sent>>

(* Faulty variant: the bytes that are no mark stay in the Buffer and the   *)
(* loop of Decode is not left.                                             *)
BadMarkStays ==
  /\ AtHeader
  /\ pos \notin DOMAIN stream.pkt
  /\ UNCHANGED <<io, pos, parser, m_eCurrentStat, kind, m_eErr, m_bIsPushing,
                 shutdown, pc, sent>>

(* __Paser16, one action for each of its returns, in their order.          *)
BadMark ==
  /\ AtHeader
  /\ pos \notin DOMAIN stream.pkt
  /\ pos' = pos + HeadMarkBytes
  /\ DecodeFails
  /\ UNCHANGED <<parser, m_eCurrentStat, kind, m_eErr>>

(* Faulty variant: the error is not noted.                                 *)
UnsupportedCodingUnnoted ==
  /\ AtHeader
  /\ pos \in DOMAIN stream.pkt
  /\ AVCodingType(Pkt.PT7) = "eUnSupport"
  /\ m_eCodingType' = "eUnSupport"
  /\ pos' = pos + CodingTypeBytes
  /\ DecodeFails
  /\ UNCHANGED <<parser, m_eCurrentStat, m_eSubMarke, m_eDataType, m_eErr>>

UnsupportedCoding ==
  /\ AtHeader
  /\ pos \in DOMAIN stream.pkt
  /\ AVCodingType(Pkt.PT7) = "eUnSupport"
  /\ m_eCodingType' = "eUnSupport"
  /\ m_eErr' = "eCodingTypeError"
  /\ pos' = pos + CodingTypeBytes
  /\ DecodeFails
  /\ UNCHANGED <<parser, m_eCurrentStat, m_eSubMarke, m_eDataType>>

AtCodedHeader ==
  /\ AtHeader
  /\ pos \in DOMAIN stream.pkt
  /\ AVCodingType(Pkt.PT7) # "eUnSupport"
  /\ m_eCodingType' = AVCodingType(Pkt.PT7)
  /\ pos' = pos + sm_nFirstReceiveBytes

BadDataType ==
  /\ AtCodedHeader
  /\ TailLen(Pkt.DataType4) = -1
  /\ m_eErr' = "eTypeError"
  /\ DecodeFails
  /\ UNCHANGED <<parser, m_eCurrentStat, m_eSubMarke, m_eDataType>>

BadSubMark ==
  /\ AtCodedHeader
  /\ TailLen(Pkt.DataType4) # -1
  /\ SubMark(Pkt.SubpackageHandleMark4) = "none"
  /\ m_eDataType' = DataType(Pkt.DataType4)
  /\ m_eErr' = "eMarkeError"
  /\ DecodeFails
  /\ UNCHANGED <<parser, m_eCurrentStat, m_eSubMarke>>

(* Faulty variant: a frame left completed stays so.                        *)
Paser16StaysCompleted ==
  /\ AtCodedHeader
  /\ TailLen(Pkt.DataType4) # -1
  /\ SubMark(Pkt.SubpackageHandleMark4) # "none"
  /\ m_eDataType' = DataType(Pkt.DataType4)
  /\ m_eSubMarke' = SubMark(Pkt.SubpackageHandleMark4)
  /\ m_iHeader' = pos
  /\ m_iRecvLen' = TailLen(Pkt.DataType4)
  /\ IF arrived - pos' > m_iRecvLen'
       THEN pc' = "ParseRest" /\ m_eSkip' = m_eSkip
       ELSE pc' = "Decode" /\ m_eSkip' = "eSkipPaser16"
  /\ UNCHANGED <<io, m_eCurrentStat, m_eErr, m_bIsPushing, shutdown, sent>>

(* The first part is good.  __ParserHeader goes on to the rest of the      *)
(* header if it is there, and otherwise notes to resume at it.             *)
Paser16 ==
  /\ AtCodedHeader
  /\ TailLen(Pkt.DataType4) # -1
  /\ SubMark(Pkt.SubpackageHandleMark4) # "none"
  /\ m_eDataType' = DataType(Pkt.DataType4)
  /\ m_eSubMarke' = SubMark(Pkt.SubpackageHandleMark4)
  /\ m_iHeader' = pos
  /\ m_iRecvLen' = TailLen(Pkt.DataType4)
  /\ m_eCurrentStat' = "eReceiving"
  /\ IF arrived - pos' > m_iRecvLen'
       THEN pc' = "ParseRest" /\ m_eSkip' = m_eSkip
       ELSE pc' = "Decode" /\ m_eSkip' = "eSkipPaser16"
  /\ UNCHANGED <<io, m_eErr, m_bIsPushing, shutdown, sent>>

(* Faulty variant: the rest of the header is read before it has come.      *)
AtRestTooEarly == \/ /\ pc = "ParseRest"
                     /\ UNCHANGED m_sData
                  \/ /\ pc = "Decode"
                     /\ m_eErr = "eNoError"
                     /\ m_eSkip = "eSkipPaser16"
                     /\ m_sData' = ClearedData

(* __PaserTheRestData, reached straight from __Paser16 or on resuming.     *)
AtRest == \/ /\ pc = "ParseRest"
             /\ UNCHANGED m_sData
          \/ /\ pc = "Decode"
             /\ More
             /\ m_eErr = "eNoError"
             /\ m_eSkip = "eSkipPaser16"
             /\ m_sData' = ClearedData

Passthrough ==
  /\ AtRest
  /\ m_eDataType = "ePassthrough"
  /\ m_eErr' = "eTypeError"
  /\ DecodeFails
  /\ UNCHANGED <<pos, parser, m_eCurrentStat, kind>>

BadLength ==
  /\ AtRest
  /\ m_eDataType # "ePassthrough"
  /\ Hdr.WdBodyLen > JT1078_MAX_LENGTH
  /\ m_eErr' = "eLengthError"
  /\ pos' = pos + TailLen(Hdr.DataType4)
  /\ DecodeFails
  /\ UNCHANGED <<parser, m_eCurrentStat, kind>>

PaserTheRestData ==
  /\ AtRest
  /\ m_eDataType # "ePassthrough"
  /\ Hdr.WdBodyLen <= JT1078_MAX_LENGTH
  /\ pos' = pos + TailLen(Hdr.DataType4)
  /\ m_iRecvLen' = Hdr.WdBodyLen
  /\ m_eSkip' = "eSkipPaserTheRestData"
  /\ pc' = "Decode"
  /\ UNCHANGED <<io, m_eCurrentStat, kind, m_eErr, m_iHeader, m_bIsPushing,
                 shutdown, sent>>

(* The body joins the frame.                                               *)
BodyJoins ==
  /\ pc = "Decode"
  /\ More
  /\ m_eErr = "eNoError"
  /\ m_eSkip = "eSkipPaserTheRestData"
  /\ m_sData' = Append(m_sData, m_iHeader)
  /\ pos' = pos + m_iRecvLen
  /\ m_eSkip' = "eSkipNon"
  /\ m_iRecvLen' = sm_nFirstReceiveBytes
  /\ UNCHANGED <<io, kind, m_eErr, m_iHeader, m_bIsPushing, shutdown, sent>>

(* Faulty variant: an atomic packet is not seen to end its frame.          *)
AtomicDoesNotClose ==
  /\ BodyJoins
  /\ IF m_eSubMarke = "eLast"
       THEN m_eCurrentStat' = "eCompleted" /\ pc' = "Dispatch"
       ELSE m_eCurrentStat' = m_eCurrentStat /\ pc' = "Decode"

(* Faulty variant: Decode goes on to the next packet.                      *)
DecodeBodyGoesOn ==
  /\ BodyJoins
  /\ m_eCurrentStat' = IF m_eSubMarke \in ClosingMarks
                       THEN "eCompleted" ELSE m_eCurrentStat
  /\ pc' = "Decode"

(* An atomic or last packet ends both the frame and the call of Decode,    *)
(* whatever the Buffer still holds.                                        *)
DecodeBody ==
  /\ BodyJoins
  /\ IF m_eSubMarke \in ClosingMarks
       THEN m_eCurrentStat' = "eCompleted" /\ pc' = "Dispatch"
       ELSE m_eCurrentStat' = m_eCurrentStat /\ pc' = "Decode"

-----------------------------------------------------------------------------
(* __OnMessage after Decode has returned true                              *)

AtDispatch == /\ pc = "Dispatch"
              /\ UNCHANGED <<io, pos, parser, kind, m_eErr>>

NotComplete ==
  /\ AtDispatch
  /\ m_eCurrentStat # "eCompleted"
  /\ pc' = "idle"
  /\ UNCHANGED <<m_eCurrentStat, m_sData, m_bIsPushing, shutdown, sent>>

(* The four assertions on a finished frame.  The last one is the first     *)
(* line of WriteDataToStream, reached once the stream is pushing.          *)
AssertsHold == /\ m_eErr = "eNoError"
               /\ m_eDataType # "ePassthrough"
               /\ m_eSubMarke \in ClosingMarks
               /\ m_bIsPushing => m_eCodingType # "eUnSupport"

AbortInDispatch ==
  /\ AtDispatch
  /\ m_eCurrentStat = "eCompleted"
  /\ ~AssertsHold
  /\ pc' = "aborted"
  /\ UNCHANGED <<m_eCurrentStat, m_sData, m_bIsPushing, shutdown, sent>>

AtFrame == /\ AtDispatch
           /\ m_eCurrentStat = "eCompleted"
           /\ AssertsHold

(* CDecoder::Init on the first frame: connect to the RTMP server.          *)
InitStream ==
  /\ AtFrame
  /\ ~m_bIsPushing
  /\ m_bIsPushing' = TRUE
  /\ UNCHANGED <<m_eCurrentStat, m_sData, shutdown, pc, sent>>

(* The early return leaves the frame where it is, still marked completed.  *)
InitStreamFails ==
  /\ AtFrame
  /\ ~m_bIsPushing
  /\ shutdown' = TRUE
  /\ pc' = "idle"
  /\ UNCHANGED <<m_eCurrentStat, m_sData, m_bIsPushing, sent>>

(* DecodeAudio has no decoder for an audio frame that claims to be H.264.  *)
Decodable == Media = "audio" => m_eCodingType # "eH264"

(* An ADPCM frame begins with 8 bytes of decoder state.  For a shorter one *)
(* CCodec delivers a negative length, with which write_audio_frame calls   *)
(* memcpy.                                                                 *)
FrameBytes == FoldFunction(+, 0, [i \in DOMAIN m_sData |->
                                   stream.pkt[m_sData[i]].WdBodyLen])
ShortAdpcm == /\ Media = "audio"
              /\ m_eCodingType = "eAdpcm"
              /\ FrameBytes < 8

CrashInWrite ==
  /\ AtFrame
  /\ m_bIsPushing
  /\ ShortAdpcm
  /\ pc' = "crashed"
  /\ UNCHANGED <<m_eCurrentStat, m_sData, m_bIsPushing, shutdown, sent>>

FrameIsWritten ==
  /\ AtFrame
  /\ m_bIsPushing
  /\ Decodable
  /\ ~ShortAdpcm
  /\ sent' = Append(sent, [frame |-> m_sData, media |-> Media,
                           coding |-> m_eCodingType])
  /\ pc' = "idle"
  /\ UNCHANGED <<m_bIsPushing, shutdown>>

(* Faulty variants: the state stays completed; the data is not cleared.    *)
WriteStaysCompleted ==
  /\ FrameIsWritten
  /\ m_sData' = <<>>
  /\ UNCHANGED m_eCurrentStat
WriteKeepsData ==
  /\ FrameIsWritten
  /\ m_eCurrentStat' = "eInit"
  /\ UNCHANGED m_sData

WriteDataToStream ==
  /\ FrameIsWritten
  /\ m_sData' = <<>>
  /\ m_eCurrentStat' = "eInit"

(* The stream or the audio decoder refuses the frame: the data is cleared  *)
(* but the early return leaves the state at completed.                     *)
WriteFails ==
  /\ AtFrame
  /\ m_bIsPushing
  /\ ~ShortAdpcm
  /\ m_sData' = <<>>
  /\ shutdown' = TRUE
  /\ pc' = "idle"
  /\ UNCHANGED <<m_eCurrentStat, m_bIsPushing, sent>>

-----------------------------------------------------------------------------
Decode == \/ DecodeDone \/ AbortInDecode
          \/ BadMark \/ UnsupportedCoding \/ BadDataType \/ BadSubMark
          \/ Paser16
          \/ Passthrough \/ BadLength \/ PaserTheRestData
          \/ DecodeBody

Dispatch == \/ NotComplete \/ AbortInDispatch
            \/ InitStream \/ InitStreamFails
            \/ CrashInWrite \/ WriteDataToStream \/ WriteFails

(* The process has ended or the connection is gone: nothing follows.       *)
Terminated == /\ pc \in {"aborted", "crashed", "closed"}
              /\ UNCHANGED vars

Next == OnMessage \/ PeerCloses \/ Decode \/ Dispatch \/ Terminated

(* A loop that has entered the handler runs on.                            *)
Fairness == WF_vars(Decode \/ Dispatch)

Spec == Init /\ [][Next]_vars
FairSpec == Spec /\ Fairness

-----------------------------------------------------------------------------
(* The connection keeps the promise of FrameAssembly.  A packet is taken   *)
(* when its body is, so a header already parsed does not count as read.    *)
InPacket == pc = "ParseRest" \/ m_eSkip # "eSkipNon"
Taken == IF InPacket THEN m_iHeader ELSE pos
FramesSent == [k \in 1..Len(sent) |-> sent[k].frame]

FA == INSTANCE FrameAssembly WITH
        at <- Taken, frame <- m_sData, out <- FramesSent, degraded <- shutdown

(* Every step of the handler is one of FrameAssembly, or none.             *)
ImplementsFrameAssembly == FA!Spec

(* Until the connection is half-closed, what has been written and what     *)
(* m_sData holds are together exactly the packets read so far, each frame  *)
(* cut where a packet is marked atomic or last.                            *)
Lossless == FA!Lossless

(* Half-closed or not, no packet is written twice or after a later one.    *)
InOrder == FA!InOrder

(* An assertion fails, whatever the terminal sends, only after the server  *)
(* has asked for the connection to be closed.                              *)
AbortOnlyAfterShutdown == pc = "aborted" => shutdown

(* A frame marked completed on a decoder without error is fit to be        *)
(* written: of these, __OnMessage asserts three and the codecs rely on the *)
(* fourth, though the mark, the type and the coding were set by several    *)
(* calls of several headers.                                               *)
CompletedIsSound ==
  m_eCurrentStat = "eCompleted" /\ m_eErr = "eNoError" =>
    /\ m_eDataType # "ePassthrough"
    /\ m_eSubMarke \in ClosingMarks
    /\ m_eCodingType # "eUnSupport"
    /\ m_eSkip = "eSkipNon"

(* Every frame is written as the medium, and decoded with the coding, of   *)
(* the packet that completed it, even after a failed Init or write has     *)
(* left a frame waiting while further headers were parsed.                 *)
SentAsItsLastPacket ==
  \A k \in DOMAIN sent :
    LET f == sent[k].frame
        last == stream.pkt[f[Len(f)]]
    IN f # <<>> =>
         /\ sent[k].media = "video" <=> DataType(last.DataType4) \in VideoTypes
         /\ sent[k].coding = AVCodingType(last.PT7)

(* Between two messages the decoder of a healthy connection leaves bytes   *)
(* it could work on only because it has just written a frame: then it is   *)
(* back in its first state, at the beginning of a packet.                  *)
IdleLeavesNoWork ==
  pc = "idle" /\ ~shutdown /\ More =>
    /\ m_eCurrentStat = "eInit"
    /\ m_eSkip = "eSkipNon"
    /\ m_sData = <<>>
    /\ sent # <<>>

(* Every call of the handler returns or ends the process: no packet,       *)
(* however short, keeps the loop of Decode turning.                        *)
HandlerReturns == pc \in {"Decode", "ParseRest", "Dispatch"}
                    ~> pc \in {"idle", "aborted", "crashed"}
-----------------------------------------------------------------------------
(* Claims of the sources that the code does not keep.                      *)

(* CDecoder.cpp:102, assert(m_eErr == eNoError) on entering DecodeHeader.  *)
DecodeHeaderAssert ==
  pc = "Decode" /\ More /\ m_eSkip # "eSkipPaserTheRestData"
    => m_eErr = "eNoError"

(* CRealTimeVideoServer.cpp:93, assert(eErr == eNoError) on a whole frame. *)
OnMessageAssert ==
  pc = "Dispatch" /\ m_eCurrentStat = "eCompleted" => m_eErr = "eNoError"
=============================================================================
