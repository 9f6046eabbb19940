------------------------- MODULE VideoSessionProofs -------------------------
(***************************************************************************)
(* Proofs about VideoSession, for every set of streams a terminal may      *)
(* send: its type invariant, its safety invariants, and that it implements *)
(* FrameAssembly.                                                          *)
(***************************************************************************)
EXTENDS VideoSession, TLAPS

-----------------------------------------------------------------------------
(* Header fields, streams and sequences.                                   *)

(* What the conversions of header fields yield.                            *)
LEMMA HeaderFields ==
  ASSUME NEW p \in Packet
  PROVE  /\ AVCodingType(p.PT7) \in CodingTypes
         /\ SubMark(p.SubpackageHandleMark4) \in SubMarks \cup {"none"}
         /\ TailLen(p.DataType4) \in {-1, 2, 10, 14}
         /\ TailLen(p.DataType4) # -1 => DataType(p.DataType4) \in DataTypes
         /\ DataType(p.DataType4) # "none" => TailLen(p.DataType4) # -1
         /\ p.WdBodyLen \in Nat
<1>1. p.DataType4 \in 0..15
  BY DEF Packet
<1>2. AVCodingType(p.PT7) \in CodingTypes
  BY DEF AVCodingType, CodingTypes
<1>3. SubMark(p.SubpackageHandleMark4) \in SubMarks \cup {"none"}
  BY DEF SubMark, SubMarks
<1>4. TailLen(p.DataType4) \in {-1, 2, 10, 14}
  BY <1>1 DEF TailLen, HEAD_BUFSIZE, sm_nFirstReceiveBytes
<1>5. TailLen(p.DataType4) # -1 => DataType(p.DataType4) \in DataTypes
  BY <1>1 DEF TailLen, DataType, DataTypes, VideoTypes, HEAD_BUFSIZE,
              sm_nFirstReceiveBytes
<1>6. DataType(p.DataType4) # "none" => TailLen(p.DataType4) # -1
  BY <1>1 DEF TailLen, DataType, HEAD_BUFSIZE, sm_nFirstReceiveBytes
<1>7. p.WdBodyLen \in Nat
  <2>1. p.WdBodyLen \in uint16_t
    BY DEF Packet
  <2>2. \A n \in uint16_t : n \in Nat
    BY SMTT(60) DEF uint16_t
  <2> QED BY <2>1, <2>2
<1> QED BY <1>2, <1>3, <1>4, <1>5, <1>6, <1>7

(* What the assumption on streams gives.                                   *)
LEMMA StreamPacket ==
  ASSUME NEW s \in Streams, NEW o \in DOMAIN s.pkt
  PROVE  o \in Nat /\ s.pkt[o] \in Packet
BY StreamsAssumption DEF IsStream

(* The length of a stream is a number.                                     *)
LEMMA StreamLength == ASSUME NEW s \in Streams PROVE s.len \in Nat
BY StreamsAssumption DEF IsStream

(* The sequence facts the proofs need.                                     *)
LEMMA AppendFacts ==
  ASSUME NEW S, NEW f \in Seq(S), NEW e \in S
  PROVE  /\ Append(f, e) \in Seq(S)
         /\ Append(f, e) # <<>>
         /\ Len(Append(f, e)) = Len(f) + 1
         /\ Append(f, e)[Len(Append(f, e))] = e
         /\ \A i \in 1..Len(f) : Append(f, e)[i] = f[i]
OBVIOUS

-----------------------------------------------------------------------------
(* The inductive invariant.                                                *)

(* What the decoder keeps of a header still is what the header says, and   *)
(* the reading position is where the parser phase says.                    *)
PacketInv ==
  InPacket =>
    /\ m_iHeader \in DOMAIN stream.pkt
    /\ m_eCodingType = AVCodingType(Hdr.PT7)
    /\ m_eCodingType # "eUnSupport"
    /\ m_eDataType = DataType(Hdr.DataType4)
    /\ m_eSubMarke = SubMark(Hdr.SubpackageHandleMark4)
    /\ m_eCurrentStat = "eReceiving"
    /\ m_iHeader <= pos
    /\ (m_eErr = "eNoError" /\ m_eSkip # "eSkipPaserTheRestData") =>
         /\ m_iRecvLen = TailLen(Hdr.DataType4)
         /\ pos = m_iHeader + sm_nFirstReceiveBytes
    /\ m_eSkip = "eSkipPaserTheRestData" =>
         /\ m_eErr = "eNoError"
         /\ m_eDataType # "ePassthrough"
         /\ Hdr.WdBodyLen <= JT1078_MAX_LENGTH
         /\ m_iRecvLen = Hdr.WdBodyLen
         /\ pos = m_iHeader + sm_nFirstReceiveBytes + TailLen(Hdr.DataType4)

PhaseInv ==
  /\ ~InPacket /\ m_eErr = "eNoError" => m_iRecvLen = sm_nFirstReceiveBytes
  /\ pc = "ParseRest" => m_eErr = "eNoError" /\ m_eSkip = "eSkipNon" /\ More

(* An error is remembered, and it has closed the connection.               *)
ErrorInv == m_eErr # "eNoError" => shutdown

(* A completed frame waits for nothing but its being written.              *)
CompletedInv ==
  m_eCurrentStat = "eCompleted" =>
    /\ ~shutdown => pc \in {"Dispatch", "crashed"}
    /\ FA!Finished(m_sData) \/ (shutdown /\ m_sData = <<>>)

DataInv ==
  /\ m_eCurrentStat = "eInit" => m_sData = <<>>
  /\ FA!Finished(m_sData) => shutdown \/ m_eCurrentStat = "eCompleted"

IInv == /\ TypeOK
        /\ PacketInv
        /\ PhaseInv
        /\ ErrorInv
        /\ CompletedInv
        /\ DataInv
        /\ CompletedIsSound
        /\ AbortOnlyAfterShutdown

-----------------------------------------------------------------------------
(* A new decoder on a new connection satisfies the invariant.              *)
LEMMA InitInv == Init => IInv
<1> SUFFICES ASSUME Init PROVE IInv
  OBVIOUS
<1>1. TypeOK
  <2>1. stream \in Streams /\ arrived = 0 /\ stream.len \in Nat
    BY StreamLength DEF Init
  <2>2. sent \in Seq(Writes) /\ m_sData \in Seq(Nat)
    BY DEF Init
  <2>3. /\ arrived \in 0..stream.len /\ pos \in 0..arrived
        /\ m_iRecvLen \in Nat /\ m_iHeader \in Nat
    BY <2>1 DEF Init, sm_nFirstReceiveBytes
  <2>4. /\ m_eSubMarke \in SubMarks /\ m_eDataType \in DataTypes
        /\ m_eCodingType \in CodingTypes
        /\ m_bIsPushing \in BOOLEAN /\ shutdown \in BOOLEAN
    BY DEF Init, SubMarks, DataTypes, VideoTypes, CodingTypes
  <2>5. /\ m_eCurrentStat = "eInit" /\ m_eSkip = "eSkipNon"
        /\ m_eErr = "eNoError" /\ pc = "idle"
    BY DEF Init
  <2> QED BY <2>1, <2>2, <2>3, <2>4, <2>5 DEF TypeOK
<1>2. PacketInv /\ PhaseInv
  BY DEF Init, PacketInv, PhaseInv, InPacket
<1>3. ErrorInv /\ CompletedInv /\ DataInv
  BY DEF Init, ErrorInv, CompletedInv, DataInv, FA!Finished
<1>4. CompletedIsSound /\ AbortOnlyAfterShutdown
  BY DEF Init, CompletedIsSound, AbortOnlyAfterShutdown
<1> QED BY <1>1, <1>2, <1>3, <1>4 DEF IInv

(* Every action keeps every part of the invariant.                         *)
LEMMA NextInv == IInv /\ [Next]_vars => IInv'
<1> SUFFICES ASSUME IInv, [Next]_vars PROVE IInv'
  OBVIOUS
<1> USE DEF IInv, io, parser, kind, More, Readable
<1>1. CASE OnMessage
  <2>1. TypeOK'
    BY <1>1 DEF OnMessage, TypeOK, PacketInv, PhaseInv, InPacket, Hdr
  <2>2. PacketInv' /\ PhaseInv'
    BY <1>1 DEF OnMessage, TypeOK, PacketInv, PhaseInv, InPacket, Hdr
  <2>3. ErrorInv' /\ CompletedInv' /\ DataInv'
    BY <1>1
       DEF OnMessage, ErrorInv, CompletedInv, DataInv, FA!Finished,
           FA!EndsFrame, FA!Pkt, PacketInv, PhaseInv, InPacket, Hdr, TypeOK
  <2>4. CompletedIsSound' /\ AbortOnlyAfterShutdown'
    BY <1>1
       DEF OnMessage, CompletedIsSound, AbortOnlyAfterShutdown, ErrorInv,
           PacketInv, PhaseInv, InPacket
  <2> QED BY <2>1, <2>2, <2>3, <2>4
<1>2. CASE PeerCloses
  <2>1. TypeOK'
    BY <1>2 DEF PeerCloses, TypeOK, PacketInv, PhaseInv, InPacket, Hdr
  <2>2. PacketInv' /\ PhaseInv'
    BY <1>2 DEF PeerCloses, TypeOK, PacketInv, PhaseInv, InPacket, Hdr
  <2>3. ErrorInv' /\ CompletedInv' /\ DataInv'
    BY <1>2
       DEF PeerCloses, ErrorInv, CompletedInv, DataInv, FA!Finished,
           FA!EndsFrame, FA!Pkt, PacketInv, PhaseInv, InPacket, Hdr, TypeOK
  <2>4. CompletedIsSound' /\ AbortOnlyAfterShutdown'
    BY <1>2
       DEF PeerCloses, CompletedIsSound, AbortOnlyAfterShutdown, ErrorInv,
           PacketInv, PhaseInv, InPacket
  <2> QED BY <2>1, <2>2, <2>3, <2>4
<1>3. CASE DecodeDone
  <2>1. TypeOK'
    BY <1>3 DEF DecodeDone, TypeOK, PacketInv, PhaseInv, InPacket, Hdr
  <2>2. PacketInv' /\ PhaseInv'
    BY <1>3 DEF DecodeDone, TypeOK, PacketInv, PhaseInv, InPacket, Hdr
  <2>3. ErrorInv' /\ CompletedInv' /\ DataInv'
    BY <1>3
       DEF DecodeDone, ErrorInv, CompletedInv, DataInv, FA!Finished,
           FA!EndsFrame, FA!Pkt, PacketInv, PhaseInv, InPacket, Hdr, TypeOK
  <2>4. CompletedIsSound' /\ AbortOnlyAfterShutdown'
    BY <1>3
       DEF DecodeDone, CompletedIsSound, AbortOnlyAfterShutdown, ErrorInv,
           PacketInv, PhaseInv, InPacket
  <2> QED BY <2>1, <2>2, <2>3, <2>4
<1>4. CASE AbortInDecode
  <2>1. TypeOK'
    BY <1>4 DEF AbortInDecode, TypeOK, PacketInv, PhaseInv, InPacket, Hdr
  <2>2. PacketInv' /\ PhaseInv'
    BY <1>4 DEF AbortInDecode, TypeOK, PacketInv, PhaseInv, InPacket, Hdr
  <2>3. ErrorInv' /\ CompletedInv' /\ DataInv'
    BY <1>4
       DEF AbortInDecode, ErrorInv, CompletedInv, DataInv, FA!Finished,
           FA!EndsFrame, FA!Pkt, PacketInv, PhaseInv, InPacket, Hdr, TypeOK
  <2>4. CompletedIsSound' /\ AbortOnlyAfterShutdown'
    BY <1>4
       DEF AbortInDecode, CompletedIsSound, AbortOnlyAfterShutdown, ErrorInv,
           PacketInv, PhaseInv, InPacket
  <2> QED BY <2>1, <2>2, <2>3, <2>4
<1>5. CASE BadMark
  <2>1. TypeOK'
    BY <1>5
       DEF BadMark, AtHeader, ClearedData, DecodeFails, TypeOK, PacketInv,
           PhaseInv, InPacket, Hdr, sm_nFirstReceiveBytes, HeadMarkBytes
  <2>2. PacketInv' /\ PhaseInv'
    BY <1>5
       DEF BadMark, AtHeader, ClearedData, DecodeFails, TypeOK, PacketInv,
           PhaseInv, InPacket, Hdr, sm_nFirstReceiveBytes, HeadMarkBytes
  <2>3. ErrorInv' /\ CompletedInv' /\ DataInv'
    BY <1>5
       DEF BadMark, AtHeader, ClearedData, DecodeFails, ErrorInv,
           CompletedInv, DataInv, FA!Finished, FA!EndsFrame, FA!Pkt,
           PacketInv, PhaseInv, InPacket, Hdr, TypeOK
  <2>4. CompletedIsSound' /\ AbortOnlyAfterShutdown'
    BY <1>5
       DEF BadMark, AtHeader, ClearedData, DecodeFails, CompletedIsSound,
           AbortOnlyAfterShutdown, ErrorInv, PacketInv, PhaseInv, InPacket
  <2> QED BY <2>1, <2>2, <2>3, <2>4
<1>6. CASE UnsupportedCoding
  <2>1. TypeOK'
    BY <1>6
       DEF UnsupportedCoding, AtHeader, ClearedData, DecodeFails, TypeOK,
           PacketInv, PhaseInv, InPacket, Hdr, sm_nFirstReceiveBytes,
           CodingTypeBytes, CodingTypes
  <2>2. PacketInv' /\ PhaseInv'
    BY <1>6
       DEF UnsupportedCoding, AtHeader, ClearedData, DecodeFails, TypeOK,
           PacketInv, PhaseInv, InPacket, Hdr, sm_nFirstReceiveBytes,
           CodingTypeBytes
  <2>3. ErrorInv' /\ CompletedInv' /\ DataInv'
    BY <1>6
       DEF UnsupportedCoding, AtHeader, ClearedData, DecodeFails, ErrorInv,
           CompletedInv, DataInv, FA!Finished, FA!EndsFrame, FA!Pkt,
           PacketInv, PhaseInv, InPacket, Hdr, TypeOK
  <2>4. CompletedIsSound' /\ AbortOnlyAfterShutdown'
    BY <1>6
       DEF UnsupportedCoding, AtHeader, ClearedData, DecodeFails,
           CompletedIsSound, AbortOnlyAfterShutdown, ErrorInv, PacketInv,
           PhaseInv, InPacket
  <2> QED BY <2>1, <2>2, <2>3, <2>4
<1>7. CASE BadDataType
  <2>0. /\ AVCodingType(Pkt.PT7) \in CodingTypes
        /\ TailLen(Pkt.DataType4) \in {-1, 2, 10, 14}
        /\ TailLen(Pkt.DataType4) # -1 => DataType(Pkt.DataType4) \in DataTypes
        /\ SubMark(Pkt.SubpackageHandleMark4) \in SubMarks \cup {"none"}
        /\ pos \in Nat
    BY <1>7, StreamPacket, HeaderFields DEF BadDataType, AtCodedHeader,
                                            TypeOK, Pkt
  <2>1. TypeOK'
    BY <1>7, <2>0
       DEF BadDataType, AtHeader, ClearedData, AtCodedHeader, DecodeFails,
           TypeOK, PacketInv, PhaseInv, InPacket, Hdr, sm_nFirstReceiveBytes
  <2>2. PacketInv' /\ PhaseInv'
    BY <1>7, <2>0
       DEF BadDataType, AtHeader, ClearedData, AtCodedHeader, DecodeFails,
           TypeOK, PacketInv, PhaseInv, InPacket, Hdr, sm_nFirstReceiveBytes,
           Pkt
  <2>3. ErrorInv' /\ CompletedInv' /\ DataInv'
    BY <1>7, <2>0
       DEF BadDataType, AtHeader, ClearedData, AtCodedHeader, DecodeFails,
           ErrorInv, CompletedInv, DataInv, FA!Finished, FA!EndsFrame,
           FA!Pkt, PacketInv, PhaseInv, InPacket, Hdr, TypeOK
  <2>4. CompletedIsSound' /\ AbortOnlyAfterShutdown'
    BY <1>7, <2>0
       DEF BadDataType, AtHeader, ClearedData, AtCodedHeader, DecodeFails,
           CompletedIsSound, AbortOnlyAfterShutdown, ErrorInv, PacketInv,
           PhaseInv, InPacket
  <2> QED BY <2>1, <2>2, <2>3, <2>4
<1>8. CASE BadSubMark
  <2>0. /\ AVCodingType(Pkt.PT7) \in CodingTypes
        /\ TailLen(Pkt.DataType4) \in {-1, 2, 10, 14}
        /\ TailLen(Pkt.DataType4) # -1 => DataType(Pkt.DataType4) \in DataTypes
        /\ SubMark(Pkt.SubpackageHandleMark4) \in SubMarks \cup {"none"}
        /\ pos \in Nat
    BY <1>8, StreamPacket, HeaderFields DEF BadSubMark, AtCodedHeader, TypeOK,
                                            Pkt
  <2>1. TypeOK'
    BY <1>8, <2>0
       DEF BadSubMark, AtHeader, ClearedData, AtCodedHeader, DecodeFails,
           TypeOK, PacketInv, PhaseInv, InPacket, Hdr, sm_nFirstReceiveBytes
  <2>2. PacketInv' /\ PhaseInv'
    BY <1>8, <2>0
       DEF BadSubMark, AtHeader, ClearedData, AtCodedHeader, DecodeFails,
           TypeOK, PacketInv, PhaseInv, InPacket, Hdr, sm_nFirstReceiveBytes,
           Pkt
  <2>3. ErrorInv' /\ CompletedInv' /\ DataInv'
    BY <1>8, <2>0
       DEF BadSubMark, AtHeader, ClearedData, AtCodedHeader, DecodeFails,
           ErrorInv, CompletedInv, DataInv, FA!Finished, FA!EndsFrame,
           FA!Pkt, PacketInv, PhaseInv, InPacket, Hdr, TypeOK
  <2>4. CompletedIsSound' /\ AbortOnlyAfterShutdown'
    BY <1>8, <2>0
       DEF BadSubMark, AtHeader, ClearedData, AtCodedHeader, DecodeFails,
           CompletedIsSound, AbortOnlyAfterShutdown, ErrorInv, PacketInv,
           PhaseInv, InPacket
  <2> QED BY <2>1, <2>2, <2>3, <2>4
<1>9. CASE Paser16
  <2>0. /\ AVCodingType(Pkt.PT7) \in CodingTypes
        /\ TailLen(Pkt.DataType4) \in {-1, 2, 10, 14}
        /\ TailLen(Pkt.DataType4) # -1 => DataType(Pkt.DataType4) \in DataTypes
        /\ SubMark(Pkt.SubpackageHandleMark4) \in SubMarks \cup {"none"}
        /\ pos \in Nat
    BY <1>9, StreamPacket, HeaderFields DEF Paser16, AtCodedHeader, TypeOK, Pkt
  <2>1. TypeOK'
    BY <1>9, <2>0
       DEF Paser16, AtHeader, ClearedData, AtCodedHeader, TypeOK, PacketInv,
           PhaseInv, InPacket, Hdr, sm_nFirstReceiveBytes
  <2>2. PacketInv' /\ PhaseInv'
    BY <1>9, <2>0
       DEF Paser16, AtHeader, ClearedData, AtCodedHeader, TypeOK, PacketInv,
           PhaseInv, InPacket, Hdr, sm_nFirstReceiveBytes, Pkt
  <2>3. ErrorInv' /\ CompletedInv' /\ DataInv'
    BY <1>9, <2>0
       DEF Paser16, AtHeader, ClearedData, AtCodedHeader, ErrorInv,
           CompletedInv, DataInv, FA!Finished, FA!EndsFrame, FA!Pkt,
           PacketInv, PhaseInv, InPacket, Hdr, TypeOK
  <2>4. CompletedIsSound' /\ AbortOnlyAfterShutdown'
    BY <1>9, <2>0
       DEF Paser16, AtHeader, ClearedData, AtCodedHeader, CompletedIsSound,
           AbortOnlyAfterShutdown, ErrorInv, PacketInv, PhaseInv, InPacket
  <2> QED BY <2>1, <2>2, <2>3, <2>4
<1>10. CASE Passthrough
  <2>1. TypeOK'
    BY <1>10
       DEF Passthrough, AtRest, ClearedData, DecodeFails, TypeOK, PacketInv,
           PhaseInv, InPacket, Hdr
  <2>2. PacketInv' /\ PhaseInv'
    BY <1>10
       DEF Passthrough, AtRest, ClearedData, DecodeFails, TypeOK, PacketInv,
           PhaseInv, InPacket, Hdr
  <2>3. ErrorInv' /\ CompletedInv' /\ DataInv'
    BY <1>10
       DEF Passthrough, AtRest, ClearedData, DecodeFails, ErrorInv,
           CompletedInv, DataInv, FA!Finished, FA!EndsFrame, FA!Pkt,
           PacketInv, PhaseInv, InPacket, Hdr, TypeOK
  <2>4. CompletedIsSound' /\ AbortOnlyAfterShutdown'
    BY <1>10
       DEF Passthrough, AtRest, ClearedData, DecodeFails, CompletedIsSound,
           AbortOnlyAfterShutdown, ErrorInv, PacketInv, PhaseInv, InPacket
  <2> QED BY <2>1, <2>2, <2>3, <2>4
<1>11. CASE BadLength
  <2>0. Hdr.WdBodyLen \in Nat /\ TailLen(Hdr.DataType4) \in {-1, 2, 10, 14}
    BY <1>11, StreamPacket, HeaderFields
       DEF BadLength, AtRest, TypeOK, PacketInv, InPacket, Hdr
  <2>1. TypeOK'
    BY <1>11, <2>0
       DEF BadLength, AtRest, ClearedData, DecodeFails, TypeOK, PacketInv,
           PhaseInv, InPacket, Hdr, sm_nFirstReceiveBytes
  <2>2. PacketInv' /\ PhaseInv'
    BY <1>11, <2>0
       DEF BadLength, AtRest, ClearedData, DecodeFails, TypeOK, PacketInv,
           PhaseInv, InPacket, Hdr, sm_nFirstReceiveBytes
  <2>3. ErrorInv' /\ CompletedInv' /\ DataInv'
    BY <1>11, <2>0
       DEF BadLength, AtRest, ClearedData, DecodeFails, ErrorInv,
           CompletedInv, DataInv, FA!Finished, FA!EndsFrame, FA!Pkt,
           PacketInv, PhaseInv, InPacket, Hdr, TypeOK
  <2>4. CompletedIsSound' /\ AbortOnlyAfterShutdown'
    BY <1>11, <2>0
       DEF BadLength, AtRest, ClearedData, DecodeFails, CompletedIsSound,
           AbortOnlyAfterShutdown, ErrorInv, PacketInv, PhaseInv, InPacket
  <2> QED BY <2>1, <2>2, <2>3, <2>4
<1>12. CASE PaserTheRestData
  <2>0. Hdr.WdBodyLen \in Nat /\ TailLen(Hdr.DataType4) \in {-1, 2, 10, 14}
    BY <1>12, StreamPacket, HeaderFields
       DEF PaserTheRestData, AtRest, TypeOK, PacketInv, InPacket, Hdr
  <2>1. TypeOK'
    BY <1>12, <2>0
       DEF PaserTheRestData, AtRest, ClearedData, TypeOK, PacketInv,
           PhaseInv, InPacket, Hdr, sm_nFirstReceiveBytes
  <2>2. PacketInv' /\ PhaseInv'
    BY <1>12, <2>0
       DEF PaserTheRestData, AtRest, ClearedData, TypeOK, PacketInv,
           PhaseInv, InPacket, Hdr, sm_nFirstReceiveBytes
  <2>3. ErrorInv' /\ CompletedInv' /\ DataInv'
    BY <1>12, <2>0
       DEF PaserTheRestData, AtRest, ClearedData, ErrorInv, CompletedInv,
           DataInv, FA!Finished, FA!EndsFrame, FA!Pkt, PacketInv, PhaseInv,
           InPacket, Hdr, TypeOK
  <2>4. CompletedIsSound' /\ AbortOnlyAfterShutdown'
    BY <1>12, <2>0
       DEF PaserTheRestData, AtRest, ClearedData, CompletedIsSound,
           AbortOnlyAfterShutdown, ErrorInv, PacketInv, PhaseInv, InPacket
  <2> QED BY <2>1, <2>2, <2>3, <2>4
<1>13. CASE DecodeBody
  <2>0. /\ m_sData' \in Seq(Nat) /\ m_sData' # <<>>
        /\ m_sData'[Len(m_sData')] = m_iHeader
    <3>1. m_sData \in Seq(Nat) /\ m_iHeader \in Nat
      BY DEF TypeOK
    <3>2. m_sData' = Append(m_sData, m_iHeader)
      BY <1>13 DEF DecodeBody, BodyJoins
    <3> QED BY <3>1, <3>2, AppendFacts
  <2>1. TypeOK'
    BY <1>13, <2>0
       DEF DecodeBody, BodyJoins, TypeOK, PacketInv, PhaseInv, InPacket, Hdr,
           sm_nFirstReceiveBytes
  <2>2. PacketInv' /\ PhaseInv'
    BY <1>13, <2>0
       DEF DecodeBody, BodyJoins, TypeOK, PacketInv, PhaseInv, InPacket, Hdr,
           sm_nFirstReceiveBytes
  <2>3. ErrorInv' /\ CompletedInv' /\ DataInv'
    <3>1. /\ m_eSubMarke = SubMark(Hdr.SubpackageHandleMark4)
          /\ m_eCurrentStat = "eReceiving"
      BY <1>13 DEF DecodeBody, BodyJoins, PacketInv, InPacket
    <3>2. FA!Finished(m_sData)' <=> m_eSubMarke \in ClosingMarks
      BY <1>13, <2>0, <3>1
         DEF DecodeBody, BodyJoins, FA!Finished, FA!EndsFrame, FA!Pkt, Hdr,
             FA!SubMark, SubMark, FA!ClosingMarks, ClosingMarks
    <3> QED BY <1>13, <3>1, <3>2 DEF DecodeBody, BodyJoins, ErrorInv,
                                     CompletedInv,
                                     DataInv
  <2>4. CompletedIsSound' /\ AbortOnlyAfterShutdown'
    BY <1>13, <2>0
       DEF DecodeBody, BodyJoins, CompletedIsSound, AbortOnlyAfterShutdown,
           ErrorInv,
           PacketInv, PhaseInv, InPacket
  <2> QED BY <2>1, <2>2, <2>3, <2>4
<1>14. CASE NotComplete
  <2>1. TypeOK'
    BY <1>14
       DEF NotComplete, AtDispatch, TypeOK, PacketInv, PhaseInv, InPacket,
           Hdr
  <2>2. PacketInv' /\ PhaseInv'
    BY <1>14
       DEF NotComplete, AtDispatch, TypeOK, PacketInv, PhaseInv, InPacket,
           Hdr
  <2>3. ErrorInv' /\ CompletedInv' /\ DataInv'
    BY <1>14
       DEF NotComplete, AtDispatch, ErrorInv, CompletedInv, DataInv,
           FA!Finished, FA!EndsFrame, FA!Pkt, PacketInv, PhaseInv, InPacket,
           Hdr, TypeOK
  <2>4. CompletedIsSound' /\ AbortOnlyAfterShutdown'
    BY <1>14
       DEF NotComplete, AtDispatch, CompletedIsSound, AbortOnlyAfterShutdown,
           ErrorInv, PacketInv, PhaseInv, InPacket
  <2> QED BY <2>1, <2>2, <2>3, <2>4
<1>15. CASE AbortInDispatch
  <2>1. TypeOK'
    BY <1>15
       DEF AbortInDispatch, AtDispatch, AssertsHold, TypeOK, PacketInv,
           PhaseInv, InPacket, Hdr
  <2>2. PacketInv' /\ PhaseInv'
    BY <1>15
       DEF AbortInDispatch, AtDispatch, AssertsHold, TypeOK, PacketInv,
           PhaseInv, InPacket, Hdr
  <2>3. ErrorInv' /\ CompletedInv' /\ DataInv'
    <3>1. shutdown
      BY <1>15 DEF AbortInDispatch, AssertsHold, ErrorInv, CompletedIsSound
    <3> QED BY <1>15, <3>1 DEF AbortInDispatch, AtDispatch, ErrorInv,
                 CompletedInv, DataInv, FA!Finished, FA!EndsFrame, FA!Pkt
  <2>4. CompletedIsSound' /\ AbortOnlyAfterShutdown'
    BY <1>15
       DEF AbortInDispatch, AtDispatch, AssertsHold, CompletedIsSound,
           AbortOnlyAfterShutdown, ErrorInv, PacketInv, PhaseInv, InPacket
  <2> QED BY <2>1, <2>2, <2>3, <2>4
<1>16. CASE InitStream
  <2>1. TypeOK'
    BY <1>16
       DEF InitStream, AtDispatch, AtFrame, AssertsHold, TypeOK, PacketInv,
           PhaseInv, InPacket, Hdr
  <2>2. PacketInv' /\ PhaseInv'
    BY <1>16
       DEF InitStream, AtDispatch, AtFrame, AssertsHold, TypeOK, PacketInv,
           PhaseInv, InPacket, Hdr
  <2>3. ErrorInv' /\ CompletedInv' /\ DataInv'
    BY <1>16
       DEF InitStream, AtDispatch, AtFrame, AssertsHold, ErrorInv,
           CompletedInv, DataInv, FA!Finished, FA!EndsFrame, FA!Pkt,
           PacketInv, PhaseInv, InPacket, Hdr, TypeOK
  <2>4. CompletedIsSound' /\ AbortOnlyAfterShutdown'
    BY <1>16
       DEF InitStream, AtDispatch, AtFrame, AssertsHold, CompletedIsSound,
           AbortOnlyAfterShutdown, ErrorInv, PacketInv, PhaseInv, InPacket
  <2> QED BY <2>1, <2>2, <2>3, <2>4
<1>17. CASE InitStreamFails
  <2>1. TypeOK'
    BY <1>17
       DEF InitStreamFails, AtDispatch, AtFrame, AssertsHold, TypeOK,
           PacketInv, PhaseInv, InPacket, Hdr
  <2>2. PacketInv' /\ PhaseInv'
    BY <1>17
       DEF InitStreamFails, AtDispatch, AtFrame, AssertsHold, TypeOK,
           PacketInv, PhaseInv, InPacket, Hdr
  <2>3. ErrorInv' /\ CompletedInv' /\ DataInv'
    BY <1>17
       DEF InitStreamFails, AtDispatch, AtFrame, AssertsHold, ErrorInv,
           CompletedInv, DataInv, FA!Finished, FA!EndsFrame, FA!Pkt,
           PacketInv, PhaseInv, InPacket, Hdr, TypeOK
  <2>4. CompletedIsSound' /\ AbortOnlyAfterShutdown'
    BY <1>17
       DEF InitStreamFails, AtDispatch, AtFrame, AssertsHold,
           CompletedIsSound, AbortOnlyAfterShutdown, ErrorInv, PacketInv,
           PhaseInv, InPacket
  <2> QED BY <2>1, <2>2, <2>3, <2>4
<1>18. CASE WriteDataToStream
  <2>0. sent' \in Seq(Writes)
    <3>1. Media \in {"video", "audio"}
      BY DEF Media
    <3>2. [frame |-> m_sData, media |-> Media, coding |-> m_eCodingType]
            \in Writes
      BY <3>1 DEF TypeOK, Writes
    <3> QED BY <1>18, <3>2, AppendFacts DEF WriteDataToStream, FrameIsWritten,
                                            TypeOK
  <2>1. TypeOK'
    BY <1>18, <2>0
       DEF WriteDataToStream, FrameIsWritten, AtDispatch, AtFrame,
           AssertsHold, TypeOK,
           PacketInv, PhaseInv, InPacket, Hdr
  <2>2. PacketInv' /\ PhaseInv'
    BY <1>18, <2>0
       DEF WriteDataToStream, FrameIsWritten, AtDispatch, AtFrame,
           AssertsHold, TypeOK,
           PacketInv, PhaseInv, InPacket, Hdr
  <2>3. ErrorInv' /\ CompletedInv' /\ DataInv'
    BY <1>18, <2>0
       DEF WriteDataToStream, FrameIsWritten, AtDispatch, AtFrame,
           AssertsHold, ErrorInv,
           CompletedInv, DataInv, FA!Finished, FA!EndsFrame, FA!Pkt,
           PacketInv, PhaseInv, InPacket, Hdr, TypeOK
  <2>4. CompletedIsSound' /\ AbortOnlyAfterShutdown'
    BY <1>18, <2>0
       DEF WriteDataToStream, FrameIsWritten, AtDispatch, AtFrame, AssertsHold,
           CompletedIsSound, AbortOnlyAfterShutdown, ErrorInv, PacketInv,
           PhaseInv, InPacket
  <2> QED BY <2>1, <2>2, <2>3, <2>4
<1>19. CASE WriteFails
  <2>1. TypeOK'
    BY <1>19
       DEF WriteFails, AtDispatch, AtFrame, AssertsHold, TypeOK, PacketInv,
           PhaseInv, InPacket, Hdr
  <2>2. PacketInv' /\ PhaseInv'
    BY <1>19
       DEF WriteFails, AtDispatch, AtFrame, AssertsHold, TypeOK, PacketInv,
           PhaseInv, InPacket, Hdr
  <2>3. ErrorInv' /\ CompletedInv' /\ DataInv'
    BY <1>19
       DEF WriteFails, AtDispatch, AtFrame, AssertsHold, ErrorInv,
           CompletedInv, DataInv, FA!Finished, FA!EndsFrame, FA!Pkt,
           PacketInv, PhaseInv, InPacket, Hdr, TypeOK
  <2>4. CompletedIsSound' /\ AbortOnlyAfterShutdown'
    BY <1>19
       DEF WriteFails, AtDispatch, AtFrame, AssertsHold, CompletedIsSound,
           AbortOnlyAfterShutdown, ErrorInv, PacketInv, PhaseInv, InPacket
  <2> QED BY <2>1, <2>2, <2>3, <2>4
<1>20. CASE UNCHANGED vars
  <2>1. TypeOK' /\ ErrorInv' /\ CompletedIsSound' /\ AbortOnlyAfterShutdown'
    BY <1>20 DEF vars, TypeOK, ErrorInv, CompletedIsSound,
                AbortOnlyAfterShutdown
  <2>2. PacketInv' /\ PhaseInv'
    BY <1>20 DEF vars, PacketInv, PhaseInv, InPacket, Hdr
  <2>3. CompletedInv' /\ DataInv'
    BY <1>20 DEF vars, CompletedInv, DataInv, FA!Finished, FA!EndsFrame,
                FA!Pkt
  <2> QED BY <2>1, <2>2, <2>3
<1>21. CASE CrashInWrite
  <2>1. TypeOK'
    BY <1>21 DEF CrashInWrite, AtDispatch, AtFrame, TypeOK
  <2>2. PacketInv' /\ PhaseInv'
    BY <1>21
       DEF CrashInWrite, AtDispatch, AtFrame, PacketInv, PhaseInv, InPacket,
           Hdr
  <2>3. ErrorInv' /\ CompletedInv' /\ DataInv'
    BY <1>21
       DEF CrashInWrite, AtDispatch, AtFrame, ErrorInv, CompletedInv,
           DataInv, FA!Finished, FA!EndsFrame, FA!Pkt
  <2>4. CompletedIsSound' /\ AbortOnlyAfterShutdown'
    BY <1>21
       DEF CrashInWrite, AtDispatch, AtFrame, CompletedIsSound,
           AbortOnlyAfterShutdown
  <2> QED BY <2>1, <2>2, <2>3, <2>4
<1> QED
  BY <1>1, <1>2, <1>3, <1>4, <1>5, <1>6, <1>7, <1>8, <1>9, <1>10, <1>11,
     <1>12, <1>13, <1>14, <1>15, <1>16, <1>17, <1>18, <1>19, <1>20,
            <1>21 DEF Next,
     Decode, Dispatch, Terminated

-----------------------------------------------------------------------------
(* The inductive invariant of the session holds in every reachable state.  *)
THEOREM Invariance == Spec => []IInv
BY InitInv, NextInv, PTL DEF Spec

(* The variables of the session always hold what the code can put there;   *)
(* in particular the decoder never takes bytes that have not arrived.      *)
THEOREM TypeCorrect == Spec => []TypeOK
<1>1. IInv => TypeOK
  BY DEF IInv
<1> QED BY <1>1, Invariance, PTL

(* No terminal ends the process before the server has half-closed it.      *)
THEOREM AbortsOnlyAfterShutdown == Spec => []AbortOnlyAfterShutdown
<1>1. IInv => AbortOnlyAfterShutdown
  BY DEF IInv
<1> QED BY <1>1, Invariance, PTL

(* A completed frame on a decoder without error passes the assertions.     *)
THEOREM CompletedFramesAreSound == Spec => []CompletedIsSound
<1>1. IInv => CompletedIsSound
  BY DEF IInv
<1> QED BY <1>1, Invariance, PTL

-----------------------------------------------------------------------------
(* What two more invariants need beyond IInv.                              *)

(* Decode returns true either with a frame or for want of bytes.           *)
DispatchInv == pc = "Dispatch" /\ m_eCurrentStat # "eCompleted" => ~More

(* The fields of the decoder describe the packet that ended the frame.     *)
DescribesPacket(o) ==
  /\ o \in DOMAIN stream.pkt
  /\ m_eDataType = DataType(stream.pkt[o].DataType4)
  /\ m_eCodingType = AVCodingType(stream.pkt[o].PT7)

LastPacketInv ==
  m_eCurrentStat = "eCompleted" /\ m_eErr = "eNoError" /\ m_sData # <<>>
    => DescribesPacket(m_sData[Len(m_sData)])

(* The handler leaves work only when it fails or has written a frame.      *)
LEMMA IdleStep ==
  IInv /\ DispatchInv /\ IdleLeavesNoWork /\ [Next]_vars
    => DispatchInv' /\ IdleLeavesNoWork'
<1> SUFFICES ASSUME IInv, DispatchInv, IdleLeavesNoWork, [Next]_vars
             PROVE  DispatchInv' /\ IdleLeavesNoWork'
  OBVIOUS
<1> USE DEF DispatchInv, IdleLeavesNoWork, More, Readable, io, parser
<1>1. CASE \/ OnMessage \/ PeerCloses \/ DecodeDone \/ AbortInDecode
           \/ Paser16 \/ PaserTheRestData \/ DecodeBody
  BY <1>1 DEF OnMessage, PeerCloses, DecodeDone, AbortInDecode, Paser16,
     PaserTheRestData, DecodeBody, BodyJoins
<1>2. CASE \/ BadMark \/ UnsupportedCoding \/ BadDataType \/ BadSubMark
           \/ Passthrough \/ BadLength \/ InitStreamFails \/ WriteFails
  BY <1>2 DEF BadMark, UnsupportedCoding, BadDataType, BadSubMark,
     Passthrough, BadLength, DecodeFails, InitStreamFails, WriteFails
<1>3. CASE NotComplete \/ AbortInDispatch \/ InitStream \/ CrashInWrite
  BY <1>3 DEF NotComplete, AbortInDispatch, InitStream, CrashInWrite,
     AtFrame, AtDispatch
<1>4. CASE WriteDataToStream
  <2>1. m_eSkip' = "eSkipNon"
    BY <1>4 DEF WriteDataToStream, FrameIsWritten, AtFrame, AtDispatch,
       AssertsHold, IInv, CompletedIsSound
  <2>2. sent' # <<>>
    BY <1>4 DEF WriteDataToStream, FrameIsWritten, IInv, TypeOK
  <2> QED BY <1>4, <2>1, <2>2 DEF WriteDataToStream, FrameIsWritten
<1>5. CASE UNCHANGED vars
  BY <1>5 DEF vars
<1> QED BY <1>1, <1>2, <1>3, <1>4, <1>5 DEF Next, Decode, Dispatch, Terminated

(* A healthy connection never waits for the terminal's next message with a *)
(* packet it could have parsed, unless it has just written a frame.        *)
THEOREM IdleConnectionHasNoWork == Spec => []IdleLeavesNoWork
<1>1. Init => DispatchInv /\ IdleLeavesNoWork
  BY DEF Init, DispatchInv, IdleLeavesNoWork, More, Readable,
     sm_nFirstReceiveBytes
<1> QED BY <1>1, IdleStep, Invariance, PTL DEF Spec

(* The fields are overwritten only once the frame is no longer waiting, or *)
(* with an error that keeps it from being written.                         *)
LEMMA LastPacketStep ==
  IInv /\ LastPacketInv /\ [Next]_vars => LastPacketInv'
<1> SUFFICES ASSUME IInv, LastPacketInv, [Next]_vars PROVE LastPacketInv'
  OBVIOUS
<1> USE DEF LastPacketInv, DescribesPacket, io, parser, kind
<1>1. CASE \/ OnMessage \/ PeerCloses \/ DecodeDone \/ AbortInDecode
           \/ NotComplete \/ AbortInDispatch \/ InitStream
           \/ InitStreamFails \/ CrashInWrite
  BY <1>1 DEF OnMessage, PeerCloses, DecodeDone, AbortInDecode, NotComplete,
     AbortInDispatch, InitStream, InitStreamFails, CrashInWrite, AtFrame,
     AtDispatch
<1>2. CASE \/ UnsupportedCoding \/ BadDataType \/ BadSubMark \/ Passthrough
           \/ BadLength \/ WriteDataToStream \/ WriteFails \/ Paser16
  BY <1>2 DEF UnsupportedCoding, BadDataType, BadSubMark, Passthrough,
     BadLength, WriteDataToStream, WriteFails, Paser16
<1>3. CASE BadMark
  BY <1>3 DEF BadMark, AtHeader, ClearedData, DecodeFails
<1>4. CASE PaserTheRestData
  BY <1>4 DEF PaserTheRestData, AtRest, ClearedData
<1>5. CASE DecodeBody
  <2>1. InPacket /\ m_eCurrentStat = "eReceiving"
    BY <1>5 DEF DecodeBody, BodyJoins, InPacket, IInv, PacketInv
  <2>2. /\ m_sData' # <<>>
        /\ m_sData'[Len(m_sData')] = m_iHeader
    BY <1>5 DEF DecodeBody, BodyJoins, IInv, TypeOK
  <2>3. /\ m_iHeader \in DOMAIN stream.pkt
        /\ m_eDataType = DataType(Hdr.DataType4)
        /\ m_eCodingType = AVCodingType(Hdr.PT7)
    BY <2>1 DEF IInv, PacketInv
  <2> QED BY <1>5, <2>2, <2>3 DEF DecodeBody, BodyJoins, Hdr
<1>6. CASE UNCHANGED vars
  BY <1>6 DEF vars
<1> QED BY <1>1, <1>2, <1>3, <1>4, <1>5, <1>6
        DEF Next, Decode, Dispatch, Terminated

(* Only WriteDataToStream adds to what has been sent.                      *)
LEMMA SentStep ==
  IInv /\ LastPacketInv /\ SentAsItsLastPacket /\ [Next]_vars
    => SentAsItsLastPacket'
<1> SUFFICES ASSUME IInv, LastPacketInv, SentAsItsLastPacket, [Next]_vars
             PROVE  SentAsItsLastPacket'
  OBVIOUS
<1> DEFINE w == [frame |-> m_sData, media |-> Media, coding |-> m_eCodingType]
<1>1. CASE WriteDataToStream
  <2>1. /\ sent' = Append(sent, w)
        /\ UNCHANGED stream
        /\ m_eCurrentStat = "eCompleted" /\ m_eErr = "eNoError"
    BY <1>1 DEF WriteDataToStream, FrameIsWritten, AtFrame, AtDispatch,
       AssertsHold, io
  <2> SUFFICES ASSUME NEW k \in DOMAIN sent', sent'[k].frame # <<>>
      PROVE  LET f == sent'[k].frame
                 last == stream.pkt[f[Len(f)]]
             IN /\ sent'[k].media = "video"
                     <=> DataType(last.DataType4) \in VideoTypes
                /\ sent'[k].coding = AVCodingType(last.PT7)
    BY <2>1 DEF SentAsItsLastPacket
  <2>2. \/ k \in DOMAIN sent /\ sent'[k] = sent[k]
        \/ sent'[k] = w
    <3>1. sent \in Seq(Writes)
      BY DEF IInv, TypeOK
    <3> QED BY <2>1, <3>1
  <2>3. CASE k \in DOMAIN sent /\ sent'[k] = sent[k]
    BY <2>3 DEF SentAsItsLastPacket
  <2>4. CASE sent'[k] = w
    <3>1. m_sData # <<>>
      BY <2>4
    <3>2. DescribesPacket(m_sData[Len(m_sData)])
      BY <2>1, <3>1 DEF LastPacketInv
    <3>3. w.media = "video" <=> m_eDataType \in VideoTypes
      BY DEF Media
    <3> QED BY <2>4, <3>2, <3>3 DEF DescribesPacket
  <2> QED BY <2>2, <2>3, <2>4
<1>2. CASE ~WriteDataToStream
  <2>1. UNCHANGED <<stream, sent>>
    BY <1>2 DEF Next, Decode, Dispatch, Terminated, vars, io, OnMessage,
       PeerCloses, DecodeDone, AbortInDecode, BadMark, UnsupportedCoding,
       BadDataType, BadSubMark, DecodeFails, Paser16, Passthrough, BadLength,
       PaserTheRestData, DecodeBody, BodyJoins, NotComplete, AbortInDispatch,
       InitStream, InitStreamFails, CrashInWrite, WriteFails, AtFrame,
       AtDispatch
  <2> QED BY <2>1 DEF SentAsItsLastPacket
<1> QED BY <1>1, <1>2

(* A frame that waited through a failed Init or write, while other headers *)
(* were parsed, is still written as what its own last packet says it is.   *)
THEOREM FramesSentAsTheirLastPacket == Spec => []SentAsItsLastPacket
<1>1. Init => LastPacketInv /\ SentAsItsLastPacket
  BY DEF Init, LastPacketInv, SentAsItsLastPacket
<1> QED BY <1>1, LastPacketStep, SentStep, Invariance, PTL DEF Spec

-----------------------------------------------------------------------------
(* The instance of FrameAssembly converts header fields the same way.      *)
LEMMA SameConversions ==
  \A x : /\ FA!AVCodingType(x) = AVCodingType(x)
         /\ FA!DataType(x) = DataType(x)
         /\ FA!SubMark(x) = SubMark(x)
         /\ FA!TailLen(x) = TailLen(x)
BY DEF FA!AVCodingType, AVCodingType, FA!DataType, DataType, FA!SubMark,
       SubMark, FA!TailLen, TailLen, FA!HEAD_BUFSIZE, HEAD_BUFSIZE,
       FA!sm_nFirstReceiveBytes, sm_nFirstReceiveBytes

(* A new decoder has taken and gathered nothing.                           *)
LEMMA InitRefines == Init => FA!Init
<1> SUFFICES ASSUME Init PROVE FA!Init
  OBVIOUS
<1>1. Taken = 0
  BY DEF Init, Taken, InPacket
<1>2. FramesSent = <<>>
  BY DEF Init, FramesSent
<1> QED BY <1>1, <1>2 DEF Init, FA!Init

(* A frame written is a frame emitted.                                     *)
LEMMA FramesSentAppend ==
  ASSUME sent \in Seq(Writes), NEW w \in Writes, sent' = Append(sent, w)
  PROVE  FramesSent' = Append(FramesSent, w.frame)
BY DEF FramesSent, Writes

(* Parser steps that fail give the connection up; the others, and those of *)
(* the socket, are invisible.                                              *)
LEMMA NextRefines == IInv /\ IInv' /\ [Next]_vars => [FA!Next]_FA!vars
<1> SUFFICES ASSUME IInv, IInv', [Next]_vars PROVE [FA!Next]_FA!vars
  OBVIOUS
<1> USE DEF IInv, io, parser, kind
<1>0. /\ TypeOK /\ TypeOK' /\ PacketInv /\ PacketInv'
      /\ pos \in Nat /\ pos' \in Nat /\ m_iHeader \in Nat
      /\ Taken \in Nat /\ Taken' \in 0..stream'.len
  <2>1. stream'.len \in Nat
    BY StreamLength DEF TypeOK
  <2> QED BY <2>1 DEF TypeOK, Taken, PacketInv
<1>1. CASE \/ OnMessage \/ PeerCloses \/ DecodeDone \/ AbortInDecode
           \/ NotComplete \/ AbortInDispatch \/ InitStream \/ CrashInWrite
  BY <1>1 DEF OnMessage, PeerCloses, DecodeDone, AbortInDecode, NotComplete,
     AbortInDispatch, InitStream, CrashInWrite, AtDispatch, AtFrame, FA!vars,
     Taken,
     InPacket, FramesSent
<1>2. CASE Paser16
  BY <1>2 DEF Paser16, AtCodedHeader, AtHeader, ClearedData, DataInv, FA!vars,
     Taken, InPacket, FramesSent, PhaseInv
<1>3. CASE PaserTheRestData
  BY <1>3 DEF PaserTheRestData, AtRest, ClearedData, DataInv, FA!vars, Taken,
     InPacket, FramesSent
<1>4. CASE \/ BadMark \/ UnsupportedCoding \/ BadDataType \/ BadSubMark
           \/ Passthrough \/ BadLength
  <2>1. shutdown' = TRUE /\ UNCHANGED <<stream, FramesSent>>
    BY <1>4 DEF BadMark, UnsupportedCoding, BadDataType, BadSubMark,
       Passthrough, BadLength, DecodeFails, FramesSent
  <2>2. m_sData' \in {m_sData, <<>>}
    BY <1>4 DEF BadMark, UnsupportedCoding, BadDataType, BadSubMark,
       Passthrough, BadLength, AtHeader, AtCodedHeader, AtRest, ClearedData
  <2>3. m_iHeader' = m_iHeader /\ m_eSkip' = m_eSkip /\ pc' = "idle"
    BY <1>4 DEF BadMark, UnsupportedCoding, BadDataType, BadSubMark,
       Passthrough, BadLength, DecodeFails
  <2>4. Taken' >= Taken
    <3>1. CASE BadMark \/ UnsupportedCoding
      <4>1. ~InPacket /\ pos <= pos'
        BY <1>0, <3>1 DEF BadMark, UnsupportedCoding, AtHeader, InPacket,
           HeadMarkBytes, CodingTypeBytes
      <4> QED BY <1>0, <2>3, <4>1 DEF Taken, InPacket
    <3>2. CASE BadDataType \/ BadSubMark
      BY <1>0, <2>3, <3>2 DEF BadDataType, BadSubMark, AtCodedHeader, AtHeader,
         Taken, InPacket, sm_nFirstReceiveBytes
    <3>3. CASE Passthrough
      BY <1>0, <2>3, <3>3 DEF Passthrough, AtRest, Taken, InPacket, PacketInv
    <3>4. CASE BadLength
      <4>1. InPacket
        BY <3>4 DEF BadLength, AtRest, InPacket
      <4>2. TailLen(Hdr.DataType4) \in {-1, 2, 10, 14}
        BY <1>0, <4>1, StreamPacket, HeaderFields DEF PacketInv, Hdr, TypeOK
      <4>3. m_iHeader + sm_nFirstReceiveBytes <= pos
        <5>1. m_eErr = "eNoError" /\ m_eSkip # "eSkipPaserTheRestData"
          BY <3>4 DEF BadLength, AtRest, PhaseInv
        <5> QED BY <1>0, <4>1, <5>1 DEF PacketInv, sm_nFirstReceiveBytes
      <4> QED BY <1>0, <2>3, <3>4, <4>1, <4>2, <4>3
              DEF BadLength, Taken, sm_nFirstReceiveBytes
    <3> QED BY <1>4, <3>1, <3>2, <3>3, <3>4
  <2>5. Taken' \in Taken..stream.len
    BY <1>0, <2>1, <2>4
  <2> QED BY <2>1, <2>2, <2>5 DEF FA!Next, FA!GiveUp
<1>5. CASE DecodeBody
  <2>1. /\ InPacket /\ Taken = m_iHeader
        /\ UNCHANGED <<stream, FramesSent, shutdown, m_iHeader>>
        /\ m_sData' = Append(m_sData, Taken)
    BY <1>5 DEF DecodeBody, BodyJoins, InPacket, Taken, FramesSent
  <2>2. FA!Takeable(Taken)
    <3>1. /\ m_iHeader \in DOMAIN stream.pkt
          /\ AVCodingType(Hdr.PT7) # "eUnSupport"
          /\ DataType(Hdr.DataType4) \in VideoTypes \cup {"eAudio"}
          /\ SubMark(Hdr.SubpackageHandleMark4) \in SubMarks
          /\ Hdr.WdBodyLen <= JT1078_MAX_LENGTH
      BY <1>5, <2>1 DEF DecodeBody, BodyJoins, PacketInv, TypeOK, DataTypes
    <3> QED BY <2>1, <3>1, SameConversions
            DEF FA!Takeable, FA!Pkt, Hdr, FA!VideoTypes, VideoTypes,
                FA!SubMarks, SubMarks, FA!JT1078_MAX_LENGTH,
                JT1078_MAX_LENGTH
  <2>3. FA!Finished(m_sData) => shutdown
    BY <2>1 DEF DataInv, PacketInv
  <2>4. Taken' = FA!PacketEnd(Taken)
    <3>1. Taken' = pos + m_iRecvLen
      BY <1>5 DEF DecodeBody, BodyJoins, Taken, InPacket
    <3>2. /\ m_iRecvLen = Hdr.WdBodyLen
          /\ pos = m_iHeader + sm_nFirstReceiveBytes + TailLen(Hdr.DataType4)
      BY <1>5, <2>1 DEF DecodeBody, BodyJoins, PacketInv
    <3> QED BY <2>1, <3>1, <3>2, SameConversions
            DEF FA!PacketEnd, FA!Pkt, Hdr, FA!sm_nFirstReceiveBytes,
                sm_nFirstReceiveBytes
  <2>5. FA!PacketEnd(Taken) <= stream.len
    BY <1>0, <2>1, <2>4, StreamLength DEF TypeOK
  <2> QED BY <2>1, <2>2, <2>3, <2>4, <2>5 DEF FA!Next, FA!Take
<1>6. CASE InitStreamFails \/ WriteFails
  <2>1. /\ shutdown' = TRUE /\ m_sData' \in {m_sData, <<>>}
        /\ UNCHANGED <<stream, FramesSent, Taken>>
    BY <1>6 DEF InitStreamFails, WriteFails, AtFrame, AtDispatch, Taken,
       InPacket, FramesSent
  <2> QED BY <1>0, <2>1, StreamLength DEF FA!Next, FA!GiveUp, TypeOK
<1>7. CASE WriteDataToStream
  <2>1. /\ m_eCurrentStat = "eCompleted" /\ m_sData' = <<>>
        /\ UNCHANGED <<stream, Taken, shutdown>>
    BY <1>7 DEF WriteDataToStream, FrameIsWritten, AtFrame, AtDispatch, Taken,
                InPacket
  <2>2. FramesSent' = Append(FramesSent, m_sData)
    <3>1. Media \in {"video", "audio"}
      BY DEF Media
    <3>2. [frame |-> m_sData, media |-> Media, coding |-> m_eCodingType]
            \in Writes
      BY <3>1 DEF TypeOK, Writes
    <3> QED BY <1>7, <3>2, FramesSentAppend DEF WriteDataToStream,
           FrameIsWritten, TypeOK
  <2>3. FA!Finished(m_sData) \/ (shutdown /\ m_sData = <<>>)
    BY <2>1 DEF CompletedInv
  <2> QED BY <2>1, <2>2, <2>3 DEF FA!Next, FA!Emit
<1>8. CASE UNCHANGED vars
  BY <1>8 DEF vars, FA!vars, Taken, InPacket, FramesSent
<1> QED
  BY <1>1, <1>2, <1>3, <1>4, <1>5, <1>6, <1>7, <1>8
     DEF Next, Decode, Dispatch, Terminated

(* The server's decoder, with its buffer, phases and dispatcher, keeps the *)
(* promise of FrameAssembly.                                               *)
THEOREM SessionImplementsFrameAssembly == Spec => ImplementsFrameAssembly
BY InitRefines, NextRefines, Invariance, PTL
   DEF Spec, FA!Spec, ImplementsFrameAssembly

FAP == INSTANCE FrameAssemblyProofs WITH
         at <- Taken, frame <- m_sData, out <- FramesSent, degraded <- shutdown

(* FAP brings its own copy of every definition of FrameAssembly.           *)
LEMMA SameAssembly ==
  \A o : /\ FA!Takeable(o) <=> FAP!Takeable(o)
         /\ FA!PacketEnd(o) = FAP!PacketEnd(o)
         /\ FA!EndsFrame(o) <=> FAP!EndsFrame(o)
         /\ FA!Finished(o) <=> FAP!Finished(o)
BY DEF FA!Takeable, FAP!Takeable, FA!PacketEnd, FAP!PacketEnd,
   FA!EndsFrame, FAP!EndsFrame, FA!Finished, FAP!Finished, FA!Pkt, FAP!Pkt,
   FA!AVCodingType, FAP!AVCodingType, FA!DataType, FAP!DataType,
   FA!SubMark, FAP!SubMark, FA!TailLen, FAP!TailLen,
   FA!VideoTypes, FAP!VideoTypes, FA!SubMarks, FAP!SubMarks,
   FA!ClosingMarks, FAP!ClosingMarks, FA!JT1078_MAX_LENGTH,
   FAP!JT1078_MAX_LENGTH, FA!HEAD_BUFSIZE, FAP!HEAD_BUFSIZE,
   FA!sm_nFirstReceiveBytes, FAP!sm_nFirstReceiveBytes

(* So they have the same behaviours.                                       *)
LEMMA SameSpec == FA!Spec => FAP!Spec
<1>1. FA!Init => FAP!Init
  BY DEF FA!Init, FAP!Init
<1>2. [FA!Next]_FA!vars => [FAP!Next]_FAP!vars
  BY SameAssembly DEF FA!Next, FAP!Next, FA!vars, FAP!vars, FA!Take, FAP!Take,
     FA!Emit, FAP!Emit, FA!GiveUp, FAP!GiveUp
<1> QED BY <1>1, <1>2, PTL DEF FA!Spec, FAP!Spec

(* And they agree on what a stream is.                                     *)
LEMMA SameStreams == \A s \in Streams : FAP!IsStream(s)
BY StreamsAssumption DEF IsStream, FAP!IsStream, Packet, FAP!Packet,
   uint16_t, FAP!uint16_t

(* Hence nothing is lost, repeated or put in the wrong frame while the     *)
(* server is content with the connection.                                  *)
THEOREM SessionLossless == Spec => []Lossless
<1>1. FAP!Spec => []FAP!Lossless
  BY FAP!FramesLossless, SameStreams, PTL
<1>2. FAP!Lossless => Lossless
  BY SameAssembly DEF Lossless, FA!Lossless, FAP!Lossless, FA!Chain, FAP!Chain,
     FA!FrameEnd, FAP!FrameEnd
<1> QED BY <1>1, <1>2, SameSpec, SessionImplementsFrameAssembly, PTL
        DEF ImplementsFrameAssembly

(* And no packet leaves twice or after a later one, ever.                  *)
THEOREM SessionInOrder == Spec => []InOrder
<1>1. FAP!Spec => []FAP!InOrder
  BY FAP!FramesInOrder, SameStreams, PTL
<1>2. FAP!InOrder => InOrder
  BY DEF InOrder, FA!InOrder, FAP!InOrder, FA!Rising, FAP!Rising,
     FA!Precedes, FAP!Precedes
<1> QED BY <1>1, <1>2, SameSpec, SessionImplementsFrameAssembly, PTL
        DEF ImplementsFrameAssembly
=============================================================================
