----------------------------- MODULE JT1078Wire -----------------------------
(***************************************************************************)
(* The JT/T 1078 byte stream as CDecoder reads it.                         *)
(*                                                                         *)
(* A stream is a record                                                    *)
(*   len : the number of bytes the terminal sends on the connection;       *)
(*   pkt : a function from the offsets at which the four bytes of the      *)
(*         frame-head mark 0x30316364 stand to the packet found there.     *)
(* At every other offset a 4-byte read yields something else.  A packet    *)
(* keeps the header fields that decide the control flow of CDecoder; the   *)
(* other header fields and the bytes of the body are abstracted, and a     *)
(* body is named by the offset of its packet.                              *)
(***************************************************************************)
EXTENDS Integers

sm_nFirstReceiveBytes == 16     \* the fixed first part of a header
HEAD_BUFSIZE == 30              \* sizeof(JT_1078_HEADER), packed
JT1078_MAX_LENGTH == 950

HeadMarkBytes == 4              \* readInt32 of DWFramHeadMark
CodingTypeBytes == 6            \* mark, V2/P1/X1/CC4 byte, M1/PT7 byte

uint16_t == 0..(256 * 256 - 1)

Packet == [PT7 : 0..127, DataType4 : 0..15, SubpackageHandleMark4 : 0..15,
           WdBodyLen : uint16_t]

IsStream(s) == /\ s.len \in Nat
               /\ DOMAIN s.pkt \subseteq Nat
               /\ \A o \in DOMAIN s.pkt : s.pkt[o] \in Packet

CONSTANT Streams      \* what a terminal may send on its connection

ASSUME StreamsAssumption == \A s \in Streams : IsStream(s)

-----------------------------------------------------------------------------
(* The conversions of header fields, one per switch statement of CDecoder. *)

AVCodingType(pt) == IF pt = 6 THEN "eG711A"
                    ELSE IF pt = 7 THEN "eG711U"
                    ELSE IF pt = 26 THEN "eAdpcm"
                    ELSE IF pt = 98 THEN "eH264"
                    ELSE "eUnSupport"

DataType(dt) == IF dt = 0 THEN "eVideoI"
                ELSE IF dt = 1 THEN "eVideoP"
                ELSE IF dt = 2 THEN "eVideoB"
                ELSE IF dt = 3 THEN "eAudio"
                ELSE IF dt = 4 THEN "ePassthrough"
                ELSE "none"

SubMark(m) == IF m = 0 THEN "eAtomic"
              ELSE IF m = 1 THEN "eFirst"
              ELSE IF m = 2 THEN "eLast"
              ELSE IF m = 3 THEN "eIntermediate"
              ELSE "none"

(* Header bytes left after the first part: the audio header has no frame   *)
(* intervals, the passthrough header has no time stamp either.             *)
TailLen(dt) == LET nRemaining == HEAD_BUFSIZE - sm_nFirstReceiveBytes
               IN  IF dt \in 0..2 THEN nRemaining
                   ELSE IF dt = 3 THEN nRemaining - 2 - 2
                   ELSE IF dt = 4 THEN nRemaining - 8 - 2 - 2
                   ELSE -1

CodingTypes == {"eG711A", "eG711U", "eAdpcm", "eH264", "eUnSupport"}
VideoTypes == {"eVideoI", "eVideoP", "eVideoB"}
DataTypes == VideoTypes \cup {"eAudio", "ePassthrough"}
SubMarks == {"eAtomic", "eFirst", "eLast", "eIntermediate"}
ClosingMarks == {"eAtomic", "eLast"}
=============================================================================
