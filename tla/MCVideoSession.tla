--------------------------- MODULE MCVideoSession ---------------------------
(***************************************************************************)
(* Streams for model checking VideoSession.  A stream is laid out from     *)
(* segments: a packet with the bytes it occupies, or bytes without a mark. *)
(* Bodies are 0 to 2 bytes long, shorter and not shorter than what the     *)
(* decoder keeps back, and reads may end at any byte.                      *)
(***************************************************************************)
EXTENDS VideoSession, FiniteSets

Seg(pt, dt, mark, len, size) ==
  [size |-> size, marked |-> TRUE,
   packet |-> [PT7 |-> pt, DataType4 |-> dt, SubpackageHandleMark4 |-> mark,
               WdBodyLen |-> len]]
Video(dt, mark, len) == Seg(98, dt, mark, len, 30 + len)
Audio(pt, mark, len) == Seg(pt, 3, mark, len, 26 + len)
Noise(n) == [size |-> n, marked |-> FALSE]

Start(segs, i) ==
  LET f[j \in 1..Len(segs) + 1] ==
        IF j = 1 THEN 0 ELSE f[j - 1] + segs[j - 1].size
  IN f[i]

Layout(segs) ==
  LET marked == {i \in DOMAIN segs : segs[i].marked}
  IN [len |-> Start(segs, Len(segs) + 1),
      pkt |-> [o \in {Start(segs, i) : i \in marked} |->
                 segs[CHOOSE i \in marked : Start(segs, i) = o].packet]]

Atomic == Video(0, 0, 1)
First == Video(1, 1, 2)
Middle == Video(1, 3, 0)
Last == Video(2, 2, 0)
Voice == Audio(6, 0, 1)
Adpcm(len) == Audio(26, 0, len)
VoiceFirst == Audio(6, 1, 1)
VoiceLast == Audio(7, 2, 0)

Good == {Atomic, First, Last, Voice, VoiceLast}

VoiceInH264 == Audio(98, 0, 0)
OddCoding == Seg(99, 0, 0, 1, 31)
OddType == Seg(98, 5, 0, 1, 31)
OddSubMark == Seg(98, 0, 4, 1, 31)
Opaque == Seg(98, 4, 0, 1, 19)
TooLong == Seg(98, 0, 0, 951, 30)

Bad == {VoiceInH264, Adpcm(7), OddCoding, OddType, OddSubMark, Opaque, TooLong,
        Noise(4), Noise(6)}

(* Frames in one packet and in several, empty bodies at either end, a      *)
(* video frame with an audio packet in it, and a byte or none after the    *)
(* last packet.                                                            *)
GoodStreams ==
  {Layout(<<a, b, Noise(1)>>) : a, b \in Good}
    \cup {Layout(<<First, Middle, Last, Atomic, Noise(1)>>),
          Layout(<<First, VoiceFirst, Middle, VoiceLast, Noise(1)>>),
          Layout(<<Atomic, Voice, Atomic, Atomic>>),
          Layout(<<Audio(26, 1, 4), Audio(26, 2, 4), Adpcm(8), Noise(1)>>)}

(* Each kind of bad packet after a finished frame, inside an unfinished    *)
(* frame, or first, and good packets after it.                             *)
BadStreams ==
  {Layout(<<a, b, c, Noise(1)>>) : a \in {Atomic, First}, b \in Bad,
                                   c \in {Atomic, Last}}
    \cup {Layout(<<b, Voice, Noise(17)>>) : b \in Bad}

MCStreams == GoodStreams \cup BadStreams
=============================================================================
