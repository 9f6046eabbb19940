---------------------------- MODULE FrameAssembly ----------------------------
(***************************************************************************)
(* What the decoder of a connection promises, with no word about buffers,  *)
(* TCP segments or parser phases: the packets of the stream are taken one  *)
(* by one in the order they stand in it, bodies are gathered up to a       *)
(* packet marked atomic or last, and the frame so gathered is emitted to   *)
(* the RTMP stream.                                                        *)
(*                                                                         *)
(* The promise is kept while the server is content with the connection.    *)
(* Once it has half-closed it (degraded) it still reads what the terminal  *)
(* goes on sending, and may skip bytes, lose a frame, run a finished frame *)
(* into the next one, or emit an empty frame; it still never emits an      *)
(* unfinished one.                                                         *)
(***************************************************************************)
EXTENDS JT1078Wire, Sequences

VARIABLES
  stream,    \* the bytes the terminal sends
  at,        \* offset of the first packet that is not yet taken
  frame,     \* offsets of the packets gathered since the last frame
  out,       \* the frames emitted so far
  degraded   \* the server has asked for the connection to be closed

vars == <<stream, at, frame, out, degraded>>

Pkt(o) == stream.pkt[o]
Takeable(o) == /\ o \in DOMAIN stream.pkt
               /\ AVCodingType(Pkt(o).PT7) # "eUnSupport"
               /\ DataType(Pkt(o).DataType4) \in VideoTypes \cup {"eAudio"}
               /\ SubMark(Pkt(o).SubpackageHandleMark4) \in SubMarks
               /\ Pkt(o).WdBodyLen <= JT1078_MAX_LENGTH
PacketEnd(o) == o + sm_nFirstReceiveBytes + TailLen(Pkt(o).DataType4)
                  + Pkt(o).WdBodyLen
EndsFrame(o) == SubMark(Pkt(o).SubpackageHandleMark4) \in ClosingMarks
Finished(f) == f # <<>> /\ EndsFrame(f[Len(f)])

Init == /\ stream \in Streams
        /\ at = 0
        /\ frame = <<>>
        /\ out = <<>>
        /\ degraded = FALSE

Take == /\ Takeable(at)
        /\ PacketEnd(at) <= stream.len
        /\ Finished(frame) => degraded
        /\ frame' = Append(frame, at)
        /\ at' = PacketEnd(at)
        /\ UNCHANGED <<stream, out, degraded>>

Emit == /\ Finished(frame) \/ (degraded /\ frame = <<>>)
        /\ out' = Append(out, frame)
        /\ frame' = <<>>
        /\ UNCHANGED <<stream, at, degraded>>

GiveUp == /\ degraded' = TRUE
          /\ frame' \in {frame, <<>>}
          /\ at' \in at..stream.len
          /\ UNCHANGED <<stream, out>>

Next == Take \/ Emit \/ GiveUp

Spec == Init /\ [][Next]_vars
-----------------------------------------------------------------------------
(* The packets of f follow each other in the stream, from offset a to b.   *)
Chain(f, a, b) ==
  IF f = <<>> THEN a = b
  ELSE /\ f[1] = a
       /\ PacketEnd(f[Len(f)]) = b
       /\ \A i \in 2..Len(f) : f[i] = PacketEnd(f[i - 1])

FrameEnd(o, k) == IF k = 0 THEN 0 ELSE PacketEnd(o[k][Len(o[k])])

(* Until the server gives the connection up, the frames emitted and the    *)
(* packets gathered are together all the packets of the stream up to the   *)
(* reading position, in order, none lost, none repeated, none skipped, and *)
(* every emitted frame is cut at exactly the packets marked atomic or last.*)
Lossless ==
  ~degraded =>
    /\ \A k \in 1..Len(out) :
         /\ out[k] # <<>>
         /\ Chain(out[k], FrameEnd(out, k - 1), FrameEnd(out, k))
         /\ \A i \in 1..Len(out[k]) : EndsFrame(out[k][i]) <=> i = Len(out[k])
    /\ Chain(frame, FrameEnd(out, Len(out)), at)

(* Degraded or not, no packet is emitted twice and none after a later one. *)
Precedes(f, g) == \A i \in 1..Len(f), j \in 1..Len(g) : f[i] < g[j]
Rising(f) == \A i, j \in 1..Len(f) : i < j => f[i] < f[j]

InOrder ==
  /\ \A k \in 1..Len(out) : Rising(out[k]) /\ Precedes(out[k], frame)
  /\ \A k, l \in 1..Len(out) : k < l => Precedes(out[k], out[l])
  /\ Rising(frame)
=============================================================================
