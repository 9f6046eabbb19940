------------------------ MODULE FrameAssemblyProofs ------------------------
(***************************************************************************)
(* What FrameAssembly promises: until the connection is given up no packet *)
(* is lost, repeated or put in the wrong frame, and packets leave in the   *)
(* order of the stream even afterwards.                                    *)
(***************************************************************************)
EXTENDS FrameAssembly, TLAPS

FTypeOK == /\ stream \in Streams
           /\ at \in Nat
           /\ frame \in Seq(Nat)
           /\ out \in Seq(Seq(Nat))
           /\ degraded \in BOOLEAN

(* Whatever has been taken stands before the reading position.             *)
Behind(f) == \A i \in 1..Len(f) : f[i] < at
BehindInv == /\ Behind(frame)
             /\ \A k \in 1..Len(out) : Behind(out[k])

(* Only the last packet of the frame at hand may end it.                   *)
OpenInv == ~degraded => \A i \in 1..(Len(frame) - 1) : ~EndsFrame(frame[i])

OrderInv == FTypeOK /\ BehindInv /\ InOrder
LosslessInv == FTypeOK /\ OpenInv /\ Lossless

(* The body of a packet has a length, and what can be taken has a tail.    *)
LEMMA HeaderLengths ==
  ASSUME NEW p \in Packet, DataType(p.DataType4) # "none"
  PROVE  TailLen(p.DataType4) \in {2, 10, 14} /\ p.WdBodyLen \in Nat
<1>1. p.DataType4 \in 0..15
  BY DEF Packet
<1>2. TailLen(p.DataType4) \in {2, 10, 14}
  BY <1>1 DEF TailLen, DataType, HEAD_BUFSIZE, sm_nFirstReceiveBytes
<1>3. p.WdBodyLen \in Nat
  <2>1. p.WdBodyLen \in uint16_t
    BY DEF Packet
  <2>2. \A n \in uint16_t : n \in Nat
    BY DEF uint16_t
  <2> QED BY <2>1, <2>2
<1> QED BY <1>2, <1>3

(* The length of a stream is a number.                                     *)
LEMMA StreamLength == ASSUME NEW s \in Streams PROVE s.len \in Nat
BY StreamsAssumption DEF IsStream

(* The sequence facts the proofs need.                                     *)
LEMMA AppendFacts ==
  ASSUME NEW S, NEW f \in Seq(S), NEW e \in S
  PROVE  /\ Append(f, e) \in Seq(S)
         /\ Append(f, e) # <<>>
         /\ Len(Append(f, e)) = Len(f) + 1
         /\ Append(f, e)[Len(Append(f, e))] = e
         /\ \A i \in 1..Len(f) : Append(f, e)[i] = f[i]
OBVIOUS

(* A packet that can be taken has a header and so moves the position.      *)
LEMMA TakeMoves ==
  ASSUME FTypeOK, Takeable(at)
  PROVE  PacketEnd(at) \in Nat /\ at < PacketEnd(at)
<1>1. Pkt(at) \in Packet
  BY StreamsAssumption DEF FTypeOK, Takeable, Pkt, IsStream
<1>2. TailLen(Pkt(at).DataType4) \in {2, 10, 14} /\ Pkt(at).WdBodyLen \in Nat
  <2>1. DataType(Pkt(at).DataType4) # "none"
    BY DEF Takeable, VideoTypes
  <2> QED BY <1>1, <2>1, HeaderLengths
<1> QED BY <1>2 DEF PacketEnd, FTypeOK, sm_nFirstReceiveBytes

(* A decoder that has read nothing yet has its types.                      *)
LEMMA InitTypeOK == Init => FTypeOK
<1> SUFFICES ASSUME Init PROVE FTypeOK
  OBVIOUS
<1>1. stream \in Streams /\ at \in Nat /\ degraded \in BOOLEAN
  BY DEF Init
<1>2. frame \in Seq(Nat) /\ out \in Seq(Seq(Nat))
  BY DEF Init
<1> QED BY <1>1, <1>2 DEF FTypeOK

(* Taking, emitting and giving up keep the types.                          *)
LEMMA TypeStep == FTypeOK /\ [Next]_vars => FTypeOK'
<1> SUFFICES ASSUME FTypeOK, [Next]_vars PROVE FTypeOK'
  OBVIOUS
<1>1. CASE Take
  <2>1. at' \in Nat
    BY <1>1, TakeMoves DEF Take
  <2>2. frame' \in Seq(Nat)
    BY <1>1, AppendFacts DEF Take, FTypeOK
  <2> QED BY <1>1, <2>1, <2>2 DEF Take, FTypeOK
<1>2. CASE Emit
  <2>1. out' \in Seq(Seq(Nat))
    BY <1>2, AppendFacts DEF Emit, FTypeOK
  <2>2. frame' = <<>> /\ UNCHANGED <<stream, at, degraded>>
    BY <1>2 DEF Emit
  <2>3. frame' \in Seq(Nat)
    BY <2>2
  <2>4. stream' \in Streams /\ at' \in Nat /\ degraded' \in BOOLEAN
    BY <2>2 DEF FTypeOK
  <2> QED BY <2>1, <2>3, <2>4 DEF FTypeOK
<1>3. CASE GiveUp
  <2>1. degraded' \in BOOLEAN
    BY <1>3 DEF GiveUp
  <2>3. frame' \in Seq(Nat)
    <3>1. frame \in Seq(Nat) /\ <<>> \in Seq(Nat)
      BY DEF FTypeOK
    <3> QED BY <1>3, <3>1 DEF GiveUp
  <2>4. at' \in Nat
    BY <1>3, StreamLength DEF GiveUp, FTypeOK
  <2>2. stream' \in Streams /\ out' \in Seq(Seq(Nat))
    BY <1>3 DEF GiveUp, FTypeOK
  <2> QED BY <2>1, <2>2, <2>3, <2>4 DEF FTypeOK
<1>4. CASE UNCHANGED vars
  BY <1>4 DEF vars, FTypeOK
<1> QED BY <1>1, <1>2, <1>3, <1>4 DEF Next

(* Packets are taken at a position that only moves forward, so each one    *)
(* taken stands behind all that were taken before.                         *)
LEMMA OrderStep == OrderInv /\ [Next]_vars => OrderInv'
<1> SUFFICES ASSUME OrderInv, [Next]_vars PROVE BehindInv' /\ InOrder'
  BY TypeStep DEF OrderInv
<1> USE DEF OrderInv
<1>1. CASE Take
  <2>1. /\ Len(frame') = Len(frame) + 1
        /\ frame'[Len(frame')] = at
        /\ \A i \in 1..Len(frame) : frame'[i] = frame[i]
        /\ Len(frame) \in Nat
    BY <1>1, AppendFacts DEF Take, FTypeOK
  <2>2. at \in Nat /\ at' \in Nat /\ at < at'
    BY <1>1, TakeMoves DEF Take, FTypeOK
  <2>3. \A i \in 1..Len(frame) : frame[i] \in Nat
    BY DEF FTypeOK
  <2>4. \A k \in 1..Len(out) : \A i \in 1..Len(out[k]) : out[k][i] \in Nat
    BY DEF FTypeOK
  <2>5. out' = out
    BY <1>1 DEF Take
  <2>6. Behind(frame)'
    BY <2>1, <2>2, <2>3 DEF BehindInv, Behind
  <2>7. ASSUME NEW k \in 1..Len(out) PROVE Behind(out[k])'
    BY <2>2, <2>4, <2>5 DEF BehindInv, Behind
  <2>8. Rising(frame')
    <3> SUFFICES ASSUME NEW i \in 1..Len(frame'), NEW j \in 1..Len(frame'),
                        i < j
                 PROVE  frame'[i] < frame'[j]
      BY DEF Rising
    <3>1. i \in 1..Len(frame) /\ frame'[i] = frame[i] /\ frame[i] < at
      BY <2>1 DEF BehindInv, Behind
    <3>2. CASE j = Len(frame')
      BY <2>1, <3>1, <3>2
    <3>3. CASE j \in 1..Len(frame)
      BY <2>1, <3>1, <3>3 DEF InOrder, Rising
    <3> QED BY <2>1, <3>2, <3>3
  <2>9. ASSUME NEW k \in 1..Len(out) PROVE Precedes(out[k], frame')
    BY <2>1, <2>2, <2>4 DEF BehindInv, Behind, InOrder, Precedes
  <2> QED BY <2>5, <2>6, <2>7, <2>8, <2>9 DEF BehindInv, InOrder
<1>2. CASE Emit
  <2>1. /\ Len(out') = Len(out) + 1
        /\ out'[Len(out')] = frame
        /\ \A k \in 1..Len(out) : out'[k] = out[k]
        /\ Len(out) \in Nat
    BY <1>2, AppendFacts DEF Emit, FTypeOK
  <2>2. frame' = <<>> /\ at' = at
    BY <1>2 DEF Emit
  <2>3. BehindInv'
    BY <2>1, <2>2 DEF BehindInv, Behind
  <2>4. Rising(frame') /\ \A k \in 1..Len(out') : Precedes(out'[k], frame')
    BY <2>2 DEF Rising, Precedes
  <2>5. \A k \in 1..Len(out') : Rising(out'[k])
    BY <2>1 DEF InOrder
  <2>6. \A k, l \in 1..Len(out') : k < l => Precedes(out'[k], out'[l])
    BY <2>1 DEF InOrder
  <2> QED BY <2>3, <2>4, <2>5, <2>6 DEF InOrder
<1>3. CASE GiveUp
  <2>1. out' = out /\ frame' \in {frame, <<>>} /\ at \in Nat /\ at' \in Nat
          /\ at <= at'
    BY <1>3 DEF GiveUp, FTypeOK
  <2>2. \A i \in 1..Len(frame) : frame[i] \in Nat
    BY DEF FTypeOK
  <2>3. \A k \in 1..Len(out) : \A i \in 1..Len(out[k]) : out[k][i] \in Nat
    BY DEF FTypeOK
  <2>4. Behind(frame)'
    BY <2>1, <2>2 DEF BehindInv, Behind
  <2>5. ASSUME NEW k \in 1..Len(out) PROVE Behind(out[k])'
    BY <2>1, <2>3 DEF BehindInv, Behind
  <2>6. BehindInv'
    BY <2>1, <2>4, <2>5 DEF BehindInv
  <2> QED BY <2>1, <2>6 DEF InOrder, Rising, Precedes
<1>4. CASE UNCHANGED vars
  BY <1>4 DEF vars, BehindInv, Behind, InOrder, Rising, Precedes
<1> QED BY <1>1, <1>2, <1>3, <1>4 DEF Next

(* While nothing is given up, a packet taken continues the chain of the    *)
(* last frame or of the packets gathered, and a frame emitted is the       *)
(* whole of what was gathered.                                             *)
LEMMA LosslessStep == LosslessInv /\ [Next]_vars => LosslessInv'
<1> SUFFICES ASSUME LosslessInv, [Next]_vars PROVE OpenInv' /\ Lossless'
  BY TypeStep DEF LosslessInv
<1> USE DEF LosslessInv
<1>1. CASE degraded'
  BY <1>1 DEF OpenInv, Lossless
<1>2. CASE ~degraded' /\ Take
  <2>1. /\ Len(frame') = Len(frame) + 1
        /\ frame' # <<>>
        /\ frame'[Len(frame')] = at
        /\ \A i \in 1..Len(frame) : frame'[i] = frame[i]
        /\ Len(frame) \in Nat
    BY <1>2, AppendFacts DEF Take, FTypeOK
  <2>2. ~degraded /\ UNCHANGED <<stream, out>> /\ at' = PacketEnd(at)
    BY <1>2 DEF Take
  <2>3. \A i \in 1..Len(frame) : ~EndsFrame(frame[i])
    BY <1>2, <2>1, <2>2 DEF Take, OpenInv, Finished, FTypeOK
  <2>4. OpenInv'
    BY <2>1, <2>2, <2>3 DEF OpenInv, EndsFrame, Pkt
  <2>5. Chain(frame, FrameEnd(out, Len(out)), at)
    BY <2>2 DEF Lossless
  <2>6. Chain(frame', FrameEnd(out, Len(out)), at')
    <3>1. CASE frame = <<>>
      BY <2>1, <2>2, <2>5, <3>1 DEF Chain
    <3>2. CASE frame # <<>>
      <4>1. Len(frame) > 0
        BY <3>2 DEF FTypeOK
      <4> QED BY <2>1, <2>2, <2>5, <3>2, <4>1 DEF Chain
    <3> QED BY <3>1, <3>2
  <2>7. Lossless'
    BY <2>2, <2>6
       DEF Lossless, Chain, FrameEnd, PacketEnd, EndsFrame, Pkt
  <2> QED BY <2>4, <2>7
<1>3. CASE ~degraded' /\ Emit
  <2>1. /\ Len(out') = Len(out) + 1
        /\ out'[Len(out')] = frame
        /\ \A k \in 1..Len(out) : out'[k] = out[k]
        /\ Len(out) \in Nat
    BY <1>3, AppendFacts DEF Emit, FTypeOK
  <2>2. ~degraded /\ UNCHANGED <<stream, at>> /\ frame' = <<>>
          /\ Finished(frame)
    BY <1>3 DEF Emit
  <2>3. OpenInv'
    BY <2>2 DEF OpenInv
  <2>4. \A k \in 0..Len(out) : FrameEnd(out', k) = FrameEnd(out, k)
    BY <2>1 DEF FrameEnd
  <2>5. /\ Chain(frame, FrameEnd(out, Len(out)), at)
        /\ frame # <<>>
        /\ at = PacketEnd(frame[Len(frame)])
        /\ EndsFrame(frame[Len(frame)])
    BY <2>2 DEF Lossless, Chain, Finished
  <2>6. FrameEnd(out', Len(out')) = at
    BY <2>1, <2>5 DEF FrameEnd
  <2>7. ASSUME NEW k \in 1..Len(out')
        PROVE  /\ out'[k] # <<>>
               /\ Chain(out'[k], FrameEnd(out', k - 1), FrameEnd(out', k))
               /\ \A i \in 1..Len(out'[k]) :
                    EndsFrame(out'[k][i]) <=> i = Len(out'[k])
    <3>1. CASE k \in 1..Len(out)
      BY <2>1, <2>2, <2>4, <3>1 DEF Lossless
    <3>2. CASE k = Len(out')
      <4>1. \A i \in 1..Len(frame) : EndsFrame(frame[i]) <=> i = Len(frame)
        BY <2>2, <2>5 DEF OpenInv, FTypeOK
      <4>2. /\ FrameEnd(out', k - 1) = FrameEnd(out, Len(out))
            /\ FrameEnd(out', k) = at
            /\ out'[k] = frame
        BY <2>1, <2>4, <2>6, <3>2
      <4> QED BY <2>5, <4>1, <4>2
    <3> QED BY <2>1, <3>1, <3>2
  <2>8. Chain(frame', FrameEnd(out', Len(out')), at')
    BY <2>2, <2>6 DEF Chain
  <2>9. Lossless'
    BY <2>2, <2>7, <2>8 DEF Lossless, Chain, FrameEnd, PacketEnd, EndsFrame,
                            Pkt
  <2> QED BY <2>3, <2>9
<1>4. CASE ~degraded' /\ UNCHANGED vars
  BY <1>4 DEF vars, OpenInv, Lossless, Chain, FrameEnd, PacketEnd, EndsFrame,
              Pkt
<1> QED BY <1>1, <1>2, <1>3, <1>4 DEF Next, GiveUp

-----------------------------------------------------------------------------
(* No packet is emitted twice or after a later one.                        *)
THEOREM FramesInOrder == Spec => []InOrder
<1>1. Init => OrderInv
  <2> SUFFICES ASSUME Init PROVE OrderInv
    OBVIOUS
  <2>1. FTypeOK
    BY InitTypeOK
  <2>2. frame = <<>> /\ out = <<>>
    BY DEF Init
  <2> QED BY <2>1, <2>2 DEF OrderInv, BehindInv, Behind, InOrder, Rising,
                            Precedes
<1>2. OrderInv => InOrder
  BY DEF OrderInv
<1> QED BY <1>1, <1>2, OrderStep, PTL DEF Spec

(* Until the connection is given up, what has been emitted and what is     *)
(* being gathered is exactly what the stream holds up to here.             *)
THEOREM FramesLossless == Spec => []Lossless
<1>1. Init => LosslessInv
  <2> SUFFICES ASSUME Init PROVE LosslessInv
    OBVIOUS
  <2>1. FTypeOK
    BY InitTypeOK
  <2>2. frame = <<>> /\ out = <<>> /\ at = 0
    BY DEF Init
  <2> QED BY <2>1, <2>2 DEF LosslessInv, OpenInv, Lossless, Chain, FrameEnd
<1>2. LosslessInv => Lossless
  BY DEF LosslessInv
<1> QED BY <1>1, <1>2, LosslessStep, PTL DEF Spec
=============================================================================
