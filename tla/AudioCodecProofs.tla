-------------------------- MODULE AudioCodecProofs --------------------------
(***************************************************************************)
(* Proofs about the ADPCM and G.711 codecs, for every signal.  The ADPCM   *)
(* decoder stays in step with the coder over a frame of any length, fades  *)
(* into it when the frame misstates the coder's state, and the coder meets *)
(* a sample to half a quantum.  Both laws of G.711 are as accurate as the  *)
(* steps of a segment, and repeating them changes nothing.                 *)
(***************************************************************************)
EXTENDS Adpcm, G711, TLAPS

-----------------------------------------------------------------------------
(* Adpcm: what its operators yield.                                        *)

(* The range of a short, without its limits written out.                   *)
LEMMA ShortRange ==
  \A x : x \in short <=> x \in Int /\ -(2 ^ 15) <= x /\ x < 2 ^ 15
BY DEF short

(* The table holds 89 steps.                                               *)
LEMMA StepsAreNumbers == \A i \in 1..89 : stepsizeTable[i] \in Nat
<1>1. stepsizeTable \in Seq(Nat)
  BY DEF stepsizeTable
<1>2. Len(stepsizeTable) = 89
  BY DEF stepsizeTable
<1>. SUFFICES ASSUME NEW i \in 1..89 PROVE stepsizeTable[i] \in Nat
  OBVIOUS
<1>3. i \in 1..Len(stepsizeTable)
  BY <1>2
<1>. QED  BY <1>1, <1>3

(* Clamping brings a prediction to 16 bits, and no further from any sample *)
(* than it was.                                                            *)
LEMMA ClampedValue ==
  ASSUME NEW v \in Int
  PROVE  /\ ClampValue(v) \in short
         /\ \A x \in short : Abs(x - ClampValue(v)) <= Abs(x - v)
<1>1. ClampValue(v) \in short
  BY DEF ClampValue, short
<1>2. ASSUME NEW x \in short
      PROVE  Abs(x - ClampValue(v)) <= Abs(x - v)
  BY DEF ClampValue, Abs, short
<1>. QED  BY <1>1, <1>2

(* Clamping brings indices into the table, and two that moved alike no     *)
(* further from each other than they were.                                 *)
LEMMA ClampedIndex ==
  ASSUME NEW a \in Int, NEW b \in Int, NEW d \in Int
  PROVE  /\ ClampIndex(a) \in 0..88
         /\ Abs(ClampIndex(a + d) - ClampIndex(b + d)) <= Abs(a - b)
BY DEF ClampIndex, Abs

(* The decoder's step on a code is the coder's, though the coder halves    *)
(* the step as it goes; and what the code leaves of the difference is      *)
(* bounded by the step.                                                    *)
LEMMA CodeIsDecoded ==
  ASSUME NEW state \in States, NEW val \in short
  PROVE  LET c == Code(state, val)
         IN /\ c.delta \in 0..15
            /\ c.state = Decoded(state, Step(state), c.delta)
            /\ c.state \in States
            /\ LET step == Step(state)
                   diff == Abs(val - state.valprev)
               IN /\ diff < 2 * step
                       => 8 * Abs(val - c.state.valprev) <= step + 24
                  /\ Abs(val - c.state.valprev) <= diff + step \div 8
<1>. DEFINE step == Step(state)
            diff == Abs(val - state.valprev)
            bit4 == diff >= step
            rest4 == IF bit4 THEN diff - step ELSE diff
            bit2 == rest4 >= step \div 2
            rest2 == IF bit2 THEN rest4 - step \div 2 ELSE rest4
            bit1 == rest2 >= (step \div 2) \div 2
            vpdiff == HalfQuantum(step) + (IF bit4 THEN step ELSE 0)
                  + (IF bit2 THEN step \div 2 ELSE 0)
                  + (IF bit1 THEN (step \div 2) \div 2 ELSE 0)
            negative == val < state.valprev
            delta == (IF negative THEN 8 ELSE 0) + (IF bit4 THEN 4 ELSE 0)
                 + (IF bit2 THEN 2 ELSE 0) + (IF bit1 THEN 1 ELSE 0)
            pred == IF negative THEN state.valprev - vpdiff
                    ELSE state.valprev + vpdiff
<1>1. Code(state, val)
        = [delta |-> delta,
           state |-> [valprev |-> ClampValue(pred),
                      index |-> ClampIndex(state.index + indexTable(delta))]]
  BY DEF Code
<1>2. /\ step \in Nat /\ state.valprev \in short /\ state.valprev \in Int
      /\ state.index \in 0..88 /\ val \in Int /\ diff \in Nat
  <2>1. state.valprev \in short /\ state.index \in 0..88
    BY DEF States
  <2>2. state.valprev \in Int /\ val \in Int
    BY <2>1, ShortRange
  <2>3. step \in Nat
    BY <2>1, StepsAreNumbers DEF Step
  <2>. QED  BY <2>1, <2>2, <2>3 DEF Abs
<1>3. delta \in 0..15 /\ vpdiff \in Int
  BY <1>2 DEF HalfQuantum
<1>4. vpdiff = Difference(step, delta) /\ (delta >= 8 <=> negative)
  <2>. HIDE DEF step, diff, negative
  <2>1. (step \div 2) \div 2 = step \div 4
    BY <1>2
  <2>2. delta >= 8 <=> negative
    OBVIOUS
  <2>3. /\ (delta \div 4) % 2 = 1 <=> bit4
        /\ (delta \div 2) % 2 = 1 <=> bit2
        /\ delta % 2 = 1 <=> bit1
    <3>. HIDE DEF bit4, bit2, bit1
    <3>. QED  OBVIOUS
  <2>. QED  BY <2>1, <2>2, <2>3 DEF Difference
<1>5. pred \in Int
  BY <1>2, <1>3
<1>6. Abs(val - pred) <= diff + step \div 8
  <2>. HIDE DEF step
  <2>. QED  BY <1>2 DEF HalfQuantum, Abs
<1>7. diff < 2 * step => 8 * Abs(val - pred) <= step + 24
  <2>. HIDE DEF step
  <2>. QED  BY <1>2 DEF HalfQuantum, Abs
<1>8. Abs(val - ClampValue(pred)) <= Abs(val - pred)
  BY <1>5, ClampedValue
<1>9. Code(state, val).state = Decoded(state, step, delta)
  <2>1. Decoded(state, step, delta)
          = [valprev |-> ClampValue(IF delta >= 8
                              THEN state.valprev - Difference(step, delta)
                              ELSE state.valprev + Difference(step, delta)),
             index |-> ClampIndex(state.index + indexTable(delta))]
    BY DEF Decoded
  <2>2. (IF delta >= 8 THEN state.valprev - Difference(step, delta)
                       ELSE state.valprev + Difference(step, delta)) = pred
    <3>. HIDE DEF step, delta, vpdiff, negative
    <3>. QED  BY <1>4
  <2>. HIDE DEF step, delta, pred, vpdiff, negative
  <2>. QED  BY <1>1, <2>1, <2>2
<1>10. Code(state, val).state \in States
  <2>. DEFINE v == ClampValue(pred)
              j == ClampIndex(state.index + indexTable(delta))
  <2>1. v \in short
    <3>. HIDE DEF pred
    <3>. QED  BY <1>5, ClampedValue
  <2>2. j \in 0..88
    <3>1. state.index + indexTable(delta) \in Int
      <4>. HIDE DEF delta
      <4>. QED  BY <1>2, <1>3 DEF indexTable
    <3>. QED  BY <3>1 DEF ClampIndex
  <2>3. Code(state, val).state = [valprev |-> v, index |-> j]
    <3>. HIDE DEF delta, pred
    <3>. QED  BY <1>1
  <2>. HIDE DEF v, j
  <2>. QED  BY <2>1, <2>2, <2>3 DEF States
<1>11. /\ Code(state, val).delta = delta
       /\ Code(state, val).state.valprev = ClampValue(pred)
  <2>. HIDE DEF delta, pred
  <2>. QED  BY <1>1
<1>12. /\ diff < 2 * step
           => 8 * Abs(val - ClampValue(pred)) <= step + 24
       /\ Abs(val - ClampValue(pred)) <= diff + step \div 8
  <2>1. ClampValue(pred) \in Int
    <3>. HIDE DEF pred
    <3>. QED  BY <1>5, ClampedValue, ShortRange
  <2>. HIDE DEF step, diff, pred
  <2>. QED  BY <1>2, <1>5, <1>6, <1>7, <1>8, <2>1 DEF Abs
<1>. QED
  <2>. HIDE DEF step, diff, delta, pred
  <2>. QED  BY <1>3, <1>9, <1>10, <1>11, <1>12 DEF step, diff

-----------------------------------------------------------------------------
(* The inductive invariant.                                                *)

(* Code n of the frame, whether its byte is finished or not.               *)
Put(n) == IF n \div 2 < Len(bytes) THEN Nibble(n) ELSE outputbuffer \div 16

(* Every code takes the coder from one state of its history to the next.   *)
CodesInv ==
  /\ coded # <<>>
  /\ coder = coded[Len(coded)]
  /\ \A n \in 0..(Coded - 1) :
       coded[n + 2] = Decoded(coded[n + 1], Step(coded[n + 1]), Put(n))

(* As many codes are put out as samples are coded; the last byte is filled *)
(* up.                                                                     *)
LengthInv ==
  /\ phase = "coding" =>
       /\ Coded = 2 * Len(bytes) + (IF outputbuffer = -1 THEN 0 ELSE 1)
       /\ outdata = <<>>
  /\ phase # "coding" =>
       /\ outputbuffer = -1
       /\ 2 * Len(bytes) - 1 <= Coded /\ Coded <= 2 * Len(bytes)
  /\ Len(outdata) <= 2 * Len(bytes)
  /\ phase = "done" => Len(outdata) = 2 * Len(bytes)

(* As far as the history goes the decoder has followed it: exactly when it *)
(* started there, otherwise no further from it than it started.            *)
DecoderInv ==
  /\ outdata = <<>> => decoder = header
  /\ header = coded[1] =>
       /\ \A i \in 1..Len(outdata) :
            i <= Coded => outdata[i] = coded[i + 1].valprev
       /\ Len(outdata) <= Coded => decoder = coded[Len(outdata) + 1]
  /\ outdata # <<>> => decoder.index \in 0..88
  /\ Len(outdata) <= Coded =>
       Abs(decoder.index - coded[Len(outdata) + 1].index)
         <= Abs(header.index - coded[1].index)

InputInv == Coded > 0 => coder = Code(input.met, input.val).state

IInv == TypeOK /\ CodesInv /\ LengthInv /\ DecoderInv /\ InputInv

-----------------------------------------------------------------------------
(* The sequence facts the proofs need.                                     *)
LEMMA AppendSample ==
  ASSUME NEW S, NEW f \in Seq(S), NEW e \in S
  PROVE  /\ Append(f, e) \in Seq(S)
         /\ Append(f, e) # <<>>
         /\ Len(Append(f, e)) = Len(f) + 1
         /\ Append(f, e)[Len(f) + 1] = e
         /\ \A i \in 1..Len(f) : Append(f, e)[i] = f[i]
OBVIOUS

(* An element of a sequence over S is one of S.                            *)
LEMMA Element ==
  ASSUME NEW S, NEW f \in Seq(S), NEW k \in 1..Len(f)
  PROVE  f[k] \in S
OBVIOUS

(* The states a decoder may be in include the coder's.                     *)
LEMMA StatesAreAdpcmStates == States \subseteq adpcm_state
<1>. SUFFICES ASSUME NEW s \in States PROVE s \in adpcm_state
  OBVIOUS
<1>1. \A i \in 0..88 : i \in -128..127
  OBVIOUS
<1>. HIDE DEF short
<1>. QED  BY <1>1 DEF States, adpcm_state

(* The fields of a state are numbers.                                      *)
LEMMA FieldsAreNumbers ==
  ASSUME NEW s \in adpcm_state
  PROVE  s.valprev \in Int /\ s.index \in Int
<1>1. \A i \in -128..127 : i \in Int
  OBVIOUS
<1>2. \A v \in short : v \in Int
  BY ShortRange
<1>. HIDE DEF short
<1>. QED  BY <1>1, <1>2, Zenon DEF adpcm_state

(* A new frame satisfies the invariant.                                    *)
LEMMA InitInv == Init => IInv
<1>. SUFFICES ASSUME Init PROVE IInv
  OBVIOUS
<1>1. coder \in States /\ decoder \in adpcm_state /\ header \in adpcm_state
  BY AdpcmAssumption, StatesAreAdpcmStates DEF Init
<1>2. coder.valprev \in short /\ coder.index \in Int
  <2>1. \A i \in 0..88 : i \in Int
    OBVIOUS
  <2>. QED  BY <1>1, <2>1 DEF States
<1>3. /\ bytes \in Seq(0..255) /\ Len(bytes) = 0
      /\ outdata \in Seq(short) /\ Len(outdata) = 0 /\ outdata = <<>>
  BY DEF Init
<1>4. /\ coded \in Seq(States) /\ coded # <<>> /\ Len(coded) = 1
      /\ coded[1] = coder
  BY <1>1 DEF Init
<1>5. TypeOK
  <2>1. input.val \in short /\ input.met \in States
    BY <1>1, <1>2 DEF Init
  <2>2. outputbuffer \in {-1} \cup {16 * d : d \in 0..15}
    BY DEF Init
  <2>3. phase \in {"coding", "decoding", "done"}
    BY DEF Init
  <2>. QED  BY <1>1, <1>3, <1>4, <2>1, <2>2, <2>3 DEF TypeOK
<1>6. CodesInv
  BY <1>4 DEF CodesInv, Coded
<1>7. LengthInv
  BY <1>3, <1>4 DEF LengthInv, Coded, Init
<1>8. DecoderInv
  <2>1. decoder = header /\ header = coder /\ decoder.index \in Int
    BY <1>2 DEF Init
  <2>2. Abs(decoder.index - coded[Len(outdata) + 1].index)
          <= Abs(header.index - coded[1].index)
    BY <1>2, <1>3, <1>4, <2>1 DEF Abs
  <2>. QED  BY <1>3, <1>4, <2>1, <2>2 DEF DecoderInv
<1>9. InputInv
  BY <1>4 DEF InputInv, Coded
<1>. QED  BY <1>5, <1>6, <1>7, <1>8, <1>9 DEF IInv

(* What a coded sample does to the codes put out.                          *)
LEMMA CodePut ==
  ASSUME IInv, NEW val \in Samples, CodeSample(val)
  PROVE  /\ bytes' \in Seq(0..255)
         /\ outputbuffer' \in {-1} \cup {16 * d : d \in 0..15}
         /\ Coded + 1 = 2 * Len(bytes') + (IF outputbuffer' = -1 THEN 0 ELSE 1)
         /\ \A n \in 0..(Coded - 1) : Put(n)' = Put(n)
         /\ \A n \in Nat : n = Coded => Put(n)' = Code(coder, val).delta
<1>. DEFINE c == Code(coder, val)
<1>0. PICK L \in Nat : L = Len(bytes)
  BY DEF IInv, TypeOK
<1>1. c.delta \in 0..15
  BY AdpcmAssumption, CodeIsDecoded DEF IInv, TypeOK
<1>2. /\ bytes \in Seq(0..255) /\ L \in Nat /\ L = Len(bytes)
      /\ outputbuffer \in {-1} \cup {16 * d : d \in 0..15}
      /\ Coded = 2 * L + (IF outputbuffer = -1 THEN 0 ELSE 1)
  BY <1>0 DEF IInv, TypeOK, LengthInv, CodeSample
<1>3. IF outputbuffer = -1
        THEN outputbuffer' = 16 * c.delta /\ bytes' = bytes
        ELSE /\ bytes' = Append(bytes, c.delta + outputbuffer)
             /\ outputbuffer' = -1
  BY Zenon DEF CodeSample
<1>. DEFINE d == c.delta
<1>. HIDE DEF d
<1>4. CASE outputbuffer = -1
  <2>1. /\ outputbuffer' = 16 * d /\ bytes' = bytes
        /\ d \in 0..15 /\ Coded = 2 * L
    BY <1>1, <1>2, <1>3, <1>4 DEF d
  <2>2. outputbuffer' # -1 /\ outputbuffer' \div 16 = d
    BY <2>1
  <2>3. ASSUME NEW n \in 0..(Coded - 1) PROVE Put(n)' = Put(n)
    <3>1. n \div 2 < L
      BY <1>2, <2>1
    <3>. QED  BY <1>0, <2>1, <3>1 DEF Put, Nibble
  <2>4. ASSUME NEW n \in Nat, n = Coded PROVE Put(n)' = d
    <3>1. ~(n \div 2 < L)
      BY <1>2, <2>1, <2>4
    <3>. QED  BY <1>2, <2>1, <2>2, <3>1 DEF Put
  <2>. QED  BY <1>2, <2>1, <2>2, <2>3, <2>4 DEF d
<1>5. CASE outputbuffer # -1
  <2>. DEFINE e == d + outputbuffer
  <2>1. /\ bytes' = Append(bytes, e) /\ outputbuffer' = -1 /\ d \in 0..15
        /\ Coded = 2 * L + 1
    BY <1>1, <1>2, <1>3, <1>5 DEF d
  <2>2. /\ e \in 0..255 /\ e \div 16 = outputbuffer \div 16 /\ e % 16 = d
    <3>1. PICK h \in 0..15 : outputbuffer = 16 * h
      BY <1>2, <1>5
    <3>. QED  BY <2>1, <3>1
  <2>. HIDE DEF e
  <2>3. /\ bytes' \in Seq(0..255) /\ Len(bytes') = L + 1 /\ bytes'[L + 1] = e
        /\ \A i \in 1..L : bytes'[i] = bytes[i]
    BY <1>2, <2>1, <2>2, AppendSample
  <2>4. ASSUME NEW n \in 0..(Coded - 1) PROVE Put(n)' = Put(n)
    <3>1. CASE n < 2 * L
      <4>1. n \div 2 + 1 \in 1..L /\ n \div 2 < L /\ n \div 2 < L + 1
        BY <1>2, <2>1, <3>1
      <4>2. bytes'[n \div 2 + 1] = bytes[n \div 2 + 1]
        BY <2>3, <4>1
      <4>. QED  BY <1>0, <2>3, <4>1, <4>2 DEF Put, Nibble
    <3>2. CASE n = 2 * L
      <4>1. n \div 2 = L /\ n % 2 = 0
        BY <1>2, <3>2
      <4>. QED  BY <1>2, <2>2, <2>3, <4>1 DEF Put, Nibble
    <3>. QED  BY <1>2, <2>1, <3>1, <3>2
  <2>5. ASSUME NEW n \in Nat, n = Coded PROVE Put(n)' = d
    <3>1. n \div 2 = L /\ n % 2 = 1
      BY <1>2, <2>1, <2>5
    <3>. QED  BY <1>2, <2>2, <2>3, <3>1 DEF Put, Nibble
  <2>. QED  BY <1>2, <2>1, <2>3, <2>4, <2>5 DEF d
<1>. QED  BY <1>4, <1>5

(* The coder's step lengthens its history by a state the code leads to.    *)
LEMMA CodeSampleInv ==
  ASSUME IInv, NEW val \in Samples, CodeSample(val)
  PROVE  IInv'
<1>. DEFINE c == Code(coder, val)
<1>1. val \in short /\ coder \in States
  BY AdpcmAssumption DEF IInv, TypeOK
<1>2. /\ c.delta \in 0..15 /\ c.state \in States
      /\ c.state = Decoded(coder, Step(coder), c.delta)
  BY <1>1, CodeIsDecoded
<1>3. /\ coder' = c.state /\ coded' = Append(coded, c.state)
      /\ input' = [val |-> val, met |-> coder]
      /\ UNCHANGED <<decoder, header, outdata, phase>> /\ phase = "coding"
  BY DEF CodeSample
<1>4. /\ bytes' \in Seq(0..255)
      /\ outputbuffer' \in {-1} \cup {16 * d : d \in 0..15}
      /\ Coded + 1 = 2 * Len(bytes') + (IF outputbuffer' = -1 THEN 0 ELSE 1)
      /\ \A n \in 0..(Coded - 1) : Put(n)' = Put(n)
      /\ \A n \in Nat : n = Coded => Put(n)' = c.delta
  BY CodePut
<1>. HIDE DEF c
<1>5. coded \in Seq(States) /\ coded # <<>> /\ coder = coded[Len(coded)]
  BY DEF IInv, TypeOK, CodesInv
<1>6. /\ coded' \in Seq(States) /\ coded' # <<>>
      /\ Len(coded') = Len(coded) + 1 /\ coded'[Len(coded) + 1] = c.state
      /\ \A i \in 1..Len(coded) : coded'[i] = coded[i]
  BY <1>2, <1>3, <1>5, AppendSample
<1>7. Len(coded) \in Nat \ {0} /\ 1 \in 1..Len(coded)
  BY <1>5
<1>8. Coded' = Coded + 1 /\ Coded = Len(coded) - 1 /\ Coded \in Nat
  BY <1>6, <1>7 DEF Coded
<1>9. TypeOK'
  <2>1. input'.val \in short /\ input'.met \in States
    BY <1>1, <1>3
  <2>. QED  BY <1>2, <1>3, <1>4, <1>6, <2>1 DEF IInv, TypeOK
<1>10. CodesInv'
  <2>1. coder' = coded'[Len(coded')]
    BY <1>3, <1>6
  <2>2. ASSUME NEW n \in 0..Coded
        PROVE  (coded[n + 2]
                  = Decoded(coded[n + 1], Step(coded[n + 1]), Put(n)))'
    <3>1. CASE n < Coded
      <4>1. /\ n \in 0..(Coded - 1)
            /\ n + 1 \in 1..Len(coded) /\ n + 2 \in 1..Len(coded)
        BY <1>8, <3>1
      <4>2. coded[n + 2] = Decoded(coded[n + 1], Step(coded[n + 1]), Put(n))
        BY <4>1 DEF IInv, CodesInv
      <4>3. /\ coded'[n + 1] = coded[n + 1] /\ coded'[n + 2] = coded[n + 2]
            /\ Put(n)' = Put(n)
        BY <1>4, <1>6, <4>1
      <4>4. Step(coded[n + 1])' = Step(coded[n + 1])
        BY <4>3 DEF Step
      <4>. QED  BY <4>2, <4>3, <4>4 DEF Decoded
    <3>2. CASE n = Coded
      <4>1. n + 1 = Len(coded) /\ n + 2 = Len(coded) + 1 /\ n \in Nat
            /\ Len(coded) \in 1..Len(coded)
        BY <1>7, <1>8, <3>2
      <4>2. /\ coded'[n + 1] = coder /\ coded'[n + 2] = c.state
            /\ Put(n)' = c.delta
        BY <1>4, <1>5, <1>6, <3>2, <4>1
      <4>3. Step(coded[n + 1])' = Step(coder)
        BY <4>2 DEF Step
      <4>. QED  BY <1>2, <4>2, <4>3 DEF Decoded
    <3>. QED  BY <1>8, <3>1, <3>2
  <2>3. \A n \in 0..(Coded' - 1) : n \in 0..Coded
    BY <1>8
  <2>. QED  BY <1>6, <2>1, <2>2, <2>3 DEF CodesInv
<1>11. outdata = <<>> /\ Len(outdata) = 0
  BY <1>3 DEF IInv, LengthInv
<1>12. LengthInv'
  <2>1. Len(bytes') \in Nat
    BY <1>4
  <2>2. Len(outdata') <= 2 * Len(bytes')
    BY <1>3, <1>11, <2>1
  <2>. QED  BY <1>3, <1>4, <1>8, <1>11, <2>2 DEF LengthInv
<1>13. DecoderInv'
  <2>1. decoder = header /\ coded'[1] = coded[1]
    BY <1>6, <1>7, <1>11 DEF IInv, DecoderInv
  <2>2. /\ header = coded[1] => decoder = coded[1]
        /\ Abs(decoder.index - coded[1].index)
             <= Abs(header.index - coded[1].index)
    BY <1>8, <1>11 DEF IInv, DecoderInv
  <2>. QED  BY <1>3, <1>8, <1>11, <2>1, <2>2 DEF DecoderInv, Abs
<1>14. InputInv'
  <2>1. input'.met = coder /\ input'.val = val
    BY <1>3
  <2>2. Code(input.met, input.val)' = c
    BY <2>1 DEF c, Code, Step
  <2>. QED  BY <1>3, <2>2 DEF InputInv
<1>. QED  BY <1>9, <1>10, <1>12, <1>13, <1>14 DEF IInv

(* Filling up the last byte changes no code, and whatever state the frame  *)
(* claims, the decoder starts there.                                       *)
LEMMA FinishCodingInv ==
  ASSUME IInv, FinishCoding
  PROVE  IInv'
<1>1. /\ bytes' = IF outputbuffer # -1
                  THEN Append(bytes, outputbuffer) ELSE bytes
      /\ outputbuffer' = -1 /\ header' \in {header} \cup Misstarts
      /\ decoder' = header' /\ phase = "coding" /\ phase' = "decoding"
      /\ UNCHANGED <<coder, coded, outdata, input>>
  BY DEF FinishCoding
<1>0. PICK L \in Nat : L = Len(bytes)
  BY DEF IInv, TypeOK
<1>2. /\ bytes \in Seq(0..255) /\ outdata = <<>> /\ Len(outdata) = 0
      /\ outputbuffer \in {-1} \cup {16 * d : d \in 0..15}
      /\ Coded = 2 * L + (IF outputbuffer = -1 THEN 0 ELSE 1)
  BY <1>0, <1>1 DEF IInv, TypeOK, LengthInv
<1>3. coded \in Seq(States) /\ coded # <<>> /\ Coded' = Coded
  BY <1>1 DEF IInv, TypeOK, CodesInv, Coded
<1>4. header' \in adpcm_state
  BY <1>1, AdpcmAssumption DEF IInv, TypeOK
<1>5. /\ bytes' \in Seq(0..255)
      /\ 2 * Len(bytes') - 1 <= Coded /\ Coded <= 2 * Len(bytes')
      /\ \A n \in 0..(Coded - 1) : Put(n)' = Put(n)
  <2>1. CASE outputbuffer = -1
    <3>1. bytes' = bytes /\ Coded = 2 * L
      BY <1>1, <1>2, <2>1
    <3>2. ASSUME NEW n \in 0..(Coded - 1) PROVE Put(n)' = Put(n)
      <4>1. n \div 2 < L
        BY <3>1
      <4>. QED  BY <1>0, <3>1, <4>1 DEF Put, Nibble
    <3>. QED  BY <1>0, <1>2, <3>1, <3>2
  <2>2. CASE outputbuffer # -1
    <3>1. PICK h \in 0..15 : outputbuffer = 16 * h
      BY <1>2, <2>2
    <3>2. bytes' = Append(bytes, outputbuffer) /\ Coded = 2 * L + 1
      BY <1>1, <1>2, <2>2
    <3>3. outputbuffer \in 0..255
      BY <3>1
    <3>4. /\ bytes' \in Seq(0..255) /\ Len(bytes') = L + 1
          /\ bytes'[L + 1] = outputbuffer
          /\ \A i \in 1..L : bytes'[i] = bytes[i]
      BY <1>0, <1>2, <3>2, <3>3, AppendSample
    <3>5. ASSUME NEW n \in 0..(Coded - 1) PROVE Put(n)' = Put(n)
      <4>1. CASE n < 2 * L
        <5>1. n \div 2 + 1 \in 1..L /\ n \div 2 < L /\ n \div 2 < L + 1
          BY <1>0, <3>2, <4>1
        <5>2. bytes'[n \div 2 + 1] = bytes[n \div 2 + 1]
          BY <3>4, <5>1
        <5>. QED  BY <1>0, <3>4, <5>1, <5>2 DEF Put, Nibble
      <4>2. CASE n = 2 * L
        <5>1. n \div 2 = L /\ n % 2 = 0
          BY <1>0, <4>2
        <5>. QED  BY <1>0, <3>4, <5>1 DEF Put, Nibble
      <4>. QED  BY <1>0, <3>2, <4>1, <4>2
    <3>. QED  BY <1>0, <3>2, <3>4, <3>5
  <2>. QED  BY <2>1, <2>2
<1>6. TypeOK'
  BY <1>1, <1>4, <1>5 DEF IInv, TypeOK
<1>7. CodesInv'
  <2>1. ASSUME NEW n \in 0..(Coded - 1)
        PROVE  (coded[n + 2]
                  = Decoded(coded[n + 1], Step(coded[n + 1]), Put(n)))'
    <3>1. coded[n + 2] = Decoded(coded[n + 1], Step(coded[n + 1]), Put(n))
      BY DEF IInv, CodesInv
    <3>2. Put(n)' = Put(n) /\ coded' = coded
      BY <1>1, <1>5
    <3>3. Step(coded[n + 1])' = Step(coded[n + 1])
      BY <3>2 DEF Step
    <3>. QED  BY <3>1, <3>2, <3>3 DEF Decoded
  <2>. QED  BY <1>1, <1>3, <2>1 DEF CodesInv, IInv
<1>8. LengthInv'
  <2>1. Len(outdata') <= 2 * Len(bytes')
    BY <1>1, <1>2, <1>5
  <2>. QED  BY <1>1, <1>3, <1>5, <2>1 DEF LengthInv
<1>9. DecoderInv'
  <2>1. coded[1] \in States /\ outdata' = <<>> /\ Len(outdata') = 0
    BY <1>1, <1>2, <1>3
  <2>2. header'.index \in Int /\ coded[1].index \in Int
    <3>1. coded[1] \in adpcm_state
      BY <2>1, StatesAreAdpcmStates
    <3>. QED  BY <1>4, <3>1, FieldsAreNumbers
  <2>3. Abs(header'.index - coded[1].index)
          <= Abs(header'.index - coded[1].index)
    <3>. DEFINE apart == header'.index - coded[1].index
    <3>1. apart \in Int
      BY <2>2
    <3>. HIDE DEF apart
    <3>2. Abs(apart) <= Abs(apart)
      BY <3>1 DEF Abs
    <3>. QED  BY <3>2 DEF apart
  <2>4. /\ coded' = coded /\ decoder' = header'
        /\ coded'[Len(outdata') + 1] = coded[1]
        /\ \A i \in 1..Len(outdata') : FALSE
    BY <1>1, <2>1
  <2>. QED  BY <2>1, <2>3, <2>4 DEF DecoderInv
<1>10. InputInv'
  BY <1>1, <1>3 DEF IInv, InputInv, Code, Step
<1>. QED  BY <1>6, <1>7, <1>8, <1>9, <1>10 DEF IInv

(* A step read outside the table is a number too.                          *)
LEMMA StepsAtAreNumbers ==
  ASSUME NEW state \in adpcm_state, NEW step \in StepsAt(state.index)
  PROVE  /\ step \in Int
         /\ state.index \in 0..88 => step = Step(state)
<1>1. CASE state.index \in 0..88
  <2>1. step = Step(state)
    BY <1>1 DEF StepsAt, Step
  <2>2. Step(state) \in Nat
    BY <1>1, StepsAreNumbers DEF Step
  <2>. QED  BY <2>1, <2>2
<1>2. CASE state.index \notin 0..88
  <2>1. step \in JunkSteps
    BY <1>2 DEF StepsAt
  <2>2. JunkSteps \subseteq -(2 ^ 30)..2 ^ 30
    BY AdpcmAssumption, Zenon
  <2>3. \A x \in -(2 ^ 30)..2 ^ 30 : x \in Int
    OBVIOUS
  <2>. QED  BY <1>2, <2>1, <2>2, <2>3, Zenon
<1>. QED  BY <1>1, <1>2

(* One turn of the decoder ends inside the table, wherever it began.        *)
LEMMA DecodedInTable ==
  ASSUME NEW state \in adpcm_state, NEW step \in Int, NEW delta \in 0..15
  PROVE  /\ Decoded(state, step, delta) \in States
         /\ Decoded(state, step, delta).index
              = ClampIndex(state.index + indexTable(delta))
         /\ indexTable(delta) \in Int /\ state.index \in Int
<1>1. state.valprev \in Int /\ state.index \in Int
  BY FieldsAreNumbers
<1>2. Difference(step, delta) \in Int /\ indexTable(delta) \in Int
  BY DEF Difference, HalfQuantum, indexTable
<1>. DEFINE pred == IF delta >= 8 THEN state.valprev - Difference(step, delta)
                    ELSE state.valprev + Difference(step, delta)
            v == ClampValue(pred)
            j == ClampIndex(state.index + indexTable(delta))
<1>3. v \in short
  <2>1. pred \in Int
    BY <1>1, <1>2
  <2>. HIDE DEF pred
  <2>. QED  BY <2>1, ClampedValue
<1>4. j \in 0..88
  <2>1. state.index + indexTable(delta) \in Int
    BY <1>1, <1>2
  <2>. QED  BY <2>1, ClampedIndex
<1>5. Decoded(state, step, delta) = [valprev |-> v, index |-> j]
  BY DEF Decoded
<1>6. [valprev |-> v, index |-> j] \in States
  <2>. HIDE DEF v, j
  <2>. QED  BY <1>3, <1>4 DEF States
<1>7. [valprev |-> v, index |-> j].index = j
  <2>. HIDE DEF v, j
  <2>. QED  OBVIOUS
<1>8. Decoded(state, step, delta).index = j
  <2>. HIDE DEF v, j
  <2>. QED  BY <1>5, <1>7
<1>. QED  BY <1>1, <1>2, <1>5, <1>6, <1>8

(* The decoder's step follows the step of the coder's history that put out *)
(* the code it reads.                                                      *)
LEMMA DecodeSampleInv ==
  ASSUME IInv, DecodeSample
  PROVE  IInv'
<1>1. PICK step \in StepsAt(decoder.index) :
        decoder' = Decoded(decoder, step, Nibble(Len(outdata)))
  BY Zenon DEF DecodeSample
<1>2. /\ outdata' = Append(outdata, decoder'.valprev)
      /\ phase = "decoding" /\ Len(outdata) < 2 * Len(bytes)
      /\ UNCHANGED <<coder, outputbuffer, bytes, coded, header, input, phase>>
  BY Zenon DEF DecodeSample
<1>3. /\ outdata \in Seq(short) /\ bytes \in Seq(0..255)
      /\ coded \in Seq(States) /\ coded # <<>>
      /\ decoder \in adpcm_state /\ header \in adpcm_state
      /\ decoder.index \in Int /\ header.index \in Int
  <2>1. decoder \in adpcm_state /\ header \in adpcm_state
    BY DEF IInv, TypeOK
  <2>2. decoder.index \in Int /\ header.index \in Int
    BY <2>1, FieldsAreNumbers
  <2>. QED  BY <2>1, <2>2, Zenon DEF IInv, TypeOK, CodesInv
<1>4. PICK n \in Nat : n = Len(outdata)
  BY <1>3
<1>. DEFINE delta == Nibble(n)
<1>5. delta \in 0..15
  <2>. DEFINE k == n \div 2 + 1
              byte == bytes[k]
  <2>1. k \in 1..Len(bytes)
    BY <1>2, <1>3, <1>4
  <2>2. byte \in 0..255
    <3>. HIDE DEF k
    <3>. QED  BY <1>3, <2>1, Element, Zenon
  <2>3. delta = IF n % 2 = 0 THEN byte \div 16 ELSE byte % 16
    BY DEF Nibble
  <2>. HIDE DEF byte, delta
  <2>. QED  BY <2>2, <2>3
<1>. HIDE DEF delta
<1>6. /\ step \in Int
      /\ decoder.index \in 0..88 => step = Step(decoder)
      /\ decoder' = Decoded(decoder, step, delta)
  BY <1>1, <1>3, <1>4, StepsAtAreNumbers DEF delta
<1>7. /\ decoder' \in States
      /\ decoder'.index = ClampIndex(decoder.index + indexTable(delta))
      /\ indexTable(delta) \in Int
  <2>1. /\ Decoded(decoder, step, delta) \in States
        /\ Decoded(decoder, step, delta).index
             = ClampIndex(decoder.index + indexTable(delta))
        /\ indexTable(delta) \in Int
    BY <1>3, <1>5, <1>6, DecodedInTable, Zenon
  <2>. QED  BY <1>6, <2>1, Zenon
<1>8. /\ decoder'.valprev \in short /\ decoder'.index \in 0..88
      /\ decoder' \in adpcm_state
  BY <1>7, StatesAreAdpcmStates DEF States
<1>9. /\ outdata' \in Seq(short) /\ outdata' # <<>> /\ Len(outdata') = n + 1
      /\ outdata'[n + 1] = decoder'.valprev
      /\ \A i \in 1..n : outdata'[i] = outdata[i]
  BY <1>2, <1>3, <1>4, <1>8, AppendSample
<1>10. Coded' = Coded /\ Coded \in Nat /\ Len(coded) = Coded + 1
  BY <1>2, <1>3 DEF Coded
<1>11. TypeOK'
  BY <1>2, <1>8, <1>9 DEF IInv, TypeOK
<1>12. CodesInv'
  <2>1. ASSUME NEW i \in 0..(Coded - 1)
        PROVE  (coded[i + 2]
                  = Decoded(coded[i + 1], Step(coded[i + 1]), Put(i)))'
    <3>1. coded[i + 2] = Decoded(coded[i + 1], Step(coded[i + 1]), Put(i))
      BY DEF IInv, CodesInv
    <3>2. Put(i)' = Put(i) /\ coded' = coded
      BY <1>2 DEF Put, Nibble
    <3>3. Step(coded[i + 1])' = Step(coded[i + 1])
      BY <3>2 DEF Step
    <3>. QED  BY <3>1, <3>2, <3>3 DEF Decoded
  <2>. QED  BY <1>2, <1>10, <2>1 DEF CodesInv, IInv
<1>13. LengthInv'
  BY <1>2, <1>4, <1>9, <1>10 DEF IInv, LengthInv
<1>14. n <= Coded => /\ header = coded[1] => decoder = coded[n + 1]
                     /\ Abs(decoder.index - coded[n + 1].index)
                          <= Abs(header.index - coded[1].index)
  BY <1>4 DEF IInv, DecoderInv
<1>15. ASSUME n + 1 <= Coded
       PROVE  /\ header = coded[1] => decoder' = coded[n + 2]
              /\ Abs(decoder'.index - coded[n + 2].index)
                   <= Abs(header.index - coded[1].index)
  <2>. DEFINE it == coded[n + 1]
              next == coded[n + 2]
              first == coded[1]
  <2>1. n \in 0..(Coded - 1) /\ n \div 2 < Len(bytes) /\ n <= Coded
    BY <1>2, <1>4, <1>10, <1>15
  <2>2. next = Decoded(it, Step(it), delta)
    <3>1. Put(n) = delta
      BY <2>1 DEF Put, delta
    <3>2. \A i \in 0..(Coded - 1) :
            coded[i + 2] = Decoded(coded[i + 1], Step(coded[i + 1]), Put(i))
      BY DEF IInv, CodesInv
    <3>. QED  BY <2>1, <3>1, <3>2
  <2>3. it \in States /\ first \in States
    <3>1. n + 1 \in 1..Len(coded) /\ 1 \in 1..Len(coded)
      BY <1>10, <1>15
    <3>. QED  BY <1>3, <3>1
  <2>4. it \in adpcm_state /\ Step(it) \in Int
    <3>1. it.index \in 0..88
      BY <2>3 DEF States
    <3>. HIDE DEF it
    <3>. QED  BY <2>3, <3>1, StatesAreAdpcmStates, StepsAreNumbers DEF Step
  <2>5. it.index \in Int /\ first.index \in Int
    BY <2>3, <2>4, StatesAreAdpcmStates, FieldsAreNumbers
  <2>6. /\ header = first => decoder = it
        /\ Abs(decoder.index - it.index) <= Abs(header.index - first.index)
    BY <1>14, <2>1
  <2>. HIDE DEF it, next, first
  <2>7. header = first => decoder' = next
    <3>1. decoder = it => decoder.index \in 0..88
      BY <2>3 DEF States
    <3>. QED  BY <1>6, <2>2, <2>6, <3>1, Zenon
  <2>8. next.index = ClampIndex(it.index + indexTable(delta))
    BY <1>5, <2>2, <2>4, DecodedInTable, Zenon
  <2>9. Abs(decoder'.index - next.index) <= Abs(decoder.index - it.index)
    BY <1>3, <1>7, <2>5, <2>8, ClampedIndex
  <2>10. Abs(decoder'.index - next.index) <= Abs(header.index - first.index)
    <3>1. /\ Abs(decoder'.index - next.index) \in Int
          /\ Abs(decoder.index - it.index) \in Int
          /\ Abs(header.index - first.index) \in Int
      <4>1. \A x, d \in Int : ClampIndex(x + d) \in Int
        BY DEF ClampIndex
      <4>2. \A x, y \in Int : Abs(x - y) \in Int
        BY DEF Abs
      <4>. QED  BY <1>3, <1>7, <2>5, <2>8, <4>1, <4>2, Zenon
    <3>. QED  BY <2>6, <2>9, <3>1
  <2>. QED  BY <2>7, <2>10 DEF next, first
<1>16. DecoderInv'
  <2>1. ASSUME header = coded[1], NEW i \in 1..(n + 1), i <= Coded
        PROVE  outdata'[i] = coded[i + 1].valprev
    <3>1. CASE i = n + 1
      BY <1>9, <1>15, <2>1, <3>1
    <3>2. CASE i # n + 1
      <4>1. i \in 1..n
        BY <3>2
      <4>. QED  BY <1>4, <1>9, <2>1, <4>1 DEF IInv, DecoderInv
    <3>. QED  BY <3>1, <3>2
  <2>2. n + 1 + 1 = n + 2
    OBVIOUS
  <2>. QED  BY <1>2, <1>8, <1>9, <1>10, <1>15, <2>1, <2>2 DEF DecoderInv
<1>17. InputInv'
  BY <1>2, <1>10 DEF IInv, InputInv, Code, Step
<1>. QED  BY <1>11, <1>12, <1>13, <1>16, <1>17 DEF IInv

(* The rest changes nothing the invariant speaks of.                       *)
LEMMA NextInv == IInv /\ [Next]_vars => IInv'
<1>. SUFFICES ASSUME IInv, [Next]_vars PROVE IInv'
  OBVIOUS
<1>1. ASSUME NEW val \in Samples, CodeSample(val) PROVE IInv'
  BY <1>1, CodeSampleInv
<1>2. CASE FinishCoding
  BY <1>2, FinishCodingInv
<1>3. CASE DecodeSample
  BY <1>3, DecodeSampleInv
<1>4. CASE FinishDecoding
  <2>1. /\ Len(outdata) = 2 * Len(bytes)
        /\ phase = "decoding" /\ phase' = "done"
        /\ UNCHANGED <<coder, decoder, outputbuffer, bytes, coded, header,
                       outdata, input>>
    BY <1>4 DEF FinishDecoding
  <2>2. TypeOK' /\ CodesInv' /\ LengthInv' /\ DecoderInv' /\ InputInv'
    <3>1. TypeOK'
      BY <2>1 DEF IInv, TypeOK
    <3>2. CodesInv'
      BY <2>1 DEF IInv, CodesInv, Coded, Put, Nibble, Decoded, Step
    <3>3. LengthInv'
      BY <2>1 DEF IInv, LengthInv, Coded
    <3>4. DecoderInv'
      BY <2>1 DEF IInv, DecoderInv, Coded
    <3>5. InputInv'
      BY <2>1 DEF IInv, InputInv, Coded, Code, Step
    <3>. QED  BY <3>1, <3>2, <3>3, <3>4, <3>5
  <2>. QED  BY <2>2 DEF IInv
<1>5. CASE UNCHANGED vars
  <2>1. TypeOK'
    BY <1>5 DEF IInv, TypeOK, vars
  <2>2. CodesInv'
    BY <1>5 DEF IInv, CodesInv, Coded, Put, Nibble, Decoded, Step, vars
  <2>3. LengthInv'
    BY <1>5 DEF IInv, LengthInv, Coded, vars
  <2>4. DecoderInv'
    BY <1>5 DEF IInv, DecoderInv, Coded, vars
  <2>5. InputInv'
    BY <1>5 DEF IInv, InputInv, Coded, Code, Step, vars
  <2>. QED  BY <2>1, <2>2, <2>3, <2>4, <2>5 DEF IInv
<1>6. CASE Done
  BY <1>5, <1>6 DEF Done
<1>. QED  BY <1>1, <1>2, <1>3, <1>4, <1>5, <1>6 DEF Next

(* The invariant holds all along.                                          *)
LEMMA Invariance == Spec => []IInv
BY InitInv, NextInv, PTL DEF Spec

-----------------------------------------------------------------------------
(* Predictions keep to 16 bits and the coder to the table, on every        *)
(* signal, through adpcm_coder and adpcm_decoder.                          *)
THEOREM TypeCorrect == Spec => []TypeOK
<1>1. IInv => TypeOK
  BY DEF IInv
<1>. QED  BY <1>1, Invariance, PTL

(* A frame of any length that tells the coder's state is decoded as it was *)
(* coded, with one sample more after an odd number.                        *)
THEOREM DecoderInStep == Spec => []InStep
<1>1. IInv => InStep
  <2>. SUFFICES ASSUME IInv, header = coded[1]
                PROVE  /\ \A i \in 1..Len(outdata) :
                            i <= Coded => outdata[i] = coded[i + 1].valprev
                       /\ phase = "done" => Len(outdata) - Coded = Coded % 2
                       /\ phase = "done" /\ Coded % 2 = 0 => decoder = coder
    BY DEF InStep
  <2>1. \A i \in 1..Len(outdata) :
          i <= Coded => outdata[i] = coded[i + 1].valprev
    BY DEF IInv, DecoderInv
  <2>2. PICK L \in Nat : L = Len(bytes)
    BY DEF IInv, TypeOK
  <2>3. ASSUME phase = "done"
        PROVE  /\ Len(outdata) = 2 * L
               /\ Coded = 2 * L \/ Coded = 2 * L - 1
    <3>1. /\ Len(outdata) = 2 * L
          /\ 2 * L - 1 <= Coded /\ Coded <= 2 * L
      BY <2>2, <2>3 DEF IInv, LengthInv
    <3>2. Coded \in Int
      BY DEF IInv, TypeOK, Coded
    <3>. QED  BY <3>1, <3>2
  <2>4. phase = "done" => Len(outdata) - Coded = Coded % 2
    <3>1. (2 * L) % 2 = 0 /\ (2 * L - 1) % 2 = 1
      OBVIOUS
    <3>. QED  BY <2>3, <3>1
  <2>5. ASSUME phase = "done", Coded % 2 = 0
        PROVE  decoder = coder
    <3>1. Len(outdata) = Coded
      BY <2>3, <2>5
    <3>2. decoder = coded[Coded + 1]
      BY <2>3, <2>5, <3>1 DEF IInv, DecoderInv
    <3>3. Coded + 1 = Len(coded)
      BY DEF IInv, TypeOK, Coded
    <3>. QED  BY <3>2, <3>3 DEF IInv, CodesInv
  <2>. QED  BY <2>1, <2>4, <2>5
<1>. QED  BY <1>1, Invariance, PTL

(* Whatever state a frame claims, and whatever lies around the step table, *)
(* adpcm_decoder is inside the table from the first sample on and its      *)
(* index comes no further from the coder's.                                *)
THEOREM MisstartsFade == Spec => []MisstartFades
<1>1. IInv => MisstartFades
  BY DEF IInv, DecoderInv, MisstartFades
<1>. QED  BY <1>1, Invariance, PTL

(* At every entry of the table, the code adpcm_coder chooses meets the     *)
(* sample to half a quantum when the step reaches that far.                *)
THEOREM InputTracked == Spec => []TracksInput
<1>1. IInv => TracksInput
  <2>. SUFFICES ASSUME IInv, Coded > 0
                PROVE  LET step == Step(input.met)
                           diff == Abs(input.val - input.met.valprev)
                           error == Abs(input.val - coder.valprev)
                       IN /\ diff < 2 * step => 8 * error <= step + 24
                          /\ error <= diff + step \div 8
    BY DEF TracksInput
  <2>1. coder = Code(input.met, input.val).state
    BY DEF IInv, InputInv
  <2>2. input.met \in States /\ input.val \in short
    BY DEF IInv, TypeOK
  <2>. QED  BY <2>1, <2>2, CodeIsDecoded
<1>. QED  BY <1>1, Invariance, PTL

-----------------------------------------------------------------------------
(* G711: the segments of both laws.                                        *)

(* search yields the first segment that does not end below the value.      *)
LEMMA Searched ==
  ASSUME NEW val \in Int
  PROVE  /\ search(val) \in 0..8
         /\ search(val) # 8 => val <= seg_end(search(val))
         /\ \A i \in 0..7 : i < search(val) => val > seg_end(i)
<1>. DEFINE ends(i) == seg_end(i)
            S == {i \in 0..7 : val <= ends(i)} \cup {8}
<1>1. \A i \in 0..7 : ends(i) \in Int
  <2>. DEFINE pow(j) == 2 ^ j
  <2>1. /\ pow(8) = 256 /\ pow(9) = 512 /\ pow(10) = 1024 /\ pow(11) = 2048
        /\ pow(12) = 4096 /\ pow(13) = 8192 /\ pow(14) = 16384
        /\ pow(15) = 32768
    OBVIOUS
  <2>2. \A i \in 0..7 : ends(i) = pow(8 + i) - 1
    BY DEF seg_end
  <2>. HIDE DEF pow, ends
  <2>. QED  BY <2>1, <2>2
<1>2. search(val) = Min(S)
  BY DEF search
<1>. HIDE DEF ends
<1>3. \E x \in S : \A y \in S : x <= y
  <2>1. CASE 0 \in S
    BY <2>1
  <2>2. CASE 0 \notin S /\ 1 \in S
    BY <2>2
  <2>3. CASE {0, 1} \cap S = {} /\ 2 \in S
    BY <2>3
  <2>4. CASE {0, 1, 2} \cap S = {} /\ 3 \in S
    BY <2>4
  <2>5. CASE {0, 1, 2, 3} \cap S = {} /\ 4 \in S
    BY <2>5
  <2>6. CASE {0, 1, 2, 3, 4} \cap S = {} /\ 5 \in S
    BY <2>6
  <2>7. CASE {0, 1, 2, 3, 4, 5} \cap S = {} /\ 6 \in S
    BY <2>7
  <2>8. CASE {0, 1, 2, 3, 4, 5, 6} \cap S = {}
    BY <2>8
  <2>. QED  BY <2>1, <2>2, <2>3, <2>4, <2>5, <2>6, <2>7, <2>8
<1>4. search(val) \in S /\ \A y \in S : search(val) <= y
  <2>. HIDE DEF S
  <2>. QED  BY <1>2, <1>3, Zenon DEF Min
<1>5. /\ search(val) \in 0..8
      /\ search(val) # 8 => val <= ends(search(val))
      /\ \A i \in 0..7 : i < search(val) => val > ends(i)
  BY <1>1, <1>4
<1>. QED  BY <1>5 DEF ends

(* The powers that the segments double by.                                 *)
LEMMA Powers ==
  /\ 2 ^ 0 = 1 /\ 2 ^ 1 = 2 /\ 2 ^ 2 = 4 /\ 2 ^ 3 = 8 /\ 2 ^ 4 = 16
  /\ 2 ^ 5 = 32 /\ 2 ^ 6 = 64 /\ 2 ^ 7 = 128 /\ 2 ^ 8 = 256 /\ 2 ^ 9 = 512
  /\ 2 ^ 10 = 1024 /\ 2 ^ 11 = 2048 /\ 2 ^ 12 = 4096 /\ 2 ^ 13 = 8192
  /\ 2 ^ 14 = 16384 /\ 2 ^ 15 = 32768
OBVIOUS

(* Segment s has 16 steps of 2 ^ (s + 3), and begins where the one before  *)
(* it ends; the first takes in everything below.                           *)
LEMMA Segment ==
  ASSUME NEW val \in Int, NEW s \in 0..7
  PROVE  search(val) = s <=> /\ s = 0 \/ 16 * 2 ^ (s + 3) <= val
                             /\ val < 32 * 2 ^ (s + 3)
<1>. DEFINE pow(j) == 2 ^ j
<1>1. /\ pow(3) = 8 /\ pow(4) = 16 /\ pow(5) = 32 /\ pow(6) = 64
      /\ pow(7) = 128 /\ pow(8) = 256 /\ pow(9) = 512 /\ pow(10) = 1024
      /\ pow(11) = 2048 /\ pow(12) = 4096 /\ pow(13) = 8192
      /\ pow(14) = 16384 /\ pow(15) = 32768
  BY Powers
<1>2. /\ search(val) \in 0..8
      /\ search(val) # 8 => val <= pow(8 + search(val)) - 1
      /\ \A i \in 0..7 : i < search(val) => val > pow(8 + i) - 1
  BY Searched, Zenon DEF seg_end
<1>. DEFINE found == search(val)
<1>. HIDE DEF pow, found
<1>3. /\ found \in 0..8
      /\ found # 8 => val <= pow(8 + found) - 1
      /\ found > 0 => val > pow(7 + found) - 1
  <2>1. found > 0 => val > pow(8 + (found - 1)) - 1
    BY <1>2 DEF found
  <2>2. found > 0 => 8 + (found - 1) = 7 + found
    BY <1>2 DEF found
  <2>. QED  BY <1>2, <2>1, <2>2 DEF found
<1>4. found = s <=> /\ s = 0 \/ 16 * pow(s + 3) <= val
                    /\ val < 32 * pow(s + 3)
  BY <1>1, <1>3
<1>. QED  BY <1>4 DEF pow, found

(* The values beyond the last segment.                                     *)
LEMMA BeyondSegments ==
  ASSUME NEW val \in Int
  PROVE  /\ search(val) \in 0..8
         /\ search(val) = 8 <=> val > seg_end(7)
<1>1. seg_end(7) \in Int /\ seg_end(7) = 2 ^ 15 - 1
  BY DEF seg_end
<1>2. search(val) = 8 => val > seg_end(7)
  BY Searched
<1>3. ASSUME search(val) \in 0..7 PROVE val <= seg_end(7)
  <2>1. val < 32 * 2 ^ (search(val) + 3)
    BY <1>3, Segment
  <2>. DEFINE pow(j) == 2 ^ j
              found == search(val)
  <2>2. /\ pow(3) = 8 /\ pow(4) = 16 /\ pow(5) = 32 /\ pow(6) = 64
        /\ pow(7) = 128 /\ pow(8) = 256 /\ pow(9) = 512 /\ pow(10) = 1024
        /\ pow(15) = 32768
    BY Powers
  <2>3. val < 32 * pow(found + 3) /\ found \in 0..7 /\ seg_end(7) = pow(15) - 1
    BY <1>1, <1>3, <2>1
  <2>. HIDE DEF pow, found
  <2>. QED  BY <2>2, <2>3
<1>4. search(val) \in 0..8
  BY Searched
<1>. QED  BY <1>1, <1>2, <1>3, <1>4

-----------------------------------------------------------------------------
(* The magnitudes of the u-law are in the segment, and the step, of their  *)
(* codes.                                                                  *)
LEMMA ULawMagnitude ==
  ASSUME NEW s \in 0..7, NEW q \in 0..15
  PROVE  LET t == (8 * q + BIAS) * 2 ^ s
         IN /\ t \in Int /\ BIAS <= t /\ t < 2 ^ 15
            /\ search(t) = s
            /\ (t \div 2 ^ (s + 3)) % 16 = q
<1>. DEFINE pow(j) == 2 ^ j
            t == (8 * q + BIAS) * pow(s)
<1>1. /\ pow(0) = 1 /\ pow(1) = 2 /\ pow(2) = 4 /\ pow(3) = 8 /\ pow(4) = 16
      /\ pow(5) = 32 /\ pow(6) = 64 /\ pow(7) = 128 /\ pow(8) = 256
      /\ pow(9) = 512 /\ pow(10) = 1024 /\ pow(15) = 32768
  BY Powers
<1>. HIDE DEF pow
<1>2. /\ t \in Int /\ BIAS <= t /\ t < pow(15)
      /\ 16 * pow(s + 3) <= t /\ t < 32 * pow(s + 3)
  <2>1. CASE s = 0
    BY <1>1, <2>1 DEF BIAS
  <2>2. CASE s = 1
    BY <1>1, <2>2 DEF BIAS
  <2>3. CASE s = 2
    BY <1>1, <2>3 DEF BIAS
  <2>4. CASE s = 3
    BY <1>1, <2>4 DEF BIAS
  <2>5. CASE s = 4
    BY <1>1, <2>5 DEF BIAS
  <2>6. CASE s = 5
    BY <1>1, <2>6 DEF BIAS
  <2>7. CASE s = 6
    BY <1>1, <2>7 DEF BIAS
  <2>8. CASE s = 7
    BY <1>1, <2>8 DEF BIAS
  <2>. QED  BY <2>1, <2>2, <2>3, <2>4, <2>5, <2>6, <2>7, <2>8
<1>3. (t \div pow(s + 3)) % 16 = q
  <2>1. CASE s = 0
    BY <1>1, <2>1 DEF BIAS
  <2>2. CASE s = 1
    BY <1>1, <2>2 DEF BIAS
  <2>3. CASE s = 2
    BY <1>1, <2>3 DEF BIAS
  <2>4. CASE s = 3
    BY <1>1, <2>4 DEF BIAS
  <2>5. CASE s = 4
    BY <1>1, <2>5 DEF BIAS
  <2>6. CASE s = 5
    BY <1>1, <2>6 DEF BIAS
  <2>7. CASE s = 6
    BY <1>1, <2>7 DEF BIAS
  <2>8. CASE s = 7
    BY <1>1, <2>8 DEF BIAS
  <2>. QED  BY <2>1, <2>2, <2>3, <2>4, <2>5, <2>6, <2>7, <2>8
<1>4. search(t) = s
  <2>. HIDE DEF t
  <2>. QED  BY <1>2, Segment DEF pow
<1>. QED  BY <1>2, <1>3, <1>4 DEF pow, t

(* A value of a segment is met to half a step.                             *)
LEMMA ULawError ==
  ASSUME NEW val \in Int, BIAS <= val, NEW s \in 0..7, search(val) = s
  PROVE  LET q == (val \div 2 ^ (s + 3)) % 16
             t == (8 * q + BIAS) * 2 ^ s
         IN /\ q \in 0..15
            /\ 2 * Size(t - val) <= 2 ^ (s + 3)
<1>. DEFINE pow(j) == 2 ^ j
            q == (val \div pow(s + 3)) % 16
            t == (8 * q + BIAS) * pow(s)
<1>1. /\ pow(0) = 1 /\ pow(1) = 2 /\ pow(2) = 4 /\ pow(3) = 8 /\ pow(4) = 16
      /\ pow(5) = 32 /\ pow(6) = 64 /\ pow(7) = 128 /\ pow(8) = 256
      /\ pow(9) = 512 /\ pow(10) = 1024
  BY Powers
<1>2. /\ s = 0 \/ 16 * pow(s + 3) <= val
      /\ val < 32 * pow(s + 3)
  BY Segment
<1>. HIDE DEF pow
<1>3. q \in 0..15 /\ 2 * Size(t - val) <= pow(s + 3)
  <2>1. CASE s = 0
    BY <1>1, <1>2, <2>1 DEF BIAS, Size
  <2>2. CASE s = 1
    BY <1>1, <1>2, <2>2 DEF BIAS, Size
  <2>3. CASE s = 2
    BY <1>1, <1>2, <2>3 DEF BIAS, Size
  <2>4. CASE s = 3
    BY <1>1, <1>2, <2>4 DEF BIAS, Size
  <2>5. CASE s = 4
    BY <1>1, <1>2, <2>5 DEF BIAS, Size
  <2>6. CASE s = 5
    BY <1>1, <1>2, <2>6 DEF BIAS, Size
  <2>7. CASE s = 6
    BY <1>1, <1>2, <2>7 DEF BIAS, Size
  <2>8. CASE s = 7
    BY <1>1, <1>2, <2>8 DEF BIAS, Size
  <2>. QED  BY <2>1, <2>2, <2>3, <2>4, <2>5, <2>6, <2>7, <2>8
<1>. QED  BY <1>3 DEF pow

(* What the u-law makes of a sample, by its segment.                       *)
LEMMA ULawCoded ==
  ASSUME NEW x \in Int
  PROVE  LET val == IF x >= 0 THEN x + BIAS ELSE BIAS - x
             c == linear2ulaw(x)
         IN /\ val \in Int /\ BIAS <= val
            /\ c.positive = (x >= 0)
            /\ c.seg \in 0..7 /\ c.quant \in 0..15
            /\ search(val) \in 0..7 =>
                 /\ c.seg = search(val)
                 /\ c.quant = (val \div 2 ^ (search(val) + 3)) % 16
            /\ search(val) = 8 => c.seg = 7 /\ c.quant = 15
            /\ search(val) \in 0..8
<1>. DEFINE val == IF x >= 0 THEN x + BIAS ELSE BIAS - x
            found == search(val)
            q == (val \div 2 ^ (found + 3)) % 16
            seg == IF found >= 8 THEN 7 ELSE found
            quant == IF found >= 8 THEN 15 ELSE q
            positive == x >= 0
<1>1. val \in Int /\ BIAS <= val
  BY DEF BIAS
<1>2. found \in 0..8
  <2>. HIDE DEF val
  <2>. QED  BY <1>1, BeyondSegments
<1>3. linear2ulaw(x) = [positive |-> positive, seg |-> seg, quant |-> quant]
  <2>1. SEG_STEPS = 16 /\ SEG_STEPS - 1 = 15
    BY DEF SEG_STEPS
  <2>. QED  BY <2>1, Zenon DEF linear2ulaw
<1>4. found \in 0..7 => q \in 0..15
  <2>1. found \in 0..7 => /\ q = (val \div 2 ^ (found + 3)) % 16
                          /\ search(val) = found
    OBVIOUS
  <2>. HIDE DEF val, found, q
  <2>. QED  BY <1>1, <2>1, ULawError
<1>. HIDE DEF val, found, q
<1>5. /\ seg \in 0..7 /\ quant \in 0..15
      /\ found \in 0..7 => seg = found /\ quant = q
      /\ found = 8 => seg = 7 /\ quant = 15
  BY <1>2, <1>4
<1>. HIDE DEF seg, quant, positive
<1>6. /\ linear2ulaw(x).positive = positive
      /\ linear2ulaw(x).seg = seg /\ linear2ulaw(x).quant = quant
  BY <1>3
<1>. QED  BY <1>1, <1>2, <1>5, <1>6 DEF val, found, q, positive

(* A sample whose magnitude is that of a code is coded so, and comes back. *)
LEMMA ULawCodesReturn ==
  ASSUME NEW y \in Int, NEW s \in 0..7, NEW q \in 0..15,
         (IF y >= 0 THEN y + BIAS ELSE BIAS - y) = (8 * q + BIAS) * 2 ^ s
  PROVE  ulaw2linear(linear2ulaw(y)) = y
<1>. DEFINE val == IF y >= 0 THEN y + BIAS ELSE BIAS - y
            t == (8 * q + BIAS) * 2 ^ s
            c == linear2ulaw(y)
<1>1. search(val) = s /\ (val \div 2 ^ (s + 3)) % 16 = q
  <2>1. search(t) = s /\ (t \div 2 ^ (s + 3)) % 16 = q
    BY ULawMagnitude
  <2>2. val = t
    OBVIOUS
  <2>. HIDE DEF t, val
  <2>. QED  BY <2>1, <2>2
<1>2. c.positive = (y >= 0) /\ c.seg = s /\ c.quant = q
  <2>. HIDE DEF c
  <2>. QED  BY <1>1, ULawCoded DEF c
<1>3. ulaw2linear(c) = IF y >= 0 THEN t - BIAS ELSE BIAS - t
  <2>. HIDE DEF c
  <2>. QED  BY <1>2, Zenon DEF ulaw2linear
<1>4. val = t
  OBVIOUS
<1>. HIDE DEF t
<1>. QED  BY <1>3, <1>4 DEF BIAS

(* A relay by the u-law keeps to 16 bits, is as accurate as the segment's  *)
(* steps, and yields a sample that the next such relay leaves alone.       *)
LEMMA ULawRelay ==
  ASSUME NEW x \in Int
  PROVE  LET y == ulaw2linear(linear2ulaw(x))
         IN /\ y \in Int /\ -(2 ^ 15) <= y /\ y < 2 ^ 15
            /\ ulaw2linear(linear2ulaw(y)) = y
            /\ \/ 2 * Size(y - x) <= 2 ^ (linear2ulaw(x).seg + 3)
               \/ Size(x) + BIAS > seg_end(7) /\ Size(y) = 32124
<1>. DEFINE val == IF x >= 0 THEN x + BIAS ELSE BIAS - x
            c == linear2ulaw(x)
            s == c.seg
            q == c.quant
            t == (8 * q + BIAS) * 2 ^ s
            y == IF x >= 0 THEN t - BIAS ELSE BIAS - t
<1>1. /\ val \in Int /\ BIAS <= val
      /\ c.positive = (x >= 0)
      /\ s \in 0..7 /\ q \in 0..15
      /\ search(val) \in 0..7 =>
           s = search(val) /\ q = (val \div 2 ^ (search(val) + 3)) % 16
      /\ search(val) = 8 => s = 7 /\ q = 15
      /\ search(val) \in 0..8
  BY ULawCoded
<1>2. ulaw2linear(c) = y
  <2>. HIDE DEF c
  <2>. QED  BY <1>1, Zenon DEF ulaw2linear
<1>. HIDE DEF c, s, q
<1>3. t \in Int /\ BIAS <= t /\ t < 2 ^ 15
  BY <1>1, ULawMagnitude
<1>4. /\ y \in Int /\ -(2 ^ 15) <= y /\ y < 2 ^ 15
      /\ (IF y >= 0 THEN y + BIAS ELSE BIAS - y) = t
      /\ Size(y - x) = Size(t - val)
      /\ Size(x) + BIAS = val
      /\ Size(y) = t - BIAS
  <2>. HIDE DEF t
  <2>. QED  BY <1>3 DEF BIAS, Size
<1>5. ulaw2linear(linear2ulaw(y)) = y
  <2>. HIDE DEF y
  <2>. QED  BY <1>1, <1>4, ULawCodesReturn
<1>6. \/ 2 * Size(y - x) <= 2 ^ (s + 3)
      \/ Size(x) + BIAS > seg_end(7) /\ Size(y) = 32124
  <2>. HIDE DEF y, val
  <2>1. CASE search(val) \in 0..7
    <3>1. 2 * Size(t - val) <= 2 ^ (s + 3)
      BY <1>1, <2>1, ULawError
    <3>. QED  BY <1>4, <3>1
  <2>2. CASE search(val) = 8
    <3>1. val > seg_end(7)
      BY <1>1, <2>2, BeyondSegments
    <3>2. t = 32124 + BIAS
      <4>1. t = (8 * 15 + BIAS) * 2 ^ 7
        BY <1>1, <2>2
      <4>. QED  BY <4>1 DEF BIAS
    <3>3. t - BIAS = 32124
      BY <3>2 DEF BIAS
    <3>. QED  BY <1>4, <3>1, <3>3
  <2>. QED  BY <1>1, <2>1, <2>2
<1>. QED  BY <1>2, <1>4, <1>5, <1>6 DEF c, s

-----------------------------------------------------------------------------
(* The same for the A-law, whose first two segments have the same step.    *)
AMagnitude(s, q) == IF s = 0 THEN 16 * q + 8
                    ELSE IF s = 1 THEN 16 * q + 264
                    ELSE (16 * q + 264) * 2 ^ (s - 1)
AQuant(val, s) == IF s < 2 THEN (val \div 16) % 16
                  ELSE (val \div 2 ^ (s + 3)) % 16
AHalf(s) == IF s < 2 THEN 8 ELSE 2 ^ (s + 2)

(* Taking off the 8 of a negative sample does not leave the step.          *)
LEMMA ALawMagnitude ==
  ASSUME NEW s \in 0..7, NEW q \in 0..15, NEW d \in {0, 8}
  PROVE  LET t == AMagnitude(s, q)
         IN /\ t \in Int /\ 8 <= t /\ t < 2 ^ 15
            /\ search(t - d) = s
            /\ AQuant(t - d, s) = q
<1>. DEFINE pow(j) == 2 ^ j
            t == IF s = 0 THEN 16 * q + 8
                 ELSE IF s = 1 THEN 16 * q + 264
                 ELSE (16 * q + 264) * pow(s - 1)
            v == t - d
            quant == IF s < 2 THEN (v \div 16) % 16
                     ELSE (v \div pow(s + 3)) % 16
<1>1. /\ pow(0) = 1 /\ pow(1) = 2 /\ pow(2) = 4 /\ pow(3) = 8 /\ pow(4) = 16
      /\ pow(5) = 32 /\ pow(6) = 64 /\ pow(7) = 128 /\ pow(8) = 256
      /\ pow(9) = 512 /\ pow(10) = 1024 /\ pow(15) = 32768
  BY Powers
<1>. HIDE DEF pow
<1>2. /\ t \in Int /\ 8 <= t /\ t < pow(15)
      /\ s = 0 \/ 16 * pow(s + 3) <= v
      /\ v < 32 * pow(s + 3)
  <2>1. CASE s = 0
    BY <1>1, <2>1
  <2>2. CASE s = 1
    BY <1>1, <2>2
  <2>3. CASE s = 2
    BY <1>1, <2>3
  <2>4. CASE s = 3
    BY <1>1, <2>4
  <2>5. CASE s = 4
    BY <1>1, <2>5
  <2>6. CASE s = 5
    BY <1>1, <2>6
  <2>7. CASE s = 6
    BY <1>1, <2>7
  <2>8. CASE s = 7
    BY <1>1, <2>8
  <2>. QED  BY <2>1, <2>2, <2>3, <2>4, <2>5, <2>6, <2>7, <2>8
<1>3. quant = q
  <2>1. CASE s = 0
    BY <1>1, <2>1
  <2>2. CASE s = 1
    BY <1>1, <2>2
  <2>3. CASE s = 2
    BY <1>1, <2>3
  <2>4. CASE s = 3
    BY <1>1, <2>4
  <2>5. CASE s = 4
    BY <1>1, <2>5
  <2>6. CASE s = 5
    BY <1>1, <2>6
  <2>7. CASE s = 6
    BY <1>1, <2>7
  <2>8. CASE s = 7
    BY <1>1, <2>8
  <2>. QED  BY <2>1, <2>2, <2>3, <2>4, <2>5, <2>6, <2>7, <2>8
<1>4. search(v) = s
  <2>1. v \in Int
    <3>. HIDE DEF t
    <3>. QED  BY <1>2
  <2>. HIDE DEF v
  <2>. QED  BY <1>2, <2>1, Segment DEF pow
<1>5. t = AMagnitude(s, q)
  BY DEF AMagnitude, pow
<1>6. quant = AQuant(v, s)
  <2>. HIDE DEF v
  <2>. QED  BY DEF AQuant, pow
<1>7. t < 2 ^ 15
  <2>. HIDE DEF t
  <2>. QED  BY <1>2 DEF pow
<1>. HIDE DEF t, quant
<1>. QED  BY <1>2, <1>3, <1>4, <1>5, <1>6, <1>7

(* A value of a segment is met to half a step.                             *)
LEMMA ALawError ==
  ASSUME NEW val \in Int, 0 <= val, NEW s \in 0..7, search(val) = s
  PROVE  /\ AHalf(s) \in Int
         /\ Size(AMagnitude(s, AQuant(val, s)) - val) <= AHalf(s)
<1>. DEFINE pow(j) == 2 ^ j
            q == IF s < 2 THEN (val \div 16) % 16
                 ELSE (val \div pow(s + 3)) % 16
            t == IF s = 0 THEN 16 * q + 8
                 ELSE IF s = 1 THEN 16 * q + 264
                 ELSE (16 * q + 264) * pow(s - 1)
            half == IF s < 2 THEN 8 ELSE pow(s + 2)
<1>1. /\ pow(0) = 1 /\ pow(1) = 2 /\ pow(2) = 4 /\ pow(3) = 8 /\ pow(4) = 16
      /\ pow(5) = 32 /\ pow(6) = 64 /\ pow(7) = 128 /\ pow(8) = 256
      /\ pow(9) = 512 /\ pow(10) = 1024
  BY Powers
<1>2. /\ s = 0 \/ 16 * pow(s + 3) <= val
      /\ val < 32 * pow(s + 3)
  BY Segment
<1>. HIDE DEF pow
<1>3. half \in Int /\ Size(t - val) <= half
  <2>1. CASE s = 0
    BY <1>1, <1>2, <2>1 DEF Size
  <2>2. CASE s = 1
    BY <1>1, <1>2, <2>2 DEF Size
  <2>3. CASE s = 2
    BY <1>1, <1>2, <2>3 DEF Size
  <2>4. CASE s = 3
    BY <1>1, <1>2, <2>4 DEF Size
  <2>5. CASE s = 4
    BY <1>1, <1>2, <2>5 DEF Size
  <2>6. CASE s = 5
    BY <1>1, <1>2, <2>6 DEF Size
  <2>7. CASE s = 6
    BY <1>1, <1>2, <2>7 DEF Size
  <2>8. CASE s = 7
    BY <1>1, <1>2, <2>8 DEF Size
  <2>. QED  BY <2>1, <2>2, <2>3, <2>4, <2>5, <2>6, <2>7, <2>8
<1>4. q = AQuant(val, s) /\ half = AHalf(s)
  BY DEF AQuant, AHalf, pow
<1>5. t = AMagnitude(s, q)
  <2>. HIDE DEF q
  <2>. QED  BY DEF AMagnitude, pow
<1>. HIDE DEF q, t, half
<1>. QED  BY <1>3, <1>4, <1>5

(* What the A-law makes of a sample, by its segment.                       *)
LEMMA ALawCoded ==
  ASSUME NEW x \in Int
  PROVE  LET val == IF x >= 0 THEN x ELSE -x - 8
             c == linear2alaw(x)
         IN /\ val \in Int
            /\ c.positive = (x >= 0)
            /\ c.seg \in 0..7 /\ c.quant \in 0..15
            /\ search(val) \in 0..7 =>
                 c.seg = search(val) /\ c.quant = AQuant(val, search(val))
            /\ search(val) \in 0..8
<1>. DEFINE val == IF x >= 0 THEN x ELSE -x - 8
            found == search(val)
            q == AQuant(val, found)
            seg == IF found >= 8 THEN 7 ELSE found
            quant == IF found >= 8 THEN 15 ELSE q
            positive == x >= 0
<1>1. val \in Int
  OBVIOUS
<1>2. found \in 0..8
  <2>. HIDE DEF val
  <2>. QED  BY <1>1, BeyondSegments
<1>3. linear2alaw(x) = [positive |-> positive, seg |-> seg, quant |-> quant]
  <2>1. SEG_STEPS = 16 /\ SEG_STEPS - 1 = 15
    BY DEF SEG_STEPS
  <2>. QED  BY <2>1, Zenon DEF linear2alaw, AQuant
<1>4. found \in 0..7 => q \in 0..15
  <2>. DEFINE p == 2 ^ (found + 3)
  <2>1. found \in 0..7 => p \in Nat \ {0}
    <3>. DEFINE pow(j) == 2 ^ j
    <3>1. /\ pow(3) = 8 /\ pow(4) = 16 /\ pow(5) = 32 /\ pow(6) = 64
          /\ pow(7) = 128 /\ pow(8) = 256 /\ pow(9) = 512 /\ pow(10) = 1024
      BY Powers
    <3>2. p = pow(found + 3)
      OBVIOUS
    <3>. HIDE DEF pow, p, found
    <3>. QED  BY <3>1, <3>2
  <2>2. q = IF found < 2 THEN (val \div 16) % 16 ELSE (val \div p) % 16
    BY DEF AQuant
  <2>. HIDE DEF val, found, q, p
  <2>. QED  BY <1>1, <2>1, <2>2
<1>. HIDE DEF val, found, q
<1>5. /\ seg \in 0..7 /\ quant \in 0..15
      /\ found \in 0..7 => seg = found /\ quant = q
  BY <1>2, <1>4
<1>. HIDE DEF seg, quant, positive
<1>6. /\ linear2alaw(x).positive = positive
      /\ linear2alaw(x).seg = seg /\ linear2alaw(x).quant = quant
  BY <1>3
<1>. QED  BY <1>1, <1>2, <1>5, <1>6 DEF val, found, q, positive

(* A sample whose size is that of a code comes back.                       *)
LEMMA ALawCodesReturn ==
  ASSUME NEW y \in Int, NEW s \in 0..7, NEW q \in 0..15,
         y = AMagnitude(s, q) \/ y = -AMagnitude(s, q)
  PROVE  alaw2linear(linear2alaw(y)) = y
<1>. DEFINE val == IF y >= 0 THEN y ELSE -y - 8
            t == AMagnitude(s, q)
            c == linear2alaw(y)
            d == IF y >= 0 THEN 0 ELSE 8
<1>1. t \in Int /\ 8 <= t
  <2>1. 0 \in {0, 8}
    OBVIOUS
  <2>. QED  BY <2>1, ALawMagnitude
<1>2. y = t \/ y = -t
  OBVIOUS
<1>. HIDE DEF t
<1>3. val = t - d /\ d \in {0, 8} /\ y = IF y >= 0 THEN t ELSE -t
  BY <1>1, <1>2
<1>4. search(val) = s /\ AQuant(val, s) = q
  <2>1. search(t - d) = s /\ AQuant(t - d, s) = q
    <3>. HIDE DEF d
    <3>. QED  BY <1>3, ALawMagnitude DEF t
  <2>. HIDE DEF val, d
  <2>. QED  BY <1>3, <2>1
<1>5. c.positive = (y >= 0) /\ c.seg = s /\ c.quant = q
  <2>. HIDE DEF c
  <2>. QED  BY <1>4, ALawCoded DEF c
<1>6. alaw2linear(c) = IF y >= 0 THEN t ELSE -t
  <2>. HIDE DEF c
  <2>. QED  BY <1>5, Zenon DEF alaw2linear, AMagnitude, t
<1>. QED  BY <1>3, <1>6

(* A relay by the A-law, for a sample of 16 bits that does not turn        *)
(* negative when 8 are taken from its magnitude.                           *)
LEMMA ALawRelay ==
  ASSUME NEW x \in Int
  PROVE  LET y == alaw2linear(linear2alaw(x))
         IN /\ y \in Int /\ -(2 ^ 15) <= y /\ y < 2 ^ 15
            /\ alaw2linear(linear2alaw(y)) = y
            /\ -(2 ^ 15) <= x /\ x < 2 ^ 15 /\ x \notin -7..-1 =>
                 Size(y - x) <= AHalf(linear2alaw(x).seg)
                                  + (IF x < 0 THEN 8 ELSE 0)
<1>. DEFINE val == IF x >= 0 THEN x ELSE -x - 8
            c == linear2alaw(x)
            s == c.seg
            q == c.quant
            t == AMagnitude(s, q)
            y == IF x >= 0 THEN t ELSE -t
<1>1. /\ val \in Int
      /\ c.positive = (x >= 0)
      /\ s \in 0..7 /\ q \in 0..15
      /\ search(val) \in 0..7 =>
           s = search(val) /\ q = AQuant(val, search(val))
      /\ search(val) \in 0..8
  BY ALawCoded
<1>2. alaw2linear(c) = y
  <2>. HIDE DEF c
  <2>. QED  BY <1>1, Zenon DEF alaw2linear, AMagnitude
<1>. HIDE DEF c, s, q
<1>3. t \in Int /\ 8 <= t /\ t < 2 ^ 15
  <2>1. 0 \in {0, 8}
    OBVIOUS
  <2>. QED  BY <1>1, <2>1, ALawMagnitude
<1>4. /\ y \in Int /\ -(2 ^ 15) <= y /\ y < 2 ^ 15
      /\ y = t \/ y = -t
  <2>. HIDE DEF t
  <2>. QED  BY <1>3
<1>5. alaw2linear(linear2alaw(y)) = y
  <2>. HIDE DEF y
  <2>. QED  BY <1>1, <1>4, ALawCodesReturn
<1>6. ASSUME -(2 ^ 15) <= x, x < 2 ^ 15, x \notin -7..-1
      PROVE  Size(y - x) <= AHalf(s) + (IF x < 0 THEN 8 ELSE 0)
  <2>1. 0 <= val /\ val <= 2 ^ 15 - 1
    BY <1>6
  <2>2. seg_end(7) = 2 ^ 15 - 1 /\ 2 ^ 15 - 1 \in Int
    BY DEF seg_end
  <2>3. search(val) \in 0..7
    <3>. HIDE DEF val
    <3>1. search(val) # 8
      BY <1>1, <2>1, <2>2, BeyondSegments
    <3>. QED  BY <1>1, <3>1
  <2>4. AHalf(s) \in Int /\ Size(t - val) <= AHalf(s)
    <3>. HIDE DEF val
    <3>. QED  BY <1>1, <2>1, <2>3, ALawError
  <2>. HIDE DEF t
  <2>. QED  BY <1>3, <2>4 DEF Size
<1>. QED  BY <1>2, <1>4, <1>5, <1>6 DEF c, s

-----------------------------------------------------------------------------
(* The inductive invariant: samples keep to 16 bits, and the last relay    *)
(* made the present sample of the one before it.                           *)
Pcm16(x) == x \in Int /\ -(2 ^ 15) <= x /\ x < 2 ^ 15

RelayInv == /\ Pcm16(amp) /\ Pcm16(was)
            /\ law \in {"none", "A", "u"}
            /\ law = "A" => amp = alaw2linear(linear2alaw(was))
            /\ law = "u" => amp = ulaw2linear(linear2ulaw(was))

(* Relays keep the invariant.                                              *)
LEMMA RelayInvariance == RelaySpec => []RelayInv
<1>1. RelayInit => RelayInv
  <2>1. \A x \in -(2 ^ 15)..(2 ^ 15 - 1) : Pcm16(x)
    BY DEF Pcm16
  <2>. QED  BY <2>1, PcmAssumption DEF RelayInit, RelayInv
<1>2. RelayInv /\ [Relay]_relayVars => RelayInv'
  <2>. SUFFICES ASSUME RelayInv, [Relay]_relayVars PROVE RelayInv'
    OBVIOUS
  <2>1. CASE RelayA
    <3>1. Pcm16(alaw2linear(linear2alaw(amp)))
      BY ALawRelay DEF RelayInv, Pcm16
    <3>. QED  BY <2>1, <3>1 DEF RelayInv, RelayA, Pcm16
  <2>2. CASE RelayU
    <3>1. Pcm16(ulaw2linear(linear2ulaw(amp)))
      BY ULawRelay DEF RelayInv, Pcm16
    <3>. QED  BY <2>2, <3>1 DEF RelayInv, RelayU, Pcm16
  <2>3. CASE UNCHANGED relayVars
    BY <2>3 DEF RelayInv, relayVars, Pcm16
  <2>. QED  BY <2>1, <2>2, <2>3 DEF Relay
<1>. QED  BY <1>1, <1>2, PTL DEF RelaySpec

(* linear2ulaw and ulaw2linear: half a step of the segment, for any signal *)
(* and any number of relays.                                               *)
THEOREM ULawAccuracy == RelaySpec => []ULawIsAccurate
<1>1. RelayInv => ULawIsAccurate
  <2>. SUFFICES ASSUME RelayInv, law = "u"
                PROVE  \/ 2 * Size(amp - was) <= 2^(linear2ulaw(was).seg + 3)
                       \/ Size(was) + BIAS > seg_end(7) /\ Size(amp) = 32124
    BY DEF ULawIsAccurate
  <2>1. was \in Int /\ amp = ulaw2linear(linear2ulaw(was))
    BY DEF RelayInv, Pcm16
  <2>. QED  BY <2>1, ULawRelay
<1>. QED  BY <1>1, RelayInvariance, PTL

(* linear2alaw and alaw2linear: the same, and 8 more below zero.           *)
THEOREM ALawAccuracy == RelaySpec => []ALawIsAccurate
<1>1. RelayInv => ALawIsAccurate
  <2>. SUFFICES ASSUME RelayInv, was \notin -7..-1, law = "A"
                PROVE  Size(amp - was) <= AHalf(linear2alaw(was).seg)
                                            + (IF was < 0 THEN 8 ELSE 0)
    BY Zenon DEF ALawIsAccurate, ALawAccurate, AHalf
  <2>1. /\ was \in Int /\ -(2 ^ 15) <= was /\ was < 2 ^ 15
        /\ amp = alaw2linear(linear2alaw(was))
    BY DEF RelayInv, Pcm16
  <2>. QED  BY <2>1, ALawRelay
<1>. QED  BY <1>1, RelayInvariance, PTL

(* The samples linear2alaw takes 8 too many from: what is left reads as    *)
(* the last step of the first segment, so that near-silence becomes -248.  *)
NearSilence == law = "A" /\ was \in -7..-1 => amp = -248

LEMMA ALawNearSilence ==
  ASSUME NEW x \in -7..-1
  PROVE  alaw2linear(linear2alaw(x)) = -248
<1>. DEFINE val == -x - 8
            c == linear2alaw(x)
<1>1. x \in Int /\ ~(x >= 0) /\ val \in Int /\ val < 32 * 2 ^ 3
      /\ (val \div 16) % 16 = 15
  OBVIOUS
<1>2. search(val) = 0
  <2>1. 0 \in 0..7 /\ 0 + 3 = 3
    OBVIOUS
  <2>. HIDE DEF val
  <2>. QED  BY <1>1, <2>1, Segment
<1>3. AQuant(val, 0) = 15
  <2>. HIDE DEF val
  <2>. QED  BY <1>1 DEF AQuant
<1>4. c.positive = (x >= 0) /\ c.seg = 0 /\ c.quant = 15
  <2>. DEFINE v == IF x >= 0 THEN x ELSE -x - 8
  <2>1. /\ c.positive = (x >= 0)
        /\ search(v) \in 0..7 =>
             c.seg = search(v) /\ c.quant = AQuant(v, search(v))
    BY <1>1, ALawCoded, Zenon
  <2>2. v = val /\ 0 \in 0..7
    BY <1>1
  <2>. HIDE DEF c, v, val
  <2>3. c.seg = 0 /\ c.quant = 15
    BY <1>2, <1>3, <2>1, <2>2
  <2>. QED  BY <2>1, <2>3
<1>5. alaw2linear(c) = IF x >= 0 THEN AMagnitude(0, 15)
                       ELSE -AMagnitude(0, 15)
  <2>. HIDE DEF c
  <2>. QED  BY <1>4, Zenon DEF alaw2linear, AMagnitude
<1>6. AMagnitude(0, 15) = 248
  BY DEF AMagnitude
<1>. HIDE DEF c
<1>. QED  BY <1>1, <1>5, <1>6 DEF c

(* The rest of what G711.cpp's A-law does: ALawIsAccurate leaves out no    *)
(* other samples.                                                          *)
THEOREM NearSilenceIsLoud == RelaySpec => []NearSilence
<1>1. RelayInv => NearSilence
  BY ALawNearSilence DEF RelayInv, NearSilence
<1>. QED  BY <1>1, RelayInvariance, PTL

(* A second relay by the same law leaves the sample as it is.              *)
THEOREM RelaysAreStable == RelaySpec => RelayIsStable
<1>1. RelayInv /\ [Relay]_relayVars
        => [law' = law /\ law # "none" => amp' = amp]_relayVars
  <2>. SUFFICES ASSUME RelayInv, Relay, law' = law, law # "none"
                PROVE  amp' = amp
    BY DEF relayVars
  <2>1. was \in Int
    BY DEF RelayInv, Pcm16
  <2>2. CASE RelayA
    <3>1. amp' = alaw2linear(linear2alaw(amp)) /\ law = "A"
      BY <2>2 DEF RelayA
    <3>2. amp = alaw2linear(linear2alaw(was))
      BY <3>1 DEF RelayInv
    <3>. QED  BY <2>1, <3>1, <3>2, ALawRelay
  <2>3. CASE RelayU
    <3>1. amp' = ulaw2linear(linear2ulaw(amp)) /\ law = "u"
      BY <2>3 DEF RelayU
    <3>2. amp = ulaw2linear(linear2ulaw(was))
      BY <3>1 DEF RelayInv
    <3>. QED  BY <2>1, <3>1, <3>2, ULawRelay
  <2>. QED  BY <2>2, <2>3 DEF Relay
<1>. QED  BY <1>1, RelayInvariance, PTL DEF RelaySpec, RelayIsStable
=============================================================================
