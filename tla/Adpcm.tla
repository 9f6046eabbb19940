------------------------------- MODULE Adpcm -------------------------------
(***************************************************************************)
(* The ADPCM coder and decoder of Codec/Adpcm.cpp over one audio frame, as *)
(* CCodec::__DecodeAdpcm2Pcm uses the decoder: the frame carries the state *)
(* the coder started from, then the codes, two to a byte.                  *)
(*                                                                         *)
(* A terminal codes a frame sample by sample; the server then decodes as   *)
(* many samples as the bytes have nibbles.  The state in front of the      *)
(* codes is the terminal's own or, as nothing checks it, any other: the    *)
(* step index is a char and may lie outside the table, and the step read   *)
(* there is then whatever the memory holds.                                *)
(***************************************************************************)
EXTENDS Integers, Sequences

CONSTANTS Samples,        \* PCM the terminal has to send
          Starts,         \* coder states a frame may begin with
          Misstarts,      \* other states the frame may claim
          JunkSteps,      \* what may lie around stepsizeTable
          MaxSamples      \* bound: samples in a frame

short == -(2 ^ 15)..(2 ^ 15 - 1)
States == [valprev : short, index : 0..88]
adpcm_state == [valprev : short, index : -128..127]

ASSUME AdpcmAssumption == /\ Samples \subseteq short
                          /\ Starts \subseteq States
                          /\ Misstarts \subseteq adpcm_state
                          /\ JunkSteps \subseteq -(2 ^ 30)..2 ^ 30
                          /\ MaxSamples \in Nat

VARIABLES coder,        \* adpcm_state as adpcm_coder leaves it
          decoder,      \* adpcm_state as adpcm_decoder leaves it
          outputbuffer, \* high nibble of an unfinished byte, -1 for none
          bytes,        \* what the coder has put out
          coded,        \* history: the coder's states, from its first on
          header,       \* the state the frame claims
          outdata,      \* what the decoder has put out
          input,        \* history: the last sample, and the state it met
          phase

vars == <<coder, decoder, outputbuffer, bytes, coded, header, outdata, input,
          phase>>

-----------------------------------------------------------------------------
indexTable(delta) == IF delta % 8 < 4 THEN -1 ELSE 2 * ((delta % 8) - 3)

stepsizeTable ==
  <<7, 8, 9, 10, 11, 12, 13, 14, 16, 17, 19, 21, 23, 25, 28, 31, 34, 37, 41,
    45, 50, 55, 60, 66, 73, 80, 88, 97, 107, 118, 130, 143, 157, 173, 190, 209,
    230, 253, 279, 307, 337, 371, 408, 449, 494, 544, 598, 658, 724, 796, 876,
    963, 1060, 1166, 1282, 1411, 1552, 1707, 1878, 2066, 2272, 2499, 2749,
    3024, 3327, 3660, 4026, 4428, 4871, 5358, 5894, 6484, 7132, 7845, 8630,
    9493, 10442, 11487, 12635, 13899, 15289, 16818, 18500, 20350, 22385, 24623,
    27086, 29794, 32767>>

Step(state) == stepsizeTable[state.index + 1]

(* Faulty variant: only overflow is clamped.                               *)
ClampAbove(v) == IF v > 32767 THEN 32767 ELSE v

ClampValue(v) == IF v > 32767 THEN 32767 ELSE IF v < -32768 THEN -32768 ELSE v
ClampIndex(i) == IF i < 0 THEN 0 ELSE IF i > 88 THEN 88 ELSE i

(* vpdiff = step >> 3: the + 0.5 of (delta + 0.5) * step / 4.              *)
NoHalf(step) == 0                 \* faulty variant: stepsize*code/4
HalfQuantum(step) == step \div 8

Abs(x) == IF x < 0 THEN -x ELSE x

(* Steps 1 to 5 of adpcm_coder: the code of a sample and the new state.    *)
Code(state, val) ==
  LET step == Step(state)
      diff == Abs(val - state.valprev)
      bit4 == diff >= step
      rest4 == IF bit4 THEN diff - step ELSE diff
      bit2 == rest4 >= step \div 2
      rest2 == IF bit2 THEN rest4 - step \div 2 ELSE rest4
      bit1 == rest2 >= (step \div 2) \div 2
      vpdiff == HalfQuantum(step) + (IF bit4 THEN step ELSE 0)
                  + (IF bit2 THEN step \div 2 ELSE 0)
                  + (IF bit1 THEN (step \div 2) \div 2 ELSE 0)
      negative == val < state.valprev
      delta == (IF negative THEN 8 ELSE 0) + (IF bit4 THEN 4 ELSE 0)
                 + (IF bit2 THEN 2 ELSE 0) + (IF bit1 THEN 1 ELSE 0)
  IN [delta |-> delta,
      state |-> [valprev |-> ClampValue(IF negative
                                        THEN state.valprev - vpdiff
                                        ELSE state.valprev + vpdiff),
                 index |-> ClampIndex(state.index + indexTable(delta))]]

(* Steps 2 to 6 of adpcm_decoder.                                          *)
Difference(step, delta) ==
  HalfQuantum(step)
              + (IF (delta \div 4) % 2 = 1 THEN step ELSE 0)
              + (IF (delta \div 2) % 2 = 1 THEN step \div 2 ELSE 0)
              + (IF delta % 2 = 1 THEN step \div 4 ELSE 0)

(* The step an index taken from a frame leads to.                          *)
StepsAt(index) == IF index \in 0..88 THEN {stepsizeTable[index + 1]}
                  ELSE JunkSteps

(* Faulty variant: the index is not kept to the table.                     *)
DecodedUnclamped(state, step, delta) ==
  LET vpdiff == Difference(step, delta)
  IN [valprev |-> ClampValue(IF delta >= 8 THEN state.valprev - vpdiff
                             ELSE state.valprev + vpdiff),
      index |-> state.index + indexTable(delta)]

Decoded(state, step, delta) ==
  LET vpdiff == Difference(step, delta)
  IN [valprev |-> ClampValue(IF delta >= 8 THEN state.valprev - vpdiff
                             ELSE state.valprev + vpdiff),
      index |-> ClampIndex(state.index + indexTable(delta))]

-----------------------------------------------------------------------------
Init == /\ coder \in Starts
        /\ decoder = coder
        /\ header = coder
        /\ outputbuffer = -1
        /\ bytes = <<>>
        /\ coded = <<coder>>
        /\ outdata = <<>>
        /\ input = [val |-> coder.valprev, met |-> coder]
        /\ phase = "coding"

(* One turn of the loop of adpcm_coder, with the packing of step 6.        *)
CodeSample(val) ==
  /\ phase = "coding"
  /\ Len(coded) <= MaxSamples
  /\ LET c == Code(coder, val)
     IN /\ coder' = c.state
        /\ coded' = Append(coded, c.state)
        /\ IF outputbuffer = -1
             THEN outputbuffer' = 16 * c.delta /\ bytes' = bytes
             ELSE /\ bytes' = Append(bytes, c.delta + outputbuffer)
                  /\ outputbuffer' = -1
  /\ input' = [val |-> val, met |-> coder]
  /\ UNCHANGED <<decoder, header, outdata, phase>>

(* The end of adpcm_coder, "Output last step, if needed", and the frame's  *)
(* way to the decoder, which begins with the state it claims.              *)
FinishCoding ==
  /\ phase = "coding"
  /\ bytes' = IF outputbuffer # -1 THEN Append(bytes, outputbuffer) ELSE bytes
  /\ outputbuffer' = -1
  /\ header' \in {header} \cup Misstarts
  /\ decoder' = header'
  /\ phase' = "decoding"
  /\ UNCHANGED <<coder, coded, outdata, input>>

(* Faulty variant: the low nibble first.                                   *)
NibbleSwapped(n) == LET byte == bytes[n \div 2 + 1]
                    IN IF n % 2 = 1 THEN byte \div 16 ELSE byte % 16

(* One turn of the loop of adpcm_decoder.                                  *)
Nibble(n) == LET byte == bytes[n \div 2 + 1]
             IN IF n % 2 = 0 THEN byte \div 16 ELSE byte % 16

DecodeSample ==
  /\ phase = "decoding"
  /\ Len(outdata) < 2 * Len(bytes)
  /\ \E step \in StepsAt(decoder.index) :
       decoder' = Decoded(decoder, step, Nibble(Len(outdata)))
  /\ outdata' = Append(outdata, decoder'.valprev)
  /\ UNCHANGED <<coder, outputbuffer, bytes, coded, header, input, phase>>

FinishDecoding ==
  /\ phase = "decoding"
  /\ Len(outdata) = 2 * Len(bytes)
  /\ phase' = "done"
  /\ UNCHANGED <<coder, decoder, outputbuffer, bytes, coded, header, outdata,
                 input>>

Done == phase = "done" /\ UNCHANGED vars

Next == \/ \E val \in Samples : CodeSample(val)
        \/ FinishCoding \/ DecodeSample \/ FinishDecoding
        \/ Done

Spec == Init /\ [][Next]_vars

-----------------------------------------------------------------------------
(* Predictions keep to 16 bits, the coder's index to the table, codes to   *)
(* bytes.                                                                  *)
TypeOK == /\ coder \in States
          /\ decoder \in adpcm_state /\ header \in adpcm_state
          /\ outputbuffer \in {-1} \cup {16 * d : d \in 0..15}
          /\ bytes \in Seq(0..255)
          /\ coded \in Seq(States) /\ outdata \in Seq(short)
          /\ input.val \in short /\ input.met \in States
          /\ phase \in {"coding", "decoding", "done"}

(* A frame that tells the coder's state is decoded as it was coded, sample *)
(* by sample, though the coder halves the step as it goes and the decoder  *)
(* shifts it anew, and across the bytes.  After an odd number of samples   *)
(* the decoder makes up one more.                                          *)
Coded == Len(coded) - 1

InStep ==
  header = coded[1] =>
    /\ \A i \in 1..Len(outdata) : i <= Coded => outdata[i] = coded[i + 1].valprev
    /\ phase = "done" => Len(outdata) - Coded = Coded % 2
    /\ phase = "done" /\ Coded % 2 = 0 => decoder = coder

(* Whatever index a frame claims, and whatever was read as its step, from  *)
(* the first sample on the decoder is inside the table, and no further     *)
(* from the coder than the claim was from the truth: clamping at the ends  *)
(* brings the two together and never apart.                                *)
MisstartFades ==
  outdata # <<>> =>
    /\ decoder.index \in 0..88
    /\ Len(outdata) <= Coded =>
         Abs(decoder.index - coded[Len(outdata) + 1].index)
           <= Abs(header.index - coded[1].index)

(* The comment in step 2: vpdiff is (delta + 0.5) * step / 4 but for bits  *)
(* dropped in shifting, and delta the code for which that is nearest, so a *)
(* sample within reach of the step is met to half a quantum.               *)
TracksInput ==
  LET step == Step(input.met)
      diff == Abs(input.val - input.met.valprev)
  IN Coded > 0 =>
       /\ diff < 2 * step => 8 * Abs(input.val - coder.valprev) <= step + 24
       /\ Abs(input.val - coder.valprev) <= diff + step \div 8
=============================================================================
