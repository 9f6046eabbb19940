-------------------------------- MODULE G711 --------------------------------
(***************************************************************************)
(* The conversions of Codec/G711.cpp, which the server's CCodec uses to    *)
(* decode and a terminal's side to encode.  The state is one sample; a     *)
(* step codes it with one of the laws and decodes it again, as every relay *)
(* of the audio does.                                                      *)
(***************************************************************************)
EXTENDS Integers, FiniteSetsExt

CONSTANT PcmSamples   \* 16-bit linear PCM

ASSUME PcmAssumption == PcmSamples \subseteq -(2 ^ 15)..(2 ^ 15 - 1)

VARIABLES amp,        \* the sample
          was,        \* history: the sample before the last relay
          law         \* history: the law of the last relay

relayVars == <<amp, was, law>>

-----------------------------------------------------------------------------
SEG_STEPS == 16       \* QUANT_MASK + 1, the steps of a segment
BIAS == 132

(* Segment seg ends at 2^(8 + seg) - 1; 8 stands for beyond the last.      *)
seg_end(seg) == 2^(8 + seg) - 1
searchBelow(val) ==                     \* faulty variant: < for <=
  Min({i \in 0..7 : val < seg_end(i)} \cup {8})
search(val) == Min({i \in 0..7 : val <= seg_end(i)} \cup {8})

(* A code is its three fields: positive stands for the sign bit of the     *)
(* A-law, and for its absence in the complemented code of the u-law.       *)
linear2alaw(pcm_val) ==
  LET positive == pcm_val >= 0
      val == IF positive THEN pcm_val ELSE -pcm_val - 8
      seg == search(val)
  IN [positive |-> positive,
      seg |-> IF seg >= 8 THEN 7 ELSE seg,
      quant |-> IF seg >= 8 THEN SEG_STEPS - 1
                ELSE IF seg < 2 THEN (val \div 16) % SEG_STEPS
                ELSE (val \div 2^(seg + 3)) % SEG_STEPS]

(* Faulty variant: the bias of the second segment is left out.             *)
alaw2linearUnbiased(a_val) ==
  LET t == 16 * a_val.quant
      magnitude == IF a_val.seg <= 1 THEN t + 8
                   ELSE (t + 264) * 2^(a_val.seg - 1)
  IN IF a_val.positive THEN magnitude ELSE -magnitude

alaw2linear(a_val) ==
  LET t == 16 * a_val.quant
      magnitude == IF a_val.seg = 0 THEN t + 8
                   ELSE IF a_val.seg = 1 THEN t + 264
                   ELSE (t + 264) * 2^(a_val.seg - 1)
  IN IF a_val.positive THEN magnitude ELSE -magnitude

linear2ulaw(pcm_val) ==
  LET positive == pcm_val >= 0
      val == IF positive THEN pcm_val + BIAS ELSE BIAS - pcm_val
      seg == search(val)
  IN [positive |-> positive,
      seg |-> IF seg >= 8 THEN 7 ELSE seg,
      quant |-> IF seg >= 8 THEN SEG_STEPS - 1
                ELSE (val \div 2^(seg + 3)) % SEG_STEPS]

(* Faulty variant: the bias is not taken off.                              *)
ulaw2linearBiased(u_val) ==
  LET t == (8 * u_val.quant + BIAS) * 2^u_val.seg
  IN IF u_val.positive THEN t ELSE -t

ulaw2linear(u_val) ==
  LET t == (8 * u_val.quant + BIAS) * 2^u_val.seg
  IN IF u_val.positive THEN t - BIAS ELSE BIAS - t

-----------------------------------------------------------------------------
RelayInit == amp \in PcmSamples /\ was = amp /\ law = "none"

RelayA == /\ amp' = alaw2linear(linear2alaw(amp))
          /\ was' = amp
          /\ law' = "A"

RelayU == /\ amp' = ulaw2linear(linear2ulaw(amp))
          /\ was' = amp
          /\ law' = "u"

Relay == RelayA \/ RelayU

RelaySpec == RelayInit /\ [][Relay]_relayVars

-----------------------------------------------------------------------------
Size(x) == IF x < 0 THEN -x ELSE x

(* Audio that has been through a codec goes through it again unchanged,    *)
(* on however many relays.                                                 *)
RelayIsStable == [][law' = law /\ law # "none" => amp' = amp]_relayVars

(* A relay by the u-law is off by at most half a step of the segment: the  *)
(* steps double from one segment to the next, and what lies beyond the     *)
(* last segment becomes its last value.                                    *)
ULawIsAccurate ==
  law = "u" => \/ 2 * Size(amp - was) <= 2^(linear2ulaw(was).seg + 3)
               \/ Size(was) + BIAS > seg_end(7) /\ Size(amp) = 32124

(* So is a relay by the A-law, but that linear2alaw takes 8 too many from  *)
(* the magnitude of a negative sample; from -7 to -1 that leaves less than *)
(* nothing, which reads as the last step of the first segment.             *)
ALawAccurate ==
  LET seg == linear2alaw(was).seg
      half == IF seg < 2 THEN 8 ELSE 2^(seg + 2)
  IN law = "A" => Size(amp - was) <= half + (IF was < 0 THEN 8 ELSE 0)

(* All other samples are coded as accurately as that.                      *)
ALawIsAccurate == was \notin -7..-1 => ALawAccurate
=============================================================================
