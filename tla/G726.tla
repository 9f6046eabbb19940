-------------------------------- MODULE G726 --------------------------------
(***************************************************************************)
(* The G.726 coder and decoder of Codec/G726.cpp at its four rates: each   *)
(* keeps an adaptive quantizer and predictor of its own, which must move   *)
(* in step though only codes pass between them, packed into bytes.         *)
(*                                                                         *)
(* A coder is given a signal, sample by sample, and puts out bytes; a      *)
(* decoder takes them whenever it likes.  A step is one turn of the loop   *)
(* of g726_encode or g726_decode: both keep everything in g726_state_t, so *)
(* that how many turns a call makes shows nowhere.  An int of the source   *)
(* is wide enough for what it holds; a short is cut to 16 bits where the   *)
(* sum that it is given may not fit.  x >> k is x \div 2^k, for negative x *)
(* too.                                                                    *)
(***************************************************************************)
EXTENDS Integers, Sequences, FiniteSets

CONSTANTS Signals,      \* periods of samples, each repeated for a block
          Block,        \* bound: samples of one signal on end
          MaxBlocks,    \* bound: signals one after another
          MaxBytes      \* bound: bytes the decoder may lag behind

short == -(2 ^ 15)..(2 ^ 15 - 1)
byte == 0..(2 ^ 8 - 1)
Short(x) == ((x + 32768) % 65536) - 32768

ASSUME SignalAssumption == /\ Signals \subseteq Seq(short) \ {<<>>}
                           /\ Block \in Nat \ {0}
                           /\ MaxBlocks \in Nat
                           /\ MaxBytes \in Nat

-----------------------------------------------------------------------------
(* The tables of a rate.  The decoder's are symmetric, and only their      *)
(* first halves, the codes of positive differences, are given here.        *)
qtab_726_16 == <<261>>
qtab_726_24 == <<8, 218, 331>>
qtab_726_32 == <<-124, 80, 178, 246, 300, 349, 400>>
qtab_726_40 == <<-122, -16, 68, 139, 198, 250, 298, 339, 378, 413, 445, 475,
                 502, 528, 553>>

g726_16_dqlntab == <<116, 365>>
g726_16_witab == <<-704, 14048>>
g726_16_fitab == <<0, 3584>>

g726_24_dqlntab == <<-2048, 135, 273, 373>>
g726_24_witab == <<-128, 960, 4384, 18624>>
g726_24_fitab == <<0, 512, 1024, 3584>>

g726_32_dqlntab == <<-2048, 4, 135, 213, 273, 323, 373, 425>>
g726_32_witab == <<-384, 576, 1312, 2048, 3584, 6336, 11360, 35904>>
g726_32_fitab == <<0, 0, 0, 512, 512, 512, 1536, 3584>>

g726_40_dqlntab == <<-2048, -66, 28, 104, 169, 224, 274, 318, 358, 395, 429,
                     459, 488, 514, 539, 566>>
g726_40_witab == <<448, 448, 768, 1248, 1280, 1312, 1856, 3200, 4512, 5728,
                   7008, 8960, 11456, 14080, 16928, 22272>>
g726_40_fitab == <<0, 0, 0, 0, 0, 512, 512, 512, 512, 512, 1024, 1536, 2048,
                   2560, 3072, 3072>>

Entry(half, code) == IF code < Len(half) THEN half[code + 1]
                     ELSE half[2 * Len(half) - code]

-----------------------------------------------------------------------------
(* Logarithms to the base 2 and products in floating point.                *)

top_bit(bits) == IF bits = 0 THEN -1
                 ELSE CHOOSE k \in 0..15 : bits \div (2 ^ k) = 1

(* The code of a difference d at the step size scale factor y: one for     *)
(* each entry passed of the ascending table, or the complement of it.  No  *)
(* code is zero when the number of states is odd.                          *)
quantize(d, y, table, quantizer_states) ==
  LET dqm == IF d < 0 THEN -d ELSE d
      exp == top_bit(dqm \div 2) + 1
      mant == ((dqm * 128) \div (2 ^ exp)) % 128
      dln == (exp * 128 + mant) - (y \div 4)
      i == Cardinality({n \in 1..Len(table) : dln >= table[n]})
  IN IF d < 0 THEN (2 * Len(table) + 1) - i
     ELSE IF i = 0 /\ quantizer_states % 2 = 1 THEN quantizer_states
     ELSE i

(* The difference a code stands for, with its sign in bit 15.              *)
ReconstructUnled(sign, dqln, y) ==     \* faulty variant: no leading one
  LET dql == dqln + (y \div 4)
      dq == ((dql % 128) * 128) \div (2 ^ (14 - ((dql \div 128) % 16)))
  IN IF dql < 0 THEN IF sign THEN -32768 ELSE 0
     ELSE IF sign THEN dq - 32768 ELSE dq

reconstruct(sign, dqln, y) ==
  LET dql == dqln + (y \div 4)
      dq == ((128 + (dql % 128)) * 128)
              \div (2 ^ (14 - ((dql \div 128) % 16)))
  IN IF dql < 0 THEN IF sign THEN -32768 ELSE 0
     ELSE IF sign THEN dq - 32768 ELSE dq

fmult(an, srn) ==
  LET anmag == IF an > 0 THEN an ELSE (-an) % 8192
      anexp == top_bit(anmag) - 5
      anmant == IF anmag = 0 THEN 32
                ELSE IF anexp >= 0 THEN anmag \div (2 ^ anexp)
                ELSE anmag * (2 ^ (-anexp))
      wanexp == anexp + ((srn \div 64) % 16) - 13
      wanmant == (anmant * (srn % 64) + 48) \div 16
      retval == IF wanexp >= 0 THEN (wanmant * (2 ^ wanexp)) % 32768
                ELSE wanmant \div (2 ^ (-wanexp))
  IN IF (an < 0) # (srn < 0) THEN -retval ELSE retval

predictor_zero(s) ==
  LET term(i) == fmult(s.b[i] \div 4, s.dq[i])
  IN Short(term(0) + term(1) + term(2) + term(3) + term(4) + term(5))

predictor_pole(s) ==
  Short(fmult(s.a[1] \div 4, s.sr[1]) + fmult(s.a[0] \div 4, s.sr[0]))

(* Between the slow and the fast scale factor, as the signal is steady or  *)
(* not.                                                                    *)
step_size(s) ==
  LET y == s.yl \div 64
      dif == s.yu - y
      al == s.ap \div 4
  IN IF s.ap >= 256 THEN s.yu
     ELSE IF dif > 0 THEN y + ((dif * al) \div 64)
     ELSE IF dif < 0 THEN y + ((dif * al + 63) \div 64)
     ELSE y

-----------------------------------------------------------------------------
(* update(), part by part.                                                 *)

(* A large difference on what was taken for a tone: data, not voice.       *)
Transition(s, dq) ==
  LET ylint == s.yl \div 32768
      ylfrac == (s.yl \div 1024) % 32
      thr == IF ylint > 9 THEN 31744 ELSE (32 + ylfrac) * (2 ^ ylint)
  IN s.td /\ (dq % 32768) > ((thr + (thr \div 2)) \div 2)

LimitedBetween(low, x, high) == IF x < low THEN low
                                ELSE IF x > high THEN high ELSE x

NextYu(y, wi) == LimitedBetween(544, y + ((wi - y) \div 32), 5120)
NextYl(s, yu) == s.yl + yu + ((-s.yl) \div 64)

(* The second pole, from the signs of the last three samples.              *)
LeakyA1(s, pk0) ==
  LET fa1 == IF pk0 # s.pk[0] THEN s.a[0] ELSE -s.a[0]
  IN (s.a[1] - (s.a[1] \div 128))
       + (IF fa1 < -8191 THEN -256 ELSE IF fa1 > 8191 THEN 255
          ELSE fa1 \div 32)

NextA1(s, dqsez, pk0) ==
  LET a2p == LeakyA1(s, pk0) + (IF pk0 # s.pk[1] THEN -128 ELSE 128)
  IN IF dqsez = 0 THEN s.a[1] - (s.a[1] \div 128)
     ELSE LimitedBetween(-12288, a2p, 12288)

(* The first pole, which the second limits.                                *)
NextA0Unlimited(s, a1, dqsez, pk0) ==       \* faulty variant
  Short((s.a[0] - (s.a[0] \div 256))
          + (IF dqsez = 0 THEN 0 ELSE IF pk0 = s.pk[0] THEN 192 ELSE -192))

NextA0(s, a1, dqsez, pk0) ==
  LET a1ul == 15360 - a1
      a0 == (s.a[0] - (s.a[0] \div 256))
              + (IF dqsez = 0 THEN 0 ELSE IF pk0 = s.pk[0] THEN 192 ELSE -192)
  IN LimitedBetween(-a1ul, a0, a1ul)

(* The zeros; the leak is slower at 40 kbit/s.                             *)
NextB(s, bits, dq) ==
  [k \in 0..5 |->
     Short((s.b[k] - (s.b[k] \div (IF bits = 5 THEN 512 ELSE 256)))
             + (IF dq % 32768 = 0 THEN 0
                ELSE IF (dq < 0) = (s.dq[k] < 0) THEN 128 ELSE -128))]

(* The internal floating point format: 4 bits of exponent, 6 of mantissa,  *)
(* and 1024 taken off for a sign.                                          *)
floating == -(2 ^ 10)..(2 ^ 10 - 1)
Float(mag) == LET exp == top_bit(mag) + 1
              IN exp * 64 + ((mag * 64) \div (2 ^ exp))

FloatA(dq) == (IF dq % 32768 = 0 THEN 32 ELSE Float(dq % 32768))
                - (IF dq < 0 THEN 1024 ELSE 0)

FloatB(sr) == IF sr = 0 THEN 32
              ELSE IF sr > 0 THEN Float(sr)
              ELSE IF sr > -32768 THEN Float(-sr) - 1024
              ELSE -992

NextAp(s, y, td, dms, dml, tr) ==
  LET difference == 4 * dms - dml
      unsteady == \/ y < 1536
                  \/ td
                  \/ difference >= dml \div 8
                  \/ -difference >= dml \div 8
  IN IF tr THEN 256
     ELSE IF unsteady THEN s.ap + ((512 - s.ap) \div 16)
     ELSE s.ap + ((-s.ap) \div 16)

update(s, bits, y, wi, fi, dq, sr, dqsez) ==
  LET tr == Transition(s, dq)
      pk0 == dqsez < 0
      yu == NextYu(y, wi)
      a1 == IF tr THEN 0 ELSE NextA1(s, dqsez, pk0)
      td == ~tr /\ a1 < -11776
      dms == s.dms + ((fi - s.dms) \div 32)
      dml == s.dml + ((4 * fi - s.dml) \div 128)
  IN [yu |-> yu,
      yl |-> NextYl(s, yu),
      a |-> [k \in 0..1 |-> IF k = 1 THEN a1
                            ELSE IF tr THEN 0
                            ELSE NextA0(s, a1, dqsez, pk0)],
      b |-> IF tr THEN [k \in 0..5 |-> 0] ELSE NextB(s, bits, dq),
      dq |-> [k \in 0..5 |-> IF k = 0 THEN FloatA(dq) ELSE s.dq[k - 1]],
      sr |-> [k \in 0..1 |-> IF k = 0 THEN FloatB(sr) ELSE s.sr[0]],
      pk |-> [k \in 0..1 |-> IF k = 0 THEN pk0 ELSE s.pk[0]],
      td |-> td,
      dms |-> dms,
      dml |-> dml,
      ap |-> NextAp(s, y, td, dms, dml, tr)]

-----------------------------------------------------------------------------
(* The coder and the decoder of a rate, of so many bits a code: an         *)
(* estimate of the next sample, and what is done once there is a code for  *)
(* it, which either side has a copy of its own of.                         *)
Estimate(s, sezi) == Short(sezi + predictor_pole(s)) \div 2

Reconstructed(s, bits, code, dqlntab) ==
  reconstruct(code >= 2 ^ (bits - 1), Entry(dqlntab, code), step_size(s))

Adapted(s, bits, code, dqlntab, witab, fitab) ==
  LET sezi == predictor_zero(s)
      se == Estimate(s, sezi)
      dq == Reconstructed(s, bits, code, dqlntab)
      mag == dq % (IF bits = 5 THEN 32768 ELSE 16384)
      sr == Short(IF dq < 0 THEN se - mag ELSE se + dq)
      dqsez == Short((sr + (sezi \div 2)) - se)
  IN [state |-> update(s, bits, step_size(s), Entry(witab, code),
                       Entry(fitab, code), dq, sr, dqsez),
      amp |-> Short(4 * sr)]

g726_16_decoder(s, code) ==
  Adapted(s, 2, code % 4, g726_16_dqlntab, g726_16_witab, g726_16_fitab)
g726_24_decoder(s, code) ==
  Adapted(s, 3, code % 8, g726_24_dqlntab, g726_24_witab, g726_24_fitab)
g726_32_decoder(s, code) ==
  Adapted(s, 4, code % 16, g726_32_dqlntab, g726_32_witab, g726_32_fitab)
g726_40_decoder(s, code) ==
  Adapted(s, 5, code % 32, g726_40_dqlntab, g726_40_witab, g726_40_fitab)

Quantized(s, amp, table, quantizer_states) ==
  quantize(Short(amp - Estimate(s, predictor_zero(s))), step_size(s), table,
           quantizer_states)

Coded(s, bits, i, dqlntab, witab, fitab) ==
  LET sezi == predictor_zero(s)
      se == Estimate(s, sezi)
      y == step_size(s)
      dq == reconstruct(i >= 2 ^ (bits - 1), Entry(dqlntab, i), y)
      mag == dq % (IF bits = 5 THEN 32768 ELSE 16384)
      sr == Short(IF dq < 0 THEN se - mag ELSE se + dq)
      dqsez == Short((sr + (sezi \div 2)) - se)
  IN [code |-> i,
      state |-> update(s, bits, y, Entry(witab, i), Entry(fitab, i), dq, sr,
                       dqsez)]

g726_16_encoder(s, amp) ==
  Coded(s, 2, Quantized(s, amp, qtab_726_16, 4), g726_16_dqlntab,
        g726_16_witab, g726_16_fitab)
(* Faulty variant: the speed is fed from the table of another rate.        *)
g726_24_encoderFi32(s, amp) ==
  Coded(s, 3, Quantized(s, amp, qtab_726_24, 7), g726_24_dqlntab,
        g726_24_witab, g726_32_fitab)

g726_24_encoder(s, amp) ==
  Coded(s, 3, Quantized(s, amp, qtab_726_24, 7), g726_24_dqlntab,
        g726_24_witab, g726_24_fitab)
g726_32_encoder(s, amp) ==
  Coded(s, 4, Quantized(s, amp, qtab_726_32, 15), g726_32_dqlntab,
        g726_32_witab, g726_32_fitab)
g726_40_encoder(s, amp) ==
  Coded(s, 5, Quantized(s, amp, qtab_726_40, 31), g726_40_dqlntab,
        g726_40_witab, g726_40_fitab)

dec_func(bits, s, code) == CASE bits = 2 -> g726_16_decoder(s, code)
                             [] bits = 3 -> g726_24_decoder(s, code)
                             [] bits = 4 -> g726_32_decoder(s, code)
                             [] bits = 5 -> g726_40_decoder(s, code)

enc_func(bits, s, amp) == CASE bits = 2 -> g726_16_encoder(s, amp)
                            [] bits = 3 -> g726_24_encoder(s, amp)
                            [] bits = 4 -> g726_32_encoder(s, amp)
                            [] bits = 5 -> g726_40_encoder(s, amp)

-----------------------------------------------------------------------------
VARIABLES bits_per_sample,  \* of both sides
          coder, decoder,   \* the g726_state_t of each side
          coder_bs,         \* its bits not yet in a byte, and
          decoder_bs,       \* those not yet decoded: [bitstream, residue]
          bytes,            \* bytes not yet given to the decoder
          signal, position, \* the signal coded, and how many samples were
          trail             \* history: the coder's state after each code the
                            \* decoder has to decode yet, after its own now

vars == <<bits_per_sample, coder, decoder, coder_bs, decoder_bs, bytes,
          signal, position, trail>>

g726_state == [yu |-> 544, yl |-> 34816, dms |-> 0, dml |-> 0, ap |-> 0,
               a |-> [k \in 0..1 |-> 0], b |-> [k \in 0..5 |-> 0],
               pk |-> [k \in 0..1 |-> FALSE],
               dq |-> [k \in 0..5 |-> 32], sr |-> [k \in 0..1 |-> 32],
               td |-> FALSE]

bitstream_init == [bitstream |-> 0, residue |-> 0]

(* g726_init() of a bit rate it knows, on both sides.                      *)
Init == /\ bits_per_sample \in 2..5
        /\ coder = g726_state /\ decoder = g726_state
        /\ coder_bs = bitstream_init /\ decoder_bs = bitstream_init
        /\ bytes = <<>>
        /\ signal \in Signals /\ position = 0
        /\ trail = <<g726_state>>

HasByteLate(residue) == residue > 8         \* faulty variant: off by one
HasByte(residue) == residue >= 8

(* A byte, if with the code there are bits for one.  Of the bitstream,     *)
(* only the bits not put out are kept.                                     *)
PutOut(coded) ==
  LET stream == coder_bs.bitstream * (2 ^ bits_per_sample) + coded.code
      residue == coder_bs.residue + bits_per_sample
  IN /\ coder' = coded.state
     /\ trail' = Append(trail, coder')
     /\ IF HasByte(residue)
        THEN /\ coder_bs' = [bitstream |-> stream % (2 ^ (residue - 8)),
                             residue |-> residue - 8]
             /\ bytes' = Append(bytes, stream \div (2 ^ (residue - 8)))
        ELSE /\ coder_bs' = [bitstream |-> stream, residue |-> residue]
             /\ bytes' = bytes

(* One sample of g726_encode().                                            *)
Encode(amp) ==
  \E coded \in {enc_func(bits_per_sample, coder, amp \div 4)} : PutOut(coded)

EncodeNext ==
  /\ position < Block * MaxBlocks
  /\ Len(bytes) < MaxBytes
  /\ signal' \in IF position % Block = 0 THEN Signals ELSE {signal}
  /\ Encode(signal'[(position % Len(signal')) + 1])
  /\ position' = position + 1
  /\ UNCHANGED <<bits_per_sample, decoder, decoder_bs>>

LowCode(stream, residue) == stream % (2 ^ bits_per_sample)  \* faulty variant
TopCode(stream, residue) == stream \div (2 ^ residue)

(* One sample of g726_decode(), which takes a byte when it has less than a *)
(* code.                                                                   *)
Decode ==
  LET short_of_bits == decoder_bs.residue < bits_per_sample
      stream == IF short_of_bits THEN decoder_bs.bitstream * 256 + bytes[1]
                ELSE decoder_bs.bitstream
      residue == (decoder_bs.residue + (IF short_of_bits THEN 8 ELSE 0))
                   - bits_per_sample
      code == TopCode(stream, residue)
  IN /\ short_of_bits => bytes # <<>>
     /\ bytes' = IF short_of_bits THEN Tail(bytes) ELSE bytes
     /\ decoder_bs' = [bitstream |-> stream % (2 ^ residue),
                       residue |-> residue]
     /\ decoder' = dec_func(bits_per_sample, decoder, code).state
     /\ trail' = Tail(trail)
     /\ UNCHANGED <<bits_per_sample, coder, coder_bs, signal, position>>

Next == EncodeNext \/ Decode

Spec == Init /\ [][Next]_vars

-----------------------------------------------------------------------------
(* Types, with the ranges that fit their shorts and their formats: less    *)
(* than a byte waits in the coder, less than a code and a byte in the      *)
(* decoder (g726_encode, g726_decode).                                     *)
CoderType(s) == /\ s.a \in [0..1 -> short] /\ s.b \in [0..5 -> short]
                /\ s.sr \in [0..1 -> floating]
                /\ s.dq \in [0..5 -> floating]
                /\ s.pk \in [0..1 -> BOOLEAN] /\ s.td \in BOOLEAN

TypeOK == /\ bits_per_sample \in 2..5
          /\ CoderType(coder) /\ CoderType(decoder)
          /\ coder_bs.residue \in 0..7 /\ decoder_bs.residue \in 0..7
          /\ coder_bs.bitstream \in 0..(2 ^ coder_bs.residue - 1)
          /\ decoder_bs.bitstream \in 0..(2 ^ decoder_bs.residue - 1)
          /\ bytes \in Seq(byte) /\ Len(bytes) <= MaxBytes
          /\ signal \in Signals
          /\ position \in 0..(Block * MaxBlocks)

(* Whatever is coded, the adaptation of update() keeps within its limits:  *)
(* the poles of the predictor in the triangle where the filter is stable,  *)
(* the speed and the energies in their ranges, and the scale factors in    *)
(* the one beyond which reconstruct() would shift by a negative count.     *)
Within(low, x, high) == x \in Int /\ low <= x /\ x <= high

Bounded(s) == /\ Within(-12288, s.a[1], 12288)
              /\ Within(s.a[1] - 15360, s.a[0], 15360 - s.a[1])
              /\ Within(544, s.yu, 5120) /\ Within(34816, s.yl, 327680)
              /\ Within(544, step_size(s), 5120)
              /\ Within(0, s.ap, 512)
              /\ Within(0, s.dms, 3584) /\ Within(0, s.dml, 14336)

AdaptationBounded == Bounded(coder) /\ Bounded(decoder)

(* The decoder is where the coder was after as many codes, however many    *)
(* bytes it lags behind and wherever in a byte the codes lie; and the bits *)
(* between the two are those of the codes not decoded (g726_encode and     *)
(* g726_decode, with the predictor of each side run on its own).           *)
InStep == /\ decoder = trail[1] /\ coder = trail[Len(trail)]
          /\ (Len(trail) - 1) * bits_per_sample
               = coder_bs.residue + 8 * Len(bytes) + decoder_bs.residue

(* A code stands for a difference that gets the same code again, so that   *)
(* what was decoded can be coded again without loss (quantize against      *)
(* reconstruct, at whatever scale the adaptation has come to).  At 40      *)
(* kbit/s that fails for the smallest steps, of less than one unit.        *)
Difference(dq) == IF dq < 0 THEN -(dq % 32768) ELSE dq

Requantized(s, bits, code) ==
  LET qtab == CASE bits = 2 -> qtab_726_16 [] bits = 3 -> qtab_726_24
                [] bits = 4 -> qtab_726_32 [] bits = 5 -> qtab_726_40
      dqln == CASE bits = 2 -> g726_16_dqlntab [] bits = 3 -> g726_24_dqlntab
                [] bits = 4 -> g726_32_dqlntab [] bits = 5 -> g726_40_dqlntab
      dq == Reconstructed(s, bits, code, dqln)
  IN quantize(Difference(dq), step_size(s), qtab,
              IF bits = 2 THEN 4 ELSE 2 ^ bits - 1)

CodeIsStable ==
  (bits_per_sample < 5 \/ step_size(coder) >= 1288) =>
    \A code \in (IF bits_per_sample = 2 THEN 0 ELSE 1)..
                   (2 ^ bits_per_sample - 1) :
      Requantized(coder, bits_per_sample, code) = code

=============================================================================
