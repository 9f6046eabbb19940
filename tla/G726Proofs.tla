----------------------------- MODULE G726Proofs -----------------------------
(***************************************************************************)
(* Proofs about G726: whatever signal is coded at whatever rate, and       *)
(* however far behind it is decoded,                                       *)
(*   - the adaptation stays within the limits that the arithmetic of the   *)
(*     coder and the decoder counts on (AdaptationIsBounded);              *)
(*   - both sides stay in step (SidesInStep) and in their types            *)
(*     (TypeCorrect);                                                      *)
(*   - a code stands for a difference that gets it again (CodesAreStable). *)
(*                                                                         *)
(* Nothing is needed of the predictor for the limits: each is kept by      *)
(* update() on its own, for any sample, any difference and any code of the *)
(* rate.  The codes are stable at any scale within the limits, for reasons *)
(* of the tables alone.                                                    *)
(***************************************************************************)
EXTENDS G726, FiniteSetTheorems, TLAPS

-----------------------------------------------------------------------------
(* Powers and products, which the provers do not know.                     *)

(* A power of two is positive: it counts the subsets of a set.             *)
LEMMA Powers == ASSUME NEW r \in Nat PROVE 2 ^ r \in Nat \ {0}
<1>1. IsFiniteSet(1..r) /\ Cardinality(1..r) = r
  BY FS_Interval, SMT
<1>2. IsFiniteSet(SUBSET (1..r)) /\ Cardinality(SUBSET (1..r)) = 2 ^ r
  BY <1>1, FS_SUBSET, Zenon
<1>3. 2 ^ r \in Nat
  BY <1>2, FS_CardinalityType, Zenon
<1>4. 2 ^ r # 0
  BY <1>2, FS_EmptySet, Zenon
<1>. QED  BY <1>3, <1>4

(* A part of a difference that is less than the whole.                     *)
LEMMA Products == ASSUME NEW d \in Nat, NEW al \in Int, 0 <= al, al <= 64
                  PROVE  Within(0, d * al, 64 * d)
  BY SMT DEF Within

(* The same of a negative difference, which is rounded towards zero.       *)
LEMMA NegativeProducts ==
  ASSUME NEW d \in Int, d < 0, NEW al \in Int, 0 <= al, al <= 64
  PROVE  Within(64 * d, d * al, 0)
  BY SMT DEF Within

-----------------------------------------------------------------------------
(* The limits of the adaptation.                                           *)

(* Bounded, but for the scale factor that is mixed of two.                 *)
InLimits(s) == /\ Within(-12288, s.a[1], 12288)
               /\ Within(s.a[1] - 15360, s.a[0], 15360 - s.a[1])
               /\ Within(544, s.yu, 5120) /\ Within(34816, s.yl, 327680)
               /\ Within(0, s.ap, 512)
               /\ Within(0, s.dms, 3584) /\ Within(0, s.dml, 14336)

(* step_size() is between the slow scale factor and the fast one.          *)
LEMMA StepSizeInLimits ==
  ASSUME NEW s, InLimits(s)
  PROVE  Within(544, step_size(s), 5120)
<1>. DEFINE y == s.yl \div 64
            dif == s.yu - y
            al == s.ap \div 4
<1>1. Within(544, s.yu, 5120) /\ Within(544, y, 5120) /\ dif \in Int
  BY DEF InLimits, Within
<1>2. s.yu = y + dif
  BY <1>1 DEF Within
<1>3. CASE s.ap >= 256
  BY <1>1, <1>3 DEF step_size
<1>4. CASE ~(s.ap >= 256)
  <2>1. Within(0, al, 64)
    BY <1>4 DEF InLimits, Within
  <2>2. step_size(s) = IF dif > 0 THEN y + ((dif * al) \div 64)
                       ELSE IF dif < 0 THEN y + ((dif * al + 63) \div 64)
                       ELSE y
    BY <1>4 DEF step_size
  <2>. HIDE DEF y, dif, al
  <2>3. CASE dif > 0
    <3>1. Within(0, dif * al, 64 * dif)
      BY <1>1, <2>1, <2>3, Products DEF Within
    <3>. DEFINE product == dif * al
    <3>. HIDE DEF product
    <3>2. Within(0, product \div 64, dif)
      BY <1>1, <2>3, <3>1 DEF product, Within
    <3>3. step_size(s) = y + (product \div 64)
      BY <2>2, <2>3 DEF product
    <3>. QED  BY <1>1, <1>2, <3>2, <3>3 DEF Within
  <2>4. CASE dif < 0
    <3>1. Within(64 * dif, dif * al, 0)
      BY <1>1, <2>1, <2>4, NegativeProducts DEF Within
    <3>. DEFINE product == dif * al
    <3>. HIDE DEF product
    <3>2. Within(dif, (product + 63) \div 64, 0)
      BY <1>1, <2>4, <3>1 DEF product, Within
    <3>3. step_size(s) = y + ((product + 63) \div 64)
      BY <1>1, <2>2, <2>4 DEF product
    <3>. QED  BY <1>1, <1>2, <3>2, <3>3 DEF Within
  <2>5. CASE ~(dif > 0) /\ ~(dif < 0)
    BY <1>1, <2>2, <2>5
  <2>. QED  BY <2>3, <2>4, <2>5
<1>. QED  BY <1>3, <1>4

(* AdaptationBounded says of each side what the proof carries through a    *)
(* step.                                                                   *)
LEMMA BoundedIsInLimits == ASSUME NEW s PROVE Bounded(s) <=> InLimits(s)
<1>1. InLimits(s) => Within(544, step_size(s), 5120)
  BY StepSizeInLimits
<1>. QED  BY <1>1 DEF Bounded, InLimits
-----------------------------------------------------------------------------
(* update() keeps them.                                                    *)

(* A value that is cut to a range lies within it.                          *)
LEMMA LimitedIsWithin ==
  ASSUME NEW low \in Int, NEW x \in Int, NEW high \in Int, low <= high
  PROVE  Within(low, LimitedBetween(low, x, high), high)
  BY DEF LimitedBetween, Within

(* A leaky average of values within a range stays within it.               *)
LEMMA ScalesKept ==
  ASSUME NEW s, InLimits(s), NEW y \in Int, NEW wi \in Int
  PROVE  /\ Within(544, NextYu(y, wi), 5120)
         /\ Within(34816, NextYl(s, NextYu(y, wi)), 327680)
<1>1. Within(544, NextYu(y, wi), 5120)
  BY LimitedIsWithin DEF NextYu
<1>. DEFINE yu == NextYu(y, wi)
<1>. HIDE DEF yu
<1>2. Within(34816, s.yl, 327680) /\ Within(544, yu, 5120)
  BY <1>1 DEF InLimits, yu
<1>3. Within(34816, s.yl + yu + ((-s.yl) \div 64), 327680)
  BY <1>2 DEF Within
<1>. QED  BY <1>1, <1>3 DEF NextYl, yu

(* The second pole is cut to its range, and the first to what is left by   *)
(* the second.                                                             *)
LEMMA SecondPoleKept ==
  ASSUME NEW s, InLimits(s), NEW dqsez, NEW pk0
  PROVE  Within(-12288, NextA1(s, dqsez, pk0), 12288)
<1>1. Within(-12288, s.a[1], 12288) /\ s.a[0] \in Int
  BY DEF InLimits, Within
<1>2. Within(-12288, s.a[1] - (s.a[1] \div 128), 12288)
  BY <1>1 DEF Within
<1>3. LeakyA1(s, pk0) \in Int
  BY <1>1, <1>2 DEF LeakyA1, Within
<1>4. Within(-12288,
             LimitedBetween(-12288, LeakyA1(s, pk0)
               + (IF pk0 # s.pk[1] THEN -128 ELSE 128), 12288),
             12288)
  BY <1>3, LimitedIsWithin
<1>. QED  BY <1>2, <1>4 DEF NextA1

(* The first pole is cut to what the second has left of the stable range.  *)
LEMMA FirstPoleKept ==
  ASSUME NEW s, InLimits(s), NEW dqsez, NEW pk0, NEW a1 \in Int, a1 <= 12288
  PROVE  Within(a1 - 15360, NextA0(s, a1, dqsez, pk0), 15360 - a1)
<1>. DEFINE a0 == (s.a[0] - (s.a[0] \div 256))
                    + (IF dqsez = 0 THEN 0
                       ELSE IF pk0 = s.pk[0] THEN 192 ELSE -192)
<1>1. a0 \in Int
  BY DEF InLimits, Within
<1>2. NextA0(s, a1, dqsez, pk0)
        = LimitedBetween(-(15360 - a1), a0, 15360 - a1)
  BY DEF NextA0
<1>. HIDE DEF a0
<1>. QED  BY <1>1, <1>2 DEF LimitedBetween, Within

(* The speed control tends to 0 or 512, or is set to 256, and stays        *)
(* between.                                                                *)
LEMMA SpeedKept ==
  ASSUME NEW s, InLimits(s), NEW y, NEW td, NEW dms, NEW dml, NEW tr
  PROVE  Within(0, NextAp(s, y, td, dms, dml, tr), 512)
  BY DEF NextAp, InLimits, Within

(* update() keeps every limit, given entries of the tables.                *)
LEMMA UpdateKeepsLimits ==
  ASSUME NEW s, InLimits(s), NEW bits, NEW y \in Int, NEW wi \in Int,
         NEW fi \in Int, 0 <= fi, fi <= 3584, NEW dq, NEW sr, NEW dqsez
  PROVE  InLimits(update(s, bits, y, wi, fi, dq, sr, dqsez))
<1>. DEFINE t == update(s, bits, y, wi, fi, dq, sr, dqsez)
            tr == Transition(s, dq)
            pk0 == dqsez < 0
            a1 == IF tr THEN 0 ELSE NextA1(s, dqsez, pk0)
            dms == s.dms + ((fi - s.dms) \div 32)
            dml == s.dml + ((4 * fi - s.dml) \div 128)
            td == ~tr /\ a1 < -11776
<1>1. /\ t.yu = NextYu(y, wi) /\ t.yl = NextYl(s, NextYu(y, wi))
      /\ t.a[1] = a1
      /\ t.a[0] = IF tr THEN 0 ELSE NextA0(s, a1, dqsez, pk0)
      /\ t.dms = dms /\ t.dml = dml
      /\ t.ap = NextAp(s, y, td, dms, dml, tr)
  BY DEF update
<1>2. Within(-12288, a1, 12288)
  BY SecondPoleKept DEF Within
<1>3. Within(a1 - 15360, t.a[0], 15360 - a1)
  <2>. HIDE DEF t, a1
  <2>1. a1 \in Int /\ a1 <= 12288
    BY <1>2 DEF Within
  <2>2. Within(a1 - 15360, 0, 15360 - a1)
    BY <1>2 DEF Within
  <2>3. Within(a1 - 15360, NextA0(s, a1, dqsez, pk0), 15360 - a1)
    <3>. HIDE DEF tr, pk0
    <3>. QED  BY <2>1, FirstPoleKept
  <2>. QED  BY <1>1, <2>2, <2>3
<1>4. Within(0, dms, 3584) /\ Within(0, dml, 14336)
  BY DEF InLimits, Within
<1>5. Within(0, t.ap, 512)
  BY <1>1, SpeedKept
<1>6. Within(544, t.yu, 5120) /\ Within(34816, t.yl, 327680)
  BY <1>1, ScalesKept
<1>. HIDE DEF t, a1, dms, dml
<1>. QED  BY <1>1, <1>2, <1>3, <1>4, <1>5, <1>6 DEF InLimits, t

-----------------------------------------------------------------------------
(* The codes, and the entries of the tables for them.                      *)

(* Either half of a symmetric table has the entries that are given of it.  *)
LEMMA EntryInTable ==
  ASSUME NEW S, NEW half \in Seq(S), NEW code \in Int,
         0 <= code, code < 2 * Len(half)
  PROVE  Entry(half, code) \in S
  BY DEF Entry

(* What an average of which dms and dml are.                               *)
Energies == {x \in Int : 0 <= x /\ x <= 3584}

(* The energies of the four rates lie in the range of the averages.        *)
LEMMA EnergiesOfTables ==
  /\ g726_16_fitab \in Seq(Energies)
  /\ Len(g726_16_fitab) = 2
  /\ g726_24_fitab \in Seq(Energies)
  /\ Len(g726_24_fitab) = 4
  /\ g726_32_fitab \in Seq(Energies)
  /\ Len(g726_32_fitab) = 8
  /\ g726_40_fitab \in Seq(Energies)
  /\ Len(g726_40_fitab) = 16
  BY DEF Energies, g726_16_fitab, g726_24_fitab, g726_32_fitab, g726_40_fitab

(* The scale factor multipliers of the four rates are integers.            *)
LEMMA MultipliersOfTables ==
  /\ g726_16_witab \in Seq(Int) /\ Len(g726_16_witab) = 2
  /\ g726_24_witab \in Seq(Int) /\ Len(g726_24_witab) = 4
  /\ g726_32_witab \in Seq(Int) /\ Len(g726_32_witab) = 8
  /\ g726_40_witab \in Seq(Int) /\ Len(g726_40_witab) = 16
  BY DEF g726_16_witab, g726_24_witab, g726_32_witab, g726_40_witab

(* The thresholds of the four rates are integers.                          *)
LEMMA QuantizerTables ==
  /\ qtab_726_16 \in Seq(Int) /\ qtab_726_24 \in Seq(Int)
  /\ qtab_726_32 \in Seq(Int) /\ qtab_726_40 \in Seq(Int)
  BY DEF qtab_726_16, qtab_726_24, qtab_726_32, qtab_726_40

(* One step of a coder or decoder at any rate's tables keeps the limits.   *)
LEMMA AdaptedKeepsLimits ==
  ASSUME NEW s, Bounded(s), NEW bits, NEW code \in Int, 0 <= code,
         NEW dqlntab, NEW witab \in Seq(Int), code < 2 * Len(witab),
         NEW fitab \in Seq(Energies),
         code < 2 * Len(fitab)
  PROVE  Bounded(Adapted(s, bits, code, dqlntab, witab, fitab).state)
<1>1. Entry(witab, code) \in Int
  BY EntryInTable
<1>2. Entry(fitab, code) \in Energies
  BY EntryInTable
<1>3. InLimits(s) /\ step_size(s) \in Int
  <2>1. InLimits(s)
    BY BoundedIsInLimits, Zenon
  <2>2. step_size(s) \in Int
    BY DEF Bounded, Within
  <2>. QED  BY <2>1, <2>2
<1>4. \A dq, sr, dqsez :
        InLimits(update(s, bits, step_size(s), Entry(witab, code),
                        Entry(fitab, code), dq, sr, dqsez))
  BY <1>1, <1>2, <1>3, UpdateKeepsLimits DEF Energies
<1>5. InLimits(Adapted(s, bits, code, dqlntab, witab, fitab).state)
  BY <1>4 DEF Adapted
<1>. QED  BY <1>5, BoundedIsInLimits

(* The adaptation is kept in its limits at any code of any rate.           *)
LEMMA DecodersKeepLimits ==
  ASSUME NEW s, Bounded(s), NEW bits \in 2..5, NEW code \in Int
  PROVE  Bounded(dec_func(bits, s, code).state)
<1>1. CASE bits = 2
  <2>1. /\ code % 4 \in Int /\ 0 <= code % 4
        /\ code % 4 < 2 * Len(g726_16_witab)
        /\ code % 4 < 2 * Len(g726_16_fitab)
    BY EnergiesOfTables, MultipliersOfTables
  <2>2. Bounded(g726_16_decoder(s, code).state)
    BY <2>1, AdaptedKeepsLimits, EnergiesOfTables, MultipliersOfTables, Zenon
       DEF g726_16_decoder
  <2>. QED  BY <1>1, <2>2 DEF dec_func
<1>2. CASE bits = 3
  <2>1. /\ code % 8 \in Int /\ 0 <= code % 8
        /\ code % 8 < 2 * Len(g726_24_witab)
        /\ code % 8 < 2 * Len(g726_24_fitab)
    BY EnergiesOfTables, MultipliersOfTables
  <2>2. Bounded(g726_24_decoder(s, code).state)
    BY <2>1, AdaptedKeepsLimits, EnergiesOfTables, MultipliersOfTables, Zenon
       DEF g726_24_decoder
  <2>. QED  BY <1>2, <2>2 DEF dec_func
<1>3. CASE bits = 4
  <2>1. /\ code % 16 \in Int /\ 0 <= code % 16
        /\ code % 16 < 2 * Len(g726_32_witab)
        /\ code % 16 < 2 * Len(g726_32_fitab)
    BY EnergiesOfTables, MultipliersOfTables
  <2>2. Bounded(g726_32_decoder(s, code).state)
    BY <2>1, AdaptedKeepsLimits, EnergiesOfTables, MultipliersOfTables, Zenon
       DEF g726_32_decoder
  <2>. QED  BY <1>3, <2>2 DEF dec_func
<1>4. CASE bits = 5
  <2>1. /\ code % 32 \in Int /\ 0 <= code % 32
        /\ code % 32 < 2 * Len(g726_40_witab)
        /\ code % 32 < 2 * Len(g726_40_fitab)
    BY EnergiesOfTables, MultipliersOfTables
  <2>2. Bounded(g726_40_decoder(s, code).state)
    BY <2>1, AdaptedKeepsLimits, EnergiesOfTables, MultipliersOfTables, Zenon
       DEF g726_40_decoder
  <2>. QED  BY <1>4, <2>2 DEF dec_func
<1>. QED  BY <1>1, <1>2, <1>3, <1>4

(* A code is an integer, whatever the difference.                          *)
LEMMA QuantizeGivesInteger ==
  ASSUME NEW d, NEW y, NEW table \in Seq(Int), NEW states \in Int
  PROVE  quantize(d, y, table, states) \in Int
<1>1. \A P : Cardinality({n \in 1..Len(table) : n \in P}) \in Nat
  <2>1. IsFiniteSet(1..Len(table))
    BY FS_Interval
  <2>. QED  BY <2>1, FS_Subset, FS_CardinalityType
<1>2. ASSUME NEW dln
      PROVE  Cardinality({n \in 1..Len(table) : dln >= table[n]}) \in Nat
  <2>. DEFINE passed == {n \in 1..Len(table) : dln >= table[n]}
  <2>1. passed = {n \in 1..Len(table) : n \in passed}
    OBVIOUS
  <2>. QED  BY <1>1, <2>1, Zenon
<1>3. ASSUME NEW i \in Nat
      PROVE  (IF d < 0 THEN (2 * Len(table) + 1) - i
              ELSE IF i = 0 /\ states % 2 = 1 THEN states ELSE i) \in Int
  OBVIOUS
<1>. QED  BY <1>2, <1>3, Zenon DEF quantize

(* What the coder of each rate puts out is the quantized difference.       *)
LEMMA CodeOfEncoders ==
  ASSUME NEW bits \in 2..5, NEW s, NEW amp
  PROVE  /\ bits = 2 => enc_func(bits, s, amp).code
                           = Quantized(s, amp, qtab_726_16, 4)
         /\ bits = 3 => enc_func(bits, s, amp).code
                           = Quantized(s, amp, qtab_726_24, 7)
         /\ bits = 4 => enc_func(bits, s, amp).code
                           = Quantized(s, amp, qtab_726_32, 15)
         /\ bits = 5 => enc_func(bits, s, amp).code
                           = Quantized(s, amp, qtab_726_40, 31)
<1>1. \A b, i, d, w, f : Coded(s, b, i, d, w, f).code = i
  BY DEF Coded
<1>. QED  BY <1>1 DEF enc_func, g726_16_encoder, g726_24_encoder,
             g726_32_encoder, g726_40_encoder

(* So it is an integer, whatever the state.                                *)
LEMMA EncodersGiveIntegers ==
  ASSUME NEW bits \in 2..5, NEW s, NEW amp
  PROVE  enc_func(bits, s, amp).code \in Int
<1>1. ASSUME NEW table \in Seq(Int), NEW states \in Int
      PROVE  Quantized(s, amp, table, states) \in Int
  BY <1>1, QuantizeGivesInteger DEF Quantized
<1>2. 4 \in Int /\ 7 \in Int /\ 15 \in Int /\ 31 \in Int
  OBVIOUS
<1>3. /\ Quantized(s, amp, qtab_726_16, 4) \in Int
      /\ Quantized(s, amp, qtab_726_24, 7) \in Int
      /\ Quantized(s, amp, qtab_726_32, 15) \in Int
      /\ Quantized(s, amp, qtab_726_40, 31) \in Int
  BY <1>1, <1>2, QuantizerTables, Zenon
<1>. QED  BY <1>3, CodeOfEncoders

(* A code counts the entries passed, from one side or the other.           *)
LEMMA QuantizeRange ==
  ASSUME NEW d, NEW y, NEW table \in Seq(Int), NEW states \in Nat,
         states % 2 = 1 => states <= 2 * Len(table) + 1
  PROVE  quantize(d, y, table, states) \in 0..(2 * Len(table) + 1)
<1>1. ASSUME NEW dln
      PROVE  Cardinality({n \in 1..Len(table) : dln >= table[n]})
               \in 0..Len(table)
  <2>. DEFINE passed == {n \in 1..Len(table) : dln >= table[n]}
  <2>1. IsFiniteSet(1..Len(table)) /\ Cardinality(1..Len(table)) = Len(table)
    <3>1. Len(table) \in Nat /\ 1 \in Int
      OBVIOUS
    <3>2. \A n \in Nat : IsFiniteSet(1..n) /\ Cardinality(1..n) = n
      BY FS_Interval
    <3>. QED  BY <3>1, <3>2
  <2>2. passed \subseteq 1..Len(table)
    OBVIOUS
  <2>3. IsFiniteSet(passed) /\ Cardinality(passed) <= Cardinality(1..Len(table))
    BY <2>1, <2>2, FS_Subset, Zenon
  <2>4. Cardinality(passed) \in Nat
    BY <2>3, FS_CardinalityType, Zenon
  <2>. HIDE DEF passed
  <2>5. Cardinality(passed) \in 0..Len(table)
    BY <2>1, <2>3, <2>4
  <2>. QED  BY <2>5 DEF passed
<1>2. ASSUME NEW i \in 0..Len(table)
      PROVE  (IF d < 0 THEN (2 * Len(table) + 1) - i
              ELSE IF i = 0 /\ states % 2 = 1 THEN states ELSE i)
                \in 0..(2 * Len(table) + 1)
  OBVIOUS
<1>. QED  BY <1>1, <1>2, Zenon DEF quantize

(* What the coder of a rate puts out is a code of that many bits.          *)
LEMMA EncodersGiveCodes ==
  ASSUME NEW bits \in 2..5, NEW s, NEW amp
  PROVE  enc_func(bits, s, amp).code \in 0..(2 ^ bits - 1)
<1>1. /\ qtab_726_16 \in Seq(Int) /\ Len(qtab_726_16) = 1
      /\ qtab_726_24 \in Seq(Int) /\ Len(qtab_726_24) = 3
      /\ qtab_726_32 \in Seq(Int) /\ Len(qtab_726_32) = 7
      /\ qtab_726_40 \in Seq(Int) /\ Len(qtab_726_40) = 15
  BY DEF qtab_726_16, qtab_726_24, qtab_726_32, qtab_726_40
<1>2. ASSUME NEW table \in Seq(Int), NEW states \in Nat,
             states % 2 = 1 => states <= 2 * Len(table) + 1
      PROVE  Quantized(s, amp, table, states) \in 0..(2 * Len(table) + 1)
  BY <1>2, QuantizeRange, Zenon DEF Quantized
<1>3. /\ Quantized(s, amp, qtab_726_16, 4) \in 0..3
      /\ Quantized(s, amp, qtab_726_24, 7) \in 0..7
      /\ Quantized(s, amp, qtab_726_32, 15) \in 0..15
      /\ Quantized(s, amp, qtab_726_40, 31) \in 0..31
  <2>1. Quantized(s, amp, qtab_726_16, 4) \in 0..3
    <3>1. 4 \in Nat /\ (4 % 2 = 1 => 4 <= 2 * Len(qtab_726_16) + 1)
      OBVIOUS
    <3>2. Quantized(s, amp, qtab_726_16, 4) \in 0..(2 * Len(qtab_726_16) + 1)
      BY <1>1, <1>2, <3>1, Zenon
    <3>. QED  BY <1>1, <3>2
  <2>2. Quantized(s, amp, qtab_726_24, 7) \in 0..7
    <3>1. 7 \in Nat /\ (7 % 2 = 1 => 7 <= 2 * Len(qtab_726_24) + 1)
      BY <1>1
    <3>2. Quantized(s, amp, qtab_726_24, 7) \in 0..(2 * Len(qtab_726_24) + 1)
      BY <1>1, <1>2, <3>1, Zenon
    <3>. QED  BY <1>1, <3>2
  <2>3. Quantized(s, amp, qtab_726_32, 15) \in 0..15
    <3>1. 15 \in Nat /\ (15 % 2 = 1 => 15 <= 2 * Len(qtab_726_32) + 1)
      BY <1>1
    <3>2. Quantized(s, amp, qtab_726_32, 15)
            \in 0..(2 * Len(qtab_726_32) + 1)
      BY <1>1, <1>2, <3>1, Zenon
    <3>. QED  BY <1>1, <3>2
  <2>4. Quantized(s, amp, qtab_726_40, 31) \in 0..31
    <3>1. 31 \in Nat /\ (31 % 2 = 1 => 31 <= 2 * Len(qtab_726_40) + 1)
      BY <1>1
    <3>2. Quantized(s, amp, qtab_726_40, 31)
            \in 0..(2 * Len(qtab_726_40) + 1)
      BY <1>1, <1>2, <3>1, Zenon
    <3>. QED  BY <1>1, <3>2
  <2>. QED  BY <2>1, <2>2, <2>3, <2>4
<1>4. /\ 2 ^ 2 - 1 = 3 /\ 2 ^ 3 - 1 = 7 /\ 2 ^ 4 - 1 = 15 /\ 2 ^ 5 - 1 = 31
  OBVIOUS
<1>5. CASE bits = 2
  <2>1. enc_func(2, s, amp).code \in 0..(2 ^ 2 - 1)
    BY <1>3, <1>4, <1>5, CodeOfEncoders
  <2>. QED  BY <1>5, <2>1, Zenon
<1>6. CASE bits = 3
  <2>1. enc_func(3, s, amp).code \in 0..(2 ^ 3 - 1)
    BY <1>3, <1>4, <1>6, CodeOfEncoders
  <2>. QED  BY <1>6, <2>1, Zenon
<1>7. CASE bits = 4
  <2>1. enc_func(4, s, amp).code \in 0..(2 ^ 4 - 1)
    BY <1>3, <1>4, <1>7, CodeOfEncoders
  <2>. QED  BY <1>7, <2>1, Zenon
<1>8. CASE bits = 5
  <2>1. enc_func(5, s, amp).code \in 0..(2 ^ 5 - 1)
    BY <1>3, <1>4, <1>8, CodeOfEncoders
  <2>. QED  BY <1>8, <2>1, Zenon
<1>. QED  BY <1>5, <1>6, <1>7, <1>8

(* With that code the encoder's own copy of the adaptation comes to the    *)
(* state that the decoder's comes to, at every rate and from every state.  *)
LEMMA EncoderMovesAsDecoder ==
  ASSUME NEW bits \in 2..5, NEW s, NEW amp
  PROVE  enc_func(bits, s, amp).state
           = dec_func(bits, s, enc_func(bits, s, amp).code).state
<1>1. enc_func(bits, s, amp).code \in 0..(2 ^ bits - 1)
  BY EncodersGiveCodes
<1>. DEFINE i == enc_func(bits, s, amp).code
<1>2. CASE bits = 2
  <2>1. i \in 0..3 /\ i % 4 = i
    BY <1>1, <1>2
  <2>2. enc_func(bits, s, amp).state = Coded(s, 2, i, g726_16_dqlntab,
                                        g726_16_witab, g726_16_fitab).state
    BY <1>2, CodeOfEncoders DEF enc_func, g726_16_encoder
  <2>3. dec_func(bits, s, i).state = Adapted(s, 2, i % 4, g726_16_dqlntab,
                                        g726_16_witab, g726_16_fitab).state
    BY <1>2 DEF dec_func, g726_16_decoder
  <2>4. Coded(s, 2, i, g726_16_dqlntab, g726_16_witab, g726_16_fitab).state
          = Adapted(s, 2, i, g726_16_dqlntab, g726_16_witab,
                    g726_16_fitab).state
    <3>. HIDE DEF i
    <3>. QED  BY DEF Coded, Adapted, Reconstructed
  <2>5. enc_func(bits, s, amp).state = dec_func(bits, s, i).state
    <3>. HIDE DEF i
    <3>. QED  BY <2>1, <2>2, <2>3, <2>4, Zenon
  <2>. QED  BY <2>5
<1>3. CASE bits = 3
  <2>1. i \in 0..7 /\ i % 8 = i
    BY <1>1, <1>3
  <2>2. enc_func(bits, s, amp).state = Coded(s, 3, i, g726_24_dqlntab,
                                        g726_24_witab, g726_24_fitab).state
    BY <1>3, CodeOfEncoders DEF enc_func, g726_24_encoder
  <2>3. dec_func(bits, s, i).state = Adapted(s, 3, i % 8, g726_24_dqlntab,
                                        g726_24_witab, g726_24_fitab).state
    BY <1>3 DEF dec_func, g726_24_decoder
  <2>4. Coded(s, 3, i, g726_24_dqlntab, g726_24_witab, g726_24_fitab).state
          = Adapted(s, 3, i, g726_24_dqlntab, g726_24_witab,
                    g726_24_fitab).state
    <3>. HIDE DEF i
    <3>. QED  BY DEF Coded, Adapted, Reconstructed
  <2>5. enc_func(bits, s, amp).state = dec_func(bits, s, i).state
    <3>. HIDE DEF i
    <3>. QED  BY <2>1, <2>2, <2>3, <2>4, Zenon
  <2>. QED  BY <2>5
<1>4. CASE bits = 4
  <2>1. i \in 0..15 /\ i % 16 = i
    BY <1>1, <1>4
  <2>2. enc_func(bits, s, amp).state = Coded(s, 4, i, g726_32_dqlntab,
                                        g726_32_witab, g726_32_fitab).state
    BY <1>4, CodeOfEncoders DEF enc_func, g726_32_encoder
  <2>3. dec_func(bits, s, i).state = Adapted(s, 4, i % 16, g726_32_dqlntab,
                                        g726_32_witab, g726_32_fitab).state
    BY <1>4 DEF dec_func, g726_32_decoder
  <2>4. Coded(s, 4, i, g726_32_dqlntab, g726_32_witab, g726_32_fitab).state
          = Adapted(s, 4, i, g726_32_dqlntab, g726_32_witab,
                    g726_32_fitab).state
    <3>. HIDE DEF i
    <3>. QED  BY DEF Coded, Adapted, Reconstructed
  <2>5. enc_func(bits, s, amp).state = dec_func(bits, s, i).state
    <3>. HIDE DEF i
    <3>. QED  BY <2>1, <2>2, <2>3, <2>4, Zenon
  <2>. QED  BY <2>5
<1>5. CASE bits = 5
  <2>1. i \in 0..31 /\ i % 32 = i
    BY <1>1, <1>5
  <2>2. enc_func(bits, s, amp).state = Coded(s, 5, i, g726_40_dqlntab,
                                        g726_40_witab, g726_40_fitab).state
    BY <1>5, CodeOfEncoders DEF enc_func, g726_40_encoder
  <2>3. dec_func(bits, s, i).state = Adapted(s, 5, i % 32, g726_40_dqlntab,
                                        g726_40_witab, g726_40_fitab).state
    BY <1>5 DEF dec_func, g726_40_decoder
  <2>4. Coded(s, 5, i, g726_40_dqlntab, g726_40_witab, g726_40_fitab).state
          = Adapted(s, 5, i, g726_40_dqlntab, g726_40_witab,
                    g726_40_fitab).state
    <3>. HIDE DEF i
    <3>. QED  BY DEF Coded, Adapted, Reconstructed
  <2>5. enc_func(bits, s, amp).state = dec_func(bits, s, i).state
    <3>. HIDE DEF i
    <3>. QED  BY <2>1, <2>2, <2>3, <2>4, Zenon
  <2>. QED  BY <2>5
<1>. QED  BY <1>2, <1>3, <1>4, <1>5

-----------------------------------------------------------------------------
(* The state machine.                                                      *)

(* What makes the code at the head of a bitstream a number.                *)
StreamsOK == /\ bits_per_sample \in 2..5
             /\ coder_bs.residue \in Nat /\ coder_bs.bitstream \in Int
             /\ decoder_bs.residue \in Nat /\ decoder_bs.bitstream \in Int
             /\ bytes \in Seq(Int)

(* Both bit streams begin empty.                                           *)
LEMMA StreamsInit == Init => StreamsOK
  BY DEF Init, StreamsOK, bitstream_init

(* The coder leaves less than a byte behind, a code at a time.             *)
LEMMA StreamsEncode == ASSUME StreamsOK, EncodeNext PROVE StreamsOK'
<1>1. PICK amp : PutOut(enc_func(bits_per_sample, coder, amp \div 4))
  BY DEF EncodeNext, Encode
<1>. DEFINE code == enc_func(bits_per_sample, coder, amp \div 4).code
            stream == coder_bs.bitstream * (2 ^ bits_per_sample) + code
            residue == coder_bs.residue + bits_per_sample
<1>2. code \in Int
  BY EncodersGiveIntegers DEF StreamsOK
<1>3. stream \in Int /\ residue \in Nat
  <2>1. bits_per_sample \in Nat /\ 2 ^ bits_per_sample \in Nat
    BY Powers DEF StreamsOK
  <2>. HIDE DEF code
  <2>. QED  BY <1>2, <2>1 DEF StreamsOK
<1>4. CASE residue >= 8
  <2>1. 2 ^ (residue - 8) \in Nat \ {0}
    <3>1. residue - 8 \in Nat
      BY <1>3, <1>4
    <3>. QED  BY <3>1, Powers
  <2>2. /\ coder_bs' = [bitstream |-> stream % (2 ^ (residue - 8)),
                        residue |-> residue - 8]
        /\ bytes' = Append(bytes, stream \div (2 ^ (residue - 8)))
    BY <1>1, <1>4 DEF PutOut, HasByte
  <2>3. UNCHANGED <<bits_per_sample, decoder_bs>>
    BY DEF EncodeNext
  <2>. HIDE DEF stream, residue
  <2>. QED  BY <1>3, <1>4, <2>1, <2>2, <2>3 DEF StreamsOK
<1>5. CASE ~(residue >= 8)
  <2>1. /\ coder_bs' = [bitstream |-> stream, residue |-> residue]
        /\ bytes' = bytes
    BY <1>1, <1>5 DEF PutOut, HasByte
  <2>2. UNCHANGED <<bits_per_sample, decoder_bs>>
    BY DEF EncodeNext
  <2>. HIDE DEF stream, residue
  <2>. QED  BY <1>3, <2>1, <2>2 DEF StreamsOK
<1>. QED  BY <1>4, <1>5

(* A code is taken only with enough bits for it.                           *)
LEMMA StreamsDecode ==
  ASSUME StreamsOK, Decode
  PROVE  StreamsOK' /\ \E code \in Int :
           decoder' = dec_func(bits_per_sample, decoder, code).state
<1>. DEFINE short_of_bits == decoder_bs.residue < bits_per_sample
            stream == IF short_of_bits
                      THEN decoder_bs.bitstream * 256 + bytes[1]
                      ELSE decoder_bs.bitstream
            residue == (decoder_bs.residue + (IF short_of_bits THEN 8 ELSE 0))
                         - bits_per_sample
            code == stream \div (2 ^ residue)
<1>1. /\ short_of_bits => bytes # <<>>
      /\ bytes' = IF short_of_bits THEN Tail(bytes) ELSE bytes
      /\ decoder_bs' = [bitstream |-> stream % (2 ^ residue),
                        residue |-> residue]
      /\ decoder' = dec_func(bits_per_sample, decoder, code).state
      /\ UNCHANGED <<bits_per_sample, coder_bs>>
  BY DEF Decode, TopCode
<1>2. residue \in Nat
  BY DEF StreamsOK
<1>3. stream \in Int
  BY <1>1 DEF StreamsOK
<1>4. 2 ^ residue \in Nat \ {0}
  BY <1>2, Powers
<1>5. bytes' \in Seq(Int)
  BY <1>1 DEF StreamsOK
<1>. HIDE DEF stream, residue
<1>6. stream % (2 ^ residue) \in Int /\ code \in Int
  BY <1>3, <1>4
<1>7. StreamsOK'
  BY <1>1, <1>2, <1>5, <1>6 DEF StreamsOK
<1>. QED  BY <1>1, <1>6, <1>7

IndInv == StreamsOK /\ AdaptationBounded

(* The state that g726_init sets up is within the limits.                  *)
LEMMA LimitsInit == Init => IndInv
<1>. SUFFICES ASSUME Init PROVE IndInv
  OBVIOUS
<1>1. Bounded(g726_state)
  <2>1. InLimits(g726_state)
    BY DEF InLimits, Within, g726_state
  <2>. QED  BY <2>1, BoundedIsInLimits
<1>2. AdaptationBounded
  BY <1>1 DEF Init, AdaptationBounded
<1>. QED  BY <1>2, StreamsInit DEF IndInv

(* A sample coded or decoded keeps both sides within them.                 *)
LEMMA LimitsNext == IndInv /\ [Next]_vars => IndInv'
<1>. SUFFICES ASSUME IndInv, [Next]_vars PROVE IndInv'
  OBVIOUS
<1>1. StreamsOK /\ Bounded(coder) /\ Bounded(decoder)
  BY DEF IndInv, AdaptationBounded
<1>2. CASE EncodeNext
  <2>1. StreamsOK'
    BY <1>1, <1>2, StreamsEncode
  <2>2. PICK amp : PutOut(enc_func(bits_per_sample, coder, amp \div 4))
    BY <1>2 DEF EncodeNext, Encode
  <2>3. enc_func(bits_per_sample, coder, amp \div 4).code \in Int
    BY <1>1, EncodersGiveIntegers DEF StreamsOK
  <2>4. coder' = dec_func(bits_per_sample, coder,
                          enc_func(bits_per_sample, coder,
                                   amp \div 4).code).state
    BY <1>1, <2>2, EncoderMovesAsDecoder DEF PutOut, StreamsOK
  <2>5. Bounded(coder')
    BY <1>1, <2>3, <2>4, DecodersKeepLimits DEF StreamsOK
  <2>6. decoder' = decoder
    BY <1>2 DEF EncodeNext
  <2>. QED  BY <1>1, <2>1, <2>5, <2>6 DEF IndInv, AdaptationBounded
<1>3. CASE Decode
  <2>1. PICK code \in Int :
          decoder' = dec_func(bits_per_sample, decoder, code).state
    BY <1>1, <1>3, StreamsDecode
  <2>2. StreamsOK'
    BY <1>1, <1>3, StreamsDecode
  <2>3. Bounded(decoder')
    BY <1>1, <2>1, DecodersKeepLimits DEF StreamsOK
  <2>4. coder' = coder
    BY <1>3 DEF Decode
  <2>. QED  BY <1>1, <2>2, <2>3, <2>4 DEF IndInv, AdaptationBounded
<1>4. CASE UNCHANGED vars
  <2>1. StreamsOK'
    BY <1>1, <1>4 DEF vars, StreamsOK
  <2>2. coder' = coder /\ decoder' = decoder
    BY <1>4 DEF vars
  <2>. QED  BY <1>1, <2>1, <2>2 DEF IndInv, AdaptationBounded
<1>. QED  BY <1>2, <1>3, <1>4 DEF Next

(* Whatever is coded, and decoded however late, update() keeps the poles,  *)
(* the scale factors, the speed and the energies of both sides in their    *)
(* limits.                                                                 *)
THEOREM AdaptationIsBounded == Spec => []AdaptationBounded
<1>1. IndInv => AdaptationBounded
  BY DEF IndInv
<1>. QED  BY LimitsInit, LimitsNext, <1>1, PTL DEF Spec

(* The shift of reconstruct() is never by a negative count: the logarithm  *)
(* of a difference has an exponent of at most 14, with an entry of any of  *)
(* the tables.                                                             *)
THEOREM ShiftIsLegal ==
  ASSUME NEW s, Bounded(s), NEW dqln \in Int, dqln <= 566
  PROVE  (dqln + (step_size(s) \div 4)) \div 128 <= 14
  BY DEF Bounded, Within

-----------------------------------------------------------------------------
(* Types: what the arithmetic gives.                                       *)

(* The ranges of the machine numbers and of the format.                    *)
LEMMA Ranges ==
  /\ \A x : x \in short <=> Within(-32768, x, 32767)
  /\ \A x : x \in floating <=> Within(-1024, x, 1023)
  /\ \A x : x \in byte <=> Within(0, x, 255)
  BY DEF short, floating, byte, Within

(* A number is cut to the 16 bits of a short.                              *)
LEMMA ShortIsShort == ASSUME NEW x \in Int PROVE Short(x) \in short
  BY DEF Short, short

(* The highest bit of a number of 16 bits.                                 *)
LEMMA TopBit ==
  ASSUME NEW x \in Int, 0 < x, x < 2 ^ 16
  PROVE  /\ top_bit(x) \in 0..15
         /\ 2 ^ top_bit(x) <= x /\ x < 2 * 2 ^ top_bit(x)
<1>. DEFINE pow(k) == 2 ^ k
<1>1. /\ pow(0) = 1 /\ pow(1) = 2 /\ pow(2) = 4 /\ pow(3) = 8 /\ pow(4) = 16
      /\ pow(5) = 32 /\ pow(6) = 64 /\ pow(7) = 128 /\ pow(8) = 256
      /\ pow(9) = 512 /\ pow(10) = 1024 /\ pow(11) = 2048 /\ pow(12) = 4096
      /\ pow(13) = 8192 /\ pow(14) = 16384 /\ pow(15) = 32768
  OBVIOUS
<1>2. top_bit(x) = CHOOSE k \in 0..15 : x \div pow(k) = 1
  <2>1. x # 0
    OBVIOUS
  <2>. QED  BY <2>1, Zenon DEF top_bit
<1>. HIDE DEF pow
<1>3. \E k \in 0..15 : x \div pow(k) = 1
  <2>1. \/ 1 <= x /\ x < 2
        \/ 2 <= x /\ x < 4
        \/ 4 <= x /\ x < 8
        \/ 8 <= x /\ x < 16
        \/ 16 <= x /\ x < 32
        \/ 32 <= x /\ x < 64
        \/ 64 <= x /\ x < 128
        \/ 128 <= x /\ x < 256
        \/ 256 <= x /\ x < 512
        \/ 512 <= x /\ x < 1024
        \/ 1024 <= x /\ x < 2048
        \/ 2048 <= x /\ x < 4096
        \/ 4096 <= x /\ x < 8192
        \/ 8192 <= x /\ x < 16384
        \/ 16384 <= x /\ x < 32768
        \/ 32768 <= x /\ x < 65536
    OBVIOUS
  <2>2. ASSUME NEW k \in 0..15, pow(k) <= x, x < 2 * pow(k)
        PROVE  x \div pow(k) = 1
    <3>1. pow(k) \in Nat \ {0}
      BY <1>1
    <3>. QED  BY <2>2, <3>1
  <2>3. \E k \in 0..15 : pow(k) <= x /\ x < 2 * pow(k)
    BY <1>1, <2>1
  <2>. QED  BY <2>2, <2>3
<1>4. top_bit(x) \in 0..15 /\ x \div pow(top_bit(x)) = 1
  BY <1>2, <1>3
<1>5. ASSUME NEW k \in 0..15, x \div pow(k) = 1
      PROVE  pow(k) <= x /\ x < 2 * pow(k)
  <2>1. pow(k) \in Nat \ {0}
    BY <1>1
  <2>. QED  BY <1>5, <2>1
<1>6. pow(top_bit(x)) <= x /\ x < 2 * pow(top_bit(x))
  BY <1>4, <1>5
<1>. QED  BY <1>4, <1>6, Zenon DEF pow

(* The floating point format holds its 4 bits of exponent and 6 of         *)
(* mantissa.                                                               *)
LEMMA FloatRange ==
  ASSUME NEW mag \in Int, 0 <= mag, mag < 2 ^ 15
  PROVE  Within(0, Float(mag), 1023)
<1>1. CASE mag = 0
  BY <1>1 DEF Float, top_bit, Within
<1>2. CASE mag # 0
  <2>. DEFINE pow(j) == 2 ^ j
              k == top_bit(mag)
  <2>1. k \in 0..15 /\ pow(k) <= mag /\ mag < 2 * pow(k)
    BY <1>2, TopBit
  <2>2. /\ pow(0) = 1 /\ pow(1) = 2 /\ pow(2) = 4 /\ pow(3) = 8 /\ pow(4) = 16
        /\ pow(5) = 32 /\ pow(6) = 64 /\ pow(7) = 128 /\ pow(8) = 256
        /\ pow(9) = 512 /\ pow(10) = 1024 /\ pow(11) = 2048
        /\ pow(12) = 4096 /\ pow(13) = 8192 /\ pow(14) = 16384
        /\ pow(15) = 32768
    OBVIOUS
  <2>3. Float(mag) = (k + 1) * 64 + ((mag * 64) \div pow(k + 1))
    BY DEF Float
  <2>. HIDE DEF pow, k
  <2>4. k \in 0..14 /\ pow(k + 1) = 2 * pow(k) /\ pow(k) \in Nat \ {0}
    BY <2>1, <2>2
  <2>5. (mag * 64) \div pow(k + 1) \in 32..63
    BY <2>1, <2>4
  <2>. QED  BY <2>3, <2>4, <2>5 DEF Within
<1>. QED  BY <1>1, <1>2

(* The products of the predictor are integers.                             *)
LEMMA ProductIsInteger ==
  ASSUME NEW an \in Int, an < 2 ^ 16, NEW srn \in Int
  PROVE  fmult(an, srn) \in Int
<1>. DEFINE anmag == IF an > 0 THEN an ELSE (-an) % 8192
            anexp == top_bit(anmag) - 5
            anmant == IF anmag = 0 THEN 32
                      ELSE IF anexp >= 0 THEN anmag \div (2 ^ anexp)
                      ELSE anmag * (2 ^ (-anexp))
            wanexp == anexp + ((srn \div 64) % 16) - 13
            wanmant == (anmant * (srn % 64) + 48) \div 16
            retval == IF wanexp >= 0 THEN (wanmant * (2 ^ wanexp)) % 32768
                      ELSE wanmant \div (2 ^ (-wanexp))
<1>1. anmag \in Nat /\ anmag < 2 ^ 16
  OBVIOUS
<1>2. anexp \in Int
  <2>1. anmag = 0 => top_bit(anmag) = -1
    BY DEF top_bit
  <2>. HIDE DEF anmag
  <2>. QED  BY <1>1, <2>1, TopBit
<1>. HIDE DEF anmag, anexp
<1>3. anmant \in Int
  <2>1. CASE anexp >= 0
    <3>1. 2 ^ anexp \in Nat \ {0}
      BY <1>2, <2>1, Powers
    <3>. QED  BY <1>1, <2>1, <3>1
  <2>2. CASE ~(anexp >= 0)
    <3>1. -anexp \in Nat
      BY <1>2, <2>2
    <3>2. 2 ^ (-anexp) \in Nat \ {0}
      BY <3>1, Powers
    <3>. QED  BY <1>1, <2>2, <3>2
  <2>. QED  BY <2>1, <2>2
<1>4. wanexp \in Int
  BY <1>2
<1>. HIDE DEF anmant
<1>5. wanmant \in Int
  <2>1. srn % 64 \in Int
    OBVIOUS
  <2>2. anmant * (srn % 64) \in Int
    BY <1>3, <2>1
  <2>. QED  BY <2>2
<1>. HIDE DEF wanexp, wanmant
<1>6. retval \in Int
  <2>1. CASE wanexp >= 0
    <3>1. 2 ^ wanexp \in Nat \ {0}
      BY <1>4, <2>1, Powers
    <3>2. wanmant * (2 ^ wanexp) \in Int
      BY <1>5, <3>1
    <3>. QED  BY <2>1, <3>2
  <2>2. CASE ~(wanexp >= 0)
    <3>1. -wanexp \in Nat
      BY <1>4, <2>2
    <3>2. 2 ^ (-wanexp) \in Nat \ {0}
      BY <3>1, Powers
    <3>. QED  BY <1>5, <2>2, <3>2
  <2>. QED  BY <2>1, <2>2
<1>. HIDE DEF retval
<1>7. fmult(an, srn) = IF (an < 0) # (srn < 0) THEN -retval ELSE retval
  BY DEF fmult, retval, wanmant, wanexp, anmant, anexp, anmag
<1>. QED  BY <1>6, <1>7

(* A short is a number of 16 bits.                                         *)
LEMMA ShortRange ==
  ASSUME NEW x \in short PROVE x \in Int /\ -(2 ^ 15) <= x /\ x < 2 ^ 15
  BY DEF short

(* The estimates of a coder or decoder are shorts.                         *)
LEMMA PredictorsAreShort ==
  ASSUME NEW s, CoderType(s)
  PROVE  predictor_zero(s) \in short /\ predictor_pole(s) \in short
<1>. DEFINE term(i) == fmult(s.b[i] \div 4, s.dq[i])
<1>1. ASSUME NEW x \in short, NEW srn \in floating
      PROVE  fmult(x \div 4, srn) \in Int
  <2>1. x \div 4 \in Int /\ x \div 4 < 2 ^ 16
    BY ShortRange
  <2>2. srn \in Int
    BY DEF floating
  <2>. QED  BY <2>1, <2>2, ProductIsInteger
<1>2. \A i \in 0..5 : term(i) \in Int
  BY <1>1 DEF CoderType
<1>3. /\ fmult(s.a[1] \div 4, s.sr[1]) \in Int
      /\ fmult(s.a[0] \div 4, s.sr[0]) \in Int
  BY <1>1 DEF CoderType
<1>4. predictor_pole(s) \in short
  <2>1. fmult(s.a[1] \div 4, s.sr[1]) + fmult(s.a[0] \div 4, s.sr[0]) \in Int
    BY <1>3
  <2>. QED  BY <2>1, ShortIsShort DEF predictor_pole
<1>5. predictor_zero(s) \in short
  <2>1. term(0) + term(1) + term(2) + term(3) + term(4) + term(5) \in Int
    <3>. HIDE DEF term
    <3>. QED  BY <1>2
  <2>2. predictor_zero(s)
          = Short(term(0) + term(1) + term(2) + term(3) + term(4) + term(5))
    BY Zenon DEF predictor_zero
  <2>. HIDE DEF term
  <2>. QED  BY <2>1, <2>2, ShortIsShort
<1>. QED  BY <1>4, <1>5

(* The entries of the tables of differences.                               *)
Distances == {x \in Int : x <= 566}

(* What a code stands for is an integer.                                   *)
LEMMA DifferenceIsInteger ==
  ASSUME NEW s, Bounded(s), NEW sign, NEW dqln \in Distances
  PROVE  reconstruct(sign, dqln, step_size(s)) \in Int
<1>. DEFINE y == step_size(s)
            dql == dqln + (y \div 4)
            count == 14 - ((dql \div 128) % 16)
            dq == ((128 + (dql % 128)) * 128) \div (2 ^ count)
<1>1. dql \in Int /\ dql \div 128 <= 14
  BY DEF Bounded, Within, Distances
<1>2. reconstruct(sign, dqln, y)
        = IF dql < 0 THEN IF sign THEN -32768 ELSE 0
          ELSE IF sign THEN dq - 32768 ELSE dq
  BY SMT DEF reconstruct
<1>3. CASE dql < 0
  <2>. HIDE DEF dql, dq
  <2>. QED  BY <1>2, <1>3
<1>4. CASE dql >= 0
  <2>1. count \in Nat
    BY <1>1, <1>4
  <2>2. 2 ^ count \in Nat \ {0}
    BY <2>1, Powers, Zenon
  <2>. DEFINE pow == 2 ^ count
  <2>. HIDE DEF pow, dql, count
  <2>3. dq \in Int
    BY <1>1, <2>2 DEF pow
  <2>. HIDE DEF dq
  <2>. QED  BY <1>1, <1>2, <1>4, <2>3
<1>5. dql < 0 \/ dql >= 0
  BY <1>1
<1>. QED  BY <1>3, <1>4, <1>5

(* What is remembered of a difference and of a sample is in the format.    *)
LEMMA FloatsAreFloating ==
  /\ \A dq \in Int : FloatA(dq) \in floating
  /\ \A sr \in short : FloatB(sr) \in floating
<1>1. ASSUME NEW dq \in Int PROVE FloatA(dq) \in floating
  <2>1. /\ dq % 32768 \in Int /\ 0 <= dq % 32768
        /\ dq % 32768 < 2 ^ 15
    OBVIOUS
  <2>2. Within(0, Float(dq % 32768), 1023)
    BY <2>1, FloatRange
  <2>3. Within(-1024, FloatA(dq), 1023)
    BY <2>2 DEF FloatA, Within
  <2>. QED  BY <2>3, Ranges
<1>2. ASSUME NEW sr \in short PROVE FloatB(sr) \in floating
  <2>1. sr \in Int /\ -(2 ^ 15) <= sr /\ sr < 2 ^ 15
    BY ShortRange
  <2>2. sr > 0 => Within(0, Float(sr), 1023)
    BY <2>1, FloatRange
  <2>3. sr < 0 /\ sr > -32768 => Within(0, Float(-sr), 1023)
    <3>. SUFFICES ASSUME sr < 0, sr > -32768
                  PROVE  Within(0, Float(-sr), 1023)
      OBVIOUS
    <3>1. -sr \in Int /\ 0 <= -sr /\ -sr < 2 ^ 15
      BY <2>1
    <3>. QED  BY <3>1, FloatRange
  <2>4. Within(-1024, FloatB(sr), 1023)
    BY <2>1, <2>2, <2>3 DEF FloatB, Within
  <2>. QED  BY <2>4, Ranges
<1>. QED  BY <1>1, <1>2

(* The zeros are cut to shorts.                                            *)
LEMMA ZerosAreShort ==
  ASSUME NEW s, CoderType(s), NEW bits, NEW dq \in Int
  PROVE  NextB(s, bits, dq) \in [0..5 -> short]
<1>1. ASSUME NEW k \in 0..5
      PROVE  (s.b[k] - (s.b[k] \div (IF bits = 5 THEN 512 ELSE 256)))
                + (IF dq % 32768 = 0 THEN 0
                   ELSE IF (dq < 0) = (s.dq[k] < 0) THEN 128 ELSE -128) \in Int
  <2>1. s.b[k] \in Int
    BY ShortRange DEF CoderType
  <2>. QED  BY <2>1
<1>. QED  BY <1>1, ShortIsShort DEF NextB

(* update() keeps the types.                                               *)
LEMMA UpdateKeepsType ==
  ASSUME NEW s, CoderType(s), NEW bits, NEW y, NEW wi, NEW fi,
         NEW dq \in Int, NEW sr \in short, NEW dqsez,
         Bounded(update(s, bits, y, wi, fi, dq, sr, dqsez))
  PROVE  CoderType(update(s, bits, y, wi, fi, dq, sr, dqsez))
<1>. DEFINE t == update(s, bits, y, wi, fi, dq, sr, dqsez)
            tr == Transition(s, dq)
            a1 == IF tr THEN 0 ELSE NextA1(s, dqsez, dqsez < 0)
<1>1. /\ t.a = [k \in 0..1 |-> IF k = 1 THEN a1
                               ELSE IF tr THEN 0
                               ELSE NextA0(s, a1, dqsez, dqsez < 0)]
      /\ t.b = IF tr THEN [k \in 0..5 |-> 0] ELSE NextB(s, bits, dq)
      /\ t.dq = [k \in 0..5 |-> IF k = 0 THEN FloatA(dq) ELSE s.dq[k - 1]]
      /\ t.sr = [k \in 0..1 |-> IF k = 0 THEN FloatB(sr) ELSE s.sr[0]]
      /\ t.pk = [k \in 0..1 |-> IF k = 0 THEN dqsez < 0 ELSE s.pk[0]]
      /\ t.td = (~tr /\ a1 < -11776)
  BY SMT DEF update
<1>2. t.a \in [0..1 -> short]
  <2>1. Within(-32768, t.a[0], 32767) /\ Within(-32768, t.a[1], 32767)
    BY DEF Bounded, Within
  <2>. HIDE DEF t
  <2>2. t.a[0] \in short /\ t.a[1] \in short
    BY <2>1, Ranges
  <2>. QED  BY <1>1, <2>2
<1>3. t.b \in [0..5 -> short]
  <2>1. 0 \in short
    BY DEF short
  <2>. QED  BY <1>1, <2>1, ZerosAreShort
<1>4. t.dq \in [0..5 -> floating]
  <2>1. FloatA(dq) \in floating
    BY FloatsAreFloating
  <2>2. ASSUME NEW k \in 0..5, k # 0 PROVE s.dq[k - 1] \in floating
    <3>1. k - 1 \in 0..5
      BY <2>2
    <3>. QED  BY <3>1 DEF CoderType
  <2>. HIDE DEF t
  <2>. QED  BY <1>1, <2>1, <2>2
<1>5. t.sr \in [0..1 -> floating]
  <2>1. FloatB(sr) \in floating /\ s.sr[0] \in floating
    BY FloatsAreFloating DEF CoderType
  <2>. HIDE DEF t
  <2>. QED  BY <1>1, <2>1
<1>6. t.pk \in [0..1 -> BOOLEAN] /\ t.td \in BOOLEAN
  <2>1. s.pk[0] \in BOOLEAN /\ (dqsez < 0) \in BOOLEAN
    BY DEF CoderType
  <2>2. t.td \in BOOLEAN
    BY <1>1
  <2>3. t.pk \in [0..1 -> BOOLEAN]
    <3>. HIDE DEF t
    <3>1. t.pk \in [0..1 -> {dqsez < 0, s.pk[0]}]
      BY <1>1
    <3>2. {dqsez < 0, s.pk[0]} \subseteq BOOLEAN
      BY <2>1, Zenon
    <3>. QED  BY <3>1, <3>2
  <2>. QED  BY <2>2, <2>3
<1>. HIDE DEF t
<1>7. CoderType(t)
  BY <1>2, <1>3, <1>4, <1>5, <1>6, Zenon DEF CoderType
<1>. QED  BY <1>7 DEF t

(* No entry of the tables of differences is beyond the largest.            *)
LEMMA DistancesOfTables ==
  /\ g726_16_dqlntab \in Seq(Distances) /\ Len(g726_16_dqlntab) = 2
  /\ g726_24_dqlntab \in Seq(Distances) /\ Len(g726_24_dqlntab) = 4
  /\ g726_32_dqlntab \in Seq(Distances) /\ Len(g726_32_dqlntab) = 8
  /\ g726_40_dqlntab \in Seq(Distances) /\ Len(g726_40_dqlntab) = 16
  BY DEF Distances, g726_16_dqlntab, g726_24_dqlntab, g726_32_dqlntab,
         g726_40_dqlntab

(* One step of a coder or decoder at any rate's tables keeps the types.    *)
LEMMA AdaptedKeepsType ==
  ASSUME NEW s, Bounded(s), CoderType(s), NEW bits, NEW code \in Int,
         0 <= code,
         NEW dqlntab \in Seq(Distances), code < 2 * Len(dqlntab),
         NEW witab \in Seq(Int), code < 2 * Len(witab),
         NEW fitab \in Seq(Energies), code < 2 * Len(fitab)
  PROVE  CoderType(Adapted(s, bits, code, dqlntab, witab, fitab).state)
<1>. DEFINE sezi == predictor_zero(s)
            se == Estimate(s, sezi)
            dq == Reconstructed(s, bits, code, dqlntab)
            mag == dq % (IF bits = 5 THEN 32768 ELSE 16384)
            sr == Short(IF dq < 0 THEN se - mag ELSE se + dq)
            dqsez == Short((sr + (sezi \div 2)) - se)
<1>1. Adapted(s, bits, code, dqlntab, witab, fitab).state
        = update(s, bits, step_size(s), Entry(witab, code),
                 Entry(fitab, code), dq, sr, dqsez)
  BY SMT DEF Adapted
<1>2. se \in Int
  <2>1. sezi \in Int /\ predictor_pole(s) \in Int
    BY PredictorsAreShort, ShortRange
  <2>2. Short(sezi + predictor_pole(s)) \in Int
    <3>. HIDE DEF sezi
    <3>. QED  BY <2>1, ShortIsShort, ShortRange
  <2>. QED  BY <2>2 DEF Estimate
<1>3. dq \in Int
  <2>1. Entry(dqlntab, code) \in Distances
    BY EntryInTable
  <2>. QED  BY <2>1, DifferenceIsInteger DEF Reconstructed
<1>. HIDE DEF sezi, se, dq
<1>4. sr \in short
  BY <1>2, <1>3, ShortIsShort
<1>5. Bounded(Adapted(s, bits, code, dqlntab, witab, fitab).state)
  BY AdaptedKeepsLimits
<1>. HIDE DEF sr, dqsez
<1>. QED  BY <1>1, <1>3, <1>4, <1>5, UpdateKeepsType

(* So does the decoder of any rate, at any code.                           *)
LEMMA DecodersKeepType ==
  ASSUME NEW s, Bounded(s), CoderType(s), NEW bits \in 2..5, NEW code \in Int
  PROVE  CoderType(dec_func(bits, s, code).state)
<1>1. CASE bits = 2
  <2>1. /\ code % 4 \in Int /\ 0 <= code % 4
        /\ code % 4 < 2 * Len(g726_16_dqlntab)
        /\ code % 4 < 2 * Len(g726_16_witab)
        /\ code % 4 < 2 * Len(g726_16_fitab)
    BY DistancesOfTables, EnergiesOfTables, MultipliersOfTables
  <2>2. CoderType(g726_16_decoder(s, code).state)
    BY <2>1, AdaptedKeepsType, DistancesOfTables, EnergiesOfTables,
       MultipliersOfTables, Zenon DEF g726_16_decoder
  <2>. QED  BY <1>1, <2>2 DEF dec_func
<1>2. CASE bits = 3
  <2>1. /\ code % 8 \in Int /\ 0 <= code % 8
        /\ code % 8 < 2 * Len(g726_24_dqlntab)
        /\ code % 8 < 2 * Len(g726_24_witab)
        /\ code % 8 < 2 * Len(g726_24_fitab)
    BY DistancesOfTables, EnergiesOfTables, MultipliersOfTables
  <2>2. CoderType(g726_24_decoder(s, code).state)
    BY <2>1, AdaptedKeepsType, DistancesOfTables, EnergiesOfTables,
       MultipliersOfTables, Zenon DEF g726_24_decoder
  <2>. QED  BY <1>2, <2>2 DEF dec_func
<1>3. CASE bits = 4
  <2>1. /\ code % 16 \in Int /\ 0 <= code % 16
        /\ code % 16 < 2 * Len(g726_32_dqlntab)
        /\ code % 16 < 2 * Len(g726_32_witab)
        /\ code % 16 < 2 * Len(g726_32_fitab)
    BY DistancesOfTables, EnergiesOfTables, MultipliersOfTables
  <2>2. CoderType(g726_32_decoder(s, code).state)
    BY <2>1, AdaptedKeepsType, DistancesOfTables, EnergiesOfTables,
       MultipliersOfTables, Zenon DEF g726_32_decoder
  <2>. QED  BY <1>3, <2>2 DEF dec_func
<1>4. CASE bits = 5
  <2>1. /\ code % 32 \in Int /\ 0 <= code % 32
        /\ code % 32 < 2 * Len(g726_40_dqlntab)
        /\ code % 32 < 2 * Len(g726_40_witab)
        /\ code % 32 < 2 * Len(g726_40_fitab)
    BY DistancesOfTables, EnergiesOfTables, MultipliersOfTables
  <2>2. CoderType(g726_40_decoder(s, code).state)
    BY <2>1, AdaptedKeepsType, DistancesOfTables, EnergiesOfTables,
       MultipliersOfTables, Zenon DEF g726_40_decoder
  <2>. QED  BY <1>4, <2>2 DEF dec_func
<1>. QED  BY <1>1, <1>2, <1>3, <1>4

-----------------------------------------------------------------------------
(* Bits as numbers.                                                        *)

(* Bits without end, and the number that some of them are, from p on. A    *)
(* bit stream holds 12 at most: 7 left over and a code.                    *)
BitStrings == [Nat -> {0, 1}]

Num(s, p, len) ==
  LET n1 == s[p]
      n2 == 2 * n1 + s[p + 1]
      n3 == 2 * n2 + s[p + 2]
      n4 == 2 * n3 + s[p + 3]
      n5 == 2 * n4 + s[p + 4]
      n6 == 2 * n5 + s[p + 5]
      n7 == 2 * n6 + s[p + 6]
      n8 == 2 * n7 + s[p + 7]
      n9 == 2 * n8 + s[p + 8]
      n10 == 2 * n9 + s[p + 9]
      n11 == 2 * n10 + s[p + 10]
      n12 == 2 * n11 + s[p + 11]
  IN CASE len = 0 -> 0 [] len = 1 -> n1 [] len = 2 -> n2 [] len = 3 -> n3
       [] len = 4 -> n4 [] len = 5 -> n5 [] len = 6 -> n6 [] len = 7 -> n7
       [] len = 8 -> n8 [] len = 9 -> n9 [] len = 10 -> n10
       [] len = 11 -> n11 [] len = 12 -> n12

(* One bit more doubles the number and adds the bit.                       *)
LEMMA NumBit ==
  ASSUME NEW s \in BitStrings, NEW p \in Nat, NEW len \in 0..11
  PROVE  Num(s, p, len + 1) = 2 * Num(s, p, len) + s[p + len]
<1>1. \A k \in 0..11 : s[p + k] \in {0, 1}
  BY DEF BitStrings
<1>. QED  BY <1>1 DEF Num

(* The powers double.                                                      *)
LEMMA Doubles == \A k \in 0..15 : 2 ^ (k + 1) = 2 * 2 ^ k
<1>. DEFINE pow(k) == 2 ^ k
<1>1. /\ pow(0) = 1 /\ pow(1) = 2 /\ pow(2) = 4 /\ pow(3) = 8 /\ pow(4) = 16
      /\ pow(5) = 32 /\ pow(6) = 64 /\ pow(7) = 128 /\ pow(8) = 256
      /\ pow(9) = 512 /\ pow(10) = 1024 /\ pow(11) = 2048 /\ pow(12) = 4096
      /\ pow(13) = 8192 /\ pow(14) = 16384 /\ pow(15) = 32768
      /\ pow(16) = 65536
  OBVIOUS
<1>. HIDE DEF pow
<1>2. \A k \in 0..15 : pow(k + 1) = 2 * pow(k)
  BY <1>1
<1>. QED  BY <1>2 DEF pow

(* A number of so many bits is less than the power of two.                 *)
LEMMA NumBound ==
  ASSUME NEW s \in BitStrings, NEW p \in Nat, NEW len \in 0..12
  PROVE  Num(s, p, len) \in Nat /\ Num(s, p, len) < 2 ^ len
<1>. DEFINE P(k) == Num(s, p, k) \in Nat /\ Num(s, p, k) < 2 ^ k
<1>1. P(0)
  BY DEF Num
<1>2. ASSUME NEW k \in 0..11, P(k)
      PROVE  P(k + 1)
  <2>1. s[p + k] \in {0, 1}
    BY DEF BitStrings
  <2>2. Num(s, p, k + 1) = 2 * Num(s, p, k) + s[p + k]
    BY NumBit
  <2>. DEFINE pow == 2 ^ k
              half == 2 ^ (k + 1)
  <2>3. half = 2 * pow /\ pow \in Nat
    <3>1. k \in 0..15 /\ k \in Nat
      OBVIOUS
    <3>. QED  BY <3>1, Doubles, Powers, Zenon
  <2>. HIDE DEF pow, half
  <2>4. Num(s, p, k) \in Nat /\ Num(s, p, k) < pow
    BY <1>2 DEF pow
  <2>5. Num(s, p, k + 1) \in Nat /\ Num(s, p, k + 1) < half
    BY <2>1, <2>2, <2>3, <2>4
  <2>. QED  BY <2>5 DEF half
<1>. HIDE DEF P
<1>3. /\ P(1) /\ P(2) /\ P(3) /\ P(4) /\ P(5) /\ P(6)
      /\ P(7) /\ P(8) /\ P(9) /\ P(10) /\ P(11) /\ P(12)
  BY <1>1, <1>2
<1>4. P(len)
  BY <1>1, <1>3
<1>. QED  BY <1>4 DEF P

(* The number of two runs of bits that follow each other.                  *)
LEMMA NumSplit ==
  ASSUME NEW s \in BitStrings, NEW p \in Nat, NEW a \in 0..12, NEW b \in 0..8,
         a + b <= 12
  PROVE  Num(s, p, a + b) = Num(s, p, a) * (2 ^ b) + Num(s, p + a, b)
<1>. DEFINE P(k) == a + k <= 12 =>
                      Num(s, p, a + k)
                        = Num(s, p, a) * (2 ^ k) + Num(s, p + a, k)
<1>0. Num(s, p, a) \in Nat
  BY NumBound
<1>1. P(0)
  <2>1. Num(s, p + a, 0) = 0 /\ 2 ^ 0 = 1 /\ a + 0 = a
    BY DEF Num
  <2>. QED  BY <1>0, <2>1
<1>2. ASSUME NEW k \in 0..7, P(k)
      PROVE  P(k + 1)
  <2>. SUFFICES ASSUME a + (k + 1) <= 12
                PROVE  Num(s, p, a + (k + 1))
                         = Num(s, p, a) * (2 ^ (k + 1)) + Num(s, p + a, k + 1)
    OBVIOUS
  <2>. DEFINE pow == 2 ^ k
              twice == 2 ^ (k + 1)
  <2>1. twice = 2 * pow /\ pow \in Nat
    <3>1. k \in 0..15 /\ k \in Nat
      OBVIOUS
    <3>. QED  BY <3>1, Doubles, Powers, Zenon
  <2>2. Num(s, p, a + k) = Num(s, p, a) * pow + Num(s, p + a, k)
    BY <1>2
  <2>. HIDE DEF pow, twice
  <2>3. Num(s, p, a + (k + 1)) = 2 * Num(s, p, a + k) + s[p + (a + k)]
    <3>1. a + k \in 0..11 /\ (a + k) + 1 = a + (k + 1)
      OBVIOUS
    <3>. QED  BY <3>1, NumBit
  <2>4. Num(s, p + a, k + 1) = 2 * Num(s, p + a, k) + s[p + (a + k)]
    <3>1. p + a \in Nat /\ (p + a) + k = p + (a + k) /\ k \in 0..11
      OBVIOUS
    <3>. QED  BY <3>1, NumBit
  <2>5. Num(s, p + a, k) \in Nat /\ s[p + (a + k)] \in Nat
    <3>1. p + a \in Nat /\ k \in 0..12 /\ p + (a + k) \in Nat
      OBVIOUS
    <3>. QED  BY <3>1, NumBound DEF BitStrings
  <2>. DEFINE n == Num(s, p, a)
              m == Num(s, p + a, k)
  <2>6. n * twice = 2 * (n * pow)
    BY <1>0, <2>1
  <2>7. n * pow \in Nat
    BY <1>0, <2>1
  <2>8. Num(s, p, a + (k + 1)) = n * twice + Num(s, p + a, k + 1)
    <3>. HIDE DEF n, m
    <3>. QED  BY <2>2, <2>3, <2>4, <2>5, <2>6, <2>7 DEF n, m
  <2>. QED  BY <2>8 DEF twice
<1>. HIDE DEF P
<1>3. P(1) /\ P(2) /\ P(3) /\ P(4) /\ P(5) /\ P(6) /\ P(7) /\ P(8)
  BY <1>1, <1>2
<1>4. P(b)
  BY <1>1, <1>3
<1>. QED  BY <1>4 DEF P

(* Runs of the same bits are the same number.                              *)
LEMMA NumSame ==
  ASSUME NEW s \in BitStrings, NEW t \in BitStrings, NEW p \in Nat,
         NEW q \in Nat, NEW len \in 0..12,
         \A j \in 0..11 : j < len => s[p + j] = t[q + j]
  PROVE  Num(s, p, len) = Num(t, q, len)
<1>1. \A j \in 0..11 : s[p + j] \in {0, 1} /\ t[q + j] \in {0, 1}
  BY DEF BitStrings
<1>. QED  BY <1>1 DEF Num

(* What TopCode and the rest of a bitstream are of two runs.               *)
LEMMA Quotient ==
  ASSUME NEW x \in Nat, NEW k \in 0..8, NEW y \in Nat, y < 2 ^ k
  PROVE  /\ (x * (2 ^ k) + y) \div (2 ^ k) = x
         /\ (x * (2 ^ k) + y) % (2 ^ k) = y
<1>. DEFINE pow(j) == 2 ^ j
<1>1. /\ pow(0) = 1 /\ pow(1) = 2 /\ pow(2) = 4 /\ pow(3) = 8 /\ pow(4) = 16
      /\ pow(5) = 32 /\ pow(6) = 64 /\ pow(7) = 128 /\ pow(8) = 256
  OBVIOUS
<1>. HIDE DEF pow
<1>2. pow(k) \in {1, 2, 4, 8, 16, 32, 64, 128, 256}
  BY <1>1
<1>3. y < pow(k)
  BY DEF pow
<1>4. (x * pow(k) + y) \div pow(k) = x /\ (x * pow(k) + y) % pow(k) = y
  BY <1>2, <1>3
<1>. QED  BY <1>4 DEF pow

(* Every code of a rate can be put after any bits.                         *)
LEMMA CodeHasBits ==
  ASSUME NEW s \in BitStrings, NEW p \in Nat, NEW bits \in 2..5,
         NEW code \in 0..(2 ^ bits - 1)
  PROVE  \E t \in BitStrings : /\ Num(t, p, bits) = code
                               /\ \A j \in Nat : j < p => t[j] = s[j]
<1>. DEFINE with(b1, b2, b3, b4, b5) ==
              [j \in Nat |-> IF j < p THEN s[j] ELSE
                             IF j = p THEN b1 ELSE IF j = p + 1 THEN b2 ELSE
                             IF j = p + 2 THEN b3 ELSE IF j = p + 3 THEN b4
                             ELSE b5]
<1>1. ASSUME NEW b1 \in {0, 1}, NEW b2 \in {0, 1}, NEW b3 \in {0, 1},
             NEW b4 \in {0, 1}, NEW b5 \in {0, 1}
      PROVE  LET t == with(b1, b2, b3, b4, b5)
             IN  /\ t \in BitStrings
                 /\ \A j \in Nat : j < p => t[j] = s[j]
                 /\ t[p] = b1 /\ t[p + 1] = b2 /\ t[p + 2] = b3
                 /\ t[p + 3] = b4 /\ t[p + 4] = b5
  BY DEF BitStrings
<1>. HIDE DEF with
<1>2. CASE bits = 2
  <2>1. code \in 0..3
    <3>1. code \in 0..(2 ^ 2 - 1)
      BY <1>2, Zenon
    <3>. QED  BY <3>1
  <2>2. PICK b1 \in {0, 1}, b2 \in {0, 1} : code = 2 * b1 + b2
    BY <2>1
  <2>. DEFINE t == with(b1, b2, 0, 0, 0)
  <2>3. /\ t \in BitStrings /\ \A j \in Nat : j < p => t[j] = s[j]
        /\ t[p] = b1 /\ t[p + 1] = b2
    BY <1>1
  <2>. HIDE DEF t
  <2>4. Num(t, p, bits) = code
    BY <1>2, <2>2, <2>3 DEF Num
  <2>. QED  BY <2>3, <2>4
<1>3. CASE bits = 3
  <2>1. code \in 0..7
    <3>1. code \in 0..(2 ^ 3 - 1)
      BY <1>3, Zenon
    <3>. QED  BY <3>1
  <2>2. PICK b1 \in {0, 1}, b2 \in {0, 1}, b3 \in {0, 1} :
          code = 4 * b1 + 2 * b2 + b3
    BY <2>1
  <2>. DEFINE t == with(b1, b2, b3, 0, 0)
  <2>3. /\ t \in BitStrings /\ \A j \in Nat : j < p => t[j] = s[j]
        /\ t[p] = b1 /\ t[p + 1] = b2 /\ t[p + 2] = b3
    BY <1>1
  <2>. HIDE DEF t
  <2>4. Num(t, p, bits) = code
    BY <1>3, <2>2, <2>3 DEF Num
  <2>. QED  BY <2>3, <2>4
<1>4. CASE bits = 4
  <2>1. code \in 0..15
    <3>1. code \in 0..(2 ^ 4 - 1)
      BY <1>4, Zenon
    <3>. QED  BY <3>1
  <2>2. PICK b1 \in {0, 1}, b2 \in {0, 1}, b3 \in {0, 1}, b4 \in {0, 1} :
          code = 8 * b1 + 4 * b2 + 2 * b3 + b4
    BY <2>1
  <2>. DEFINE t == with(b1, b2, b3, b4, 0)
  <2>3. /\ t \in BitStrings /\ \A j \in Nat : j < p => t[j] = s[j]
        /\ t[p] = b1 /\ t[p + 1] = b2 /\ t[p + 2] = b3 /\ t[p + 3] = b4
    BY <1>1
  <2>. HIDE DEF t
  <2>4. Num(t, p, bits) = code
    BY <1>4, <2>2, <2>3 DEF Num
  <2>. QED  BY <2>3, <2>4
<1>5. CASE bits = 5
  <2>1. code \in 0..31
    <3>1. code \in 0..(2 ^ 5 - 1)
      BY <1>5, Zenon
    <3>. QED  BY <3>1
  <2>2. PICK b1 \in {0, 1}, b2 \in {0, 1}, b3 \in {0, 1}, b4 \in {0, 1},
             b5 \in {0, 1} : code = 16 * b1 + 8 * b2 + 4 * b3 + 2 * b4 + b5
    BY <2>1
  <2>. DEFINE t == with(b1, b2, b3, b4, b5)
  <2>3. /\ t \in BitStrings /\ \A j \in Nat : j < p => t[j] = s[j]
        /\ t[p] = b1 /\ t[p + 1] = b2 /\ t[p + 2] = b3 /\ t[p + 3] = b4
        /\ t[p + 4] = b5
    BY <1>1
  <2>. HIDE DEF t
  <2>4. Num(t, p, bits) = code
    BY <1>5, <2>2, <2>3 DEF Num
  <2>. QED  BY <2>3, <2>4
<1>. QED  BY <1>2, <1>3, <1>4, <1>5

-----------------------------------------------------------------------------
(* The two sides in step.                                                  *)

(* The bits between the coder and the decoder, in the order they are sent, *)
(* are s from 0 on: the decoder has the first of them, then come the       *)
(* bytes, and the coder has the last.  Every code of them takes the coder  *)
(* from one state of the history to the next.                              *)
InFlight(s) ==
  LET d == decoder_bs.residue
  IN /\ decoder_bs.bitstream = Num(s, 0, d)
     /\ \A i \in 1..Len(bytes) : bytes[i] = Num(s, d + 8 * (i - 1), 8)
     /\ coder_bs.bitstream = Num(s, d + 8 * Len(bytes), coder_bs.residue)
     /\ \A k \in 1..(Len(trail) - 1) :
          trail[k + 1] = dec_func(bits_per_sample, trail[k],
                                  Num(s, bits_per_sample * (k - 1),
                                      bits_per_sample)).state

(* The types this needs.                                                   *)
Counts == /\ bits_per_sample \in 2..5
          /\ coder_bs.residue \in 0..7 /\ decoder_bs.residue \in 0..7
          /\ bytes \in Seq(Nat)
          /\ \E S : trail \in Seq(S)
          /\ trail # <<>>

(* The inductive invariant of InStep: there are such bits.                 *)
LockStep == Counts /\ InStep /\ \E s \in BitStrings : InFlight(s)

(* At first there are none.                                                *)
LEMMA LockStepInit == Init => LockStep
<1>. SUFFICES ASSUME Init PROVE LockStep
  OBVIOUS
<1>1. Counts
  <2>1. trail \in Seq({g726_state}) /\ trail # <<>> /\ bytes \in Seq(Nat)
    BY DEF Init
  <2>2. /\ bits_per_sample \in 2..5
        /\ coder_bs.residue \in 0..7 /\ decoder_bs.residue \in 0..7
    BY DEF Init, bitstream_init
  <2>. QED  BY <2>1, <2>2 DEF Counts
<1>2. InStep
  BY DEF Init, InStep, bitstream_init
<1>3. [p \in Nat |-> 0] \in BitStrings
  BY DEF BitStrings
<1>4. InFlight([p \in Nat |-> 0])
  BY DEF Init, InFlight, bitstream_init, Num
<1>. QED  BY <1>1, <1>2, <1>3, <1>4 DEF LockStep

(* How many codes there are is how many bits there are.                    *)
LEMMA Multiples ==
  ASSUME NEW bits \in 2..5, NEW k \in Int, NEW n \in Int
  PROVE  /\ k < n => bits * k + bits <= bits * n
         /\ bits * (k + 1) = bits * k + bits
         /\ n * bits = bits * n /\ bits * k \in Int
         /\ k >= 0 => bits * k >= 0
         /\ bits * k >= bits => k >= 1
<1>1. bits = 2 \/ bits = 3 \/ bits = 4 \/ bits = 5
  OBVIOUS
<1>. QED  BY <1>1

(* How the places of the bits move when the decoder takes a code, and      *)
(* perhaps a byte for it.                                                  *)
LEMMA Taken ==
  ASSUME NEW bits \in 2..5, NEW d \in 0..7, NEW c \in 0..7, NEW n \in Nat,
         NEW took \in {0, 1}, NEW m \in Nat, m = n - took,
         NEW r \in 0..7, r = (d + 8 * took) - bits
  PROVE  /\ d + 8 * n = (r + 8 * m) + bits /\ r + 8 * m \in Nat
         /\ \A i \in 1..m : /\ i + took \in 1..n
                            /\ d + 8 * ((i + took) - 1)
                                 = (r + 8 * (i - 1)) + bits
                            /\ r + 8 * (i - 1) \in Nat
         /\ \A x \in Int : x + bits = c + 8 * n + d => x = c + 8 * m + r
  OBVIOUS

(* What is left of a history of two states or more.                        *)
LEMMA Shortened ==
  ASSUME NEW S, NEW q \in Seq(S), Len(q) >= 2
  PROVE  /\ Tail(q) \in Seq(S) /\ Len(Tail(q)) = Len(q) - 1
         /\ Tail(q) # <<>>
         /\ \A k \in 1..Len(Tail(q)) : Tail(q)[k] = q[k + 1]
<1>1. q # <<>>
  OBVIOUS
<1>2. Tail(q) \in Seq(S) /\ Len(Tail(q)) = Len(q) - 1
  BY <1>1
<1>3. Tail(q) # <<>>
  <2>1. Len(Tail(q)) # 0
    BY <1>2
  <2>2. Len(<<>>) = 0
    OBVIOUS
  <2>. QED  BY <2>1, <2>2, Zenon
<1>. QED  BY <1>1, <1>2, <1>3

(* The decoder takes a code off the front of the bits: it goes from the    *)
(* first state of the history to the second.                               *)
LEMMA LockStepDecode ==
  ASSUME LockStep, Decode
  PROVE  LockStep'
<1>. DEFINE bits == bits_per_sample
            d == decoder_bs.residue
            short_of_bits == d < bits
            stream == IF short_of_bits
                      THEN decoder_bs.bitstream * 256 + bytes[1]
                      ELSE decoder_bs.bitstream
            took == IF short_of_bits THEN 1 ELSE 0
            have == d + 8 * took
            residue == have - bits
            code == stream \div (2 ^ residue)
<1>1. /\ short_of_bits => bytes # <<>>
      /\ bytes' = IF short_of_bits THEN Tail(bytes) ELSE bytes
      /\ decoder_bs' = [bitstream |-> stream % (2 ^ residue),
                        residue |-> residue]
      /\ decoder' = dec_func(bits, decoder, code).state
      /\ trail' = Tail(trail)
      /\ bits' = bits /\ coder' = coder /\ coder_bs' = coder_bs
  <2>1. (d + (IF short_of_bits THEN 8 ELSE 0)) - bits = residue
    OBVIOUS
  <2>. HIDE DEF residue, short_of_bits
  <2>. QED  BY <2>1 DEF Decode, TopCode, short_of_bits
<1>2. Counts /\ InStep
  BY DEF LockStep
<1>3. PICK s \in BitStrings : InFlight(s)
  BY DEF LockStep
<1>4. /\ bits \in 2..5 /\ d \in 0..7 /\ coder_bs.residue \in 0..7
      /\ Len(bytes) \in Nat /\ bytes \in Seq(Nat)
  BY <1>2 DEF Counts
<1>5. /\ residue \in 0..7 /\ have \in 0..12 /\ have = bits + residue
  BY <1>4
<1>6. stream = Num(s, 0, have)
  <2>1. CASE short_of_bits
    <3>1. bytes[1] = Num(s, d, 8)
      <4>1. 1 \in 1..Len(bytes)
        BY <1>1, <1>4, <2>1
      <4>2. d + 8 * (1 - 1) = d
        BY <1>4
      <4>. QED  BY <1>3, <4>1, <4>2 DEF InFlight
    <3>2. decoder_bs.bitstream = Num(s, 0, d)
      BY <1>3 DEF InFlight
    <3>3. Num(s, 0, d + 8) = Num(s, 0, d) * (2 ^ 8) + Num(s, 0 + d, 8)
      <4>1. d \in 0..12 /\ 8 \in 0..8 /\ d + 8 <= 12 /\ 0 \in Nat
        BY <1>4, <2>1
      <4>. QED  BY <4>1, NumSplit
    <3>4. 0 + d = d /\ 2 ^ 8 = 256
      BY <1>4
    <3>. HIDE DEF d
    <3>. QED  BY <2>1, <3>1, <3>2, <3>3, <3>4
  <2>2. CASE ~short_of_bits
    BY <1>3, <1>4, <2>2 DEF InFlight
  <2>. QED  BY <2>1, <2>2
<1>7. code = Num(s, 0, bits) /\ stream % (2 ^ residue) = Num(s, bits, residue)
  <2>1. Num(s, 0, bits + residue)
          = Num(s, 0, bits) * (2 ^ residue) + Num(s, bits, residue)
    <3>1. /\ bits \in 0..12 /\ residue \in 0..8 /\ bits + residue <= 12
          /\ 0 \in Nat
      BY <1>4, <1>5
    <3>2. 0 + bits = bits
      BY <1>4
    <3>. HIDE DEF residue, bits
    <3>3. Num(s, 0, bits + residue)
            = Num(s, 0, bits) * (2 ^ residue) + Num(s, 0 + bits, residue)
      BY <3>1, NumSplit, Zenon
    <3>. QED  BY <3>2, <3>3, Zenon
  <2>2. /\ Num(s, 0, bits) \in Nat
        /\ Num(s, bits, residue) \in Nat /\ Num(s, bits, residue) < 2 ^ residue
    <3>1. bits \in Nat /\ bits \in 0..12 /\ residue \in 0..12 /\ 0 \in Nat
      BY <1>4, <1>5
    <3>. HIDE DEF residue, bits
    <3>. QED  BY <3>1, NumBound
  <2>3. residue \in 0..8
    BY <1>5
  <2>. HIDE DEF stream, residue, bits, have
  <2>. QED  BY <1>5, <1>6, <2>1, <2>2, <2>3, Quotient
<1>8. PICK t \in BitStrings : \A p \in Nat : t[p] = s[p + bits]
  <2>1. [p \in Nat |-> s[p + bits]] \in BitStrings
    BY <1>4 DEF BitStrings
  <2>. QED  BY <2>1
<1>9. ASSUME NEW p \in Nat, NEW len \in 0..12
      PROVE  Num(t, p, len) = Num(s, p + bits, len)
  <2>1. \A j \in 0..11 : t[p + j] = s[(p + bits) + j]
    <3>1. ASSUME NEW j \in 0..11 PROVE t[p + j] = s[(p + bits) + j]
      <4>1. p + j \in Nat /\ (p + j) + bits = (p + bits) + j
        BY <1>4
      <4>. QED  BY <1>8, <4>1
    <3>. QED  BY <3>1
  <2>2. p + bits \in Nat
    BY <1>4
  <2>. HIDE DEF bits
  <2>. QED  BY <1>8, <2>1, <2>2, NumSame
<1>10. /\ Len(trail) \in Nat
       /\ (Len(trail) - 1) * bits
            = coder_bs.residue + 8 * Len(bytes) + d
       /\ decoder = trail[1] /\ coder = trail[Len(trail)]
  BY <1>2 DEF Counts, InStep
<1>11. Len(trail) >= 2
  <2>1. coder_bs.residue + 8 * Len(bytes) + d >= bits
    <3>1. d >= bits \/ Len(bytes) >= 1
      BY <1>1, <1>4
    <3>2. \A c \in 0..7, n \in Nat, r \in 0..7, b \in 2..5 :
            r >= b \/ n >= 1 => c + 8 * n + r >= b
      OBVIOUS
    <3>. HIDE DEF d, bits
    <3>. QED  BY <1>4, <3>1, <3>2
  <2>2. bits * (Len(trail) - 1) >= bits
    <3>1. (Len(trail) - 1) * bits >= bits
      BY <1>10, <2>1
    <3>. QED  BY <1>4, <1>10, <3>1, Multiples
  <2>3. Len(trail) - 1 \in Int
    BY <1>10
  <2>4. Len(trail) - 1 >= 1
    <3>. HIDE DEF bits
    <3>. QED  BY <1>4, <2>2, <2>3, Multiples
  <2>. QED  BY <1>10, <2>4
<1>12. /\ Len(trail') = Len(trail) - 1
       /\ \A k \in 1..Len(trail') : trail'[k] = trail[k + 1]
       /\ trail' # <<>> /\ \E S : trail' \in Seq(S)
  <2>1. PICK S : trail \in Seq(S)
    BY <1>2 DEF Counts
  <2>. QED  BY <1>1, <1>11, <2>1, Shortened
<1>13. /\ Len(bytes') = Len(bytes) - took
       /\ \A i \in 1..Len(bytes') : bytes'[i] = bytes[i + took]
       /\ bytes' \in Seq(Nat)
  BY <1>1, <1>4
<1>14. /\ decoder_bs'.residue = residue
       /\ decoder_bs'.bitstream = Num(t, 0, residue)
  <2>1. residue \in 0..12 /\ 0 \in Nat /\ 0 + bits = bits
    BY <1>4, <1>5
  <2>2. Num(t, 0, residue) = Num(s, bits, residue)
    BY <1>9, <2>1
  <2>. HIDE DEF stream, residue, bits
  <2>. QED  BY <1>1, <1>7, <2>2
<1>19. /\ d + 8 * Len(bytes) = (residue + 8 * Len(bytes')) + bits
       /\ residue + 8 * Len(bytes') \in Nat
       /\ \A i \in 1..Len(bytes') :
            /\ i + took \in 1..Len(bytes)
            /\ d + 8 * ((i + took) - 1) = (residue + 8 * (i - 1)) + bits
            /\ residue + 8 * (i - 1) \in Nat
       /\ \A x \in Int : x + bits = coder_bs.residue + 8 * Len(bytes) + d
                        => x = coder_bs.residue + 8 * Len(bytes') + residue
  <2>1. took \in {0, 1} /\ Len(bytes') \in Nat
    BY <1>13
  <2>2. residue = (d + 8 * took) - bits
    OBVIOUS
  <2>3. Len(bytes') = Len(bytes) - took
    BY <1>13
  <2>4. /\ bits \in 2..5 /\ d \in 0..7 /\ coder_bs.residue \in 0..7
        /\ Len(bytes) \in Nat /\ residue \in 0..7
    BY <1>4, <1>5
  <2>. DEFINE c == coder_bs.residue
              n == Len(bytes)
              m == Len(bytes')
  <2>5. /\ took \in {0, 1} /\ m \in Nat /\ n \in Nat /\ m = n - took
        /\ residue = (d + 8 * took) - bits /\ residue \in 0..7
        /\ bits \in 2..5 /\ d \in 0..7 /\ c \in 0..7
    BY <2>1, <2>2, <2>3, <2>4
  <2>. HIDE DEF bits, d, took, residue, c, n, m
  <2>6. /\ d + 8 * n = (residue + 8 * m) + bits
        /\ residue + 8 * m \in Nat
    BY <2>5, Taken
  <2>7. ASSUME NEW i \in 1..m
        PROVE  /\ i + took \in 1..n
               /\ d + 8 * ((i + took) - 1) = (residue + 8 * (i - 1)) + bits
               /\ residue + 8 * (i - 1) \in Nat
    BY <2>5, Taken
  <2>8. ASSUME NEW x \in Int, x + bits = c + 8 * n + d
        PROVE  x = c + 8 * m + residue
    BY <2>5, <2>8, Taken
  <2>. QED  BY <2>6, <2>7, <2>8 DEF c, n, m
<1>15. Counts'
  BY <1>1, <1>4, <1>5, <1>12, <1>13, <1>14 DEF Counts
<1>16. \A k \in 1..(Len(trail) - 1) :
         trail[k + 1]
           = dec_func(bits, trail[k], Num(s, bits * (k - 1), bits)).state
  BY <1>3 DEF InFlight
<1>17. InStep'
  <2>1. decoder' = trail'[1]
    <3>1. /\ 1 \in 1..(Len(trail) - 1) /\ 1 + 1 = 2
          /\ bits * (1 - 1) = 0
      BY <1>4, <1>10, <1>11
    <3>2. trail[2] = dec_func(bits, trail[1], Num(s, 0, bits)).state
      BY <1>16, <3>1
    <3>3. trail'[1] = trail[2]
      BY <1>11, <1>12, <3>1
    <3>. HIDE DEF bits, code
    <3>. QED  BY <1>1, <1>7, <1>10, <3>2, <3>3
  <2>2. coder' = trail'[Len(trail')]
    <3>1. Len(trail') \in 1..Len(trail') /\ Len(trail') + 1 = Len(trail)
      BY <1>10, <1>11, <1>12
    <3>. QED  BY <1>1, <1>10, <1>12, <3>1
  <2>3. (Len(trail') - 1) * bits
          = coder_bs'.residue + 8 * Len(bytes') + decoder_bs'.residue
    <3>1. (Len(trail) - 1) * bits = (Len(trail') - 1) * bits + bits
      <4>1. bits = 2 \/ bits = 3 \/ bits = 4 \/ bits = 5
        BY <1>4
      <4>. HIDE DEF bits
      <4>. QED  BY <1>10, <1>12, <4>1
    <3>2. (Len(trail') - 1) * bits \in Int
      <4>1. bits = 2 \/ bits = 3 \/ bits = 4 \/ bits = 5
        BY <1>4
      <4>. HIDE DEF bits
      <4>. QED  BY <1>10, <1>12, <4>1
    <3>. DEFINE now == (Len(trail) - 1) * bits
                later == (Len(trail') - 1) * bits
    <3>3. later + bits = coder_bs.residue + 8 * Len(bytes) + d /\ later \in Int
      BY <1>10, <3>1, <3>2
    <3>. HIDE DEF later, residue, bits, d
    <3>4. later = coder_bs.residue + 8 * Len(bytes') + residue
      BY <1>19, <3>3
    <3>. QED  BY <1>1, <1>14, <3>4 DEF later, bits
  <2>. QED  BY <1>1, <2>1, <2>2, <2>3 DEF InStep
<1>18. InFlight(t)'
  <2>1. \A i \in 1..Len(bytes') :
          bytes'[i] = Num(t, residue + 8 * (i - 1), 8)
    <3>. SUFFICES ASSUME NEW i \in 1..Len(bytes')
                  PROVE  bytes'[i] = Num(t, residue + 8 * (i - 1), 8)
      OBVIOUS
    <3>1. /\ i + took \in 1..Len(bytes)
          /\ d + 8 * ((i + took) - 1) = (residue + 8 * (i - 1)) + bits
          /\ residue + 8 * (i - 1) \in Nat /\ 8 \in 0..12
      BY <1>19
    <3>2. bytes[i + took] = Num(s, d + 8 * ((i + took) - 1), 8)
      BY <1>3, <3>1 DEF InFlight
    <3>3. bytes'[i] = bytes[i + took]
      BY <1>13
    <3>. HIDE DEF took, residue, bits, d
    <3>. QED  BY <1>9, <3>1, <3>2, <3>3
  <2>2. coder_bs.bitstream
          = Num(t, residue + 8 * Len(bytes'), coder_bs.residue)
    <3>1. coder_bs.bitstream = Num(s, d + 8 * Len(bytes), coder_bs.residue)
      BY <1>3 DEF InFlight
    <3>2. /\ d + 8 * Len(bytes) = (residue + 8 * Len(bytes')) + bits
          /\ residue + 8 * Len(bytes') \in Nat /\ coder_bs.residue \in 0..12
      BY <1>4, <1>19
    <3>. HIDE DEF residue, bits, d
    <3>. QED  BY <1>9, <3>1, <3>2
  <2>3. \A k \in 1..(Len(trail') - 1) :
          trail'[k + 1]
            = dec_func(bits, trail'[k], Num(t, bits * (k - 1), bits)).state
    <3>. SUFFICES ASSUME NEW k \in 1..(Len(trail') - 1)
                  PROVE  trail'[k + 1] = dec_func(bits, trail'[k],
                                            Num(t, bits * (k - 1), bits)).state
      OBVIOUS
    <3>1. /\ k + 1 \in 1..(Len(trail) - 1) /\ (k + 1) - 1 = k
          /\ k \in 1..Len(trail') /\ k + 1 \in 1..Len(trail')
      BY <1>10, <1>12
    <3>2. trail[(k + 1) + 1]
            = dec_func(bits, trail[k + 1], Num(s, bits * k, bits)).state
      BY <1>16, <3>1
    <3>3. bits * k = bits * (k - 1) + bits /\ bits * (k - 1) \in Nat
      <4>1. bits = 2 \/ bits = 3 \/ bits = 4 \/ bits = 5
        BY <1>4
      <4>2. k \in Nat \ {0}
        BY <3>1
      <4>. HIDE DEF bits
      <4>. QED  BY <4>1, <4>2
    <3>4. bits \in 0..12
      BY <1>4
    <3>5. Num(t, bits * (k - 1), bits) = Num(s, bits * k, bits)
      <4>. HIDE DEF bits
      <4>. QED  BY <1>9, <3>3, <3>4
    <3>6. trail'[k + 1] = trail[(k + 1) + 1] /\ trail'[k] = trail[k + 1]
      BY <1>12, <3>1
    <3>. HIDE DEF bits
    <3>. QED  BY <3>2, <3>5, <3>6
  <2>. HIDE DEF residue
  <2>. QED  BY <1>1, <1>14, <2>1, <2>2, <2>3 DEF InFlight
<1>. QED  BY <1>8, <1>15, <1>17, <1>18 DEF LockStep

(* A history, or the bytes, with one more.                                 *)
LEMMA Lengthened ==
  ASSUME NEW S, NEW q \in Seq(S), NEW x
  PROVE  /\ Append(q, x) \in Seq(S \cup {x})
         /\ Len(Append(q, x)) = Len(q) + 1 /\ Append(q, x) # <<>>
         /\ \A k \in 1..Len(q) : Append(q, x)[k] = q[k]
         /\ Append(q, x)[Len(q) + 1] = x
<1>1. q \in Seq(S \cup {x})
  OBVIOUS
<1>2. x \in S \cup {x}
  OBVIOUS
<1>3. /\ Append(q, x) \in Seq(S \cup {x})
      /\ Len(Append(q, x)) = Len(q) + 1
      /\ \A k \in 1..Len(q) : Append(q, x)[k] = q[k]
      /\ Append(q, x)[Len(q) + 1] = x
  BY <1>1, <1>2
<1>4. Append(q, x) # <<>>
  <2>1. Len(Append(q, x)) # 0 /\ Len(<<>>) = 0
    BY <1>3
  <2>. QED  BY <2>1, Zenon
<1>. QED  BY <1>3, <1>4, Zenon

(* How many bits there are when the coder has put in a code: of those that *)
(* wait in the coder, a byte's worth is put out.                           *)
LEMMA Put ==
  ASSUME NEW bits \in 2..5, NEW d \in 0..7, NEW c \in 0..7, NEW n \in Nat,
         NEW put \in {0, 1}, NEW m \in Nat, m = n + put,
         NEW r \in 0..7, r = (c + bits) - 8 * put
  PROVE  /\ (c + 8 * n + d) + bits = r + 8 * m + d
         /\ d + 8 * n + c \in Nat
         /\ \A i \in 1..n : /\ d + 8 * (i - 1) \in Nat
                            /\ d + 8 * (i - 1) + 8 <= d + 8 * n + c
         /\ put = 0 => d + 8 * m = d + 8 * n
         /\ put = 1 => d + 8 * m = (d + 8 * n) + 8
  OBVIOUS

(* The coder puts a code at the end of the bits, and its own new state at  *)
(* the end of the history.                                                 *)
LEMMA LockStepEncode ==
  ASSUME LockStep, EncodeNext
  PROVE  LockStep'
<1>1. PICK amp : PutOut(enc_func(bits_per_sample, coder, amp \div 4))
  BY DEF EncodeNext, Encode
<1>. DEFINE bits == bits_per_sample
            d == decoder_bs.residue
            c == coder_bs.residue
            n == Len(bytes)
            code == enc_func(bits, coder, amp \div 4).code
            stream == coder_bs.bitstream * (2 ^ bits) + code
            have == c + bits
            put == IF have >= 8 THEN 1 ELSE 0
            residue == have - 8 * put
            end == d + 8 * n + c
<1>2. /\ coder' = dec_func(bits, coder, code).state
      /\ trail' = Append(trail, coder')
      /\ have >= 8 =>
           /\ coder_bs' = [bitstream |-> stream % (2 ^ (have - 8)),
                           residue |-> have - 8]
           /\ bytes' = Append(bytes, stream \div (2 ^ (have - 8)))
      /\ ~(have >= 8) =>
           /\ coder_bs' = [bitstream |-> stream, residue |-> have]
           /\ bytes' = bytes
  <2>1. bits \in 2..5
    BY DEF LockStep, Counts
  <2>2. enc_func(bits, coder, amp \div 4).state
          = dec_func(bits, coder, code).state
    BY <2>1, EncoderMovesAsDecoder
  <2>. HIDE DEF code
  <2>. QED  BY <1>1, <2>2, Zenon DEF PutOut, HasByte, code
<1>3. bits' = bits /\ decoder' = decoder /\ decoder_bs' = decoder_bs
  BY DEF EncodeNext
<1>4. Counts /\ InStep
  BY DEF LockStep
<1>5. PICK s \in BitStrings : InFlight(s)
  BY DEF LockStep
<1>6. /\ bits \in 2..5 /\ d \in 0..7 /\ c \in 0..7
      /\ n \in Nat /\ bytes \in Seq(Nat)
  BY <1>4 DEF Counts
<1>7. /\ residue \in 0..7 /\ have \in 0..12 /\ put \in {0, 1} /\ end \in Nat
      /\ bits \in 0..8 /\ c \in 0..12 /\ d \in 0..12
      /\ d + 8 * n \in Nat /\ (d + 8 * n) + c = end
  <2>. HIDE DEF bits, c, d, n
  <2>. QED  BY <1>6
<1>8. code \in 0..(2 ^ bits - 1)
  BY <1>6, EncodersGiveCodes
<1>. HIDE DEF code
<1>9. PICK t \in BitStrings : /\ Num(t, end, bits) = code
                              /\ \A j \in Nat : j < end => t[j] = s[j]
  <2>. HIDE DEF bits, end
  <2>. QED  BY <1>6, <1>7, <1>8, CodeHasBits
<1>10. ASSUME NEW p \in Nat, NEW len \in 0..12, p + len <= end
       PROVE  Num(t, p, len) = Num(s, p, len)
  <2>1. \A j \in 0..11 : j < len => t[p + j] = s[p + j]
    <3>. SUFFICES ASSUME NEW j \in 0..11, j < len
                  PROVE  t[p + j] = s[p + j]
      OBVIOUS
    <3>1. p + j \in Nat /\ p + j < end
      <4>. HIDE DEF end
      <4>. QED  BY <1>7, <1>10
    <3>. QED  BY <1>9, <3>1
  <2>. HIDE DEF end
  <2>. QED  BY <1>9, <2>1, NumSame
<1>11. /\ decoder_bs.bitstream = Num(t, 0, d)
       /\ coder_bs.bitstream = Num(t, d + 8 * n, c)
       /\ \A i \in 1..n : bytes[i] = Num(t, d + 8 * (i - 1), 8)
  <2>1. /\ decoder_bs.bitstream = Num(s, 0, d)
        /\ coder_bs.bitstream = Num(s, d + 8 * n, c)
        /\ \A i \in 1..n : bytes[i] = Num(s, d + 8 * (i - 1), 8)
    BY <1>5 DEF InFlight
  <2>2. 0 \in Nat /\ 0 + d <= end
    <3>. HIDE DEF d, c, n
    <3>. QED  BY <1>6
  <2>3. (d + 8 * n) + c <= end
    <3>. HIDE DEF end
    <3>. QED  BY <1>7
  <2>4. \A i \in 1..n : d + 8 * (i - 1) \in Nat /\ d + 8 * (i - 1) + 8 <= end
    <3>. HIDE DEF d, c, n
    <3>. QED  BY <1>6
  <2>5. 8 \in 0..12
    OBVIOUS
  <2>. HIDE DEF d, c, n, end
  <2>. QED  BY <1>7, <1>10, <2>1, <2>2, <2>3, <2>4, <2>5
<1>12. stream = Num(t, d + 8 * n, have)
  <2>1. Num(t, d + 8 * n, c + bits)
          = Num(t, d + 8 * n, c) * (2 ^ bits) + Num(t, (d + 8 * n) + c, bits)
    <3>1. c + bits <= 12
      BY <1>6
    <3>. HIDE DEF d, c, n, bits
    <3>. QED  BY <1>7, <1>9, <3>1, NumSplit, Zenon
  <2>2. (d + 8 * n) + c = end
    BY <1>7
  <2>. HIDE DEF d, c, n, bits, end
  <2>. QED  BY <1>9, <1>11, <2>1, <2>2, Zenon DEF stream, have
<1>. DEFINE m == Len(bytes')
<1>13. /\ coder_bs'.residue = residue /\ bytes' \in Seq(Nat)
       /\ m = n + put /\ m \in Nat
       /\ \A i \in 1..m : bytes'[i] = Num(t, d + 8 * (i - 1), 8)
       /\ coder_bs'.bitstream = Num(t, d + 8 * m, residue)
  <2>1. CASE have >= 8
    <3>1. have - 8 = residue /\ put = 1
      BY <2>1
    <3>2. Num(t, d + 8 * n, 8 + residue)
            = Num(t, d + 8 * n, 8) * (2 ^ residue)
                + Num(t, (d + 8 * n) + 8, residue)
      <4>1. /\ 8 \in 0..12 /\ residue \in 0..8 /\ 8 + residue <= 12
        BY <1>6, <2>1
      <4>. HIDE DEF d, n, residue
      <4>. QED  BY <1>7, <4>1, NumSplit, Zenon
    <3>3. 8 + residue = have
      <4>. HIDE DEF c, bits
      <4>. QED  BY <1>6, <2>1
    <3>4. /\ Num(t, d + 8 * n, 8) \in Nat
          /\ Num(t, (d + 8 * n) + 8, residue) \in Nat
          /\ Num(t, (d + 8 * n) + 8, residue) < 2 ^ residue
      <4>1. (d + 8 * n) + 8 \in Nat
        <5>. DEFINE p == d + 8 * n
        <5>1. p \in Nat
          BY <1>7
        <5>. HIDE DEF p
        <5>2. p + 8 \in Nat
          BY <5>1
        <5>. QED  BY <5>2 DEF p
      <4>2. 8 \in 0..12 /\ residue \in 0..12
        <5>. HIDE DEF residue
        <5>. QED  BY <1>7
      <4>. HIDE DEF d, n, residue
      <4>. QED  BY <1>7, <4>1, <4>2, NumBound
    <3>5. residue \in 0..8
      <4>. HIDE DEF residue
      <4>. QED  BY <1>7
    <3>6. /\ stream \div (2 ^ residue) = Num(t, d + 8 * n, 8)
          /\ stream % (2 ^ residue) = Num(t, (d + 8 * n) + 8, residue)
      <4>. DEFINE x == Num(t, d + 8 * n, 8)
                  y == Num(t, (d + 8 * n) + 8, residue)
      <4>1. stream = x * (2 ^ residue) + y
        <5>. HIDE DEF d, n, residue, stream, have
        <5>. QED  BY <1>12, <3>2, <3>3, Zenon
      <4>2. x \in Nat /\ y \in Nat /\ y < 2 ^ residue
        BY <3>4, Zenon
      <4>. HIDE DEF d, n, residue, stream, x, y
      <4>3. stream \div (2 ^ residue) = x /\ stream % (2 ^ residue) = y
        BY <3>5, <4>1, <4>2, Quotient, Zenon
      <4>. QED  BY <4>3, Zenon DEF x, y
    <3>. DEFINE byte1 == Num(t, d + 8 * n, 8)
    <3>7. bytes' = Append(bytes, byte1)
      <4>. HIDE DEF d, n, residue, stream, have
      <4>. QED  BY <1>2, <2>1, <3>1, <3>6
    <3>8. byte1 \in Nat
      BY <3>4
    <3>. HIDE DEF byte1
    <3>9. /\ bytes' \in Seq(Nat) /\ m = n + 1
          /\ \A i \in 1..n : bytes'[i] = bytes[i]
          /\ bytes'[n + 1] = byte1
      BY <1>6, <3>7, <3>8
    <3>10. /\ d + 8 * ((n + 1) - 1) = d + 8 * n
           /\ d + 8 * (n + 1) = (d + 8 * n) + 8
      <4>. HIDE DEF d, n
      <4>. QED  BY <1>6
    <3>11. \A i \in 1..m : bytes'[i] = Num(t, d + 8 * (i - 1), 8)
      <4>. SUFFICES ASSUME NEW i \in 1..m
                    PROVE  bytes'[i] = Num(t, d + 8 * (i - 1), 8)
        OBVIOUS
      <4>1. i \in 1..n \/ i = n + 1
        <5>. HIDE DEF n, m
        <5>. QED  BY <1>6, <3>9
      <4>. HIDE DEF d, n, m
      <4>. QED  BY <1>11, <3>9, <3>10, <4>1 DEF byte1
    <3>12. /\ coder_bs'.residue = residue
           /\ coder_bs'.bitstream = Num(t, d + 8 * (n + 1), residue)
      <4>. HIDE DEF d, n, residue, stream, have
      <4>. QED  BY <1>2, <2>1, <3>1, <3>6, <3>10
    <3>. HIDE DEF d, n, residue, stream, have, m, put
    <3>. QED  BY <1>6, <3>1, <3>9, <3>11, <3>12
  <2>2. CASE ~(have >= 8)
    <3>1. have = residue /\ put = 0
      BY <1>6, <2>2
    <3>2. bytes' = bytes /\ coder_bs' = [bitstream |-> stream, residue |-> have]
      BY <1>2, <2>2
    <3>3. m = n /\ n + 0 = n
      BY <1>6, <3>2
    <3>. HIDE DEF d, n, residue, stream, have, m, put
    <3>. QED  BY <1>6, <1>11, <1>12, <3>1, <3>2, <3>3
  <2>. QED  BY <2>1, <2>2
<1>14. /\ Len(trail) \in Nat
       /\ (Len(trail) - 1) * bits = c + 8 * n + d
       /\ decoder = trail[1] /\ coder = trail[Len(trail)]
       /\ trail # <<>>
  BY <1>4 DEF Counts, InStep
<1>15. Len(trail) >= 1
  <2>1. PICK S : trail \in Seq(S)
    BY <1>4 DEF Counts
  <2>. QED  BY <1>14, <2>1
<1>16. /\ Len(trail') = Len(trail) + 1
       /\ \A k \in 1..Len(trail) : trail'[k] = trail[k]
       /\ trail'[Len(trail) + 1] = coder'
       /\ trail' # <<>> /\ \E S : trail' \in Seq(S)
  <2>1. PICK S : trail \in Seq(S)
    BY <1>4 DEF Counts
  <2>2. /\ Append(trail, coder') \in Seq(S \cup {coder'})
        /\ Len(Append(trail, coder')) = Len(trail) + 1
        /\ Append(trail, coder') # <<>>
        /\ \A k \in 1..Len(trail) : Append(trail, coder')[k] = trail[k]
        /\ Append(trail, coder')[Len(trail) + 1] = coder'
    <3>1. ASSUME NEW x
          PROVE  /\ Append(trail, x) \in Seq(S \cup {x})
                 /\ Len(Append(trail, x)) = Len(trail) + 1
                 /\ Append(trail, x) # <<>>
                 /\ \A k \in 1..Len(trail) : Append(trail, x)[k] = trail[k]
                 /\ Append(trail, x)[Len(trail) + 1] = x
      BY <2>1, Lengthened
    <3>. QED  BY <3>1, Zenon
  <2>3. trail' = Append(trail, coder')
    BY <1>2, Zenon
  <2>. QED  BY <2>2, <2>3, Zenon
<1>17. Counts'
  <2>. HIDE DEF residue
  <2>. QED  BY <1>3, <1>6, <1>7, <1>13, <1>16 DEF Counts
<1>18. bits * (Len(trail) - 1) = end
  <2>1. bits * (Len(trail) - 1) = (Len(trail) - 1) * bits
    BY <1>6, <1>14, Multiples
  <2>. HIDE DEF c, n, d
  <2>2. c + 8 * n + d = d + 8 * n + c
    BY <1>6
  <2>. HIDE DEF bits
  <2>. QED  BY <1>14, <2>1, <2>2
<1>19. InStep'
  <2>1. decoder' = trail'[1]
    BY <1>3, <1>14, <1>15, <1>16
  <2>2. coder' = trail'[Len(trail')]
    BY <1>16
  <2>3. (Len(trail') - 1) * bits = residue + 8 * m + d
    <3>1. (Len(trail') - 1) * bits = (Len(trail) - 1) * bits + bits
      <4>1. bits = 2 \/ bits = 3 \/ bits = 4 \/ bits = 5
        BY <1>6
      <4>. HIDE DEF bits
      <4>. QED  BY <1>14, <1>16, <4>1
    <3>2. (c + 8 * n + d) + bits = residue + 8 * m + d
      <4>1. residue = (c + bits) - 8 * put
        OBVIOUS
      <4>. HIDE DEF c, n, d, bits, put, m, residue
      <4>. QED  BY <1>6, <1>7, <1>13, <4>1, Put
    <3>. HIDE DEF c, n, d, bits, put, m, residue
    <3>. QED  BY <1>14, <3>1, <3>2
  <2>. HIDE DEF residue
  <2>. QED  BY <1>3, <1>13, <2>1, <2>2, <2>3 DEF InStep
<1>20. InFlight(t)'
  <2>1. \A k \in 1..(Len(trail') - 1) :
          trail'[k + 1]
            = dec_func(bits, trail'[k], Num(t, bits * (k - 1), bits)).state
    <3>. SUFFICES ASSUME NEW k \in 1..(Len(trail') - 1)
                  PROVE  trail'[k + 1] = dec_func(bits, trail'[k],
                                            Num(t, bits * (k - 1), bits)).state
      OBVIOUS
    <3>1. CASE k < Len(trail)
      <4>1. /\ k \in 1..(Len(trail) - 1) /\ k \in 1..Len(trail)
            /\ k + 1 \in 1..Len(trail)
        BY <1>14, <1>16, <3>1
      <4>2. trail[k + 1]
              = dec_func(bits, trail[k], Num(s, bits * (k - 1), bits)).state
        BY <1>5, <4>1 DEF InFlight
      <4>3. bits * (k - 1) \in Nat /\ bits * (k - 1) + bits <= end
        <5>1. /\ k - 1 \in Int /\ Len(trail) - 1 \in Int
              /\ k - 1 < Len(trail) - 1 /\ k - 1 >= 0
          BY <1>14, <4>1
        <5>. HIDE DEF bits, end
        <5>2. /\ bits * (k - 1) \in Int /\ bits * (k - 1) >= 0
              /\ bits * (k - 1) + bits <= bits * (Len(trail) - 1)
          BY <1>6, <5>1, Multiples
        <5>. QED  BY <1>18, <5>2
      <4>4. Num(t, bits * (k - 1), bits) = Num(s, bits * (k - 1), bits)
        <5>1. bits \in 0..12
          BY <1>6
        <5>. HIDE DEF bits, end
        <5>. QED  BY <1>10, <4>3, <5>1
      <4>. HIDE DEF bits
      <4>. QED  BY <1>16, <4>1, <4>2, <4>4
    <3>2. CASE ~(k < Len(trail))
      <4>1. k = Len(trail) /\ k \in 1..Len(trail)
        BY <1>14, <1>15, <1>16, <3>2
      <4>2. trail'[k + 1] = coder' /\ trail'[k] = coder
        BY <1>14, <1>16, <4>1
      <4>3. Num(t, bits * (k - 1), bits) = code
        BY <1>9, <1>18, <4>1
      <4>. HIDE DEF bits
      <4>. QED  BY <1>2, <4>2, <4>3
    <3>. QED  BY <3>1, <3>2
  <2>. HIDE DEF residue
  <2>. QED  BY <1>3, <1>11, <1>13, <2>1 DEF InFlight
<1>. QED  BY <1>9, <1>17, <1>19, <1>20 DEF LockStep

(* Both sides are in step, whoever moves.                                  *)
LEMMA LockStepNext == LockStep /\ [Next]_vars => LockStep'
<1>. SUFFICES ASSUME LockStep, [Next]_vars PROVE LockStep'
  OBVIOUS
<1>1. CASE EncodeNext
  BY <1>1, LockStepEncode
<1>2. CASE Decode
  BY <1>2, LockStepDecode
<1>3. CASE UNCHANGED vars
  <2>1. Counts' /\ InStep'
    BY <1>3 DEF vars, LockStep, Counts, InStep
  <2>2. PICK s \in BitStrings : InFlight(s)
    BY DEF LockStep
  <2>3. InFlight(s)'
    BY <1>3, <2>2 DEF vars, InFlight
  <2>. QED  BY <2>1, <2>2, <2>3 DEF LockStep
<1>. QED  BY <1>1, <1>2, <1>3 DEF Next

(* However the two take turns, and however the codes lie in the bytes, the *)
(* decoder is where the coder was after as many codes, and the bits        *)
(* between them are those of the codes not decoded.                        *)
THEOREM SidesInStep == Spec => []InStep
<1>1. LockStep => InStep
  BY DEF LockStep
<1>. QED  BY LockStepInit, LockStepNext, <1>1, PTL DEF Spec

(* The types of what is not in a bit stream.                               *)
Rest == /\ CoderType(coder) /\ CoderType(decoder)
        /\ Len(bytes) <= MaxBytes
        /\ signal \in Signals
        /\ position \in 0..(Block * MaxBlocks)

(* It holds at first.                                                      *)
LEMMA RestInit == Init => Rest
<1>. SUFFICES ASSUME Init PROVE Rest
  OBVIOUS
<1>1. CoderType(g726_state)
  <2>1. 0 \in short /\ 32 \in floating
    BY DEF short, floating
  <2>2. [k \in 0..1 |-> FALSE] \in [0..1 -> BOOLEAN]
    BY Zenon
  <2>. QED  BY <2>1, <2>2 DEF CoderType, g726_state
<1>2. Len(bytes) <= MaxBytes /\ position \in 0..(Block * MaxBlocks)
  BY SignalAssumption DEF Init
<1>. QED  BY <1>1, <1>2 DEF Init, Rest

(* A sample coded or decoded keeps it: update() gives shorts, and numbers  *)
(* that fit the floating point format.                                     *)
LEMMA RestNext == IndInv /\ Rest /\ [Next]_vars => Rest'
<1>. SUFFICES ASSUME IndInv, Rest, [Next]_vars PROVE Rest'
  OBVIOUS
<1>1. /\ StreamsOK /\ Bounded(coder) /\ Bounded(decoder)
      /\ CoderType(coder) /\ CoderType(decoder) /\ bits_per_sample \in 2..5
  BY DEF IndInv, AdaptationBounded, Rest, StreamsOK
<1>2. CASE EncodeNext
  <2>1. PICK amp : PutOut(enc_func(bits_per_sample, coder, amp \div 4))
    BY <1>2 DEF EncodeNext, Encode
  <2>. DEFINE code == enc_func(bits_per_sample, coder, amp \div 4).code
  <2>2. code \in Int
    BY <1>1, EncodersGiveIntegers
  <2>3. /\ coder' = dec_func(bits_per_sample, coder, code).state
        /\ decoder' = decoder
    BY <1>1, <1>2, <2>1, EncoderMovesAsDecoder DEF PutOut, EncodeNext
  <2>4. CoderType(coder')
    <3>. HIDE DEF code
    <3>. QED  BY <1>1, <2>2, <2>3, DecodersKeepType
  <2>5. Len(bytes') <= MaxBytes
    <3>1. \E x : bytes' = bytes \/ bytes' = Append(bytes, x)
      BY <2>1 DEF PutOut
    <3>2. bytes \in Seq(Int) /\ Len(bytes) < MaxBytes /\ MaxBytes \in Nat
      BY <1>1, <1>2, SignalAssumption DEF StreamsOK, EncodeNext
    <3>. QED  BY <3>1, <3>2
  <2>6. signal' \in Signals
    BY <1>2 DEF EncodeNext, Rest
  <2>7. position' \in 0..(Block * MaxBlocks)
    BY <1>2, SignalAssumption DEF EncodeNext, Rest
  <2>. QED  BY <1>1, <2>3, <2>4, <2>5, <2>6, <2>7 DEF Rest
<1>3. CASE Decode
  <2>1. PICK code \in Int :
          decoder' = dec_func(bits_per_sample, decoder, code).state
    BY <1>1, <1>3, StreamsDecode
  <2>2. CoderType(decoder')
    BY <1>1, <2>1, DecodersKeepType
  <2>3. Len(bytes') <= MaxBytes
    <3>1. bytes' = bytes \/ (bytes # <<>> /\ bytes' = Tail(bytes))
      BY <1>3 DEF Decode
    <3>2. bytes \in Seq(Int) /\ Len(bytes) <= MaxBytes /\ MaxBytes \in Nat
      BY <1>1, SignalAssumption DEF StreamsOK, Rest
    <3>. QED  BY <3>1, <3>2
  <2>4. UNCHANGED <<coder, signal, position>>
    BY <1>3 DEF Decode
  <2>. QED  BY <1>1, <2>2, <2>3, <2>4 DEF Rest
<1>4. CASE UNCHANGED vars
  BY <1>4 DEF vars, Rest
<1>. QED  BY <1>2, <1>3, <1>4 DEF Next

(* The ranges of the bit streams are those of so many bits.                *)
LEMMA StreamRanges ==
  ASSUME LockStep
  PROVE  /\ coder_bs.residue \in 0..7 /\ decoder_bs.residue \in 0..7
         /\ coder_bs.bitstream \in 0..(2 ^ coder_bs.residue - 1)
         /\ decoder_bs.bitstream \in 0..(2 ^ decoder_bs.residue - 1)
         /\ bytes \in Seq(byte)
<1>. DEFINE d == decoder_bs.residue
            c == coder_bs.residue
            n == Len(bytes)
<1>1. /\ d \in 0..7 /\ c \in 0..7 /\ n \in Nat /\ bytes \in Seq(Nat)
  BY DEF LockStep, Counts
<1>2. PICK s \in BitStrings : InFlight(s)
  BY DEF LockStep
<1>3. ASSUME NEW p \in Nat, NEW len \in 0..12
      PROVE  Num(s, p, len) \in 0..(2 ^ len - 1)
  <2>. DEFINE pow == 2 ^ len
  <2>1. pow \in Nat
    <3>1. len \in Nat
      OBVIOUS
    <3>. QED  BY <3>1, Powers, Zenon
  <2>2. Num(s, p, len) \in Nat /\ Num(s, p, len) < pow
    BY NumBound
  <2>. HIDE DEF pow
  <2>3. Num(s, p, len) \in 0..(pow - 1)
    BY <2>1, <2>2
  <2>. QED  BY <2>3 DEF pow
<1>4. /\ 0 \in Nat /\ d + 8 * n \in Nat /\ d \in 0..12 /\ c \in 0..12
      /\ 8 \in 0..12
  <2>. HIDE DEF d, c, n
  <2>. QED  BY <1>1
<1>5. /\ decoder_bs.bitstream = Num(s, 0, d)
      /\ coder_bs.bitstream = Num(s, d + 8 * n, c)
      /\ \A i \in 1..n : bytes[i] = Num(s, d + 8 * (i - 1), 8)
  BY <1>2 DEF InFlight
<1>6. /\ decoder_bs.bitstream \in 0..(2 ^ d - 1)
      /\ coder_bs.bitstream \in 0..(2 ^ c - 1)
  <2>. HIDE DEF d, c, n
  <2>. QED  BY <1>3, <1>4, <1>5, Zenon
<1>7. \A i \in 1..n : bytes[i] \in byte
  <2>. SUFFICES ASSUME NEW i \in 1..n PROVE bytes[i] \in byte
    OBVIOUS
  <2>1. d + 8 * (i - 1) \in Nat
    <3>. HIDE DEF d, n
    <3>. QED  BY <1>1
  <2>2. Num(s, d + 8 * (i - 1), 8) \in byte
    BY <1>3, <1>4, <2>1, Zenon DEF byte
  <2>. QED  BY <1>5, <2>2
<1>8. bytes \in Seq(byte)
  BY <1>1, <1>7
<1>. QED  BY <1>1, <1>6, <1>8

(* Poles and zeros keep to shorts and what is remembered of the signal to  *)
(* the floating point format, on both sides, and the bits and bytes        *)
(* between them to their width.                                            *)
THEOREM TypeCorrect == Spec => []TypeOK
<1>1. IndInv /\ LockStep /\ Rest => TypeOK
  <2>. SUFFICES ASSUME IndInv, LockStep, Rest PROVE TypeOK
    OBVIOUS
  <2>1. bits_per_sample \in 2..5
    BY DEF LockStep, Counts
  <2>. QED  BY <2>1, StreamRanges, Zenon DEF Rest, TypeOK
<1>. QED  BY LimitsInit, LimitsNext, LockStepInit, LockStepNext, RestInit,
             RestNext, <1>1, PTL DEF Spec

-----------------------------------------------------------------------------
(* Codes are stable. A magnitude and its logarithm.                        *)

(* There is but one highest bit.                                           *)
LEMMA TopBitIs ==
  ASSUME NEW k \in 0..15, NEW x \in Int, 2 ^ k <= x, x < 2 * 2 ^ k
  PROVE  top_bit(x) = k
<1>. DEFINE pow(j) == 2 ^ j
<1>1. /\ pow(0) = 1 /\ pow(1) = 2 /\ pow(2) = 4 /\ pow(3) = 8 /\ pow(4) = 16
      /\ pow(5) = 32 /\ pow(6) = 64 /\ pow(7) = 128 /\ pow(8) = 256
      /\ pow(9) = 512 /\ pow(10) = 1024 /\ pow(11) = 2048 /\ pow(12) = 4096
      /\ pow(13) = 8192 /\ pow(14) = 16384 /\ pow(15) = 32768
  OBVIOUS
<1>2. pow(k) <= x /\ x < 2 * pow(k)
  BY Zenon
<1>. HIDE DEF pow
<1>3. 0 < x /\ x < 2 ^ 16
  BY <1>1, <1>2
<1>. DEFINE t == top_bit(x)
<1>4. t \in 0..15 /\ pow(t) <= x /\ x < 2 * pow(t)
  <2>1. t \in 0..15 /\ 2 ^ t <= x /\ x < 2 * 2 ^ t
    BY <1>3, TopBit
  <2>. QED  BY <2>1, Zenon DEF pow
<1>. HIDE DEF t
<1>5. \A i \in 0..15 : pow(i) \in Nat
  BY <1>1
<1>6. \A i, j \in 0..15 : i < j => 2 * pow(i) <= pow(j)
  BY <1>1
<1>7. t = k
  BY <1>2, <1>4, <1>5, <1>6
<1>. QED  BY <1>7 DEF t

(* The magnitude that reconstruct() gives for a logarithm, and the         *)
(* logarithm that quantize() then takes of it.                             *)
Magnitude(dql) == ((128 + (dql % 128)) * 128)
                    \div (2 ^ (14 - ((dql \div 128) % 16)))

Rounded(dql) ==
  (dql \div 128) * 128
    + (((Magnitude(dql) * 128) \div (2 ^ (dql \div 128))) % 128)

(* The magnitude has the exponent of its logarithm, and its mantissa but   *)
(* for the bits that a small one has no place for: the logarithm comes     *)
(* back less what was cut off.                                             *)
LEMMA LogOfMagnitude ==
  ASSUME NEW dql \in Int, 128 <= dql, dql < 15 * 128
  PROVE  /\ Magnitude(dql) \in Int
         /\ 0 < Magnitude(dql) /\ Magnitude(dql) < 2 ^ 15
         /\ top_bit(Magnitude(dql) \div 2) + 1 = dql \div 128
         /\ Rounded(dql) \in Int
         /\ Rounded(dql) <= dql /\ dql - 63 <= Rounded(dql)
         /\ dql >= 256 => dql - 31 <= Rounded(dql)
         /\ dql >= 384 => dql - 15 <= Rounded(dql)
         /\ dql >= 512 => dql - 7 <= Rounded(dql)
<1>. DEFINE exp == dql \div 128
            m == dql % 128
            pow(j) == 2 ^ j
            mag == ((128 + m) * 128) \div pow(14 - (exp % 16))
            mant == ((mag * 128) \div pow(exp)) % 128
            top == top_bit(mag \div 2)
            near == /\ mag \in Int /\ pow(exp) <= mag /\ mag < 2 * pow(exp)
                    /\ mant \in Int /\ 0 <= mant /\ mant <= m
                    /\ m - 63 <= mant
                    /\ exp >= 2 => m - 31 <= mant
                    /\ exp >= 3 => m - 15 <= mant
                    /\ exp >= 4 => m - 7 <= mant
<1>1. /\ pow(0) = 1 /\ pow(1) = 2 /\ pow(2) = 4 /\ pow(3) = 8 /\ pow(4) = 16
      /\ pow(5) = 32 /\ pow(6) = 64 /\ pow(7) = 128 /\ pow(8) = 256
      /\ pow(9) = 512 /\ pow(10) = 1024 /\ pow(11) = 2048 /\ pow(12) = 4096
      /\ pow(13) = 8192 /\ pow(14) = 16384
  OBVIOUS
<1>. HIDE DEF pow
<1>2. /\ exp \in 1..14 /\ m \in 0..127 /\ dql = exp * 128 + m
      /\ exp % 16 = exp
  OBVIOUS
<1>3. ASSUME exp <= 6 PROVE near
  <2>. DEFINE q == pow(7 - exp)
  <2>1. /\ q \in {2, 4, 8, 16, 32, 64}
        /\ pow(14 - exp) = 128 * q /\ pow(exp) * q = 128
        /\ pow(exp) \in {2, 4, 8, 16, 32, 64} /\ pow(exp - 1) * 2 = pow(exp)
        /\ (exp >= 2 => q <= 32) /\ (exp >= 3 => q <= 16)
        /\ (exp >= 4 => q <= 8)
    BY <1>1, <1>2, <1>3
  <2>. HIDE DEF q
  <2>2. mag = (128 + m) \div q
    <3>. HIDE DEF m, exp
    <3>. QED  BY <1>2, <2>1
  <2>. HIDE DEF mag
  <2>3. mag \in Int /\ pow(exp) <= mag /\ mag < 2 * pow(exp)
    <3>. HIDE DEF m, exp
    <3>. QED  BY <1>2, <2>1, <2>2
  <2>4. mant = mag * q - 128
    <3>. HIDE DEF m, exp
    <3>. QED  BY <1>2, <2>1, <2>2
  <2>5. mag * q <= 128 + m /\ 128 + m < mag * q + q /\ 128 <= mag * q
    <3>. HIDE DEF m, exp
    <3>. QED  BY <1>2, <2>1, <2>2
  <2>6. /\ 0 <= mant /\ mant <= m /\ m - 63 <= mant
        /\ exp >= 2 => m - 31 <= mant
        /\ exp >= 3 => m - 15 <= mant
        /\ exp >= 4 => m - 7 <= mant
    <3>1. /\ mag * q \in Int /\ q \in Int /\ q <= 64
      BY <2>1, <2>3
    <3>. HIDE DEF m, exp, mant
    <3>. QED  BY <1>2, <2>1, <2>4, <2>5, <3>1
  <2>7. mant \in Int
    <3>. HIDE DEF m, exp, mant
    <3>. QED  BY <2>1, <2>3, <2>4
  <2>. HIDE DEF m, exp, mant
  <2>. QED  BY <2>3, <2>6, <2>7
<1>4. ASSUME exp >= 7 PROVE near
  <2>. DEFINE q == pow(exp - 7)
  <2>1. /\ q \in {1, 2, 4, 8, 16, 32, 64, 128}
        /\ pow(14 - exp) * q = 128 /\ pow(exp) = 128 * q
        /\ pow(14 - exp) \in {1, 2, 4, 8, 16, 32, 64, 128}
    BY <1>1, <1>2, <1>4
  <2>. HIDE DEF q
  <2>2. mag = (128 + m) * q
    <3>. HIDE DEF m, exp
    <3>. QED  BY <1>2, <2>1
  <2>. HIDE DEF mag
  <2>3. mag \in Int /\ pow(exp) <= mag /\ mag < 2 * pow(exp)
    <3>. HIDE DEF m, exp
    <3>. QED  BY <1>2, <2>1, <2>2
  <2>4. mant = m
    <3>. HIDE DEF m, exp
    <3>. QED  BY <1>2, <2>1, <2>2
  <2>. HIDE DEF m, exp, mant
  <2>. QED  BY <1>2, <2>3, <2>4
<1>5. near
  <2>. HIDE DEF near, exp
  <2>. QED  BY <1>2, <1>3, <1>4
<1>. HIDE DEF mag, mant
<1>6. top + 1 = exp /\ 0 < mag /\ mag < 2 ^ 15
  <2>1. /\ exp - 1 \in 0..15 /\ pow(exp) = 2 * pow(exp - 1)
        /\ pow(exp - 1) \in Nat \ {0} /\ pow(exp) <= 2 ^ 14
    BY <1>1, <1>2
  <2>2. /\ mag \div 2 \in Int /\ pow(exp - 1) <= mag \div 2
        /\ mag \div 2 < 2 * pow(exp - 1)
    <3>. HIDE DEF exp
    <3>. QED  BY <1>5, <2>1
  <2>3. top = exp - 1
    <3>. DEFINE k == exp - 1
                x == mag \div 2
    <3>1. k \in 0..15 /\ x \in Int /\ 2 ^ k <= x /\ x < 2 * 2 ^ k
      BY <2>1, <2>2, Zenon DEF pow
    <3>. HIDE DEF k, x
    <3>2. top_bit(x) = k
      BY <3>1, TopBitIs, Zenon
    <3>. QED  BY <3>2 DEF k, x
  <2>4. 0 < mag /\ mag < 2 ^ 15
    <3>. HIDE DEF exp
    <3>. QED  BY <1>5, <2>1
  <2>. HIDE DEF top, exp
  <2>. QED  BY <1>2, <2>3, <2>4
<1>7. /\ exp * 128 + mant <= dql /\ dql - 63 <= exp * 128 + mant
      /\ dql >= 256 => dql - 31 <= exp * 128 + mant
      /\ dql >= 384 => dql - 15 <= exp * 128 + mant
      /\ dql >= 512 => dql - 7 <= exp * 128 + mant
  <2>. HIDE DEF exp, m
  <2>. QED  BY <1>2, <1>5
<1>8. mag = Magnitude(dql)
  BY Zenon DEF Magnitude, mag, pow
<1>9. exp * 128 + mant = Rounded(dql)
  BY <1>8, Zenon DEF mant, pow, Rounded
<1>10. top = top_bit(Magnitude(dql) \div 2)
  BY <1>8, Zenon
<1>11. exp * 128 + mant \in Int
  <2>. HIDE DEF exp, m
  <2>. QED  BY <1>2, <1>5
<1>. HIDE DEF exp, top
<1>. QED  BY <1>5, <1>6, <1>7, <1>8, <1>9, <1>10, <1>11 DEF exp

-----------------------------------------------------------------------------
(* The thresholds and the entries of the tables.                           *)

(* The thresholds of a rate ascend.                                        *)
Ascending(table) == \A a, b \in 1..Len(table) : a < b => table[a] < table[b]

(* So do those of all rates.                                               *)
LEMMA TablesAscend ==
  /\ Ascending(qtab_726_16) /\ Ascending(qtab_726_24)
  /\ Ascending(qtab_726_32) /\ Ascending(qtab_726_40)
<1>1. Ascending(qtab_726_16) /\ Ascending(qtab_726_24)
  BY DEF Ascending, qtab_726_16, qtab_726_24
<1>2. Ascending(qtab_726_32)
  BY DEF Ascending, qtab_726_32
<1>3. Ascending(qtab_726_40)
  BY DEF Ascending, qtab_726_40
<1>. QED  BY <1>1, <1>2, <1>3

(* The entries of an ascending table that are passed are the first.        *)
LEMMA Passed ==
  ASSUME NEW table \in Seq(Int), Ascending(table), NEW i \in 0..Len(table),
         NEW x \in Int, i = 0 \/ table[i] <= x,
         i = Len(table) \/ x < table[i + 1]
  PROVE  Cardinality({n \in 1..Len(table) : x >= table[n]}) = i
<1>1. \A n \in 1..Len(table) : table[n] \in Int
  OBVIOUS
<1>2. ASSUME NEW n \in 1..Len(table) PROVE x >= table[n] <=> n <= i
  <2>1. CASE n <= i
    <3>1. i \in 1..Len(table) /\ table[i] <= x
      BY <2>1
    <3>2. n = i \/ table[n] < table[i]
      BY <2>1, <3>1 DEF Ascending
    <3>. QED  BY <1>1, <2>1, <3>1, <3>2
  <2>2. CASE n > i
    <3>1. i + 1 \in 1..Len(table) /\ x < table[i + 1]
      BY <2>2
    <3>2. n = i + 1 \/ table[i + 1] < table[n]
      BY <2>2, <3>1 DEF Ascending
    <3>. QED  BY <1>1, <2>2, <3>1, <3>2
  <2>. QED  BY <2>1, <2>2
<1>3. {n \in 1..Len(table) : x >= table[n]} = 1..i
  BY <1>2
<1>4. \A n \in Nat : Cardinality(1..n) = n
  BY FS_Interval
<1>5. Cardinality(1..i) = i
  BY <1>4
<1>. QED  BY <1>3, <1>5, Zenon

(* How far below dql the logarithm of its magnitude may be.                *)
Near(dql, r) == /\ r \in Int /\ r <= dql /\ dql - 63 <= r
                /\ dql >= 256 => dql - 31 <= r
                /\ dql >= 384 => dql - 15 <= r
                /\ dql >= 512 => dql - 7 <= r

(* What was decoded with the entry e at the scale z is coded with the i    *)
(* first thresholds passed.                                                *)
Separates(table, i, e, z) ==
  /\ e \in Int /\ 128 <= e + z /\ e + z < 15 * 128
  /\ \A r : Near(e + z, r) => /\ i = 0 \/ table[i] <= r - z
                              /\ i = Len(table) \/ r - z < table[i + 1]

(* The code of a difference with its sign, past i thresholds.              *)
Code(sign, i, table, states) ==
  IF sign THEN (2 * Len(table) + 1) - i
  ELSE IF i = 0 /\ states % 2 = 1 THEN states ELSE i

(* What is coded when a difference is that of an entry: it depends on the  *)
(* logarithm of what was decoded.                                          *)
LEMMA CodeOfDifference ==
  ASSUME NEW sign \in BOOLEAN, NEW e, NEW y \in Int,
         NEW table \in Seq(Int), Ascending(table), NEW states \in Int,
         NEW i \in 0..Len(table), Separates(table, i, e, y \div 4)
  PROVE  quantize(Difference(reconstruct(sign, e, y)), y, table, states)
           = Code(sign, i, table, states)
<1>. DEFINE dql == e + (y \div 4)
            mag == Magnitude(dql)
            dq == reconstruct(sign, e, y)
            d == Difference(dq)
<1>1. /\ mag \in Int /\ 0 < mag /\ mag < 2 ^ 15
      /\ top_bit(mag \div 2) + 1 = dql \div 128
      /\ Near(dql, Rounded(dql))
  <2>1. dql \in Int /\ 128 <= dql /\ dql < 15 * 128
    BY DEF Separates
  <2>. HIDE DEF dql
  <2>. QED  BY <2>1, LogOfMagnitude DEF Near
<1>2. dq = IF sign THEN mag - 32768 ELSE mag
  <2>1. ~(dql < 0)
    BY DEF Separates
  <2>. QED  BY <2>1, SMT DEF reconstruct, Magnitude
<1>. HIDE DEF mag, dq
<1>3. /\ d = IF sign THEN -mag ELSE mag
      /\ d < 0 <=> sign
      /\ (IF d < 0 THEN -d ELSE d) = mag
  BY <1>1, <1>2 DEF Difference
<1>. HIDE DEF d
<1>. DEFINE x == Rounded(dql) - (y \div 4)
<1>4. quantize(d, y, table, states)
        = LET j == Cardinality({n \in 1..Len(table) : x >= table[n]})
          IN  IF d < 0 THEN (2 * Len(table) + 1) - j
              ELSE IF j = 0 /\ states % 2 = 1 THEN states ELSE j
  <2>. DEFINE dqm == IF d < 0 THEN -d ELSE d
              exp == top_bit(dqm \div 2) + 1
              dln == (exp * 128 + (((dqm * 128) \div (2 ^ exp)) % 128))
                       - (y \div 4)
  <2>1. dln = x
    <3>1. dqm = mag /\ exp = dql \div 128
      BY <1>1, <1>3, Zenon
    <3>2. x = ((dql \div 128) * 128
                + (((mag * 128) \div (2 ^ (dql \div 128))) % 128)) - (y \div 4)
      BY Zenon DEF Rounded, mag
    <3>. HIDE DEF x, dql, dqm, exp
    <3>. QED  BY <3>1, <3>2, Zenon
  <2>2. quantize(d, y, table, states)
          = LET j == Cardinality({n \in 1..Len(table) : dln >= table[n]})
            IN  IF d < 0 THEN (2 * Len(table) + 1) - j
                ELSE IF j = 0 /\ states % 2 = 1 THEN states ELSE j
    BY Zenon DEF quantize
  <2>. HIDE DEF dln, x
  <2>3. {n \in 1..Len(table) : dln >= table[n]}
          = {n \in 1..Len(table) : x >= table[n]}
    BY <2>1
  <2>. QED  BY <2>2, <2>3, Zenon
<1>5. Cardinality({n \in 1..Len(table) : x >= table[n]}) = i
  <2>1. x \in Int
    <3>1. Rounded(dql) \in Int
      BY <1>1 DEF Near
    <3>. HIDE DEF dql
    <3>. QED  BY <3>1
  <2>2. /\ i = 0 \/ table[i] <= x
        /\ i = Len(table) \/ x < table[i + 1]
    BY <1>1, Zenon DEF Separates
  <2>. HIDE DEF x
  <2>. QED  BY <2>1, <2>2, Passed
<1>. HIDE DEF x
<1>6. quantize(d, y, table, states)
        = IF sign THEN (2 * Len(table) + 1) - i
          ELSE IF i = 0 /\ states % 2 = 1 THEN states ELSE i
  BY <1>3, <1>4, <1>5, Zenon
<1>. QED  BY <1>6, Zenon DEF d, dq, Code

(* How far an entry must be above its threshold for that: the logarithm of *)
(* a small difference is rough.                                            *)
Slack(dql) == IF dql >= 512 THEN 7 ELSE IF dql >= 384 THEN 15
              ELSE IF dql >= 256 THEN 31 ELSE 63

(* An entry far enough above its threshold, and below the next.            *)
Spaced(table, i, e, low) ==
  /\ e \in Int /\ 128 <= e + low /\ e < 640
  /\ i = 0 \/ table[i] <= e - Slack(e + low)
  /\ i = Len(table) \/ e < table[i + 1]

(* Such an entry separates them at every scale from low up to that of the  *)
(* largest step.                                                           *)
LEMMA SpacedSeparates ==
  ASSUME NEW table \in Seq(Int), NEW i \in 0..Len(table), NEW e,
         NEW low \in Int, Spaced(table, i, e, low),
         NEW z \in Int, low <= z, z <= 1280
  PROVE  Separates(table, i, e, z)
<1>. DEFINE t == table[i]
            u == table[i + 1]
<1>1. (i # 0 => t \in Int) /\ (i # Len(table) => u \in Int)
  OBVIOUS
<1>2. /\ e \in Int /\ 128 <= e + low /\ e < 640
      /\ i = 0 \/ t <= e - Slack(e + low)
      /\ i = Len(table) \/ e < u
  BY DEF Spaced
<1>3. ASSUME NEW r, Near(e + z, r)
      PROVE  (i = 0 \/ t <= r - z) /\ (i = Len(table) \/ r - z < u)
  BY <1>1, <1>2, <1>3 DEF Near, Slack
<1>4. 128 <= e + z /\ e + z < 15 * 128
  BY <1>2
<1>. QED  BY <1>2, <1>3, <1>4 DEF Separates

(* The entries of every rate are that far from the thresholds.             *)
LEMMA TablesAreSpaced ==
  /\ \A i \in 0..1 : Spaced(qtab_726_16, i, g726_16_dqlntab[i + 1], 136)
  /\ \A i \in 1..3 : Spaced(qtab_726_24, i, g726_24_dqlntab[i + 1], 136)
  /\ \A i \in 1..7 : Spaced(qtab_726_32, i, g726_32_dqlntab[i + 1], 136)
  /\ \A i \in 1..15 : Spaced(qtab_726_40, i, g726_40_dqlntab[i + 1], 322)
<1>1. \A i \in 0..1 : Spaced(qtab_726_16, i, g726_16_dqlntab[i + 1], 136)
  BY DEF Spaced, Slack, g726_16_dqlntab, qtab_726_16
<1>2. \A i \in 1..3 : Spaced(qtab_726_24, i, g726_24_dqlntab[i + 1], 136)
  BY DEF Spaced, Slack, g726_24_dqlntab, qtab_726_24
<1>3. \A i \in 1..7 : Spaced(qtab_726_32, i, g726_32_dqlntab[i + 1], 136)
  BY DEF Spaced, Slack, g726_32_dqlntab, qtab_726_32
<1>4. \A i \in 1..15 : Spaced(qtab_726_40, i, g726_40_dqlntab[i + 1], 322)
  BY DEF Spaced, Slack, g726_40_dqlntab, qtab_726_40
<1>. QED  BY <1>1, <1>2, <1>3, <1>4

-----------------------------------------------------------------------------
(* Every code is got back.                                                 *)

(* Silence is below every threshold, and is given the code that is not     *)
(* zero.                                                                   *)
LEMMA CodeOfSilence ==
  ASSUME NEW y \in Int, NEW table \in Seq(Int), Ascending(table),
         table # <<>>, -(y \div 4) < table[1], NEW states \in Int,
         states % 2 = 1
  PROVE  quantize(0, y, table, states) = states
<1>. DEFINE x == -(y \div 4)
<1>1. top_bit(0 \div 2) + 1 = 0
  <2>1. 0 \div 2 = 0
    OBVIOUS
  <2>2. top_bit(0) = -1
    BY DEF top_bit
  <2>. QED  BY <2>1, <2>2
<1>2. Cardinality({n \in 1..Len(table) : x >= table[n]}) = 0
  <2>1. 0 \in 0..Len(table) /\ x \in Int /\ x < table[0 + 1]
    OBVIOUS
  <2>. HIDE DEF x
  <2>. QED  BY <2>1, Passed
<1>. DEFINE dln(exp) == (exp * 128 + (((0 * 128) \div (2 ^ exp)) % 128))
                          - (y \div 4)
<1>3. dln(top_bit(0 \div 2) + 1) = x
  <2>1. dln(0) = x
    OBVIOUS
  <2>. HIDE DEF dln, x
  <2>. QED  BY <1>1, <2>1
<1>4. quantize(0, y, table, states)
        = LET j == Cardinality({n \in 1..Len(table) :
                                   dln(top_bit(0 \div 2) + 1) >= table[n]})
          IN  IF j = 0 /\ states % 2 = 1 THEN states ELSE j
  <2>1. ~(0 < 0)
    OBVIOUS
  <2>. QED  BY <2>1, Zenon DEF quantize
<1>. HIDE DEF dln, x
<1>. QED  BY <1>2, <1>3, <1>4

(* The least short stands for no difference.                               *)
LEMMA NoDifference ==
  ASSUME NEW dq \in Int, dq < 0, dq % 32768 = 0
  PROVE  Difference(dq) = 0
  BY DEF Difference

(* A negative difference too small for the format is none.                 *)
LEMMA LeastIsNone ==
  ASSUME NEW sign, sign, NEW e \in Int, NEW y \in Int, e + (y \div 4) < 0
  PROVE  Difference(reconstruct(sign, e, y)) = 0
<1>. DEFINE dq == reconstruct(sign, e, y)
<1>1. dq = -32768
  BY DEF reconstruct
<1>. HIDE DEF dq
<1>2. dq \in Int /\ dq < 0 /\ dq % 32768 = 0
  BY <1>1
<1>3. Difference(dq) = 0
  BY <1>2, NoDifference
<1>. QED  BY <1>3, Zenon DEF dq

(* What a rate's tables, at the scale of y, have to do with each other:    *)
(* the entries from the first separate the thresholds, and the one before, *)
(* if the rate has no code zero, is too small to stand for a difference.   *)
Matched(first, y, half, table, states) ==
  /\ Ascending(table) /\ table # <<>> /\ Len(half) = Len(table) + 1
  /\ \A i \in first..Len(table) :
        Separates(table, i, half[i + 1], y \div 4)
  /\ first = 0 => states % 2 = 0
  /\ first = 1 => /\ states = 2 * Len(table) + 1 /\ states % 2 = 1
                  /\ half[1] \in Int /\ half[1] + (y \div 4) < 0
                  /\ -(y \div 4) < table[1]

(* The code that is got back of the entry i with a sign.                   *)
LEMMA EntryIsGotBack ==
  ASSUME NEW y \in Int, NEW half, NEW table \in Seq(Int),
         NEW states \in Int, NEW first \in {0, 1},
         Matched(first, y, half, table, states),
         NEW sign \in BOOLEAN, NEW i \in 0..Len(table), i >= first \/ sign
  PROVE  /\ i >= first =>
               quantize(Difference(reconstruct(sign, half[i + 1], y)), y,
                        table, states) = Code(sign, i, table, states)
         /\ ~(i >= first) =>
               quantize(Difference(reconstruct(sign, half[i + 1], y)), y,
                        table, states) = states
<1>. DEFINE e == half[i + 1]
            d == Difference(reconstruct(sign, e, y))
<1>1. Ascending(table) /\ table # <<>>
  BY Zenon DEF Matched
<1>2. CASE i >= first
  <2>1. i \in first..Len(table)
    BY <1>2
  <2>2. Separates(table, i, e, y \div 4)
    BY <2>1, Zenon DEF Matched
  <2>. HIDE DEF e
  <2>3. quantize(Difference(reconstruct(sign, e, y)), y, table, states)
          = Code(sign, i, table, states)
    BY <1>1, <2>2, CodeOfDifference, SMT
  <2>. QED  BY <1>2, <2>3, Zenon DEF e
<1>3. CASE ~(i >= first)
  <2>1. first = 1 /\ i + 1 = 1 /\ sign
    BY <1>3
  <2>2. /\ half[1] \in Int /\ half[1] + (y \div 4) < 0
        /\ states % 2 = 1 /\ -(y \div 4) < table[1]
    BY <2>1 DEF Matched
  <2>3. e \in Int /\ e + (y \div 4) < 0
    BY <2>1, <2>2
  <2>. HIDE DEF e
  <2>4. d = 0
    BY <2>1, <2>3, LeastIsNone
  <2>. HIDE DEF d
  <2>5. quantize(0, y, table, states) = states
    BY <1>1, <2>2, CodeOfSilence, Zenon
  <2>6. quantize(d, y, table, states) = states
    BY <2>4, <2>5, Zenon
  <2>. QED  BY <1>3, <2>6, Zenon DEF d, e
<1>. QED  BY <1>2, <1>3

(* Every code of a rate is got back.                                       *)
LEMMA CodeIsGotBack ==
  ASSUME NEW y \in Int, NEW half, NEW table \in Seq(Int),
         NEW states \in Int, NEW first \in {0, 1},
         Matched(first, y, half, table, states),
         NEW code \in first..(2 * Len(table) + 1)
  PROVE  quantize(Difference(reconstruct(code >= Len(half),
                                         Entry(half, code), y)),
                  y, table, states) = code
<1>. DEFINE sign == code >= Len(half)
            i == IF sign THEN (2 * Len(table) + 1) - code ELSE code
<1>1. /\ Len(table) \in Nat /\ Len(half) = Len(table) + 1
      /\ code \in Nat /\ sign \in BOOLEAN
  BY DEF Matched
<1>2. i \in 0..Len(table) /\ (i >= first \/ sign)
  BY <1>1
<1>3. Entry(half, code) = half[i + 1]
  <2>1. CASE sign
    <3>1. 2 * Len(half) - code = i + 1
      BY <1>1, <2>1
    <3>. QED  BY <1>1, <2>1, <3>1 DEF Entry
  <2>2. CASE ~sign
    BY <1>1, <2>2 DEF Entry
  <2>. QED  BY <2>1, <2>2
<1>4. CASE i >= first
  <2>1. Code(sign, i, table, states) = code
    <3>1. CASE sign
      <4>1. Code(sign, i, table, states) = (2 * Len(table) + 1) - i
        BY <3>1 DEF Code
      <4>. QED  BY <1>1, <3>1, <4>1
    <3>2. CASE ~sign
      <4>1. ~(i = 0 /\ states % 2 = 1)
        <5>1. i = 0 => first = 0
          BY <1>2, <1>4
        <5>. QED  BY <5>1 DEF Matched
      <4>2. Code(sign, i, table, states) = i
        BY <3>2, <4>1 DEF Code
      <4>. QED  BY <3>2, <4>2
    <3>. QED  BY <3>1, <3>2
  <2>. HIDE DEF i, sign
  <2>2. quantize(Difference(reconstruct(sign, half[i + 1], y)), y, table,
                 states) = Code(sign, i, table, states)
    <3>1. ASSUME NEW t \in BOOLEAN, NEW k \in 0..Len(table), k >= first
          PROVE  quantize(Difference(reconstruct(t, half[k + 1], y)), y,
                          table, states) = Code(t, k, table, states)
      BY <3>1, EntryIsGotBack, SMT
    <3>. QED  BY <1>1, <1>2, <1>4, <3>1, Zenon
  <2>3. quantize(Difference(reconstruct(sign, Entry(half, code), y)), y,
                 table, states) = code
    BY <1>3, <2>1, <2>2, Zenon
  <2>. QED  BY <2>3, Zenon DEF sign
<1>5. CASE ~(i >= first)
  <2>1. i = 0 /\ first = 1 /\ sign
    <3>. HIDE DEF i, sign
    <3>. QED  BY <1>2, <1>5
  <2>2. code = states
    BY <1>1, <2>1 DEF Matched
  <2>. HIDE DEF i, sign
  <2>3. quantize(Difference(reconstruct(sign, half[i + 1], y)), y, table,
                 states) = states
    BY <1>1, <1>2, <1>5, EntryIsGotBack
  <2>4. quantize(Difference(reconstruct(sign, Entry(half, code), y)), y,
                 table, states) = code
    BY <1>3, <2>2, <2>3, Zenon
  <2>. QED  BY <2>4, Zenon DEF sign
<1>. QED  BY <1>4, <1>5

(* The scales there are, and those from which a code is worth more than a  *)
(* unit at 40 kbit/s.                                                      *)
Scale(y) == y \in Int /\ 544 <= y /\ y <= 5120
WideScale(y) == Scale(y) /\ 1288 <= y

(* The tables of each rate match at all of them.                           *)
LEMMA TablesMatch ==
  ASSUME NEW y \in Int, Scale(y)
  PROVE  /\ Matched(0, y, g726_16_dqlntab, qtab_726_16, 4)
         /\ Matched(1, y, g726_24_dqlntab, qtab_726_24, 7)
         /\ Matched(1, y, g726_32_dqlntab, qtab_726_32, 15)
         /\ WideScale(y) => Matched(1, y, g726_40_dqlntab, qtab_726_40, 31)
<1>. DEFINE z == y \div 4
<1>1. z \in Int /\ 136 <= z /\ z <= 1280 /\ (WideScale(y) => 322 <= z)
  BY DEF Scale, WideScale
<1>. HIDE DEF z
<1>2. ASSUME NEW table \in Seq(Int), NEW i \in 0..Len(table), NEW e,
             NEW low \in Int, Spaced(table, i, e, low), low <= z
      PROVE  Separates(table, i, e, z)
  BY <1>1, <1>2, SpacedSeparates
<1>3. Matched(0, y, g726_16_dqlntab, qtab_726_16, 4)
  <2>1. /\ qtab_726_16 \in Seq(Int) /\ qtab_726_16 # <<>>
        /\ Len(qtab_726_16) = 1 /\ Len(g726_16_dqlntab) = 1 + 1
    BY DEF qtab_726_16, g726_16_dqlntab
  <2>2. ASSUME NEW i \in 0..1
        PROVE  Separates(qtab_726_16, i, g726_16_dqlntab[i + 1], z)
    <3>. DEFINE e == g726_16_dqlntab[i + 1]
                low == 136
    <3>1. Spaced(qtab_726_16, i, e, low)
      BY TablesAreSpaced
    <3>2. i \in 0..Len(qtab_726_16) /\ low \in Int /\ low <= z
      BY <1>1, <2>1
    <3>. HIDE DEF e, low
    <3>3. Separates(qtab_726_16, i, e, z)
      BY <1>2, <2>1, <3>1, <3>2, Zenon
    <3>. QED  BY <3>3, Zenon DEF e
  <2>. QED  BY <2>1, <2>2, TablesAscend DEF Matched, z
<1>4. Matched(1, y, g726_24_dqlntab, qtab_726_24, 7)
  <2>1. /\ qtab_726_24 \in Seq(Int) /\ qtab_726_24 # <<>>
        /\ Len(qtab_726_24) = 3 /\ Len(g726_24_dqlntab) = 3 + 1
    BY DEF qtab_726_24, g726_24_dqlntab
  <2>2. ASSUME NEW i \in 1..3
        PROVE  Separates(qtab_726_24, i, g726_24_dqlntab[i + 1], z)
    <3>. DEFINE e == g726_24_dqlntab[i + 1]
                low == 136
    <3>1. Spaced(qtab_726_24, i, e, low)
      BY TablesAreSpaced
    <3>2. i \in 0..Len(qtab_726_24) /\ low \in Int /\ low <= z
      BY <1>1, <2>1
    <3>. HIDE DEF e, low
    <3>3. Separates(qtab_726_24, i, e, z)
      BY <1>2, <2>1, <3>1, <3>2, Zenon
    <3>. QED  BY <3>3, Zenon DEF e
  <2>3. /\ g726_24_dqlntab[1] \in Int /\ g726_24_dqlntab[1] + z < 0
        /\ -z < qtab_726_24[1]
    BY <1>1, SMT DEF g726_24_dqlntab, qtab_726_24
  <2>. QED  BY <2>1, <2>2, <2>3, TablesAscend DEF Matched, z
<1>5. Matched(1, y, g726_32_dqlntab, qtab_726_32, 15)
  <2>1. /\ qtab_726_32 \in Seq(Int) /\ qtab_726_32 # <<>>
        /\ Len(qtab_726_32) = 7 /\ Len(g726_32_dqlntab) = 7 + 1
    BY DEF qtab_726_32, g726_32_dqlntab
  <2>2. ASSUME NEW i \in 1..7
        PROVE  Separates(qtab_726_32, i, g726_32_dqlntab[i + 1], z)
    <3>. DEFINE e == g726_32_dqlntab[i + 1]
                low == 136
    <3>1. Spaced(qtab_726_32, i, e, low)
      BY TablesAreSpaced
    <3>2. i \in 0..Len(qtab_726_32) /\ low \in Int /\ low <= z
      BY <1>1, <2>1
    <3>. HIDE DEF e, low
    <3>3. Separates(qtab_726_32, i, e, z)
      BY <1>2, <2>1, <3>1, <3>2, Zenon
    <3>. QED  BY <3>3, Zenon DEF e
  <2>3. /\ g726_32_dqlntab[1] \in Int /\ g726_32_dqlntab[1] + z < 0
        /\ -z < qtab_726_32[1]
    BY <1>1, SMT DEF g726_32_dqlntab, qtab_726_32
  <2>. QED  BY <2>1, <2>2, <2>3, TablesAscend DEF Matched, z
<1>6. ASSUME WideScale(y)
      PROVE  Matched(1, y, g726_40_dqlntab, qtab_726_40, 31)
  <2>1. /\ qtab_726_40 \in Seq(Int) /\ qtab_726_40 # <<>>
        /\ Len(qtab_726_40) = 15 /\ Len(g726_40_dqlntab) = 15 + 1
    BY DEF qtab_726_40, g726_40_dqlntab
  <2>2. ASSUME NEW i \in 1..15
        PROVE  Separates(qtab_726_40, i, g726_40_dqlntab[i + 1], z)
    <3>. DEFINE e == g726_40_dqlntab[i + 1]
                low == 322
    <3>1. Spaced(qtab_726_40, i, e, low)
      BY TablesAreSpaced
    <3>2. i \in 0..Len(qtab_726_40) /\ low \in Int /\ low <= z
      BY <1>1, <1>6, <2>1
    <3>. HIDE DEF e, low
    <3>3. Separates(qtab_726_40, i, e, z)
      BY <1>2, <2>1, <3>1, <3>2, Zenon
    <3>. QED  BY <3>3, Zenon DEF e
  <2>3. /\ g726_40_dqlntab[1] \in Int /\ g726_40_dqlntab[1] + z < 0
        /\ -z < qtab_726_40[1]
    BY <1>1, <1>6, SMT DEF g726_40_dqlntab, qtab_726_40
  <2>. QED  BY <2>1, <2>2, <2>3, TablesAscend DEF Matched, z
<1>. QED  BY <1>3, <1>4, <1>5, <1>6

(* Every code of a rate is stable, at each of the four.                    *)
LEMMA Stable16 ==
  ASSUME NEW s, Scale(step_size(s)), NEW code \in 0..3
  PROVE  Requantized(s, 2, code) = code
<1>1. Len(qtab_726_16) = 1 /\ Len(g726_16_dqlntab) = 2 ^ (2 - 1)
  BY DEF qtab_726_16, g726_16_dqlntab
<1>2. step_size(s) \in Int /\ Scale(step_size(s))
  BY DEF Scale, WideScale
<1>3. Matched(0, step_size(s), g726_16_dqlntab, qtab_726_16, 4)
  BY <1>2, TablesMatch
<1>4. code \in 0..(2 * Len(qtab_726_16) + 1)
  BY <1>1
<1>. DEFINE y == step_size(s)
            dq == reconstruct(code >= Len(g726_16_dqlntab),
                              Entry(g726_16_dqlntab, code), y)
<1>5. Requantized(s, 2, code)
        = quantize(Difference(dq), y, qtab_726_16, 4)
  BY <1>1 DEF Requantized, Reconstructed
<1>. HIDE DEF y
<1>6. quantize(Difference(dq), y, qtab_726_16, 4) = code
  <2>1. y \in Int /\ Matched(0, y, g726_16_dqlntab, qtab_726_16, 4)
    BY <1>2, <1>3 DEF y
  <2>2. qtab_726_16 \in Seq(Int)
    BY DEF qtab_726_16
  <2>. QED  BY <1>4, <2>1, <2>2, CodeIsGotBack, SMT
<1>. HIDE DEF dq
<1>. QED  BY <1>5, <1>6, SMT

(* The same at 24 kbit/s.                                                  *)
LEMMA Stable24 ==
  ASSUME NEW s, Scale(step_size(s)), NEW code \in 1..7
  PROVE  Requantized(s, 3, code) = code
<1>1. Len(qtab_726_24) = 3 /\ Len(g726_24_dqlntab) = 2 ^ (3 - 1)
  BY DEF qtab_726_24, g726_24_dqlntab
<1>2. step_size(s) \in Int /\ Scale(step_size(s))
  BY DEF Scale, WideScale
<1>3. Matched(1, step_size(s), g726_24_dqlntab, qtab_726_24, 7)
  BY <1>2, TablesMatch
<1>4. code \in 1..(2 * Len(qtab_726_24) + 1)
  BY <1>1
<1>. DEFINE y == step_size(s)
            dq == reconstruct(code >= Len(g726_24_dqlntab),
                              Entry(g726_24_dqlntab, code), y)
<1>5. Requantized(s, 3, code)
        = quantize(Difference(dq), y, qtab_726_24, 7)
  BY <1>1 DEF Requantized, Reconstructed
<1>. HIDE DEF y
<1>6. quantize(Difference(dq), y, qtab_726_24, 7) = code
  <2>1. y \in Int /\ Matched(1, y, g726_24_dqlntab, qtab_726_24, 7)
    BY <1>2, <1>3 DEF y
  <2>2. qtab_726_24 \in Seq(Int)
    BY DEF qtab_726_24
  <2>. QED  BY <1>4, <2>1, <2>2, CodeIsGotBack, SMT
<1>. HIDE DEF dq
<1>. QED  BY <1>5, <1>6, SMT

(* The same at 32 kbit/s.                                                  *)
LEMMA Stable32 ==
  ASSUME NEW s, Scale(step_size(s)), NEW code \in 1..15
  PROVE  Requantized(s, 4, code) = code
<1>1. Len(qtab_726_32) = 7 /\ Len(g726_32_dqlntab) = 2 ^ (4 - 1)
  BY DEF qtab_726_32, g726_32_dqlntab
<1>2. step_size(s) \in Int /\ Scale(step_size(s))
  BY DEF Scale, WideScale
<1>3. Matched(1, step_size(s), g726_32_dqlntab, qtab_726_32, 15)
  BY <1>2, TablesMatch
<1>4. code \in 1..(2 * Len(qtab_726_32) + 1)
  BY <1>1
<1>. DEFINE y == step_size(s)
            dq == reconstruct(code >= Len(g726_32_dqlntab),
                              Entry(g726_32_dqlntab, code), y)
<1>5. Requantized(s, 4, code)
        = quantize(Difference(dq), y, qtab_726_32, 15)
  BY <1>1 DEF Requantized, Reconstructed
<1>. HIDE DEF y
<1>6. quantize(Difference(dq), y, qtab_726_32, 15) = code
  <2>1. y \in Int /\ Matched(1, y, g726_32_dqlntab, qtab_726_32, 15)
    BY <1>2, <1>3 DEF y
  <2>2. qtab_726_32 \in Seq(Int)
    BY DEF qtab_726_32
  <2>. QED  BY <1>4, <2>1, <2>2, CodeIsGotBack, SMT
<1>. HIDE DEF dq
<1>. QED  BY <1>5, <1>6, SMT

(* The same at 40 kbit/s.                                                  *)
LEMMA Stable40 ==
  ASSUME NEW s, WideScale(step_size(s)), NEW code \in 1..31
  PROVE  Requantized(s, 5, code) = code
<1>1. Len(qtab_726_40) = 15 /\ Len(g726_40_dqlntab) = 2 ^ (5 - 1)
  BY DEF qtab_726_40, g726_40_dqlntab
<1>2. step_size(s) \in Int /\ Scale(step_size(s))
  BY DEF Scale, WideScale
<1>3. Matched(1, step_size(s), g726_40_dqlntab, qtab_726_40, 31)
  BY <1>2, TablesMatch
<1>4. code \in 1..(2 * Len(qtab_726_40) + 1)
  BY <1>1
<1>. DEFINE y == step_size(s)
            dq == reconstruct(code >= Len(g726_40_dqlntab),
                              Entry(g726_40_dqlntab, code), y)
<1>5. Requantized(s, 5, code)
        = quantize(Difference(dq), y, qtab_726_40, 31)
  BY <1>1 DEF Requantized, Reconstructed
<1>. HIDE DEF y
<1>6. quantize(Difference(dq), y, qtab_726_40, 31) = code
  <2>1. y \in Int /\ Matched(1, y, g726_40_dqlntab, qtab_726_40, 31)
    BY <1>2, <1>3 DEF y
  <2>2. qtab_726_40 \in Seq(Int)
    BY DEF qtab_726_40
  <2>. QED  BY <1>4, <2>1, <2>2, CodeIsGotBack, SMT
<1>. HIDE DEF dq
<1>. QED  BY <1>5, <1>6, SMT

(* A code stands for a difference that gets the same code again, of any    *)
(* signal: quantize() is the inverse of reconstruct().  At 16, 24 and 32   *)
(* kbit/s at every scale the adaptation may come to; at 40 kbit/s from a   *)
(* scale of 1288 on, where the smallest step is a unit.                    *)
THEOREM CodesAreStable == Spec => []CodeIsStable
<1>1. TypeOK /\ AdaptationBounded => CodeIsStable
  <2>. SUFFICES ASSUME TypeOK, AdaptationBounded,
                       bits_per_sample < 5 \/ step_size(coder) >= 1288,
                       NEW code \in (IF bits_per_sample = 2 THEN 0 ELSE 1)..
                                      (2 ^ bits_per_sample - 1)
                PROVE  Requantized(coder, bits_per_sample, code) = code
    BY DEF CodeIsStable
  <2>1. /\ Scale(step_size(coder))
        /\ bits_per_sample < 5 \/ WideScale(step_size(coder))
    BY DEF AdaptationBounded, Bounded, Within, Scale, WideScale
  <2>2. bits_per_sample \in 2..5
    BY DEF TypeOK
  <2>3. CASE bits_per_sample = 2
    BY <2>1, <2>3, Stable16
  <2>4. CASE bits_per_sample = 3
    BY <2>1, <2>4, Stable24
  <2>5. CASE bits_per_sample = 4
    BY <2>1, <2>5, Stable32
  <2>6. CASE bits_per_sample = 5
    BY <2>1, <2>6, Stable40
  <2>. QED  BY <2>2, <2>3, <2>4, <2>5, <2>6
<1>. QED  BY <1>1, TypeCorrect, AdaptationIsBounded, PTL

=============================================================================
