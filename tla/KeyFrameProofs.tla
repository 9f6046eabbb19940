--------------------------- MODULE KeyFrameProofs ---------------------------
(***************************************************************************)
(* The scan of KeyFrame is right for every frame over every set of bytes.  *)
(* The invariant says what is known after i bytes: last lies behind the    *)
(* latest start code that has been passed, and no earlier one begins a     *)
(* unit of a key frame.                                                    *)
(***************************************************************************)
EXTENDS KeyFrame, TLAPS

KeyUnitAt(p) == StartsAt(p) /\ buf[p + 3] % 32 \in {5, 7, 8}

(* What the scan has established when it has passed i bytes.               *)
Passed ==
  /\ i <= size \/ i = 2
  /\ last # 0 => last <= i /\ StartsAt(last - 3)
  /\ \A p \in 0..size - 1 :
       p + 2 < i /\ p + 2 < size /\ StartsAt(p) =>
         /\ last # 0 /\ p + 3 <= last
         /\ p + 3 < last => buf[p + 3] % 32 \notin {5, 7, 8}

KInv == /\ TypeOK
        /\ result = "scanning" => Passed
        /\ ScanFindsKeyFrame

(* Nothing has been passed when the scan begins.                           *)
LEMMA KeyInit == Init => KInv
<1> USE ByteAssumption
<1> SUFFICES ASSUME Init PROVE KInv
  OBVIOUS
<1>1. TypeOK
  BY DEF Init, TypeOK
<1>2. Passed
  <2>1. \A p \in 0..size - 1 : ~(p + 2 < i)
    BY <1>1 DEF Init, TypeOK
  <2> QED
    BY <2>1 DEF Init, Passed
<1>3. ScanFindsKeyFrame
  BY DEF Init, ScanFindsKeyFrame
<1> QED
  BY <1>1, <1>2, <1>3 DEF KInv

(* The positions of the scan are natural numbers.                          *)
LEMMA Sizes ==
  ASSUME TypeOK
  PROVE  size \in Nat /\ i \in Nat /\ last \in {0} \cup 3..size /\ last \in Nat
<1>1. MaxSize \in Nat
  BY ByteAssumption
<1>2. size \in 0..MaxSize /\ i \in 2..MaxSize + 2 /\ last \in {0} \cup 3..size
  BY DEF TypeOK
<1> QED
  BY <1>1, <1>2

(* At the end of a frame the byte read past it is no unit of a key frame,  *)
(* and inside the frame the scan reads what HasKeyUnit speaks of.          *)
LEMMA ReadsUnit ==
  ASSUME TypeOK, Passed, last # 0
  PROVE  isIdrFrame2(last) <=> last < size /\ buf[last] % 32 \in {5, 7, 8}
<1>1. CASE last = size
  <2>1. Byte(last) % 32 = 0
    BY <1>1 DEF Byte
  <2>2. ~(last < size)
    BY <1>1, Sizes
  <2> QED
    BY <2>1, <2>2 DEF isIdrFrame2
<1>2. CASE last # size
  <2>1. last \in 3..size /\ size \in Nat
    BY Sizes
  <2>2. last < size
    BY <1>2, <2>1
  <2> QED
    BY <1>2, <2>2 DEF isIdrFrame2, Byte
<1> QED
  BY <1>1, <1>2

(* One byte further, or the end: each turn of the loop keeps the           *)
(* invariant.                                                              *)
LEMMA KeyNext == KInv /\ [Next]_vars => KInv'
<1> USE ByteAssumption
<1> SUFFICES ASSUME KInv, [Next]_vars PROVE KInv'
  OBVIOUS
<1>0. TypeOK /\ size \in Nat /\ i \in Nat /\ last \in Nat
  BY Sizes DEF KInv
<1>1. CASE StartCode
  <2>1. Passed
    BY <1>1 DEF KInv, StartCode
  <2>2. /\ size' = size /\ buf' = buf /\ i' = i + 1 /\ last' = i + 1
        /\ result = "scanning" /\ result' = "scanning" /\ i < size
        /\ StartsAt(i - 2)
    BY <1>1 DEF StartCode, LastIsNext
  <2>3. TypeOK'
    BY <1>0, <2>2 DEF TypeOK
  <2>4. last # 0 => ~(last < size /\ buf[last] % 32 \in {5, 7, 8})
    BY <1>0, <1>1, <2>1, ReadsUnit DEF StartCode
  <2>5. ASSUME NEW p \in 0..size - 1,
               p + 2 < i + 1, p + 2 < size, StartsAt(p), p + 3 < i + 1
        PROVE  buf[p + 3] % 32 \notin {5, 7, 8}
    <3>1. p + 2 < i /\ p + 3 < size
      BY <1>0, <2>2, <2>5
    <3>2. last # 0 /\ p + 3 <= last
      BY <1>0, <2>1, <2>5, <3>1 DEF Passed
    <3>3. CASE p + 3 < last
      BY <1>0, <2>1, <2>5, <3>1, <3>3 DEF Passed
    <3>4. CASE p + 3 = last
      BY <2>4, <3>1, <3>2, <3>4
    <3> QED
      BY <1>0, <3>2, <3>3, <3>4
  <2>6. Passed'
    <3>1. (last # 0 => last <= i /\ StartsAt(last - 3))'
      <4>1. (i + 1) - 3 = i - 2
        BY <1>0
      <4> QED
        BY <1>0, <2>2, <4>1 DEF StartsAt
    <3>2. (i <= size \/ i = 2)'
      BY <1>0, <2>2
    <3>3. ASSUME NEW p \in 0..size - 1,
                 p + 2 < i + 1, p + 2 < size, StartsAt(p)
          PROVE  i + 1 # 0 /\ p + 3 <= i + 1
      BY <1>0, <3>3
    <3> QED
      BY <2>2, <2>5, <3>1, <3>2, <3>3 DEF Passed, StartsAt
  <2> QED
    BY <2>2, <2>3, <2>6 DEF KInv, ScanFindsKeyFrame
<1>2. CASE NoStartCode
  <2>1. Passed
    BY <1>2 DEF KInv, NoStartCode
  <2>2. /\ size' = size /\ buf' = buf /\ i' = i + 1 /\ last' = last
        /\ result = "scanning" /\ result' = "scanning" /\ i < size
        /\ ~StartsAt(i - 2)
    BY <1>2 DEF NoStartCode
  <2>3. TypeOK'
    BY <1>0, <2>2 DEF TypeOK
  <2>4. ASSUME NEW p \in 0..size - 1,
               p + 2 < i + 1, p + 2 < size, StartsAt(p)
        PROVE  p + 2 < i
    <3>1. CASE p = i - 2
      BY <2>2, <2>4, <3>1
    <3> QED
      BY <1>0, <2>4, <3>1
  <2>5. Passed'
    <3>1. (i <= size \/ i = 2)'
      BY <1>0, <2>2
    <3>2. (last # 0 => last <= i /\ StartsAt(last - 3))'
      BY <1>0, <2>1, <2>2 DEF Passed, StartsAt
    <3> QED
      BY <2>1, <2>2, <2>4, <3>1, <3>2 DEF Passed, StartsAt
  <2> QED
    BY <2>2, <2>3, <2>5 DEF KInv, ScanFindsKeyFrame
<1>3. CASE KeyUnit
  <2>1. Passed
    BY <1>3 DEF KInv, KeyUnit
  <2>2. /\ size' = size /\ buf' = buf /\ i' = i /\ last' = last
        /\ result' = "key" /\ last # 0 /\ isIdrFrame2(last)
    BY <1>3 DEF KeyUnit
  <2>3. TypeOK'
    BY <1>0, <2>2 DEF TypeOK
  <2>4. last < size /\ buf[last] % 32 \in {5, 7, 8} /\ StartsAt(last - 3)
    BY <1>0, <2>1, <2>2, ReadsUnit DEF Passed
  <2>5. last - 3 \in 0..size - 4 /\ (last - 3) + 3 = last
    BY <1>0, <2>2, <2>4, Sizes
  <2>6. HasKeyUnit
    BY <2>4, <2>5 DEF HasKeyUnit
  <2>7. HasKeyUnit'
    BY <2>2, <2>6 DEF HasKeyUnit, StartsAt
  <2> QED
    BY <2>2, <2>3, <2>7 DEF KInv, ScanFindsKeyFrame
<1>4. CASE NoKeyUnit
  <2>1. Passed
    BY <1>4 DEF KInv, NoKeyUnit
  <2>2. /\ size' = size /\ buf' = buf /\ i' = i /\ last' = last
        /\ result' = "no key" /\ i >= size
        /\ ~(i = size /\ last # 0 /\ isIdrFrame2(last))
    BY <1>4 DEF NoKeyUnit
  <2>3. TypeOK'
    BY <1>0, <2>2 DEF TypeOK
  <2>4. ASSUME NEW p \in 0..size - 4, StartsAt(p),
               buf[p + 3] % 32 \in {5, 7, 8}
        PROVE  FALSE
    <3>1. p \in 0..size - 1 /\ p + 2 < size /\ p + 3 < size /\ p \in Nat
      BY <1>0
    <3>2. p + 2 < i /\ i = size
      <4>1. i <= size \/ i = 2
        BY <2>1 DEF Passed
      <4>2. i >= size
        BY <2>2
      <4>3. p \in Nat /\ p + 3 < size /\ size \in Nat /\ i \in Nat
        BY <1>0, <3>1
      <4>4. i = size
        BY <4>1, <4>2, <4>3
      <4> QED
        BY <4>3, <4>4
    <3>3. last # 0 /\ p + 3 <= last /\ ~(p + 3 < last)
      BY <2>1, <2>4, <3>1, <3>2 DEF Passed
    <3>4. p + 3 = last
      BY <1>0, <3>1, <3>3
    <3>5. isIdrFrame2(last)
      BY <1>0, <2>1, <2>4, <3>1, <3>3, <3>4, ReadsUnit
    <3> QED
      BY <2>2, <3>2, <3>3, <3>5
  <2>5. ~HasKeyUnit'
    BY <2>2, <2>4 DEF HasKeyUnit, StartsAt
  <2> QED
    BY <2>2, <2>3, <2>5 DEF KInv, ScanFindsKeyFrame
<1>5. CASE UNCHANGED vars
  BY <1>5 DEF KInv, vars, TypeOK, Passed, ScanFindsKeyFrame, HasKeyUnit,
              StartsAt
<1> QED
  BY <1>1, <1>2, <1>3, <1>4, <1>5 DEF Next, Returned

(* The invariant holds throughout every scan.                              *)
LEMMA KeyInvariant == Spec => []KInv
BY KeyInit, KeyNext, PTL DEF Spec

(* The scan reads no byte outside the frame and its terminator.            *)
THEOREM ScanTypeCorrect == Spec => []TypeOK
<1>1. KInv => TypeOK
  BY DEF KInv
<1> QED
  BY <1>1, KeyInvariant, PTL

(* Whatever the bytes of a video frame, it is marked a key frame exactly   *)
(* when it holds a unit of one.                                            *)
THEOREM ScanIsRight == Spec => []ScanFindsKeyFrame
<1>1. KInv => ScanFindsKeyFrame
  BY DEF KInv
<1> QED
  BY <1>1, KeyInvariant, PTL
=============================================================================
