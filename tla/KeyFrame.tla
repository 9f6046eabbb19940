------------------------------ MODULE KeyFrame ------------------------------
(***************************************************************************)
(* The key-frame scan of CRtmpStream: isIdrFrame1 walks over a video frame *)
(* and has isIdrFrame2 classify each NAL unit at the start code that ends  *)
(* it, or at the end of the frame.                                         *)
(*                                                                         *)
(* A frame is the m_sData of the decoder.  It is a std::string, so a zero  *)
(* byte lies behind its last one and may be read.                          *)
(***************************************************************************)
EXTENDS Integers

CONSTANTS Bytes,       \* bytes a frame is made of
          MaxSize      \* bound: bytes in a frame

ASSUME ByteAssumption == Bytes \subseteq 0..255 /\ MaxSize \in Nat

VARIABLES size, buf,
          i, last,     \* of isIdrFrame1
          result       \* what it has returned

vars == <<size, buf, i, last, result>>

TypeOK == /\ size \in 0..MaxSize
          /\ buf \in [0..size - 1 -> Bytes]
          /\ i \in 2..MaxSize + 2
          /\ last \in {0} \cup 3..size
          /\ result \in {"scanning", "key", "no key"}

Init == /\ size \in 0..MaxSize
        /\ buf \in [0..size - 1 -> Bytes]
        /\ i = 2
        /\ last = 0
        /\ result = "scanning"

-----------------------------------------------------------------------------
Byte(k) == IF k = size THEN 0 ELSE buf[k]

(* isIdrFrame2: a slice of an IDR picture or a parameter set.              *)
isIdrFrame2(k) == Byte(k) % 32 \in {5, 7, 8}

StartsAt(k) == buf[k] = 0 /\ buf[k + 1] = 0 /\ buf[k + 2] = 1

(* Faulty variants: the unit is taken to begin with the 1 of its start     *)
(* code, or one byte late.                                                 *)
LastIsEarly == last' = i
LastIsLate == last' = i + 2

LastIsNext == last' = i + 1

(* A start code that ends a unit which is not of a key frame, or is the    *)
(* first.                                                                  *)
StartCode ==
  /\ result = "scanning"
  /\ i < size
  /\ StartsAt(i - 2)
  /\ ~(last # 0 /\ isIdrFrame2(last))
  /\ LastIsNext
  /\ i' = i + 1
  /\ UNCHANGED <<size, buf, result>>

NoStartCode ==
  /\ result = "scanning"
  /\ i < size
  /\ ~StartsAt(i - 2)
  /\ i' = i + 1
  /\ UNCHANGED <<size, buf, last, result>>

(* The unit that has ended is of a key frame.                              *)
KeyUnit ==
  /\ result = "scanning"
  /\ \/ i < size /\ StartsAt(i - 2)
     \/ i = size
  /\ last # 0 /\ isIdrFrame2(last)
  /\ result' = "key"
  /\ UNCHANGED <<size, buf, i, last>>

(* The loop ends, at once for a frame of less than two bytes.              *)
NoKeyUnit ==
  /\ result = "scanning"
  /\ i >= size
  /\ ~(i = size /\ last # 0 /\ isIdrFrame2(last))
  /\ result' = "no key"
  /\ UNCHANGED <<size, buf, i, last>>

Returned == result # "scanning" /\ UNCHANGED vars

Next == StartCode \/ NoStartCode \/ KeyUnit \/ NoKeyUnit \/ Returned

Spec == Init /\ [][Next]_vars

-----------------------------------------------------------------------------
(* A frame is marked AV_PKT_FLAG_KEY exactly when some start code in it,   *)
(* of three bytes or four, is followed by the first byte of an IDR slice   *)
(* or of a parameter set: neither a unit at either end of the frame, nor   *)
(* an empty one, nor a start code behind another is missed or taken for    *)
(* more than it is.                                                        *)
HasKeyUnit == \E p \in 0..size - 4 : /\ StartsAt(p)
                                     /\ buf[p + 3] % 32 \in {5, 7, 8}

ScanFindsKeyFrame ==
  result # "scanning" => (result = "key" <=> HasKeyUnit)
=============================================================================
