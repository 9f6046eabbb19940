-------------------------- MODULE IdleWheelProofs --------------------------
(***************************************************************************)
(* Proofs about IdleWheel for every number of connections and every        *)
(* nIdleSeconds: the wheel of buckets counts silence, and implements       *)
(* IdleTimer.                                                              *)
(***************************************************************************)
EXTENDS IdleWheel, TLAPS

(* The server takes a connection for up only while it was heard recently.  *)
UpInv == \A c \in Conns : conn[c] = "up" => silent[c] < nIdleSeconds

WheelInv == TypeOK /\ WheelCountsSilence /\ UpInv

(* An entry is alive exactly as long as its connection was heard recently. *)
LEMMA AliveIsRecent ==
  ASSUME TypeOK, WheelCountsSilence, NEW c \in Conns
  PROVE  Alive(c) <=> silent[c] < nIdleSeconds
<1>1. nIdleSeconds \in Nat \ {0} /\ silent[c] \in 0..nIdleSeconds
  BY IdleAssumption DEF TypeOK
<1>2. CASE silent[c] < nIdleSeconds
  <2>1. nIdleSeconds - silent[c] \in Slots
    BY <1>1, <1>2 DEF Slots
  <2>2. nIdleSeconds - silent[c] + silent[c] = nIdleSeconds
    BY <1>1
  <2> QED BY <1>2, <2>1, <2>2 DEF Alive, WheelCountsSilence
<1>3. CASE silent[c] = nIdleSeconds
  <2>1. \A i \in Slots : c \notin m_iConnectionBuckets[i]
    BY <1>1, <1>3 DEF WheelCountsSilence, Slots
  <2> QED BY <1>1, <1>3, <2>1 DEF Alive
<1> QED BY <1>1, <1>2, <1>3

(* The constructor fills the wheel with empty buckets.                     *)
LEMMA InitInv == Init => WheelInv
<1> SUFFICES ASSUME Init PROVE WheelInv
  OBVIOUS
<1>1. TypeOK
  <2>1. nIdleSeconds \in 0..nIdleSeconds
    BY IdleAssumption
  <2>2. /\ m_iConnectionBuckets \in [Slots -> SUBSET Conns]
        /\ silent \in [Conns -> 0..nIdleSeconds]
    BY <2>1 DEF Init
  <2>3. conn \in [Conns -> ConnStates] /\ crashed \in BOOLEAN
    BY DEF Init, ConnStates
  <2> QED BY <2>2, <2>3 DEF TypeOK
<1>2. WheelCountsSilence
  <2>1. \A i \in Slots : i + nIdleSeconds # nIdleSeconds
    BY IdleAssumption DEF Slots
  <2> QED BY <2>1 DEF Init, WheelCountsSilence
<1>3. UpInv
  BY DEF Init, UpInv
<1> QED BY <1>1, <1>2, <1>3 DEF WheelInv

(* Putting an entry in the newest bucket makes its silence zero.           *)
LEMMA InsertKeepsCount ==
  ASSUME TypeOK, WheelCountsSilence, NEW c \in Conns, InsertBack(c),
         silent' = [silent EXCEPT ![c] = 0]
  PROVE  /\ WheelCountsSilence'
         /\ m_iConnectionBuckets' \in [Slots -> SUBSET Conns]
         /\ silent' \in [Conns -> 0..nIdleSeconds]
<1>1. nIdleSeconds \in Nat \ {0} /\ nIdleSeconds \in Slots
  BY IdleAssumption DEF Slots
<1>2. \A d \in Conns : silent[d] \in 0..nIdleSeconds
  BY DEF TypeOK
<1>3. /\ m_iConnectionBuckets' \in [Slots -> SUBSET Conns]
      /\ silent' \in [Conns -> 0..nIdleSeconds]
  BY <1>1 DEF TypeOK, InsertBack
<1>4. \A i \in Slots : m_iConnectionBuckets'[i] =
        IF i = nIdleSeconds THEN m_iConnectionBuckets[i] \cup {c}
        ELSE m_iConnectionBuckets[i]
  BY DEF TypeOK, InsertBack
<1>5. \A d \in Conns : silent'[d] = IF d = c THEN 0 ELSE silent[d]
  BY DEF TypeOK
<1>6. ASSUME NEW d \in Conns, NEW i \in Slots
      PROVE  /\ i + silent'[d] = nIdleSeconds => d \in m_iConnectionBuckets'[i]
             /\ i + silent'[d] > nIdleSeconds
                   => d \notin m_iConnectionBuckets'[i]
  <2>1. CASE d = c
    <3>1. silent'[d] = 0
      BY <1>5, <2>1
    <3>2. i + silent'[d] = nIdleSeconds => i = nIdleSeconds
      BY <1>1, <3>1 DEF Slots
    <3>3. ~(i + silent'[d] > nIdleSeconds)
      BY <1>1, <3>1 DEF Slots
    <3>4. i = nIdleSeconds => d \in m_iConnectionBuckets'[i]
      BY <1>4, <2>1
    <3> QED BY <3>2, <3>3, <3>4
  <2>2. CASE d # c
    <3>1. silent'[d] = silent[d]
      BY <1>5, <2>2
    <3>2. d \in m_iConnectionBuckets'[i] <=> d \in m_iConnectionBuckets[i]
      BY <1>4, <2>2
    <3> QED BY <3>1, <3>2 DEF WheelCountsSilence
  <2> QED BY <2>1, <2>2
<1> QED BY <1>3, <1>6 DEF WheelCountsSilence

(* Each callback keeps the count: a tick moves every bucket and every      *)
(* countdown by one, an insertion starts its connection anew.              *)
LEMMA NextInv == WheelInv /\ [Next]_vars => WheelInv'
<1> SUFFICES ASSUME WheelInv, [Next]_vars PROVE WheelInv'
  OBVIOUS
<1> USE DEF WheelInv
<1>1. ASSUME NEW c \in Conns, OnConnectionUp(c) PROVE WheelInv'
  <2>1. /\ WheelCountsSilence'
        /\ m_iConnectionBuckets' \in [Slots -> SUBSET Conns]
        /\ silent' \in [Conns -> 0..nIdleSeconds]
    BY <1>1, InsertKeepsCount DEF OnConnectionUp
  <2>2. conn' \in [Conns -> ConnStates] /\ crashed' \in BOOLEAN
    BY <1>1 DEF OnConnectionUp, TypeOK, ConnStates
  <2>3. UpInv'
    BY <1>1, IdleAssumption DEF OnConnectionUp, UpInv, TypeOK
  <2> QED BY <2>1, <2>2, <2>3 DEF TypeOK
<1>2. ASSUME NEW c \in Conns, OnConnectionDown(c) PROVE WheelInv'
  BY <1>2 DEF OnConnectionDown, TypeOK, ConnStates, WheelCountsSilence, UpInv,
              Slots
<1>3. ASSUME NEW c \in Conns, OnMessage(c) PROVE WheelInv'
  <2>1. /\ WheelCountsSilence'
        /\ m_iConnectionBuckets' \in [Slots -> SUBSET Conns]
        /\ silent' \in [Conns -> 0..nIdleSeconds]
    BY <1>3, InsertKeepsCount DEF OnMessage
  <2>2. conn' \in [Conns -> ConnStates] /\ crashed' \in BOOLEAN
    BY <1>3 DEF OnMessage, TypeOK, ConnStates
  <2>3. UpInv'
    BY <1>3, IdleAssumption DEF OnMessage, UpInv, TypeOK
  <2> QED BY <2>1, <2>2, <2>3 DEF TypeOK
<1>4. ASSUME NEW c \in Conns, OnMessageWithoutEntry(c) PROVE WheelInv'
  BY <1>4 DEF OnMessageWithoutEntry, TypeOK, WheelCountsSilence, UpInv, Slots
<1>5. CASE OnTimer
  <2>1. /\ nIdleSeconds \in Nat \ {0}
        /\ \A c \in Conns : silent[c] \in 0..nIdleSeconds
    BY IdleAssumption DEF TypeOK
  <2>2. /\ m_iConnectionBuckets' \in [Slots -> SUBSET Conns]
        /\ \A i \in Slots : m_iConnectionBuckets'[i] =
             IF i = nIdleSeconds THEN {} ELSE m_iConnectionBuckets[i + 1]
    BY <1>5, <2>1 DEF OnTimer, Tick, Shifted, DropEntries, TypeOK, Slots
  <2>3. /\ silent' \in [Conns -> 0..nIdleSeconds]
        /\ \A c \in Conns : silent'[c] = IF silent[c] < nIdleSeconds
                                         THEN silent[c] + 1 ELSE silent[c]
    BY <1>5, <2>1 DEF OnTimer, Tick, Shifted, DropEntries
  <2>4. conn' \in [Conns -> ConnStates] /\ crashed' \in BOOLEAN
    BY <1>5 DEF OnTimer, Tick, Shifted, DropEntries, TypeOK, ConnStates
  <2>5. WheelCountsSilence'
    <3> SUFFICES ASSUME NEW c \in Conns, NEW i \in Slots
                 PROVE  /\ i + silent'[c] = nIdleSeconds
                             => c \in m_iConnectionBuckets'[i]
                        /\ i + silent'[c] > nIdleSeconds
                             => c \notin m_iConnectionBuckets'[i]
      BY DEF WheelCountsSilence
    <3>1. CASE i = nIdleSeconds
      BY <2>1, <2>2, <2>3, <3>1 DEF WheelCountsSilence, Slots
    <3>2. CASE i # nIdleSeconds
      <4>1. i + 1 \in Slots /\ i \in Nat
        BY <2>1, <3>2 DEF Slots
      <4>2. m_iConnectionBuckets'[i] = m_iConnectionBuckets[i + 1]
        BY <2>2, <3>2
      <4>3. /\ i + 1 + silent[c] = nIdleSeconds
                 => c \in m_iConnectionBuckets[i + 1]
            /\ i + 1 + silent[c] > nIdleSeconds
                 => c \notin m_iConnectionBuckets[i + 1]
        BY <4>1 DEF WheelCountsSilence
      <4>4. CASE silent[c] < nIdleSeconds
        <5>1. silent'[c] = silent[c] + 1
          BY <2>3, <4>4
        <5>2. i + silent'[c] = i + 1 + silent[c]
          BY <2>1, <4>1, <5>1
        <5> QED BY <4>2, <4>3, <5>2
      <4>5. CASE ~(silent[c] < nIdleSeconds)
        <5>1. silent'[c] = nIdleSeconds /\ silent[c] = nIdleSeconds
          BY <2>1, <2>3, <4>5
        <5>2. /\ i + 1 + silent[c] > nIdleSeconds
              /\ i + silent'[c] # nIdleSeconds
          BY <2>1, <5>1 DEF Slots
        <5> QED BY <4>2, <4>3, <5>2
      <4> QED BY <4>4, <4>5
    <3> QED BY <3>1, <3>2
  <2>6. TypeOK'
    BY <2>2, <2>3, <2>4 DEF TypeOK
  <2>7. UpInv'
    <3> SUFFICES ASSUME NEW c \in Conns, conn'[c] = "up"
                 PROVE  silent'[c] < nIdleSeconds
      BY DEF UpInv
    <3>1. conn[c] = "up" /\ (Alive(c) => Alive(c)')
      BY <1>5 DEF OnTimer, Tick, Shifted, DropEntries
    <3>2. Alive(c)'
      BY <3>1, AliveIsRecent DEF UpInv
    <3>3. PICK i \in Slots : c \in m_iConnectionBuckets'[i]
      BY <3>2 DEF Alive
    <3>4. i + silent'[c] <= nIdleSeconds
      BY <2>1, <2>3, <2>5, <3>3 DEF WheelCountsSilence, Slots
    <3> QED BY <2>1, <2>3, <3>4 DEF Slots
  <2> QED BY <2>5, <2>6, <2>7
<1>6. CASE UNCHANGED vars
  BY <1>6 DEF vars, TypeOK, WheelCountsSilence, UpInv, Slots
<1> QED BY <1>1, <1>2, <1>3, <1>4, <1>5, <1>6 DEF Next, Crashed

-----------------------------------------------------------------------------
(* The inductive invariant of the wheel holds in every reachable state.    *)
THEOREM Invariance == Spec => []WheelInv
BY InitInv, NextInv, PTL DEF Spec

(* The wheel keeps its nIdleSeconds buckets of connections.                *)
THEOREM WheelTypeCorrect == Spec => []TypeOK
<1>1. WheelInv => TypeOK
  BY DEF WheelInv
<1> QED BY <1>1, Invariance, PTL

(* However often an entry was inserted, the newest bucket that holds it    *)
(* tells when its connection was last heard.                               *)
THEOREM WheelCounts == Spec => []WheelCountsSilence
<1>1. WheelInv => WheelCountsSilence
  BY DEF WheelInv
<1> QED BY <1>1, Invariance, PTL

(* A connection that is still up has its decoder.                          *)
THEOREM UpHasItsDecoder == Spec => []UpHasDecoder
<1>1. WheelInv => UpHasDecoder
  BY AliveIsRecent DEF WheelInv, UpInv, UpHasDecoder
<1> QED BY <1>1, Invariance, PTL

-----------------------------------------------------------------------------
(* Before the first connection all countdowns have run out.                *)
LEMMA InitRefines == Init => Timer!Init
BY DEF Init, Timer!Init

(* An entry is alive exactly while the countdown keeps its connection.     *)
LEMMA AliveCount ==
  WheelInv => \A c \in Conns : Alive(c) <=> silent[c] < nIdleSeconds
BY AliveIsRecent DEF WheelInv

(* Each callback on the wheel is a step of the countdown, or none.         *)
LEMMA NextRefines == WheelInv /\ [Next]_vars => [Timer!Next]_Timer!vars
<1> SUFFICES ASSUME WheelInv, [Next]_vars PROVE [Timer!Next]_Timer!vars
  OBVIOUS
<1> USE DEF WheelInv
<1>0. \A c \in Conns : Alive(c) <=> Timer!Kept(c)
  BY AliveIsRecent DEF Timer!Kept
<1>1. ASSUME NEW c \in Conns, OnConnectionUp(c) PROVE Timer!Next
  BY <1>1 DEF OnConnectionUp, Timer!Next, Timer!Open
<1>2. ASSUME NEW c \in Conns, OnConnectionDown(c) PROVE Timer!Next
  BY <1>2 DEF OnConnectionDown, Timer!Next, Timer!Close
<1>3. ASSUME NEW c \in Conns, OnMessage(c) PROVE Timer!Next
  BY <1>0, <1>3 DEF OnMessage, Timer!Next, Timer!Hear
<1>4. ASSUME NEW c \in Conns, OnMessageWithoutEntry(c) PROVE Timer!Next
  <2>1. ~Timer!Kept(c) /\ conn[c] = "halfClosed"
    BY <1>0, <1>4 DEF OnMessageWithoutEntry, UpInv, Timer!Kept
  <2> QED BY <1>4, <2>1 DEF OnMessageWithoutEntry, Timer!Next, Timer!HearLate
<1>5. CASE OnTimer
  <2>1. WheelInv'
    BY NextInv
  <2>2. \A c \in Conns : silent[c] \in 0..nIdleSeconds
    BY DEF TypeOK
  <2>3. silent' = [c \in Conns |-> IF Timer!Kept(c) THEN silent[c] + 1
                                   ELSE silent[c]]
    BY <1>5 DEF OnTimer, Tick, Shifted, DropEntries, Timer!Kept
  <2>6. (\A c \in Conns : Alive(c) <=> silent[c] < nIdleSeconds)'
    BY <2>1, AliveCount, PTL
  <2>4. ASSUME NEW c \in Conns
        PROVE  Alive(c) /\ ~Alive(c)' <=> silent[c] = nIdleSeconds - 1
    <3>1. Alive(c) <=> silent[c] < nIdleSeconds
      BY AliveIsRecent
    <3>2. Alive(c)' <=> silent'[c] < nIdleSeconds
      BY <2>6
    <3> QED BY <2>2, <2>3, <3>1, <3>2, IdleAssumption DEF Timer!Kept
  <2>5. conn' = [c \in Conns |->
                   IF silent[c] = nIdleSeconds - 1 /\ conn[c] = "up"
                   THEN "halfClosed" ELSE conn[c]]
    BY <1>5, <2>4 DEF OnTimer, Tick, Shifted, DropEntries
  <2> QED BY <1>5, <2>3, <2>5 
         DEF OnTimer, Tick, Shifted, DropEntries, Timer!Next, Timer!Tick
<1>6. CASE UNCHANGED vars
  BY <1>6 DEF vars, Timer!vars
<1> QED BY <1>1, <1>2, <1>3, <1>4, <1>5, <1>6 DEF Next, Crashed

(* The server's wheel of buckets implements a countdown per connection.    *)
THEOREM WheelImplementsIdleTimer == Spec => ImplementsIdleTimer
BY InitRefines, NextRefines, Invariance, PTL
   DEF Spec, Timer!Spec, ImplementsIdleTimer
=============================================================================
