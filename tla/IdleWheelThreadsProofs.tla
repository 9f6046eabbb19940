----------------------- MODULE IdleWheelThreadsProofs -----------------------
(***************************************************************************)
(* Proofs about IdleWheelThreads, for any number of loops, connections and *)
(* buckets: its type invariant and its safety invariants.                  *)
(***************************************************************************)
EXTENDS IdleWheelThreads, TLAPS

(* How many ticks ago a set was the newest: the one back() refers to or,   *)
(* inside push_back, the one that has just been replaced.                  *)
Age(i) == IF timer = "waiting"
          THEN IF i < last THEN last - 1 - i ELSE last - 1 - i + nIdleSeconds
          ELSE IF i <= last THEN last - i ELSE last - i + nIdleSeconds

(* A loop in poll has no connection, and one in a callback has.            *)
PollInv == \A l \in Loops : pc[l] = "poll" <=> cur[l] = NoConn

(* Where a connection was put tells how long it has been silent at least,  *)
(* or will when the insertion that is under way is done.                   *)
PutAt(c, i) == \/ c \in slot[i]
               \/ \E l \in Loops : cur[l] = c /\ pc[l] \in Inserting /\ at[l] = i

PutInv == ~raced /\ ~dead =>
            \A c \in Conns : silent[c] < nIdleSeconds =>
              \E i \in Slots : Age(i) <= silent[c] /\ PutAt(c, i)

ThreadInv == TypeOK /\ PollInv /\ UpHasDecoder /\ PutInv /\ DeathExplained

-----------------------------------------------------------------------------
(* The ring: its ends wrap around.                                         *)
LEMMA Ring ==
  ASSUME TypeOK
  PROVE  /\ nIdleSeconds \in Nat \ {0}
         /\ Back = IF last = 0 THEN nIdleSeconds - 1 ELSE last - 1
         /\ (last + 1) % nIdleSeconds
              = IF last + 1 = nIdleSeconds THEN 0 ELSE last + 1
<1>1. nIdleSeconds \in Nat \ {0} /\ last \in 0..nIdleSeconds - 1
  BY IdleAssumption DEF TypeOK, Slots
<1>2. \A x \in 0..nIdleSeconds - 1 : x % nIdleSeconds = x
  BY <1>1
<1>3. \A x \in 0..nIdleSeconds - 1 :
        (x + nIdleSeconds) % nIdleSeconds = x
  BY <1>1
<1>4. CASE last = 0
  <2>1. last + nIdleSeconds - 1 = nIdleSeconds - 1
    BY <1>1, <1>4
  <2> QED
    BY <1>1, <1>2, <1>3, <1>4, <2>1 DEF Back
<1>5. CASE last # 0
  <2>1. last + nIdleSeconds - 1 = (last - 1) + nIdleSeconds
    BY <1>1, <1>5
  <2>2. last - 1 \in 0..nIdleSeconds - 1
    BY <1>1, <1>5
  <2> QED
    BY <1>1, <1>3, <1>5, <2>1, <2>2 DEF Back
<1>6. (last + 1) % nIdleSeconds
        = IF last + 1 = nIdleSeconds THEN 0 ELSE last + 1
  <2>1. CASE last + 1 = nIdleSeconds
    BY <1>1, <1>3, <2>1
  <2>2. CASE last + 1 # nIdleSeconds
    BY <1>1, <1>2, <2>2
  <2> QED
    BY <2>1, <2>2
<1> QED
  BY <1>1, <1>4, <1>5, <1>6

(* The reference back() returns is to a set of the buffer.                 *)
LEMMA Newest == ASSUME TypeOK PROVE Back \in Slots
BY Ring DEF TypeOK, Slots

(* At first nothing has been heard and no loop is in a callback.           *)
LEMMA InitInv == Init => ThreadInv
<1> SUFFICES ASSUME Init PROVE ThreadInv
  OBVIOUS
<1>1. 0 \in Slots /\ nIdleSeconds \in 0..nIdleSeconds
  BY IdleAssumption DEF Slots
<1>2. TypeOK
  BY <1>1 DEF Init, TypeOK
<1>3. PollInv /\ UpHasDecoder /\ DeathExplained
  BY DEF Init, PollInv, UpHasDecoder, DeathExplained
<1>4. PutInv
  BY <1>1 DEF Init, PutInv
<1> QED
  BY <1>2, <1>3, <1>4 DEF ThreadInv

-----------------------------------------------------------------------------
(* Types.                                                                  *)

(* Every step keeps the slots, the ends and the references in the ring.    *)
LEMMA TypeNext == TypeOK /\ PollInv /\ [Next]_vars => TypeOK'
<1> SUFFICES ASSUME TypeOK, PollInv, [Next]_vars PROVE TypeOK'
  OBVIOUS
<1> USE DEF TypeOK, table, loop
<1>1. ASSUME NEW l \in Loops, NEW c \in Conns, OnConnectionUp(l, c)
      PROVE  TypeOK'
  BY <1>1 DEF OnConnectionUp, Goto
<1>2. ASSUME NEW l \in Loops, NEW c \in Conns, OnConnectionDown(l, c)
      PROVE  TypeOK'
  BY <1>2 DEF OnConnectionDown
<1>3. ASSUME NEW l \in Loops, NEW c \in Conns, OnMessage(l, c)
      PROVE  TypeOK'
  BY <1>3 DEF OnMessage, Goto
<1>4. ASSUME NEW l \in Loops, NEW c \in Conns, OnMessageWithoutEntry(l, c)
      PROVE  TypeOK'
  BY <1>4 DEF OnMessageWithoutEntry
<1>5. ASSUME NEW l \in Loops, ReadBack(l)
      PROVE  TypeOK'
  <2>1. Back \in Slots
    BY Newest
  <2>2. {0, 1} \subseteq 0..nIdleSeconds
    BY IdleAssumption
  <2> QED
    BY <1>5, <2>1, <2>2 DEF ReadBack, Goto
<1>6. ASSUME NEW l \in Loops, Insert(l)
      PROVE  TypeOK'
  <2>1. cur[l] \in Conns
    BY <1>6 DEF Insert, Inserting, PollInv
  <2>2. slot' \in [Slots -> SUBSET Conns]
    BY <1>6, <2>1 DEF Insert
  <2> QED
    BY <1>6, <2>2 DEF Insert, Goto, Outcome
<1>7. ASSUME NEW l \in Loops, Dump(l)
      PROVE  TypeOK'
  BY <1>7 DEF Dump, Goto, Outcome
<1>8. ASSUME NEW l \in Loops, Decode(l)
      PROVE  TypeOK'
  BY <1>8 DEF Decode, Goto
<1>9. ASSUME NEW l \in Loops, Return(l)
      PROVE  TypeOK'
  BY <1>9 DEF Return, Goto, DropUnheld
<1>10. CASE ReplaceOldest
  <2>1. silent' \in [Conns -> 0..nIdleSeconds]
    BY <1>10, IdleAssumption DEF ReplaceOldest
  <2> QED
    BY <1>10, <2>1 DEF ReplaceOldest, Outcome, DropUnheld
<1>11. CASE MoveEnd
  <2>1. last' \in Slots
    BY <1>11, Ring DEF MoveEnd, Slots
  <2> QED
    BY <1>11, <2>1 DEF MoveEnd
<1>12. CASE UNCHANGED vars
  BY <1>12 DEF vars
<1> QED
  BY <1>1, <1>2, <1>3, <1>4, <1>5, <1>6, <1>7, <1>8, <1>9, <1>10, <1>11, <1>12
     DEF Next, Timer, Callback, Dead
-----------------------------------------------------------------------------
(* Callbacks.                                                              *)

(* A loop is in poll just when it has no connection.                       *)
LEMMA PollNext == TypeOK /\ PollInv /\ [Next]_vars => PollInv'
<1> SUFFICES ASSUME TypeOK, PollInv, [Next]_vars PROVE PollInv'
  OBVIOUS
<1> USE DEF TypeOK, PollInv, table, loop
<1>1. ASSUME NEW l \in Loops, NEW c \in Conns, OnConnectionUp(l, c)
      PROVE  PollInv'
  BY <1>1, ConnAssumption DEF OnConnectionUp, Goto
<1>2. ASSUME NEW l \in Loops, NEW c \in Conns, OnConnectionDown(l, c)
      PROVE  PollInv'
  BY <1>2 DEF OnConnectionDown
<1>3. ASSUME NEW l \in Loops, NEW c \in Conns, OnMessage(l, c)
      PROVE  PollInv'
  BY <1>3, ConnAssumption DEF OnMessage, Goto
<1>4. ASSUME NEW l \in Loops, NEW c \in Conns, OnMessageWithoutEntry(l, c)
      PROVE  PollInv'
  BY <1>4 DEF OnMessageWithoutEntry
<1>5. ASSUME NEW l \in Loops, ReadBack(l)
      PROVE  PollInv'
  BY <1>5 DEF ReadBack, Goto
<1>6. ASSUME NEW l \in Loops, Insert(l)
      PROVE  PollInv'
  BY <1>6 DEF Insert, Inserting, Goto
<1>7. ASSUME NEW l \in Loops, Dump(l)
      PROVE  PollInv'
  BY <1>7 DEF Dump, Goto
<1>8. ASSUME NEW l \in Loops, Decode(l)
      PROVE  PollInv'
  BY <1>8 DEF Decode, Goto
<1>9. ASSUME NEW l \in Loops, Return(l)
      PROVE  PollInv'
  BY <1>9 DEF Return, Goto
<1>10. CASE ReplaceOldest
  BY <1>10 DEF ReplaceOldest
<1>11. CASE MoveEnd
  BY <1>11 DEF MoveEnd
<1>12. CASE UNCHANGED vars
  BY <1>12 DEF vars
<1> QED
  BY <1>1, <1>2, <1>3, <1>4, <1>5, <1>6, <1>7, <1>8, <1>9, <1>10, <1>11, <1>12
     DEF Next, Timer, Callback, Dead

(* A step that takes no set and no shared_ptr away leaves what is alive    *)
(* alive.                                                                  *)
LEMMA AliveKept ==
  ASSUME NEW c \in Conns, Alive(c),
         \A i \in Slots : slot[i] \subseteq slot'[i],
         \A l \in Loops : cur[l] = c => cur'[l] = c
  PROVE  Alive(c)'
BY DEF Alive, InTable, Held

(* A connection that is up has a decoder: the step that drops the last     *)
(* shared_ptr half-closes it.                                              *)
LEMMA UpNext ==
  TypeOK /\ PollInv /\ UpHasDecoder /\ [Next]_vars => UpHasDecoder'
<1> SUFFICES ASSUME TypeOK, PollInv, UpHasDecoder, [Next]_vars, dead' = FALSE,
                    NEW c \in Conns, conn'[c] = "up"
             PROVE  Alive(c)'
  BY TypeNext DEF UpHasDecoder, TypeOK
<1> USE DEF TypeOK, PollInv, table, loop
<1>a. ASSUME dead = FALSE, conn[c] = "up"
      PROVE  Alive(c)
  BY <1>a DEF UpHasDecoder
<1>1. ASSUME NEW l \in Loops, NEW d \in Conns, OnConnectionUp(l, d)
      PROVE  Alive(c)'
  <2>1. CASE c = d
    BY <1>1, <2>1 DEF OnConnectionUp, Alive, Held
  <2>2. CASE c # d
    <3>1. Alive(c)
      BY <1>1, <2>2, <1>a DEF OnConnectionUp
    <3>2. cur[l] # c
      BY <1>1, ConnAssumption DEF OnConnectionUp
    <3>3. \A m \in Loops : cur[m] = c => cur'[m] = c
      BY <1>1, <3>2 DEF OnConnectionUp
    <3>4. slot' = slot
      BY <1>1 DEF OnConnectionUp
    <3> QED
      BY <3>1, <3>3, <3>4, AliveKept
  <2> QED
    BY <2>1, <2>2
<1>2. ASSUME NEW l \in Loops, NEW d \in Conns, OnConnectionDown(l, d)
      PROVE  Alive(c)'
  <2>1. Alive(c)
    BY <1>2, <1>a DEF OnConnectionDown
  <2>2. slot' = slot /\ cur' = cur
    BY <1>2 DEF OnConnectionDown
  <2> QED
    BY <2>1, <2>2, AliveKept
<1>3. ASSUME NEW l \in Loops, NEW d \in Conns, OnMessage(l, d)
      PROVE  Alive(c)'
  <2>1. Alive(c) /\ slot' = slot
    BY <1>3, <1>a DEF OnMessage
  <2>2. cur[l] # c
    BY <1>3, ConnAssumption DEF OnMessage
  <2>3. \A m \in Loops : cur[m] = c => cur'[m] = c
    BY <1>3, <2>2 DEF OnMessage
  <2> QED
    BY <2>1, <2>3, AliveKept
<1>4. ASSUME NEW l \in Loops, NEW d \in Conns, OnMessageWithoutEntry(l, d)
      PROVE  FALSE
  BY <1>4 DEF OnMessageWithoutEntry
<1>5. ASSUME NEW l \in Loops, ReadBack(l)
      PROVE  Alive(c)'
  <2>1. Alive(c) /\ slot' = slot /\ cur' = cur
    BY <1>5, <1>a DEF ReadBack
  <2> QED
    BY <2>1, AliveKept
<1>6. ASSUME NEW l \in Loops, Insert(l)
      PROVE  Alive(c)'
  <2>1. Alive(c) /\ cur' = cur
    BY <1>6, <1>a DEF Insert
  <2>2. \A i \in Slots : slot[i] \subseteq slot'[i]
    BY <1>6 DEF Insert
  <2> QED
    BY <2>1, <2>2, AliveKept
<1>7. ASSUME NEW l \in Loops, Dump(l)
      PROVE  Alive(c)'
  <2>1. Alive(c) /\ slot' = slot /\ cur' = cur
    BY <1>7, <1>a DEF Dump
  <2> QED
    BY <2>1, AliveKept
<1>8. ASSUME NEW l \in Loops, Decode(l)
      PROVE  Alive(c)'
  <2>1. conn[c] = "up" /\ dead = FALSE
    BY <1>8 DEF Decode
  <2>2. Alive(c) /\ slot' = slot /\ cur' = cur
    BY <1>8, <2>1, <1>a DEF Decode
  <2> QED
    BY <2>2, AliveKept
<1>9. ASSUME NEW l \in Loops, Return(l)
      PROVE  Alive(c)'
  <2>1. DropUnheld /\ dead = FALSE
    BY <1>9 DEF Return
  <2> QED
    BY <2>1, <1>a DEF DropUnheld
<1>10. CASE ReplaceOldest
  <2>1. DropUnheld /\ dead = FALSE
    BY <1>10 DEF ReplaceOldest
  <2> QED
    BY <2>1, <1>a DEF DropUnheld
<1>11. CASE MoveEnd
  <2>1. Alive(c) /\ slot' = slot /\ cur' = cur
    BY <1>11, <1>a DEF MoveEnd
  <2> QED
    BY <2>1, AliveKept
<1>12. CASE UNCHANGED vars
  <2>1. Alive(c) /\ slot' = slot /\ cur' = cur
    BY <1>12, <1>a DEF vars
  <2> QED
    BY <2>1, AliveKept
<1> QED
  BY <1>1, <1>2, <1>3, <1>4, <1>5, <1>6, <1>7, <1>8, <1>9, <1>10, <1>11, <1>12
     DEF Next, Timer, Callback, Dead

-----------------------------------------------------------------------------
(* What was heard, and how a process dies.                                 *)

(* A step that changes no age, no silence and takes no set away, and that  *)
(* finishes no insertion, keeps what was put where it was put.             *)
LEMMA PutKept ==
  ASSUME PutInv, ~raced', ~dead', raced' = raced, dead' = dead,
         last' = last, timer' = timer, silent' = silent, slot' = slot,
         \A l \in Loops : pc[l] \in Inserting =>
           pc'[l] = pc[l] /\ cur'[l] = cur[l] /\ at'[l] = at[l]
  PROVE  PutInv'
<1> SUFFICES ASSUME NEW c \in Conns, silent[c] < nIdleSeconds
             PROVE  \E i \in Slots : Age(i)' <= silent[c] /\ PutAt(c, i)'
  BY DEF PutInv, Slots
<1>1. PICK i \in Slots : Age(i) <= silent[c] /\ PutAt(c, i)
  BY DEF PutInv
<1>2. Age(i)' = Age(i)
  BY DEF Age
<1>3. PutAt(c, i)'
  BY <1>1 DEF PutAt
<1> QED
  BY <1>1, <1>2, <1>3

(* Reading back() makes the connection heard: its age and its silence are  *)
(* both nothing, or both the tick under way.                               *)
LEMMA PutReadBack ==
  ASSUME TypeOK, PollInv, PutInv, NEW l \in Loops, ReadBack(l), ~raced, ~dead
  PROVE  PutInv'
<1> USE DEF TypeOK, table, loop
<1> SUFFICES ASSUME NEW c \in Conns, silent'[c] < nIdleSeconds
             PROVE  \E i \in Slots : Age(i)' <= silent'[c] /\ PutAt(c, i)'
  BY DEF PutInv, Slots
<1>0. /\ slot' = slot /\ cur' = cur /\ last' = last /\ timer' = timer
      /\ pc[l] \in {"backNew", "back"} /\ pc'[l] \in Inserting
      /\ at'[l] = Back
      /\ \A m \in Loops \ {l} : pc'[m] = pc[m] /\ at'[m] = at[m]
  BY DEF ReadBack, Goto, Inserting
<1>1. CASE c = cur[l]
  <2>1. silent'[c] = IF timer = "moving" THEN 1 ELSE 0
    BY <1>1 DEF ReadBack
  <2>2. PICK b \in Slots : b = Back
    BY Newest
  <2>3. Age(b)' <= silent'[c]
    <3>1. b = IF last = 0 THEN nIdleSeconds - 1 ELSE last - 1
      BY <2>2, Ring
    <3>2. nIdleSeconds \in Nat \ {0} /\ last \in 0..nIdleSeconds - 1
      BY IdleAssumption DEF Slots
    <3>3. Age(b) <= IF timer = "moving" THEN 1 ELSE 0
      BY <3>1, <3>2 DEF Age
    <3> QED
      BY <1>0, <2>1, <3>3 DEF Age
  <2>4. PutAt(c, b)'
    BY <1>0, <1>1, <2>2 DEF PutAt
  <2> QED
    BY <2>2, <2>3, <2>4
<1>2. CASE c # cur[l]
  <2>1. silent'[c] = silent[c]
    BY <1>2 DEF ReadBack
  <2>2. PICK i \in Slots : Age(i) <= silent[c] /\ PutAt(c, i)
    BY <2>1 DEF PutInv
  <2>3. Age(i)' = Age(i)
    BY <1>0 DEF Age
  <2>4. PutAt(c, i)'
    BY <1>0, <1>2, <2>2 DEF PutAt
  <2> QED
    BY <2>1, <2>2, <2>3, <2>4
<1> QED
  BY <1>1, <1>2

(* With nobody else in the set, an insertion takes effect.                 *)
LEMMA PutInsert ==
  ASSUME TypeOK, PollInv, PutInv, NEW l \in Loops, Insert(l),
         ~raced', ~dead'
  PROVE  PutInv'
<1> USE DEF TypeOK
<1>0. /\ ~raced /\ ~dead /\ last' = last /\ timer' = timer
      /\ silent' = silent /\ cur' = cur /\ at' = at
      /\ \A m \in Loops \ {l} : pc'[m] = pc[m]
  BY DEF Insert, Goto, Outcome
<1>1. \A m \in Loops \ {l} : at[l] \notin Touched(m)
  BY DEF Insert, Outcome
<1>2. slot' = [slot EXCEPT ![at[l]] = @ \cup {cur[l]}]
  BY <1>1 DEF Insert
<1> SUFFICES ASSUME NEW c \in Conns, silent[c] < nIdleSeconds
             PROVE  \E i \in Slots : Age(i)' <= silent[c] /\ PutAt(c, i)'
  BY <1>0 DEF PutInv, Slots
<1>3. PICK i \in Slots : Age(i) <= silent[c] /\ PutAt(c, i)
  BY <1>0 DEF PutInv
<1>4. Age(i)' = Age(i)
  BY <1>0 DEF Age
<1>5. PutAt(c, i)'
  <2>1. CASE c \in slot[i]
    BY <1>2, <2>1 DEF PutAt
  <2>2. ASSUME NEW m \in Loops, cur[m] = c, pc[m] \in Inserting, at[m] = i
        PROVE  PutAt(c, i)'
    <3>1. CASE m = l
      BY <1>2, <2>2, <3>1 DEF PutAt
    <3>2. CASE m # l
      BY <1>0, <2>2, <3>2 DEF PutAt
    <3> QED
      BY <3>1, <3>2
  <2> QED
    BY <1>3, <2>1, <2>2 DEF PutAt
<1> QED
  BY <1>3, <1>4, <1>5

(* A tick ages every set but the oldest, and what lay there has been       *)
(* silent for nIdleSeconds.                                                *)
LEMMA PutReplaceOldest ==
  ASSUME TypeOK, PutInv, ReplaceOldest, ~raced', ~dead'
  PROVE  PutInv'
<1> USE DEF TypeOK, loop
<1>0. /\ ~raced /\ ~dead /\ timer = "waiting" /\ timer' = "moving"
      /\ last' = last /\ cur' = cur /\ pc' = pc /\ at' = at
      /\ slot' = [slot EXCEPT ![last] = {}]
  BY DEF ReplaceOldest, Outcome
<1> SUFFICES ASSUME NEW c \in Conns, silent'[c] < nIdleSeconds
             PROVE  \E i \in Slots : Age(i)' <= silent'[c] /\ PutAt(c, i)'
  BY DEF PutInv, Slots
<1>1. silent[c] < nIdleSeconds /\ silent'[c] = silent[c] + 1
  BY IdleAssumption DEF ReplaceOldest
<1>2. PICK i \in Slots : Age(i) <= silent[c] /\ PutAt(c, i)
  BY <1>0, <1>1 DEF PutInv
<1>3. i # last
  BY <1>0, <1>1, <1>2, IdleAssumption DEF Age, Slots
<1>4. Age(i)' = Age(i) + 1
  BY <1>0, <1>3, IdleAssumption DEF Age, Slots
<1>5. Age(i) \in Int
  BY IdleAssumption DEF Age, Slots
<1>6. PutAt(c, i)'
  BY <1>0, <1>2, <1>3 DEF PutAt
<1> QED
  BY <1>1, <1>2, <1>4, <1>5, <1>6, IdleAssumption

(* Moving the end of the buffer changes the age of no set.                 *)
LEMMA PutMoveEnd ==
  ASSUME TypeOK, PutInv, MoveEnd, ~raced', ~dead'
  PROVE  PutInv'
<1> USE DEF TypeOK, loop
<1>0. /\ ~raced /\ ~dead /\ timer = "moving" /\ timer' = "waiting"
      /\ cur' = cur /\ pc' = pc /\ at' = at
      /\ slot' = slot /\ silent' = silent
      /\ last' = IF last + 1 = nIdleSeconds THEN 0 ELSE last + 1
  BY Ring DEF MoveEnd
<1> SUFFICES ASSUME NEW c \in Conns, silent[c] < nIdleSeconds
             PROVE  \E i \in Slots : Age(i)' <= silent[c] /\ PutAt(c, i)'
  BY <1>0 DEF PutInv, Slots
<1>1. PICK i \in Slots : Age(i) <= silent[c] /\ PutAt(c, i)
  BY <1>0 DEF PutInv
<1>2. Age(i)' = Age(i)
  BY <1>0, IdleAssumption DEF Age, Slots
<1>3. PutAt(c, i)'
  BY <1>0, <1>1 DEF PutAt
<1> QED
  BY <1>1, <1>2, <1>3

(* Where a connection was put is in the table as long as it says.          *)
LEMMA PutNext == TypeOK /\ PollInv /\ PutInv /\ [Next]_vars => PutInv'
<1> SUFFICES ASSUME TypeOK, PollInv, PutInv, [Next]_vars, ~raced', ~dead'
             PROVE  PutInv'
  BY DEF PutInv
<1> USE DEF TypeOK, table, loop
<1>1. ASSUME NEW l \in Loops, NEW c \in Conns, OnConnectionUp(l, c)
      PROVE  PutInv'
  BY <1>1, PutKept DEF OnConnectionUp, Goto, Inserting
<1>2. ASSUME NEW l \in Loops, NEW c \in Conns, OnConnectionDown(l, c)
      PROVE  PutInv'
  BY <1>2, PutKept DEF OnConnectionDown
<1>3. ASSUME NEW l \in Loops, NEW c \in Conns, OnMessage(l, c)
      PROVE  PutInv'
  BY <1>3, PutKept DEF OnMessage, Goto, Inserting
<1>4. ASSUME NEW l \in Loops, NEW c \in Conns, OnMessageWithoutEntry(l, c)
      PROVE  FALSE
  BY <1>4 DEF OnMessageWithoutEntry
<1>5. ASSUME NEW l \in Loops, ReadBack(l)
      PROVE  PutInv'
  BY <1>5, PutReadBack DEF ReadBack
<1>6. ASSUME NEW l \in Loops, Insert(l)
      PROVE  PutInv'
  BY <1>6, PutInsert
<1>7. ASSUME NEW l \in Loops, Dump(l)
      PROVE  PutInv'
  BY <1>7, PutKept DEF Dump, Goto, Outcome, Inserting
<1>8. ASSUME NEW l \in Loops, Decode(l)
      PROVE  PutInv'
  BY <1>8, PutKept DEF Decode, Goto, Inserting
<1>9. ASSUME NEW l \in Loops, Return(l)
      PROVE  PutInv'
  BY <1>9, PutKept DEF Return, Goto, Inserting
<1>10. CASE ReplaceOldest
  BY <1>10, PutReplaceOldest
<1>11. CASE MoveEnd
  BY <1>11, PutMoveEnd
<1>12. CASE UNCHANGED vars
  BY <1>12, PutKept DEF vars
<1> QED
  BY <1>1, <1>2, <1>3, <1>4, <1>5, <1>6, <1>7, <1>8, <1>9, <1>10, <1>11, <1>12
     DEF Next, Timer, Callback, Dead

(* Without a race the process dies only in a message without an entry, and *)
(* of a connection that has no entry the other invariants say the rest.    *)
LEMMA DeathNext == ThreadInv /\ [Next]_vars => DeathExplained'
<1> SUFFICES ASSUME ThreadInv, [Next]_vars, dead', ~raced'
             PROVE  \E c \in Conns : /\ conn'[c] = "halfClosed"
                                     /\ ~Alive(c)'
                                     /\ silent'[c] = nIdleSeconds
  BY DEF DeathExplained
<1> USE DEF ThreadInv, TypeOK, table, loop
<1>1. ASSUME NEW l \in Loops, NEW c \in Conns, OnMessageWithoutEntry(l, c)
      PROVE  /\ conn'[c] = "halfClosed" /\ ~Alive(c)'
             /\ silent'[c] = nIdleSeconds
  <2>1. /\ ~raced /\ ~dead /\ ~Alive(c) /\ conn[c] \in {"up", "halfClosed"}
        /\ slot' = slot /\ cur' = cur /\ conn' = conn /\ silent' = silent
    BY <1>1 DEF OnMessageWithoutEntry
  <2>2. conn[c] = "halfClosed"
    BY <2>1 DEF UpHasDecoder
  <2>3. \A i \in Slots : ~PutAt(c, i)
    BY <2>1 DEF PutAt, Alive, InTable, Held
  <2>4. ~(silent[c] < nIdleSeconds)
    BY <2>1, <2>3 DEF PutInv
  <2>5. silent[c] = nIdleSeconds
    <3>1. silent[c] \in 0..nIdleSeconds
      OBVIOUS
    <3> QED
      BY <2>4, <3>1, IdleAssumption
  <2>6. ~Alive(c)'
    BY <2>1 DEF Alive, InTable, Held
  <2> QED
    BY <2>1, <2>2, <2>5, <2>6
<1>2. ASSUME NEW l \in Loops, NEW c \in Conns,
             OnConnectionUp(l, c) \/ OnConnectionDown(l, c) \/ OnMessage(l, c)
      PROVE  FALSE
  BY <1>2 DEF OnConnectionUp, OnConnectionDown, OnMessage
<1>3. ASSUME NEW l \in Loops, Callback(l)
      PROVE  FALSE
  BY <1>3 DEF Callback, ReadBack, Insert, Dump, Decode, Return, Outcome
<1>4. CASE Timer
  BY <1>4 DEF Timer, ReplaceOldest, MoveEnd, Outcome
<1>5. CASE UNCHANGED vars
  <2>1. dead /\ ~raced
    BY <1>5 DEF vars
  <2>2. PICK c \in Conns : /\ conn[c] = "halfClosed" /\ ~Alive(c)
                           /\ silent[c] = nIdleSeconds
    BY <2>1 DEF DeathExplained
  <2>3. ~Alive(c)'
    BY <1>5, <2>2 DEF vars, Alive, InTable, Held
  <2> QED
    BY <1>5, <2>2, <2>3 DEF vars
<1> QED
  BY <1>1, <1>2, <1>3, <1>4, <1>5 DEF Next, Dead

-----------------------------------------------------------------------------
(* Theorems.                                                               *)

(* The invariant holds in every state, whatever the threads do.            *)
THEOREM ThreadInvHolds == Spec => []ThreadInv
<1>1. ThreadInv /\ [Next]_vars => ThreadInv'
  BY TypeNext, PollNext, UpNext, PutNext, DeathNext DEF ThreadInv
<1> QED
  BY <1>1, InitInv, PTL DEF Spec

(* Threads or not, the end of the circular buffer and every reference that *)
(* a callback got from back() are to a set inside the buffer.              *)
THEOREM ThreadsTypeCorrect == Spec => []TypeOK
BY ThreadInvHolds, PTL DEF ThreadInv

(* With any number of IO loops that share the table with no lock, and with *)
(* insertions lost, a connection the server has not half-closed has its    *)
(* decoder as long as the process lives.                                   *)
THEOREM ConnectedHasDecoder == Spec => []UpHasDecoder
BY ThreadInvHolds, PTL DEF ThreadInv

(* With no race, a connection that is heard stays in the table, or is      *)
(* being inserted, for nIdleSeconds ticks after back() was read for it.    *)
THEOREM HeardConnectionIsKept == Spec => []HeardIsKept
<1>1. PutInv => HeardIsKept
  BY DEF PutInv, HeardIsKept, PutAt, InTable
<1> QED
  BY <1>1, ThreadInvHolds, PTL DEF ThreadInv

(* With no race, a process that died had a message on a connection that    *)
(* had been silent, half-closed and dropped from the table.                *)
THEOREM DeathHasItsReason == Spec => []DeathExplained
BY ThreadInvHolds, PTL DEF ThreadInv
=============================================================================
