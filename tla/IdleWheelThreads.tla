-------------------------- MODULE IdleWheelThreads --------------------------
(***************************************************************************)
(* The connection table of CRealTimeVideoServer with IO threads, as main   *)
(* runs it.  The timer callback runs on the base loop, the callbacks of a  *)
(* connection on the IO loop it was given to, and all of them read and     *)
(* write m_iConnectionBuckets with no lock.                                *)
(*                                                                         *)
(* A callback is cut where another thread can come between: the reference  *)
(* back() returns, the insertion into the set it refers to, the walk of    *)
(* __DumpConnectionBuckets over all the sets, the decoding, and the        *)
(* release of the callback's shared_ptr.  push_back on the full buffer     *)
(* first replaces the oldest set and then moves the end of the buffer.     *)
(*                                                                         *)
(* Two threads in one unordered_set at a time is a data race.  Of what the *)
(* build may then do the module has: both accesses take effect, one of two *)
(* insertions is lost, or the process dies.                                *)
(***************************************************************************)
EXTENDS Integers

CONSTANTS Conns, Loops, nIdleSeconds,
          NoConn        \* a loop in poll has no connection

ASSUME IdleAssumption == nIdleSeconds \in Nat \ {0}
ASSUME ConnAssumption == NoConn \notin Conns

VARIABLES
  LoopOf,    \* the IO loop TcpServer gives a connection to
  slot,      \* the sets of m_iConnectionBuckets where they lie in memory
  last,      \* the slot behind back(): on the full buffer, the oldest
  timer,     \* "waiting", or "moving" inside push_back
  pc,        \* where the callback of each IO loop is, "poll" if it has none
  cur,       \* its connection
  at,        \* the slot that back() returned to it
  conn,
  dead,      \* the process died
  raced,     \* history: two threads were in one set at a time
  silent     \* history: ticks since back() was read for the connection,
             \* with the one that was under way then

table == <<slot, last, timer>>
loop == <<pc, cur, at>>
vars == <<LoopOf, table, loop, conn, dead, raced, silent>>

Slots == 0..(nIdleSeconds - 1)
Back == (last + nIdleSeconds - 1) % nIdleSeconds

InTable(c) == \E i \in Slots : c \in slot[i]
Held(c) == \E l \in Loops : cur[l] = c          \* by a callback's shared_ptr
Alive(c) == InTable(c) \/ Held(c)

(* Threads or not, the end of the buffer and every reference to a set stay *)
(* inside the buffer.                                                      *)
TypeOK ==
  /\ LoopOf \in [Conns -> Loops]
  /\ slot \in [Slots -> SUBSET Conns]
  /\ last \in Slots
  /\ timer \in {"waiting", "moving"}
  /\ pc \in [Loops -> {"poll", "backNew", "insertNew", "back", "insert", "dump",
                       "decode", "return"}]
  /\ cur \in [Loops -> Conns \cup {NoConn}]
  /\ at \in [Loops -> Slots]
  /\ conn \in [Conns -> {"none", "up", "halfClosed", "down"}]
  /\ dead \in BOOLEAN
  /\ raced \in BOOLEAN
  /\ silent \in [Conns -> 0..nIdleSeconds]

Init ==
  /\ LoopOf \in [Conns -> Loops]
  /\ slot = [i \in Slots |-> {}]
  /\ last = 0
  /\ timer = "waiting"
  /\ pc = [l \in Loops |-> "poll"]
  /\ cur = [l \in Loops |-> NoConn]
  /\ at = [l \in Loops |-> 0]
  /\ conn = [c \in Conns |-> "none"]
  /\ dead = FALSE
  /\ raced = FALSE
  /\ silent = [c \in Conns |-> nIdleSeconds]

-----------------------------------------------------------------------------
(* Faulty variant: ~Entry leaves the connection alone.                     *)
DropQuietly == UNCHANGED conn

(* ~Entry of each entry that this step leaves without a shared_ptr.        *)
DropUnheld == conn' = [c \in Conns |->
                         IF conn[c] = "up" /\ Alive(c) /\ ~Alive(c)'
                         THEN "halfClosed" ELSE conn[c]]

(* The outcome of a step: an overlapping access may kill the process.      *)
Outcome(overlap) == /\ raced' = (raced \/ overlap)
                    /\ \E d \in {FALSE, overlap} : dead' = d

Inserting == {"insertNew", "insert"}

(* The sets that loop l may be in the middle of.                           *)
Touched(l) == IF pc[l] \in Inserting THEN {at[l]}
              ELSE IF pc[l] = "dump" THEN Slots
              ELSE {}

Goto(l, label) == pc' = [pc EXCEPT ![l] = label]

(* The IO loop takes up an event of a connection of its own.               *)
OnConnectionUp(l, c) ==
  /\ ~dead
  /\ pc[l] = "poll"
  /\ LoopOf[c] = l
  /\ conn[c] = "none"
  /\ conn' = [conn EXCEPT ![c] = "up"]
  /\ cur' = [cur EXCEPT ![l] = c]
  /\ Goto(l, "backNew")
  /\ UNCHANGED <<LoopOf, table, at, dead, raced, silent>>

OnConnectionDown(l, c) ==
  /\ ~dead
  /\ pc[l] = "poll"
  /\ LoopOf[c] = l
  /\ conn[c] \in {"up", "halfClosed"}
  /\ conn' = [conn EXCEPT ![c] = "down"]
  /\ UNCHANGED <<LoopOf, table, loop, dead, raced, silent>>

OnMessage(l, c) ==
  /\ ~dead
  /\ pc[l] = "poll"
  /\ LoopOf[c] = l
  /\ conn[c] \in {"up", "halfClosed"}
  /\ Alive(c)
  /\ cur' = [cur EXCEPT ![l] = c]
  /\ Goto(l, "back")
  /\ UNCHANGED <<LoopOf, table, at, conn, dead, raced, silent>>

OnMessageWithoutEntry(l, c) ==
  /\ ~dead
  /\ pc[l] = "poll"
  /\ LoopOf[c] = l
  /\ conn[c] \in {"up", "halfClosed"}
  /\ ~Alive(c)
  /\ dead' = TRUE
  /\ UNCHANGED <<LoopOf, table, loop, conn, raced, silent>>

(* Faulty variant: front() for back().                                     *)
ReadFront(l) ==
  /\ ~dead
  /\ pc[l] \in {"backNew", "back"}
  /\ at' = [at EXCEPT ![l] = last]
  /\ Goto(l, IF pc[l] = "back" THEN "insert" ELSE "insertNew")
  /\ silent' = [silent EXCEPT ![cur[l]] = IF timer = "moving" THEN 1 ELSE 0]
  /\ UNCHANGED <<LoopOf, table, cur, conn, dead, raced>>

ReadBack(l) ==
  /\ ~dead
  /\ pc[l] \in {"backNew", "back"}
  /\ at' = [at EXCEPT ![l] = Back]
  /\ Goto(l, IF pc[l] = "back" THEN "insert" ELSE "insertNew")
  /\ silent' = [silent EXCEPT ![cur[l]] = IF timer = "moving" THEN 1 ELSE 0]
  /\ UNCHANGED <<LoopOf, table, cur, conn, dead, raced>>

(* Faulty variant: only __OnConnection inserts, a message does not.        *)
InsertNewOnly(l) ==
  /\ ~dead
  /\ pc[l] \in Inserting
  /\ slot' = IF pc[l] = "insertNew"
             THEN [slot EXCEPT ![at[l]] = @ \cup {cur[l]}] ELSE slot
  /\ Outcome(FALSE)
  /\ Goto(l, IF pc[l] = "insert" THEN "dump" ELSE "return")
  /\ UNCHANGED <<LoopOf, last, timer, cur, at, conn, silent>>

Insert(l) ==
  /\ ~dead
  /\ pc[l] \in Inserting
  /\ LET others == {m \in Loops \ {l} : at[l] \in Touched(m)}
         inserted == [slot EXCEPT ![at[l]] = @ \cup {cur[l]}]
     IN /\ \/ slot' = inserted
           \/ slot' = slot /\ \E m \in others : pc[m] \in Inserting
        /\ Outcome(others # {})
  /\ Goto(l, IF pc[l] = "insert" THEN "dump" ELSE "return")
  /\ UNCHANGED <<LoopOf, last, timer, cur, at, conn, silent>>

Dump(l) ==
  /\ ~dead
  /\ pc[l] = "dump"
  /\ Outcome(timer = "moving" \/ \E m \in Loops \ {l} : pc[m] \in Inserting)
  /\ Goto(l, "decode")
  /\ UNCHANGED <<LoopOf, table, cur, at, conn, silent>>

(* Decode and dispatch, which may half-close the connection and may block  *)
(* the loop while the RTMP server is contacted.                            *)
Decode(l) ==
  /\ ~dead
  /\ pc[l] = "decode"
  /\ \E s \in {conn[cur[l]], "halfClosed"} :
       conn' = [conn EXCEPT ![cur[l]] = s]
  /\ Goto(l, "return")
  /\ UNCHANGED <<LoopOf, table, cur, at, dead, raced, silent>>

Return(l) ==
  /\ ~dead
  /\ pc[l] = "return"
  /\ cur' = [cur EXCEPT ![l] = NoConn]
  /\ Goto(l, "poll")
  /\ UNCHANGED <<LoopOf, table, at, dead, raced, silent>>
  /\ DropUnheld

(* Faulty variant: the oldest set is kept.                                 *)
KeepOldest ==
  /\ ~dead
  /\ timer = "waiting"
  /\ timer' = "moving"
  /\ UNCHANGED <<LoopOf, slot, last, loop, conn, dead, raced, silent>>

(* __OnTimer: push_back(BUCKET()) on the full circular buffer.             *)
ReplaceOldest ==
  /\ ~dead
  /\ timer = "waiting"
  /\ slot' = [slot EXCEPT ![last] = {}]
  /\ timer' = "moving"
  /\ Outcome(\E l \in Loops : last \in Touched(l))
  /\ silent' = [c \in Conns |-> IF silent[c] < nIdleSeconds
                                THEN silent[c] + 1 ELSE silent[c]]
  /\ UNCHANGED <<LoopOf, last, loop>>
  /\ DropUnheld

(* Faulty variant: the end is not wrapped around.                          *)
MoveEndBeyond ==
  /\ ~dead
  /\ timer = "moving"
  /\ last' = last + 1
  /\ timer' = "waiting"
  /\ UNCHANGED <<LoopOf, slot, loop, conn, dead, raced, silent>>

MoveEnd ==
  /\ ~dead
  /\ timer = "moving"
  /\ last' = (last + 1) % nIdleSeconds
  /\ timer' = "waiting"
  /\ UNCHANGED <<LoopOf, slot, loop, conn, dead, raced, silent>>

-----------------------------------------------------------------------------
Callback(l) == ReadBack(l) \/ Insert(l) \/ Dump(l) \/ Decode(l) \/ Return(l)
Timer == ReplaceOldest \/ MoveEnd

Dead == dead /\ UNCHANGED vars

Next == \/ Timer
        \/ \E l \in Loops :
             \/ Callback(l)
             \/ \E c \in Conns :
                  \/ OnConnectionUp(l, c) \/ OnConnectionDown(l, c)
                  \/ OnMessage(l, c) \/ OnMessageWithoutEntry(l, c)
        \/ Dead

Spec == Init /\ [][Next]_vars

(* The timer fires every second and a loop in a callback runs on.          *)
FairSpec == Spec /\ WF_vars(Timer) /\ \A l \in Loops : WF_vars(Callback(l))

-----------------------------------------------------------------------------
(* A connection the server has not half-closed has a decoder, even when    *)
(* its entry was lost from the table: the release of the last shared_ptr   *)
(* then half-closes it at once.                                            *)
UpHasDecoder == ~dead => \A c \in Conns : conn[c] = "up" => Alive(c)

(* With no race, a connection is kept for nIdleSeconds ticks from the      *)
(* moment back() was read for it.  A tick under way then counts, and so    *)
(* does one that comes before the insertion, though both take time from a  *)
(* terminal that has just been heard.                                      *)
HeardIsKept ==
  ~raced /\ ~dead =>
    \A c \in Conns :
      silent[c] < nIdleSeconds =>
        \/ InTable(c)
        \/ \E l \in Loops : cur[l] = c /\ pc[l] \in Inserting

(* With no race, the process dies of nothing but a message on a connection *)
(* that the server half-closed and dropped the decoder of.                 *)
DeathExplained ==
  dead /\ ~raced =>
    \E c \in Conns : /\ conn[c] = "halfClosed" /\ ~Alive(c)
                     /\ silent[c] = nIdleSeconds

(* The decoder and RTMP stream of a closed connection are destroyed in the *)
(* end, whatever the threads do meanwhile.                                 *)
DecoderFreed ==
  \A c \in Conns : conn[c] = "down" ~> (~Alive(c) \/ dead)
=============================================================================
