----------------------------- MODULE IdleWheel -----------------------------
(***************************************************************************)
(* The connection table of CRealTimeVideoServer on a server without IO     *)
(* threads (nNumThreads = 0), where every callback runs on the base loop   *)
(* and none overlaps another.  IdleWheelThreads has the threads.           *)
(*                                                                         *)
(* m_iConnectionBuckets is a circular buffer of nIdleSeconds sets of       *)
(* shared_ptr<Entry>; bucket nIdleSeconds is its back().  An Entry owns    *)
(* the connection's CDecoder and lives while a bucket holds it; the        *)
(* connection's context holds only a weak_ptr.  An Entry is named by its   *)
(* connection, which it was made for.                                      *)
(***************************************************************************)
EXTENDS Integers

CONSTANTS Conns, nIdleSeconds

ASSUME IdleAssumption == nIdleSeconds \in Nat \ {0}

VARIABLES
  m_iConnectionBuckets,
  conn,      \* "halfClosed" once conn->shutdown() has been called
  crashed,   \* a null Entry has been dereferenced
  silent     \* history: ticks since __OnConnection or __OnMessage for it

vars == <<m_iConnectionBuckets, conn, crashed, silent>>

Slots == 1..nIdleSeconds
Alive(c) == \E i \in Slots : c \in m_iConnectionBuckets[i]
ConnStates == {"none", "up", "halfClosed", "down"}

(* The wheel always has nIdleSeconds buckets.                              *)
TypeOK == /\ m_iConnectionBuckets \in [Slots -> SUBSET Conns]
          /\ conn \in [Conns -> ConnStates]
          /\ crashed \in BOOLEAN
          /\ silent \in [Conns -> 0..nIdleSeconds]

(* Faulty variant: the circular buffer is not filled to its capacity.      *)
InitWithoutResize == /\ m_iConnectionBuckets = <<>>
                     /\ conn = [c \in Conns |-> "none"]
                     /\ crashed = FALSE
                     /\ silent = [c \in Conns |-> nIdleSeconds]

Init == /\ m_iConnectionBuckets = [i \in Slots |-> {}]
        /\ conn = [c \in Conns |-> "none"]
        /\ crashed = FALSE
        /\ silent = [c \in Conns |-> nIdleSeconds]

InsertBack(c) ==
  m_iConnectionBuckets' =
    [m_iConnectionBuckets EXCEPT ![nIdleSeconds] = @ \cup {c}]

(* Faulty variant: the entry goes into the oldest set.                     *)
OnConnectionUpFront(c) ==
  /\ ~crashed
  /\ conn[c] = "none"
  /\ m_iConnectionBuckets' = [m_iConnectionBuckets EXCEPT ![1] = @ \cup {c}]
  /\ conn' = [conn EXCEPT ![c] = "up"]
  /\ silent' = [silent EXCEPT ![c] = 0]
  /\ UNCHANGED crashed

(* __OnConnection of a new connection.                                     *)
OnConnectionUp(c) ==
  /\ ~crashed
  /\ conn[c] = "none"
  /\ InsertBack(c)
  /\ conn' = [conn EXCEPT ![c] = "up"]
  /\ silent' = [silent EXCEPT ![c] = 0]
  /\ UNCHANGED crashed

(* __OnConnection of a closed one does not touch the table.                *)
OnConnectionDown(c) ==
  /\ ~crashed
  /\ conn[c] \in {"up", "halfClosed"}
  /\ conn' = [conn EXCEPT ![c] = "down"]
  /\ UNCHANGED <<m_iConnectionBuckets, crashed, silent>>

(* Faulty variant: a message does not move the entry.                      *)
OnMessageWithoutRefresh(c) ==
  /\ ~crashed
  /\ conn[c] \in {"up", "halfClosed"}
  /\ Alive(c)
  /\ \E s \in {conn[c], "halfClosed"} : conn' = [conn EXCEPT ![c] = s]
  /\ silent' = [silent EXCEPT ![c] = 0]
  /\ UNCHANGED <<m_iConnectionBuckets, crashed>>

(* __OnMessage finds the Entry; decoding or writing may fail, and then it  *)
(* half-closes the connection (VideoSession says when).                    *)
OnMessage(c) ==
  /\ ~crashed
  /\ conn[c] \in {"up", "halfClosed"}
  /\ Alive(c)
  /\ InsertBack(c)
  /\ \E s \in {conn[c], "halfClosed"} : conn' = [conn EXCEPT ![c] = s]
  /\ silent' = [silent EXCEPT ![c] = 0]
  /\ UNCHANGED crashed

(* weakEntry.lock() is null: the insertion is guarded by if(entry), the    *)
(* next line, entry->m_iWeakDecoder, is not.                               *)
OnMessageWithoutEntry(c) ==
  /\ ~crashed
  /\ conn[c] \in {"up", "halfClosed"}
  /\ ~Alive(c)
  /\ crashed' = TRUE
  /\ UNCHANGED <<m_iConnectionBuckets, conn, silent>>

(* A tick: what is left when the sets have moved to `buckets`.             *)
Tick(buckets) ==
  /\ ~crashed
  /\ m_iConnectionBuckets' = buckets
  /\ silent' = [c \in Conns |-> IF silent[c] < nIdleSeconds
                                THEN silent[c] + 1 ELSE silent[c]]
  /\ UNCHANGED crashed

(* ~Entry of each entry that no set holds any more.                        *)
DropEntries == conn' = [c \in Conns |->
                          IF conn[c] = "up" /\ Alive(c) /\ ~Alive(c)'
                          THEN "halfClosed" ELSE conn[c]]

Shifted(newest) == [i \in Slots |-> IF i = nIdleSeconds THEN newest
                                    ELSE m_iConnectionBuckets[i + 1]]

(* Faulty variant: no set is pushed.                                       *)
OnTimerForgetsPush == Tick(m_iConnectionBuckets) /\ DropEntries

(* __OnTimer: push_back on the full buffer drops the oldest bucket, and    *)
(* ~Entry half-closes the connection of each entry no other bucket holds.  *)
OnTimer == Tick(Shifted({})) /\ DropEntries

(* The process is gone.                                                    *)
Crashed == crashed /\ UNCHANGED vars

Next == \/ OnTimer
        \/ \E c \in Conns : \/ OnConnectionUp(c) \/ OnConnectionDown(c)
                            \/ OnMessage(c) \/ OnMessageWithoutEntry(c)
        \/ Crashed

(* runEvery keeps the timer going; terminals owe nothing.                  *)
Spec == Init /\ [][Next]_vars
FairSpec == Spec /\ WF_vars(OnTimer)

-----------------------------------------------------------------------------
Timer == INSTANCE IdleTimer

(* The wheel of buckets is a countdown for each connection.                *)
ImplementsIdleTimer == Timer!Spec

(* The newest bucket that holds an entry tells exactly how long ago its    *)
(* connection was last heard, and an entry is gone after nIdleSeconds      *)
(* ticks and not before, though it stays in every bucket it ever entered.  *)
WheelCountsSilence ==
  \A c \in Conns : \A i \in Slots :
    /\ i + silent[c] = nIdleSeconds => c \in m_iConnectionBuckets[i]
    /\ i + silent[c] > nIdleSeconds => c \notin m_iConnectionBuckets[i]

(* A connection the server has not half-closed has its decoder, so only a  *)
(* message on one it has half-closed for silence can crash the process.    *)
UpHasDecoder == \A c \in Conns : conn[c] = "up" => Alive(c)

(* A terminal that falls silent is half-closed in the end.                 *)
SilentIsClosed ==
  \A c \in Conns :
    <>[][~OnMessage(c)]_vars
      => (conn[c] = "up" ~> (conn[c] # "up" \/ crashed))
=============================================================================
