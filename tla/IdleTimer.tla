----------------------------- MODULE IdleTimer -----------------------------
(***************************************************************************)
(* What the idle wheel of CRealTimeVideoServer promises: a terminal that   *)
(* is not heard during nIdleSeconds ticks of the timer has its connection  *)
(* half-closed at the last of them, never at an earlier one, and its       *)
(* decoder is dropped then, whether the connection is still there or not.  *)
(***************************************************************************)
EXTENDS Integers

CONSTANTS Conns,          \* TCP connections, each used once
          nIdleSeconds

VARIABLES
  silent,    \* ticks since the connection was last heard, at most nIdleSeconds
  conn,      \* state of the TCP connection
  crashed    \* the process died dereferencing a decoder that was dropped

vars == <<silent, conn, crashed>>

ConnStates == {"none", "up", "halfClosed", "down"}
Kept(c) == silent[c] < nIdleSeconds       \* the server has a decoder for it

Init == /\ silent = [c \in Conns |-> nIdleSeconds]
        /\ conn = [c \in Conns |-> "none"]
        /\ crashed = FALSE

Open(c) == /\ ~crashed
           /\ conn[c] = "none"
           /\ conn' = [conn EXCEPT ![c] = "up"]
           /\ silent' = [silent EXCEPT ![c] = 0]
           /\ UNCHANGED crashed

Hear(c) == /\ ~crashed
           /\ conn[c] \in {"up", "halfClosed"}
           /\ Kept(c)
           /\ silent' = [silent EXCEPT ![c] = 0]
           /\ \E s \in {conn[c], "halfClosed"} : conn' = [conn EXCEPT ![c] = s]
           /\ UNCHANGED crashed

HearLate(c) == /\ ~crashed
               /\ conn[c] = "halfClosed"
               /\ ~Kept(c)
               /\ crashed' = TRUE
               /\ UNCHANGED <<silent, conn>>

Close(c) == /\ ~crashed
            /\ conn[c] \in {"up", "halfClosed"}
            /\ conn' = [conn EXCEPT ![c] = "down"]
            /\ UNCHANGED <<silent, crashed>>

Tick == /\ ~crashed
        /\ silent' = [c \in Conns |-> IF Kept(c) THEN silent[c] + 1
                                      ELSE silent[c]]
        /\ conn' = [c \in Conns |->
                      IF silent[c] = nIdleSeconds - 1 /\ conn[c] = "up"
                      THEN "halfClosed" ELSE conn[c]]
        /\ UNCHANGED crashed

Next == Tick \/ \E c \in Conns : Open(c) \/ Hear(c) \/ HearLate(c) \/ Close(c)

Spec == Init /\ [][Next]_vars
=============================================================================
