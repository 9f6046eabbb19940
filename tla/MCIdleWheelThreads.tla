------------------------- MODULE MCIdleWheelThreads -------------------------
(* Two connections and the timer: each connection on a loop of its own, or *)
(* both on one, which the handler of the one may block for the other.      *)
EXTENDS IdleWheelThreads

CONSTANTS c1, c2, l1, l2

MCConns == {c1, c2}
MCLoops == {l1, l2}
=============================================================================
