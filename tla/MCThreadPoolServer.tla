------------------------- MODULE MCThreadPoolServer -------------------------
(* ThreadPoolServer with more clients than the ring has slots, so that     *)
(* main waits on a full ring, and the workers on an empty one.             *)
EXTENDS ThreadPoolServer

CONSTANTS c1, c2, c3, w1, w2

MCClients == {c1, c2, c3}
MCWorkers == {w1, w2}
=============================================================================
