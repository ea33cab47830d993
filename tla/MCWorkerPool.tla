---------------------------- MODULE MCWorkerPool ----------------------------
(* WorkerPool with the two initial workers of the code, room for one more, *)
(* and three clients.                                                      *)
EXTENDS WorkerPool

CONSTANTS c1, c2, c3

MCClients == {c1, c2, c3}
=============================================================================
