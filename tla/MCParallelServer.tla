-------------------------- MODULE MCParallelServer --------------------------
(* ParallelServer with as many handler threads and cells as clients: main  *)
(* and two threads can all be at work at once.                             *)
EXTENDS ParallelServer

CONSTANTS c1, c2, h1, h2, p1, p2

MCClients == {c1, c2}
MCHandlers == {h1, h2}
MCCells == {p1, p2}
=============================================================================
