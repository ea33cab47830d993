----------------------------- MODULE MCShmChat -----------------------------
(* ShmChat with two users and as many entries: a user who was killed and   *)
(* comes back finds the table full.  More messages than the ring has cells.*)
EXTENDS ShmChat, TLC

CONSTANTS u1, u2

MCUsers == {u1, u2}
MCSymmetry == Permutations(MCUsers)

(* Bound: after a start of the server that was not clean, when client_count *)
(* may drift without limit, states are explored while no message is posted, *)
(* nobody was killed and the count is one that a clean table has.           *)
UncleanBound == spoilt \/ early => posted = 0 /\ kills = 0 /\ client_count \in 0 .. MaxClients
=============================================================================
