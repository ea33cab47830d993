---------------------------- MODULE TimeService ----------------------------
(***************************************************************************)
(* What the three time servers of hw16_sockets/p2_server_template promise  *)
(* to the clients (client_thread of client.c): a connection waits, the     *)
(* server answers it with the time, and then hangs up.  It may hang up     *)
(* without an answer only on a client it is allowed to refuse (mayRefuse,  *)
(* set by the circumstances): the thread-per-client server on the one main *)
(* is about to start a thread for, the pool of processes on any client     *)
(* once a worker has died, the pool of threads on none.                    *)
(***************************************************************************)
CONSTANT Clients

VARIABLES status,       \* status[c]: the server's end of the connection of c
          mayRefuse     \* the clients that may be refused now

Init == status = [c \in Clients |-> "idle"]

Connect(c) == /\ status[c] = "idle"
              /\ status' = [status EXCEPT ![c] = "waiting"]

Answer(c) == /\ status[c] = "waiting"
             /\ status' = [status EXCEPT ![c] = "answered"]

\* The step that gives leave, such as the death of the worker that serves c,
\* may be the one that hangs up.
Refuse(c) == /\ c \in mayRefuse \union mayRefuse'
             /\ status[c] = "waiting"
             /\ status' = [status EXCEPT ![c] = "idle"]

HangUp(c) == /\ status[c] = "answered"
             /\ status' = [status EXCEPT ![c] = "idle"]

Next == \E c \in Clients : Connect(c) \/ Answer(c) \/ Refuse(c) \/ HangUp(c)

(* A server never leaves a client waiting, nor an answered one connected.  *)
Fairness == \A c \in Clients : /\ WF_status(Answer(c))
                               /\ WF_status(HangUp(c))

Safety == Init /\ [][Next]_status

Spec == Safety /\ Fairness
============================================================================
