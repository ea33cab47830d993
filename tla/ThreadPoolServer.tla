-------------------------- MODULE ThreadPoolServer --------------------------
(***************************************************************************)
(* The time server with a pool of threads                                  *)
(* (p2_server_template/parallel_server_consumer-produser).  main accepts   *)
(* connections and pushes the sockets into a bounded ring buffer; the      *)
(* worker threads pop them, send the time and close them.  A mutex and two *)
(* condition variables protect the ring.                                   *)
(*                                                                         *)
(* A connection c stands for the client thread that opened it and for the  *)
(* descriptor accept() returns for it; it is reused once both ends are     *)
(* closed.  The body of queue_push and queue_pop is split where another    *)
(* thread could interfere if the mutex did not keep it out: taking the     *)
(* mutex, testing count, moving the socket, updating count.                *)
(***************************************************************************)
EXTENDS Integers, Sequences, FiniteSets

CONSTANTS Clients,      \* connections
          Workers,      \* THREAD_POOL_SIZE threads
          Main,         \* the accepting thread
          Capacity,     \* capacity of the ring
          Backlog,      \* BACKLOG of listen()
          None,         \* no thread, or no socket
          MaxSpurious   \* bound: spurious wakeups of pthread_cond_wait

ASSUME CapacityAssumption == Capacity \in Nat \ {0}
ASSUME BacklogAssumption == Backlog \in Nat \ {0}
ASSUME MaxSpuriousAssumption == MaxSpurious \in Nat
ASSUME ThreadsAssumption == /\ Main \notin Workers /\ Workers # {}
                            /\ None \notin Workers \union {Main}
                            /\ None \notin Clients

VARIABLES data, front, rear, count,   \* socket_queue_t
          mutex,                      \* its owner, or None
          pc, sock,                   \* per thread: program point, client_sock
          backlog,                    \* the kernel's queue of accept()
          conn,                       \* the server's end of each connection
          inbox,                      \* connections whose reply is unread
          client,                     \* client_thread: "idle", "waiting" or "error"
          spurious                    \* spurious wakeups so far

ringVars == <<data, front, rear, count>>
netVars == <<backlog, conn, inbox, client>>
vars == <<ringVars, mutex, pc, sock, netVars, spurious>>

Threads == Workers \union {Main}
Slots == 0 .. Capacity - 1

Init == /\ data = [i \in Slots |-> None]
        /\ front = 0 /\ rear = 0 /\ count = 0
        /\ mutex = None
        /\ pc = [t \in Threads |-> IF t = Main THEN "accept" ELSE "lock"]
        /\ sock = [t \in Threads |-> None]
        /\ backlog = <<>>
        /\ conn = [c \in Clients |-> "none"]
        /\ inbox = {}
        /\ client = [c \in Clients |-> "idle"]
        /\ spurious = 0

-----------------------------------------------------------------------------
(* The clients: connect, one blocking recv, close.                         *)

Connect(c) ==
  /\ client[c] # "waiting" /\ conn[c] = "none"
  /\ Len(backlog) < Backlog
  /\ backlog' = Append(backlog, c)
  /\ conn' = [conn EXCEPT ![c] = "backlog"]
  /\ client' = [client EXCEPT ![c] = "waiting"]
  /\ UNCHANGED <<ringVars, mutex, pc, sock, inbox, spurious>>

\* recv returns the reply, which is printed, or 0 once the server has closed
\* without one; the thread of the client ends either way.
Recv(c) ==
  /\ client[c] = "waiting"
  /\ c \in inbox \/ conn[c] = "none"
  /\ client' = [client EXCEPT ![c] = IF c \in inbox THEN "idle" ELSE "error"]
  /\ inbox' = inbox \ {c}
  /\ UNCHANGED <<ringVars, mutex, pc, sock, backlog, conn, spurious>>

-----------------------------------------------------------------------------
(* pthread_mutex and pthread_cond.                                         *)

\* Mutation: the ring is entered without waiting for the mutex.
LockUnguarded(t) ==
  /\ pc[t] = "lock"
  /\ mutex' = t
  /\ pc' = [pc EXCEPT ![t] = "check"]
  /\ UNCHANGED <<ringVars, sock, netVars, spurious>>

Lock(t) ==
  /\ pc[t] = "lock" /\ mutex = None
  /\ mutex' = t
  /\ pc' = [pc EXCEPT ![t] = "check"]
  /\ UNCHANGED <<ringVars, sock, netVars, spurious>>

\* pthread_cond_wait releases the mutex; a woken thread takes it again
\* and repeats the test of the while loop.
Wait(t, blocked) ==
  /\ pc[t] = "check" /\ blocked
  /\ mutex' = None
  /\ pc' = [pc EXCEPT ![t] = "wait"]
  /\ UNCHANGED <<ringVars, sock, netVars, spurious>>

Waiting(S) == {t \in S : pc[t] = "wait"}

\* What pthread_cond_signal wakes: one of the threads waiting in S, if any.
Signalled(S) == IF Waiting(S) = {} THEN {{}} ELSE {{t} : t \in Waiting(S)}

\* t signals the threads of S that wait, unlocks and goes to next.
SignalAndUnlock(t, S, next) ==
  /\ mutex' = None
  /\ \E woken \in Signalled(S) :
       pc' = [u \in Threads |-> IF u = t THEN next
                                ELSE IF u \in woken THEN "lock" ELSE pc[u]]

SpuriousWakeup(t) ==
  /\ spurious < MaxSpurious
  /\ pc[t] = "wait"
  /\ pc' = [pc EXCEPT ![t] = "lock"]
  /\ spurious' = spurious + 1
  /\ UNCHANGED <<ringVars, mutex, sock, netVars>>

-----------------------------------------------------------------------------
(* main: accept, then queue_push.                                          *)

Accept ==
  /\ pc[Main] = "accept" /\ backlog # <<>>
  /\ sock' = [sock EXCEPT ![Main] = Head(backlog)]
  /\ conn' = [conn EXCEPT ![Head(backlog)] = "accepted"]
  /\ backlog' = Tail(backlog)
  /\ pc' = [pc EXCEPT ![Main] = "lock"]
  /\ UNCHANGED <<ringVars, mutex, inbox, client, spurious>>

\* Mutation: a full ring makes main drop the socket instead of waiting.
PushDrop ==
  /\ pc[Main] = "check" /\ count = Capacity
  /\ mutex' = None
  /\ conn' = [conn EXCEPT ![sock[Main]] = "none"]
  /\ pc' = [pc EXCEPT ![Main] = "accept"]
  /\ UNCHANGED <<ringVars, sock, backlog, inbox, client, spurious>>

PushWait == Wait(Main, count = Capacity)

\* Mutation: the ring is not tested for being full.
PushStoreUnchecked ==
  /\ pc[Main] = "check"
  /\ data' = [data EXCEPT ![rear] = sock[Main]]
  /\ rear' = (rear + 1) % Capacity
  /\ pc' = [pc EXCEPT ![Main] = "count"]
  /\ UNCHANGED <<front, count, mutex, sock, netVars, spurious>>

PushStore ==
  /\ pc[Main] = "check" /\ count # Capacity
  /\ data' = [data EXCEPT ![rear] = sock[Main]]
  /\ rear' = (rear + 1) % Capacity
  /\ pc' = [pc EXCEPT ![Main] = "count"]
  /\ UNCHANGED <<front, count, mutex, sock, netVars, spurious>>

\* Mutation: queue_push signals cond_nonfull.
PushCountWrongCond ==
  /\ pc[Main] = "count"
  /\ count' = count + 1
  /\ SignalAndUnlock(Main, {Main}, "accept")
  /\ UNCHANGED <<data, front, rear, sock, netVars, spurious>>

PushCount ==
  /\ pc[Main] = "count"
  /\ count' = count + 1
  /\ SignalAndUnlock(Main, Workers, "accept")
  /\ UNCHANGED <<data, front, rear, sock, netVars, spurious>>

-----------------------------------------------------------------------------
(* worker_thread: queue_pop, then handle_client.                           *)

PopWait(w) == Wait(w, count = 0)

\* Mutation: the newest socket is taken.
PopNewest(w) ==
  /\ pc[w] = "check" /\ count # 0
  /\ rear' = (rear + Capacity - 1) % Capacity
  /\ sock' = [sock EXCEPT ![w] = data[rear']]
  /\ pc' = [pc EXCEPT ![w] = "count"]
  /\ UNCHANGED <<data, front, count, mutex, netVars, spurious>>

PopTake(w) ==
  /\ pc[w] = "check" /\ count # 0
  /\ sock' = [sock EXCEPT ![w] = data[front]]
  /\ front' = (front + 1) % Capacity
  /\ pc' = [pc EXCEPT ![w] = "count"]
  /\ UNCHANGED <<data, rear, count, mutex, netVars, spurious>>

PopCount(w) ==
  /\ pc[w] = "count"
  /\ count' = count - 1
  /\ SignalAndUnlock(w, {Main}, "send")
  /\ UNCHANGED <<data, front, rear, sock, netVars, spurious>>

Send(w) ==
  /\ pc[w] = "send"
  /\ inbox' = inbox \union {sock[w]}
  /\ conn' = [conn EXCEPT ![sock[w]] = "answered"]
  /\ pc' = [pc EXCEPT ![w] = "close"]
  /\ UNCHANGED <<ringVars, mutex, sock, backlog, client, spurious>>

Close(w) ==
  /\ pc[w] = "close"
  /\ conn' = [conn EXCEPT ![sock[w]] = "none"]
  /\ pc' = [pc EXCEPT ![w] = "lock"]
  /\ UNCHANGED <<ringVars, mutex, sock, backlog, inbox, client, spurious>>

-----------------------------------------------------------------------------
PushStep == PushWait \/ PushStore \/ PushCount
PopStep(w) == PopWait(w) \/ PopTake(w) \/ PopCount(w)
HandleStep(w) == Send(w) \/ Close(w)

Next == \/ \E c \in Clients : Connect(c) \/ Recv(c)
        \/ \E t \in Threads : Lock(t) \/ SpuriousWakeup(t)
        \/ Accept \/ PushStep
        \/ \E w \in Workers : PopStep(w) \/ HandleStep(w)

(* Every thread that can run is scheduled; the mutex is granted to one of  *)
(* the threads that want it, but not necessarily to each of them in turn.  *)
(* Clients are free not to connect; a connected one reads its answer.      *)
Fairness == /\ WF_vars(\E t \in Threads : Lock(t))
            /\ WF_vars(Accept) /\ WF_vars(PushStep)
            /\ \A w \in Workers : WF_vars(PopStep(w)) /\ WF_vars(HandleStep(w))
            /\ \A c \in Clients : WF_vars(Recv(c))

Spec == Init /\ [][Next]_vars /\ Fairness

-----------------------------------------------------------------------------
(* Properties.                                                             *)

(* A worker between front++ and count-- has already taken its socket, and  *)
(* main between rear++ and count++ has already stored its own: Filled      *)
(* counts the sockets that are really in the ring, Live(i) says whether    *)
(* slot i holds one.                                                       *)
MainStored == IF pc[Main] = "count" THEN 1 ELSE 0
WorkerTook == IF \E w \in Workers : pc[w] = "count" THEN 1 ELSE 0
Filled == count + MainStored - WorkerTook
Live(i) == \/ front <= i /\ i < front + Filled
           \/ i < front + Filled - Capacity

Holds(t) == IF t = Main THEN pc[t] \in {"lock", "check", "wait"}
                        ELSE pc[t] \in {"count", "send", "close"}

\* Where the server keeps the descriptor of c.
Places(c) == {<<"hand", t>> : t \in {u \in Threads : Holds(u) /\ sock[u] = c}}
             \union {<<"slot", i>> : i \in {j \in Slots : Live(j) /\ data[j] = c}}

(* Every variable has its type; count stays within the ring.               *)
TypeOK ==
  /\ data \in [Slots -> Clients \union {None}]
  /\ front \in Slots /\ rear \in Slots /\ count \in 0 .. Capacity
  /\ mutex \in Threads \union {None}
  /\ pc \in [Threads -> {"accept", "lock", "check", "wait", "count",
                         "send", "close"}]
  /\ sock \in [Threads -> Clients \union {None}]
  /\ backlog \in Seq(Clients)
  /\ conn \in [Clients -> {"none", "backlog", "accepted", "answered"}]
  /\ inbox \in SUBSET Clients
  /\ client \in [Clients -> {"idle", "waiting", "error"}]
  /\ spurious \in 0 .. MaxSpurious

(* An accepted descriptor that is not closed is in exactly one place: in   *)
(* main's hand, in one live slot of the ring, or in one worker's hand.     *)
(* None is lost (a client never served, a leaked descriptor) and none is   *)
(* handled by two workers (queue_push, queue_pop, handle_client).          *)
SocketOwnedOnce ==
  \A c \in Clients :
    IF conn[c] \in {"accepted", "answered"}
    THEN \E p \in Places(c) : Places(c) = {p}
    ELSE Places(c) = {}

(* No wakeup is lost: the workers do not all sleep on cond_nonempty while  *)
(* the ring has sockets, and main sleeps on cond_nonfull only while it is  *)
(* full.                                                                   *)
NoLostWakeup ==
  /\ count > 0 => \E w \in Workers : pc[w] # "wait"
  /\ pc[Main] = "wait" => count = Capacity

(* recv of client_thread never finds the connection closed without an      *)
(* answer.                                                                 *)
NoClientError == \A c \in Clients : client[c] # "error"

Contents == [i \in 1 .. Filled |-> data[(front + i - 1) % Capacity]]

(* The ring is a FIFO queue: a step appends the socket main has accepted,  *)
(* or hands the oldest socket to a worker, or leaves the queue alone.      *)
QueueIsFifo ==
  [][ \/ Contents' = Contents
      \/ Contents' = Append(Contents, sock[Main])
      \/ /\ Contents # <<>> /\ Contents' = Tail(Contents)
         /\ \E w \in Workers : sock' = [sock EXCEPT ![w] = Head(Contents)] ]_vars

Status == [c \in Clients |-> IF conn[c] \in {"backlog", "accepted"} THEN "waiting"
                             ELSE IF conn[c] = "answered" THEN "answered"
                             ELSE "idle"]

Abstract == INSTANCE TimeService WITH status <- Status, mayRefuse <- {}

(* The pool keeps the promise of TimeService: every accepted client is     *)
(* answered before it is hung up on, none is left waiting.                 *)
ImplementsTimeService == Abstract!Spec
=============================================================================
