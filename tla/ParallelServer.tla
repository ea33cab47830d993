--------------------------- MODULE ParallelServer ---------------------------
(***************************************************************************)
(* The time server with a thread per client (p2_server_template/parallel   *)
(* server).  main allocates a cell for the descriptor, accepts into it and *)
(* hands the cell to a new detached thread, which copies the descriptor,   *)
(* frees the cell and answers.  Every thread formats the time through the  *)
(* one struct tm that localtime() returns (glibc's static buffer, which    *)
(* localtime fills under its own lock and strftime reads without it).      *)
(*                                                                         *)
(* The clock counts seconds; a time n is shown as a high part (n \div 2,   *)
(* the minutes) and a low part (n % 2, the seconds), which strftime reads  *)
(* one after the other.                                                    *)
(***************************************************************************)
EXTENDS Integers, Sequences, FiniteSets

CONSTANTS Clients,      \* connections, each with its descriptor
          Handlers,     \* threads the system can run at a time
          Cells,        \* memory malloc() can give
          Backlog,      \* BACKLOG of listen()
          None,
          MaxTime,      \* bound: the clock
          MaxFailures   \* bound: failures of accept()

ASSUME BoundsAssumption == Backlog \in Nat \ {0} /\ MaxTime \in Nat /\ MaxFailures \in Nat
ASSUME NoneAssumption == None \notin Clients \union Cells
ASSUME HandlersAssumption == "main" \notin Handlers     \* main is no handler thread

VARIABLES main,      \* main's program point: "malloc", "accept" or "create"
          cell,      \* main's client_sock pointer
          heap, mem, \* the allocated cells and what they hold
          pc, arg, sock, now, shown,   \* per handler thread
          tm,        \* localtime's static buffer
          clock, failures,
          backlog, conn, inbox, client \* as in ThreadPoolServer

mainVars == <<main, cell>>
heapVars == <<heap, mem>>
threadVars == <<pc, arg, sock, now, shown>>
netVars == <<backlog, conn, inbox, client>>
vars == <<mainVars, heapVars, threadVars, tm, clock, failures, netVars>>

Split(n) == [hi |-> n \div 2, lo |-> n % 2]
Value(t) == 2 * t.hi + t.lo

Init == /\ main = "malloc" /\ cell = None
        /\ heap = {} /\ mem = [p \in Cells |-> None]
        /\ pc = [t \in Handlers |-> "unborn"]
        /\ arg = [t \in Handlers |-> None]
        /\ sock = [t \in Handlers |-> None]
        /\ now = [t \in Handlers |-> 0]
        /\ shown = [t \in Handlers |-> Split(0)]
        /\ tm = Split(0) /\ clock = 0 /\ failures = 0
        /\ backlog = <<>> /\ inbox = {}
        /\ conn = [c \in Clients |-> "none"]
        /\ client = [c \in Clients |-> "idle"]

-----------------------------------------------------------------------------
(* The clients and the clock.                                              *)

Connect(c) ==
  /\ client[c] # "waiting" /\ conn[c] = "none"
  /\ Len(backlog) < Backlog
  /\ backlog' = Append(backlog, c)
  /\ conn' = [conn EXCEPT ![c] = "backlog"]
  /\ client' = [client EXCEPT ![c] = "waiting"]
  /\ UNCHANGED <<mainVars, heapVars, threadVars, tm, clock, failures, inbox>>

Recv(c) ==
  /\ client[c] = "waiting"
  /\ c \in inbox \/ conn[c] = "none"
  /\ client' = [client EXCEPT ![c] = IF c \in inbox THEN "idle" ELSE "error"]
  /\ inbox' = inbox \ {c}
  /\ UNCHANGED <<mainVars, heapVars, threadVars, tm, clock, failures, backlog, conn>>

Tick ==
  /\ clock < MaxTime
  /\ clock' = clock + 1
  /\ UNCHANGED <<mainVars, heapVars, threadVars, tm, failures, netVars>>

-----------------------------------------------------------------------------
(* main.                                                                   *)

\* malloc returns NULL, and main retries, while no cell is free.
Malloc ==
  /\ main = "malloc"
  /\ \E p \in Cells \ heap : cell' = p /\ heap' = heap \union {p}
  /\ main' = "accept"
  /\ UNCHANGED <<mem, threadVars, tm, clock, failures, netVars>>

Accept ==
  /\ main = "accept" /\ backlog # <<>>
  /\ mem' = [mem EXCEPT ![cell] = Head(backlog)]
  /\ conn' = [conn EXCEPT ![Head(backlog)] = "accepted"]
  /\ backlog' = Tail(backlog)
  /\ main' = "create"
  /\ UNCHANGED <<cell, heap, threadVars, tm, clock, failures, inbox, client>>

\* Mutation: the result of accept is not tested.
AcceptUntested ==
  /\ failures < MaxFailures /\ failures' = failures + 1
  /\ main = "accept"
  /\ mem' = [mem EXCEPT ![cell] = None]
  /\ main' = "create"
  /\ UNCHANGED <<cell, heap, threadVars, tm, clock, netVars>>

AcceptFails ==
  /\ failures < MaxFailures /\ failures' = failures + 1
  /\ main = "accept"
  /\ mem' = [mem EXCEPT ![cell] = None]
  /\ heap' = heap \ {cell}
  /\ main' = "malloc"
  /\ UNCHANGED <<cell, threadVars, tm, clock, netVars>>

\* pthread_create and pthread_detach.
Create(t) ==
  /\ main = "create" /\ pc[t] = "unborn"
  /\ pc' = [pc EXCEPT ![t] = "start"]
  /\ arg' = [arg EXCEPT ![t] = cell]
  /\ main' = "malloc"
  /\ UNCHANGED <<cell, heapVars, sock, now, shown, tm, clock, failures, netVars>>

\* Mutations of the error path: the cell, or the descriptor, is forgotten.
CreateFailsLeakCell ==
  /\ main = "create"
  /\ conn' = [conn EXCEPT ![mem[cell]] = "none"]
  /\ main' = "malloc"
  /\ UNCHANGED <<cell, heapVars, threadVars, tm, clock, failures, backlog, inbox, client>>
CreateFailsLeakSocket ==
  /\ main = "create"
  /\ heap' = heap \ {cell}
  /\ main' = "malloc"
  /\ UNCHANGED <<cell, mem, threadVars, tm, clock, failures, netVars>>

\* pthread_create may fail at any time, and does when no thread is left.
CreateFails ==
  /\ main = "create"
  /\ conn' = [conn EXCEPT ![mem[cell]] = "none"]
  /\ heap' = heap \ {cell}
  /\ main' = "malloc"
  /\ UNCHANGED <<cell, mem, threadVars, tm, clock, failures, backlog, inbox, client>>

-----------------------------------------------------------------------------
(* client_handler.                                                         *)

\* client_sock = *(int*)arg; free(arg)
Start(t) ==
  /\ pc[t] = "start"
  /\ sock' = [sock EXCEPT ![t] = mem[arg[t]]]
  /\ heap' = heap \ {arg[t]}
  /\ pc' = [pc EXCEPT ![t] = "time"]
  /\ UNCHANGED <<mainVars, mem, arg, now, shown, tm, clock, failures, netVars>>

Time(t) ==
  /\ pc[t] = "time"
  /\ now' = [now EXCEPT ![t] = clock]
  /\ pc' = [pc EXCEPT ![t] = "localtime"]
  /\ UNCHANGED <<mainVars, heapVars, arg, sock, shown, tm, clock, failures, netVars>>

Localtime(t) ==
  /\ pc[t] = "localtime"
  /\ tm' = Split(now[t])
  /\ pc' = [pc EXCEPT ![t] = "strftime"]
  /\ UNCHANGED <<mainVars, heapVars, arg, sock, now, shown, clock, failures, netVars>>

\* strftime copies the high part of tm, then the low part.
StrftimeHi(t) ==
  /\ pc[t] = "strftime"
  /\ shown' = [shown EXCEPT ![t].hi = tm.hi]
  /\ pc' = [pc EXCEPT ![t] = "strftime2"]
  /\ UNCHANGED <<mainVars, heapVars, arg, sock, now, tm, clock, failures, netVars>>

StrftimeLo(t) ==
  /\ pc[t] = "strftime2"
  /\ shown' = [shown EXCEPT ![t].lo = tm.lo]
  /\ pc' = [pc EXCEPT ![t] = "send"]
  /\ UNCHANGED <<mainVars, heapVars, arg, sock, now, tm, clock, failures, netVars>>

\* Mutation: the thread closes without having sent.
SendNothing(t) ==
  /\ pc[t] = "send"
  /\ pc' = [pc EXCEPT ![t] = "close"]
  /\ UNCHANGED <<mainVars, heapVars, arg, sock, now, shown, tm, clock, failures, netVars>>

Send(t) ==
  /\ pc[t] = "send"
  /\ inbox' = inbox \union {sock[t]}
  /\ conn' = [conn EXCEPT ![sock[t]] = "answered"]
  /\ pc' = [pc EXCEPT ![t] = "close"]
  /\ UNCHANGED <<mainVars, heapVars, arg, sock, now, shown, tm, clock, failures,
                 backlog, client>>

\* close, pthread_exit; what the thread had on its stack is gone.
Close(t) ==
  /\ pc[t] = "close"
  /\ conn' = [conn EXCEPT ![sock[t]] = "none"]
  /\ pc' = [pc EXCEPT ![t] = "unborn"]
  /\ arg' = [arg EXCEPT ![t] = None]
  /\ sock' = [sock EXCEPT ![t] = None]
  /\ now' = [now EXCEPT ![t] = 0]
  /\ shown' = [shown EXCEPT ![t] = Split(0)]
  /\ UNCHANGED <<mainVars, heapVars, tm, clock, failures, backlog, inbox, client>>

-----------------------------------------------------------------------------
CreateStep == CreateFails \/ \E t \in Handlers : Create(t)
HandlerStep(t) == \/ Start(t) \/ Time(t) \/ Localtime(t) \/ StrftimeHi(t)
                  \/ StrftimeLo(t) \/ Send(t) \/ Close(t)

Next == \/ \E c \in Clients : Connect(c) \/ Recv(c)
        \/ Tick
        \/ Malloc \/ Accept \/ AcceptFails \/ CreateStep
        \/ \E t \in Handlers : HandlerStep(t)

(* Every thread that can run is scheduled, and a connected client reads.   *)
Fairness == /\ WF_vars(Malloc) /\ WF_vars(Accept) /\ WF_vars(CreateStep)
            /\ \A t \in Handlers : WF_vars(HandlerStep(t))
            /\ \A c \in Clients : WF_vars(Recv(c))

Spec == Init /\ [][Next]_vars /\ Fairness

-----------------------------------------------------------------------------
(* Properties.                                                             *)

(* Every variable has its type.                                            *)
TypeOK ==
  /\ main \in {"malloc", "accept", "create"} /\ cell \in Cells \union {None}
  /\ heap \in SUBSET Cells /\ mem \in [Cells -> Clients \union {None}]
  /\ pc \in [Handlers -> {"unborn", "start", "time", "localtime", "strftime",
                          "strftime2", "send", "close"}]
  /\ arg \in [Handlers -> Cells \union {None}]
  /\ sock \in [Handlers -> Clients \union {None}]
  /\ now \in [Handlers -> 0 .. MaxTime]
  /\ shown \in [Handlers -> [hi : 0 .. MaxTime, lo : 0 .. 1]]
  /\ tm \in [hi : 0 .. MaxTime, lo : 0 .. 1]
  /\ clock \in 0 .. MaxTime /\ failures \in 0 .. MaxFailures
  /\ backlog \in Seq(Clients) /\ inbox \in SUBSET Clients
  /\ conn \in [Clients -> {"none", "backlog", "accepted", "answered"}]
  /\ client \in [Clients -> {"idle", "waiting", "error"}]

CellOwners(p) == {t \in Handlers : pc[t] = "start" /\ arg[t] = p}
                 \union (IF main \in {"accept", "create"} /\ cell = p THEN {"main"} ELSE {})

(* An allocated cell belongs to main or to one thread that has not started *)
(* yet, never to both, and a free cell to nobody: no use after free, no    *)
(* double free, and no leak on the error paths of main.                    *)
CellOwnedOnce ==
  \A p \in Cells : Cardinality(CellOwners(p)) = IF p \in heap THEN 1 ELSE 0

SocketOwners(c) ==
  {t \in Handlers : \/ pc[t] = "start" /\ mem[arg[t]] = c
                    \/ pc[t] \notin {"unborn", "start"} /\ sock[t] = c}
  \union (IF main = "create" /\ mem[cell] = c THEN {"main"} ELSE {})

(* An accepted descriptor that is not closed is handled by main or by one  *)
(* thread; a closed one by nobody.                                         *)
SocketHandledOnce ==
  \A c \in Clients : Cardinality(SocketOwners(c)) =
                       IF conn[c] \in {"accepted", "answered"} THEN 1 ELSE 0

Status == [c \in Clients |-> IF conn[c] \in {"backlog", "accepted"} THEN "waiting"
                             ELSE IF conn[c] = "answered" THEN "answered"
                             ELSE "idle"]

\* The client main has accepted and has no thread for yet.
Unhandled == IF main = "create" THEN {mem[cell]} ELSE {}

Abstract == INSTANCE TimeService WITH status <- Status, mayRefuse <- Unhandled

(* The server keeps the promise of TimeService, refusing a client it has   *)
(* accepted only where main finds that no thread can be created for it: a  *)
(* client that has got a thread is answered before it is hung up on.       *)
ImplementsTimeService == Abstract!Spec

(* The reply is the system's current time: no earlier than the thread's    *)
(* call of time() and no later than the moment it is sent.                 *)
ReplyIsCurrent ==
  \A t \in Handlers : pc[t] = "send" => now[t] <= Value(shown[t]) /\ Value(shown[t]) <= clock
=============================================================================
