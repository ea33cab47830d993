---------------------------- MODULE MultiServer ----------------------------
(***************************************************************************)
(* The server for two protocols and its client                             *)
(* (p2_server_template/multiprotocol_server).  The server waits with epoll *)
(* for a connection on the TCP socket or a datagram on the UDP socket of   *)
(* the same port.  A connection is accepted and read at once, and that     *)
(* read blocks: until the client has written or is gone nobody else is     *)
(* served, and datagrams collect in the bounded buffer of the UDP socket,  *)
(* which drops what does not fit.  The client says Hello over TCP and,     *)
(* after the answer, Hi over UDP, where it waits without a timeout.        *)
(***************************************************************************)
EXTENDS Integers, Sequences, FiniteSets

CONSTANTS Callers,          \* runs of the client program
          UdpSize,          \* datagrams that fit in the UDP socket's buffer
          Noone,            \* client_fd between two connections
          MaxHangups        \* bound: clients killed

ASSUME MultiAssumption ==
  /\ IsFiniteSet(Callers) /\ UdpSize \in Nat \ {0} /\ MaxHangups \in Nat
  /\ Noone \notin Callers

VARIABLES multi, events, client_fd,         \* the server: program point, what is
                                            \* left of events[], client_fd
          tcpBacklog, udpBuffer,            \* waiting in the two sockets
          caller,                           \* per client: its program point
          hello, salut, closed,             \* connections on which Hello was written,
                                            \* the answer was written, the server closed
          hiAnswered, hiDropped,            \* clients whose Hi was answered, dropped
          greeted, hangups                  \* clients that read the TCP answer

serverVars == <<multi, events, client_fd>>
socketVars == <<tcpBacklog, udpBuffer, hello, salut, closed, hiAnswered, hiDropped>>
multiVars == <<serverVars, socketVars, caller, greeted, hangups>>

MultiInit ==
  /\ multi = "epoll_wait" /\ events = {} /\ client_fd = Noone
  /\ tcpBacklog = <<>> /\ udpBuffer = <<>>
  /\ caller = [c \in Callers |-> "off"]
  /\ hello = {} /\ salut = {} /\ closed = {} /\ hiAnswered = {} /\ hiDropped = {}
  /\ greeted = {} /\ hangups = 0

-----------------------------------------------------------------------------
(* The client.                                                             *)

Goto(c, from, to) == caller[c] = from /\ caller' = [caller EXCEPT ![c] = to]

CallerConnect(c) ==
  /\ Goto(c, "off", "write")
  /\ tcpBacklog' = Append(tcpBacklog, c)
  /\ UNCHANGED <<serverVars, udpBuffer, hello, salut, closed, hiAnswered, hiDropped,
                 greeted, hangups>>

CallerWrite(c) ==
  /\ Goto(c, "write", "read")
  /\ hello' = hello \union {c}
  /\ UNCHANGED <<serverVars, tcpBacklog, udpBuffer, salut, closed, hiAnswered, hiDropped,
                 greeted, hangups>>

\* An answer or the end of the connection; the client goes on in both cases.
CallerRead(c) ==
  /\ c \in salut \union closed
  /\ Goto(c, "read", "send")
  /\ greeted' = greeted \union ({c} \intersect salut)
  /\ UNCHANGED <<serverVars, socketVars, hangups>>

CallerSend(c) ==
  /\ Goto(c, "send", "recv")
  /\ IF Len(udpBuffer) < UdpSize
     THEN udpBuffer' = Append(udpBuffer, c) /\ UNCHANGED hiDropped
     ELSE hiDropped' = hiDropped \union {c} /\ UNCHANGED udpBuffer
  /\ UNCHANGED <<serverVars, tcpBacklog, hello, salut, closed, hiAnswered, greeted, hangups>>

CallerRecv(c) ==
  /\ c \in hiAnswered
  /\ Goto(c, "recv", "done")
  /\ UNCHANGED <<serverVars, socketVars, greeted, hangups>>

\* The client is killed; its end of the connection is closed.
HangUpCaller(c) ==
  /\ hangups < MaxHangups /\ hangups' = hangups + 1
  /\ caller[c] \notin {"off", "done", "killed"}
  /\ caller' = [caller EXCEPT ![c] = "killed"]
  /\ UNCHANGED <<serverVars, socketVars, greeted>>

-----------------------------------------------------------------------------
(* The server.                                                             *)

Ready == {s \in {"tcp", "udp"} : IF s = "tcp" THEN tcpBacklog # <<>> ELSE udpBuffer # <<>>}

\* Level-triggered: everything that is ready now.
EpollWait ==
  /\ multi = "epoll_wait" /\ Ready # {}
  /\ events' = Ready
  /\ multi' = "events"
  /\ UNCHANGED <<client_fd, socketVars, caller, greeted, hangups>>

\* The event e is done; after the last one comes the next epoll_wait.
EventDone(e) ==
  /\ events' = events \ {e}
  /\ multi' = IF events' = {} THEN "epoll_wait" ELSE "events"

MultiAccept ==
  /\ multi = "events" /\ "tcp" \in events
  /\ client_fd' = Head(tcpBacklog)
  /\ tcpBacklog' = Tail(tcpBacklog)
  /\ multi' = "read"
  /\ UNCHANGED <<events, udpBuffer, hello, salut, closed, hiAnswered, hiDropped, caller,
                 greeted, hangups>>

\* Mutation: read is repeated until there is something to read.
MultiReadSome ==
  /\ multi = "read" /\ client_fd \in hello
  /\ salut' = salut \union {client_fd}
  /\ closed' = closed \union {client_fd}
  /\ client_fd' = Noone
  /\ EventDone("tcp")
  /\ UNCHANGED <<tcpBacklog, udpBuffer, hello, hiAnswered, hiDropped, caller, greeted, hangups>>

\* read blocks until Hello or the end of the connection is there.
MultiRead ==
  /\ multi = "read"
  /\ client_fd \in hello \/ caller[client_fd] = "killed"
  /\ salut' = salut \union ({client_fd} \intersect hello)
  /\ closed' = closed \union {client_fd}
  /\ client_fd' = Noone
  /\ EventDone("tcp")
  /\ UNCHANGED <<tcpBacklog, udpBuffer, hello, hiAnswered, hiDropped, caller, greeted, hangups>>

MultiRecvfrom ==
  /\ multi = "events" /\ "udp" \in events
  /\ hiAnswered' = hiAnswered \union {Head(udpBuffer)}
  /\ udpBuffer' = Tail(udpBuffer)
  /\ EventDone("udp")
  /\ UNCHANGED <<client_fd, tcpBacklog, hello, salut, closed, hiDropped, caller, greeted,
                 hangups>>

-----------------------------------------------------------------------------
MultiStep == EpollWait \/ MultiAccept \/ MultiRead \/ MultiRecvfrom
CallerStep(c) == CallerWrite(c) \/ CallerRead(c) \/ CallerSend(c) \/ CallerRecv(c)

MultiNext == \/ MultiStep
             \/ \E c \in Callers : CallerConnect(c) \/ CallerStep(c) \/ HangUpCaller(c)

(* Server and clients are scheduled; nobody has to start or to be killed.  *)
MultiFairness == /\ WF_multiVars(MultiStep)
                 /\ \A c \in Callers : WF_multiVars(CallerStep(c))

-----------------------------------------------------------------------------
(* Properties.                                                             *)

(* Every variable has its type; the UDP buffer stays within its size.      *)
MultiTypeOK ==
  /\ multi \in {"epoll_wait", "events", "read"} /\ events \subseteq {"tcp", "udp"}
  /\ client_fd \in Callers \union {Noone}
  /\ tcpBacklog \in Seq(Callers) /\ udpBuffer \in Seq(Callers) /\ Len(udpBuffer) <= UdpSize
  /\ caller \in [Callers -> {"off", "write", "read", "send", "recv", "done", "killed"}]
  /\ \A S \in {hello, salut, closed, hiAnswered, hiDropped, greeted} : S \subseteq Callers
  /\ hangups \in 0 .. MaxHangups

(* The server loses no client that lives: one that waits on its connection *)
(* is in the backlog, being read from or answered, none is turned away     *)
(* without the answer although the server closes every connection after    *)
(* one read, and one that waits for a datagram has its own in the buffer,  *)
(* answered or dropped.                                                    *)
CallersKept ==
  \A c \in Callers :
    /\ caller[c] \in {"write", "read"} =>
         \/ \E i \in DOMAIN tcpBacklog : tcpBacklog[i] = c
         \/ multi = "read" /\ client_fd = c
         \/ c \in salut
    /\ caller[c] \in {"send", "recv", "done"} => c \in greeted
    /\ caller[c] = "recv" => \/ \E i \in DOMAIN udpBuffer : udpBuffer[i] = c
                             \/ c \in hiAnswered \union hiDropped

(* Whoever starts the client gets both answers, although the server reads  *)
(* one connection at a time and blocks in it, also when another client is  *)
(* killed while it is read from.  The exceptions are the killed client and *)
(* one whose datagram came while the buffer was full.                      *)
BothAnswered ==
  \A c \in Callers : caller[c] = "write" ~> \/ caller[c] = "done" /\ c \in greeted
                                            \/ caller[c] = "killed"
                                            \/ caller[c] = "recv" /\ c \in hiDropped
=============================================================================
