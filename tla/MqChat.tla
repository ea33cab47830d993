------------------------------- MODULE MqChat -------------------------------
(***************************************************************************)
(* The chat over POSIX message queues (hw13_mqueue/part2).  The server     *)
(* reads its own queue: a registration makes it open the client's queue by *)
(* name and send the new list of clients to all, a text is sent to all.    *)
(* Queues are bounded, and mq_send blocks on a full one.  A client that    *)
(* leaves unlinks its queue but never deregisters: the server goes on      *)
(* sending into the unlinked queue, which nobody reads.                    *)
(*                                                                         *)
(* A queue is a pair of a user and the number of its run, because a queue  *)
(* that is unlinked and created again under its old name is another one.   *)
(* A text is its position in the order of posting; a list of clients is    *)
(* its length, since the table only grows.  clients_mutex and              *)
(* ncurses_mutex protect single steps: the server has one thread, and      *)
(* drawing is one step.                                                    *)
(***************************************************************************)
EXTENDS Integers, Sequences, FiniteSets, SequencesExt

CONSTANTS Users,
          MaxClients,   \* MAX_CLIENTS
          MaxMsg,       \* mq_maxmsg
          MaxPosts,     \* bound: texts posted
          MaxRuns       \* bound: times each user starts the client

ASSUME LimitsAssumption == /\ MaxClients \in Nat \ {0} /\ MaxMsg \in Nat \ {0}
                           /\ MaxPosts \in Nat /\ MaxRuns \in Nat \ {0}
ASSUME UsersAssumption == IsFiniteSet(Users)

VARIABLES chat_queue,             \* the server's queue
          queue,                  \* every queue of a client ever created
          clients,                \* clients[]: the queues the server has open
          server, msg, next,      \* server: program point, message, loop index
          pc, run,                \* per user: main, number of this run
          posted, handled,        \* the last texts posted and taken up by the server
          got                     \* per user: messages received in this run

serverVars == <<clients, server, msg, next, handled>>
vars == <<chat_queue, queue, serverVars, pc, run, posted, got>>

Queues == Users \X (1 .. MaxRuns)
Current(u) == <<u, run[u]>>
Message(type, no) == [type |-> type, no |-> no]
Registration(u) == [type |-> "registration", user |-> u, no |-> 0]
Text(u, no) == [type |-> "text", user |-> u, no |-> no]
\* chat_message_t as the clients and as the server send it.
Posts == [type : {"registration", "text"}, user : Users, no : 0 .. MaxPosts]
Messages == [type : {"list", "text"}, no : Nat]

Init == /\ chat_queue = <<>> /\ queue = [q \in Queues |-> <<>>]
        /\ clients = <<>> /\ server = "receive" /\ msg = Message("list", 0) /\ next = 1
        /\ pc = [u \in Users |-> "out"] /\ run = [u \in Users |-> 0]
        /\ posted = 0 /\ handled = 0
        /\ got = [u \in Users |-> <<>>]

-----------------------------------------------------------------------------
(* The client.                                                             *)

\* mq_unlink, mq_open with O_CREAT: a new, empty queue.
Start(u) ==
  /\ pc[u] = "out" /\ run[u] < MaxRuns
  /\ run' = [run EXCEPT ![u] = @ + 1]
  /\ pc' = [pc EXCEPT ![u] = "register"]
  /\ got' = [got EXCEPT ![u] = <<>>]
  /\ UNCHANGED <<chat_queue, queue, serverVars, posted>>

Register(u) ==
  /\ pc[u] = "register" /\ Len(chat_queue) < MaxMsg
  /\ chat_queue' = Append(chat_queue, Registration(u))
  /\ pc' = [pc EXCEPT ![u] = "typing"]
  /\ UNCHANGED <<queue, serverVars, run, posted, got>>

TypeLine(u) ==
  /\ pc[u] = "typing" /\ posted + Cardinality({v \in Users : pc[v] = "send"}) < MaxPosts
  /\ pc' = [pc EXCEPT ![u] = "send"]
  /\ UNCHANGED <<chat_queue, queue, serverVars, run, posted, got>>

Send(u) ==
  /\ pc[u] = "send" /\ Len(chat_queue) < MaxMsg
  /\ chat_queue' = Append(chat_queue, Text(u, posted + 1))
  /\ posted' = posted + 1
  /\ pc' = [pc EXCEPT ![u] = "typing"]
  /\ UNCHANGED <<queue, serverVars, run, got>>

\* "q": main cancels the receive thread, which dies in mq_receive or while it
\* draws, and joins it.
Quit(u) ==
  /\ pc[u] = "typing"
  /\ pc' = [pc EXCEPT ![u] = "close"]
  /\ UNCHANGED <<chat_queue, queue, serverVars, run, posted, got>>

\* mq_close, mq_unlink.
Leave(u) ==
  /\ pc[u] = "close"
  /\ pc' = [pc EXCEPT ![u] = "out"]
  /\ UNCHANGED <<chat_queue, queue, serverVars, run, posted, got>>

\* Mutation: main keeps ncurses_mutex while it sends, and the thread waits for it.
ReceiveOutsideSend(u) ==
  /\ pc[u] = "typing"
  /\ queue[Current(u)] # <<>>
  /\ got' = [got EXCEPT ![u] = Append(@, Head(queue[Current(u)]))]
  /\ queue' = [queue EXCEPT ![Current(u)] = Tail(@)]
  /\ UNCHANGED <<chat_queue, serverVars, pc, run, posted>>

\* receive_thread: it runs from the registration to "q".
Receive(u) ==
  /\ pc[u] \in {"typing", "send"}
  /\ queue[Current(u)] # <<>>
  /\ got' = [got EXCEPT ![u] = Append(@, Head(queue[Current(u)]))]
  /\ queue' = [queue EXCEPT ![Current(u)] = Tail(@)]
  /\ UNCHANGED <<chat_queue, serverVars, pc, run, posted>>

-----------------------------------------------------------------------------
(* The server.                                                             *)

\* The queue of that name exists from Start to Leave.
Exists(u) == pc[u] # "out"
\* Mutation: the limit of the table is not tested.
CanAddUnlimited(u) == Exists(u)

CanAdd(u) == Len(clients) < MaxClients /\ Exists(u)

StartBroadcast(m) == server' = "send" /\ msg' = m /\ next' = 1

\* add_client succeeds: the new list goes to all, the new client included.
ServerRegister ==
  /\ server = "receive" /\ chat_queue # <<>>
  /\ Head(chat_queue).type = "registration"
  /\ LET u == Head(chat_queue).user
     IN  /\ CanAdd(u)
         /\ clients' = Append(clients, Current(u))
  /\ StartBroadcast(Message("list", Len(clients) + 1))
  /\ chat_queue' = Tail(chat_queue)
  /\ UNCHANGED <<queue, handled, pc, run, posted, got>>

\* "Failed to add client": the client is not told.
ServerRegisterFails ==
  /\ server = "receive" /\ chat_queue # <<>>
  /\ Head(chat_queue).type = "registration"
  /\ ~CanAdd(Head(chat_queue).user)
  /\ chat_queue' = Tail(chat_queue)
  /\ UNCHANGED <<queue, serverVars, pc, run, posted, got>>

ServerText ==
  /\ server = "receive" /\ chat_queue # <<>>
  /\ Head(chat_queue).type = "text"
  /\ StartBroadcast(Message("text", Head(chat_queue).no))
  /\ handled' = Head(chat_queue).no
  /\ chat_queue' = Tail(chat_queue)
  /\ UNCHANGED <<queue, clients, pc, run, posted, got>>

\* Mutation: a full queue is skipped instead of waited for.
ServerSendOrSkip ==
  /\ server = "send" /\ next <= Len(clients)
  /\ queue' = [queue EXCEPT ![clients[next]] = IF Len(@) < MaxMsg THEN Append(@, msg) ELSE @]
  /\ next' = next + 1
  /\ UNCHANGED <<chat_queue, clients, server, msg, handled, pc, run, posted, got>>

\* Mutation: the loop stops one client short.
ServerSendShort ==
  /\ server = "send" /\ next <= Len(clients)
  /\ Len(queue[clients[next]]) < MaxMsg
  /\ queue' = [queue EXCEPT ![clients[next]] = IF next < Len(clients) THEN Append(@, msg)
                                               ELSE @]
  /\ next' = next + 1
  /\ UNCHANGED <<chat_queue, clients, server, msg, handled, pc, run, posted, got>>

\* mq_send blocks while the queue is full.
ServerSend ==
  /\ server = "send" /\ next <= Len(clients)
  /\ Len(queue[clients[next]]) < MaxMsg
  /\ queue' = [queue EXCEPT ![clients[next]] = Append(@, msg)]
  /\ next' = next + 1
  /\ UNCHANGED <<chat_queue, clients, server, msg, handled, pc, run, posted, got>>

\* The locals of the broadcast are gone.
ServerDone ==
  /\ server = "send" /\ next > Len(clients)
  /\ server' = "receive" /\ msg' = Message("list", 0) /\ next' = 1
  /\ UNCHANGED <<chat_queue, queue, clients, handled, pc, run, posted, got>>

-----------------------------------------------------------------------------
ServerStep == \/ ServerRegister \/ ServerRegisterFails \/ ServerText
              \/ ServerSend \/ ServerDone

Next == \/ \E u \in Users : \/ Start(u) \/ Register(u) \/ TypeLine(u) \/ Send(u)
                            \/ Quit(u) \/ Leave(u) \/ Receive(u)
        \/ ServerStep

(* The server and the receive threads run, and a client that closes its    *)
(* queue comes to its end; nobody has to start, to type or to quit.        *)
Fairness == /\ WF_vars(ServerStep)
            /\ \A u \in Users : WF_vars(Receive(u)) /\ WF_vars(Leave(u))

Spec == Init /\ [][Next]_vars /\ Fairness

-----------------------------------------------------------------------------
(* Properties.                                                             *)

(* Every variable has its type; no queue and not the table overflow.       *)
TypeOK ==
  /\ chat_queue \in Seq(Posts) /\ Len(chat_queue) <= MaxMsg
  /\ queue \in [Queues -> Seq(Messages)] /\ \A q \in Queues : Len(queue[q]) <= MaxMsg
  /\ clients \in Seq(Queues) /\ Len(clients) <= MaxClients
  /\ server \in {"receive", "send"} /\ msg \in Messages /\ next \in 1 .. MaxClients + 1
  /\ pc \in [Users -> {"out", "register", "typing", "send", "close"}]
  /\ run \in [Users -> 0 .. MaxRuns] /\ got \in [Users -> Seq(Messages)]
  /\ posted \in 0 .. MaxPosts /\ handled \in 0 .. MaxPosts

Chatting(u) == pc[u] \in {"typing", "send"}
Registered(u) == Exists(u) /\ Current(u) \in Range(clients)

\* The messages a user has received in this run or will receive from its queue,
\* and where in them the texts are.
Stream(u) == got[u] \o queue[Current(u)]
Texts(s) == {i \in 1 .. Len(s) : s[i].type = "text"}
\* The texts of s are in order, none after h, and from the first of them to f
\* none is missing.
Ordered(s, h, f) ==
  \A i \in Texts(s) :
    /\ s[i].no <= h
    /\ \A j \in Texts(s) : i < j => s[i].no <= s[j].no
    /\ \A k \in s[i].no .. f : \E j \in Texts(s) : s[j].no = k

(* All clients see the texts in one order, the order of posting, and each  *)
(* sees all of them from its registration on: its stream never goes back   *)
(* and, from its first text on, has every text the server has finished,    *)
(* whatever queues were full or abandoned.  (A text can come twice: a      *)
(* client that leaves and starts again before the server has read its      *)
(* first registration ends up with two entries for its new queue.)         *)
TotalOrder ==
  \A u \in Users : Chatting(u) =>
    Ordered(Stream(u), handled, IF server = "receive" THEN handled ELSE handled - 1)

(* When a broadcast ends, every client that is registered then has its     *)
(* message in the window or in the queue, however many have left, have     *)
(* come back or have let their queues fill up in the meantime.             *)
BroadcastReachesAll ==
  [][ServerDone => \A u \in Users : Registered(u) => msg \in Range(Stream(u))]_vars

\* Nobody reads the queue: its client has left, or still waits to register.
Unread(q) == pc[q[1]] \in {"out", "register"} \/ run[q[1]] # q[2]
StuckOnUnread == /\ server = "send" /\ next <= Len(clients)
                 /\ Len(queue[clients[next]]) = MaxMsg /\ Unread(clients[next])

(* A broadcast comes to its end unless it meets a full queue that nobody   *)
(* reads: that of a client that has left, or of one that was started again *)
(* before the server read its first registration and now waits to send the *)
(* second one, its receive thread not yet running.  Full queues of other   *)
(* clients only delay the server.                                          *)
BroadcastEnds == server = "send" ~> server = "receive" \/ StuckOnUnread

Departed == \E u \in Users : run[u] > 1 \/ (run[u] = 1 /\ pc[u] = "out")

(* As long as nobody has left, a text the server has taken up reaches      *)
(* every client that is registered then, its sender included.              *)
EveryoneHears ==
  \A u \in Users : \A k \in 1 .. MaxPosts :
    server = "send" /\ msg = Message("text", k) /\ Registered(u)
      ~> Message("text", k) \in Range(got[u]) \/ Departed
=============================================================================
