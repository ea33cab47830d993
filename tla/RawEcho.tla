------------------------------- MODULE RawEcho -------------------------------
(***************************************************************************)
(* The echo service over raw sockets (final_hw_1).  A client builds whole  *)
(* frames by hand; the server answers a message with its text and a number *)
(* that counts the messages of that client, and "CLOSE" resets the number. *)
(* The server builds the answer in the buffer that still holds the         *)
(* request: Reply follows its assignments in order.                        *)
(*                                                                         *)
(* A client is its MAC and its IP address (its port is always CLIENT_PORT, *)
(* so the address alone is the key of the table).  A text is Close or      *)
(* the position of the line among those typed since the client started.    *)
(* Frames may be lost, and the packet sockets (ETH_P_ALL) also see frames  *)
(* of others.  The empty line is left out: whether the server sees it      *)
(* depends on the padding of the network card.                             *)
(***************************************************************************)
EXTENDS Integers, Sequences, FiniteSets

CONSTANTS Clients, Server,
          MaxClients,   \* length of clients[]
          None,         \* the zero address
          MaxSends,     \* bound: frames sent by all clients
          MaxLoss,      \* bound: frames lost
          MaxNoise      \* bound: frames of others

ASSUME LimitsAssumption == /\ MaxClients \in Nat \ {0}
                           /\ MaxSends \in Nat /\ MaxLoss \in Nat /\ MaxNoise \in Nat
ASSUME NamesAssumption == Server \notin Clients /\ None \notin Clients \union {Server}

VARIABLES table,          \* clients[]: a sequence of addresses and counters
          pc, typed,      \* per client: program point, lines typed in this run
          shown,          \* per client: what recvfrom let it print last
          net,            \* frames under way to each station
          sends, losses, noises,
          heard, number   \* per client: messages since CLOSE; last number sent

boundVars == <<sends, losses, noises>>
serverVars == <<table, heard, number>>
clientVars == <<pc, typed, shown>>
vars == <<serverVars, clientVars, net, boundVars>>

Stations == Clients \union {Server}
CLOSE == 0

Frame(dst, src, saddr, daddr, sport, dport, text, no) ==
  [dst |-> dst, src |-> src, saddr |-> saddr, daddr |-> daddr,
   source |-> sport, dest |-> dport, text |-> text, no |-> no]

Request(c, text) == Frame(Server, c, c, Server, "CLIENT_PORT", "SERVER_PORT", text, 0)

\* A frame that is not UDP, or is for other ports.
Foreign(x) == Frame(x, None, None, None, "other", "other", CLOSE, 0)

Send(x, f) == net' = [net EXCEPT ![x] = Append(@, f)]

Init == /\ table = <<>>
        /\ pc = [c \in Clients |-> "off"] /\ typed = [c \in Clients |-> 0]
        /\ shown = [c \in Clients |-> None]
        /\ net = [x \in Stations |-> <<>>]
        /\ sends = 0 /\ losses = 0 /\ noises = 0
        /\ heard = [c \in Clients |-> 0] /\ number = [c \in Clients |-> 0]

-----------------------------------------------------------------------------
(* The client.  A new socket starts with an empty queue.                   *)

Start(c) ==
  /\ pc[c] = "off"
  /\ pc' = [pc EXCEPT ![c] = "prompt"]
  /\ typed' = [typed EXCEPT ![c] = 0]
  /\ shown' = [shown EXCEPT ![c] = None]
  /\ net' = [net EXCEPT ![c] = <<>>]
  /\ UNCHANGED <<serverVars, boundVars>>

Type(c) ==
  /\ pc[c] = "prompt" /\ sends < MaxSends
  /\ typed' = [typed EXCEPT ![c] = @ + 1]
  /\ Send(Server, Request(c, typed[c] + 1))
  /\ sends' = sends + 1
  /\ pc' = [pc EXCEPT ![c] = "recvfrom"]
  /\ UNCHANGED <<serverVars, shown, losses, noises>>

TypeClose(c) ==
  /\ pc[c] = "prompt" /\ sends < MaxSends
  /\ Send(Server, Request(c, CLOSE))
  /\ sends' = sends + 1
  /\ pc' = [pc EXCEPT ![c] = "off"]
  /\ UNCHANGED <<serverVars, typed, shown, losses, noises>>

\* fgets returns NULL at the end of the input: the loop ends without CLOSE.
EndOfInput(c) ==
  /\ pc[c] = "prompt"
  /\ pc' = [pc EXCEPT ![c] = "off"]
  /\ UNCHANGED <<serverVars, typed, shown, net, boundVars>>

\* One recvfrom; a frame that fails the tests is dropped and the loop goes on.
ForClient(f) == f.source = "SERVER_PORT" /\ f.dest = "CLIENT_PORT"

Recv(c) ==
  /\ pc[c] = "recvfrom" /\ net[c] # <<>>
  /\ shown' = [shown EXCEPT ![c] = IF ForClient(Head(net[c])) THEN Head(net[c]) ELSE @]
  /\ pc' = [pc EXCEPT ![c] = "prompt"]
  /\ net' = [net EXCEPT ![c] = Tail(@)]
  /\ UNCHANGED <<serverVars, typed, boundVars>>

-----------------------------------------------------------------------------
(* The server.                                                             *)

ForServer(f) == f.source = "CLIENT_PORT" /\ f.dest = "SERVER_PORT"

Known(ip) == {i \in DOMAIN table : table[i].ip = ip}
find_client(ip) == IF Known(ip) = {} THEN 0 ELSE CHOOSE i \in Known(ip) : TRUE

\* A full table is left alone.
add_client(ip) ==
  IF Known(ip) # {} \/ Len(table) >= MaxClients THEN table
  ELSE Append(table, [ip |-> ip, counter |-> 0])

\* The entry main works with: the one found, or else the last one.
Entry(ip) == IF Known(ip) # {} THEN find_client(ip) ELSE Len(add_client(ip))

\* The buffer that holds f is turned into the answer, field by field.
Reply(f, no) ==
  LET eth == [f EXCEPT !.dst = f.src, !.src = Server]
      zero == [eth EXCEPT !.saddr = None, !.daddr = None]     \* memset(reply_ip)
      addr == [zero EXCEPT !.saddr = zero.daddr]              \* saddr = ip->daddr
      ip == [addr EXCEPT !.daddr = addr.saddr]                \* daddr = ip->saddr
      udp == [ip EXCEPT !.source = "SERVER_PORT"]
      port == [udp EXCEPT !.dest = udp.source]                \* dest = udp->source
  IN  [port EXCEPT !.no = no]

ServerDrop ==
  /\ net[Server] # <<>> /\ ~ForServer(Head(net[Server]))
  /\ net' = [net EXCEPT ![Server] = Tail(@)]
  /\ UNCHANGED <<serverVars, clientVars, boundVars>>

\* Mutation: CLOSE takes one message back instead of resetting the counter.
ServerCloseDecrement ==
  /\ net[Server] # <<>> /\ ForServer(Head(net[Server])) /\ Head(net[Server]).text = CLOSE
  /\ LET c == Head(net[Server]).saddr
     IN  /\ table' = [add_client(c) EXCEPT ![Entry(c)].counter = @ - 1]
         /\ heard' = [heard EXCEPT ![c] = 0]
         /\ number' = [number EXCEPT ![c] = 0]
  /\ net' = [net EXCEPT ![Server] = Tail(@)]
  /\ UNCHANGED <<clientVars, boundVars>>

ServerClose ==
  /\ net[Server] # <<>> /\ ForServer(Head(net[Server])) /\ Head(net[Server]).text = CLOSE
  /\ LET c == Head(net[Server]).saddr
     IN  /\ table' = [add_client(c) EXCEPT ![Entry(c)].counter = 0]
         /\ heard' = [heard EXCEPT ![c] = 0]
         /\ number' = [number EXCEPT ![c] = 0]
  /\ net' = [net EXCEPT ![Server] = Tail(@)]
  /\ UNCHANGED <<clientVars, boundVars>>

\* Mutation: the server answers only clients it has heard of before.
ServerEchoKnown ==
  /\ net[Server] # <<>> /\ ForServer(Head(net[Server])) /\ Head(net[Server]).text # CLOSE
  /\ LET f == Head(net[Server])
         c == f.saddr
         no == add_client(c)[Entry(c)].counter + 1
     IN  /\ table' = [add_client(c) EXCEPT ![Entry(c)].counter = no]
         /\ heard' = [heard EXCEPT ![c] = @ + 1]
         /\ number' = [number EXCEPT ![c] = no]
         /\ net' = [net EXCEPT ![Server] = Tail(@),
                               ![f.src] = IF Known(c) = {} THEN @ ELSE Append(@, Reply(f, no))]
  /\ UNCHANGED <<clientVars, boundVars>>

\* The answer goes to the MAC the request came from; a client that is off
\* does not listen.
ServerEcho ==
  /\ net[Server] # <<>> /\ ForServer(Head(net[Server])) /\ Head(net[Server]).text # CLOSE
  /\ LET f == Head(net[Server])
         c == f.saddr
         no == add_client(c)[Entry(c)].counter + 1
         answer == Reply(f, no)
     IN  /\ table' = [add_client(c) EXCEPT ![Entry(c)].counter = no]
         /\ heard' = [heard EXCEPT ![c] = @ + 1]
         /\ number' = [number EXCEPT ![c] = no]
         /\ net' = [net EXCEPT ![Server] = Tail(@),
                               ![answer.dst] = IF pc[answer.dst] = "off" THEN @
                                               ELSE Append(@, answer)]
  /\ UNCHANGED <<clientVars, boundVars>>

-----------------------------------------------------------------------------
(* The network.                                                            *)

Lose(x) ==
  /\ losses < MaxLoss /\ losses' = losses + 1
  /\ net[x] # <<>>
  /\ net' = [net EXCEPT ![x] = Tail(@)]
  /\ UNCHANGED <<serverVars, clientVars, sends, noises>>

Noise(x) ==
  /\ noises < MaxNoise /\ noises' = noises + 1
  /\ Send(x, Foreign(x))
  /\ UNCHANGED <<serverVars, clientVars, sends, losses>>

-----------------------------------------------------------------------------
ServerStep == ServerDrop \/ ServerClose \/ ServerEcho

Next == \/ \E c \in Clients : Start(c) \/ Type(c) \/ TypeClose(c) \/ EndOfInput(c) \/ Recv(c)
        \/ ServerStep
        \/ \E x \in Stations : Lose(x) \/ Noise(x)

(* The server reads what arrives, a client reads what it waits for.        *)
Fairness == WF_vars(ServerStep) /\ \A c \in Clients : WF_vars(Recv(c))

Spec == Init /\ [][Next]_vars /\ Fairness

-----------------------------------------------------------------------------
(* Properties.                                                             *)

Queued(x) == {net[x][i] : i \in DOMAIN net[x]}
Answers(c) == {f \in Queued(c) : f.src = Server}

(* Every variable has its type; the table stays within its length.         *)
TypeOK ==
  /\ Len(table) <= MaxClients
  /\ \A i \in DOMAIN table : table[i] \in [ip : Clients, counter : 0 .. MaxSends]
  /\ pc \in [Clients -> {"off", "prompt", "recvfrom"}]
  /\ typed \in [Clients -> 0 .. MaxSends]
  /\ \A x \in Stations : \A f \in Queued(x) : f.dst = x /\ f.no \in 0 .. MaxSends
  /\ heard \in [Clients -> 0 .. MaxSends] /\ number \in [Clients -> 0 .. MaxSends]
  /\ sends \in 0 .. MaxSends /\ losses \in 0 .. MaxLoss /\ noises \in 0 .. MaxNoise

(* The answer carries the number of the message among those the server has *)
(* received from this client since its last CLOSE, whatever the other      *)
(* clients send in between and however often the client's program ended    *)
(* without a CLOSE; no client is counted in two entries of the table.      *)
NumberedPerClient ==
  /\ \A c \in Clients : number[c] = heard[c]
  /\ \A i, j \in DOMAIN table : table[i].ip = table[j].ip => i = j

(* The server answers the client: its answers pass the client's tests.     *)
AnswersAccepted == \A c \in Clients : \A f \in Answers(c) : ForClient(f)

(* A client that has sent a line gets back to its prompt, unless a frame   *)
(* was lost: its recvfrom has no timeout.                                  *)
BackToPrompt ==
  \A c \in Clients : pc[c] = "recvfrom" ~> pc[c] = "prompt" \/ losses > 0
=============================================================================
