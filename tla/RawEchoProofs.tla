--------------------------- MODULE RawEchoProofs ---------------------------
(***************************************************************************)
(* Proofs about RawEcho for any number of clients, any length of the       *)
(* table, and any frames lost or added.                                    *)
(*                                                                         *)
(* That no counter passes the number of frames sent is a fact about the    *)
(* server's queue.  Budget states it without counting: the requests in the *)
(* queue can be ranked among the frames ever sent, in their order, so that *)
(* every counter is below the rank of every request still to come.         *)
(*                                                                         *)
(* The numbers are right only while the table has room for every client    *)
(* (Fits): the server counts a client it cannot enter in the last entry.   *)
(***************************************************************************)
EXTENDS RawEcho, FiniteSetTheorems, TLAPS

Ports == {"CLIENT_PORT", "SERVER_PORT", "other"}
Frames == [dst : Stations, src : Stations \union {None}, saddr : Stations \union {None},
           daddr : Stations \union {None}, source : Ports, dest : Ports, text : Nat,
           no : 0 .. MaxSends]
TableEntries == [ip : Clients, counter : 0 .. MaxSends]

QueueType == net \in [Stations -> Seq(Frames)] /\ table \in Seq(TableEntries)

\* A queue holds what is addressed to its station; a request names its sender.
Addressed ==
  /\ \A x \in Stations : \A i \in 1 .. Len(net[x]) : net[x][i].dst = x
  /\ \A i \in 1 .. Len(net[Server]) : ForServer(net[Server][i]) =>
       net[Server][i].saddr \in Clients /\ net[Server][i].src = net[Server][i].saddr

Distinct == \A i, j \in DOMAIN table : table[i].ip = table[j].ip => i = j

Below(n) == /\ \A c \in Clients : heard[c] <= n /\ number[c] <= n
            /\ \A i \in DOMAIN table : table[i].counter <= n
Ranked(r) ==
  /\ r \in [1 .. Len(net[Server]) -> 0 .. sends]
  /\ \A i \in 1 .. Len(net[Server]) : ForServer(net[Server][i]) =>
       /\ Below(r[i] - 1)
       /\ \A j \in 1 .. Len(net[Server]) : i < j /\ ForServer(net[Server][j]) => r[i] < r[j]
Budget == /\ \A c \in Clients : typed[c] <= sends
          /\ Below(sends)
          /\ \E r : Ranked(r)

TInv == TypeOK /\ QueueType /\ Addressed /\ Distinct /\ Budget

Fits == IsFiniteSet(Clients) /\ Cardinality(Clients) <= MaxClients

\* Every client is counted in its own entry.
Counted == /\ \A c \in Clients : number[c] = heard[c] /\ (Known(c) = {} => heard[c] = 0)
           /\ \A i \in DOMAIN table : table[i].counter = heard[table[i].ip]

-----------------------------------------------------------------------------
(* Requests, foreign frames and answers are frames.                        *)
LEMMA RequestType ==
  ASSUME NEW c \in Clients, NEW n \in Nat
  PROVE  /\ Request(c, n) \in Frames /\ ForServer(Request(c, n))
         /\ Request(c, n).dst = Server /\ Request(c, n).src = c /\ Request(c, n).saddr = c
BY LimitsAssumption DEF Request, Frame, Frames, Ports, Stations, ForServer

LEMMA ForeignType ==
  ASSUME NEW x \in Stations
  PROVE  Foreign(x) \in Frames /\ ~ForServer(Foreign(x)) /\ Foreign(x).dst = x
BY LimitsAssumption DEF Foreign, Frame, Frames, Ports, Stations, ForServer, CLOSE

(* The answer goes to the station the request came from.                   *)
LEMMA ReplyType ==
  ASSUME NEW f \in Frames, NEW n \in 0 .. MaxSends, f.src \in Clients
  PROVE  Reply(f, n) \in Frames /\ Reply(f, n).dst = f.src /\ Reply(f, n).no = n
<1> DEFINE F(d, s, sa, da, so, de, te, no) ==
             [dst |-> d, src |-> s, saddr |-> sa, daddr |-> da,
              source |-> so, dest |-> de, text |-> te, no |-> no]
<1>1. PICK d, s, sa, da, so, de, te, no : f = F(d, s, sa, da, so, de, te, no)
  BY DEF Frames
<1>2. s = f.src /\ te = f.text /\ te \in Nat
  BY <1>1 DEF Frames
<1>3. [f EXCEPT !.dst = f.src, !.src = Server] = F(s, Server, sa, da, so, de, te, no)
  <2>1. [f EXCEPT !.dst = f.src, !.src = Server] = [[f EXCEPT !.dst = f.src] EXCEPT !.src = Server]
    OBVIOUS
  <2>2. [f EXCEPT !.dst = f.src] = F(s, s, sa, da, so, de, te, no)
    BY <1>1
  <2>3. [F(s, s, sa, da, so, de, te, no) EXCEPT !.src = Server] = F(s, Server, sa, da, so, de, te, no)
    OBVIOUS
  <2> HIDE DEF F
  <2> QED BY <2>1, <2>2, <2>3
<1>4. [F(s, Server, sa, da, so, de, te, no) EXCEPT !.saddr = None, !.daddr = None]
        = F(s, Server, None, None, so, de, te, no)
  <2> DEFINE z == F(s, Server, sa, da, so, de, te, no)
  <2>1. [z EXCEPT !.saddr = None, !.daddr = None] = [[z EXCEPT !.saddr = None] EXCEPT !.daddr = None]
    OBVIOUS
  <2>2. [z EXCEPT !.saddr = None] = F(s, Server, None, da, so, de, te, no)
    OBVIOUS
  <2>3. [F(s, Server, None, da, so, de, te, no) EXCEPT !.daddr = None]
          = F(s, Server, None, None, so, de, te, no)
    OBVIOUS
  <2> HIDE DEF F
  <2> QED BY <2>1, <2>2, <2>3
<1> DEFINE eth == [f EXCEPT !.dst = f.src, !.src = Server]
           zero == [eth EXCEPT !.saddr = None, !.daddr = None]
           addr == [zero EXCEPT !.saddr = zero.daddr]
           ip == [addr EXCEPT !.daddr = addr.saddr]
           udp == [ip EXCEPT !.source = "SERVER_PORT"]
           port == [udp EXCEPT !.dest = udp.source]
<1>5. Reply(f, n) = [port EXCEPT !.no = n]
  BY Zenon DEF Reply
<1>6. zero = F(s, Server, None, None, so, de, te, no)
  <2> HIDE DEF F
  <2> QED BY <1>3, <1>4
<1> HIDE DEF zero
<1>7. addr = zero
  BY <1>6
<1> HIDE DEF addr
<1>8. ip = zero
  BY <1>6, <1>7
<1> HIDE DEF ip
<1>9. udp = F(s, Server, None, None, "SERVER_PORT", de, te, no)
  BY <1>6, <1>8
<1> HIDE DEF udp
<1>10. port = F(s, Server, None, None, "SERVER_PORT", "SERVER_PORT", te, no)
  BY <1>9
<1> HIDE DEF port
<1>11. Reply(f, n) = F(s, Server, None, None, "SERVER_PORT", "SERVER_PORT", te, n)
  BY <1>5, <1>10
<1> QED BY <1>2, <1>11 DEF Frames, Ports, Stations

(* At the start nothing is counted and nothing is under way.               *)
LEMMA InitTInv == Init => TInv
<1> SUFFICES ASSUME Init PROVE TInv
  OBVIOUS
<1> USE LimitsAssumption DEF Init, Stations
<1>1. QueueType /\ Distinct /\ Len(table) = 0 /\ \A x \in Stations : Len(net[x]) = 0
  BY DEF QueueType, Distinct
<1>2. TypeOK
  BY <1>1 DEF TypeOK, Queued
<1>3. Addressed
  BY <1>1 DEF Addressed
<1>4. Budget
  <2>1. Below(sends) /\ \A c \in Clients : typed[c] <= sends
    BY <1>1 DEF Below
  <2>2. Ranked([i \in 1 .. Len(net[Server]) |-> 0])
    BY <1>1 DEF Ranked
  <2> QED BY <2>1, <2>2 DEF Budget
<1> QED BY <1>1, <1>2, <1>3, <1>4 DEF TInv

-----------------------------------------------------------------------------
(* What a step does to the queues: the parts of TInv it must show.         *)

(* add_client enters a client once, and the entry main works with exists.  *)
LEMMA AddClient ==
  ASSUME TInv, NEW c \in Clients
  PROVE  /\ add_client(c) \in Seq(TableEntries) /\ Len(add_client(c)) <= MaxClients
         /\ Entry(c) \in 1 .. Len(add_client(c))
         /\ Len(table) <= Len(add_client(c))
         /\ \A i \in 1 .. Len(add_client(c)) :
              \/ i \in 1 .. Len(table) /\ add_client(c)[i] = table[i]
              \/ Known(c) = {} /\ add_client(c)[i] = [ip |-> c, counter |-> 0]
         /\ \A i \in 1 .. Len(table) : add_client(c)[i] = table[i]
         /\ \A i, j \in 1 .. Len(add_client(c)) : add_client(c)[i].ip = add_client(c)[j].ip => i = j
<1> USE LimitsAssumption
<1>0. table \in Seq(TableEntries) /\ Len(table) <= MaxClients /\ Len(table) \in Nat
  BY DEF TInv, QueueType, TypeOK
<1>1. CASE Known(c) # {}
  <2>1. add_client(c) = table
    BY <1>1 DEF add_client
  <2>2. Entry(c) \in Known(c)
    BY <1>1 DEF Entry, find_client
  <2> QED BY <1>0, <1>1, <2>1, <2>2 DEF Known, TInv, Distinct
<1>2. CASE Known(c) = {} /\ Len(table) >= MaxClients
  <2>1. add_client(c) = table /\ Entry(c) = Len(table)
    BY <1>2 DEF add_client, Entry
  <2> QED BY <1>0, <1>2, <2>1 DEF TInv, Distinct
<1>3. CASE Known(c) = {} /\ Len(table) < MaxClients
  <2> DEFINE e == [ip |-> c, counter |-> 0]
  <2>1. add_client(c) = Append(table, e) /\ e \in TableEntries /\ e.ip = c
    BY <1>0, <1>3 DEF add_client, TableEntries
  <2> HIDE DEF e
  <2>2. Entry(c) = Len(Append(table, e))
    BY <1>3, <2>1 DEF Entry
  <2>3. /\ Len(Append(table, e)) = Len(table) + 1 /\ Append(table, e) \in Seq(TableEntries)
        /\ Append(table, e)[Len(table) + 1] = e
        /\ \A i \in 1 .. Len(table) : Append(table, e)[i] = table[i]
    BY <1>0, <2>1
  <2>4. \A i \in 1 .. Len(table) + 1 : i \in 1 .. Len(table) \/ i = Len(table) + 1
    BY <1>0
  <2>5. \A i \in 1 .. Len(table) : table[i].ip # c
    BY <1>0, <1>3 DEF Known
  <2>6. \A i, j \in 1 .. Len(table) : table[i].ip = table[j].ip => i = j
    BY <1>0 DEF TInv, Distinct
  <2>7. \A i, j \in 1 .. Len(table) + 1 : Append(table, e)[i].ip = Append(table, e)[j].ip => i = j
    BY <2>1, <2>3, <2>4, <2>5, <2>6
  <2> QED BY <1>0, <1>3, <2>1, <2>2, <2>3, <2>4, <2>7 DEF e
<1> QED BY <1>0, <1>1, <1>2, <1>3

-----------------------------------------------------------------------------
(* A frame is taken from the front of a queue, or put at its end.          *)
LEMMA TailNet ==
  ASSUME TInv, NEW x \in Stations, net[x] # <<>>, net' = [net EXCEPT ![x] = Tail(@)]
  PROVE  net' \in [Stations -> Seq(Frames)] /\ Addressed'
<1>0. net[x] \in Seq(Frames) /\ Len(net[x]) \in Nat \ {0} /\ net \in [Stations -> Seq(Frames)]
  BY DEF TInv, QueueType
<1>1. /\ Tail(net[x]) \in Seq(Frames) /\ Len(Tail(net[x])) = Len(net[x]) - 1
      /\ \A i \in 1 .. Len(net[x]) - 1 : Tail(net[x])[i] = net[x][i + 1] /\ i + 1 \in 1 .. Len(net[x])
  BY <1>0
<1>2. net' \in [Stations -> Seq(Frames)]
  BY <1>0, <1>1
<1>3. net'[x] = Tail(net[x]) /\ \A y \in Stations \ {x} : net'[y] = net[y]
  BY <1>0
<1>4. \A y \in Stations : \A i \in 1 .. Len(net'[y]) :
        \E j \in 1 .. Len(net[y]) : net'[y][i] = net[y][j]
  BY <1>1, <1>3
<1>5. Server \in Stations
  BY DEF Stations
<1> QED BY <1>2, <1>4, <1>5 DEF TInv, Addressed

LEMMA AppendNet ==
  ASSUME TInv, NEW x \in Stations, NEW g \in Frames, g.dst = x,
         x = Server /\ ForServer(g) => g.saddr \in Clients /\ g.src = g.saddr,
         net' = [net EXCEPT ![x] = Append(@, g)]
  PROVE  net' \in [Stations -> Seq(Frames)] /\ Addressed'
<1>0. net[x] \in Seq(Frames) /\ Len(net[x]) \in Nat /\ net \in [Stations -> Seq(Frames)]
  BY DEF TInv, QueueType
<1>1. /\ Append(net[x], g) \in Seq(Frames) /\ Len(Append(net[x], g)) = Len(net[x]) + 1
      /\ \A i \in 1 .. Len(net[x]) + 1 :
           IF i = Len(net[x]) + 1 THEN Append(net[x], g)[i] = g
           ELSE i \in 1 .. Len(net[x]) /\ Append(net[x], g)[i] = net[x][i]
  BY <1>0
<1>2. net' \in [Stations -> Seq(Frames)]
  BY <1>0, <1>1
<1>3. net'[x] = Append(net[x], g) /\ \A y \in Stations \ {x} : net'[y] = net[y]
  BY <1>0
<1>4. \A y \in Stations : \A i \in 1 .. Len(net'[y]) :
        \/ y = x /\ net'[y][i] = g
        \/ \E j \in 1 .. Len(net[y]) : net'[y][i] = net[y][j]
  BY <1>1, <1>3
<1>5. Server \in Stations
  BY DEF Stations
<1>6. \A y \in Stations : \A i \in 1 .. Len(net'[y]) : net'[y][i].dst = y
  BY <1>4 DEF TInv, Addressed
<1>7. \A i \in 1 .. Len(net'[Server]) : ForServer(net'[Server][i]) =>
        net'[Server][i].saddr \in Clients /\ net'[Server][i].src = net'[Server][i].saddr
  <2> SUFFICES ASSUME NEW i \in 1 .. Len(net'[Server]), ForServer(net'[Server][i])
               PROVE  net'[Server][i].saddr \in Clients /\ net'[Server][i].src = net'[Server][i].saddr
    OBVIOUS
  <2>1. CASE x = Server /\ net'[Server][i] = g
    BY <2>1
  <2>2. ASSUME NEW j \in 1 .. Len(net[Server]), net'[Server][i] = net[Server][j]
        PROVE  net'[Server][i].saddr \in Clients /\ net'[Server][i].src = net'[Server][i].saddr
    BY <2>2 DEF TInv, Addressed
  <2> QED BY <1>4, <1>5, <2>1, <2>2
<1> QED BY <1>2, <1>6, <1>7 DEF Addressed

(* A bound of the counters may be raised.                                  *)
LEMMA BelowMono ==
  ASSUME TInv, NEW m \in Int, NEW n \in Int, m <= n, Below(m) PROVE Below(n)
<1>1. \A c \in Clients : heard[c] \in Int /\ number[c] \in Int
  BY LimitsAssumption DEF TInv, TypeOK
<1>2. \A i \in DOMAIN table : table[i].counter \in Int
  BY LimitsAssumption DEF TInv, TypeOK
<1> QED BY <1>1, <1>2 DEF Below

(* The counters and the server's queue are left alone.                     *)
LEMMA BudgetSame ==
  ASSUME TInv, net'[Server] = net[Server], UNCHANGED <<table, heard, number, sends>>,
         \A c \in Clients : typed'[c] <= sends
  PROVE  Budget'
<1>1. PICK r : Ranked(r)
  BY DEF TInv, Budget
<1>2. \A n : Below(n)' <=> Below(n)
  BY DEF Below
<1>3. Ranked(r)'
  BY <1>1, <1>2 DEF Ranked
<1> QED BY <1>2, <1>3 DEF TInv, Budget

(* A request gets the next rank, a frame of others any.                    *)
LEMMA BudgetAppend ==
  ASSUME TInv, NEW g \in Frames, net'[Server] = Append(net[Server], g),
         UNCHANGED <<table, heard, number>>,
         sends' = IF ForServer(g) THEN sends + 1 ELSE sends,
         \A c \in Clients : typed'[c] <= sends'
  PROVE  Budget'
<1> DEFINE q == net[Server]
           n == Len(q)
<1>0. q \in Seq(Frames) /\ n \in Nat /\ sends \in Nat /\ sends' \in Nat /\ sends <= sends'
  BY LimitsAssumption DEF TInv, QueueType, TypeOK, Stations
<1>1. /\ Len(net'[Server]) = n + 1 /\ net'[Server][n + 1] = g
      /\ \A i \in 1 .. n : net'[Server][i] = q[i]
      /\ \A i \in 1 .. n + 1 : i = n + 1 \/ i \in 1 .. n
  BY <1>0
<1> HIDE DEF q, n
<1>2. PICK r : Ranked(r)
  BY DEF TInv, Budget
<1>3. /\ r \in [1 .. n -> 0 .. sends]
      /\ \A i \in 1 .. n : ForServer(q[i]) =>
           /\ Below(r[i] - 1)
           /\ \A j \in 1 .. n : i < j /\ ForServer(q[j]) => r[i] < r[j]
  BY <1>2 DEF Ranked, q, n
<1>4. \A k : Below(k)' <=> Below(k)
  BY DEF Below
<1>5. Below(sends) /\ Below(sends')
  BY <1>0, BelowMono DEF TInv, Budget
<1>6. PICK s : s = [i \in 1 .. n + 1 |-> IF i = n + 1 THEN sends' ELSE r[i]]
  OBVIOUS
<1>7. /\ s[n + 1] = sends' /\ \A i \in 1 .. n : s[i] = r[i] /\ r[i] \in 0 .. sends /\ i # n + 1
      /\ s \in [1 .. n + 1 -> 0 .. sends']
  <2>1. n + 1 \in 1 .. n + 1 /\ \A i \in 1 .. n : i \in 1 .. n + 1 /\ i # n + 1
    BY <1>0
  <2>2. s[n + 1] = sends' /\ \A i \in 1 .. n : s[i] = r[i] /\ r[i] \in 0 .. sends
    BY <1>3, <1>6, <2>1
  <2>3. \A i \in 1 .. n + 1 : s[i] \in 0 .. sends'
    BY <1>0, <1>1, <2>2
  <2> QED BY <1>6, <2>1, <2>2, <2>3
<1>8. ASSUME NEW i \in 1 .. n + 1, ForServer(net'[Server][i])
      PROVE  /\ Below(s[i] - 1)'
             /\ \A j \in 1 .. n + 1 : i < j /\ ForServer(net'[Server][j]) => s[i] < s[j]
  <2>1. CASE i = n + 1
    <3>1. sends' - 1 = sends /\ \A j \in 1 .. n + 1 : ~(i < j)
      BY <1>0, <1>1, <1>8, <2>1
    <3>2. PICK k : k = sends
      OBVIOUS
    <3>3. s[i] - 1 = k
      BY <1>7, <2>1, <3>1, <3>2
    <3>4. Below(k)'
      BY <1>4, <1>5, <3>2
    <3> QED BY <3>1, <3>3, <3>4 DEF Below
  <2>2. CASE i \in 1 .. n
    <3>1. ForServer(q[i]) /\ Below(r[i] - 1)
      BY <1>1, <1>3, <1>8, <2>2
    <3>2. s[i] - 1 = r[i] - 1
      BY <1>7, <2>2
    <3>3. Below(s[i] - 1)'
      BY <1>4, <3>1, <3>2 DEF Below
    <3>4. ASSUME NEW j \in 1 .. n + 1, i < j, ForServer(net'[Server][j]) PROVE s[i] < s[j]
      <4>1. CASE j = n + 1
        <5>1. sends' = sends + 1
          BY <1>1, <3>4, <4>1
        <5>2. s[i] \in 0 .. sends /\ s[j] = sends'
          BY <1>7, <2>2, <4>1
        <5> QED BY <1>0, <5>1, <5>2
      <4>2. CASE j \in 1 .. n
        BY <1>1, <1>3, <1>7, <2>2, <3>1, <3>4, <4>2
      <4> QED BY <1>1, <4>1, <4>2
    <3> QED BY <3>3, <3>4
  <2> QED BY <1>1, <2>1, <2>2
<1>9. Ranked(s)'
  BY <1>1, <1>7, <1>8 DEF Ranked
<1> QED BY <1>4, <1>5, <1>9 DEF Budget, Below

(* The first frame is taken: the counters grow by one at most, and only if *)
(* it is a request.                                                        *)
LEMMA BudgetTail ==
  ASSUME TInv, net[Server] # <<>>, net'[Server] = Tail(net[Server]), UNCHANGED <<typed, sends>>,
         \A n \in Int : (IF ForServer(Head(net[Server])) THEN Below(n - 1) ELSE Below(n)) => Below(n)'
  PROVE  Budget'
<1> DEFINE q == net[Server]
           n == Len(q)
<1>0. q \in Seq(Frames) /\ n \in Nat \ {0} /\ sends \in Nat
  BY LimitsAssumption DEF TInv, QueueType, TypeOK, Stations
<1>1. /\ Len(net'[Server]) = n - 1 /\ Head(q) = q[1]
      /\ \A i \in 1 .. n - 1 : net'[Server][i] = q[i + 1] /\ i + 1 \in 1 .. n
  BY <1>0
<1> HIDE DEF q, n
<1>2. PICK r : Ranked(r)
  BY DEF TInv, Budget
<1>3. /\ r \in [1 .. n -> 0 .. sends]
      /\ \A i \in 1 .. n : ForServer(q[i]) =>
           /\ Below(r[i] - 1)
           /\ \A j \in 1 .. n : i < j /\ ForServer(q[j]) => r[i] < r[j]
  BY <1>2 DEF Ranked, q, n
<1>4. 1 \in 1 .. n /\ r[1] \in 0 .. sends /\ r[1] \in Int
  BY <1>0, <1>3
<1>5. ASSUME NEW k \in Int, Below(k), ForServer(q[1]) => r[1] - 1 <= k - 1 PROVE Below(k)'
  <2>1. CASE ForServer(q[1])
    <3>1. Below(r[1] - 1)
      BY <1>3, <1>4, <2>1
    <3>2. Below(k - 1)
      BY <1>4, <1>5, <2>1, <3>1, BelowMono
    <3> QED BY <1>1, <2>1, <3>2 DEF q
  <2>2. CASE ~ForServer(q[1])
    BY <1>1, <1>5, <2>2 DEF q
  <2> QED BY <2>1, <2>2
<1>6. Below(sends)'
  BY <1>0, <1>4, <1>5 DEF TInv, Budget
<1>a. PICK s : s = [i \in 1 .. n - 1 |-> r[i + 1]]
  OBVIOUS
<1>7. s \in [1 .. n - 1 -> 0 .. sends] /\ \A i \in 1 .. n - 1 : s[i] = r[i + 1] /\ s[i] \in Int
  BY <1>0, <1>1, <1>3, <1>a
<1>8. ASSUME NEW i \in 1 .. n - 1, ForServer(net'[Server][i])
      PROVE  /\ Below(s[i] - 1)'
             /\ \A j \in 1 .. n - 1 : i < j /\ ForServer(net'[Server][j]) => s[i] < s[j]
  <2>1. ForServer(q[i + 1]) /\ i + 1 \in 1 .. n /\ 1 < i + 1
    BY <1>1, <1>8, <1>0
  <2>2. Below(r[i + 1] - 1) /\ (ForServer(q[1]) => r[1] < r[i + 1])
    BY <1>3, <1>4, <2>1
  <2>3. r[i + 1] \in Int /\ s[i] = r[i + 1]
    BY <1>7
  <2>4. PICK k \in Int : k = r[i + 1] - 1
    BY <2>3
  <2>5. Below(k)'
    BY <1>4, <1>5, <2>2, <2>3, <2>4
  <2>6. Below(s[i] - 1)'
    BY <2>3, <2>4, <2>5 DEF Below
  <2>7. \A j \in 1 .. n - 1 : i < j /\ ForServer(net'[Server][j]) => s[i] < s[j]
    <3> SUFFICES ASSUME NEW j \in 1 .. n - 1, i < j, ForServer(net'[Server][j]) PROVE s[i] < s[j]
      OBVIOUS
    <3>1. ForServer(q[j + 1]) /\ j + 1 \in 1 .. n /\ i + 1 < j + 1
      BY <1>0, <1>1
    <3> QED BY <1>3, <1>7, <2>1, <3>1
  <2> QED BY <2>6, <2>7
<1>9. Ranked(s)'
  BY <1>1, <1>7, <1>8 DEF Ranked
<1> QED BY <1>6, <1>9 DEF TInv, Budget, Below

-----------------------------------------------------------------------------
(* A replaced element leaves a sequence of the same length.                *)
LEMMA SetAt ==
  ASSUME NEW S, NEW q \in Seq(S), NEW e \in 1 .. Len(q), NEW a \in S
  PROVE  /\ [q EXCEPT ![e] = a] \in Seq(S) /\ Len([q EXCEPT ![e] = a]) = Len(q)
         /\ DOMAIN [q EXCEPT ![e] = a] = 1 .. Len(q)
         /\ [q EXCEPT ![e] = a][e] = a
         /\ \A i \in 1 .. Len(q) : i # e => [q EXCEPT ![e] = a][i] = q[i]
OBVIOUS

(* The server notes a request of c: its counter becomes k, the counters    *)
(* stay below, and no client is entered twice.                             *)
LEMMA CountStep ==
  ASSUME TInv, NEW c \in Clients, NEW k \in 0 .. MaxSends, NEW h \in 0 .. MaxSends,
         table' = [add_client(c) EXCEPT ![Entry(c)].counter = k],
         heard' = [heard EXCEPT ![c] = h], number' = [number EXCEPT ![c] = k],
         h = 0 \/ h = heard[c] + 1, k = 0 \/ k = add_client(c)[Entry(c)].counter + 1
  PROVE  /\ table' \in Seq(TableEntries) /\ Len(table') <= MaxClients /\ Distinct'
         /\ heard' \in [Clients -> 0 .. MaxSends] /\ number' \in [Clients -> 0 .. MaxSends]
         /\ \A n \in Int : Below(n - 1) => Below(n)'
<1> DEFINE t == add_client(c)
           e == Entry(c)
<1>1. /\ t \in Seq(TableEntries) /\ Len(t) <= MaxClients /\ e \in 1 .. Len(t) /\ Len(t) \in Nat
      /\ \A i \in 1 .. Len(t) : \/ i \in 1 .. Len(table) /\ t[i] = table[i]
                                \/ t[i] = [ip |-> c, counter |-> 0]
      /\ \A i, j \in 1 .. Len(t) : t[i].ip = t[j].ip => i = j
  BY AddClient
<1>2. table' = [t EXCEPT ![e].counter = k] /\ (k = 0 \/ k = t[e].counter + 1)
  OBVIOUS
<1> HIDE DEF t, e
<1>3. t[e] \in TableEntries
  BY <1>1
<1>4. PICK a \in TableEntries : /\ a = [t[e] EXCEPT !.counter = k]
                                /\ a.ip = t[e].ip /\ a.counter = k
  <2>1. PICK d \in Clients, m \in 0 .. MaxSends : t[e] = [ip |-> d, counter |-> m]
    BY <1>3 DEF TableEntries
  <2>2. [t[e] EXCEPT !.counter = k] = [ip |-> d, counter |-> k]
    BY <2>1
  <2>3. [ip |-> d, counter |-> k] \in TableEntries
    BY DEF TableEntries
  <2> QED BY <2>1, <2>2, <2>3
<1>5. table' = [t EXCEPT ![e] = a]
  BY <1>2, <1>4
<1>6. /\ table' \in Seq(TableEntries) /\ Len(table') = Len(t) /\ table'[e] = a
      /\ \A i \in 1 .. Len(t) : i # e => table'[i] = t[i]
      /\ DOMAIN table' = 1 .. Len(t)
  <2>1. t \in Seq(TableEntries) /\ e \in 1 .. Len(t)
    BY <1>1
  <2> DEFINE q == [t EXCEPT ![e] = a]
  <2>2. /\ q \in Seq(TableEntries) /\ Len(q) = Len(t) /\ DOMAIN q = 1 .. Len(t) /\ q[e] = a
        /\ \A i \in 1 .. Len(t) : i # e => q[i] = t[i]
    BY <2>1, SetAt, Zenon
  <2> HIDE DEF q
  <2> QED BY <1>5, <2>2, Zenon DEF q
<1>7. Distinct'
  <2>1. \A i \in 1 .. Len(t) : table'[i].ip = t[i].ip
    BY <1>4, <1>6
  <2>2. \A i, j \in 1 .. Len(t) : t[i].ip = t[j].ip => i = j
    BY <1>1
  <2>3. DOMAIN table' = 1 .. Len(t)
    BY <1>6
  <2> QED BY <2>1, <2>2, <2>3 DEF Distinct
<1>8. heard \in [Clients -> 0 .. MaxSends] /\ number \in [Clients -> 0 .. MaxSends]
  BY DEF TInv, TypeOK
<1>9. heard' \in [Clients -> 0 .. MaxSends] /\ number' \in [Clients -> 0 .. MaxSends]
  BY <1>8
<1>10. ASSUME NEW n \in Int, Below(n - 1) PROVE Below(n)'
  <2>0. 0 <= n
    BY <1>8, <1>10, LimitsAssumption DEF Below
  <2>1. \A i \in 1 .. Len(t) : \/ t[i].counter \in Int /\ t[i].counter <= n - 1
                              \/ t[i].counter = 0
    <3>1. table \in Seq(TableEntries)
      BY DEF TInv, QueueType
    <3>2. \A i \in 1 .. Len(table) : table[i] \in TableEntries /\ i \in DOMAIN table
      BY <3>1
    <3>3. \A i \in 1 .. Len(table) : table[i].counter <= n - 1 /\ table[i].counter \in Int
      BY <1>10, <3>2, LimitsAssumption DEF Below, TableEntries
    <3>4. \A i \in 1 .. Len(t) : \/ i \in 1 .. Len(table) /\ t[i] = table[i]
                                 \/ t[i] = [ip |-> c, counter |-> 0]
      BY <1>1
    <3> QED BY <3>3, <3>4
  <2>2. k <= n
    <3>1. (t[e].counter \in Int /\ t[e].counter <= n - 1) \/ t[e].counter = 0
      BY <1>1, <2>1
    <3>2. Below(n - 1) => 1 <= n
      BY <1>8, LimitsAssumption DEF Below
    <3> QED BY <1>2, <1>10, <2>0, <3>1, <3>2
  <2>3. h <= n
    BY <1>8, <1>10, <2>0, LimitsAssumption DEF Below
  <2>4. \A d \in Clients : heard'[d] <= n /\ number'[d] <= n
    <3>1. \A d \in Clients : heard[d] <= n - 1 /\ number[d] <= n - 1 /\ heard[d] \in Int /\ number[d] \in Int
      BY <1>8, <1>10, LimitsAssumption DEF Below
    <3> QED BY <1>8, <2>2, <2>3, <3>1
  <2>5. \A i \in 1 .. Len(t) : table'[i].counter <= n
    <3>1. \A i \in 1 .. Len(t) : table'[i].counter = k \/ table'[i].counter = t[i].counter
      BY <1>4, <1>6
    <3> QED BY <2>0, <2>1, <2>2, <3>1
  <2> QED BY <1>6, <2>4, <2>5 DEF Below
<1> QED BY <1>1, <1>6, <1>7, <1>9, <1>10

-----------------------------------------------------------------------------
\* What TInv says of everything but the queues and the budget.
Scalars ==
  /\ Len(table) <= MaxClients /\ table \in Seq(TableEntries) /\ Distinct
  /\ pc \in [Clients -> {"off", "prompt", "recvfrom"}]
  /\ typed \in [Clients -> 0 .. MaxSends]
  /\ heard \in [Clients -> 0 .. MaxSends] /\ number \in [Clients -> 0 .. MaxSends]
  /\ sends \in 0 .. MaxSends /\ losses \in 0 .. MaxLoss /\ noises \in 0 .. MaxNoise
Queues == net \in [Stations -> Seq(Frames)] /\ Addressed

(* TInv is its three parts.                                                *)
LEMMA TInvParts == TInv <=> Scalars /\ Queues /\ Budget
<1>1. TInv => Scalars /\ Queues /\ Budget
  BY DEF TInv, Scalars, Queues, TypeOK, QueueType
<1>2. ASSUME Scalars, Queues, Budget PROVE TInv
  <2>1. \A x \in Stations : \A f \in Queued(x) : f.dst = x /\ f.no \in 0 .. MaxSends
    <3> SUFFICES ASSUME NEW x \in Stations, NEW i \in DOMAIN net[x]
                 PROVE  net[x][i].dst = x /\ net[x][i].no \in 0 .. MaxSends
      BY DEF Queued
    <3>1. net[x] \in Seq(Frames)
      BY <1>2 DEF Queues
    <3>2. i \in 1 .. Len(net[x]) /\ net[x][i] \in Frames
      BY <3>1
    <3> QED BY <1>2, <3>2 DEF Queues, Addressed, Frames
  <2>2. \A i \in DOMAIN table : table[i] \in [ip : Clients, counter : 0 .. MaxSends]
    <3>1. table \in Seq(TableEntries)
      BY <1>2 DEF Scalars
    <3>2. \A i \in DOMAIN table : table[i] \in TableEntries
      BY <3>1
    <3> QED BY <3>2 DEF TableEntries
  <2>3. TypeOK
    BY <1>2, <2>1, <2>2 DEF Scalars, TypeOK
  <2> QED BY <1>2, <2>3 DEF TInv, QueueType, Scalars, Queues
<1> QED BY <1>1, <1>2

(* What the server knows of the request at the front of its queue.         *)
LEMMA FrontRequest ==
  ASSUME TInv, net[Server] # <<>>, ForServer(Head(net[Server]))
  PROVE  /\ Head(net[Server]) \in Frames
         /\ Head(net[Server]).saddr \in Clients /\ Head(net[Server]).src = Head(net[Server]).saddr
         /\ \A c \in Clients : heard[c] + 1 \in 0 .. MaxSends
         /\ \A i \in DOMAIN table : table[i].counter + 1 \in 0 .. MaxSends
<1>0. /\ net[Server] \in Seq(Frames) /\ Len(net[Server]) \in Nat \ {0} /\ sends \in 0 .. MaxSends
      /\ heard \in [Clients -> 0 .. MaxSends]
      /\ \A i \in DOMAIN table : table[i].counter \in 0 .. MaxSends
  BY TInvParts DEF Scalars, Queues, Stations, TInv, TypeOK
<1>1. 1 \in 1 .. Len(net[Server]) /\ Head(net[Server]) = net[Server][1] /\ Head(net[Server]) \in Frames
  BY <1>0
<1>2. PICK r : Ranked(r)
  BY DEF TInv, Budget
<1>3. Below(r[1] - 1) /\ r[1] \in 0 .. sends
  BY <1>1, <1>2 DEF Ranked
<1>4. \A c \in Clients : heard[c] + 1 \in 0 .. MaxSends
  BY <1>0, <1>3, LimitsAssumption DEF Below
<1>5. \A i \in DOMAIN table : table[i].counter + 1 \in 0 .. MaxSends
  BY <1>0, <1>3, LimitsAssumption DEF Below
<1> QED BY <1>1, <1>4, <1>5 DEF TInv, Addressed

(* The answer of ServerEcho, or none, goes to the client's queue.          *)
LEMMA AnswerNet ==
  ASSUME TInv, NEW c \in Clients, NEW g \in Frames, g.dst = c, net[Server] # <<>>,
         net' = [net EXCEPT ![Server] = Tail(@),
                            ![c] = IF pc[c] = "off" THEN @ ELSE Append(@, g)]
  PROVE  Queues' /\ net'[Server] = Tail(net[Server])
<1>0. /\ net \in [Stations -> Seq(Frames)] /\ c \in Stations /\ Server \in Stations /\ c # Server
      /\ net[c] \in Seq(Frames) /\ net[Server] \in Seq(Frames)
      /\ Len(net[Server]) \in Nat \ {0} /\ Len(net[c]) \in Nat
  BY NamesAssumption DEF TInv, QueueType, Stations
<1>1. /\ net'[Server] = Tail(net[Server])
      /\ net'[c] = IF pc[c] = "off" THEN net[c] ELSE Append(net[c], g)
      /\ \A y \in Stations \ {c, Server} : net'[y] = net[y]
  BY <1>0
<1>2. /\ Tail(net[Server]) \in Seq(Frames) /\ Len(Tail(net[Server])) = Len(net[Server]) - 1
      /\ \A i \in 1 .. Len(net[Server]) - 1 :
           Tail(net[Server])[i] = net[Server][i + 1] /\ i + 1 \in 1 .. Len(net[Server])
  BY <1>0
<1>3. /\ Append(net[c], g) \in Seq(Frames) /\ Len(Append(net[c], g)) = Len(net[c]) + 1
      /\ \A i \in 1 .. Len(net[c]) + 1 :
           IF i = Len(net[c]) + 1 THEN Append(net[c], g)[i] = g
           ELSE i \in 1 .. Len(net[c]) /\ Append(net[c], g)[i] = net[c][i]
  BY <1>0
<1>4. net' \in [Stations -> Seq(Frames)]
  <2>1. PICK a \in Seq(Frames) : a = IF pc[c] = "off" THEN net[c] ELSE Append(net[c], g)
    BY <1>0, <1>3
  <2>2. PICK b \in Seq(Frames) : b = Tail(net[Server])
    BY <1>2
  <2>3. \A y \in Stations : net'[y] \in Seq(Frames)
    BY <1>0, <1>1, <2>1, <2>2
  <2>4. net' = [y \in Stations |-> net'[y]]
    BY <1>0
  <2> QED BY <2>3, <2>4
<1>5. \A i \in 1 .. Len(net'[Server]) : \E j \in 1 .. Len(net[Server]) : net'[Server][i] = net[Server][j]
  BY <1>1, <1>2
<1>6. \A i \in 1 .. Len(net'[c]) : net'[c][i] = g \/ \E j \in 1 .. Len(net[c]) : net'[c][i] = net[c][j]
  <2>1. CASE pc[c] = "off"
    BY <1>1, <2>1
  <2>2. CASE pc[c] # "off"
    <3>1. net'[c] = Append(net[c], g)
      BY <1>1, <2>2
    <3>2. ASSUME NEW i \in 1 .. Len(net'[c])
          PROVE  net'[c][i] = g \/ \E j \in 1 .. Len(net[c]) : net'[c][i] = net[c][j]
      <4>1. i \in 1 .. Len(net[c]) + 1
        BY <1>3, <3>1, <3>2
      <4> QED BY <1>3, <3>1, <4>1
    <3> QED BY <3>2
  <2> QED BY <2>1, <2>2
<1>7. \A y \in Stations : \A i \in 1 .. Len(net'[y]) : net'[y][i].dst = y
  <2>0. \A y \in Stations : \A i \in 1 .. Len(net[y]) : net[y][i].dst = y
    BY DEF TInv, Addressed
  <2>1. \A i \in 1 .. Len(net'[Server]) : net'[Server][i].dst = Server
    BY <1>0, <1>5, <2>0
  <2>2. \A i \in 1 .. Len(net'[c]) : net'[c][i].dst = c
    BY <1>0, <1>6, <2>0
  <2>3. \A y \in Stations \ {c, Server} : \A i \in 1 .. Len(net'[y]) : net'[y][i].dst = y
    BY <1>1, <2>0
  <2> QED BY <2>1, <2>2, <2>3
<1>8. \A i \in 1 .. Len(net'[Server]) : ForServer(net'[Server][i]) =>
        net'[Server][i].saddr \in Clients /\ net'[Server][i].src = net'[Server][i].saddr
  BY <1>5 DEF TInv, Addressed
<1> QED BY <1>1, <1>4, <1>7, <1>8 DEF Queues, Addressed

\* The entry the server works with holds zero or a counter of the table.
EntryCounter(c) == add_client(c)[Entry(c)].counter

(* The next number of a client fits.                                       *)
LEMMA NextNumber ==
  ASSUME TInv, net[Server] # <<>>, ForServer(Head(net[Server])), NEW c \in Clients
  PROVE  EntryCounter(c) + 1 \in 0 .. MaxSends
<1>1. \A i \in 1 .. Len(table) : table[i].counter + 1 \in 0 .. MaxSends
  <2>1. DOMAIN table = 1 .. Len(table)
    BY DEF TInv, QueueType
  <2> QED BY <2>1, FrontRequest
<1>2. \/ \E i \in 1 .. Len(table) : EntryCounter(c) = table[i].counter
      \/ EntryCounter(c) = 0
  <2>1. Entry(c) \in 1 .. Len(add_client(c))
    BY AddClient
  <2>2. \/ Entry(c) \in 1 .. Len(table) /\ add_client(c)[Entry(c)] = table[Entry(c)]
        \/ add_client(c)[Entry(c)] = [ip |-> c, counter |-> 0]
    BY <2>1, AddClient
  <2> QED BY <2>2 DEF EntryCounter
<1>3. 1 \in 0 .. MaxSends
  <2>1. heard[c] \in 0 .. MaxSends /\ heard[c] + 1 \in 0 .. MaxSends
    BY FrontRequest DEF TInv, TypeOK
  <2> QED BY <2>1, LimitsAssumption
<1> QED BY <1>1, <1>2, <1>3

(* Every step keeps the types, the queues and the budget.                  *)
LEMMA StepTInv ==
  ASSUME TInv, [Next]_vars PROVE Scalars' /\ Queues' /\ Budget'
<1> USE LimitsAssumption DEF serverVars, clientVars, boundVars
<1> DEFINE Goal == Scalars' /\ Queues' /\ Budget'
<1>0. Scalars /\ Queues /\ Budget /\ Server \in Stations /\ \A c \in Clients : c \in Stations /\ c # Server
  BY TInvParts, NamesAssumption DEF Stations
<1>s. ASSUME UNCHANGED <<serverVars, sends>>, typed' \in [Clients -> 0 .. MaxSends],
             pc' \in [Clients -> {"off", "prompt", "recvfrom"}],
             losses' \in 0 .. MaxLoss, noises' \in 0 .. MaxNoise
      PROVE  Scalars'
  BY <1>0, <1>s DEF Scalars, Distinct
<1>b. ASSUME net'[Server] = net[Server], UNCHANGED <<serverVars, sends>>,
             \A c \in Clients : typed'[c] = typed[c] \/ typed'[c] = 0
      PROVE  Budget'
  <2>1. \A c \in Clients : typed'[c] <= sends
    <3>1. 0 <= sends /\ \A c \in Clients : typed[c] <= sends
      BY <1>0 DEF Budget, Scalars
    <3> QED BY <1>b, <3>1
  <2> QED BY <1>b, <2>1, BudgetSame
<1>t. ASSUME net[Server] # <<>>, ~ForServer(Head(net[Server])) \/ losses' = losses + 1,
             net' = [net EXCEPT ![Server] = Tail(@)], UNCHANGED <<serverVars, typed, sends>>
      PROVE  Budget'
  <2>1. \A n \in Int : Below(n - 1) \/ Below(n) => Below(n)'
    <3>1. \A n \in Int : n - 1 \in Int /\ n - 1 <= n
      OBVIOUS
    <3>2. \A n \in Int : Below(n - 1) => Below(n)
      BY <3>1, BelowMono
    <3> QED BY <1>t, <3>2 DEF Below
  <2>2. net'[Server] = Tail(net[Server])
    BY <1>0, <1>t DEF Queues
  <2> QED BY <1>t, <2>1, <2>2, BudgetTail
<1>1. ASSUME NEW c \in Clients, Start(c) PROVE Goal
  <2>1. Scalars'
    BY <1>0, <1>1, <1>s DEF Start, Scalars
  <2>2. net' \in [Stations -> Seq(Frames)] /\ Len(net'[c]) = 0 /\ \A y \in Stations \ {c} : net'[y] = net[y]
    BY <1>0, <1>1 DEF Start, Queues
  <2>3. Addressed'
    <3>1. \A i \in 1 .. Len(net'[c]) : FALSE
      BY <2>2
    <3>2. net'[Server] = net[Server]
      BY <1>0, <2>2
    <3> QED BY <1>0, <2>2, <3>1, <3>2 DEF Queues, Addressed
  <2>4. \A d \in Clients : typed'[d] = typed[d] \/ typed'[d] = 0
    BY <1>0, <1>1 DEF Start, Scalars
  <2>5. Budget'
    BY <1>0, <1>1, <1>b, <2>2, <2>4 DEF Start
  <2> QED BY <2>1, <2>2, <2>3, <2>5 DEF Queues
<1>2. ASSUME NEW c \in Clients, Type(c) \/ TypeClose(c) PROVE Goal
  <2>0. sends \in Nat /\ sends < MaxSends /\ sends' = sends + 1 /\ typed[c] \in Nat /\ typed[c] <= sends
    BY <1>0, <1>2 DEF Type, TypeClose, Scalars, Budget
  <2>1. PICK n \in Nat : net' = [net EXCEPT ![Server] = Append(@, Request(c, n))]
    <3>1. CASE Type(c)
      <4>1. typed[c] + 1 \in Nat
        BY <2>0
      <4>2. net' = [net EXCEPT ![Server] = Append(@, Request(c, typed[c] + 1))]
        BY <3>1 DEF Type, Send
      <4> QED BY <4>1, <4>2
    <3>2. CASE TypeClose(c)
      BY <3>2 DEF TypeClose, Send, CLOSE
    <3> QED BY <1>2, <3>1, <3>2
  <2>2. PICK g \in Frames : /\ g = Request(c, n) /\ ForServer(g) /\ g.dst = Server
                            /\ g.src = c /\ g.saddr = c
    BY RequestType
  <2>3. Queues'
    BY <1>0, <2>1, <2>2, AppendNet DEF Queues
  <2>4. /\ typed' \in [Clients -> 0 .. MaxSends] /\ pc' \in [Clients -> {"off", "prompt", "recvfrom"}]
        /\ \A d \in Clients : typed'[d] <= sends'
    <3>1. CASE Type(c)
      <4>1. PICK m \in 0 .. MaxSends : m = typed[c] + 1 /\ m <= sends'
        BY <2>0
      <4>2. typed' = [typed EXCEPT ![c] = m] /\ pc' = [pc EXCEPT ![c] = "recvfrom"]
        BY <3>1, <4>1 DEF Type
      <4>3. \A d \in Clients : typed[d] \in Nat /\ typed[d] <= sends'
        BY <1>0, <2>0 DEF Scalars, Budget
      <4> QED BY <1>0, <4>1, <4>2, <4>3 DEF Scalars
    <3>2. CASE TypeClose(c)
      <4>3. \A d \in Clients : typed[d] \in Nat /\ typed[d] <= sends'
        BY <1>0, <2>0 DEF Scalars, Budget
      <4> QED BY <1>0, <3>2, <4>3 DEF TypeClose, Scalars
    <3> QED BY <1>2, <3>1, <3>2
  <2>5. UNCHANGED <<serverVars, losses, noises>>
    BY <1>2 DEF Type, TypeClose
  <2>6. Scalars'
    BY <1>0, <2>0, <2>4, <2>5 DEF Scalars, Distinct
  <2>7. net'[Server] = Append(net[Server], g)
    BY <1>0, <2>1, <2>2 DEF Queues
  <2>8. Budget'
    BY <2>0, <2>2, <2>4, <2>5, <2>7, BudgetAppend
  <2> QED BY <2>3, <2>6, <2>8
<1>3. ASSUME NEW c \in Clients, EndOfInput(c) PROVE Goal
  <2>1. pc' \in [Clients -> {"off", "prompt", "recvfrom"}]
    BY <1>0, <1>3 DEF EndOfInput, Scalars
  <2>2. Scalars'
    BY <1>0, <1>3, <1>s, <2>1 DEF EndOfInput, Scalars
  <2>3. Queues'
    BY <1>0, <1>3 DEF EndOfInput, Queues, Addressed
  <2> QED BY <1>3, <1>b, <2>2, <2>3 DEF EndOfInput
<1>4. ASSUME NEW c \in Clients, Recv(c) PROVE Goal
  <2>1. Scalars'
    BY <1>0, <1>4, <1>s DEF Recv, Scalars
  <2>2. Queues' /\ net'[Server] = net[Server]
    BY <1>0, <1>4, TailNet DEF Recv, Queues
  <2> QED BY <1>4, <1>b, <2>1, <2>2 DEF Recv
<1>5. CASE ServerDrop
  <2>1. Scalars'
    BY <1>0, <1>5, <1>s DEF ServerDrop, Scalars
  <2>2. Queues'
    BY <1>0, <1>5, TailNet DEF ServerDrop, Queues
  <2> QED BY <1>5, <1>t, <2>1, <2>2 DEF ServerDrop
<1>6. CASE ServerClose
  <2> DEFINE c == Head(net[Server]).saddr
  <2>1. c \in Clients /\ ForServer(Head(net[Server])) /\ net[Server] # <<>>
    BY <1>6, FrontRequest DEF ServerClose
  <2>2. /\ table' = [add_client(c) EXCEPT ![Entry(c)].counter = 0]
        /\ heard' = [heard EXCEPT ![c] = 0] /\ number' = [number EXCEPT ![c] = 0]
        /\ net' = [net EXCEPT ![Server] = Tail(@)] /\ UNCHANGED <<clientVars, boundVars>>
    BY <1>6 DEF ServerClose
  <2> HIDE DEF c
  <2>3. 0 \in 0 .. MaxSends
    OBVIOUS
  <2>4. /\ table' \in Seq(TableEntries) /\ Len(table') <= MaxClients /\ Distinct'
        /\ heard' \in [Clients -> 0 .. MaxSends] /\ number' \in [Clients -> 0 .. MaxSends]
        /\ \A n \in Int : Below(n - 1) => Below(n)'
    BY <2>1, <2>2, <2>3, CountStep
  <2>5. Scalars'
    BY <1>0, <2>2, <2>4 DEF Scalars
  <2>6. Queues' /\ net'[Server] = Tail(net[Server])
    BY <1>0, <2>1, <2>2, TailNet DEF Queues
  <2>7. Budget'
    BY <2>1, <2>2, <2>4, <2>6, BudgetTail
  <2> QED BY <2>5, <2>6, <2>7
<1>7. CASE ServerEcho
  <2> DEFINE f == Head(net[Server])
             c == f.saddr
             no == EntryCounter(c) + 1
  <2>1. /\ c \in Clients /\ f.src = c /\ f \in Frames /\ ForServer(Head(net[Server]))
        /\ net[Server] # <<>> /\ heard[c] + 1 \in 0 .. MaxSends
    BY <1>7, FrontRequest DEF ServerEcho
  <2>2. no \in 0 .. MaxSends
    BY <2>1, NextNumber
  <2>3. Reply(f, no) \in Frames /\ Reply(f, no).dst = c
    BY <2>1, <2>2, ReplyType
  <2>4. /\ table' = [add_client(c) EXCEPT ![Entry(c)].counter = no]
        /\ heard' = [heard EXCEPT ![c] = heard[c] + 1] /\ number' = [number EXCEPT ![c] = no]
        /\ UNCHANGED <<clientVars, boundVars>>
    BY <1>7 DEF ServerEcho, EntryCounter
  <2>5. net' = [net EXCEPT ![Server] = Tail(@),
                           ![Reply(f, no).dst] = IF pc[Reply(f, no).dst] = "off" THEN @
                                                 ELSE Append(@, Reply(f, no))]
    BY <1>7 DEF ServerEcho, EntryCounter
  <2>6. no = add_client(c)[Entry(c)].counter + 1
    BY DEF EntryCounter
  <2> HIDE DEF f, c, no
  <2>7. PICK g \in Frames : g = Reply(f, no) /\ g.dst = c
    BY <2>3
  <2>8. net' = [net EXCEPT ![Server] = Tail(@), ![c] = IF pc[c] = "off" THEN @ ELSE Append(@, g)]
    BY <2>5, <2>7
  <2>9. Queues' /\ net'[Server] = Tail(net[Server])
    BY <2>1, <2>7, <2>8, AnswerNet
  <2>10. /\ table' \in Seq(TableEntries) /\ Len(table') <= MaxClients /\ Distinct'
         /\ heard' \in [Clients -> 0 .. MaxSends] /\ number' \in [Clients -> 0 .. MaxSends]
         /\ \A n \in Int : Below(n - 1) => Below(n)'
    BY <2>1, <2>2, <2>4, <2>6, CountStep
  <2>11. Scalars'
    BY <1>0, <2>4, <2>10 DEF Scalars
  <2>12. Budget'
    BY <2>1, <2>4, <2>9, <2>10, BudgetTail
  <2> QED BY <2>9, <2>11, <2>12
<1>8. ASSUME NEW x \in Stations, Lose(x) PROVE Goal
  <2>1. Scalars'
    BY <1>0, <1>8, <1>s DEF Lose, Scalars
  <2>2. Queues' /\ (x # Server => net'[Server] = net[Server])
    BY <1>0, <1>8, TailNet DEF Lose, Queues
  <2>3. CASE x = Server
    BY <1>8, <1>t, <2>1, <2>2, <2>3 DEF Lose
  <2>4. CASE x # Server
    BY <1>8, <1>b, <2>1, <2>2, <2>4 DEF Lose
  <2> QED BY <2>3, <2>4
<1>9. ASSUME NEW x \in Stations, Noise(x) PROVE Goal
  <2>1. Scalars'
    BY <1>0, <1>9, <1>s DEF Noise, Scalars
  <2>2. PICK g \in Frames : g = Foreign(x) /\ ~ForServer(g) /\ g.dst = x
    BY ForeignType
  <2>3. net' = [net EXCEPT ![x] = Append(@, g)]
    BY <1>9, <2>2 DEF Noise, Send
  <2>4. Queues'
    BY <1>0, <2>2, <2>3, AppendNet DEF Queues
  <2>5. CASE x = Server
    <3>1. net'[Server] = Append(net[Server], g)
      BY <1>0, <2>3, <2>5 DEF Queues
    <3>2. \A c \in Clients : typed'[c] <= sends'
      BY <1>0, <1>9 DEF Noise, Budget
    <3>3. Budget'
      BY <1>9, <2>2, <3>1, <3>2, BudgetAppend DEF Noise
    <3> QED BY <2>1, <2>4, <3>3
  <2>6. CASE x # Server
    <3>1. net'[Server] = net[Server]
      BY <1>0, <2>3, <2>6 DEF Queues
    <3> QED BY <1>9, <1>b, <2>1, <2>4, <3>1 DEF Noise
  <2> QED BY <2>5, <2>6
<1>10. CASE UNCHANGED vars
  <2>1. Scalars' /\ Queues'
    BY <1>0, <1>10 DEF vars, Scalars, Queues, Distinct, Addressed
  <2> QED BY <1>10, <1>b, <2>1 DEF vars
<1> QED BY <1>1, <1>2, <1>3, <1>4, <1>5, <1>6, <1>7, <1>8, <1>9, <1>10 DEF Next, ServerStep

-----------------------------------------------------------------------------
(* A client that has no entry finds room for one while all clients fit.    *)
LEMMA RoomForAll ==
  ASSUME TInv, Fits, NEW c \in Clients, Known(c) = {}
  PROVE  Len(table) < MaxClients
<1> DEFINE n == Len(table)
           f == [i \in 1 .. n |-> table[i].ip]
<1>0. table \in Seq(TableEntries) /\ n \in Nat /\ DOMAIN table = 1 .. n
  BY DEF TInv, QueueType
<1>1. \A i \in 1 .. n : table[i].ip \in Clients \ {c}
  <2>1. \A i \in 1 .. n : table[i] \in TableEntries
    BY <1>0
  <2> QED BY <1>0, <2>1 DEF Known, TableEntries
<1>2. f \in [1 .. n -> Clients \ {c}] /\ \A i, j \in 1 .. n : f[i] = f[j] => i = j
  BY <1>0, <1>1 DEF TInv, Distinct
<1>3. IsFiniteSet(1 .. n) /\ Cardinality(1 .. n) = n
  BY <1>0, FS_Interval
<1>4. IsFiniteSet(Clients \ {c}) /\ Cardinality(Clients \ {c}) = Cardinality(Clients) - 1
  BY FS_RemoveElement DEF Fits
<1>5. Cardinality(Clients) \in Nat /\ Cardinality(Clients) <= MaxClients
  BY FS_CardinalityType DEF Fits
<1> HIDE DEF f, n
<1>6. ~(Cardinality(Clients \ {c}) < Cardinality(1 .. n))
  <2> SUFFICES ASSUME Cardinality(Clients \ {c}) < Cardinality(1 .. n) PROVE FALSE
    OBVIOUS
  <2> DEFINE S == 1 .. n
             T == Clients \ {c}
  <2>1. IsFiniteSet(S) /\ IsFiniteSet(T) /\ Cardinality(T) < Cardinality(S) /\ f \in [S -> T]
    BY <1>2, <1>3, <1>4
  <2> HIDE DEF S, T
  <2>2. \E x, y \in S : x # y /\ f[x] = f[y]
    BY <2>1, FS_PigeonHole
  <2> QED BY <1>2, <2>2 DEF S
<1> QED BY <1>0, <1>3, <1>4, <1>5, <1>6, LimitsAssumption DEF n

(* While all clients fit, the entry the server works with is the client's. *)
LEMMA OwnEntry ==
  ASSUME TInv, Fits, NEW c \in Clients
  PROVE  add_client(c)[Entry(c)].ip = c
<1>1. CASE Known(c) # {}
  <2>1. Entry(c) \in Known(c) /\ add_client(c) = table
    BY <1>1 DEF Entry, find_client, add_client
  <2> QED BY <2>1 DEF Known
<1>2. CASE Known(c) = {}
  <2>0. table \in Seq(TableEntries) /\ Len(table) \in Nat
    BY DEF TInv, QueueType
  <2> DEFINE e == [ip |-> c, counter |-> 0]
  <2>1. add_client(c) = Append(table, e)
    BY <1>2, <2>0, RoomForAll, LimitsAssumption DEF add_client
  <2>2. Entry(c) = Len(Append(table, e))
    BY <1>2, <2>1 DEF Entry
  <2>3. e \in TableEntries /\ e.ip = c
    BY LimitsAssumption DEF TableEntries
  <2> HIDE DEF e
  <2>4. Append(table, e)[Len(Append(table, e))] = e
    BY <2>0, <2>3
  <2> QED BY <2>1, <2>2, <2>3, <2>4
<1> QED BY <1>1, <1>2

(* A request of c moves its own counter, its own number and nothing else.  *)
LEMMA CountedStep ==
  ASSUME TInv, Fits, Counted, NEW c \in Clients, NEW k, NEW h,
         table' = [add_client(c) EXCEPT ![Entry(c)].counter = k],
         heard' = [heard EXCEPT ![c] = h], number' = [number EXCEPT ![c] = k], k = h
  PROVE  Counted'
<1> DEFINE t == add_client(c)
           e == Entry(c)
<1>1. /\ t \in Seq(TableEntries) /\ e \in 1 .. Len(t) /\ t[e].ip = c
      /\ \A i \in 1 .. Len(t) : \/ i \in 1 .. Len(table) /\ t[i] = table[i]
                                \/ Known(c) = {} /\ t[i] = [ip |-> c, counter |-> 0]
      /\ Len(table) <= Len(t) /\ Len(table) \in Nat /\ Len(t) \in Nat
      /\ \A i \in 1 .. Len(table) : t[i] = table[i]
      /\ \A i, j \in 1 .. Len(t) : t[i].ip = t[j].ip => i = j
  <2>1. Len(table) \in Nat
    BY DEF TInv, QueueType
  <2> QED BY <2>1, AddClient, OwnEntry
<1>2. table' = [t EXCEPT ![e] = [t[e] EXCEPT !.counter = k]]
  OBVIOUS
<1> HIDE DEF t, e
<1>3. /\ [t[e] EXCEPT !.counter = k].ip = c /\ [t[e] EXCEPT !.counter = k].counter = k
  <2>1. t[e] \in TableEntries
    BY <1>1
  <2> QED BY <1>1, <2>1 DEF TableEntries
<1>4. /\ DOMAIN table' = 1 .. Len(t)
      /\ table'[e].ip = c /\ table'[e].counter = k
      /\ \A i \in 1 .. Len(t) : i # e => table'[i] = t[i]
  <2>1. DOMAIN t = 1 .. Len(t)
    BY <1>1
  <2> QED BY <1>1, <1>2, <1>3, <2>1
<1>5. heard \in [Clients -> 0 .. MaxSends] /\ number \in [Clients -> 0 .. MaxSends]
  BY DEF TInv, TypeOK
<1>6. \A d \in Clients : number'[d] = heard'[d]
  BY <1>5 DEF Counted
<1>7. \A d \in Clients : Known(d)' = {} => heard'[d] = 0
  <2> SUFFICES ASSUME NEW d \in Clients, Known(d)' = {} PROVE heard'[d] = 0
    OBVIOUS
  <2>1. d # c
    BY <1>1, <1>4 DEF Known
  <2>2. \A i \in 1 .. Len(table) : i \in 1 .. Len(t) /\ (table[i].ip = d => i # e /\ table'[i] = table[i])
    <3>1. \A i \in 1 .. Len(table) : i \in 1 .. Len(t) /\ t[i] = table[i]
      BY <1>1
    <3> QED BY <1>1, <1>4, <2>1, <3>1
  <2>3. \A i \in DOMAIN table : i \in 1 .. Len(table)
    BY DEF TInv, QueueType
  <2>4. Known(d) = {}
    BY <1>4, <2>2, <2>3 DEF Known
  <2> QED BY <1>5, <2>1, <2>4 DEF Counted
<1>8. \A i \in DOMAIN table' : table'[i].counter = heard'[table'[i].ip]
  <2> SUFFICES ASSUME NEW i \in 1 .. Len(t) PROVE table'[i].counter = heard'[table'[i].ip]
    BY <1>4
  <2>1. CASE i = e
    BY <1>4, <1>5, <2>1
  <2>2. CASE i # e
    <3>1. t[i].ip # c
      BY <1>1, <2>2
    <3>2. i \in 1 .. Len(table) /\ t[i] = table[i]
      BY <1>1, <3>1
    <3>3. table \in Seq(TableEntries)
      BY DEF TInv, QueueType
    <3>4. table[i] \in TableEntries /\ i \in DOMAIN table
      BY <3>2, <3>3
    <3>5. table[i].ip \in Clients \ {c}
      BY <3>1, <3>2, <3>4 DEF TableEntries
    <3>6. table[i].counter = heard[table[i].ip]
      BY <3>4 DEF Counted
    <3>7. table'[i] = table[i]
      BY <1>4, <2>2, <3>2
    <3> QED BY <1>5, <3>5, <3>6, <3>7
  <2> QED BY <2>1, <2>2
<1> QED BY <1>6, <1>7, <1>8 DEF Counted

(* Every step keeps the numbers right while all clients fit.               *)
LEMMA StepCounted ==
  ASSUME TInv, Fits, Counted, [Next]_vars PROVE Counted'
<1> USE DEF serverVars
<1>1. ASSUME UNCHANGED serverVars PROVE Counted'
  BY <1>1 DEF Counted, Known
<1>2. CASE ServerClose
  <2>1. Head(net[Server]).saddr \in Clients
    BY <1>2, FrontRequest DEF ServerClose
  <2> QED BY <1>2, <2>1, CountedStep DEF ServerClose
<1>3. CASE ServerEcho
  <2> DEFINE c == Head(net[Server]).saddr
             no == add_client(c)[Entry(c)].counter + 1
  <2>1. c \in Clients
    BY <1>3, FrontRequest DEF ServerEcho
  <2>2. /\ table' = [add_client(c) EXCEPT ![Entry(c)].counter = no]
        /\ heard' = [heard EXCEPT ![c] = heard[c] + 1] /\ number' = [number EXCEPT ![c] = no]
    BY <1>3 DEF ServerEcho
  <2> HIDE DEF c
  <2>3. add_client(c)[Entry(c)].counter = heard[c]
    <3>1. /\ Entry(c) \in 1 .. Len(add_client(c)) /\ add_client(c)[Entry(c)].ip = c
          /\ \/ Entry(c) \in 1 .. Len(table) /\ add_client(c)[Entry(c)] = table[Entry(c)]
             \/ Known(c) = {} /\ add_client(c)[Entry(c)] = [ip |-> c, counter |-> 0]
      BY <2>1, AddClient, OwnEntry
    <3>2. DOMAIN table = 1 .. Len(table)
      BY DEF TInv, QueueType
    <3>3. CASE Entry(c) \in 1 .. Len(table) /\ add_client(c)[Entry(c)] = table[Entry(c)]
      BY <3>1, <3>2, <3>3 DEF Counted
    <3>4. CASE Known(c) = {} /\ add_client(c)[Entry(c)] = [ip |-> c, counter |-> 0]
      BY <2>1, <3>4 DEF Counted
    <3> QED BY <3>1, <3>3, <3>4
  <2> HIDE DEF no
  <2>4. no = heard[c] + 1
    BY <2>3 DEF no
  <2> QED BY <2>1, <2>2, <2>4, CountedStep
<1> QED BY <1>1, <1>2, <1>3 DEF Next, ServerStep, Start, Type, TypeClose, EndOfInput, Recv,
           ServerDrop, Lose, Noise, vars

-----------------------------------------------------------------------------
(* TInv is an invariant, whether the clients fit in the table or not.      *)
THEOREM Invariance == Spec => []TInv
<1> DEFINE Parts == Scalars /\ Queues /\ Budget
<1>1. Init => Parts
  BY InitTInv, TInvParts
<1>2. Parts /\ [Next]_vars => Parts'
  BY TInvParts, StepTInv
<1>3. Parts => TInv
  BY TInvParts
<1> QED BY <1>1, <1>2, <1>3, PTL DEF Spec

(* The variables keep their types, and no counter passes the number of     *)
(* frames sent, also when the table is full.                               *)
THEOREM TypeCorrect == Spec => []TypeOK
<1>1. TInv => TypeOK
  BY DEF TInv
<1> QED BY <1>1, Invariance, PTL

(* While the table has room for every client, the number in an answer is   *)
(* the number of messages since the client's last CLOSE, and no client has *)
(* two entries.                                                            *)
THEOREM Numbering == ASSUME Fits PROVE Spec => []NumberedPerClient
<1>1. Init => Counted
  BY DEF Init, Counted, Known
<1>2. TInv /\ Counted /\ [Next]_vars => Counted'
  BY StepCounted
<1>3. TInv /\ Counted => NumberedPerClient
  BY DEF TInv, Counted, Distinct, NumberedPerClient
<1> QED BY <1>1, <1>2, <1>3, Invariance, PTL DEF Spec
=============================================================================
