------------------------ MODULE ParallelServerProofs ------------------------
(***************************************************************************)
(* Proofs about ParallelServer for every number of clients, threads and    *)
(* cells, and any number of failures.                                      *)
(*                                                                         *)
(* CellOwnedOnce and SocketHandledOnce count owners.  The inductive        *)
(* invariant says the same with pairs of owners: what main owns (MainOK),  *)
(* what a thread owns (ThreadOK), that no two of them own the same         *)
(* (CellsApart, SocketsApart), and that nothing is without an owner        *)
(* (NoCellLost, NoSocketLost).  The two depend on each other: the          *)
(* descriptor of a thread that has not started is what its cell holds, so  *)
(* that a cell with two owners would be a descriptor with two owners.      *)
(***************************************************************************)
EXTENDS ParallelServer, FiniteSetTheorems, TLAPS

MainHasCell == main \in {"accept", "create"}
HasCell(t) == pc[t] = "start"
Handles(t) == pc[t] # "unborn"

\* The descriptor a thread handles, in its cell or on its stack.
Handled(t) == IF pc[t] = "start" THEN mem[arg[t]] ELSE sock[t]
HandledState(t) == IF pc[t] = "close" THEN "answered" ELSE "accepted"

MainOK == /\ MainHasCell => cell \in heap
          /\ main = "create" => mem[cell] \in Clients /\ conn[mem[cell]] = "accepted"
ThreadOK == \A t \in Handlers :
              /\ HasCell(t) => arg[t] \in heap
              /\ Handles(t) => Handled(t) \in Clients /\ conn[Handled(t)] = HandledState(t)

CellsApart == /\ \A t \in Handlers : HasCell(t) /\ MainHasCell => arg[t] # cell
              /\ \A t, u \in Handlers : HasCell(t) /\ HasCell(u) /\ arg[t] = arg[u] => t = u
SocketsApart ==
  /\ \A t \in Handlers : Handles(t) /\ main = "create" => Handled(t) # mem[cell]
  /\ \A t, u \in Handlers : Handles(t) /\ Handles(u) /\ Handled(t) = Handled(u) => t = u

NoCellLost == \A p \in heap : \/ MainHasCell /\ cell = p
                              \/ \E t \in Handlers : HasCell(t) /\ arg[t] = p
NoSocketLost == \A c \in Clients : conn[c] \in {"accepted", "answered"} =>
                  \/ main = "create" /\ mem[cell] = c
                  \/ \E t \in Handlers : Handles(t) /\ Handled(t) = c

BacklogOK == \A i \in 1 .. Len(backlog) :
               /\ conn[backlog[i]] = "backlog"
               /\ \A j \in 1 .. Len(backlog) : backlog[i] = backlog[j] => i = j

CellInv == CellsApart /\ NoCellLost
SocketInv == SocketsApart /\ NoSocketLost /\ BacklogOK

IInv == TypeOK /\ MainOK /\ ThreadOK /\ CellInv /\ SocketInv

-----------------------------------------------------------------------------
(* At the start nothing is allocated and nobody is connected.              *)
LEMMA InitIInv == Init => IInv
<1> SUFFICES ASSUME Init PROVE IInv
  OBVIOUS
<1>1. TypeOK
  BY BoundsAssumption DEF Init, TypeOK, Split
<1>2. MainOK /\ ThreadOK /\ CellInv /\ SocketInv
  BY DEF Init, MainOK, ThreadOK, CellInv, SocketInv, CellsApart, SocketsApart, NoCellLost,
     NoSocketLost, BacklogOK, MainHasCell, HasCell, Handles
<1> QED BY <1>1, <1>2 DEF IInv

(* A time has a high and a low part.                                       *)
LEMMA SplitType ==
  ASSUME NEW n \in 0 .. MaxTime PROVE Split(n) \in [hi : 0 .. MaxTime, lo : 0 .. 1]
<1>1. n \div 2 \in 0 .. MaxTime /\ n % 2 \in 0 .. 1
  BY BoundsAssumption
<1> QED BY <1>1 DEF Split

(* Every step keeps the types.                                             *)
LEMMA TypeStep ==
  ASSUME TypeOK, MainOK, ThreadOK, [Next]_vars PROVE TypeOK'
<1> USE BoundsAssumption DEF TypeOK, mainVars, heapVars, threadVars, netVars
<1>1. ASSUME NEW c \in Clients, Connect(c) PROVE TypeOK'
  BY <1>1 DEF Connect
<1>2. ASSUME NEW c \in Clients, Recv(c) PROVE TypeOK'
  BY <1>2 DEF Recv
<1>3. CASE Tick
  BY <1>3 DEF Tick
<1>4. CASE Malloc
  BY <1>4 DEF Malloc
<1>5. CASE Accept
  BY <1>5 DEF Accept, MainOK, MainHasCell
<1>6. CASE AcceptFails
  BY <1>6 DEF AcceptFails, MainOK, MainHasCell
<1>7. CASE CreateFails
  BY <1>7 DEF CreateFails, MainOK
<1>8. ASSUME NEW t \in Handlers, Create(t) PROVE TypeOK'
  BY <1>8 DEF Create
<1>9. ASSUME NEW t \in Handlers, Start(t) PROVE TypeOK'
  BY <1>9 DEF Start, ThreadOK, HasCell
<1>10. ASSUME NEW t \in Handlers, Time(t) PROVE TypeOK'
  BY <1>10 DEF Time
<1>11. ASSUME NEW t \in Handlers, Localtime(t) PROVE TypeOK'
  <2>1. tm' \in [hi : 0 .. MaxTime, lo : 0 .. 1]
    BY <1>11, SplitType DEF Localtime
  <2> QED BY <1>11, <2>1 DEF Localtime
<1>12. ASSUME NEW t \in Handlers, StrftimeHi(t) \/ StrftimeLo(t) PROVE TypeOK'
  <2> DEFINE Times == [hi : 0 .. MaxTime, lo : 0 .. 1]
  <2>1. [shown[t] EXCEPT !.hi = tm.hi] \in Times /\ [shown[t] EXCEPT !.lo = tm.lo] \in Times
    OBVIOUS
  <2>2. PICK r \in Times : shown' = [shown EXCEPT ![t] = r]
    BY <1>12, <2>1 DEF StrftimeHi, StrftimeLo
  <2>3. shown' \in [Handlers -> Times]
    BY <2>2
  <2> QED BY <1>12, <2>3 DEF StrftimeHi, StrftimeLo
<1>13. ASSUME NEW t \in Handlers, Send(t) PROVE TypeOK'
  BY <1>13 DEF Send, ThreadOK, Handles, Handled
<1>14. ASSUME NEW t \in Handlers, Close(t) PROVE TypeOK'
  <2>1. Split(0) \in [hi : 0 .. MaxTime, lo : 0 .. 1]
    BY SplitType
  <2>2. shown' \in [Handlers -> [hi : 0 .. MaxTime, lo : 0 .. 1]]
    BY <1>14, <2>1 DEF Close
  <2>3. conn' \in [Clients -> {"none", "backlog", "accepted", "answered"}]
    BY <1>14 DEF Close
  <2> QED BY <1>14, <2>2, <2>3 DEF Close
<1>15. CASE UNCHANGED vars
  BY <1>15 DEF vars
<1> QED BY <1>1, <1>2, <1>3, <1>4, <1>5, <1>6, <1>7, <1>8, <1>9, <1>10, <1>11, <1>12,
           <1>13, <1>14, <1>15 DEF Next, CreateStep, HandlerStep

-----------------------------------------------------------------------------
(* A step that moves no cell and no descriptor keeps the invariant.        *)
LEMMA QuietStep ==
  ASSUME IInv,
         UNCHANGED <<main, cell, heap, mem, arg, sock, conn, backlog>>,
         \A t \in Handlers : /\ Handles(t)' <=> Handles(t)
                             /\ HasCell(t)' <=> HasCell(t)
                             /\ HandledState(t)' = HandledState(t)
  PROVE  MainOK' /\ ThreadOK' /\ CellInv' /\ SocketInv'
<1> DEFINE Same == \A t \in Handlers : Handled(t)' = Handled(t)
<1>1. Same
  BY DEF Handled, HasCell
<1> HIDE DEF Same
<1>2. MainOK' /\ CellInv'
  BY DEF IInv, MainOK, CellInv, CellsApart, NoCellLost, MainHasCell
<1>3. ThreadOK' /\ SocketsApart' /\ NoSocketLost' /\ BacklogOK'
  BY <1>1 DEF IInv, ThreadOK, SocketInv, SocketsApart, NoSocketLost, BacklogOK, Same
<1> QED BY <1>2, <1>3 DEF SocketInv

(* malloc, accept, the error paths of main, the start of a thread, send    *)
(* and close keep every cell and every descriptor with one owner.          *)
LEMMA OwnStep ==
  ASSUME IInv, [Next]_vars
  PROVE  MainOK' /\ ThreadOK' /\ CellInv' /\ SocketInv'
<1> USE DEF IInv, TypeOK, mainVars, heapVars, threadVars, netVars
<1> DEFINE Goal == MainOK' /\ ThreadOK' /\ CellInv' /\ SocketInv'
<1>1. ASSUME NEW c \in Clients, Connect(c) PROVE Goal
  <2>1. MainOK' /\ ThreadOK'
    BY <1>1 DEF Connect, MainOK, ThreadOK, MainHasCell, HasCell, Handles, Handled, HandledState
  <2>2. CellInv'
    BY <1>1 DEF Connect, CellInv, CellsApart, NoCellLost, MainHasCell, HasCell
  <2>3. SocketsApart' /\ NoSocketLost'
    BY <1>1 DEF Connect, SocketInv, SocketsApart, NoSocketLost, Handles, Handled
  <2>4. BacklogOK'
    BY <1>1 DEF Connect, SocketInv, BacklogOK
  <2> QED BY <2>1, <2>2, <2>3, <2>4 DEF SocketInv
<1>2. ASSUME NEW c \in Clients, Recv(c) PROVE Goal
  BY <1>2, QuietStep DEF Recv, Handles, HasCell, HandledState
<1>3. CASE Tick
  BY <1>3, QuietStep DEF Tick, Handles, HasCell, HandledState
<1>4. CASE Malloc
  <2> HIDE DEF Goal
  <2>1. PICK p \in Cells \ heap : cell' = p /\ heap' = heap \union {p}
    BY <1>4 DEF Malloc
  <2>2. MainOK' /\ ThreadOK'
    BY <1>4, <2>1 DEF Malloc, MainOK, ThreadOK, MainHasCell, HasCell, Handles, Handled, HandledState
  <2>3. CellInv'
    BY <1>4, <2>1 DEF Malloc, CellInv, CellsApart, NoCellLost, ThreadOK, MainHasCell, HasCell
  <2>4. SocketInv'
    BY <1>4, <2>1 DEF Malloc, SocketInv, SocketsApart, NoSocketLost, BacklogOK, Handles, Handled
  <2> QED BY <2>2, <2>3, <2>4 DEF Goal
<1>5. CASE Accept
  <2> DEFINE c == Head(backlog)
  <2>1. c \in Clients /\ conn[c] = "backlog" /\ backlog[1] = c /\ cell \in heap
    BY <1>5 DEF Accept, SocketInv, BacklogOK, MainOK, MainHasCell
  <2>2. /\ mem' = [mem EXCEPT ![cell] = c] /\ conn' = [conn EXCEPT ![c] = "accepted"]
        /\ main = "accept" /\ main' = "create" /\ UNCHANGED <<cell, heap, threadVars>>
        /\ backlog' = Tail(backlog)
    BY <1>5 DEF Accept
  <2> HIDE DEF c
  <2>3. \A t \in Handlers : Handles(t) => Handled(t)' = Handled(t)
    BY <2>1, <2>2 DEF Handles, Handled, CellInv, CellsApart, ThreadOK, HasCell, MainHasCell
  <2>4. MainOK' /\ ThreadOK'
    BY <2>1, <2>2, <2>3 DEF MainOK, ThreadOK, MainHasCell, HasCell, Handles, HandledState
  <2>5. CellInv'
    BY <2>2 DEF CellInv, CellsApart, NoCellLost, MainHasCell, HasCell
  <2>6. SocketsApart'
    <3>1. mem'[cell'] = c /\ \A t \in Handlers : Handles(t) => Handled(t) # c
      BY <2>1, <2>2 DEF ThreadOK, HandledState
    <3> QED BY <2>2, <2>3, <3>1 DEF SocketInv, SocketsApart, Handles
  <2>8. NoSocketLost'
    <3>1. mem'[cell'] = c
      BY <2>1, <2>2
    <3> QED BY <2>1, <2>2, <2>3, <3>1 DEF SocketInv, NoSocketLost, Handles
  <2>7. BacklogOK'
    BY <1>5, <2>1, <2>2 DEF SocketInv, BacklogOK
  <2> QED BY <2>4, <2>5, <2>6, <2>7, <2>8 DEF SocketInv
<1>6. CASE AcceptFails
  <2>1. \A t \in Handlers : Handles(t) => Handled(t)' = Handled(t)
    BY <1>6 DEF AcceptFails, Handles, Handled, CellInv, CellsApart, HasCell, MainHasCell, MainOK, ThreadOK
  <2>2. MainOK' /\ ThreadOK'
    BY <1>6, <2>1 DEF AcceptFails, MainOK, ThreadOK, CellInv, CellsApart, MainHasCell, HasCell, Handles, HandledState
  <2>3. CellInv'
    BY <1>6 DEF AcceptFails, CellInv, CellsApart, NoCellLost, MainHasCell, HasCell
  <2>4. SocketInv'
    BY <1>6, <2>1 DEF AcceptFails, SocketInv, SocketsApart, NoSocketLost, BacklogOK, Handles
  <2> QED BY <2>2, <2>3, <2>4
<1>7. CASE CreateFails
  <2>1. \A t \in Handlers : Handles(t) => Handled(t)' = Handled(t)
    BY <1>7 DEF CreateFails, Handles, Handled
  <2>2. MainOK' /\ ThreadOK'
    BY <1>7, <2>1 DEF CreateFails, MainOK, ThreadOK, CellInv, CellsApart, SocketInv, SocketsApart,
       MainHasCell, HasCell, Handles, HandledState
  <2>3. CellInv'
    BY <1>7 DEF CreateFails, CellInv, CellsApart, NoCellLost, MainHasCell, HasCell
  <2>4. SocketInv'
    BY <1>7, <2>1 DEF CreateFails, SocketInv, SocketsApart, NoSocketLost, BacklogOK, Handles, MainOK
  <2> QED BY <2>2, <2>3, <2>4
<1>8. ASSUME NEW t \in Handlers, Create(t) PROVE Goal
  <2>1. /\ \A u \in Handlers \ {t} : /\ Handled(u)' = Handled(u) /\ Handles(u)' = Handles(u)
                                     /\ HasCell(u)' = HasCell(u)
                                     /\ HandledState(u)' = HandledState(u)
        /\ ~Handles(t) /\ Handles(t)' /\ HasCell(t)' /\ Handled(t)' = mem[cell]
        /\ HandledState(t)' = "accepted" /\ arg'[t] = cell /\ ~HasCell(t)
    BY <1>8 DEF Create, Handles, Handled, HandledState, HasCell
  <2>2. /\ main = "create" /\ main' = "malloc" /\ arg' = [arg EXCEPT ![t] = cell]
        /\ UNCHANGED <<cell, heapVars, netVars>>
    BY <1>8 DEF Create
  <2>3. MainOK' /\ ThreadOK'
    BY <2>1, <2>2 DEF MainOK, ThreadOK, MainHasCell
  <2>4. CellInv'
    BY <2>1, <2>2 DEF CellInv, CellsApart, NoCellLost, MainHasCell
  <2>5. SocketsApart'
    BY <2>1, <2>2 DEF SocketInv, SocketsApart
  <2>6. NoSocketLost' /\ BacklogOK'
    BY <2>1, <2>2 DEF SocketInv, NoSocketLost, BacklogOK
  <2> QED BY <2>3, <2>4, <2>5, <2>6 DEF SocketInv
<1>9. ASSUME NEW t \in Handlers, Start(t) PROVE Goal
  <2>1. \A u \in Handlers : /\ Handled(u)' = Handled(u) /\ Handles(u)' = Handles(u)
                            /\ HasCell(u)' = (HasCell(u) /\ u # t)
                            /\ HandledState(u)' = HandledState(u)
    BY <1>9 DEF Start, Handles, Handled, HandledState, HasCell
  <2>2. /\ HasCell(t) /\ heap' = heap \ {arg[t]} /\ UNCHANGED <<main, cell, mem, arg, netVars>>
    BY <1>9 DEF Start, HasCell
  <2>3. MainOK' /\ ThreadOK'
    BY <2>1, <2>2 DEF MainOK, ThreadOK, MainHasCell, CellInv, CellsApart
  <2>4. CellInv'
    BY <2>1, <2>2 DEF CellInv, CellsApart, NoCellLost, MainHasCell
  <2>5. SocketInv'
    BY <2>1, <2>2 DEF SocketInv, SocketsApart, NoSocketLost, BacklogOK
  <2> QED BY <2>3, <2>4, <2>5
<1>10. ASSUME NEW t \in Handlers, Time(t) \/ Localtime(t) \/ StrftimeHi(t) \/ StrftimeLo(t)
       PROVE  Goal
  <2>1. UNCHANGED <<main, cell, heap, mem, arg, sock, conn, backlog>>
    BY <1>10 DEF Time, Localtime, StrftimeHi, StrftimeLo
  <2>2. \A u \in Handlers : /\ Handles(u)' <=> Handles(u)
                            /\ HasCell(u)' <=> HasCell(u)
                            /\ HandledState(u)' = HandledState(u)
    BY <1>10 DEF Time, Localtime, StrftimeHi, StrftimeLo, Handles, HasCell, HandledState
  <2> QED BY <2>1, <2>2, QuietStep
<1>11. ASSUME NEW t \in Handlers, Send(t) PROVE Goal
  <2>1. /\ \A u \in Handlers : /\ Handled(u)' = Handled(u) /\ Handles(u)' = Handles(u)
                               /\ HasCell(u)' = HasCell(u)
                               /\ u # t => HandledState(u)' = HandledState(u)
        /\ HandledState(t)' = "answered" /\ Handles(t) /\ Handled(t) = sock[t]
    BY <1>11 DEF Send, Handles, Handled, HandledState, HasCell
  <2>2. /\ conn' = [conn EXCEPT ![sock[t]] = "answered"]
        /\ UNCHANGED <<main, cell, heap, mem, arg, backlog>>
        /\ sock[t] \in Clients /\ conn[sock[t]] = "accepted"
    BY <1>11, <2>1 DEF Send, ThreadOK, HandledState
  <2>3. MainOK' /\ ThreadOK'
    BY <2>1, <2>2 DEF MainOK, ThreadOK, MainHasCell, SocketInv, SocketsApart
  <2>4. CellInv'
    BY <2>1, <2>2 DEF CellInv, CellsApart, NoCellLost, MainHasCell
  <2>5. SocketInv'
    BY <2>1, <2>2 DEF SocketInv, SocketsApart, NoSocketLost, BacklogOK
  <2> QED BY <2>3, <2>4, <2>5
<1>12. ASSUME NEW t \in Handlers, Close(t) PROVE Goal
  <2>1. /\ \A u \in Handlers \ {t} : /\ Handled(u)' = Handled(u) /\ Handles(u)' = Handles(u)
                                     /\ HasCell(u)' = HasCell(u) /\ arg'[u] = arg[u]
                                     /\ HandledState(u)' = HandledState(u)
        /\ Handles(t) /\ ~Handles(t)' /\ Handled(t) = sock[t] /\ ~HasCell(t) /\ ~HasCell(t)'
    BY <1>12 DEF Close, Handles, Handled, HandledState, HasCell
  <2>2. /\ conn' = [conn EXCEPT ![sock[t]] = "none"]
        /\ UNCHANGED <<main, cell, heap, mem, backlog>>
        /\ sock[t] \in Clients /\ conn[sock[t]] = "answered"
    BY <1>12, <2>1 DEF Close, ThreadOK, HandledState
  <2>3. MainOK'
    BY <2>1, <2>2 DEF MainOK, MainHasCell, SocketInv, SocketsApart
  <2>6. ThreadOK'
    <3>1. \A u \in Handlers \ {t} : Handles(u) => Handled(u) # sock[t]
      BY <2>1 DEF SocketInv, SocketsApart
    <3> QED BY <2>1, <2>2, <3>1 DEF ThreadOK
  <2>4. CellInv'
    BY <2>1, <2>2 DEF CellInv, CellsApart, NoCellLost, MainHasCell
  <2>5. SocketsApart'
    <3>1. \A u \in Handlers : Handles(u)' => u # t /\ Handles(u) /\ Handled(u)' = Handled(u)
      BY <2>1
    <3> HIDE DEF IInv, TypeOK
    <3>2. SocketsApart
      BY DEF IInv, SocketInv
    <3> QED BY <2>2, <3>1, <3>2 DEF SocketsApart
  <2>7. NoSocketLost'
    <3>1. NoSocketLost
      BY DEF SocketInv
    <3>2. \A c \in Clients : conn'[c] \in {"accepted", "answered"} =>
             c # sock[t] /\ conn[c] \in {"accepted", "answered"}
      BY <2>2
    <3>3. \A u \in Handlers : u # t /\ Handles(u) => Handles(u)' /\ Handled(u)' = Handled(u)
      BY <2>1
    <3> HIDE DEF IInv, TypeOK
    <3> QED BY <2>1, <2>2, <3>1, <3>2, <3>3 DEF NoSocketLost
  <2>8. BacklogOK'
    BY <2>2 DEF SocketInv, BacklogOK
  <2> QED BY <2>3, <2>4, <2>5, <2>6, <2>7, <2>8 DEF SocketInv
<1>13. CASE UNCHANGED vars
  BY <1>13, QuietStep DEF vars, Handles, HasCell, HandledState
<1> QED BY <1>1, <1>2, <1>3, <1>4, <1>5, <1>6, <1>7, <1>8, <1>9, <1>10, <1>11, <1>12,
           <1>13 DEF Next, CreateStep, HandlerStep

-----------------------------------------------------------------------------
(* IInv is an invariant of the server.                                     *)
THEOREM Invariance == Spec => []IInv
<1>1. IInv /\ [Next]_vars => IInv'
  <2> SUFFICES ASSUME IInv, [Next]_vars PROVE IInv'
    OBVIOUS
  <2>1. TypeOK'
    BY TypeStep DEF IInv
  <2> QED BY <2>1, OwnStep DEF IInv
<1> QED BY InitIInv, <1>1, PTL DEF Spec

(* The variables keep their types, whatever fails.                         *)
THEOREM TypeCorrect == Spec => []TypeOK
<1>1. IInv => TypeOK
  BY DEF IInv
<1> QED BY <1>1, Invariance, PTL

(* Every allocated cell has one owner and every free one none: there is no *)
(* leak, no use after free and no double free on any path of main.         *)
THEOREM CellOwnership == Spec => []CellOwnedOnce
<1>1. IInv => CellOwnedOnce
  <2> SUFFICES ASSUME IInv, NEW p \in Cells
               PROVE  Cardinality(CellOwners(p)) = IF p \in heap THEN 1 ELSE 0
    BY DEF CellOwnedOnce
  <2> USE HandlersAssumption DEF IInv, CellInv, CellOwners
  <2>1. CASE p \notin heap
    <3>1. CellOwners(p) = {}
      BY <2>1 DEF MainOK, ThreadOK, MainHasCell, HasCell
    <3> QED BY <2>1, <3>1, FS_EmptySet
  <2>2. CASE p \in heap
    <3>1. \E x : CellOwners(p) = {x}
      <4>1. CASE MainHasCell /\ cell = p
        <5>1. CellOwners(p) = {"main"}
          BY <4>1 DEF CellsApart, MainHasCell, HasCell
        <5> QED BY <5>1
      <4>2. ASSUME NEW t \in Handlers, HasCell(t), arg[t] = p PROVE CellOwners(p) = {t}
        BY <4>2 DEF CellsApart, MainHasCell, HasCell
      <4> QED BY <2>2, <4>1, <4>2 DEF NoCellLost
    <3> QED BY <2>2, <3>1, FS_Singleton
  <2> QED BY <2>1, <2>2
<1> QED BY <1>1, Invariance, PTL

(* Every accepted descriptor that is not closed is handled by main or by   *)
(* one thread, also when accept or pthread_create fails.                   *)
THEOREM SocketOwnership == Spec => []SocketHandledOnce
<1>1. IInv => SocketHandledOnce
  <2> SUFFICES ASSUME IInv, NEW c \in Clients
               PROVE  Cardinality(SocketOwners(c)) =
                        IF conn[c] \in {"accepted", "answered"} THEN 1 ELSE 0
    BY DEF SocketHandledOnce
  <2> DEFINE T == {t \in Handlers : Handles(t) /\ Handled(t) = c}
             M == IF main = "create" /\ mem[cell] = c THEN {"main"} ELSE {}
  <2>0. SocketOwners(c) = T \union M
    BY DEF SocketOwners, Handles, Handled
  <2> USE HandlersAssumption DEF IInv, SocketInv
  <2>1. CASE conn[c] \notin {"accepted", "answered"}
    <3>1. T = {} /\ M = {}
      BY <2>1 DEF MainOK, ThreadOK, HandledState
    <3> QED BY <2>0, <2>1, <3>1, FS_EmptySet
  <2>2. CASE conn[c] \in {"accepted", "answered"}
    <3>1. \E x : SocketOwners(c) = {x}
      <4>1. CASE main = "create" /\ mem[cell] = c
        <5>1. SocketOwners(c) = {"main"}
          BY <2>0, <4>1 DEF SocketsApart
        <5> QED BY <5>1
      <4>2. ASSUME NEW t \in Handlers, Handles(t), Handled(t) = c PROVE SocketOwners(c) = {t}
        BY <2>0, <4>2 DEF SocketsApart
      <4> QED BY <2>2, <4>1, <4>2 DEF NoSocketLost
    <3> QED BY <2>2, <3>1, FS_Singleton
  <2> QED BY <2>1, <2>2
<1> QED BY <1>1, Invariance, PTL

(* Every step is a step of TimeService or a stutter; a client is refused   *)
(* only by main, before it has a thread for it.                            *)
THEOREM Refinement == Spec => Abstract!Safety
<1> USE DEF Status
<1>1. Init => Abstract!Init
  BY DEF Init, Abstract!Init
<1>2. ASSUME IInv, [Next]_vars PROVE [Abstract!Next]_Status
  <2> USE <1>2 DEF IInv, TypeOK
  <2>0. ASSUME NEW c \in Clients, NEW s, conn' = [conn EXCEPT ![c] = s]
        PROVE  Status' = [Status EXCEPT ![c] =
                 IF s \in {"backlog", "accepted"} THEN "waiting"
                 ELSE IF s = "answered" THEN "answered" ELSE "idle"]
    BY <2>0
  <2>1. ASSUME NEW c \in Clients, Connect(c) PROVE Abstract!Next
    <3>1. Abstract!Connect(c)
      BY <2>0, <2>1 DEF Connect, Abstract!Connect
    <3> QED BY <3>1 DEF Abstract!Next
  <2>2. CASE Accept
    <3>1. Head(backlog) \in Clients /\ conn[Head(backlog)] = "backlog"
      BY <2>2 DEF Accept, SocketInv, BacklogOK
    <3> QED BY <2>0, <2>2, <3>1 DEF Accept
  <2>3. CASE CreateFails
    <3>1. PICK c \in Clients : c = mem[cell] /\ conn[c] = "accepted"
      BY <2>3 DEF CreateFails, MainOK
    <3>2. Status' = [Status EXCEPT ![c] = "idle"]
      BY <2>0, <2>3, <3>1 DEF CreateFails
    <3>3. c \in Unhandled
      BY <2>3, <3>1 DEF CreateFails, Unhandled
    <3>4. Abstract!Refuse(c)
      BY <3>1, <3>2, <3>3 DEF Abstract!Refuse
    <3> QED BY <3>4 DEF Abstract!Next
  <2>4. ASSUME NEW t \in Handlers, Send(t) PROVE Abstract!Next
    <3>1. PICK c \in Clients : c = sock[t] /\ conn[c] = "accepted"
      BY <2>4 DEF Send, ThreadOK, Handles, Handled, HandledState
    <3>2. Status' = [Status EXCEPT ![c] = "answered"]
      BY <2>0, <2>4, <3>1 DEF Send
    <3>3. Abstract!Answer(c)
      BY <3>1, <3>2 DEF Abstract!Answer
    <3> QED BY <3>3 DEF Abstract!Next
  <2>5. ASSUME NEW t \in Handlers, Close(t) PROVE Abstract!Next
    <3>1. PICK c \in Clients : c = sock[t] /\ conn[c] = "answered"
      BY <2>5 DEF Close, ThreadOK, Handles, Handled, HandledState
    <3>2. Status' = [Status EXCEPT ![c] = "idle"]
      BY <2>0, <2>5, <3>1 DEF Close
    <3>3. Abstract!HangUp(c)
      BY <3>1, <3>2 DEF Abstract!HangUp
    <3> QED BY <3>3 DEF Abstract!Next
  <2>6. ASSUME UNCHANGED conn PROVE UNCHANGED Status
    BY <2>6
  <2> QED BY <2>1, <2>2, <2>3, <2>4, <2>5, <2>6 DEF Next, CreateStep, HandlerStep, Malloc,
         AcceptFails, Create, Start, Time, Localtime, StrftimeHi, StrftimeLo, Recv, Tick,
         netVars, vars
<1> QED BY <1>1, <1>2, Invariance, PTL DEF Spec, Abstract!Safety
=============================================================================
