--------------------------- MODULE ShmChatProofs ---------------------------
(***************************************************************************)
(* Proofs about ShmChat for every number of users, entries, ring cells and *)
(* rows, and any number of killed clients and restarts of the server.      *)
(*                                                                         *)
(* The semaphore.  ExclusiveAccess is inductive: sem_wait takes from the   *)
(* value what it adds to those inside, sem_post gives it back, and a start *)
(* of the server adds one to the clients it finds inside.  With no client  *)
(* found, at most one is inside and the semaphore is then taken (Alone).   *)
(*                                                                         *)
(* A clean start.  Quiet says how far the server has come while nobody is  *)
(* inside; when its loop is done the table is empty and the ring too.      *)
(*                                                                         *)
(* The table.  TableConsistent compares client_count with entries and with *)
(* clients that have lost theirs; what a step does to those sets depends   *)
(* on whose entry it overwrites.  TableInv counts differently: Excess, the *)
(* registrations counted or outlived that no counted client stands for,    *)
(* changes only when a client is killed, and Dead, the entries of killed   *)
(* clients, does not exceed it while the semaphore is not lost.  That live *)
(* entries and clients that have their entry are equally many (Census)     *)
(* leads back to TableConsistent.                                          *)
(*                                                                         *)
(* The ring.  Between the write of a message and the store that counts it  *)
(* the cell behind the newest message, which in a full ring is that of the *)
(* oldest, holds a message not counted yet: RingInv follows both phases.   *)
(***************************************************************************)
EXTENDS ShmChat, FiniteSetTheorems, TLAPS

Seats == {u \in Users : Seated(u)}
Dead == {i \in Active : ~(Seated(clients[i]) /\ slot[clients[i]] = i)}
Excess == client_count + outlived - Cardinality(Counted)

\* No client inside at the last sem_init, and none until the server was done.
Good == ~spoilt /\ ~early

Alone ==
  /\ server = "print" => sem = 0 /\ \A v \in Users : ~MainInside(v) /\ ~PollInside(v)
  /\ \A u \in Users : MainInside(u) =>
       sem = 0 /\ \A v \in Users : ~PollInside(v) /\ (MainInside(v) => v = u)
  /\ \A u \in Users : PollInside(u) => sem = 0 /\ \A v \in Users : PollInside(v) => v = u

\* The server while it starts.
Quiet ==
  /\ server # "clear" => entry = 0
  /\ server = "none" => sem = 0 /\ restarts = 0 /\ Good
  /\ Good /\ (server = "none" \/ Initialising) =>
       /\ \A u \in Users : ~MainInside(u) /\ ~PollInside(u)
       /\ restarts = 0 => \A u \in Users : pc[u] = "out"
  /\ Good /\ server \in {"start", "messages", "clear"} => client_count = 0
  /\ Good /\ server = "clear" =>
       msg_count = 0 /\ before = posted /\ \A i \in Slots : i < entry => clients[i] = None

\* What a client inside has read is still so.
ReadsOf(u) ==
  /\ pc[u] = "claim" => clients[slot[u]] = None
  /\ pc[u] \in {"entering", "leaving"} => tmp[u] = client_count
  /\ pc[u] = "write" => tmp[u] = (msg_start + msg_count) % MaxMessages
  /\ pc[u] \in {"grow", "grown"} => msg_count < MaxMessages
  /\ pc[u] = "grown" => tmp[u] = msg_count
  /\ pc[u] \in {"shift", "shifted"} => msg_count >= MaxMessages
  /\ pc[u] = "shifted" => tmp[u] = msg_start
Reads == Clean => \A u \in Users : ReadsOf(u)

TableInv ==
  /\ Good /\ server \notin {"none", "count"} =>
       0 <= Excess /\ Excess <= kills /\ (restarts = 0 => outlived = 0)
  /\ Clean /\ Usable =>
       /\ Cardinality(Dead) <= Excess
       /\ restarts = 0 => Orphans = {} /\ Excess = Cardinality(Dead)

\* The cell of the i-th oldest message, counted from 0.
CellOf(i) == IF msg_start + i < MaxMessages THEN msg_start + i
                                            ELSE msg_start + i - MaxMessages

\* The number of messages in the ring when n have been posted to it.
Kept(n) == IF n < MaxMessages THEN n ELSE MaxMessages

Settled == /\ msg_count = Kept(posted - before)
           /\ \A i \in 0 .. msg_count - 1 : messages[CellOf(i)] = posted - msg_count + 1 + i
Written == /\ posted > before /\ msg_count = Kept(posted - 1 - before)
           /\ messages[CellOf(msg_count)] = posted
           /\ \A i \in 0 .. msg_count - 1 : i # 0 \/ msg_count # MaxMessages =>
                messages[CellOf(i)] = posted - msg_count + i

\* The message is in its cell and not yet counted.
Writing(u) == pc[u] \in {"test", "grow", "grown", "shift", "shifted"}

RingInv == /\ before <= posted
           /\ Clean /\ Usable => IF \E u \in Users : Writing(u) THEN Written ELSE Settled

\* What a client that has its entry has drawn, in a window that is high enough.
Blank(u) == pc[u] \in {"out", "scan", "claim", "full", "enter", "entering", "entered"}
WindowOf(u) ==
  /\ Blank(u) => last_msg[u] = 0 /\ chatWindow[u] = <<>> /\ rpc[u] = "none"
  /\ /\ Clean /\ Seated(u) /\ u \notin Orphans
     /\ posted - before <= MaxMessages /\ Rows >= MaxMessages
     => chatWindow[u] = [i \in 1 .. last_msg[u] |-> before + i]

WindowInv == \A u \in Users : WindowOf(u)

IInv == TypeOK /\ ExclusiveAccess /\ Quiet /\ Reads /\ TableInv /\ RingInv /\ WindowInv

-----------------------------------------------------------------------------
(* The sets that are counted are finite.                                   *)
LEMMA Finiteness ==
  ASSUME TypeOK
  PROVE  /\ IsFiniteSet(Active) /\ IsFiniteSet(Dead) /\ IsFiniteSet(Seats)
         /\ IsFiniteSet(Counted) /\ IsFiniteSet(Orphans)
         /\ Cardinality(Users) \in Nat /\ Cardinality(Active) \in Nat
         /\ Cardinality(Dead) \in Nat /\ Cardinality(Orphans) \in Nat
         /\ Cardinality(Seats) \in Nat /\ Cardinality(Counted) \in 0 .. Cardinality(Users)
<1>1. IsFiniteSet(Slots)
  BY FS_Interval, LimitsAssumption DEF Slots
<1>2. Active \in SUBSET Slots /\ Dead \in SUBSET Slots
  BY DEF Active, Dead
<1>3. Counted \in SUBSET Users /\ Orphans \in SUBSET Users /\ Seats \in SUBSET Users
  BY DEF Counted, Orphans, Seats
<1>4. IsFiniteSet(Active) /\ IsFiniteSet(Dead)
  BY <1>1, <1>2, FS_Subset
<1>5. /\ IsFiniteSet(Counted) /\ IsFiniteSet(Orphans) /\ IsFiniteSet(Seats)
      /\ Cardinality(Counted) <= Cardinality(Users)
  BY <1>3, FS_Subset, UsersAssumption
<1>6. /\ Cardinality(Active) \in Nat /\ Cardinality(Dead) \in Nat /\ Cardinality(Orphans) \in Nat
      /\ Cardinality(Counted) \in Nat /\ Cardinality(Seats) \in Nat /\ Cardinality(Users) \in Nat
  BY <1>4, <1>5, FS_CardinalityType, UsersAssumption
<1> QED BY <1>4, <1>5, <1>6

(* There are as many live entries as seated clients that have theirs.      *)
LEMMA Census ==
  ASSUME TypeOK
  PROVE  Cardinality(Active) + Cardinality(Orphans) = Cardinality(Seats) + Cardinality(Dead)
<1> DEFINE Keepers == Seats \ Orphans
           Alive == Active \ Dead
           f == [u \in Keepers |-> slot[u]]
<1>1. f \in Bijection(Keepers, Alive)
  <2>1. \A u \in Keepers : slot[u] \in Alive /\ clients[slot[u]] = u
    BY UsersAssumption DEF Seats, Orphans, Active, Dead, TypeOK
  <2>2. \A i \in Alive : clients[i] \in Keepers /\ slot[clients[i]] = i
    BY DEF Seats, Orphans, Active, Dead, TypeOK
  <2> HIDE DEF Keepers, Alive
  <2> QED BY <2>1, <2>2 DEF Bijection, Injection, Surjection, IsInjective
<1>2. IsFiniteSet(Keepers) /\ Cardinality(Keepers) = Cardinality(Seats) - Cardinality(Orphans)
  <2>1. Orphans \subseteq Seats
    BY DEF Orphans, Seats
  <2>2. Seats \cap Orphans = Orphans
    BY <2>1
  <2> QED BY <2>2, Finiteness, FS_Difference
<1>3. IsFiniteSet(Alive) /\ Cardinality(Alive) = Cardinality(Active) - Cardinality(Dead)
  <2>1. Active \cap Dead = Dead
    BY DEF Dead
  <2> QED BY <2>1, Finiteness, FS_Difference
<1>4. Cardinality(Alive) = Cardinality(Keepers)
  <2> HIDE DEF Keepers, Alive, f
  <2> QED BY <1>1, <1>2, FS_Bijection DEF ExistsBijection
<1> QED BY <1>2, <1>3, <1>4, Finiteness

(* TableInv says what the runs check.                                      *)
LEMMA TableFromInv == TypeOK /\ TableInv => TableConsistent
<1> SUFFICES ASSUME TypeOK, TableInv, Clean, Usable,
                    \A u \in Users : pc[u] \notin {"enter", "entering", "uncount", "leaving"}
             PROVE  /\ client_count + outlived - Cardinality(Active) - Cardinality(Orphans)
                         \in 0 .. kills
                    /\ restarts = 0 =>
                         /\ Orphans = {} /\ client_count = Cardinality(Active)
                         /\ Cardinality(Active) <= Cardinality(Counted) + kills
  BY DEF TableConsistent
<1>1. restarts = 0 => Cardinality(Orphans) = 0
  BY FS_EmptySet DEF TableInv
<1>2. Seats = Counted
  BY DEF Seats, Counted
<1>3. Cardinality(Active) + Cardinality(Orphans) = Cardinality(Counted) + Cardinality(Dead)
  BY <1>2, Census
<1>4. /\ Cardinality(Active) \in Nat /\ Cardinality(Orphans) \in Nat
      /\ Cardinality(Counted) \in Nat /\ Cardinality(Dead) \in Nat
  BY Finiteness
<1>5. client_count \in Int /\ outlived \in Nat /\ kills \in Nat
  BY Finiteness, LimitsAssumption DEF TypeOK
<1>6. /\ Cardinality(Dead) <= Excess /\ Excess <= kills
      /\ restarts = 0 => outlived = 0 /\ Orphans = {} /\ Excess = Cardinality(Dead)
  BY DEF TableInv, Clean, Good
<1>7. client_count + outlived - Cardinality(Active) - Cardinality(Orphans) \in 0 .. kills
  BY <1>3, <1>4, <1>5, <1>6 DEF Excess
<1>8. ASSUME restarts = 0
      PROVE  /\ client_count = Cardinality(Active)
             /\ Cardinality(Active) <= Cardinality(Counted) + kills
  BY <1>1, <1>3, <1>4, <1>5, <1>6, <1>8 DEF Excess
<1> QED BY <1>6, <1>7, <1>8

-----------------------------------------------------------------------------
(* The zeroed segment satisfies the invariant.                             *)
LEMMA InitIInv == Init => IInv
<1> SUFFICES ASSUME Init PROVE IInv
  OBVIOUS
<1> USE LimitsAssumption, UsersAssumption
<1>0. Cardinality(Users) \in Nat
  BY FS_CardinalityType
<1>1. TypeOK
  BY <1>0 DEF Init, TypeOK, Slots, Cells, Clean
<1>2. ExclusiveAccess
  <2>1. Inside = {}
    BY DEF Init, Inside, ClientsInside, MainInside, PollInside
  <2> QED BY <2>1, FS_EmptySet DEF Init, ExclusiveAccess
<1>3. Quiet
  BY DEF Init, Quiet, MainInside, PollInside, Good, Initialising
<1>4. Reads /\ TableInv
  BY DEF Init, Reads, TableInv, Clean
<1>5. RingInv
  BY DEF Init, RingInv, Clean
<1>6. WindowInv
  BY DEF Init, WindowInv, WindowOf, Clean
<1> QED BY <1>1, <1>2, <1>3, <1>4, <1>5, <1>6 DEF IInv

-----------------------------------------------------------------------------
(* What a poll prints is a sequence of messages.                           *)
LEMMA PrintedType == TypeOK => Printed \in Seq(Nat)
<1> SUFFICES ASSUME TypeOK PROVE Printed \in Seq(Nat)
  OBVIOUS
<1>1. \A i \in 1 .. msg_count : (msg_start + i - 1) % MaxMessages \in Cells
  BY LimitsAssumption DEF TypeOK, Cells
<1>2. Contents \in Seq(Nat) /\ Len(Contents) = msg_count
  BY <1>1, LimitsAssumption DEF Contents, TypeOK
<1> QED BY <1>2, LimitsAssumption DEF Printed, TypeOK

(* Every step keeps the types, if it keeps the count within the ring.      *)
LEMMA TypeStep ==
  ASSUME TypeOK, [Next]_vars, Clean' => msg_count' <= MaxMessages
  PROVE  TypeOK'
<1> USE LimitsAssumption, UsersAssumption
        DEF TypeOK, tableVars, ringVars, serverVars, mainVars, pollVars, faultVars
<1>z. 0 \in Slots /\ 0 \in Cells /\ <<>> \in Seq(Nat)
  BY DEF Slots, Cells
<1>b. spoilt' \in BOOLEAN /\ early' \in BOOLEAN
  <2>1. spoilt' = spoilt \/ spoilt' = (ClientsInside # {})
    BY DEF Next, ServerNext, ClientNext, vars, SemInit, InitCount, InitStart, InitMessages,
       InitEntry, ServerWait, ServerPost, MainWait, MainPost, Scan, Claim, Release, LoadCount,
       StoreCount, FindPos, Write, TestCount, LoadRing, StoreRing, PthreadCancel, PthreadJoin,
       PollWait, PollMessages, PollClients, Cancelled, Kill
  <2>2. early' = early \/ early' = FALSE \/ early' = (early \/ Initialising)
    BY DEF Next, ServerNext, ClientNext, vars, SemInit, InitCount, InitStart, InitMessages,
       InitEntry, ServerWait, ServerPost, MainWait, MainPost, Scan, Claim, Release, LoadCount,
       StoreCount, FindPos, Write, TestCount, LoadRing, StoreRing, PthreadCancel, PthreadJoin,
       PollWait, PollMessages, PollClients, Cancelled, Kill
  <2> QED BY <2>1, <2>2
<1>1. CASE ServerWait
  BY <1>1, <1>z, <1>b DEF ServerWait
<1>2. CASE ServerPost
  BY <1>2, <1>z, <1>b DEF ServerPost
<1>3. CASE InitStart
  BY <1>3, <1>z, <1>b DEF InitStart
<1>4. CASE InitMessages
  BY <1>4, <1>z, <1>b DEF InitMessages
<1>5. CASE SemInit
  <2>1. restarts' \in 0 .. MaxRestarts /\ sem' = 1 /\ server' = "count" /\ entry' = 0
    BY <1>5 DEF SemInit
  <2> QED BY <1>5, <1>z, <1>b, <2>1 DEF SemInit
<1>6. CASE InitCount
  <2>1. Cardinality(Counted) \in 0 .. Cardinality(Users)
    BY Finiteness
  <2> QED BY <1>6, <1>b, <2>1 DEF InitCount
<1>7. CASE InitEntry
  <2>1. entry' \in Slots /\ server' \in {"clear", "sleep"}
    BY <1>7, <1>z DEF InitEntry, Slots
  <2> QED BY <1>7, <1>b, <2>1 DEF InitEntry
<1>8. ASSUME NEW u \in Users, MainWait(u) PROVE TypeOK'
  <2>1. \E p \in {"scan", "pos", "leave"} : pc' = [pc EXCEPT ![u] = p]
    BY <1>8 DEF MainWait
  <2> QED BY <1>8, <1>b, <2>1 DEF MainWait
<1>9. ASSUME NEW u \in Users, MainPost(u) PROVE TypeOK'
  <2>1. PICK p \in {"typing", "out", "cancel"} : p = AfterPost[pc[u]]
    BY <1>9 DEF MainPost, AfterPost
  <2> QED BY <1>9, <1>b, <2>1 DEF MainPost
<1>10. ASSUME NEW u \in Users, Scan(u) PROVE TypeOK'
  <2>1. slot[u] \in 0 .. MaxClients - 1
    BY DEF Slots
  <2>2. PICK i \in Slots : slot' = [slot EXCEPT ![u] = i]
    BY <1>10, <1>z, <2>1 DEF Scan, Slots
  <2>3. \E p \in {"scan", "claim", "full"} : pc' = [pc EXCEPT ![u] = p]
    BY <1>10 DEF Scan
  <2> QED BY <1>10, <1>b, <2>2, <2>3 DEF Scan
<1>11. ASSUME NEW u \in Users, Claim(u) PROVE TypeOK'
  BY <1>11, <1>b DEF Claim
<1>12. ASSUME NEW u \in Users, Release(u) PROVE TypeOK'
  BY <1>12, <1>b DEF Release
<1>13. ASSUME NEW u \in Users, LoadCount(u) PROVE TypeOK'
  BY <1>13, <1>b DEF LoadCount
<1>14. ASSUME NEW u \in Users, StoreCount(u) PROVE TypeOK'
  <2>1. client_count' \in Int /\ \E p \in {"entered", "left"} : pc' = [pc EXCEPT ![u] = p]
    BY <1>14 DEF StoreCount
  <2> QED BY <1>14, <1>b, <2>1 DEF StoreCount
<1>15. ASSUME NEW u \in Users, FindPos(u) PROVE TypeOK'
  <2>1. (msg_start + msg_count) % MaxMessages \in 0 .. MaxMessages - 1
    BY DEF Cells
  <2>2. PICK k \in Cells : k = (msg_start + msg_count) % MaxMessages
    BY <2>1 DEF Cells
  <2>3. tmp' = [tmp EXCEPT ![u] = k] /\ k \in Int
    BY <1>15, <2>2 DEF FindPos, Cells
  <2>4. /\ tmp' \in [Users -> Int]
        /\ \A v \in Users : /\ pc'[v] = "write" => tmp'[v] \in Cells
                            /\ pc'[v] = "grown" => tmp'[v] \in Nat
    BY <1>15, <2>3 DEF FindPos
  <2> QED BY <1>15, <1>b, <2>4 DEF FindPos
<1>16. ASSUME NEW u \in Users, Write(u) PROVE TypeOK'
  <2>1. posted' \in Nat /\ messages' \in [Cells -> Nat]
    BY <1>16 DEF Write
  <2>2. \A v \in Users : /\ pc'[v] = "write" => tmp'[v] \in Cells
                         /\ pc'[v] = "grown" => tmp'[v] \in Nat
    BY <1>16 DEF Write
  <2> QED BY <1>16, <1>b, <2>1, <2>2 DEF Write
<1>17. ASSUME NEW u \in Users, TestCount(u) PROVE TypeOK'
  BY <1>17, <1>b DEF TestCount
<1>18. ASSUME NEW u \in Users, LoadRing(u) PROVE TypeOK'
  <2>1. \E k \in Int : tmp' = [tmp EXCEPT ![u] = k]
    BY <1>18 DEF LoadRing, Cells
  <2>2. \E p \in {"grown", "shifted"} : pc' = [pc EXCEPT ![u] = p]
    BY <1>18 DEF LoadRing
  <2> QED BY <1>18, <1>b, <2>1, <2>2 DEF LoadRing
<1>19. ASSUME NEW u \in Users, StoreRing(u) PROVE TypeOK'
  <2>1. PICK k \in Int : k = tmp[u]
    OBVIOUS
  <2>2. (k + 1) % MaxMessages \in 0 .. MaxMessages - 1
    OBVIOUS
  <2>3. msg_start' \in Cells
    BY <1>19, <2>1, <2>2 DEF StoreRing, Cells
  <2>4. msg_count' \in Nat
    <3>1. \/ pc[u] = "grown" /\ msg_count' = tmp[u] + 1
          \/ msg_count' = msg_count
      BY <1>19 DEF StoreRing
    <3>2. pc[u] = "grown" => tmp[u] \in Nat
      OBVIOUS
    <3>3. msg_count \in Nat
      OBVIOUS
    <3> QED BY <3>1, <3>2, <3>3
  <2> QED BY <1>19, <1>b, <2>3, <2>4 DEF StoreRing
<1>20. ASSUME NEW u \in Users, PthreadCancel(u) PROVE TypeOK'
  BY <1>20, <1>b DEF PthreadCancel
<1>21. ASSUME NEW u \in Users, PthreadJoin(u) PROVE TypeOK'
  BY <1>21, <1>z, <1>b DEF PthreadJoin
<1>22. ASSUME NEW u \in Users, PollWait(u) PROVE TypeOK'
  BY <1>22, <1>b DEF PollWait
<1>23. ASSUME NEW u \in Users, PollClients(u) PROVE TypeOK'
  BY <1>23, <1>b DEF PollClients
<1>24. ASSUME NEW u \in Users, PollMessages(u) PROVE TypeOK'
  <2>1. Printed \in Seq(Nat)
    BY PrintedType
  <2> QED BY <1>24, <1>b, <2>1 DEF PollMessages
<1>25. ASSUME NEW u \in Users, Cancelled(u) PROVE TypeOK'
  BY <1>25, <1>b DEF Cancelled
<1>26. ASSUME NEW u \in Users, Kill(u) PROVE TypeOK'
  BY <1>26, <1>z, <1>b DEF Kill
<1>27. CASE UNCHANGED vars
  BY <1>27, <1>b DEF vars
<1> QED BY <1>1, <1>2, <1>3, <1>4, <1>5, <1>6, <1>7, <1>8, <1>9, <1>10, <1>11, <1>12, <1>13, <1>14, <1>15, <1>16, <1>17, <1>18, <1>19, <1>20, <1>21, <1>22, <1>23, <1>24, <1>25, <1>26, <1>27 DEF Next, ServerNext, ClientNext

-----------------------------------------------------------------------------
(* Who is inside, one by one.                                              *)
LEMMA InsideCases ==
  /\ <<"server", None>> \in Inside <=> server = "print"
  /\ \A u \in Users : (<<"main", u>> \in Inside <=> MainInside(u))
  /\ \A u \in Users : (<<"poll", u>> \in Inside <=> PollInside(u))
  /\ \A x \in Inside : \/ x = <<"server", None>>
                       \/ \E u \in Users : x = <<"main", u>> \/ x = <<"poll", u>>
<1> DEFINE S == IF server = "print" THEN {<<"server", None>>} ELSE {}
           M == {<<"main", u>> : u \in {v \in Users : MainInside(v)}}
           P == {<<"poll", u>> : u \in {v \in Users : PollInside(v)}}
<1>1. Inside = S \union (M \union P)
  BY DEF Inside, ClientsInside
<1>2. \A u \in Users : (<<"main", u>> \in Inside <=> MainInside(u))
  BY <1>1
<1>3. \A u \in Users : (<<"poll", u>> \in Inside <=> PollInside(u))
  BY <1>1
<1>4. server = "print" <=> <<"server", None>> \in Inside
  BY <1>1
<1>5. ASSUME NEW x \in Inside
      PROVE  \/ x = <<"server", None>>
             \/ \E u \in Users : x = <<"main", u>> \/ x = <<"poll", u>>
  BY <1>1
<1> QED BY <1>2, <1>3, <1>4, <1>5

(* The same after a step.                                                  *)
LEMMA InsideNext ==
  /\ <<"server", None>> \in Inside' => server' = "print"
  /\ \A u \in Users : (<<"main", u>> \in Inside' => MainInside(u)')
  /\ \A u \in Users : (<<"poll", u>> \in Inside' => PollInside(u)')
  /\ \A x \in Inside' : \/ x = <<"server", None>>
                        \/ \E u \in Users : x = <<"main", u>> \/ x = <<"poll", u>>
<1> DEFINE S == IF server' = "print" THEN {<<"server", None>>} ELSE {}
           M == {<<"main", u>> : u \in {v \in Users : MainInside(v)'}}
           P == {<<"poll", u>> : u \in {v \in Users : PollInside(v)'}}
<1>1. Inside' = S \union (M \union P)
  BY DEF Inside, ClientsInside
<1> QED BY <1>1

(* Those inside are finitely many.                                         *)
LEMMA InsideFinite == IsFiniteSet(Inside) /\ Cardinality(Inside) \in Nat
<1>1. IsFiniteSet({"server", "main", "poll"})
  <2>1. IsFiniteSet({"server"})
    BY FS_Singleton
  <2>2. IsFiniteSet({"server"} \union {"main"})
    BY <2>1, FS_AddElement
  <2>3. IsFiniteSet(({"server"} \union {"main"}) \union {"poll"})
    BY <2>2, FS_AddElement
  <2>4. ({"server"} \union {"main"}) \union {"poll"} = {"server", "main", "poll"}
    OBVIOUS
  <2> QED BY <2>3, <2>4
<1>2. IsFiniteSet(Users \union {None})
  BY FS_AddElement, UsersAssumption
<1>3. IsFiniteSet({"server", "main", "poll"} \X (Users \union {None}))
  BY <1>1, <1>2, FS_Product
<1>4. Inside \subseteq {"server", "main", "poll"} \X (Users \union {None})
  BY InsideCases
<1>5. IsFiniteSet(Inside)
  BY <1>3, <1>4, FS_Subset
<1> QED BY <1>5, FS_CardinalityType

(* A step that lets nobody in and leaves the semaphore alone.              *)
LEMMA StayStep ==
  ASSUME TypeOK, ExclusiveAccess, UNCHANGED <<sem, spoilt, restarts>>,
         server' = "print" => server = "print",
         \A u \in Users : (MainInside(u)' => MainInside(u)) /\ (PollInside(u)' => PollInside(u))
  PROVE  ExclusiveAccess'
<1>1. Inside' \subseteq Inside
  BY InsideNext, InsideCases
<1>2. Cardinality(Inside') <= Cardinality(Inside) /\ Cardinality(Inside') \in Nat
  BY <1>1, InsideFinite, FS_Subset, FS_CardinalityType
<1> QED BY <1>2, InsideFinite, LimitsAssumption DEF ExclusiveAccess, TypeOK

(* sem_wait: one comes in and the semaphore is one less.                   *)
LEMMA EnterStep ==
  ASSUME TypeOK, ExclusiveAccess, NEW x, Inside' \subseteq Inside \union {x},
         sem > 0, sem' = sem - 1, UNCHANGED <<spoilt, restarts>>
  PROVE  ExclusiveAccess'
<1>1. /\ IsFiniteSet(Inside \union {x}) /\ Cardinality(Inside \union {x}) \in Nat
      /\ Cardinality(Inside \union {x}) <= Cardinality(Inside) + 1
  <2>1. /\ IsFiniteSet(Inside \union {x})
        /\ Cardinality(Inside \union {x}) \in {Cardinality(Inside), Cardinality(Inside) + 1}
    BY InsideFinite, FS_AddElement
  <2> QED BY <2>1, InsideFinite
<1>2. Cardinality(Inside') <= Cardinality(Inside \union {x}) /\ Cardinality(Inside') \in Nat
  BY <1>1, FS_Subset, FS_CardinalityType
<1> QED BY <1>1, <1>2, InsideFinite, LimitsAssumption DEF ExclusiveAccess, TypeOK

(* sem_post: one goes out and the semaphore is one more.                   *)
LEMMA LeaveStep ==
  ASSUME TypeOK, ExclusiveAccess, NEW x \in Inside, Inside' \subseteq Inside \ {x},
         sem' = sem + 1, UNCHANGED <<spoilt, restarts>>
  PROVE  ExclusiveAccess'
<1>1. IsFiniteSet(Inside \ {x}) /\ Cardinality(Inside \ {x}) = Cardinality(Inside) - 1
  BY InsideFinite, FS_RemoveElement
<1>2. Cardinality(Inside') <= Cardinality(Inside \ {x}) /\ Cardinality(Inside') \in Nat
  BY <1>1, FS_Subset, FS_CardinalityType
<1> QED BY <1>1, <1>2, InsideFinite, LimitsAssumption DEF ExclusiveAccess, TypeOK

(* Nobody comes in but through the semaphore, and sem_init counts whom it  *)
(* finds.                                                                  *)
LEMMA ExclusiveStep ==
  ASSUME TypeOK, ExclusiveAccess, Quiet, [Next]_vars PROVE ExclusiveAccess'
<1> USE DEF tableVars, ringVars, serverVars, mainVars, pollVars, faultVars
<1>1. CASE SemInit
  <2>1. Inside' = ClientsInside /\ ClientsInside \subseteq Inside
    BY <1>1 DEF SemInit, Inside, ClientsInside, MainInside, PollInside
  <2>2. CASE ClientsInside = {}
    <3>1. Cardinality(Inside') = 0 /\ sem' = 1 /\ spoilt' = FALSE
      BY <1>1, <2>1, <2>2, FS_EmptySet DEF SemInit
    <3> QED BY <3>1 DEF ExclusiveAccess
  <2>3. CASE ClientsInside # {}
    <3>1. Cardinality(Inside') <= Cardinality(Inside) /\ Cardinality(Inside') \in Nat
      BY <2>1, InsideFinite, FS_Subset, FS_CardinalityType
    <3>2. Cardinality(Inside) <= 1 + restarts
      BY InsideFinite, LimitsAssumption DEF ExclusiveAccess, TypeOK
    <3>3. server # "none"
      BY <2>3 DEF Quiet, ClientsInside
    <3>4. spoilt' /\ sem' = 1 /\ restarts' = restarts + 1
      BY <1>1, <2>3, <3>3 DEF SemInit
    <3> QED BY <3>1, <3>2, <3>4, InsideFinite, LimitsAssumption DEF ExclusiveAccess, TypeOK
  <2> QED BY <2>2, <2>3
<1>2. CASE InitCount \/ InitStart \/ InitMessages \/ InitEntry
  BY <1>2, StayStep DEF InitCount, InitStart, InitMessages, InitEntry, MainInside, PollInside
<1>3. CASE ServerWait
  <2>1. \A u \in Users : (MainInside(u)' <=> MainInside(u)) /\ (PollInside(u)' <=> PollInside(u))
    BY <1>3 DEF ServerWait, MainInside, PollInside
  <2>2. Inside' \subseteq Inside \union {<<"server", None>>}
    BY InsideNext, <2>1, InsideCases
  <2> QED BY <1>3, <2>2, EnterStep DEF ServerWait
<1>4. CASE ServerPost
  <2>1. \A u \in Users : (MainInside(u)' <=> MainInside(u)) /\ (PollInside(u)' <=> PollInside(u))
    BY <1>4 DEF ServerPost, MainInside, PollInside
  <2>2. <<"server", None>> \in Inside /\ <<"server", None>> \notin Inside'
    BY <1>4, InsideNext, InsideCases DEF ServerPost
  <2>3. Inside' \subseteq Inside \ {<<"server", None>>}
    BY InsideNext, <2>1, <2>2, InsideCases
  <2> QED BY <1>4, <2>2, <2>3, LeaveStep DEF ServerPost
<1>5. ASSUME NEW u \in Users, MainWait(u) PROVE ExclusiveAccess'
  <2>1. /\ server' = server /\ \A v \in Users : PollInside(v)' <=> PollInside(v)
        /\ \A v \in Users : v # u => (MainInside(v)' <=> MainInside(v))
    BY <1>5 DEF MainWait, MainInside, PollInside, TypeOK
  <2>2. Inside' \subseteq Inside \union {<<"main", u>>}
    BY InsideNext, <2>1, InsideCases
  <2> QED BY <1>5, <2>2, EnterStep DEF MainWait
<1>6. ASSUME NEW u \in Users, PollWait(u) PROVE ExclusiveAccess'
  <2>1. /\ server' = server /\ \A v \in Users : MainInside(v)' <=> MainInside(v)
        /\ \A v \in Users : v # u => (PollInside(v)' <=> PollInside(v))
    BY <1>6 DEF PollWait, MainInside, PollInside, TypeOK
  <2>2. Inside' \subseteq Inside \union {<<"poll", u>>}
    BY InsideNext, <2>1, InsideCases
  <2> QED BY <1>6, <2>2, EnterStep DEF PollWait
<1>7. ASSUME NEW u \in Users, MainPost(u) PROVE ExclusiveAccess'
  <2>1. pc[u] \in {"entered", "full", "committed", "left"}
    BY <1>7 DEF MainPost, AfterPost
  <2>2. pc'[u] \in {"typing", "out", "cancel"}
    BY <1>7, <2>1 DEF MainPost, AfterPost, TypeOK
  <2>3. /\ server' = server /\ \A v \in Users : PollInside(v)' => PollInside(v)
        /\ \A v \in Users : v # u => (MainInside(v)' <=> MainInside(v))
    BY <1>7 DEF MainPost, MainInside, PollInside, TypeOK
  <2>4. MainInside(u) /\ ~MainInside(u)'
    BY <2>1, <2>2 DEF MainInside
  <2>5. <<"main", u>> \in Inside /\ Inside' \subseteq Inside \ {<<"main", u>>}
    BY InsideNext, <2>3, <2>4, InsideCases
  <2> QED BY <1>7, <2>5, LeaveStep DEF MainPost
<1>8. ASSUME NEW u \in Users, PollClients(u) PROVE ExclusiveAccess'
  <2>1. /\ server' = server /\ \A v \in Users : MainInside(v)' <=> MainInside(v)
        /\ \A v \in Users : v # u => (PollInside(v)' <=> PollInside(v))
        /\ PollInside(u) /\ ~PollInside(u)'
    BY <1>8 DEF PollClients, MainInside, PollInside, TypeOK
  <2>2. <<"poll", u>> \in Inside /\ Inside' \subseteq Inside \ {<<"poll", u>>}
    BY InsideNext, <2>1, InsideCases
  <2> QED BY <1>8, <2>2, LeaveStep DEF PollClients
<1>9. ASSUME NEW u \in Users,
             \/ Scan(u) \/ Claim(u) \/ Release(u) \/ LoadCount(u) \/ StoreCount(u)
             \/ FindPos(u) \/ Write(u) \/ TestCount(u) \/ LoadRing(u) \/ StoreRing(u)
      PROVE  ExclusiveAccess'
  <2>1. UNCHANGED <<sem, server, rpc, spoilt, restarts>> /\ MainInside(u)
    BY <1>9 DEF Scan, Claim, Release, LoadCount, StoreCount, FindPos, Write, TestCount,
       LoadRing, StoreRing, MainInside
  <2>2. \A v \in Users : v # u => pc'[v] = pc[v]
    BY <1>9 DEF Scan, Claim, Release, LoadCount, StoreCount, FindPos, Write, TestCount,
       LoadRing, StoreRing, TypeOK
  <2> QED BY <2>1, <2>2, StayStep DEF MainInside, PollInside
<1>10. ASSUME NEW u \in Users,
              \/ PthreadCancel(u) \/ PthreadJoin(u) \/ PollMessages(u) \/ Cancelled(u) \/ Kill(u)
       PROVE  ExclusiveAccess'
  <2>1. /\ UNCHANGED <<sem, server, spoilt, restarts>>
    BY <1>10 DEF PthreadCancel, PthreadJoin, PollMessages, Cancelled, Kill
  <2>2. \A v \in Users : (MainInside(v)' => MainInside(v)) /\ (PollInside(v)' => PollInside(v))
    BY <1>10 DEF PthreadCancel, PthreadJoin, PollMessages, Cancelled, Kill, MainInside, PollInside,
       TypeOK
  <2> QED BY <2>1, <2>2, StayStep
<1>11. CASE UNCHANGED vars
  BY <1>11, StayStep DEF vars, MainInside, PollInside
<1> QED BY <1>1, <1>2, <1>3, <1>4, <1>5, <1>6, <1>7, <1>8, <1>9, <1>10, <1>11
        DEF Next, ServerNext, ClientNext

(* Unless the last sem_init found a client inside, whoever is inside is    *)
(* alone, and the semaphore taken.                                         *)
LEMMA ExclusiveAlone == ASSUME TypeOK, ExclusiveAccess, ~spoilt PROVE Alone
<1>1. sem + Cardinality(Inside) <= 1 /\ sem \in Nat /\ Cardinality(Inside) \in Nat
  BY InsideFinite DEF ExclusiveAccess, TypeOK
<1>2. \A x, y \in Inside : x = y
  <2>1. Cardinality(Inside) = 0 \/ Cardinality(Inside) = 1
    BY <1>1
  <2>2. Cardinality(Inside) = 0 => Inside = {}
    BY InsideFinite, FS_EmptySet
  <2>3. Cardinality(Inside) = 1 => \E x : Inside = {x}
    BY InsideFinite, FS_Singleton
  <2> QED BY <2>1, <2>2, <2>3
<1>3. Inside # {} => sem = 0
  <2>1. Inside # {} => Cardinality(Inside) # 0
    BY InsideFinite, FS_EmptySet
  <2> QED BY <1>1, <2>1
<1> QED BY <1>2, <1>3, InsideCases DEF Alone

(* Somebody may come in, or is inside and will come out.                   *)
LEMMA UsableCases ==
  Usable <=> \/ sem > 0 \/ server = "print"
             \/ \E u \in Users : MainInside(u) \/ PollInside(u)
BY InsideCases DEF Usable

-----------------------------------------------------------------------------
(* No client makes a start clean.                                          *)
LEMMA ClientClean == ASSUME NEW u \in Users, ClientNext(u), Clean' PROVE Clean
<1> USE DEF Clean, serverVars, faultVars
<1>1. CASE MainWait(u) \/ PollWait(u)
  <2>1. UNCHANGED <<server, spoilt>> /\ early' = (early \/ Initialising)
    BY <1>1 DEF MainWait, PollWait
  <2> QED BY <2>1
<1>2. CASE ~MainWait(u) /\ ~PollWait(u)
  <2>1. UNCHANGED <<server, spoilt, early>>
    BY <1>2 DEF ClientNext, MainPost, Scan, Claim, Release, LoadCount, StoreCount, FindPos, Write,
       TestCount, LoadRing, StoreRing, PthreadCancel, PthreadJoin, PollMessages, PollClients,
       Cancelled, Kill
  <2> QED BY <2>1
<1> QED BY <1>1, <1>2

(* A start becomes clean with the last step of the server's loop.          *)
LEMMA CleanBefore ==
  ASSUME [Next]_vars, Clean'
  PROVE  Clean \/ (InitEntry /\ Good /\ ~(entry + 1 < MaxClients))
<1>1. CASE SemInit \/ InitCount \/ InitStart \/ InitMessages
  BY <1>1 DEF SemInit, InitCount, InitStart, InitMessages, Clean
<1>2. CASE InitEntry
  <2>1. server = "clear" /\ spoilt' = spoilt /\ early' = early
    BY <1>2 DEF InitEntry, faultVars
  <2>2. entry + 1 < MaxClients => server' = server
    BY <1>2 DEF InitEntry
  <2> QED BY <1>2, <2>1, <2>2 DEF Clean, Good
<1>3. CASE ServerWait \/ ServerPost
  BY <1>3 DEF ServerWait, ServerPost, Clean, faultVars
<1>4. CASE UNCHANGED vars
  BY <1>4 DEF vars, Clean, serverVars, faultVars
<1> QED BY <1>1, <1>2, <1>3, <1>4, ClientClean DEF Next, ServerNext

(* While the server starts, whoever comes in makes the start unclean, and  *)
(* before its first sem_init nobody can.                                   *)
LEMMA QuietStep == ASSUME TypeOK, Quiet, [Next]_vars PROVE Quiet'
<1> USE DEF tableVars, ringVars, serverVars, mainVars, pollVars, faultVars
<1>1. CASE SemInit
  <2>1. /\ UNCHANGED <<pc, rpc>> /\ spoilt' = (ClientsInside # {})
        /\ server' = "count" /\ entry' = 0
        /\ restarts' = 0 => server = "none"
    BY <1>1, LimitsAssumption DEF SemInit, TypeOK
  <2>2. Good' => \A u \in Users : ~MainInside(u)' /\ ~PollInside(u)'
    BY <2>1 DEF Good, ClientsInside, MainInside, PollInside
  <2>3. restarts' = 0 => \A u \in Users : pc'[u] = "out"
    BY <2>1 DEF Quiet
  <2> QED BY <2>1, <2>2, <2>3 DEF Quiet
<1>2. CASE InitCount \/ InitStart
  BY <1>2 DEF InitCount, InitStart, Quiet, Good, Initialising, MainInside, PollInside
<1>3. CASE InitMessages
  <2>1. /\ entry' = 0 /\ server' = "clear" /\ server = "messages" /\ msg_count' = 0
        /\ before' = posted /\ posted' = posted
        /\ UNCHANGED <<pc, rpc, spoilt, early, restarts, client_count>>
    BY <1>3 DEF InitMessages, Quiet
  <2>2. \A i \in Slots : ~(i < entry')
    BY <2>1, LimitsAssumption DEF Slots
  <2> QED BY <2>1, <2>2 DEF Quiet, Good, Initialising, MainInside, PollInside
<1>4. CASE InitEntry
  <2>1. /\ clients' = [clients EXCEPT ![entry] = None] /\ entry \in Slots /\ server = "clear"
        /\ UNCHANGED <<pc, rpc, spoilt, early, restarts, client_count, msg_count, before, posted>>
    BY <1>4 DEF InitEntry, TypeOK
  <2>2. CASE entry + 1 < MaxClients
    <3>1. entry' = entry + 1 /\ server' = "clear"
      BY <1>4, <2>1, <2>2 DEF InitEntry
    <3>2. ASSUME Good, NEW i \in Slots, i < entry' PROVE clients'[i] = None
      <4>1. i < entry \/ i = entry
        BY <2>1, <3>1, <3>2, LimitsAssumption DEF Slots
      <4> QED BY <2>1, <3>2, <4>1 DEF Quiet, TypeOK
    <3> QED BY <2>1, <3>1, <3>2 DEF Quiet, Good, Initialising, MainInside, PollInside
  <2>3. CASE ~(entry + 1 < MaxClients)
    <3>1. entry' = 0 /\ server' = "sleep"
      BY <1>4, <2>3 DEF InitEntry
    <3> QED BY <3>1 DEF Quiet, Initialising
  <2> QED BY <2>2, <2>3
<1>5. CASE ServerWait \/ ServerPost
  BY <1>5 DEF ServerWait, ServerPost, Quiet, Initialising
<1>6. ASSUME NEW u \in Users, MainWait(u) \/ PollWait(u) PROVE Quiet'
  <2>1. sem > 0 /\ early' = (early \/ Initialising) /\ UNCHANGED <<server, entry, spoilt>>
    BY <1>6 DEF MainWait, PollWait
  <2>2. server # "none"
    BY <2>1 DEF Quiet, TypeOK
  <2>3. Initialising => ~Good'
    BY <2>1 DEF Good
  <2> QED BY <2>1, <2>2, <2>3 DEF Quiet, Initialising
<1>7. ASSUME NEW u \in Users,
             \/ MainPost(u) \/ Scan(u) \/ Claim(u) \/ Release(u) \/ LoadCount(u) \/ StoreCount(u)
             \/ FindPos(u) \/ Write(u) \/ TestCount(u) \/ LoadRing(u) \/ StoreRing(u)
             \/ PollMessages(u) \/ PollClients(u)
      PROVE  Quiet'
  <2>1. UNCHANGED <<server, entry, spoilt, early>>
    BY <1>7 DEF MainPost, Scan, Claim, Release, LoadCount, StoreCount, FindPos, Write, TestCount,
       LoadRing, StoreRing, PollMessages, PollClients
  <2>2. MainInside(u) \/ PollInside(u)
    BY <1>7 DEF MainPost, AfterPost, Scan, Claim, Release, LoadCount, StoreCount, FindPos, Write,
       TestCount, LoadRing, StoreRing, PollMessages, PollClients, MainInside, PollInside
  <2>3. ~(Good /\ (server = "none" \/ Initialising))
    BY <2>2 DEF Quiet
  <2>4. server # "none"
    BY <2>3 DEF Quiet
  <2> QED BY <2>1, <2>3, <2>4 DEF Quiet, Good, Initialising
<1>8. ASSUME NEW u \in Users, PthreadCancel(u) \/ PthreadJoin(u) \/ Cancelled(u) \/ Kill(u)
      PROVE  Quiet'
  <2>1. UNCHANGED <<sem, server, entry, spoilt, early, restarts, clients, client_count, msg_count,
                    before, posted>>
    BY <1>8 DEF PthreadCancel, PthreadJoin, Cancelled, Kill
  <2>2. \A v \in Users : /\ MainInside(v)' => MainInside(v)
                         /\ PollInside(v)' => PollInside(v)
    BY <1>8 DEF PthreadCancel, PthreadJoin, Cancelled, Kill, MainInside, PollInside, TypeOK
  <2>3. \A v \in Users : pc[v] = "out" => pc'[v] = "out"
    BY <1>8 DEF PthreadCancel, PthreadJoin, Cancelled, Kill, TypeOK
  <2> QED BY <2>1, <2>2, <2>3 DEF Quiet, Good, Initialising
<1>9. CASE UNCHANGED vars
  BY <1>9 DEF vars, Quiet, Good, Initialising, MainInside, PollInside
<1> QED BY <1>1, <1>2, <1>3, <1>4, <1>5, <1>6, <1>7, <1>8, <1>9 DEF Next, ServerNext, ClientNext

(* Only the client inside changes what it has read.                        *)
LEMMA ReadsStep ==
  ASSUME TypeOK, ExclusiveAccess, Quiet, Reads, [Next]_vars PROVE Reads'
<1> USE DEF tableVars, ringVars, serverVars, mainVars, pollVars, faultVars
<1> SUFFICES ASSUME Clean', NEW v \in Users PROVE ReadsOf(v)'
  BY DEF Reads
<1>1. CASE ~Clean
  <2>1. InitEntry /\ Good
    BY <1>1, CleanBefore
  <2>2. ~MainInside(v) /\ pc' = pc
    BY <2>1 DEF InitEntry, Quiet, Initialising
  <2> QED BY <2>2 DEF ReadsOf, MainInside
<1> SUFFICES ASSUME Clean PROVE ReadsOf(v)'
  BY <1>1
<1>0. Alone /\ ReadsOf(v) /\ server \in {"sleep", "print"}
  BY ExclusiveAlone DEF Clean, Reads
<1>2. CASE SemInit \/ InitCount \/ InitStart \/ InitMessages \/ InitEntry
  BY <1>0, <1>2 DEF SemInit, InitCount, InitStart, InitMessages, InitEntry, Clean
<1>3. CASE ServerWait \/ ServerPost \/ UNCHANGED vars
  <2>1. UNCHANGED <<pc, tmp, slot, clients, client_count, msg_start, msg_count>>
    BY <1>3 DEF ServerWait, ServerPost, vars
  <2> QED BY <1>0, <2>1 DEF ReadsOf
<1>4. ASSUME NEW u \in Users,
             \/ MainWait(u) \/ MainPost(u) \/ PthreadCancel(u) \/ PthreadJoin(u)
             \/ PollWait(u) \/ PollMessages(u) \/ PollClients(u) \/ Cancelled(u) \/ Kill(u)
      PROVE  ReadsOf(v)'
  <2>1. UNCHANGED <<clients, client_count, msg_start, msg_count>>
    BY <1>4 DEF MainWait, MainPost, PthreadCancel, PthreadJoin, PollWait, PollMessages,
       PollClients, Cancelled, Kill
  <2>2. \/ pc'[v] = pc[v] /\ tmp'[v] = tmp[v] /\ slot'[v] = slot[v]
        \/ pc'[v] \in {"scan", "pos", "leave", "typing", "out", "cancel", "join"}
    <3>1. CASE MainPost(u)
      <4>1. AfterPost[pc[u]] \in {"typing", "out", "cancel"}
        BY <3>1 DEF MainPost, AfterPost
      <4> QED BY <3>1, <4>1 DEF MainPost, TypeOK
    <3>2. CASE MainWait(u) \/ PthreadCancel(u) \/ PthreadJoin(u) \/ Kill(u)
      BY <3>2 DEF MainWait, PthreadCancel, PthreadJoin, Kill, TypeOK
    <3>3. CASE PollWait(u) \/ PollMessages(u) \/ PollClients(u) \/ Cancelled(u)
      BY <3>3 DEF PollWait, PollMessages, PollClients, Cancelled
    <3> QED BY <1>4, <3>1, <3>2, <3>3
  <2> QED BY <1>0, <2>1, <2>2 DEF ReadsOf
<1>5. ASSUME NEW u \in Users,
             \/ Scan(u) \/ Claim(u) \/ Release(u) \/ LoadCount(u) \/ StoreCount(u)
             \/ FindPos(u) \/ Write(u) \/ TestCount(u) \/ LoadRing(u) \/ StoreRing(u)
      PROVE  ReadsOf(v)'
  <2>1. MainInside(u)
    BY <1>5 DEF Scan, Claim, Release, LoadCount, StoreCount, FindPos, Write, TestCount,
       LoadRing, StoreRing, MainInside
  <2>2. CASE v # u
    <3>1. ~MainInside(v)
      BY <1>0, <2>1, <2>2 DEF Alone
    <3>2. pc'[v] = pc[v]
      BY <1>5, <2>2 DEF Scan, Claim, Release, LoadCount, StoreCount, FindPos, Write, TestCount,
         LoadRing, StoreRing, TypeOK
    <3> QED BY <3>1, <3>2 DEF MainInside, ReadsOf
  <2>3. CASE v = u
    <3>1. CASE Scan(u)
      BY <2>3, <3>1 DEF Scan, ReadsOf, TypeOK
    <3>2. CASE Claim(u) \/ Release(u) \/ Write(u) \/ StoreCount(u) \/ StoreRing(u)
      <4>1. pc'[u] \in {"enter", "uncount", "test", "entered", "left", "committed"}
        BY <3>2 DEF Claim, Release, Write, StoreCount, StoreRing, TypeOK
      <4> QED BY <2>3, <4>1 DEF ReadsOf
    <3>3. CASE LoadCount(u)
      BY <2>3, <3>3 DEF LoadCount, ReadsOf, TypeOK
    <3>4. CASE FindPos(u)
      BY <2>3, <3>4 DEF FindPos, ReadsOf, TypeOK
    <3>5. CASE TestCount(u)
      BY <2>3, <3>5, LimitsAssumption DEF TestCount, ReadsOf, TypeOK
    <3>6. CASE LoadRing(u)
      BY <1>0, <2>3, <3>6 DEF LoadRing, ReadsOf, TypeOK
    <3> QED BY <1>5, <3>1, <3>2, <3>3, <3>4, <3>5, <3>6
  <2> QED BY <2>2, <2>3
<1> QED BY <1>2, <1>3, <1>4, <1>5 DEF Next, ServerNext, ClientNext

(* After a clean start the count stays within the ring.                    *)
LEMMA CountStep ==
  ASSUME TypeOK, Quiet, Reads, [Next]_vars, Clean' PROVE msg_count' <= MaxMessages
<1> USE LimitsAssumption DEF ringVars, Clean
<1>1. CASE ~Clean
  <2>1. InitEntry /\ Good
    BY <1>1, CleanBefore
  <2>2. msg_count' = 0
    BY <2>1 DEF InitEntry, Quiet
  <2> QED BY <2>2
<1>2. CASE Clean
  <2>1. ASSUME NEW u \in Users, StoreRing(u) PROVE msg_count' <= MaxMessages
    <3>1. pc[u] = "grown" => tmp[u] = msg_count /\ msg_count < MaxMessages
      BY <1>2 DEF Reads, ReadsOf
    <3> QED BY <1>2, <2>1, <3>1 DEF StoreRing, TypeOK
  <2>2. CASE ~\E u \in Users : StoreRing(u)
    <3>1. msg_count' \in {0, msg_count}
      BY <2>2 DEF Next, ServerNext, ClientNext, vars, SemInit, InitCount, InitStart, InitMessages,
         InitEntry, ServerWait, ServerPost, MainWait, MainPost, Scan, Claim, Release, LoadCount,
         StoreCount, FindPos, Write, TestCount, LoadRing, PthreadCancel, PthreadJoin,
         PollWait, PollMessages, PollClients, Cancelled, Kill
    <3> QED BY <1>2, <3>1 DEF TypeOK
  <2> QED BY <2>1, <2>2
<1> QED BY <1>1, <1>2

-----------------------------------------------------------------------------
(* Nobody but a start of the server makes a lost semaphore usable again.   *)
LEMMA UsableBefore ==
  ASSUME TypeOK, Clean, Clean', [Next]_vars, Usable' PROVE Usable
<1> USE DEF tableVars, ringVars, serverVars, mainVars, pollVars, faultVars
<1>1. \/ sem' > 0 \/ server' = "print"
      \/ \E v \in Users : MainInside(v)' \/ PollInside(v)'
  BY InsideNext DEF Usable
<1>2. CASE SemInit \/ InitCount \/ InitStart \/ InitMessages \/ InitEntry
  BY <1>2 DEF SemInit, InitCount, InitStart, InitMessages, InitEntry, Clean
<1>3. CASE ServerWait \/ ServerPost
  BY <1>3, UsableCases DEF ServerWait, ServerPost
<1>4. CASE UNCHANGED vars
  BY <1>1, <1>4, UsableCases DEF vars, MainInside, PollInside
<1>5. ASSUME NEW u \in Users, MainWait(u) \/ PollWait(u) PROVE Usable
  BY <1>5, UsableCases DEF MainWait, PollWait
<1>6. ASSUME NEW u \in Users,
             \/ MainPost(u) \/ Scan(u) \/ Claim(u) \/ Release(u) \/ LoadCount(u) \/ StoreCount(u)
             \/ FindPos(u) \/ Write(u) \/ TestCount(u) \/ LoadRing(u) \/ StoreRing(u)
             \/ PollMessages(u) \/ PollClients(u)
      PROVE  Usable
  <2>1. MainInside(u) \/ PollInside(u)
    BY <1>6 DEF MainPost, AfterPost, Scan, Claim, Release, LoadCount, StoreCount, FindPos, Write,
       TestCount, LoadRing, StoreRing, PollMessages, PollClients, MainInside, PollInside
  <2> QED BY <2>1, UsableCases
<1>7. ASSUME NEW u \in Users, PthreadCancel(u) \/ PthreadJoin(u) \/ Cancelled(u) \/ Kill(u)
      PROVE  Usable
  <2>1. UNCHANGED <<sem, server>>
    BY <1>7 DEF PthreadCancel, PthreadJoin, Cancelled, Kill
  <2>2. \A v \in Users : /\ MainInside(v)' => MainInside(v)
                         /\ PollInside(v)' => PollInside(v)
    BY <1>7 DEF PthreadCancel, PthreadJoin, Cancelled, Kill, MainInside, PollInside, TypeOK
  <2> QED BY <1>1, <2>1, <2>2, UsableCases
<1> QED BY <1>2, <1>3, <1>4, <1>5, <1>6, <1>7 DEF Next, ServerNext, ClientNext

(* A client killed inside takes the semaphore with it.                     *)
LEMMA KilledOutside ==
  ASSUME TypeOK, Alone, NEW u \in Users, Kill(u), Usable' PROVE ~MainInside(u) /\ ~PollInside(u)
<1>1. \/ sem' > 0 \/ server' = "print"
      \/ \E v \in Users : MainInside(v)' \/ PollInside(v)'
  BY InsideNext DEF Usable
<1>2. UNCHANGED <<sem, server>> /\ ~MainInside(u)' /\ ~PollInside(u)'
  BY DEF Kill, TypeOK, MainInside, PollInside, serverVars
<1>3. \A v \in Users : v # u => (MainInside(v)' <=> MainInside(v)) /\ (PollInside(v)' <=> PollInside(v))
  BY DEF Kill, TypeOK, MainInside, PollInside
<1>4. ASSUME MainInside(u) \/ PollInside(u) PROVE FALSE
  <2>1. /\ sem = 0 /\ server # "print"
        /\ \A v \in Users : v # u => ~MainInside(v) /\ ~PollInside(v)
    BY <1>4 DEF Alone
  <2>2. ~(sem' > 0) /\ server' # "print"
    BY <1>2, <2>1
  <2> QED BY <1>1, <1>2, <1>3, <2>1, <2>2
<1> QED BY <1>4

(* Only the stores of client_count, and a kill, change who is counted, and *)
(* only the stores into the table, and a kill, who is seated.              *)
LEMMA CountedStays ==
  ASSUME TypeOK, NEW u \in Users, ClientNext(u), ~Kill(u)
  PROVE  /\ ~StoreCount(u) => Counted' = Counted
         /\ ~Claim(u) /\ ~Release(u) => \A v \in Users : Seated(v)' <=> Seated(v)
<1> USE DEF TypeOK, mainVars, Counted, Seated
<1>1. CASE MainWait(u)
  BY <1>1 DEF MainWait
<1>2. CASE MainPost(u)
  <2>1. \/ pc[u] \in {"entered", "committed"} /\ pc' = [pc EXCEPT ![u] = "typing"]
        \/ pc[u] = "full" /\ pc' = [pc EXCEPT ![u] = "out"]
        \/ pc[u] = "left" /\ pc' = [pc EXCEPT ![u] = "cancel"]
    <3>1. pc[u] \in {"entered", "full", "committed", "left"}
      BY <1>2 DEF MainPost, AfterPost
    <3>2. pc' = [pc EXCEPT ![u] = AfterPost[pc[u]]]
      BY <1>2 DEF MainPost
    <3>3. /\ AfterPost["entered"] = "typing" /\ AfterPost["full"] = "out"
          /\ AfterPost["committed"] = "typing" /\ AfterPost["left"] = "cancel"
      BY DEF AfterPost
    <3> QED BY <3>1, <3>2, <3>3
  <2> QED BY <2>1
<1>3. CASE Scan(u) \/ Claim(u) \/ Release(u)
  BY <1>3 DEF Scan, Claim, Release
<1>4. CASE LoadCount(u) \/ StoreCount(u)
  BY <1>4 DEF LoadCount, StoreCount
<1>5. CASE FindPos(u) \/ Write(u) \/ TestCount(u)
  BY <1>5 DEF FindPos, Write, TestCount
<1>6. CASE LoadRing(u) \/ StoreRing(u)
  BY <1>6 DEF LoadRing, StoreRing
<1>7. CASE PthreadCancel(u) \/ PthreadJoin(u)
  BY <1>7 DEF PthreadCancel, PthreadJoin
<1>8. CASE PollWait(u) \/ PollMessages(u) \/ PollClients(u) \/ Cancelled(u)
  BY <1>8 DEF PollWait, PollMessages, PollClients, Cancelled
<1> QED BY <1>1, <1>2, <1>3, <1>4, <1>5, <1>6, <1>7, <1>8 DEF ClientNext

(* What client_count counts too little is what was outlived and killed.    *)
LEMMA ExcessStep ==
  ASSUME TypeOK, Quiet, Reads, TableInv, [Next]_vars,
         Good', server' \notin {"none", "count"}
  PROVE  0 <= Excess' /\ Excess' <= kills' /\ (restarts' = 0 => outlived' = 0)
<1> USE DEF tableVars, ringVars, serverVars, mainVars, pollVars, faultVars
<1>0. /\ client_count \in Int /\ outlived \in Nat /\ kills \in Nat
      /\ IsFiniteSet(Counted) /\ Cardinality(Counted) \in Nat
  BY Finiteness, LimitsAssumption DEF TypeOK
<1>1. CASE SemInit
  BY <1>1 DEF SemInit
<1>2. CASE InitCount
  <2>1. Counted' = Counted
    BY <1>2 DEF InitCount, Counted, Seated
  <2>2. client_count' = 0 /\ outlived' = Cardinality(Counted) /\ kills' = kills
    BY <1>2 DEF InitCount
  <2>3. Excess' = 0
    BY <1>0, <2>1, <2>2 DEF Excess
  <2>4. ASSUME restarts' = 0 PROVE outlived' = 0
    <3>1. \A u \in Users : pc[u] = "out"
      BY <1>2, <2>4 DEF InitCount, Quiet, Good, Initialising
    <3>2. Counted = {}
      BY <3>1 DEF Counted, Seated
    <3> QED BY <2>2, <3>2, FS_EmptySet
  <2> QED BY <1>0, <2>2, <2>3, <2>4
<1> SUFFICES ASSUME ~SemInit, ~InitCount
             PROVE  0 <= Excess' /\ Excess' <= kills' /\ (restarts' = 0 => outlived' = 0)
  BY <1>1, <1>2
<1>3. Good /\ server \notin {"none", "count"} /\ UNCHANGED <<outlived, restarts>>
  <2>1. CASE InitStart \/ InitMessages \/ InitEntry \/ ServerWait \/ ServerPost \/ UNCHANGED vars
    BY <2>1 DEF InitStart, InitMessages, InitEntry, ServerWait, ServerPost, vars, Good
  <2>2. ASSUME NEW u \in Users, MainWait(u) \/ PollWait(u)
        PROVE  Good /\ server \notin {"none", "count"} /\ UNCHANGED <<outlived, restarts>>
    <3>1. UNCHANGED <<server, spoilt, outlived, restarts>> /\ early' = (early \/ Initialising)
      BY <2>2 DEF MainWait, PollWait
    <3> QED BY <3>1 DEF Good
  <2>3. ASSUME NEW u \in Users, ClientNext(u), ~MainWait(u), ~PollWait(u)
        PROVE  Good /\ server \notin {"none", "count"} /\ UNCHANGED <<outlived, restarts>>
    <3>1. UNCHANGED <<server, spoilt, early, outlived, restarts>>
      BY <2>3 DEF ClientNext, MainPost, Scan, Claim, Release, LoadCount, StoreCount, FindPos, Write,
         TestCount, LoadRing, StoreRing, PthreadCancel, PthreadJoin, PollMessages, PollClients,
         Cancelled, Kill
    <3> QED BY <3>1 DEF Good
  <2> QED BY <2>1, <2>2, <2>3 DEF Next, ServerNext
<1>4. 0 <= Excess /\ Excess <= kills /\ (restarts = 0 => outlived = 0) /\ Excess \in Int
  BY <1>0, <1>3 DEF TableInv, Excess
<1>5. CASE InitStart \/ InitMessages \/ InitEntry \/ ServerWait \/ ServerPost \/ UNCHANGED vars
  <2>1. UNCHANGED <<client_count, kills>> /\ Counted' = Counted
    BY <1>5 DEF InitStart, InitMessages, InitEntry, ServerWait, ServerPost, vars, Counted, Seated
  <2> QED BY <1>3, <1>4, <2>1 DEF Excess
<1>6. ASSUME NEW u \in Users, StoreCount(u)
      PROVE  0 <= Excess' /\ Excess' <= kills' /\ (restarts' = 0 => outlived' = 0)
  <2>1. MainInside(u) /\ kills' = kills
    BY <1>6 DEF StoreCount, MainInside
  <2>2. Clean
    BY <1>3, <2>1 DEF Quiet, Clean, Good, Initialising, TypeOK
  <2>3. tmp[u] = client_count
    BY <1>6, <2>2 DEF Reads, ReadsOf, StoreCount
  <2>4. CASE pc[u] = "entering"
    <3>1. client_count' = client_count + 1 /\ pc' = [pc EXCEPT ![u] = "entered"]
      BY <1>6, <2>3, <2>4 DEF StoreCount
    <3>2. Counted' = Counted \union {u} /\ u \notin Counted
      BY <2>4, <3>1 DEF Counted, Seated, TypeOK
    <3>3. Cardinality(Counted') = Cardinality(Counted) + 1
      BY <1>0, <3>2, FS_AddElement
    <3> QED BY <1>0, <1>3, <1>4, <2>1, <3>1, <3>3 DEF Excess
  <2>5. CASE pc[u] = "leaving"
    <3>1. client_count' = client_count - 1 /\ pc' = [pc EXCEPT ![u] = "left"]
      BY <1>6, <2>3, <2>5 DEF StoreCount
    <3>2. Counted' = Counted \ {u} /\ u \in Counted
      BY <2>5, <3>1 DEF Counted, Seated, TypeOK
    <3>3. Cardinality(Counted') = Cardinality(Counted) - 1
      BY <1>0, <3>2, FS_RemoveElement
    <3> QED BY <1>0, <1>3, <1>4, <2>1, <3>1, <3>3 DEF Excess
  <2> QED BY <1>6, <2>4, <2>5 DEF StoreCount
<1>7. ASSUME NEW u \in Users, Kill(u)
      PROVE  0 <= Excess' /\ Excess' <= kills' /\ (restarts' = 0 => outlived' = 0)
  <2>1. client_count' = client_count /\ kills' = kills + 1 /\ pc' = [pc EXCEPT ![u] = "out"]
    BY <1>7 DEF Kill
  <2>2. Counted' = Counted \ {u}
    BY <2>1 DEF Counted, Seated, TypeOK
  <2>3. Cardinality(Counted') \in {Cardinality(Counted) - 1, Cardinality(Counted)}
    BY <1>0, <2>2, FS_RemoveElement
  <2> QED BY <1>0, <1>3, <1>4, <2>1, <2>3 DEF Excess
<1>8. ASSUME NEW u \in Users, ClientNext(u), ~StoreCount(u), ~Kill(u)
      PROVE  0 <= Excess' /\ Excess' <= kills' /\ (restarts' = 0 => outlived' = 0)
  <2>1. UNCHANGED <<client_count, kills>>
    BY <1>8 DEF ClientNext, MainWait, MainPost, Scan, Claim, Release, LoadCount, FindPos, Write,
       TestCount, LoadRing, StoreRing, PthreadCancel, PthreadJoin, PollWait, PollMessages,
       PollClients, Cancelled
  <2>2. Counted' = Counted
    BY <1>8, CountedStays
  <2> QED BY <1>3, <1>4, <2>1, <2>2 DEF Excess
<1> QED BY <1>5, <1>6, <1>7, <1>8 DEF Next, ServerNext

(* A step that keeps the table, the seated clients and their entries keeps *)
(* the entries of killed clients and the clients without an entry.         *)
LEMMA DeadFrame ==
  ASSUME TypeOK, clients' = clients,
         \A u \in Users : Seated(u)' <=> Seated(u),
         \A u \in Users : Seated(u) => slot'[u] = slot[u]
  PROVE  Dead' = Dead /\ Orphans' = Orphans
<1>1. Active' = Active
  BY DEF Active
<1>2. \A i \in Active : clients[i] \in Users
  BY DEF Active, TypeOK
<1>3. Dead' = Dead
  BY <1>1, <1>2 DEF Dead
<1> QED BY <1>3 DEF Orphans

(* While the semaphore is not lost, Excess covers the dead entries, and    *)
(* before a second start it is their number.                               *)
LEMMA DeadStep ==
  ASSUME TypeOK, ExclusiveAccess, Quiet, Reads, TableInv, [Next]_vars, Clean', Usable'
  PROVE  /\ Cardinality(Dead') <= Excess'
         /\ restarts' = 0 => Orphans' = {} /\ Excess' = Cardinality(Dead')
<1> USE DEF tableVars, ringVars, serverVars, mainVars, pollVars, faultVars
<1> DEFINE Goal == /\ Cardinality(Dead') <= Excess'
                   /\ restarts' = 0 => Orphans' = {} /\ Excess' = Cardinality(Dead')
<1>0. /\ client_count \in Int /\ outlived \in Nat
      /\ IsFiniteSet(Counted) /\ Cardinality(Counted) \in Nat
      /\ IsFiniteSet(Dead) /\ Cardinality(Dead) \in Nat /\ Excess \in Int
  BY Finiteness, LimitsAssumption DEF TypeOK, Excess
<1>1. CASE ~Clean
  <2>1. InitEntry /\ Good /\ ~(entry + 1 < MaxClients)
    BY <1>1, CleanBefore
  <2>2. /\ server = "clear" /\ clients' = [clients EXCEPT ![entry] = None]
        /\ UNCHANGED <<client_count, outlived, restarts, pc, slot>>
    BY <2>1 DEF InitEntry
  <2>3. \A i \in Slots : i < entry \/ i = entry
    BY <2>1, LimitsAssumption DEF TypeOK, Slots
  <2>4. Active' = {}
    BY <2>1, <2>2, <2>3 DEF Active, Quiet, TypeOK
  <2>5. Cardinality(Dead') = 0
    BY <2>4, FS_EmptySet DEF Dead
  <2>6. Counted' = Counted /\ Excess' = Excess
    BY <2>2 DEF Counted, Seated, Excess
  <2>7. 0 <= Excess
    BY <2>1, <2>2 DEF TableInv
  <2>8. ASSUME restarts' = 0 PROVE Orphans' = {} /\ Excess' = 0
    <3>1. \A u \in Users : pc[u] = "out"
      BY <2>1, <2>2, <2>8 DEF Quiet, Initialising
    <3>2. Counted = {} /\ Orphans' = {}
      BY <2>2, <3>1 DEF Counted, Seated, Orphans
    <3>3. client_count = 0 /\ outlived = 0
      BY <2>1, <2>2, <2>8 DEF Quiet, TableInv
    <3> QED BY <2>6, <3>2, <3>3, FS_EmptySet DEF Excess
  <2> QED BY <2>5, <2>6, <2>7, <2>8
<1> SUFFICES ASSUME Clean PROVE Goal
  BY <1>1
<1>2. Alone /\ Usable /\ server \in {"sleep", "print"}
  BY ExclusiveAlone, UsableBefore DEF Clean
<1>3. /\ Cardinality(Dead) <= Excess
      /\ restarts = 0 => Orphans = {} /\ Excess = Cardinality(Dead)
  BY <1>2 DEF TableInv
<1>4. CASE SemInit \/ InitCount \/ InitStart \/ InitMessages \/ InitEntry
  BY <1>2, <1>4 DEF SemInit, InitCount, InitStart, InitMessages, InitEntry, Clean
<1>5. CASE ServerWait \/ ServerPost \/ UNCHANGED vars
  <2>1. UNCHANGED <<clients, client_count, outlived, restarts, pc, slot>>
    BY <1>5 DEF ServerWait, ServerPost, vars
  <2>2. Dead' = Dead /\ Orphans' = Orphans
    BY <2>1, DeadFrame DEF Seated
  <2>3. Excess' = Excess
    BY <2>1 DEF Excess, Counted, Seated
  <2> QED BY <1>3, <2>1, <2>2, <2>3
<1>6. ASSUME NEW u \in Users, Claim(u) PROVE Goal
  <2>1. /\ clients' = [clients EXCEPT ![slot[u]] = u] /\ slot' = slot /\ slot[u] \in Slots
        /\ pc' = [pc EXCEPT ![u] = "enter"] /\ pc[u] = "claim"
        /\ UNCHANGED <<client_count, outlived, restarts>>
    BY <1>6 DEF Claim, TypeOK
  <2>2. clients[slot[u]] = None
    BY <2>1 DEF Reads, ReadsOf
  <2>3. /\ \A v \in Users : Seated(v)' <=> (Seated(v) \/ v = u)
        /\ ~Seated(u)
    BY <2>1 DEF Seated, TypeOK
  <2>4. Active' = Active \union {slot[u]} /\ slot[u] \notin Active
    BY <2>1, <2>2, UsersAssumption DEF Active, TypeOK
  <2>5. Dead' = Dead
    <3>1. \A j \in Active : clients'[j] = clients[j] /\ clients[j] \in Users /\ slot[u] # j
      BY <2>1, <2>4 DEF Active, TypeOK
    <3>2. clients'[slot[u]] = u
      BY <2>1 DEF TypeOK
    <3>3. \A j \in Active : j \in Dead' <=> j \in Dead
      BY <2>1, <2>3, <2>4, <3>1 DEF Dead
    <3>4. slot[u] \notin Dead' /\ slot[u] \notin Dead
      BY <2>1, <2>3, <2>4, <3>2 DEF Dead
    <3> QED BY <2>4, <3>3, <3>4 DEF Dead
  <2>6. Orphans' = Orphans
    <3>1. \A v \in Users : Seated(v) => (clients'[slot[v]] = v <=> clients[slot[v]] = v)
      BY <2>1, <2>2, <2>3, UsersAssumption DEF TypeOK
    <3>2. clients'[slot[u]] = u
      BY <2>1 DEF TypeOK
    <3> QED BY <2>1, <2>3, <3>1, <3>2 DEF Orphans
  <2>7. Excess' = Excess
    <3>1. Counted' = Counted
      BY <2>1 DEF Counted, Seated, TypeOK
    <3> QED BY <2>1, <3>1 DEF Excess
  <2> QED BY <1>3, <2>1, <2>5, <2>6, <2>7
<1>7. ASSUME NEW u \in Users, Release(u) PROVE Goal
  <2>1. /\ clients' = [clients EXCEPT ![slot[u]] = None] /\ slot' = slot /\ slot[u] \in Slots
        /\ pc' = [pc EXCEPT ![u] = "uncount"] /\ pc[u] = "leave"
        /\ UNCHANGED <<client_count, outlived, restarts>>
    BY <1>7 DEF Release, TypeOK
  <2>2. /\ \A v \in Users : Seated(v)' <=> (Seated(v) /\ v # u)
        /\ Seated(u)
    BY <2>1 DEF Seated, TypeOK
  <2>3. Active' = Active \ {slot[u]}
    BY <2>1 DEF Active, TypeOK
  <2>4. Dead' = Dead \ {slot[u]}
    <3>1. \A j \in Active' : /\ clients'[j] = clients[j] /\ clients[j] \in Users
                             /\ j \in Active /\ j # slot[u]
      BY <2>1, <2>3 DEF Active, TypeOK
    <3>2. \A j \in Active' : j \in Dead' <=> j \in Dead
      BY <2>1, <2>2, <3>1 DEF Dead
    <3> QED BY <2>3, <3>2 DEF Dead
  <2>5. Orphans = {} => Orphans' = {} /\ Dead' = Dead
    <3>1. ASSUME Orphans = {} PROVE clients[slot[u]] = u /\ slot[u] \notin Dead
      BY <2>2, <3>1 DEF Orphans, Dead
    <3>2. ASSUME Orphans = {}, NEW v \in Users, Seated(v), v # u
          PROVE  clients'[slot[v]] = v
      BY <2>1, <3>1, <3>2 DEF Orphans, TypeOK
    <3> QED BY <2>1, <2>2, <2>4, <3>1, <3>2 DEF Orphans
  <2>6. Cardinality(Dead') \in {Cardinality(Dead) - 1, Cardinality(Dead)}
    BY <1>0, <2>4, FS_RemoveElement
  <2>7. Excess' = Excess
    <3>1. Counted' = Counted
      BY <2>1 DEF Counted, Seated, TypeOK
    <3> QED BY <2>1, <3>1 DEF Excess
  <2> QED BY <1>0, <1>3, <2>1, <2>5, <2>6, <2>7
<1>8. ASSUME NEW u \in Users, StoreCount(u) PROVE Goal
  <2>1. /\ UNCHANGED <<clients, slot, outlived, restarts>> /\ tmp[u] = client_count
    BY <1>8 DEF StoreCount, Reads, ReadsOf
  <2>2. Dead' = Dead /\ Orphans' = Orphans
    <3>1. \A v \in Users : Seated(v)' <=> Seated(v)
      BY <1>8 DEF StoreCount, Seated, TypeOK
    <3> QED BY <2>1, <3>1, DeadFrame
  <2>3. CASE pc[u] = "entering"
    <3>1. client_count' = client_count + 1 /\ pc' = [pc EXCEPT ![u] = "entered"]
      BY <1>8, <2>1, <2>3 DEF StoreCount
    <3>2. Counted' = Counted \union {u} /\ u \notin Counted
      BY <2>3, <3>1 DEF Counted, Seated, TypeOK
    <3>3. Cardinality(Counted') = Cardinality(Counted) + 1
      BY <1>0, <3>2, FS_AddElement
    <3>4. Excess' = Excess
      BY <1>0, <2>1, <3>1, <3>3 DEF Excess
    <3> QED BY <1>3, <2>1, <2>2, <3>4
  <2>4. CASE pc[u] = "leaving"
    <3>1. client_count' = client_count - 1 /\ pc' = [pc EXCEPT ![u] = "left"]
      BY <1>8, <2>1, <2>4 DEF StoreCount
    <3>2. Counted' = Counted \ {u} /\ u \in Counted
      BY <2>4, <3>1 DEF Counted, Seated, TypeOK
    <3>3. Cardinality(Counted') = Cardinality(Counted) - 1
      BY <1>0, <3>2, FS_RemoveElement
    <3>4. Excess' = Excess
      BY <1>0, <2>1, <3>1, <3>3 DEF Excess
    <3> QED BY <1>3, <2>1, <2>2, <3>4
  <2> QED BY <1>8, <2>3, <2>4 DEF StoreCount
<1>9. ASSUME NEW u \in Users, Kill(u) PROVE Goal
  <2>0. ~MainInside(u)
    BY <1>2, <1>9, KilledOutside
  <2>1. /\ UNCHANGED <<clients, client_count, restarts, outlived>>
        /\ pc' = [pc EXCEPT ![u] = "out"] /\ slot' = [slot EXCEPT ![u] = 0]
    BY <1>9 DEF Kill
  <2>2. \A v \in Users : Seated(v)' <=> (Seated(v) /\ v # u)
    BY <2>1 DEF Seated, TypeOK
  <2>3. CASE ~Seated(u)
    <3>1. Dead' = Dead /\ Orphans' = Orphans
      <4>1. \A v \in Users : /\ Seated(v)' <=> Seated(v)
                             /\ Seated(v) => slot'[v] = slot[v]
        BY <2>1, <2>2, <2>3 DEF TypeOK
      <4> QED BY <2>1, <4>1, DeadFrame
    <3>2. Counted' = Counted
      BY <2>0, <2>1, <2>3 DEF Counted, Seated, MainInside, TypeOK
    <3>3. Excess' = Excess
      BY <2>1, <3>2 DEF Excess
    <3> QED BY <1>3, <2>1, <3>1, <3>3
  <2>4. CASE Seated(u)
    <3>1. Active' = Active
      BY <2>1 DEF Active
    <3>2. Dead' = IF clients[slot[u]] = u THEN Dead \union {slot[u]} ELSE Dead
      <4>1. \A j \in Active : clients[j] \in Users
        BY DEF Active, TypeOK
      <4>2. \A v \in Users \ {u} : slot'[v] = slot[v]
        BY <2>1 DEF TypeOK
      <4>3. \A j \in Active : j \in Dead' <=> (j \in Dead \/ (clients[j] = u /\ slot[u] = j))
        BY <2>1, <2>2, <2>4, <3>1, <4>1, <4>2 DEF Dead
      <4>4. clients[slot[u]] = u => slot[u] \in Active
        BY UsersAssumption DEF Active, TypeOK
      <4> QED BY <3>1, <4>3, <4>4 DEF Dead
    <3>3. Orphans' = Orphans \ {u}
      BY <2>1, <2>2 DEF Orphans, TypeOK
    <3>4. Cardinality(Counted') = Cardinality(Counted) - 1
      <4>1. Counted' = Counted \ {u} /\ u \in Counted
        BY <2>0, <2>1, <2>4 DEF Counted, Seated, MainInside, TypeOK
      <4> QED BY <1>0, <4>1, FS_RemoveElement
    <3>5. Cardinality(Dead') \in {Cardinality(Dead), Cardinality(Dead) + 1}
      BY <1>0, <3>2, FS_AddElement
    <3>6. Orphans = {} => Cardinality(Dead') = Cardinality(Dead) + 1
      <4>1. Orphans = {} => clients[slot[u]] = u /\ slot[u] \notin Dead
        BY <2>4 DEF Orphans, Dead
      <4> QED BY <1>0, <3>2, <4>1, FS_AddElement
    <3>7. Excess' = Excess + 1
      BY <1>0, <2>1, <3>4 DEF Excess
    <3> QED BY <1>0, <1>3, <2>1, <3>3, <3>5, <3>6, <3>7
  <2> QED BY <2>3, <2>4
<1>10. ASSUME NEW u \in Users, ClientNext(u), ~Claim(u), ~Release(u), ~StoreCount(u), ~Kill(u)
       PROVE  Goal
  <2>1. UNCHANGED <<clients, client_count, restarts, outlived>>
    BY <1>10 DEF ClientNext, MainWait, MainPost, Scan, LoadCount, FindPos, Write,
       TestCount, LoadRing, StoreRing, PthreadCancel, PthreadJoin, PollWait, PollMessages,
       PollClients, Cancelled
  <2>2. Counted' = Counted /\ \A v \in Users : Seated(v)' <=> Seated(v)
    BY <1>10, CountedStays
  <2>3. \A v \in Users : Seated(v) => slot'[v] = slot[v]
    <3>1. CASE Scan(u) \/ PthreadJoin(u)
      BY <3>1 DEF Scan, PthreadJoin, Seated, TypeOK
    <3>2. CASE ~Scan(u) /\ ~PthreadJoin(u)
      BY <1>10, <3>2 DEF ClientNext, MainWait, MainPost, LoadCount, FindPos, Write,
         TestCount, LoadRing, StoreRing, PthreadCancel, PollWait, PollMessages,
         PollClients, Cancelled
    <3> QED BY <3>1, <3>2
  <2>4. Dead' = Dead /\ Orphans' = Orphans
    BY <2>1, <2>2, <2>3, DeadFrame
  <2> QED BY <1>3, <2>1, <2>2, <2>4 DEF Excess
<1> QED BY <1>4, <1>5, <1>6, <1>7, <1>8, <1>9, <1>10 DEF Next, ServerNext

(* Coming, going, killing and the starts of the server keep the counts     *)
(* together.                                                               *)
LEMMA TableStep ==
  ASSUME TypeOK, ExclusiveAccess, Quiet, Reads, TableInv, [Next]_vars PROVE TableInv'
BY ExcessStep, DeadStep DEF TableInv

-----------------------------------------------------------------------------
(* A cell of the ring, with and without the modulo.                        *)
LEMMA RingIndex ==
  ASSUME TypeOK, NEW i \in 0 .. MaxMessages
  PROVE  (msg_start + i) % MaxMessages = CellOf(i) /\ CellOf(i) \in Cells
<1>1. msg_start \in 0 .. MaxMessages - 1 /\ MaxMessages \in Nat \ {0}
  BY LimitsAssumption DEF TypeOK, Cells
<1>2. CASE msg_start + i < MaxMessages
  <2>1. (msg_start + i) % MaxMessages = msg_start + i
    BY <1>1, <1>2
  <2> QED BY <1>1, <1>2, <2>1 DEF CellOf, Cells
<1>3. CASE ~(msg_start + i < MaxMessages)
  <2>1. (msg_start + i) % MaxMessages = msg_start + i - MaxMessages
    BY <1>1, <1>3
  <2> QED BY <1>1, <1>3, <2>1 DEF CellOf, Cells
<1> QED BY <1>2, <1>3

(* A step that leaves the ring alone, and opens no way to it, keeps it.    *)
LEMMA RingFrame ==
  ASSUME RingInv, UNCHANGED <<messages, msg_start, msg_count, posted, before>>,
         Clean' => Clean, Clean' /\ Usable' => Usable,
         Clean' /\ Usable' => \A u \in Users : Writing(u)' <=> Writing(u)
  PROVE  RingInv'
BY DEF RingInv, Written, Settled, CellOf

(* A writer and the one who counts its message are the same client.        *)
LEMMA RingStep ==
  ASSUME TypeOK, ExclusiveAccess, Quiet, Reads, RingInv, [Next]_vars PROVE RingInv'
<1> USE LimitsAssumption DEF tableVars, ringVars, serverVars, mainVars, pollVars, faultVars
<1>0. posted \in Nat /\ before \in Nat /\ before <= posted /\ msg_count \in Nat
  BY DEF TypeOK, RingInv
<1>u. Clean /\ Clean' /\ Usable' => Usable
  BY UsableBefore
<1>1. CASE SemInit \/ InitCount \/ InitStart
  <2>1. ~Clean' /\ UNCHANGED <<posted, before>>
    BY <1>1 DEF SemInit, InitCount, InitStart, Clean
  <2> QED BY <1>0, <2>1 DEF RingInv
<1>2. CASE InitMessages
  <2>1. ~Clean' /\ before' = posted /\ posted' = posted
    BY <1>2 DEF InitMessages, Clean
  <2> QED BY <1>0, <2>1 DEF RingInv
<1>3. CASE InitEntry
  <2>1. UNCHANGED <<messages, msg_start, msg_count, posted, before, pc>> /\ server = "clear"
    BY <1>3 DEF InitEntry
  <2>2. ASSUME Clean' PROVE Settled' /\ \A u \in Users : ~Writing(u)'
    <3>1. Good
      BY <2>1, <2>2, CleanBefore DEF Clean
    <3>2. /\ msg_count = 0 /\ before = posted
          /\ \A u \in Users : ~MainInside(u)
      BY <2>1, <3>1 DEF Quiet, Initialising
    <3>3. Settled'
      BY <1>0, <2>1, <3>2 DEF Settled, Kept
    <3> QED BY <2>1, <3>2, <3>3 DEF Writing, MainInside
  <2> QED BY <1>0, <2>1, <2>2 DEF RingInv
<1>4. CASE ServerWait \/ ServerPost \/ UNCHANGED vars
  <2>1. UNCHANGED <<messages, msg_start, msg_count, posted, before, pc, spoilt, early>> /\ (Clean' => Clean)
    BY <1>4, CleanBefore DEF ServerWait, ServerPost, vars, InitEntry, Clean
  <2> QED BY <1>u, <2>1, RingFrame DEF Writing
<1>5. ASSUME NEW u \in Users, ClientNext(u), ~Write(u), ~StoreRing(u), ~Kill(u) PROVE RingInv'
  <2>1. UNCHANGED <<messages, msg_start, msg_count, posted, before>>
    BY <1>5 DEF ClientNext, MainWait, MainPost, Scan, Claim, Release, LoadCount, StoreCount,
       FindPos, TestCount, LoadRing, PthreadCancel, PthreadJoin, PollWait, PollMessages,
       PollClients, Cancelled
  <2>2. \A v \in Users : Writing(v)' <=> Writing(v)
    <3>1. CASE MainPost(u)
      <4>1. ~Writing(u) /\ AfterPost[pc[u]] \in {"typing", "out", "cancel"}
        BY <3>1 DEF MainPost, AfterPost, Writing
      <4> QED BY <3>1, <4>1 DEF MainPost, Writing, TypeOK
    <3>2. CASE TestCount(u) \/ LoadRing(u)
      BY <3>2 DEF TestCount, LoadRing, Writing, TypeOK
    <3>3. CASE MainWait(u) \/ Scan(u) \/ Claim(u) \/ Release(u) \/ LoadCount(u) \/ StoreCount(u)
      BY <3>3 DEF MainWait, Scan, Claim, Release, LoadCount, StoreCount, Writing, TypeOK
    <3>4. CASE \/ FindPos(u) \/ PthreadCancel(u) \/ PthreadJoin(u) \/ PollWait(u) \/ PollMessages(u)
               \/ PollClients(u) \/ Cancelled(u)
      BY <3>4 DEF FindPos, PthreadCancel, PthreadJoin, PollWait, PollMessages, PollClients,
         Cancelled, Writing, TypeOK
    <3> QED BY <1>5, <3>1, <3>2, <3>3, <3>4 DEF ClientNext
  <2>3. Clean' => Clean
    BY <1>5, ClientClean
  <2> QED BY <1>u, <2>1, <2>2, <2>3, RingFrame
<1>6. ASSUME NEW u \in Users, Kill(u) PROVE RingInv'
  <2>1. UNCHANGED <<messages, msg_start, msg_count, posted, before>>
    BY <1>6 DEF Kill
  <2>2. Clean' => Clean
    BY <1>6, ClientClean DEF ClientNext
  <2>3. ASSUME Clean', Usable' PROVE \A v \in Users : Writing(v)' <=> Writing(v)
    <3>1. ~MainInside(u)
      BY <1>6, <2>2, <2>3, ExclusiveAlone, KilledOutside DEF Clean
    <3> QED BY <1>6, <3>1 DEF Kill, Writing, MainInside, TypeOK
  <2> QED BY <1>u, <2>1, <2>2, <2>3, RingFrame
<1>7. ASSUME NEW u \in Users, Write(u) PROVE RingInv'
  <2>0. posted' = posted + 1 /\ before' = before /\ (Clean' => Clean)
    BY <1>7, ClientClean DEF Write, ClientNext
  <2>1. before' <= posted'
    BY <1>0, <2>0
  <2>2. ASSUME Clean PROVE Written' /\ Writing(u)'
    <3>1. msg_count \in 0 .. MaxMessages
      BY <2>2 DEF TypeOK
    <3>2. tmp[u] = CellOf(msg_count) /\ CellOf(msg_count) \in Cells
      BY <1>7, <2>2, <3>1, RingIndex DEF Reads, ReadsOf, Write
    <3>3. /\ messages' = [messages EXCEPT ![CellOf(msg_count)] = posted + 1]
          /\ UNCHANGED <<msg_start, msg_count>> /\ pc' = [pc EXCEPT ![u] = "test"]
      BY <1>7, <3>2 DEF Write
    <3>4. Usable /\ \A v \in Users : ~Writing(v)
      BY <1>7, <2>2, ExclusiveAlone, UsableCases DEF Clean, Alone, MainInside, Writing, Write
    <3>5. Settled
      BY <2>2, <3>4 DEF RingInv
    <3>6. \A i \in 0 .. msg_count - 1 : i # 0 \/ msg_count # MaxMessages =>
            messages'[CellOf(i)] = posted - msg_count + 1 + i
      <4>1. \A i \in 0 .. msg_count - 1 : CellOf(i) \in Cells
        BY <3>1, RingIndex
      <4>2. \A i \in 0 .. msg_count - 1 :
              i # 0 \/ msg_count # MaxMessages => CellOf(i) # CellOf(msg_count)
        BY <3>1 DEF CellOf, TypeOK, Cells
      <4> QED BY <3>2, <3>3, <3>5, <4>1, <4>2 DEF TypeOK, Settled
    <3>7. \A i \in Int : CellOf(i)' = CellOf(i)
      BY <3>3 DEF CellOf
    <3>8. messages'[CellOf(msg_count)] = posted + 1
      BY <3>2, <3>3 DEF TypeOK
    <3>9. Written'
      BY <1>0, <2>0, <3>3, <3>5, <3>6, <3>7, <3>8 DEF Written, Settled, Kept
    <3> QED BY <3>3, <3>9 DEF Writing, TypeOK
  <2> QED BY <2>0, <2>1, <2>2 DEF RingInv
<1>8. ASSUME NEW u \in Users, StoreRing(u) PROVE RingInv'
  <2>0. UNCHANGED <<messages, posted, before>> /\ (Clean' => Clean)
    BY <1>8, ClientClean DEF StoreRing, ClientNext
  <2>1. ASSUME Clean PROVE Settled' /\ \A v \in Users : ~Writing(v)'
    <3>0. msg_count \in 0 .. MaxMessages
      BY <2>1 DEF TypeOK
    <3>1. Usable /\ Writing(u) /\ \A v \in Users : v # u => ~Writing(v)
      BY <1>8, <2>1, ExclusiveAlone, UsableCases DEF Clean, Alone, MainInside, Writing, StoreRing
    <3>2. Written
      BY <2>1, <3>1 DEF RingInv
    <3>3. \A v \in Users : ~Writing(v)'
      BY <1>8, <3>1 DEF StoreRing, Writing, TypeOK
    <3>4. CASE pc[u] = "grown"
      <4>1. msg_count' = msg_count + 1 /\ msg_start' = msg_start /\ msg_count < MaxMessages
        BY <1>8, <2>1, <3>4 DEF StoreRing, Reads, ReadsOf
      <4>2. \A i \in Int : CellOf(i)' = CellOf(i)
        BY <4>1 DEF CellOf
      <4>3. msg_count' = Kept(posted - before)
        BY <1>0, <3>2, <4>1 DEF Written, Kept
      <4>4. \A i \in 0 .. msg_count : messages[CellOf(i)] = posted - msg_count + i
        <5> SUFFICES ASSUME NEW i \in 0 .. msg_count
                     PROVE  messages[CellOf(i)] = posted - msg_count + i
          OBVIOUS
        <5>1. CASE i = msg_count
          BY <1>0, <3>2, <5>1 DEF Written
        <5>2. CASE i \in 0 .. msg_count - 1
          BY <1>0, <3>2, <4>1, <5>2 DEF Written
        <5> QED BY <1>0, <5>1, <5>2
      <4>5. Settled'
        BY <1>0, <2>0, <4>1, <4>2, <4>3, <4>4 DEF Settled, Kept
      <4> QED BY <3>3, <4>5
    <3>5. CASE pc[u] = "shifted"
      <4>1. msg_count' = msg_count /\ msg_count = MaxMessages /\ msg_start' = CellOf(1)
        <5>1. tmp[u] = msg_start /\ msg_count >= MaxMessages
          BY <2>1, <3>5 DEF Reads, ReadsOf
        <5>2. (msg_start + 1) % MaxMessages = CellOf(1)
          BY RingIndex
        <5> QED BY <1>8, <3>0, <3>5, <5>1, <5>2 DEF StoreRing
      <4>2. \A i \in 0 .. MaxMessages - 1 : CellOf(i)' = CellOf(i + 1)
        BY <4>1 DEF CellOf, TypeOK, Cells
      <4>3. msg_count' = Kept(posted - before)
        BY <1>0, <3>2, <4>1 DEF Written, Kept
      <4>4. \A i \in 0 .. msg_count - 1 : messages[CellOf(i + 1)] = posted - msg_count + 1 + i
        <5> SUFFICES ASSUME NEW i \in 0 .. msg_count - 1
                     PROVE  messages[CellOf(i + 1)] = posted - msg_count + 1 + i
          OBVIOUS
        <5>1. CASE i + 1 = msg_count
          BY <1>0, <3>2, <5>1 DEF Written
        <5>2. CASE i + 1 \in 1 .. msg_count - 1
          <6>1. i + 1 \in 0 .. msg_count - 1 /\ i + 1 # 0
            BY <1>0, <5>2
          <6> QED BY <1>0, <3>2, <6>1 DEF Written
        <5> QED BY <1>0, <5>1, <5>2
      <4>5. Settled'
        BY <1>0, <2>0, <4>1, <4>2, <4>3, <4>4 DEF Settled, Kept
      <4> QED BY <3>3, <4>5
    <3> QED BY <1>8, <3>4, <3>5 DEF StoreRing
  <2> QED BY <1>0, <2>0, <2>1 DEF RingInv
<1> QED BY <1>1, <1>2, <1>3, <1>4, <1>5, <1>6, <1>7, <1>8 DEF Next, ServerNext

-----------------------------------------------------------------------------
(* What is read from a settled ring, and what a high window shows of it.   *)
LEMMA RingRead ==
  ASSUME TypeOK, Settled, msg_count <= MaxMessages
  PROVE  /\ Contents = [i \in 1 .. msg_count |-> posted - msg_count + i]
         /\ Rows >= MaxMessages => Printed = Contents
<1>1. msg_count \in 0 .. MaxMessages /\ msg_start \in Int /\ posted \in Int
  BY LimitsAssumption DEF TypeOK, Cells
<1>2. ASSUME NEW i \in 1 .. msg_count
      PROVE  messages[(msg_start + i - 1) % MaxMessages] = posted - msg_count + i
  <2>1. i - 1 \in 0 .. msg_count - 1 /\ i - 1 \in 0 .. MaxMessages
    BY <1>1, LimitsAssumption
  <2>2. (msg_start + (i - 1)) % MaxMessages = CellOf(i - 1)
    BY <2>1, RingIndex
  <2>3. msg_start + (i - 1) = msg_start + i - 1
    BY <1>1
  <2>4. messages[CellOf(i - 1)] = posted - msg_count + 1 + (i - 1)
    BY <2>1 DEF Settled
  <2> QED BY <1>1, <2>2, <2>3, <2>4
<1>3. Contents = [i \in 1 .. msg_count |-> posted - msg_count + i]
  BY <1>2 DEF Contents
<1>4. ASSUME Rows >= MaxMessages PROVE Printed = Contents
  <2>1. Printed = SubSeq(Contents, 1, msg_count)
    BY <1>1, <1>4, LimitsAssumption DEF Printed
  <2>2. Contents \in Seq(Int) /\ Len(Contents) = msg_count
    BY <1>1, <1>3, LimitsAssumption
  <2> QED BY <1>1, <2>1, <2>2, LimitsAssumption
<1> QED BY <1>3, <1>4

(* What a poll leaves in the window of a client that has its entry.        *)
LEMMA PollDraws ==
  ASSUME TypeOK, ExclusiveAccess, RingInv, WindowInv, Clean, NEW u \in Users, PollMessages(u),
         Seated(u), u \notin Orphans, posted - before <= MaxMessages, Rows >= MaxMessages
  PROVE  /\ chatWindow'[u] = Contents
         /\ Contents = [i \in 1 .. msg_count |-> before + i]
<1>1. Settled
  <2>1. Usable /\ \A v \in Users : ~Writing(v)
    BY ExclusiveAlone, UsableCases DEF Clean, Alone, MainInside, PollInside, PollMessages, Writing
  <2> QED BY <2>1 DEF RingInv
<1>2. posted \in Nat /\ before \in Nat /\ before <= posted /\ msg_count <= MaxMessages
  BY LimitsAssumption DEF TypeOK, RingInv
<1>3. msg_count = posted - before
  BY <1>1, <1>2, LimitsAssumption DEF Settled, Kept
<1>4. Printed = Contents /\ Contents = [i \in 1 .. msg_count |-> posted - msg_count + i]
  BY <1>1, <1>2, RingRead
<1>5. Contents = [i \in 1 .. msg_count |-> before + i]
  <2>1. \A i \in 1 .. msg_count : posted - msg_count + i = before + i
    BY <1>2, <1>3
  <2> QED BY <1>4, <2>1
<1>6. chatWindow'[u] = IF NewMessages(u) THEN Printed ELSE chatWindow[u]
  BY DEF PollMessages, TypeOK
<1>7. ~NewMessages(u) => chatWindow[u] = [i \in 1 .. msg_count |-> before + i]
  BY DEF NewMessages, WindowInv, WindowOf
<1> QED BY <1>4, <1>5, <1>6, <1>7

(* A step that draws nothing for a client keeps what its window shows.     *)
LEMMA WindowFrame ==
  ASSUME TypeOK, NEW v \in Users, WindowOf(v), Clean' => Clean, Clean' => before' = before,
         posted' \in {posted, posted + 1},
         last_msg'[v] = last_msg[v], chatWindow'[v] = chatWindow[v],
         Blank(v)' => Blank(v) /\ rpc'[v] = rpc[v],
         Clean' /\ Seated(v)' /\ v \notin Orphans' => Seated(v) /\ v \notin Orphans
  PROVE  WindowOf(v)'
<1>1. posted \in Int /\ before \in Int
  BY DEF TypeOK
<1>2. ASSUME Clean' PROVE posted' - before' <= MaxMessages => posted - before <= MaxMessages
  BY <1>1, <1>2, LimitsAssumption
<1>3. Clean' => [i \in 1 .. last_msg'[v] |-> before' + i] = [i \in 1 .. last_msg[v] |-> before + i]
  OBVIOUS
<1> QED BY <1>2, <1>3 DEF WindowOf

(* Every step keeps what the windows show.                                 *)
LEMMA WindowStep ==
  ASSUME TypeOK, ExclusiveAccess, Quiet, RingInv, WindowInv, [Next]_vars PROVE WindowInv'
<1> USE UsersAssumption DEF tableVars, ringVars, serverVars, mainVars, pollVars, faultVars
<1> SUFFICES ASSUME NEW v \in Users PROVE WindowOf(v)'
  BY DEF WindowInv
<1>0. WindowOf(v)
  BY DEF WindowInv
<1>1. CASE SemInit \/ InitCount \/ InitStart \/ InitMessages
  <2>1. ~Clean' /\ UNCHANGED <<pc, rpc, last_msg, chatWindow>>
    BY <1>1 DEF SemInit, InitCount, InitStart, InitMessages, Clean
  <2> QED BY <1>0, <2>1 DEF WindowOf, Blank
<1>2. CASE InitEntry
  <2>1. /\ clients' = [clients EXCEPT ![entry] = None] /\ server = "clear"
        /\ UNCHANGED <<pc, slot, rpc, last_msg, chatWindow>>
    BY <1>2 DEF InitEntry
  <2>2. ASSUME Clean', Seated(v)' PROVE v \in Orphans'
    <3>1. Good /\ ~(entry + 1 < MaxClients)
      BY <2>1, <2>2, CleanBefore DEF Clean
    <3>2. slot[v] \in Slots /\ entry \in Slots /\ (slot[v] < entry \/ slot[v] = entry)
      BY <3>1, LimitsAssumption DEF TypeOK, Slots
    <3>3. clients'[slot[v]] = None
      BY <2>1, <3>1, <3>2 DEF Quiet, TypeOK
    <3> QED BY <2>1, <2>2, <3>3 DEF Orphans
  <2> QED BY <1>0, <2>1, <2>2 DEF WindowOf, Blank
<1>3. CASE ServerWait \/ ServerPost \/ UNCHANGED vars
  <2>1. UNCHANGED <<clients, pc, slot, rpc, last_msg, chatWindow, before, posted>>
    BY <1>3 DEF ServerWait, ServerPost, vars
  <2>2. Clean' => Clean
    BY <1>3, CleanBefore DEF ServerWait, ServerPost, vars, InitEntry, Clean
  <2> QED BY <1>0, <2>1, <2>2, WindowFrame DEF Seated, Orphans, Blank
<1> SUFFICES ASSUME NEW u \in Users, ClientNext(u) PROVE WindowOf(v)'
  BY <1>1, <1>2, <1>3 DEF Next, ServerNext
<1>c. Clean' => Clean
  BY ClientClean
<1>4. CASE Claim(u)
  <2>1. /\ clients' = [clients EXCEPT ![slot[u]] = u] /\ slot' = slot /\ rpc' = rpc
        /\ pc' = [pc EXCEPT ![u] = "enter"] /\ pc[u] = "claim"
        /\ UNCHANGED <<last_msg, chatWindow, before, posted>>
    BY <1>4 DEF Claim
  <2>2. CASE v = u
    <3>1. last_msg'[u] = 0 /\ chatWindow'[u] = <<>> /\ rpc'[u] = "none"
      BY <1>0, <2>1, <2>2 DEF WindowOf, Blank
    <3>2. <<>> = [j \in 1 .. 0 |-> before' + j]
      OBVIOUS
    <3> QED BY <2>2, <3>1, <3>2 DEF WindowOf
  <2>3. CASE v # u
    <3>1. pc'[v] = pc[v]
      BY <2>1, <2>3 DEF TypeOK
    <3>2. clients'[slot[v]] = v => clients[slot[v]] = v
      BY <2>1, <2>3 DEF TypeOK
    <3>3. Seated(v)' /\ v \notin Orphans' => Seated(v) /\ v \notin Orphans
      BY <2>1, <3>1, <3>2 DEF Seated, Orphans
    <3> QED BY <1>0, <1>c, <2>1, <3>1, <3>3, WindowFrame DEF Blank
  <2> QED BY <2>2, <2>3
<1>5. CASE Release(u)
  <2>1. /\ clients' = [clients EXCEPT ![slot[u]] = None] /\ slot' = slot /\ rpc' = rpc
        /\ pc' = [pc EXCEPT ![u] = "uncount"]
        /\ UNCHANGED <<last_msg, chatWindow, before, posted>>
    BY <1>5 DEF Release
  <2>2. (Seated(v)' => Seated(v)) /\ (Blank(v)' => Blank(v))
    BY <1>5, <2>1 DEF Seated, Blank, Release, TypeOK
  <2>3. clients'[slot[v]] = v => clients[slot[v]] = v
    BY <2>1 DEF TypeOK
  <2>4. v \notin Orphans' /\ Seated(v)' => v \notin Orphans
    BY <2>1, <2>2, <2>3 DEF Orphans
  <2> QED BY <1>0, <1>c, <2>1, <2>2, <2>4, WindowFrame
<1>6. CASE PthreadJoin(u) \/ Kill(u)
  <2>1. CASE v = u
    <3>1. /\ last_msg'[u] = 0 /\ chatWindow'[u] = <<>> /\ pc'[u] = "out" /\ rpc'[u] = "none"
      BY <1>6 DEF PthreadJoin, Kill, TypeOK
    <3> QED BY <2>1, <3>1 DEF WindowOf, Seated
  <2>2. CASE v # u
    <3>1. /\ pc'[v] = pc[v] /\ rpc'[v] = rpc[v] /\ slot'[v] = slot[v]
          /\ last_msg'[v] = last_msg[v] /\ chatWindow'[v] = chatWindow[v]
          /\ UNCHANGED <<clients, before, posted>>
      BY <1>6, <2>2 DEF PthreadJoin, Kill, TypeOK
    <3>2. Seated(v)' = Seated(v) /\ (v \in Orphans' <=> v \in Orphans)
      BY <3>1 DEF Seated, Orphans
    <3> QED BY <1>0, <1>c, <3>1, <3>2, WindowFrame DEF Blank
  <2> QED BY <2>1, <2>2
<1>7. CASE PollMessages(u)
  <2>1. UNCHANGED <<clients, pc, slot, posted, before>>
    BY <1>7 DEF PollMessages
  <2>2. Seated(v)' = Seated(v) /\ Orphans' = Orphans /\ Blank(v)' = Blank(v)
    BY <2>1 DEF Seated, Orphans, Blank
  <2>3. CASE v = u
    <3>1. ~Blank(u) /\ last_msg'[u] = msg_count
      BY <1>0, <1>7, <2>3 DEF PollMessages, WindowOf, TypeOK
    <3>2. /\ Clean /\ Seated(u) /\ u \notin Orphans
          /\ posted - before <= MaxMessages /\ Rows >= MaxMessages
          => chatWindow'[u] = [i \in 1 .. msg_count |-> before + i]
      BY <1>7, PollDraws
    <3> QED BY <1>c, <2>1, <2>2, <2>3, <3>1, <3>2 DEF WindowOf
  <2>4. CASE v # u
    <3>1. rpc'[v] = rpc[v] /\ last_msg'[v] = last_msg[v] /\ chatWindow'[v] = chatWindow[v]
      BY <1>7, <2>4 DEF PollMessages, TypeOK
    <3> QED BY <1>0, <1>c, <2>1, <2>2, <3>1, WindowFrame
  <2> QED BY <2>3, <2>4
<1>8. CASE ~Claim(u) /\ ~Release(u) /\ ~PthreadJoin(u) /\ ~Kill(u) /\ ~PollMessages(u)
  <2>1. /\ UNCHANGED <<clients, last_msg, chatWindow, before>>
        /\ posted' \in {posted, posted + 1}
    BY <1>8 DEF ClientNext, MainWait, MainPost, Scan, LoadCount, StoreCount, FindPos, Write,
       TestCount, LoadRing, StoreRing, PthreadCancel, PollWait, PollClients, Cancelled
  <2>2. Seated(v)' <=> Seated(v)
    BY <1>8, CountedStays
  <2>3. Seated(v) => slot'[v] = slot[v]
    BY <1>8 DEF ClientNext, MainWait, MainPost, Scan, LoadCount, StoreCount, FindPos, Write,
       TestCount, LoadRing, StoreRing, PthreadCancel, PollWait, PollClients, Cancelled,
       Seated, TypeOK
  <2>4. v \in Orphans' <=> v \in Orphans
    BY <2>1, <2>2, <2>3 DEF Orphans
  <2>5. Blank(v)' => Blank(v) /\ rpc'[v] = rpc[v]
    <3>1. CASE MainPost(u)
      <4>1. \/ pc[u] \in {"entered", "committed"} /\ pc'[u] = "typing"
            \/ pc[u] = "full" /\ pc'[u] = "out"
            \/ pc[u] = "left" /\ pc'[u] = "cancel"
        <5>1. pc[u] \in {"entered", "full", "committed", "left"} /\ pc'[u] = AfterPost[pc[u]]
          BY <3>1 DEF MainPost, AfterPost, TypeOK
        <5>2. /\ AfterPost["entered"] = "typing" /\ AfterPost["full"] = "out"
              /\ AfterPost["committed"] = "typing" /\ AfterPost["left"] = "cancel"
          BY DEF AfterPost
        <5> QED BY <5>1, <5>2
      <4>2. rpc' = [rpc EXCEPT ![u] = IF pc[u] = "entered" THEN "wait" ELSE @]
        BY <3>1 DEF MainPost
      <4>3. v # u => pc'[v] = pc[v] /\ rpc'[v] = rpc[v]
        BY <3>1 DEF MainPost, TypeOK
      <4> QED BY <4>1, <4>2, <4>3 DEF Blank, TypeOK
    <3>2. CASE PollWait(u) \/ PollClients(u) \/ Cancelled(u)
      <4>1. pc' = pc /\ rpc[u] # "none" /\ (v # u => rpc'[v] = rpc[v])
        BY <3>2 DEF PollWait, PollClients, Cancelled, TypeOK
      <4> QED BY <1>0, <4>1 DEF WindowOf, Blank
    <3>3. CASE \/ MainWait(u) \/ Scan(u) \/ LoadCount(u) \/ StoreCount(u) \/ FindPos(u) \/ Write(u)
               \/ TestCount(u) \/ LoadRing(u) \/ StoreRing(u) \/ PthreadCancel(u)
      BY <3>3 DEF MainWait, Scan, LoadCount, StoreCount, FindPos, Write, TestCount, LoadRing,
         StoreRing, PthreadCancel, Blank, TypeOK
    <3> QED BY <1>8, <3>1, <3>2, <3>3 DEF ClientNext
  <2> QED BY <1>0, <1>c, <2>1, <2>2, <2>4, <2>5, WindowFrame
<1> QED BY <1>4, <1>5, <1>6, <1>7, <1>8

-----------------------------------------------------------------------------
(* The inductive invariant of the shared memory chat.                      *)
THEOREM Invariance == Spec => []IInv
<1>1. IInv /\ [Next]_vars => IInv'
  BY TypeStep, CountStep, ExclusiveStep, QuietStep, ReadsStep, TableStep, RingStep, WindowStep
     DEF IInv
<1> QED BY InitIInv, <1>1, PTL DEF Spec

(* The types hold: a client writes into a cell of the ring, and after a    *)
(* clean start the count stays within the ring.                            *)
THEOREM TypeCorrect == Spec => []TypeOK
BY Invariance, PTL DEF IInv

(* sem_wait and sem_post keep the critical sections of the server, the     *)
(* clients and their receive threads apart, whoever is killed and whenever *)
(* the server starts anew, unless its sem_init finds a client inside; each *)
(* start that does lets one more in, and one that does not ends that.      *)
THEOREM Exclusion == Spec => []ExclusiveAccess
<1>1. IInv => ExclusiveAccess
  BY DEF IInv
<1> QED BY Invariance, <1>1, PTL

(* After a clean start client_count, the entries of the table and the      *)
(* clients that chat stay in agreement, up to the clients killed and those *)
(* that outlived the server, until a client is killed between the store    *)
(* into its entry and the store of the count.                              *)
THEOREM Table == Spec => []TableConsistent
<1>1. IInv => TableConsistent
  BY TableFromInv DEF IInv
<1> QED BY Invariance, <1>1, PTL

(* Whoever may look at the ring after a clean start finds the newest       *)
(* messages in their order.                                                *)
THEOREM Ring == Spec => []RingHoldsNewest
<1>1. IInv => RingHoldsNewest
  <2> SUFFICES ASSUME IInv, Clean, Usable,
                      \A u \in Users : pc[u] \notin {"test", "grow", "grown", "shift", "shifted"}
               PROVE  /\ msg_count = Kept(posted - before)
                      /\ Contents = [i \in 1 .. msg_count |-> posted - msg_count + i]
    BY DEF RingHoldsNewest, Kept
  <2>1. Settled
    BY DEF IInv, RingInv, Writing
  <2>2. msg_count <= MaxMessages
    BY DEF IInv, TypeOK
  <2> QED BY <2>1, <2>2, RingRead DEF IInv, Settled
<1> QED BY Invariance, <1>1, PTL

(* A poll in a window that is high enough leaves every message of a ring   *)
(* that never overflowed on the screen of a client that has its entry,     *)
(* after a clean start.                                                    *)
THEOREM PollShowsAll == Spec => PollShowsAllUntilFull
<1>1. IInv => \A u \in Users :
                /\ PollMessages(u) /\ Clean
                /\ posted - before <= MaxMessages /\ Rows >= MaxMessages
                /\ Seated(u) /\ u \notin Orphans
                => chatWindow'[u] = Contents
  BY PollDraws DEF IInv
<1> QED BY Invariance, <1>1, PTL DEF PollShowsAllUntilFull
=============================================================================
