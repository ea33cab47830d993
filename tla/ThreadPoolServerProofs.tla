----------------------- MODULE ThreadPoolServerProofs -----------------------
(***************************************************************************)
(* Proofs about ThreadPoolServer for every number of clients, workers,     *)
(* slots, backlog entries and spurious wakeups.                            *)
(*                                                                         *)
(* SocketOwnedOnce is not inductive: it says nothing of how rear follows   *)
(* from front and count, nor of who may be between moving a socket and     *)
(* updating count.  IInv adds both: mutual exclusion (MutexInv), the       *)
(* geometry of the ring (RingInv) and, instead of the set Places(c), the   *)
(* pairwise separation of the places a descriptor can be in (OwnInv).      *)
(***************************************************************************)
EXTENDS ThreadPoolServer, TLAPS

MutexInv ==
  /\ pc[Main] \in {"accept", "lock", "check", "wait", "count"}
  /\ \A w \in Workers : pc[w] \in {"lock", "check", "wait", "count", "send", "close"}
  /\ \A t \in Threads : pc[t] \in {"check", "count"} => mutex = t

RingInv ==
  /\ Filled \in 0 .. Capacity
  /\ rear = IF front + Filled < Capacity THEN front + Filled
                                         ELSE front + Filled - Capacity
  /\ pc[Main] = "count" => count < Capacity
  /\ \A w \in Workers : pc[w] = "count" => count > 0

\* The state of the connection whose descriptor t holds.
HeldState(t) == IF pc[t] = "close" THEN "answered" ELSE "accepted"

HandOK == \A t \in Threads : Holds(t) => /\ sock[t] \in Clients
                                         /\ conn[sock[t]] = HeldState(t)
SlotOK == \A i \in Slots : Live(i) => /\ data[i] \in Clients
                                      /\ conn[data[i]] = "accepted"
HandsApart == \A t, u \in Threads : Holds(t) /\ Holds(u) /\ sock[t] = sock[u] => t = u
SlotsApart == \A i, j \in Slots : Live(i) /\ Live(j) /\ data[i] = data[j] => i = j
HandSlotApart == \A t \in Threads, i \in Slots : Holds(t) /\ Live(i) => sock[t] # data[i]
NoneLost == \A c \in Clients : conn[c] \in {"accepted", "answered"} =>
               \/ \E t \in Threads : Holds(t) /\ sock[t] = c
               \/ \E i \in Slots : Live(i) /\ data[i] = c
BacklogOK == \A i \in 1 .. Len(backlog) :
               /\ conn[backlog[i]] = "backlog"
               /\ \A j \in 1 .. Len(backlog) : backlog[i] = backlog[j] => i = j

OwnInv == /\ HandOK /\ SlotOK /\ HandsApart /\ SlotsApart /\ HandSlotApart
          /\ NoneLost /\ BacklogOK

ReplyInv == \A c \in Clients :
              client[c] = "waiting" /\ conn[c] \in {"none", "answered"} => c \in inbox

IInv == TypeOK /\ MutexInv /\ RingInv /\ OwnInv /\ NoLostWakeup /\ ReplyInv
        /\ NoClientError

-----------------------------------------------------------------------------
(* Advancing a ring index wraps to 0 at the last slot and nowhere else.    *)
LEMMA Advance ==
  ASSUME NEW i \in Slots
  PROVE  /\ (i + 1) % Capacity = IF i + 1 = Capacity THEN 0 ELSE i + 1
         /\ (i + 1) % Capacity \in Slots
<1>1. CASE i + 1 = Capacity
  BY <1>1, CapacityAssumption DEF Slots
<1>2. CASE i + 1 # Capacity
  BY <1>2, CapacityAssumption DEF Slots
<1> QED BY <1>1, <1>2

(* queue_init and an empty backlog establish the invariant.                *)
LEMMA InitIInv == Init => IInv
<1> SUFFICES ASSUME Init PROVE IInv
  OBVIOUS
<1> USE CapacityAssumption, BacklogAssumption, MaxSpuriousAssumption, ThreadsAssumption
        DEF Init, Threads, Slots
<1>0. TypeOK
  BY DEF TypeOK
<1>1. MutexInv
  BY DEF MutexInv
<1>2. Filled = 0
  BY DEF Filled, MainStored, WorkerTook
<1>3. RingInv
  BY <1>2 DEF RingInv
<1>4. \A t \in Threads : ~Holds(t)
  BY DEF Holds
<1>5. \A i \in Slots : ~Live(i)
  BY <1>2 DEF Live
<1>6. OwnInv
  BY <1>4, <1>5 DEF OwnInv, HandOK, SlotOK, HandsApart, SlotsApart, HandSlotApart,
     NoneLost, BacklogOK
<1>7. NoLostWakeup /\ ReplyInv /\ NoClientError
  BY DEF NoLostWakeup, ReplyInv, NoClientError
<1> QED BY <1>0, <1>1, <1>3, <1>6, <1>7 DEF IInv

-----------------------------------------------------------------------------
(* Every step keeps the types.                                             *)
LEMMA TypeStep == TypeOK /\ MutexInv /\ RingInv /\ HandOK /\ SlotOK /\ [Next]_vars => TypeOK'
<1> SUFFICES ASSUME TypeOK, MutexInv, RingInv, HandOK, SlotOK, [Next]_vars
             PROVE  TypeOK'
  OBVIOUS
<1> USE CapacityAssumption, BacklogAssumption, MaxSpuriousAssumption, ThreadsAssumption
        DEF TypeOK, ringVars, netVars
<1>1. ASSUME NEW c \in Clients, Connect(c) PROVE TypeOK'
  BY <1>1 DEF Connect
<1>2. ASSUME NEW c \in Clients, Recv(c) PROVE TypeOK'
  BY <1>2 DEF Recv
<1>3. ASSUME NEW t \in Threads, Lock(t) PROVE TypeOK'
  BY <1>3 DEF Lock
<1>4. ASSUME NEW t \in Threads, SpuriousWakeup(t) PROVE TypeOK'
  BY <1>4 DEF SpuriousWakeup
<1>5. CASE Accept
  BY <1>5 DEF Accept, Threads
<1>6. CASE PushWait
  BY <1>6 DEF PushWait, Wait, Threads
<1>7. CASE PushStore
  BY <1>7, Advance DEF PushStore, Threads
<1>8. CASE PushCount
  <2>1. count' \in 0 .. Capacity
    BY <1>8 DEF PushCount, RingInv
  <2> QED BY <1>8, <2>1 DEF PushCount, SignalAndUnlock
<1>9. ASSUME NEW w \in Workers, PopWait(w) PROVE TypeOK'
  BY <1>9 DEF PopWait, Wait, Threads
<1>10. ASSUME NEW w \in Workers, PopTake(w) PROVE TypeOK'
  BY <1>10, Advance DEF PopTake, Threads
<1>11. ASSUME NEW w \in Workers, PopCount(w) PROVE TypeOK'
  <2>1. count' \in 0 .. Capacity
    BY <1>11 DEF PopCount, RingInv
  <2> QED BY <1>11, <2>1 DEF PopCount, SignalAndUnlock, Threads
<1>12. ASSUME NEW w \in Workers, Send(w) PROVE TypeOK'
  BY <1>12 DEF Send, Threads, HandOK, Holds
<1>13. ASSUME NEW w \in Workers, Close(w) PROVE TypeOK'
  BY <1>13 DEF Close, Threads
<1>14. CASE UNCHANGED vars
  BY <1>14 DEF vars
<1> QED BY <1>1, <1>2, <1>3, <1>4, <1>5, <1>6, <1>7, <1>8, <1>9, <1>10, <1>11,
           <1>12, <1>13, <1>14 DEF Next, PushStep, PopStep, HandleStep

(* The mutex keeps two threads from being inside queue_push or queue_pop.  *)
LEMMA MutexStep == TypeOK /\ MutexInv /\ [Next]_vars => MutexInv'
<1> SUFFICES ASSUME TypeOK, MutexInv, [Next]_vars PROVE MutexInv'
  OBVIOUS
<1> USE ThreadsAssumption DEF TypeOK, MutexInv, Threads
<1>1. ASSUME NEW c \in Clients, Connect(c) \/ Recv(c) PROVE MutexInv'
  BY <1>1 DEF Connect, Recv
<1>3. ASSUME NEW t \in Threads, Lock(t) PROVE MutexInv'
  BY <1>3 DEF Lock
<1>4. ASSUME NEW t \in Threads, SpuriousWakeup(t) PROVE MutexInv'
  BY <1>4 DEF SpuriousWakeup
<1>5. CASE Accept
  BY <1>5 DEF Accept
<1>6. CASE PushWait
  BY <1>6 DEF PushWait, Wait
<1>7. CASE PushStore
  BY <1>7 DEF PushStore
<1>8. CASE PushCount
  BY <1>8 DEF PushCount, SignalAndUnlock, Signalled, Waiting
<1>9. ASSUME NEW w \in Workers, PopWait(w) PROVE MutexInv'
  BY <1>9 DEF PopWait, Wait
<1>10. ASSUME NEW w \in Workers, PopTake(w) PROVE MutexInv'
  BY <1>10 DEF PopTake
<1>11. ASSUME NEW w \in Workers, PopCount(w) PROVE MutexInv'
  BY <1>11 DEF PopCount, SignalAndUnlock, Signalled, Waiting
<1>12. ASSUME NEW w \in Workers, HandleStep(w) PROVE MutexInv'
  BY <1>12 DEF HandleStep, Send, Close
<1>14. CASE UNCHANGED vars
  BY <1>14 DEF vars
<1> QED BY <1>1, <1>3, <1>4, <1>5, <1>6, <1>7, <1>8, <1>9, <1>10, <1>11,
           <1>12, <1>14 DEF Next, PushStep, PopStep

-----------------------------------------------------------------------------
(* What a step does to the ring as a whole: only PushStore adds a socket,  *)
(* at rear, and only PopTake removes one, at front.                        *)
RingSame == /\ Filled' = Filled
            /\ UNCHANGED <<data, front, rear>>

(* The invariant excludes a second thread between its move of a socket and *)
(* its update of count.                                                    *)
LEMMA OneInside ==
  ASSUME TypeOK, MutexInv, NEW t \in Threads, pc[t] \in {"check", "count"}
  PROVE  \A u \in Threads \ {t} : pc[u] \notin {"check", "count"}
BY DEF MutexInv

(* A step that leaves the ring and the set of threads at "count" alone     *)
(* leaves Filled alone.                                                    *)
LEMMA FilledSame ==
  ASSUME UNCHANGED ringVars,
         \A t \in Threads : (pc[t] = "count") <=> (pc'[t] = "count")
  PROVE  RingSame
BY DEF RingSame, Filled, MainStored, WorkerTook, ringVars, Threads

(* main stores into a ring with room; nobody else is between move and      *)
(* count.                                                                  *)
LEMMA PushFilled ==
  ASSUME TypeOK, MutexInv, PushStore
  PROVE  /\ \A w \in Workers : pc[w] # "count" /\ pc'[w] # "count"
         /\ Filled = count /\ Filled' = count + 1 /\ count < Capacity
<1> USE CapacityAssumption, ThreadsAssumption DEF TypeOK, MutexInv
<1>1. \A w \in Workers : pc[w] # "count" /\ pc'[w] # "count"
  BY DEF PushStore, Threads
<1> QED BY <1>1 DEF PushStore, Filled, MainStored, WorkerTook, Threads

(* A worker takes from a ring with a socket in it, alone in the ring.      *)
LEMMA PopFilled ==
  ASSUME TypeOK, MutexInv, NEW w \in Workers, PopTake(w)
  PROVE  /\ \A u \in Threads : pc[u] # "count" /\ (pc'[u] = "count" <=> u = w)
         /\ Filled = count /\ Filled' = count - 1 /\ count > 0
<1> USE CapacityAssumption, ThreadsAssumption DEF TypeOK, MutexInv
<1>1. \A u \in Threads : pc[u] # "count" /\ (pc'[u] = "count" <=> u = w)
  BY DEF PopTake, Threads
<1> QED BY <1>1 DEF PopTake, Filled, MainStored, WorkerTook, Threads

(* The ring stays consistent under every step.                             *)
LEMMA RingStep ==
  ASSUME TypeOK, MutexInv, RingInv, [Next]_vars
  PROVE  /\ RingInv'
         /\ \/ RingSame
            \/ PushStore /\ Filled' = Filled + 1
            \/ \E w \in Workers : PopTake(w) /\ Filled' = Filled - 1 /\ Filled > 0
<1> USE CapacityAssumption, ThreadsAssumption DEF TypeOK, MutexInv
<1> DEFINE Goal == /\ RingInv'
                   /\ \/ RingSame
                      \/ PushStore /\ Filled' = Filled + 1
                      \/ \E w \in Workers :
                            PopTake(w) /\ Filled' = Filled - 1 /\ Filled > 0
<1>1. ASSUME UNCHANGED ringVars,
             \A t \in Threads : (pc[t] = "count") <=> (pc'[t] = "count")
      PROVE  Goal
  <2>1. RingSame
    BY <1>1, FilledSame
  <2> QED BY <1>1, <2>1 DEF RingSame, RingInv, ringVars, Threads
<1>2. ASSUME NEW c \in Clients, Connect(c) \/ Recv(c) PROVE Goal
  BY <1>1, <1>2 DEF Connect, Recv
<1>3. ASSUME NEW t \in Threads, Lock(t) PROVE Goal
  BY <1>1, <1>3 DEF Lock
<1>4. ASSUME NEW t \in Threads, SpuriousWakeup(t) PROVE Goal
  BY <1>1, <1>4 DEF SpuriousWakeup
<1>5. CASE Accept
  BY <1>1, <1>5 DEF Accept, Threads
<1>6. CASE PushWait
  BY <1>1, <1>6 DEF PushWait, Wait, Threads
<1>7. CASE PushStore
  <2>1. \A w \in Workers : pc[w] # "count" /\ pc'[w] # "count"
    BY <1>7, PushFilled
  <2>2. Filled = count /\ Filled' = count + 1
    BY <1>7, PushFilled
  <2>3. rear' = IF rear + 1 = Capacity THEN 0 ELSE rear + 1
    BY <1>7, Advance DEF PushStore
  <2>4. front' = front /\ count' = count /\ count < Capacity
    BY <1>7 DEF PushStore
  <2>5. rear' = IF front + Filled' < Capacity THEN front + Filled'
                                            ELSE front + Filled' - Capacity
    BY <2>2, <2>3, <2>4 DEF RingInv, Slots
  <2>6. RingInv'
    BY <2>1, <2>2, <2>4, <2>5 DEF RingInv
  <2> QED BY <1>7, <2>2, <2>6
<1>8. CASE PushCount
  <2>1. \A w \in Workers : pc[w] # "count" /\ pc'[w] # "count"
    BY <1>8 DEF PushCount, SignalAndUnlock, Threads
  <2>2. pc[Main] = "count" /\ pc'[Main] # "count"
    BY <1>8 DEF PushCount, SignalAndUnlock, Threads
  <2>3. Filled' = Filled
    BY <1>8, <2>1, <2>2 DEF PushCount, Filled, MainStored, WorkerTook
  <2> QED BY <1>8, <2>1, <2>2, <2>3 DEF PushCount, RingSame, RingInv, Threads
<1>9. ASSUME NEW w \in Workers, PopWait(w) PROVE Goal
  BY <1>1, <1>9 DEF PopWait, Wait, Threads
<1>10. ASSUME NEW w \in Workers, PopTake(w) PROVE Goal
  <2>1. \A u \in Threads : pc[u] # "count" /\ (pc'[u] = "count" <=> u = w)
    BY <1>10, PopFilled
  <2>2. Filled = count /\ Filled' = count - 1
    BY <1>10, PopFilled
  <2>3. front' = IF front + 1 = Capacity THEN 0 ELSE front + 1
    BY <1>10, Advance DEF PopTake
  <2>4. rear' = rear /\ count' = count /\ count > 0
    BY <1>10 DEF PopTake
  <2>5. rear = IF front' + Filled' < Capacity THEN front' + Filled'
                                            ELSE front' + Filled' - Capacity
    BY <2>2, <2>3, <2>4 DEF RingInv, Slots
  <2>6. RingInv'
    <3>1. Filled' \in 0 .. Capacity
      BY <2>2, <2>4
    <3>2. pc'[Main] # "count"
      BY <2>1 DEF Threads
    <3> HIDE DEF TypeOK, MutexInv, Filled
    <3> QED BY <2>4, <2>5, <3>1, <3>2 DEF RingInv
  <2> QED BY <1>10, <2>2, <2>4, <2>6
<1>11. ASSUME NEW w \in Workers, PopCount(w) PROVE Goal
  <2>1. \A u \in Threads : (pc[u] = "count" <=> u = w) /\ pc'[u] # "count"
    BY <1>11 DEF PopCount, SignalAndUnlock, Threads
  <2>2. Filled' = Filled
    BY <1>11, <2>1 DEF PopCount, Filled, MainStored, WorkerTook, Threads
  <2> QED BY <1>11, <2>1, <2>2 DEF PopCount, RingSame, RingInv, Threads
<1>12. ASSUME NEW w \in Workers, HandleStep(w) PROVE Goal
  BY <1>1, <1>12 DEF HandleStep, Send, Close, Threads
<1>14. CASE UNCHANGED vars
  BY <1>1, <1>14 DEF vars
<1> QED BY <1>2, <1>3, <1>4, <1>5, <1>6, <1>7, <1>8, <1>9, <1>10, <1>11,
           <1>12, <1>14 DEF Next, PushStep, PopStep

(* A step that leaves the ring alone leaves the slots with a socket alone. *)
LEMMA LiveSame ==
  ASSUME RingSame, NEW i \in Slots PROVE Live(i)' <=> Live(i)
BY DEF RingSame, Live

(* queue_push fills a slot that held nothing, the one at rear.             *)
LEMMA LivePush ==
  ASSUME TypeOK, RingInv, PushStore, Filled' = Filled + 1, Filled < Capacity
  PROVE  /\ ~Live(rear)
         /\ \A i \in Slots : Live(i)' <=> (Live(i) \/ i = rear)
BY CapacityAssumption DEF TypeOK, RingInv, PushStore, Live, Slots

(* queue_pop empties the slot at front, which held a socket.               *)
LEMMA LivePop ==
  ASSUME TypeOK, RingInv, NEW w \in Workers, PopTake(w), Filled' = Filled - 1, Filled > 0
  PROVE  /\ Live(front)
         /\ \A i \in Slots : Live(i)' <=> (Live(i) /\ i # front)
<1>1. front' = IF front + 1 = Capacity THEN 0 ELSE front + 1
  BY Advance DEF PopTake, TypeOK
<1> QED BY <1>1, CapacityAssumption DEF TypeOK, RingInv, Live, Slots

(* Every step keeps each descriptor in one place.                          *)
LEMMA OwnStep ==
  ASSUME TypeOK, TypeOK', MutexInv, RingInv, OwnInv, [Next]_vars
  PROVE  OwnInv'
<1> USE ThreadsAssumption DEF TypeOK
<1> DEFINE Quiet == /\ UNCHANGED <<sock, data>>
                    /\ \A t \in Threads : (Holds(t)' <=> Holds(t)) /\ HeldState(t)' = HeldState(t)
                    /\ \A i \in Slots : Live(i)' <=> Live(i)
\* Steps that move no socket and close none.
<1>1. ASSUME Quiet, UNCHANGED <<conn, backlog>> PROVE OwnInv'
  BY <1>1 DEF OwnInv, HandOK, SlotOK, HandsApart, SlotsApart, HandSlotApart, NoneLost, BacklogOK
<1>2. ASSUME NEW c \in Clients, Connect(c) PROVE OwnInv'
  <2>1. Quiet
    BY <1>2, FilledSame, LiveSame DEF Connect, Holds, HeldState, ringVars
  <2>2. HandOK' /\ SlotOK' /\ HandsApart' /\ SlotsApart' /\ HandSlotApart'
    BY <1>2, <2>1 DEF Connect, OwnInv, HandOK, SlotOK, HandsApart, SlotsApart,
       HandSlotApart, HeldState
  <2>3. NoneLost'
    BY <1>2, <2>1 DEF Connect, OwnInv, NoneLost
  <2>4. BacklogOK'
    BY <1>2 DEF Connect, OwnInv, BacklogOK
  <2> QED BY <2>2, <2>3, <2>4 DEF OwnInv
<1>3. ASSUME NEW c \in Clients, Recv(c) PROVE OwnInv'
  BY <1>1, <1>3, FilledSame, LiveSame DEF Recv, Holds, HeldState, ringVars
<1>4. ASSUME NEW t \in Threads, Lock(t) \/ SpuriousWakeup(t) PROVE OwnInv'
  <2>1. Quiet
    BY <1>4, FilledSame, LiveSame DEF Lock, SpuriousWakeup, Holds, HeldState, ringVars, Threads
  <2> QED BY <1>1, <1>4, <2>1 DEF Lock, SpuriousWakeup, netVars
<1>5. CASE Accept
  <2> DEFINE c == Head(backlog)
  <2>1. c \in Clients /\ conn[c] = "backlog" /\ backlog[1] = c
    BY <1>5 DEF Accept, OwnInv, BacklogOK
  <2>2. \A i \in Slots : Live(i)' <=> Live(i)
    BY <1>5, FilledSame, LiveSame DEF Accept, ringVars, Threads
  <2>3. /\ \A t \in Threads : Holds(t)' <=> (Holds(t) \/ t = Main)
        /\ \A t \in Threads : t # Main => HeldState(t)' = HeldState(t)
        /\ HeldState(Main)' = "accepted" /\ ~Holds(Main)
    BY <1>5 DEF Accept, Holds, HeldState, Threads
  <2>4. /\ sock' = [sock EXCEPT ![Main] = c] /\ data' = data
        /\ conn' = [conn EXCEPT ![c] = "accepted"] /\ Main \in Threads
    BY <1>5 DEF Accept, ringVars, Threads
  <2>5. HandOK' /\ SlotOK'
    BY <2>1, <2>2, <2>3, <2>4 DEF OwnInv, HandOK, SlotOK, HeldState
  <2>6. HandsApart' /\ SlotsApart' /\ HandSlotApart'
    BY <2>1, <2>2, <2>3, <2>4 DEF OwnInv, HandOK, SlotOK, HandsApart, SlotsApart,
       HandSlotApart, HeldState
  <2>7. NoneLost'
    BY <2>1, <2>2, <2>3, <2>4 DEF OwnInv, NoneLost
  <2>8. BacklogOK'
    BY <1>5, <2>1 DEF Accept, OwnInv, BacklogOK
  <2> QED BY <2>5, <2>6, <2>7, <2>8 DEF OwnInv
<1>6. CASE PushWait
  <2>1. Quiet
    BY <1>6, FilledSame, LiveSame DEF PushWait, Wait, Holds, HeldState, ringVars, Threads
  <2> QED BY <1>1, <1>6, <2>1 DEF PushWait, Wait, netVars
<1>7. CASE PushStore
  <2>0. /\ Filled' = Filled + 1 /\ Filled < Capacity
    BY <1>7, PushFilled
  <2>1. ~Live(rear) /\ \A i \in Slots : Live(i)' <=> (Live(i) \/ i = rear)
    BY <1>7, <2>0, LivePush
  <2>2. /\ \A t \in Threads : Holds(t)' <=> (Holds(t) /\ t # Main)
        /\ \A t \in Threads : HeldState(t)' = HeldState(t)
        /\ Holds(Main) /\ HeldState(Main) = "accepted" /\ Main \in Threads
    BY <1>7 DEF PushStore, Holds, HeldState, Threads
  <2>3. /\ data' = [data EXCEPT ![rear] = sock[Main]] /\ sock' = sock
        /\ conn' = conn /\ backlog' = backlog
    BY <1>7 DEF PushStore, netVars
  <2>4. HandOK' /\ SlotOK'
    BY <2>1, <2>2, <2>3 DEF OwnInv, HandOK, SlotOK
  <2>5. HandsApart' /\ SlotsApart' /\ HandSlotApart'
    BY <2>1, <2>2, <2>3 DEF OwnInv, HandsApart, SlotsApart, HandSlotApart
  <2>6. NoneLost'
    BY <2>1, <2>2, <2>3 DEF OwnInv, NoneLost
  <2>7. BacklogOK'
    BY <2>3 DEF OwnInv, BacklogOK
  <2> QED BY <2>4, <2>5, <2>6, <2>7 DEF OwnInv
<1>8. CASE PushCount
  <2>1. RingSame
    BY <1>8, RingStep DEF PushCount, PushStore, PopTake
  <2>2. Quiet
    BY <1>8, <2>1, LiveSame DEF PushCount, SignalAndUnlock, Signalled, Waiting, Holds,
       HeldState, Threads
  <2> QED BY <1>1, <1>8, <2>2 DEF PushCount, netVars
<1>9. ASSUME NEW w \in Workers, PopWait(w) PROVE OwnInv'
  <2>1. Quiet
    BY <1>9, FilledSame, LiveSame DEF PopWait, Wait, Holds, HeldState, ringVars, Threads
  <2> QED BY <1>1, <1>9, <2>1 DEF PopWait, Wait, netVars
<1>10. ASSUME NEW w \in Workers, PopTake(w) PROVE OwnInv'
  <2>0. Filled' = Filled - 1 /\ Filled > 0
    BY <1>10, PopFilled
  <2>1. Live(front) /\ \A i \in Slots : Live(i)' <=> (Live(i) /\ i # front)
    BY <1>10, <2>0, LivePop
  <2>2. /\ \A t \in Threads : Holds(t)' <=> (Holds(t) \/ t = w)
        /\ \A t \in Threads : HeldState(t)' = HeldState(t)
        /\ ~Holds(w) /\ HeldState(w) = "accepted" /\ w \in Threads
    BY <1>10 DEF PopTake, Holds, HeldState, Threads
  <2>3. /\ sock' = [sock EXCEPT ![w] = data[front]] /\ data' = data
        /\ conn' = conn /\ backlog' = backlog
    BY <1>10 DEF PopTake, netVars
  <2>4. HandOK' /\ SlotOK'
    BY <2>1, <2>2, <2>3 DEF OwnInv, HandOK, SlotOK
  <2>5. HandsApart' /\ SlotsApart' /\ HandSlotApart'
    BY <2>1, <2>2, <2>3 DEF OwnInv, HandsApart, SlotsApart, HandSlotApart
  <2>6. NoneLost'
    BY <2>1, <2>2, <2>3 DEF OwnInv, NoneLost
  <2>7. BacklogOK'
    BY <2>3 DEF OwnInv, BacklogOK
  <2> QED BY <2>4, <2>5, <2>6, <2>7 DEF OwnInv
<1>11. ASSUME NEW w \in Workers, PopCount(w) PROVE OwnInv'
  <2>1. RingSame
    BY <1>11, RingStep DEF PopCount, PushStore, PopTake, MutexInv, Threads
  <2>2. Quiet
    BY <1>11, <2>1, LiveSame DEF PopCount, SignalAndUnlock, Signalled, Waiting, Holds,
       HeldState, Threads
  <2> QED BY <1>1, <1>11, <2>2 DEF PopCount, netVars
<1>12. ASSUME NEW w \in Workers, Send(w) PROVE OwnInv'
  <2>1. \A i \in Slots : Live(i)' <=> Live(i)
    BY <1>12, FilledSame, LiveSame DEF Send, Threads
  <2>2. /\ \A t \in Threads : Holds(t)' <=> Holds(t)
        /\ \A t \in Threads : t # w => HeldState(t)' = HeldState(t)
        /\ Holds(w) /\ HeldState(w) = "accepted" /\ HeldState(w)' = "answered"
        /\ w \in Threads
    BY <1>12 DEF Send, Holds, HeldState, Threads
  <2>3. /\ UNCHANGED <<sock, data, backlog>>
        /\ conn' = [conn EXCEPT ![sock[w]] = "answered"]
        /\ sock[w] \in Clients /\ conn[sock[w]] = "accepted"
    BY <1>12, <2>2 DEF Send, ringVars, OwnInv, HandOK
  <2>4. HandOK' /\ SlotOK'
    BY <2>1, <2>2, <2>3 DEF OwnInv, HandOK, SlotOK, HandsApart, HandSlotApart
  <2>5. HandsApart' /\ SlotsApart' /\ HandSlotApart'
    BY <2>1, <2>2, <2>3 DEF OwnInv, HandsApart, SlotsApart, HandSlotApart
  <2>6. NoneLost'
    BY <2>1, <2>2, <2>3 DEF OwnInv, NoneLost
  <2>7. BacklogOK'
    BY <2>3 DEF OwnInv, BacklogOK
  <2> QED BY <2>4, <2>5, <2>6, <2>7 DEF OwnInv
<1>13. ASSUME NEW w \in Workers, Close(w) PROVE OwnInv'
  <2>1. \A i \in Slots : Live(i)' <=> Live(i)
    BY <1>13, FilledSame, LiveSame DEF Close, Threads
  <2>2. /\ \A t \in Threads : Holds(t)' <=> (Holds(t) /\ t # w)
        /\ \A t \in Threads : t # w => HeldState(t)' = HeldState(t)
        /\ Holds(w) /\ HeldState(w) = "answered" /\ w \in Threads
    BY <1>13 DEF Close, Holds, HeldState, Threads
  <2>3. /\ UNCHANGED <<sock, data, backlog>>
        /\ conn' = [conn EXCEPT ![sock[w]] = "none"]
        /\ sock[w] \in Clients /\ conn[sock[w]] = "answered"
    BY <1>13, <2>2 DEF Close, ringVars, OwnInv, HandOK
  <2>4. HandOK' /\ SlotOK'
    BY <2>1, <2>2, <2>3 DEF OwnInv, HandOK, SlotOK, HandsApart, HandSlotApart
  <2>5. HandsApart' /\ SlotsApart' /\ HandSlotApart'
    BY <2>1, <2>2, <2>3 DEF OwnInv, HandsApart, SlotsApart, HandSlotApart
  <2>6. NoneLost'
    BY <2>1, <2>2, <2>3 DEF OwnInv, NoneLost
  <2>7. BacklogOK'
    BY <2>3 DEF OwnInv, BacklogOK
  <2> QED BY <2>4, <2>5, <2>6, <2>7 DEF OwnInv
<1>14. CASE UNCHANGED vars
  <2>1. Quiet
    BY <1>14, FilledSame, LiveSame DEF vars, Holds, HeldState, ringVars
  <2> QED BY <1>1, <1>14, <2>1 DEF vars, netVars
<1> QED BY <1>2, <1>3, <1>4, <1>5, <1>6, <1>7, <1>8, <1>9, <1>10, <1>11, <1>12,
           <1>13, <1>14 DEF Next, PushStep, PopStep, HandleStep

-----------------------------------------------------------------------------
(* A push wakes a sleeping worker, a pop wakes main; a thread goes to      *)
(* sleep only on what it has just tested under the mutex.                  *)
LEMMA WakeStep ==
  ASSUME TypeOK, MutexInv, RingInv, NoLostWakeup, [Next]_vars
  PROVE  NoLostWakeup'
<1> USE CapacityAssumption, ThreadsAssumption DEF TypeOK, MutexInv, NoLostWakeup
<1>1. ASSUME NEW c \in Clients, Connect(c) \/ Recv(c) PROVE NoLostWakeup'
  BY <1>1 DEF Connect, Recv, ringVars
<1>3. ASSUME NEW t \in Threads, Lock(t) \/ SpuriousWakeup(t) PROVE NoLostWakeup'
  BY <1>3 DEF Lock, SpuriousWakeup, ringVars, Threads
<1>5. CASE Accept
  BY <1>5 DEF Accept, ringVars, Threads
<1>6. CASE PushWait
  BY <1>6 DEF PushWait, Wait, ringVars, Threads
<1>7. CASE PushStore
  BY <1>7 DEF PushStore, Threads
<1>8. CASE PushCount
  <2>1. pc'[Main] # "wait"
    BY <1>8 DEF PushCount, SignalAndUnlock, Threads
  <2>2. \E w \in Workers : pc'[w] # "wait"
    <3>1. PICK woken \in Signalled(Workers) :
            pc' = [u \in Threads |-> IF u = Main THEN "accept"
                                    ELSE IF u \in woken THEN "lock" ELSE pc[u]]
      BY <1>8 DEF PushCount, SignalAndUnlock
    <3>2. CASE Waiting(Workers) = {}
      BY <3>1, <3>2 DEF Signalled, Waiting, Threads
    <3>3. CASE Waiting(Workers) # {}
      BY <3>1, <3>3 DEF Signalled, Waiting, Threads
    <3> QED BY <3>2, <3>3
  <2> QED BY <2>1, <2>2
<1>9. ASSUME NEW w \in Workers, PopWait(w) PROVE NoLostWakeup'
  BY <1>9 DEF PopWait, Wait, ringVars, Threads
<1>10. ASSUME NEW w \in Workers, PopTake(w) PROVE NoLostWakeup'
  BY <1>10 DEF PopTake, Threads
<1>11. ASSUME NEW w \in Workers, PopCount(w) PROVE NoLostWakeup'
  <2>1. pc'[Main] # "wait"
    BY <1>11 DEF PopCount, SignalAndUnlock, Signalled, Waiting, Threads
  <2>2. pc'[w] # "wait"
    BY <1>11 DEF PopCount, SignalAndUnlock, Threads
  <2> QED BY <2>1, <2>2
<1>12. ASSUME NEW w \in Workers, HandleStep(w) PROVE NoLostWakeup'
  BY <1>12 DEF HandleStep, Send, Close, ringVars, Threads
<1>14. CASE UNCHANGED vars
  BY <1>14 DEF vars, ringVars
<1> QED BY <1>1, <1>3, <1>5, <1>6, <1>7, <1>8, <1>9, <1>10, <1>11, <1>12, <1>14
        DEF Next, PushStep, PopStep

(* A client that waits on a closed or answered connection has a reply.     *)
LEMMA ReplyStep ==
  ASSUME TypeOK, OwnInv, ReplyInv, NoClientError, [Next]_vars
  PROVE  ReplyInv' /\ NoClientError'
<1> USE DEF TypeOK, ReplyInv, NoClientError
<1> DEFINE Goal == ReplyInv' /\ NoClientError'
<1>1. ASSUME NEW c \in Clients, Connect(c) PROVE Goal
  BY <1>1 DEF Connect
<1>2. ASSUME NEW c \in Clients, Recv(c) PROVE Goal
  BY <1>2 DEF Recv
<1>3. ASSUME UNCHANGED <<conn, inbox, client>> PROVE Goal
  BY <1>3
<1>5. CASE Accept
  <2>1. Head(backlog) \in Clients
    BY <1>5 DEF Accept
  <2> QED BY <1>5, <2>1 DEF Accept
<1>12. ASSUME NEW w \in Workers, Send(w) PROVE Goal
  BY <1>12 DEF Send
<1>13. ASSUME NEW w \in Workers, Close(w) PROVE Goal
  <2>1. sock[w] \in Clients /\ conn[sock[w]] = "answered"
    BY <1>13, ThreadsAssumption DEF Close, OwnInv, HandOK, HeldState, Holds, Threads
  <2> QED BY <1>13, <2>1 DEF Close
<1> QED BY <1>1, <1>2, <1>3, <1>5, <1>12, <1>13 DEF Next, PushStep, PopStep, HandleStep,
       PushWait, PopWait, Wait, PushStore, PushCount, PopTake, PopCount, Lock,
       SpuriousWakeup, netVars, vars

-----------------------------------------------------------------------------
(* The invariant implies the ownership property as the runs state it.      *)
LEMMA Owned == IInv => SocketOwnedOnce
<1> SUFFICES ASSUME IInv, NEW c \in Clients
             PROVE  IF conn[c] \in {"accepted", "answered"}
                    THEN \E p \in Places(c) : Places(c) = {p}
                    ELSE Places(c) = {}
  BY DEF SocketOwnedOnce
<1> USE DEF IInv, OwnInv
<1>1. CASE conn[c] \notin {"accepted", "answered"}
  <2>1. \A t \in Threads : ~(Holds(t) /\ sock[t] = c)
    BY <1>1 DEF HandOK, HeldState
  <2>2. \A i \in Slots : ~(Live(i) /\ data[i] = c)
    BY <1>1 DEF SlotOK
  <2> QED BY <1>1, <2>1, <2>2 DEF Places
<1>2. ASSUME NEW t \in Threads, Holds(t), sock[t] = c PROVE Places(c) = {<<"hand", t>>}
  <2>1. \A u \in Threads : Holds(u) /\ sock[u] = c <=> u = t
    BY <1>2 DEF HandsApart
  <2>2. \A i \in Slots : ~(Live(i) /\ data[i] = c)
    BY <1>2 DEF HandSlotApart
  <2> QED BY <2>1, <2>2 DEF Places
<1>3. ASSUME NEW i \in Slots, Live(i), data[i] = c PROVE Places(c) = {<<"slot", i>>}
  <2>1. \A u \in Threads : ~(Holds(u) /\ sock[u] = c)
    BY <1>3 DEF HandSlotApart
  <2>2. \A j \in Slots : Live(j) /\ data[j] = c <=> j = i
    BY <1>3 DEF SlotsApart
  <2> QED BY <2>1, <2>2 DEF Places
<1>4. CASE conn[c] \in {"accepted", "answered"}
  BY <1>2, <1>3, <1>4 DEF NoneLost
<1> QED BY <1>1, <1>4

(* IInv is an invariant of the thread pool server.                         *)
THEOREM Invariance == Spec => []IInv
<1>1. IInv /\ [Next]_vars => IInv'
  <2> SUFFICES ASSUME IInv, [Next]_vars PROVE IInv'
    OBVIOUS
  <2>1. TypeOK' /\ MutexInv' /\ RingInv'
    BY TypeStep, MutexStep, RingStep DEF IInv, OwnInv
  <2>2. OwnInv'
    BY <2>1, OwnStep DEF IInv
  <2>3. NoLostWakeup'
    BY WakeStep DEF IInv
  <2>4. ReplyInv' /\ NoClientError'
    BY ReplyStep DEF IInv
  <2> QED BY <2>1, <2>2, <2>3, <2>4 DEF IInv
<1> QED BY InitIInv, <1>1, PTL DEF Spec

(* The variables keep their types: front and rear stay inside data and     *)
(* count between 0 and the capacity, however the threads interleave.       *)
THEOREM TypeCorrect == Spec => []TypeOK
<1>1. IInv => TypeOK
  BY DEF IInv
<1> QED BY <1>1, Invariance, PTL

(* No descriptor is lost and none is handled twice, for every number of    *)
(* workers and every capacity of the ring.                                 *)
THEOREM Ownership == Spec => []SocketOwnedOnce
BY Owned, Invariance, PTL

(* The signals of queue_push and queue_pop lose no wakeup.                 *)
THEOREM WakeupsKept == Spec => []NoLostWakeup
<1>1. IInv => NoLostWakeup
  BY DEF IInv
<1> QED BY <1>1, Invariance, PTL

(* No client ever finds its connection closed without an answer.           *)
THEOREM ClientsAnswered == Spec => []NoClientError
<1>1. IInv => NoClientError
  BY DEF IInv
<1> QED BY <1>1, Invariance, PTL

(* Every step of the pool is a step of TimeService or a stutter: a client  *)
(* is hung up on only after it was answered.                               *)
THEOREM Refinement == Spec => Abstract!Safety
<1> USE DEF Status
<1>1. Init => Abstract!Init
  BY DEF Init, Abstract!Init
<1>2. ASSUME IInv, [Next]_vars PROVE [Abstract!Next]_Status
  <2> USE <1>2 DEF IInv, TypeOK
  <2>0. ASSUME NEW c \in Clients, NEW s, conn' = [conn EXCEPT ![c] = s]
        PROVE  Status' = [Status EXCEPT ![c] =
                 IF s \in {"backlog", "accepted"} THEN "waiting"
                 ELSE IF s = "answered" THEN "answered" ELSE "idle"]
    BY <2>0
  <2>1. ASSUME NEW c \in Clients, Connect(c) PROVE Abstract!Next
    <3>1. Abstract!Connect(c)
      BY <2>0, <2>1 DEF Connect, Abstract!Connect
    <3> QED BY <3>1 DEF Abstract!Next
  <2>2. CASE Accept
    <3>1. Head(backlog) \in Clients /\ conn[Head(backlog)] = "backlog"
      BY <2>2 DEF Accept, OwnInv, BacklogOK
    <3> QED BY <2>0, <2>2, <3>1 DEF Accept
  <2>3. ASSUME NEW w \in Workers, Send(w) PROVE Abstract!Next
    <3>1. PICK c \in Clients : c = sock[w] /\ conn[c] = "accepted"
      BY <2>3, ThreadsAssumption DEF Send, OwnInv, HandOK, HeldState, Holds, Threads
    <3>2. Status' = [Status EXCEPT ![c] = "answered"]
      BY <2>0, <2>3, <3>1 DEF Send
    <3>3. Abstract!Answer(c)
      BY <3>1, <3>2 DEF Abstract!Answer
    <3> QED BY <3>3 DEF Abstract!Next
  <2>4. ASSUME NEW w \in Workers, Close(w) PROVE Abstract!Next
    <3>1. PICK c \in Clients : c = sock[w] /\ conn[c] = "answered"
      BY <2>4, ThreadsAssumption DEF Close, OwnInv, HandOK, HeldState, Holds, Threads
    <3>2. Status' = [Status EXCEPT ![c] = "idle"]
      BY <2>0, <2>4, <3>1 DEF Close
    <3>3. Abstract!HangUp(c)
      BY <3>1, <3>2 DEF Abstract!HangUp
    <3> QED BY <3>3 DEF Abstract!Next
  <2>5. ASSUME UNCHANGED conn PROVE UNCHANGED Status
    BY <2>5
  <2> QED BY <2>1, <2>2, <2>3, <2>4, <2>5 DEF Next, PushStep, PopStep, HandleStep,
         PushWait, PopWait, Wait, PushStore, PushCount, PopTake, PopCount, Lock,
         SpuriousWakeup, Recv, netVars, vars
<1> QED BY <1>1, <1>2, Invariance, PTL DEF Spec, Abstract!Safety

-----------------------------------------------------------------------------
(* The index of an entry wraps once at most.                               *)
LEMMA Wrap ==
  ASSUME NEW n \in 0 .. 2 * Capacity - 1
  PROVE  n % Capacity = IF n < Capacity THEN n ELSE n - Capacity
<1>1. CASE n < Capacity
  BY <1>1, CapacityAssumption
<1>2. CASE n >= Capacity
  BY <1>2, CapacityAssumption
<1> QED BY <1>1, <1>2, CapacityAssumption

(* Two sequences of the same length with the same entries are the same.    *)
LEMMA SameSeq ==
  ASSUME NEW S, NEW q \in Seq(S), NEW r \in Seq(S), Len(q) = Len(r),
         \A i \in 1 .. Len(q) : q[i] = r[i]
  PROVE  q = r
OBVIOUS

\* The n entries of the ring d from slot f on, and where the i-th of them is.
Entries(d, f, n) == [i \in 1 .. n |-> d[(f + i - 1) % Capacity]]
Sockets == Clients \union {None}
Slot(f, i) == IF f + i - 1 < Capacity THEN f + i - 1 ELSE f + i - 1 - Capacity

(* The entries of a ring are a sequence.                                   *)
LEMMA EntriesSeq ==
  ASSUME NEW d \in [Slots -> Sockets], NEW f \in Slots, NEW n \in 0 .. Capacity
  PROVE  /\ Entries(d, f, n) \in Seq(Sockets) /\ Len(Entries(d, f, n)) = n /\ n \in Nat
         /\ \A i \in 1 .. n : Entries(d, f, n)[i] = d[Slot(f, i)] /\ Slot(f, i) \in Slots
<1> USE CapacityAssumption
<1>1. \A i \in 1 .. n : Slot(f, i) \in Slots /\ (f + i - 1) % Capacity = Slot(f, i)
  <2> SUFFICES ASSUME NEW i \in 1 .. n
               PROVE  Slot(f, i) \in Slots /\ (f + i - 1) % Capacity = Slot(f, i)
    OBVIOUS
  <2>1. PICK k \in 0 .. 2 * Capacity - 1 : k = f + i - 1
    BY DEF Slots
  <2>2. (f + i - 1) % Capacity = Slot(f, i)
    <3>1. k % Capacity = IF k < Capacity THEN k ELSE k - Capacity
      BY Wrap
    <3>2. k % Capacity = Slot(f, i)
      BY <2>1, <3>1 DEF Slot, Slots
    <3> QED BY <2>1, <3>2
  <2>3. Slot(f, i) \in Slots
    BY DEF Slot, Slots
  <2> QED BY <2>2, <2>3
<1>2. \A i \in 1 .. n : d[(f + i - 1) % Capacity] \in Sockets
  BY <1>1
<1>3. Entries(d, f, n) \in Seq(Sockets) /\ Len(Entries(d, f, n)) = n /\ n \in Nat
  BY <1>2 DEF Entries
<1>4. \A i \in 1 .. n : Entries(d, f, n)[i] = d[Slot(f, i)]
  BY <1>1 DEF Entries
<1> QED BY <1>1, <1>3, <1>4

(* A socket stored behind the last entry is appended to them.              *)
LEMMA EntriesAppend ==
  ASSUME NEW d \in [Slots -> Sockets], NEW f \in Slots, NEW n \in 0 .. Capacity,
         NEW m \in 0 .. Capacity, m = n + 1, NEW s \in Sockets, NEW e \in [Slots -> Sockets],
         e[Slot(f, m)] = s, \A j \in Slots : j # Slot(f, m) => e[j] = d[j]
  PROVE  Entries(e, f, m) = Append(Entries(d, f, n), s)
<1> USE CapacityAssumption
<1> DEFINE q == Entries(e, f, m)
           r == Entries(d, f, n)
<1>0. n \in Nat /\ Slot(f, m) \in Slots
  BY DEF Slot, Slots
<1>2. /\ r \in Seq(Sockets) /\ Len(r) = n
      /\ \A i \in 1 .. n : r[i] = d[Slot(f, i)] /\ Slot(f, i) \in Slots
  BY EntriesSeq
<1>3. /\ q \in Seq(Sockets) /\ Len(q) = m
      /\ \A i \in 1 .. m : q[i] = e[Slot(f, i)] /\ Slot(f, i) \in Slots
  BY EntriesSeq
<1>4. \A i \in 1 .. n : Slot(f, i) # Slot(f, m)
  BY <1>0 DEF Slot, Slots
<1> HIDE DEF q, r
<1>5. /\ Append(r, s) \in Seq(Sockets) /\ Len(Append(r, s)) = m /\ Append(r, s)[m] = s
      /\ \A i \in 1 .. n : Append(r, s)[i] = r[i]
  BY <1>0, <1>2
<1>6. \A i \in 1 .. m : q[i] = Append(r, s)[i]
  <2>1. m \in 1 .. m /\ \A i \in 1 .. m : i = m \/ i \in 1 .. n
    BY <1>0
  <2>2. q[m] = s
    BY <1>3, <2>1
  <2>3. \A i \in 1 .. n : q[i] = r[i]
    <3> SUFFICES ASSUME NEW i \in 1 .. n PROVE q[i] = r[i]
      OBVIOUS
    <3>1. i \in 1 .. m
      BY <1>0
    <3> QED BY <1>2, <1>3, <1>4, <3>1
  <2> QED BY <1>5, <2>1, <2>2, <2>3
<1>7. q = Append(r, s)
  BY <1>3, <1>5, <1>6, SameSeq
<1> QED BY <1>7 DEF q, r

(* To advance front is to drop the first entry.                            *)
LEMMA EntriesTail ==
  ASSUME NEW d \in [Slots -> Sockets], NEW f \in Slots, NEW n \in 0 .. Capacity,
         NEW m \in 0 .. Capacity, n = m + 1, NEW g \in Slots,
         g = IF f + 1 = Capacity THEN 0 ELSE f + 1
  PROVE  /\ Entries(d, g, m) = Tail(Entries(d, f, n))
         /\ Head(Entries(d, f, n)) = d[f] /\ Entries(d, f, n) # <<>>
<1> USE CapacityAssumption
<1> DEFINE q == Entries(d, g, m)
           r == Entries(d, f, n)
<1>0. m \in Nat /\ n \in Nat \ {0}
  OBVIOUS
<1>2. /\ r \in Seq(Sockets) /\ Len(r) = n
      /\ \A i \in 1 .. n : r[i] = d[Slot(f, i)] /\ Slot(f, i) \in Slots
  BY EntriesSeq
<1>3. /\ q \in Seq(Sockets) /\ Len(q) = m
      /\ \A i \in 1 .. m : q[i] = d[Slot(g, i)] /\ Slot(g, i) \in Slots
  BY EntriesSeq
<1>4. Slot(f, 1) = f /\ \A i \in 1 .. m : Slot(g, i) = Slot(f, i + 1) /\ i + 1 \in 1 .. n
  BY <1>0 DEF Slot, Slots
<1> HIDE DEF q, r
<1>5. /\ Tail(r) \in Seq(Sockets) /\ Len(Tail(r)) = m /\ Head(r) = r[1] /\ r # <<>> /\ 1 \in 1 .. n
      /\ \A i \in 1 .. m : Tail(r)[i] = r[i + 1]
  BY <1>0, <1>2
<1>6. \A i \in 1 .. m : q[i] = Tail(r)[i]
  BY <1>2, <1>3, <1>4, <1>5
<1>7. q = Tail(r)
  BY <1>3, <1>5, <1>6, SameSeq
<1>8. Head(r) = d[f]
  BY <1>2, <1>4, <1>5
<1> QED BY <1>5, <1>7, <1>8 DEF q, r

(* queue_push and queue_pop make the ring a FIFO queue, for every capacity *)
(* and through every wrap of front and rear: a worker takes the socket     *)
(* main has pushed first, and no other entry moves.                        *)
THEOREM Fifo == Spec => QueueIsFifo
<1> DEFINE A == \/ Contents' = Contents
                \/ Contents' = Append(Contents, sock[Main])
                \/ /\ Contents # <<>> /\ Contents' = Tail(Contents)
                   /\ \E w \in Workers : sock' = [sock EXCEPT ![w] = Head(Contents)]
<1>1. ASSUME IInv, [Next]_vars PROVE A
  <2> USE CapacityAssumption
  <2>0. TypeOK /\ MutexInv /\ RingInv
    BY <1>1 DEF IInv
  <2>1. Contents = Entries(data, front, Filled) /\ Contents' = Entries(data', front', Filled')
    BY DEF Contents, Entries
  <2>2. PICK d \in [Slots -> Sockets], f \in Slots, n \in 0 .. Capacity :
          d = data /\ f = front /\ n = Filled
    BY <2>0 DEF TypeOK, RingInv, Sockets
  <2>3. CASE RingSame
    BY <2>1, <2>3 DEF RingSame
  <2>4. CASE PushStore /\ Filled' = Filled + 1
    <3>1. PICK m \in 0 .. Capacity : m = n + 1
      <4>1. Filled = count /\ count < Capacity
        BY <2>0, <2>4, PushFilled
      <4> QED BY <2>2, <4>1
    <3>2. rear = Slot(f, m)
      BY <2>0, <2>2, <3>1 DEF RingInv, Slot, Slots
    <3>3. PICK s \in Sockets : s = sock[Main]
      BY <2>0 DEF TypeOK, Threads, Sockets
    <3>4. data' = [d EXCEPT ![Slot(f, m)] = s] /\ front' = f /\ Filled' = m
      BY <2>2, <2>4, <3>1, <3>2, <3>3 DEF PushStore
    <3>5. PICK e \in [Slots -> Sockets] : e = [d EXCEPT ![Slot(f, m)] = s]
      OBVIOUS
    <3>6. Slot(f, m) \in Slots
      BY <2>0, <2>2, <3>2 DEF TypeOK
    <3>7. e[Slot(f, m)] = s /\ \A j \in Slots : j # Slot(f, m) => e[j] = d[j]
      BY <3>5, <3>6
    <3>8. Entries(e, f, m) = Append(Entries(d, f, n), s)
      BY <3>1, <3>7, EntriesAppend
    <3>9. Contents' = Append(Contents, sock[Main])
      BY <2>1, <2>2, <3>3, <3>4, <3>5, <3>8
    <3> QED BY <3>9
  <2>5. ASSUME NEW w \in Workers, PopTake(w), Filled' = Filled - 1, Filled > 0 PROVE A
    <3>1. data' = d /\ front' = (f + 1) % Capacity /\ sock' = [sock EXCEPT ![w] = d[f]]
      BY <2>2, <2>5 DEF PopTake
    <3>2. PICK m \in 0 .. Capacity : m = Filled' /\ n = m + 1
      BY <2>2, <2>5
    <3>3. PICK g \in Slots : g = (f + 1) % Capacity
      BY Advance
    <3>4. /\ Entries(d, g, m) = Tail(Entries(d, f, n))
          /\ Head(Entries(d, f, n)) = d[f] /\ Entries(d, f, n) # <<>>
      <4>1. n = m + 1
        BY <3>2
      <4>2. g = IF f + 1 = Capacity THEN 0 ELSE f + 1
        BY <3>3, Advance
      <4> QED BY <4>1, <4>2, EntriesTail
    <3>5. Contents' = Tail(Contents) /\ Head(Contents) = d[f] /\ Contents # <<>>
      BY <2>1, <2>2, <3>1, <3>2, <3>3, <3>4
    <3> QED BY <3>1, <3>5
  <2> QED BY <1>1, <2>0, <2>3, <2>4, <2>5, RingStep
<1>2. IInv /\ [Next]_vars => [A]_vars
  BY <1>1
<1> QED BY <1>2, Invariance, PTL DEF Spec, QueueIsFifo
=============================================================================
