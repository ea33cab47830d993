-------------------------- MODULE WorkerPoolProofs --------------------------
(***************************************************************************)
(* Proofs about WorkerPool for every size of the pool, any number of       *)
(* clients and any number of workers killed at any point.                  *)
(*                                                                         *)
(* main serves one client at a time: between SendFd and the turn of Poll   *)
(* that reads the status, worker 0 is at one of five points (Phase), and   *)
(* outside this stretch it waits or is dead.  Which copies of the client's *)
(* descriptor exist (RefsOK) and how far the client is served (ConnOK)     *)
(* follow from the points main and worker 0 have reached.                  *)
(***************************************************************************)
EXTENDS WorkerPool, TLAPS

Serving == main = "handed" \/ (main = "poll" /\ poll = 0)
MainHolds == main \in {"assign", "sendfd", "handed"}
PairHolds == pair[0] # None
WorkerHolds == pc[0] \in {"send", "close"}

\* main knows of one client, has all its workers, and only worker 0 is ever busy.
MainOK ==
  /\ MainHolds \/ Serving => fd \in Clients
  /\ idx = 0 /\ workerCount = InitialWorkers
  /\ main = "poll" => poll < workerCount
  /\ \A i \in Indices : busy[i] <=> main = "poll" /\ poll = 0 /\ i = 0

\* Where worker 0 is: the descriptor under way, served, closed, reported, or the worker dead.
Phase ==
  IF Serving
  THEN \/ pair[0] = fd /\ pc[0] = "recv" /\ status[0] = 0
       \/ pair[0] = None /\ pc[0] \in {"send", "close"} /\ sock[0] = fd /\ status[0] = 0
       \/ pair[0] = None /\ pc[0] = "report" /\ status[0] = 0
       \/ pair[0] = None /\ pc[0] = "recv" /\ status[0] = 1
       \/ pair[0] = None /\ pc[0] = "dead"
  ELSE pair[0] = None /\ pc[0] \in {"recv", "dead"} /\ status[0] = 0

Others == \A i \in Indices \ {0} :
            pc[i] \in {"unborn", "recv", "dead"} /\ pair[i] = None /\ status[i] = 0

RefsOK == \A c \in Clients : \A h \in Holders :
            h \in refs[c] <=> /\ c = fd
                              /\ \/ MainHolds /\ h = MainCopy
                                 \/ PairHolds /\ h = <<"pair", 0>>
                                 \/ WorkerHolds /\ h = <<"worker", 0>>

\* A connection is open while a copy is held; whether the client of fd is answered yet.
ConnOK ==
  /\ \A c \in Clients : refs[c] # {} <=> conn[c] \in {"accepted", "answered"}
  /\ main \in {"assign", "sendfd"} \/ PairHolds \/ pc[0] = "send" => conn[fd] = "accepted"
  /\ \/ pc[0] = "close"
     \/ main = "handed" /\ (pc[0] = "report" \/ (pc[0] = "recv" /\ ~PairHolds))
     => conn[fd] = "answered"

DeadOK == \A i \in Indices : pc[i] = "dead" => crashes > 0

BacklogOK == \A i \in 1 .. Len(backlog) :
               /\ conn[backlog[i]] = "backlog"
               /\ \A j \in 1 .. Len(backlog) : backlog[i] = backlog[j] => i = j

PointInv == MainOK /\ Phase /\ Others /\ DeadOK
IInv == TypeOK /\ PointInv /\ RefsOK /\ ConnOK /\ BacklogOK

-----------------------------------------------------------------------------
(* Worker 0 is one of the workers.                                         *)
LEMMA ZeroIsWorker == 0 \in Indices /\ 0 < InitialWorkers
BY BoundsAssumption DEF Indices

(* While no worker is busy, find_free_worker returns worker 0.             *)
LEMMA FreeWorker ==
  ASSUME workerCount = InitialWorkers, \A i \in Indices : ~busy[i]
  PROVE  find_free_worker = 0
<1>1. 0 \in Free /\ \A y \in Free : y \in Int /\ 0 <= y
  BY ZeroIsWorker DEF Free, Indices
<1>2. \A x \in Free : (\A y \in Free : x <= y) => x = 0
  BY <1>1
<1>3. Min(Free) = 0
  BY <1>1, <1>2 DEF Min
<1> QED BY <1>1, <1>3 DEF find_free_worker

(* At the start the workers wait, and nobody is connected.                 *)
LEMMA InitIInv == Init => IInv
<1> SUFFICES ASSUME Init PROVE IInv
  OBVIOUS
<1> USE ZeroIsWorker, BoundsAssumption, NoneAssumption
<1>1. TypeOK
  BY DEF Init, TypeOK, Indices
<1>2. PointInv
  BY DEF Init, PointInv, MainOK, Phase, Others, DeadOK, Serving, MainHolds
<1>3. RefsOK /\ ConnOK /\ BacklogOK
  BY DEF Init, RefsOK, ConnOK, BacklogOK, MainHolds, PairHolds, WorkerHolds
<1> QED BY <1>1, <1>2, <1>3 DEF IInv

(* While main waits for a client it chooses worker 0, and spawns none.     *)
LEMMA AssignStep ==
  ASSUME IInv, Assign
  PROVE  /\ main = "assign" /\ main' = "sendfd" /\ idx' = 0
         /\ UNCHANGED <<fd, poll, tableVars, pairVars, procVars, refs, crashes, netVars>>
<1>1. find_free_worker = 0
  BY FreeWorker DEF Assign, IInv, PointInv, MainOK
<1> QED BY <1>1 DEF Assign, procVars, netVars

(* What it means to close copies of the descriptor of the client served.   *)
LEMMA ReleaseStep ==
  ASSUME IInv, NEW C, NEW H, Release(C, H), fd \in C
  PROVE  /\ \A c \in Clients : \A h : h \in refs'[c] <=> h \in refs[c] /\ h \notin H
         /\ \A c \in Clients : conn'[c] = IF c = fd /\ refs[c] # {} /\ refs'[c] = {} THEN "none" ELSE conn[c]
         /\ refs' \in [Clients -> SUBSET Holders]
         /\ conn' \in [Clients -> {"none", "backlog", "accepted", "answered"}]
<1> USE DEF IInv, TypeOK
<1>1. \A c \in Clients : c # fd => refs[c] = {}
  BY DEF RefsOK
<1>2. \A c \in Clients : refs'[c] = IF c \in C THEN refs[c] \ H ELSE refs[c]
  BY DEF Release
<1>3. \A c \in Clients : conn'[c] = IF refs[c] # {} /\ refs'[c] = {} THEN "none" ELSE conn[c]
  BY DEF Release
<1>4. refs' \in [Clients -> SUBSET Holders]
  BY DEF Release
<1>5. conn' \in [Clients -> {"none", "backlog", "accepted", "answered"}]
  BY <1>3 DEF Release
<1> QED BY <1>1, <1>2, <1>3, <1>4, <1>5

(* Every step keeps the types.                                             *)
LEMMA TypeStep == ASSUME IInv, [Next]_vars PROVE TypeOK'
<1> USE ZeroIsWorker, BoundsAssumption, NoneAssumption
        DEF TypeOK, mainVars, tableVars, pairVars, procVars, netVars
<1>0. TypeOK /\ PointInv
  BY DEF IInv
<1>1. ASSUME NEW c \in Clients, Connect(c) PROVE TypeOK'
  BY <1>0, <1>1 DEF Connect
<1>2. ASSUME NEW c \in Clients, Recv(c) PROVE TypeOK'
  BY <1>0, <1>2 DEF Recv
<1>3. CASE Accept
  <2>1. MainCopy \in Holders
    BY DEF MainCopy, Holders
  <2> QED BY <1>0, <1>3, <2>1 DEF Accept
<1>4. CASE Assign
  BY <1>0, <1>4, AssignStep
<1>5. CASE SendFd
  <2>1. <<"pair", 0>> \in Holders
    BY DEF Holders
  <2> QED BY <1>0, <1>5, <2>1 DEF SendFd, PointInv, MainOK, MainHolds
<1>6. CASE SendFdFails
  <2>1. Release({fd}, {MainCopy})
    BY <1>6 DEF SendFdFails
  <2> QED BY <1>0, <1>6, <2>1, ReleaseStep DEF SendFdFails
<1>7. CASE Handed
  <2>1. Release({fd}, {MainCopy})
    BY <1>7 DEF Handed
  <2> QED BY <1>0, <1>7, <2>1, ReleaseStep DEF Handed
<1>8. CASE Poll
  <2>1. PICK n \in 0 .. 1 : n = IF busy[poll] THEN status[poll] - 1 ELSE status[poll]
    BY <1>0, <1>8 DEF Poll, Indices
  <2>2. status' = [status EXCEPT ![poll] = n]
    BY <1>8, <2>1 DEF Poll
  <2>3. status' \in [Indices -> 0 .. 1]
    BY <1>0, <2>2
  <2>5. busy' \in [Indices -> BOOLEAN]
    BY <1>0, <1>8 DEF Poll
  <2>4. poll' \in 0 .. WorkerMax /\ main' \in {"accept", "poll"}
    BY <1>0, <1>8 DEF Poll
  <2> QED BY <1>0, <1>8, <2>3, <2>4, <2>5 DEF Poll
<1>9. ASSUME NEW i \in Indices, RecvFd(i) PROVE TypeOK'
  <2>1. <<"worker", i>> \in Holders
    BY DEF Holders
  <2> QED BY <1>0, <1>9, <2>1 DEF RecvFd
<1>10. ASSUME NEW i \in Indices, Send(i) PROVE TypeOK'
  <2>1. sock[i] \in Clients
    BY <1>0, <1>10 DEF Send, PointInv, MainOK, Phase, Others
  <2> QED BY <1>0, <1>10, <2>1 DEF Send
<1>11. ASSUME NEW i \in Indices, Close(i) PROVE TypeOK'
  <2>1. sock[i] = fd
    BY <1>0, <1>11 DEF Close, PointInv, Phase, Others
  <2>2. Release({fd}, {<<"worker", i>>})
    BY <1>11, <2>1 DEF Close
  <2> QED BY <1>0, <1>11, <2>2, ReleaseStep DEF Close
<1>12. ASSUME NEW i \in Indices, Report(i) PROVE TypeOK'
  <2>1. status[i] = 0
    BY <1>0, <1>12 DEF Report, PointInv, Phase, Others
  <2>2. status' = [status EXCEPT ![i] = 1]
    BY <1>0, <1>12, <2>1 DEF Report
  <2> QED BY <1>0, <1>12, <2>2 DEF Report
<1>13. ASSUME NEW i \in Indices, Crash(i) PROVE TypeOK'
  <2>1. /\ refs' \in [Clients -> SUBSET Holders]
        /\ conn' \in [Clients -> {"none", "backlog", "accepted", "answered"}]
    BY <1>0, <1>13 DEF Crash, Release
  <2> QED BY <1>0, <1>13, <2>1 DEF Crash
<1>14. CASE UNCHANGED vars
  BY <1>0, <1>14 DEF vars
<1> QED BY <1>1, <1>2, <1>3, <1>4, <1>5, <1>6, <1>7, <1>8, <1>9, <1>10, <1>11, <1>12, <1>13,
           <1>14 DEF Next, MainStep, WorkerStep

-----------------------------------------------------------------------------
(* Every step keeps main and the workers in step: main never gives a       *)
(* second client away before it has read the status of worker 0.           *)
LEMMA PointStep == ASSUME IInv, [Next]_vars PROVE PointInv'
<1> USE ZeroIsWorker, NoneAssumption
        DEF IInv, TypeOK, PointInv, mainVars, tableVars, pairVars, procVars, netVars
<1> DEFINE Quiet == UNCHANGED <<mainVars, tableVars, pairVars, procVars, crashes>>
<1>0. ASSUME Quiet PROVE PointInv'
  BY <1>0 DEF MainOK, Phase, Others, DeadOK, Serving, MainHolds
<1>1. ASSUME NEW c \in Clients, Connect(c) \/ Recv(c) PROVE PointInv'
  BY <1>0, <1>1 DEF Connect, Recv
<1>2. CASE Accept
  BY <1>2 DEF Accept, MainOK, Phase, Others, DeadOK, Serving, MainHolds
<1>3. CASE Assign
  BY <1>3, AssignStep DEF MainOK, Phase, Others, DeadOK, Serving, MainHolds
<1>4. CASE SendFd
  <2>1. /\ main' = "handed" /\ fd \in Clients /\ idx = 0 /\ pc[0] = "recv"
        /\ pair'[0] = fd /\ \A i \in Indices \ {0} : pair'[i] = pair[i]
        /\ UNCHANGED <<fd, idx, poll, tableVars, status, procVars, crashes>>
    BY <1>4 DEF SendFd, MainOK, Phase, Serving, MainHolds
  <2> QED BY <1>4, <2>1 DEF SendFd, MainOK, Phase, Others, DeadOK, Serving, MainHolds
<1>5. CASE SendFdFails
  BY <1>5 DEF SendFdFails, MainOK, Phase, Others, DeadOK, Serving, MainHolds
<1>6. CASE Handed
  BY <1>6 DEF Handed, MainOK, Phase, Others, DeadOK, Serving, MainHolds
<1>7. CASE Poll
  <2>0. poll \in Indices /\ poll \in Int /\ workerCount \in Int
    BY <1>7, BoundsAssumption DEF Poll, Indices
  <2>1. /\ main = "poll" /\ poll' = poll + 1
        /\ main' = (IF poll' = workerCount THEN "accept" ELSE "poll")
        /\ UNCHANGED <<fd, idx, workerCount, pair, procVars, crashes>>
        /\ poll < workerCount
    BY <1>7 DEF Poll
  <2>2. \A i \in Indices : ~busy'[i]
    BY <1>7, <2>0 DEF Poll, MainOK
  <2>3. status'[0] = 0 /\ \A i \in Indices \ {0} : status'[i] = status[i]
    <3>1. CASE poll = 0
      <4>1. busy[0] /\ status[0] = 1
        BY <1>7, <3>1, <2>0 DEF Poll, MainOK
      <4> QED BY <1>7, <3>1, <4>1 DEF Poll
    <3>2. CASE poll # 0
      <4>1. ~busy[poll]
        BY <1>7, <3>2, <2>0 DEF Poll, MainOK
      <4> QED BY <1>7, <3>2, <4>1, <2>1 DEF Poll, Phase, Serving
    <3> QED BY <3>1, <3>2
  <2>4. ~Serving' /\ MainOK'
    BY <2>0, <2>1, <2>2 DEF MainOK, Serving, MainHolds
  <2>5. pair[0] = None /\ pc[0] \in {"recv", "dead"}
    <3>1. CASE poll = 0
      <4>1. busy[0] /\ status[0] = 1
        BY <1>7, <3>1, <2>0 DEF Poll, MainOK
      <4> QED BY <4>1, <2>1, <3>1 DEF Phase, Serving
    <3> QED BY <3>1, <2>1 DEF Phase, Serving
  <2> QED BY <2>1, <2>3, <2>4, <2>5 DEF Phase, Others, DeadOK
<1>8. ASSUME NEW i \in Indices, RecvFd(i) PROVE PointInv'
  <2>1. i = 0 /\ Serving /\ pair[0] = fd /\ status[0] = 0
    BY <1>8 DEF RecvFd, Phase, Others
  <2> QED BY <1>8, <2>1 DEF RecvFd, MainOK, Phase, Others, DeadOK, Serving, MainHolds
<1>9. ASSUME NEW i \in Indices, Send(i) PROVE PointInv'
  <2>1. i = 0
    BY <1>9 DEF Send, Others
  <2> QED BY <1>9, <2>1 DEF Send, MainOK, Phase, Others, DeadOK, Serving, MainHolds
<1>10. ASSUME NEW i \in Indices, Close(i) PROVE PointInv'
  <2>1. i = 0
    BY <1>10 DEF Close, Others
  <2> QED BY <1>10, <2>1 DEF Close, MainOK, Phase, Others, DeadOK, Serving, MainHolds
<1>11. ASSUME NEW i \in Indices, Report(i) PROVE PointInv'
  <2>1. i = 0 /\ status[0] = 0
    BY <1>11 DEF Report, Others, Phase
  <2>2. status'[0] = 1 /\ \A j \in Indices \ {0} : status'[j] = status[j]
    BY <1>11, <2>1 DEF Report
  <2> QED BY <1>11, <2>1, <2>2 DEF Report, MainOK, Phase, Others, DeadOK, Serving, MainHolds
<1>12. ASSUME NEW i \in Indices, Crash(i) PROVE PointInv'
  <2>1. /\ crashes' > 0 /\ pair'[i] = None /\ pc'[i] = "dead"
        /\ \A j \in Indices \ {i} : pair'[j] = pair[j] /\ pc'[j] = pc[j]
        /\ UNCHANGED <<mainVars, tableVars, status, sock>>
    BY <1>12, BoundsAssumption DEF Crash
  <2>2. MainOK' /\ Others' /\ DeadOK'
    BY <2>1 DEF MainOK, Others, DeadOK, Serving, MainHolds
  <2>3. Phase'
    <3>1. CASE i = 0
      BY <2>1, <3>1, <1>12 DEF Phase, Serving, Crash
    <3>2. CASE i # 0
      BY <2>1, <3>2 DEF Phase, Serving
    <3> QED BY <3>1, <3>2
  <2> QED BY <2>2, <2>3
<1>13. CASE UNCHANGED vars
  BY <1>0, <1>13 DEF vars
<1> QED BY <1>1, <1>2, <1>3, <1>4, <1>5, <1>6, <1>7, <1>8, <1>9, <1>10, <1>11, <1>12, <1>13
        DEF Next, MainStep, WorkerStep

-----------------------------------------------------------------------------
(* The three copies a descriptor may have are different.                   *)
LEMMA HoldersDiffer ==
  /\ MainCopy \in Holders /\ <<"pair", 0>> \in Holders /\ <<"worker", 0>> \in Holders
  /\ MainCopy # <<"pair", 0>> /\ MainCopy # <<"worker", 0>> /\ <<"pair", 0>> # <<"worker", 0>>
BY ZeroIsWorker DEF MainCopy, Holders

(* A step that moves no copy and no connection keeps the books on both.    *)
LEMMA QuietStep ==
  ASSUME IInv, UNCHANGED <<fd, refs, conn, backlog>>,
         MainHolds' <=> MainHolds, PairHolds' <=> PairHolds, WorkerHolds' <=> WorkerHolds,
         main' \in {"assign", "sendfd"} => main \in {"assign", "sendfd"},
         pc'[0] = "send" => pc[0] = "send",
         \/ pc'[0] = "close"
         \/ main' = "handed" /\ (pc'[0] = "report" \/ (pc'[0] = "recv" /\ ~PairHolds'))
         => \/ pc[0] = "close"
            \/ main = "handed" /\ (pc[0] = "report" \/ (pc[0] = "recv" /\ ~PairHolds))
  PROVE  RefsOK' /\ ConnOK' /\ BacklogOK'
<1>1. RefsOK'
  BY DEF IInv, RefsOK
<1>2. ConnOK'
  BY DEF IInv, ConnOK
<1>3. BacklogOK'
  BY DEF IInv, BacklogOK
<1> QED BY <1>1, <1>2, <1>3

(* A close of copies, of which the client of fd loses those in H, changes  *)
(* no other connection and none in the backlog.                            *)
LEMMA CloseStep ==
  ASSUME IInv, TypeOK', NEW C, NEW H, Release(C, H), fd \in C, UNCHANGED <<fd, backlog>>,
         MainHolds' <=> MainHolds /\ MainCopy \notin H,
         PairHolds' <=> PairHolds /\ <<"pair", 0>> \notin H,
         WorkerHolds' <=> WorkerHolds /\ <<"worker", 0>> \notin H,
         main' \in {"assign", "sendfd"} => main \in {"assign", "sendfd"},
         pc'[0] = "send" => pc[0] = "send",
         \/ pc'[0] = "close"
         \/ main' = "handed" /\ (pc'[0] = "report" \/ (pc'[0] = "recv" /\ ~PairHolds'))
         => \/ pc[0] = "close"
            \/ main = "handed" /\ (pc[0] = "report" \/ (pc[0] = "recv" /\ ~PairHolds))
  PROVE  RefsOK' /\ ConnOK' /\ BacklogOK'
<1>0. /\ \A c \in Clients : \A h : h \in refs'[c] <=> h \in refs[c] /\ h \notin H
      /\ \A c \in Clients : conn'[c] = IF c = fd /\ refs[c] # {} /\ refs'[c] = {} THEN "none" ELSE conn[c]
  BY ReleaseStep
<1>1. RefsOK'
  BY <1>0 DEF IInv, RefsOK
<1>2. \A c \in Clients : refs'[c] # {} <=> conn'[c] \in {"accepted", "answered"}
  <2> SUFFICES ASSUME NEW c \in Clients
               PROVE  refs'[c] # {} <=> conn'[c] \in {"accepted", "answered"}
    OBVIOUS
  <2>1. refs[c] # {} <=> conn[c] \in {"accepted", "answered"}
    BY DEF IInv, ConnOK
  <2>2. refs'[c] # {} => refs[c] # {}
    BY <1>0
  <2>3. c # fd => refs[c] = {}
    BY DEF IInv, RefsOK, TypeOK
  <2> QED BY <1>0, <2>1, <2>2, <2>3
<1>3. ASSUME MainHolds' \/ PairHolds' \/ WorkerHolds', fd \in Clients PROVE conn'[fd] = conn[fd]
  <2>1. refs'[fd] # {}
    BY <1>1, <1>3, HoldersDiffer DEF RefsOK
  <2> QED BY <1>0, <1>3, <2>1
<1>4. MainHolds \/ PairHolds \/ WorkerHolds => fd \in Clients
  BY NoneAssumption DEF IInv, PointInv, MainOK, Phase, MainHolds, PairHolds, WorkerHolds
<1>5. ConnOK'
  <2>1. main' \in {"assign", "sendfd"} \/ PairHolds' \/ pc'[0] = "send" => conn'[fd] = "accepted"
    BY <1>3, <1>4 DEF IInv, ConnOK, MainHolds, WorkerHolds
  <2>2. \/ pc'[0] = "close"
        \/ main' = "handed" /\ (pc'[0] = "report" \/ (pc'[0] = "recv" /\ ~PairHolds'))
        => conn'[fd] = "answered"
    BY <1>3, <1>4 DEF IInv, ConnOK, MainHolds, WorkerHolds
  <2> QED BY <1>2, <2>1, <2>2 DEF ConnOK
<1>6. BacklogOK'
  <2>1. \A c \in Clients : conn[c] = "backlog" => conn'[c] = "backlog"
    BY <1>0 DEF IInv, ConnOK
  <2> QED BY <2>1 DEF IInv, TypeOK, BacklogOK
<1> QED BY <1>1, <1>5, <1>6

(* Every step keeps track of the copies and of the connections.            *)
LEMMA BookStep ==
  ASSUME IInv, TypeOK', [Next]_vars PROVE RefsOK' /\ ConnOK' /\ BacklogOK'
<1> USE ZeroIsWorker, NoneAssumption, HoldersDiffer
        DEF mainVars, tableVars, pairVars, procVars, netVars
<1> DEFINE Goal == RefsOK' /\ ConnOK' /\ BacklogOK'
<1>0. TypeOK /\ PointInv /\ RefsOK /\ ConnOK /\ BacklogOK
  BY DEF IInv
<1>1. ASSUME NEW c \in Clients, Connect(c) PROVE Goal
  <2>0. /\ conn[c] = "none" /\ conn'[c] = "backlog" /\ backlog' = Append(backlog, c)
        /\ \A d \in Clients \ {c} : conn'[d] = conn[d]
        /\ UNCHANGED <<mainVars, pairVars, procVars, refs>>
    BY <1>0, <1>1 DEF Connect, TypeOK
  <2>1. RefsOK'
    BY <1>0, <2>0 DEF RefsOK, MainHolds, PairHolds, WorkerHolds
  <2>2. ConnOK'
    <3>1. MainHolds \/ PairHolds \/ WorkerHolds => fd \in Clients
      BY <1>0 DEF PointInv, MainOK, Phase, MainHolds, PairHolds, WorkerHolds
    <3> QED BY <1>0, <2>0, <3>1 DEF ConnOK, MainHolds, PairHolds, WorkerHolds
  <2>3. BacklogOK'
    BY <1>0, <2>0 DEF BacklogOK, TypeOK
  <2> QED BY <2>1, <2>2, <2>3
<1>2. ASSUME NEW c \in Clients, Recv(c) PROVE Goal
  BY <1>2, QuietStep DEF Recv, MainHolds, PairHolds, WorkerHolds
<1>3. CASE Accept
  <2> DEFINE c == Head(backlog)
  <2>1. c \in Clients /\ conn[c] = "backlog" /\ backlog[1] = c
    BY <1>0, <1>3 DEF Accept, BacklogOK, TypeOK
  <2>2. /\ main = "accept" /\ main' = "assign" /\ fd' = c /\ backlog' = Tail(backlog)
        /\ refs' = [refs EXCEPT ![c] = {MainCopy}] /\ conn' = [conn EXCEPT ![c] = "accepted"]
        /\ UNCHANGED <<pairVars, procVars>>
    BY <1>3 DEF Accept
  <2> HIDE DEF c
  <2>3. ~MainHolds /\ ~PairHolds /\ ~WorkerHolds
    BY <1>0, <2>2 DEF PointInv, Phase, Serving, MainHolds, PairHolds, WorkerHolds
  <2>4. \A d \in Clients : refs[d] = {}
    BY <1>0, <2>3 DEF RefsOK, TypeOK
  <2>5. RefsOK'
    BY <1>0, <2>1, <2>2, <2>3, <2>4 DEF RefsOK, TypeOK, MainHolds, PairHolds, WorkerHolds
  <2>6. ConnOK'
    <3>1. \A d \in Clients : refs'[d] # {} <=> conn'[d] \in {"accepted", "answered"}
      BY <1>0, <2>1, <2>2, <2>4 DEF ConnOK, TypeOK
    <3>2. conn'[fd'] = "accepted" /\ pc'[0] \in {"recv", "dead"}
      BY <1>0, <2>1, <2>2 DEF TypeOK, PointInv, Phase, Serving
    <3> QED BY <2>2, <3>1, <3>2 DEF ConnOK
  <2>7. BacklogOK'
    BY <1>0, <1>3, <2>1, <2>2 DEF Accept, BacklogOK, TypeOK
  <2> QED BY <2>5, <2>6, <2>7
<1>4. CASE Assign
  BY <1>4, AssignStep, QuietStep DEF MainHolds, PairHolds, WorkerHolds
<1>5. CASE SendFd
  <2>1. fd \in Clients /\ idx = 0 /\ pc[0] = "recv" /\ conn[fd] = "accepted" /\ ~PairHolds
    BY <1>0, <1>5 DEF SendFd, PointInv, MainOK, Phase, ConnOK, Serving, MainHolds, PairHolds
  <2>2. /\ main = "sendfd" /\ main' = "handed" /\ pair'[0] = fd
        /\ \A d \in Clients \ {fd} : refs'[d] = refs[d]
        /\ refs'[fd] = refs[fd] \union {<<"pair", 0>>}
        /\ UNCHANGED <<fd, procVars, netVars>>
    BY <1>0, <1>5, <2>1 DEF SendFd, TypeOK
  <2>3. RefsOK'
    <3>1. MainHolds /\ MainHolds' /\ PairHolds' /\ ~WorkerHolds /\ ~WorkerHolds'
      BY <2>1, <2>2 DEF MainHolds, PairHolds, WorkerHolds
    <3> QED BY <1>0, <2>1, <2>2, <3>1 DEF RefsOK
  <2>4. ConnOK'
    BY <1>0, <2>1, <2>2 DEF ConnOK, PairHolds
  <2>5. BacklogOK'
    BY <1>0, <2>2 DEF BacklogOK
  <2> QED BY <2>3, <2>4, <2>5
<1>6. CASE SendFdFails
  <2>1. Release({fd}, {MainCopy}) /\ UNCHANGED <<fd, pairVars, procVars, backlog>> /\ main' = "accept"
    BY <1>6 DEF SendFdFails
  <2> QED BY <2>1, CloseStep DEF MainHolds, PairHolds, WorkerHolds
<1>7. CASE Handed
  <2>1. Release({fd}, {MainCopy}) /\ UNCHANGED <<fd, pairVars, procVars, backlog>> /\ main' = "poll"
    BY <1>7 DEF Handed
  <2> QED BY <2>1, CloseStep DEF MainHolds, PairHolds, WorkerHolds
<1>8. CASE Poll
  <2>1. main = "poll" /\ main' \in {"accept", "poll"} /\ UNCHANGED <<fd, pair, procVars, refs, netVars>>
    BY <1>8 DEF Poll
  <2> QED BY <2>1, QuietStep DEF MainHolds, PairHolds, WorkerHolds
<1>9. ASSUME NEW i \in Indices, RecvFd(i) PROVE Goal
  <2>1. i = 0 /\ Serving /\ pair[0] = fd /\ fd \in Clients /\ conn[fd] = "accepted"
    BY <1>0, <1>9 DEF RecvFd, PointInv, MainOK, Phase, Others, ConnOK, PairHolds
  <2>2. /\ pc[0] = "recv" /\ pc'[0] = "send" /\ pair'[0] = None
        /\ refs'[fd] = (refs[fd] \ {<<"pair", 0>>}) \union {<<"worker", 0>>}
        /\ \A d \in Clients \ {fd} : refs'[d] = refs[d]
        /\ UNCHANGED <<mainVars, netVars>>
    BY <1>0, <1>9, <2>1 DEF RecvFd, TypeOK
  <2>3. RefsOK'
    <3>1. PairHolds /\ ~PairHolds' /\ ~WorkerHolds /\ WorkerHolds' /\ (MainHolds' <=> MainHolds)
      BY <2>1, <2>2 DEF MainHolds, PairHolds, WorkerHolds
    <3> QED BY <1>0, <2>1, <2>2, <3>1 DEF RefsOK
  <2>4. ConnOK'
    BY <1>0, <2>1, <2>2 DEF ConnOK, PairHolds, Serving
  <2>5. BacklogOK'
    BY <1>0, <2>2 DEF BacklogOK
  <2> QED BY <2>3, <2>4, <2>5
<1>10. ASSUME NEW i \in Indices, Send(i) PROVE Goal
  <2>1. i = 0 /\ Serving /\ sock[0] = fd /\ fd \in Clients /\ conn[fd] = "accepted" /\ pair[0] = None
    BY <1>0, <1>10 DEF Send, PointInv, MainOK, Phase, Others, ConnOK
  <2>2. /\ pc[0] = "send" /\ pc'[0] = "close"
        /\ conn'[fd] = "answered" /\ \A d \in Clients \ {fd} : conn'[d] = conn[d]
        /\ UNCHANGED <<mainVars, pairVars, refs, backlog>>
    BY <1>0, <1>10, <2>1 DEF Send, TypeOK
  <2>3. RefsOK'
    BY <1>0, <2>2 DEF RefsOK, MainHolds, PairHolds, WorkerHolds
  <2>4. ConnOK'
    BY <1>0, <2>1, <2>2 DEF ConnOK, PairHolds, Serving
  <2>5. BacklogOK'
    BY <1>0, <2>1, <2>2 DEF BacklogOK, TypeOK
  <2> QED BY <2>3, <2>4, <2>5
<1>11. ASSUME NEW i \in Indices, Close(i) PROVE Goal
  <2>1. i = 0 /\ sock[0] = fd
    BY <1>0, <1>11 DEF Close, PointInv, Phase, Others
  <2>2. /\ Release({fd}, {<<"worker", 0>>}) /\ UNCHANGED <<mainVars, pairVars, backlog>>
        /\ pc[0] = "close" /\ pc'[0] = "report"
    BY <1>0, <1>11, <2>1 DEF Close, TypeOK
  <2> QED BY <2>2, CloseStep DEF MainHolds, PairHolds, WorkerHolds
<1>12. ASSUME NEW i \in Indices, Report(i) PROVE Goal
  <2>1. i = 0 /\ ~PairHolds
    BY <1>0, <1>12 DEF Report, PointInv, Phase, Others, PairHolds
  <2>2. pc[0] = "report" /\ pc'[0] = "recv" /\ UNCHANGED <<mainVars, pair, refs, netVars>>
    BY <1>0, <1>12, <2>1 DEF Report, TypeOK
  <2> QED BY <2>1, <2>2, QuietStep DEF MainHolds, PairHolds, WorkerHolds
<1>13. ASSUME NEW i \in Indices, Crash(i) PROVE Goal
  <2> DEFINE H == {<<"worker", i>>, <<"pair", i>>}
  <2>1. /\ Release(Clients, H) /\ UNCHANGED <<mainVars, backlog>>
        /\ pair'[i] = None /\ pc'[i] = "dead"
        /\ \A j \in Indices \ {i} : pair'[j] = pair[j] /\ pc'[j] = pc[j]
    BY <1>0, <1>13 DEF Crash, TypeOK
  <2>2. CASE fd \in Clients
    <3>1. /\ MainHolds' <=> MainHolds /\ MainCopy \notin H
          /\ PairHolds' <=> PairHolds /\ <<"pair", 0>> \notin H
          /\ WorkerHolds' <=> WorkerHolds /\ <<"worker", 0>> \notin H
          /\ pc'[0] = "dead" \/ (pc'[0] = pc[0] /\ (PairHolds' <=> PairHolds))
      <4>1. CASE i = 0
        BY <2>1, <4>1 DEF MainHolds, PairHolds, WorkerHolds, MainCopy
      <4>2. CASE i # 0
        BY <2>1, <4>2 DEF MainHolds, PairHolds, WorkerHolds, MainCopy
      <4> QED BY <4>1, <4>2
    <3> HIDE DEF H
    <3> QED BY <2>1, <2>2, <3>1, CloseStep
  <2>3. CASE fd \notin Clients
    <3>1. \A c \in Clients : refs[c] = {}
      BY <1>0, <2>3 DEF RefsOK, TypeOK
    <3>2. refs' = refs /\ conn' = conn
      BY <1>0, <2>1, <3>1 DEF Release, TypeOK
    <3>3. ~MainHolds /\ ~PairHolds /\ ~WorkerHolds /\ ~Serving
      BY <1>0, <2>3 DEF PointInv, MainOK, Phase, PairHolds, WorkerHolds
    <3>4. ~MainHolds' /\ ~PairHolds' /\ ~WorkerHolds' /\ pc'[0] \in {"recv", "dead"}
      BY <1>0, <2>1, <3>3 DEF MainHolds, PairHolds, WorkerHolds, PointInv, Phase
    <3> QED BY <2>1, <3>2, <3>3, <3>4, QuietStep DEF MainHolds, Serving
  <2> QED BY <2>2, <2>3
<1>14. CASE UNCHANGED vars
  BY <1>14, QuietStep DEF vars, MainHolds, PairHolds, WorkerHolds
<1> QED BY <1>1, <1>2, <1>3, <1>4, <1>5, <1>6, <1>7, <1>8, <1>9, <1>10, <1>11, <1>12, <1>13,
           <1>14 DEF Next, MainStep, WorkerStep

-----------------------------------------------------------------------------
(* IInv is an invariant of the pool.                                       *)
THEOREM Invariance == Spec => []IInv
<1>1. IInv /\ [Next]_vars => IInv'
  BY TypeStep, PointStep, BookStep DEF IInv
<1> QED BY InitIInv, <1>1, PTL DEF Spec

(* The variables keep their types: no worker ever owes main two statuses,  *)
(* and a read of the status never takes one that is not there.             *)
THEOREM TypeCorrect == Spec => []TypeOK
<1>1. IInv => TypeOK
  BY DEF IInv
<1> QED BY <1>1, Invariance, PTL

(* However many workers there are, and whichever are killed, worker 0 is   *)
(* the only one that ever serves, and no worker is ever spawned.           *)
THEOREM OneWorkerServes == Spec => []OnlyFirstWorkerServes
<1>1. IInv => OnlyFirstWorkerServes
  BY FreeWorker DEF IInv, PointInv, MainOK, Others, OnlyFirstWorkerServes
<1> QED BY <1>1, Invariance, PTL

(* No copy of a descriptor outlives the service of its client, also when   *)
(* the worker dies before it receives, answers, closes or reports.         *)
THEOREM NoDescriptorLeaks == Spec => []NoDescriptorLeft
<1>1. IInv => NoDescriptorLeft
  BY DEF IInv, TypeOK, PointInv, Phase, RefsOK, NoDescriptorLeft, Serving, MainHolds, PairHolds,
     WorkerHolds
<1> QED BY <1>1, Invariance, PTL

(* Every step is a step of TimeService or a stutter: the last copy of a    *)
(* descriptor is closed after the answer, or a worker has died.            *)
THEOREM Refinement == Spec => Abstract!Safety
<1> USE DEF Status
<1>1. Init => Abstract!Init
  BY DEF Init, Abstract!Init
<1>2. ASSUME IInv, [Next]_vars PROVE [Abstract!Next]_Status
  <2> USE <1>2, ZeroIsWorker
      DEF IInv, TypeOK, mainVars, tableVars, pairVars, procVars, netVars
  <2>0. ASSUME NEW c \in Clients, NEW s, conn' = [conn EXCEPT ![c] = s]
        PROVE  Status' = [Status EXCEPT ![c] =
                 IF s \in {"backlog", "accepted"} THEN "waiting"
                 ELSE IF s = "answered" THEN "answered" ELSE "idle"]
    BY <2>0
  <2>1. ASSUME UNCHANGED conn PROVE UNCHANGED Status
    BY <2>1
  <2>2. ASSUME NEW c \in Clients, Connect(c) PROVE Abstract!Next
    <3>1. Abstract!Connect(c)
      BY <2>0, <2>2 DEF Connect, Abstract!Connect
    <3> QED BY <3>1 DEF Abstract!Next
  <2>3. CASE Accept
    <3>1. Head(backlog) \in Clients /\ conn[Head(backlog)] = "backlog"
      BY <2>3 DEF Accept, BacklogOK
    <3> QED BY <2>0, <2>3, <3>1 DEF Accept
  <2>4. ASSUME NEW i \in Indices, Send(i) PROVE Abstract!Next
    <3>1. PICK c \in Clients : c = sock[i] /\ conn[c] = "accepted"
      BY <2>4 DEF Send, PointInv, MainOK, Phase, Others, ConnOK
    <3>2. Status' = [Status EXCEPT ![c] = "answered"]
      BY <2>0, <2>4, <3>1 DEF Send
    <3>3. Abstract!Answer(c)
      BY <3>1, <3>2 DEF Abstract!Answer
    <3> QED BY <3>3 DEF Abstract!Next
  <2>5. ASSUME NEW C, NEW H, Release(C, H), fd \in C,
               fd \in Clients /\ conn[fd] = "accepted" =>
                 (crashes > 0)' \/ (refs[fd] # {} => refs'[fd] # {})
        PROVE  Abstract!Next \/ UNCHANGED Status
    <3>1. \A c \in Clients : conn'[c] = IF c = fd /\ refs[c] # {} /\ refs'[c] = {} THEN "none" ELSE conn[c]
      BY <2>5, ReleaseStep
    <3>2. conn' \in [Clients -> {"none", "backlog", "accepted", "answered"}]
      BY <2>5, ReleaseStep
    <3>3. CASE fd \in Clients /\ refs[fd] # {} /\ refs'[fd] = {}
      <4>1. conn' = [conn EXCEPT ![fd] = "none"]
        BY <3>1, <3>2, <3>3
      <4>2. Status' = [Status EXCEPT ![fd] = "idle"]
        BY <2>0, <3>3, <4>1
      <4>3. conn[fd] \in {"accepted", "answered"}
        BY <3>3 DEF ConnOK
      <4>4. CASE conn[fd] = "answered"
        <5>1. Abstract!HangUp(fd)
          BY <3>3, <4>2, <4>4 DEF Abstract!HangUp
        <5> QED BY <3>3, <5>1 DEF Abstract!Next
      <4>5. CASE conn[fd] = "accepted"
        <5>1. PICK c \in Clients : c = fd
          BY <3>3
        <5>2. (crashes > 0)' /\ Status[c] = "waiting"
          BY <2>5, <3>3, <4>5, <5>1
        <5>3. Abstract!Refuse(c)
          BY <4>2, <5>1, <5>2 DEF Abstract!Refuse
        <5> QED BY <5>3 DEF Abstract!Next
      <4> QED BY <4>3, <4>4, <4>5
    <3>4. CASE ~(fd \in Clients /\ refs[fd] # {} /\ refs'[fd] = {})
      <4>1. conn' = conn
        BY <3>1, <3>2, <3>4
      <4> QED BY <2>1, <4>1
    <3> QED BY <3>3, <3>4
  <2>6. CASE SendFdFails
    <3>1. crashes > 0 /\ crashes' = crashes /\ Release({fd}, {MainCopy})
      BY <2>6 DEF SendFdFails, PointInv, DeadOK
    <3> QED BY <2>5, <3>1
  <2>7. CASE Handed
    <3>1. crashes' = crashes /\ Release({fd}, {MainCopy}) /\ fd \in Clients /\ Serving
      BY <2>7 DEF Handed, PointInv, MainOK, Serving
    <3>2. CASE conn[fd] = "accepted" /\ crashes = 0
      <4>1. pc[0] # "dead" /\ (PairHolds \/ WorkerHolds)
        BY <2>7, <3>1, <3>2
           DEF Handed, PointInv, DeadOK, Phase, ConnOK, Serving, PairHolds, WorkerHolds
      <4>2. <<"pair", 0>> \in refs[fd] \/ <<"worker", 0>> \in refs[fd]
        BY <3>1, <4>1, HoldersDiffer DEF RefsOK
      <4>3. <<"pair", 0>> \in refs'[fd] \/ <<"worker", 0>> \in refs'[fd]
        BY <3>1, <4>2, HoldersDiffer DEF Release
      <4> QED BY <2>5, <3>1, <4>3
    <3>3. CASE ~(conn[fd] = "accepted" /\ crashes = 0)
      <4>1. conn[fd] = "accepted" => crashes > 0
        BY <3>3
      <4> QED BY <2>5, <3>1, <4>1
    <3> QED BY <3>2, <3>3
  <2>8. ASSUME NEW i \in Indices, Close(i) PROVE Abstract!Next \/ UNCHANGED Status
    <3>1. Release({fd}, {<<"worker", i>>}) /\ conn[fd] = "answered"
      BY <2>8 DEF Close, PointInv, Phase, Others, ConnOK
    <3> QED BY <2>5, <3>1
  <2>9. ASSUME NEW i \in Indices, Crash(i) PROVE Abstract!Next \/ UNCHANGED Status
    <3>1. Release(Clients, {<<"worker", i>>, <<"pair", i>>}) /\ crashes' = crashes + 1 /\ crashes' > 0
      BY <2>9, BoundsAssumption DEF Crash
    <3>2. CASE fd \in Clients
      BY <2>5, <3>1, <3>2
    <3>3. CASE fd \notin Clients
      <4>1. \A c \in Clients : refs[c] = {}
        BY <3>3 DEF RefsOK
      <4>2. conn' = conn
        BY <3>1, <4>1 DEF Release
      <4> QED BY <2>1, <4>2
    <3> QED BY <3>2, <3>3
  <2>10. CASE Assign
    BY <2>1, <2>10, AssignStep
  <2>11. CASE SendFd \/ Poll
    BY <2>1, <2>11 DEF SendFd, Poll
  <2>12. ASSUME NEW i \in Indices, RecvFd(i) \/ Report(i) PROVE UNCHANGED Status
    BY <2>1, <2>12 DEF RecvFd, Report
  <2>13. ASSUME NEW c \in Clients, Recv(c) PROVE UNCHANGED Status
    BY <2>1, <2>13 DEF Recv
  <2>14. CASE UNCHANGED vars
    BY <2>1, <2>14 DEF vars
  <2> HIDE DEF IInv, TypeOK, Status
  <2> QED BY <2>2, <2>3, <2>4, <2>6, <2>7, <2>8, <2>9, <2>10, <2>11, <2>12, <2>13, <2>14
          DEF Next, MainStep, WorkerStep
<1> QED BY <1>1, <1>2, Invariance, PTL DEF Spec, Abstract!Safety
=============================================================================
