----------------------------- MODULE WorkerPool -----------------------------
(***************************************************************************)
(* The time server with a pool of processes                                *)
(* (p2_server_template/parallel_server_with_pool_servers).  main accepts a *)
(* client, passes the descriptor over a socketpair to a worker process and *)
(* closes its own copy; the worker answers, closes and writes a status     *)
(* byte.  After every client main reads the status of each busy worker,    *)
(* and that read blocks.                                                   *)
(*                                                                         *)
(* A connection is closed for the client when the last copy of its         *)
(* descriptor is closed: refs[c] is the set of processes, and of messages  *)
(* still in a socketpair, that hold one.  A worker may be killed; its      *)
(* descriptors are then closed, a status it has already written can still  *)
(* be read, and the end of a datagram socketpair is not reported to main.  *)
(***************************************************************************)
EXTENDS Integers, Sequences, FiniteSets, FiniteSetsExt

CONSTANTS Clients, Backlog,
          WorkerMax,        \* WORKER_MAX
          InitialWorkers,   \* initial_workers
          None,
          MaxCrashes        \* bound: workers killed

ASSUME BoundsAssumption ==
  /\ WorkerMax \in Nat \ {0} /\ InitialWorkers \in 1 .. WorkerMax
  /\ Backlog \in Nat \ {0} /\ MaxCrashes \in Nat
ASSUME NoneAssumption == None \notin Clients

Indices == 0 .. WorkerMax - 1
MainCopy == <<"main", 0>>
Holders == {"main", "worker", "pair"} \X Indices

VARIABLES main, fd, idx, poll,  \* main: program point, client_fd, idx, loop index
          workerCount, busy,    \* worker_count, workers[].busy
          pair,                 \* the descriptor under way to each worker
          status,               \* status bytes under way to main
          pc, sock,             \* per worker process
          refs,                 \* who holds a copy of each descriptor
          crashes,
          backlog, conn, inbox, client  \* as in ThreadPoolServer

mainVars == <<main, fd, idx, poll>>
tableVars == <<workerCount, busy>>
pairVars == <<pair, status>>
procVars == <<pc, sock>>
netVars == <<backlog, conn, inbox, client>>
vars == <<mainVars, tableVars, pairVars, procVars, refs, crashes, netVars>>

Init == /\ main = "accept" /\ fd = None /\ idx = 0 /\ poll = 0
        /\ workerCount = InitialWorkers
        /\ busy = [i \in Indices |-> FALSE]
        /\ pair = [i \in Indices |-> None] /\ status = [i \in Indices |-> 0]
        /\ pc = [i \in Indices |-> IF i < InitialWorkers THEN "recv" ELSE "unborn"]
        /\ sock = [i \in Indices |-> None]
        /\ refs = [c \in Clients |-> {}]
        /\ crashes = 0
        /\ backlog = <<>> /\ inbox = {}
        /\ conn = [c \in Clients |-> "none"]
        /\ client = [c \in Clients |-> "idle"]

\* The descriptors of C lose their copies at the holders H; the connection
\* of one that loses its last copy is closed.
Release(C, H) ==
  /\ refs' = [c \in Clients |-> IF c \in C THEN refs[c] \ H ELSE refs[c]]
  /\ conn' = [c \in Clients |-> IF refs[c] # {} /\ refs'[c] = {} THEN "none" ELSE conn[c]]

-----------------------------------------------------------------------------
Connect(c) ==
  /\ client[c] # "waiting" /\ conn[c] = "none"
  /\ Len(backlog) < Backlog
  /\ backlog' = Append(backlog, c)
  /\ conn' = [conn EXCEPT ![c] = "backlog"]
  /\ client' = [client EXCEPT ![c] = "waiting"]
  /\ UNCHANGED <<mainVars, tableVars, pairVars, procVars, refs, crashes, inbox>>

Recv(c) ==
  /\ client[c] = "waiting"
  /\ c \in inbox \/ conn[c] = "none"
  /\ client' = [client EXCEPT ![c] = IF c \in inbox THEN "idle" ELSE "error"]
  /\ inbox' = inbox \ {c}
  /\ UNCHANGED <<mainVars, tableVars, pairVars, procVars, refs, crashes, backlog, conn>>

-----------------------------------------------------------------------------
(* main.                                                                   *)

Accept ==
  /\ main = "accept" /\ backlog # <<>>
  /\ fd' = Head(backlog)
  /\ refs' = [refs EXCEPT ![fd'] = {MainCopy}]
  /\ conn' = [conn EXCEPT ![fd'] = "accepted"]
  /\ backlog' = Tail(backlog)
  /\ main' = "assign"
  /\ UNCHANGED <<idx, poll, tableVars, pairVars, procVars, crashes, inbox, client>>

Free == {i \in Indices : i < workerCount /\ ~busy[i]}
find_free_worker == IF Free = {} THEN -1 ELSE Min(Free)

\* The forked child inherits client_fd and does not close it.
spawn_worker(i) ==
  /\ pc' = [pc EXCEPT ![i] = "recv"]
  /\ busy' = [busy EXCEPT ![i] = FALSE]
  /\ workerCount' = workerCount + 1
  /\ refs' = [refs EXCEPT ![fd] = @ \union {<<"worker", i>>}]

\* Choose a worker; spawn one if all are busy; refuse if that is not possible.
Assign ==
  /\ main = "assign"
  /\ IF find_free_worker # -1
     THEN /\ idx' = find_free_worker /\ main' = "sendfd"
          /\ UNCHANGED <<tableVars, pc, refs, conn>>
     ELSE IF workerCount < WorkerMax
     THEN \E spawned \in BOOLEAN :
            IF spawned THEN /\ idx' = workerCount /\ main' = "sendfd"
                            /\ spawn_worker(workerCount)
                            /\ UNCHANGED conn
                       ELSE /\ Release({fd}, {MainCopy}) /\ main' = "accept"
                            /\ UNCHANGED <<idx, tableVars, pc>>
     ELSE /\ Release({fd}, {MainCopy}) /\ main' = "accept"
          /\ UNCHANGED <<idx, tableVars, pc>>
  /\ UNCHANGED <<fd, poll, pairVars, sock, crashes, backlog, inbox, client>>

\* sendmsg fails when the worker is dead.
SendFd ==
  /\ main = "sendfd" /\ pc[idx] # "dead"
  /\ pair' = [pair EXCEPT ![idx] = fd]
  /\ refs' = [refs EXCEPT ![fd] = @ \union {<<"pair", idx>>}]
  /\ main' = "handed"
  /\ UNCHANGED <<fd, idx, poll, tableVars, status, procVars, crashes, netVars>>

\* Mutation: the descriptor stays open when it cannot be passed.
SendFdFailsLeak ==
  /\ main = "sendfd" /\ pc[idx] = "dead"
  /\ busy' = [busy EXCEPT ![idx] = FALSE]
  /\ main' = "accept"
  /\ UNCHANGED <<fd, idx, poll, workerCount, pairVars, procVars, refs, crashes, netVars>>

SendFdFails ==
  /\ main = "sendfd" /\ pc[idx] = "dead"
  /\ Release({fd}, {MainCopy})
  /\ busy' = [busy EXCEPT ![idx] = FALSE]
  /\ main' = "accept"
  /\ UNCHANGED <<fd, idx, poll, workerCount, pairVars, procVars, crashes, backlog,
                 inbox, client>>

\* Mutation: main keeps its copy of the descriptor.
HandedLeak ==
  /\ main = "handed"
  /\ busy' = [busy EXCEPT ![idx] = TRUE]
  /\ main' = "poll" /\ poll' = 0
  /\ UNCHANGED <<fd, idx, workerCount, pairVars, procVars, refs, crashes, netVars>>

Handed ==
  /\ main = "handed"
  /\ busy' = [busy EXCEPT ![idx] = TRUE]
  /\ Release({fd}, {MainCopy})
  /\ main' = "poll" /\ poll' = 0
  /\ UNCHANGED <<fd, idx, workerCount, pairVars, procVars, crashes, backlog, inbox, client>>

\* Mutation: the read of a status does not block.
PollWithoutBlocking ==
  /\ main = "poll"
  /\ poll < workerCount
  /\ poll' = poll + 1 /\ main' = (IF poll' = workerCount THEN "accept" ELSE "poll")
  /\ busy' = [busy EXCEPT ![poll] = @ /\ status[poll] = 0]
  /\ status' = [status EXCEPT ![poll] = 0]
  /\ UNCHANGED <<fd, idx, workerCount, pair, procVars, refs, crashes, netVars>>

\* Mutation: the status byte is left in the socketpair.
PollPeek ==
  /\ main = "poll"
  /\ poll < workerCount
  /\ busy[poll] => status[poll] > 0
  /\ poll' = poll + 1 /\ main' = (IF poll' = workerCount THEN "accept" ELSE "poll")
  /\ busy' = [busy EXCEPT ![poll] = FALSE]
  /\ UNCHANGED <<fd, idx, workerCount, pairVars, procVars, refs, crashes, netVars>>

\* One turn of the loop over the workers; read blocks until there is a status.
Poll ==
  /\ main = "poll"
  /\ poll < workerCount
  /\ busy[poll] => status[poll] > 0
  /\ poll' = poll + 1 /\ main' = (IF poll' = workerCount THEN "accept" ELSE "poll")
  /\ busy' = [busy EXCEPT ![poll] = FALSE]
  /\ status' = [status EXCEPT ![poll] = IF busy[poll] THEN @ - 1 ELSE @]
  /\ UNCHANGED <<fd, idx, workerCount, pair, procVars, refs, crashes, netVars>>

-----------------------------------------------------------------------------
(* worker_loop.                                                            *)

RecvFd(i) ==
  /\ pc[i] = "recv" /\ pair[i] # None
  /\ sock' = [sock EXCEPT ![i] = pair[i]]
  /\ refs' = [refs EXCEPT ![pair[i]] = (@ \ {<<"pair", i>>}) \union {<<"worker", i>>}]
  /\ pair' = [pair EXCEPT ![i] = None]
  /\ pc' = [pc EXCEPT ![i] = "send"]
  /\ UNCHANGED <<mainVars, tableVars, status, crashes, netVars>>

Send(i) ==
  /\ pc[i] = "send"
  /\ inbox' = inbox \union {sock[i]}
  /\ conn' = [conn EXCEPT ![sock[i]] = "answered"]
  /\ pc' = [pc EXCEPT ![i] = "close"]
  /\ UNCHANGED <<mainVars, tableVars, pairVars, sock, refs, crashes, backlog, client>>

Close(i) ==
  /\ pc[i] = "close"
  /\ Release({sock[i]}, {<<"worker", i>>})
  /\ pc' = [pc EXCEPT ![i] = "report"]
  /\ UNCHANGED <<mainVars, tableVars, pairVars, sock, crashes, backlog, inbox, client>>

\* Mutation: no status is written.
ReportNothing(i) ==
  /\ pc[i] = "report"
  /\ pc' = [pc EXCEPT ![i] = "recv"]
  /\ UNCHANGED <<mainVars, tableVars, pairVars, sock, refs, crashes, netVars>>

Report(i) ==
  /\ pc[i] = "report"
  /\ status' = [status EXCEPT ![i] = @ + 1]
  /\ pc' = [pc EXCEPT ![i] = "recv"]
  /\ UNCHANGED <<mainVars, tableVars, pair, sock, refs, crashes, netVars>>

\* The worker is killed, or leaves worker_loop; what it holds and what is under way to it is closed.
Crash(i) ==
  /\ crashes < MaxCrashes /\ crashes' = crashes + 1
  /\ pc[i] \notin {"unborn", "dead"}
  /\ Release(Clients, {<<"worker", i>>, <<"pair", i>>})
  /\ pair' = [pair EXCEPT ![i] = None]
  /\ pc' = [pc EXCEPT ![i] = "dead"]
  /\ UNCHANGED <<mainVars, tableVars, status, sock, backlog, inbox, client>>

-----------------------------------------------------------------------------
MainStep == Accept \/ Assign \/ SendFd \/ SendFdFails \/ Handed \/ Poll
WorkerStep(i) == RecvFd(i) \/ Send(i) \/ Close(i) \/ Report(i)

Next == \/ \E c \in Clients : Connect(c) \/ Recv(c)
        \/ MainStep
        \/ \E i \in Indices : WorkerStep(i) \/ Crash(i)

(* The processes are scheduled; nobody has to connect or to crash.         *)
Fairness == /\ WF_vars(MainStep)
            /\ \A i \in Indices : WF_vars(WorkerStep(i))
            /\ \A c \in Clients : WF_vars(Recv(c))

Spec == Init /\ [][Next]_vars /\ Fairness

-----------------------------------------------------------------------------
(* Properties.                                                             *)

(* Every variable has its type; a worker never owes main two statuses.     *)
TypeOK ==
  /\ main \in {"accept", "assign", "sendfd", "handed", "poll"}
  /\ fd \in Clients \union {None} /\ idx \in Indices /\ poll \in 0 .. WorkerMax
  /\ workerCount \in 0 .. WorkerMax /\ busy \in [Indices -> BOOLEAN]
  /\ pair \in [Indices -> Clients \union {None}] /\ status \in [Indices -> 0 .. 1]
  /\ pc \in [Indices -> {"unborn", "recv", "send", "close", "report", "dead"}]
  /\ sock \in [Indices -> Clients \union {None}]
  /\ refs \in [Clients -> SUBSET Holders] /\ crashes \in 0 .. MaxCrashes
  /\ backlog \in Seq(Clients) /\ inbox \in SUBSET Clients
  /\ conn \in [Clients -> {"none", "backlog", "accepted", "answered"}]
  /\ client \in [Clients -> {"idle", "waiting", "error"}]

(* The pool is no pool: main waits for the status of the worker it has     *)
(* just given a client to, and so always finds worker 0 free.  The other   *)
(* workers never get a client, even after worker 0 has died, and neither   *)
(* the branch that spawns a worker nor the one that refuses is taken.      *)
OnlyFirstWorkerServes ==
  /\ workerCount = InitialWorkers
  /\ \A i \in Indices \ {0} : pc[i] \in {"unborn", "recv", "dead"}
  /\ main = "assign" => find_free_worker = 0

(* Whenever main comes back to accept, no copy of a client's descriptor is *)
(* left in main, in a worker or in a socketpair, whatever has crashed.     *)
NoDescriptorLeft == main = "accept" => \A c \in Clients : refs[c] = {}

(* main comes back from the loop over the workers to accept, unless the    *)
(* worker whose status it reads died before it wrote one: a status that    *)
(* was written before the crash is still read, one that was not is waited  *)
(* for for ever.                                                           *)
MainReturns ==
  main = "poll" ~>
    main = "accept" \/ (main = "poll" /\ busy[poll] /\ pc[poll] = "dead" /\ status[poll] = 0)

Status == [c \in Clients |-> IF conn[c] \in {"backlog", "accepted"} THEN "waiting"
                             ELSE IF conn[c] = "answered" THEN "answered"
                             ELSE "idle"]

Abstract == INSTANCE TimeService
              WITH status <- Status, mayRefuse <- IF crashes > 0 THEN Clients ELSE {}

(* The pool of processes keeps the promise of TimeService: the safety part *)
(* whatever dies, where a client is refused only after a worker has died,  *)
(* and the liveness part (every client is answered and then hung up on) as *)
(* long as no worker dies.                                                 *)
ImplementsTimeService ==
  Abstract!Safety /\ ([](crashes = 0) => Abstract!Fairness)
=============================================================================
