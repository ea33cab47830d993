------------------------------- MODULE ShmChat -------------------------------
(***************************************************************************)
(* The chat in shared memory (hw14_shmemory/part2).  The server creates    *)
(* the segment and prints the list of clients every five seconds; each     *)
(* client process registers in a table, posts into a ring of messages, and *)
(* has a thread that polls the segment and redraws its two windows.  One   *)
(* process-shared semaphore protects everything.                           *)
(*                                                                         *)
(* A message is its position in the order of posting (posted counts them), *)
(* a window is what it shows.  A client cancels its receive thread when it *)
(* leaves; the thread dies at its next cancellation point: sem_wait,       *)
(* usleep, or the write of a wrefresh inside the critical section.         *)
(*                                                                         *)
(* A step is one access to the segment: a statement such as client_count++ *)
(* is a load into a register of the process (tmp) and a store.  The reads  *)
(* of a poll, which changes nothing in the segment, are one step for each  *)
(* window.                                                                 *)
(*                                                                         *)
(* Two faults: a client is killed, wherever it is; the server is killed    *)
(* and started again, whenever, and initialises the segment under the      *)
(* clients that are still attached, store by store, the semaphore first.   *)
(* A second sem_init on a semaphore in use is undefined in POSIX; in the   *)
(* C library of the build it sets the value to 1 and nothing else.         *)
(***************************************************************************)
EXTENDS Integers, Sequences, FiniteSets

CONSTANTS Users,        \* client processes, each with its name
          MaxClients,   \* MAX_CLIENTS
          MaxMessages,  \* MAX_MESSAGES
          Rows,         \* messages that fit in win_chat
          None,         \* an inactive entry of the table
          MaxPosts,     \* bound: messages posted
          MaxKills,     \* bound: clients killed
          MaxRestarts   \* bound: second starts of the server

ASSUME LimitsAssumption == /\ MaxClients \in Nat \ {0} /\ MaxMessages \in Nat \ {0}
                           /\ Rows \in Nat \ {0} /\ MaxPosts \in Nat
                           /\ MaxKills \in Nat /\ MaxRestarts \in Nat
ASSUME UsersAssumption == IsFiniteSet(Users) /\ None \notin Users

VARIABLES sem, clients, client_count,       \* chat_room_t
          messages, msg_start, msg_count,
          posted,                           \* messages posted so far
          server, entry,                    \* the server: where it is, i of its loop
          pc, slot, tmp,                    \* per client: main, client_idx, register
          rpc, last_msg, last_client,       \* per client: receive_thread
          chatWindow,                       \* per client: what win_chat shows
          cancelled,                        \* clients whose thread is cancelled
          kills, restarts,                  \* faults so far
          before, outlived,                 \* observers: messages posted, and clients
                                            \* counted, before the server's last start
          spoilt, early                     \* observers: the last start found a client
                                            \* inside; one came in before it was done

tableVars == <<clients, client_count>>
ringVars == <<messages, msg_start, msg_count, posted>>
serverVars == <<server, entry>>
mainVars == <<pc, slot, tmp>>
pollVars == <<rpc, last_msg, last_client, chatWindow>>
faultVars == <<kills, restarts, before, outlived, spoilt>>
vars == <<sem, tableVars, ringVars, serverVars, mainVars, pollVars, cancelled,
          faultVars, early>>

Slots == 0 .. MaxClients - 1
Cells == 0 .. MaxMessages - 1
Active == {i \in Slots : clients[i] # None}
Contents == [i \in 1 .. msg_count |-> messages[(msg_start + i - 1) % MaxMessages]]

\* Who is between sem_wait and sem_post.
MainInside(u) == pc[u] \notin {"out", "typing", "cancel", "join"}
PollInside(u) == rpc[u] \in {"messages", "clients"}
ClientsInside == {<<"main", u>> : u \in {v \in Users : MainInside(v)}}
                 \union {<<"poll", u>> : u \in {v \in Users : PollInside(v)}}
Inside == (IF server = "print" THEN {<<"server", None>>} ELSE {}) \union ClientsInside

\* The clients that are in the table, those of them whose entry is no longer
\* their own, and the clients that client_count counts.
Seated(u) == pc[u] \notin {"out", "scan", "claim", "full", "uncount", "leaving", "left",
                           "cancel", "join"}
Orphans == {u \in Users : Seated(u) /\ clients[slot[u]] # u}
Counted == {u \in Users : \/ Seated(u) /\ pc[u] \notin {"enter", "entering"}
                          \/ pc[u] \in {"uncount", "leaving"}}

\* The server is between sem_init and the end of its initialisation.
Initialising == server \in {"count", "start", "messages", "clear"}

\* The segment as shm_open and ftruncate make it: zero, the semaphore too.
Init == /\ sem = 0
        /\ clients = [i \in Slots |-> None] /\ client_count = 0
        /\ messages = [i \in Cells |-> 0] /\ msg_start = 0 /\ msg_count = 0
        /\ posted = 0
        /\ server = "none" /\ entry = 0
        /\ pc = [u \in Users |-> "out"] /\ slot = [u \in Users |-> 0]
        /\ tmp = [u \in Users |-> 0]
        /\ rpc = [u \in Users |-> "none"]
        /\ last_msg = [u \in Users |-> 0] /\ last_client = [u \in Users |-> 0]
        /\ chatWindow = [u \in Users |-> <<>>]
        /\ cancelled = {}
        /\ kills = 0 /\ restarts = 0 /\ before = 0 /\ outlived = 0
        /\ spoilt = FALSE /\ early = FALSE

-----------------------------------------------------------------------------
(* The server: its initialisation and its loop.                            *)

\* sem_init, at the first start and, after a kill, at a second one: nothing
\* tests whether the segment is in use.
SemInit ==
  /\ \/ server = "none" /\ UNCHANGED restarts
     \/ server # "none" /\ restarts < MaxRestarts /\ restarts' = restarts + 1
  /\ sem' = 1
  /\ server' = "count" /\ entry' = 0
  /\ spoilt' = (ClientsInside # {}) /\ early' = FALSE
  /\ UNCHANGED <<tableVars, ringVars, mainVars, pollVars, cancelled, kills, before, outlived>>

InitCount ==
  /\ server = "count"
  /\ client_count' = 0 /\ outlived' = Cardinality(Counted)
  /\ server' = "start"
  /\ UNCHANGED <<sem, clients, ringVars, entry, mainVars, pollVars, cancelled, kills, restarts,
                 before, spoilt, early>>

InitStart ==
  /\ server = "start"
  /\ msg_start' = 0
  /\ server' = "messages"
  /\ UNCHANGED <<sem, tableVars, messages, msg_count, posted, entry, mainVars, pollVars,
                 cancelled, faultVars, early>>

InitMessages ==
  /\ server = "messages"
  /\ msg_count' = 0 /\ before' = posted
  /\ server' = "clear"
  /\ UNCHANGED <<sem, tableVars, messages, msg_start, posted, entry, mainVars, pollVars,
                 cancelled, kills, restarts, outlived, spoilt, early>>

InitEntry ==
  /\ server = "clear"
  /\ clients' = [clients EXCEPT ![entry] = None]
  /\ IF entry + 1 < MaxClients
     THEN entry' = entry + 1 /\ UNCHANGED server
     ELSE entry' = 0 /\ server' = "sleep"
  /\ UNCHANGED <<sem, client_count, ringVars, mainVars, pollVars, cancelled, faultVars, early>>

ServerWait ==
  /\ server = "sleep" /\ sem > 0
  /\ sem' = sem - 1 /\ server' = "print"
  /\ UNCHANGED <<tableVars, ringVars, entry, mainVars, pollVars, cancelled, faultVars, early>>

ServerPost ==
  /\ server = "print"
  /\ sem' = sem + 1 /\ server' = "sleep"
  /\ UNCHANGED <<tableVars, ringVars, entry, mainVars, pollVars, cancelled, faultVars, early>>

-----------------------------------------------------------------------------
(* main of a client.  MainWait is its three sem_wait: to register, to post *)
(* a line, and, after 'q', to leave; MainPost is the sem_post after each.  *)

MainWait(u) ==
  /\ sem > 0 /\ sem' = sem - 1
  /\ \/ pc[u] = "out" /\ pc' = [pc EXCEPT ![u] = "scan"]
     \/ pc[u] = "typing" /\ posted < MaxPosts /\ pc' = [pc EXCEPT ![u] = "pos"]
     \/ pc[u] = "typing" /\ pc' = [pc EXCEPT ![u] = "leave"]
  /\ early' = (early \/ Initialising)
  /\ UNCHANGED <<tableVars, ringVars, serverVars, slot, tmp, pollVars, cancelled, faultVars>>

\* What follows each of the critical sections.
AfterPost == [entered |-> "typing", full |-> "out", committed |-> "typing", left |-> "cancel"]

\* Once registered, the windows are drawn empty and the receive thread starts with
\* both counters 0; with no entry free, "Chat room is full. Cannot join."
MainPost(u) ==
  /\ pc[u] \in DOMAIN AfterPost
  /\ sem' = sem + 1
  /\ pc' = [pc EXCEPT ![u] = AfterPost[pc[u]]]
  /\ rpc' = [rpc EXCEPT ![u] = IF pc[u] = "entered" THEN "wait" ELSE @]
  /\ UNCHANGED <<tableVars, ringVars, serverVars, slot, tmp, last_msg, last_client, chatWindow,
                 cancelled, faultVars, early>>

\* The loop that looks for an inactive entry.
Scan(u) ==
  /\ pc[u] = "scan"
  /\ \/ /\ clients[slot[u]] = None
        /\ pc' = [pc EXCEPT ![u] = "claim"] /\ UNCHANGED slot
     \/ /\ clients[slot[u]] # None /\ slot[u] + 1 < MaxClients
        /\ slot' = [slot EXCEPT ![u] = @ + 1] /\ UNCHANGED pc
     \/ /\ clients[slot[u]] # None /\ slot[u] + 1 = MaxClients
        /\ pc' = [pc EXCEPT ![u] = "full"] /\ slot' = [slot EXCEPT ![u] = 0]
  /\ UNCHANGED <<sem, tableVars, ringVars, serverVars, tmp, pollVars, cancelled, faultVars, early>>

Claim(u) ==
  /\ pc[u] = "claim"
  /\ clients' = [clients EXCEPT ![slot[u]] = u]
  /\ pc' = [pc EXCEPT ![u] = "enter"]
  /\ UNCHANGED <<sem, client_count, ringVars, serverVars, slot, tmp, pollVars, cancelled,
                 faultVars, early>>

Release(u) ==
  /\ pc[u] = "leave"
  /\ clients' = [clients EXCEPT ![slot[u]] = None]
  /\ pc' = [pc EXCEPT ![u] = "uncount"]
  /\ UNCHANGED <<sem, client_count, ringVars, serverVars, slot, tmp, pollVars, cancelled,
                 faultVars, early>>

\* client_count++ of a client that comes, client_count-- of one that goes.
LoadCount(u) ==
  /\ \/ pc[u] = "enter" /\ pc' = [pc EXCEPT ![u] = "entering"]
     \/ pc[u] = "uncount" /\ pc' = [pc EXCEPT ![u] = "leaving"]
  /\ tmp' = [tmp EXCEPT ![u] = client_count]
  /\ UNCHANGED <<sem, tableVars, ringVars, serverVars, slot, pollVars, cancelled, faultVars, early>>

\* Mutation: the counter of clients is not decremented.
StoreCountOnlyUp(u) ==
  /\ \/ pc[u] = "entering" /\ client_count' = tmp[u] + 1 /\ pc' = [pc EXCEPT ![u] = "entered"]
     \/ pc[u] = "leaving" /\ UNCHANGED client_count /\ pc' = [pc EXCEPT ![u] = "left"]
  /\ tmp' = [tmp EXCEPT ![u] = 0]
  /\ UNCHANGED <<sem, clients, ringVars, serverVars, slot, pollVars, cancelled, faultVars, early>>

StoreCount(u) ==
  /\ \/ pc[u] = "entering" /\ client_count' = tmp[u] + 1 /\ pc' = [pc EXCEPT ![u] = "entered"]
     \/ pc[u] = "leaving" /\ client_count' = tmp[u] - 1 /\ pc' = [pc EXCEPT ![u] = "left"]
  /\ tmp' = [tmp EXCEPT ![u] = 0]
  /\ UNCHANGED <<sem, clients, ringVars, serverVars, slot, pollVars, cancelled, faultVars, early>>

FindPos(u) ==
  /\ pc[u] = "pos"
  /\ tmp' = [tmp EXCEPT ![u] = (msg_start + msg_count) % MaxMessages]
  /\ pc' = [pc EXCEPT ![u] = "write"]
  /\ UNCHANGED <<sem, tableVars, ringVars, serverVars, slot, pollVars, cancelled, faultVars, early>>

\* Name and text are copied into the cell.
Write(u) ==
  /\ pc[u] = "write"
  /\ messages' = [messages EXCEPT ![tmp[u]] = posted + 1]
  /\ posted' = posted + 1
  /\ tmp' = [tmp EXCEPT ![u] = 0]
  /\ pc' = [pc EXCEPT ![u] = "test"]
  /\ UNCHANGED <<sem, tableVars, msg_start, msg_count, serverVars, slot, pollVars, cancelled,
                 faultVars, early>>

\* Mutation: msg_count is not limited.
TestNothing(u) ==
  /\ pc[u] = "test"
  /\ pc' = [pc EXCEPT ![u] = "grow"]
  /\ UNCHANGED <<sem, tableVars, ringVars, serverVars, slot, tmp, pollVars, cancelled, faultVars, early>>

TestCount(u) ==
  /\ pc[u] = "test"
  /\ pc' = [pc EXCEPT ![u] = IF msg_count < MaxMessages THEN "grow" ELSE "shift"]
  /\ UNCHANGED <<sem, tableVars, ringVars, serverVars, slot, tmp, pollVars, cancelled, faultVars, early>>

\* msg_count++, or msg_start moved on by one.
LoadRing(u) ==
  /\ \/ /\ pc[u] = "grow" /\ pc' = [pc EXCEPT ![u] = "grown"]
        /\ tmp' = [tmp EXCEPT ![u] = msg_count]
     \/ /\ pc[u] = "shift" /\ pc' = [pc EXCEPT ![u] = "shifted"]
        /\ tmp' = [tmp EXCEPT ![u] = msg_start]
  /\ UNCHANGED <<sem, tableVars, ringVars, serverVars, slot, pollVars, cancelled, faultVars, early>>

\* Mutation: the oldest message is not dropped from a full ring.
StoreNoShift(u) ==
  /\ \/ pc[u] = "grown" /\ msg_count' = tmp[u] + 1
     \/ pc[u] = "shifted" /\ UNCHANGED msg_count
  /\ tmp' = [tmp EXCEPT ![u] = 0]
  /\ pc' = [pc EXCEPT ![u] = "committed"]
  /\ UNCHANGED <<sem, tableVars, messages, msg_start, posted, serverVars, slot, pollVars, cancelled,
                 faultVars, early>>

StoreRing(u) ==
  /\ \/ pc[u] = "grown" /\ msg_count' = tmp[u] + 1 /\ UNCHANGED msg_start
     \/ pc[u] = "shifted" /\ msg_start' = (tmp[u] + 1) % MaxMessages /\ UNCHANGED msg_count
  /\ tmp' = [tmp EXCEPT ![u] = 0]
  /\ pc' = [pc EXCEPT ![u] = "committed"]
  /\ UNCHANGED <<sem, tableVars, messages, posted, serverVars, slot, pollVars, cancelled,
                 faultVars, early>>

PthreadCancel(u) ==
  /\ pc[u] = "cancel"
  /\ cancelled' = cancelled \union {u}
  /\ pc' = [pc EXCEPT ![u] = "join"]
  /\ UNCHANGED <<sem, tableVars, ringVars, serverVars, slot, tmp, pollVars, faultVars, early>>

\* pthread_join returns and the process exits; its own memory is gone.
PthreadJoin(u) ==
  /\ pc[u] = "join" /\ rpc[u] = "none"
  /\ cancelled' = cancelled \ {u}
  /\ pc' = [pc EXCEPT ![u] = "out"]
  /\ slot' = [slot EXCEPT ![u] = 0]
  /\ last_msg' = [last_msg EXCEPT ![u] = 0]
  /\ last_client' = [last_client EXCEPT ![u] = 0]
  /\ chatWindow' = [chatWindow EXCEPT ![u] = <<>>]
  /\ UNCHANGED <<sem, tableVars, ringVars, serverVars, tmp, rpc, faultVars, early>>

-----------------------------------------------------------------------------
(* receive_thread.                                                         *)

\* Mutation: the thread reads the segment without sem_wait.
PollUnguarded(u) ==
  /\ rpc[u] = "wait" /\ u \notin cancelled
  /\ early' = (early \/ Initialising)
  /\ rpc' = [rpc EXCEPT ![u] = "messages"]
  /\ UNCHANGED <<sem, tableVars, ringVars, serverVars, mainVars, last_msg, last_client,
                 chatWindow, cancelled, faultVars>>

PollWait(u) ==
  /\ rpc[u] = "wait" /\ u \notin cancelled
  /\ sem > 0 /\ sem' = sem - 1
  /\ early' = (early \/ Initialising)
  /\ rpc' = [rpc EXCEPT ![u] = "messages"]
  /\ UNCHANGED <<tableVars, ringVars, serverVars, mainVars, last_msg, last_client,
                 chatWindow, cancelled, faultVars>>

NewMessages(u) == msg_count # last_msg[u]
NewClients(u) == client_count # last_client[u]

\* print_messages stops at the last row of the window.
Printed == SubSeq(Contents, 1, IF msg_count < Rows THEN msg_count ELSE Rows)

\* Mutation: the count is remembered before the window is drawn from it.
PollMessagesStale(u) ==
  /\ rpc[u] = "messages"
  /\ NewMessages(u) => u \notin cancelled
  /\ chatWindow' = [chatWindow EXCEPT ![u] = SubSeq(Printed, 1, last_msg[u])]
  /\ last_msg' = [last_msg EXCEPT ![u] = msg_count]
  /\ rpc' = [rpc EXCEPT ![u] = "clients"]
  /\ UNCHANGED <<sem, tableVars, ringVars, serverVars, mainVars, last_client,
                 cancelled, faultVars, early>>

PollMessages(u) ==
  /\ rpc[u] = "messages"
  /\ NewMessages(u) => u \notin cancelled
  /\ chatWindow' = [chatWindow EXCEPT ![u] = IF NewMessages(u) THEN Printed ELSE @]
  /\ last_msg' = [last_msg EXCEPT ![u] = msg_count]
  /\ rpc' = [rpc EXCEPT ![u] = "clients"]
  /\ UNCHANGED <<sem, tableVars, ringVars, serverVars, mainVars, last_client,
                 cancelled, faultVars, early>>

PollClients(u) ==
  /\ rpc[u] = "clients"
  /\ NewClients(u) => u \notin cancelled
  /\ last_client' = [last_client EXCEPT ![u] = client_count]
  /\ sem' = sem + 1
  /\ rpc' = [rpc EXCEPT ![u] = "wait"]
  /\ UNCHANGED <<tableVars, ringVars, serverVars, mainVars, last_msg, chatWindow, cancelled,
                 faultVars, early>>

\* The thread is cancelled: in sem_wait or usleep, or in a wrefresh, where it
\* holds the semaphore.
Cancelled(u) ==
  /\ u \in cancelled
  /\ \/ rpc[u] = "wait"
     \/ rpc[u] = "messages" /\ NewMessages(u)
     \/ rpc[u] = "clients" /\ NewClients(u)
  /\ rpc' = [rpc EXCEPT ![u] = "none"]
  /\ UNCHANGED <<sem, tableVars, ringVars, serverVars, mainVars, last_msg, last_client,
                 chatWindow, cancelled, faultVars, early>>

\* The process vanishes with its thread.  Nobody removes its entry, and a
\* semaphore it has taken stays taken.
Kill(u) ==
  /\ kills < MaxKills /\ kills' = kills + 1
  /\ pc[u] # "out"
  /\ pc' = [pc EXCEPT ![u] = "out"]
  /\ slot' = [slot EXCEPT ![u] = 0]
  /\ tmp' = [tmp EXCEPT ![u] = 0]
  /\ rpc' = [rpc EXCEPT ![u] = "none"]
  /\ last_msg' = [last_msg EXCEPT ![u] = 0]
  /\ last_client' = [last_client EXCEPT ![u] = 0]
  /\ chatWindow' = [chatWindow EXCEPT ![u] = <<>>]
  /\ cancelled' = cancelled \ {u}
  /\ UNCHANGED <<sem, tableVars, ringVars, serverVars, restarts, before, outlived, spoilt, early>>

-----------------------------------------------------------------------------
ServerNext == \/ SemInit \/ InitCount \/ InitStart \/ InitMessages \/ InitEntry
              \/ ServerWait \/ ServerPost

ClientNext(u) == \/ MainWait(u) \/ MainPost(u)
                 \/ Scan(u) \/ Claim(u) \/ Release(u) \/ LoadCount(u) \/ StoreCount(u)
                 \/ FindPos(u) \/ Write(u) \/ TestCount(u) \/ LoadRing(u) \/ StoreRing(u)
                 \/ PthreadCancel(u) \/ PthreadJoin(u)
                 \/ PollWait(u) \/ PollMessages(u) \/ PollClients(u) \/ Cancelled(u)
                 \/ Kill(u)

Next == ServerNext \/ \E u \in Users : ClientNext(u)

Spec == Init /\ [][Next]_vars

-----------------------------------------------------------------------------
(* Properties.                                                             *)

\* The server has initialised the segment, with no client inside from its sem_init
\* until it was done.
Clean == server \in {"sleep", "print"} /\ ~spoilt /\ ~early

\* Nobody was killed or cancelled inside: somebody can still look at the segment.
Usable == sem > 0 \/ Inside # {}

(* Every variable has its type; a client writes into a cell of the ring,   *)
(* and after a clean start the count stays within the ring.                *)
TypeOK ==
  /\ sem \in Nat
  /\ clients \in [Slots -> Users \union {None}] /\ client_count \in Int
  /\ messages \in [Cells -> Nat]
  /\ msg_start \in Cells /\ msg_count \in Nat /\ posted \in Nat
  /\ server \in {"none", "count", "start", "messages", "clear", "sleep", "print"}
  /\ entry \in Slots
  /\ pc \in [Users -> {"out", "scan", "claim", "full", "enter", "entering", "entered",
                       "typing", "pos", "write", "test", "grow", "grown", "shift", "shifted",
                       "committed", "leave", "uncount", "leaving", "left", "cancel", "join"}]
  /\ slot \in [Users -> Slots] /\ tmp \in [Users -> Int]
  /\ \A u \in Users : /\ pc[u] = "write" => tmp[u] \in Cells
                      /\ pc[u] = "grown" => tmp[u] \in Nat
  /\ rpc \in [Users -> {"none", "wait", "messages", "clients"}]
  /\ last_msg \in [Users -> Nat] /\ last_client \in [Users -> Int]
  /\ chatWindow \in [Users -> Seq(Nat)]
  /\ cancelled \in SUBSET Users
  /\ kills \in 0 .. MaxKills /\ restarts \in 0 .. MaxRestarts
  /\ before \in Nat /\ outlived \in 0 .. Cardinality(Users)
  /\ spoilt \in BOOLEAN /\ early \in BOOLEAN
  /\ Clean => msg_count <= MaxMessages

(* At most one of the server, the clients and their threads is between     *)
(* sem_wait and sem_post, and then the semaphore is taken, whoever is      *)
(* killed, unless the server's last sem_init found a client inside.  Such  *)
(* a start lets one more in, and so does each that follows, until one      *)
(* finds nobody inside: it restores the exclusion.                         *)
ExclusiveAccess ==
  sem + Cardinality(Inside) <= IF spoilt THEN 1 + restarts ELSE 1

(* The semaphore synchronises the access to the chat room: after a clean   *)
(* start it is taken only while somebody is inside and will post it.       *)
SemaphoreNotLost == Clean /\ sem = 0 => Inside # {}

(* client_count is the number of active entries, and a client that chats   *)
(* has its own entry; the other entries are those of clients that were     *)
(* killed.  After a second start of the server, if it was clean, the count *)
(* is too small by exactly the clients that outlived the first, less those *)
(* killed: each of them later takes away an entry, its own or another      *)
(* client's, that it was not counted in.  Between the two stores of a      *)
(* client that comes or goes the count and the entries differ, and a       *)
(* client killed there leaves them so, but also the semaphore taken.       *)
TableConsistent ==
  /\ Clean /\ Usable
  /\ \A u \in Users : pc[u] \notin {"enter", "entering", "uncount", "leaving"}
  => /\ client_count + outlived - Cardinality(Active) - Cardinality(Orphans) \in 0 .. kills
     /\ restarts = 0 =>
          /\ Orphans = {} /\ client_count = Cardinality(Active)
          /\ Cardinality(Active) <= Cardinality(Counted) + kills

(* The ring holds the newest messages since the server's last start, if it *)
(* was clean: all of them until it is full, in the order in which they     *)
(* were posted, as long as somebody can still look at it: a client killed  *)
(* between its write and its count leaves the semaphore taken.             *)
RingHoldsNewest ==
  /\ Clean /\ Usable
  /\ \A u \in Users : pc[u] \notin {"test", "grow", "grown", "shift", "shifted"}
  => /\ msg_count = IF posted - before < MaxMessages THEN posted - before ELSE MaxMessages
     /\ Contents = [i \in 1 .. msg_count |-> posted - msg_count + i]

(* Until the ring has overflowed, and in a window that is high enough,     *)
(* every poll of a client leaves all messages on its screen, in order,     *)
(* unless the client has outlived the server, whose new count it may take  *)
(* for the old one, or the server's last start was not clean.              *)
PollShowsAllUntilFull ==
  [][\A u \in Users :
        /\ PollMessages(u) /\ Clean
        /\ posted - before <= MaxMessages /\ Rows >= MaxMessages
        /\ Seated(u) /\ u \notin Orphans
        => chatWindow'[u] = Contents]_vars
=============================================================================
