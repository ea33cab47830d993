# Specifications of the Eltex homework programs

TLA+ models of the concurrent programs in this repository, the TLC runs that
check them, and TLAPS proofs about each of them. The repository is a
collection of C programs, one directory per assignment; the ones with a logic
of their own worth specifying are the servers and the IPC programs. busybox
and the kernel images under `hw18_fs_arm_busybox` are third-party.

## 1. Inventory

| Component | State | Operations | What is hard | What makes it correct |
|---|---|---|---|---|
| Thread pool server, `hw16_sockets/p2_server_template/parallel_server_consumer-produser` | ring of sockets with `front`, `rear`, `count`; one mutex, `not_empty`, `not_full` | `main` accepts and `queue_push`es; ten `worker_thread`s `queue_pop`, answer, close | interleavings, lost and spurious wakeups, the full ring | every accepted socket is served exactly once; nobody sleeps for ever |
| Thread-per-client server, `.../parallel server` | one malloc'ed cell per client, the detached threads, the static `struct tm` of `localtime` | `malloc`, `accept`, `pthread_create`; `client_handler` | ownership on the error paths, the shared static buffer | no leak, no double free, the reply is the time |
| Process pool server, `.../parallel_server_with_pool_servers` | `workers[]` with `busy`, socketpairs with descriptors and status bytes under way, copies of descriptors | `send_fd`, `recv_fd`, `spawn_worker`, `find_free_worker`, the status loop | a blocking read in the status loop, descriptors shared between processes, workers that die | every copy is closed; clients are answered |
| Multiprotocol server, `.../multiprotocol_server` | an epoll set with one TCP and one UDP socket, the buffer of the UDP socket | the epoll loop; a client that says Hello over TCP and Hi over UDP | a blocking TCP read holds up UDP; a client killed before it writes; a full buffer | every client gets both answers |
| Shared memory chat, `hw14_shmemory/part2` | `chat_room_t`: semaphore, table of clients, ring of messages; per client the counters the receive thread compares | server prints; client registers, posts, leaves; receive thread polls | one semaphore for all processes, cancellation inside the critical section, the full ring, clients killed between two stores, a second start of the server at any moment | exclusion; table and counter agree; the ring holds the newest; polls show them |
| Message queue chat, `hw13_mqueue/part2` | table of clients, bounded queues | register, broadcast, receive | a blocking `mq_send` to a client that has left; a queue opened by name that belongs to another run; clients never removed | one order of texts for all; a broadcast ends |
| Raw echo service, `final_hw_1` | `clients[]` with a counter each; frames on the wire | client builds a frame, sends, waits once; server finds or adds the client, answers in place | loss, frames of others, the buffer that is request and answer at once, the full table | the number counts the messages of that client since CLOSE; the client gets the answer |
| CLI and drivers, `final_hw_2` | `drivers[]` in three kinds of processes, a unix socket, epoll | `create_driver`, `send_task`, `get_status`, `exit` | private copies of the table after `fork`, non-blocking reads, an edge-triggered listening socket | a driver that connects is found, and a task reported sent reaches it (neither holds: see 3) |
| Shops, `hw11_thread` | shops with a mutex each, the counter `buyers_finished` | buyers buy, the loader loads | buyers and loader on one shop; the end | goods are conserved; every demand is met and the program ends |
| Shells, `hw10_proc/p3_bash`, `hw12_pipe/part3` | children and pipe ends | run a command, run a pipe | failing forks, copies of the pipe ends, `wait(NULL)` | the prompt comes back; children are waited for |
| File manager, `hw9_vfs/file_manager` | two panels | load, move, scroll, enter | failing `opendir`, uninitialised memory, the last row | the selection is an entry and on the screen; `..` leads up (it does not always: see 3) |
| Phone books, `hw4`, `hw5`, `hw6` | an array of records; a linked list | add, delete, find | the full and the empty book, pointers at both ends of the list | both hold and list the same sequence of records |
| Character device, `hw20_modules_linux/p2` | a string in a fixed buffer under an rwlock | seek, read, write | `strlen` outside the lock, faults in the copies, the last byte | nobody leaves the buffer; no mixture of two writes |
| IPC handshakes (`hw13` part 1, `hw14` part 1, `hw16` p1), sockets p3 to p7, process and pipe exercises, password check, calculators | a message each way | straight-line | little | not modelled: see 6 |
| Pure algorithms (`hw1`, `hw2`, `hw3`, the IP checksum) | none | bits, spiral, substring, sum | boundaries | not modelled: see 6 |

How they interact. The servers and their clients speak over TCP: a connection
waits in the listen backlog, is accepted, answered, and closed; the client
blocks in `recv` until there is an answer or an end of file. Inside a server
the parts share memory (ring, cells, static buffer) or a socketpair. The chat
programs share a segment; the raw service exchanges frames over a wire that
can lose them and that carries other traffic. `PROJECT.json` lists every
component and every hazard at its line.

## 2. Modules

    TimeService                    what the three time servers promise
      <- ThreadPoolServer          implements it   (ThreadPoolServerProofs)
      <- ParallelServer            implements it   (ParallelServerProofs)
      <- WorkerPool                implements it   (WorkerPoolProofs)
    ShmChat                        segment, server, clients, receive threads
                                                   (ShmChatProofs)
    RawEcho                        server, clients, wire   (RawEchoProofs)
    MqChat                         server, clients, bounded queues   (MqChatProofs)
    Exercises                      one of the smaller programs at a time
                                                   (ExercisesProofs):
      Shops                          buyers, loader, main
      PhoneBooks                     the same commands to
        PhoneBook                      the reference: a sequence of records
        CallBook                       the array of hw4 and hw5
        AbonentList                    the doubly linked list of hw6
      PipeShell                      shell, children, pipes
      MultiServer                    epoll server and its client
      CharDevice                     seek, read and write of the device
      FileManager                    two panels over a tree of directories
      DriverCli                      CLI, connection handler, drivers
                                                   (DriverCliProofs)
    MC<module>                     the constants of the runs

An action stands for the code between two points where another thread or
process can observe or influence the step: a lock or a wait, a system call, a
shared store. What a step does without being observed is one action. The map
in `PROJECT.json` gives the lines of every definition. Definitions marked
*Mutation* are variants of the definition below them, with a plausible bug;
they are not part of any specification and show that the properties can fail.

**TimeService.** A connection is `idle`, `waiting` or `answered`; the server
answers a waiting one, then hangs up; without an answer it may hang up only on
the clients in `mayRefuse`, which each server maps to its own state: nobody for
the thread pool; for the thread per client the one client that main has accepted
and is calling `pthread_create` for (`Unhandled`), so that a client that has its
thread must be answered; for the process pool everybody, but only after a crash.
Fairness: nobody waits for ever.

**ThreadPoolServer.** `data`, `front`, `rear` and `count` are the
fields of `socket_queue_t`; `mutex` is the owner of the mutex, and each
thread has a program point `pc` and its `sock`. `Lock` is `pthread_mutex_lock`; `PushWait` and
`PopWait` are the test of the loop and the wait it leads to; `PushStore` and
`PushCount` (`PopTake`, `PopCount`) split the update of the ring from that of
the count, so that a missing lock shows. A wakeup is a move from the waiters
of a condition to those that want the mutex. `SpuriousWakeup` is what POSIX
allows, bounded by `MaxSpurious`. A client is `idle`, `waiting` or, when the
server hung up without an answer, in `error`; it connects again and again.

**ParallelServer.** The heap is a set of cells; `Malloc`, `Accept`,
`AcceptFails`, `Create`, `CreateFails` are the turns of `main`. A thread reads
and frees its cell, takes the time, calls `localtime`, which writes the static
`tm`, and formats in two reads of it (`StrftimeHi`, `StrftimeLo`): a time is
split in two fields, as hours and minutes are.

**WorkerPool.** `refs[c]` is the set of processes and messages that hold a
copy of a descriptor; a connection is closed when the set becomes empty. A
forked worker inherits `client_fd`. A worker can be killed at any point; the
peer of a datagram socketpair is not told, so that `main` then blocks in
`read` if it has to wait for that worker.

**ShmChat.** `sem` is the semaphore's value. A step is one access to the
segment: `Claim` and `Release` store `active`, `LoadCount` and `StoreCount` are
the two halves of `client_count++` and `client_count--`, `FindPos` to
`StoreRing` are the posting of a message; `tmp` is the register, or local, of the
client between a load and a store. `MainWait` and `MainPost` are the three pairs
of `sem_wait` and `sem_post` of `main`. The polls change nothing in the segment
and are a step for each window.
`PthreadCancel` marks a thread; it dies at its next cancellation point:
`sem_wait`, `usleep`, or a redraw, which writes to the terminal inside the
critical section. A message is its position in the order of posting, a window
is the sequence it shows. The names in the users' window are left out, the
counter that decides about its redraw is kept. `Kill` removes a client with
its thread between any two steps: its entry stays, and the semaphore too if it
was inside. `SemInit`, `InitCount`, `InitStart`, `InitMessages` and `InitEntry`
are the server's initialisation, store by store. The segment starts zeroed, the
semaphore included. After a kill the server can be started again at any moment,
also while clients are inside: `sem_init` looks at nothing. POSIX leaves a
second `sem_init` on a semaphore in use undefined; the C library sets the value
to 1, and that is what the model does. A start is *clean* if its `sem_init` found
no client inside (`spoilt` observes that) and none came in before the last entry
was cleared (`early`). `before` and `outlived` observe what was posted, and who
was counted, before the last start.

**RawEcho.** A frame is a record of the header fields the programs read and
write. `Reply` follows the assignments of the server in their order, because
`reply_ip` and `ip`, `reply_udp` and `udp` are the same bytes. `heard` and
`number` are observers: the messages the server has received from a client
since its last CLOSE, and the number in its last answer.

**MqChat.** A queue is a user and the number of its run, because a queue that
was unlinked and created again under the old name is another one; the server
keeps the old one open. `ServerSend` is one `mq_send` of the loop over the
table and blocks on a full queue. A text is its position in the order in which
texts were posted; `got` keeps the messages a client has received in its run,
so that `got` and what waits in its queue are the stream the client sees.

**DriverCli.** `drivers` is the table of the CLI, `known` that of the handler,
forked before the first driver exists. `edge` is the listening socket's place
in epoll's ready list: a connection sets it, `HandlerAccept` takes it and
accepts one connection. A driver writes its pid after `connect`, so that the
handler's non-blocking read can come before or after it. `send_task` looks the
driver up, finds no socket, and sets the end of the task all the same; the
program then prints that the task was sent. `TaskDelivered` states what it prints.

**Shops.** A critical section is two steps, lock and read, write and unlock,
so that a missing lock loses an update. `supplied` and `wanted` observe what
came in and what was asked for.

**PipeShell.** `readers[p]` and `writers[p]` are the processes that hold a copy
of an end of pipe `p`; a child inherits all that the shell holds, also the ends
of an earlier pipe whose `fork` failed. A command is its behaviour at the pipe:
the left one writes `todo` items and blocks on a full pipe or dies of SIGPIPE,
the right one reads to the end or stops before. The shell of hw10 is the branch
without a pipe.

**MultiServer.** The client program and the server, with the `read` after
`accept` as a step of its own, in which the server blocks. The UDP socket
holds `UdpSize` datagrams and drops the others.

**CharDevice.** `strlen` and `copy_from_user` go byte by byte, `copy_to_user`
under the read lock is one step. A byte is its writer, so that a mixture of two
writes shows. A fault of `copy_from_user` leaves zeros in the rest of its
destination, as the kernel's does.

**FileManager.** A panel is the fields of `FileList`; `load_directory`,
`update_path` and `move_selection` are operators on it. The tree is a constant,
each directory with its entries in the order `compare_entries` gives.
Uninitialised memory is a choice: the panels' fields before the first
`load_directory`, and `newpath`, which may still hold what the last call left.
`Launch` falls back to the root for a panel whose `realpath` fails, and a path
that is too long leaves the old one.
A read in front of the array may end the program (`crashed`).

**Exercises.** These programs share nothing. A behaviour is one of them being
run, so that one run of TLC checks them all; the others stay in their initial
state, in which no fair action of theirs is enabled (`Terminates` and the
other leads-to properties speak of states only the running program can reach).

**PhoneBooks.** One user types the same commands into the three books; the
comparison ends with `exit`, with a failing `malloc`, or when the array
refuses a record. `Shifted` gives the last slot of a full array what lies
behind the array (`Garbage`), since the loop of `deleteAbonent` reads there.
The walks of the list are the recursive function `NodeAt`.

Left out everywhere: logging, wording, the content of buffers, and errors of
system calls that end the program at once.

## 3. Runs

| Run | Instance | Shows |
|---|---|---|
| `thread_pool` | 3 clients, 2 workers, ring of 2, 1 spurious wakeup | ownership, no lost wakeup, FIFO; implements TimeService with its liveness: no client is hung up on |
| `thread_per_client` | 2 clients, 2 threads, 2 cells, 1 failure, 1 tick | ownership of cells and sockets, also when `accept` or `pthread_create` fails; implements TimeService: nobody is hung up on unanswered but a client whose `pthread_create` fails |
| `thread_per_client_time` | the same, 2 ticks | *violation*: a reply that is no time at all |
| `worker_pool` | 3 clients, 2 workers and room for a third, 2 crashes | worker 0 does all the work, no descriptor is left; main comes back to `accept` unless the worker it waits for is dead and has left no status; implements TimeService: no client is hung up on before a crash, and until one nobody waits for ever |
| `shm_chat` | 2 users, 2 entries, ring of 2, 3 posts, 1 kill, 1 restart, symmetry | exclusion, table, ring, polls until the ring is full; what of this survives a client killed between any two accesses and a second start of the server at any moment |
| `shm_chat_cancel` | 2 users | *violation*: the semaphore is lost with a cancelled thread |
| `raw_echo` | 2 clients, table of 2, 4 frames, 1 lost, 1 foreign | numbering per client with one entry each; back to the prompt |
| `raw_echo_ports` | 1 client | *violation*: no answer passes the client's tests |
| `mq_chat` | 2 users with 2 runs each, queues of 1, table of 3, 2 texts | one order of texts; no broadcast ends before everyone registered has its text; a broadcast is held up only by a full queue nobody reads; until somebody leaves everyone hears everything |
| `driver_delivery` | 3 pids, 2 entries, backlog of 2, timers of 1 and 2 s | *violation*: a task reported sent to a connected driver goes nowhere |
| `exercises` | 2 buyers with a demand of 3 in 2 shops with 0 or 1, loads of 2; array of 3, list of 4 cells, 3 records with 2 names; 3 children, 2 pipes of size 1, 2 failing forks; 3 clients of the multiprotocol server, UDP buffer of 1, 1 killed; 2 processes at a device of 2 bytes and the terminator; 4 directories, panels of 2 lines, 1 failing call; 2 drivers, backlog of 2 | goods conserved, demands met and the end; array and list agree with the reference, no leak, no pointer to a freed node; children waited for, the prompt comes back; both answers; no access outside the device's buffer, no mixed string; the selection on the screen; a driver is rejected and ends unless it shared an edge |
| `file_manager_up` | the same tree, no failing call | *violation*: `..` does not lead to the root |

What a reader of the code may want to know of these results:

- `ReplyIsCurrent`: `localtime` returns one static `struct tm`; a thread that
  formats while another one fills it sends a mixture. The thread pool has the
  same call; its model leaves the text of the reply out.
- `SemaphoreNotLost`: a client that leaves while its receive thread draws
  takes the semaphore with it; server and clients then wait for ever.
- `AnswersAccepted`: the answer carries the server's port as its destination,
  because request and answer are the same bytes.
- `UpLeadsToParent`: in a directory of the root `..` cuts the path in place and
  leaves `newpath` unwritten; `realpath` resolves what is there. That can be what
  the last call left, for instance the directory the panel is in, and then the
  panel does not move.
- `TaskDelivered`: the handler was forked with an empty table and looks drivers
  up in that copy; it rejects every driver, and the CLI's table never gets a
  socket to send to. The property asks for delivery only where nothing else
  stands in its way: the driver waits for commands, and the handler has taken
  its connection and its pid. `NobodyReached` proves that no order of steps
  helps, so that the lines of the handler that treat data from a known driver
  are never reached either.
- `ExclusiveAccess` after a second start of the server: if its `sem_init` finds a
  client inside, one more can come in, and the first then posts a second time;
  the next start that finds nobody inside restores the exclusion.
- `TableConsistent` after a second, clean start of the server: `client_count` is too
  small by exactly the clients that outlived the first, so that it can become
  negative, and each of them removes an entry it was not counted in. A client
  killed between marking its entry and counting it leaves the two apart for
  good, but also the semaphore taken: nobody looks at them before a new start.
- `ChildrenReaped` allows one child for every second `fork` that failed: the
  shell never waits for it, and a later `wait(NULL)` can take it for the
  command it was called for. `PromptReturns` names the one way in which that
  blocks the shell: such a child writes into a pipe whose read end the shell
  itself still holds.
- `BothAnswered` excepts a client whose datagram met a full buffer: neither
  side repeats it.
- `SelectionOnScreen` allows an empty panel only after a failed `opendir`; an
  arrow there makes `selected` and `start_line` -1. It says when that can happen
  and does not exclude it.
- `InsideBuffer`: the length read outside the lock does no harm, because the
  last byte of the buffer is never anything but the terminator.
- `PollShowsAllUntilFull` stops where its name says: `msg_count` no longer
  changes in a full ring, so nothing is redrawn afterwards. It also needs a
  window of at least `MAX_MESSAGES` rows (`Rows >= MaxMessages`); a smaller
  one shows the oldest messages and not the newest.
- `NumberedPerClient` is checked with room for every client in the table; one
  client more than the table holds is counted on somebody else's entry.
- `BroadcastEnds` names the two ways in which the server of the queue chat
  stops for ever: a client has left and its queue is full; or a client was
  started again before its first registration was read, waits to send the
  second one without a receive thread, and its queue is full.
- `OnlyFirstWorkerServes`: the blocking read of the status makes the process
  pool a sequential server.

Bounds. Where a limit matters (slots of the ring, entries of the table, length of
a queue) the instance can reach and exceed it, so that the full case happens;
only the table of `raw_echo` has room for all, as its property needs. The
counters `MaxTime`, `MaxFailures`, `MaxCrashes`, `MaxPosts`, `MaxSends`,
`MaxLoss`, `MaxNoise`, `MaxRuns`, `MaxSpurious`, `MaxKills`, `MaxRestarts`,
`MaxForks`, `MaxPipes`, `MaxData`, `MaxHangups`, `MaxMishaps` limit what the environment may
do and stand in the guards. Clients of the time servers connect again and again, so
that indices wrap without a bound. The capacities are those of the code scaled
down (ring 2 for 16, workers 2 for 10, a device of 2 bytes for 15, panels of 2
lines): nothing in the code depends on the
number except the comparisons with it. The theorems below remove the bounds
for the properties they state.

`MaxStock` of `Shops` is of another kind: the loader starts a
round only while no shop holds more, so that stocks stay finite. It restricts
how far the loader can run ahead of the buyers, not what they do to a shop.

`UncleanBound` of `MCShmChat` is a state constraint: after a start of the server
that was not clean, `client_count` may drift without limit, and only
`ExclusiveAccess` and the types still say anything; such states are explored
while no message is posted, nobody was killed and the count is that of some
table. The theorems about the chat have no such bound. The drivers of `exercises`
have as many pids as their table has entries, so that `create_driver` is refused
only in the instance of `driver_delivery`; `ExercisesTypes` covers every number.

Fairness. Weak fairness of each thread's or process's step: the scheduler
runs what can run. The mutex of the thread pool is granted in no particular
order: the liveness half of `ImplementsTimeService` needs strong fairness for
no thread but only that the mutex, when free and wanted, is taken by somebody.
In `Shops` a thread sleeps for a second or more between two uses of one mutex,
so that one that waits for it gets it: strong fairness per thread. In `MqChat`
the server, the receive threads and a client that has decided to leave go on;
nobody has to start, to type or to register. In `DriverCli` the handler and
the drivers go on, the user types or not. In `WorkerPool` main and the living
workers go on. In `PipeShell` shell and children are scheduled, and a command
ends when its input ends or its output is written; in `MultiServer` the server
and a client that has started go on; `CharDevice` and `FileManager` have no
liveness property and no fairness. Clients are assumed to read what
they are sent, never to connect; `SpuriousWakeup`, `Tick`, `Crash`, `Lose`,
`Noise`, `Kill`, `SemInit`, `HangUpCaller` and every failure have no
fairness.

`CHECK_DEADLOCK FALSE` stands where the system really can stop: after a
worker's death (`worker_pool`), after the loss of the semaphore (`shm_chat`,
`shm_chat_cancel`), after a lost frame or the last frame allowed (`raw_echo`),
when the server of `mq_chat` blocks or all runs are used, when the user of the
CLI stops (`driver_delivery`, `exercises`), and where the program ends
(`exercises`, `file_manager_up`).

## 4. Proofs

Every theorem holds for all values of the constants that satisfy the named
assumptions of its module: any number of clients, threads, users or processes,
any capacity, and any value of the bounds on failures, kills, posts and sends.
Each rests on an inductive invariant; there is a lemma for each of its parts,
with a step per action.

| Module | Theorem | States |
|---|---|---|
| `ThreadPoolServerProofs` | `TypeCorrect`, `Ownership`, `WakeupsKept` | `[]TypeOK`, `[]SocketOwnedOnce`, `[]NoLostWakeup` |
| | `ClientsAnswered` | `[]NoClientError` (checked by TLC as part of the refinement) |
| | `Fifo` | `QueueIsFifo` |
| | `Refinement` | `Abstract!Safety`, the safety part of TimeService |
| `ParallelServerProofs` | `TypeCorrect`, `CellOwnership`, `SocketOwnership` | `[]TypeOK`, `[]CellOwnedOnce`, `[]SocketHandledOnce` |
| | `Refinement` | `Abstract!Safety` |
| `WorkerPoolProofs` | `TypeCorrect`, `OneWorkerServes`, `NoDescriptorLeaks` | `[]TypeOK`, `[]OnlyFirstWorkerServes`, `[]NoDescriptorLeft` |
| | `Refinement` | `Abstract!Safety` |
| `ShmChatProofs` | `TypeCorrect`, `Exclusion`, `Table`, `Ring` | `[]TypeOK`, `[]ExclusiveAccess`, `[]TableConsistent`, `[]RingHoldsNewest` |
| | `PollShowsAll` | `PollShowsAllUntilFull` |
| `MqChatProofs` | `TypeCorrect`, `Order` | `[]TypeOK`, `[]TotalOrder` |
| | `Reach` | `BroadcastReachesAll` |
| `RawEchoProofs` | `TypeCorrect` | `[]TypeOK`, also with a full table |
| | `Numbering` | `[]NumberedPerClient`, if the clients fit in the table |
| `DriverCliProofs` | `DriverTypes`, `NobodyReached` | `[]DriverTypeOK`, `[]NoDriverReachable` |
| | `CliMovesNobody` | `[][CliStep => UNCHANGED <<stage, inbox>>]_driverVars`: a task or an exit changes nothing at a driver |
| `ExercisesProofs` | `ReadsInside`, `WritesAreWhole` | `[]InsideBuffer`, `[]StringIsLastWrite` of `CharDevice` |
| | `SelectionStays` | `[]SelectionOnScreen` of `FileManager` |
| | `PromptFindsReaped` | `[]ChildrenReaped` of `PipeShell` |
| | `NoGoodsLost`, `LoaderStaysToTheEnd` | `[]GoodsConserved`, `[]LoaderLeavesLast` of `Shops` |
| | `MutexesFreeAtEnd` | `[]DestroyedFree`: when main destroys the mutexes of the shops, none is held |
| | `ThreeBooksAgree`, `NoCellLost` | `[]BooksAgree`, `[]AllocatedIsReachable` of `PhoneBooks` |
| | `NoCallerLost` | `[]CallersKept` of `MultiServer` |
| | `ExercisesTypes` | `[]TypeOK` of `Exercises` |

**Thread pool.** `IInv` has seven parts: the types; mutual
exclusion (a thread is inside exactly if it holds the mutex); the ring (`rear`
is `count` cells after `front`, corrected for a thread between the two halves
of an update); ownership (the live cells, main's socket and the workers'
sockets are the accepted connections, without repetition); wakeups (the
sleeping threads against `count` and the threads already woken); a reply for
every client whose connection is answered or closed; and no client in error.
None of the properties is inductive alone: ownership needs the ring to know that the cell
a worker takes is live, the ring needs mutual exclusion to know that nobody is
in the middle of another update, and wakeups need both to count. `Fifo` writes
the contents as the entries from `front` on and shows with two lemmas on such
windows (`EntriesAppend`, `EntriesTail`) what storing behind the last entry and
advancing `front` do to them, across the wrap of the index.

**Thread per client.** What a thread handles is the content of its cell until
it has read it, and its local afterwards; cells and sockets of different
threads and of main are apart, and no cell and no socket is without a holder.
The last two parts make the counts in the properties exact. Assumed: main is
no handler.

**Process pool.** main serves one client at a time; between handing over a
descriptor and reading the status, worker 0 is at one of five points, and the
set of copies and the state of the connection are functions of these points
(`Phase`, `RefsOK`, `ConnOK`). That only worker 0 serves needs one initial
worker at least (the code starts two).

**Shared memory chat.** `ExclusiveAccess` is inductive: `sem_wait` takes from the
value what it adds to those inside, `sem_post` gives it back, and a start of the
server adds one to the clients it finds inside. The other parts speak of clean
starts: there one process at most is inside and the semaphore is then taken
(`Alone`); `Quiet` says how far the server's initialisation has come; `Reads`
that what a client inside has loaded is still so, and only for that the stores
are right. `TableInv` counts: `client_count` plus the clients that outlived a
server exceeds the number of clients counted by no more than the kills, and
while the semaphore is not lost by no less than the entries whose owner is gone.
`RingInv` describes the ring in its two states, settled and between the
write of a message and the store that counts it; `WindowInv` says what a
window shows of a ring that never was full. The users are a finite set.

**Queue chat.** The texts waiting for the server are exactly those it has not
taken up, in order (`PostInv`), so that it takes up the next number each time;
a client's stream is in order and complete up to the broadcast that goes on,
where "complete" depends on whether the loop has come past one of its entries
(`Heard`); who is not listed has heard no text; queues of later runs are empty
and not listed (`RunInv`), so that a new run starts with an empty stream. The
users are a finite set, which the bound on posts needs. `Reach` adds `Passed`:
a client that has an entry behind which the loop has come has the message in
its stream, and keeps it when it reads, when others leave, and when a queue of
an earlier run is still in the table.

**Raw echo.** The bound on the counters is the hard part of the types: requests
in flight will still be counted, so `Budget` ranks the requests in the server's
queue by the sends they stand for. `Numbering` has the hypothesis
`Fits == IsFiniteSet(Clients) /\ Cardinality(Clients) <= MaxClients`: with one
client more the code counts it in the last entry, and the property fails.

**CLI and drivers.** The conjunction of the types and `NoDriverReachable` (the
handler's table is empty, the CLI's has no socket, nobody has a command to read)
is inductive. `DriverKeeps` is used twice: for `DriverSpec` alone and, in
`ExercisesProofs`, within the whole.

**Device, file manager, shell.** Proved of the composed specification: a step of
`Exercises` is a step of each program or leaves it alone. The device's invariant
relates each process's locals to the buffer and keeps the last byte zero; the
file manager's assumes only that no directory is empty (each holds at least
`..`); the shell's counts for each of its points the children it has still to
wait for.

**Shops.** `ShopsInv` says that who stands between lock and unlock holds the
mutex and that what it has read is what the shop, or the counter, still holds
(`InShop`, `AtCounter`); that `buyers_finished` is the number of buyers that are
done; and that goods are conserved. Conservation alone is not inductive: the
write of a buyer is computed from its local, and only `InShop` says that the
local is current. `ShopsEnd` goes on from there: who is on the way to the counter
wants nothing more, so that a loader that finds all counted leaves nobody
behind, and a mutex that is held is held by a thread inside, so that none is held
when main destroys them. Assumed: the buyers are a finite set and the loader is
none of them.

**Phone books.** `BooksInv` says that the first `count` slots of the array are
the reference book (`InArray`), that the allocated cells form a chain in the
book's order with `prev` the inverse of `next` and no pointer out of a free
cell (`Chain`, `Linked`), and that the three showed the same so far.
`ChainAppend` and `ChainRemove` are what the assignments of `hw6/struct.c` do to
a chain, the latter for the head, the middle, the end and the only element;
`WalkFollows` and `ListRead` say that the walk from `head` is the chain.
`ArrayDelete` is the shifting loop, which may copy the record behind the end
into the last slot: `InArray` looks only below `count`.

**Multiprotocol server.** `ReportedIsThere`: what `epoll_wait` has reported is
still in the socket when the server comes to it, although it may have blocked
in a `read` in between, so that `accept` and `recvfrom` never block. `CallersKept`
needs that, and that a connection is closed only after the answer or after the
end of its client (`ClosedAnswered`).

**Induction.** The library's induction theorems take an operator as a parameter,
which the provers cannot instantiate. Two facts stand in for them: a non-empty
set of numbers has a least element (`LeastNumber`), and a non-empty set of
subsets of a finite set has a smallest one (`SmallestSubset`), both from the
well-foundedness of `<` (`WFMin` with a set, not a predicate). A statement about
all lengths or all subsets is proved by taking the smallest counterexample. This
gives the walk of the list, and the sums: `Total` is a fold, defined by the choice
of a recursive function on the subsets; `SumsExist` shows that there is one,
`SumsUnfold` its equation, and `TotalChange` that a sum changes by what one
summand does.

Only model-checked, and why:

- every liveness property (`MainReturns`, `BackToPrompt`, `BroadcastEnds`,
  `EveryoneHears`, `RejectedOrOverlooked`, `Terminates`, `PromptReturns`,
  `BothAnswered`) and the fairness part of the three refinements: liveness under
  fairness is beyond the prover;
- the five runs that show a violation.

Every invariant and every action property of a passing run is the statement of
a theorem. Some of the others state what no run names, the safety half of
liveness properties that the runs check on their instances:

- `LoaderLeavesLast` (with `Terminates`): the loader ends its rounds by
  `buyers_finished`, and no increment of it is lost, so that nobody is left at an
  empty shop; main, which joins them all, destroys free mutexes (`DestroyedFree`);
- `CallersKept` (with `BothAnswered`): the server reads once from a connection and
  closes it; a client that lives is never closed without its answer, because
  the read waits for what it writes.

## 5. Plan

The order was: the three time servers with their common promise, the chat in
shared memory, the raw echo service, the chat over queues, CLI and drivers,
the shops, the phone books, the proofs about the thread pool; then the faults
of `ShmChat` and `WorkerPool`, the shells, the multiprotocol server, the device
and the file manager; then the proofs about the servers, the chats, the device, the
file manager and the shell; and at last those about the shops, the phone books
and the multiprotocol server, for which the laws of sums and walks had to be
proved first. What is left:

1. The list of users in the chat's window (`hw14_shmemory/part2/client.c:97`),
   which is stale after a leave and a join between two polls: the only hazard
   without a property, since the model leaves the names in the window out.
2. The unmodelled parts of the raw echo service and of the driver's handler
   named below.

## 6. Not modelled

- `hw18_fs_arm_busybox/busybox-1.36.1` and the kernel images: third-party and
  unchanged by this repository. busybox is more than nine tenths of the C
  lines under `src/`, so that the share of all lines the map covers is about
  one in a hundred; of the roughly 7300 lines of the repository's own programs
  the map covers more than a third.
- IPC handshakes (`hw13` part 1, `hw14` part 1, `hw16` p1), the broadcast,
  multicast, sniffer and raw clients (`hw16` p3 to p7), the process and pipe
  exercises other than the shells, the password check: straight-line programs,
  one message or one child each, without state that a second step meets.
- Pure algorithms and calculators (`hw1`, `hw2`, `hw3`, `hw7`, `hw8`, the
  checksum of `final_hw_1`): functions of one input without state.
- Parts of modelled programs: the names in the chat's window of users; an empty line typed into the raw echo client and the checksums of
  its frames; the lines of the driver handler that treat data of a known
  driver, which `NobodyReached` shows are never reached; the parsing of the
  shells' command line; colours and windows of the file manager.
