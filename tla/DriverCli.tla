----------------------------- MODULE DriverCli -----------------------------
(***************************************************************************)
(* The CLI that creates drivers and gives them tasks (final_hw_2/main.c).  *)
(* Three kinds of processes: the CLI; the handler, forked once at the      *)
(* start, which waits on epoll and accepts the drivers' connections; and   *)
(* the drivers, forked by create_driver, which connect, send their pid and *)
(* wait for commands.                                                      *)
(*                                                                         *)
(* The table drivers[] is private to each process: the CLI fills its copy  *)
(* after the fork, the handler looks drivers up in its own.  The listening *)
(* socket is in epoll edge-triggered: a connection that arrives before the *)
(* handler has taken the previous edge adds no second one, and the handler *)
(* accepts one connection per edge.                                        *)
(***************************************************************************)
EXTENDS Integers, Sequences, FiniteSets, SequencesExt

CONSTANTS Drivers,      \* pids fork can return
          MaxDrivers,   \* MAX_DRIVERS
          Backlog,      \* connections listen lets wait
          Timers,       \* timers of send_task
          NoDriver,         \* no driver; also sock_fd = -1
          MaxTime       \* bound: seconds

ASSUME DriversAssumption ==
  /\ MaxDrivers \in Nat \ {0} /\ Backlog \in Nat \ {0} /\ MaxTime \in Nat
  /\ Timers \subseteq Nat /\ NoDriver \notin Drivers

VARIABLES cli,              \* the CLI: "prompt" or "gone"
          drivers,          \* drivers[] of the CLI
          known,            \* drivers[] of the handler
          handler, conn,    \* the handler: program point, client_sock
          edge,             \* the listening socket is in the ready list
          backlog,
          stage, link, sent,    \* per driver: program point, its socket, pid written
          inbox,            \* per driver: commands it can read
          clock

cliVars == <<cli, drivers>>
handlerVars == <<known, handler, conn>>
driverVars == <<cliVars, handlerVars, edge, backlog, stage, link, sent, inbox, clock>>

DriverEntries == [pid : Drivers, sock_fd : Drivers \union {NoDriver}, task_end_time : Nat]
Driver(d) == [pid |-> d, sock_fd |-> NoDriver, task_end_time |-> 0]

\* The handler is forked before the first command, with an empty table.
DriverInit ==
  /\ cli = "prompt" /\ drivers = <<>> /\ known = <<>>
  /\ handler = "epoll_wait" /\ conn = NoDriver /\ edge = FALSE /\ backlog = <<>>
  /\ stage = [d \in Drivers |-> "unborn"] /\ link = [d \in Drivers |-> "none"]
  /\ sent = {} /\ inbox = [d \in Drivers |-> <<>>]
  /\ clock = 0

find_driver(table, pid) == {i \in DOMAIN table : table[i].pid = pid}

-----------------------------------------------------------------------------
(* The CLI.                                                                *)

create_driver(d) ==
  /\ cli = "prompt" /\ Len(drivers) < MaxDrivers /\ stage[d] = "unborn"
  /\ drivers' = Append(drivers, Driver(d))
  /\ stage' = [stage EXCEPT ![d] = "connect"]
  /\ UNCHANGED <<cli, handlerVars, edge, backlog, link, sent, inbox, clock>>

\* A command goes out only if the driver has a socket in this table.
send_to_driver(i, cmd) ==
  inbox' = IF drivers[i].sock_fd = NoDriver THEN inbox
           ELSE [inbox EXCEPT ![drivers[i].sock_fd] = Append(@, cmd)]

\* A busy driver is refused; otherwise the task is noted, sent or not.
send_task(i, timer) ==
  /\ cli = "prompt" /\ clock >= drivers[i].task_end_time
  /\ send_to_driver(i, "TASK")
  /\ drivers' = [drivers EXCEPT ![i].task_end_time = clock + timer]
  /\ UNCHANGED <<cli, handlerVars, edge, backlog, stage, link, sent, clock>>

\* exit: EXIT and SIGTERM to the drivers that have a socket.  The path is
\* unlinked; handler and drivers live on and keep the listening socket.
CliExit ==
  /\ cli = "prompt" /\ cli' = "gone"
  /\ stage' = [d \in Drivers |->
              IF \E i \in DOMAIN drivers : drivers[i].pid = d /\ drivers[i].sock_fd # NoDriver
              THEN "gone" ELSE stage[d]]
  /\ UNCHANGED <<drivers, handlerVars, edge, backlog, link, sent, inbox, clock>>

-----------------------------------------------------------------------------
(* A driver.                                                               *)

\* connect is tried again every 100 ms until there is a socket to connect to.
Connect(d) ==
  /\ stage[d] = "connect" /\ cli = "prompt" /\ Len(backlog) < Backlog
  /\ backlog' = Append(backlog, d) /\ edge' = TRUE
  /\ link' = [link EXCEPT ![d] = "open"]
  /\ stage' = [stage EXCEPT ![d] = "send"]
  /\ UNCHANGED <<cliVars, handlerVars, sent, inbox, clock>>

\* If the handler has already closed the connection, SIGPIPE ends the driver.
SendPid(d) ==
  /\ stage[d] = "send"
  /\ IF link[d] = "open" THEN sent' = sent \union {d} /\ stage' = [stage EXCEPT ![d] = "recv"]
     ELSE stage' = [stage EXCEPT ![d] = "gone"] /\ UNCHANGED sent
  /\ UNCHANGED <<cliVars, handlerVars, edge, backlog, link, inbox, clock>>

\* A command is carried out; a closed connection ends the loop.
Recv(d) ==
  /\ stage[d] = "recv" /\ (inbox[d] # <<>> \/ link[d] = "closed")
  /\ IF inbox[d] # <<>>
     THEN inbox' = [inbox EXCEPT ![d] = Tail(@)] /\ UNCHANGED stage
     ELSE stage' = [stage EXCEPT ![d] = "gone"] /\ UNCHANGED inbox
  /\ UNCHANGED <<cliVars, handlerVars, edge, backlog, link, sent, clock>>

-----------------------------------------------------------------------------
(* The handler.  Its branch for data from a driver needs a driver's socket *)
(* in epoll, and HandlerPid would have to put it there.                    *)

\* epoll_wait takes the edge, accept the first connection.
HandlerAccept ==
  /\ handler = "epoll_wait" /\ edge /\ backlog # <<>>
  /\ edge' = FALSE
  /\ conn' = Head(backlog) /\ backlog' = Tail(backlog)
  /\ handler' = "recv"
  /\ UNCHANGED <<cliVars, known, stage, link, sent, inbox, clock>>

\* Mutation: a connection without a pid is left open.
HandlerPidLeak ==
  /\ handler = "recv"
  /\ link' = [link EXCEPT ![conn] = IF conn \in sent THEN "closed" ELSE @]
  /\ conn' = NoDriver /\ handler' = "epoll_wait"
  /\ UNCHANGED <<cliVars, known, edge, backlog, stage, sent, inbox, clock>>

\* The pid is read without waiting; a driver that is found in the table keeps
\* its connection, any other loses it.
HandlerPid ==
  /\ handler = "recv"
  /\ IF conn \in sent /\ find_driver(known, conn) # {}
     THEN /\ known' = [i \in DOMAIN known |->
                         IF i \in find_driver(known, conn)
                         THEN [known[i] EXCEPT !.sock_fd = conn] ELSE known[i]]
          /\ UNCHANGED link
     ELSE link' = [link EXCEPT ![conn] = "closed"] /\ UNCHANGED known
  /\ conn' = NoDriver /\ handler' = "epoll_wait"
  /\ UNCHANGED <<cliVars, edge, backlog, stage, sent, inbox, clock>>

Tick == /\ clock < MaxTime /\ clock' = clock + 1
        /\ UNCHANGED <<cliVars, handlerVars, edge, backlog, stage, link, sent, inbox>>

-----------------------------------------------------------------------------
HandlerStep == HandlerAccept \/ HandlerPid
DriverStep(d) == Connect(d) \/ SendPid(d) \/ Recv(d)

DriverNext == \/ \E d \in Drivers : create_driver(d) \/ DriverStep(d)
        \/ \E i \in DOMAIN drivers, timer \in Timers : send_task(i, timer)
        \/ CliExit \/ HandlerStep \/ Tick

(* Handler and drivers are scheduled; nobody has to type a command.        *)
DriverFairness == WF_driverVars(HandlerStep) /\ \A d \in Drivers : WF_driverVars(DriverStep(d))

DriverSpec == DriverInit /\ [][DriverNext]_driverVars /\ DriverFairness

-----------------------------------------------------------------------------
(* Properties.                                                             *)

(* Every variable has its type; the table stays within MAX_DRIVERS.        *)
DriverTypeOK ==
  /\ cli \in {"prompt", "gone"} /\ drivers \in Seq(DriverEntries) /\ Len(drivers) <= MaxDrivers
  /\ handler \in {"epoll_wait", "recv"} /\ conn \in Drivers \union {NoDriver}
  /\ edge \in BOOLEAN /\ backlog \in Seq(Drivers) /\ Len(backlog) <= Backlog
  /\ stage \in [Drivers -> {"unborn", "connect", "send", "recv", "gone"}]
  /\ link \in [Drivers -> {"none", "open", "closed"}] /\ sent \subseteq Drivers
  /\ clock \in 0 .. MaxTime

Overlooked(d) == d \in Range(backlog) /\ ~edge

(* A driver that has connected is rejected and ends, whether its pid comes *)
(* before or after the handler looks for it, unless its connection arrived *)
(* together with another one and no edge is left to announce it.           *)
RejectedOrOverlooked ==
  \A d \in Drivers : stage[d] = "send" ~> stage[d] = "gone" \/ Overlooked(d)

(* A task the CLI reports as sent is sent: when send_task accepts a task   *)
(* for a driver that waits for commands, and whose connection and pid the  *)
(* handler has already taken, the driver gets the command.                 *)
TaskDelivered ==
  [][\A i \in DOMAIN drivers, timer \in Timers :
        LET d == drivers[i].pid
        IN  /\ send_task(i, timer)
            /\ stage[d] = "recv" /\ d \notin Range(backlog) /\ conn # d
            => inbox'[d] = Append(inbox[d], "TASK")]_driverVars
=============================================================================
