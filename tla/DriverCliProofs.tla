-------------------------- MODULE DriverCliProofs --------------------------
(***************************************************************************)
(* Proofs about DriverCli for every limit of drivers, backlog and timers.  *)
(* NoDriverReachable is inductive together with the types: a command goes  *)
(* out over the socket of an entry, a socket is entered only where the     *)
(* handler finds a driver in its own table, and its table was copied at    *)
(* the fork, empty.                                                        *)
(***************************************************************************)
EXTENDS DriverCli, TLAPS

(* The handler's table stays empty, the CLI's has no socket, and nobody has *)
(* a command to read.                                                      *)
NoDriverReachable ==
  /\ known = <<>> /\ \A i \in DOMAIN drivers : drivers[i].sock_fd = NoDriver
  /\ \A d \in Drivers : inbox[d] = <<>>

DriverInv == DriverTypeOK /\ NoDriverReachable

(* At the start there is no driver.                                        *)
LEMMA DriverStart == DriverInit => DriverInv
<1> SUFFICES ASSUME DriverInit PROVE DriverInv
  OBVIOUS
<1>1. <<>> \in Seq(DriverEntries) /\ <<>> \in Seq(Drivers) /\ Len(<<>>) = 0
  OBVIOUS
<1>2. DriverTypeOK
  <2>1. /\ drivers \in Seq(DriverEntries) /\ Len(drivers) <= MaxDrivers
        /\ backlog \in Seq(Drivers) /\ Len(backlog) <= Backlog
    BY <1>1, DriversAssumption DEF DriverInit
  <2>2. edge \in BOOLEAN
    BY DEF DriverInit
  <2>3. clock \in 0 .. MaxTime
    BY DriversAssumption DEF DriverInit
  <2> QED BY <2>1, <2>2, <2>3 DEF DriverInit, DriverTypeOK
<1>3. NoDriverReachable
  BY DEF DriverInit, NoDriverReachable
<1> QED BY <1>2, <1>3 DEF DriverInv

(* Every step keeps the types and the drivers out of reach.                *)
LEMMA DriverKeeps == ASSUME DriverInv, [DriverNext]_driverVars PROVE DriverInv'
<1> USE DriversAssumption DEF DriverInv, DriverTypeOK, NoDriverReachable, cliVars, handlerVars
<1>1. ASSUME NEW d \in Drivers, create_driver(d) PROVE DriverInv'
  <2>1. Driver(d) \in DriverEntries /\ Driver(d).sock_fd = NoDriver
    BY DEF Driver, DriverEntries
  <2>2. drivers' = Append(drivers, Driver(d)) /\ Len(drivers) < MaxDrivers
    BY <1>1 DEF create_driver
  <2>3. drivers' \in Seq(DriverEntries) /\ Len(drivers') <= MaxDrivers
    BY <2>1, <2>2
  <2>4. \A i \in DOMAIN drivers' : drivers'[i].sock_fd = NoDriver
    BY <2>1, <2>2
  <2> QED BY <1>1, <2>3, <2>4 DEF create_driver
<1>2. ASSUME NEW i \in DOMAIN drivers, NEW timer \in Timers, send_task(i, timer) PROVE DriverInv'
  <2>1. drivers[i] \in DriverEntries /\ drivers[i].sock_fd = NoDriver
    OBVIOUS
  <2>2. inbox' = inbox
    BY <1>2, <2>1 DEF send_task, send_to_driver
  <2>3. PICK e \in DriverEntries : /\ e = [drivers[i] EXCEPT !.task_end_time = clock + timer]
                             /\ e.sock_fd = NoDriver
    <3>1. clock + timer \in Nat
      OBVIOUS
    <3>2. PICK n \in Nat : n = clock + timer
      BY <3>1
    <3>3. PICK d \in Drivers, t \in Nat :
            drivers[i] = [pid |-> d, sock_fd |-> NoDriver, task_end_time |-> t]
      BY <2>1 DEF DriverEntries
    <3>4. [drivers[i] EXCEPT !.task_end_time = n] = [pid |-> d, sock_fd |-> NoDriver, task_end_time |-> n]
      BY <3>3
    <3> QED BY <3>2, <3>3, <3>4 DEF DriverEntries
  <2>4. drivers' = [drivers EXCEPT ![i] = e]
    BY <1>2, <2>3 DEF send_task
  <2>5. drivers' \in Seq(DriverEntries) /\ Len(drivers') = Len(drivers) /\ DOMAIN drivers' = DOMAIN drivers
    BY <2>4
  <2>6. \A j \in DOMAIN drivers' : drivers'[j].sock_fd = NoDriver
    BY <2>3, <2>4, <2>5
  <2> QED BY <1>2, <2>2, <2>5, <2>6 DEF send_task
<1>3. CASE CliExit
  BY <1>3 DEF CliExit
<1>4. ASSUME NEW d \in Drivers, Connect(d) PROVE DriverInv'
  BY <1>4 DEF Connect
<1>5. ASSUME NEW d \in Drivers, SendPid(d) PROVE DriverInv'
  BY <1>5 DEF SendPid
<1>6. ASSUME NEW d \in Drivers, Recv(d) PROVE DriverInv'
  <2>1. inbox' = inbox /\ stage' = [stage EXCEPT ![d] = "gone"]
    BY <1>6 DEF Recv
  <2> QED BY <1>6, <2>1 DEF Recv
<1>7. CASE HandlerAccept
  <2>1. Head(backlog) \in Drivers /\ Tail(backlog) \in Seq(Drivers) /\ Len(Tail(backlog)) <= Backlog
    BY <1>7 DEF HandlerAccept
  <2>2. DriverTypeOK'
    BY <1>7, <2>1 DEF HandlerAccept
  <2> QED BY <1>7, <2>2 DEF HandlerAccept
<1>8. CASE HandlerPid
  <2>1. find_driver(known, conn) = {}
    BY DEF find_driver
  <2>2. known' = known /\ link' = [link EXCEPT ![conn] = "closed"]
    BY <1>8, <2>1 DEF HandlerPid
  <2> QED BY <1>8, <2>2 DEF HandlerPid
<1>9. CASE Tick
  BY <1>9 DEF Tick
<1>10. CASE UNCHANGED driverVars
  BY <1>10 DEF driverVars
<1> QED BY <1>1, <1>2, <1>3, <1>4, <1>5, <1>6, <1>7, <1>8, <1>9, <1>10
        DEF DriverNext, HandlerStep, DriverStep

(* The invariant holds in every reachable state.                           *)
THEOREM DriverInvariance == DriverSpec => []DriverInv
BY DriverStart, DriverKeeps, PTL DEF DriverSpec

(* The variables keep their types; create_driver never passes the end of   *)
(* the table.                                                              *)
THEOREM DriverTypes == DriverSpec => []DriverTypeOK
<1>1. DriverInv => DriverTypeOK
  BY DEF DriverInv
<1> QED BY <1>1, DriverInvariance, PTL

(* Whatever the order of commands, connections and pids, no entry of       *)
(* either table ever gets a socket, so that no command reaches a driver.   *)
THEOREM NobodyReached == DriverSpec => []NoDriverReachable
<1>1. DriverInv => NoDriverReachable
  BY DEF DriverInv
<1> QED BY <1>1, DriverInvariance, PTL

CliStep == CliExit \/ \E i \in DOMAIN drivers, timer \in Timers : send_task(i, timer)

(* The branch of send_to_driver that writes is never taken and exit kills  *)
(* nobody: a send_task or an exit leaves every driver where it is.         *)
THEOREM CliMovesNobody == DriverSpec => [][CliStep => UNCHANGED <<stage, inbox>>]_driverVars
<1>1. DriverInv /\ [DriverNext]_driverVars => [CliStep => UNCHANGED <<stage, inbox>>]_driverVars
  <2> SUFFICES ASSUME DriverInv, CliStep PROVE UNCHANGED <<stage, inbox>>
    OBVIOUS
  <2>1. \A j \in DOMAIN drivers : drivers[j].sock_fd = NoDriver
    BY DEF DriverInv, NoDriverReachable
  <2>2. ASSUME NEW i \in DOMAIN drivers, NEW timer \in Timers, send_task(i, timer)
        PROVE  UNCHANGED <<stage, inbox>>
    BY <2>1, <2>2 DEF send_task, send_to_driver
  <2>3. CASE CliExit
    BY <2>1, <2>3 DEF CliExit, DriverInv, DriverTypeOK
  <2> QED BY <2>2, <2>3 DEF CliStep
<1> QED BY <1>1, DriverInvariance, PTL DEF DriverSpec
=============================================================================
