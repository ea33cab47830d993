----------------------------- MODULE Exercises -----------------------------
(***************************************************************************)
(* The smaller programs of the repository under one roof.  They share      *)
(* nothing, so that a behaviour is one of them being run: program says     *)
(* which.  The variables of the others stay as they are before the start,  *)
(* where none of their threads and processes exists and none of their      *)
(* fair actions is enabled.                                                *)
(***************************************************************************)
EXTENDS Shops, PhoneBooks, PipeShell, MultiServer, CharDevice, FileManager, DriverCli

VARIABLE program

Programs == {"shops", "books", "shell", "multi", "device", "manager", "drivers"}

vars == <<shopsVars, booksVars, shellVars, multiVars, deviceVars, managerVars, driverVars,
          program>>

\* What the uninitialised array of the phone book holds matters to it alone.
Init == /\ program \in Programs
        /\ ShopsInit /\ BooksInit /\ ShellInit /\ MultiInit /\ DeviceInit /\ ManagerInit
        /\ DriverInit
        /\ program # "books" => call_book = [i \in Slots |-> Blank]

Next ==
  /\ \/ /\ program = "shops" /\ ShopsNext
        /\ UNCHANGED <<booksVars, shellVars, multiVars, deviceVars, managerVars, driverVars>>
     \/ /\ program = "books" /\ BooksNext
        /\ UNCHANGED <<shopsVars, shellVars, multiVars, deviceVars, managerVars, driverVars>>
     \/ /\ program = "shell" /\ ShellNext
        /\ UNCHANGED <<shopsVars, booksVars, multiVars, deviceVars, managerVars, driverVars>>
     \/ /\ program = "multi" /\ MultiNext
        /\ UNCHANGED <<shopsVars, booksVars, shellVars, deviceVars, managerVars, driverVars>>
     \/ /\ program = "device" /\ DeviceNext
        /\ UNCHANGED <<shopsVars, booksVars, shellVars, multiVars, managerVars, driverVars>>
     \/ /\ program = "manager" /\ ManagerNext
        /\ UNCHANGED <<shopsVars, booksVars, shellVars, multiVars, deviceVars, driverVars>>
     \/ /\ program = "drivers" /\ DriverNext
        /\ UNCHANGED <<shopsVars, booksVars, shellVars, multiVars, deviceVars, managerVars>>
  /\ UNCHANGED program

Spec == /\ Init /\ [][Next]_vars
        /\ ShopsFairness /\ ShellFairness /\ MultiFairness
        /\ DriverFairness

(* Every variable of every program has its type: no stock and no demand is *)
(* negative, count never passes the end of the array, a pipe and the UDP   *)
(* buffer hold no more than fits, drivers[] stays within MAX_DRIVERS.      *)
TypeOK == /\ ShopsTypeOK /\ BooksTypeOK /\ ShellTypeOK
          /\ MultiTypeOK /\ DeviceTypeOK /\ ManagerTypeOK
          /\ DriverTypeOK
=============================================================================
