----------------------------- MODULE CharDevice -----------------------------
(***************************************************************************)
(* The character device of hw20_modules_linux/p2/test2.c: a string in a    *)
(* buffer of Capacity + 1 bytes that processes read, write and seek in.    *)
(* write fills the buffer and terminates it under write_lock; read copies  *)
(* under read_lock but takes the length of the string before, without any  *)
(* lock, so that its strlen runs over bytes a writer is changing.          *)
(*                                                                         *)
(* strlen and copy_from_user go byte by byte.  A byte is the process that  *)
(* wrote it, or NUL.  copy_from_user may meet a fault on its way; it then  *)
(* fills the rest of its destination with zeros.                           *)
(***************************************************************************)
EXTENDS Integers

CONSTANTS Openers,      \* processes that have the device open
          Module,       \* who wrote the initial string
          NUL,
          Unlocked,     \* no process holds the write lock
          Capacity      \* 15

ASSUME DeviceAssumption ==
  /\ Capacity \in Nat \ {0}
  /\ {Module, NUL, Unlocked} \intersect Openers = {} /\ Module # NUL

VARIABLES test_string,
          writing, reading,             \* lock: its writer, its readers
          call,                         \* per process: program point
          off, index, len, size,        \* per process: file offset, next byte, locals
          last                          \* observer: who wrote last, and how much

lockVars == <<writing, reading>>
localVars == <<index, len, size>>
deviceVars == <<test_string, lockVars, call, off, localVars, last>>

DeviceInit ==
  /\ test_string = [i \in 0 .. Capacity |-> IF i < Capacity - 1 THEN Module ELSE NUL]
  /\ writing = Unlocked /\ reading = {}
  /\ call = [p \in Openers |-> "none"]
  /\ off = [p \in Openers |-> 0] /\ index = [p \in Openers |-> 0]
  /\ len = [p \in Openers |-> 0] /\ size = [p \in Openers |-> 0]
  /\ last = <<Module, Capacity - 1>>

\* The call of p returns; its locals are gone.
Return(p) ==
  /\ call' = [call EXCEPT ![p] = "none"]
  /\ index' = [index EXCEPT ![p] = 0]
  /\ len' = [len EXCEPT ![p] = 0] /\ size' = [size EXCEPT ![p] = 0]

-----------------------------------------------------------------------------
test_llseek(p) ==
  /\ call[p] = "none"
  /\ \E o \in 0 .. Capacity : off' = [off EXCEPT ![p] = o]
  /\ UNCHANGED <<test_string, lockVars, call, localVars, last>>

(* test_read.                                                              *)

ReadCall(p) ==
  /\ call[p] = "none"
  /\ call' = [call EXCEPT ![p] = "strlen"]
  /\ UNCHANGED <<test_string, lockVars, off, localVars, last>>

\* One byte of strlen, outside the lock.
Strlen(p) ==
  /\ call[p] = "strlen"
  /\ IF test_string[index[p]] = NUL
     THEN /\ len' = [len EXCEPT ![p] = index[p]]
          /\ call' = [call EXCEPT ![p] = "size"] /\ UNCHANGED index
     ELSE index' = [index EXCEPT ![p] = @ + 1] /\ UNCHANGED <<call, len>>
  /\ UNCHANGED <<test_string, lockVars, off, size, last>>

\* Nothing at or behind the end; else as much as was asked for and is there.
CutSize(p) ==
  /\ call[p] = "size"
  /\ IF off[p] >= len[p] THEN Return(p)
     ELSE /\ \E n \in 0 .. Capacity + 1 :
               size' = [size EXCEPT ![p] = IF n > len[p] - off[p] THEN len[p] - off[p] ELSE n]
          /\ call' = [call EXCEPT ![p] = "read_lock"] /\ UNCHANGED <<index, len>>
  /\ UNCHANGED <<test_string, lockVars, off, last>>

ReadLock(p) ==
  /\ call[p] = "read_lock" /\ writing = Unlocked
  /\ reading' = reading \union {p}
  /\ call' = [call EXCEPT ![p] = "copy_to_user"]
  /\ UNCHANGED <<test_string, writing, off, localVars, last>>

\* copy_to_user succeeds and the offset moves, or it faults.
CopyToUser(p) ==
  /\ call[p] = "copy_to_user"
  /\ off' \in {off, [off EXCEPT ![p] = @ + size[p]]}
  /\ reading' = reading \ {p}
  /\ Return(p)
  /\ UNCHANGED <<test_string, writing, last>>

(* test_write.                                                             *)

\* Mutation: the test leaves no room for the terminator.
TooLongLate(n) == n > Capacity + 1

TooLong(n) == n > Capacity

WriteCall(p) ==
  /\ call[p] = "none"
  /\ \E n \in 0 .. Capacity + 1 :
       /\ ~TooLong(n)
       /\ size' = [size EXCEPT ![p] = n]
  /\ call' = [call EXCEPT ![p] = "write_lock"]
  /\ UNCHANGED <<test_string, lockVars, off, index, len, last>>

\* Mutation: writers share the lock.
WriteLockShared(p) ==
  /\ call[p] = "write_lock" /\ reading = {}
  /\ writing' = p
  /\ call' = [call EXCEPT ![p] = "copy_from_user"]
  /\ UNCHANGED <<test_string, reading, off, localVars, last>>

WriteLock(p) ==
  /\ call[p] = "write_lock" /\ writing = Unlocked /\ reading = {}
  /\ writing' = p
  /\ call' = [call EXCEPT ![p] = "copy_from_user"]
  /\ UNCHANGED <<test_string, reading, off, localVars, last>>

CopyByte(p) ==
  /\ call[p] = "copy_from_user" /\ index[p] < size[p]
  /\ test_string' = [test_string EXCEPT ![index[p]] = p]
  /\ index' = [index EXCEPT ![p] = @ + 1]
  /\ UNCHANGED <<lockVars, call, off, len, size, last>>

\* The bytes that could not be copied are zero; the terminator is not written.
CopyFaults(p) ==
  /\ call[p] = "copy_from_user" /\ index[p] < size[p]
  /\ test_string' = [i \in 0 .. Capacity |->
                       IF i \in index[p] .. size[p] - 1 THEN NUL ELSE test_string[i]]
  /\ last' = <<p, index[p]>>
  /\ writing' = Unlocked
  /\ Return(p)
  /\ UNCHANGED <<reading, off>>

Terminate(p) ==
  /\ call[p] = "copy_from_user" /\ index[p] = size[p]
  /\ test_string' = [test_string EXCEPT ![size[p]] = NUL]
  /\ last' = <<p, size[p]>>
  /\ writing' = Unlocked
  /\ Return(p)
  /\ UNCHANGED <<reading, off>>

-----------------------------------------------------------------------------
DeviceNext == \E p \in Openers :
  \/ test_llseek(p)
  \/ ReadCall(p) \/ Strlen(p) \/ CutSize(p) \/ ReadLock(p) \/ CopyToUser(p)
  \/ WriteCall(p) \/ WriteLock(p) \/ CopyByte(p) \/ CopyFaults(p) \/ Terminate(p)

-----------------------------------------------------------------------------
(* Properties.                                                             *)

(* Every variable has its type.                                            *)
DeviceTypeOK ==
  /\ test_string \in [0 .. Capacity -> Openers \union {Module, NUL}]
  /\ writing \in Openers \union {Unlocked} /\ reading \subseteq Openers
  /\ call \in [Openers -> {"none", "strlen", "size", "read_lock", "copy_to_user",
                           "write_lock", "copy_from_user"}]
  /\ off \in [Openers -> Nat] /\ index \in [Openers -> Nat]
  /\ len \in [Openers -> Nat] /\ size \in [Openers -> Nat]
  /\ last \in (Openers \union {Module}) \X Nat

(* strlen never leaves the buffer, though a writer may just have replaced  *)
(* the terminator it was heading for, and a read copies only bytes of the  *)
(* buffer, though the string may have become shorter since its length was  *)
(* taken: the last byte of the buffer is never anything but NUL.           *)
InsideBuffer ==
  \A p \in Openers : /\ index[p] <= Capacity
                     /\ call[p] = "copy_to_user" => off[p] + size[p] <= Capacity

(* Whenever no writer holds the lock, the string is what the last writer   *)
(* stored, all of it or, after a fault, what was copied: never a mixture   *)
(* of two writes, and never the tail of an older, longer string.           *)
StringIsLastWrite ==
  writing = Unlocked =>
    /\ test_string[last[2]] = NUL
    /\ \A i \in 0 .. last[2] - 1 : test_string[i] = last[1]
=============================================================================
