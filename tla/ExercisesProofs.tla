--------------------------- MODULE ExercisesProofs ---------------------------
(***************************************************************************)
(* Proofs about the smaller programs, each an invariant of the whole of    *)
(* Exercises: a step of one program leaves the others alone, so that its   *)
(* initial states and its next-state relation are all a proof needs.       *)
(***************************************************************************)
EXTENDS Exercises, DriverCliProofs, FiniteSetTheorems, SequenceTheorems,
        WellFoundedInduction, TLAPS

-----------------------------------------------------------------------------
(* The character device.  The last byte of the buffer is NUL in every      *)
(* state, also while a write is under way: DeviceInv adds that, where each *)
(* call stands with its locals, that the locks are held by exactly the     *)
(* calls between lock and unlock, and how far a write has come.            *)

LocalsOK(p) ==
  /\ index[p] <= Capacity
  /\ call[p] = "none" => index[p] = 0 /\ len[p] = 0 /\ size[p] = 0
  /\ call[p] = "strlen" => len[p] = 0 /\ size[p] = 0
  /\ call[p] = "size" => len[p] <= Capacity /\ size[p] = 0
  /\ call[p] \in {"read_lock", "copy_to_user"} => off[p] + size[p] <= Capacity
  /\ call[p] = "write_lock" => index[p] = 0
  /\ call[p] \in {"write_lock", "copy_from_user"} => index[p] <= size[p] /\ size[p] <= Capacity

LocksOK ==
  /\ \A p \in Openers : writing = p <=> call[p] = "copy_from_user"
  /\ \A p \in Openers : p \in reading <=> call[p] = "copy_to_user"

BufferOK ==
  /\ test_string[Capacity] = NUL
  /\ \A p \in Openers : writing = p => \A i \in 0 .. index[p] - 1 : test_string[i] = p
  /\ writing = Unlocked => last[2] <= Capacity

DeviceInv == /\ DeviceTypeOK /\ (\A p \in Openers : LocalsOK(p))
             /\ LocksOK /\ BufferOK /\ StringIsLastWrite

LEMMA DeviceStart == DeviceInit => DeviceInv
BY DeviceAssumption DEF DeviceInit, DeviceInv, DeviceTypeOK, LocalsOK, LocksOK, BufferOK,
   StringIsLastWrite

(* Return clears the locals of one call.                                   *)
LEMMA Returns ==
  ASSUME DeviceTypeOK, NEW p \in Openers, Return(p)
  PROVE  /\ call' \in [Openers -> {"none", "strlen", "size", "read_lock", "copy_to_user",
                                   "write_lock", "copy_from_user"}]
         /\ index' \in [Openers -> Nat] /\ len' \in [Openers -> Nat]
         /\ size' \in [Openers -> Nat]
         /\ call'[p] = "none" /\ index'[p] = 0 /\ len'[p] = 0 /\ size'[p] = 0
         /\ \A q \in Openers \ {p} : /\ call'[q] = call[q] /\ index'[q] = index[q]
                                     /\ len'[q] = len[q] /\ size'[q] = size[q]
BY DEF DeviceTypeOK, Return

(* The types.                                                              *)
LEMMA DeviceTypeStep ==
  ASSUME DeviceTypeOK, DeviceNext PROVE DeviceTypeOK'
<1> USE DeviceAssumption DEF DeviceTypeOK, lockVars, localVars
<1> PICK p \in Openers :
      \/ test_llseek(p)
      \/ ReadCall(p) \/ Strlen(p) \/ CutSize(p) \/ ReadLock(p) \/ CopyToUser(p)
      \/ WriteCall(p) \/ WriteLock(p) \/ CopyByte(p) \/ CopyFaults(p) \/ Terminate(p)
  BY DEF DeviceNext
<1>1. CASE test_llseek(p)
  BY <1>1 DEF test_llseek
<1>2. CASE ReadCall(p)
  BY <1>2 DEF ReadCall
<1>3. CASE Strlen(p)
  <2>1. PICK n \in Nat : n = index[p] + 1
    OBVIOUS
  <2>2. /\ index' = index \/ index' = [index EXCEPT ![p] = n]
        /\ len' = len \/ len' = [len EXCEPT ![p] = index[p]]
    BY <1>3, <2>1 DEF Strlen
  <2>4. index' \in [Openers -> Nat]
    BY <2>2
  <2>5. len' \in [Openers -> Nat]
    <3>1. PICK m \in Nat : m = index[p]
      OBVIOUS
    <3> QED BY <2>2, <3>1
  <2>3. call' \in [Openers -> {"none", "strlen", "size", "read_lock", "copy_to_user",
                               "write_lock", "copy_from_user"}]
    BY <1>3 DEF Strlen
  <2> QED BY <1>3, <2>3, <2>4, <2>5 DEF Strlen
<1>4. CASE CutSize(p)
  <2>1. CASE off[p] >= len[p]
    <3>1. Return(p) /\ UNCHANGED <<test_string, writing, reading, off, last>>
      BY <1>4, <2>1 DEF CutSize
    <3> QED BY <3>1, Returns
  <2>2. CASE ~(off[p] >= len[p])
    <3>1. PICK n \in 0 .. Capacity + 1 :
            size' = [size EXCEPT ![p] = IF n > len[p] - off[p] THEN len[p] - off[p] ELSE n]
      BY <1>4, <2>2 DEF CutSize
    <3>2. len[p] - off[p] \in Nat /\ n \in Nat
      BY <2>2
    <3>3. size' \in [Openers -> Nat]
      BY <3>1, <3>2
    <3> QED BY <1>4, <2>2, <3>3 DEF CutSize
  <2> QED BY <2>1, <2>2
<1>5. CASE ReadLock(p)
  BY <1>5 DEF ReadLock
<1>6. CASE CopyToUser(p)
  <2>0. PICK n \in Nat : n = off[p] + size[p]
    OBVIOUS
  <2>1. off' \in [Openers -> Nat]
    BY <1>6, <2>0 DEF CopyToUser
  <2> QED BY <1>6, <2>1, Returns DEF CopyToUser
<1>7. CASE WriteCall(p)
  <2>1. size' \in [Openers -> Nat]
    BY <1>7 DEF WriteCall
  <2> QED BY <1>7, <2>1 DEF WriteCall
<1>8. CASE WriteLock(p)
  BY <1>8 DEF WriteLock
<1>9. CASE CopyByte(p)
  <2>1. index[p] + 1 \in Nat
    OBVIOUS
  <2>2. index' \in [Openers -> Nat]
    BY <1>9, <2>1 DEF CopyByte
  <2>3. test_string' \in [0 .. Capacity -> Openers \union {Module, NUL}]
    BY <1>9 DEF CopyByte
  <2> QED BY <1>9, <2>2, <2>3 DEF CopyByte
<1>10. CASE CopyFaults(p)
  BY <1>10, Returns DEF CopyFaults
<1>11. CASE Terminate(p)
  BY <1>11, Returns DEF Terminate
<1> QED BY <1>1, <1>2, <1>3, <1>4, <1>5, <1>6, <1>7, <1>8, <1>9, <1>10, <1>11

(* What a step of p leaves to the others, and what it does to the locks.   *)
LEMMA DeviceFrame ==
  ASSUME DeviceTypeOK, NEW p \in Openers,
         \/ test_llseek(p)
         \/ ReadCall(p) \/ Strlen(p) \/ CutSize(p) \/ ReadLock(p) \/ CopyToUser(p)
         \/ WriteCall(p) \/ WriteLock(p) \/ CopyByte(p) \/ CopyFaults(p) \/ Terminate(p)
  PROVE  /\ \A q \in Openers \ {p} :
              /\ call'[q] = call[q] /\ off'[q] = off[q] /\ index'[q] = index[q]
              /\ len'[q] = len[q] /\ size'[q] = size[q]
         /\ reading' = (IF call'[p] = "copy_to_user" THEN reading \union {p}
                        ELSE IF call[p] = "copy_to_user" THEN reading \ {p} ELSE reading)
         /\ writing' = (IF call'[p] = "copy_from_user" /\ call[p] # call'[p] THEN p
                        ELSE IF call[p] = "copy_from_user" /\ call[p] # call'[p] THEN Unlocked
                        ELSE writing)
<1> USE DEF DeviceTypeOK, lockVars, localVars
<1>1. CASE test_llseek(p)
  BY <1>1 DEF test_llseek
<1>2. CASE ReadCall(p)
  BY <1>2 DEF ReadCall
<1>3. CASE Strlen(p)
  <2>1. CASE test_string[index[p]] = NUL
    BY <1>3, <2>1 DEF Strlen
  <2>2. CASE test_string[index[p]] # NUL
    BY <1>3, <2>2 DEF Strlen
  <2> QED BY <2>1, <2>2
<1>4. CASE CutSize(p)
  <2>1. CASE off[p] >= len[p]
    <3>1. /\ Return(p) /\ call[p] = "size" /\ UNCHANGED <<writing, reading, off>>
      BY <1>4, <2>1 DEF CutSize
    <3> HIDE DEF DeviceTypeOK
    <3> QED BY <3>1, Returns
  <2>2. CASE ~(off[p] >= len[p])
    <3>1. PICK n \in Int : size' = [size EXCEPT ![p] = n]
      BY <1>4, <2>2 DEF CutSize
    <3> QED BY <1>4, <2>2, <3>1 DEF CutSize
  <2> QED BY <2>1, <2>2
<1>5. CASE ReadLock(p)
  BY <1>5 DEF ReadLock
<1>6. CASE CopyToUser(p)
  BY <1>6, Returns DEF CopyToUser
<1>7. CASE WriteCall(p)
  <2>1. PICK n \in 0 .. Capacity + 1 : size' = [size EXCEPT ![p] = n]
    BY <1>7 DEF WriteCall
  <2> QED BY <1>7, <2>1 DEF WriteCall
<1>8. CASE WriteLock(p)
  BY <1>8 DEF WriteLock
<1>9. CASE CopyByte(p)
  BY <1>9 DEF CopyByte
<1>10. CASE CopyFaults(p)
  BY <1>10, Returns DEF CopyFaults
<1>11. CASE Terminate(p)
  BY <1>11, Returns DEF Terminate
<1> QED BY <1>1, <1>2, <1>3, <1>4, <1>5, <1>6, <1>7, <1>8, <1>9, <1>10, <1>11

(* Every call stays within its locals, and only the calls between lock and *)
(* unlock hold the lock.                                                   *)
LEMMA DeviceStep == DeviceInv /\ [DeviceNext]_deviceVars => DeviceInv'
<1> SUFFICES ASSUME DeviceInv, [DeviceNext]_deviceVars PROVE DeviceInv'
  OBVIOUS
<1> USE DeviceAssumption DEF lockVars, localVars
<1>1. CASE UNCHANGED deviceVars
  BY <1>1 DEF deviceVars, DeviceInv, DeviceTypeOK, LocalsOK, LocksOK, BufferOK, StringIsLastWrite
<1>2. CASE DeviceNext
  <2>1. DeviceTypeOK /\ DeviceTypeOK'
    BY <1>2, DeviceTypeStep DEF DeviceInv
  <2>2. PICK p \in Openers :
          \/ test_llseek(p)
          \/ ReadCall(p) \/ Strlen(p) \/ CutSize(p) \/ ReadLock(p) \/ CopyToUser(p)
          \/ WriteCall(p) \/ WriteLock(p) \/ CopyByte(p) \/ CopyFaults(p) \/ Terminate(p)
    BY <1>2 DEF DeviceNext
  <2>3. ASSUME NEW q \in Openers, q # p PROVE LocalsOK(q)'
    <3>1. /\ call'[q] = call[q] /\ off'[q] = off[q] /\ index'[q] = index[q]
          /\ len'[q] = len[q] /\ size'[q] = size[q]
      BY <2>1, <2>2, <2>3, DeviceFrame
    <3> QED BY <3>1 DEF DeviceInv, LocalsOK
  <2>4. LocalsOK(p)'
    <3>0. /\ LocalsOK(p) /\ DeviceTypeOK /\ index[p] \in Nat /\ off[p] \in Nat
          /\ len[p] \in Nat /\ size[p] \in Nat
      BY <2>1 DEF DeviceInv, DeviceTypeOK
    <3>1. CASE test_llseek(p) \/ ReadCall(p) \/ ReadLock(p) \/ WriteLock(p)
      BY <3>0, <3>1 DEF test_llseek, ReadCall, ReadLock, WriteLock, DeviceTypeOK, LocalsOK
    <3>2. CASE Strlen(p)
      <4>1. test_string[index[p]] # NUL => index[p] + 1 <= Capacity
        BY <3>0 DEF DeviceInv, BufferOK, LocalsOK
      <4> QED BY <3>0, <3>2, <4>1 DEF Strlen, DeviceTypeOK, LocalsOK
    <3>3. CASE CutSize(p)
      <4>1. CASE off[p] >= len[p]
        <5>1. Return(p)
          BY <3>3, <4>1 DEF CutSize
        <5> QED BY <3>0, <5>1, Returns DEF LocalsOK
      <4>2. CASE ~(off[p] >= len[p])
        <5>1. PICK n \in 0 .. Capacity + 1 :
                size' = [size EXCEPT ![p] = IF n > len[p] - off[p] THEN len[p] - off[p] ELSE n]
          BY <3>3, <4>2 DEF CutSize
        <5>2. size'[p] = IF n > len[p] - off[p] THEN len[p] - off[p] ELSE n
          BY <3>0, <5>1 DEF DeviceTypeOK
        <5>3. off[p] + size'[p] <= len[p] /\ len[p] <= Capacity
          BY <3>0, <3>3, <5>2 DEF LocalsOK, CutSize
        <5>4. off'[p] = off[p] /\ index'[p] = index[p] /\ call'[p] = "read_lock"
          BY <3>0, <3>3, <4>2 DEF CutSize, DeviceTypeOK
        <5>5. size'[p] \in Int
          BY <3>0, <5>2
        <5> QED BY <3>0, <5>3, <5>4, <5>5 DEF LocalsOK
      <4> QED BY <4>1, <4>2
    <3>4. CASE CopyToUser(p) \/ CopyFaults(p) \/ Terminate(p)
      <4>1. Return(p)
        BY <3>4 DEF CopyToUser, CopyFaults, Terminate
      <4> QED BY <3>0, <4>1, Returns DEF LocalsOK
    <3>5. CASE WriteCall(p)
      BY <3>0, <3>5 DEF WriteCall, TooLong, DeviceTypeOK, LocalsOK
    <3>6. CASE CopyByte(p)
      BY <3>0, <3>6 DEF CopyByte, DeviceTypeOK, LocalsOK
    <3> QED BY <2>2, <3>1, <3>2, <3>3, <3>4, <3>5, <3>6
  <2>5. LocksOK'
    <3>1. ASSUME call'[p] = "copy_from_user", call[p] # call'[p]
          PROVE  writing = Unlocked
      BY <2>1, <2>2, <3>1, Returns DEF test_llseek, ReadCall, Strlen, CutSize, ReadLock,
         CopyToUser, WriteCall, WriteLock, CopyByte, CopyFaults, Terminate, DeviceTypeOK
    <3>2. LocksOK /\ \A q \in Openers \ {p} : call'[q] = call[q]
      BY <2>1, <2>2, DeviceFrame DEF DeviceInv
    <3>3. reading' = (IF call'[p] = "copy_to_user" THEN reading \union {p}
                      ELSE IF call[p] = "copy_to_user" THEN reading \ {p} ELSE reading)
      BY <2>1, <2>2, DeviceFrame
    <3>4. writing' = (IF call'[p] = "copy_from_user" /\ call[p] # call'[p] THEN p
                      ELSE IF call[p] = "copy_from_user" /\ call[p] # call'[p] THEN Unlocked
                      ELSE writing)
      BY <2>1, <2>2, DeviceFrame
    <3>5. \A q \in Openers : q \in reading' <=> call'[q] = "copy_to_user"
      BY <3>2, <3>3 DEF LocksOK
    <3>6. \A q \in Openers : writing' = q <=> call'[q] = "copy_from_user"
      BY <3>1, <3>2, <3>4 DEF LocksOK
    <3> QED BY <3>5, <3>6 DEF LocksOK
  <2>6. BufferOK' /\ StringIsLastWrite'
    <3> USE <2>1 DEF BufferOK, StringIsLastWrite
    <3>0. LocalsOK(p) /\ LocksOK /\ BufferOK /\ StringIsLastWrite
      BY DEF DeviceInv
    <3>1. CASE \/ test_llseek(p) \/ ReadCall(p) \/ Strlen(p) \/ CutSize(p) \/ ReadLock(p)
               \/ CopyToUser(p) \/ WriteCall(p)
      <4>1. UNCHANGED <<test_string, writing, last>> /\ call[p] # "copy_from_user"
        BY <3>1 DEF test_llseek, ReadCall, Strlen, CutSize, ReadLock, CopyToUser, WriteCall
      <4>2. \A q \in Openers : writing = q => q # p /\ index'[q] = index[q]
        BY <2>2, <3>0, <4>1, DeviceFrame DEF LocksOK
      <4> QED BY <3>0, <4>1, <4>2
    <3>2. CASE WriteLock(p)
      BY <3>0, <3>2 DEF WriteLock, LocalsOK
    <3>3. CASE CopyByte(p)
      <4>1. /\ writing = p /\ writing' = p /\ index'[p] = index[p] + 1 /\ index[p] \in Nat
            /\ index[p] < Capacity
            /\ test_string' = [test_string EXCEPT ![index[p]] = p]
        BY <3>0, <3>3 DEF CopyByte, LocksOK, LocalsOK, DeviceTypeOK
      <4>0. \A i \in 0 .. index[p] - 1 : test_string[i] = p /\ test_string'[i] = test_string[i]
        BY <3>0, <4>1 DEF DeviceTypeOK
      <4>5. test_string'[index[p]] = p
        BY <4>1 DEF DeviceTypeOK
      <4>2. \A i \in 0 .. index[p] : test_string'[i] = p
        <5>1. \A i \in 0 .. index[p] : i = index[p] \/ i \in 0 .. index[p] - 1
          BY <4>1
        <5> QED BY <4>0, <4>5, <5>1
      <4>3. test_string'[Capacity] = NUL
        BY <3>0, <4>1 DEF DeviceTypeOK
      <4> QED BY <4>1, <4>2, <4>3
    <3>4. CASE CopyFaults(p)
      <4>1. /\ writing = p /\ writing' = Unlocked /\ index[p] \in Nat /\ size[p] \in Nat
            /\ last'[1] = p /\ last'[2] = index[p] /\ index[p] < size[p] /\ size[p] <= Capacity
            /\ test_string' = [i \in 0 .. Capacity |->
                                 IF i \in index[p] .. size[p] - 1 THEN NUL ELSE test_string[i]]
        BY <3>0, <3>4 DEF CopyFaults, LocksOK, LocalsOK, DeviceTypeOK
      <4>2. test_string'[index[p]] = NUL /\ test_string'[Capacity] = NUL
        BY <3>0, <4>1
      <4>3. \A i \in 0 .. index[p] - 1 : test_string'[i] = p
        BY <3>0, <4>1
      <4>4. (\A q \in Openers : writing' # q) /\ last'[2] <= Capacity
        BY <4>1
      <4>5. StringIsLastWrite'
        BY <4>1, <4>2, <4>3
      <4> QED BY <4>2, <4>4, <4>5
    <3>5. CASE Terminate(p)
      <4>1. /\ writing = p /\ writing' = Unlocked /\ index[p] = size[p] /\ size[p] \in Nat
            /\ last'[1] = p /\ last'[2] = size[p] /\ size[p] <= Capacity
            /\ test_string' = [test_string EXCEPT ![size[p]] = NUL]
        BY <3>0, <3>5 DEF Terminate, LocksOK, LocalsOK, DeviceTypeOK
      <4>2. test_string'[size[p]] = NUL /\ test_string'[Capacity] = NUL
        BY <3>0, <4>1 DEF DeviceTypeOK
      <4>0. \A i \in 0 .. size[p] - 1 : test_string[i] = p
        BY <3>0, <4>1
      <4>5. \A i \in 0 .. size[p] - 1 : i \in 0 .. Capacity /\ i # size[p]
        BY <4>1
      <4>3. \A i \in 0 .. size[p] - 1 : test_string'[i] = p
        BY <4>0, <4>1, <4>5 DEF DeviceTypeOK
      <4>4. \A q \in Openers : writing' # q
        BY <4>1
      <4> QED BY <4>1, <4>2, <4>3, <4>4
    <3> QED BY <2>2, <3>1, <3>2, <3>3, <3>4, <3>5
  <2> QED BY <2>1, <2>3, <2>4, <2>5, <2>6 DEF DeviceInv
<1> QED BY <1>1, <1>2

(* The device within the whole.                                            *)
THEOREM DeviceInvariance == Spec => []DeviceInv
<1>1. Init => DeviceInv
  BY DeviceStart DEF Init
<1>2. [Next]_vars => [DeviceNext]_deviceVars
  BY DEF Next, vars
<1> QED BY <1>1, <1>2, DeviceStep, PTL DEF Spec

(* strlen and read stay inside the buffer, whatever writers do meanwhile.  *)
THEOREM ReadsInside == Spec => []InsideBuffer
<1>1. DeviceInv => InsideBuffer
  BY DEF DeviceInv, LocalsOK, InsideBuffer
<1> QED BY DeviceInvariance, <1>1, PTL

(* Without a writer the string is what the last writer stored.             *)
THEOREM WritesAreWhole == Spec => []StringIsLastWrite
BY DeviceInvariance, PTL DEF DeviceInv

-----------------------------------------------------------------------------
(* The file manager.  What a panel shows is the directory at its path, or  *)
(* nothing after an opendir that failed; with that, SelectionOnScreen is   *)
(* inductive.                                                              *)

Lists == [path : Dirs, files : {<<>>} \union {Contents[d] : d \in Dirs},
          selected : Int, start_line : Int]

OnScreen(fl) ==
  /\ 0 <= fl.start_line /\ fl.start_line <= fl.selected
  /\ fl.selected < Len(fl.files) /\ fl.selected < fl.start_line + Visible

ManagerInv ==
  /\ ManagerTypeOK /\ panel \in [Panels -> Lists]
  /\ SelectionOnScreen

LEMMA ManagerStart == ManagerInit => ManagerInv
BY ManagerAssumption DEF ManagerInit, ManagerInv, ManagerTypeOK, Lists, SelectionOnScreen, Panels

(* Every directory has an entry.                                           *)
LEMMA ContentsLength ==
  ASSUME NEW d \in Dirs
  PROVE  Len(Contents[d]) \in Nat \ {0} /\ Contents[d] # <<>>
<1>1. Len(Contents[d]) \in Nat \ {0}
  BY ManagerAssumption
<1>2. Len(<<>>) = 0
  OBVIOUS
<1> QED BY <1>1, <1>2

(* A directory that is loaded starts with its first line.                  *)
LEMMA Loads ==
  ASSUME NEW fl \in Lists, NEW opened \in BOOLEAN
  PROVE  LET new == load_directory(fl, opened)
         IN  /\ new \in Lists /\ new.path = fl.path
             /\ IF opened THEN new.files = Contents[fl.path] /\ OnScreen(new)
                          ELSE new.files = <<>>
<1>1. fl.path \in Dirs
  BY DEF Lists
<1>2. Len(Contents[fl.path]) \in Nat \ {0}
  BY <1>1, ContentsLength
<1>3. CASE opened
  <2>1. load_directory(fl, opened) =
          [path |-> fl.path, files |-> Contents[fl.path], selected |-> 0, start_line |-> 0]
    BY <1>3 DEF load_directory, Lists
  <2>2. load_directory(fl, opened) \in Lists
    BY <1>1, <2>1 DEF Lists
  <2>3. OnScreen(load_directory(fl, opened))
    BY <1>2, <2>1, ManagerAssumption DEF OnScreen
  <2>4. /\ load_directory(fl, opened).path = fl.path
        /\ load_directory(fl, opened).files = Contents[fl.path]
    BY <2>1
  <2> QED BY <1>3, <2>2, <2>3, <2>4
<1>4. CASE ~opened
  <2>1. load_directory(fl, opened) = [path |-> fl.path, files |-> <<>>,
                                      selected |-> fl.selected, start_line |-> fl.start_line]
    BY <1>4 DEF load_directory, Lists
  <2> QED BY <1>4, <2>1 DEF Lists
<1> QED BY <1>3, <1>4

(* The arrows keep the selection on the screen.                            *)
LEMMA Moves ==
  ASSUME NEW fl \in Lists, NEW delta \in {-1, 1}, Len(fl.files) \in Nat
  PROVE  LET new == move_selection(fl, delta)
         IN  /\ new \in Lists /\ new.path = fl.path /\ new.files = fl.files
             /\ OnScreen(fl) => OnScreen(new)
<1> DEFINE target == IF fl.selected + delta < 0 THEN 0 ELSE fl.selected + delta
           new_sel == IF target >= Len(fl.files) THEN Len(fl.files) - 1 ELSE target
           new_start == IF new_sel < fl.start_line THEN new_sel
                        ELSE IF new_sel >= fl.start_line + Visible THEN new_sel - Visible + 1
                        ELSE fl.start_line
<1>1. fl.selected \in Int /\ fl.start_line \in Int /\ Visible \in Nat \ {0}
  BY ManagerAssumption DEF Lists
<1>2. target \in Int
  BY <1>1
<1>3. new_sel \in Int /\ new_start \in Int
  BY <1>1, <1>2
<1>4. move_selection(fl, delta) = [path |-> fl.path, files |-> fl.files,
                                   selected |-> new_sel, start_line |-> new_start]
  <2>1. move_selection(fl, delta) = [fl EXCEPT !.selected = new_sel, !.start_line = new_start]
    BY DEF move_selection
  <2> HIDE DEF new_sel, new_start
  <2> QED BY <2>1 DEF Lists
<1>5. ASSUME OnScreen(fl)
      PROVE  0 <= new_start /\ new_start <= new_sel /\ new_sel < Len(fl.files)
             /\ new_sel < new_start + Visible
  <2>1. 0 <= new_sel /\ new_sel < Len(fl.files)
    BY <1>1, <1>2, <1>5 DEF OnScreen
  <2> HIDE DEF new_sel
  <2> QED BY <1>1, <1>3, <1>5, <2>1 DEF OnScreen
<1> HIDE DEF new_sel, new_start
<1> QED BY <1>3, <1>4, <1>5 DEF Lists, OnScreen

(* Every key keeps the selection on the screen.                            *)
LEMMA ManagerStep == ManagerInv /\ [ManagerNext]_managerVars => ManagerInv'
<1> SUFFICES ASSUME ManagerInv, [ManagerNext]_managerVars PROVE ManagerInv'
  OBVIOUS
<1> USE ManagerAssumption
<1>0. /\ panel \in [Panels -> Lists] /\ active \in Panels /\ newpath \in Dirs
      /\ mishaps \in 0 .. MaxMishaps /\ unopened \subseteq Panels
      /\ \A p \in Panels : panel[p].files \in {<<>>, Contents[panel[p].path]}
  BY DEF ManagerInv, ManagerTypeOK
<1>1. CASE UNCHANGED managerVars
  BY <1>1 DEF managerVars, ManagerInv, ManagerTypeOK, SelectionOnScreen
<1>2. CASE Launch
  <2>1. PICK cwd \in Dirs, stack \in -1 .. 0, unresolved \in SUBSET Panels :
          /\ mishaps' = Cardinality(unopened') + Cardinality(unresolved)
          /\ mishaps' <= MaxMishaps
          /\ panel' = [p \in Panels |->
               load_directory([path |-> IF p \in unresolved THEN Root
                                        ELSE IF p = 0 THEN cwd ELSE Parent[cwd],
                               files |-> <<>>, selected |-> stack, start_line |-> stack],
                              p \notin unopened')]
    BY <1>2 DEF Launch
  <2>2. ASSUME NEW p \in Panels
        PROVE  /\ panel'[p] \in Lists
               /\ IF p \in unopened' THEN panel'[p].files = <<>>
                  ELSE panel'[p].files = Contents[panel'[p].path] /\ OnScreen(panel'[p])
    <3> DEFINE fl == [path |-> IF p \in unresolved THEN Root
                               ELSE IF p = 0 THEN cwd ELSE Parent[cwd],
                      files |-> <<>>, selected |-> stack, start_line |-> stack]
               opened == p \notin unopened'
    <3>1. fl \in Lists
      BY DEF Lists
    <3>2. panel'[p] = load_directory(fl, opened) /\ opened \in BOOLEAN
      BY <2>1
    <3> HIDE DEF fl, opened
    <3>3. /\ panel'[p] \in Lists /\ panel'[p].path = fl.path
          /\ IF opened THEN panel'[p].files = Contents[fl.path] /\ OnScreen(panel'[p])
                       ELSE panel'[p].files = <<>>
      BY <3>1, <3>2, Loads
    <3> QED BY <3>3 DEF opened
  <2>3. panel' \in [Panels -> Lists]
    BY <2>1, <2>2
  <2>4. mishaps' \in 0 .. MaxMishaps
    <3>0. Panels = {0} \union {1}
      BY DEF Panels
    <3>1. IsFiniteSet(Panels)
      BY <3>0, FS_Singleton, FS_AddElement
    <3>2. unopened' \in SUBSET Panels
      BY <1>2 DEF Launch
    <3>3. Cardinality(unopened') \in Nat /\ Cardinality(unresolved) \in Nat
      BY <3>1, <3>2, FS_Subset, FS_CardinalityType
    <3> QED BY <2>1, <3>3
  <2>5. ManagerTypeOK'
    BY <1>0, <1>2, <2>2, <2>3, <2>4 DEF Launch, ManagerTypeOK, Lists
  <2>6. SelectionOnScreen'
    <3>1. \A p \in Panels : p \notin unopened' => panel'[p].files # <<>>
      BY <2>2, ContentsLength DEF Lists
    <3> QED BY <2>2, <3>1 DEF SelectionOnScreen, OnScreen
  <2> QED BY <2>3, <2>5, <2>6 DEF ManagerInv
<1>3. CASE Tab
  <2>1. /\ UNCHANGED <<panel, newpath, mishaps, unopened>> /\ active' = 1 - active
        /\ manager = "running" /\ manager' \in {"running", "crashed"}
    BY <1>3 DEF Tab, Draw
  <2>2. active' \in Panels
    BY <1>0, <2>1 DEF Panels
  <2> QED BY <2>1, <2>2 DEF ManagerInv, ManagerTypeOK, SelectionOnScreen
<1>4. CASE Arrow
  <2>1. PICK delta \in {-1, 1} : panel' = [panel EXCEPT ![active] = move_selection(@, delta)]
    BY <1>4 DEF Arrow
  <2>2. /\ UNCHANGED <<active, newpath, mishaps, unopened>>
        /\ manager = "running" /\ manager' \in {"running", "crashed"}
    BY <1>4 DEF Arrow, Draw
  <2> DEFINE fl == panel[active]
             new == move_selection(fl, delta)
  <2>3. fl \in Lists /\ Len(fl.files) \in Nat
    <3>1. fl \in Lists /\ fl.path \in Dirs
      BY <1>0 DEF Lists
    <3>2. Len(Contents[fl.path]) \in Nat
      BY <3>1, ContentsLength
    <3>3. fl.files = <<>> \/ fl.files = Contents[fl.path]
      BY <1>0
    <3>4. Len(<<>>) = 0
      OBVIOUS
    <3> HIDE DEF fl
    <3> QED BY <3>1, <3>2, <3>3, <3>4
  <2>4. /\ new \in Lists /\ new.path = fl.path /\ new.files = fl.files
        /\ OnScreen(fl) => OnScreen(new)
    <3> HIDE DEF fl
    <3> QED BY <2>3, Moves
  <2>5. panel'[active] = new /\ \A p \in Panels \ {active} : panel'[p] = panel[p]
    BY <1>0, <2>1
  <2>6. panel' \in [Panels -> Lists]
    BY <1>0, <2>1, <2>4
  <2> HIDE DEF new
  <2>7. \A p \in Panels : /\ panel'[p] \in Lists /\ panel'[p].path = panel[p].path
                          /\ panel'[p].files = panel[p].files
                          /\ OnScreen(panel[p]) => OnScreen(panel'[p])
    BY <1>0, <2>4, <2>5
  <2>8. ManagerTypeOK'
    BY <1>0, <2>2, <2>7 DEF ManagerTypeOK, Lists
  <2>9. SelectionOnScreen'
    BY <2>2, <2>7 DEF ManagerInv, SelectionOnScreen, OnScreen
  <2> QED BY <2>6, <2>8, <2>9 DEF ManagerInv
<1>5. CASE Enter
  <2> DEFINE fl == panel[active]
             entry == fl.files[fl.selected + 1]
  <2>1. /\ IsDir(entry) /\ UNCHANGED active
        /\ manager = "running" /\ manager' \in {"running", "crashed"}
    BY <1>5 DEF Enter, Draw
  <2>2. PICK fits \in BOOLEAN, resolved \in BOOLEAN, opened \in BOOLEAN :
          /\ ~fits \/ ~resolved \/ ~opened => mishaps < MaxMishaps
          /\ mishaps' = IF fits /\ resolved /\ opened THEN mishaps ELSE mishaps + 1
          /\ newpath' = Formatted(fl.path, entry, fits)
          /\ \E path \in update_path(fl.path, entry, fits, resolved) :
               panel' = [panel EXCEPT ![active] = load_directory([fl EXCEPT !.path = path], opened)]
          /\ unopened' = IF opened THEN unopened \ {active} ELSE unopened \union {active}
    BY <1>5 DEF Enter
  <2>3. PICK path \in update_path(fl.path, entry, fits, resolved) :
          panel' = [panel EXCEPT ![active] = load_directory([fl EXCEPT !.path = path], opened)]
    BY <2>2
  <2>4. fl \in Lists /\ fl.path \in Dirs
    BY <1>0 DEF Lists
  <2> HIDE DEF entry
  <2>5. newpath' \in Dirs /\ path \in Dirs
    <3>1. Formatted(fl.path, entry, fits) \in Dirs
      BY <1>0, <2>1, <2>4 DEF Formatted, IsDir, CutsInPlace
    <3>2. update_path(fl.path, entry, fits, resolved) \subseteq Dirs
      BY <1>0, <2>4, <3>1 DEF update_path
    <3> QED BY <2>2, <2>3, <3>1, <3>2
  <2> DEFINE there == [fl EXCEPT !.path = path]
             new == load_directory(there, opened)
  <2>6. there \in Lists /\ there.path = path
    BY <2>4, <2>5 DEF Lists
  <2>7. /\ new \in Lists /\ new.path = path
        /\ IF opened THEN new.files = Contents[path] /\ OnScreen(new) ELSE new.files = <<>>
    <3> HIDE DEF there
    <3> QED BY <2>6, Loads
  <2>8. panel'[active] = new /\ \A p \in Panels \ {active} : panel'[p] = panel[p]
    BY <1>0, <2>3
  <2>9. panel' \in [Panels -> Lists]
    BY <1>0, <2>3, <2>7
  <2>10. mishaps' \in 0 .. MaxMishaps /\ unopened' \subseteq Panels
    BY <1>0, <2>2
  <2> HIDE DEF new, fl
  <2>11. ManagerTypeOK'
    <3>1. \A p \in Panels : /\ panel'[p] \in Lists
                            /\ panel'[p].files \in {<<>>, Contents[panel'[p].path]}
      BY <1>0, <2>7, <2>8, <2>9
    <3> QED BY <1>0, <2>1, <2>5, <2>10, <3>1 DEF ManagerTypeOK, Lists
  <2>12. SelectionOnScreen'
    <3>1. ASSUME NEW p \in Panels, p # active
          PROVE  IF panel'[p].files = <<>> THEN p \in unopened' ELSE OnScreen(panel'[p])
      <4>1. p \in unopened' <=> p \in unopened
        BY <2>2, <3>1
      <4> QED BY <2>1, <2>8, <3>1, <4>1 DEF ManagerInv, SelectionOnScreen, OnScreen
    <3>2. IF new.files = <<>> THEN active \in unopened' ELSE OnScreen(new)
      <4>1. CASE opened
        BY <2>5, <2>7, <4>1, ContentsLength
      <4>2. CASE ~opened
        BY <2>2, <2>7, <4>2
      <4> QED BY <4>1, <4>2
    <3> QED BY <2>8, <3>1, <3>2 DEF SelectionOnScreen, OnScreen
  <2> QED BY <2>9, <2>11, <2>12 DEF ManagerInv
<1>6. CASE Quit
  <2>1. /\ panel' = [p \in Panels |-> [panel[p] EXCEPT !.files = <<>>]]
        /\ manager' = "quit" /\ UNCHANGED <<active, newpath, mishaps, unopened>>
    BY <1>6 DEF Quit
  <2>2. \A p \in Panels : panel'[p] \in Lists /\ panel'[p].files = <<>>
    <3> SUFFICES ASSUME NEW p \in Panels PROVE panel'[p] \in Lists /\ panel'[p].files = <<>>
      OBVIOUS
    <3>1. PICK fl \in Lists : fl = panel[p]
      BY <1>0
    <3>2. panel'[p] = [fl EXCEPT !.files = <<>>]
      BY <2>1, <3>1
    <3>3. [fl EXCEPT !.files = <<>>] = [path |-> fl.path, files |-> <<>>,
                                        selected |-> fl.selected, start_line |-> fl.start_line]
      BY DEF Lists
    <3>4. [fl EXCEPT !.files = <<>>] \in Lists
      BY <3>3 DEF Lists
    <3> QED BY <3>2, <3>3, <3>4
  <2>3. panel' \in [Panels -> Lists]
    BY <2>1, <2>2
  <2> QED BY <1>0, <2>1, <2>2, <2>3 DEF ManagerInv, ManagerTypeOK, SelectionOnScreen, Lists
<1> QED BY <1>1, <1>2, <1>3, <1>4, <1>5, <1>6 DEF ManagerNext

(* The file manager within the whole.                                      *)
THEOREM ManagerInvariance == Spec => []ManagerInv
<1>1. Init => ManagerInv
  BY ManagerStart DEF Init
<1>2. [Next]_vars => [ManagerNext]_managerVars
  BY DEF Next, vars
<1> QED BY <1>1, <1>2, ManagerStep, PTL DEF Spec

(* The selection of a panel that shows entries is one of them, on screen.  *)
THEOREM SelectionStays == Spec => []SelectionOnScreen
BY ManagerInvariance, PTL DEF ManagerInv

-----------------------------------------------------------------------------
(* The shell.  How many children may be waiting to be reaped depends on    *)
(* where the shell is: none of the current command at the prompt, one      *)
(* after the first fork and before the last wait, two in between; and the  *)
(* two it waits for by their numbers are still there.                      *)

Pending == CASE shell \in {"wait", "fork2", "waitpid2"} -> 1
             [] shell \in {"close", "waitpid1"} -> 2
             [] OTHER -> 0

Awaited ==
  /\ shell \in {"fork2", "close", "waitpid1"} => child_pid1 \in Unreaped
  /\ shell \in {"close", "waitpid1", "waitpid2"} => child_pid2 \in Unreaped
  /\ shell \in {"close", "waitpid1"} => child_pid1 # child_pid2

ShellInv ==
  /\ ShellTypeOK /\ strays <= failures
  /\ shell \in {"fork1", "fork2", "close"} => pipes # 0
  /\ \A k \in Children : /\ k > forks => process[k] = "unborn"
                         /\ role[k] \in {"left", "right"} => via[k] # 0
  /\ Awaited
  /\ Cardinality(Unreaped) <= strays + Pending

LEMMA ShellStart == ShellInit => ShellInv
<1> SUFFICES ASSUME ShellInit PROVE ShellInv
  OBVIOUS
<1>1. ShellTypeOK
  BY ShellAssumption DEF ShellInit, ShellTypeOK
<1>2. Unreaped = {}
  BY DEF ShellInit, Unreaped
<1>3. Cardinality(Unreaped) <= strays + Pending
  BY <1>2, FS_EmptySet DEF ShellInit, Pending
<1> QED BY <1>1, <1>3 DEF ShellInit, ShellInv, Awaited

(* The children are finitely many.                                         *)
LEMMA UnreapedFinite == IsFiniteSet(Unreaped) /\ Cardinality(Unreaped) \in Nat
<1>1. IsFiniteSet(Children)
  BY FS_Interval, ShellAssumption DEF Children
<1>2. Unreaped \in SUBSET Children
  BY DEF Unreaped
<1> QED BY <1>1, <1>2, FS_Subset, FS_CardinalityType

(* A fork adds one child to those that are to be waited for.               *)
LEMMA Forks ==
  ASSUME ShellTypeOK, \A k \in Children : k > forks => process[k] = "unborn",
         NEW side \in {"plain", "left", "right"}, Fork(side)
  PROVE  /\ forks' \in Children /\ forks' \notin Unreaped
         /\ Unreaped' = Unreaped \union {forks'}
         /\ Cardinality(Unreaped') = Cardinality(Unreaped) + 1
         /\ \A k \in Children : k > forks' => process'[k] = "unborn"
<1>1. forks' = forks + 1 /\ forks < MaxForks /\ process' = [process EXCEPT ![forks'] = "forked"]
  BY DEF Fork
<1>2. forks \in Nat /\ forks' \in Children /\ forks' > forks
  BY <1>1, ShellAssumption DEF ShellTypeOK, Children
<1>3. forks' \notin Unreaped
  BY <1>2 DEF Unreaped
<1>4. Unreaped' = Unreaped \union {forks'}
  BY <1>1, <1>2 DEF Unreaped, ShellTypeOK
<1>5. Cardinality(Unreaped') = Cardinality(Unreaped) + 1
  BY <1>3, <1>4, UnreapedFinite, FS_AddElement
<1>6. \A k \in Children : k > forks' => process'[k] = "unborn"
  BY <1>1, <1>2 DEF ShellTypeOK, Children
<1> QED BY <1>2, <1>3, <1>4, <1>5, <1>6

(* A wait takes one of them away.                                          *)
LEMMA Reaps ==
  ASSUME ShellTypeOK, NEW k \in Children, process[k] = "zombie",
         process' = [process EXCEPT ![k] = "reaped"]
  PROVE  /\ Unreaped' = Unreaped \ {k}
         /\ Cardinality(Unreaped') = Cardinality(Unreaped) - 1
<1>1. Unreaped' = Unreaped \ {k} /\ k \in Unreaped
  BY DEF Unreaped, ShellTypeOK
<1> QED BY <1>1, UnreapedFinite, FS_RemoveElement

(* The types, fork by fork.                                                *)
LEMMA ForkTypes ==
  ASSUME ShellTypeOK, NEW side \in {"plain", "left", "right"}, Fork(side),
         side # "plain" => pipes # 0
  PROVE  /\ forks' \in 0 .. MaxForks /\ UNCHANGED <<pipes, failures, fill>>
         /\ process' \in [Children -> {"unborn", "forked", "running", "zombie", "reaped"}]
         /\ role' \in [Children -> {"none", "plain", "left", "right"}]
         /\ via' \in [Children -> 0 .. MaxPipes] /\ todo' \in [Children -> 0 .. MaxData]
         /\ writers' \in [Pipes -> SUBSET (0 .. MaxForks)]
         /\ readers' \in [Pipes -> SUBSET (0 .. MaxForks)]
         /\ (\A k \in Children : role[k] \in {"left", "right"} => via[k] # 0) =>
              \A k \in Children : role'[k] \in {"left", "right"} => via'[k] # 0
<1> USE ShellAssumption
<1>1. forks' = forks + 1 /\ forks' \in Children /\ forks' \in 0 .. MaxForks
  BY DEF Fork, ShellTypeOK, Children
<1>2. process' \in [Children -> {"unborn", "forked", "running", "zombie", "reaped"}]
  BY DEF Fork, ShellTypeOK
<1>3. role' \in [Children -> {"none", "plain", "left", "right"}]
  BY DEF Fork, ShellTypeOK
<1>4. via' \in [Children -> 0 .. MaxPipes]
  <2>1. PICK n \in 0 .. MaxPipes : n = IF side = "plain" THEN 0 ELSE pipes
    BY DEF ShellTypeOK
  <2>2. via' = [via EXCEPT ![forks'] = n]
    BY <2>1 DEF Fork
  <2> QED BY <2>2 DEF ShellTypeOK
<1>5. todo' \in [Children -> 0 .. MaxData]
  <2>1. PICK n \in 0 .. MaxData : todo' = [todo EXCEPT ![forks'] = IF side = "left" THEN n ELSE 0]
    BY DEF Fork
  <2>2. PICK m \in 0 .. MaxData : m = IF side = "left" THEN n ELSE 0
    OBVIOUS
  <2>3. todo' = [todo EXCEPT ![forks'] = m]
    BY <2>1, <2>2
  <2> QED BY <2>3 DEF ShellTypeOK
<1>6. /\ writers' \in [Pipes -> SUBSET (0 .. MaxForks)]
      /\ readers' \in [Pipes -> SUBSET (0 .. MaxForks)]
  BY <1>1 DEF Fork, ShellTypeOK, Inherited
<1>7. ASSUME \A k \in Children : role[k] \in {"left", "right"} => via[k] # 0
      PROVE  \A k \in Children : role'[k] \in {"left", "right"} => via'[k] # 0
  BY <1>1, <1>7 DEF Fork, ShellTypeOK
<1>8. UNCHANGED <<pipes, failures, fill>>
  BY DEF Fork
<1> QED BY <1>1, <1>2, <1>3, <1>4, <1>5, <1>6, <1>7, <1>8

(* The steps of the children change neither the shell nor who is to be     *)
(* waited for.                                                             *)
LEMMA ChildKeeps ==
  ASSUME ShellInv, NEW k \in Children, ChildStep(k) \/ ExecFails(k) \/ StopReading(k)
  PROVE  ShellInv'
<1> USE ShellAssumption
<1>1. ShellTypeOK
  BY DEF ShellInv
<1>2. UNCHANGED <<shell, child_pid1, child_pid2, forks, pipes, failures, role, via, strays>>
  BY DEF ChildStep, Exec, ExecFails, Produce, BrokenPipe, Consume, Done, StopReading, Die,
     pidVars, countVars, commandVars
<1>3. /\ process[k] \in {"forked", "running"}
      /\ \/ process' = process \/ process' = [process EXCEPT ![k] = "running"]
         \/ process' = [process EXCEPT ![k] = "zombie"]
  BY DEF ChildStep, Exec, ExecFails, Produce, BrokenPipe, Consume, Done, StopReading, Die
<1>4. /\ process' \in [Children -> {"unborn", "forked", "running", "zombie", "reaped"}]
      /\ Unreaped' = Unreaped
      /\ \A j \in Children : j > forks => process'[j] = "unborn"
  BY <1>1, <1>3 DEF ShellTypeOK, Unreaped, ShellInv
<1>5. /\ writers' \in [Pipes -> SUBSET (0 .. MaxForks)]
      /\ readers' \in [Pipes -> SUBSET (0 .. MaxForks)]
  BY <1>1 DEF ChildStep, Exec, ExecFails, Produce, BrokenPipe, Consume, Done, StopReading, Die,
     Dropped, ShellTypeOK
<1>6. via[k] \in Pipes \/ role[k] \notin {"left", "right"}
  BY <1>1 DEF ShellInv, ShellTypeOK, Pipes
<1>7. todo' \in [Children -> 0 .. MaxData] /\ fill' \in [Pipes -> 0 .. PipeSize]
  <2>1. CASE Produce(k)
    <3>1. /\ todo[k] - 1 \in 0 .. MaxData /\ via[k] \in Pipes
          /\ fill[via[k]] + 1 \in 0 .. PipeSize
      BY <1>1, <1>6, <2>1 DEF Produce, ShellTypeOK
    <3> QED BY <1>1, <2>1, <3>1 DEF Produce, ShellTypeOK
  <2>2. CASE Consume(k)
    <3>1. fill[via[k]] - 1 \in 0 .. PipeSize /\ via[k] \in Pipes
      BY <1>1, <1>6, <2>2 DEF Consume, ShellTypeOK
    <3> QED BY <1>1, <2>2, <3>1 DEF Consume, ShellTypeOK, commandVars
  <2>3. CASE ~Produce(k) /\ ~Consume(k)
    BY <1>1, <2>3 DEF ChildStep, Exec, ExecFails, BrokenPipe, Done, StopReading, Die,
       ShellTypeOK, commandVars
  <2> QED BY <2>1, <2>2, <2>3
<1>8. ShellTypeOK'
  BY <1>1, <1>2, <1>4, <1>5, <1>7 DEF ShellTypeOK
<1>9. Awaited' /\ Cardinality(Unreaped') <= strays' + Pending'
  BY <1>2, <1>4 DEF ShellInv, Awaited, Pending
<1> QED BY <1>2, <1>4, <1>8, <1>9 DEF ShellInv

(* Every step of the shell keeps the children and its place in step.       *)
LEMMA ShellKeeps == ShellInv /\ [ShellNext]_shellVars => ShellInv'
<1> SUFFICES ASSUME ShellInv, [ShellNext]_shellVars PROVE ShellInv'
  OBVIOUS
<1> USE ShellAssumption DEF pidVars, countVars, commandVars, pipeVars
<1> DEFINE Born == \A k \in Children : k > forks => process[k] = "unborn"
           Sided == \A k \in Children : role[k] \in {"left", "right"} => via[k] # 0
<1>0. /\ ShellTypeOK /\ Born /\ Sided /\ Awaited /\ strays <= failures
      /\ Cardinality(Unreaped) <= strays + Pending
      /\ Cardinality(Unreaped) \in Nat /\ strays \in Nat /\ failures \in Nat
  BY UnreapedFinite DEF ShellInv, ShellTypeOK
<1>1. CASE UNCHANGED shellVars
  <2>1. Unreaped' = Unreaped
    BY <1>1 DEF shellVars, Unreaped
  <2> QED BY <1>1, <2>1 DEF shellVars, ShellInv, ShellTypeOK, Awaited, Pending
<1>2. ASSUME NEW k \in Children, ChildStep(k) \/ ExecFails(k) \/ StopReading(k)
      PROVE  ShellInv'
  BY <1>2, ChildKeeps
<1>3. CASE ReadExit \/ ReadPipe \/ CloseEnds
  <2>1. UNCHANGED <<child_pid1, child_pid2, forks, failures, process, role, via, todo, fill, strays>>
    BY <1>3 DEF ReadExit, ReadPipe, CloseEnds
  <2>2. Unreaped' = Unreaped
    BY <2>1 DEF Unreaped
  <2>3. /\ writers' \in [Pipes -> SUBSET (0 .. MaxForks)]
        /\ readers' \in [Pipes -> SUBSET (0 .. MaxForks)]
    BY <1>0, <1>3 DEF ReadExit, ReadPipe, CloseEnds, Dropped, ShellTypeOK
  <2>4. /\ pipes' \in 0 .. MaxPipes
        /\ shell' \in {"fork1", "gone", "waitpid1"}
        /\ shell' = "fork1" => pipes' # 0
    BY <1>0, <1>3 DEF ReadExit, ReadPipe, CloseEnds, ShellTypeOK
  <2>5. ShellTypeOK'
    BY <1>0, <2>1, <2>3, <2>4 DEF ShellTypeOK
  <2>6. Pending' = Pending /\ Awaited'
    BY <1>0, <1>3, <2>1, <2>2 DEF ReadExit, ReadPipe, CloseEnds, Pending, Awaited
  <2> QED BY <1>0, <2>1, <2>2, <2>4, <2>5, <2>6 DEF ShellInv
<1>4. ASSUME NEW side \in {"plain", "left", "right"}, Fork(side), UNCHANGED strays,
             \/ /\ side = "plain" /\ shell = "prompt" /\ shell' = "wait"
                /\ UNCHANGED <<child_pid1, child_pid2>>
             \/ /\ side = "left" /\ shell = "fork1" /\ shell' = "fork2"
                /\ child_pid1' = forks' /\ UNCHANGED child_pid2
             \/ /\ side = "right" /\ shell = "fork2" /\ shell' = "close"
                /\ child_pid2' = forks' /\ UNCHANGED child_pid1
      PROVE  ShellInv'
  <2>1. side # "plain" => pipes # 0
    BY <1>4 DEF ShellInv
  <2>2. /\ forks' \in Children /\ forks' \notin Unreaped
        /\ Unreaped' = Unreaped \union {forks'}
        /\ Cardinality(Unreaped') = Cardinality(Unreaped) + 1
        /\ Born'
    BY <1>0, <1>4, Forks
  <2>3. /\ forks' \in 0 .. MaxForks /\ UNCHANGED <<pipes, failures, fill>>
        /\ process' \in [Children -> {"unborn", "forked", "running", "zombie", "reaped"}]
        /\ role' \in [Children -> {"none", "plain", "left", "right"}]
        /\ via' \in [Children -> 0 .. MaxPipes] /\ todo' \in [Children -> 0 .. MaxData]
        /\ writers' \in [Pipes -> SUBSET (0 .. MaxForks)]
        /\ readers' \in [Pipes -> SUBSET (0 .. MaxForks)]
        /\ Sided'
    BY <1>0, <1>4, <2>1, ForkTypes
  <2> HIDE DEF Born, Sided
  <2>4. ShellTypeOK'
    BY <1>0, <1>4, <2>3 DEF ShellTypeOK
  <2>5. Awaited'
    BY <1>0, <1>4, <2>2 DEF Awaited
  <2>6. Pending' = Pending + 1 /\ Pending \in Nat
    BY <1>4 DEF Pending
  <2>7. Cardinality(Unreaped') <= strays' + Pending'
    BY <1>0, <1>4, <2>2, <2>6
  <2>8. strays' <= failures' /\ (shell' \in {"fork1", "fork2", "close"} => pipes' # 0)
    BY <1>0, <1>4, <2>1, <2>3
  <2> QED BY <2>2, <2>3, <2>4, <2>5, <2>7, <2>8 DEF ShellInv, Born, Sided
<1>5. ASSUME ForkFails, UNCHANGED <<child_pid1, child_pid2>>,
             \/ shell = "prompt" /\ shell' = "wait" /\ UNCHANGED strays
             \/ shell = "fork1" /\ shell' = "prompt" /\ UNCHANGED strays
             \/ shell = "fork2" /\ shell' = "prompt" /\ strays' = strays + 1
      PROVE  ShellInv'
  <2>1. /\ UNCHANGED <<forks, pipes, process, role, via, todo, writers, readers, fill>>
        /\ failures' = failures + 1 /\ failures < MaxFailures
    BY <1>5 DEF ForkFails
  <2>2. Unreaped' = Unreaped
    BY <2>1 DEF Unreaped
  <2>3. strays' <= failures' /\ failures' \in 0 .. MaxFailures /\ strays' \in 0 .. MaxFailures
    BY <1>0, <1>5, <2>1
  <2>4. ShellTypeOK'
    BY <1>0, <1>5, <2>1, <2>3 DEF ShellTypeOK
  <2>5. Awaited' /\ Cardinality(Unreaped') <= strays' + Pending'
    BY <1>0, <1>5, <2>2 DEF Awaited, Pending
  <2> QED BY <1>0, <1>5, <2>1, <2>3, <2>4, <2>5 DEF ShellInv
<1>6. CASE WaitPid1 \/ WaitPid2 \/ WaitAny
  <2>1. UNCHANGED <<child_pid1, child_pid2, forks, pipes, failures, role, via, todo, writers,
                    readers, fill, strays>>
    BY <1>6 DEF WaitPid1, WaitPid2, WaitAny
  <2>2. /\ process' \in [Children -> {"unborn", "forked", "running", "zombie", "reaped"}]
        /\ shell' \in {"prompt", "waitpid2"} /\ Born'
    BY <1>0, <1>6, <2>1 DEF WaitPid1, WaitPid2, WaitAny, ShellTypeOK
  <2>3. Awaited' /\ Cardinality(Unreaped') <= strays' + Pending'
    <3>1. CASE WaitPid1
      <4>1. child_pid1 \in Children /\ child_pid2 \in Unreaped /\ child_pid1 # child_pid2
        BY <1>0, <3>1 DEF WaitPid1, Awaited, Unreaped
      <4>2. /\ Unreaped' = Unreaped \ {child_pid1}
            /\ Cardinality(Unreaped') = Cardinality(Unreaped) - 1
        BY <1>0, <3>1, <4>1, Reaps DEF WaitPid1
      <4> QED BY <1>0, <2>1, <3>1, <4>1, <4>2 DEF WaitPid1, Awaited, Pending
    <3>2. CASE WaitPid2
      <4>1. child_pid2 \in Children
        BY <1>0, <3>2 DEF WaitPid2, Awaited, Unreaped
      <4>2. Cardinality(Unreaped') = Cardinality(Unreaped) - 1
        BY <1>0, <3>2, <4>1, Reaps DEF WaitPid2
      <4> QED BY <1>0, <2>1, <3>2, <4>2 DEF WaitPid2, Awaited, Pending
    <3>3. CASE WaitAny /\ Unreaped = {} /\ UNCHANGED process
      <4>1. Unreaped' = {} /\ Cardinality(Unreaped') = 0
        BY <3>3, FS_EmptySet DEF Unreaped
      <4> QED BY <1>0, <2>1, <3>3, <4>1 DEF WaitAny, Awaited, Pending
    <3>4. ASSUME WaitAny, NEW k \in Children, process[k] = "zombie",
                 process' = [process EXCEPT ![k] = "reaped"]
          PROVE  Awaited' /\ Cardinality(Unreaped') <= strays' + Pending'
      <4>1. Cardinality(Unreaped') = Cardinality(Unreaped) - 1
        BY <1>0, <3>4, Reaps
      <4> QED BY <1>0, <2>1, <3>4, <4>1 DEF WaitAny, Awaited, Pending
    <3> QED BY <1>6, <3>1, <3>2, <3>3, <3>4 DEF WaitAny
  <2>4. ShellTypeOK'
    BY <1>0, <2>1, <2>2 DEF ShellTypeOK
  <2> QED BY <1>0, <2>1, <2>2, <2>3, <2>4 DEF ShellInv
<1>7. CASE ReadPlain
  BY <1>4, <1>5, <1>7 DEF ReadPlain
<1>8. CASE Fork1
  BY <1>4, <1>5, <1>8 DEF Fork1
<1>9. CASE Fork2
  BY <1>4, <1>5, <1>9 DEF Fork2
<1> QED BY <1>1, <1>2, <1>3, <1>6, <1>7, <1>8, <1>9 DEF ShellNext, ShellStep

(* The shell within the whole; its types: a pipe holds what fits.          *)
THEOREM ShellInvariance == Spec => []ShellInv
<1>1. Init => ShellInv
  BY ShellStart DEF Init
<1>2. [Next]_vars => [ShellNext]_shellVars
  BY DEF Next, vars
<1> QED BY <1>1, <1>2, ShellKeeps, PTL DEF Spec

(* At the prompt nobody is left to be waited for, but one child for every  *)
(* second fork that failed.                                                *)
THEOREM PromptFindsReaped == Spec => []ChildrenReaped
<1>1. ShellInv => ChildrenReaped
  BY DEF ShellInv, Pending, ChildrenReaped, ShellTypeOK
<1> QED BY ShellInvariance, <1>1, PTL

-----------------------------------------------------------------------------
(* Induction.  The library's induction theorems take the property as an    *)
(* operator; here it is a set, and the step is that a set of numbers, or   *)
(* of subsets of a finite set, has a least element.                        *)

LEMMA LeastNumber ==
  ASSUME NEW T, T \subseteq Nat, T # {}
  PROVE  \E x \in T : \A y \in T : x <= y
<1>1. PICK x \in T : \A y \in T : ~(<<y, x>> \in OpToRel(<, Nat))
  BY WFMin, NatLessThanWellFounded
<1>2. \A y \in T : ~(y < x)
  BY <1>1 DEF OpToRel
<1> QED BY <1>2

LEMMA SmallestSubset ==
  ASSUME NEW S, IsFiniteSet(S), NEW B, B \subseteq SUBSET S, B # {}
  PROVE  \E s \in B : \A x \in s : s \ {x} \notin B
<1> DEFINE T == {Cardinality(s) : s \in B}
<1>1. \A s \in B : IsFiniteSet(s) /\ Cardinality(s) \in Nat
  BY FS_Subset, FS_CardinalityType
<1>2. T \subseteq Nat /\ T # {}
  BY <1>1
<1>3. PICK n \in T : \A m \in T : n <= m
  BY <1>2, LeastNumber
<1>4. PICK s \in B : Cardinality(s) = n
  BY <1>3
<1>5. ASSUME NEW x \in s, s \ {x} \in B
      PROVE  FALSE
  <2>1. Cardinality(s \ {x}) = Cardinality(s) - 1
    BY <1>1, <1>4, FS_RemoveElement
  <2>2. Cardinality(s \ {x}) \in T
    BY <1>5
  <2> QED BY <2>1, <2>2, <1>1, <1>3, <1>4
<1> QED BY <1>4, <1>5

-----------------------------------------------------------------------------
(* Total is a fold, which the community modules define with CHOOSE: Sums   *)
(* is the recursive function it chooses, over all subsets of the domain.   *)

Pick(s) == CHOOSE x \in s : TRUE

IsSums(g, f) ==
  g = [s \in SUBSET DOMAIN f |-> IF s = {} THEN 0 ELSE f[Pick(s)] + g[s \ {Pick(s)}]]

Sums(f) == CHOOSE g : IsSums(g, f)

SumsUpTo(g, f, n) ==
  g = [s \in {t \in SUBSET DOMAIN f : Cardinality(t) <= n} |->
         IF s = {} THEN 0 ELSE f[Pick(s)] + g[s \ {Pick(s)}]]

LEMMA PickIn == ASSUME NEW s, s # {} PROVE Pick(s) \in s
BY DEF Pick

(* A function of all the subsets up to a size extends to the next size.    *)
LEMMA SumsGrow ==
  ASSUME NEW S, IsFiniteSet(S), NEW f, DOMAIN f = S, NEW n \in Nat, NEW g, SumsUpTo(g, f, n)
  PROVE  \E h : SumsUpTo(h, f, n + 1)
<1> DEFINE Small(m) == {t \in SUBSET S : Cardinality(t) <= m}
           h == [s \in Small(n + 1) |-> IF s = {} THEN 0 ELSE f[Pick(s)] + g[s \ {Pick(s)}]]
<1>1. \A s \in SUBSET S : IsFiniteSet(s) /\ Cardinality(s) \in Nat
  BY FS_Subset, FS_CardinalityType
<1>2. ASSUME NEW s \in Small(n + 1), s # {}
      PROVE  h[s \ {Pick(s)}] = g[s \ {Pick(s)}]
  <2> DEFINE t == s \ {Pick(s)}
  <2>1. Cardinality(t) = Cardinality(s) - 1
    BY <1>1, <1>2, PickIn, FS_RemoveElement
  <2>2. t \in Small(n) /\ t \in Small(n + 1)
    BY <2>1, <1>1, <1>2
  <2>3. g[t] = IF t = {} THEN 0 ELSE f[Pick(t)] + g[t \ {Pick(t)}]
    BY <2>2 DEF SumsUpTo
  <2>4. h[t] = IF t = {} THEN 0 ELSE f[Pick(t)] + g[t \ {Pick(t)}]
    BY <2>2
  <2> QED BY <2>3, <2>4
<1>3. h = [s \in Small(n + 1) |-> IF s = {} THEN 0 ELSE f[Pick(s)] + h[s \ {Pick(s)}]]
  <2> DEFINE k == [s \in Small(n + 1) |-> IF s = {} THEN 0 ELSE f[Pick(s)] + h[s \ {Pick(s)}]]
  <2>1. \A s \in Small(n + 1) : h[s] = k[s]
    BY <1>2
  <2> QED BY <2>1
<1> HIDE DEF h
<1> QED BY <1>3 DEF SumsUpTo

LEMMA SumsExist ==
  ASSUME NEW S, IsFiniteSet(S), NEW f, DOMAIN f = S
  PROVE  IsSums(Sums(f), f) /\ Total(f) = Sums(f)[S]
<1> DEFINE T == {n \in Nat : ~ \E g : SumsUpTo(g, f, n)}
<1>1. \A s \in SUBSET S : IsFiniteSet(s) /\ Cardinality(s) \in Nat /\ Cardinality(s) <= Cardinality(S)
  BY FS_Subset, FS_CardinalityType
<1>2. 0 \notin T
  <2> DEFINE g == [s \in {t \in SUBSET S : Cardinality(t) <= 0} |-> 0]
             k == [s \in {t \in SUBSET S : Cardinality(t) <= 0} |->
                     IF s = {} THEN 0 ELSE f[Pick(s)] + g[s \ {Pick(s)}]]
  <2>1. \A s \in {t \in SUBSET S : Cardinality(t) <= 0} : s = {}
    BY <1>1, FS_EmptySet
  <2>2. \A s \in {t \in SUBSET S : Cardinality(t) <= 0} : g[s] = k[s]
    BY <2>1
  <2>3. g = k
    BY <2>2
  <2> HIDE DEF g
  <2> QED BY <2>3 DEF SumsUpTo
<1>3. T = {}
  <2> SUFFICES ASSUME T # {} PROVE FALSE
    OBVIOUS
  <2>1. PICK n \in T : \A m \in T : n <= m
    BY LeastNumber
  <2>2. n \in Nat /\ n # 0
    BY <1>2
  <2>3. n - 1 \in Nat /\ n - 1 \notin T
    BY <2>1, <2>2
  <2>4. PICK g : SumsUpTo(g, f, n - 1)
    BY <2>3
  <2>5. \E h : SumsUpTo(h, f, (n - 1) + 1)
    BY <2>3, <2>4, SumsGrow
  <2>6. (n - 1) + 1 = n
    BY <2>2
  <2> QED BY <2>1, <2>5, <2>6
<1>4. PICK g : SumsUpTo(g, f, Cardinality(S))
  BY <1>3, FS_CardinalityType
<1>5. {t \in SUBSET S : Cardinality(t) <= Cardinality(S)} = SUBSET S
  BY <1>1
<1>6. IsSums(g, f)
  BY <1>4, <1>5 DEF SumsUpTo, IsSums
<1>7. IsSums(Sums(f), f)
  BY <1>6 DEF Sums
<1>8. Total(f) = Sums(f)[S]
  BY DEF Total, FoldFunction, FoldFunctionOnSet, MapThenFoldSet, Sums, IsSums, Pick
<1> QED BY <1>7, <1>8

LEMMA SumsUnfold ==
  ASSUME NEW S, IsFiniteSet(S), NEW f \in [S -> Int]
  PROVE  /\ Sums(f)[{}] = 0
         /\ \A s \in SUBSET S : s # {} =>
              /\ Pick(s) \in s
              /\ Sums(f)[s] = f[Pick(s)] + Sums(f)[s \ {Pick(s)}]
         /\ Total(f) = Sums(f)[S]
<1>1. IsSums(Sums(f), f) /\ Total(f) = Sums(f)[S]
  <2>1. DOMAIN f = S
    OBVIOUS
  <2> QED BY <2>1, SumsExist
<1>2. \A s \in SUBSET S :
        Sums(f)[s] = IF s = {} THEN 0 ELSE f[Pick(s)] + Sums(f)[s \ {Pick(s)}]
  <2> HIDE DEF Sums
  <2> DEFINE g == Sums(f)
  <2>1. g = [s \in SUBSET S |-> IF s = {} THEN 0 ELSE f[Pick(s)] + g[s \ {Pick(s)}]]
    BY <1>1 DEF IsSums
  <2> HIDE DEF g
  <2> QED BY <2>1 DEF g
<1> QED BY <1>1, <1>2, PickIn

LEMMA SumsType ==
  ASSUME NEW S, IsFiniteSet(S), NEW f \in [S -> Int]
  PROVE  \A s \in SUBSET S : Sums(f)[s] \in Int
<1> DEFINE B == {s \in SUBSET S : Sums(f)[s] \notin Int}
<1>0. /\ Sums(f)[{}] = 0
      /\ \A s \in SUBSET S : s # {} =>
           /\ Pick(s) \in s
           /\ Sums(f)[s] = f[Pick(s)] + Sums(f)[s \ {Pick(s)}]
      /\ Total(f) = Sums(f)[S]
  BY SumsUnfold
<1> SUFFICES ASSUME B # {} PROVE FALSE
  OBVIOUS
<1>1. PICK s \in B : \A x \in s : s \ {x} \notin B
  BY SmallestSubset
<1>2. s # {}
  <2>1. Sums(f)[s] \notin Int
    BY <1>1
  <2>2. Sums(f)[{}] = 0
    BY <1>0
  <2> QED BY <2>1, <2>2
<1>3. Pick(s) \in s /\ Sums(f)[s] = f[Pick(s)] + Sums(f)[s \ {Pick(s)}]
  BY <1>0, <1>1, <1>2
<1>4. Sums(f)[s \ {Pick(s)}] \in Int
  BY <1>1, <1>3
<1>5. f[Pick(s)] \in Int
  BY <1>3
<1> QED BY <1>3, <1>4, <1>5

LEMMA TotalInt ==
  ASSUME NEW S, IsFiniteSet(S), NEW f \in [S -> Int]
  PROVE  Total(f) \in Int
BY SumsType, SumsUnfold

LEMMA TotalNat ==
  ASSUME NEW S, IsFiniteSet(S), NEW f \in [S -> Nat]
  PROVE  Total(f) \in Nat
<1>00. f \in [S -> Int]
  OBVIOUS
<1> DEFINE B == {s \in SUBSET S : Sums(f)[s] \notin Nat}
<1>0. /\ Sums(f)[{}] = 0
      /\ \A s \in SUBSET S : s # {} =>
           /\ Pick(s) \in s
           /\ Sums(f)[s] = f[Pick(s)] + Sums(f)[s \ {Pick(s)}]
      /\ Total(f) = Sums(f)[S]
  BY <1>00, SumsUnfold
<1> SUFFICES ASSUME B # {} PROVE FALSE
  BY <1>0
<1>1. PICK s \in B : \A x \in s : s \ {x} \notin B
  BY SmallestSubset
<1>2. s # {}
  <2>1. Sums(f)[s] \notin Nat
    BY <1>1
  <2>2. Sums(f)[{}] = 0
    BY <1>0
  <2> QED BY <2>1, <2>2
<1>3. Pick(s) \in s /\ Sums(f)[s] = f[Pick(s)] + Sums(f)[s \ {Pick(s)}]
  BY <1>0, <1>1, <1>2
<1>4. Sums(f)[s \ {Pick(s)}] \in Nat
  BY <1>1, <1>3
<1>5. f[Pick(s)] \in Nat
  BY <1>3
<1> QED BY <1>3, <1>4, <1>5

LEMMA TotalZero ==
  ASSUME NEW S, IsFiniteSet(S), NEW f \in [S -> Int], \A x \in S : f[x] = 0
  PROVE  Total(f) = 0
<1> DEFINE B == {s \in SUBSET S : Sums(f)[s] # 0}
<1>0. /\ Sums(f)[{}] = 0
      /\ \A s \in SUBSET S : s # {} =>
           /\ Pick(s) \in s
           /\ Sums(f)[s] = f[Pick(s)] + Sums(f)[s \ {Pick(s)}]
      /\ Total(f) = Sums(f)[S]
  BY SumsUnfold
<1> SUFFICES ASSUME B # {} PROVE FALSE
  BY <1>0
<1>1. PICK s \in B : \A x \in s : s \ {x} \notin B
  BY SmallestSubset
<1>2. s # {}
  <2>1. Sums(f)[s] # 0
    BY <1>1
  <2>2. Sums(f)[{}] = 0
    BY <1>0
  <2> QED BY <2>1, <2>2
<1>3. Pick(s) \in s /\ Sums(f)[s] = f[Pick(s)] + Sums(f)[s \ {Pick(s)}]
  BY <1>0, <1>1, <1>2
<1>4. Sums(f)[s \ {Pick(s)}] = 0
  BY <1>1, <1>3
<1>5. f[Pick(s)] = 0
  BY <1>3
<1> QED BY <1>3, <1>4, <1>5

(* A total changes by what one entry of it does.                           *)
LEMMA TotalChange ==
  ASSUME NEW S, IsFiniteSet(S), NEW f \in [S -> Int], NEW h \in [S -> Int],
         NEW x \in S, \A y \in S : y # x => h[y] = f[y]
  PROVE  Total(h) = Total(f) + h[x] - f[x]
<1> DEFINE d == h[x] - f[x]
           change(s) == IF x \in s THEN d ELSE 0
           B == {s \in SUBSET S : Sums(h)[s] # Sums(f)[s] + change(s)}
<1>0. /\ Sums(f)[{}] = 0
      /\ \A s \in SUBSET S : s # {} =>
           /\ Pick(s) \in s
           /\ Sums(f)[s] = f[Pick(s)] + Sums(f)[s \ {Pick(s)}]
      /\ Total(f) = Sums(f)[S]
  BY SumsUnfold
<1>a. /\ Sums(h)[{}] = 0
      /\ \A s \in SUBSET S : s # {} =>
           /\ Pick(s) \in s
           /\ Sums(h)[s] = h[Pick(s)] + Sums(h)[s \ {Pick(s)}]
      /\ Total(h) = Sums(h)[S]
  BY SumsUnfold
<1>1. d \in Int /\ (\A s \in SUBSET S : Sums(f)[s] \in Int /\ Sums(h)[s] \in Int)
  BY SumsType
<1>2. ASSUME B # {} PROVE FALSE
  <2>1. PICK s \in B : \A y \in s : s \ {y} \notin B
    BY <1>2, SmallestSubset
  <2>2. s # {}
    <3>1. change({}) = 0
      OBVIOUS
    <3>2. Sums(h)[{}] = Sums(f)[{}] + change({})
      BY <1>0, <1>a, <3>1
    <3> QED BY <3>2, <2>1
  <2> DEFINE p == Pick(s)
  <2>3. /\ p \in s
        /\ Sums(f)[s] = f[p] + Sums(f)[s \ {p}]
        /\ Sums(h)[s] = h[p] + Sums(h)[s \ {p}]
    BY <1>0, <1>a, <2>1, <2>2
  <2> HIDE DEF p
  <2>4. Sums(h)[s \ {p}] = Sums(f)[s \ {p}] + change(s \ {p})
    BY <2>1, <2>3
  <2>5. f[p] \in Int /\ h[p] \in Int /\ Sums(f)[s \ {p}] \in Int
    BY <2>3, <1>1
  <2>6. CASE p = x
    <3>1. change(s \ {p}) = 0 /\ change(s) = d
      BY <2>6, <2>3
    <3>2. h[p] = f[p] + d
      BY <2>5, <2>6
    <3> HIDE DEF d, change
    <3>3. Sums(h)[s] = Sums(f)[s] + change(s)
      BY <3>1, <3>2, <2>3, <2>4, <2>5, <1>1
    <3> QED BY <3>3, <2>1
  <2>7. CASE p # x
    <3>1. change(s \ {p}) = change(s) /\ change(s) \in Int
      BY <2>7, <2>3, <1>1
    <3>2. h[p] = f[p]
      BY <2>3, <2>7
    <3> HIDE DEF d, change
    <3>3. Sums(h)[s] = Sums(f)[s] + change(s)
      BY <3>1, <3>2, <2>3, <2>4, <2>5, <1>1
    <3> QED BY <3>3, <2>1
  <2> QED BY <2>6, <2>7
<1>3. Sums(h)[S] = Sums(f)[S] + d
  BY <1>2
<1>4. Total(h) = Sums(h)[S] /\ Total(f) = Sums(f)[S]
  BY <1>0, <1>a
<1>5. h[x] \in Int /\ f[x] \in Int /\ Sums(f)[S] \in Int
  BY <1>1
<1> QED BY <1>3, <1>4, <1>5

-----------------------------------------------------------------------------
(* The shops.  Whoever stands between lock and unlock holds the mutex, and *)
(* what it has read is still what the shop, or the counter, holds: the     *)
(* write that follows loses nothing.                                       *)

InShop ==
  /\ \A b \in Buyers : pc[b] = "buy" => mutex[visiting[b]] = b /\ seen[b] = shop[visiting[b]]
  /\ loader = "load" => mutex[at] = "loader" /\ found = shop[at]

Finished == {b \in Buyers : pc[b] = "done"}

AtCounter ==
  /\ \A b \in Buyers : pc[b] = "count" => finish = b /\ seen[b] = buyers_finished
  /\ buyers_finished = Cardinality(Finished)

BeforeStart ==
  main = "start" => loader = "unborn" /\ \A b \in Buyers : pc[b] = "unborn"

ShopsInv == ShopsTypeOK /\ InShop /\ AtCounter /\ BeforeStart /\ GoodsConserved

Bought == [b \in Buyers |-> wanted[b] - demand[b]]

LEMMA ShopsFinite == IsFiniteSet(Shop) /\ IsFiniteSet(Buyers)
BY ShopsAssumption, FS_Interval DEF Shop

LEMMA FinishedFinite ==
  IsFiniteSet(Finished) /\ Cardinality(Finished) \in 0 .. Cardinality(Buyers)
<1>1. Finished \in SUBSET Buyers
  BY DEF Finished
<1>2. /\ IsFiniteSet(Finished) /\ Cardinality(Finished) <= Cardinality(Buyers)
      /\ Cardinality(Buyers) \in Nat
  BY <1>1, ShopsFinite, FS_Subset, FS_CardinalityType
<1>3. Cardinality(Finished) \in Nat
  BY <1>2, FS_CardinalityType
<1> QED BY <1>2, <1>3

LEMMA ShopsStart == ShopsInit => ShopsInv
<1> SUFFICES ASSUME ShopsInit PROVE ShopsInv
  OBVIOUS
<1> USE DEF ShopsInit
<1>1. Finished = {}
  BY DEF Finished
<1>2. Cardinality(Finished) = 0
  BY <1>1, FS_EmptySet
<1>3. ShopsTypeOK
  BY ShopsAssumption, FinishedFinite, <1>2 DEF ShopsTypeOK, Shop
<1>4. InShop /\ AtCounter /\ BeforeStart
  BY <1>2 DEF InShop, AtCounter, BeforeStart
<1>5. Total(shop) = 0
  <2>1. shop \in [Shop -> Int] /\ \A i \in Shop : shop[i] = 0
    OBVIOUS
  <2> QED BY <2>1, ShopsFinite, TotalZero
<1>6. Total(Bought) = 0
  <2>1. Bought \in [Buyers -> Int] /\ \A b \in Buyers : Bought[b] = 0
    BY DEF Bought
  <2> QED BY <2>1, ShopsFinite, TotalZero
<1>7. GoodsConserved
  BY <1>5, <1>6 DEF GoodsConserved, Bought
<1> QED BY <1>3, <1>4, <1>7 DEF ShopsInv

(* What a step that moves no goods leaves as it is.                        *)
LEMMA GoodsStay ==
  ASSUME GoodsConserved, UNCHANGED <<shop, demand, observers>>
  PROVE  GoodsConserved'
BY DEF GoodsConserved, observers

LEMMA MainStartKeeps == ASSUME ShopsInv, MainStart PROVE ShopsInv'
<1> USE DEF MainStart
<1>1. ShopsTypeOK /\ InShop /\ AtCounter /\ BeforeStart
  BY DEF ShopsInv
<1>2. shop' \in [Shop -> Nat] /\ demand' \in [Buyers -> Nat]
  BY ShopsAssumption
<1>3. Total(shop)' \in Nat
  <2> DEFINE f == shop'
  <2>1. f \in [Shop -> Nat]
    BY <1>2
  <2> HIDE DEF f
  <2>2. Total(f) \in Nat
    BY <2>1, ShopsFinite, TotalNat
  <2> QED BY <2>2 DEF f
<1>4. ShopsTypeOK'
  BY <1>1, <1>2, <1>3 DEF ShopsTypeOK, finishVars
<1>5. InShop' /\ BeforeStart'
  BY DEF InShop, BeforeStart
<1>6. AtCounter'
  <2>1. Finished' = Finished
    BY <1>1 DEF Finished, BeforeStart
  <2> QED BY <1>1, <2>1 DEF AtCounter, finishVars
<1>7. GoodsConserved'
  <2> DEFINE f == Bought'
  <2>1. f \in [Buyers -> Int] /\ \A b \in Buyers : f[b] = 0
    BY <1>2 DEF Bought
  <2> HIDE DEF f
  <2>2. Total(f) = 0
    BY <2>1, ShopsFinite, TotalZero
  <2> QED BY <2>2, <1>3 DEF f, Bought, GoodsConserved
<1> QED BY <1>4, <1>5, <1>6, <1>7 DEF ShopsInv

LEMMA BuyerLockKeeps == ASSUME ShopsInv, NEW b \in Buyers, BuyerLock(b) PROVE ShopsInv'
<1> USE DEF BuyerLock, finishVars, loaderVars, observers
<1>1. ShopsTypeOK /\ InShop /\ AtCounter /\ BeforeStart /\ GoodsConserved
  BY DEF ShopsInv
<1>2. ShopsTypeOK'
  BY <1>1 DEF ShopsTypeOK
<1>3. InShop'
  <2>1. ASSUME NEW c \in Buyers, pc'[c] = "buy"
        PROVE  mutex'[visiting'[c]] = c /\ seen'[c] = shop'[visiting'[c]]
    BY <1>1, <2>1, ShopsAssumption DEF ShopsTypeOK, InShop
  <2>2. loader' = "load" => mutex'[at'] = "loader" /\ found' = shop'[at']
    BY <1>1, ShopsAssumption DEF ShopsTypeOK, InShop
  <2> QED BY <2>1, <2>2 DEF InShop
<1>4. AtCounter'
  <2>1. Finished' = Finished
    BY <1>1 DEF Finished, ShopsTypeOK
  <2> QED BY <1>1, <2>1 DEF AtCounter, ShopsTypeOK
<1>5. BeforeStart'
  BY <1>1 DEF BeforeStart, ShopsTypeOK
<1>6. GoodsConserved'
  BY <1>1, GoodsStay
<1> QED BY <1>2, <1>3, <1>4, <1>5, <1>6 DEF ShopsInv

LEMMA BuyKeeps == ASSUME ShopsInv, NEW b \in Buyers, Buy(b) PROVE ShopsInv'
<1> USE DEF Buy, finishVars, loaderVars, observers
<1>1. ShopsTypeOK /\ InShop /\ AtCounter /\ BeforeStart /\ GoodsConserved
  BY DEF ShopsInv
<1> DEFINE i == visiting[b]
           n == can_buy(b)
<1>2. /\ i \in Shop /\ n \in Nat /\ seen[b] - n \in Nat /\ demand[b] - n \in Nat
      /\ demand[b] \in Nat /\ seen[b] \in Nat /\ seen[b] = shop[i] /\ mutex[i] = b
  BY <1>1 DEF ShopsTypeOK, can_buy, InShop
<1> HIDE DEF n
<1>3. /\ shop' = [shop EXCEPT ![i] = seen[b] - n] /\ demand' = [demand EXCEPT ![b] = demand[b] - n]
      /\ mutex' = [mutex EXCEPT ![i] = Nobody]
  BY DEF n
<1>4. ShopsTypeOK'
  BY <1>1, <1>2, <1>3 DEF ShopsTypeOK
<1>5. InShop'
  <2>1. ASSUME NEW c \in Buyers, pc'[c] = "buy"
        PROVE  mutex'[visiting'[c]] = c /\ seen'[c] = shop'[visiting'[c]]
    <3>1. c # b /\ pc[c] = "buy" /\ visiting[c] \in Shop
      BY <2>1, <1>1 DEF ShopsTypeOK
    <3>2. visiting[c] # i
      BY <3>1, <1>1, <1>2 DEF InShop
    <3> QED BY <3>1, <3>2, <1>1, <1>2, <1>3 DEF InShop, ShopsTypeOK
  <2>2. loader' = "load" => mutex'[at'] = "loader" /\ found' = shop'[at']
    BY <1>1, <1>2, <1>3, ShopsAssumption DEF ShopsTypeOK, InShop
  <2> QED BY <2>1, <2>2 DEF InShop
<1>6. AtCounter'
  <2>1. Finished' = Finished
    BY <1>1 DEF Finished, ShopsTypeOK
  <2> QED BY <1>1, <2>1 DEF AtCounter, ShopsTypeOK
<1>7. BeforeStart'
  BY <1>1 DEF BeforeStart, ShopsTypeOK
<1>8. GoodsConserved'
  <2> DEFINE f == shop
             g == shop'
             u == Bought
             v == Bought'
  <2>1. /\ f \in [Shop -> Int] /\ g \in [Shop -> Int] /\ g[i] = f[i] - n
        /\ \A j \in Shop : j # i => g[j] = f[j]
    BY <1>1, <1>2, <1>3, <1>4 DEF ShopsTypeOK
  <2>2. /\ u \in [Buyers -> Int] /\ v \in [Buyers -> Int]
        /\ \A c \in Buyers : c # b => v[c] = u[c]
    BY <1>1, <1>2, <1>3, <1>4 DEF ShopsTypeOK, Bought
  <2>3. v[b] = u[b] + n
    BY <1>1, <1>2, <1>3, <1>4 DEF ShopsTypeOK, Bought
  <2>4. supplied = Total(f) + Total(u) /\ supplied' = supplied
    BY <1>1 DEF GoodsConserved, Bought
  <2>5. f[i] \in Int /\ u[b] \in Int
    BY <2>1, <2>2, <1>2
  <2> HIDE DEF f, g, u, v, i
  <2>6. Total(f) \in Int /\ Total(u) \in Int
    BY <2>1, <2>2, ShopsFinite, TotalInt
  <2>7. Total(g) = Total(f) + g[i] - f[i]
    BY <2>1, <1>2, ShopsFinite, TotalChange
  <2>8. Total(v) = Total(u) + v[b] - u[b]
    BY <2>2, ShopsFinite, TotalChange
  <2>9. supplied' = Total(g) + Total(v)
    BY <2>1, <2>3, <2>4, <2>5, <2>6, <2>7, <2>8, <1>2
  <2> QED BY <2>9 DEF GoodsConserved, g, v, Bought
<1> QED BY <1>4, <1>5, <1>6, <1>7, <1>8 DEF ShopsInv

LEMMA BuyNothingKeeps == ASSUME ShopsInv, NEW b \in Buyers, BuyNothing(b) PROVE ShopsInv'
<1> USE DEF BuyNothing, finishVars, loaderVars, observers
<1>1. ShopsTypeOK /\ InShop /\ AtCounter /\ BeforeStart /\ GoodsConserved
  BY DEF ShopsInv
<1>2. ShopsTypeOK'
  <2>1. visiting[b] < ShopCount => visiting[b] + 1 \in Shop
    BY <1>1, ShopsAssumption DEF ShopsTypeOK, Shop
  <2>2. visiting' \in [Buyers -> Shop]
    BY <1>1, <2>1 DEF ShopsTypeOK
  <2> QED BY <1>1, <2>2 DEF ShopsTypeOK
<1>3. InShop'
  <2>1. ASSUME NEW c \in Buyers, pc'[c] = "buy"
        PROVE  mutex'[visiting'[c]] = c /\ seen'[c] = shop'[visiting'[c]]
    <3>1. /\ c # b /\ pc[c] = "buy" /\ visiting[c] \in Shop /\ visiting[b] \in Shop
          /\ visiting'[c] = visiting[c]
      BY <2>1, <1>1 DEF ShopsTypeOK
    <3>2. visiting[c] # visiting[b]
      BY <3>1, <1>1 DEF InShop
    <3> QED BY <3>1, <3>2, <1>1 DEF InShop, ShopsTypeOK
  <2>2. loader' = "load" => mutex'[at'] = "loader" /\ found' = shop'[at']
    BY <1>1, ShopsAssumption DEF ShopsTypeOK, InShop
  <2> QED BY <2>1, <2>2 DEF InShop
<1>4. AtCounter'
  <2>1. Finished' = Finished
    BY <1>1 DEF Finished, ShopsTypeOK
  <2> QED BY <1>1, <2>1 DEF AtCounter, ShopsTypeOK
<1>5. BeforeStart'
  BY <1>1 DEF BeforeStart, ShopsTypeOK
<1>6. GoodsConserved'
  BY <1>1, GoodsStay
<1> QED BY <1>2, <1>3, <1>4, <1>5, <1>6 DEF ShopsInv

LEMMA WakeUpKeeps == ASSUME ShopsInv, NEW b \in Buyers, WakeUp(b) PROVE ShopsInv'
<1> USE DEF WakeUp, finishVars, loaderVars, observers
<1>1. ShopsTypeOK /\ InShop /\ AtCounter /\ BeforeStart /\ GoodsConserved
  BY DEF ShopsInv
<1>2. ShopsTypeOK'
  BY <1>1, ShopsAssumption DEF ShopsTypeOK, Shop
<1>3. InShop'
  BY <1>1 DEF ShopsTypeOK, InShop
<1>4. AtCounter'
  <2>1. Finished' = Finished
    BY <1>1 DEF Finished, ShopsTypeOK
  <2> QED BY <1>1, <2>1 DEF AtCounter, ShopsTypeOK
<1>5. BeforeStart'
  BY <1>1 DEF BeforeStart, ShopsTypeOK
<1>6. GoodsConserved'
  BY <1>1, GoodsStay
<1> QED BY <1>2, <1>3, <1>4, <1>5, <1>6 DEF ShopsInv

LEMMA FinishLockKeeps == ASSUME ShopsInv, NEW b \in Buyers, FinishLock(b) PROVE ShopsInv'
<1> USE DEF FinishLock, loaderVars, observers
<1>1. ShopsTypeOK /\ InShop /\ AtCounter /\ BeforeStart /\ GoodsConserved
  BY DEF ShopsInv
<1>2. ShopsTypeOK'
  <2>1. buyers_finished \in Nat
    BY <1>1, ShopsFinite, FS_CardinalityType DEF ShopsTypeOK
  <2> QED BY <1>1, <2>1 DEF ShopsTypeOK
<1>3. InShop'
  BY <1>1 DEF ShopsTypeOK, InShop
<1>4. AtCounter'
  <2>1. Finished' = Finished
    BY <1>1 DEF Finished, ShopsTypeOK
  <2>2. ASSUME NEW c \in Buyers, pc'[c] = "count"
        PROVE  finish' = c /\ seen'[c] = buyers_finished'
    BY <2>2, <1>1, ShopsAssumption DEF AtCounter, ShopsTypeOK
  <2> QED BY <1>1, <2>1, <2>2 DEF AtCounter
<1>5. BeforeStart'
  BY <1>1 DEF BeforeStart, ShopsTypeOK
<1>6. GoodsConserved'
  BY <1>1, GoodsStay
<1> QED BY <1>2, <1>3, <1>4, <1>5, <1>6 DEF ShopsInv

LEMMA FinishCountKeeps == ASSUME ShopsInv, NEW b \in Buyers, FinishCount(b) PROVE ShopsInv'
<1> USE DEF FinishCount, loaderVars, observers
<1>1. ShopsTypeOK /\ InShop /\ AtCounter /\ BeforeStart /\ GoodsConserved
  BY DEF ShopsInv
<1>2. AtCounter' /\ buyers_finished' = Cardinality(Finished)'
  <2>1. Finished' = Finished \union {b} /\ b \notin Finished
    BY <1>1 DEF Finished, ShopsTypeOK
  <2>2. Cardinality(Finished \union {b}) = Cardinality(Finished) + 1
    BY <2>1, FinishedFinite, FS_AddElement
  <2>3. buyers_finished' = Cardinality(Finished)'
    BY <2>1, <2>2, <1>1 DEF AtCounter
  <2>4. ASSUME NEW c \in Buyers, pc'[c] = "count"
        PROVE  FALSE
    BY <2>4, <1>1 DEF AtCounter, ShopsTypeOK
  <2> QED BY <2>3, <2>4 DEF AtCounter
<1>3. ShopsTypeOK'
  <2>1. buyers_finished' \in 0 .. Cardinality(Buyers)
    <3> DEFINE S == Finished'
    <3>1. S \in SUBSET Buyers
      BY DEF Finished
    <3> HIDE DEF S
    <3>2. /\ IsFiniteSet(S) /\ Cardinality(S) <= Cardinality(Buyers)
          /\ Cardinality(Buyers) \in Nat
      BY <3>1, ShopsFinite, FS_Subset, FS_CardinalityType
    <3>3. Cardinality(S) \in Nat
      BY <3>2, FS_CardinalityType
    <3>4. Cardinality(S) \in 0 .. Cardinality(Buyers)
      BY <3>2, <3>3
    <3> QED BY <3>4, <1>2 DEF S
  <2> QED BY <1>1, <2>1 DEF ShopsTypeOK
<1>4. InShop'
  BY <1>1 DEF ShopsTypeOK, InShop
<1>5. BeforeStart'
  BY <1>1 DEF BeforeStart, ShopsTypeOK
<1>6. GoodsConserved'
  BY <1>1, GoodsStay
<1> QED BY <1>2, <1>3, <1>4, <1>5, <1>6 DEF ShopsInv

LEMMA LoaderCheckKeeps == ASSUME ShopsInv, LoaderCheck PROVE ShopsInv'
<1> USE DEF LoaderCheck, finishVars, buyerVars, observers
<1>1. ShopsTypeOK /\ InShop /\ AtCounter /\ BeforeStart /\ GoodsConserved
  BY DEF ShopsInv
<1>2. ShopsTypeOK'
  BY <1>1, ShopsAssumption DEF ShopsTypeOK, Shop
<1>3. InShop' /\ AtCounter' /\ BeforeStart'
  BY <1>1 DEF InShop, AtCounter, Finished, BeforeStart
<1>4. GoodsConserved'
  BY <1>1, GoodsStay
<1> QED BY <1>2, <1>3, <1>4 DEF ShopsInv

LEMMA LoaderLockKeeps == ASSUME ShopsInv, LoaderLock PROVE ShopsInv'
<1> USE DEF LoaderLock, finishVars, buyerVars, observers
<1>1. ShopsTypeOK /\ InShop /\ AtCounter /\ BeforeStart /\ GoodsConserved
  BY DEF ShopsInv
<1>2. ShopsTypeOK'
  BY <1>1 DEF ShopsTypeOK
<1>3. InShop'
  BY <1>1, ShopsAssumption DEF InShop, ShopsTypeOK
<1>4. AtCounter' /\ BeforeStart'
  BY <1>1 DEF AtCounter, Finished, BeforeStart
<1>5. GoodsConserved'
  BY <1>1, GoodsStay
<1> QED BY <1>2, <1>3, <1>4, <1>5 DEF ShopsInv

LEMMA LoaderLoadKeeps == ASSUME ShopsInv, LoaderLoad PROVE ShopsInv'
<1> USE DEF LoaderLoad, finishVars, buyerVars
<1>1. ShopsTypeOK /\ InShop /\ AtCounter /\ BeforeStart /\ GoodsConserved
  BY DEF ShopsInv
<1>2. at \in Shop /\ found \in Nat /\ found = shop[at] /\ mutex[at] = "loader" /\ Load \in Nat
  BY <1>1, ShopsAssumption DEF ShopsTypeOK, InShop
<1>3. ShopsTypeOK'
  <2>1. at' \in Shop
    BY <1>2, ShopsAssumption DEF Shop
  <2>2. shop' \in [Shop -> Nat] /\ supplied' \in Nat
    BY <1>1, <1>2 DEF ShopsTypeOK
  <2> QED BY <1>1, <2>1, <2>2 DEF ShopsTypeOK
<1>4. InShop'
  <2>1. ASSUME NEW c \in Buyers, pc'[c] = "buy"
        PROVE  mutex'[visiting'[c]] = c /\ seen'[c] = shop'[visiting'[c]]
    <3>1. visiting[c] \in Shop /\ mutex[visiting[c]] = c
      BY <2>1, <1>1 DEF InShop, ShopsTypeOK
    <3>2. visiting[c] # at
      BY <3>1, <1>2, ShopsAssumption
    <3> QED BY <3>1, <3>2, <2>1, <1>1, <1>2 DEF InShop, ShopsTypeOK
  <2> QED BY <2>1 DEF InShop
<1>5. AtCounter' /\ BeforeStart'
  BY <1>1 DEF AtCounter, Finished, BeforeStart
<1>6. GoodsConserved'
  <2> DEFINE f == shop
             g == shop'
             i == at
             u == Bought
  <2>1. /\ f \in [Shop -> Int] /\ g \in [Shop -> Int] /\ g[i] = f[i] + Load
        /\ (\A j \in Shop : j # i => g[j] = f[j]) /\ i \in Shop
    BY <1>1, <1>2, <1>3 DEF ShopsTypeOK
  <2>2. u \in [Buyers -> Int]
    BY <1>1 DEF ShopsTypeOK, Bought
  <2>3. supplied = Total(f) + Total(u) /\ supplied' = supplied + Load
    BY <1>1 DEF GoodsConserved, Bought
  <2>4. f[i] \in Int
    BY <2>1
  <2>5. Bought' = Bought
    BY DEF Bought
  <2> HIDE DEF f, g, u, i
  <2>6. Total(f) \in Int /\ Total(u) \in Int
    BY <2>1, <2>2, ShopsFinite, TotalInt
  <2>7. Total(g) = Total(f) + g[i] - f[i]
    BY <2>1, ShopsFinite, TotalChange
  <2>8. supplied' = Total(g) + Total(u)
    BY <2>1, <2>3, <2>4, <2>6, <2>7, <1>2
  <2> QED BY <2>5, <2>8 DEF GoodsConserved, g, u, Bought
<1> QED BY <1>3, <1>4, <1>5, <1>6 DEF ShopsInv

LEMMA MainJoinKeeps == ASSUME ShopsInv, MainJoin PROVE ShopsInv'
<1> USE DEF MainJoin, finishVars, buyerVars, loaderVars, observers
<1>1. ShopsTypeOK' /\ InShop' /\ AtCounter' /\ BeforeStart'
  BY DEF ShopsInv, ShopsTypeOK, InShop, AtCounter, Finished, BeforeStart
<1>2. GoodsConserved'
  BY GoodsStay DEF ShopsInv
<1> QED BY <1>1, <1>2 DEF ShopsInv

LEMMA ShopsStep == ShopsInv /\ [ShopsNext]_shopsVars => ShopsInv'
<1> SUFFICES ASSUME ShopsInv, [ShopsNext]_shopsVars PROVE ShopsInv'
  OBVIOUS
<1>1. CASE UNCHANGED shopsVars
  BY <1>1 DEF ShopsInv, ShopsTypeOK, InShop, AtCounter, Finished, BeforeStart, GoodsConserved,
     shopsVars, finishVars, buyerVars, loaderVars, observers
<1>2. ASSUME NEW b \in Buyers, BuyerStep(b) PROVE ShopsInv'
  BY <1>2, BuyerLockKeeps, BuyKeeps, BuyNothingKeeps, WakeUpKeeps, FinishLockKeeps,
     FinishCountKeeps DEF BuyerStep
<1>3. CASE LoaderStep
  BY <1>3, LoaderCheckKeeps, LoaderLockKeeps, LoaderLoadKeeps DEF LoaderStep
<1> QED BY <1>1, <1>2, <1>3, MainStartKeeps, MainJoinKeeps DEF ShopsNext

(* The inductive invariant of the shops.                                   *)
THEOREM ShopsInvariance == Spec => []ShopsInv
<1>1. Init => ShopsInv
  BY ShopsStart DEF Init
<1>2. [Next]_vars => [ShopsNext]_shopsVars
  BY DEF Next, vars
<1> QED BY <1>1, <1>2, ShopsStep, PTL DEF Spec

(* buyer_func and loader_func lose no update, for every number of buyers,  *)
(* shops and goods: what was supplied is in the shops or was bought.       *)
THEOREM NoGoodsLost == Spec => []GoodsConserved
<1>1. ShopsInv => GoodsConserved
  BY DEF ShopsInv
<1> QED BY <1>1, ShopsInvariance, PTL

(* Who has counted itself wants nothing more, and the counter is exact:    *)
(* with that the loader cannot leave early.                                *)
Served ==
  /\ \A b \in Buyers : pc[b] \in {"finish", "count", "done"} => demand[b] = 0
  /\ loader = "done" => \A b \in Buyers : pc[b] = "done"
  /\ main = "done" => loader = "done"

(* A mutex that is not free is held by a thread inside its critical        *)
(* section.                                                                *)
HeldInside ==
  /\ \A i \in Shop : mutex[i] \in Buyers => pc[mutex[i]] = "buy" /\ visiting[mutex[i]] = i
  /\ \A i \in Shop : mutex[i] = "loader" => loader = "load" /\ at = i
  /\ finish \in Buyers => pc[finish] = "count"

(* main destroys the mutexes after it has joined the threads: none of them *)
(* is locked then, which pthread_mutex_destroy requires.                   *)
DestroyedFree ==
  main = "done" => finish = Nobody /\ \A i \in Shop : mutex[i] = Nobody

ShopsEnd == Served /\ HeldInside

LEMMA EndStart == ShopsInit => ShopsEnd
BY ShopsAssumption DEF ShopsInit, ShopsEnd, Served, HeldInside

LEMMA ServedStep == ASSUME ShopsInv, Served, [ShopsNext]_shopsVars PROVE Served'
<1> USE DEF finishVars, buyerVars, loaderVars, observers
<1>1. ShopsTypeOK /\ AtCounter /\ BeforeStart
  BY DEF ShopsInv
<1>2. CASE UNCHANGED shopsVars
  BY <1>2 DEF shopsVars, Served
<1>3. CASE MainStart
  BY <1>3 DEF MainStart, Served
<1>4. CASE MainJoin
  BY <1>4 DEF MainJoin, Served
<1>5. ASSUME NEW b \in Buyers, BuyerStep(b) PROVE Served'
  <2>1. pc[b] # "done" /\ loader # "done" /\ loader' = loader /\ main' = main
    BY <1>1, <1>5 DEF BuyerStep, BuyerLock, Buy, BuyNothing, WakeUp, FinishLock, FinishCount,
       Served, ShopsTypeOK
  <2>2. ASSUME NEW c \in Buyers, pc'[c] \in {"finish", "count", "done"} PROVE demand'[c] = 0
    <3>1. CASE c # b
      <4>1. pc'[c] = pc[c] /\ demand'[c] = demand[c]
        BY <3>1, <1>1, <1>5 DEF BuyerStep, BuyerLock, Buy, BuyNothing, WakeUp, FinishLock,
           FinishCount, ShopsTypeOK
      <4> QED BY <4>1, <2>2 DEF Served
    <3>2. CASE c = b
      <4>1. pc[b] = "sleep" \/ pc[b] = "finish" \/ pc[b] = "count"
        BY <3>2, <2>2, <1>1, <1>5 DEF BuyerStep, BuyerLock, Buy, BuyNothing, WakeUp, FinishLock,
           FinishCount, ShopsTypeOK
      <4>2. demand' = demand
        BY <4>1, <1>1, <1>5 DEF BuyerStep, BuyerLock, Buy, BuyNothing, WakeUp, FinishLock,
           FinishCount, ShopsTypeOK
      <4>3. pc[b] = "sleep" => ~(demand[b] > 0)
        BY <3>2, <2>2, <1>1, <1>5 DEF BuyerStep, BuyerLock, Buy, BuyNothing, WakeUp, FinishLock,
           FinishCount, ShopsTypeOK
      <4>4. demand[b] \in Nat
        BY <1>1 DEF ShopsTypeOK
      <4> QED BY <3>2, <4>1, <4>2, <4>3, <4>4 DEF Served
    <3> QED BY <3>1, <3>2
  <2> QED BY <2>1, <2>2 DEF Served
<1>6. CASE LoaderCheck
  <2>1. ASSUME AllFinished PROVE \A b \in Buyers : pc[b] = "done"
    <3>1. Cardinality(Finished) = Cardinality(Buyers) /\ Finished \in SUBSET Buyers
      BY <1>1, <2>1 DEF AllFinished, AtCounter, Finished
    <3>2. Buyers = Finished
      BY <3>1, ShopsFinite, FS_Subset
    <3> QED BY <3>2 DEF Finished
  <2>2. loader' = "done" => AllFinished
    BY <1>6 DEF LoaderCheck
  <2> QED BY <1>6, <2>1, <2>2 DEF LoaderCheck, Served
<1>7. CASE LoaderLock
  BY <1>7 DEF LoaderLock, Served
<1>8. CASE LoaderLoad
  BY <1>8 DEF LoaderLoad, Served
<1> QED BY <1>2, <1>3, <1>4, <1>5, <1>6, <1>7, <1>8 DEF ShopsNext, LoaderStep

LEMMA HeldStep == ASSUME ShopsInv, HeldInside, [ShopsNext]_shopsVars PROVE HeldInside'
<1> USE DEF finishVars, buyerVars, loaderVars, observers
<1>1. ShopsTypeOK /\ InShop /\ AtCounter /\ BeforeStart
  BY DEF ShopsInv
<1>2. /\ mutex \in [Shop -> Buyers \union {"loader", Nobody}] /\ visiting \in [Buyers -> Shop]
      /\ at \in Shop /\ DOMAIN pc = Buyers
  BY <1>1 DEF ShopsTypeOK
<1>3. CASE UNCHANGED shopsVars
  BY <1>3 DEF shopsVars, HeldInside
<1>4. CASE MainStart
  BY <1>1, <1>4 DEF MainStart, HeldInside, BeforeStart
<1>5. CASE MainJoin
  BY <1>5 DEF MainJoin, HeldInside
<1>6. ASSUME NEW b \in Buyers, BuyerLock(b) PROVE HeldInside'
  BY <1>2, <1>6, ShopsAssumption DEF BuyerLock, HeldInside
<1>7. ASSUME NEW b \in Buyers, Buy(b) PROVE HeldInside'
  BY <1>2, <1>7, ShopsAssumption DEF Buy, HeldInside
<1>8. ASSUME NEW b \in Buyers, BuyNothing(b) PROVE HeldInside'
  <2>1. \A c \in Buyers : c # b => visiting'[c] = visiting[c] /\ pc'[c] = pc[c]
    BY <1>2, <1>8 DEF BuyNothing
  <2>2. ASSUME NEW i \in Shop, mutex'[i] \in Buyers
        PROVE  mutex'[i] = mutex[i] /\ mutex[i] # b
    BY <2>2, <1>2, <1>8, ShopsAssumption DEF BuyNothing, HeldInside
  <2> QED BY <2>1, <2>2, <1>2, <1>8, ShopsAssumption DEF BuyNothing, HeldInside
<1>9. ASSUME NEW b \in Buyers, WakeUp(b) PROVE HeldInside'
  BY <1>2, <1>9 DEF WakeUp, HeldInside
<1>10. ASSUME NEW b \in Buyers, FinishLock(b) PROVE HeldInside'
  BY <1>2, <1>10 DEF FinishLock, HeldInside
<1>11. ASSUME NEW b \in Buyers, FinishCount(b) PROVE HeldInside'
  BY <1>2, <1>11, ShopsAssumption DEF FinishCount, HeldInside
<1>12. CASE LoaderCheck
  BY <1>12 DEF LoaderCheck, HeldInside
<1>13. CASE LoaderLock
  BY <1>2, <1>13, ShopsAssumption DEF LoaderLock, HeldInside
<1>14. CASE LoaderLoad
  BY <1>2, <1>14, ShopsAssumption DEF LoaderLoad, HeldInside
<1> QED
  BY <1>3, <1>4, <1>5, <1>6, <1>7, <1>8, <1>9, <1>10, <1>11, <1>12, <1>13, <1>14
  DEF ShopsNext, BuyerStep, LoaderStep

LEMMA EndMeans == ShopsInv /\ ShopsEnd => LoaderLeavesLast /\ DestroyedFree
<1> SUFFICES ASSUME ShopsInv, ShopsEnd PROVE LoaderLeavesLast /\ DestroyedFree
  OBVIOUS
<1>1. LoaderLeavesLast
  BY DEF ShopsEnd, Served, LoaderLeavesLast
<1>2. ASSUME main = "done" PROVE finish = Nobody /\ \A i \in Shop : mutex[i] = Nobody
  <2>1. loader = "done" /\ \A b \in Buyers : pc[b] = "done"
    BY <1>2 DEF ShopsEnd, Served
  <2>2. finish \notin Buyers /\ \A i \in Shop : mutex[i] \notin Buyers \union {"loader"}
    BY <2>1 DEF ShopsEnd, HeldInside
  <2> QED BY <2>2 DEF ShopsInv, ShopsTypeOK
<1> QED BY <1>1, <1>2 DEF DestroyedFree

(* The rest of the inductive invariant, on top of the first part.          *)
THEOREM ShopsEndInvariance == Spec => []ShopsEnd
<1>1. Init => ShopsEnd
  BY EndStart DEF Init
<1>2. [Next]_vars => [ShopsNext]_shopsVars
  BY DEF Next, vars
<1>3. ShopsInv /\ ShopsEnd /\ [ShopsNext]_shopsVars => ShopsEnd'
  BY ServedStep, HeldStep DEF ShopsEnd
<1> QED BY <1>1, <1>2, <1>3, ShopsInvariance, PTL DEF Spec

(* loader_func stops only when every buyer has all it wanted.              *)
THEOREM LoaderStaysToTheEnd == Spec => []LoaderLeavesLast
BY ShopsInvariance, ShopsEndInvariance, EndMeans, PTL

(* main destroys no locked mutex.                                          *)
THEOREM MutexesFreeAtEnd == Spec => []DestroyedFree
BY ShopsInvariance, ShopsEndInvariance, EndMeans, PTL

-----------------------------------------------------------------------------
(* The phone books.  The list is a chain: the cells w[1] to w[m], all      *)
(* different, are the allocated ones, head leads to the first, next from   *)
(* each to its successor and prev back, and the other cells lead nowhere.  *)

Chain(m, w, first, nxt, prv, used) ==
  /\ \A i, j \in 1 .. m : w[i] = w[j] => i = j
  /\ used = {w[i] : i \in 1 .. m}
  /\ first = IF m = 0 THEN NULL ELSE w[1]
  /\ \A i \in 1 .. m : /\ nxt[w[i]] = IF i = m THEN NULL ELSE w[i + 1]
                       /\ prv[w[i]] = IF i = 1 THEN NULL ELSE w[i - 1]
  /\ \A x \in Cells \ used : nxt[x] = NULL /\ prv[x] = NULL

Linked == \E m \in 0 .. Cardinality(Cells) : \E w \in [1 .. m -> Cells] :
            /\ Chain(m, w, head, next, prev, allocated)
            /\ IF ended = "exit" THEN m = 0
               ELSE m = Len(book) /\ \A i \in 1 .. m : data[w[i]] = book[i]

InArray == /\ count = IF ended = "refused" THEN Size ELSE Len(book)
           /\ ended = "refused" => Len(book) = Size + 1
           /\ \A n \in 1 .. count : call_book[n - 1] = book[n]

SameOutput == printed = shown /\ listed = shown

BooksInv == BooksTypeOK /\ InArray /\ Linked /\ SameOutput

LEMMA CellsFinite == IsFiniteSet(Cells) /\ Cardinality(Cells) \in Nat /\ NULL \notin Cells
BY PhoneBooksAssumption, FS_CardinalityType

(* A chain has room in the memory.                                         *)
LEMMA ChainFits ==
  ASSUME NEW m \in Nat, NEW w \in [1 .. m -> Cells],
         \A i, j \in 1 .. m : w[i] = w[j] => i = j
  PROVE  m <= Cardinality(Cells)
<1>1. w \in Injection(1 .. m, Cells)
  BY DEF Injection, IsInjective
<1>2. Cardinality(1 .. m) <= Cardinality(Cells)
  BY <1>1, CellsFinite, FS_Injection
<1>3. Cardinality(1 .. m) = m
  BY FS_Interval
<1> QED BY <1>2, <1>3

(* The walk along next finds the cells of the chain in their order, and    *)
(* NULL from its end on.                                                   *)
IsWalk(g) == g = [n \in 1 .. Cardinality(Cells) + 1 |->
                    IF n = 1 THEN head
                    ELSE IF g[n - 1] = NULL THEN NULL ELSE next[g[n - 1]]]

LEMMA WalkFollows ==
  ASSUME NEW m \in 0 .. Cardinality(Cells), NEW w \in [1 .. m -> Cells],
         Chain(m, w, head, next, prev, allocated)
  PROVE  /\ DOMAIN NodeAt = 1 .. Cardinality(Cells) + 1
         /\ \A n \in 1 .. Cardinality(Cells) + 1 : NodeAt[n] = IF n <= m THEN w[n] ELSE NULL
<1> DEFINE N == Cardinality(Cells) + 1
           g == [n \in 1 .. N |-> IF n <= m THEN w[n] ELSE NULL]
           k == [n \in 1 .. N |-> IF n = 1 THEN head
                                  ELSE IF g[n - 1] = NULL THEN NULL ELSE next[g[n - 1]]]
<1>1. N \in Nat /\ m \in Nat /\ m < N /\ 1 \in 1 .. N
  BY CellsFinite
<1>2. ASSUME NEW n \in 1 .. N
      PROVE  g[n] = k[n]
  <2>1. CASE n = 1
    BY <2>1, <1>1 DEF Chain
  <2>2. CASE n # 1 /\ n - 1 <= m
    <3>1. n - 1 \in 1 .. m /\ n - 1 \in 1 .. N
      BY <2>2, <1>1
    <3>2. g[n - 1] = w[n - 1] /\ w[n - 1] \in Cells
      BY <3>1
    <3>3. k[n] = next[w[n - 1]]
      BY <3>2, <2>2, CellsFinite
    <3>4. next[w[n - 1]] = IF n - 1 = m THEN NULL ELSE w[n]
      BY <3>1 DEF Chain
    <3>5. g[n] = IF n - 1 = m THEN NULL ELSE w[n]
      BY <3>1, <1>1
    <3> QED BY <3>3, <3>4, <3>5
  <2>3. CASE n # 1 /\ ~(n - 1 <= m)
    <3>1. n - 1 \in 1 .. N /\ ~(n <= m)
      BY <2>3, <1>1
    <3> QED BY <3>1, <2>3
  <2> QED BY <2>1, <2>2, <2>3
<1>3. g = k
  BY <1>2
<1>4. IsWalk(g)
  <2> HIDE DEF g
  <2> QED BY <1>3 DEF IsWalk
<1>5. IsWalk(NodeAt)
  <2>1. NodeAt = CHOOSE h : IsWalk(h)
    BY DEF NodeAt, IsWalk
  <2> QED BY <2>1, <1>4
<1>6. /\ DOMAIN NodeAt = 1 .. N
      /\ \A n \in 1 .. N : NodeAt[n] = IF n = 1 THEN head ELSE IF NodeAt[n - 1] = NULL THEN NULL
                                                               ELSE next[NodeAt[n - 1]]
  <2> DEFINE h == NodeAt
  <2>1. h = [n \in 1 .. N |-> IF n = 1 THEN head
                              ELSE IF h[n - 1] = NULL THEN NULL ELSE next[h[n - 1]]]
    BY <1>5 DEF IsWalk
  <2> HIDE DEF h
  <2>2. /\ DOMAIN h = 1 .. N
        /\ \A n \in 1 .. N : h[n] = IF n = 1 THEN head ELSE IF h[n - 1] = NULL THEN NULL
                                                               ELSE next[h[n - 1]]
    BY <2>1
  <2> QED BY <2>2 DEF h
<1>7. \A n \in 1 .. N : g[n] = IF n = 1 THEN head ELSE IF g[n - 1] = NULL THEN NULL
                                                               ELSE next[g[n - 1]]
  <2> HIDE DEF g
  <2> QED BY <1>3
<1>8. \A n \in 1 .. N : NodeAt[n] = g[n]
  <2> HIDE DEF g, N, k
  <2> DEFINE T == {n \in 1 .. N : NodeAt[n] # g[n]}
  <2> SUFFICES ASSUME T # {} PROVE FALSE
    OBVIOUS
  <2>1. PICK n \in T : \A i \in T : n <= i
    <3>1. T \subseteq Nat
      BY <1>1
    <3> QED BY <3>1, LeastNumber
  <2>2. n # 1
    BY <1>1, <1>6, <1>7
  <2>3. n - 1 \in 1 .. N /\ n - 1 \notin T
    BY <2>1, <2>2, <1>1
  <2>4. NodeAt[n - 1] = g[n - 1]
    BY <2>3
  <2> QED BY <2>1, <2>2, <2>4, <1>6, <1>7
<1> QED BY <1>6, <1>8

(* What the operators of the list compute on a chain.                      *)
LEMMA ListRead ==
  ASSUME NEW m \in 0 .. Cardinality(Cells), NEW w \in [1 .. m -> Cells],
         Chain(m, w, head, next, prev, allocated)
  PROVE  /\ Numbers = 1 .. m
         /\ Cardinality(Numbers) = m
         /\ \A n \in 1 .. m : NodeAt[n] = w[n]
         /\ Nodes = allocated
         /\ Listing = [n \in 1 .. m |-> <<n, data[w[n]]>>]
<1>1. m \in Nat /\ m < Cardinality(Cells) + 1 /\ Cardinality(Cells) \in Nat
  BY CellsFinite
<1>2. \A n \in 1 .. m : NodeAt[n] = w[n] /\ n \in 1 .. Cardinality(Cells) + 1
  BY <1>1, WalkFollows
<1>3. Numbers = 1 .. m
  <2>1. \A n : n \in Numbers <=> n \in 1 .. Cardinality(Cells) + 1 /\ NodeAt[n] # NULL
    BY WalkFollows DEF Numbers
  <2>2. \A n \in 1 .. Cardinality(Cells) + 1 : NodeAt[n] = IF n <= m THEN w[n] ELSE NULL
    BY WalkFollows
  <2>3. \A n \in 1 .. m : w[n] # NULL
    BY CellsFinite
  <2>4. \A n \in 1 .. Cardinality(Cells) + 1 : NodeAt[n] # NULL <=> n \in 1 .. m
    BY <2>2, <2>3, <1>1
  <2> QED BY <2>1, <2>4, <1>2
<1>4. Cardinality(Numbers) = m
  BY <1>1, <1>3, FS_Interval
<1>5. Nodes = allocated
  BY <1>2, <1>3 DEF Nodes, Chain
<1>6. Listing = [n \in 1 .. m |-> <<n, data[w[n]]>>]
  BY <1>2, <1>4 DEF Listing
<1> QED BY <1>2, <1>3, <1>4, <1>5, <1>6

(* A chain with one cell more at its end, and with one cell taken out.     *)
Longer(m, w, c) == [i \in 1 .. m + 1 |-> IF i = m + 1 THEN c ELSE w[i]]

Shorter(m, w, n) == [i \in 1 .. m - 1 |-> IF i < n THEN w[i] ELSE w[i + 1]]

(* What the two operations make of the pointers, cell by cell.             *)
Hung(m, w, c, nxt, prv, nxt2, prv2) ==
  \A x \in Cells : /\ nxt2[x] = IF m # 0 /\ x = w[m] THEN c ELSE nxt[x]
                   /\ prv2[x] = IF m # 0 /\ x = c THEN w[m] ELSE prv[x]

Unhung(m, w, n, nxt, prv, nxt2, prv2) ==
  \A x \in Cells : /\ nxt2[x] = IF x = w[n] THEN NULL
                               ELSE IF n # 1 /\ x = w[n - 1] THEN nxt[w[n]] ELSE nxt[x]
                   /\ prv2[x] = IF x = w[n] THEN NULL
                               ELSE IF n # m /\ x = w[n + 1] THEN prv[w[n]] ELSE prv[x]

LEMMA ChainAppend ==
  ASSUME NEW m \in Nat, NEW w \in [1 .. m -> Cells], NEW first, NEW nxt, NEW prv, NEW used,
         Chain(m, w, first, nxt, prv, used), NEW c \in Cells \ used,
         NEW nxt2, NEW prv2, Hung(m, w, c, nxt, prv, nxt2, prv2)
  PROVE  /\ Longer(m, w, c) \in [1 .. m + 1 -> Cells]
         /\ Chain(m + 1, Longer(m, w, c), IF m = 0 THEN c ELSE first, nxt2, prv2,
                  used \union {c})
<1> DEFINE v == Longer(m, w, c)
<1>1. /\ \A i \in 1 .. m : w[i] \in used /\ w[i] \in Cells /\ w[i] # c
      /\ \A i, j \in 1 .. m : w[i] = w[j] => i = j
      /\ \A x \in used : \E i \in 1 .. m : x = w[i]
  BY DEF Chain
<1>2. v[m + 1] = c /\ \A i \in 1 .. m : v[i] = w[i] /\ i \in 1 .. m + 1 /\ i # m + 1
  BY DEF Longer
<1>3. \A i \in 1 .. m + 1 : i = m + 1 \/ i \in 1 .. m
  OBVIOUS
<1>4. v \in [1 .. m + 1 -> Cells]
  BY <1>1, <1>3 DEF Longer
<1> HIDE DEF v
<1>5. \A i, j \in 1 .. m + 1 : v[i] = v[j] => i = j
  BY <1>1, <1>2, <1>3
<1>6. used \union {c} = {v[i] : i \in 1 .. m + 1}
  <2>1. \A x \in used \union {c} : \E i \in 1 .. m + 1 : x = v[i]
    BY <1>1, <1>2
  <2>2. \A i \in 1 .. m + 1 : v[i] \in used \union {c}
    BY <1>1, <1>2, <1>3
  <2> QED BY <2>1, <2>2
<1>7. (IF m = 0 THEN c ELSE first) = IF m + 1 = 0 THEN NULL ELSE v[1]
  <2>1. CASE m = 0
    BY <2>1, <1>2
  <2>2. CASE m # 0
    <3>1. 1 \in 1 .. m
      BY <2>2
    <3>2. first = w[1]
      BY <2>2 DEF Chain
    <3> QED BY <3>1, <3>2, <2>2, <1>2
  <2> QED BY <2>1, <2>2
<1>8. ASSUME NEW i \in 1 .. m + 1
      PROVE  /\ nxt2[v[i]] = IF i = m + 1 THEN NULL ELSE v[i + 1]
             /\ prv2[v[i]] = IF i = 1 THEN NULL ELSE v[i - 1]
  <2>1. CASE i = m + 1
    <3>1. nxt[c] = NULL /\ prv[c] = NULL
      BY DEF Chain
    <3>2. m # 0 => m \in 1 .. m /\ c # w[m] /\ v[m] = w[m]
      BY <1>1, <1>2
    <3>3. v[i] = c /\ i - 1 = m /\ (i = 1 <=> m = 0)
      BY <2>1, <1>2
    <3>4. nxt2[c] = NULL
      BY <3>1, <3>2 DEF Hung
    <3>5. prv2[c] = IF m = 0 THEN NULL ELSE v[m]
      BY <3>1, <3>2 DEF Hung
    <3> QED BY <3>3, <3>4, <3>5, <2>1
  <2>2. CASE i \in 1 .. m
    <3>1. /\ v[i] = w[i] /\ w[i] \in Cells /\ w[i] # c /\ i # m + 1 /\ m # 0
          /\ m \in 1 .. m /\ (w[i] = w[m] <=> i = m)
      BY <2>2, <1>1, <1>2
    <3>2. prv2[w[i]] = prv[w[i]] /\ nxt2[w[i]] = IF i = m THEN c ELSE nxt[w[i]]
      BY <3>1 DEF Hung
    <3>3. /\ nxt[w[i]] = IF i = m THEN NULL ELSE w[i + 1]
          /\ prv[w[i]] = IF i = 1 THEN NULL ELSE w[i - 1]
      BY <2>2 DEF Chain
    <3>4. i = m => v[i + 1] = c
      BY <1>2
    <3>5. i # m => v[i + 1] = w[i + 1]
      <4>1. i # m => i + 1 \in 1 .. m
        BY <2>2
      <4> QED BY <4>1, <1>2
    <3>6. i # 1 => v[i - 1] = w[i - 1]
      <4>1. i # 1 => i - 1 \in 1 .. m
        BY <2>2
      <4> QED BY <4>1, <1>2
    <3> QED BY <3>1, <3>2, <3>3, <3>4, <3>5, <3>6
  <2> QED BY <2>1, <2>2, <1>3
<1>9. ASSUME NEW x \in Cells \ (used \union {c})
      PROVE  nxt2[x] = NULL /\ prv2[x] = NULL
  <2>1. nxt[x] = NULL /\ prv[x] = NULL /\ x # c
    BY DEF Chain
  <2>2. m # 0 => x # w[m]
    <3>1. m # 0 => m \in 1 .. m
      OBVIOUS
    <3> QED BY <3>1, <1>1
  <2> QED BY <2>1, <2>2 DEF Hung
<1>10. Chain(m + 1, v, IF m = 0 THEN c ELSE first, nxt2, prv2, used \union {c})
  BY <1>5, <1>6, <1>7, <1>8, <1>9 DEF Chain
<1> QED BY <1>4, <1>10 DEF v

LEMMA ChainRemove ==
  ASSUME NEW m \in Nat, NEW w \in [1 .. m -> Cells], NEW first, NEW nxt, NEW prv, NEW used,
         Chain(m, w, first, nxt, prv, used), NEW n \in 1 .. m,
         NEW nxt2, NEW prv2, Unhung(m, w, n, nxt, prv, nxt2, prv2)
  PROVE  /\ Shorter(m, w, n) \in [1 .. m - 1 -> Cells]
         /\ Chain(m - 1, Shorter(m, w, n), IF n = 1 THEN nxt[w[1]] ELSE first, nxt2, prv2,
                  used \ {w[n]})
<1> DEFINE v == Shorter(m, w, n)
           old(i) == IF i < n THEN i ELSE i + 1
<1>1. /\ \A i \in 1 .. m : w[i] \in used /\ w[i] \in Cells
      /\ \A i, j \in 1 .. m : w[i] = w[j] => i = j
      /\ \A x \in used : \E i \in 1 .. m : x = w[i]
      /\ \A i \in 1 .. m : /\ nxt[w[i]] = IF i = m THEN NULL ELSE w[i + 1]
                           /\ prv[w[i]] = IF i = 1 THEN NULL ELSE w[i - 1]
  BY DEF Chain
<1>2. \A i \in 1 .. m - 1 : old(i) \in 1 .. m /\ old(i) # n /\ v[i] = w[old(i)]
  BY DEF Shorter
<1>3. v \in [1 .. m - 1 -> Cells]
  BY <1>1 DEF Shorter
<1> HIDE DEF v
<1>4. \A i, j \in 1 .. m - 1 : v[i] = v[j] => i = j
  <2> SUFFICES ASSUME NEW i \in 1 .. m - 1, NEW j \in 1 .. m - 1, v[i] = v[j] PROVE i = j
    OBVIOUS
  <2>1. old(i) = old(j)
    BY <1>1, <1>2
  <2> QED BY <2>1
<1>5. used \ {w[n]} = {v[i] : i \in 1 .. m - 1}
  <2>1. ASSUME NEW x \in used \ {w[n]} PROVE \E i \in 1 .. m - 1 : x = v[i]
    <3>1. PICK j \in 1 .. m : x = w[j]
      BY <1>1
    <3>2. j # n
      BY <2>1, <3>1
    <3> DEFINE i == IF j < n THEN j ELSE j - 1
    <3>3. i \in 1 .. m - 1 /\ old(i) = j
      BY <3>2
    <3> QED BY <3>1, <3>3, <1>2
  <2>2. ASSUME NEW i \in 1 .. m - 1 PROVE v[i] \in used \ {w[n]}
    <3>1. old(i) \in 1 .. m /\ old(i) # n /\ v[i] = w[old(i)]
      BY <1>2
    <3>2. w[old(i)] \in used /\ w[old(i)] # w[n]
      BY <3>1, <1>1
    <3> QED BY <3>1, <3>2
  <2> QED BY <2>1, <2>2
<1>6. (IF n = 1 THEN nxt[w[1]] ELSE first) = IF m - 1 = 0 THEN NULL ELSE v[1]
  <2>1. CASE n = 1
    <3>1. nxt[w[1]] = IF m = 1 THEN NULL ELSE w[2]
      BY <2>1, <1>1
    <3>2. m # 1 => v[1] = w[2]
      BY <2>1, <1>2
    <3> QED BY <2>1, <3>1, <3>2
  <2>2. CASE n # 1
    <3>1. first = w[1] /\ m - 1 # 0 /\ 1 \in 1 .. m - 1 /\ old(1) = 1
      BY <2>2 DEF Chain
    <3> QED BY <2>2, <3>1, <1>2
  <2> QED BY <2>1, <2>2
<1>7. ASSUME NEW i \in 1 .. m - 1
      PROVE  nxt2[v[i]] = IF i = m - 1 THEN NULL ELSE v[i + 1]
  <2>1. /\ old(i) \in 1 .. m /\ v[i] = w[old(i)] /\ w[old(i)] \in Cells /\ w[old(i)] # w[n]
        /\ n # 1 => (n - 1 \in 1 .. m /\ (w[old(i)] = w[n - 1] <=> old(i) = n - 1))
    <3>1. old(i) \in 1 .. m /\ old(i) # n /\ v[i] = w[old(i)]
      BY <1>2
    <3>2. n # 1 => n - 1 \in 1 .. m
      OBVIOUS
    <3> HIDE DEF old
    <3> QED BY <3>1, <3>2, <1>1
  <2>2. nxt2[v[i]] = IF old(i) = n - 1 THEN nxt[w[n]] ELSE nxt[w[old(i)]]
    BY <2>1 DEF Unhung
  <2>3. nxt2[v[i]] = IF i = m - 1 THEN NULL ELSE w[old(i + 1)]
    <3>1. CASE old(i) = n - 1
      <4>1. i = n - 1 /\ old(i + 1) = n + 1 /\ (i = m - 1 <=> n = m)
        BY <3>1
      <4>2. nxt[w[n]] = IF n = m THEN NULL ELSE w[n + 1]
        BY <1>1
      <4> QED BY <3>1, <4>1, <4>2, <2>2
    <3>2. CASE old(i) # n - 1
      <4>1. old(i + 1) = old(i) + 1 /\ (i = m - 1 <=> old(i) = m)
        BY <3>2
      <4>2. nxt[w[old(i)]] = IF old(i) = m THEN NULL ELSE w[old(i) + 1]
        BY <1>1, <2>1
      <4> QED BY <3>2, <4>1, <4>2, <2>2
    <3> QED BY <3>1, <3>2
  <2>4. i # m - 1 => v[i + 1] = w[old(i + 1)]
    <3>1. i # m - 1 => i + 1 \in 1 .. m - 1
      OBVIOUS
    <3> QED BY <3>1, <1>2
  <2> QED BY <2>3, <2>4
<1>8. ASSUME NEW i \in 1 .. m - 1
      PROVE  prv2[v[i]] = IF i = 1 THEN NULL ELSE v[i - 1]
  <2>1. /\ old(i) \in 1 .. m /\ v[i] = w[old(i)] /\ w[old(i)] \in Cells /\ w[old(i)] # w[n]
        /\ n # m => (n + 1 \in 1 .. m /\ (w[old(i)] = w[n + 1] <=> old(i) = n + 1))
    <3>1. old(i) \in 1 .. m /\ old(i) # n /\ v[i] = w[old(i)]
      BY <1>2
    <3>2. n # m => n + 1 \in 1 .. m
      OBVIOUS
    <3> HIDE DEF old
    <3> QED BY <3>1, <3>2, <1>1
  <2>2. prv2[v[i]] = IF old(i) = n + 1 THEN prv[w[n]] ELSE prv[w[old(i)]]
    BY <2>1 DEF Unhung
  <2>3. prv2[v[i]] = IF i = 1 THEN NULL ELSE w[old(i - 1)]
    <3>1. CASE old(i) = n + 1
      <4>1. i = n /\ (i # 1 => old(i - 1) = n - 1)
        BY <3>1
      <4>2. prv[w[n]] = IF n = 1 THEN NULL ELSE w[n - 1]
        BY <1>1
      <4> QED BY <3>1, <4>1, <4>2, <2>2
    <3>2. CASE old(i) # n + 1
      <4>1. /\ i # 1 => old(i - 1) = old(i) - 1
            /\ i = 1 <=> old(i) = 1
        BY <3>2, <1>2
      <4>2. prv[w[old(i)]] = IF old(i) = 1 THEN NULL ELSE w[old(i) - 1]
        BY <1>1, <2>1
      <4> QED BY <3>2, <4>1, <4>2, <2>2
    <3> QED BY <3>1, <3>2
  <2>4. i # 1 => v[i - 1] = w[old(i - 1)]
    <3>1. i # 1 => i - 1 \in 1 .. m - 1
      OBVIOUS
    <3> QED BY <3>1, <1>2
  <2> QED BY <2>3, <2>4
<1>9. ASSUME NEW x \in Cells \ (used \ {w[n]})
      PROVE  nxt2[x] = NULL /\ prv2[x] = NULL
  <2>1. CASE x = w[n]
    BY <2>1 DEF Unhung
  <2>2. CASE x # w[n]
    <3>1. nxt[x] = NULL /\ prv[x] = NULL /\ x \notin used
      BY <2>2 DEF Chain
    <3>2. (n # 1 => n - 1 \in 1 .. m) /\ (n # m => n + 1 \in 1 .. m)
      OBVIOUS
    <3>3. (n # 1 => x # w[n - 1]) /\ (n # m => x # w[n + 1])
      BY <3>1, <3>2, <1>1
    <3> QED BY <2>2, <3>1, <3>3 DEF Unhung
  <2> QED BY <2>1, <2>2
<1>10. Chain(m - 1, v, IF n = 1 THEN nxt[w[1]] ELSE first, nxt2, prv2, used \ {w[n]})
  BY <1>4, <1>5, <1>6, <1>7, <1>8, <1>9 DEF Chain
<1> QED BY <1>3, <1>10 DEF v

LEMMA Removed ==
  ASSUME NEW S, NEW s \in Seq(S), NEW n \in 1 .. Len(s)
  PROVE  /\ RemoveAt(s, n) \in Seq(S)
         /\ Len(RemoveAt(s, n)) = Len(s) - 1
         /\ \A i \in 1 .. Len(s) - 1 : RemoveAt(s, n)[i] = IF i < n THEN s[i] ELSE s[i + 1]
<1> DEFINE a == SubSeq(s, 1, n - 1)
           b == SubSeq(s, n + 1, Len(s))
<1>1. Len(s) \in Nat /\ \A i \in 1 .. Len(s) : s[i] \in S
  OBVIOUS
<1>2. /\ a \in Seq(S) /\ Len(a) = n - 1
      /\ \A i \in 1 .. n - 1 : a[i] = s[i]
  <2>1. \A i \in 1 .. n - 1 : s[i] \in S
    BY <1>1
  <2>2. /\ a \in Seq(S) /\ Len(a) = IF 1 <= n - 1 THEN (n - 1) - 1 + 1 ELSE 0
        /\ \A i \in 1 .. (n - 1) - 1 + 1 : a[i] = s[1 + i - 1]
    BY <2>1, <1>1, SubSeqProperties
  <2> QED BY <2>2, <1>1
<1>3. /\ b \in Seq(S) /\ Len(b) = Len(s) - n
      /\ \A i \in 1 .. Len(s) - n : b[i] = s[n + i]
  <2>1. \A i \in n + 1 .. Len(s) : s[i] \in S
    BY <1>1
  <2>2. /\ b \in Seq(S) /\ Len(b) = IF n + 1 <= Len(s) THEN Len(s) - (n + 1) + 1 ELSE 0
        /\ \A i \in 1 .. Len(s) - (n + 1) + 1 : b[i] = s[(n + 1) + i - 1]
    BY <2>1, <1>1, SubSeqProperties
  <2> QED BY <2>2, <1>1
<1>4. RemoveAt(s, n) = a \o b
  BY DEF RemoveAt
<1> HIDE DEF a, b
<1>5. /\ a \o b \in Seq(S) /\ Len(a \o b) = Len(a) + Len(b)
      /\ \A i \in 1 .. Len(a) + Len(b) : (a \o b)[i] = IF i <= Len(a) THEN a[i] ELSE b[i - Len(a)]
  BY <1>2, <1>3, ConcatProperties
<1>6. Len(a) + Len(b) = Len(s) - 1
  BY <1>1, <1>2, <1>3
<1>7. ASSUME NEW i \in 1 .. Len(s) - 1
      PROVE  (a \o b)[i] = IF i < n THEN s[i] ELSE s[i + 1]
  <2>1. CASE i < n
    BY <2>1, <1>1, <1>2, <1>5, <1>6
  <2>2. CASE ~(i < n)
    <3>1. i - (n - 1) \in 1 .. Len(s) - n /\ n + (i - (n - 1)) = i + 1 /\ ~(i <= Len(a))
      BY <2>2, <1>1, <1>2
    <3>2. b[i - (n - 1)] = s[i + 1]
      BY <3>1, <1>3
    <3> QED BY <3>1, <3>2, <2>2, <1>2, <1>5, <1>6
  <2> QED BY <2>1, <2>2
<1> QED BY <1>4, <1>5, <1>6, <1>7

LEMMA BooksStart == BooksInit => BooksInv
<1> SUFFICES ASSUME BooksInit PROVE BooksInv
  OBVIOUS
<1> USE DEF BooksInit, BookInit, CallInit, ListInit
<1>1. Len(book) = 0 /\ book \in Seq(Records)
  OBVIOUS
<1>2. BooksTypeOK
  BY <1>1, PhoneBooksAssumption DEF BooksTypeOK, Slots
<1>3. InArray /\ SameOutput
  BY <1>1 DEF InArray, SameOutput
<1>4. Linked
  <2> DEFINE w == [i \in 1 .. 0 |-> NULL]
  <2>1. 0 \in 0 .. Cardinality(Cells) /\ w \in [1 .. 0 -> Cells]
    BY CellsFinite
  <2>2. Chain(0, w, head, next, prev, allocated)
    BY DEF Chain
  <2>3. ended # "exit" /\ 0 = Len(book) /\ \A i \in 1 .. 0 : data[w[i]] = book[i]
    BY <1>1
  <2> HIDE DEF w, BooksInit
  <2> QED BY <2>1, <2>2, <2>3 DEF Linked
<1> QED BY <1>2, <1>3, <1>4 DEF BooksInv

(* A chain in the next state makes Linked true there.                      *)
LEMMA LinkedNext ==
  ASSUME NEW m \in Nat, NEW w \in [1 .. m -> Cells],
         Chain(m, w, head', next', prev', allocated'),
         IF ended' = "exit" THEN m = 0
         ELSE m = Len(book') /\ \A i \in 1 .. m : data'[w[i]] = book'[i]
  PROVE  Linked'
<1>1. m \in 0 .. Cardinality(Cells)
  BY ChainFits, CellsFinite DEF Chain
<1> QED BY <1>1 DEF Linked

LEMMA AddKeeps == ASSUME BooksInv, NEW r \in Records, Add(r) PROVE BooksInv'
<1> USE DEF Add, AddRecord, addAbonent
<1>1. BooksTypeOK /\ InArray /\ Linked /\ ended = "no"
  BY DEF BooksInv
<1>2. book \in Seq(Records) /\ Len(book) \in Nat /\ count = Len(book) /\ Size \in Nat
  BY <1>1, PhoneBooksAssumption DEF BooksTypeOK, InArray
<1>3. /\ book' \in Seq(Records) /\ Len(book') = Len(book) + 1
      /\ \A i \in 1 .. Len(book) : book'[i] = book[i]
      /\ book'[Len(book) + 1] = r
  BY <1>2, AppendProperties
<1>4. /\ call_book' \in [Slots -> Records \union {Blank, Garbage}] /\ count' \in 0 .. Size
      /\ ended' \in {"no", "refused"} /\ InArray'
  <2>1. CASE Full
    <3>1. count' = count /\ call_book' = call_book /\ ended' = "refused" /\ count = Size
      BY <2>1, <1>1, <1>2 DEF Full, BooksTypeOK
    <3>2. \A n \in 1 .. Size : call_book[n - 1] = book'[n]
      BY <3>1, <1>1, <1>2, <1>3 DEF InArray
    <3> QED BY <3>1, <3>2, <1>1, <1>2, <1>3 DEF InArray, BooksTypeOK
  <2>2. CASE ~Full
    <3>1. /\ count' = count + 1 /\ call_book' = [call_book EXCEPT ![count] = r]
          /\ count < Size /\ count \in Slots
      BY <2>2, <1>2 DEF Full, Slots
    <3>2. ended' = "no"
      BY <3>1, <1>2
    <3>3. call_book' \in [Slots -> Records \union {Blank, Garbage}]
      BY <3>1, <1>1 DEF BooksTypeOK
    <3>4. ASSUME NEW n \in 1 .. count + 1 PROVE call_book'[n - 1] = book'[n]
      <4>1. CASE n = count + 1
        BY <4>1, <3>1, <1>1, <1>2, <1>3 DEF BooksTypeOK
      <4>2. CASE n # count + 1
        <5>1. n \in 1 .. count /\ n - 1 \in Slots /\ n - 1 # count
          BY <4>2, <3>1, <1>2 DEF Slots
        <5> QED BY <5>1, <3>1, <1>1, <1>2, <1>3 DEF InArray, BooksTypeOK
      <4> QED BY <4>1, <4>2
    <3> QED BY <3>1, <3>2, <3>3, <3>4, <1>2, <1>3 DEF InArray
  <2> QED BY <2>1, <2>2
<1>5. PICK m \in 0 .. Cardinality(Cells) : \E w \in [1 .. m -> Cells] :
            /\ Chain(m, w, head, next, prev, allocated)
            /\ m = Len(book) /\ \A i \in 1 .. m : data[w[i]] = book[i]
  BY <1>1 DEF Linked
<1>6. PICK w \in [1 .. m -> Cells] :
            /\ Chain(m, w, head, next, prev, allocated)
            /\ m = Len(book) /\ \A i \in 1 .. m : data[w[i]] = book[i]
  BY <1>5
<1>7. PICK c \in Cells \ allocated :
       /\ allocated' = allocated \union {c}
       /\ data' = [data EXCEPT ![c] = r]
       /\ IF head = NULL
          THEN /\ head' = c
               /\ next' = [next EXCEPT ![c] = NULL]
               /\ prev' = [prev EXCEPT ![c] = NULL]
          ELSE LET last_node == NodeAt[Cardinality(Numbers)]
               IN  /\ next' = [next EXCEPT ![c] = NULL, ![last_node] = c]
                   /\ prev' = [prev EXCEPT ![c] = last_node]
                   /\ UNCHANGED head
  BY DEF AppendNode
<1>8. m \in Nat /\ (head = NULL <=> m = 0) /\ (m # 0 => m \in 1 .. m /\ w[m] \in Cells)
  <2>1. m \in Nat
    BY CellsFinite
  <2>2. m # 0 => 1 \in 1 .. m /\ m \in 1 .. m
    BY <2>1
  <2> QED BY <2>1, <2>2, <1>6, CellsFinite DEF Chain
<1>9. head # NULL => NodeAt[Cardinality(Numbers)] = w[m]
  BY <1>6, <1>8, ListRead
<1>10. /\ head' = IF m = 0 THEN c ELSE head
       /\ \A x \in Cells : next'[x] = IF m # 0 /\ x = w[m] THEN c ELSE next[x]
       /\ \A x \in Cells : prev'[x] = IF m # 0 /\ x = c THEN w[m] ELSE prev[x]
       /\ next' \in [Cells -> Cells \union {NULL}] /\ prev' \in [Cells -> Cells \union {NULL}]
       /\ head' \in Cells \union {NULL}
  <2>1. next \in [Cells -> Cells \union {NULL}] /\ prev \in [Cells -> Cells \union {NULL}]
    BY <1>1 DEF BooksTypeOK
  <2>0. next[c] = NULL /\ prev[c] = NULL
    BY <1>6, <1>7 DEF Chain
  <2>2. CASE m = 0
    BY <2>0, <2>1, <2>2, <1>7, <1>8
  <2>3. CASE m # 0
    <3>1. /\ next' = [next EXCEPT ![c] = NULL, ![w[m]] = c]
          /\ prev' = [prev EXCEPT ![c] = w[m]]
          /\ head' = head /\ w[m] \in Cells
      BY <2>3, <1>7, <1>8, <1>9
    <3> QED BY <3>1, <2>0, <2>1, <2>3, <1>1 DEF BooksTypeOK
  <2> QED BY <2>2, <2>3
<1>11. BooksTypeOK'
  <2>1. data' \in [Cells -> Records \union {None}] /\ allocated' \subseteq Cells
    BY <1>1, <1>7 DEF BooksTypeOK
  <2> QED BY <2>1, <1>3, <1>4, <1>10 DEF BooksTypeOK
<1>12. Linked'
  <2> DEFINE v == Longer(m, w, c)
             nx == next'
             pv == prev'
  <2>1. Hung(m, w, c, next, prev, nx, pv)
    BY <1>10 DEF Hung
  <2> HIDE DEF nx, pv
  <2>2. /\ v \in [1 .. m + 1 -> Cells]
        /\ Chain(m + 1, v, IF m = 0 THEN c ELSE head, nx, pv, allocated \union {c})
    BY <2>1, <1>6, <1>7, <1>8, ChainAppend
  <2>3. Chain(m + 1, v, head', next', prev', allocated')
    BY <2>2, <1>7, <1>10 DEF nx, pv
  <2>4. m + 1 = Len(book') /\ m + 1 \in Nat
    BY <1>2, <1>3, <1>6
  <2>5. ASSUME NEW i \in 1 .. m + 1 PROVE data'[v[i]] = book'[i]
    <3>1. CASE i = m + 1
      <4>1. v[i] = c
        BY <3>1, <1>8 DEF Longer
      <4>2. data'[c] = r
        BY <1>1, <1>7 DEF BooksTypeOK
      <4> QED BY <3>1, <4>1, <4>2, <1>3, <1>6
    <3>2. CASE i # m + 1
      <4>1. i \in 1 .. m /\ v[i] = w[i]
        BY <3>2, <1>8 DEF Longer
      <4>2. w[i] \in Cells /\ w[i] # c
        BY <4>1, <1>6, <1>7 DEF Chain
      <4>3. data'[w[i]] = data[w[i]]
        BY <4>2, <1>1, <1>7 DEF BooksTypeOK
      <4> QED BY <4>1, <4>3, <1>3, <1>6
    <3> QED BY <3>1, <3>2
  <2>6. ended' # "exit"
    BY <1>4
  <2> HIDE DEF v
  <2> QED BY <2>2, <2>3, <2>4, <2>5, <2>6, LinkedNext
<1>13. SameOutput'
  BY DEF SameOutput, AppendNode
<1> QED BY <1>4, <1>11, <1>12, <1>13 DEF BooksInv

(* deleteAbonent: for a full array what is read behind it goes to the slot *)
(* that count leaves out.                                                  *)
LEMMA ArrayDelete ==
  ASSUME BooksInv, NEW n \in 1 .. Len(book), Delete(n)
  PROVE  /\ book' \in Seq(Records) /\ Len(book') = Len(book) - 1
         /\ \A i \in 1 .. Len(book) - 1 : book'[i] = IF i < n THEN book[i] ELSE book[i + 1]
         /\ call_book' \in [Slots -> Records \union {Blank, Garbage}] /\ count' \in 0 .. Size
         /\ InArray'
<1> USE DEF Delete, DeleteRecord, deleteAbonent
<1>1. BooksTypeOK /\ InArray /\ ended = "no" /\ ended' = "no"
  BY DEF BooksInv
<1>2. book \in Seq(Records) /\ Len(book) \in Nat /\ count = Len(book) /\ Size \in Nat /\ count <= Size
  BY <1>1, PhoneBooksAssumption DEF BooksTypeOK, InArray
<1>3. /\ book' \in Seq(Records) /\ Len(book') = Len(book) - 1
      /\ \A i \in 1 .. Len(book) - 1 : book'[i] = IF i < n THEN book[i] ELSE book[i + 1]
  <2>1. book' = RemoveAt(book, n)
    BY <1>2
  <2> QED BY <2>1, <1>2, Removed
<1>4. count' = count - 1 /\ call_book' = Shifted(n)
  BY <1>2
<1>5. /\ call_book \in [Slots -> Records \union {Blank, Garbage}]
      /\ n - 1 \in Slots
  BY <1>1, <1>2 DEF BooksTypeOK, Slots
<1> DEFINE cleared == [call_book EXCEPT ![n - 1] = Blank]
<1>6. /\ cleared \in [Slots -> Records \union {Blank, Garbage}]
      /\ \A i \in Slots : i # n - 1 => cleared[i] = call_book[i]
  BY <1>5
<1>7. call_book' = [i \in Slots |-> IF i \notin n - 1 .. count - 1 THEN cleared[i]
                                    ELSE IF i + 1 \in Slots THEN cleared[i + 1] ELSE Garbage]
  BY <1>4 DEF Shifted
<1> HIDE DEF cleared
<1>8. call_book' \in [Slots -> Records \union {Blank, Garbage}]
  BY <1>6, <1>7
<1>9. ASSUME NEW k \in 1 .. count - 1 PROVE call_book'[k - 1] = book'[k]
  <2>1. k - 1 \in Slots /\ k \in Slots /\ k \in 1 .. count /\ k + 1 \in 1 .. count
    BY <1>2 DEF Slots
  <2>2. call_book[k - 1] = book[k] /\ call_book[k] = book[k + 1]
    <3>1. (k + 1) - 1 = k
      BY <1>2
    <3> QED BY <2>1, <3>1, <1>1 DEF InArray
  <2>3. CASE k < n
    <3>1. k - 1 \notin n - 1 .. count - 1 /\ k - 1 # n - 1
      BY <2>3, <1>2
    <3>2. call_book'[k - 1] = call_book[k - 1]
      BY <3>1, <2>1, <1>6, <1>7
    <3> QED BY <2>2, <2>3, <3>2, <1>2, <1>3
  <2>4. CASE ~(k < n)
    <3>1. k - 1 \in n - 1 .. count - 1 /\ (k - 1) + 1 = k /\ k # n - 1
      BY <2>4, <1>2
    <3>2. call_book'[k - 1] = call_book[k]
      BY <3>1, <2>1, <1>6, <1>7
    <3> QED BY <2>2, <2>4, <3>2, <1>2, <1>3
  <2> QED BY <2>3, <2>4
<1>10. count' \in 0 .. Size
  BY <1>2, <1>4
<1>11. InArray'
  BY <1>1, <1>2, <1>3, <1>4, <1>9 DEF InArray
<1> QED BY <1>3, <1>8, <1>10, <1>11

(* DeleteAbonent takes the node with the number out of the chain.          *)
LEMMA ListDelete ==
  ASSUME BooksTypeOK, NEW m \in 0 .. Cardinality(Cells), NEW w \in [1 .. m -> Cells],
         Chain(m, w, head, next, prev, allocated), NEW n \in 1 .. m, DeleteAbonent(n)
  PROVE  /\ head' = IF n = 1 THEN next[w[1]] ELSE head
         /\ Unhung(m, w, n, next, prev, next', prev')
         /\ allocated' = allocated \ {w[n]}
         /\ head' \in Cells \union {NULL}
         /\ next' \in [Cells -> Cells \union {NULL}] /\ prev' \in [Cells -> Cells \union {NULL}]
         /\ data' \in [Cells -> Records \union {None}]
         /\ \A x \in Cells \ {w[n]} : data'[x] = data[x]
<1> DEFINE c == w[n]
<1>1. /\ next \in [Cells -> Cells \union {NULL}] /\ prev \in [Cells -> Cells \union {NULL}]
      /\ head \in Cells \union {NULL} /\ data \in [Cells -> Records \union {None}]
  BY DEF BooksTypeOK
<1>2. m \in Nat /\ c \in Cells /\ 1 \in 1 .. m
  BY CellsFinite
<1>3. Unlink(c)
  BY ListRead DEF DeleteAbonent
<1>4. head = w[1] /\ (c = head <=> n = 1)
  BY <1>2 DEF Chain
<1>5. /\ next[c] = IF n = m THEN NULL ELSE w[n + 1]
      /\ prev[c] = IF n = 1 THEN NULL ELSE w[n - 1]
      /\ n # m => n + 1 \in 1 .. m /\ w[n + 1] \in Cells /\ w[n + 1] # NULL
      /\ n # 1 => n - 1 \in 1 .. m /\ w[n - 1] \in Cells /\ w[n - 1] # NULL
  <2>1. (n # m => n + 1 \in 1 .. m) /\ (n # 1 => n - 1 \in 1 .. m)
    BY <1>2
  <2> QED BY <2>1, CellsFinite DEF Chain
<1> HIDE DEF c
<1> DEFINE nx == IF n = 1 THEN next ELSE [next EXCEPT ![w[n - 1]] = next[c]]
           pv == IF n = m THEN prev ELSE [prev EXCEPT ![w[n + 1]] = prev[c]]
<1>6. Free({c}, nx, pv) /\ head' = IF n = 1 THEN next[c] ELSE head
  <2>1. CASE n = 1
    BY <2>1, <1>3, <1>4, <1>5 DEF Unlink, Set
  <2>2. CASE n # 1
    BY <2>2, <1>3, <1>4, <1>5 DEF Unlink, Set
  <2> QED BY <2>1, <2>2
<1>7. /\ nx \in [Cells -> Cells \union {NULL}] /\ pv \in [Cells -> Cells \union {NULL}]
      /\ \A x \in Cells : nx[x] = IF n # 1 /\ x = w[n - 1] THEN next[c] ELSE next[x]
      /\ \A x \in Cells : pv[x] = IF n # m /\ x = w[n + 1] THEN prev[c] ELSE prev[x]
  <2>1. next[c] \in Cells \union {NULL} /\ prev[c] \in Cells \union {NULL}
    BY <1>1, <1>2
  <2>2. CASE n = 1
    BY <2>1, <2>2, <1>1, <1>5
  <2>3. CASE n # 1
    BY <2>1, <2>3, <1>1, <1>5
  <2> QED BY <2>2, <2>3
<1> HIDE DEF nx, pv
<1>8. /\ allocated' = allocated \ {c}
      /\ next' = [x \in Cells |-> IF x = c THEN NULL ELSE nx[x]]
      /\ prev' = [x \in Cells |-> IF x = c THEN NULL ELSE pv[x]]
      /\ data' = [x \in Cells |-> IF x = c THEN None ELSE data[x]]
  BY <1>6 DEF Free
<1>9. Unhung(m, w, n, next, prev, next', prev')
  <2> SUFFICES ASSUME NEW x \in Cells
               PROVE  /\ next'[x] = IF x = c THEN NULL
                                    ELSE IF n # 1 /\ x = w[n - 1] THEN next[c] ELSE next[x]
                      /\ prev'[x] = IF x = c THEN NULL
                                    ELSE IF n # m /\ x = w[n + 1] THEN prev[c] ELSE prev[x]
    BY DEF Unhung, c
  <2>1. next'[x] = IF x = c THEN NULL ELSE nx[x]
    BY <1>8
  <2>2. prev'[x] = IF x = c THEN NULL ELSE pv[x]
    BY <1>8
  <2> QED BY <2>1, <2>2, <1>7
<1>10. /\ next' \in [Cells -> Cells \union {NULL}] /\ prev' \in [Cells -> Cells \union {NULL}]
       /\ data' \in [Cells -> Records \union {None}] /\ \A x \in Cells \ {c} : data'[x] = data[x]
  BY <1>1, <1>7, <1>8
<1>11. head' \in Cells \union {NULL}
  BY <1>1, <1>2, <1>6
<1>12. head' = IF n = 1 THEN next[w[1]] ELSE head
  BY <1>6 DEF c
<1> QED BY <1>8, <1>9, <1>10, <1>11, <1>12 DEF c

LEMMA DeleteKeeps == ASSUME BooksInv, NEW n \in 0 .. Size + 1, Delete(n) PROVE BooksInv'
<1>1. BooksTypeOK /\ InArray /\ Linked /\ ended = "no" /\ ended' = "no"
  BY DEF BooksInv, Delete
<1>2. book \in Seq(Records) /\ Len(book) \in Nat /\ count = Len(book) /\ Size \in Nat
  BY <1>1, PhoneBooksAssumption DEF BooksTypeOK, InArray
<1>3. SameOutput'
  BY DEF SameOutput, Delete, DeleteRecord, deleteAbonent, DeleteAbonent
<1>4. PICK m \in 0 .. Cardinality(Cells) : \E w \in [1 .. m -> Cells] :
            /\ Chain(m, w, head, next, prev, allocated)
            /\ m = Len(book) /\ \A i \in 1 .. m : data[w[i]] = book[i]
  BY <1>1 DEF Linked
<1>5. PICK w \in [1 .. m -> Cells] :
            /\ Chain(m, w, head, next, prev, allocated)
            /\ m = Len(book) /\ \A i \in 1 .. m : data[w[i]] = book[i]
  BY <1>4
<1>6. CASE n \notin 1 .. m
  <2>1. UNCHANGED <<book, call_book, count>>
    BY <1>2, <1>5, <1>6 DEF Delete, DeleteRecord, deleteAbonent
  <2>2. UNCHANGED <<head, next, prev, data, allocated>>
    <3>1. Numbers = 1 .. m
      BY <1>5, ListRead
    <3> QED BY <3>1, <1>6 DEF Delete, DeleteAbonent
  <2>3. BooksTypeOK' /\ InArray' /\ Linked'
    BY <1>1, <2>1, <2>2 DEF BooksTypeOK, InArray, Linked
  <2> QED BY <1>3, <2>3 DEF BooksInv
<1>7. CASE n \in 1 .. m
  <2>1. n \in 1 .. Len(book) /\ DeleteAbonent(n) /\ m \in Nat /\ m - 1 \in Nat
    BY <1>2, <1>5, <1>7 DEF Delete
  <2>2. /\ book' \in Seq(Records) /\ Len(book') = Len(book) - 1
        /\ \A i \in 1 .. Len(book) - 1 : book'[i] = IF i < n THEN book[i] ELSE book[i + 1]
        /\ call_book' \in [Slots -> Records \union {Blank, Garbage}] /\ count' \in 0 .. Size
        /\ InArray'
    BY <2>1, ArrayDelete
  <2>3. /\ head' = IF n = 1 THEN next[w[1]] ELSE head
        /\ Unhung(m, w, n, next, prev, next', prev')
        /\ allocated' = allocated \ {w[n]}
        /\ head' \in Cells \union {NULL}
        /\ next' \in [Cells -> Cells \union {NULL}] /\ prev' \in [Cells -> Cells \union {NULL}]
        /\ data' \in [Cells -> Records \union {None}]
        /\ \A x \in Cells \ {w[n]} : data'[x] = data[x]
    BY <2>1, <1>1, <1>5, <1>7, ListDelete
  <2>4. BooksTypeOK'
    <3>1. allocated' \subseteq Cells
      BY <2>3, <1>1 DEF BooksTypeOK
    <3> QED BY <3>1, <2>2, <2>3, <1>1 DEF BooksTypeOK
  <2>5. Linked'
    <3> DEFINE v == Shorter(m, w, n)
               nx == next'
               pv == prev'
    <3>1. Unhung(m, w, n, next, prev, nx, pv)
      BY <2>3
    <3> HIDE DEF nx, pv
    <3>2. /\ v \in [1 .. m - 1 -> Cells]
          /\ Chain(m - 1, v, IF n = 1 THEN next[w[1]] ELSE head, nx, pv, allocated \ {w[n]})
      BY <3>1, <2>1, <1>5, <1>7, ChainRemove
    <3>3. Chain(m - 1, v, head', next', prev', allocated')
      BY <3>2, <2>3 DEF nx, pv
    <3>4. m - 1 = Len(book')
      BY <2>2, <1>2, <1>5
    <3>5. ASSUME NEW i \in 1 .. m - 1 PROVE data'[v[i]] = book'[i]
      <4> DEFINE j == IF i < n THEN i ELSE i + 1
      <4>1. j \in 1 .. m /\ j # n /\ v[i] = w[j]
        BY <2>1 DEF Shorter
      <4>2. book'[i] = book[j]
        BY <2>2, <1>5
      <4> HIDE DEF j
      <4>3. w[j] \in Cells /\ w[j] # w[n]
        BY <4>1, <1>5, <1>7 DEF Chain
      <4>4. data'[w[j]] = data[w[j]]
        BY <4>3, <2>3
      <4> QED BY <4>1, <4>2, <4>4, <1>5
    <3> HIDE DEF v
    <3> QED BY <3>2, <3>3, <3>4, <3>5, <2>1, <1>1, LinkedNext
  <2> QED BY <2>2, <2>4, <2>5, <1>3 DEF BooksInv
<1> QED BY <1>6, <1>7

(* Book, array and list read the same, entry by entry.                     *)
LEMMA SameReading ==
  ASSUME BooksInv, ended \notin {"exit", "refused"}
  PROVE  Entries = Numbered /\ Listing = Numbered
<1>1. BooksTypeOK /\ InArray /\ Linked
  BY DEF BooksInv
<1>2. DOMAIN book = 1 .. Len(book) /\ count = Len(book)
  BY <1>1 DEF BooksTypeOK, InArray
<1>3. Entries = Numbered
  BY <1>1, <1>2 DEF Entries, Numbered, InArray
<1>4. Listing = Numbered
  <2>1. PICK m \in 0 .. Cardinality(Cells) : \E w \in [1 .. m -> Cells] :
            /\ Chain(m, w, head, next, prev, allocated)
            /\ m = Len(book) /\ \A i \in 1 .. m : data[w[i]] = book[i]
    BY <1>1 DEF Linked
  <2>2. PICK w \in [1 .. m -> Cells] :
            /\ Chain(m, w, head, next, prev, allocated)
            /\ m = Len(book) /\ \A i \in 1 .. m : data[w[i]] = book[i]
    BY <2>1
  <2>3. Listing = [i \in 1 .. m |-> <<i, data[w[i]]>>]
    BY <2>2, ListRead
  <2> QED BY <2>2, <2>3, <1>2 DEF Numbered
<1> QED BY <1>3, <1>4

(* The three searches pick the same entries of one list.                   *)
Found(s, name) == SelectSeq(s, LAMBDA entry : entry[2].name = name)

LEMMA SameSearch ==
  ASSUME NEW s, NEW name
  PROVE  SelectSeq(s, LAMBDA entry : searchName(name, entry)) = Found(s, name)
BY DEF Found, searchName

LEMMA FindKeeps == ASSUME BooksInv, NEW name, Find(name) PROVE BooksInv'
<1>1. BooksTypeOK /\ InArray /\ Linked /\ ended = "no"
  BY DEF BooksInv, Find
<1>2. shown' = Found(Numbered, name)
  BY DEF Find, FindRecords, Found
<1>3. printed' = Found(Entries, name)
  <2>1. printed' = SelectSeq(Entries, LAMBDA entry : searchName(name, entry))
    BY DEF Find, findAbonent
  <2> QED BY <2>1, SameSearch
<1>4. listed' = Found(Listing, name)
  BY DEF Find, SearchByName, Found
<1>5. SameOutput'
  BY <1>1, <1>2, <1>3, <1>4, SameReading DEF SameOutput
<1>6. UNCHANGED <<book, call_book, count, head, next, prev, data, allocated, ended>>
  BY DEF Find, FindRecords, findAbonent, SearchByName
<1>7. BooksTypeOK' /\ InArray' /\ Linked'
  BY <1>1, <1>6 DEF BooksTypeOK, InArray, Linked
<1> QED BY <1>5, <1>7 DEF BooksInv

LEMMA ShowKeeps == ASSUME BooksInv, Show PROVE BooksInv'
<1>1. BooksTypeOK /\ InArray /\ Linked /\ ended = "no"
  BY DEF BooksInv, Show
<1>2. SameOutput'
  BY <1>1, SameReading DEF SameOutput, Show, ListRecords, showAllAbonent, ShowAll
<1>3. UNCHANGED <<book, call_book, count, head, next, prev, data, allocated, ended>>
  BY DEF Show, ListRecords, showAllAbonent, ShowAll
<1>4. BooksTypeOK' /\ InArray' /\ Linked'
  BY <1>1, <1>3 DEF BooksTypeOK, InArray, Linked
<1> QED BY <1>2, <1>4 DEF BooksInv

LEMMA ExitKeeps == ASSUME BooksInv, Exit PROVE BooksInv'
<1> USE DEF Exit, LeaveBook, exitBook, ExitProgram
<1>1. BooksTypeOK /\ InArray /\ Linked /\ ended = "no" /\ ended' = "exit"
  BY DEF BooksInv
<1>2. Nodes = allocated
  <2>1. PICK m \in 0 .. Cardinality(Cells) : \E w \in [1 .. m -> Cells] :
            Chain(m, w, head, next, prev, allocated)
    BY <1>1 DEF Linked
  <2>2. PICK w \in [1 .. m -> Cells] : Chain(m, w, head, next, prev, allocated)
    BY <2>1
  <2> QED BY <2>2, ListRead
<1>3. \A x \in Cells \ allocated : next[x] = NULL /\ prev[x] = NULL
  BY <1>1 DEF Linked, Chain
<1>4. /\ allocated' = {} /\ head' = NULL
      /\ next' \in [Cells -> Cells \union {NULL}] /\ prev' \in [Cells -> Cells \union {NULL}]
      /\ data' \in [Cells -> Records \union {None}]
      /\ \A x \in Cells : next'[x] = NULL /\ prev'[x] = NULL
  BY <1>1, <1>2, <1>3 DEF Free, BooksTypeOK
<1>5. BooksTypeOK'
  BY <1>1, <1>4 DEF BooksTypeOK
<1>6. InArray' /\ SameOutput'
  BY <1>1 DEF InArray, SameOutput
<1>7. Linked'
  <2> DEFINE w == [i \in 1 .. 0 |-> NULL]
  <2>1. w \in [1 .. 0 -> Cells] /\ 0 \in Nat
    OBVIOUS
  <2>2. Chain(0, w, head', next', prev', allocated')
    BY <1>4 DEF Chain
  <2> HIDE DEF w
  <2> QED BY <2>1, <2>2, <1>1, LinkedNext
<1> QED BY <1>5, <1>6, <1>7 DEF BooksInv

LEMMA BooksStep == BooksInv /\ [BooksNext]_booksVars => BooksInv'
<1> SUFFICES ASSUME BooksInv, [BooksNext]_booksVars PROVE BooksInv'
  OBVIOUS
<1>1. CASE UNCHANGED booksVars
  BY <1>1 DEF BooksInv, BooksTypeOK, InArray, Linked, SameOutput, booksVars, bookVars, callVars,
     listVars
<1>2. CASE AddFails
  BY <1>2 DEF BooksInv, BooksTypeOK, InArray, Linked, SameOutput, AddFails, bookVars, callVars,
     listVars
<1> QED BY <1>1, <1>2, AddKeeps, DeleteKeeps, FindKeeps, ShowKeeps, ExitKeeps DEF BooksNext

LEMMA BooksInvAgree == BooksInv => BooksAgree
<1> SUFFICES ASSUME BooksInv PROVE BooksAgree
  OBVIOUS
<1>1. BooksTypeOK /\ InArray /\ Linked /\ SameOutput
  BY DEF BooksInv
<1>2. Len(book) <= Size + 1
  BY <1>1, PhoneBooksAssumption DEF BooksTypeOK, InArray
<1>3. ended # "exit" => Listing = Numbered
  <2> SUFFICES ASSUME ended # "exit" PROVE Listing = Numbered
    OBVIOUS
  <2>1. PICK m \in 0 .. Cardinality(Cells) : \E w \in [1 .. m -> Cells] :
            /\ Chain(m, w, head, next, prev, allocated)
            /\ m = Len(book) /\ \A i \in 1 .. m : data[w[i]] = book[i]
    BY <1>1 DEF Linked
  <2>2. PICK w \in [1 .. m -> Cells] :
            /\ Chain(m, w, head, next, prev, allocated)
            /\ m = Len(book) /\ \A i \in 1 .. m : data[w[i]] = book[i]
    BY <2>1
  <2>3. Listing = [i \in 1 .. m |-> <<i, data[w[i]]>>]
    BY <2>2, ListRead
  <2>4. DOMAIN book = 1 .. Len(book)
    BY <1>1 DEF BooksTypeOK
  <2> QED BY <2>2, <2>3, <2>4 DEF Numbered
<1> QED BY <1>1, <1>2, <1>3 DEF BooksAgree, InArray, SameOutput

LEMMA BooksInvReachable == BooksInv => AllocatedIsReachable
<1> SUFFICES ASSUME BooksInv PROVE AllocatedIsReachable
  OBVIOUS
<1>1. PICK m \in 0 .. Cardinality(Cells) : \E w \in [1 .. m -> Cells] :
            /\ Chain(m, w, head, next, prev, allocated)
            /\ ended = "exit" => m = 0
  BY DEF BooksInv, Linked
<1>2. PICK w \in [1 .. m -> Cells] :
            /\ Chain(m, w, head, next, prev, allocated)
            /\ ended = "exit" => m = 0
  BY <1>1
<1>3. /\ Numbers = 1 .. m /\ Cardinality(Numbers) = m
      /\ \A n \in 1 .. m : NodeAt[n] = w[n]
      /\ Nodes = allocated
  BY <1>2, ListRead
<1>4. m \in Nat /\ allocated = {w[i] : i \in 1 .. m} /\ \A i, j \in 1 .. m : w[i] = w[j] => i = j
  BY <1>2, CellsFinite DEF Chain
<1>5. Cardinality(Nodes) = m
  <2>1. w \in Bijection(1 .. m, allocated)
    BY <1>4 DEF Bijection, Injection, Surjection, IsInjective
  <2>2. IsFiniteSet(1 .. m) /\ Cardinality(1 .. m) = m
    BY <1>4, FS_Interval
  <2>3. ExistsBijection(1 .. m, allocated)
    BY <2>1 DEF ExistsBijection
  <2> QED BY <2>2, <2>3, <1>3, FS_Bijection
<1>6. head # NULL => prev[head] = NULL
  <2>1. m # 0 => 1 \in 1 .. m
    BY <1>4
  <2> QED BY <2>1, <1>2 DEF Chain
<1>7. ASSUME NEW x \in allocated
      PROVE  /\ next[x] \in allocated \union {NULL}
             /\ next[x] # NULL => prev[next[x]] = x
  <2>1. PICK i \in 1 .. m : x = w[i]
    BY <1>4
  <2>2. next[x] = IF i = m THEN NULL ELSE w[i + 1]
    BY <2>1, <1>2 DEF Chain
  <2>3. CASE i = m
    BY <2>2, <2>3
  <2>4. CASE i # m
    <3>1. i + 1 \in 1 .. m /\ i + 1 # 1 /\ (i + 1) - 1 = i
      BY <2>4, <1>4
    <3>2. prev[w[i + 1]] = w[i] /\ w[i + 1] \in allocated
      BY <3>1, <1>2 DEF Chain
    <3> QED BY <2>1, <2>2, <2>4, <3>2
  <2> QED BY <2>3, <2>4
<1>8. ended = "exit" => allocated = {}
  BY <1>2, <1>4
<1> QED BY <1>3, <1>5, <1>6, <1>7, <1>8 DEF AllocatedIsReachable

(* The inductive invariant of the phone books.                             *)
THEOREM BooksInvariance == Spec => []BooksInv
<1>1. Init => BooksInv
  BY BooksStart DEF Init
<1>2. [Next]_vars => [BooksNext]_booksVars
  BY DEF Next, vars
<1> QED BY <1>1, <1>2, BooksStep, PTL DEF Spec

(* The array of hw4 and hw5 and the list of hw6 hold and print the same    *)
(* book as the reference, for every size of the array and of the memory.   *)
THEOREM ThreeBooksAgree == Spec => []BooksAgree
BY BooksInvariance, BooksInvAgree, PTL

(* The list of hw6 reaches every cell that malloc has handed out and no    *)
(* freed one, and leaves none behind when the program exits.               *)
THEOREM NoCellLost == Spec => []AllocatedIsReachable
BY BooksInvariance, BooksInvReachable, PTL

-----------------------------------------------------------------------------
(* The multiprotocol server.  What epoll_wait has reported is still there  *)
(* when the server comes to it, although it may have blocked in a read in  *)
(* between: accept and recvfrom never find an empty queue.                 *)

ReportedIsThere ==
  /\ multi = "events" /\ "tcp" \in events => tcpBacklog # <<>>
  /\ "udp" \in events => udpBuffer # <<>>
  /\ multi = "read" => client_fd \in Callers

MultiInv == MultiTypeOK /\ ReportedIsThere

LEMMA MultiStart == MultiInit => MultiInv
BY MultiAssumption DEF MultiInit, MultiInv, MultiTypeOK, ReportedIsThere

LEMMA HeadTailType ==
  ASSUME NEW S, NEW s \in Seq(S), s # <<>>
  PROVE  Head(s) \in S /\ Tail(s) \in Seq(S) /\ Len(Tail(s)) = Len(s) - 1
OBVIOUS

LEMMA MultiKeeps == MultiInv /\ [MultiNext]_multiVars => MultiInv'
<1> SUFFICES ASSUME MultiInv, [MultiNext]_multiVars PROVE MultiInv'
  OBVIOUS
<1> USE DEF serverVars, socketVars
<1>1. MultiTypeOK /\ ReportedIsThere
  BY DEF MultiInv
<1>2. /\ hello \subseteq Callers /\ salut \subseteq Callers /\ closed \subseteq Callers
      /\ hiAnswered \subseteq Callers /\ hiDropped \subseteq Callers /\ greeted \subseteq Callers
  BY <1>1 DEF MultiTypeOK
<1>3. CASE UNCHANGED multiVars
  BY <1>1, <1>3 DEF MultiInv, MultiTypeOK, ReportedIsThere, multiVars
<1>4. ASSUME NEW c \in Callers, CallerConnect(c) PROVE MultiInv'
  <2>1. tcpBacklog' \in Seq(Callers) /\ tcpBacklog' # <<>>
    BY <1>1, <1>4, AppendProperties DEF MultiTypeOK, CallerConnect
  <2> QED BY <1>1, <1>4, <2>1 DEF MultiInv, MultiTypeOK, ReportedIsThere, CallerConnect, Goto
<1>5. ASSUME NEW c \in Callers, CallerWrite(c) PROVE MultiInv'
  <2>1. hello' \subseteq Callers
    BY <1>2, <1>5 DEF CallerWrite
  <2>2. MultiTypeOK'
    BY <1>1, <1>2, <1>5, <2>1 DEF MultiTypeOK, CallerWrite, Goto
  <2> QED BY <1>1, <1>5, <2>2 DEF MultiInv, ReportedIsThere, CallerWrite
<1>6. ASSUME NEW c \in Callers, CallerRead(c) PROVE MultiInv'
  <2>1. greeted' \subseteq Callers
    BY <1>2, <1>6 DEF CallerRead
  <2>2. MultiTypeOK'
    BY <1>1, <1>2, <1>6, <2>1 DEF MultiTypeOK, CallerRead, Goto
  <2> QED BY <1>1, <1>6, <2>2 DEF MultiInv, ReportedIsThere, CallerRead
<1>7. ASSUME NEW c \in Callers, CallerSend(c) PROVE MultiInv'
  <2>1. /\ udpBuffer' \in Seq(Callers) /\ Len(udpBuffer') <= UdpSize
        /\ udpBuffer # <<>> => udpBuffer' # <<>>
    <3>1. Len(udpBuffer) \in Nat /\ UdpSize \in Nat /\ udpBuffer \in Seq(Callers)
      BY <1>1, MultiAssumption DEF MultiTypeOK
    <3>2. CASE Len(udpBuffer) < UdpSize
      <4>1. udpBuffer' = Append(udpBuffer, c)
        BY <1>7, <3>2 DEF CallerSend
      <4> QED BY <4>1, <3>1, <3>2, AppendProperties
    <3>3. CASE ~(Len(udpBuffer) < UdpSize)
      BY <1>1, <1>7, <3>3 DEF CallerSend, MultiTypeOK
    <3> QED BY <3>2, <3>3
  <2>2. hiDropped' \subseteq Callers
    BY <1>2, <1>7 DEF CallerSend
  <2>3. MultiTypeOK'
    BY <1>1, <1>2, <1>7, <2>1, <2>2 DEF MultiTypeOK, CallerSend, Goto
  <2> QED BY <1>1, <1>7, <2>1, <2>3 DEF MultiInv, ReportedIsThere, CallerSend
<1>8. ASSUME NEW c \in Callers, CallerRecv(c) PROVE MultiInv'
  BY <1>1, <1>8 DEF MultiInv, MultiTypeOK, ReportedIsThere, CallerRecv, Goto
<1>9. ASSUME NEW c \in Callers, HangUpCaller(c) PROVE MultiInv'
  BY <1>1, <1>9, MultiAssumption DEF MultiInv, MultiTypeOK, ReportedIsThere, HangUpCaller
<1>10. CASE EpollWait
  BY <1>1, <1>10 DEF MultiInv, MultiTypeOK, ReportedIsThere, EpollWait, Ready
<1>11. CASE MultiAccept
  <2>1. client_fd' \in Callers /\ tcpBacklog' \in Seq(Callers)
    BY <1>1, <1>11, HeadTailType DEF MultiTypeOK, ReportedIsThere, MultiAccept
  <2> QED BY <1>1, <1>11, <2>1 DEF MultiInv, MultiTypeOK, ReportedIsThere, MultiAccept
<1>12. CASE MultiRead
  <2>1. salut' \subseteq Callers /\ closed' \subseteq Callers
    BY <1>1, <1>2, <1>12 DEF ReportedIsThere, MultiRead
  <2>2. /\ multi' \in {"epoll_wait", "events"} /\ events' \subseteq {"tcp", "udp"}
        /\ "tcp" \notin events' /\ events' \subseteq events /\ client_fd' = Noone
    BY <1>1, <1>12 DEF MultiTypeOK, MultiRead, EventDone
  <2>3. MultiTypeOK'
    BY <1>1, <1>2, <1>12, <2>1, <2>2 DEF MultiTypeOK, MultiRead
  <2>4. ReportedIsThere'
    BY <1>1, <1>12, <2>2 DEF ReportedIsThere, MultiRead
  <2> QED BY <2>3, <2>4 DEF MultiInv
<1>13. CASE MultiRecvfrom
  <2>1. udpBuffer \in Seq(Callers) /\ udpBuffer # <<>>
    BY <1>1, <1>13 DEF MultiTypeOK, ReportedIsThere, MultiRecvfrom
  <2>2. /\ Head(udpBuffer) \in Callers /\ udpBuffer' \in Seq(Callers)
        /\ Len(udpBuffer') <= UdpSize
    <3>1. /\ Head(udpBuffer) \in Callers /\ Tail(udpBuffer) \in Seq(Callers)
          /\ Len(Tail(udpBuffer)) = Len(udpBuffer) - 1
      BY <2>1, HeadTailType
    <3>2. Len(udpBuffer) \in Nat /\ UdpSize \in Nat /\ Len(udpBuffer) <= UdpSize
      BY <1>1, MultiAssumption DEF MultiTypeOK
    <3> QED BY <3>1, <3>2, <1>13 DEF MultiRecvfrom
  <2>3. hiAnswered' \subseteq Callers
    BY <1>2, <1>13, <2>2 DEF MultiRecvfrom
  <2>4. /\ multi' \in {"epoll_wait", "events"} /\ events' \subseteq {"tcp", "udp"}
        /\ "udp" \notin events' /\ events' \subseteq events
    BY <1>1, <1>13 DEF MultiTypeOK, MultiRecvfrom, EventDone
  <2>5. MultiTypeOK'
    BY <1>1, <1>2, <1>13, <2>2, <2>3, <2>4 DEF MultiTypeOK, MultiRecvfrom
  <2>6. ReportedIsThere'
    BY <1>1, <1>13, <2>4 DEF ReportedIsThere, MultiRecvfrom
  <2> QED BY <2>5, <2>6 DEF MultiInv
<1> QED
  BY <1>3, <1>4, <1>5, <1>6, <1>7, <1>8, <1>9, <1>10, <1>11, <1>12, <1>13
  DEF MultiNext, MultiStep, CallerStep

(* The inductive invariant of the multiprotocol server.                    *)
THEOREM MultiInvariance == Spec => []MultiInv
<1>1. Init => MultiInv
  BY MultiStart DEF Init
<1>2. [Next]_vars => [MultiNext]_multiVars
  BY DEF Next, vars
<1> QED BY <1>1, <1>2, MultiKeeps, PTL DEF Spec

(* A connection is closed after its answer, or after its client is gone.   *)
ClosedAnswered == \A c \in closed : c \in salut \/ caller[c] = "killed"

In(s, c) == \E i \in DOMAIN s : s[i] = c

(* CallersKept, for one client.                                            *)
Kept(c) ==
  /\ caller[c] \in {"write", "read"} =>
       \/ In(tcpBacklog, c)
       \/ multi = "read" /\ client_fd = c
       \/ c \in salut
  /\ caller[c] \in {"send", "recv", "done"} => c \in greeted
  /\ caller[c] = "recv" => In(udpBuffer, c) \/ c \in hiAnswered \union hiDropped

LEMMA InAppend ==
  ASSUME NEW S, NEW s \in Seq(S), NEW e \in S
  PROVE  In(Append(s, e), e) /\ \A c : In(s, c) => In(Append(s, e), c)
<1>1. /\ Append(s, e) \in Seq(S) /\ Len(Append(s, e)) = Len(s) + 1 /\ Len(s) \in Nat
      /\ Append(s, e)[Len(s) + 1] = e
      /\ \A i \in 1 .. Len(s) : Append(s, e)[i] = s[i]
  OBVIOUS
<1>2. DOMAIN Append(s, e) = 1 .. Len(s) + 1 /\ DOMAIN s = 1 .. Len(s)
  BY <1>1
<1>3. Len(s) + 1 \in 1 .. Len(s) + 1 /\ \A i \in 1 .. Len(s) : i \in 1 .. Len(s) + 1
  BY <1>1
<1> QED BY <1>1, <1>2, <1>3 DEF In

LEMMA InTail ==
  ASSUME NEW S, NEW s \in Seq(S), s # <<>>, NEW c, In(s, c)
  PROVE  c = Head(s) \/ In(Tail(s), c)
<1>1. PICK i \in 1 .. Len(s) : s[i] = c
  BY DEF In
<1>2. CASE i = 1
  BY <1>1, <1>2
<1>3. CASE i # 1
  <2>1. i - 1 \in 1 .. Len(Tail(s)) /\ Tail(s)[i - 1] = s[i]
    BY <1>3
  <2>2. DOMAIN Tail(s) = 1 .. Len(Tail(s))
    OBVIOUS
  <2> QED BY <2>1, <2>2, <1>1 DEF In
<1> QED BY <1>2, <1>3

LEMMA KeptStart == MultiInit => ClosedAnswered /\ \A c \in Callers : Kept(c)
BY DEF MultiInit, ClosedAnswered, Kept

LEMMA KeptStep ==
  ASSUME MultiInv, ClosedAnswered, \A c \in Callers : Kept(c), [MultiNext]_multiVars
  PROVE  ClosedAnswered' /\ \A c \in Callers : Kept(c)'
<1> USE DEF serverVars, socketVars
<1>1. MultiTypeOK /\ ReportedIsThere
  BY DEF MultiInv
<1>2. /\ closed \subseteq Callers /\ tcpBacklog \in Seq(Callers) /\ udpBuffer \in Seq(Callers)
      /\ DOMAIN caller = Callers
  BY <1>1 DEF MultiTypeOK
<1>3. CASE UNCHANGED multiVars
  BY <1>3 DEF multiVars, ClosedAnswered, Kept
<1>4. ASSUME NEW c \in Callers, CallerConnect(c) PROVE ClosedAnswered' /\ \A d \in Callers : Kept(d)'
  <2>1. In(tcpBacklog, c)' /\ \A d : In(tcpBacklog, d) => In(tcpBacklog, d)'
    <3>1. tcpBacklog' = Append(tcpBacklog, c)
      BY <1>4 DEF CallerConnect
    <3> QED BY <3>1, <1>2, InAppend
  <2>2. caller[c] = "off" /\ caller' = [caller EXCEPT ![c] = "write"]
    BY <1>4 DEF CallerConnect, Goto
  <2>3. /\ UNCHANGED <<multi, client_fd, udpBuffer, salut, closed, hiAnswered, hiDropped, greeted>>
    BY <1>4 DEF CallerConnect
  <2>4. In(udpBuffer, c)' = In(udpBuffer, c) /\ \A d : In(udpBuffer, d)' = In(udpBuffer, d)
    BY <2>3 DEF In
  <2>5. ClosedAnswered'
    BY <2>2, <2>3, <1>2 DEF ClosedAnswered
  <2> QED BY <2>1, <2>2, <2>3, <2>4, <2>5, <1>2 DEF Kept
<1>5. ASSUME NEW c \in Callers, CallerWrite(c) PROVE ClosedAnswered' /\ \A d \in Callers : Kept(d)'
  <2>1. caller[c] = "write" /\ caller' = [caller EXCEPT ![c] = "read"]
    BY <1>5 DEF CallerWrite, Goto
  <2>2. UNCHANGED <<multi, client_fd, tcpBacklog, udpBuffer, salut, closed, hiAnswered, hiDropped,
                    greeted>>
    BY <1>5 DEF CallerWrite
  <2> QED BY <2>1, <2>2, <1>2 DEF Kept, ClosedAnswered, In
<1>6. ASSUME NEW c \in Callers, CallerRead(c) PROVE ClosedAnswered' /\ \A d \in Callers : Kept(d)'
  <2>1. /\ caller[c] = "read" /\ caller' = [caller EXCEPT ![c] = "send"]
        /\ c \in salut \union closed /\ greeted' = greeted \union ({c} \intersect salut)
    BY <1>6 DEF CallerRead, Goto
  <2>2. UNCHANGED <<multi, client_fd, tcpBacklog, udpBuffer, salut, closed, hiAnswered, hiDropped>>
    BY <1>6 DEF CallerRead
  <2>3. c \in salut
    BY <2>1 DEF ClosedAnswered
  <2> QED BY <2>1, <2>2, <2>3, <1>2 DEF Kept, ClosedAnswered, In
<1>7. ASSUME NEW c \in Callers, CallerSend(c) PROVE ClosedAnswered' /\ \A d \in Callers : Kept(d)'
  <2>1. caller[c] = "send" /\ caller' = [caller EXCEPT ![c] = "recv"]
    BY <1>7 DEF CallerSend, Goto
  <2>2. UNCHANGED <<multi, client_fd, tcpBacklog, salut, closed, hiAnswered, greeted>>
    BY <1>7 DEF CallerSend
  <2>3. /\ In(udpBuffer, c)' \/ c \in hiDropped'
        /\ \A d : In(udpBuffer, d) => In(udpBuffer, d)'
        /\ hiDropped \subseteq hiDropped'
    <3>1. CASE Len(udpBuffer) < UdpSize
      <4>1. udpBuffer' = Append(udpBuffer, c) /\ hiDropped' = hiDropped
        BY <3>1, <1>7 DEF CallerSend
      <4> QED BY <4>1, <1>2, InAppend
    <3>2. CASE ~(Len(udpBuffer) < UdpSize)
      BY <3>2, <1>7 DEF CallerSend, In
    <3> QED BY <3>1, <3>2
  <2>4. \A d : In(tcpBacklog, d)' = In(tcpBacklog, d)
    BY <2>2 DEF In
  <2>5. ClosedAnswered'
    BY <2>1, <2>2, <1>2 DEF ClosedAnswered
  <2> QED BY <2>1, <2>2, <2>3, <2>4, <2>5, <1>2 DEF Kept
<1>8. ASSUME NEW c \in Callers, CallerRecv(c) PROVE ClosedAnswered' /\ \A d \in Callers : Kept(d)'
  <2>1. caller[c] = "recv" /\ caller' = [caller EXCEPT ![c] = "done"]
    BY <1>8 DEF CallerRecv, Goto
  <2>2. UNCHANGED <<multi, client_fd, tcpBacklog, udpBuffer, salut, closed, hiAnswered, hiDropped,
                    greeted>>
    BY <1>8 DEF CallerRecv
  <2> QED BY <2>1, <2>2, <1>2 DEF Kept, ClosedAnswered, In
<1>9. ASSUME NEW c \in Callers, HangUpCaller(c) PROVE ClosedAnswered' /\ \A d \in Callers : Kept(d)'
  <2>1. caller' = [caller EXCEPT ![c] = "killed"]
    BY <1>9 DEF HangUpCaller
  <2>2. UNCHANGED <<multi, client_fd, tcpBacklog, udpBuffer, salut, closed, hiAnswered, hiDropped,
                    greeted>>
    BY <1>9 DEF HangUpCaller
  <2> QED BY <2>1, <2>2, <1>2 DEF Kept, ClosedAnswered, In
<1>10. CASE EpollWait
  BY <1>10 DEF EpollWait, Kept, ClosedAnswered, In
<1>11. CASE MultiAccept
  <2>1. /\ multi' = "read" /\ client_fd' = Head(tcpBacklog) /\ tcpBacklog' = Tail(tcpBacklog)
        /\ tcpBacklog # <<>> /\ multi # "read"
    BY <1>1, <1>11 DEF MultiAccept, ReportedIsThere
  <2>2. UNCHANGED <<udpBuffer, salut, closed, hiAnswered, hiDropped, greeted, caller>>
    BY <1>11 DEF MultiAccept
  <2>3. \A d : In(tcpBacklog, d) => d = client_fd' \/ In(tcpBacklog, d)'
    BY <2>1, <1>2, InTail
  <2>4. \A d : In(udpBuffer, d)' = In(udpBuffer, d)
    BY <2>2 DEF In
  <2> QED BY <2>1, <2>2, <2>3, <2>4 DEF Kept, ClosedAnswered
<1>12. CASE MultiRead
  <2>1. /\ client_fd \in hello \/ caller[client_fd] = "killed"
        /\ salut' = salut \union ({client_fd} \intersect hello)
        /\ closed' = closed \union {client_fd}
    BY <1>12 DEF MultiRead
  <2>2. UNCHANGED <<tcpBacklog, udpBuffer, hiAnswered, hiDropped, greeted, caller>>
    BY <1>12 DEF MultiRead
  <2>3. \A d : In(udpBuffer, d)' = In(udpBuffer, d) /\ In(tcpBacklog, d)' = In(tcpBacklog, d)
    BY <2>2 DEF In
  <2>4. ClosedAnswered'
    BY <2>1, <2>2 DEF ClosedAnswered
  <2>5. ASSUME NEW d \in Callers PROVE Kept(d)'
    <3>1. caller[d] \in {"write", "read"} /\ client_fd = d => d \in salut'
      BY <2>1
    <3> QED BY <3>1, <2>1, <2>2, <2>3 DEF Kept
  <2> QED BY <2>4, <2>5
<1>13. CASE MultiRecvfrom
  <2>1. /\ hiAnswered' = hiAnswered \union {Head(udpBuffer)} /\ udpBuffer' = Tail(udpBuffer)
        /\ udpBuffer # <<>> /\ multi = "events"
    BY <1>1, <1>13 DEF MultiRecvfrom, ReportedIsThere
  <2>2. UNCHANGED <<tcpBacklog, salut, closed, hiDropped, greeted, caller>>
    BY <1>13 DEF MultiRecvfrom
  <2>3. \A d : In(udpBuffer, d) => d \in hiAnswered' \/ In(udpBuffer, d)'
    BY <2>1, <1>2, InTail
  <2>4. \A d : In(tcpBacklog, d)' = In(tcpBacklog, d)
    BY <2>2 DEF In
  <2>5. ASSUME NEW d \in Callers PROVE Kept(d)'
    BY <2>1, <2>2, <2>3, <2>4 DEF Kept
  <2> QED BY <2>2, <2>5 DEF ClosedAnswered
<1> QED
  BY <1>3, <1>4, <1>5, <1>6, <1>7, <1>8, <1>9, <1>10, <1>11, <1>12, <1>13
  DEF MultiNext, MultiStep, CallerStep

(* The server and its sockets lose no client that lives, and none is       *)
(* turned away unanswered.                                                 *)
THEOREM NoCallerLost == Spec => []CallersKept
<1> DEFINE KeptInv == ClosedAnswered /\ \A c \in Callers : Kept(c)
<1>1. Init => KeptInv
  BY KeptStart DEF Init
<1>2. [Next]_vars => [MultiNext]_multiVars
  BY DEF Next, vars
<1>3. MultiInv /\ KeptInv /\ [MultiNext]_multiVars => KeptInv'
  BY KeptStep
<1>4. KeptInv => CallersKept
  BY DEF Kept, In, CallersKept
<1> HIDE DEF KeptInv
<1> QED BY <1>1, <1>2, <1>3, <1>4, MultiInvariance, PTL DEF Spec

-----------------------------------------------------------------------------
(* The invariant of DriverCli holds where the CLI is the program run.      *)
THEOREM DriversInvariance == Spec => []DriverInv
<1>1. Init => DriverInv
  BY DriverStart DEF Init
<1>2. [Next]_vars => [DriverNext]_driverVars
  BY DEF Next, vars
<1>3. DriverInv /\ [DriverNext]_driverVars => DriverInv'
  BY DriverKeeps
<1> QED BY <1>1, <1>2, <1>3, PTL DEF Spec

(* Every variable of the seven programs keeps its type.                    *)
THEOREM ExercisesTypes == Spec => []TypeOK
<1>1. /\ ShopsInv /\ BooksInv /\ ShellInv /\ MultiInv /\ DeviceInv /\ ManagerInv
      /\ DriverInv
      => TypeOK
  BY DEF TypeOK, ShopsInv, BooksInv, ShellInv, MultiInv, DeviceInv, ManagerInv, DriverInv
<1> QED BY <1>1, ShopsInvariance, BooksInvariance, ShellInvariance, MultiInvariance,
           DeviceInvariance, ManagerInvariance, DriversInvariance, PTL
=============================================================================
