------------------------------ MODULE CallBook ------------------------------
(***************************************************************************)
(* The phone book in an array (hw5/func.c, and hw4/hw4.c, where the same   *)
(* code stands in main): call_book has Size slots, of which the first      *)
(* count are the book.  A record is a name and the rest of the entry;      *)
(* words are short enough for their fields.  printed is what the last      *)
(* command lists.                                                          *)
(***************************************************************************)
EXTENDS Integers, Sequences

CONSTANTS Size,         \* 100
          Blank,        \* a slot of zero bytes
          Garbage       \* what an uninitialised slot, or the memory behind
                        \* the array, holds

VARIABLES call_book, count, printed

callVars == <<call_book, count, printed>>

Slots == 0 .. Size - 1

\* A static array in hw5, an automatic one in hw4.
CallInit == /\ \E fill \in {Blank, Garbage} : call_book = [i \in Slots |-> fill]
            /\ count = 0 /\ printed = <<>>

\* The first count slots, with the numbers they are printed with.
Entries == [n \in 1 .. count |-> <<n, call_book[n - 1]>>]

\* Mutation: the test allows one record too many.
FullLate == count > Size

Full == count >= Size

addAbonent(r) ==
  /\ IF Full THEN UNCHANGED <<call_book, count>>
     ELSE /\ call_book' = [call_book EXCEPT ![count] = r]
          /\ count' = count + 1
  /\ printed' = <<>>

\* Mutation: the records are shifted from the wrong slot on.
ShiftedLate(n) ==
  LET cleared == [call_book EXCEPT ![n - 1] = Blank]
  IN  [i \in Slots |-> IF i \notin n .. count - 1 THEN cleared[i]
                       ELSE IF i + 1 \in Slots THEN cleared[i + 1] ELSE Garbage]

\* Slot n - 1 is cleared, then every slot up to count - 1 gets its
\* successor: for a full book that of the last slot lies behind the array.
Shifted(n) ==
  LET cleared == [call_book EXCEPT ![n - 1] = Blank]
  IN  [i \in Slots |-> IF i \notin n - 1 .. count - 1 THEN cleared[i]
                       ELSE IF i + 1 \in Slots THEN cleared[i + 1] ELSE Garbage]

deleteAbonent(n) ==
  /\ IF n <= 0 \/ n > count THEN UNCHANGED <<call_book, count>>
     ELSE call_book' = Shifted(n) /\ count' = count - 1
  /\ printed' = <<>>

\* searchName compares character by character to the end of both names.
searchName(name, entry) == entry[2].name = name

findAbonent(name) ==
  /\ printed' = SelectSeq(Entries, LAMBDA entry : searchName(name, entry))
  /\ UNCHANGED <<call_book, count>>

showAllAbonent == printed' = Entries /\ UNCHANGED <<call_book, count>>

exitBook == printed' = <<>> /\ UNCHANGED <<call_book, count>>
=============================================================================
