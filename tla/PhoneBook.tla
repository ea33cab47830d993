----------------------------- MODULE PhoneBook -----------------------------
(***************************************************************************)
(* What the phone books of hw4, hw5 and hw6 promise to their user: a       *)
(* sequence of records, numbered from 1, to which records are added at the *)
(* end, from which they are deleted by number, and which is searched by    *)
(* name and listed.  shown is what the last command lists.                 *)
(***************************************************************************)
EXTENDS Integers, Sequences, SequencesExt

VARIABLES book, shown

bookVars == <<book, shown>>

Numbered == [n \in DOMAIN book |-> <<n, book[n]>>]

BookInit == book = <<>> /\ shown = <<>>

AddRecord(r) == book' = Append(book, r) /\ shown' = <<>>

DeleteRecord(n) ==
  /\ book' = IF n \in DOMAIN book THEN RemoveAt(book, n) ELSE book
  /\ shown' = <<>>

FindRecords(name) ==
  /\ shown' = SelectSeq(Numbered, LAMBDA entry : entry[2].name = name)
  /\ UNCHANGED book

ListRecords == shown' = Numbered /\ UNCHANGED book

LeaveBook == shown' = <<>> /\ UNCHANGED book
============================================================================
