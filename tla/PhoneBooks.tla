----------------------------- MODULE PhoneBooks -----------------------------
(***************************************************************************)
(* The array (hw4, hw5) and the list (hw6) side by side with the reference *)
(* PhoneBook: one user types the same commands into all three.  The        *)
(* comparison ends when a program does: by command, when malloc fails in   *)
(* the list, and when the array refuses a record.                          *)
(***************************************************************************)
EXTENDS PhoneBook, CallBook, AbonentList

CONSTANTS Records,      \* what the user enters: records with a name
          Unheard       \* a name nobody in the book has

VARIABLE ended          \* "no", or how the comparison ended

booksVars == <<bookVars, callVars, listVars, ended>>

ASSUME PhoneBooksAssumption ==
  /\ Size \in Nat \ {0} /\ IsFiniteSet(Cells) /\ NULL \notin Cells
  /\ Blank \notin Records /\ Garbage \notin Records /\ None \notin Records

BooksInit == BookInit /\ CallInit /\ ListInit /\ ended = "no"

Add(r) == /\ ended = "no"
          /\ AddRecord(r) /\ addAbonent(r) /\ AppendNode(r)
          /\ ended' = IF count' = count THEN "refused" ELSE "no"

\* CreateNode ends the program when malloc fails.
AddFails == /\ ended = "no"
            /\ ended' = "failed"
            /\ UNCHANGED <<bookVars, callVars, listVars>>

Delete(n) == /\ ended = "no"
             /\ DeleteRecord(n) /\ deleteAbonent(n) /\ DeleteAbonent(n)
             /\ UNCHANGED ended

Find(name) == /\ ended = "no"
              /\ FindRecords(name) /\ findAbonent(name) /\ SearchByName(name)
              /\ UNCHANGED ended

Show == /\ ended = "no"
        /\ ListRecords /\ showAllAbonent /\ ShowAll
        /\ UNCHANGED ended

Exit == /\ ended = "no"
        /\ LeaveBook /\ exitBook /\ ExitProgram
        /\ ended' = "exit"

BooksNext == \/ \E r \in Records : Add(r)
        \/ AddFails
        \/ \E n \in 0 .. Size + 1 : Delete(n)
        \/ \E name \in {r.name : r \in Records} \union {Unheard} : Find(name)
        \/ Show
        \/ Exit

-----------------------------------------------------------------------------
(* Properties.                                                             *)

(* Every variable has its type: count never passes the end of the array.   *)
BooksTypeOK ==
  /\ book \in Seq(Records)
  /\ call_book \in [Slots -> Records \union {Blank, Garbage}]
  /\ count \in 0 .. Size
  /\ head \in Cells \union {NULL} /\ allocated \subseteq Cells
  /\ next \in [Cells -> Cells \union {NULL}] /\ prev \in [Cells -> Cells \union {NULL}]
  /\ data \in [Cells -> Records \union {None}]
  /\ ended \in {"no", "exit", "failed", "refused"}

(* The array and the list hold the book, in its order, and list what the   *)
(* book lists: neither what deleteAbonent reads behind a full array nor    *)
(* what a slot held before ever becomes an entry, whichever nodes were     *)
(* deleted before and whichever cells malloc reuses; a record is refused   *)
(* only when Size are there.                                               *)
BooksAgree ==
  /\ printed = shown /\ listed = shown
  /\ count = IF ended = "refused" THEN Size ELSE Len(book)
  /\ Len(book) <= Size + 1
  /\ \A n \in 1 .. count : call_book[n - 1] = book[n]
  /\ ended # "exit" => Listing = Numbered

(* prev undoes next, the nodes are exactly the allocated cells, so that    *)
(* nothing is lost and no pointer leads to a freed cell, and ExitProgram   *)
(* leaves no cell behind.                                                  *)
AllocatedIsReachable ==
  /\ Nodes = allocated
  /\ Cardinality(Nodes) = Cardinality(Numbers)
  /\ head # NULL => prev[head] = NULL
  /\ \A x \in allocated : /\ next[x] \in allocated \union {NULL}
                          /\ next[x] # NULL => prev[next[x]] = x
  /\ ended = "exit" => allocated = {}
=============================================================================
