---------------------------- MODULE AbonentList ----------------------------
(***************************************************************************)
(* The phone book in a doubly linked list (hw6/struct.c).  Cells is the    *)
(* memory malloc hands out; a cell that is not allocated holds nothing     *)
(* (data None, pointers NULL), and AllocatedIsReachable shows that none is *)
(* read.  listed is what the last command lists.                           *)
(***************************************************************************)
EXTENDS Integers, Sequences, FiniteSets

CONSTANTS Cells,
          NULL,
          None          \* the data of a cell that is not allocated

VARIABLES head, next, prev, data,
          allocated,    \* the cells malloc has handed out and free not taken
          listed

listVars == <<head, next, prev, data, allocated, listed>>

ListInit == /\ head = NULL /\ allocated = {} /\ listed = <<>>
            /\ next = [x \in Cells |-> NULL] /\ prev = [x \in Cells |-> NULL]
            /\ data = [x \in Cells |-> None]

\* The node a walk along next reaches as its n-th, NULL past the end.
NodeAt ==
  LET at[n \in 1 .. Cardinality(Cells) + 1] ==
        IF n = 1 THEN head
        ELSE IF at[n - 1] = NULL THEN NULL ELSE next[at[n - 1]]
  IN  at

Numbers == {n \in DOMAIN NodeAt : NodeAt[n] # NULL}

Nodes == {NodeAt[n] : n \in Numbers}

Listing == [n \in 1 .. Cardinality(Numbers) |-> <<n, data[NodeAt[n]]>>]

\* free: the cell is malloc's again.
Free(freed, nextNow, prevNow) ==
  /\ allocated' = allocated \ freed
  /\ next' = [x \in Cells |-> IF x \in freed THEN NULL ELSE nextNow[x]]
  /\ prev' = [x \in Cells |-> IF x \in freed THEN NULL ELSE prevNow[x]]
  /\ data' = [x \in Cells |-> IF x \in freed THEN None ELSE data[x]]

\* CreateNode fills a cell; Append hangs it behind the last node.
AppendNode(r) ==
  /\ \E new_node \in Cells \ allocated :
       /\ allocated' = allocated \union {new_node}
       /\ data' = [data EXCEPT ![new_node] = r]
       /\ IF head = NULL
          THEN /\ head' = new_node
               /\ next' = [next EXCEPT ![new_node] = NULL]
               /\ prev' = [prev EXCEPT ![new_node] = NULL]
          ELSE LET last_node == NodeAt[Cardinality(Numbers)]
               IN  /\ next' = [next EXCEPT ![new_node] = NULL, ![last_node] = new_node]
                   /\ prev' = [prev EXCEPT ![new_node] = last_node]
                   /\ UNCHANGED head
  /\ listed' = <<>>

Set(f, x, value) == IF x = NULL THEN f ELSE [f EXCEPT ![x] = value]

\* Mutation: the successor keeps its pointer to the deleted node.
UnlinkForward(current) ==
  /\ head' = IF current = head THEN next[current] ELSE head
  /\ Free({current}, Set(next, prev[current], next[current]), prev)

Unlink(current) ==
  IF current = head
  THEN /\ head' = next[current]
       /\ Free({current}, next, Set(prev, next[current], NULL))
  ELSE /\ UNCHANGED head
       /\ Free({current}, Set(next, prev[current], next[current]),
                          Set(prev, next[current], prev[current]))

DeleteAbonent(index) ==
  /\ IF index \in Numbers THEN Unlink(NodeAt[index])
     ELSE UNCHANGED <<head, next, prev, data, allocated>>
  /\ listed' = <<>>

SearchByName(name) ==
  /\ listed' = SelectSeq(Listing, LAMBDA entry : entry[2].name = name)
  /\ UNCHANGED <<head, next, prev, data, allocated>>

ShowAll == listed' = Listing /\ UNCHANGED <<head, next, prev, data, allocated>>

\* FreeList frees every node; the program ends.
ExitProgram ==
  /\ Free(Nodes, next, prev)
  /\ head' = NULL
  /\ listed' = <<>>
============================================================================
