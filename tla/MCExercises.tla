---------------------------- MODULE MCExercises ----------------------------
(* Exercises with: two buyers in two shops whose stocks are smaller than   *)
(* the demands; an array of three slots and one list cell more, two of the *)
(* records with one name; three children and two pipes for the shell; three *)
(* clients of the multiprotocol server; two processes at the device; the   *)
(* tree of MCFileManager for the file manager; and two drivers, whose      *)
(* connections can share an edge.                                          *)
EXTENDS Exercises

CONSTANTS b1, b2, x1, x2, x3, x4, k1, k2, k3, p1, p2, d1, d2

MCBuyers == {b1, b2}
MCStock == {0, 1}
MCDemand == {3}

MCCells == {x1, x2, x3, x4}
MCRecords == {[name |-> "anna", tel |-> 1], [name |-> "anna", tel |-> 2],
              [name |-> "oleg", tel |-> 1]}
MCBlank == [name |-> "", tel |-> 0]
MCGarbage == [name |-> "?", tel |-> 0]

MCCallers == {k1, k2, k3}
MCOpeners == {p1, p2}

MCDirs == {"/", "/a", "/a/x", "/b"}
MCParent == [d \in MCDirs |-> IF d = "/a/x" THEN "/a" ELSE "/"]
MCContents == [d \in MCDirs |-> CASE d = "/"    -> <<"..", "/a", "/b", "f">>
                                  [] d = "/a"   -> <<"..", "/a/x", "f">>
                                  [] d = "/a/x" -> <<"..", "f", "g">>
                                  [] d = "/b"   -> <<"..">>]

MCDrivers == {d1, d2}
MCTimers == {1}
============================================================================
