--------------------------- MODULE MCFileManager ---------------------------
(* FileManager on a tree of four directories, two of them in the root, in  *)
(* panels of two lines.                                                    *)
EXTENDS FileManager

MCDirs == {"/", "/a", "/a/x", "/b"}
MCParent == [d \in MCDirs |-> IF d = "/a/x" THEN "/a" ELSE "/"]
MCContents == [d \in MCDirs |-> CASE d = "/"    -> <<"..", "/a", "/b", "f">>
                                 [] d = "/a"   -> <<"..", "/a/x", "f">>
                                 [] d = "/a/x" -> <<"..", "f", "g">>
                                 [] d = "/b"   -> <<"..">>]
============================================================================
