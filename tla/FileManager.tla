---------------------------- MODULE FileManager ----------------------------
(***************************************************************************)
(* The file manager with two panels (hw9_vfs/file_manager).  A panel shows *)
(* Visible lines of the directory at path, from start_line on, with one    *)
(* entry selected; the arrows move the selection, Enter opens a directory, *)
(* Tab changes the panel.                                                  *)
(*                                                                         *)
(* The tree of directories is a constant: Contents gives the entries of a   *)
(* directory in the order of compare_entries (a directory stands for its   *)
(* name), Parent the directory "..".  realpath and opendir may fail.       *)
(* Memory that is used uninitialised: count, selected and start_line of    *)
(* the panels at the start, and newpath in update_path, which may still    *)
(* hold what the last call formatted there.                                *)
(***************************************************************************)
EXTENDS Integers, Sequences, FiniteSets

CONSTANTS Dirs, Root, Parent, Contents,
          Up,           \* the entry ".."
          Visible,      \* max_visible: lines of a panel
          MaxMishaps    \* bound: paths too long, and failed calls of realpath or opendir

ASSUME ManagerAssumption ==
  /\ Root \in Dirs /\ Up \notin Dirs /\ Parent \in [Dirs -> Dirs] /\ Parent[Root] = Root
  /\ \A d \in Dirs : Len(Contents[d]) \in Nat \ {0}        \* ".." at least
  /\ Visible \in Nat \ {0} /\ MaxMishaps \in Nat

Panels == 0 .. 1        \* left, right

VARIABLES manager,      \* "start", "running", "quit" or "crashed"
          active, panel,
          newpath,      \* what update_path has left on the stack, Root for nothing
          mishaps, unopened     \* these so far; panels whose opendir failed last

managerVars == <<manager, active, panel, newpath, mishaps, unopened>>

ManagerInit ==
  /\ manager = "start" /\ active = 0
  /\ panel = [p \in Panels |-> [path |-> Root, files |-> <<>>, selected |-> 0, start_line |-> 0]]
  /\ newpath = Root /\ mishaps = 0 /\ unopened = {}

IsDir(entry) == entry \in Dirs \union {Up}

\* load_directory; when opendir fails only count is set.
load_directory(fl, opened) ==
  IF opened THEN [fl EXCEPT !.files = Contents[fl.path], !.selected = 0, !.start_line = 0]
            ELSE [fl EXCEPT !.files = <<>>]

\* draw_filelist after every key: with a negative start_line it reads in
\* front of the array, which may end the program.
Draw(panels) ==
  manager' \in {"running"} \union (IF \E p \in Panels : panels[p].start_line < 0
                                   THEN {"crashed"} ELSE {})

\* The panels start in the working directory and above it, or in the root where
\* realpath fails.  The first load_directory frees as many names as its uninitialised count says; where
\* opendir fails, selected and start_line stay uninitialised.
Launch ==
  /\ manager = "start" /\ manager' \in {"running", "crashed"}
  /\ unopened' \in SUBSET Panels
  /\ \E cwd \in Dirs, stack \in -1 .. 0, unresolved \in SUBSET Panels :
       /\ mishaps' = Cardinality(unopened') + Cardinality(unresolved)
       /\ mishaps' <= MaxMishaps
       /\ panel' = [p \in Panels |->
            load_directory([path |-> IF p \in unresolved THEN Root
                                     ELSE IF p = 0 THEN cwd ELSE Parent[cwd],
                            files |-> <<>>, selected |-> stack, start_line |-> stack],
                           p \notin unopened')]
  /\ UNCHANGED <<active, newpath>>

Tab ==
  /\ manager = "running"
  /\ active' = 1 - active
  /\ Draw(panel)
  /\ UNCHANGED <<panel, newpath, mishaps, unopened>>

\* Mutation: the last visible line is counted twice.
move_selection_late(fl, delta) ==
  LET target == IF fl.selected + delta < 0 THEN 0 ELSE fl.selected + delta
      new_sel == IF target >= Len(fl.files) THEN Len(fl.files) - 1 ELSE target
  IN  [fl EXCEPT !.selected = new_sel,
                 !.start_line = IF new_sel < @ THEN new_sel
                                ELSE IF new_sel > @ + Visible THEN new_sel - Visible + 1
                                ELSE @]

\* In an empty list the selection becomes -1, and so does start_line.
move_selection(fl, delta) ==
  LET target == IF fl.selected + delta < 0 THEN 0 ELSE fl.selected + delta
      new_sel == IF target >= Len(fl.files) THEN Len(fl.files) - 1 ELSE target
  IN  [fl EXCEPT !.selected = new_sel,
                 !.start_line = IF new_sel < @ THEN new_sel
                                ELSE IF new_sel >= @ + Visible THEN new_sel - Visible + 1
                                ELSE @]

Arrow ==
  /\ manager = "running"
  /\ \E delta \in {-1, 1} : panel' = [panel EXCEPT ![active] = move_selection(@, delta)]
  /\ Draw(panel')
  /\ UNCHANGED <<active, newpath, mishaps, unopened>>

\* One level below the root ".." cuts path in place and leaves newpath alone.
CutsInPlace(path, entry) == entry = Up /\ path # Root /\ Parent[path] = Root

\* What update_path leaves in newpath: the old path if the new one does not fit.
Formatted(path, entry, fits) ==
  IF CutsInPlace(path, entry) THEN newpath
  ELSE IF entry = Up THEN Parent[path]
  ELSE IF fits THEN entry ELSE path

\* What it leaves in path: realpath of newpath, if that can be resolved.  What
\* was in newpath before may have been overwritten by other calls.
update_path(path, entry, fits, resolved) ==
  IF CutsInPlace(path, entry) THEN {Root} \union (IF resolved THEN {newpath} ELSE {})
  ELSE {IF resolved THEN Formatted(path, entry, fits) ELSE path}

\* Enter on a directory: update_path and load_directory.
Enter ==
  /\ manager = "running"
  /\ LET fl == panel[active]
         entry == fl.files[fl.selected + 1]
     IN  /\ fl.files # <<>> /\ IsDir(entry)
         /\ \E fits, resolved, opened \in BOOLEAN :
              /\ ~fits \/ ~resolved \/ ~opened => mishaps < MaxMishaps
              /\ mishaps' = IF fits /\ resolved /\ opened THEN mishaps ELSE mishaps + 1
              /\ newpath' = Formatted(fl.path, entry, fits)
              /\ \E path \in update_path(fl.path, entry, fits, resolved) :
                   panel' = [panel EXCEPT ![active] =
                               load_directory([fl EXCEPT !.path = path], opened)]
              /\ unopened' = IF opened THEN unopened \ {active} ELSE unopened \union {active}
  /\ Draw(panel')
  /\ UNCHANGED active

Quit ==
  /\ manager = "running" /\ manager' = "quit"
  /\ panel' = [p \in Panels |-> [panel[p] EXCEPT !.files = <<>>]]       \* free_files
  /\ UNCHANGED <<active, newpath, mishaps, unopened>>

ManagerNext == Launch \/ Tab \/ Arrow \/ Enter \/ Quit

ManagerSpec == ManagerInit /\ [][ManagerNext]_managerVars

-----------------------------------------------------------------------------
(* Properties.                                                             *)

(* Every variable has its type.                                            *)
ManagerTypeOK ==
  /\ manager \in {"start", "running", "quit", "crashed"} /\ active \in Panels
  /\ \A p \in Panels : /\ panel[p].path \in Dirs
                       /\ panel[p].files \in {<<>>, Contents[panel[p].path]}
                       /\ panel[p].selected \in Int /\ panel[p].start_line \in Int
  /\ newpath \in Dirs /\ mishaps \in 0 .. MaxMishaps /\ unopened \subseteq Panels

(* While there are entries the selection is one of them and on the screen, *)
(* however the arrows, Enter and Tab alternate and whatever was selected   *)
(* in the directory shown before; a panel loses its entries, and its lines *)
(* start in front of the array, only when opendir has failed.              *)
SelectionOnScreen ==
  manager = "running" =>
    \A p \in Panels :
      LET fl == panel[p]
      IN  IF fl.files = <<>> THEN p \in unopened
          ELSE /\ 0 <= fl.start_line /\ fl.start_line <= fl.selected
               /\ fl.selected < Len(fl.files) /\ fl.selected < fl.start_line + Visible

(* Enter on ".." leads to the parent of the directory, to the root if the  *)
(* directory lies in it, as long as realpath does not fail.                *)
UpLeadsToParent ==
  [][LET fl == panel[active]
     IN  Enter /\ mishaps' = mishaps /\ fl.files[fl.selected + 1] = Up =>
           panel'[active].path = Parent[fl.path]]_managerVars
============================================================================
