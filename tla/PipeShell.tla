----------------------------- MODULE PipeShell -----------------------------
(***************************************************************************)
(* The shell with one pipe (hw12_pipe/part3/main.c); the branch for a      *)
(* command without '|' is the whole of the shell of hw10_proc/p3_bash.     *)
(* The shell forks the command on the left, the command on the right,      *)
(* closes its two ends of the pipe and waits for both; for a plain command *)
(* it calls wait(NULL), which takes any child.                             *)
(*                                                                         *)
(* A pipe has a reader until every process that inherited its read end has *)
(* closed it, and a writer likewise: readers and writers are those sets    *)
(* (0 is the shell, the others its children, numbered as they are forked). *)
(* A fork that fails leaves both ends open in the shell.  What a command   *)
(* does is its ends of the pipe: the left one writes, the right one reads  *)
(* to the end or stops before, a plain one ends some time.                 *)
(***************************************************************************)
EXTENDS Integers, FiniteSets

CONSTANTS MaxForks,     \* bound: children
          MaxPipes,     \* bound: pipes
          MaxFailures,  \* bound: forks that fail
          MaxData,      \* bound: what a command writes
          PipeSize      \* what a pipe holds

ASSUME ShellAssumption ==
  /\ MaxForks \in Nat \ {0} /\ MaxPipes \in Nat \ {0} /\ MaxFailures \in Nat
  /\ MaxData \in Nat /\ PipeSize \in Nat \ {0}

VARIABLES shell,            \* the shell's program point
          child_pid1, child_pid2,
          forks, pipes,     \* children and pipes so far; the last pipe is fd
          failures,
          process, role, via, todo,     \* per child: state, side, pipe, data to write
          writers, readers, fill,       \* per pipe
          strays            \* observer: second forks that failed

pidVars == <<child_pid1, child_pid2>>
countVars == <<forks, pipes, failures>>
commandVars == <<role, via, todo>>
pipeVars == <<writers, readers, fill>>
shellVars == <<shell, pidVars, countVars, process, commandVars, pipeVars, strays>>

Children == 1 .. MaxForks
Pipes == 1 .. MaxPipes

ShellInit ==
  /\ shell = "prompt" /\ child_pid1 = 0 /\ child_pid2 = 0
  /\ forks = 0 /\ pipes = 0 /\ failures = 0 /\ strays = 0
  /\ process = [k \in Children |-> "unborn"] /\ role = [k \in Children |-> "none"]
  /\ via = [k \in Children |-> 0] /\ todo = [k \in Children |-> 0]
  /\ writers = [p \in Pipes |-> {}] /\ readers = [p \in Pipes |-> {}]
  /\ fill = [p \in Pipes |-> 0]

\* The next child, with copies of all descriptors of the shell.
Inherited(ends) == [p \in Pipes |-> IF 0 \in ends[p] THEN ends[p] \union {forks'} ELSE ends[p]]

Fork(side) ==
  /\ forks < MaxForks /\ forks' = forks + 1
  /\ process' = [process EXCEPT ![forks'] = "forked"]
  /\ role' = [role EXCEPT ![forks'] = side]
  /\ via' = [via EXCEPT ![forks'] = IF side = "plain" THEN 0 ELSE pipes]
  /\ \E n \in 0 .. MaxData : todo' = [todo EXCEPT ![forks'] = IF side = "left" THEN n ELSE 0]
  /\ writers' = Inherited(writers) /\ readers' = Inherited(readers)
  /\ UNCHANGED <<pipes, failures, fill>>

ForkFails ==
  /\ failures < MaxFailures /\ failures' = failures + 1
  /\ UNCHANGED <<forks, pipes, process, commandVars, pipeVars>>

Dropped(ends, x) == [p \in Pipes |-> ends[p] \ {x}]

-----------------------------------------------------------------------------
(* The loop of main.                                                       *)

\* "exit", or the end of the input.
ReadExit ==
  /\ shell = "prompt" /\ shell' = "gone"
  /\ writers' = Dropped(writers, 0) /\ readers' = Dropped(readers, 0)
  /\ UNCHANGED <<pidVars, countVars, process, commandVars, fill, strays>>

\* A plain command.  Only the child is told apart: a failed fork, too, leads
\* to wait(NULL).
ReadPlain ==
  /\ shell = "prompt" /\ shell' = "wait"
  /\ Fork("plain") \/ ForkFails
  /\ UNCHANGED <<pidVars, strays>>

\* The pipe; when pipe() fails the shell is back at its prompt, unchanged.
ReadPipe ==
  /\ shell = "prompt" /\ shell' = "fork1"
  /\ pipes < MaxPipes /\ pipes' = pipes + 1 /\ forks + 2 <= MaxForks
  /\ writers' = [writers EXCEPT ![pipes'] = {0}]
  /\ readers' = [readers EXCEPT ![pipes'] = {0}]
  /\ UNCHANGED <<pidVars, forks, failures, process, commandVars, fill, strays>>

Fork1 ==
  /\ shell = "fork1"
  /\ \/ Fork("left") /\ child_pid1' = forks' /\ shell' = "fork2"
     \/ ForkFails /\ shell' = "prompt" /\ UNCHANGED child_pid1
  /\ UNCHANGED <<child_pid2, strays>>

\* When the second fork fails the first child is left to itself.
Fork2 ==
  /\ shell = "fork2"
  /\ \/ Fork("right") /\ child_pid2' = forks' /\ shell' = "close" /\ UNCHANGED strays
     \/ ForkFails /\ shell' = "prompt" /\ strays' = strays + 1 /\ UNCHANGED child_pid2
  /\ UNCHANGED child_pid1

\* Mutation: the shell keeps its write end.
CloseReadEnd ==
  /\ shell = "close" /\ shell' = "waitpid1"
  /\ readers' = [readers EXCEPT ![pipes] = @ \ {0}]
  /\ UNCHANGED <<pidVars, countVars, process, commandVars, writers, fill, strays>>

CloseEnds ==
  /\ shell = "close" /\ shell' = "waitpid1"
  /\ writers' = [writers EXCEPT ![pipes] = @ \ {0}]
  /\ readers' = [readers EXCEPT ![pipes] = @ \ {0}]
  /\ UNCHANGED <<pidVars, countVars, process, commandVars, fill, strays>>

\* Mutation: the shell waits for the first child only.
WaitFirst ==
  /\ shell = "waitpid1" /\ process[child_pid1] = "zombie"
  /\ process' = [process EXCEPT ![child_pid1] = "reaped"]
  /\ shell' = "prompt"
  /\ UNCHANGED <<pidVars, countVars, commandVars, pipeVars, strays>>

WaitPid1 ==
  /\ shell = "waitpid1" /\ process[child_pid1] = "zombie"
  /\ process' = [process EXCEPT ![child_pid1] = "reaped"]
  /\ shell' = "waitpid2"
  /\ UNCHANGED <<pidVars, countVars, commandVars, pipeVars, strays>>

WaitPid2 ==
  /\ shell = "waitpid2" /\ process[child_pid2] = "zombie"
  /\ process' = [process EXCEPT ![child_pid2] = "reaped"]
  /\ shell' = "prompt"
  /\ UNCHANGED <<pidVars, countVars, commandVars, pipeVars, strays>>

Unreaped == {k \in Children : process[k] \in {"forked", "running", "zombie"}}

\* wait(NULL): any child that has ended, or an error if there is none at all.
WaitAny ==
  /\ shell = "wait" /\ shell' = "prompt"
  /\ \/ Unreaped = {} /\ UNCHANGED process
     \/ \E k \in Children : /\ process[k] = "zombie"
                            /\ process' = [process EXCEPT ![k] = "reaped"]
  /\ UNCHANGED <<pidVars, countVars, commandVars, pipeVars, strays>>

-----------------------------------------------------------------------------
(* The children.                                                           *)

\* A child that ends loses its descriptors.
Die(k) ==
  /\ process' = [process EXCEPT ![k] = "zombie"]
  /\ writers' = Dropped(writers, k) /\ readers' = Dropped(readers, k)
  /\ UNCHANGED <<shell, pidVars, countVars, commandVars, fill, strays>>

\* The child keeps the end that is now its standard stream and runs the command.
Exec(k) ==
  /\ process[k] = "forked"
  /\ process' = [process EXCEPT ![k] = "running"]
  /\ readers' = [p \in Pipes |-> IF role[k] = "left" /\ p = via[k]
                                 THEN readers[p] \ {k} ELSE readers[p]]
  /\ writers' = [p \in Pipes |-> IF role[k] = "right" /\ p = via[k]
                                 THEN writers[p] \ {k} ELSE writers[p]]
  /\ UNCHANGED <<shell, pidVars, countVars, commandVars, fill, strays>>

\* "Command not found".
ExecFails(k) == process[k] = "forked" /\ Die(k)

\* write to the pipe: it blocks while the pipe is full; without a reader
\* the signal SIGPIPE ends the process.
Produce(k) ==
  /\ process[k] = "running" /\ role[k] = "left" /\ todo[k] > 0
  /\ readers[via[k]] # {} /\ fill[via[k]] < PipeSize
  /\ fill' = [fill EXCEPT ![via[k]] = @ + 1]
  /\ todo' = [todo EXCEPT ![k] = @ - 1]
  /\ UNCHANGED <<shell, pidVars, countVars, process, role, via, writers, readers, strays>>

BrokenPipe(k) ==
  /\ process[k] = "running" /\ role[k] = "left" /\ todo[k] > 0
  /\ readers[via[k]] = {}
  /\ Die(k)

\* read from the pipe: it blocks while the pipe is empty and has a writer.
Consume(k) ==
  /\ process[k] = "running" /\ role[k] = "right" /\ fill[via[k]] > 0
  /\ fill' = [fill EXCEPT ![via[k]] = @ - 1]
  /\ UNCHANGED <<shell, pidVars, countVars, process, commandVars, writers, readers, strays>>

Done(k) ==
  /\ process[k] = "running"
  /\ CASE role[k] = "left"  -> todo[k] = 0
       [] role[k] = "right" -> fill[via[k]] = 0 /\ writers[via[k]] = {}
       [] OTHER             -> TRUE
  /\ Die(k)

\* A command on the right may stop before it has read everything.
StopReading(k) == process[k] = "running" /\ role[k] = "right" /\ Die(k)

-----------------------------------------------------------------------------
ShellStep == Fork1 \/ Fork2 \/ CloseEnds \/ WaitPid1 \/ WaitPid2 \/ WaitAny
ChildStep(k) == Exec(k) \/ Produce(k) \/ BrokenPipe(k) \/ Consume(k) \/ Done(k)

ShellNext == \/ ReadExit \/ ReadPlain \/ ReadPipe \/ ShellStep
             \/ \E k \in Children : ChildStep(k) \/ ExecFails(k) \/ StopReading(k)

(* The processes are scheduled and the commands end when their input ends  *)
(* or their output is written; nobody has to type.                         *)
ShellFairness == /\ WF_shellVars(ShellStep)
                 /\ \A k \in Children : WF_shellVars(ChildStep(k))

-----------------------------------------------------------------------------
(* Properties.                                                             *)

(* Every variable has its type.                                            *)
ShellTypeOK ==
  /\ shell \in {"prompt", "fork1", "fork2", "close", "waitpid1", "waitpid2", "wait", "gone"}
  /\ child_pid1 \in 0 .. MaxForks /\ child_pid2 \in 0 .. MaxForks
  /\ forks \in 0 .. MaxForks /\ pipes \in 0 .. MaxPipes
  /\ failures \in 0 .. MaxFailures /\ strays \in 0 .. MaxFailures
  /\ process \in [Children -> {"unborn", "forked", "running", "zombie", "reaped"}]
  /\ role \in [Children -> {"none", "plain", "left", "right"}]
  /\ via \in [Children -> 0 .. MaxPipes] /\ todo \in [Children -> 0 .. MaxData]
  /\ writers \in [Pipes -> SUBSET (0 .. MaxForks)]
  /\ readers \in [Pipes -> SUBSET (0 .. MaxForks)]
  /\ fill \in [Pipes -> 0 .. PipeSize]

(* At the prompt all children of earlier commands have been waited for,    *)
(* except one for every second fork that failed: such a child can take the *)
(* place of a later command in wait(NULL), which then still runs at the    *)
(* next prompt, but the number of children nobody waits for never grows    *)
(* beyond that.                                                            *)
ChildrenReaped == shell = "prompt" => Cardinality(Unreaped) <= strays

(* The prompt comes back: the reader of a pipe sees its end, because every *)
(* other copy of the write end gets closed.  The exception: wait(NULL)     *)
(* waits while a stray child is blocked in a write to a full pipe that it  *)
(* will not be woken from, because the shell itself holds the read end.    *)
PromptReturns ==
  shell \notin {"prompt", "gone"} ~>
    \/ shell = "prompt"
    \/ shell = "wait" /\ \E k \in Children :
                            /\ process[k] = "running" /\ role[k] = "left" /\ todo[k] > 0
                            /\ 0 \in readers[via[k]] /\ fill[via[k]] = PipeSize
=============================================================================
