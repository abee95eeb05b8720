------------------------------ MODULE Pipeline ------------------------------
(***************************************************************************)
(* One job of the iwish shell (Lab2/iwish/src): the job handler that       *)
(* interpretInput() forked, interpretSimpleList() in it, and the commands  *)
(* it forks with safelyFork(), down to the descriptor numbers.             *)
(*                                                                         *)
(* Process 0 is the job handler, its parent is the shell; process c > 0 is *)
(* the c-th command of the pipeline, its parent is the handler.  Pipe k is *)
(* the one between the commands k and k+1.  A descriptor table maps        *)
(* numbers to open files; the kernel hands out the lowest free number.     *)
(*                                                                         *)
(* SIGCHLD has SA_NOCLDWAIT (iwish.c:164) and the handler inherits it:     *)
(* children are reaped by the kernel, and wait() blocks until none is left *)
(* and then returns -1, so the body of the wait loop is never reached.     *)
(***************************************************************************)
EXTENDS Integers, Sequences

CONSTANTS
  Jobs,      \* the pipelines a user may enter: sequences of commands
  MaxCmds,   \* bound: the length of the longest pipeline
  MaxFd,     \* bound: the highest descriptor number
  MayFail    \* may pipe(), fork(), prctl() and open() fail?

Kinds == {"filter", "endless"}

\* A command: does it redirect its input, its output; is there a program of
\* its name; does the program end with its input or only when nobody reads
\* what it writes?
Commands == [in : BOOLEAN, out : BOOLEAN, exists : BOOLEAN, kind : Kinds]

ASSUME PipelineAssumption ==
  /\ Jobs \subseteq Seq(Commands)
  /\ MaxCmds \in Nat
  /\ \A j \in Jobs : Len(j) \in 1 .. MaxCmds
  /\ MaxFd \in Nat /\ MaxFd >= 2
  /\ MayFail \in BOOLEAN

FDs == 0 .. MaxFd
STDIN_FD == 0
STDOUT_FD == 1

VARIABLES
  job,      \* the parsed Simple_Command_List
  shell,    \* is the shell still there?
  pc,       \* where each process is
  current,  \* current_command_list, as an index of job
  incomingPipe, outgoingPipe,   \* the local variables, a copy per process
  fds,      \* descriptor tables
  pdeath,   \* has the process set PR_SET_PDEATHSIG?
  term      \* is a SIGTERM on its way to the process?

vars == <<job, shell, pc, current, incomingPipe, outgoingPipe, fds, pdeath, term>>

Procs == 0 .. MaxCmds
Cmds == 1 .. Len(job)

Dead == {"success", "failure", "failed", "killed"}
Gone == Dead \cup {"unborn"}

Free == <<"free", 0>>
Tty == <<"tty", 0>>
File == <<"file", 0>>
ReadEnd(k) == <<"read", k>>
WriteEnd(k) == <<"write", k>>

Closed == [f \in FDs |-> Free]
HasReader(k) == \E p \in Procs : \E f \in FDs : fds[p][f] = ReadEnd(k)
HasWriter(k) == \E p \in Procs : \E f \in FDs : fds[p][f] = WriteEnd(k)

Init ==
  /\ job \in Jobs
  /\ shell = "alive"
  /\ pc = [p \in Procs |-> IF p = 0 THEN "prctl" ELSE "unborn"]
  /\ current = 1
  /\ incomingPipe = [p \in Procs |-> <<-1, -1>>]
  /\ outgoingPipe = [p \in Procs |-> <<-1, -1>>]
  /\ fds = [p \in Procs |-> IF p = 0 THEN [f \in FDs |-> IF f <= 2 THEN Tty ELSE Free]
                                     ELSE Closed]
  /\ pdeath = [p \in Procs |-> FALSE]
  /\ term = [p \in Procs |-> FALSE]
-----------------------------------------------------------------------------
Goto(p, l) == pc' = [pc EXCEPT ![p] = l]

ParentAlive(p) == IF p = 0 THEN shell = "alive" ELSE pc[0] \notin Dead

\* The process ends: its descriptors are closed, and the children that asked
\* for it are sent a SIGTERM.
Die(p, how) ==
  /\ Goto(p, how)
  /\ fds' = [fds EXCEPT ![p] = Closed]
  /\ term' = [q \in Procs |->
       term[q] \/ (p = 0 /\ q # 0 /\ pdeath[q] /\ pc[q] \notin Gone)]
  /\ UNCHANGED <<job, shell, current, incomingPipe, outgoingPipe, pdeath>>

\* close(): a number that is not open is ignored, and so is -1.
Close(t, f) == IF f \in FDs THEN [t EXCEPT ![f] = Free] ELSE t

IsLowestFree(t, f) == t[f] = Free /\ \A g \in FDs : t[g] = Free => f <= g
LowestFree(t) == CHOOSE f \in FDs : IsLowestFree(t, f)

-----------------------------------------------------------------------------
(* safelyFork(), in the child. *)

\* Mutant: the signal is not asked for.
prctlForgotten(p) ==
  /\ pc[p] = "prctl"
  /\ Goto(p, "getppid")
  /\ UNCHANGED <<job, shell, current, incomingPipe, outgoingPipe, fds, pdeath, term>>

prctl(p) ==
  /\ pc[p] = "prctl"
  /\ pdeath' = [pdeath EXCEPT ![p] = TRUE]
  /\ Goto(p, "getppid")
  /\ UNCHANGED <<job, shell, current, incomingPipe, outgoingPipe, fds, term>>

prctlFails(p) ==
  /\ MayFail
  /\ pc[p] = "prctl"
  /\ Die(p, "failed")

\* Mutant: the child does not look whether its parent is still the same.
getppidUnchecked(p) ==
  /\ pc[p] = "getppid"
  /\ Goto(p, IF p = 0 THEN "pipe" ELSE "close")
  /\ UNCHANGED <<job, shell, current, incomingPipe, outgoingPipe, fds, pdeath, term>>

\* A parent that died before prctl() sends no signal: the child finds out by
\* its new parent and ends.
getppid(p) ==
  /\ pc[p] = "getppid"
  /\ IF ParentAlive(p)
     THEN /\ Goto(p, IF p = 0 THEN "pipe" ELSE "close")
          /\ UNCHANGED <<job, shell, current, incomingPipe, outgoingPipe, fds, pdeath, term>>
     ELSE Die(p, "failed")

-----------------------------------------------------------------------------
(* interpretSimpleList(), in the handler. *)

\* A pipe for the next part of the pipeline, or none after the last command.
makePipe ==
  /\ pc[0] = "pipe"
  /\ IF current < Len(job)
     THEN \E r, w \in FDs :
          LET t == [fds[0] EXCEPT ![r] = ReadEnd(current)] IN
          /\ IsLowestFree(fds[0], r)
          /\ IsLowestFree(t, w)
          /\ outgoingPipe' = [outgoingPipe EXCEPT ![0] = <<r, w>>]
          /\ fds' = [fds EXCEPT ![0] = [t EXCEPT ![w] = WriteEnd(current)]]
     ELSE /\ outgoingPipe' = [outgoingPipe EXCEPT ![0] = <<-1, -1>>]
          /\ UNCHANGED fds
  /\ Goto(0, "fork")
  /\ UNCHANGED <<job, shell, current, incomingPipe, pdeath, term>>

makePipeFails ==
  /\ MayFail
  /\ pc[0] = "pipe"
  /\ current < Len(job)
  /\ Die(0, "failed")

fork ==
  /\ pc[0] = "fork"
  /\ pc' = [pc EXCEPT ![0] = "parent", ![current] = "prctl"]
  /\ fds' = [fds EXCEPT ![current] = fds[0]]
  /\ incomingPipe' = [incomingPipe EXCEPT ![current] = incomingPipe[0]]
  /\ outgoingPipe' = [outgoingPipe EXCEPT ![current] = outgoingPipe[0]]
  /\ UNCHANGED <<job, shell, current, pdeath, term>>

forkFails ==
  /\ MayFail
  /\ pc[0] = "fork"
  /\ Die(0, "failed")

Switch(table, in, out) ==
  /\ pc[0] = "parent"
  /\ fds' = [fds EXCEPT ![0] = table]
  /\ incomingPipe' = [incomingPipe EXCEPT ![0] = in]
  /\ outgoingPipe' = [outgoingPipe EXCEPT ![0] = out]
  /\ current' = current + 1
  /\ Goto(0, IF current < Len(job) THEN "pipe" ELSE "wait")
  /\ UNCHANGED <<job, shell, pdeath, term>>

\* Mutant: the pipes are not switched.
parentBranchNoSwitch ==
  Switch(Close(Close(fds[0], incomingPipe[0][1]), outgoingPipe[0][2]), incomingPipe[0], outgoingPipe[0])

\* Mutant: the parent keeps the write end.
parentBranchKeepsWriteEnd ==
  Switch(Close(fds[0], incomingPipe[0][1]), outgoingPipe[0], incomingPipe[0])

\* Mutant: the parent keeps the read end.
parentBranchKeepsReadEnd ==
  Switch(Close(fds[0], outgoingPipe[0][2]), outgoingPipe[0], incomingPipe[0])

\* The parent closes the ends it handed to the child and goes on with the
\* next command: the outgoing pipe becomes the incoming one.
parentBranch ==
  Switch(Close(Close(fds[0], incomingPipe[0][1]), outgoingPipe[0][2]), outgoingPipe[0], incomingPipe[0])

\* wait() returns -1 when the last child is gone; exitstatus is EXIT_SUCCESS.
waitForChildren ==
  /\ pc[0] = "wait"
  /\ \A c \in Cmds : pc[c] \in Gone
  /\ Die(0, "success")

-----------------------------------------------------------------------------
(* handleCommandList(), in the child. *)

CloseEnds(c, table) ==
  /\ pc[c] = "close"
  /\ fds' = [fds EXCEPT ![c] = table]
  /\ Goto(c, "connect")
  /\ UNCHANGED <<job, shell, current, incomingPipe, outgoingPipe, pdeath, term>>

\* Mutant: the child closes the end of the outgoing pipe that it needs.
closeUnusedWrongEnd(c) ==
  CloseEnds(c, Close(Close(fds[c], incomingPipe[c][2]), outgoingPipe[c][2]))

\* Mutant: the child closes nothing.
closeUnusedNot(c) == CloseEnds(c, fds[c])

closeUnused(c) == CloseEnds(c, Close(Close(fds[c], incomingPipe[c][2]), outgoingPipe[c][1]))

IsOpen(t, f) == f \in FDs /\ t[f] # Free

\* dup2() of the two pipe ends; it fails on a number that is not open.
connect(c) ==
  LET i == incomingPipe[c][1]
      o == outgoingPipe[c][2]
      t == IF i >= 0 THEN [fds[c] EXCEPT ![STDIN_FD] = fds[c][i]] ELSE fds[c]
  IN
  /\ pc[c] = "connect"
  /\ IF (i < 0 \/ IsOpen(fds[c], i)) /\ (o < 0 \/ IsOpen(t, o))
     THEN /\ fds' = [fds EXCEPT ![c] =
                       IF o >= 0 THEN [t EXCEPT ![STDOUT_FD] = t[o]] ELSE t]
          /\ Goto(c, "redirect")
          /\ UNCHANGED <<job, shell, current, incomingPipe, outgoingPipe, pdeath, term>>
     ELSE Die(c, "failed")

\* open() and dup2() of handleRedirection().
Redirect(t, f, wanted) ==
  IF wanted THEN [t EXCEPT ![LowestFree(t)] = File, ![f] = File] ELSE t

handleCommandElementList(c) ==
  /\ pc[c] = "redirect"
  /\ fds' = [fds EXCEPT ![c] =
       Redirect(Redirect(@, STDIN_FD, job[c].in), STDOUT_FD, job[c].out)]
  /\ Goto(c, "exec")
  /\ UNCHANGED <<job, shell, current, incomingPipe, outgoingPipe, pdeath, term>>

\* open() or dup2() of a redirection fails, or an allocation of the array of
\* the arguments.
handleCommandFails(c) ==
  /\ MayFail
  /\ pc[c] = "redirect"
  /\ Die(c, "failed")

execvp(c) ==
  /\ pc[c] = "exec"
  /\ IF job[c].exists
     THEN /\ Goto(c, "run")
          /\ UNCHANGED <<job, shell, current, incomingPipe, outgoingPipe, fds, pdeath, term>>
     ELSE Die(c, "failed")

-----------------------------------------------------------------------------
(* The programs, the signals and the shell. *)

\* A program that reads its standard input ends at the end of it; a file or
\* a terminal ends some time.
ProgramReadsEof(c) ==
  /\ pc[c] = "run"
  /\ job[c].kind = "filter"
  /\ \A k \in Cmds : fds[c][STDIN_FD] = ReadEnd(k) => ~HasWriter(k)
  /\ Die(c, "success")

\* A program may end, or fail, whenever it likes.
ProgramStops(c, how) ==
  /\ pc[c] = "run"
  /\ job[c].kind = "filter"
  /\ how \in {"success", "failure"}
  /\ Die(c, how)

\* SIGPIPE: nobody reads what the program writes.
ProgramWritesNowhere(c) ==
  /\ pc[c] = "run"
  /\ \E k \in Cmds : fds[c][STDOUT_FD] = WriteEnd(k) /\ ~HasReader(k)
  /\ Die(c, "killed")

\* SIGTERM ends a process at any point.
Terminated(p) ==
  /\ term[p]
  /\ pc[p] \notin Gone
  /\ Die(p, "killed")

\* The shell ends ("exit" while the job is in the background, or a signal).
ShellEnds ==
  /\ shell = "alive"
  /\ shell' = "dead"
  /\ term' = [term EXCEPT ![0] = pdeath[0] /\ pc[0] \notin Dead]
  /\ UNCHANGED <<job, pc, current, incomingPipe, outgoingPipe, fds, pdeath>>

-----------------------------------------------------------------------------
safelyFork(p) == prctl(p) \/ prctlFails(p) \/ getppid(p)

interpretSimpleList ==
  makePipe \/ makePipeFails \/ fork \/ forkFails \/ parentBranch \/ waitForChildren

handleCommandList(c) ==
  closeUnused(c) \/ connect(c) \/ handleCommandElementList(c)
    \/ handleCommandFails(c) \/ execvp(c)

Program(c) == ProgramReadsEof(c) \/ ProgramWritesNowhere(c)

\* The shell has ended and nobody is left.
Finished ==
  /\ shell = "dead"
  /\ \A p \in Procs : pc[p] \in Gone
  /\ UNCHANGED vars

Next ==
  \/ interpretSimpleList
  \/ \E p \in Procs : safelyFork(p) \/ Terminated(p)
  \/ \E c \in Cmds : handleCommandList(c) \/ Program(c)
  \/ \E c \in Cmds : \E how \in {"success", "failure"} : ProgramStops(c, how)
  \/ ShellEnds
  \/ Finished

Spec == Init /\ [][Next]_vars

\* The kernel schedules every process that can run and delivers signals.
\* Nothing forces the user or a program to stop.
FairSpec ==
  /\ Spec
  /\ WF_vars(interpretSimpleList)
  /\ \A p \in Procs : WF_vars(safelyFork(p)) /\ WF_vars(Terminated(p))
  /\ \A c \in Procs \ {0} : /\ WF_vars(c \in Cmds /\ handleCommandList(c))
                           /\ WF_vars(c \in Cmds /\ Program(c))
-----------------------------------------------------------------------------
Objects == {Free, Tty, File} \cup {ReadEnd(k) : k \in Procs} \cup {WriteEnd(k) : k \in Procs}

TypeOK ==
  /\ job \in Jobs
  /\ shell \in {"alive", "dead"}
  /\ pc \in [Procs -> {"unborn", "prctl", "getppid", "pipe", "fork", "parent", "wait",
                       "close", "connect", "redirect", "exec", "run"} \cup Dead]
  /\ current \in 1 .. Len(job) + 1
  /\ pc[0] \in {"prctl", "getppid", "pipe", "fork", "parent"} => current <= Len(job)
  /\ incomingPipe \in [Procs -> (FDs \cup {-1}) \X (FDs \cup {-1})]
  /\ outgoingPipe \in [Procs -> (FDs \cup {-1}) \X (FDs \cup {-1})]
  /\ fds \in [Procs -> [FDs -> Objects]]
  /\ pdeath \in [Procs -> BOOLEAN]
  /\ term \in [Procs -> BOOLEAN]

\* A program that runs reads from the pipe on its left and writes to the pipe
\* on its right, unless it redirects.
Wiring == \A c \in Cmds : pc[c] = "run" =>
  /\ fds[c][STDIN_FD] = IF job[c].in THEN File
                        ELSE IF c = 1 THEN Tty ELSE ReadEnd(c - 1)
  /\ fds[c][STDOUT_FD] = IF job[c].out THEN File
                         ELSE IF c = Len(job) THEN Tty ELSE WriteEnd(c)

\* "close unused pipe ends" (interpreter.c:171 and 182): a program holds no
\* end but the two it was given, and a handler that waits holds none at all;
\* otherwise a reader would never see the end of its input.
NoForeignEnds ==
  /\ \A c \in Cmds : pc[c] = "run" => \A f \in FDs :
       fds[c][f] \in {Free, Tty, File, ReadEnd(c - 1), WriteEnd(c)}
  /\ pc[0] = "wait" => \A f \in FDs : fds[0][f] \in {Free, Tty}

\* "Make sure that when the parent terminates, all children terminate as
\* well." (SafelyFork.c:15): a process that went past safelyFork() and has
\* lost its parent has a SIGTERM on its way, at every moment.
NoOrphan == \A p \in Procs :
  pc[p] \notin Gone \cup {"prctl", "getppid"} /\ ~ParentAlive(p) => term[p]

\* "initiate all commands in the pipeline." (interpreter.c:145): when no
\* system call fails, all programs exist and the handler is there, no command
\* gives up before its program runs.
AllInitiated ==
  /\ ~MayFail
  /\ \A c \in Cmds : job[c].exists
  /\ pc[0] \notin Dead
  => \A c \in Cmds : pc[c] # "failed"

(***************************************************************************)
(* What makes the three inductive, for pipelines in which no descriptor    *)
(* number is handed out while it is still remembered as a closed one: up   *)
(* to three commands.                                                      *)
(***************************************************************************)
Short == Len(job) <= 3 /\ MaxFd >= 6

\* The numbers of the pipe before command c, and of the one after it.
NoPipe == <<-1, -1>>
InFds(c) == IF c = 2 THEN <<3, 4>> ELSE IF c = 3 THEN <<4, 5>> ELSE NoPipe
OutFds(c) == IF c < Len(job) THEN InFds(c + 1) ELSE NoPipe

\* A table with the two ends a command needs, of which there may be none.
EndsTable(r, c, w) ==
  [f \in FDs |-> IF f <= 2 THEN Tty
                 ELSE IF f = r THEN ReadEnd(c - 1)
                 ELSE IF f = w THEN WriteEnd(c) ELSE Free]

\* The handler before the pipe for command c is made, and after that.
Held(c) == EndsTable(InFds(c)[1], c, -1)
Given(c) == [f \in FDs |-> IF f = OutFds(c)[1] THEN ReadEnd(c)
                           ELSE EndsTable(InFds(c)[1], c, OutFds(c)[2])[f]]

HandlerTable ==
  /\ pc[0] \in {"prctl", "getppid"} => current = 1
  /\ pc[0] \in {"prctl", "getppid", "pipe"} =>
       incomingPipe[0] = InFds(current) /\ fds[0] = Held(current)
  /\ pc[0] \in {"fork", "parent"} =>
       /\ incomingPipe[0] = InFds(current) /\ outgoingPipe[0] = OutFds(current)
       /\ fds[0] = Given(current)
  /\ pc[0] = "wait" => fds[0] = Held(1)

Input(c) == IF c = 1 THEN Tty ELSE ReadEnd(c - 1)
Output(c) == IF c = Len(job) THEN Tty ELSE WriteEnd(c)

\* The table of command c on the way from fork() to its program.
CommandTable(c) ==
  /\ pc[c] \in {"prctl", "getppid", "close", "connect"} =>
       incomingPipe[c] = InFds(c) /\ outgoingPipe[c] = OutFds(c)
  /\ pc[c] \in {"prctl", "getppid", "close"} => fds[c] = Given(c)
  /\ pc[c] = "connect" => fds[c] = EndsTable(InFds(c)[1], c, OutFds(c)[2])
  /\ pc[c] = "redirect" =>
       /\ fds[c][STDIN_FD] = Input(c) /\ fds[c][STDOUT_FD] = Output(c)
       /\ \A f \in FDs : fds[c][f] \in {Free, Tty, ReadEnd(c - 1), WriteEnd(c)}
       /\ \A f \in FDs : f > 2 /\ f # InFds(c)[1] /\ f # OutFds(c)[2] => fds[c][f] = Free
  /\ pc[c] \in {"exec", "run"} =>
       /\ fds[c][STDIN_FD] = IF job[c].in THEN File ELSE Input(c)
       /\ fds[c][STDOUT_FD] = IF job[c].out THEN File ELSE Output(c)
       /\ \A f \in FDs : fds[c][f] \in {Free, Tty, File, ReadEnd(c - 1), WriteEnd(c)}

CommandTables == \A c \in Cmds : CommandTable(c)

ShortInv == Short => HandlerTable /\ CommandTables /\ AllInitiated

Filters == \A c \in Cmds : job[c].kind = "filter"
AllGone == \A p \in Procs : pc[p] \in Gone

\* A job of programs that end with their input ends: nobody keeps a write end
\* open that somebody waits for, and nobody waits for somebody who waits.
JobEnds == Filters ~> AllGone

\* Once the reader of a pipe is gone, the writer does not go on forever.
WriterStops ==
  \A c \in Procs \ {0, MaxCmds} :
    (pc[c] = "run" /\ fds[c][STDOUT_FD] = WriteEnd(c) /\ pc[c+1] \in Dead)
      ~> (pc[c] \in Dead)

\* To the shell, the job is what module Job says: its commands do not outlive
\* the handler by much, and nothing of it outlives the shell by much.
AsJob == IF pc[0] \notin Dead THEN "running" ELSE IF AllGone THEN "gone" ELSE "dying"
JobOfShell == INSTANCE Job WITH job <- AsJob
ImplementsJob == JobOfShell!Spec
=============================================================================
