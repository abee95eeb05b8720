-------------------------------- MODULE Shell -------------------------------
(***************************************************************************)
(* Lab2/iwish/src/iwish.c: the main loop of the shell with readInput(),    *)
(* tokenise() and interpretInput(), and the jobs it starts, each of which  *)
(* lives as module Job says (and module Pipeline implements).              *)
(*                                                                         *)
(* A line is abstracted to what the loop does with it: "exit" (one of the  *)
(* keywords and nothing else), "invalid" (an empty line, too), "fg" and    *)
(* "bg" (a valid pipeline without and with '&').                           *)
(***************************************************************************)
EXTENDS Integers, FiniteSets

CONSTANTS
  MaxJobs,     \* bound: how many valid lines the user enters
  HeapLimit,   \* bound: how many bytes a line may have before realloc() fails
  MayFail      \* may malloc() and fork() fail?

ASSUME ShellAssumption ==
  /\ MaxJobs \in Nat
  /\ HeapLimit \in Nat
  /\ MayFail \in BOOLEAN

Lines == {"exit", "invalid", "fg", "bg"}
JobIds == 1 .. MaxJobs

VARIABLES
  pc,      \* where main() is
  line,    \* the line that was read
  eof,     \* has standard input ended?
  size,    \* bytes readInput() has collected since then
  last,    \* the number of the latest job
  kind,    \* kind[j]: was job j started with or without '&'?
  jobs,    \* jobs[j]: how far job j is
  live,    \* the blocks of the current line that are allocated
  lists    \* how many Simple_Lists the shell has allocated and not freed

vars == <<pc, line, eof, size, last, kind, jobs, live, lists>>
jobVars == <<last, kind, jobs>>

Ended == {"exited", "aborted", "crashed"}

Init ==
  /\ pc = "read"
  /\ line = "invalid"
  /\ eof = FALSE
  /\ size = 0
  /\ last = 0
  /\ kind = [j \in JobIds |-> "fg"]
  /\ jobs = [j \in JobIds |-> "none"]
  /\ live = {}
  /\ lists = 0
-----------------------------------------------------------------------------
readInput(l) ==
  /\ pc = "read"
  /\ ~eof
  /\ l \in {"fg", "bg"} => last < MaxJobs
  /\ line' = l
  /\ live' = live \cup {"input"}
  /\ pc' = "tokenise"
  /\ UNCHANGED <<eof, size, jobVars, lists>>

\* The array for the line could not be made; at the end of input it has been.
readInputFails ==
  /\ MayFail
  /\ pc = "read"
  /\ ~eof
  /\ pc' = "aborted"
  /\ UNCHANGED <<line, eof, size, jobVars, live, lists>>

\* fgetc() returns EOF from now on.
endOfInput ==
  /\ pc = "read"
  /\ eof' = TRUE
  /\ ~eof
  /\ UNCHANGED <<pc, line, size, jobVars, live, lists>>

\* The loop only looks for '\n', which EOF is not.
readEof ==
  /\ pc = "read"
  /\ eof
  /\ pc' = "add"
  /\ UNCHANGED <<line, eof, size, jobVars, live, lists>>

\* It adds (char) EOF to the line, and goes on when that fails because
\* DBA_addElemToArr()'s result is not looked at.
addEof ==
  /\ pc = "add"
  /\ size' = IF size < HeapLimit THEN size + 1 ELSE size
  /\ pc' = "read"
  /\ UNCHANGED <<line, eof, jobVars, live, lists>>

tokenise ==
  /\ pc = "tokenise"
  /\ live' = live \cup {"strings"}
  /\ pc' = IF line = "exit" THEN "leave" ELSE "parse"
  /\ UNCHANGED <<line, eof, size, jobVars, lists>>

tokeniseFails ==
  /\ MayFail
  /\ pc = "tokenise"
  /\ live' = live \ {"input"}
  /\ pc' = "aborted"
  /\ UNCHANGED <<line, eof, size, jobVars, lists>>

-----------------------------------------------------------------------------
(* interpretInput() *)

interpretInput ==
  /\ pc = "parse"
  /\ IF line = "invalid"
     THEN pc' = "free" /\ UNCHANGED lists
     ELSE pc' = "fork" /\ lists' = lists + 1
  /\ UNCHANGED <<line, eof, size, jobVars, live>>

\* makeNewSimpleList() returned NULL; parseInput() does not expect that, for
\* a valid line or an invalid one (only an empty one is rejected before).
interpretInputNull ==
  /\ MayFail
  /\ pc = "parse"
  /\ pc' = "crashed"
  /\ UNCHANGED <<line, eof, size, jobVars, live, lists>>

Fork(next) ==
  /\ pc = "fork"
  /\ last' = last + 1
  /\ kind' = [kind EXCEPT ![last + 1] = line]
  /\ jobs' = [jobs EXCEPT ![last + 1] = "running"]
  /\ pc' = next
  /\ UNCHANGED <<line, eof, size, live, lists>>

\* Mutant: the shell waits for every job.
safelyForkWaits == Fork("wait")

\* Mutant: the shell waits for the jobs with '&'.
safelyForkInverted == Fork(IF line = "bg" THEN "wait" ELSE "free")

safelyFork == Fork(IF line = "fg" THEN "wait" ELSE "free")

safelyForkFails ==
  /\ MayFail
  /\ pc = "fork"
  /\ live' = live \ {"strings", "input"}
  /\ lists' = lists - 1
  /\ pc' = "aborted"
  /\ UNCHANGED <<line, eof, size, jobVars>>

\* waitpid(child_pid): returns when this child, the handler, is gone.
waitpid ==
  /\ pc = "wait"
  /\ jobs[last] # "running"
  /\ pc' = "free"
  /\ UNCHANGED <<line, eof, size, jobVars, live, lists>>

-----------------------------------------------------------------------------
Free(blocks, next) ==
  /\ live' = live \ blocks
  /\ pc' = next
  /\ UNCHANGED <<line, eof, size, jobVars, lists>>

\* Mutant: a line is only freed when it was valid.
freeLineValid == pc = "free" /\ Free(IF line = "invalid" THEN {} ELSE {"strings", "input"}, "read")

freeLine == pc = "free" /\ Free({"strings", "input"}, "read")

\* An exit keyword leaves the loop; main() frees the line and returns.
leave == pc = "leave" /\ Free({"strings", "input"}, "exited")

-----------------------------------------------------------------------------
(* The jobs: the steps of module Job. *)

HandlerEnds(j, how) ==
  /\ jobs[j] = "running"
  /\ how \in {"dying", "gone"}
  /\ jobs' = [jobs EXCEPT ![j] = how]
  /\ UNCHANGED <<pc, line, eof, size, last, kind, live, lists>>

CommandsDie(j) ==
  /\ jobs[j] = "dying"
  /\ jobs' = [jobs EXCEPT ![j] = "gone"]
  /\ UNCHANGED <<pc, line, eof, size, last, kind, live, lists>>

\* The shell has ended, and nobody is left.
Finished ==
  /\ pc \in Ended
  /\ \A j \in JobIds : jobs[j] \in {"none", "gone"}
  /\ UNCHANGED vars

Main ==
  \/ readEof \/ addEof \/ tokenise \/ tokeniseFails \/ interpretInput \/ interpretInputNull
  \/ safelyFork
  \/ safelyForkFails \/ waitpid \/ freeLine \/ leave

Next ==
  \/ Main
  \/ \E l \in Lines : readInput(l)
  \/ readInputFails
  \/ endOfInput
  \/ \E j \in JobIds : CommandsDie(j) \/ \E how \in {"dying", "gone"} : HandlerEnds(j, how)
  \/ Finished

Spec == Init /\ [][Next]_vars

\* The shell runs.  The user need not type anything, and no job need end.
FairSpec == Spec /\ WF_vars(Main)
-----------------------------------------------------------------------------
TypeOK ==
  /\ pc \in {"read", "add", "tokenise", "parse", "fork", "wait", "free", "leave"} \cup Ended
  /\ line \in Lines
  /\ eof \in BOOLEAN
  /\ size \in 0 .. HeapLimit
  /\ last \in 0 .. MaxJobs
  /\ pc = "fork" => last < MaxJobs
  /\ kind \in [JobIds -> {"fg", "bg"}]
  /\ jobs \in [JobIds -> {"none", "running", "dying", "gone"}]
  /\ live \subseteq {"input", "strings"}
  /\ lists \in 0 .. MaxJobs + 1

\* While a job without '&' runs, the shell waits for it and for no other: at
\* most one such job runs, and never while the prompt is shown.
ForegroundWaits == \A j \in JobIds :
  jobs[j] = "running" /\ kind[j] = "fg" => pc = "wait" /\ j = last

\* "callers must free the allocated string." (iwish.c:64): at the next prompt,
\* and when main() has returned, nothing of a line is still allocated, except
\* for the Simple_Lists of the jobs that were started, one each: the shell
\* never frees those (iwish.c:51-56), so that it grows with its jobs and with
\* nothing else.
LineFreed == pc \in {"read", "exited"} => live = {} /\ lists = last

\* What makes the two inductive: which line is at hand, and what is allocated,
\* at every step of the loop.
ShellInv ==
  /\ TypeOK
  /\ ForegroundWaits
  /\ pc \in {"parse", "fork"} => line # "exit"
  /\ pc = "fork" => line # "invalid"
  /\ pc \in {"tokenise", "parse"} /\ line \in {"fg", "bg"} => last < MaxJobs
  /\ pc \in {"read", "add", "exited"} => live = {}
  /\ pc \notin Ended => lists = IF pc = "fork" THEN last + 1 ELSE last
  /\ pc = "exited" => lists = last

\* A job with '&' never holds up the shell: it is back at the prompt, or has
\* ended, after every line that is not a foreground job.
PromptReturns ==
  (pc = "tokenise" /\ line # "fg") ~> pc \in {"read"} \cup Ended

\* "reads input from stream and returns a c-string. returns NULL on failure."
\* (iwish.c:61): readInput() returns, also when the stream has ended.
ReadInputReturns == (pc = "read" /\ eof) ~> (pc \notin {"read", "add"})
=============================================================================
