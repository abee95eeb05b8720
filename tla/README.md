# Verification of the Operating Systems lab programs

TLA+ models of the programs in this repository that have behaviour worth
checking: the process ring of lab 1 (`Lab1/ring.c`), its search for duplicate
files in both versions (`Lab1/duplicates.c`, `duplicates_backup.c`), the shell of
lab 2 (`Lab2/iwish`) with a smaller example (`Lab2/pingpong.c`) and an abandoned
array (`Lab2/depricated`) beside it, and the time calls that lab 3 adds to the process
manager of MINIX. Every definition is translated from the C source; `PROJECT.json`
maps each of them to its lines. TLC checks small instances, TLAPS proves the
most important results for every value of the constants.

## 1. The system

| Part | State | Operations | Talks to |
|---|---|---|---|
| `Lab1/ring.c` | N processes, N pipes, which ends each process holds, the number each process has | create pipes, fork recursively, close what is not needed, read / print / write the number, pass the stop signal, clean up, wait | its own copies, through pipes; the kernel (EOF, SIGPIPE, waitpid) |
| `ring.c`, command line | `argv[1]` | validate, convert | - |
| `iwish.c` | the line, its tokens, the jobs started | read, tokenise, exit keyword, parse, fork a job handler, wait or not, free | parser, interpreter, user |
| `interpreter.c`, `SafelyFork.c` | per process a descriptor table, two local pipes, a death signal | pipe, fork, prctl, getppid, close, dup2, open, execvp, wait | the shell above, the programs below |
| `parser.c`, `parsertokens.c` | the token index and a tree on the heap | one function per grammar rule, allocate and free nodes | iwish.c |
| `DynamicByteArray.c` | a heap block, its capacity and its filling | make, grow, add, get | iwish.c, interpreter.c |
| `Lab1/duplicates.c`, `duplicates_backup.c`, `Lab1/DynamicArray.c` | the directories being read, the array of names and its room, the pair being compared, descriptors | count, walk, compare sizes, compare bytes, print | the file system, which other processes change meanwhile |
| `Lab2/depricated/DynamicArray.c` | per array a heap block of pointers, its capacity and its filling | make, grow, add, concatenate with a rollback, destroy | - |
| `Lab2/pingpong.c` | two processes, two pipes, a counter | print, write, read, fork, wait | each other |
| `servers/pm/time.c`, `utctime.c` (lab 3) | none of its own: the kernel's uptime and boottime | time, utctime, stime, times | kernel calls below, messages from the library above |
| `Lab1/execute.c`, `Lab2/demo.c`, `vsm_pingpong.c`, the rest of `Lab2/depricated/`, MINIX `main.c` | - | see section 8 | - |

What is hard in it: the ring relies on nobody ever reading an end of file or
writing to a closed pipe, because neither is checked, and on a stop signal that
overtakes nobody; the shell relies on descriptor numbers that the kernel hands
out again, on who holds which end of a pipe at which moment, and on a death
signal that races with the death it reports. All of it depends on the order in
which processes that know nothing of each other run, and none of it is reached
by running the programs. The sequential parts have boundaries instead: a leap
second, the end of a second and the end of `time_t`, the last free descriptor,
the allocation that fails half-way, a file that changes between the call that
looked at it and the one that uses it. The hazards in `PROJECT.json` list the lines.

## 2. Modules

| Module | Models | Kind |
|---|---|---|
| `RingCount` | what a ring promises to whoever reads its output | abstract specification |
| `Ring` | `ring.c` after the command line | component, with its inductive invariant |
| `RingOutput` | the same with its output in a file: the buffers of stdio | component, on top of `Ring`, with its inductive invariant |
| `MCRing` | an instance of `RingOutput` | TLC |
| `RingProofs` | theorems about `Ring` and `RingOutput` | TLAPS |
| `Job` | what the shell may assume of a job | abstract specification |
| `Pipeline` | `interpretSimpleList()`, `handleCommandList()`, `safelyFork()`: one job | component, with the inductive invariant of short pipelines |
| `MCPipeline` | instances of `Pipeline` | TLC |
| `PipelineProofs` | theorems about `Pipeline` | TLAPS |
| `Shell` | `main()` and `interpretInput()` of `iwish.c`, with jobs that live as in `Job` | component, composed with `Pipeline` through `Job` |
| `Parser` | `parser.c` and the tree of `parsertokens.c` | algorithm, against the grammar of `bash.txt`, with its inductive invariant |
| `IwishProofs` | theorems about `Shell` and `Parser` | TLAPS |
| `DynamicByteArray` | `DynamicByteArray.c` | component |
| `DBAProofs` | theorems about `DynamicByteArray` | TLAPS |
| `MCIwish` | an instance of `Shell`, `Parser` and `DynamicByteArray`, the parts of the shell process | TLC |
| `PmTime` | `servers/pm/time.c`, its entries in `call_vec`, `utctime()` of the library | component |
| `MCPmTime` | an instance of `PmTime` | TLC |
| `PmTimeProofs` | theorems about `PmTime` | TLAPS |
| `PingPong` | `pingpong.c` | component, with its inductive invariant |
| `PingPongProofs` | theorems about `PingPong` | TLAPS |
| `Duplicates` | `duplicates.c` with `Lab1/DynamicArray.c`, `duplicates_backup.c` | component, with its inductive invariant |
| `MCDuplicates` | instances of `Duplicates` | TLC |
| `DuplicatesProofs` | theorems about `Duplicates` | TLAPS |
| `DynamicArray` | `Lab2/depricated/DynamicArray.c` | component |
| `DynamicArrayProofs` | theorems about `DynamicArray` | TLAPS |

Operators whose comment starts with "Mutant:" are plausible bugs of the operator
below them. No specification uses them; they show that a property notices when
the code goes wrong.

### Ring

`pc[p]` is where process p is; `rd[p]` and `wr[p]` are the pipes whose read and
write ends it has open, `buf[i]` the ints in pipe i, `number[p]` the local
variable of `cycleNumber()` and `out` the last number printed. One action per
system call that another process can notice: `recFork`, every `close()` of
`initMyPipes()` (one at a time; `closeUnnecessaryPipe` closes the read end first), `readNumber`, `writeNumber` and so
on. The loop condition and the `if` after a call belong to the action of the
call. `readIntFromMyPipe()` ignores what `read()` returns, so at end of file the
value is any member of `Garbage`. `pipe()` and `fork()` may fail if `MayFail`.
In `Ring`, `out` is the order of the `printf()` calls, which is the order of the
output on a terminal. `RingOutput` conjoins every step with what stdio does when the
output is a file: `lines[p]` is the buffer of process p, copied by `fork()`, written
to `file` by `exit()` and lost by a signal. `RingCount` promises nothing more once a
call has failed (`broken`), and so the refinement holds with failures, too.

### Pipeline, Job and Shell

`Pipeline` follows descriptor numbers: `fds[p]` maps numbers to open files and
`pipe()` and `open()` take the lowest free one, which matters because the code
keeps numbers of closed descriptors in `incomingPipe` and `outgoingPipe`. Process
0 is the job handler, process c the c-th command. `pdeath` and `term` are the
death signal a process has asked for and the SIGTERM that is on its way.
`SA_NOCLDWAIT`, which `main()` sets and `fork()` hands down, makes `wait()` block
until no child is left and then return -1; `waitForChildren` models that. A
program that is executed is external: a "filter" ends at the end of its input or
when it likes, an "endless" one only when it writes to a pipe without readers.
The elements of a command are reduced to whether it redirects its input, its
output, or both; `handleCommandFails` is a redirection that fails as well as an
allocation of the array of arguments.

`Job` is the contract between the two halves of the shell: a job runs while its
handler is there, commands it leaves behind do not last, and nothing survives
the shell. `pipe_live` shows that `Pipeline` implements it, `Shell` uses it for
any number of jobs. `Shell` follows one line at a time through `readInput()`,
`tokenise()`, `interpretInput()` and the two `free()` calls, with the blocks that
are allocated.

### Parser and DynamicByteArray

The parse functions are functions of the token sequence and an index, and return
the new index, what they built and how the number of heap nodes changed.
`Grammar` says which sentences `bash.txt` admits, without parsing, and `ProgramsNamed` what
`parser.c:163` demands besides; `AcceptsLanguage` says that the parser accepts exactly what is
both, `AcceptsGrammar` that it accepts the grammar, which it does not. `Faithful` says what the
list of a valid line is, from the places of the tokens alone: each element `Fits` the tokens
it `Covers`, and as many '|' are before it as commands are before its own. `DynamicByteArray`
has its block byte by byte, so that mixing up bytes and elements would show.
`MCIwish` runs one of `Shell`, `Parser` and `DynamicByteArray` at a time: in the models they
share no state, because `Shell` has the outcome of the parser and of the allocations as
alternatives of its own steps.

### PmTime

The process manager serves one call at a time, and each `do_...` function is an
action. `do_stime()` calls the kernel twice and is two actions, since the clock
(`tick`, external) runs on between them. `Wrap` is the arithmetic of `time_t`, whose
width is the constant `Half`; the microseconds are an unsigned product modulo
`Word` (`Micros`). The loop over the table of leap seconds is the
place where it stops (`Leaps`). `seen` remembers the last answer to one call,
chosen at the start, until somebody sets the clock.

### PingPong and Duplicates

`PingPong` has one action per system call or `printf()` of the three processes.
Nobody closes an end of a pipe, and so a `read()` from an empty pipe is a disabled
action and never an end of file.

`Duplicates` is both programs, told apart by `version`. It has the recursion of the
walk as the stack `reading`, `readdir()` in any order, the two loops over the array,
and `compareFiles()` with its `stat()`, `open()`, `read()` and `close()` calls. `open`
counts descriptors, which directories and files share. `cells` is the room for
names: in the newer version what `realloc()` gave, in the older one the number of
files counted in the first walk. A name stored outside of it is undefined
behaviour and ends the run as "crashed" (`addElemOutside`). Other processes create,
remove and overwrite files at any time (`write`, `remove`), so that every value
the program remembers may be stale: `stat()` and `open()` may fail, and `read()`
beyond the new end of a file leaves the byte as it was, at first uninitialised
(`Byte`). `touched` remembers which files they have changed, `created` which of them
were not there before.

### DynamicArray

Two arrays and a caller that makes up to `MaxElems` elements. A block has its cells
and, apart from them, the bytes that were asked for, so that a size in the wrong
unit shows. `DYNARR_concatArrs` runs step by step. Its loop never increments its
index, and so it adds the same element until memory ends; what the function then
promises, that the first array is as before, is the property.

## 3. Runs

| Run | Instance | Checks |
|---|---|---|
| `ring` | 4 processes, stop at 5, pipes for one int, every call may fail, output to a terminal and to a file | `NoBrokenPipe`, `NoEndOfFile`, `OneToken`, `RecursiveCleanup`, `GroupedInFile`, `PrintsInOrder`, `Terminates`, refinement of `RingCount` with its fairness (`CountsUp`) |
| `pipe_faults` | all pipelines of 1 to 3 commands (plain, not existing, `<`, `>`), failures, death of the shell at any time | `Wiring`, `NoForeignEnds`, `NoOrphan` |
| `pipe_live` | all pipelines of 1 to 3 commands (plain, endless, `>`) | `AllInitiated`, `JobEnds`, `WriterStops`, refinement of `Job` |
| `pipe_four` | one pipeline of 4 commands | violated: `AllInitiated` |
| `iwish` | the parser on all sentences of up to 6 tokens; a byte array with 2-byte elements, capacity 1, 2, 4 and a full heap after 4; the main loop with 3 jobs in any mix, failures, end of input | `AcceptsLanguage`, `Faithful`, `FullyFreed`; `BlockMatches`, `ContentsKept`; `ForegroundWaits`, `LineFreed`, `PromptReturns` |
| `parser_grammar` | all sentences of up to 3 tokens | violated: `AcceptsGrammar` |
| `shell_eof` | end of input | violated: `ReadInputReturns` |
| `pm_time` | 3 ticks a second with a `Word` that just holds their product, leap seconds after 0, 1 and 4, times from -20 to 19, set to -18, -1, 0, 3 or 15 at any tick up to 13 | `StimeTakes`, `UtcCountsLeaps`, `NeverBackwards` |
| `ping_pong` | 20 rounds, `fork()` may fail | `Alternates`, `Settled`, `Ends` |
| `duplicates` | both versions; up to 4 files with any of 4 contents in 3 nested directories, one of them changed by another process at any moment; 2, 4 or 15 descriptors, room for 3 names at first | `WalkComplete`, `InsideArray`, `OnlyDuplicates`, `AllDuplicates`, `LosesOnlyDifferent`, `Ends` |
| `duplicates_grow` | the 16 cells of the source and 17 files, one in each of 17 nested directories | violated: `AllNamesStored` |
| `dynamic_array` | two arrays, up to 4 elements of 2 bytes, blocks of 1, 2 and 4 elements, and every allocation may fail | `BlockMatches`, `NoDoubleFree`, `FailureKeeps` |

No run lists the type invariants of `Ring`, `Pipeline`, `Shell`, `PmTime`,
`DynamicByteArray`, `DynamicArray`, `Duplicates` and `PingPong`, the inductive invariants, or `ParentLast` of
`PingPong`: the proofs cover them for every instance (section 6).

Bounds and why they are enough.
- Ring: with 4 processes there are processes that are neither first, last nor
  neighbours of those, and a stop at 5 is more than one round, so that the
  process that stops is not the one that started. One int of pipe capacity is
  the tightest pipe possible; 2 would show a second token.
- Pipeline: three commands are first, middle and last. `MaxFd = 6` is never
  reached by accident: a handler holds 0, 1, 2 and at most three pipe ends, a
  command one or two more for its redirections. Four commands are the first
  pipeline in which a number that was closed is handed out again.
- Parser: six tokens hold two pipes with a redirection, or three commands; two are the
  shortest command that begins with a redirection.
- DynamicByteArray: two reallocations, and one that fails.
- Shell: three jobs can be one foreground and two background jobs in any order.
  `HeapLimit` only bounds how long a line grows after the end of input.
- PmTime: `Word = 2000001` is to 3 Hz what 2^32 is to 4294 Hz, the highest rate at
  which the product fits. Four seconds pass over two leap seconds that follow each other at once
  and one that does not, and from 15 the clock overflows. `MaxTicks` bounds how
  long the system is up.
- PingPong: nothing depends on the number of rounds (5 in the code), as the
  proofs show.
- Duplicates: two descriptors are too few for three nested directories, four are
  used up by two pairs that differ in a byte, fifteen are enough for every pair.
  Contents differ in size and in a byte. One file that changes, in any way and at any
  moment (`MaxTouched`), is one stale value in every place where there is one. The
  fourth name is the first that does not fit into the array; with one file, or with
  none after it was removed, there is no pair at all. For `duplicates_grow` the array has
  the size it has in the source, and there is one file more.
- DynamicArray: the block moves twice within one concatenation before `HeapLimit`
  is reached, and may fail to move at every size.

Where a run says `CHECK_DEADLOCK FALSE`, the component is passive or sequential and
may stop (`Parser` by itself, `DynamicArray`, `Duplicates`, and `PmTime` at `MaxTicks`), or,
in `PingPong`, a failed `fork()` leaves a process that waits for ever. The other
concurrent models keep deadlock checking on: their only stuttering end is
`Finished`, when every process is gone. In `MCIwish`, `AtRest` is the end of the two
sequential parts.

## 4. Fairness

- Ring: weak fairness of every process. The kernel runs every process that is
  not blocked, and a blocked `read()`, `write()` or `waitpid()` is a disabled
  action.
- Pipeline: the same for the handler and the commands, and for signals on their
  way. No fairness for `ProgramStops` or `ShellEnds`: a program or a user may go
  on forever. A filter that has reached its end of input does end, and one that
  writes to a pipe without reader is killed (weak fairness of `Program`).
- Shell: the shell runs (weak fairness of `Main`), and nothing more is assumed. The user
  need not type anything, and no job need end.
- PingPong: weak fairness of the parent and of each child, as for the ring.
- Duplicates: the process runs on (weak fairness of `main`). Other processes need not
  do anything.

## 5. Findings

Four runs end in a violation, each of something the repository says of itself.
1. `pipe_four`: in `a | b | c | d` the third command closes its own output.
   After the switch of the pipes in the parent, `incomingPipe[1]` is the number
   of a write end that the parent closed (`interpreter.c:184`). For the third
   command, that number has been given to the new outgoing pipe, and
   `interpreter.c:172` closes it. The command's `dup2()` fails, and it never runs.
   Pipelines of up to three commands are right (`pipe_live`).
2. `shell_eof`: `readInput()` does not know EOF and loops.
3. `parser_grammar`: the parser rejects `< in a` and `> out`, since it wants a word at the
   beginning of every command (`parser.c:161-165`), while the grammars of the repository,
   `bash.txt:20-24` and `bash_alt.txt:53-60`, let a command begin with a redirection or
   be one. For every other sentence the two agree (`AcceptsLanguage`).
4. `duplicates_grow`: at the 17th file `DYNARR_resizeArr()` gives the new capacity, a
   number of elements, to `realloc()` as bytes (`Lab1/DynamicArray.c:27`). The block
   shrinks from 128 bytes to 32, and the name is written behind it, while
   `duplicates.c:77` promises all names. `InsideArray` says that nothing else makes
   this version write outside its array.

Met while translating the code, and part of the models, but no run of its own is
spent on them:
- the job handler never sees an exit status, since it inherits `SA_NOCLDWAIT`, and
  reports success always (`interpreter.c:206`);
- when `fork()` fails, the processes of the ring that already run print what an
  uninitialised variable holds (`ring.c:155`); they do come to their end (`Terminates`);
- the lines of a ring that is redirected to a file are not in order
  (`GroupedInFile` says in which order they are);
- `compareFiles()` leaves both files open when a byte differs, and with enough such
  pairs the program exits with duplicates left (`duplicates.c:138`;
  `LosesOnlyDifferent` says that this is the only leak, and `AllDuplicates` is about
  searches that come to their end);
- `duplicates_backup.c` never sets the inner index back, and compares the first file
  only with the others (`duplicates_backup.c:212`); a file that appears between its
  two walks is stored through a NULL pointer (`duplicates_backup.c:95`; `InsideArray` says
  that it takes a new file, and that files that are removed or overwritten do no such harm);
- without its second child, `pingpong.c` waits for ever (`pingpong.c:35`; `Ends` presupposes
  both);
- no concatenation of a non-empty array ever succeeds
  (`Lab2/depricated/DynamicArray.c:92`);
- above 4294 Hz, which the kernel admits, the microseconds start again within a
  second (`time.c:33`; `InRange` excludes it).

Outside the models: `isNatNum()` tests the first character only (`ring.c:187`).

## 6. Proofs

All theorems hold for every value of the constants that the module's `ASSUME`
admits: any ring of two or more processes, any stop number and pipe capacity,
any set of pipelines, any element size, any tree of directories.

**`RingProofs`.** `TypeCorrect` is inductive as it stands. The safety properties
are not: that no read meets an end of file depends on where the token is, on who
has been born and on how far the stop signal has come. `RingInv` says this in
five parts, guarded by `~Faulty` (no call has failed yet):
`Births` (a process that has forked has a child, and either some process is
still to fork or all are born), `Descriptors` (in the cycle, a process holds the
read end of its input and the write end of its output), `Tokens` (one holder or
one int in one pipe), `Values` (what the token says determines who has it:
number v is with process v modulo N) and `Stopping` (the processes that have
passed the stop signal are an interval of the ring that begins with the process
that printed STOPNUMBER; that one leaves last but one hop after all others have
passed it). `Lineage` holds in all states. `Invariance` proves it action by
action; `NeverABrokenPipe`, `NeverAnEndOfFile`, `AlwaysOneToken` and
`CleansUpRecursively` follow from it in one state, and `OrderOfPrints` in one
step. `ImplementsCounter` is the safety half of the refinement of `RingCount`, for
every failure of a call at every moment.
The arithmetic lemmas on successors and distances in a ring come first.

`FileIsGrouped` is about `RingOutput`, of which every step is a step of `Ring`
(`BufferedRing`), so that `RingInv` is there to be used. The order of the file is not
inductive: it is decided by what is still in the buffers. `OutputInv` adds that. As long as
no call has failed, a process that runs has in its buffer the numbers it has printed,
in ascending order, and none before it enters the cycle, so that the copy made by
`fork()` is empty; the file has the numbers of the processes that are gone. A process
that exits puts its own numbers, all of one residue, behind those of the higher ones, because
processes end youngest first (`RecursiveCleanup`) and print no more then.

**`PipelineProofs`.** `TypeCorrect` (for pipelines of any length) and
`NobodyIsOrphaned`. The latter needs a strengthening: whoever is past `prctl()`
has the death signal set, and a handler or shell that died after that has sent
the signal; a parent that died before it is seen by `getppid()`.

`Wiring`, `NoForeignEnds` and `AllInitiated` are proved under `Short`: the pipeline at
hand has at most three commands, and descriptors go to 6 at least. Both are
needed. With four commands `pipe_four` violates the last of them, and with fewer
descriptors `pipe()` fails. `Jobs` remains arbitrary, with commands, redirections,
failures and kinds of programs in any mix. The three say nothing about
the handler between its system calls, where the mistakes would be made. `ShortInv`
gives the whole descriptor table of the handler and of each command at each
step of theirs: which numbers `incomingPipe` and `outgoingPipe` have (`InFds`, `OutFds`), and that
they stand for the ends that the code means. That a closed number, which the
variables still have, has not been given out again is where the bound of three
comes from. `DescriptorTables` proves it, one lemma per system call of the code
(`pipe()`, `fork()`, the closing in the parent and in the child, `dup2()`, `open()`), and
the three theorems `ShortPipelines...` follow in one state.

`JobSteps` is the safety half of the refinement of `Job`, for pipelines of every
length: no step of a handler, a command or the shell does what `Job` does not admit,
and so what is proved of `Shell` over `Job` holds of the two together.

**`IwishProofs`, the shell.** `ForegroundWaits` and `LineFreed` say something about the prompt
and about a running job only. `ShellInv` adds what holds in between: which line is
at hand where (no "exit" line reaches `fork()`), what is allocated at each step,
and that there is one more list than jobs exactly between `interpretInput` and
`fork()`. `Invariance` proves it; `WaitsForForeground` and `LinesAreFreed` follow, for
any number of jobs.

**`IwishProofs`, the parser.** `ParserAccepts`, `ParserIsFaithful` and `ParserFrees` hold for
sentences of any length. `ParserInv` reduces them to the parse functions: the list is what
these make of the sentence, and the nodes allocated are those of the list.
`WellFormed`, of the proof only, is `Grammar` and `ProgramsNamed` in one formula (`WellFormedIs`).
What the functions return is shown from the end of the sentence to its beginning, since every
call is for a later index (`Backwards`: a set of indices that has each index behind which it has
all others, has them all; it comes from the least element of a set of numbers). The
same argument shows first that the recursive definitions have a solution at all
(`CommandUnfolds`, `PipeLineUnfolds`, `TotalUnfolds`). `CommandFacts` and `PipeLineFacts` say what
is true behind index `i`: every token that was passed is in an element (`ParsedCommand`) or is a '|'
with a word behind it (`ParsedPipeLine`), nothing that could follow was left, and the list has two
nodes more than were counted, namely those that the caller allocated for its first command. The second
of these makes rejection right (`EndReached`), the third makes the numbers agree after a
'|' without a command, where two nodes are freed again.

**`DBAProofs`.** `NeverBehindTheBlock` (type and capacity) and `NothingIsLost`:
growing keeps every byte, and storing element n leaves the bytes of the elements
below it alone, for every element size.

**`DynamicArrayProofs`.** Lemmas on what resizing and storing do to one struct come
first (`ResizeSound`, `AddSound`). `NeverBehindTheBlock` and `ConcatRollsBack` then
need `ConcatInv`: in the loop of `DYNARR_concatArrs`, `arr1` still begins with the elements
it had, its block is at least as large as before, and it has grown only if `arr2`
is not empty. `FreedOnce` needs to know who owns an element: `OwnedOnce` says that each
is in one array or freed, and once, where `arr1` owns what it had
before (`Owned`) while it is being concatenated. That the rollback gives back exactly that is
`ConcatUndone`.

**`PmTimeProofs`.** Lemmas on division, on wrapping arithmetic (`WrapAdds`: overflow
may be postponed to the end of a sum) and on the table (`LeapsStops`,
`LeapsCounts`, `LeapsMonotone`) come first. `TypeCorrect` and `CountsLeaps` are
inductive as they stand. `SetTimeTakes` needs `BootInv`: before the second kernel
call the local `boottime` of `do_stime()`, and after it the kernel's, is the set time
less the uptime at that moment. `TimeIsMonotone` needs `SeenInv`: the last answer is
not after what the call would answer now; a tick moves that forward, because
either the microseconds grow or the second does. The assumptions are a positive
clock rate, an ascending table, and for the last theorem that the clock is not
about to overflow (`InRange`), which includes that the product of `time.c:33` fits
into a word; `TypeCorrect` holds also if it does not.

**`DuplicatesProofs`.** One invariant, `DuplicatesInv`, is proved for any finite set of files
in any tree (each entry in one directory, all reached from `Root`), both versions, any
contents, any number of descriptors and of files that others change. Its
parts are needed by each other.
- `WalkInv`: there is a set of directories the walk has been in and a set of files it
  has met, and what is left to read is exactly the other entries of those directories
  (`WalkedTo`). When nothing is left to read the former is closed under
  subdirectories, and therefore is all of them; this is how completeness is proved without
  induction over the tree.
- `ArrayInv`: no name twice; in the older version the room is for a set of files that has
  all those of the tree that nobody has created since (`Counted`), and so it suffices
  as long as none is created, whatever is removed or overwritten.
- `PairInv`: `i < j`, the sizes and bytes compared so far agree, unless the files were
  touched. `Before(a, b)` are the pairs of positions that the two loops have passed.
- `PrintedInv`: what is printed are pairs passed, and every pair passed of equal
  untouched files is printed, each once.
- `OpenInv`: descriptors are those of the directories being read, or two for each
  pair in `Lost` and two for the pair being read.

`Invariance` proves it action by action, with the actions of other processes (`write`,
`remove`) first: they touch a file, and every part speaks of files that are untouched, or
not created, only.
`WalkIsComplete`, `StaysInsideArray`, `PrintsOnlyDuplicates`, `PrintsAllDuplicates` and
`DescriptorsLost` follow, the last two with lemmas on sets of two elements and the fact that all
pairs of positions have been passed when the loops end.

**`PingPongProofs`.** The invariant is `Counter` with `Family`. `Counter` lists the
seven places where the counter can be; each determines both program counters,
both pipes and how often was printed. `Family` says who is born when and whom
the parent has waited for. All three theorems follow from them in one state.

What the assumptions of the proofs add to what the code says: that `Junk` of
`DynamicArray` is no element, and that a tree is finite and has no second way to an
entry (no hard link to a directory, which the kernel does not admit; a
file with two names is two files there).

Only model-checked: all liveness properties (`Terminates`, `JobEnds`, `WriterStops`,
`PromptReturns` and the two named `Ends`) and the fairness halves of
the refinements `CountsUp` and `ImplementsJob`, since liveness and ENABLED
are beyond the prover; and `AllInitiated` and the wiring of pipelines of more than three
commands, where the former is false.

## 7. What the models leave out

The copy of the prompt that a child of the shell may flush, the bytes of words and
of lines, the command line of the ring, several redirections of the same stream in
one command, a program that ignores SIGTERM, descriptor exhaustion of the shell
other than as a failing `pipe()`, kernel calls of the process manager that fail (it
panics); in the search for duplicates symbolic links, directories that are renamed,
paths that are too long, `malloc()` of the array or of a name failing and `read()` returning an
error; in a command of the shell a failing allocation for the NULL behind the last argument
(`interpreter.c:110`), which is not checked.

## 8. Plan

Done: `Ring` first, as the program with most concurrency of its own, then
`Pipeline`, `Parser`, `DynamicByteArray`, `Shell`, `PmTime`, `PingPong` and
`Duplicates`; then both versions of `Duplicates` over the array of lab 1 and over files
that change, the products of `PmTime`, the buffers of `RingOutput`, `DynamicArray`, and
the theorems above, in the end those about `Duplicates`, short pipelines, the steps of
`Job`, the file of a ring and the parser.

Next, in this order:
1. What of the wiring remains true of four and more commands.
2. Several redirections of one stream in a command of `Pipeline`.

Not to be modelled: `Lab1/execute.c` (one process, one `execvp()`; what can be wrong
in it is in the characters of its argument, and the call is part of `Pipeline`),
`Lab2/demo.c` (the course's example of page faults, with a single behaviour), the
command line of the ring (over before the first process is created),
`Lab2/depricated/DynamicString.c` and `parser_test.c` (superseded), `Lab2/vsm_pingpong.c` (an unfinished skeleton that does not
compile), `Lab1/syscallexamples` (course examples, one call each),
`Lab3/Exercise 1` (MINIX's own `main.c` with another banner), headers and
Makefiles.
