-------------------------------- MODULE Ring --------------------------------
(***************************************************************************)
(* Lab1/ring.c: a ring of N processes that hand a growing number around    *)
(* through unidirectional pipes.  Process p writes to pipe p and reads     *)
(* from pipe p-1 (modulo N).  All pipes are created by process 0; every    *)
(* process forks at most one child, inherits every descriptor of its       *)
(* parent and then closes the ones it does not need.                       *)
(*                                                                         *)
(* The kernel is modelled by what the program can observe of it: a pipe is *)
(* a bounded sequence of ints, a read of an empty pipe blocks while some   *)
(* process holds its write end and returns 0 bytes otherwise, a write to a *)
(* pipe whose read end nobody holds kills the writer with SIGPIPE, and a   *)
(* process that ends loses all its descriptors.                            *)
(***************************************************************************)
EXTENDS Integers, Sequences

CONSTANTS
  N,            \* nrOfProcesses, argv[1]
  STOPNUMBER,   \* the last number printed (50 in the source)
  PipeCap,      \* how many ints a pipe holds before write() blocks
  Garbage,      \* values the uninitialised tempInt may have after an EOF
  MayFail       \* may pipe() and fork() fail?

ASSUME RingAssumption ==
  /\ N \in Nat /\ N >= 2
  /\ STOPNUMBER \in Nat
  /\ PipeCap \in Nat \ {0}
  /\ Garbage \subseteq Int
  /\ MayFail \in BOOLEAN

MYSIG_WAITFORCHILD == -1

Proc == 0 .. N-1     \* process numbers, and the pipes of pipeArr

VARIABLES
  pc,       \* where each process is in main()
  number,   \* the local variable of cycleNumber()
  rd,       \* rd[p]: the pipes whose read end p holds open
  wr,       \* wr[p]: the pipes whose write end p holds open
  buf,      \* buf[i]: the ints in pipe i
  out       \* the last number printed on standard output

vars == <<pc, number, rd, wr, buf, out>>

Dead == {"exited", "failed", "sigpipe"}

(***************************************************************************)
(* pipeArr is indexed with the process number for output and with its      *)
(* predecessor for input.                                                  *)
(***************************************************************************)
getMyOutputPipe(p) == p
getMyInputPipe(p) == (p + N - 1) % N

HasReader(i) == \E p \in Proc : i \in rd[p]
HasWriter(i) == \E p \in Proc : i \in wr[p]

Init ==
  /\ pc = [p \in Proc |-> IF p = 0 THEN "start" ELSE "unborn"]
  /\ number = [p \in Proc |-> 0]
  /\ rd = [p \in Proc |-> {}]
  /\ wr = [p \in Proc |-> {}]
  /\ buf = [i \in Proc |-> << >>]
  /\ out = -1

-----------------------------------------------------------------------------
Goto(p, l) == pc' = [pc EXCEPT ![p] = l]

\* The process ends; the kernel closes what it still has open.
End(p, how) ==
  /\ Goto(p, how)
  /\ rd' = [rd EXCEPT ![p] = {}]
  /\ wr' = [wr EXCEPT ![p] = {}]
  /\ UNCHANGED <<number, buf, out>>

createPipes ==
  /\ pc[0] = "start"
  /\ Goto(0, "fork")
  /\ rd' = [rd EXCEPT ![0] = Proc]
  /\ wr' = [wr EXCEPT ![0] = Proc]
  /\ UNCHANGED <<number, buf, out>>

createPipesFails ==
  /\ MayFail
  /\ pc[0] = "start"
  /\ End(0, "failed")

\* The last process returns from recFork() without forking.
recForkStops(p) ==
  /\ pc[p] = "fork"
  /\ p = N-1
  /\ Goto(p, "init")
  /\ UNCHANGED <<number, rd, wr, buf, out>>

\* fork(): the child continues in recFork(n, processNr+1), the parent returns.
recFork(p) ==
  /\ pc[p] = "fork"
  /\ p # N-1
  /\ pc' = [pc EXCEPT ![p] = "init", ![p+1] = "fork"]
  /\ rd' = [rd EXCEPT ![p+1] = rd[p]]
  /\ wr' = [wr EXCEPT ![p+1] = wr[p]]
  /\ UNCHANGED <<number, buf, out>>

recForkFails(p) ==
  /\ MayFail
  /\ pc[p] = "fork"
  /\ p # N-1
  /\ End(p, "failed")

-----------------------------------------------------------------------------
MyPipes(p) == {getMyOutputPipe(p), getMyInputPipe(p)}

\* initPipe(myOutputPipe, true)
initOutputPipe(p) ==
  /\ pc[p] = "init"
  /\ getMyOutputPipe(p) \in rd[p]
  /\ rd' = [rd EXCEPT ![p] = @ \ {getMyOutputPipe(p)}]
  /\ UNCHANGED <<pc, number, wr, buf, out>>

\* initPipe(myInputPipe, false)
initInputPipe(p) ==
  /\ pc[p] = "init"
  /\ getMyOutputPipe(p) \notin rd[p]
  /\ getMyInputPipe(p) \in wr[p]
  /\ wr' = [wr EXCEPT ![p] = @ \ {getMyInputPipe(p)}]
  /\ UNCHANGED <<pc, number, rd, buf, out>>

\* One close() of the loop over the pipes that are not mine: of each the read
\* end first.
closeUnnecessaryPipe(p, i) ==
  LET unnecessary == (rd[p] \union wr[p]) \ MyPipes(p) IN
  /\ pc[p] = "init"
  /\ getMyOutputPipe(p) \notin rd[p]
  /\ getMyInputPipe(p) \notin wr[p]
  /\ i \in unnecessary
  /\ \A j \in unnecessary : i <= j
  /\ \/ i \in rd[p] /\ rd' = [rd EXCEPT ![p] = @ \ {i}] /\ UNCHANGED wr
     \/ i \notin rd[p] /\ wr' = [wr EXCEPT ![p] = @ \ {i}] /\ UNCHANGED rd
  /\ UNCHANGED <<pc, number, buf, out>>

Begin(p, l) ==
  /\ pc[p] = "init"
  /\ rd[p] = {getMyInputPipe(p)}
  /\ wr[p] = {getMyOutputPipe(p)}
  /\ Goto(p, l)
  /\ UNCHANGED <<number, rd, wr, buf, out>>

\* Mutant: every process starts with a print.
startCycleAll(p) == Begin(p, "print")

\* initMyPipes() returns and cycleNumber() begins: process 0 starts with 0,
\* every other process with a read.
startCycle(p) == Begin(p, IF p = 0 THEN "print" ELSE "read")

-----------------------------------------------------------------------------
\* What readIntFromMyPipe() returns: the next int of the pipe, or, when the
\* pipe is at end of file, the uninitialised tempInt.
ReadInt(p, v) ==
  LET i == getMyInputPipe(p) IN
  \/ /\ buf[i] # << >>
     /\ v = Head(buf[i])
     /\ buf' = [buf EXCEPT ![i] = Tail(@)]
  \/ /\ buf[i] = << >>
     /\ ~HasWriter(i)
     /\ v \in Garbage
     /\ UNCHANGED buf

\* The values a read can deliver now.
Incoming(p) == Garbage \cup {Head(buf[i]) : i \in {j \in Proc : buf[j] # << >>}}

\* The read before or at the end of the loop, and the loop condition.
readNumber(p, v) ==
  /\ pc[p] = "read"
  /\ ReadInt(p, v)
  /\ number' = [number EXCEPT ![p] = v]
  /\ Goto(p, IF v = MYSIG_WAITFORCHILD THEN "signal" ELSE "print")
  /\ UNCHANGED <<rd, wr, out>>

PrintNumber(p, l) ==
  /\ pc[p] = "print"
  /\ out' = number[p]
  /\ Goto(p, l)
  /\ UNCHANGED <<number, rd, wr, buf>>

\* Mutant: whoever prints STOPNUMBER returns without passing the signal on.
printOutputReturns(p) == PrintNumber(p, IF number[p] = STOPNUMBER THEN "close" ELSE "write")

\* Mutant: the loop stops one number early.
printOutputEarly(p) == PrintNumber(p, IF number[p] = STOPNUMBER - 1 THEN "signal" ELSE "write")

printOutput(p) == PrintNumber(p, IF number[p] = STOPNUMBER THEN "signal" ELSE "write")

\* writeIntToMyPipe(): blocks while the pipe is full.
WriteInt(p, v) ==
  LET i == getMyOutputPipe(p) IN
  /\ HasReader(i)
  /\ Len(buf[i]) < PipeCap
  /\ buf' = [buf EXCEPT ![i] = Append(@, v)]

Send(p, from, v, l) ==
  /\ pc[p] = from
  /\ WriteInt(p, v)
  /\ Goto(p, l)
  /\ UNCHANGED <<number, rd, wr, out>>

\* Mutant: the increment is forgotten.
writeNumberSame(p) == Send(p, "write", number[p], "read")

writeNumber(p) == Send(p, "write", number[p] + 1, "read")

\* Mutant: nobody waits for the signal to come back.
writeSignalNoDrain(p) == Send(p, "signal", MYSIG_WAITFORCHILD, "close")

\* Pass the stop signal on; the process that printed STOPNUMBER still has to
\* take it back when it has gone around.
writeSignal(p) ==
  Send(p, "signal", MYSIG_WAITFORCHILD, IF number[p] = STOPNUMBER THEN "drain" ELSE "close")

\* A write to a pipe nobody reads: the default action of SIGPIPE.
brokenPipe(p) ==
  /\ pc[p] \in {"write", "signal"}
  /\ ~HasReader(getMyOutputPipe(p))
  /\ End(p, "sigpipe")

\* The last read of cycleNumber(); its value is not used.
drainSignal(p, v) ==
  /\ pc[p] = "drain"
  /\ ReadInt(p, v)
  /\ Goto(p, "close")
  /\ UNCHANGED <<number, rd, wr, out>>

-----------------------------------------------------------------------------
\* cleanup(): the output pipe first, then the input pipe.
closeOutputPipe(p) ==
  /\ pc[p] = "close"
  /\ wr[p] # {}
  /\ wr' = [wr EXCEPT ![p] = @ \ {getMyOutputPipe(p)}]
  /\ UNCHANGED <<pc, number, rd, buf, out>>

closeInputPipe(p) ==
  /\ pc[p] = "close"
  /\ wr[p] = {}
  /\ rd' = [rd EXCEPT ![p] = @ \ {getMyInputPipe(p)}]
  /\ Goto(p, "wait")
  /\ UNCHANGED <<number, wr, buf, out>>

\* Mutant: main() returns without waitpid().
waitForChildNot(p) ==
  /\ pc[p] = "wait"
  /\ End(p, "exited")

\* waitpid(-1, ...) returns at once when there is no child, otherwise when
\* the child is dead; then main() returns.
waitForChild(p) ==
  /\ pc[p] = "wait"
  /\ \A q \in Proc : q = p+1 => pc[q] \in Dead \cup {"unborn"}
  /\ End(p, "exited")

-----------------------------------------------------------------------------
Step(p) ==
  \/ recForkStops(p)
  \/ recFork(p)
  \/ recForkFails(p)
  \/ initOutputPipe(p)
  \/ initInputPipe(p)
  \/ \E i \in Proc : closeUnnecessaryPipe(p, i)
  \/ startCycle(p)
  \/ \E v \in Incoming(p) : readNumber(p, v)
  \/ printOutput(p)
  \/ writeNumber(p)
  \/ writeSignal(p)
  \/ brokenPipe(p)
  \/ \E v \in Incoming(p) : drainSignal(p, v)
  \/ closeOutputPipe(p)
  \/ closeInputPipe(p)
  \/ waitForChild(p)

Create == createPipes \/ createPipesFails

\* All processes that were ever born are gone: the program may stop here.
Finished ==
  /\ \A p \in Proc : pc[p] \in Dead \cup {"unborn"}
  /\ UNCHANGED vars

Next == Create \/ (\E p \in Proc : Step(p)) \/ Finished

Spec == Init /\ [][Next]_vars

\* The scheduler runs every process that is not blocked.
FairSpec == Spec /\ WF_vars(Create) /\ \A p \in Proc : WF_vars(Step(p))
-----------------------------------------------------------------------------
PCs == {"unborn", "start", "fork", "init", "read", "print", "write", "signal",
        "drain", "close", "wait"} \cup Dead

TypeOK ==
  /\ pc \in [Proc -> PCs]
  /\ number \in [Proc -> Int]
  /\ rd \in [Proc -> SUBSET Proc]
  /\ wr \in [Proc -> SUBSET Proc]
  /\ buf \in [Proc -> Seq(Int)]
  /\ out \in Int

\* pipe() or fork() has failed in some process.
Faulty == \E p \in Proc : pc[p] = "failed"

\* ring.c:231 "we don't want their parent to write to an already closed
\* pipe": unless a system call failed, no write ever meets a pipe without a
\* reader.
NoBrokenPipe ==
  ~Faulty => \A p \in Proc :
     pc[p] \in {"write", "signal"} => HasReader(getMyOutputPipe(p))

\* readIntFromMyPipe() does not check what read() returns, so the ring is
\* right only if no read ever meets an end of file: unless a system call
\* failed, whoever waits for an int has an open write end at the other side.
NoEndOfFile ==
  ~Faulty => \A p \in Proc :
     pc[p] \in {"read", "drain"} /\ buf[getMyInputPipe(p)] = << >>
        => HasWriter(getMyInputPipe(p))

\* There is at most one int on its way: processes that are about to print or
\* write, and pipes that hold an int, are never two.
OneToken ==
  ~Faulty => \A p, q \in Proc :
     /\ pc[p] \in {"print", "write", "signal"} => buf[q] = << >>
     /\ pc[p] \in {"print", "write", "signal"} /\ pc[q] \in {"print", "write", "signal"}
          => p = q
     /\ buf[p] # << >> /\ buf[q] # << >> => p = q
     /\ Len(buf[p]) <= 1

\* "Clean up all processes recursively, such that no zombie processes
\* remain": when a process has returned from main(), every process it
\* (transitively) forked has ended before, and all numbers were printed.
RecursiveCleanup ==
  ~Faulty => \A p \in Proc : pc[p] = "exited" =>
     /\ out = STOPNUMBER
     /\ \A q \in Proc : q > p => pc[q] = "exited"

\* Number v is printed by process v modulo N, right after v-1, and only by a
\* process that received it through its pipe (process 0 starts with 0).
PrintsInOrder ==
  [][~Faulty' => \A p \in Proc :
        printOutput(p) => /\ out' = out + 1
                          /\ p = out' % N]_vars

-----------------------------------------------------------------------------
(***************************************************************************)
(* The inductive invariant.  Its parts: which processes exist, which ends  *)
(* they hold, that there is one token, what the token says and where it    *)
(* is, and how far the stop signal has gone.                               *)
(***************************************************************************)
Early == {"unborn", "start", "fork"}
InCycle == {"init", "read", "print", "write", "signal", "drain"}

\* p has the token; before the first print it is with process 0.
Holds(p) == \/ pc[p] \in {"print", "write", "signal"}
            \/ p = 0 /\ pc[p] \in {"start", "fork", "init"}

\* p has passed the stop signal on.
Passed(p) == pc[p] \in {"drain", "close", "wait", "exited"}

Succ(p) == IF p = N-1 THEN 0 ELSE p+1

\* The process that prints STOPNUMBER, and the way from it to p.
Stopper == STOPNUMBER % N
Dist(p) == IF p >= Stopper THEN p - Stopper ELSE p - Stopper + N

\* A process exists only when all its ancestors have forked.
Lineage ==
  /\ \A p \in Proc : pc[p] = "start" => p = 0
  /\ \A p, q \in Proc : q < p /\ pc[p] # "unborn" => pc[q] \notin Early

Births ==
  /\ pc[0] # "unborn"
  /\ \A p \in Proc : p # N-1 /\ pc[p] \notin Early => pc[p+1] # "unborn"
  /\ \/ \E q \in Proc : pc[q] \in {"start", "fork"}
     \/ \A q \in Proc : pc[q] \notin Early
  /\ \A p \in Proc : pc[p] # "sigpipe"

Descriptors == \A p \in Proc :
  /\ pc[p] = "fork" => rd[p] = Proc /\ wr[p] = Proc
  /\ pc[p] \in InCycle => /\ getMyInputPipe(p) \in rd[p]
                          /\ getMyOutputPipe(p) \in wr[p]

Tokens ==
  /\ \A p, q \in Proc : Holds(p) => buf[q] = << >>
  /\ \A p, q \in Proc : Holds(p) /\ Holds(q) => p = q
  /\ \A p, q \in Proc : buf[p] # << >> /\ buf[q] # << >> => p = q
  /\ \A p \in Proc : Len(buf[p]) <= 1

Values ==
  /\ out \in -1 .. STOPNUMBER
  /\ pc[0] \in {"start", "fork", "init"} => out = -1 /\ number[0] = 0
  /\ \A p \in Proc : pc[p] = "print" =>
        out < STOPNUMBER /\ number[p] = out+1 /\ p = (out+1) % N
  /\ \A p \in Proc : pc[p] = "write" =>
        out \in 0 .. STOPNUMBER-1 /\ number[p] = out /\ p = out % N
  /\ \A p \in Proc : pc[p] = "signal" =>
        /\ out = STOPNUMBER
        /\ number[p] = IF p = Stopper THEN STOPNUMBER ELSE MYSIG_WAITFORCHILD
        /\ \A q \in Proc : Passed(q) <=> Dist(q) < Dist(p)
  /\ \A i \in Proc : buf[i] # << >> =>
        \/ /\ out \in 0 .. STOPNUMBER-1
           /\ Head(buf[i]) = out+1
           /\ i = out % N
        \/ /\ out = STOPNUMBER
           /\ Head(buf[i]) = MYSIG_WAITFORCHILD
           /\ \A q \in Proc : Passed(q) <=> Dist(q) <= Dist(i)

Stopping ==
  /\ \A p \in Proc : Passed(p) => out = STOPNUMBER
  /\ \A p \in Proc : pc[p] = "drain" => p = Stopper
  /\ pc[Stopper] \in {"close", "wait", "exited"}
        => \A q \in Proc : Passed(q) /\ buf[q] = << >>
  /\ \A i \in Proc : Passed(i) =>
        \/ buf[i] # << >>
        \/ pc[Succ(i)] \in {"signal", "close", "wait", "exited"}
  /\ \A p, q \in Proc : pc[p] = "exited" /\ q > p => pc[q] = "exited"

\* The rest holds while no system call has failed.
RingInv ==
  /\ Lineage
  /\ ~Faulty => Births /\ Descriptors /\ Tokens /\ Values /\ Stopping

-----------------------------------------------------------------------------
\* Nobody waits forever.  Without a failure every process returns from
\* main(); when pipe() or fork() has failed, the processes that already run
\* read ends of file and garbage, but they come to an end, too.
Terminates ==
  <>(\A p \in Proc : pc[p] = "exited" \/ (Faulty /\ pc[p] \in Dead \cup {"unborn"}))

\* The ring implements the counter its description promises.
Count == INSTANCE RingCount WITH broken <- Faulty
CountsUp == Count!Spec
=============================================================================
