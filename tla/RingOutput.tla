----------------------------- MODULE RingOutput -----------------------------
(***************************************************************************)
(* The ring with its standard output redirected to a file.  Then stdio     *)
(* keeps what printOutput() prints in a buffer of the process (50 short    *)
(* lines never fill it), fork() copies the buffer, exit() and the return   *)
(* from main() write it to the file, and a signal loses it.                *)
(***************************************************************************)
EXTENDS Ring

VARIABLES
  lines,   \* lines[p]: the numbers in the buffer of process p
  file     \* the numbers in the file

BufferedInit == Init /\ lines = [p \in Proc |-> << >>] /\ file = << >>

Dies(p) == pc[p] \notin Dead /\ pc'[p] \in Dead

buffers(p) ==
  IF Dies(p) THEN << >>
  ELSE IF pc[p] = "print" /\ pc'[p] # "print" THEN Append(lines[p], out')
  ELSE IF pc[p] = "unborn" /\ pc'[p] # "unborn" THEN lines[p-1]
  ELSE lines[p]

printOutputBuffered ==
  /\ lines' = [p \in Proc |-> buffers(p)]
  /\ file' = IF \E p \in Proc : Dies(p) /\ pc'[p] # "sigpipe"
             THEN file \o lines[CHOOSE p \in Proc : Dies(p)] ELSE file

BufferedNext == Next /\ printOutputBuffered

BufferedSpec == BufferedInit /\ [][BufferedNext]_<<vars, lines, file>>
BufferedFairSpec == BufferedSpec /\ WF_vars(Create) /\ \A p \in Proc : WF_vars(Step(p))
-----------------------------------------------------------------------------
Numbers(s) == {s[a] : a \in 1 .. Len(s)}
Ascending(s) == \A a, b \in 1 .. Len(s) : a < b => s[a] < s[b]

\* Grouped by process, the youngest first, and ascending within a process.
Grouped(s) == \A a, b \in 1 .. Len(s) : a < b =>
                s[a] % N > s[b] % N \/ (s[a] % N = s[b] % N /\ s[a] < s[b])

\* Nothing is lost and nothing is written twice in the file: unless a call
\* failed, it has every number when all processes are gone, grouped by
\* process.  (The order in which the numbers were printed is lost.)
GroupedInFile ==
  ~Faulty =>
    /\ Grouped(file)
    /\ (\A p \in Proc : pc[p] = "exited") => Numbers(file) = 0 .. STOPNUMBER

-----------------------------------------------------------------------------
(***************************************************************************)
(* The inductive invariant: a process that still runs has in its buffer    *)
(* what it has printed, and none of it when it forks; the file has what    *)
(* the others have printed.                                                *)
(***************************************************************************)
PrintedBy(p) == {v \in 0 .. out : v % N = p}

OutputInv ==
  ~Faulty =>
    /\ \A p \in Proc : lines[p] \in Seq(Int)
    /\ \A p \in Proc : pc[p] \in Early \cup {"init"} => lines[p] = << >>
    /\ \A p \in Proc : pc[p] \notin Dead =>
         Numbers(lines[p]) = PrintedBy(p) /\ Ascending(lines[p])
    /\ file \in Seq(Int) /\ Grouped(file)
    /\ Numbers(file) = {v \in 0 .. out : pc[v % N] = "exited"}
=============================================================================
