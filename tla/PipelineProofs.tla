--------------------------- MODULE PipelineProofs ---------------------------
(***************************************************************************)
(* Proofs about Pipeline for jobs of any length: types, and the safety of  *)
(* safelyFork().                                                           *)
(***************************************************************************)
EXTENDS Pipeline, TLAPS

\* Every command of the job is a process, and none is the handler.
LEMMA JobLength ==
  ASSUME job \in Jobs
  PROVE  /\ Len(job) \in Nat
         /\ Len(job) \in 1 .. MaxCmds
         /\ 0 \in Procs
         /\ Cmds \subseteq Procs \ {0}
BY PipelineAssumption DEF Procs, Cmds

\* Dying and closing keep the types of the descriptor tables.
LEMMA DieType ==
  ASSUME TypeOK, NEW p \in Procs, NEW how \in Dead, Die(p, how)
  PROVE  TypeOK'
<1>1. Closed \in [FDs -> Objects]
  BY DEF Closed, Objects
<1>2. fds' \in [Procs -> [FDs -> Objects]]
  BY <1>1 DEF Die, TypeOK, Objects
<1>4. pc' = [pc EXCEPT ![p] = how] /\ how \in Dead
  BY DEF Die, Goto
<1>5. (pc[0] \in {"prctl", "getppid", "pipe", "fork", "parent"} => current <= Len(job))'
  BY <1>4 DEF Die, TypeOK, Dead
<1>3. term' \in [Procs -> BOOLEAN]
  BY DEF Die, TypeOK
<1> QED BY <1>2, <1>3, <1>4, <1>5 DEF Die, TypeOK, Objects

LEMMA CloseType ==
  ASSUME NEW S, Free \in S, NEW t \in [FDs -> S], NEW f
  PROVE  Close(t, f) \in [FDs -> S]
BY DEF Close

\* Descriptor numbers, descriptors and program counters keep their types in
\* every step of every process.
THEOREM TypeCorrect == Spec => []TypeOK
<1> USE PipelineAssumption
<1> DEFINE EndPairs == (FDs \cup {-1}) \X (FDs \cup {-1})
<1>1. Init => TypeOK
  <2> SUFFICES ASSUME Init PROVE TypeOK
    OBVIOUS
  <2>1. fds \in [Procs -> [FDs -> Objects]]
    BY DEF Init, Closed, Objects
  <2>2. job \in Jobs /\ current \in 1 .. Len(job) + 1
    BY JobLength DEF Init
  <2>3. pc \in [Procs -> {"prctl", "unborn"}]
    BY DEF Init
  <2> QED BY <2>1, <2>2, <2>3 DEF Init, TypeOK
<1>2. TypeOK /\ [Next]_vars => TypeOK'
  <2> SUFFICES ASSUME TypeOK, [Next]_vars PROVE TypeOK'
    OBVIOUS
  <2>0. /\ Len(job) \in Nat /\ Len(job) \in 1 .. MaxCmds /\ 0 \in Procs
        /\ Cmds \subseteq Procs \ {0} /\ job \in Jobs /\ job' = job
        /\ Free \in Objects /\ File \in Objects
    <3>1. job' = job
      BY DEF Next, vars, interpretSimpleList, makePipe, makePipeFails, fork, forkFails,
         parentBranch, Switch, waitForChildren, safelyFork, prctl, prctlFails, getppid, Terminated,
         handleCommandList, closeUnused, CloseEnds, connect, handleCommandElementList,
         handleCommandFails, execvp, Program, ProgramReadsEof, ProgramWritesNowhere,
         ProgramStops, ShellEnds, Finished, Die
    <3> QED BY <3>1, JobLength DEF TypeOK, Objects
  <2>1. CASE makePipe
    <3>1. CASE current < Len(job)
      <4>1. PICK r \in FDs, w \in FDs :
              /\ outgoingPipe' = [outgoingPipe EXCEPT ![0] = <<r, w>>]
              /\ fds' = [fds EXCEPT ![0] =
                   [[fds[0] EXCEPT ![r] = ReadEnd(current)] EXCEPT ![w] = WriteEnd(current)]]
        BY <2>1, <3>1 DEF makePipe
      <4>2. current \in Procs
        BY <2>0, <3>1 DEF TypeOK, Procs
      <4>3. ReadEnd(current) \in Objects /\ WriteEnd(current) \in Objects
        BY <4>2 DEF Objects
      <4>4. fds' \in [Procs -> [FDs -> Objects]]
        <5> HIDE DEF Objects
        <5> QED BY <2>0, <4>1, <4>3 DEF TypeOK
      <4>5. outgoingPipe' \in [Procs -> EndPairs]
        <5>1. <<r, w>> \in EndPairs
          OBVIOUS
        <5> HIDE DEF EndPairs
        <5>2. outgoingPipe \in [Procs -> EndPairs]
          BY DEF TypeOK, EndPairs
        <5> QED BY <2>0, <4>1, <5>1, <5>2
      <4> QED BY <2>0, <2>1, <4>4, <4>5 DEF TypeOK, makePipe, Goto, Objects
    <3>2. CASE ~(current < Len(job))
      <4>1. outgoingPipe' \in [Procs -> EndPairs]
        <5>1. <<-1, -1>> \in EndPairs
          OBVIOUS
        <5> HIDE DEF EndPairs
        <5>2. outgoingPipe \in [Procs -> EndPairs]
          BY DEF TypeOK, EndPairs
        <5> QED BY <2>0, <2>1, <3>2, <5>1, <5>2 DEF makePipe
      <4> QED BY <2>0, <2>1, <3>2, <4>1 DEF TypeOK, makePipe, Goto, Objects
    <3> QED BY <3>1, <3>2
  <2>2. CASE makePipeFails \/ forkFails \/ waitForChildren
    BY <2>0, <2>2, DieType DEF makePipeFails, forkFails, waitForChildren, Dead
  <2>3. CASE fork
    <3>1. /\ fds' \in [Procs -> [FDs -> Objects]]
          /\ incomingPipe' \in [Procs -> EndPairs]
          /\ outgoingPipe' \in [Procs -> EndPairs]
      <4> HIDE DEF Objects
      <4> QED BY <2>0, <2>3 DEF TypeOK, fork
    <3> QED BY <2>0, <2>3, <3>1 DEF TypeOK, fork, Objects
  <2>4. CASE parentBranch
    <3>1. fds' \in [Procs -> [FDs -> Objects]]
      <4>1. Close(Close(fds[0], incomingPipe[0][1]), outgoingPipe[0][2]) \in [FDs -> Objects]
        BY <2>0, CloseType DEF TypeOK
      <4> HIDE DEF Objects
      <4> QED BY <2>0, <2>4, <4>1 DEF TypeOK, parentBranch, Switch
    <3>2. /\ incomingPipe' \in [Procs -> EndPairs]
          /\ outgoingPipe' \in [Procs -> EndPairs]
      BY <2>0, <2>4 DEF TypeOK, parentBranch, Switch
    <3>3. current' \in 1 .. Len(job) + 1
      BY <2>0, <2>4 DEF TypeOK, parentBranch, Switch
    <3>4. pc' = [pc EXCEPT ![0] = IF current < Len(job) THEN "pipe" ELSE "wait"]
      BY <2>4 DEF parentBranch, Switch, Goto
    <3>5. pc'[0] = "pipe" => current' <= Len(job')
      BY <2>0, <2>4, <3>4 DEF TypeOK, parentBranch, Switch
    <3>6. pc'[0] \in {"pipe", "wait"}
      BY <2>0, <3>4 DEF TypeOK
    <3> QED BY <2>0, <2>4, <3>1, <3>2, <3>3, <3>4, <3>5, <3>6
            DEF TypeOK, parentBranch, Switch, Objects
  <2>5. ASSUME NEW p \in Procs, safelyFork(p) PROVE TypeOK'
    <3>1. CASE prctl(p)
      BY <2>0, <3>1 DEF TypeOK, prctl, Goto, Objects
    <3>2. CASE prctlFails(p)
      BY <3>2, DieType DEF prctlFails, Dead
    <3>3. CASE getppid(p)
      <4>1. CASE ParentAlive(p)
        BY <2>0, <3>3, <4>1 DEF TypeOK, getppid, Goto, Objects
      <4>2. CASE ~ParentAlive(p)
        BY <3>3, <4>2, DieType DEF getppid, Dead
      <4> QED BY <4>1, <4>2
    <3> QED BY <2>5, <3>1, <3>2, <3>3 DEF safelyFork
  <2>6. ASSUME NEW p \in Procs, Terminated(p) PROVE TypeOK'
    BY <2>6, DieType DEF Terminated, Dead
  <2>7. ASSUME NEW c \in Procs, handleCommandList(c) PROVE TypeOK'
    <3>1. CASE closeUnused(c)
      <4>1. Close(Close(fds[c], incomingPipe[c][2]), outgoingPipe[c][1]) \in [FDs -> Objects]
        BY <2>0, CloseType DEF TypeOK
      <4>2. fds' \in [Procs -> [FDs -> Objects]]
        BY <2>0, <3>1, <4>1 DEF TypeOK, closeUnused, CloseEnds
      <4> QED BY <2>0, <3>1, <4>2 DEF TypeOK, closeUnused, CloseEnds, Goto, Objects
    <3>2. CASE connect(c)
      <4> DEFINE i == incomingPipe[c][1]
                 o == outgoingPipe[c][2]
                 t == IF i >= 0 THEN [fds[c] EXCEPT ![STDIN_FD] = fds[c][i]] ELSE fds[c]
                 u == IF o >= 0 THEN [t EXCEPT ![STDOUT_FD] = t[o]] ELSE t
      <4>1. i \in FDs \cup {-1} /\ o \in FDs \cup {-1} /\ fds[c] \in [FDs -> Objects]
        BY DEF TypeOK
      <4>2. (i >= 0 => i \in FDs) /\ (o >= 0 => o \in FDs)
        BY <4>1
      <4>3. t \in [FDs -> Objects]
        BY <4>1, <4>2
      <4>4. u \in [FDs -> Objects]
        <5> HIDE DEF t, i, o, Objects
        <5> QED BY <4>2, <4>3
      <4>5. CASE fds' = [fds EXCEPT ![c] = u] /\ Goto(c, "redirect")
                 /\ UNCHANGED <<job, shell, current, incomingPipe, outgoingPipe, pdeath, term>>
        <5> HIDE DEF u
        <5>1. fds' \in [Procs -> [FDs -> Objects]]
          BY <4>4, <4>5 DEF TypeOK
        <5> QED BY <2>0, <4>5, <5>1 DEF TypeOK, Goto, Objects
      <4>6. CASE Die(c, "failed")
        BY <4>6, DieType DEF Dead
      <4> QED BY <3>2, <4>5, <4>6 DEF connect
    <3>3. CASE handleCommandElementList(c)
      <4>1. \A t \in [FDs -> Objects] : \A f : \A w : Redirect(t, f, w) \in [FDs -> Objects]
        BY <2>0 DEF Redirect
      <4>2. fds' \in [Procs -> [FDs -> Objects]]
        BY <3>3, <4>1 DEF TypeOK, handleCommandElementList
      <4> QED BY <2>0, <3>3, <4>2 DEF TypeOK, handleCommandElementList, Goto, Objects
    <3>4. CASE handleCommandFails(c)
      BY <3>4, DieType DEF handleCommandFails, Dead
    <3>5. CASE execvp(c)
      <4>1. CASE job[c].exists
        BY <2>0, <3>5, <4>1 DEF TypeOK, execvp, Goto, Objects
      <4>2. CASE ~job[c].exists
        BY <3>5, <4>2, DieType DEF execvp, Dead
      <4> QED BY <4>1, <4>2
    <3> QED BY <2>7, <3>1, <3>2, <3>3, <3>4, <3>5 DEF handleCommandList
  <2>8. ASSUME NEW c \in Procs, Program(c) PROVE TypeOK'
    BY <2>8, DieType DEF Program, ProgramReadsEof, ProgramWritesNowhere, Dead
  <2>9. ASSUME NEW c \in Procs, NEW how \in {"success", "failure"}, ProgramStops(c, how)
        PROVE  TypeOK'
    BY <2>9, DieType DEF ProgramStops, Dead
  <2>10. CASE ShellEnds
    BY <2>0, <2>10 DEF TypeOK, ShellEnds, Objects
  <2>11. CASE UNCHANGED vars
    BY <2>11 DEF TypeOK, vars, Objects
  <2> QED BY <2>0, <2>1, <2>2, <2>3, <2>4, <2>5, <2>6, <2>7, <2>8, <2>9, <2>10, <2>11
          DEF Next, interpretSimpleList, Finished
<1> QED BY <1>1, <1>2, PTL DEF Spec

-----------------------------------------------------------------------------
(***************************************************************************)
(* safelyFork().  The strengthening: whoever is past prctl() has asked for *)
(* the signal, so that a parent that dies later cannot miss it; whoever is *)
(* past getppid() had a parent after that.                                 *)
(***************************************************************************)
Asked == \A p \in Procs : pc[p] \notin Gone \cup {"prctl"} => pdeath[p]

\* The death of a process leaves no other process unsignalled.
LEMMA DieSafe ==
  ASSUME TypeOK, Asked, NoOrphan, NEW p \in Procs, NEW how \in Dead, Die(p, how)
  PROVE  Asked' /\ NoOrphan'
<1>1. /\ pc' = [pc EXCEPT ![p] = how]
      /\ pdeath' = pdeath /\ shell' = shell
      /\ \A q \in Procs : term'[q] <=>
            term[q] \/ (p = 0 /\ q # 0 /\ pdeath[q] /\ pc[q] \notin Gone)
  BY DEF Die, Goto, TypeOK
<1>2. Asked'
  BY <1>1 DEF Asked, Gone, TypeOK
<1>3. NoOrphan'
  <2> SUFFICES ASSUME NEW q \in Procs, ~ParentAlive(q)',
                      pc'[q] \notin Gone \cup {"prctl", "getppid"}
               PROVE  term'[q]
    BY DEF NoOrphan
  <2>1. q # p /\ pc'[q] = pc[q]
    BY <1>1 DEF Gone, TypeOK
  <2>2. CASE ~ParentAlive(q)
    BY <1>1, <2>1, <2>2 DEF NoOrphan
  <2>3. CASE ParentAlive(q)
    <3>1. p = 0 /\ q # 0
      BY <1>1, <2>1, <2>3 DEF ParentAlive, TypeOK
    <3>2. pdeath[q] /\ pc[q] \notin Gone
      BY <2>1 DEF Asked
    <3> QED BY <1>1, <3>1, <3>2
  <2> QED BY <2>2, <2>3
<1> QED BY <1>2, <1>3

\* A step that moves one live process and signals nobody.
LEMMA MoveSafe ==
  ASSUME TypeOK, Asked, NoOrphan, NEW p \in Procs, NEW l,
         l \notin Gone \cup {"prctl", "getppid"},
         pc[p] \notin Gone \cup {"prctl"},
         pc[p] = "getppid" => ParentAlive(p),
         pc' = [pc EXCEPT ![p] = l], UNCHANGED <<shell, pdeath, term>>
  PROVE  Asked' /\ NoOrphan'
<1>1. Asked'
  BY DEF Asked, TypeOK
<1>2. \A q \in Procs : ParentAlive(q)' <=> ParentAlive(q)
  BY DEF ParentAlive, TypeOK, Gone
<1>3. NoOrphan'
  BY <1>2 DEF NoOrphan, TypeOK
<1> QED BY <1>1, <1>3

\* SafelyFork.c:15 for every job: no process outlives its parent without a
\* SIGTERM on its way, at whatever step the parent died.
THEOREM NobodyIsOrphaned == Spec => []NoOrphan
<1> USE PipelineAssumption
<1>1. Init => Asked /\ NoOrphan
  BY DEF Init, Asked, NoOrphan, Gone, ParentAlive
<1>2. TypeOK /\ Asked /\ NoOrphan /\ [Next]_vars => Asked' /\ NoOrphan'
  <2> SUFFICES ASSUME TypeOK, Asked, NoOrphan, [Next]_vars PROVE Asked' /\ NoOrphan'
    OBVIOUS
  <2>0. 0 \in Procs /\ Cmds \subseteq Procs \ {0}
    BY JobLength DEF TypeOK
  <2>1. CASE makePipe
    BY <2>0, <2>1, MoveSafe DEF makePipe, Goto, Gone, Dead
  <2>2. CASE makePipeFails \/ forkFails \/ waitForChildren
    BY <2>0, <2>2, DieSafe DEF makePipeFails, forkFails, waitForChildren, Dead
  <2>3. CASE fork
    <3>1. current # 0 /\ pc' = [pc EXCEPT ![0] = "parent", ![current] = "prctl"]
          /\ UNCHANGED <<shell, pdeath, term>> /\ pc[0] = "fork"
      BY <2>3, JobLength DEF fork, TypeOK
    <3>2. \A q \in Procs : ParentAlive(q)' <=> ParentAlive(q)
      BY <2>0, <3>1 DEF ParentAlive, TypeOK, Dead
    <3>3. Asked'
      BY <3>1 DEF Asked, TypeOK, Gone, Dead
    <3>4. NoOrphan'
      BY <3>1, <3>2 DEF NoOrphan, TypeOK, Gone, Dead
    <3> QED BY <3>3, <3>4
  <2>4. CASE parentBranch
    BY <2>0, <2>4, MoveSafe DEF parentBranch, Switch, Goto, Gone, Dead
  <2>5. ASSUME NEW p \in Procs, safelyFork(p) PROVE Asked' /\ NoOrphan'
    <3>1. CASE prctl(p)
      <4>1. \A q \in Procs : ParentAlive(q)' <=> ParentAlive(q)
        BY <2>0, <3>1 DEF prctl, Goto, ParentAlive, TypeOK, Dead
      <4>2. Asked'
        BY <3>1 DEF prctl, Goto, Asked, TypeOK
      <4>3. NoOrphan'
        BY <3>1, <4>1 DEF prctl, Goto, NoOrphan, TypeOK
      <4> QED BY <4>2, <4>3
    <3>2. CASE prctlFails(p)
      BY <3>2, DieSafe DEF prctlFails, Dead
    <3>3. CASE getppid(p) /\ ParentAlive(p)
      BY <3>3, MoveSafe DEF getppid, Goto, Gone, Dead
    <3>4. CASE getppid(p) /\ ~ParentAlive(p)
      BY <3>4, DieSafe DEF getppid, Dead
    <3> QED BY <2>5, <3>1, <3>2, <3>3, <3>4 DEF safelyFork
  <2>6. ASSUME NEW p \in Procs, Terminated(p) PROVE Asked' /\ NoOrphan'
    BY <2>6, DieSafe DEF Terminated, Dead
  <2>7. ASSUME NEW c \in Procs, handleCommandList(c) PROVE Asked' /\ NoOrphan'
    <3>1. CASE closeUnused(c)
      BY <3>1, MoveSafe DEF closeUnused, CloseEnds, Goto, Gone, Dead
    <3>2. CASE connect(c)
      <4>1. CASE Die(c, "failed")
        BY <4>1, DieSafe DEF Dead
      <4>2. CASE Goto(c, "redirect") /\ UNCHANGED <<shell, pdeath, term>>
        BY <3>2, <4>2, MoveSafe DEF connect, Goto, Gone, Dead
      <4> QED BY <3>2, <4>1, <4>2 DEF connect
    <3>3. CASE handleCommandElementList(c)
      BY <3>3, MoveSafe DEF handleCommandElementList, Goto, Gone, Dead
    <3>4. CASE handleCommandFails(c)
      BY <3>4, DieSafe DEF handleCommandFails, Dead
    <3>5. CASE execvp(c)
      <4>1. CASE Die(c, "failed")
        BY <4>1, DieSafe DEF Dead
      <4>2. CASE Goto(c, "run") /\ UNCHANGED <<shell, pdeath, term>>
        BY <3>5, <4>2, MoveSafe DEF execvp, Goto, Gone, Dead
      <4> QED BY <3>5, <4>1, <4>2 DEF execvp
    <3> QED BY <2>7, <3>1, <3>2, <3>3, <3>4, <3>5 DEF handleCommandList
  <2>8. ASSUME NEW c \in Procs, Program(c) PROVE Asked' /\ NoOrphan'
    BY <2>8, DieSafe DEF Program, ProgramReadsEof, ProgramWritesNowhere, Dead
  <2>9. ASSUME NEW c \in Procs, NEW how \in {"success", "failure"}, ProgramStops(c, how)
        PROVE  Asked' /\ NoOrphan'
    BY <2>9, DieSafe DEF ProgramStops, Dead
  <2>10. CASE ShellEnds
    <3>1. /\ UNCHANGED <<pc, pdeath>>
          /\ \A q \in Procs : q # 0 => term'[q] = term[q]
          /\ term'[0] <=> pdeath[0] /\ pc[0] \notin Dead
      BY <2>0, <2>10 DEF ShellEnds, TypeOK
    <3>2. Asked'
      BY <3>1 DEF Asked
    <3>3. NoOrphan'
      BY <2>0, <3>1 DEF NoOrphan, Asked, ParentAlive, Gone
    <3> QED BY <3>2, <3>3
  <2>11. CASE UNCHANGED vars
    BY <2>11 DEF vars, Asked, NoOrphan, ParentAlive
  <2> QED BY <2>0, <2>1, <2>2, <2>3, <2>4, <2>5, <2>6, <2>7, <2>8, <2>9, <2>10, <2>11
          DEF Next, interpretSimpleList, Finished
<1> QED BY <1>1, <1>2, TypeCorrect, PTL DEF Spec
-----------------------------------------------------------------------------
(***************************************************************************)
(* The descriptors, for pipelines of up to three commands.  ShortInv says  *)
(* which descriptor table every process has at every label: the numbers    *)
(* that pipe() hands out are known then, and no number that interpreter.c  *)
(* remembers as closed is handed out again.                                *)
(***************************************************************************)
LEMMA ShortJob ==
  ASSUME TypeOK, Short
  PROVE  /\ Len(job) \in {1, 2, 3}
         /\ Cmds \subseteq {1, 2, 3} /\ Cmds \subseteq Procs \ {0}
         /\ 0 \in Procs
         /\ {0, 1, 2, 3, 4, 5, 6} \subseteq FDs
         /\ \A f \in FDs : f \in Int /\ f >= 0
BY JobLength, PipelineAssumption DEF TypeOK, Short, Cmds, FDs

LEMMA UpToThree ==
  ASSUME NEW n \in {1, 2, 3}, NEW k \in 1 .. n
  PROVE  /\ k = 1 \/ k = 2 \/ k = 3
         /\ k < n => k = 1 \/ k = 2
<1>1. n = 1 \/ n = 2 \/ n = 3
  OBVIOUS
<1>2. k \in Int /\ 1 <= k /\ k <= n
  OBVIOUS
<1>3. k = 1 \/ k = 2 \/ k = 3
  BY <1>1, <1>2
<1> QED BY <1>1, <1>2, <1>3

\* The kinds of open files differ.
LEMMA Different ==
  /\ Tty # Free /\ File # Free
  /\ \A k : ReadEnd(k) # Free /\ WriteEnd(k) # Free
BY DEF Tty, Free, File, ReadEnd, WriteEnd

\* A table that has a free number not above k has a lowest one, not above k.
LEMMA LowestFreeExists ==
  ASSUME NEW t, NEW k \in 0 .. 6, t[k] = Free, MaxFd \in Nat, MaxFd >= 6
  PROVE  /\ LowestFree(t) \in FDs
         /\ t[LowestFree(t)] = Free
         /\ LowestFree(t) <= k
<1>1. \E m \in 0 .. 6 : t[m] = Free /\ m <= k /\ \A g \in 0 .. 6 : t[g] = Free => m <= g
  <2>1. CASE t[0] = Free
    BY <2>1
  <2>2. CASE t[0] # Free /\ t[1] = Free
    BY <2>2
  <2>3. CASE t[0] # Free /\ t[1] # Free /\ t[2] = Free
    BY <2>3
  <2>4. CASE t[0] # Free /\ t[1] # Free /\ t[2] # Free /\ t[3] = Free
    BY <2>4
  <2>5. CASE t[0] # Free /\ t[1] # Free /\ t[2] # Free /\ t[3] # Free /\ t[4] = Free
    BY <2>5
  <2>6. CASE /\ t[0] # Free /\ t[1] # Free /\ t[2] # Free /\ t[3] # Free /\ t[4] # Free
             /\ t[5] = Free
    BY <2>6
  <2>7. CASE /\ t[0] # Free /\ t[1] # Free /\ t[2] # Free /\ t[3] # Free /\ t[4] # Free
             /\ t[5] # Free
    BY <2>7
  <2> QED BY <2>1, <2>2, <2>3, <2>4, <2>5, <2>6, <2>7
<1>2. PICK m \in 0 .. 6 : t[m] = Free /\ m <= k /\ \A g \in 0 .. 6 : t[g] = Free => m <= g
  BY <1>1
<1>3. m \in FDs /\ IsLowestFree(t, m)
  BY <1>2 DEF FDs, IsLowestFree
<1>4. LowestFree(t) \in FDs /\ IsLowestFree(t, LowestFree(t))
  BY <1>3 DEF LowestFree
<1> QED BY <1>2, <1>3, <1>4 DEF IsLowestFree, FDs

\* The death of a process keeps the tables: nothing is said of the dead.
LEMMA DieShort ==
  ASSUME TypeOK, Short, HandlerTable, CommandTables, AllInitiated,
         NEW p \in Procs, NEW how \in Dead, Die(p, how),
         how = "failed" /\ p # 0 =>
           MayFail \/ pc[0] \in Dead \/ \E c \in Cmds : ~job[c].exists
  PROVE  HandlerTable' /\ CommandTables' /\ AllInitiated'
<1>0. /\ pc' = [pc EXCEPT ![p] = how] /\ fds' = [fds EXCEPT ![p] = Closed]
      /\ UNCHANGED <<job, shell, current, incomingPipe, outgoingPipe>>
      /\ 0 \in Procs /\ Cmds \subseteq Procs \ {0} /\ Cmds' = Cmds
  BY ShortJob DEF Die, Goto, Cmds
<1>1. HandlerTable'
  <2>1. CASE p = 0
    BY <1>0, <2>1 DEF HandlerTable, TypeOK, Dead
  <2>2. CASE p # 0
    <3>1. pc'[0] = pc[0] /\ fds'[0] = fds[0]
      BY <1>0, <2>2 DEF TypeOK
    <3> QED BY <1>0, <3>1 DEF HandlerTable, InFds, OutFds, Held, Given, EndsTable
  <2> QED BY <2>1, <2>2
<1>2. CommandTables'
  <2> SUFFICES ASSUME NEW c \in Cmds PROVE CommandTable(c)'
    BY <1>0 DEF CommandTables
  <2>1. CASE c = p
    BY <1>0, <2>1 DEF CommandTable, TypeOK, Dead
  <2>2. CASE c # p
    <3>1. pc'[c] = pc[c] /\ fds'[c] = fds[c] /\ CommandTable(c)
      BY <1>0, <2>2 DEF TypeOK, CommandTables
    <3> QED BY <1>0, <3>1 DEF CommandTable, InFds, OutFds, Given, EndsTable, Input, Output
  <2> QED BY <2>1, <2>2
<1>3. AllInitiated'
  BY <1>0 DEF AllInitiated, TypeOK, Dead
<1> QED BY <1>1, <1>2, <1>3

\* A step of one command that has its table right leaves the others alone.
LEMMA CommandMoves ==
  ASSUME TypeOK, Short, HandlerTable, CommandTables, AllInitiated,
         NEW p \in Procs \ {0}, NEW l, l # "failed",
         pc' = [pc EXCEPT ![p] = l],
         \A q \in Procs \ {p} : fds'[q] = fds[q],
         UNCHANGED <<job, current, incomingPipe, outgoingPipe>>,
         p \in Cmds => CommandTable(p)'
  PROVE  HandlerTable' /\ CommandTables' /\ AllInitiated'
<1>0. 0 \in Procs /\ Cmds \subseteq Procs \ {0} /\ Cmds' = Cmds
  BY ShortJob DEF Cmds
<1>1. HandlerTable'
  <2>1. pc'[0] = pc[0] /\ fds'[0] = fds[0]
    BY <1>0 DEF TypeOK
  <2> QED BY <2>1 DEF HandlerTable, InFds, OutFds, Held, Given, EndsTable
<1>2. CommandTables'
  <2> SUFFICES ASSUME NEW c \in Cmds, c # p PROVE CommandTable(c)'
    BY <1>0 DEF CommandTables
  <2>1. pc'[c] = pc[c] /\ fds'[c] = fds[c] /\ CommandTable(c)
    BY <1>0 DEF TypeOK, CommandTables
  <2> QED BY <2>1 DEF CommandTable, InFds, OutFds, Given, EndsTable, Input, Output
<1>3. AllInitiated'
  BY <1>0 DEF AllInitiated, TypeOK
<1> QED BY <1>1, <1>2, <1>3

\* A step of the handler that has its table right leaves the commands alone.
LEMMA HandlerMoves ==
  ASSUME TypeOK, Short, CommandTables, AllInitiated,
         NEW l, pc[0] \notin Dead, pc' = [pc EXCEPT ![0] = l], job' = job,
         \A q \in Procs \ {0} : /\ fds'[q] = fds[q]
                                /\ incomingPipe'[q] = incomingPipe[q]
                                /\ outgoingPipe'[q] = outgoingPipe[q],
         HandlerTable'
  PROVE  HandlerTable' /\ CommandTables' /\ AllInitiated'
<1>0. 0 \in Procs /\ Cmds \subseteq Procs \ {0} /\ Cmds' = Cmds
  BY ShortJob DEF Cmds
<1>2. CommandTables'
  <2> SUFFICES ASSUME NEW c \in Cmds PROVE CommandTable(c)'
    BY <1>0 DEF CommandTables
  <2>1. /\ pc'[c] = pc[c] /\ fds'[c] = fds[c] /\ CommandTable(c)
        /\ incomingPipe'[c] = incomingPipe[c] /\ outgoingPipe'[c] = outgoingPipe[c]
    BY <1>0 DEF TypeOK, CommandTables
  <2> QED BY <2>1 DEF CommandTable, InFds, OutFds, Given, EndsTable, Input, Output
<1>3. AllInitiated'
  BY <1>0 DEF AllInitiated, TypeOK
<1> QED BY <1>2, <1>3
\* pipe() hands out 3 and 4 for the first pipe, 4 and 5 for the second.
LEMMA MakePipeShort ==
  ASSUME TypeOK, Short, HandlerTable, CommandTables, AllInitiated, makePipe
  PROVE  HandlerTable' /\ CommandTables' /\ AllInitiated'
<1>0. /\ Len(job) \in {1, 2, 3} /\ 0 \in Procs /\ Cmds \subseteq Procs \ {0}
      /\ {0, 1, 2, 3, 4, 5, 6} \subseteq FDs
      /\ \A f \in FDs : f \in Int /\ f >= 0
  BY ShortJob
<1>1. /\ pc[0] = "pipe" /\ pc' = [pc EXCEPT ![0] = "fork"]
      /\ UNCHANGED <<job, current, incomingPipe>>
      /\ current \in 1 .. Len(job)
      /\ incomingPipe[0] = InFds(current) /\ fds[0] = Held(current)
  BY <1>0 DEF makePipe, Goto, TypeOK, HandlerTable
<1>9. /\ current = 1 \/ current = 2 \/ current = 3
      /\ current < Len(job) => current = 1 \/ current = 2
  <2>1. Len(job) \in {1, 2, 3} /\ current \in 1 .. Len(job)
    BY <1>0, <1>1
  <2> QED BY <2>1, UpToThree
<1>2. /\ \A q \in Procs \ {0} : fds'[q] = fds[q] /\ outgoingPipe'[q] = outgoingPipe[q]
      /\ outgoingPipe'[0] = OutFds(current) /\ fds'[0] = Given(current)
  <2>1. CASE current < Len(job)
    <3>0. current = 1 \/ current = 2
      BY <1>9, <2>1
    <3>1. PICK r \in FDs, w \in FDs :
            /\ IsLowestFree(fds[0], r)
            /\ IsLowestFree([fds[0] EXCEPT ![r] = ReadEnd(current)], w)
            /\ outgoingPipe' = [outgoingPipe EXCEPT ![0] = <<r, w>>]
            /\ fds' = [fds EXCEPT ![0] =
                 [[fds[0] EXCEPT ![r] = ReadEnd(current)] EXCEPT ![w] = WriteEnd(current)]]
      BY <2>1 DEF makePipe
    <3>2. current = 1 => r = 3 /\ w = 4
      <4> SUFFICES ASSUME current = 1 PROVE r = 3 /\ w = 4
        OBVIOUS
      <4>1. \A f \in FDs : fds[0][f] = IF f <= 2 THEN Tty ELSE Free
        BY <1>0, <1>1 DEF Held, EndsTable, InFds, NoPipe
      <4>2. r = 3
        BY <1>0, <3>1, <4>1, Different DEF IsLowestFree
      <4> QED BY <1>0, <1>1, <3>1, <4>1, <4>2, Different DEF IsLowestFree, TypeOK
    <3>3. current = 2 => r = 4 /\ w = 5
      <4> SUFFICES ASSUME current = 2 PROVE r = 4 /\ w = 5
        OBVIOUS
      <4>1. \A f \in FDs : fds[0][f] = IF f <= 2 THEN Tty ELSE IF f = 3 THEN ReadEnd(1) ELSE Free
        BY <1>0, <1>1 DEF Held, EndsTable, InFds
      <4>2. r = 4
        BY <1>0, <3>1, <4>1, Different DEF IsLowestFree
      <4> QED BY <1>0, <1>1, <3>1, <4>1, <4>2, Different DEF IsLowestFree, TypeOK
    <3>4. <<r, w>> = OutFds(current)
      <4>1. OutFds(current) = InFds(current + 1)
        BY <2>1 DEF OutFds
      <4> QED BY <3>0, <3>2, <3>3, <4>1 DEF InFds
    <3>5. [[fds[0] EXCEPT ![r] = ReadEnd(current)] EXCEPT ![w] = WriteEnd(current)] = Given(current)
      <4>1. OutFds(current)[1] = r /\ OutFds(current)[2] = w
        BY <3>4
      <4>2. CASE current = 1
        BY <1>0, <1>1, <3>2, <4>1, <4>2 DEF Held, Given, EndsTable, InFds, NoPipe
      <4>3. CASE current = 2
        <5>1. InFds(2)[1] = 3 /\ fds[0] = Held(2) /\ r = 4 /\ w = 5
          BY <1>1, <3>3, <4>3 DEF InFds
        <5>2. fds[0] = EndsTable(3, 2, -1)
          BY <5>1 DEF Held
        <5>3. OutFds(2)[1] = 4 /\ OutFds(2)[2] = 5
          BY <4>1, <4>3, <5>1
        <5>4. Given(2) = [f \in FDs |-> IF f = 4 THEN ReadEnd(2) ELSE EndsTable(3, 2, 5)[f]]
          BY <5>1, <5>3 DEF Given
        <5>5. \A f \in FDs : EndsTable(3, 2, 5)[f] = IF f = 5 THEN WriteEnd(2) ELSE EndsTable(3, 2, -1)[f]
          BY <1>0 DEF EndsTable
        <5>6. EndsTable(3, 2, -1) = [f \in FDs |-> EndsTable(3, 2, -1)[f]]
          BY DEF EndsTable
        <5>7. [[EndsTable(3, 2, -1) EXCEPT ![4] = ReadEnd(2)] EXCEPT ![5] = WriteEnd(2)]
              = [f \in FDs |-> IF f = 4 THEN ReadEnd(2) ELSE EndsTable(3, 2, 5)[f]]
          BY <1>0, <5>5, <5>6
        <5> QED BY <4>3, <5>1, <5>2, <5>4, <5>7
      <4> QED BY <3>0, <4>2, <4>3
    <3> QED BY <1>0, <3>1, <3>4, <3>5 DEF TypeOK
  <2>2. CASE ~(current < Len(job))
    <3>1. outgoingPipe' = [outgoingPipe EXCEPT ![0] = <<-1, -1>>] /\ fds' = fds
      BY <2>2 DEF makePipe
    <3>2. OutFds(current) = <<-1, -1>>
      BY <2>2 DEF OutFds, NoPipe
    <3>3. Held(current) = Given(current)
      BY <1>0, <3>2 DEF Held, Given, EndsTable
    <3> QED BY <1>0, <1>1, <3>1, <3>2, <3>3 DEF TypeOK
  <2> QED BY <2>1, <2>2
<1>3. pc'[0] = "fork"
  BY <1>0, <1>1 DEF TypeOK
<1>4. HandlerTable'
  BY <1>1, <1>2, <1>3 DEF HandlerTable, OutFds, Given, InFds, EndsTable
<1> QED BY <1>1, <1>2, <1>4, HandlerMoves DEF Dead

\* The child starts with a copy of the table and of the pipe variables.
LEMMA ForkShort ==
  ASSUME TypeOK, Short, HandlerTable, CommandTables, AllInitiated, fork
  PROVE  HandlerTable' /\ CommandTables' /\ AllInitiated'
<1>0. /\ Len(job) \in {1, 2, 3} /\ 0 \in Procs /\ Cmds \subseteq Procs \ {0}
      /\ Cmds' = Cmds /\ UNCHANGED <<job, current>>
  BY ShortJob DEF fork, Cmds
<1>1. /\ pc[0] = "fork" /\ current \in Cmds
      /\ incomingPipe[0] = InFds(current) /\ outgoingPipe[0] = OutFds(current)
      /\ fds[0] = Given(current)
  BY <1>0 DEF fork, TypeOK, HandlerTable, Cmds
<1>2. /\ pc'[0] = "parent" /\ pc'[current] = "prctl"
      /\ \A q \in {0, current} : /\ incomingPipe'[q] = InFds(current)
                                 /\ outgoingPipe'[q] = OutFds(current)
                                 /\ fds'[q] = Given(current)
  BY <1>0, <1>1 DEF fork, TypeOK
<1>3. \A q \in Procs \ {0, current} :
        /\ pc'[q] = pc[q] /\ fds'[q] = fds[q]
        /\ incomingPipe'[q] = incomingPipe[q] /\ outgoingPipe'[q] = outgoingPipe[q]
  BY <1>0, <1>1 DEF fork, TypeOK
<1>4. HandlerTable'
  BY <1>0, <1>1, <1>2 DEF HandlerTable, OutFds, Given, InFds, EndsTable
<1>5. CommandTables'
  <2> SUFFICES ASSUME NEW c \in Cmds PROVE CommandTable(c)'
    BY <1>0 DEF CommandTables
  <2>1. CASE c = current
    BY <1>0, <1>2, <2>1 DEF CommandTable, OutFds, Given, InFds, EndsTable
  <2>2. CASE c # current
    <3>1. /\ pc'[c] = pc[c] /\ fds'[c] = fds[c] /\ CommandTable(c)
          /\ incomingPipe'[c] = incomingPipe[c] /\ outgoingPipe'[c] = outgoingPipe[c]
      BY <1>0, <1>3, <2>2 DEF CommandTables
    <3> QED BY <1>0, <3>1 DEF CommandTable, InFds, OutFds, Given, EndsTable, Input, Output
  <2> QED BY <2>1, <2>2
<1>6. AllInitiated'
  BY <1>0, <1>1, <1>2, <1>3 DEF AllInitiated, Dead
<1> QED BY <1>4, <1>5, <1>6

\* The handler keeps the read end for the next command, and nothing else.
LEMMA ParentBranchShort ==
  ASSUME TypeOK, Short, HandlerTable, CommandTables, AllInitiated, parentBranch
  PROVE  HandlerTable' /\ CommandTables' /\ AllInitiated'
<1> DEFINE t == Close(Close(fds[0], incomingPipe[0][1]), outgoingPipe[0][2])
<1>0. /\ Len(job) \in {1, 2, 3} /\ 0 \in Procs /\ Cmds \subseteq Procs \ {0}
      /\ {0, 1, 2, 3, 4, 5, 6} \subseteq FDs
      /\ \A f \in FDs : f \in Int /\ f >= 0
  BY ShortJob
<1>1. /\ pc[0] = "parent" /\ job' = job /\ current' = current + 1
      /\ pc' = [pc EXCEPT ![0] = IF current < Len(job) THEN "pipe" ELSE "wait"]
      /\ current \in 1 .. Len(job)
      /\ incomingPipe[0] = InFds(current) /\ outgoingPipe[0] = OutFds(current)
      /\ fds[0] = Given(current)
  BY <1>0 DEF parentBranch, Switch, Goto, TypeOK, HandlerTable
<1>9. /\ current = 1 \/ current = 2 \/ current = 3
      /\ current < Len(job) => current = 1 \/ current = 2
  <2>1. Len(job) \in {1, 2, 3} /\ current \in 1 .. Len(job)
    BY <1>0, <1>1
  <2> QED BY <2>1, UpToThree
<1>2. /\ \A q \in Procs \ {0} : /\ fds'[q] = fds[q] /\ incomingPipe'[q] = incomingPipe[q]
                                /\ outgoingPipe'[q] = outgoingPipe[q]
      /\ incomingPipe'[0] = OutFds(current) /\ fds'[0] = t
  BY <1>0, <1>1 DEF parentBranch, Switch, TypeOK
<1>3. CASE current < Len(job)
  <2>1. pc'[0] = "pipe" /\ (current = 1 \/ current = 2)
    <3>1. current = 1 \/ current = 2
      BY <1>3, <1>9
    <3> QED BY <1>0, <1>1, <1>3, <3>1 DEF TypeOK
  <2>2. OutFds(current) = InFds(current + 1)
    BY <1>3 DEF OutFds
  <2>3. t = Held(current + 1)
    <3>1. CASE current = 1
      <4>1. InFds(1) = <<-1, -1>> /\ OutFds(1) = <<3, 4>> /\ InFds(2) = <<3, 4>>
        BY <1>3, <2>2, <3>1 DEF InFds, NoPipe
      <4>2. t = [Given(1) EXCEPT ![4] = Free]
        BY <1>0, <1>1, <3>1, <4>1 DEF Close
      <4>3. Held(2) = EndsTable(3, 2, -1)
        BY <4>1 DEF Held
      <4> QED BY <1>0, <3>1, <4>1, <4>2, <4>3 DEF Given, EndsTable
    <3>2. CASE current = 2
      <4>1. InFds(2) = <<3, 4>> /\ OutFds(2) = <<4, 5>> /\ InFds(3) = <<4, 5>>
        BY <1>3, <2>2, <3>2 DEF InFds
      <4>2. t = [[Given(2) EXCEPT ![3] = Free] EXCEPT ![5] = Free]
        BY <1>0, <1>1, <3>2, <4>1 DEF Close
      <4>3. Held(3) = EndsTable(4, 3, -1)
        BY <4>1 DEF Held
      <4> QED BY <1>0, <3>2, <4>1, <4>2, <4>3 DEF Given, EndsTable
    <3> QED BY <2>1, <3>1, <3>2
  <2>4. HandlerTable'
    BY <1>1, <1>2, <2>1, <2>2, <2>3 DEF HandlerTable, InFds, Held, EndsTable
  <2> QED BY <1>1, <1>2, <2>4, HandlerMoves DEF Dead
<1>4. CASE ~(current < Len(job))
  <2>1. pc'[0] = "wait" /\ current = Len(job)
    BY <1>0, <1>1, <1>4 DEF TypeOK
  <2>2. OutFds(current) = <<-1, -1>>
    BY <1>4 DEF OutFds, NoPipe
  <2>3. t = Held(1)
    <3>1. t = Close(Given(current), InFds(current)[1])
      BY <1>0, <1>1, <2>2 DEF Close
    <3>2. Held(1) = EndsTable(-1, 1, -1)
      BY DEF Held, InFds, NoPipe
    <3> HIDE DEF t
    <3>3. CASE current = 1
      BY <1>0, <2>2, <3>1, <3>2, <3>3 DEF Close, Given, EndsTable, InFds, NoPipe
    <3>4. CASE current = 2
      <4>1. InFds(2)[1] = 3
        BY DEF InFds
      <4>2. Given(2) = EndsTable(3, 2, -1)
        BY <1>0, <2>2, <3>4, <4>1 DEF Given, EndsTable
      <4>3. t = [EndsTable(3, 2, -1) EXCEPT ![3] = Free]
        BY <1>0, <3>1, <3>4, <4>1, <4>2 DEF Close
      <4> QED BY <1>0, <3>2, <4>3 DEF EndsTable
    <3>5. CASE current = 3
      <4>1. InFds(3)[1] = 4
        BY DEF InFds
      <4>2. Given(3) = EndsTable(4, 3, -1)
        BY <1>0, <2>2, <3>5, <4>1 DEF Given, EndsTable
      <4>3. t = [EndsTable(4, 3, -1) EXCEPT ![4] = Free]
        BY <1>0, <3>1, <3>5, <4>1, <4>2 DEF Close
      <4> QED BY <1>0, <3>2, <4>3 DEF EndsTable
    <3> QED BY <1>9, <3>3, <3>4, <3>5
  <2>4. HandlerTable'
    BY <1>2, <2>1, <2>3 DEF HandlerTable, Held, EndsTable, InFds
  <2> QED BY <1>1, <1>2, <2>4, HandlerMoves DEF Dead
<1> QED BY <1>3, <1>4

LEMMA CommandNumbers ==
  ASSUME TypeOK, Short, NEW c \in Cmds
  PROVE  /\ c \in Int /\ (c = 1 \/ c = 2 \/ c = 3)
         /\ c = 1 => InFds(c)[1] = -1 /\ InFds(c)[2] = -1
         /\ c = 2 => InFds(c)[1] = 3 /\ InFds(c)[2] = 4
         /\ c = 3 => InFds(c)[1] = 4 /\ InFds(c)[2] = 5
         /\ c = Len(job) => OutFds(c)[1] = -1 /\ OutFds(c)[2] = -1
         /\ c # Len(job) => \/ c = 1 /\ OutFds(c)[1] = 3 /\ OutFds(c)[2] = 4
                            \/ c = 2 /\ OutFds(c)[1] = 4 /\ OutFds(c)[2] = 5
<1>1. Len(job) \in {1, 2, 3} /\ c \in 1 .. Len(job)
  BY ShortJob DEF Cmds
<1>2. (c = 1 \/ c = 2 \/ c = 3) /\ (c < Len(job) => c = 1 \/ c = 2)
  BY <1>1, UpToThree
<1>3. c = Len(job) => ~(c < Len(job))
  BY <1>1
<1>4. c # Len(job) => c < Len(job)
  BY <1>1
<1>5. c = Len(job) => OutFds(c) = <<-1, -1>>
  BY <1>3 DEF OutFds, NoPipe
<1>6. c # Len(job) => OutFds(c) = InFds(c + 1)
  BY <1>4 DEF OutFds
<1>7. c # Len(job) => \/ c = 1 /\ OutFds(c) = <<3, 4>>
                      \/ c = 2 /\ OutFds(c) = <<4, 5>>
  BY <1>2, <1>4, <1>6 DEF InFds
<1> QED BY <1>2, <1>5, <1>7 DEF InFds, NoPipe

\* Each command closes the ends that belong to its neighbours.
LEMMA CloseUnusedShort ==
  ASSUME TypeOK, Short, HandlerTable, CommandTables, AllInitiated,
         NEW c \in Cmds, closeUnused(c)
  PROVE  HandlerTable' /\ CommandTables' /\ AllInitiated'
<1> DEFINE t == Close(Close(Given(c), InFds(c)[2]), OutFds(c)[1])
           e == EndsTable(InFds(c)[1], c, OutFds(c)[2])
<1>0. /\ c \in Procs \ {0} /\ {0, 1, 2, 3, 4, 5, 6} \subseteq FDs
      /\ \A f \in FDs : f \in Int /\ f >= 0
      /\ -1 \notin FDs
  BY ShortJob
<1>1. /\ pc[c] = "close" /\ CommandTable(c) /\ pc' = [pc EXCEPT ![c] = "connect"]
      /\ UNCHANGED <<job, current, incomingPipe, outgoingPipe>>
  BY DEF closeUnused, CloseEnds, Goto, CommandTables
<1>2. /\ incomingPipe[c] = InFds(c) /\ outgoingPipe[c] = OutFds(c) /\ fds[c] = Given(c)
  BY <1>1 DEF CommandTable
<1>3. fds' = [fds EXCEPT ![c] = t]
  BY <1>2 DEF closeUnused, CloseEnds
<1>4. t = e
  <2>1. c = 1 \/ c = 2 \/ c = 3
    BY CommandNumbers
  <2>2. \A f \in FDs : e[f] = IF f <= 2 THEN Tty ELSE IF f = InFds(c)[1] THEN ReadEnd(c - 1)
                              ELSE IF f = OutFds(c)[2] THEN WriteEnd(c) ELSE Free
    BY DEF EndsTable
  <2>3. \A f \in FDs : Given(c)[f] = IF f = OutFds(c)[1] THEN ReadEnd(c) ELSE e[f]
    BY DEF Given
  <2>4. e = [f \in FDs |-> e[f]] /\ Given(c) = [f \in FDs |-> Given(c)[f]]
    BY DEF EndsTable, Given
  <2> HIDE DEF e
  <2>5. CASE c = Len(job)
    <3>1. OutFds(c)[1] = -1 /\ OutFds(c)[2] = -1
      BY <2>5, CommandNumbers
    <3>2. Given(c) = e
      BY <1>0, <2>3, <2>4, <3>1
    <3>3. t = Close(e, InFds(c)[2])
      BY <1>0, <3>1, <3>2 DEF Close
    <3>4. InFds(c)[2] \in FDs => e[InFds(c)[2]] = Free
      BY <1>0, <2>1, <2>2, <3>1, CommandNumbers
    <3> HIDE DEF t
    <3> QED BY <2>4, <3>3, <3>4 DEF Close
  <2>6. CASE c # Len(job) /\ c = 1
    <3>1. InFds(c)[2] = -1 /\ InFds(c)[1] = -1 /\ OutFds(c)[1] = 3 /\ OutFds(c)[2] = 4
      BY <2>6, CommandNumbers
    <3>2. t = [Given(c) EXCEPT ![3] = Free]
      BY <1>0, <3>1 DEF Close
    <3>3. e[3] = Free
      BY <1>0, <2>2, <3>1
    <3> HIDE DEF t
    <3> QED BY <1>0, <2>3, <2>4, <3>1, <3>2, <3>3
  <2>7. CASE c # Len(job) /\ c = 2
    <3>1. InFds(c)[2] = 4 /\ InFds(c)[1] = 3 /\ OutFds(c)[1] = 4 /\ OutFds(c)[2] = 5
      BY <2>7, CommandNumbers
    <3>2. t = [[Given(c) EXCEPT ![4] = Free] EXCEPT ![4] = Free]
      BY <1>0, <3>1 DEF Close
    <3>3. e[4] = Free
      BY <1>0, <2>2, <3>1
    <3> HIDE DEF t
    <3> QED BY <1>0, <2>3, <2>4, <3>1, <3>2, <3>3
  <2> QED BY <2>1, <2>5, <2>6, <2>7, CommandNumbers
<1>5. pc'[c] = "connect" /\ fds'[c] = e /\ incomingPipe'[c] = InFds(c) /\ outgoingPipe'[c] = OutFds(c)
  BY <1>0, <1>1, <1>2, <1>3, <1>4 DEF TypeOK
<1>6. CommandTable(c)'
  BY <1>1, <1>5 DEF CommandTable, EndsTable, OutFds, InFds
<1>7. \A q \in Procs \ {c} : fds'[q] = fds[q]
  BY <1>0, <1>3 DEF TypeOK
<1> QED BY <1>0, <1>1, <1>6, <1>7, CommandMoves

\* dup2() finds both ends open and puts them in place.
LEMMA ConnectShort ==
  ASSUME TypeOK, Short, HandlerTable, CommandTables, AllInitiated,
         NEW c \in Cmds, connect(c)
  PROVE  HandlerTable' /\ CommandTables' /\ AllInitiated'
<1> DEFINE i == incomingPipe[c][1]
           o == outgoingPipe[c][2]
           t == IF i >= 0 THEN [fds[c] EXCEPT ![STDIN_FD] = fds[c][i]] ELSE fds[c]
           u == IF o >= 0 THEN [t EXCEPT ![STDOUT_FD] = t[o]] ELSE t
<1>0. /\ c \in Procs \ {0} /\ {0, 1, 2, 3, 4, 5, 6} \subseteq FDs
      /\ \A f \in FDs : f \in Int /\ f >= 0
  BY ShortJob
<1>1. pc[c] = "connect" /\ CommandTable(c)
  BY DEF connect, CommandTables
<1>2. /\ incomingPipe[c] = InFds(c) /\ outgoingPipe[c] = OutFds(c)
      /\ fds[c] = EndsTable(i, c, o)
      /\ i = InFds(c)[1] /\ o = OutFds(c)[2]
  BY <1>1 DEF CommandTable
<1>3. \A f \in FDs : fds[c][f] = IF f <= 2 THEN Tty ELSE IF f = i THEN ReadEnd(c - 1)
                                 ELSE IF f = o THEN WriteEnd(c) ELSE Free
  <2> HIDE DEF i, o
  <2> QED BY <1>2 DEF EndsTable
<1>12. fds[c] = [f \in FDs |-> fds[c][f]]
  BY <1>0 DEF TypeOK
<1>4. /\ (c = 1 /\ i = -1) \/ (c # 1 /\ i \in {3, 4})
      /\ (c = Len(job) /\ o = -1) \/ (c # Len(job) /\ o \in {4, 5})
      /\ i # o \/ i = -1
  BY <1>2, CommandNumbers
<1> HIDE DEF i, o
<1>5. /\ \A f \in FDs : t[f] = IF f = 0 THEN Input(c) ELSE fds[c][f]
      /\ t = [f \in FDs |-> t[f]]
      /\ i < 0 \/ IsOpen(fds[c], i)
  <2>1. CASE i = -1
    <3>1. t = fds[c]
      BY <2>1
    <3>2. fds[c][0] = Tty /\ Input(c) = Tty
      BY <1>0, <1>3, <1>4, <2>1 DEF Input
    <3> HIDE DEF t
    <3> QED BY <1>0, <1>12, <2>1, <3>1, <3>2
  <2>2. CASE i \in {3, 4}
    <3>1. c # 1 /\ i \in FDs /\ i >= 0 /\ ~(i <= 2)
      BY <1>0, <1>4, <2>2
    <3>2. fds[c][i] = Input(c) /\ fds[c][i] # Free
      <4>1. fds[c][i] = ReadEnd(c - 1)
        BY <1>3, <3>1
      <4> QED BY <3>1, <4>1, Different DEF Input
    <3>3. t = [fds[c] EXCEPT ![0] = Input(c)]
      BY <3>1, <3>2 DEF STDIN_FD
    <3> HIDE DEF t
    <3> QED BY <1>0, <1>12, <3>1, <3>2, <3>3 DEF IsOpen
  <2> QED BY <1>4, <2>1, <2>2
<1> HIDE DEF t
<1>6. /\ \A f \in FDs : u[f] = IF f = 1 THEN Output(c) ELSE t[f]
      /\ u = [f \in FDs |-> u[f]]
      /\ o < 0 \/ IsOpen(t, o)
  <2>1. CASE o = -1
    <3>1. u = t
      BY <2>1
    <3>2. t[1] = Tty /\ Output(c) = Tty
      BY <1>0, <1>3, <1>4, <1>5, <2>1 DEF Output
    <3> HIDE DEF u
    <3> QED BY <1>0, <1>5, <2>1, <3>1, <3>2
  <2>2. CASE o \in {4, 5}
    <3>1. c # Len(job) /\ o \in FDs /\ o >= 0 /\ ~(o <= 2) /\ i # o
      BY <1>0, <1>4, <2>2
    <3>2. t[o] = Output(c) /\ t[o] # Free
      <4>1. fds[c][o] = WriteEnd(c)
        BY <1>3, <3>1
      <4>2. t[o] = fds[c][o]
        BY <1>5, <3>1
      <4> QED BY <3>1, <4>1, <4>2, Different DEF Output
    <3>3. u = [t EXCEPT ![1] = Output(c)]
      BY <3>1, <3>2 DEF STDOUT_FD
    <3> HIDE DEF u
    <3> QED BY <1>0, <1>5, <3>1, <3>2, <3>3 DEF IsOpen
  <2> QED BY <1>4, <2>1, <2>2
<1>7. /\ fds' = [fds EXCEPT ![c] = u] /\ pc' = [pc EXCEPT ![c] = "redirect"]
      /\ UNCHANGED <<job, current, incomingPipe, outgoingPipe>>
  BY <1>5, <1>6 DEF connect, Goto, i, o, t
<1> HIDE DEF u
<1>8. pc'[c] = "redirect" /\ fds'[c] = u
  BY <1>0, <1>7 DEF TypeOK
<1>9. /\ u[0] = Input(c) /\ u[1] = Output(c)
      /\ \A f \in FDs : u[f] \in {Free, Tty, ReadEnd(c - 1), WriteEnd(c)}
      /\ \A f \in FDs : f > 2 /\ f # i /\ f # o => u[f] = Free
  <2>1. u[0] = Input(c) /\ u[1] = Output(c)
    BY <1>0, <1>5, <1>6
  <2>2. ASSUME NEW f \in FDs, f > 2, f # i, f # o PROVE u[f] = Free
    <3>1. f # 0 /\ f # 1 /\ ~(f <= 2)
      BY <1>0, <2>2
    <3>2. u[f] = fds[c][f]
      BY <1>5, <1>6, <3>1
    <3> QED BY <1>3, <2>2, <3>1, <3>2
  <2>3. \A f \in FDs : fds[c][f] \in {Free, Tty, ReadEnd(c - 1), WriteEnd(c)}
    BY <1>3
  <2>4. {Input(c), Output(c)} \subseteq {Free, Tty, ReadEnd(c - 1), WriteEnd(c)}
    BY DEF Input, Output
  <2>5. \A f \in FDs : u[f] \in {fds[c][f], Input(c), Output(c)}
    BY <1>5, <1>6
  <2>6. \A f \in FDs : u[f] \in {Free, Tty, ReadEnd(c - 1), WriteEnd(c)}
    BY <2>3, <2>4, <2>5
  <2> QED BY <2>1, <2>2, <2>6
<1>10. CommandTable(c)'
  BY <1>2, <1>7, <1>8, <1>9 DEF CommandTable, Input, Output, InFds, OutFds, STDIN_FD, STDOUT_FD
<1>11. \A q \in Procs \ {c} : fds'[q] = fds[q]
  BY <1>0, <1>7 DEF TypeOK
<1> QED BY <1>0, <1>7, <1>10, <1>11, CommandMoves

\* What a redirection of f does to a table in which no number above k is
\* needed for the file: it touches no other open file.
RedirectedTo(u, t, S, f, wanted, k) ==
  /\ u[f] = IF wanted THEN File ELSE t[f]
  /\ \A g \in {0, 1} : g # f => u[g] = t[g]
  /\ u \in [FDs -> S \cup {File}]
  /\ \A g \in FDs : g > k => u[g] = t[g]

LEMMA RedirectOne ==
  ASSUME MaxFd \in Nat, MaxFd >= 6, NEW S, NEW t \in [FDs -> S], NEW f \in {0, 1},
         NEW wanted \in BOOLEAN, NEW k \in 0 .. 6,
         t[k] = Free, t[0] # Free, t[1] # Free
  PROVE  RedirectedTo(Redirect(t, f, wanted), t, S, f, wanted, k)
<1> DEFINE m == LowestFree(t)
           u == Redirect(t, f, wanted)
<1>1. m \in FDs /\ t[m] = Free /\ m <= k
  BY LowestFreeExists
<1>2. m # 0 /\ m # 1
  BY <1>1
<1>3. {0, 1} \subseteq FDs /\ \A g \in FDs : g \in Int
  BY DEF FDs
<1> SUFFICES /\ u[f] = IF wanted THEN File ELSE t[f]
             /\ \A g \in {0, 1} : g # f => u[g] = t[g]
             /\ u \in [FDs -> S \cup {File}]
             /\ \A g \in FDs : g > k => u[g] = t[g]
  BY DEF RedirectedTo
<1>4. CASE ~wanted
  <2>1. u = t
    BY <1>4 DEF Redirect
  <2> HIDE DEF u
  <2> QED BY <1>3, <1>4, <2>1
<1>5. CASE wanted
  <2>1. u = [t EXCEPT ![m] = File, ![f] = File]
    BY <1>5 DEF Redirect
  <2> HIDE DEF u, m
  <2>2. f \in FDs /\ f # m
    BY <1>2, <1>3
  <2>3. u \in [FDs -> S \cup {File}]
    BY <1>1, <2>1, <2>2
  <2>4. u[f] = File /\ \A g \in {0, 1} : g # f => u[g] = t[g]
    BY <1>1, <1>2, <1>3, <2>1, <2>2
  <2>5. ASSUME NEW g \in FDs, g > k PROVE u[g] = t[g]
    <3>1. g # m
      BY <1>1, <1>3, <2>5
    <3>2. CASE g = f
      <4>1. k = 0
        BY <1>3, <2>5, <3>2
      <4> QED BY <4>1
    <3>3. CASE g # f
      BY <1>1, <2>1, <2>2, <3>1, <3>3
    <3> QED BY <3>2, <3>3
  <2> QED BY <1>5, <2>3, <2>4, <2>5
<1> QED BY <1>4, <1>5

\* Redirections replace the ends of the command itself only.
LEMMA RedirectShort ==
  ASSUME TypeOK, Short, HandlerTable, CommandTables, AllInitiated,
         NEW c \in Cmds, handleCommandElementList(c)
  PROVE  HandlerTable' /\ CommandTables' /\ AllInitiated'
<1> DEFINE S == {Free, Tty, ReadEnd(c - 1), WriteEnd(c)}
           t == Redirect(fds[c], STDIN_FD, job[c].in)
           u == Redirect(t, STDOUT_FD, job[c].out)
<1>0. /\ c \in Procs \ {0} /\ {0, 1, 2, 3, 4, 5, 6} \subseteq FDs
      /\ MaxFd \in Nat /\ MaxFd >= 6
  BY ShortJob, PipelineAssumption DEF Short
<1>13. job[c].in \in BOOLEAN /\ job[c].out \in BOOLEAN
  <2>1. job \in Seq(Commands) /\ c \in 1 .. Len(job)
    BY PipelineAssumption DEF TypeOK, Cmds
  <2>2. job[c] \in Commands
    BY <2>1
  <2> QED BY <2>2 DEF Commands
<1>1. /\ pc[c] = "redirect" /\ CommandTable(c) /\ pc' = [pc EXCEPT ![c] = "exec"]
      /\ fds' = [fds EXCEPT ![c] = u]
      /\ UNCHANGED <<job, current, incomingPipe, outgoingPipe>>
  BY <1>0 DEF handleCommandElementList, Goto, CommandTables, TypeOK
<1>2. /\ fds[c][0] = Input(c) /\ fds[c][1] = Output(c)
      /\ \A f \in FDs : fds[c][f] \in S
      /\ \A f \in FDs : f > 2 /\ f # InFds(c)[1] /\ f # OutFds(c)[2] => fds[c][f] = Free
  BY <1>1 DEF CommandTable, STDIN_FD, STDOUT_FD
<1>3. Input(c) # Free /\ Output(c) # Free
  BY Different DEF Input, Output
<1>4. fds[c] \in [FDs -> S]
  <2>1. fds[c] \in [FDs -> Objects]
    BY <1>0 DEF TypeOK
  <2> HIDE DEF S
  <2> QED BY <1>2, <2>1
<1>5. PICK k \in {3, 4} : fds[c][k] = Free
  <2>1. c = 2 => fds[c][4] = Free
    BY <1>0, <1>2, CommandNumbers
  <2>2. c # 2 => fds[c][3] = Free
    BY <1>0, <1>2, CommandNumbers
  <2> QED BY <2>1, <2>2
<1>6. fds[c][6] = Free
  BY <1>0, <1>2, CommandNumbers
<1> HIDE DEF S
<1>7. /\ t[0] = IF job[c].in THEN File ELSE Input(c)
      /\ t[1] = Output(c) /\ t[6] = Free
      /\ t \in [FDs -> S \cup {File}]
  <2>1. k \in 0 .. 6 /\ 6 > k /\ fds[c][k] = Free /\ fds[c][0] # Free /\ fds[c][1] # Free
    BY <1>2, <1>3, <1>5
  <2>2. /\ t[0] = IF job[c].in THEN File ELSE fds[c][0]
        /\ \A g \in {0, 1} : g # 0 => t[g] = fds[c][g]
        /\ t \in [FDs -> S \cup {File}]
        /\ \A g \in FDs : g > k => t[g] = fds[c][g]
    <3>1. /\ 0 \in {0, 1} /\ MaxFd \in Nat /\ MaxFd >= 6 /\ fds[c] \in [FDs -> S] /\ k \in 0 .. 6
          /\ fds[c][k] = Free /\ fds[c][0] # Free /\ fds[c][1] # Free
          /\ job[c].in \in BOOLEAN
      BY <1>0, <1>4, <1>13, <2>1
    <3>2. t = Redirect(fds[c], 0, job[c].in)
      BY DEF STDIN_FD
    <3> HIDE DEF t
    <3>3. RedirectedTo(t, fds[c], S, 0, job[c].in, k)
      BY <3>1, <3>2, RedirectOne, Zenon
    <3> QED BY <3>3 DEF RedirectedTo
  <2> HIDE DEF t
  <2>3. t[6] = fds[c][6] /\ t[1] = fds[c][1]
    BY <1>0, <2>1, <2>2
  <2> QED BY <1>2, <1>6, <2>2, <2>3
<1> HIDE DEF t
<1>8. /\ u[0] = IF job[c].in THEN File ELSE Input(c)
      /\ u[1] = IF job[c].out THEN File ELSE Output(c)
      /\ u \in [FDs -> S \cup {File}]
  <2>1. t[0] # Free /\ t[1] # Free
    BY <1>3, <1>7, Different
  <2>2. t \in [FDs -> S \cup {File}] /\ t[6] = Free /\ 6 \in 0 .. 6
    BY <1>7
  <2>3. /\ u[1] = IF job[c].out THEN File ELSE t[1]
        /\ \A g \in {0, 1} : g # 1 => u[g] = t[g]
        /\ u \in [FDs -> (S \cup {File}) \cup {File}]
    <3>1. /\ 1 \in {0, 1} /\ MaxFd \in Nat /\ MaxFd >= 6 /\ job[c].out \in BOOLEAN
      BY <1>0, <1>13
    <3>2. u = Redirect(t, 1, job[c].out)
      BY DEF STDOUT_FD
    <3> HIDE DEF u
    <3>3. RedirectedTo(u, t, S \cup {File}, 1, job[c].out, 6)
      BY <2>1, <2>2, <3>1, <3>2, RedirectOne, Zenon
    <3> QED BY <3>3 DEF RedirectedTo
  <2> HIDE DEF u
  <2>4. u[0] = t[0] /\ (S \cup {File}) \cup {File} = S \cup {File}
    BY <2>3
  <2> QED BY <1>7, <2>3, <2>4
<1> HIDE DEF u
<1>9. pc'[c] = "exec" /\ fds'[c] = u
  BY <1>0, <1>1 DEF TypeOK
<1>10. \A f \in FDs : u[f] \in {Free, Tty, File, ReadEnd(c - 1), WriteEnd(c)}
  BY <1>8 DEF S
<1>11. CommandTable(c)'
  BY <1>1, <1>8, <1>9, <1>10 DEF CommandTable, Input, Output, STDIN_FD, STDOUT_FD
<1>12. \A q \in Procs \ {c} : fds'[q] = fds[q]
  BY <1>0, <1>1 DEF TypeOK
<1> QED BY <1>0, <1>1, <1>11, <1>12, CommandMoves

\* prctl() and getppid() leave the descriptors alone.
LEMMA SafelyForkShort ==
  ASSUME TypeOK, Short, HandlerTable, CommandTables, AllInitiated,
         NEW p \in Procs, NEW l, UNCHANGED <<job, current, incomingPipe, outgoingPipe, fds>>,
         pc' = [pc EXCEPT ![p] = l],
         \/ pc[p] = "prctl" /\ l = "getppid"
         \/ pc[p] = "getppid" /\ l = IF p = 0 THEN "pipe" ELSE "close"
  PROVE  HandlerTable' /\ CommandTables' /\ AllInitiated'
<1>1. pc'[p] = l
  BY DEF TypeOK
<1>2. CASE p = 0
  <2>1. HandlerTable'
    BY <1>1, <1>2 DEF HandlerTable, Held, EndsTable, InFds
  <2> QED BY <1>2, <2>1, HandlerMoves DEF Dead
<1>3. CASE p # 0
  <2>1. ASSUME p \in Cmds PROVE CommandTable(p)'
    <3>1. CommandTable(p) /\ pc[p] \in {"prctl", "getppid"} /\ pc'[p] \in {"getppid", "close"}
      BY <1>1, <1>3, <2>1 DEF CommandTables
    <3>2. incomingPipe[p] = InFds(p) /\ outgoingPipe[p] = OutFds(p) /\ fds[p] = Given(p)
      BY <3>1 DEF CommandTable
    <3> QED BY <3>1, <3>2 DEF CommandTable, Given, EndsTable, InFds, OutFds
  <2> QED BY <1>3, <2>1, CommandMoves
<1> QED BY <1>2, <1>3

\* For every pipeline of up to three commands, whichever programs exist,
\* redirect, fail or never stop: every process has exactly the descriptors
\* that interpretSimpleList() and handleCommandList() mean it to have.
THEOREM DescriptorTables == Spec => []ShortInv
<1> USE PipelineAssumption
<1>1. Init /\ TypeOK => ShortInv
  <2> SUFFICES ASSUME Init, TypeOK, Short PROVE HandlerTable /\ CommandTables /\ AllInitiated
    BY DEF ShortInv
  <2>0. 0 \in Procs /\ Cmds \subseteq Procs \ {0} /\ \A f \in FDs : f \in Int /\ f >= 0
    BY ShortJob
  <2>1. HandlerTable
    <3>1. pc[0] = "prctl" /\ current = 1 /\ incomingPipe[0] = <<-1, -1>>
      BY <2>0 DEF Init
    <3>2. InFds(1) = <<-1, -1>>
      BY DEF InFds, NoPipe
    <3>3. fds[0] = [f \in FDs |-> IF f <= 2 THEN Tty ELSE Free]
      BY <2>0 DEF Init
    <3>4. Held(1) = EndsTable(-1, 1, -1)
      BY <3>2 DEF Held
    <3>5. fds[0] = Held(1)
      BY <2>0, <3>3, <3>4 DEF EndsTable
    <3> QED BY <3>1, <3>2, <3>5 DEF HandlerTable
  <2>2. \A c \in Cmds : pc[c] = "unborn"
    BY <2>0 DEF Init
  <2>3. CommandTables /\ AllInitiated
    BY <2>2 DEF CommandTables, CommandTable, AllInitiated
  <2> QED BY <2>1, <2>3
<1>2. TypeOK /\ ShortInv /\ [Next]_vars => ShortInv'
  <2> SUFFICES ASSUME TypeOK, ShortInv, [Next]_vars, Short'
               PROVE  HandlerTable' /\ CommandTables' /\ AllInitiated'
    BY DEF ShortInv
  <2>1. CASE makePipe \/ fork \/ parentBranch
    <3>1. job' = job
      BY <2>1 DEF makePipe, fork, parentBranch, Switch
    <3>2. Short /\ HandlerTable /\ CommandTables /\ AllInitiated
      BY <3>1 DEF Short, ShortInv
    <3> QED BY <2>1, <3>2, MakePipeShort, ForkShort, ParentBranchShort
  <2>2. CASE ShellEnds \/ UNCHANGED vars
    <3>1. UNCHANGED <<job, pc, current, incomingPipe, outgoingPipe, fds>>
      BY <2>2 DEF ShellEnds, vars
    <3>2. HandlerTable /\ CommandTables /\ AllInitiated /\ Cmds' = Cmds
      BY <3>1 DEF Short, ShortInv, Cmds
    <3>3. HandlerTable'
      BY <3>1, <3>2 DEF HandlerTable, Held, Given, EndsTable, InFds, OutFds
    <3>4. CommandTables'
      <4> SUFFICES ASSUME NEW c \in Cmds PROVE CommandTable(c)'
        BY <3>2 DEF CommandTables
      <4>1. CommandTable(c)
        BY <3>2 DEF CommandTables
      <4> QED BY <3>1, <4>1 DEF CommandTable, InFds, OutFds, Given, EndsTable, Input, Output
    <3>5. AllInitiated'
      BY <3>1, <3>2 DEF AllInitiated
    <3> QED BY <3>3, <3>4, <3>5
  <2>3. ASSUME NEW p \in Procs, NEW how \in Dead, Die(p, how),
               how = "failed" /\ p # 0 =>
                 MayFail \/ pc[0] \in Dead \/ \E c \in Cmds : ~job[c].exists
        PROVE  HandlerTable' /\ CommandTables' /\ AllInitiated'
    <3>1. Short /\ HandlerTable /\ CommandTables /\ AllInitiated
      BY <2>3 DEF Die, Short, ShortInv
    <3> QED BY <2>3, <3>1, DieShort
  <2>4. CASE makePipeFails \/ forkFails \/ waitForChildren
    BY <2>3, <2>4, JobLength DEF makePipeFails, forkFails, waitForChildren, Dead, TypeOK
  <2>5. ASSUME NEW p \in Procs, safelyFork(p) \/ Terminated(p)
        PROVE  HandlerTable' /\ CommandTables' /\ AllInitiated'
    <3>1. CASE prctl(p) \/ (getppid(p) /\ ParentAlive(p))
      <4>1. UNCHANGED <<job, current, incomingPipe, outgoingPipe, fds>>
        BY <3>1 DEF prctl, getppid
      <4>2. Short /\ HandlerTable /\ CommandTables /\ AllInitiated
        BY <4>1 DEF Short, ShortInv
      <4> QED BY <3>1, <4>1, <4>2, SafelyForkShort DEF prctl, getppid, Goto
    <3>2. CASE prctlFails(p) \/ Terminated(p)
      BY <2>3, <3>2 DEF prctlFails, Terminated, Dead
    <3>3. CASE getppid(p) /\ ~ParentAlive(p)
      BY <2>3, <3>3 DEF getppid, ParentAlive, Dead
    <3> QED BY <2>5, <3>1, <3>2, <3>3 DEF safelyFork
  <2>6. ASSUME NEW c \in Cmds, handleCommandList(c)
        PROVE  HandlerTable' /\ CommandTables' /\ AllInitiated'
    <3>0. c \in Procs \ {0}
      BY JobLength DEF TypeOK
    <3>1. job' = job
      BY <2>6 DEF handleCommandList, closeUnused, CloseEnds, connect, handleCommandElementList,
         handleCommandFails, execvp, Die
    <3>2. Short /\ HandlerTable /\ CommandTables /\ AllInitiated
      BY <3>1 DEF Short, ShortInv
    <3>3. CASE closeUnused(c) \/ connect(c) \/ handleCommandElementList(c)
      BY <3>2, <3>3, CloseUnusedShort, ConnectShort, RedirectShort
    <3>4. CASE handleCommandFails(c)
      BY <2>3, <3>0, <3>4 DEF handleCommandFails, Dead
    <3>5. CASE execvp(c) /\ ~job[c].exists
      BY <2>3, <3>0, <3>5 DEF execvp, Dead
    <3>6. CASE execvp(c) /\ job[c].exists
      <4>1. /\ pc[c] = "exec" /\ pc' = [pc EXCEPT ![c] = "run"]
            /\ UNCHANGED <<job, current, incomingPipe, outgoingPipe, fds>>
        BY <3>6 DEF execvp, Goto
      <4>2. pc'[c] = "run" /\ CommandTable(c)
        BY <3>0, <3>2, <4>1 DEF TypeOK, CommandTables
      <4>3. CommandTable(c)'
        BY <4>1, <4>2 DEF CommandTable, Input, Output
      <4> QED BY <3>0, <3>2, <4>1, <4>3, CommandMoves
    <3> QED BY <2>6, <3>3, <3>4, <3>5, <3>6 DEF handleCommandList
  <2>7. ASSUME NEW c \in Cmds, \/ Program(c)
                               \/ \E how \in {"success", "failure"} : ProgramStops(c, how)
        PROVE  HandlerTable' /\ CommandTables' /\ AllInitiated'
    <3>0. c \in Procs
      BY JobLength DEF TypeOK
    <3>1. \E how \in {"success", "failure", "killed"} : Die(c, how) /\ pc[c] = "run"
      BY <2>7 DEF Program, ProgramReadsEof, ProgramWritesNowhere, ProgramStops
    <3>2. PICK how \in {"success", "failure", "killed"} : Die(c, how) /\ pc[c] = "run"
      BY <3>1
    <3>3. CASE how # "failure"
      BY <2>3, <3>0, <3>2, <3>3 DEF Dead
    <3>4. CASE how = "failure"
      BY <2>3, <3>0, <3>2, <3>4 DEF Dead
    <3> QED BY <3>3, <3>4
  <2> QED BY <2>1, <2>2, <2>4, <2>5, <2>6, <2>7 DEF Next, interpretSimpleList, Finished
<1> QED BY <1>1, <1>2, TypeCorrect, PTL DEF Spec

\* Every running program of a pipeline of up to three commands is connected
\* to its neighbours, in every interleaving of the forks and the failures.
THEOREM ShortPipelinesAreWired == Spec => [](Short => Wiring)
<1>1. TypeOK /\ ShortInv => (Short => Wiring)
  BY DEF ShortInv, CommandTables, CommandTable, Wiring, Input, Output
<1> QED BY <1>1, TypeCorrect, DescriptorTables, PTL

\* No program of such a pipeline keeps an end of somebody else's pipe, and
\* the handler that waits keeps none (interpreter.c:171 and 182).
THEOREM ShortPipelinesKeepNoEnds == Spec => [](Short => NoForeignEnds)
<1>1. TypeOK /\ ShortInv => (Short => NoForeignEnds)
  <2> SUFFICES ASSUME TypeOK, ShortInv, Short PROVE NoForeignEnds
    OBVIOUS
  <2>1. ASSUME NEW c \in Cmds, pc[c] = "run"
        PROVE  \A f \in FDs : fds[c][f] \in {Free, Tty, File, ReadEnd(c - 1), WriteEnd(c)}
    BY <2>1 DEF ShortInv, CommandTables, CommandTable
  <2>2. ASSUME pc[0] = "wait" PROVE \A f \in FDs : fds[0][f] \in {Free, Tty}
    <3>1. fds[0] = Held(1) /\ \A f \in FDs : f \in Int /\ f >= 0
      BY <2>2, ShortJob DEF ShortInv, HandlerTable
    <3>2. Held(1) = EndsTable(-1, 1, -1)
      BY DEF Held, InFds, NoPipe
    <3> QED BY <3>1, <3>2 DEF EndsTable
  <2> QED BY <2>1, <2>2 DEF NoForeignEnds
<1> QED BY <1>1, TypeCorrect, DescriptorTables, PTL

\* When no system call fails, all commands of such a pipeline get to their
\* programs: no dup2() fails on a descriptor that was closed too early
\* (interpreter.c:145).
THEOREM ShortPipelinesAreInitiated == Spec => [](Short => AllInitiated)
<1>1. ShortInv => (Short => AllInitiated)
  BY DEF ShortInv
<1> QED BY <1>1, DescriptorTables, PTL

-----------------------------------------------------------------------------
(***************************************************************************)
(* The job as module Job has it.  The steps only: that the commands do die *)
(* is a matter of fairness.                                                *)
(***************************************************************************)

\* Nobody comes back, and nobody is born without the handler.
LEMMA GoneStayGone ==
  ASSUME TypeOK, [Next]_vars, pc[0] \in Dead
  PROVE  pc'[0] \in Dead /\ (AllGone => AllGone')
<1>0. 0 \in Procs /\ Cmds \subseteq Procs
  BY JobLength DEF TypeOK
<1> SUFFICES \A p \in Procs : /\ pc[p] \in Dead => pc'[p] \in Dead
                              /\ pc[p] \in Gone => pc'[p] \in Gone
  BY <1>0 DEF AllGone
<1>1. CASE interpretSimpleList
  BY <1>1 DEF interpretSimpleList, makePipe, makePipeFails, fork, forkFails, parentBranch, Switch,
     waitForChildren, Dead
<1>2. CASE ShellEnds \/ UNCHANGED vars
  BY <1>2 DEF ShellEnds, vars
<1>3. ASSUME NEW q \in Procs, NEW l, pc' = [pc EXCEPT ![q] = l], pc[q] \notin Gone
      PROVE  \A p \in Procs : /\ pc[p] \in Dead => pc'[p] \in Dead
                              /\ pc[p] \in Gone => pc'[p] \in Gone
  BY <1>3 DEF TypeOK, Gone
<1>4. ASSUME NEW q \in Procs, safelyFork(q) \/ Terminated(q)
      PROVE  \E l : pc' = [pc EXCEPT ![q] = l] /\ pc[q] \notin Gone
  BY <1>4 DEF safelyFork, prctl, prctlFails, getppid, Terminated, Die, Goto, Gone, Dead
<1>5. ASSUME NEW q \in Procs, handleCommandList(q) \/ Program(q)
      PROVE  \E l : pc' = [pc EXCEPT ![q] = l] /\ pc[q] \notin Gone
  BY <1>5 DEF handleCommandList, closeUnused, CloseEnds, connect, handleCommandElementList,
     handleCommandFails, execvp, Program, ProgramReadsEof, ProgramWritesNowhere, Die, Goto,
     Gone, Dead
<1>6. ASSUME NEW q \in Procs, NEW how, ProgramStops(q, how)
      PROVE  \E l : pc' = [pc EXCEPT ![q] = l] /\ pc[q] \notin Gone
  BY <1>6 DEF ProgramStops, Die, Goto, Gone, Dead
<1> QED BY <1>0, <1>1, <1>2, <1>3, <1>4, <1>5, <1>6 DEF Next, Finished

\* Every step of a job of any length is a step of Job, or none: the handler
\* ends once, what is left of its commands only gets less, and the shell's end
\* is a step of its own.
THEOREM JobSteps ==
  Spec => JobOfShell!Init /\ [][JobOfShell!Next]_<<shell, AsJob>>
<1>1. Init => JobOfShell!Init
  BY JobLength, PipelineAssumption DEF Init, JobOfShell!Init, AsJob, Dead, Procs
<1>2. TypeOK /\ [Next]_vars => [JobOfShell!Next]_<<shell, AsJob>>
  <2> SUFFICES ASSUME TypeOK, [Next]_vars PROVE [JobOfShell!Next]_<<shell, AsJob>>
    OBVIOUS
  <2>1. CASE ShellEnds
    <3>1. AsJob' = AsJob
      BY <2>1 DEF ShellEnds, AsJob, AllGone
    <3> QED BY <2>1, <3>1 DEF ShellEnds, JobOfShell!Next, JobOfShell!ShellEnds
  <2>2. CASE ~ShellEnds
    <3>1. shell' = shell
      BY <2>2 DEF Next, vars, interpretSimpleList, makePipe, makePipeFails, fork, forkFails,
         parentBranch, Switch, waitForChildren, safelyFork, prctl, prctlFails, getppid, Terminated,
         handleCommandList, closeUnused, CloseEnds, connect, handleCommandElementList,
         handleCommandFails, execvp, Program, ProgramReadsEof, ProgramWritesNowhere,
         ProgramStops, Finished, Die
    <3>2. CASE pc[0] \notin Dead
      <4>1. AsJob = "running" /\ AsJob' \in {"running", "dying", "gone"}
        BY <3>2 DEF AsJob
      <4> QED BY <3>1, <4>1 DEF JobOfShell!Next, JobOfShell!HandlerEnds
    <3>3. CASE pc[0] \in Dead
      <4>1. pc'[0] \in Dead /\ (AllGone => AllGone')
        BY <3>3, GoneStayGone
      <4>2. AsJob' = AsJob \/ (AsJob = "dying" /\ AsJob' = "gone")
        BY <3>3, <4>1 DEF AsJob
      <4> QED BY <3>1, <4>2 DEF JobOfShell!Next, JobOfShell!CommandsDie
    <3> QED BY <3>2, <3>3
  <2> QED BY <2>1, <2>2
<1> QED BY <1>1, <1>2, TypeCorrect, PTL DEF Spec
=============================================================================
