----------------------------- MODULE RingProofs -----------------------------
(***************************************************************************)
(* Proofs about Ring and RingOutput for every number of processes, every   *)
(* STOPNUMBER and every pipe capacity.                                     *)
(***************************************************************************)
EXTENDS RingOutput, SequenceTheorems, TLAPS

-----------------------------------------------------------------------------
(* Arithmetic of the ring. *)

\* A remainder is determined by any quotient.
LEMMA ModUnique ==
  ASSUME NEW n \in Nat \ {0}, NEW a \in Int, NEW q \in Int, NEW r \in 0 .. n-1,
         a = n * q + r
  PROVE  a % n = r
  OBVIOUS

\* Counting up by one moves to the next process of the ring.
LEMMA ModSucc ==
  ASSUME NEW v \in Nat
  PROVE  /\ v % N \in Proc
         /\ (v + 1) % N = Succ(v % N)
<1> DEFINE r == v % N
           q == v \div N
<1>1. /\ r \in 0 .. N-1
      /\ q \in Int
      /\ v = N * q + r
  BY RingAssumption
<1>2. CASE r = N-1
  <2>1. v + 1 = N * (q + 1) + 0
    BY <1>1, <1>2, RingAssumption
  <2>2. (v + 1) % N = 0
    <3> HIDE DEF q, r
    <3> QED BY <1>1, <2>1, ModUnique, RingAssumption
  <2> QED BY <1>1, <1>2, <2>2 DEF Succ, Proc
<1>3. CASE r # N-1
  <2>1. v + 1 = N * q + (r + 1) /\ r + 1 \in 0 .. N-1
    BY <1>1, <1>3, RingAssumption
  <2>2. (v + 1) % N = r + 1
    <3> HIDE DEF q, r
    <3> QED BY <1>1, <2>1, ModUnique, RingAssumption
  <2> QED BY <1>1, <1>3, <2>2 DEF Succ, Proc
<1> QED BY <1>2, <1>3

LEMMA ModZero == 0 % N = 0
  BY RingAssumption

\* The input pipe of a process is the output pipe of its predecessor.
LEMMA InputPipe ==
  ASSUME NEW p \in Proc
  PROVE  /\ getMyInputPipe(p) \in Proc
         /\ getMyInputPipe(p) # p
         /\ Succ(getMyInputPipe(p)) = p
         /\ getMyInputPipe(p) = IF p = 0 THEN N-1 ELSE p-1
<1>1. (p + N - 1) % N = IF p = 0 THEN N-1 ELSE p-1
  BY RingAssumption DEF Proc
<1> QED BY <1>1, RingAssumption DEF getMyInputPipe, Succ, Proc

LEMMA SuccInverse ==
  ASSUME NEW p \in Proc
  PROVE  /\ Succ(p) \in Proc
         /\ Succ(p) # p
         /\ getMyInputPipe(Succ(p)) = p
<1>1. Succ(p) \in Proc /\ Succ(p) # p
  BY RingAssumption DEF Succ, Proc
<1> QED BY <1>1, InputPipe, RingAssumption DEF Succ, Proc

\* The way around the ring from the process that prints STOPNUMBER.
LEMMA Distance ==
  /\ Stopper \in Proc
  /\ Dist(Stopper) = 0
  /\ \A p \in Proc : Dist(p) \in 0 .. N-1
  /\ \A p, q \in Proc : Dist(p) = Dist(q) => p = q
  /\ \A p \in Proc : Succ(p) # Stopper => Dist(Succ(p)) = Dist(p) + 1
  /\ \A p \in Proc : Succ(p) = Stopper => Dist(p) = N-1
<1>1. Stopper \in Proc
  BY RingAssumption DEF Stopper, Proc
<1> QED BY <1>1, RingAssumption DEF Dist, Succ, Proc

\* A pipe with at most one int is empty after a read and has one after a write.
LEMMA LastInt ==
  ASSUME NEW s \in Seq(Int)
  PROVE  /\ s # << >> /\ Len(s) <= 1 => Len(s) = 1 /\ Tail(s) = << >>
         /\ \A v \in Int : s = << >> =>
              /\ Append(s, v) # << >>
              /\ Len(Append(s, v)) = 1
              /\ Head(Append(s, v)) = v
<1>1. s # << >> => Len(s) >= 1
  OBVIOUS
<1>2. s # << >> => Tail(s) \in Seq(Int) /\ Len(Tail(s)) = Len(s) - 1
  BY HeadTailProperties
<1>3. s # << >> /\ Len(s) <= 1 => Len(s) = 1 /\ Tail(s) = << >>
  <2> SUFFICES ASSUME s # << >>, Len(s) <= 1 PROVE Len(s) = 1 /\ Tail(s) = << >>
    OBVIOUS
  <2>1. Len(s) = 1
    <3> DEFINE n == Len(s)
    <3>1. n \in Nat \ {0}
      BY EmptySeq
    <3>2. n <= 1
      OBVIOUS
    <3> HIDE DEF n
    <3>3. n = 1
      BY <3>1, <3>2
    <3> QED BY <3>3 DEF n
  <2>2. Tail(s) \in Seq(Int) /\ Len(Tail(s)) = 0
    BY <1>2, <2>1
  <2>3. Tail(s) # << >> => Len(Tail(s)) \in Nat \ {0}
    BY <2>2, EmptySeq
  <2> QED BY <2>1, <2>2, <2>3
<1>4. ASSUME NEW v \in Int, s = << >>
      PROVE  /\ Append(s, v) # << >>
             /\ Len(Append(s, v)) = 1
             /\ Head(Append(s, v)) = v
  BY <1>4, AppendProperties
<1> QED BY <1>3, <1>4

-----------------------------------------------------------------------------
(* Type correctness. *)

\* ring.c keeps to its types: process numbers index pipeArr, pipes hold ints.
THEOREM TypeCorrect == Spec => []TypeOK
<1> USE RingAssumption DEF TypeOK, PCs, Dead
<1>1. Init => TypeOK
  BY DEF Init
<1>2. TypeOK /\ [Next]_vars => TypeOK'
  <2> SUFFICES ASSUME TypeOK, [Next]_vars PROVE TypeOK'
    OBVIOUS
  <2> USE DEF Goto, End
  <2>0. 0 \in Proc
    BY DEF Proc
  <2>1. CASE createPipes
    BY <2>0, <2>1 DEF createPipes
  <2>2. CASE createPipesFails
    BY <2>0, <2>2 DEF createPipesFails
  <2>3. ASSUME NEW p \in Proc, Step(p) PROVE TypeOK'
    <3>1. CASE recForkStops(p)
      BY <3>1 DEF recForkStops
    <3>2. CASE recFork(p)
      <4>1. p+1 \in Proc
        BY <3>2 DEF recFork, Proc
      <4> QED BY <3>2, <4>1 DEF recFork
    <3>3. CASE recForkFails(p)
      BY <3>3 DEF recForkFails
    <3>4. CASE initOutputPipe(p)
      BY <3>4 DEF initOutputPipe
    <3>5. CASE initInputPipe(p)
      BY <3>5 DEF initInputPipe
    <3>6. ASSUME NEW i \in Proc, closeUnnecessaryPipe(p, i) PROVE TypeOK'
      BY <3>6 DEF closeUnnecessaryPipe
    <3>7. CASE startCycle(p)
      BY <3>7 DEF startCycle, Begin
    <3>8. ASSUME NEW v \in Incoming(p), ReadInt(p, v)
          PROVE  v \in Int /\ buf' \in [Proc -> Seq(Int)]
      <4> DEFINE i == getMyInputPipe(p)
      <4>1. i \in Proc /\ buf[i] \in Seq(Int)
        BY InputPipe
      <4> HIDE DEF i
      <4>2. CASE buf[i] # << >> /\ v = Head(buf[i]) /\ buf' = [buf EXCEPT ![i] = Tail(@)]
        <5>1. Head(buf[i]) \in Int /\ Tail(buf[i]) \in Seq(Int)
          BY <4>1, <4>2
        <5> QED BY <4>2, <5>1
      <4>3. CASE v \in Garbage /\ UNCHANGED buf
        BY <4>3
      <4> QED BY <3>8, <4>2, <4>3 DEF ReadInt, i
    <3>9. ASSUME NEW v \in Incoming(p), readNumber(p, v) PROVE TypeOK'
      BY <3>8, <3>9 DEF readNumber
    <3>10. CASE printOutput(p)
      BY <3>10 DEF printOutput, PrintNumber
    <3>11. ASSUME NEW v \in Int, WriteInt(p, v)
           PROVE  buf' \in [Proc -> Seq(Int)]
      BY <3>11 DEF WriteInt, getMyOutputPipe
    <3>12. CASE writeNumber(p)
      BY <3>11, <3>12 DEF writeNumber, Send
    <3>13. CASE writeSignal(p)
      BY <3>11, <3>13 DEF writeSignal, Send, MYSIG_WAITFORCHILD
    <3>14. CASE brokenPipe(p)
      BY <3>14 DEF brokenPipe
    <3>15. ASSUME NEW v \in Incoming(p), drainSignal(p, v) PROVE TypeOK'
      BY <3>8, <3>15 DEF drainSignal
    <3>16. CASE closeOutputPipe(p)
      BY <3>16 DEF closeOutputPipe
    <3>17. CASE closeInputPipe(p)
      BY <3>17 DEF closeInputPipe
    <3>18. CASE waitForChild(p)
      BY <3>18 DEF waitForChild
    <3> QED BY <2>3, <3>1, <3>2, <3>3, <3>4, <3>5, <3>6, <3>7, <3>9, <3>10,
               <3>12, <3>13, <3>14, <3>15, <3>16, <3>17, <3>18 DEF Step
  <2>4. CASE UNCHANGED vars
    BY <2>4 DEF vars
  <2> QED BY <2>1, <2>2, <2>3, <2>4 DEF Next, Create, Finished
<1> QED BY <1>1, <1>2, PTL DEF Spec

-----------------------------------------------------------------------------
(* The inductive invariant. *)

Good ==
  /\ TypeOK
  /\ Lineage
  /\ ~Faulty
  /\ Births /\ Descriptors /\ Tokens /\ Values /\ Stopping

\* While not everybody is born, some process that has not initialised its pipes
\* holds all ends; the first process is not at its start any more.
LEMMA Midwife ==
  ASSUME Good, NEW p \in Proc, NEW q \in Proc, pc[p] \notin Early, pc[q] \in Early
  PROVE  \E r \in Proc : rd[r] = Proc /\ wr[r] = Proc
<1> USE DEF Good, TypeOK, PCs, Dead, Early
<1>1. PICK r \in Proc : pc[r] \in {"start", "fork"}
  BY DEF Births
<1>2. pc[r] # "start"
  BY <1>1, RingAssumption DEF Lineage, Proc
<1> QED BY <1>1, <1>2 DEF Descriptors

\* A process that is about to write finds a reader.
LEMMA ReaderExists ==
  ASSUME Good, NEW p \in Proc, pc[p] \in {"write", "signal"}
  PROVE  HasReader(getMyOutputPipe(p))
<1> USE DEF Good, TypeOK, PCs, Dead, getMyOutputPipe
<1> DEFINE s == Succ(p)
<1>1. s \in Proc /\ s # p /\ getMyInputPipe(s) = p
  BY SuccInverse
<1> HIDE DEF s
<1>2. CASE pc[s] \in Early
  BY <1>1, <1>2, Midwife DEF HasReader, Early
<1>3. CASE pc[s] \in InCycle
  BY <1>1, <1>3 DEF Descriptors, HasReader
<1>4. CASE pc[s] \in {"close", "wait", "exited"}
  <2>1. Passed(s) /\ out = STOPNUMBER
    BY <1>1, <1>4 DEF Stopping, Passed
  <2>2. pc[p] = "signal" /\ Dist(s) < Dist(p)
    BY <1>1, <2>1, RingAssumption DEF Values
  <2>3. s = Stopper
    BY <1>1, <2>2, Distance, RingAssumption DEF s
  <2>4. Passed(p)
    BY <1>4, <2>3 DEF Stopping
  <2> QED BY <2>2, <2>4 DEF Passed
<1> QED BY <1>1, <1>2, <1>3, <1>4 DEF Early, InCycle, Faulty, Births

\* A process that waits for an int finds it, or finds somebody who may write it.
LEMMA WriterExists ==
  ASSUME Good, NEW p \in Proc, pc[p] \in {"read", "drain"},
         buf[getMyInputPipe(p)] = << >>
  PROVE  HasWriter(getMyInputPipe(p))
<1> USE DEF Good, TypeOK, PCs, Dead
<1> DEFINE i == getMyInputPipe(p)
<1>1. i \in Proc /\ Succ(i) = p /\ buf[i] = << >>
  BY InputPipe
<1> HIDE DEF i
<1>2. CASE pc[i] \in Early
  BY <1>1, <1>2, Midwife DEF HasWriter, Early, i
<1>3. CASE pc[i] \in InCycle
  BY <1>1, <1>3 DEF Descriptors, HasWriter, getMyOutputPipe, i
<1>4. CASE pc[i] \in {"close", "wait", "exited"}
  BY <1>1, <1>4 DEF Stopping, Passed
<1> QED BY <1>1, <1>2, <1>3, <1>4 DEF Early, InCycle, Faulty, Births

\* A process that has failed stays failed, and processes are born in order.
LEMMA Beginnings ==
  ASSUME TypeOK, Lineage, [Next]_vars
  PROVE  /\ Lineage'
         /\ Faulty => Faulty'
<1> USE DEF TypeOK, Faulty, Goto, End, Dead, Early
<1>0. 0 \in Proc /\ \A p \in Proc : p # N-1 => p+1 \in Proc
  BY RingAssumption DEF Proc
<1>1. CASE Create
  BY <1>0, <1>1 DEF Create, createPipes, createPipesFails, Lineage, Proc
<1>2. ASSUME NEW p \in Proc, recFork(p) PROVE Lineage' /\ (Faulty => Faulty')
  <2>1. /\ p \in Int /\ p+1 \in Proc /\ pc[p] = "fork"
        /\ \A q \in Proc : q > p => pc[q] = "unborn"
    BY <1>0, <1>2 DEF recFork, Lineage, Proc
  <2>2. pc' = [pc EXCEPT ![p] = "init", ![p+1] = "fork"]
    BY <1>2 DEF recFork
  <2> QED BY <2>1, <2>2 DEF Lineage, Proc
<1>3. ASSUME NEW p \in Proc, Step(p), ~recFork(p)
      PROVE  Lineage' /\ (Faulty => Faulty')
  <2>1. PICK l : /\ pc' = [pc EXCEPT ![p] = l]
                 /\ pc[p] \notin {"start", "unborn", "failed"}
                 /\ l \notin Early
    BY <1>3 DEF Step, recForkStops, recForkFails, initOutputPipe,
       initInputPipe, closeUnnecessaryPipe, startCycle, Begin, readNumber, printOutput, PrintNumber,
       writeNumber, writeSignal, Send, brokenPipe, drainSignal, closeOutputPipe,
       closeInputPipe, waitForChild
  <2> QED BY <2>1 DEF Lineage
<1>4. CASE UNCHANGED vars
  BY <1>4 DEF vars, Lineage
<1> QED BY <1>1, <1>2, <1>3, <1>4 DEF Next, Finished

\* A process behind p: p has a successor that is at most as far.
LEMMA LaterProcess ==
  ASSUME NEW p \in Proc, NEW r \in Proc, r > p
  PROVE  p+1 \in Proc /\ p # N-1 /\ (r = p+1 \/ r > p+1)
BY RingAssumption DEF Proc

Parts == Births /\ Descriptors /\ Tokens /\ Values /\ Stopping

Before == {"unborn", "start", "fork", "init", "read"}

\* A step of processes that have not printed yet, except for process 0 when it
\* begins to cycle.
Quiet ==
  /\ UNCHANGED <<number, buf, out>>
  /\ \A q \in Proc : pc'[q] = pc[q] \/ (pc[q] \in Before /\ pc'[q] \in Before)
  /\ pc'[0] = pc[0] \/ pc'[0] \in {"fork", "init"}
  /\ pc[0] \in {"start", "fork", "init"} <=> pc'[0] \in {"start", "fork", "init"}

\* Such a step keeps what is said about the token.
LEMMA QuietStep ==
  ASSUME Good, TypeOK', Quiet
  PROVE  Tokens' /\ Values' /\ Stopping'
<1> USE DEF Good, TypeOK, Before, Quiet
<1>0. 0 \in Proc
  BY RingAssumption DEF Proc
<1>1. \A q \in Proc : /\ Holds(q)' <=> Holds(q)
                      /\ Passed(q)' <=> Passed(q)
  BY <1>0 DEF Holds, Passed
<1>2. \A q \in Proc : \A l \in PCs \ Before : pc'[q] = l <=> pc[q] = l
  BY DEF PCs
<1>3. Tokens'
  BY <1>1 DEF Tokens
<1>4. Values'
  <2>1. /\ (out \in -1 .. STOPNUMBER)'
        /\ (pc[0] \in {"start", "fork", "init"} => out = -1 /\ number[0] = 0)'
    BY DEF Values
  <2>2. (\A p \in Proc : pc[p] = "print" =>
           out < STOPNUMBER /\ number[p] = out+1 /\ p = (out+1) % N)'
    BY <1>2 DEF Values, PCs
  <2>3. (\A p \in Proc : pc[p] = "write" =>
           out \in 0 .. STOPNUMBER-1 /\ number[p] = out /\ p = out % N)'
    BY <1>2 DEF Values, PCs
  <2>4. (\A p \in Proc : pc[p] = "signal" =>
           /\ out = STOPNUMBER
           /\ number[p] = IF p = Stopper THEN STOPNUMBER ELSE MYSIG_WAITFORCHILD
           /\ \A q \in Proc : Passed(q) <=> Dist(q) < Dist(p))'
    BY <1>1, <1>2 DEF Values, PCs
  <2>5. (\A i \in Proc : buf[i] # << >> =>
           \/ /\ out \in 0 .. STOPNUMBER-1
              /\ Head(buf[i]) = out+1
              /\ i = out % N
           \/ /\ out = STOPNUMBER
              /\ Head(buf[i]) = MYSIG_WAITFORCHILD
              /\ \A q \in Proc : Passed(q) <=> Dist(q) <= Dist(i))'
    BY <1>1 DEF Values
  <2> QED BY <2>1, <2>2, <2>3, <2>4, <2>5 DEF Values
<1>5. Stopping'
  <2>1. (\A p \in Proc : Passed(p) => out = STOPNUMBER)'
    BY <1>1 DEF Stopping
  <2>2. (\A p \in Proc : pc[p] = "drain" => p = Stopper)'
    BY <1>2 DEF Stopping, PCs
  <2>3. (pc[Stopper] \in {"close", "wait", "exited"}
           => \A q \in Proc : Passed(q) /\ buf[q] = << >>)'
    BY <1>1, <1>2, Distance DEF Stopping, PCs
  <2>4. (\A i \in Proc : Passed(i) =>
           \/ buf[i] # << >>
           \/ pc[Succ(i)] \in {"signal", "close", "wait", "exited"})'
    BY <1>1, <1>2, SuccInverse DEF Stopping, PCs
  <2>5. (\A p, q \in Proc : pc[p] = "exited" /\ q > p => pc[q] = "exited")'
    BY <1>2 DEF Stopping, PCs
  <2> QED BY <2>1, <2>2, <2>3, <2>4, <2>5 DEF Stopping
<1> QED BY <1>3, <1>4, <1>5

\* The steps before cycleNumber().
LEMMA SetupStep ==
  ASSUME Good, TypeOK', Lineage', ~Faulty', NEW p \in Proc,
         \/ createPipes
         \/ recForkStops(p)
         \/ recFork(p)
         \/ initOutputPipe(p)
         \/ initInputPipe(p)
         \/ \E i \in Proc : closeUnnecessaryPipe(p, i)
         \/ startCycle(p)
  PROVE  Parts'
<1> USE DEF Good, TypeOK, PCs, Dead, Goto
<1>0. 0 \in Proc /\ N-1 \in Proc /\ Proc \subseteq Int
  BY RingAssumption DEF Proc
<1>1. CASE createPipes
  <2> USE <1>0, <1>1, RingAssumption DEF createPipes
  <2>1. Births'
    BY DEF Births, Early, Lineage, Proc
  <2>2. Descriptors'
    BY DEF Descriptors, InCycle
  <2>3. Tokens' /\ Values' /\ Stopping'
    <3>1. Quiet
      BY DEF Quiet, Before
    <3> HIDE DEF Good, TypeOK, PCs
    <3> QED BY <3>1, QuietStep
  <2> QED BY <2>1, <2>2, <2>3 DEF Parts
<1>2. CASE recForkStops(p)
  <2> USE <1>0, <1>2, RingAssumption DEF recForkStops
  <2>1. Births'
    BY DEF Births, Early, Lineage, Proc
  <2>2. Descriptors'
    BY InputPipe DEF Descriptors, InCycle, getMyOutputPipe
  <2>3. Tokens' /\ Values' /\ Stopping'
    <3>1. Quiet
      BY DEF Quiet, Before
    <3> HIDE DEF Good, TypeOK, PCs
    <3> QED BY <3>1, QuietStep
  <2> QED BY <2>1, <2>2, <2>3 DEF Parts
<1>3. CASE recFork(p)
  <2>0. /\ p+1 \in Proc /\ p+1 # 0 /\ p # p+1
        /\ pc[p] = "fork" /\ pc[p+1] = "unborn"
        /\ pc' = [pc EXCEPT ![p] = "init", ![p+1] = "fork"]
    BY <1>0, <1>3 DEF recFork, Lineage, Early, Proc
  <2>1. Births'
    BY <1>0, <2>0 DEF Births, Early, Lineage, Proc
  <2>2. /\ rd' = [rd EXCEPT ![p+1] = rd[p]]
        /\ wr' = [wr EXCEPT ![p+1] = wr[p]]
        /\ rd[p] = Proc /\ wr[p] = Proc
    BY <1>3, <2>0 DEF recFork, Descriptors
  <2>3. Descriptors'
    <3> SUFFICES ASSUME NEW q \in Proc
                 PROVE  /\ pc'[q] = "fork" => rd'[q] = Proc /\ wr'[q] = Proc
                        /\ pc'[q] \in InCycle => /\ getMyInputPipe(q) \in rd'[q]
                                                 /\ getMyOutputPipe(q) \in wr'[q]
      BY DEF Descriptors
    <3>1. CASE q = p
      <4>1. pc'[p] = "init" /\ rd'[p] = Proc /\ wr'[p] = Proc
        BY <2>0, <2>2
      <4> HIDE DEF TypeOK, Good, PCs
      <4> QED BY <3>1, <4>1, InputPipe DEF getMyOutputPipe
    <3>2. CASE q = p+1
      BY <2>0, <2>2, <3>2 DEF InCycle
    <3>3. CASE q # p /\ q # p+1
      BY <2>0, <2>2, <3>3 DEF Descriptors
    <3> QED BY <3>1, <3>2, <3>3
  <2>4. Tokens' /\ Values' /\ Stopping'
    <3>1. UNCHANGED <<number, buf, out>>
      BY <1>3 DEF recFork
    <3>2. \A q \in Proc : q # p /\ q # p+1 => pc'[q] = pc[q]
      BY <2>0
    <3>3. pc'[p] = "init" /\ pc'[p+1] = "fork"
      BY <2>0
    <3>4. Quiet
      BY <1>0, <2>0, <3>1, <3>2, <3>3 DEF Quiet, Before
    <3> HIDE DEF Good, TypeOK, PCs
    <3> QED BY <3>4, QuietStep
  <2> QED BY <2>1, <2>3, <2>4 DEF Parts
<1>4. CASE initOutputPipe(p) \/ initInputPipe(p)
           \/ \E i \in Proc : closeUnnecessaryPipe(p, i)
  <2>1. /\ UNCHANGED <<pc, number, buf, out>>
        /\ pc[p] = "init"
        /\ \A q \in Proc : q # p => rd'[q] = rd[q] /\ wr'[q] = wr[q]
        /\ getMyInputPipe(p) \in rd[p] => getMyInputPipe(p) \in rd'[p]
        /\ getMyOutputPipe(p) \in wr[p] => getMyOutputPipe(p) \in wr'[p]
    BY <1>4, InputPipe DEF initOutputPipe, initInputPipe, closeUnnecessaryPipe,
                           MyPipes, getMyOutputPipe
  <2>2. Descriptors'
    BY <2>1 DEF Descriptors
  <2> QED BY <2>1, <2>2 DEF Parts, Births, Tokens, Holds, Values, Passed, Stopping
<1>5. CASE startCycle(p)
  <2> USE <1>0, <1>5, RingAssumption DEF startCycle, Begin
  <2>1. Births'
    BY DEF Births, Early, Proc
  <2>2. Descriptors'
    BY DEF Descriptors, InCycle
  <2>3. CASE p # 0
    <3>1. Tokens' /\ Values' /\ Stopping'
      <4>1. Quiet
        BY <2>3 DEF Quiet, Before
      <4> HIDE DEF Good, TypeOK, PCs
      <4> QED BY <4>1, QuietStep
    <3> QED BY <2>1, <2>2, <3>1 DEF Parts
  <2>4. CASE p = 0
    <3>1. Tokens'
      BY <2>4 DEF Tokens, Holds
    <3>2. /\ Holds(0) /\ out = -1 /\ number[0] = 0
          /\ pc' = [pc EXCEPT ![0] = "print"]
          /\ \A q \in Proc : ~Passed(q) /\ buf[q] = << >>
          /\ \A q \in Proc : pc[q] \notin {"print", "write", "signal"}
      BY <2>4 DEF Holds, Values, Stopping, Tokens
    <3>3. Values'
      BY <3>2, ModZero DEF Values
    <3>4. Stopping'
      BY <3>2, Distance DEF Stopping, Passed
    <3> QED BY <2>1, <2>2, <3>1, <3>3, <3>4 DEF Parts
  <2> QED BY <2>3, <2>4
<1> QED BY <1>1, <1>2, <1>3, <1>4, <1>5

-----------------------------------------------------------------------------
\* Births and Descriptors do not care how far a process is in its cycle.
LEMMA CycleFrame ==
  ASSUME Good, TypeOK', NEW p \in Proc, pc[p] \in InCycle \ {"init"},
         NEW l \in InCycle \cup {"close"}, pc' = [pc EXCEPT ![p] = l],
         UNCHANGED <<rd, wr>>
  PROVE  Births' /\ Descriptors'
<1> USE DEF Good, TypeOK, InCycle
<1>1. Births'
  <2>0. 0 \in Proc /\ \A q \in Proc : q # N-1 => q+1 \in Proc
    BY RingAssumption DEF Proc
  <2> QED BY <2>0 DEF Births, Early
<1>2. Descriptors'
  BY DEF Descriptors
<1> QED BY <1>1, <1>2

\* Where the token goes and what it says when it is taken from a pipe.
LEMMA ReadStep ==
  ASSUME Good, TypeOK', NEW p \in Proc, NEW v, readNumber(p, v)
  PROVE  Parts'
<1> USE DEF Good, TypeOK, PCs, Dead
<1> DEFINE i == getMyInputPipe(p)
<1>1. i \in Proc /\ Succ(i) = p /\ i # p
  BY InputPipe
<1>2. /\ pc[p] = "read" /\ number' = [number EXCEPT ![p] = v]
      /\ pc' = [pc EXCEPT ![p] = IF v = MYSIG_WAITFORCHILD THEN "signal" ELSE "print"]
      /\ UNCHANGED <<rd, wr, out>>
  BY DEF readNumber, Goto
<1>3. buf[i] # << >> /\ v = Head(buf[i]) /\ buf' = [buf EXCEPT ![i] = Tail(@)]
  <2>1. buf[i] = << >> => HasWriter(i)
    BY <1>2, WriterExists
  <2> QED BY <2>1 DEF readNumber, ReadInt
<1> HIDE DEF i
<1>4. /\ \A q \in Proc : q # i => buf[q] = << >>
      /\ Len(buf[i]) = 1 /\ Tail(buf[i]) = << >>
  <2>1. buf[i] \in Seq(Int) /\ Len(buf[i]) <= 1
    BY <1>1 DEF Tokens
  <2>2. Len(buf[i]) = 1 /\ Tail(buf[i]) = << >>
    BY <1>3, <2>1, LastInt
  <2> QED BY <1>1, <1>3, <2>2 DEF Tokens
<1>5. \A q \in Proc : buf'[q] = << >> /\ ~Holds(q)
  BY <1>1, <1>3, <1>4 DEF Tokens
<1>6. Births' /\ Descriptors'
  BY <1>2, CycleFrame DEF InCycle
<1>7. Tokens'
  <2>1. \A q \in Proc : Holds(q)' => q = p
    BY <1>2, <1>5 DEF Holds
  <2> QED BY <1>5, <2>1 DEF Tokens
<1>8. \A q \in Proc : Passed(q)' <=> Passed(q)
  BY <1>2 DEF Passed
<1>9. CASE out \in 0 .. STOPNUMBER-1 /\ v = out+1 /\ i = out % N
  <2>0. v # MYSIG_WAITFORCHILD
    BY <1>9, RingAssumption DEF MYSIG_WAITFORCHILD
  <2>1. pc' = [pc EXCEPT ![p] = "print"]
    BY <1>2, <2>0
  <2>2. p = (out + 1) % N
    BY <1>1, <1>9, ModSucc
  <2>3. \A q \in Proc : ~Passed(q) /\ pc[q] \notin {"print", "write", "signal"}
    BY <1>5, <1>9, RingAssumption DEF Stopping, Holds
  <2>4. Values'
    <3>1. \A q \in Proc : /\ pc'[q] \notin {"write", "signal"}
                          /\ pc'[q] = "print" => q = p
      BY <2>1, <2>3
    <3>2. pc'[0] \notin {"start", "fork", "init"}
      <4>1. 0 \in Proc
        BY RingAssumption DEF Proc
      <4> QED BY <1>5, <2>1, <4>1 DEF Holds
    <3>3. number'[p] = out+1 /\ out' = out /\ out < STOPNUMBER
      BY <1>2, <1>9, RingAssumption
    <3> QED BY <1>5, <2>2, <3>1, <3>2, <3>3 DEF Values
  <2>5. Stopping'
    BY <1>2, <1>8, <2>1, <2>3, Distance DEF Stopping, Passed
  <2> QED BY <1>6, <1>7, <2>4, <2>5 DEF Parts
<1>10. CASE /\ out = STOPNUMBER
            /\ v = MYSIG_WAITFORCHILD
            /\ \A q \in Proc : Passed(q) <=> Dist(q) <= Dist(i)
  <2>1. p # Stopper /\ Dist(p) = Dist(i) + 1
    <3>1. ~(Dist(p) <= Dist(i))
      BY <1>2, <1>10 DEF Passed
    <3> QED BY <1>1, <3>1, Distance, RingAssumption
  <2>2. pc' = [pc EXCEPT ![p] = "signal"]
    BY <1>2, <1>10
  <2>3. \A q \in Proc : Passed(q) <=> Dist(q) < Dist(p)
    <3> SUFFICES ASSUME NEW q \in Proc PROVE Passed(q) <=> Dist(q) < Dist(p)
      OBVIOUS
    <3>1. Dist(q) \in Int /\ Dist(i) \in Int
      BY <1>1, Distance, RingAssumption
    <3> HIDE DEF Passed, Dist
    <3>2. Dist(q) <= Dist(i) <=> Dist(q) < Dist(p)
      BY <2>1, <3>1
    <3> QED BY <1>10, <3>2
  <2>4. Values'
    <3>1. \A q \in Proc : pc'[q] \in {"print", "write", "signal"} => q = p
      BY <1>5, <2>2 DEF Holds
    <3>2. pc'[0] \notin {"start", "fork", "init"}
      <4>1. 0 \in Proc
        BY RingAssumption DEF Proc
      <4> QED BY <1>5, <2>2, <4>1 DEF Holds
    <3>3. number'[p] = MYSIG_WAITFORCHILD /\ out' = STOPNUMBER
      BY <1>2, <1>10
    <3> QED BY <1>5, <1>8, <2>1, <2>2, <2>3, <3>1, <3>2, <3>3, RingAssumption DEF Values
  <2>5. Stopping'
    <3>1. \A j \in Proc : Passed(j) =>
            j = i \/ pc[Succ(j)] \in {"signal", "close", "wait", "exited"}
      BY <1>4 DEF Stopping
    <3>2. \A j \in Proc : Passed(j)' =>
            pc'[Succ(j)] \in {"signal", "close", "wait", "exited"}
      BY <1>1, <1>8, <2>2, <3>1, SuccInverse
    <3>3. pc[Stopper] \notin {"close", "wait", "exited"}
      BY <1>1, <1>3 DEF Stopping
    <3>4. /\ pc'[Stopper] \notin {"close", "wait", "exited"}
          /\ \A q \in Proc : pc'[q] = "drain" => pc[q] = "drain"
          /\ \A q \in Proc : pc'[q] = "exited" <=> pc[q] = "exited"
      BY <1>2, <2>2, <3>3, Distance
    <3> QED BY <1>2, <1>8, <3>2, <3>4 DEF Stopping
  <2> QED BY <1>6, <1>7, <2>4, <2>5 DEF Parts
<1> QED BY <1>1, <1>3, <1>9, <1>10 DEF Values

\* Where the token goes and what it says when it is printed.
LEMMA PrintStep ==
  ASSUME Good, TypeOK', NEW p \in Proc, printOutput(p)
  PROVE  Parts'
<1> USE DEF Good, TypeOK, PCs, Dead
<1>1. /\ pc[p] = "print" /\ out' = number[p] /\ UNCHANGED <<number, rd, wr, buf>>
      /\ pc' = [pc EXCEPT ![p] = IF number[p] = STOPNUMBER THEN "signal" ELSE "write"]
  BY DEF printOutput, PrintNumber, Goto
<1>2. out \in Int /\ out < STOPNUMBER /\ out >= -1
      /\ number[p] = out+1 /\ p = (out+1) % N
  BY <1>1, RingAssumption DEF Values
<1>3. \A q \in Proc : buf'[q] = << >> /\ (Holds(q) => q = p) /\ ~Passed(q)
  BY <1>1, <1>2, RingAssumption DEF Tokens, Holds, Stopping
<1>4. Births' /\ Descriptors'
  BY <1>1, CycleFrame DEF InCycle
<1>5. \A q \in Proc : (Holds(q)' => q = p) /\ ~Passed(q)'
  BY <1>1, <1>3 DEF Holds, Passed
<1>6. Tokens'
  BY <1>3, <1>5 DEF Tokens
<1>7. Values'
  <2>1. pc'[0] \notin {"start", "fork", "init"}
    <3>1. 0 \in Proc
      BY RingAssumption DEF Proc
    <3> QED BY <1>1, <1>3, <3>1 DEF Holds
  <2>2. \A q \in Proc : pc'[q] # "print" /\ (pc'[q] \in {"write", "signal"} => q = p)
    BY <1>1, <1>3 DEF Holds
  <2>3. CASE number[p] = STOPNUMBER
    <3>1. p = Stopper /\ Dist(p) = 0 /\ \A q \in Proc : ~(Dist(q) < Dist(p))
      BY <1>2, <2>3, Distance, RingAssumption DEF Stopper
    <3>2. out' = STOPNUMBER /\ number'[p] = STOPNUMBER /\ pc'[p] = "signal"
      BY <1>1, <2>3
    <3> QED BY <1>3, <1>5, <2>1, <2>2, <3>1, <3>2, RingAssumption DEF Values
  <2>4. CASE number[p] # STOPNUMBER
    <3>1. pc'[p] = "write" /\ number'[p] = out' /\ p = out' % N
      BY <1>1, <1>2, <2>4
    <3>2. out' \in 0 .. STOPNUMBER-1
      BY <1>1, <1>2, <2>4, RingAssumption
    <3>3. \A q \in Proc : /\ pc'[q] \notin {"print", "signal"}
                          /\ pc'[q] = "write" => q = p
      BY <2>2, <3>1
    <3>4. out' \in -1 .. STOPNUMBER
      BY <3>2, RingAssumption
    <3> QED BY <1>3, <2>1, <3>1, <3>2, <3>3, <3>4 DEF Values
  <2> QED BY <2>3, <2>4
<1>8. Stopping'
  BY <1>5, Distance DEF Stopping, Passed
<1> QED BY <1>4, <1>6, <1>7, <1>8 DEF Parts

\* Where the token goes and what it says when it is written to a pipe.
LEMMA WriteStep ==
  ASSUME Good, TypeOK', NEW p \in Proc, writeNumber(p)
  PROVE  Parts'
<1> USE DEF Good, TypeOK, PCs, Dead
<1>1. /\ pc[p] = "write" /\ UNCHANGED <<number, rd, wr, out>>
      /\ buf' = [buf EXCEPT ![p] = Append(@, number[p] + 1)]
      /\ pc' = [pc EXCEPT ![p] = "read"]
  BY DEF writeNumber, Send, WriteInt, Goto, getMyOutputPipe
<1>2. out \in 0 .. STOPNUMBER-1 /\ number[p] = out /\ p = out % N
  BY <1>1 DEF Values
<1>3. \A q \in Proc : buf[q] = << >> /\ (Holds(q) => q = p) /\ ~Passed(q)
  BY <1>1, <1>2, RingAssumption DEF Tokens, Holds, Stopping
<1>4. Births' /\ Descriptors'
  BY <1>1, CycleFrame DEF InCycle
<1>5. \A q \in Proc : ~Holds(q)' /\ ~Passed(q)'
  BY <1>1, <1>3 DEF Holds, Passed
<1>6. /\ \A q \in Proc : q # p => buf'[q] = << >>
      /\ Len(buf'[p]) = 1
      /\ Head(buf'[p]) = out + 1
  BY <1>1, <1>2, <1>3, LastInt
<1>7. Tokens'
  <2>1. ASSUME NEW q \in Proc PROVE Len(buf'[q]) <= 1
    <3>1. CASE q = p
      <4>1. Len(buf'[q]) = 1 /\ 1 <= 1
        BY <1>6, <3>1
      <4> QED BY <4>1, Zenon
    <3>2. CASE q # p
      <4>1. buf'[q] = << >>
        BY <1>6, <3>2
      <4> QED BY <4>1
    <3> QED BY <3>1, <3>2
  <2> QED BY <1>5, <1>6, <2>1 DEF Tokens
<1>8. Values'
  <2>1. pc'[0] \notin {"start", "fork", "init"}
    <3>1. 0 \in Proc
      BY RingAssumption DEF Proc
    <3> QED BY <1>5, <3>1 DEF Holds
  <2>2. \A q \in Proc : pc'[q] \notin {"print", "write", "signal"}
    BY <1>5 DEF Holds
  <2> QED BY <1>1, <1>2, <1>6, <2>1, <2>2, RingAssumption DEF Values
<1>9. Stopping'
  BY <1>5, Distance DEF Stopping, Passed
<1> QED BY <1>4, <1>7, <1>8, <1>9 DEF Parts

\* Where the stop signal goes when it is written to a pipe.
LEMMA SignalStep ==
  ASSUME Good, TypeOK', NEW p \in Proc, writeSignal(p)
  PROVE  Parts'
<1> USE DEF Good, TypeOK, PCs, Dead
<1>1. /\ pc[p] = "signal" /\ UNCHANGED <<number, rd, wr, out>>
      /\ buf' = [buf EXCEPT ![p] = Append(@, MYSIG_WAITFORCHILD)]
      /\ pc' = [pc EXCEPT ![p] = IF number[p] = STOPNUMBER THEN "drain" ELSE "close"]
  BY DEF writeSignal, Send, WriteInt, Goto, getMyOutputPipe
<1>2. /\ out = STOPNUMBER
      /\ number[p] = IF p = Stopper THEN STOPNUMBER ELSE MYSIG_WAITFORCHILD
      /\ \A q \in Proc : Passed(q) <=> Dist(q) < Dist(p)
  BY <1>1 DEF Values
<1>3. \A q \in Proc : buf[q] = << >> /\ (Holds(q) => q = p)
  BY <1>1 DEF Tokens, Holds
<1>4. pc' = [pc EXCEPT ![p] = IF p = Stopper THEN "drain" ELSE "close"]
  <2>1. number[p] = STOPNUMBER <=> p = Stopper
    BY <1>2, RingAssumption DEF MYSIG_WAITFORCHILD
  <2> QED BY <1>1, <2>1
<1>5. Births' /\ Descriptors'
  BY <1>1, CycleFrame DEF InCycle
<1>6. \A q \in Proc : ~Holds(q)'
  BY <1>3, <1>4 DEF Holds
<1>7. /\ \A q \in Proc : q # p => buf'[q] = << >>
      /\ buf'[p] # << >>
      /\ Len(buf'[p]) = 1
      /\ Head(buf'[p]) = MYSIG_WAITFORCHILD
  <2>1. MYSIG_WAITFORCHILD \in Int
    BY DEF MYSIG_WAITFORCHILD
  <2> QED BY <1>1, <1>3, <2>1, LastInt
<1>8. Tokens'
  <2>1. ASSUME NEW q \in Proc PROVE Len(buf'[q]) <= 1
    <3>1. CASE q = p
      <4>1. Len(buf'[q]) = 1 /\ 1 <= 1
        BY <1>7, <3>1
      <4> QED BY <4>1, Zenon
    <3>2. CASE q # p
      <4>1. buf'[q] = << >>
        BY <1>7, <3>2
      <4> QED BY <4>1
    <3> QED BY <3>1, <3>2
  <2> QED BY <1>6, <1>7, <2>1 DEF Tokens
<1>9. \A q \in Proc : Passed(q)' <=> Dist(q) <= Dist(p)
  <2> SUFFICES ASSUME NEW q \in Proc PROVE Passed(q)' <=> Dist(q) <= Dist(p)
    OBVIOUS
  <2>1. Dist(q) \in Int /\ Dist(p) \in Int /\ (Dist(p) = Dist(q) => p = q)
    BY Distance, RingAssumption
  <2>2. Passed(q)' <=> Passed(q) \/ q = p
    BY <1>4 DEF Passed
  <2>3. Dist(q) <= Dist(p) <=> Dist(q) < Dist(p) \/ q = p
    <3> HIDE DEF Dist
    <3> QED BY <2>1
  <2> QED BY <1>2, <2>2, <2>3
<1>10. Values'
  <2>1. pc'[0] \notin {"start", "fork", "init"}
    <3>1. 0 \in Proc
      BY RingAssumption DEF Proc
    <3> QED BY <1>6, <3>1 DEF Holds
  <2>2. \A q \in Proc : pc'[q] \notin {"print", "write", "signal"}
    BY <1>6 DEF Holds
  <2>3. out' = STOPNUMBER /\ out' \in -1 .. STOPNUMBER
    BY <1>1, <1>2, RingAssumption
  <2> QED BY <1>7, <1>9, <2>1, <2>2, <2>3 DEF Values
<1>11. Stopping'
  <2>1. pc[Stopper] \notin {"close", "wait", "exited"}
    BY <1>1 DEF Stopping, Passed
  <2>2. pc'[Stopper] \notin {"close", "wait", "exited"}
    BY <1>4, <2>1, Distance
  <2>3. \A q \in Proc : pc'[q] = "drain" => q = Stopper
    BY <1>4 DEF Stopping
  <2>4. \A q \in Proc : pc'[q] = "exited" <=> pc[q] = "exited"
    BY <1>1, <1>4
  <2>5. ASSUME NEW i \in Proc, Passed(i)'
        PROVE  buf'[i] # << >> \/ pc'[Succ(i)] \in {"signal", "close", "wait", "exited"}
    <3>1. CASE i = p
      BY <1>7, <3>1
    <3>2. CASE i # p
      <4>1. Passed(i)
        BY <1>4, <2>5, <3>2 DEF Passed
      <4>2. pc[Succ(i)] \in {"signal", "close", "wait", "exited"} /\ Succ(i) \in Proc
        BY <1>3, <4>1, SuccInverse DEF Stopping
      <4>3. Succ(i) = p => p # Stopper
        <5>1. ASSUME Succ(i) = p, p = Stopper PROVE FALSE
          <6>1. Dist(p) = 0 /\ Dist(i) < Dist(p) /\ Dist(i) \in Nat
            BY <1>2, <4>1, <5>1, Distance, RingAssumption
          <6> HIDE DEF Dist
          <6> QED BY <6>1
        <5> QED BY <5>1
      <4> QED BY <1>4, <4>2, <4>3
    <3> QED BY <3>1, <3>2
  <2> QED BY <1>1, <1>2, <2>2, <2>3, <2>4, <2>5 DEF Stopping
<1> QED BY <1>5, <1>8, <1>10, <1>11 DEF Parts

\* The stop signal leaves the ring.
LEMMA DrainStep ==
  ASSUME Good, TypeOK', NEW p \in Proc, NEW v, drainSignal(p, v)
  PROVE  Parts'
<1> USE DEF Good, TypeOK, PCs, Dead
<1> DEFINE i == getMyInputPipe(p)
<1>1. i \in Proc /\ Succ(i) = p /\ i # p
  BY InputPipe
<1>2. /\ pc[p] = "drain" /\ UNCHANGED <<number, rd, wr, out>>
      /\ pc' = [pc EXCEPT ![p] = "close"]
  BY DEF drainSignal, Goto
<1>3. buf[i] # << >> /\ buf' = [buf EXCEPT ![i] = Tail(@)]
  <2>1. buf[i] = << >> => HasWriter(i)
    BY <1>2, WriterExists
  <2> QED BY <2>1 DEF drainSignal, ReadInt
<1> HIDE DEF i
<1>4. /\ \A q \in Proc : q # i => buf[q] = << >>
      /\ Len(buf[i]) = 1 /\ Tail(buf[i]) = << >>
  <2>1. buf[i] \in Seq(Int) /\ Len(buf[i]) <= 1
    BY <1>1 DEF Tokens
  <2>2. Len(buf[i]) = 1 /\ Tail(buf[i]) = << >>
    BY <1>3, <2>1, LastInt
  <2> QED BY <1>1, <1>3, <2>2 DEF Tokens
<1>5. \A q \in Proc : buf'[q] = << >> /\ ~Holds(q)
  BY <1>1, <1>3, <1>4 DEF Tokens
<1>6. \A q \in Proc : ~Holds(q)'
  BY <1>2, <1>5 DEF Holds
<1>7. Births' /\ Descriptors'
  BY <1>2, CycleFrame DEF InCycle
<1>8. Tokens'
  BY <1>5, <1>6 DEF Tokens
<1>9. p = Stopper /\ out = STOPNUMBER
  BY <1>2 DEF Stopping, Passed
<1>10. \A q \in Proc : Passed(q)
  <2>1. \A q \in Proc : Passed(q) <=> Dist(q) <= Dist(i)
    BY <1>1, <1>3, <1>9, RingAssumption DEF Values
  <2>2. Dist(i) = N-1
    BY <1>1, <1>9, Distance
  <2>3. ASSUME NEW q \in Proc PROVE Dist(q) <= N-1
    <3>1. Dist(q) \in 0 .. N-1
      BY Distance
    <3> HIDE DEF Dist
    <3> QED BY <3>1, RingAssumption
  <2> QED BY <2>1, <2>2, <2>3
<1>11. \A q \in Proc : Passed(q)'
  BY <1>2, <1>10 DEF Passed
<1>12. Values'
  <2>1. pc'[0] \notin {"start", "fork", "init"}
    <3>1. 0 \in Proc
      BY RingAssumption DEF Proc
    <3> QED BY <1>6, <3>1 DEF Holds
  <2>2. \A q \in Proc : pc'[q] \notin {"print", "write", "signal"}
    BY <1>6 DEF Holds
  <2>3. out' \in -1 .. STOPNUMBER
    BY <1>2, <1>9, RingAssumption
  <2> QED BY <1>5, <2>1, <2>2, <2>3 DEF Values
<1>13. Stopping'
  <2>1. \A q \in Proc : pc'[q] # "drain" /\ (pc'[q] = "exited" <=> pc[q] = "exited")
    BY <1>2, <1>9 DEF Stopping
  <2>2. \A j \in Proc : pc'[Succ(j)] \in {"signal", "close", "wait", "exited"}
    BY <1>11, <2>1, SuccInverse DEF Passed
  <2> QED BY <1>2, <1>5, <1>9, <1>11, <2>1, <2>2 DEF Stopping
<1> QED BY <1>7, <1>8, <1>12, <1>13 DEF Parts

\* cleanup() and the wait for the child.
LEMMA EndStep ==
  ASSUME Good, TypeOK', ~Faulty', NEW p \in Proc,
         closeOutputPipe(p) \/ closeInputPipe(p) \/ waitForChild(p)
  PROVE  Parts'
<1> USE DEF Good, TypeOK, PCs, Dead
<1>1. PICK l \in {"close", "wait", "exited"} :
        /\ pc' = [pc EXCEPT ![p] = l]
        /\ pc[p] \in {"close", "wait"}
        /\ l = "exited" => waitForChild(p)
        /\ \A q \in Proc : q # p => rd'[q] = rd[q] /\ wr'[q] = wr[q]
        /\ UNCHANGED <<number, buf, out>>
  BY DEF closeOutputPipe, closeInputPipe, waitForChild, Goto, End
<1>2. \A q \in Proc : (Holds(q)' <=> Holds(q)) /\ (Passed(q)' <=> Passed(q))
  BY <1>1 DEF Holds, Passed
<1>3. Births'
  <2>0. 0 \in Proc /\ \A q \in Proc : q # N-1 => q+1 \in Proc
    BY RingAssumption DEF Proc
  <2> QED BY <1>1, <2>0 DEF Births, Early
<1>4. Descriptors'
  BY <1>1 DEF Descriptors, InCycle
<1>5. Tokens'
  BY <1>1, <1>2 DEF Tokens
<1>6. Values'
  <2>1. 0 \in Proc
    BY RingAssumption DEF Proc
  <2>2. \A q \in Proc : \A m \in PCs \ {"close", "wait", "exited"} :
           pc'[q] = m <=> pc[q] = m
    BY <1>1
  <2>3. /\ (out \in -1 .. STOPNUMBER)'
        /\ (pc[0] \in {"start", "fork", "init"} => out = -1 /\ number[0] = 0)'
    BY <1>1, <2>1, <2>2 DEF Values
  <2>4. (\A q \in Proc : pc[q] = "print" =>
           out < STOPNUMBER /\ number[q] = out+1 /\ q = (out+1) % N)'
    BY <1>1, <2>2 DEF Values
  <2>5. (\A q \in Proc : pc[q] = "write" =>
           out \in 0 .. STOPNUMBER-1 /\ number[q] = out /\ q = out % N)'
    BY <1>1, <2>2 DEF Values
  <2>6. (\A q \in Proc : pc[q] = "signal" =>
           /\ out = STOPNUMBER
           /\ number[q] = IF q = Stopper THEN STOPNUMBER ELSE MYSIG_WAITFORCHILD
           /\ \A r \in Proc : Passed(r) <=> Dist(r) < Dist(q))'
    BY <1>1, <1>2, <2>2 DEF Values
  <2>7. (\A i \in Proc : buf[i] # << >> =>
           \/ /\ out \in 0 .. STOPNUMBER-1
              /\ Head(buf[i]) = out+1
              /\ i = out % N
           \/ /\ out = STOPNUMBER
              /\ Head(buf[i]) = MYSIG_WAITFORCHILD
              /\ \A r \in Proc : Passed(r) <=> Dist(r) <= Dist(i))'
    BY <1>1, <1>2 DEF Values
  <2> QED BY <2>3, <2>4, <2>5, <2>6, <2>7 DEF Values
<1>7. Stopping'
  <2>1. (\A q \in Proc : Passed(q) => out = STOPNUMBER)'
    BY <1>1, <1>2 DEF Stopping
  <2>2. (\A q \in Proc : pc[q] = "drain" => q = Stopper)'
    BY <1>1 DEF Stopping
  <2>3. (pc[Stopper] \in {"close", "wait", "exited"}
           => \A q \in Proc : Passed(q) /\ buf[q] = << >>)'
    BY <1>1, <1>2, Distance DEF Stopping
  <2>4. (\A i \in Proc : Passed(i) =>
           \/ buf[i] # << >>
           \/ pc[Succ(i)] \in {"signal", "close", "wait", "exited"})'
    BY <1>1, <1>2, SuccInverse DEF Stopping
  <2>5. \A q, r \in Proc : pc[q] = "exited" /\ r > q => r # p
    BY <1>1 DEF Stopping
  <2>6. ASSUME l = "exited", NEW r \in Proc, r > p PROVE pc[r] = "exited"
    <3>1. p+1 \in Proc /\ p # N-1 /\ (r = p+1 \/ r > p+1)
      BY <2>6, LaterProcess
    <3>2. pc[p+1] = "exited"
      BY <1>1, <2>6, <3>1 DEF waitForChild, Births, Faulty, Early
    <3> QED BY <3>1, <3>2 DEF Stopping
  <2>7. (\A q, r \in Proc : pc[q] = "exited" /\ r > q => pc[r] = "exited")'
    <3> SUFFICES ASSUME NEW q \in Proc, NEW r \in Proc, pc'[q] = "exited", r > q
                 PROVE  pc'[r] = "exited"
      OBVIOUS
    <3>0. Proc \subseteq Int
      BY DEF Proc
    <3>1. CASE q = p
      BY <1>1, <2>6, <3>0, <3>1
    <3>2. CASE q # p
      BY <1>1, <2>5, <3>2 DEF Stopping
    <3> QED BY <3>1, <3>2
  <2> QED BY <2>1, <2>2, <2>3, <2>4, <2>7 DEF Stopping
<1> QED BY <1>3, <1>4, <1>5, <1>6, <1>7 DEF Parts

-----------------------------------------------------------------------------
(* The theorems. *)

\* The inductive invariant of ring.c: births, descriptors, the single token,
\* its value and position, and the progress of the stop signal.
THEOREM Invariance == Spec => []RingInv
<1>1. Init => RingInv
  <2> SUFFICES ASSUME Init PROVE RingInv
    OBVIOUS
  <2> USE RingAssumption DEF Init
  <2>0. 0 \in Proc
    BY DEF Proc
  <2>1. Lineage
    BY DEF Lineage, Proc
  <2>2. Births
    BY <2>0 DEF Births, Early, Proc
  <2>3. Descriptors
    BY DEF Descriptors, InCycle
  <2>4. Tokens
    BY DEF Tokens, Holds
  <2>5. Values
    <3>1. out \in -1 .. STOPNUMBER /\ out = -1 /\ number[0] = 0
      BY <2>0
    <3>2. \A p \in Proc : pc[p] \notin {"print", "write", "signal"} /\ buf[p] = << >>
      OBVIOUS
    <3> QED BY <3>1, <3>2 DEF Values
  <2>6. Stopping
    BY Distance DEF Stopping, Passed
  <2> QED BY <2>1, <2>2, <2>3, <2>4, <2>5, <2>6 DEF RingInv
<1>2. TypeOK /\ TypeOK' /\ RingInv /\ [Next]_vars => RingInv'
  <2> SUFFICES ASSUME TypeOK, TypeOK', RingInv, [Next]_vars PROVE RingInv'
    OBVIOUS
  <2>1. Lineage' /\ (Faulty => Faulty')
    BY Beginnings DEF RingInv
  <2> SUFFICES ASSUME ~Faulty' PROVE Parts'
    BY <2>1 DEF RingInv, Parts
  <2>2. Good
    BY <2>1 DEF Good, RingInv
  <2>3. CASE createPipes
    <3>1. 0 \in Proc
      BY RingAssumption DEF Proc
    <3> QED BY <2>1, <2>2, <2>3, <3>1, SetupStep
  <2>4. CASE createPipesFails
    <3>1. 0 \in Proc
      BY RingAssumption DEF Proc
    <3> QED BY <2>4, <3>1 DEF createPipesFails, End, Goto, Faulty, TypeOK
  <2>5. ASSUME NEW p \in Proc, Step(p) PROVE Parts'
    <3>1. CASE \/ recForkStops(p) \/ recFork(p) \/ initOutputPipe(p)
               \/ initInputPipe(p) \/ startCycle(p)
               \/ \E i \in Proc : closeUnnecessaryPipe(p, i)
      BY <2>1, <2>2, <3>1, SetupStep
    <3>2. CASE recForkFails(p)
      BY <3>2 DEF recForkFails, End, Goto, Faulty, TypeOK
    <3>3. CASE \E v \in Incoming(p) : readNumber(p, v)
      BY <2>2, <3>3, ReadStep
    <3>4. CASE printOutput(p)
      BY <2>2, <3>4, PrintStep
    <3>5. CASE writeNumber(p)
      BY <2>2, <3>5, WriteStep
    <3>6. CASE writeSignal(p)
      BY <2>2, <3>6, SignalStep
    <3>7. CASE brokenPipe(p)
      BY <2>2, <3>7, ReaderExists DEF brokenPipe
    <3>8. CASE \E v \in Incoming(p) : drainSignal(p, v)
      BY <2>2, <3>8, DrainStep
    <3>9. CASE closeOutputPipe(p) \/ closeInputPipe(p) \/ waitForChild(p)
      BY <2>2, <3>9, EndStep
    <3> QED BY <2>5, <3>1, <3>2, <3>3, <3>4, <3>5, <3>6, <3>7, <3>8, <3>9 DEF Step
  <2>6. CASE UNCHANGED vars
    BY <2>2, <2>6 DEF vars, Good, Parts, Births, Descriptors, Tokens, Holds,
                      Values, Passed, Stopping
  <2> QED BY <2>3, <2>4, <2>5, <2>6 DEF Next, Create, Finished
<1> QED BY <1>1, <1>2, TypeCorrect, PTL DEF Spec

\* The code's own claim about the drain read (ring.c:231): unless a system
\* call failed, no process writes to a pipe whose reader is gone.
THEOREM NeverABrokenPipe == Spec => []NoBrokenPipe
<1>1. TypeOK /\ RingInv => NoBrokenPipe
  BY ReaderExists DEF Good, RingInv, NoBrokenPipe
<1> QED BY <1>1, TypeCorrect, Invariance, PTL

\* readIntFromMyPipe() may ignore what read() returns: unless a system call
\* failed, no process reads at an end of file.
THEOREM NeverAnEndOfFile == Spec => []NoEndOfFile
<1>1. TypeOK /\ RingInv => NoEndOfFile
  BY WriterExists DEF Good, RingInv, NoEndOfFile
<1> QED BY <1>1, TypeCorrect, Invariance, PTL

\* There is one token: pipes never fill up, prints never interleave.
THEOREM AlwaysOneToken == Spec => []OneToken
<1>1. TypeOK /\ RingInv => OneToken
  BY DEF RingInv, OneToken, Tokens, Holds
<1> QED BY <1>1, TypeCorrect, Invariance, PTL

\* Processes end youngest first, after everything was printed, and leave no
\* zombie (ring.c:279).
THEOREM CleansUpRecursively == Spec => []RecursiveCleanup
<1>1. TypeOK /\ RingInv => RecursiveCleanup
  BY DEF RingInv, RecursiveCleanup, Stopping, Passed
<1> QED BY <1>1, TypeCorrect, Invariance, PTL

\* Every printed number is the successor of the one before, whatever the
\* interleaving, and comes from the process whose turn it is.
THEOREM OrderOfPrints == Spec => PrintsInOrder
<1>1. TypeOK /\ RingInv /\ [Next]_vars =>
        [~Faulty' => \A p \in Proc :
            printOutput(p) => /\ out' = out + 1
                              /\ p = out' % N]_vars
  <2> SUFFICES ASSUME TypeOK, RingInv, [Next]_vars, ~Faulty',
                      NEW p \in Proc, printOutput(p)
               PROVE  out' = out + 1 /\ p = out' % N
    OBVIOUS
  <2>1. ~Faulty
    BY Beginnings DEF RingInv
  <2> QED BY <2>1 DEF RingInv, Values, printOutput, PrintNumber
<1> QED BY <1>1, TypeCorrect, Invariance, PTL DEF Spec, PrintsInOrder

\* Ring implements RingCount (its safety part; the progress is checked by
\* TLC): whatever call fails and whenever, until then the numbers come out one
\* by one from 0 to at most STOPNUMBER, and a failure is final.
THEOREM ImplementsCounter == Spec => Count!Init /\ [][Count!Next]_(Count!vars)
<1>1. Init => Count!Init
  <2>1. Init => ~Faulty
    BY DEF Init, Faulty
  <2> QED BY <2>1 DEF Init, Count!Init
<1>2. TypeOK /\ RingInv /\ [Next]_vars => [Count!Next]_(Count!vars)
  <2> SUFFICES ASSUME TypeOK, RingInv, [Next]_vars
               PROVE  Count!Next \/ UNCHANGED <<out, Faulty>>
    BY DEF Count!vars
  <2> USE DEF Count!Next, Count!Increment, Count!Break, Count!Anything
  <2>0. Faulty \in BOOLEAN /\ Faulty' \in BOOLEAN
    BY DEF Faulty
  <2>1. CASE Faulty
    <3>1. Faulty'
      BY <2>1, Beginnings DEF RingInv
    <3> QED BY <2>0, <2>1, <3>1
  <2>2. ASSUME ~Faulty, NEW p \in Proc, printOutput(p)
        PROVE  Count!Next
    <3>1. ~Faulty'
      BY <2>2 DEF printOutput, PrintNumber, Goto, TypeOK, Faulty
    <3>2. out < STOPNUMBER /\ out' = out + 1
      BY <2>2 DEF printOutput, PrintNumber, RingInv, Values
    <3> QED BY <2>0, <2>2, <3>1, <3>2
  <2>3. ASSUME ~Faulty, UNCHANGED out
        PROVE  Count!Next \/ UNCHANGED <<out, Faulty>>
    BY <2>0, <2>3
  <2>4. ASSUME NEW p \in Proc, Step(p), ~printOutput(p) PROVE UNCHANGED out
    BY <2>4 DEF End, Step, recForkStops, recFork, recForkFails, initOutputPipe,
         initInputPipe, closeUnnecessaryPipe, startCycle, Begin, readNumber,
         writeNumber, writeSignal, Send, brokenPipe, drainSignal, closeOutputPipe,
         closeInputPipe, waitForChild
  <2>5. CASE Create
    <3>1. UNCHANGED out
      BY <2>5 DEF Create, createPipes, createPipesFails, End
    <3> QED BY <2>1, <2>3, <3>1
  <2>6. CASE UNCHANGED vars
    BY <2>1, <2>3, <2>6 DEF vars
  <2> QED BY <2>1, <2>2, <2>3, <2>4, <2>5, <2>6 DEF Next, Finished
<1> QED BY <1>1, <1>2, TypeCorrect, Invariance, PTL DEF Spec

-----------------------------------------------------------------------------
(* The output in a file. *)

LEMMA NumbersAppend ==
  ASSUME NEW s \in Seq(Int), NEW v \in Int, Ascending(s), \A w \in Numbers(s) : w < v
  PROVE  Numbers(Append(s, v)) = Numbers(s) \cup {v} /\ Ascending(Append(s, v))
<1> DEFINE t == Append(s, v)
<1>1. /\ Len(s) \in Nat /\ Len(t) = Len(s) + 1 /\ t[Len(s) + 1] = v
      /\ \A a \in 1 .. Len(s) : t[a] = s[a]
  BY AppendProperties, LenProperties
<1> HIDE DEF t
<1>2. /\ \A a \in 1 .. Len(t) : a \in 1 .. Len(s) \/ a = Len(s) + 1
      /\ \A a \in 1 .. Len(s) : a \in 1 .. Len(t) /\ a < Len(s) + 1
      /\ Len(s) + 1 \in 1 .. Len(t)
  BY <1>1
<1>3. Numbers(t) = Numbers(s) \cup {v}
  BY <1>1, <1>2 DEF Numbers
<1>4. ASSUME NEW a \in 1 .. Len(t), NEW b \in 1 .. Len(t), a < b PROVE t[a] < t[b]
  <2>1. a \in 1 .. Len(s)
    BY <1>1, <1>4
  <2>2. CASE b \in 1 .. Len(s)
    BY <1>1, <1>4, <2>1, <2>2 DEF Ascending
  <2>3. CASE b = Len(s) + 1
    <3>1. s[a] \in Numbers(s)
      BY <2>1 DEF Numbers
    <3> QED BY <1>1, <2>1, <2>3, <3>1
  <2> QED BY <1>2, <2>2, <2>3
<1> QED BY <1>3, <1>4 DEF Ascending, t

\* A file that grows by what one process has printed, younger ones before it.
LEMMA NumbersConcat ==
  ASSUME NEW s \in Seq(Int), NEW t \in Seq(Int), NEW p \in Proc,
         Grouped(s), Ascending(t),
         \A w \in Numbers(t) : w % N = p, \A w \in Numbers(s) : w % N > p
  PROVE  Numbers(s \o t) = Numbers(s) \cup Numbers(t) /\ Grouped(s \o t)
<1> DEFINE u == s \o t
           L == Len(s)
<1>1. /\ L \in Nat /\ Len(t) \in Nat /\ Len(u) = L + Len(t)
      /\ \A a \in 1 .. Len(u) : u[a] = IF a <= L THEN s[a] ELSE t[a - L]
  BY ConcatProperties, LenProperties
<1> HIDE DEF u, L
<1>2. ASSUME NEW a \in 1 .. Len(u)
      PROVE  \/ a \in 1 .. L /\ u[a] = s[a] /\ u[a] \in Numbers(s)
             \/ a > L /\ a - L \in 1 .. Len(t) /\ u[a] = t[a - L] /\ u[a] \in Numbers(t)
  <2>1. CASE a <= L
    BY <1>1, <2>1 DEF Numbers, L
  <2>2. CASE ~(a <= L)
    <3>1. a > L /\ a - L \in 1 .. Len(t) /\ u[a] = t[a - L]
      BY <1>1, <2>2
    <3> QED BY <3>1 DEF Numbers
  <2> QED BY <2>1, <2>2
<1>3. Numbers(u) = Numbers(s) \cup Numbers(t)
  <2>1. Numbers(u) \subseteq Numbers(s) \cup Numbers(t)
    BY <1>2 DEF Numbers
  <2>2. ASSUME NEW w \in Numbers(s) PROVE w \in Numbers(u)
    <3>1. PICK a \in 1 .. L : w = s[a]
      BY DEF Numbers, L
    <3>2. a \in 1 .. Len(u) /\ u[a] = w
      BY <1>1, <3>1
    <3> QED BY <3>2 DEF Numbers
  <2>3. ASSUME NEW w \in Numbers(t) PROVE w \in Numbers(u)
    <3>1. PICK a \in 1 .. Len(t) : w = t[a]
      BY DEF Numbers
    <3>2. a + L \in 1 .. Len(u) /\ ~(a + L <= L) /\ (a + L) - L = a
      BY <1>1
    <3>3. u[a + L] = w
      BY <1>1, <3>1, <3>2
    <3> QED BY <3>2, <3>3 DEF Numbers
  <2> QED BY <2>1, <2>2, <2>3
<1>4. ASSUME NEW a \in 1 .. Len(u), NEW b \in 1 .. Len(u), a < b
      PROVE  u[a] % N > u[b] % N \/ (u[a] % N = u[b] % N /\ u[a] < u[b])
  <2>1. CASE b \in 1 .. L
    <3>1. a \in 1 .. L
      BY <1>1, <1>4, <2>1
    <3>2. u[a] = s[a] /\ u[b] = s[b]
      BY <1>2, <1>1, <2>1, <3>1
    <3> QED BY <1>4, <2>1, <3>1, <3>2 DEF Grouped, L
  <2>2. CASE b > L /\ a > L
    <3>1. /\ a - L \in 1 .. Len(t) /\ u[a] = t[a - L] /\ u[a] \in Numbers(t)
          /\ b - L \in 1 .. Len(t) /\ u[b] = t[b - L] /\ u[b] \in Numbers(t)
      BY <1>1, <1>2, <2>2
    <3>2. a - L < b - L
      BY <1>1, <1>4
    <3>3. u[a] < u[b]
      BY <3>1, <3>2 DEF Ascending
    <3> QED BY <3>1, <3>3
  <2>3. CASE b > L /\ a \in 1 .. L
    <3>1. u[a] \in Numbers(s) /\ u[b] \in Numbers(t)
      BY <1>1, <1>2, <2>3
    <3> QED BY <3>1
  <2> QED BY <1>1, <1>2, <2>1, <2>2, <2>3
<1> QED BY <1>3, <1>4 DEF Grouped, u

\* OutputInv without its condition.
Lines ==
  /\ \A p \in Proc : lines[p] \in Seq(Int)
  /\ \A p \in Proc : pc[p] \in Early \cup {"init"} => lines[p] = << >>
  /\ \A p \in Proc : pc[p] \notin Dead =>
       Numbers(lines[p]) = PrintedBy(p) /\ Ascending(lines[p])
Written ==
  /\ file \in Seq(Int) /\ Grouped(file)
  /\ Numbers(file) = {v \in 0 .. out : pc[v % N] = "exited"}

\* A step that neither prints nor ends a process.
Silent ==
  /\ UNCHANGED out
  /\ \A q \in Proc :
       \/ pc'[q] = pc[q]
       \/ /\ pc[q] \notin Dead \cup {"print"} /\ pc'[q] \notin Dead
          /\ pc'[q] \in Early \cup {"init"} => pc[q] \in Early \cup {"init"}
          /\ pc[q] = "unborn" => q-1 \in Proc /\ pc[q-1] = "fork"

LEMMA StepOutput ==
  ASSUME Good, NEW p \in Proc, Step(p)
  PROVE  \/ Silent
         \/ printOutput(p)
         \/ waitForChild(p)
         \/ pc'[p] \in {"failed", "sigpipe"}
<1> USE DEF Good, TypeOK, PCs, Dead, Early
<1>1. CASE recFork(p)
  <2>1. /\ p \in Int /\ p+1 \in Proc /\ (p+1) - 1 = p /\ p < p+1
        /\ pc[p] = "fork" /\ UNCHANGED out
        /\ pc' = [pc EXCEPT ![p] = "init", ![p+1] = "fork"]
    BY <1>1, RingAssumption DEF recFork, Proc
  <2>2. pc[p+1] = "unborn"
    BY <2>1 DEF Lineage
  <2> QED BY <2>1, <2>2 DEF Silent
<1>2. ASSUME NEW l, pc' = [pc EXCEPT ![p] = l], UNCHANGED out, l \notin Dead,
             pc[p] \notin Dead \cup {"print", "unborn"},
             l \in Early \cup {"init"} => pc[p] \in Early \cup {"init"}
      PROVE  Silent
  BY <1>2 DEF Silent
<1>3. ASSUME UNCHANGED <<pc, out>> PROVE Silent
  BY <1>3 DEF Silent
<1>4. CASE recForkStops(p)
  BY <1>2, <1>4 DEF recForkStops, Goto
<1>5. CASE recForkFails(p) \/ brokenPipe(p)
  BY <1>5 DEF recForkFails, brokenPipe, End, Goto
<1>6. CASE initOutputPipe(p) \/ initInputPipe(p) \/ \E i \in Proc : closeUnnecessaryPipe(p, i)
  BY <1>3, <1>6 DEF initOutputPipe, initInputPipe, closeUnnecessaryPipe
<1>7. CASE startCycle(p)
  BY <1>2, <1>7 DEF startCycle, Begin, Goto
<1>8. CASE \E v \in Incoming(p) : readNumber(p, v) \/ drainSignal(p, v)
  BY <1>2, <1>8 DEF readNumber, drainSignal, Goto
<1>9. CASE writeNumber(p) \/ writeSignal(p)
  BY <1>2, <1>9 DEF writeNumber, writeSignal, Send, Goto
<1>10. CASE closeOutputPipe(p)
  BY <1>3, <1>10 DEF closeOutputPipe
<1>11. CASE closeInputPipe(p)
  BY <1>2, <1>11 DEF closeInputPipe, Goto
<1> QED
  BY <1>1, <1>4, <1>5, <1>6, <1>7, <1>8, <1>9, <1>10, <1>11 DEF Step

LEMMA SilentOutput ==
  ASSUME Good, Lines, Written, Silent, printOutputBuffered
  PROVE  Lines' /\ Written'
<1> USE DEF Good, TypeOK, PCs, Dead
<1>1. \A q \in Proc : ~Dies(q)
  BY DEF Silent, Dies
<1>2. \A q \in Proc : lines'[q] = lines[q]
  <2> SUFFICES ASSUME NEW q \in Proc PROVE buffers(q) = lines[q]
    BY DEF printOutputBuffered
  <2>1. ~(pc[q] = "print" /\ pc'[q] # "print")
    BY DEF Silent
  <2>2. CASE pc[q] = "unborn" /\ pc'[q] # "unborn"
    <3>1. q-1 \in Proc /\ pc[q-1] = "fork"
      BY <2>2 DEF Silent
    <3>2. lines[q-1] = << >> /\ lines[q] = << >>
      BY <2>2, <3>1 DEF Lines, Early
    <3> QED BY <1>1, <2>1, <2>2, <3>2 DEF buffers
  <2>3. CASE ~(pc[q] = "unborn" /\ pc'[q] # "unborn")
    BY <1>1, <2>1, <2>3 DEF buffers
  <2> QED BY <2>2, <2>3
<1>3. file' = file
  BY <1>1 DEF printOutputBuffered
<1>4. /\ out' = out
      /\ \A q \in Proc : /\ pc'[q] \in Dead <=> pc[q] \in Dead
                         /\ pc'[q] = "exited" <=> pc[q] = "exited"
                         /\ pc'[q] \in Early \cup {"init"} => pc[q] \in Early \cup {"init"}
  BY DEF Silent
<1>5. \A q : PrintedBy(q)' = PrintedBy(q)
  BY <1>4 DEF PrintedBy
<1>6. Lines'
  <2>1. \A q \in Proc : lines'[q] \in Seq(Int)
    BY <1>2 DEF Lines
  <2>2. \A q \in Proc : pc'[q] \in Early \cup {"init"} => lines'[q] = << >>
    BY <1>2, <1>4 DEF Lines
  <2>3. ASSUME NEW q \in Proc, pc'[q] \notin Dead
        PROVE  Numbers(lines'[q]) = PrintedBy(q)' /\ Ascending(lines'[q])
    BY <1>2, <1>4, <1>5, <2>3 DEF Lines
  <2> QED BY <2>1, <2>2, <2>3 DEF Lines
<1>7. Written'
  <2>1. \A v \in 0 .. out : v % N \in Proc
    BY ModSucc DEF Values
  <2> QED BY <1>3, <1>4, <2>1 DEF Written
<1> QED BY <1>6, <1>7

LEMMA PrintOutput ==
  ASSUME Good, Lines, Written, NEW p \in Proc, printOutput(p), printOutputBuffered
  PROVE  Lines' /\ Written'
<1> USE DEF Good, TypeOK, PCs, Dead
<1>1. PICK l \in {"signal", "write"} :
        pc[p] = "print" /\ pc' = [pc EXCEPT ![p] = l] /\ out' = number[p]
  BY DEF printOutput, PrintNumber, Goto
<1>2. /\ out \in Int /\ out >= -1 /\ out < STOPNUMBER /\ out' = out + 1 /\ p = (out + 1) % N
  BY <1>1, RingAssumption DEF Values
<1>3. \A q \in Proc : ~Dies(q) /\ pc[q] # "exited" /\ pc'[q] # "exited"
  <2>1. \A q \in Proc : pc[q] # "exited"
    BY <1>2, RingAssumption DEF Stopping, Passed
  <2> QED BY <1>1, <2>1 DEF Dies
<1>4. file' = file
  BY <1>3 DEF printOutputBuffered
<1>5. /\ lines'[p] = Append(lines[p], out + 1)
      /\ \A q \in Proc \ {p} : lines'[q] = lines[q]
  BY <1>1, <1>2, <1>3 DEF printOutputBuffered, buffers
<1>6. 0 .. out' = 0 .. out \cup {out + 1}
  BY <1>2
<1>7. /\ PrintedBy(p)' = PrintedBy(p) \cup {out + 1}
      /\ \A q \in Proc \ {p} : PrintedBy(q)' = PrintedBy(q)
  BY <1>2, <1>6 DEF PrintedBy
<1>8. /\ lines[p] \in Seq(Int) /\ Numbers(lines[p]) = PrintedBy(p) /\ Ascending(lines[p])
      /\ \A w \in Numbers(lines[p]) : w < out + 1
  <2>1. lines[p] \in Seq(Int) /\ Numbers(lines[p]) = PrintedBy(p) /\ Ascending(lines[p])
    BY <1>1 DEF Lines
  <2>2. \A w \in PrintedBy(p) : w < out + 1
    BY <1>2 DEF PrintedBy
  <2> QED BY <2>1, <2>2
<1>9. /\ Numbers(lines'[p]) = PrintedBy(p)' /\ Ascending(lines'[p]) /\ lines'[p] \in Seq(Int)
  <2> HIDE DEF Good, TypeOK, PCs, Dead
  <2>0. out + 1 \in Int
    BY <1>2
  <2>1. /\ Numbers(Append(lines[p], out + 1)) = Numbers(lines[p]) \cup {out + 1}
        /\ Ascending(Append(lines[p], out + 1))
    BY <1>8, <2>0, NumbersAppend
  <2>2. Append(lines[p], out + 1) \in Seq(Int)
    BY <1>2, <1>8, AppendProperties
  <2> QED BY <1>5, <1>7, <1>8, <2>1, <2>2
<1>10. Lines'
  <2>1. \A q \in Proc : lines'[q] \in Seq(Int)
    BY <1>5, <1>9 DEF Lines
  <2>2. \A q \in Proc : pc'[q] \in Early \cup {"init"} => lines'[q] = << >>
    BY <1>1, <1>5 DEF Lines, Early
  <2>3. ASSUME NEW q \in Proc, q # p, pc'[q] \notin Dead
        PROVE  Numbers(lines'[q]) = PrintedBy(q)' /\ Ascending(lines'[q])
    BY <1>1, <1>5, <1>7, <2>3 DEF Lines
  <2> QED BY <1>9, <2>1, <2>2, <2>3 DEF Lines
<1>11. Written'
  <2>1. \A v \in Nat : v % N \in Proc
    BY ModSucc
  <2>2. (\A v \in 0 .. out : v \in Nat) /\ (\A v \in 0 .. out' : v \in Nat)
    BY <1>2
  <2> HIDE DEF Good, TypeOK, PCs, Dead
  <2>3. \A q \in Proc : pc[q] # "exited" /\ pc'[q] # "exited"
    BY <1>3
  <2>4. \A v \in Nat : pc[v % N] # "exited" /\ pc'[v % N] # "exited"
    BY <2>1, <2>3
  <2>5. {v \in 0 .. out : pc[v % N] = "exited"} = {}
    BY <2>2, <2>4
  <2>6. {v \in 0 .. out' : pc'[v % N] = "exited"} = {}
    BY <2>2, <2>4
  <2> QED BY <1>4, <2>5, <2>6 DEF Written
<1> QED BY <1>10, <1>11

LEMMA EndOutput ==
  ASSUME Good, Lines, Written, NEW p \in Proc, waitForChild(p), printOutputBuffered
  PROVE  Lines' /\ Written'
<1> USE DEF Good, TypeOK, PCs, Dead
<1>1. /\ pc[p] = "wait" /\ pc' = [pc EXCEPT ![p] = "exited"] /\ out' = out
      /\ \A q \in Proc : q = p+1 => pc[q] \in Dead \cup {"unborn"}
  BY DEF waitForChild, End, Goto
<1>2. \A q \in Proc : Dies(q) <=> q = p
  BY <1>1 DEF Dies
<1>3. \A q \in Proc : pc[q] = "exited" <=> q > p
  <2>1. p+1 \in Proc => pc[p+1] = "exited"
    <3>1. p+1 \in Proc => p # N-1
      BY RingAssumption DEF Proc
    <3> QED BY <1>1, <3>1 DEF Births, Early, Faulty
  <2>2. ASSUME NEW q \in Proc, q > p PROVE pc[q] = "exited"
    <3>1. p+1 \in Proc /\ (q = p+1 \/ q > p+1)
      BY <2>2, LaterProcess
    <3> QED BY <2>1, <3>1 DEF Stopping
  <2>3. ASSUME NEW q \in Proc, pc[q] = "exited" PROVE q > p
    <3>1. ~(p > q) /\ p # q
      BY <1>1, <2>3 DEF Stopping
    <3> QED BY <3>1, RingAssumption DEF Proc
  <2> QED BY <2>2, <2>3
<1>4. /\ lines'[p] = << >>
      /\ \A q \in Proc \ {p} : lines'[q] = lines[q]
  BY <1>1, <1>2 DEF printOutputBuffered, buffers
<1>5. file' = file \o lines[p]
  <2>1. (CHOOSE q \in Proc : Dies(q)) = p
    BY <1>2
  <2>2. Dies(p) /\ pc'[p] # "sigpipe"
    BY <1>1, <1>2
  <2> QED BY <2>1, <2>2 DEF printOutputBuffered
<1>6. \A q : PrintedBy(q)' = PrintedBy(q)
  BY <1>1 DEF PrintedBy
<1>7. Lines'
  <2>1. << >> \in Seq(Int)
    OBVIOUS
  <2>2. \A q \in Proc : lines'[q] \in Seq(Int)
    BY <1>4, <2>1 DEF Lines
  <2>3. \A q \in Proc : pc'[q] \in Early \cup {"init"} => lines'[q] = << >>
    BY <1>1, <1>4 DEF Lines
  <2>4. ASSUME NEW q \in Proc, pc'[q] \notin Dead
        PROVE  Numbers(lines'[q]) = PrintedBy(q)' /\ Ascending(lines'[q])
    <3>1. q # p /\ pc[q] \notin Dead
      BY <1>1, <2>4
    <3> QED BY <1>4, <1>6, <3>1 DEF Lines
  <2> QED BY <2>2, <2>3, <2>4 DEF Lines
<1>8. /\ lines[p] \in Seq(Int) /\ Ascending(lines[p]) /\ Numbers(lines[p]) = PrintedBy(p)
      /\ \A w \in Numbers(lines[p]) : w % N = p
  BY <1>1 DEF Lines, PrintedBy
<1>9. \A v \in 0 .. out : v % N \in Proc
  BY ModSucc DEF Values
<1>10. /\ file \in Seq(Int) /\ Grouped(file)
       /\ Numbers(file) = {v \in 0 .. out : pc[v % N] = "exited"}
       /\ \A w \in Numbers(file) : w % N > p
  BY <1>3, <1>9 DEF Written
<1>11. Numbers(file') = Numbers(file) \cup Numbers(lines[p]) /\ Grouped(file') /\ file' \in Seq(Int)
  BY <1>5, <1>8, <1>10, NumbersConcat, ConcatProperties
<1>12. Numbers(file') = {v \in 0 .. out' : pc'[v % N] = "exited"}
  <2>1. ASSUME NEW v \in 0 .. out
        PROVE  pc'[v % N] = "exited" <=> pc[v % N] = "exited" \/ v % N = p
    BY <1>1, <1>9
  <2> QED BY <1>1, <1>8, <1>10, <1>11, <2>1 DEF PrintedBy
<1> QED BY <1>7, <1>11, <1>12 DEF Written

\* Where the output goes makes no difference to the processes.
LEMMA BufferedRing == BufferedSpec => Spec
<1>1. BufferedInit => Init
  BY DEF BufferedInit
<1>2. [BufferedNext]_<<vars, lines, file>> => [Next]_vars
  BY DEF BufferedNext
<1> QED BY <1>1, <1>2, PTL DEF BufferedSpec, Spec

\* What each process has printed is in its buffer as long as it runs, and in
\* the file when it has ended.
THEOREM OutputInvariance == BufferedSpec => []OutputInv
<1>1. BufferedInit => OutputInv
  <2> SUFFICES ASSUME BufferedInit PROVE Lines /\ Written
    BY DEF OutputInv, Lines, Written
  <2>1. \A p \in Proc : lines[p] = << >>
    BY DEF BufferedInit
  <2>2. file = << >> /\ out = -1
    BY DEF BufferedInit, Init
  <2>3. 0 .. out = {} /\ << >> \in Seq(Int) /\ Numbers(<< >>) = {}
    BY <2>2 DEF Numbers
  <2>4. Ascending(<< >>) /\ Grouped(<< >>)
    BY DEF Ascending, Grouped
  <2> QED BY <2>1, <2>2, <2>3, <2>4 DEF Lines, Written, PrintedBy
<1>2. TypeOK /\ RingInv /\ RingInv' /\ OutputInv /\ [BufferedNext]_<<vars, lines, file>>
        => OutputInv'
  <2> SUFFICES ASSUME TypeOK, RingInv, RingInv', OutputInv, [BufferedNext]_<<vars, lines, file>>,
                      ~Faulty'
               PROVE  Lines' /\ Written'
    BY DEF OutputInv, Lines, Written
  <2>1. Good
    <3>1. [Next]_vars
      BY DEF BufferedNext
    <3>2. ~Faulty
      BY <3>1, Beginnings DEF RingInv
    <3> QED BY <3>2 DEF Good, RingInv
  <2>2. Lines /\ Written
    BY <2>1 DEF Good, OutputInv, Lines, Written
  <2>3. \A p \in Proc : pc'[p] \notin {"failed", "sigpipe"}
    BY DEF RingInv, Births, Faulty
  <2>4. ASSUME printOutputBuffered, UNCHANGED vars PROVE Lines' /\ Written'
    <3>1. Silent
      BY <2>4 DEF vars, Silent
    <3> QED BY <2>1, <2>2, <2>4, <3>1, SilentOutput
  <2>5. ASSUME printOutputBuffered, Create PROVE Lines' /\ Written'
    <3>1. 0 \in Proc
      BY RingAssumption DEF Proc
    <3>2. ~createPipesFails
      BY <2>1, <2>3, <3>1 DEF Good, TypeOK, createPipesFails, End, Goto
    <3>3. createPipes
      BY <2>5, <3>2 DEF Create
    <3>4. Silent
      BY <2>1, <3>1, <3>3 DEF Good, TypeOK, createPipes, Goto, Silent, Dead, Early
    <3> QED BY <2>1, <2>2, <2>5, <3>4, SilentOutput
  <2>6. ASSUME printOutputBuffered, NEW p \in Proc, Step(p) PROVE Lines' /\ Written'
    BY <2>1, <2>2, <2>3, <2>6, StepOutput, SilentOutput, PrintOutput, EndOutput
  <2>7. CASE UNCHANGED <<vars, lines, file>>
    <3>1. UNCHANGED <<pc, out, lines, file>>
      BY <2>7 DEF vars
    <3> QED BY <2>2, <3>1 DEF Lines, Written, PrintedBy
  <2> QED BY <2>4, <2>5, <2>6, <2>7 DEF BufferedNext, Next, Finished
<1> QED BY <1>1, <1>2, BufferedRing, TypeCorrect, Invariance, PTL DEF BufferedSpec

\* Output that is buffered by stdio is neither lost nor copied by the forks,
\* and comes out grouped by process, for every ring whose calls succeed.
THEOREM FileIsGrouped == BufferedSpec => []GroupedInFile
<1>1. TypeOK /\ RingInv /\ OutputInv => GroupedInFile
  <2> SUFFICES ASSUME TypeOK, RingInv, OutputInv, ~Faulty, \A p \in Proc : pc[p] = "exited"
               PROVE  Numbers(file) = 0 .. STOPNUMBER
    BY DEF GroupedInFile, OutputInv
  <2>1. out = STOPNUMBER
    BY RingAssumption DEF RingInv, Stopping, Passed, Proc
  <2>2. \A v \in Nat : v % N \in Proc
    BY ModSucc
  <2>3. \A v \in 0 .. out : pc[v % N] = "exited"
    BY <2>1, <2>2, RingAssumption
  <2> QED BY <2>1, <2>3 DEF OutputInv
<1> QED BY <1>1, BufferedRing, TypeCorrect, Invariance, OutputInvariance, PTL
=============================================================================
