----------------------------- MODULE IwishProofs -----------------------------
(***************************************************************************)
(* Proofs about the shell process of iwish: Shell for any number of jobs,  *)
(* and Parser for sentences of any length.                                 *)
(***************************************************************************)
EXTENDS Shell, Parser, SequenceTheorems, FiniteSetTheorems, WellFoundedInduction, TLAPS

\* A step that leaves the jobs alone and does not touch the wait for one.
LEMMA JobsStay ==
  ASSUME ForegroundWaits, UNCHANGED jobVars, pc = "wait" => pc' = "wait"
  PROVE  ForegroundWaits'
  BY DEF ForegroundWaits, jobVars

\* Each of these steps of main() allocates or frees what ShellInv says.
LEMMA LineSteps ==
  ASSUME ShellInv,
         \/ \E l \in Lines : readInput(l)
         \/ readInputFails \/ endOfInput \/ readEof \/ addEof
         \/ tokenise \/ tokeniseFails \/ interpretInput \/ interpretInputNull
         \/ safelyForkFails \/ freeLine \/ leave
  PROVE  ShellInv'
<1> USE ShellAssumption DEF ShellInv, TypeOK, Ended, Lines, jobVars
<1>1. UNCHANGED jobVars /\ pc # "wait"
  BY DEF readInput, readInputFails, endOfInput, readEof, addEof, tokenise,
     tokeniseFails, interpretInput, interpretInputNull, safelyForkFails, freeLine, leave, Free
<1>2. ForegroundWaits'
  BY <1>1, JobsStay
<1>3. ASSUME NEW l \in Lines, readInput(l) PROVE ShellInv'
  BY <1>2, <1>3 DEF readInput
<1>4. CASE readInputFails \/ endOfInput \/ readEof
  BY <1>2, <1>4 DEF readInputFails, endOfInput, readEof
<1>5. CASE addEof
  <2>1. size' \in 0 .. HeapLimit
    BY <1>5 DEF addEof
  <2> QED BY <1>2, <1>5, <2>1 DEF addEof
<1>6. CASE tokenise \/ tokeniseFails
  BY <1>2, <1>6 DEF tokenise, tokeniseFails
<1>7. CASE interpretInput
  <2>1. CASE line = "invalid"
    BY <1>2, <1>7, <2>1 DEF interpretInput
  <2>2. CASE line # "invalid"
    <3>1. line \in {"fg", "bg"} /\ last < MaxJobs /\ lists = last
      BY <1>7, <2>2 DEF interpretInput
    <3>2. lists' = last + 1 /\ lists' \in 0 .. MaxJobs + 1
      BY <1>7, <2>2, <3>1 DEF interpretInput
    <3> QED BY <1>2, <1>7, <2>2, <3>1, <3>2 DEF interpretInput
  <2> QED BY <2>1, <2>2
<1>8. CASE interpretInputNull
  BY <1>2, <1>8 DEF interpretInputNull
<1>9. CASE safelyForkFails
  BY <1>2, <1>9 DEF safelyForkFails
<1>10. CASE freeLine \/ leave
  BY <1>2, <1>10 DEF freeLine, leave, Free
<1> QED BY <1>3, <1>4, <1>5, <1>6, <1>7, <1>8, <1>9, <1>10

\* The job that safelyFork() starts is the only one the shell can wait for.
LEMMA ForkStep == ASSUME ShellInv, safelyFork PROVE ShellInv'
<1> USE ShellAssumption DEF ShellInv, TypeOK, Ended, Lines, safelyFork, Fork
<1>1. last + 1 \in JobIds /\ line \in {"fg", "bg"}
  BY DEF JobIds
<1>2. ForegroundWaits'
  <2> SUFFICES ASSUME NEW j \in JobIds, jobs'[j] = "running", kind'[j] = "fg"
               PROVE  pc' = "wait" /\ j = last'
    BY DEF ForegroundWaits
  <2>1. CASE j = last + 1
    BY <1>1, <2>1
  <2>2. CASE j # last + 1
    BY <1>1, <2>2 DEF ForegroundWaits
  <2> QED BY <2>1, <2>2
<1> QED BY <1>1, <1>2 DEF JobIds

\* waitpid() returns when the only job without '&' has ended.
LEMMA WaitStep == ASSUME ShellInv, waitpid PROVE ShellInv'
<1> USE DEF ShellInv, TypeOK, Ended, Lines, waitpid, jobVars
<1>1. ForegroundWaits'
  BY DEF ForegroundWaits
<1> QED BY <1>1

\* A job that comes closer to its end disturbs nothing.
LEMMA JobStep ==
  ASSUME ShellInv, NEW j \in JobIds,
         CommandsDie(j) \/ \E how \in {"dying", "gone"} : HandlerEnds(j, how)
  PROVE  ShellInv'
<1> USE DEF ShellInv, TypeOK, Ended
<1>1. PICK how \in {"dying", "gone"} :
        /\ jobs' = [jobs EXCEPT ![j] = how]
        /\ UNCHANGED <<pc, line, eof, size, last, kind, live, lists>>
  BY DEF CommandsDie, HandlerEnds
<1>2. ForegroundWaits'
  BY <1>1 DEF ForegroundWaits
<1> QED BY <1>1, <1>2

\* The inductive invariant of the main loop (iwish.c:158-203).
THEOREM Invariance == Spec => []ShellInv
<1>1. Init => ShellInv
  <2> SUFFICES ASSUME Init PROVE ShellInv
    OBVIOUS
  <2>1. TypeOK
    <3>1. eof \in BOOLEAN
      BY Zenon DEF Init
    <3>2. /\ kind \in [JobIds -> {"fg", "bg"}]
          /\ jobs \in [JobIds -> {"none", "running", "dying", "gone"}]
      BY DEF Init
    <3>3. size \in 0 .. HeapLimit /\ last \in 0 .. MaxJobs /\ lists \in 0 .. MaxJobs + 1
      BY ShellAssumption DEF Init
    <3>4. pc = "read" /\ line \in Lines /\ live \subseteq {"input", "strings"}
      BY DEF Init, Lines
    <3> QED BY <3>1, <3>2, <3>3, <3>4 DEF TypeOK
  <2>2. ForegroundWaits
    BY DEF Init, ForegroundWaits
  <2> QED BY <2>1, <2>2 DEF Init, ShellInv, Ended
<1>2. ShellInv /\ [Next]_vars => ShellInv'
  <2> SUFFICES ASSUME ShellInv, [Next]_vars PROVE ShellInv'
    OBVIOUS
  <2>1. CASE Main
    BY <2>1, LineSteps, ForkStep, WaitStep DEF Main
  <2>2. CASE (\E l \in Lines : readInput(l)) \/ readInputFails \/ endOfInput
    BY <2>2, LineSteps
  <2>3. CASE \E j \in JobIds : CommandsDie(j) \/ \E how \in {"dying", "gone"} : HandlerEnds(j, how)
    BY <2>3, JobStep
  <2>4. CASE UNCHANGED vars
    BY <2>4 DEF vars, ShellInv, TypeOK, ForegroundWaits
  <2> QED BY <2>1, <2>2, <2>3, <2>4 DEF Next, Finished
<1> QED BY <1>1, <1>2, PTL DEF Spec

\* The shell waits for the job without '&' and for no other (iwish.c:54-55),
\* however many jobs there are and whenever they end.
THEOREM WaitsForForeground == Spec => []ForegroundWaits
<1>1. ShellInv => ForegroundWaits
  BY DEF ShellInv
<1> QED BY <1>1, Invariance, PTL

\* At the prompt the lines of before are freed, and one Simple_List is left of
\* every job (iwish.c:18-57 and 194-201), however long the session.
THEOREM LinesAreFreed == Spec => []LineFreed
<1>1. ShellInv => LineFreed
  BY DEF ShellInv, LineFreed, Ended
<1> QED BY <1>1, Invariance, PTL
-----------------------------------------------------------------------------
(***************************************************************************)
(* The parser.                                                             *)
(***************************************************************************)
\* A set of natural numbers has a least one.
LEMMA Least ==
  ASSUME NEW T \in SUBSET Nat, T # {}
  PROVE  \E n \in T : \A m \in T : n <= m
<1> DEFINE R == OpToRel(<, Nat)
<1>1. IsWellFoundedOn(R, Nat)
  BY NatLessThanWellFounded
<1>2. PICK n \in T : \A m \in T : ~(<<m, n>> \in R)
  <2> HIDE DEF R
  <2> QED BY <1>1, WFMin
<1>3. \A m \in T : ~(m < n)
  BY <1>2 DEF OpToRel
<1> HIDE DEF R
<1> QED BY <1>3

\* Induction from the end of a sequence: a set that has an index whenever it
\* has all later ones has them all.
LEMMA Backwards ==
  ASSUME NEW n \in Nat, NEW T \in SUBSET (1 .. n),
         \A i \in 1 .. n : (\A j \in i + 1 .. n : j \in T) => i \in T
  PROVE  T = 1 .. n
<1> DEFINE Bad == {n - i : i \in (1 .. n) \ T}
<1>1. SUFFICES ASSUME T # 1 .. n PROVE FALSE
  OBVIOUS
<1>2. Bad \in SUBSET Nat /\ Bad # {}
  <2>1. PICK i \in 1 .. n : i \notin T
    BY <1>1
  <2>2. n - i \in Bad
    BY <2>1
  <2> QED BY <2>2
<1>3. PICK b \in Bad : \A m \in Bad : b <= m
  <2> HIDE DEF Bad
  <2> QED BY <1>2, Least
<1>4. PICK i \in (1 .. n) \ T : b = n - i
  BY <1>3
<1>5. ASSUME NEW j \in i + 1 .. n, j \notin T PROVE FALSE
  <2>1. n - j \in Bad /\ n - j < b
    BY <1>4, <1>5
  <2> QED BY <1>3, <2>1
<1> QED BY <1>4, <1>5

\* A sequence that is made longer at its front.
LEMMA Prepended ==
  ASSUME NEW S, NEW x \in S, NEW q \in Seq(S), NEW r, r = <<x>> \o q
  PROVE  /\ r \in Seq(S) /\ Len(q) \in Nat /\ Len(r) = Len(q) + 1 /\ r[1] = x
         /\ \A k \in 1 .. Len(q) : k + 1 \in 1 .. Len(r) /\ r[k + 1] = q[k]
         /\ \A k \in 1 .. Len(r) : k # 1 => k - 1 \in 1 .. Len(q) /\ r[k] = q[k - 1]
<1>1. /\ r \in Seq(S) /\ Len(q) \in Nat /\ Len(r) = Len(q) + 1 /\ r[1] = x
      /\ \A k \in 1 .. Len(q) : r[k + 1] = q[k]
  OBVIOUS
<1>2. \A k \in 1 .. Len(q) : k + 1 \in 1 .. Len(r)
  BY <1>1
<1>3. ASSUME NEW k \in 1 .. Len(r), k # 1 PROVE k - 1 \in 1 .. Len(q) /\ r[k] = q[k - 1]
  <2>1. k - 1 \in 1 .. Len(q) /\ (k - 1) + 1 = k
    BY <1>1, <1>3
  <2> QED BY <1>1, <2>1
<1> QED BY <1>1, <1>2, <1>3

-----------------------------------------------------------------------------
(* Sums over sequences: the numbers of nodes. *)

SumBody(q, from, k) == IF k > Len(q) THEN 0 ELSE q[k] + from[k + 1]

\* Total() is what its recursive definition says.
LEMMA TotalUnfolds ==
  ASSUME NEW q, Len(q) \in Nat
  PROVE  \E from : /\ Total(q) = from[1]
                   /\ \A k \in 1 .. Len(q) + 1 : from[k] = SumBody(q, from, k)
<1> DEFINE n == Len(q) + 1
           Partial(m) == \E f : f = [k \in m .. n |-> SumBody(q, f, k)]
           T == {m \in 1 .. n : Partial(m)}
<1>1. ASSUME NEW m \in 1 .. n, \A j \in m + 1 .. n : j \in T PROVE m \in T
  <2>1. CASE m = n
    <3>1. [k \in m .. n |-> 0] = [k \in m .. n |-> SumBody(q, [l \in m .. n |-> 0], k)]
      BY <2>1 DEF SumBody
    <3> QED BY <3>1
  <2>2. CASE m < n
    <3>1. PICK f : f = [k \in m + 1 .. n |-> SumBody(q, f, k)]
      BY <1>1, <2>2
    <3> DEFINE g == [k \in m .. n |-> IF k = m THEN SumBody(q, f, m) ELSE f[k]]
    <3>2. ASSUME NEW k \in m .. n PROVE g[k] = SumBody(q, g, k)
      <4>1. k <= Len(q) => g[k + 1] = f[k + 1]
        OBVIOUS
      <4>2. SumBody(q, g, k) = SumBody(q, f, k)
        BY <4>1 DEF SumBody
      <4>3. k # m => f[k] = SumBody(q, f, k)
        BY <3>1
      <4> QED BY <4>2, <4>3
    <3>3. g = [k \in m .. n |-> SumBody(q, g, k)]
      BY <3>2
    <3> HIDE DEF g
    <3> QED BY <3>3
  <2> QED BY <2>1, <2>2
<1>2. T = 1 .. n
  <2> HIDE DEF T
  <2>1. T \in SUBSET (1 .. n) /\ n \in Nat
    BY DEF T
  <2> HIDE DEF n
  <2> QED BY <1>1, <2>1, Backwards
<1>3. Partial(1)
  <2>1. 1 \in T
    <3> HIDE DEF T
    <3> QED BY <1>2
  <2> QED BY <2>1
<1> DEFINE sum == CHOOSE from : from = [k \in 1 .. Len(q) + 1 |-> SumBody(q, from, k)]
<1>4. \A k \in 1 .. Len(q) + 1 : sum[k] = SumBody(q, sum, k)
  <2>1. sum = [k \in 1 .. Len(q) + 1 |-> SumBody(q, sum, k)]
    BY <1>3
  <2> HIDE DEF sum
  <2> DEFINE h == [k \in 1 .. Len(q) + 1 |-> SumBody(q, sum, k)]
  <2>2. \A k \in 1 .. Len(q) + 1 : h[k] = SumBody(q, sum, k)
    OBVIOUS
  <2>3. sum = h
    BY <2>1
  <2> QED BY <2>2, <2>3
<1>5. Total(q) = sum[1]
  BY DEF Total, SumBody
<1> HIDE DEF sum
<1> QED BY <1>4, <1>5

\* The sum of an empty sequence, and of one that is made longer at its front.
LEMMA TotalEmpty == Total(<< >>) = 0
<1>1. Len(<< >>) = 0
  OBVIOUS
<1>2. PICK from : /\ Total(<< >>) = from[1]
                  /\ \A k \in 1 .. Len(<< >>) + 1 : from[k] = SumBody(<< >>, from, k)
  BY <1>1, TotalUnfolds
<1>3. from[1] = SumBody(<< >>, from, 1)
  BY <1>1, <1>2
<1> QED BY <1>1, <1>2, <1>3 DEF SumBody

\* A sum is a number, and the first summand can be taken out of it.
LEMMA TotalPrepend ==
  ASSUME NEW x \in Nat, NEW q \in Seq(Nat)
  PROVE  /\ Total(q) \in Nat
         /\ Total(<<x>> \o q) = x + Total(q)
<1> DEFINE r == <<x>> \o q
           n == Len(q) + 1
<1>1. /\ r \in Seq(Nat) /\ Len(r) = n /\ r[1] = x /\ n \in Nat /\ Len(q) \in Nat
      /\ \A k \in 1 .. Len(q) : r[k + 1] = q[k]
  OBVIOUS
<1>2. PICK f : Total(q) = f[1] /\ \A k \in 1 .. n : f[k] = SumBody(q, f, k)
  BY <1>1, TotalUnfolds
<1>3. PICK g : Total(r) = g[1] /\ \A k \in 1 .. n + 1 : g[k] = SumBody(r, g, k)
  <2> HIDE DEF r, n
  <2> QED BY <1>1, TotalUnfolds
<1> HIDE DEF r, n
<1> DEFINE T == {k \in 1 .. n : g[k + 1] = f[k] /\ f[k] \in Nat}
<1>4. ASSUME NEW k \in 1 .. n, \A j \in k + 1 .. n : j \in T PROVE k \in T
  <2>1. f[k] = SumBody(q, f, k) /\ g[k + 1] = SumBody(r, g, k + 1)
    BY <1>1, <1>2, <1>3
  <2>2. CASE k = n
    BY <1>1, <2>1, <2>2 DEF SumBody, n
  <2>3. CASE k < n
    <3>1. k + 1 \in T /\ k \in 1 .. Len(q)
      BY <1>1, <1>4, <2>3 DEF n
    <3>2. f[k] = q[k] + f[k + 1] /\ g[k + 1] = r[k + 1] + g[k + 2]
      BY <1>1, <2>1, <3>1 DEF SumBody, n
    <3> QED BY <1>1, <3>1, <3>2
  <2> QED BY <1>1, <2>2, <2>3
<1>5. T = 1 .. n
  <2>1. T \in SUBSET (1 .. n)
    OBVIOUS
  <2> HIDE DEF T
  <2> QED BY <1>1, <1>4, <2>1, Backwards
<1>6. 1 \in T
  BY <1>1, <1>5 DEF n
<1>7. g[1] = x + g[2]
  BY <1>1, <1>3 DEF SumBody, n
<1> QED BY <1>2, <1>3, <1>6, <1>7 DEF r

\* A sequence with all elements of another behind a new one.
LEMMA TotalShifted ==
  ASSUME NEW n \in Nat, NEW p \in [1 .. n -> Nat], NEW q \in [1 .. n + 1 -> Nat],
         \A k \in 1 .. n : q[k + 1] = p[k]
  PROVE  Total(p) \in Nat /\ Total(q) = q[1] + Total(p)
<1>1. p \in Seq(Nat) /\ Len(p) = n /\ q \in Seq(Nat) /\ Len(q) = n + 1
  <2>1. n + 1 \in Nat
    OBVIOUS
  <2>2. p \in Seq(Nat)
    BY IsASeq
  <2>3. q \in Seq(Nat)
    BY <2>1, IsASeq
  <2> QED BY <2>1, <2>2, <2>3, LenProperties
<1>2. q[1] \in Nat
  OBVIOUS
<1> DEFINE r == <<q[1]>> \o p
<1>3. r \in Seq(Nat) /\ Len(r) = n + 1 /\ r[1] = q[1] /\ \A k \in 1 .. n : r[k + 1] = p[k]
  BY <1>1, <1>2
<1>4. Total(p) \in Nat /\ Total(r) = q[1] + Total(p)
  BY <1>1, <1>2, TotalPrepend
<1> HIDE DEF r
<1>5. ASSUME NEW k \in 1 .. n + 1 PROVE q[k] = r[k]
  <2>1. CASE k = 1
    BY <1>3, <2>1
  <2>2. CASE k # 1
    <3>1. k - 1 \in 1 .. n /\ (k - 1) + 1 = k
      BY <2>2
    <3>2. q[(k - 1) + 1] = p[k - 1] /\ r[(k - 1) + 1] = p[k - 1]
      BY <1>3, <3>1
    <3> QED BY <3>1, <3>2
  <2> QED BY <2>1, <2>2
<1>6. q = r
  BY <1>1, <1>3, <1>5, SeqEqual
<1> QED BY <1>4, <1>6

\* The nodes of a command and of a list, which are made from the end.
LEMMA CommandPrepend ==
  ASSUME NEW S, NEW e \in S, NEW c \in Seq(S)
  PROVE  /\ CommandNodes(c) \in Nat
         /\ CommandNodes(<<e>> \o c) = ElementNodes(e) + CommandNodes(c)
<1> DEFINE d == <<e>> \o c
           p == [l \in 1 .. Len(c) |-> ElementNodes(c[l])]
           q == [l \in 1 .. Len(d) |-> ElementNodes(d[l])]
<1>1. /\ d \in Seq(S) /\ Len(d) = Len(c) + 1 /\ d[1] = e /\ Len(c) \in Nat
      /\ \A l \in 1 .. Len(c) : d[l + 1] = c[l]
  OBVIOUS
<1>2. p \in [1 .. Len(c) -> Nat] /\ q \in [1 .. Len(c) + 1 -> Nat]
  BY <1>1 DEF ElementNodes
<1>3. q[1] = ElementNodes(e) /\ \A l \in 1 .. Len(c) : q[l + 1] = p[l]
  <2>1. q[1] = ElementNodes(e)
    BY <1>1
  <2>2. ASSUME NEW l \in 1 .. Len(c) PROVE q[l + 1] = p[l]
    <3>1. l + 1 \in 1 .. Len(d)
      BY <1>1
    <3> QED BY <1>1, <3>1
  <2> QED BY <2>1, <2>2
<1>4. /\ CommandNodes(c) = 1 + Total(p)
      /\ CommandNodes(d) = 1 + Total(q)
  BY DEF CommandNodes
<1>5. ElementNodes(e) \in Nat
  BY DEF ElementNodes
<1> HIDE DEF p, q
<1>6. Total(p) \in Nat /\ Total(q) = q[1] + Total(p)
  BY <1>1, <1>2, <1>3, TotalShifted
<1>7. /\ CommandNodes(c) \in Nat
      /\ CommandNodes(d) = ElementNodes(e) + CommandNodes(c)
  <2> HIDE DEF d
  <2> QED BY <1>3, <1>4, <1>5, <1>6
<1> QED BY <1>7

\* A command without elements is its own node.
LEMMA NoElement == CommandNodes(<< >>) = 1
<1>1. [l \in 1 .. Len(<< >>) |-> ElementNodes(<< >>[l])] = << >>
  OBVIOUS
<1> QED BY <1>1, TotalEmpty DEF CommandNodes

\* The nodes of a command are a number.
LEMMA CommandNodesType ==
  ASSUME NEW S, NEW c \in Seq(S)
  PROVE  CommandNodes(c) \in Nat
<1>1. CASE S = {}
  <2>1. c = << >>
    <3>1. Len(c) \in Nat /\ \A l \in 1 .. Len(c) : c[l] \in S
      BY LenProperties, ElementOfSeq
    <3>2. Len(c) = 0
      <4>1. 1 \notin 1 .. Len(c)
        BY <1>1, <3>1
      <4> QED BY <3>1, <4>1
    <3> QED BY <3>2, EmptySeq
  <2> QED BY <2>1, NoElement
<1>2. CASE S # {}
  BY <1>2, CommandPrepend
<1> QED BY <1>1, <1>2

\* The same for a list of commands.
LEMMA ListPrepend ==
  ASSUME NEW S, NEW c \in Seq(S), NEW cs \in Seq(Seq(S))
  PROVE  /\ Nodes(cs) \in Nat
         /\ Nodes(<<c>> \o cs) = CommandNodes(c) + Nodes(cs)
<1> DEFINE d == <<c>> \o cs
           p == [k \in 1 .. Len(cs) |-> CommandNodes(cs[k])]
           q == [k \in 1 .. Len(d) |-> CommandNodes(d[k])]
<1>1. /\ d \in Seq(Seq(S)) /\ Len(d) = Len(cs) + 1 /\ d[1] = c /\ Len(cs) \in Nat
      /\ \A k \in 1 .. Len(cs) : d[k + 1] = cs[k]
  OBVIOUS
<1>2. p \in [1 .. Len(cs) -> Nat] /\ q \in [1 .. Len(cs) + 1 -> Nat]
  <2>1. \A b \in Seq(S) : CommandNodes(b) \in Nat
    BY CommandNodesType
  <2>2. \A k \in 1 .. Len(cs) : cs[k] \in Seq(S)
    OBVIOUS
  <2>3. \A k \in 1 .. Len(d) : d[k] \in Seq(S)
    BY <1>1
  <2> HIDE DEF d
  <2> QED BY <1>1, <2>1, <2>2, <2>3
<1>3. q[1] = CommandNodes(c) /\ \A k \in 1 .. Len(cs) : q[k + 1] = p[k]
  <2>1. q[1] = CommandNodes(c)
    BY <1>1
  <2>2. ASSUME NEW k \in 1 .. Len(cs) PROVE q[k + 1] = p[k]
    <3>1. k + 1 \in 1 .. Len(d)
      BY <1>1
    <3> QED BY <1>1, <3>1
  <2> QED BY <2>1, <2>2
<1>4. Nodes(cs) = Total(p) /\ Nodes(d) = Total(q)
  BY DEF Nodes
<1> HIDE DEF p, q
<1>5. Total(p) \in Nat /\ Total(q) = q[1] + Total(p)
  BY <1>1, <1>2, <1>3, TotalShifted
<1> QED BY <1>3, <1>4, <1>5

\* A command of one element and a list of one command.
LEMMA Single ==
  ASSUME NEW S, NEW e \in S, NEW c \in Seq(S)
  PROVE  /\ CommandNodes(<<e>>) = ElementNodes(e) + 1
         /\ Nodes(<<c>>) = CommandNodes(c)
<1>1. << >> \in Seq(S) /\ << >> \in Seq(Seq(S)) /\ <<e>> \o << >> = <<e>> /\ <<c>> \o << >> = <<c>>
  OBVIOUS
<1>2. Nodes(<< >>) = 0
  <2>1. [k \in 1 .. Len(<< >>) |-> CommandNodes(<< >>[k])] = << >>
    OBVIOUS
  <2> QED BY <2>1, TotalEmpty DEF Nodes
<1>3. CommandNodes(c) \in Nat
  BY CommandNodesType
<1>4. CommandNodes(<<e>> \o << >>) = ElementNodes(e) + CommandNodes(<< >>)
  BY <1>1, CommandPrepend
<1>5. Nodes(<<c>> \o << >>) = CommandNodes(c) + Nodes(<< >>)
  BY <1>1, ListPrepend
<1> QED BY <1>1, <1>2, <1>3, <1>4, <1>5, NoElement

-----------------------------------------------------------------------------
(* The parse functions. *)

Elements == [kind : {"word", "<", ">", "unfilled"}, word : Nat]

\* Is there an element of a command at index i?
ElementAt(s, i) == parseSimpleCommandElement(s, i).ok

\* An element ends with a word; it is a word alone or an operator and a word.
LEMMA ElementFacts ==
  ASSUME NEW s \in Seq(Tokens), NEW i \in 1 .. Len(s) + 1, ElementAt(s, i)
  PROVE  LET e == parseSimpleCommandElement(s, i) IN
         /\ i <= Len(s) /\ e.next \in i + 1 .. Len(s) + 1 /\ e.elem \in Elements
         /\ e.heap = ElementNodes(e.elem) - 1
         /\ Fits(s, i, e.next - 1, e.elem)
         /\ e.elem.word = e.next - 1 /\ Covers(e.elem) = i .. e.next - 1
<1> DEFINE e == parseSimpleCommandElement(s, i)
           Goal == /\ i <= Len(s) /\ e.next \in i + 1 .. Len(s) + 1 /\ e.elem \in Elements
                   /\ e.heap = ElementNodes(e.elem) - 1
                   /\ Fits(s, i, e.next - 1, e.elem)
                   /\ e.elem.word = e.next - 1 /\ Covers(e.elem) = i .. e.next - 1
<1>1. ASSUME parseWord(s, i) PROVE Goal
  <2>1. i <= Len(s) /\ s[i] = "word"
    BY <1>1 DEF parseWord, At
  <2>2. e = [ok |-> TRUE, next |-> i + 1, elem |-> Element("word", i), heap |-> 0]
    <3>1. ~parseRedirection(s, i)
      BY <2>1 DEF parseRedirection, At
    <3> QED BY <1>1, <3>1 DEF parseSimpleCommandElement
  <2> HIDE DEF e
  <2>3. /\ e.next = i + 1 /\ e.elem.kind = "word" /\ e.elem.word = i /\ e.heap = 0
        /\ e.elem \in Elements
    BY <2>1, <2>2 DEF Element, Elements
  <2>4. Covers(e.elem) = i .. e.next - 1
    BY <2>3 DEF Covers
  <2> QED BY <2>1, <2>3, <2>4 DEF Fits, ElementNodes
<1>2. ASSUME ~parseWord(s, i), parseRedirection(s, i) PROVE Goal
  <2>1. i + 1 <= Len(s) /\ s[i] \in {"<", ">"} /\ s[i + 1] = "word"
    BY <1>2 DEF parseRedirection, parseWord, At
  <2>2. e = [ok |-> TRUE, next |-> i + 2, elem |-> Element(s[i], i + 1), heap |-> 1]
    BY <1>2 DEF parseSimpleCommandElement
  <2> HIDE DEF e
  <2>3. /\ e.next = i + 2 /\ e.elem.kind = s[i] /\ e.elem.word = i + 1 /\ e.heap = 1
        /\ e.elem \in Elements
    BY <2>1, <2>2 DEF Element, Elements
  <2>4. Covers(e.elem) = i .. e.next - 1
    <3>1. Covers(e.elem) = {i, i + 1}
      BY <2>1, <2>3 DEF Covers
    <3>2. {i, i + 1} = i .. i + 1 /\ e.next - 1 = i + 1
      BY <2>3
    <3> QED BY <3>1, <3>2
  <2> QED BY <2>1, <2>3, <2>4 DEF Fits, ElementNodes
<1>3. parseWord(s, i) \/ parseRedirection(s, i)
  BY DEF ElementAt, parseSimpleCommandElement
<1> QED BY <1>1, <1>2, <1>3

\* Where there is no element, nothing stays allocated (parser.c:92, the Redirection
\* that is freed again), and there is neither a word nor a redirection.
LEMMA ElementFails ==
  ASSUME NEW s, NEW i, ~ElementAt(s, i)
  PROVE  /\ parseSimpleCommandElement(s, i).heap = 0
         /\ ~parseWord(s, i) /\ ~parseRedirection(s, i)
  BY DEF ElementAt, parseSimpleCommandElement

\* parseSimpleCommand() and parsePipeLine() do what their recursive definitions
\* say.
CommandBody(s, parse, i) ==
  LET e == parseSimpleCommandElement(s, i) IN
  IF ~e.ok
  THEN [ok |-> FALSE, next |-> i, elems |-> <<Unfilled>>, heap |-> e.heap]
  ELSE LET rest == parse[e.next] IN
       IF rest.ok
       THEN [ok |-> TRUE, next |-> rest.next, elems |-> <<e.elem>> \o rest.elems,
             heap |-> e.heap + 1 + rest.heap]
       ELSE [ok |-> TRUE, next |-> e.next, elems |-> <<e.elem>>,
             heap |-> e.heap + 1 + rest.heap - ElementNodes(Unfilled)]

\* Every call of parseSimpleCommand() is for a later index, so that there is a
\* function that satisfies the recursive definition.
LEMMA CommandUnfolds ==
  ASSUME NEW s \in Seq(Tokens), NEW i \in 1 .. Len(s) + 1
  PROVE  parseSimpleCommand(s)[i] = CommandBody(s, parseSimpleCommand(s), i)
<1> DEFINE n == Len(s) + 1
           Partial(m) == \E f : f = [k \in m .. n |-> CommandBody(s, f, k)]
           T == {m \in 1 .. n : Partial(m)}
<1>0. n \in Nat
  OBVIOUS
<1>1. ASSUME NEW f, NEW g, NEW k \in 1 .. n, \A j \in k + 1 .. n : f[j] = g[j]
      PROVE  CommandBody(s, f, k) = CommandBody(s, g, k)
  <2>1. ElementAt(s, k) => parseSimpleCommandElement(s, k).next \in k + 1 .. n
    BY ElementFacts
  <2> QED BY <1>1, <2>1 DEF CommandBody, ElementAt
<1>2. ASSUME NEW m \in 1 .. n, \A j \in m + 1 .. n : j \in T PROVE m \in T
  <2>1. PICK f : \A k \in m + 1 .. n : f[k] = CommandBody(s, f, k)
    <3>1. CASE m = n
      BY <3>1
    <3>2. CASE m < n
      <4>0. m + 1 \in T
        <5>1. m + 1 \in m + 1 .. n
          BY <1>0, <3>2
        <5> HIDE DEF T
        <5> QED BY <1>2, <5>1
      <4>1. PICK f : f = [k \in m + 1 .. n |-> CommandBody(s, f, k)]
        BY <4>0, Zenon
      <4> DEFINE h == [k \in m + 1 .. n |-> CommandBody(s, f, k)]
      <4>2. \A k \in m + 1 .. n : h[k] = CommandBody(s, f, k)
        OBVIOUS
      <4>3. f = h
        BY <4>1
      <4> HIDE DEF h
      <4> QED BY <4>2, <4>3
    <3> QED BY <3>1, <3>2
  <2> DEFINE g == [k \in m .. n |-> IF k = m THEN CommandBody(s, f, m) ELSE f[k]]
  <2>2. ASSUME NEW k \in m .. n PROVE g[k] = CommandBody(s, g, k)
    <3>1. \A j \in k + 1 .. n : g[j] = f[j]
      OBVIOUS
    <3>2. g[k] = CommandBody(s, f, k)
      BY <2>1
    <3> HIDE DEF g
    <3> QED BY <1>1, <3>1, <3>2
  <2>3. g = [k \in m .. n |-> CommandBody(s, g, k)]
    BY <2>2
  <2> HIDE DEF g
  <2> QED BY <2>3
<1>3. T = 1 .. n
  <2>1. T \in SUBSET (1 .. n)
    OBVIOUS
  <2> HIDE DEF T, n
  <2> QED BY <1>0, <1>2, <2>1, Backwards
<1>4. Partial(1)
  <2>1. 1 \in T
    <3> HIDE DEF T
    <3> QED BY <1>3
  <2> QED BY <2>1
<1> DEFINE F == CHOOSE parse : parse = [k \in 1 .. Len(s) + 1 |-> CommandBody(s, parse, k)]
<1>5. F = [k \in 1 .. Len(s) + 1 |-> CommandBody(s, F, k)]
  BY <1>4
<1>6. parseSimpleCommand(s) = F
  BY DEF parseSimpleCommand, CommandBody, Max1
<1> HIDE DEF F
<1> DEFINE h == [k \in 1 .. Len(s) + 1 |-> CommandBody(s, F, k)]
<1>7. h[i] = CommandBody(s, F, i)
  OBVIOUS
<1>8. F = h
  BY <1>5
<1> HIDE DEF h
<1> QED BY <1>6, <1>7, <1>8

\* What parseSimpleCommand() makes of the sentence from index i on: the longest
\* sequence of elements, one node less than the command has without the first
\* element, which the caller has allocated.
ParsedCommand(s, i, c) ==
  /\ c.ok = TRUE
  /\ c.next \in i + 1 .. Len(s) + 1 /\ ~ElementAt(s, c.next)
  /\ c.elems \in Seq(Elements) /\ Len(c.elems) > 0
  /\ c.heap \in Int /\ CommandNodes(c.elems) = c.heap + 2
  /\ \A l \in 1 .. Len(c.elems) : Fits(s, i, c.next - 1, c.elems[l])
  /\ InOrder(c.elems)
  /\ \A x \in i .. c.next - 1 : \E l \in 1 .. Len(c.elems) : x \in Covers(c.elems[l])

\* What lies between two indices lies between wider ones.
LEMMA FitsWider ==
  ASSUME NEW s, NEW i \in Int, NEW j \in Int, NEW k \in Int, NEW l \in Int, NEW e,
         Fits(s, i, j, e), k <= i, j <= l
  PROVE  Fits(s, k, l, e)
  BY DEF Fits

LongerCommand(e, rest) ==
  [ok |-> TRUE, next |-> rest.next, elems |-> <<e.elem>> \o rest.elems,
   heap |-> e.heap + 1 + rest.heap]

\* An element in front of the command that the recursive call has parsed.
LEMMA CommandPrepends ==
  ASSUME NEW s \in Seq(Tokens), NEW i \in 1 .. Len(s) + 1, ElementAt(s, i),
         NEW rest, ParsedCommand(s, parseSimpleCommandElement(s, i).next, rest),
         NEW c, c = LongerCommand(parseSimpleCommandElement(s, i), rest)
  PROVE  ParsedCommand(s, i, c)
<1> DEFINE e == parseSimpleCommandElement(s, i)
           f == e.elem
           d == rest.elems
           j == e.next
           n == rest.next
<1>1. /\ i <= Len(s) /\ j \in i + 1 .. Len(s) + 1 /\ f \in Elements
      /\ e.heap = ElementNodes(f) - 1 /\ Fits(s, i, j - 1, f)
      /\ f.word = j - 1 /\ Covers(f) = i .. j - 1
  BY ElementFacts
<1>2. /\ n \in j + 1 .. Len(s) + 1 /\ ~ElementAt(s, n)
      /\ d \in Seq(Elements) /\ Len(d) > 0
      /\ rest.heap \in Int /\ CommandNodes(d) = rest.heap + 2
      /\ \A l \in 1 .. Len(d) : Fits(s, j, n - 1, d[l])
      /\ InOrder(d)
      /\ \A x \in j .. n - 1 : \E l \in 1 .. Len(d) : x \in Covers(d[l])
  BY DEF ParsedCommand
<1>3. c.ok = TRUE /\ c.next = n /\ c.elems = <<f>> \o d /\ c.heap = e.heap + 1 + rest.heap
  BY DEF LongerCommand
<1> HIDE DEF e, f, d, j, n
<1> DEFINE b == <<f>> \o d
<1>4. /\ b \in Seq(Elements) /\ Len(d) \in Nat /\ Len(b) = Len(d) + 1 /\ b[1] = f
      /\ \A l \in 1 .. Len(d) : l + 1 \in 1 .. Len(b) /\ b[l + 1] = d[l]
      /\ \A l \in 1 .. Len(b) : l # 1 => l - 1 \in 1 .. Len(d) /\ b[l] = d[l - 1]
  <2>1. f \in Elements /\ d \in Seq(Elements) /\ b = <<f>> \o d
    BY <1>1, <1>2
  <2> HIDE DEF b
  <2> QED BY <2>1, Prepended
<1>5. CommandNodes(b) = ElementNodes(f) + CommandNodes(d)
  BY <1>1, <1>2, CommandPrepend
<1> HIDE DEF b
<1>6. \A l \in 1 .. Len(b) : l # 1 => l - 1 \in 1 .. Len(d) /\ b[l] = d[l - 1]
  BY <1>4
<1>7. c.heap \in Int /\ CommandNodes(b) = c.heap + 2
  <2>1. ElementNodes(f) \in Nat
    BY DEF ElementNodes
  <2>2. /\ e.heap = ElementNodes(f) - 1 /\ c.heap = e.heap + 1 + rest.heap
        /\ rest.heap \in Int /\ CommandNodes(b) = ElementNodes(f) + (rest.heap + 2)
    BY <1>1, <1>2, <1>3, <1>5
  <2>3. c.heap = ElementNodes(f) + rest.heap
    BY <2>1, <2>2
  <2> QED BY <2>1, <2>2, <2>3
<1>8. ASSUME NEW l \in 1 .. Len(b) PROVE Fits(s, i, n - 1, b[l])
  <2>1. CASE l = 1
    BY <1>1, <1>2, <1>4, <2>1, FitsWider
  <2>2. CASE l # 1
    <3>1. Fits(s, j, n - 1, b[l])
      BY <1>2, <1>6, <2>2
    <3> QED BY <1>1, <1>2, <3>1, FitsWider
  <2> QED BY <2>1, <2>2
<1>9. InOrder(b)
  <2> SUFFICES ASSUME NEW l \in 1 .. Len(b), NEW m \in 1 .. l - 1, NEW x \in Covers(b[l])
               PROVE  b[m].word < x
    BY DEF InOrder
  <2>0. l # 1 /\ m \in 1 .. Len(b)
    <3>1. Len(b) \in Nat
      BY <1>4
    <3> QED BY <3>1
  <2>1. l # 1 /\ l - 1 \in 1 .. Len(d) /\ b[l] = d[l - 1] /\ m \in 1 .. Len(b)
    BY <1>6, <2>0
  <2>2. x \in j .. n - 1
    BY <1>2, <2>1 DEF Fits
  <2>3. CASE m = 1
    BY <1>1, <1>4, <2>2, <2>3
  <2>4. CASE m # 1
    <3>1. m - 1 \in 1 .. (l - 1) - 1 /\ b[m] = d[m - 1]
      BY <1>6, <2>1, <2>4
    <3> QED BY <1>2, <2>1, <3>1 DEF InOrder
  <2> QED BY <2>3, <2>4
<1>10. ASSUME NEW x \in i .. n - 1 PROVE \E l \in 1 .. Len(b) : x \in Covers(b[l])
  <2>1. CASE x \in i .. j - 1
    <3>1. 1 \in 1 .. Len(b) /\ x \in Covers(b[1])
      BY <1>1, <1>4, <2>1
    <3> QED BY <3>1
  <2>2. CASE x \in j .. n - 1
    <3>1. PICK l \in 1 .. Len(d) : x \in Covers(d[l])
      BY <1>2, <2>2
    <3>2. l + 1 \in 1 .. Len(b) /\ b[l + 1] = d[l]
      BY <1>4
    <3> QED BY <3>1, <3>2
  <2> QED BY <1>1, <1>2, <2>1, <2>2
<1>11. c.next \in i + 1 .. Len(s) + 1 /\ Len(b) > 0
  <2>1. c.next \in i + 1 .. Len(s) + 1
    <3>1. n \in i + 1 .. Len(s) + 1
      BY <1>1, <1>2
    <3> QED BY <1>3, <3>1
  <2>2. Len(b) > 0
    <3>1. Len(d) \in Nat /\ Len(b) = Len(d) + 1
      BY <1>4
    <3> QED BY <3>1
  <2> QED BY <2>1, <2>2
<1>12. c.elems = b
  BY <1>3 DEF b
<1> QED BY <1>2, <1>3, <1>4, <1>7, <1>8, <1>9, <1>10, <1>11, <1>12 DEF ParsedCommand

\* An element that no other one follows: the node for the next one is freed.
LEMMA CommandOfOne ==
  ASSUME NEW s \in Seq(Tokens), NEW i \in 1 .. Len(s) + 1, ElementAt(s, i),
         ~ElementAt(s, parseSimpleCommandElement(s, i).next),
         NEW c, LET e == parseSimpleCommandElement(s, i) IN
                c = [ok |-> TRUE, next |-> e.next, elems |-> <<e.elem>>, heap |-> e.heap]
  PROVE  ParsedCommand(s, i, c)
<1> DEFINE e == parseSimpleCommandElement(s, i)
           f == e.elem
           j == e.next
<1>1. /\ i <= Len(s) /\ j \in i + 1 .. Len(s) + 1 /\ f \in Elements
      /\ e.heap = ElementNodes(f) - 1 /\ Fits(s, i, j - 1, f)
      /\ f.word = j - 1 /\ Covers(f) = i .. j - 1
  BY ElementFacts
<1>2. c.ok = TRUE /\ c.next = j /\ c.elems = <<f>> /\ c.heap = e.heap /\ ~ElementAt(s, j)
  OBVIOUS
<1> HIDE DEF e, f, j
<1>3. CommandNodes(<<f>>) = ElementNodes(f) + 1 /\ ElementNodes(f) \in Nat
  <2>1. << >> \in Seq(Elements)
    OBVIOUS
  <2> QED BY <1>1, <2>1, Single DEF ElementNodes
<1>4. c.heap \in Int /\ CommandNodes(c.elems) = c.heap + 2
  BY <1>1, <1>2, <1>3
<1>5. /\ c.elems \in Seq(Elements) /\ Len(c.elems) = 1 /\ c.elems[1] = f
  BY <1>1, <1>2
<1>6. InOrder(c.elems)
  BY <1>5 DEF InOrder
<1>7. \A l \in 1 .. Len(c.elems) : Fits(s, i, c.next - 1, c.elems[l])
  BY <1>1, <1>2, <1>5
<1>8. \A x \in i .. c.next - 1 : \E l \in 1 .. Len(c.elems) : x \in Covers(c.elems[l])
  BY <1>1, <1>2, <1>5
<1> QED BY <1>1, <1>2, <1>4, <1>5, <1>6, <1>7, <1>8 DEF ParsedCommand

\* What parseSimpleCommand() makes of the sentence from index i on.
LEMMA CommandFacts ==
  ASSUME NEW s \in Seq(Tokens), NEW i \in 1 .. Len(s) + 1
  PROVE  LET c == parseSimpleCommand(s)[i] IN
         /\ ElementAt(s, i) => ParsedCommand(s, i, c)
         /\ ~ElementAt(s, i) => c.ok = FALSE /\ c.heap = 0
<1> DEFINE n == Len(s) + 1
           C == parseSimpleCommand(s)
           Known(k) == /\ ElementAt(s, k) => ParsedCommand(s, k, C[k])
                       /\ ~ElementAt(s, k) => C[k].ok = FALSE /\ C[k].heap = 0
           T == {k \in 1 .. n : Known(k)}
<1>1. \A k \in 1 .. n : C[k] = CommandBody(s, C, k)
  BY CommandUnfolds
<1>0. n \in Nat
  OBVIOUS
<1>2. ASSUME NEW k \in 1 .. n, \A j \in k + 1 .. n : j \in T PROVE k \in T
  <2> DEFINE e == parseSimpleCommandElement(s, k)
             rest == C[e.next]
  <2> HIDE DEF C
  <2>1. CASE ~ElementAt(s, k)
    <3>1. C[k] = [ok |-> FALSE, next |-> k, elems |-> <<Unfilled>>, heap |-> e.heap]
      BY <1>1, <2>1 DEF CommandBody, ElementAt
    <3>2. e.heap = 0
      BY <2>1, ElementFails
    <3> QED BY <2>1, <3>1, <3>2
  <2>2. CASE ElementAt(s, k)
    <3>1. e.next \in k + 1 .. n
      BY <2>2, ElementFacts
    <3>2. Known(e.next)
      BY <1>2, <3>1
    <3>3. CASE ElementAt(s, e.next)
      <4>1. ParsedCommand(s, e.next, rest)
        BY <3>2, <3>3
      <4>2. rest.ok
        BY <4>1 DEF ParsedCommand
      <4>3. C[k] = [ok |-> TRUE, next |-> rest.next, elems |-> <<e.elem>> \o rest.elems,
                    heap |-> e.heap + 1 + rest.heap]
        BY <1>1, <2>2, <4>2 DEF CommandBody, ElementAt
      <4>4. ParsedCommand(s, k, C[k])
        BY <2>2, <4>1, <4>3, CommandPrepends DEF LongerCommand
      <4> QED BY <2>2, <4>4
    <3>4. CASE ~ElementAt(s, e.next)
      <4>1. rest.ok = FALSE /\ rest.heap = 0
        BY <3>2, <3>4
      <4>2. C[k] = [ok |-> TRUE, next |-> e.next, elems |-> <<e.elem>>,
                    heap |-> e.heap + 1 + rest.heap - ElementNodes(Unfilled)]
        BY <1>1, <2>2, <4>1 DEF CommandBody, ElementAt
      <4>3. e.heap \in Int
        <5>1. e.heap = ElementNodes(e.elem) - 1
          BY <2>2, ElementFacts
        <5> QED BY <5>1 DEF ElementNodes
      <4>4. ElementNodes(Unfilled) = 1
        BY DEF ElementNodes, Unfilled, Element
      <4>5. e.heap + 1 + rest.heap - ElementNodes(Unfilled) = e.heap
        <5> HIDE DEF e, rest
        <5> QED BY <4>1, <4>3, <4>4
      <4>6. C[k] = [ok |-> TRUE, next |-> e.next, elems |-> <<e.elem>>, heap |-> e.heap]
        BY <4>2, <4>5
      <4>7. ParsedCommand(s, k, C[k])
        BY <2>2, <3>4, <4>6, CommandOfOne
      <4> QED BY <2>2, <4>7
    <3> QED BY <3>3, <3>4
  <2> QED BY <2>1, <2>2
<1>3. T = 1 .. n
  <2>1. T \in SUBSET (1 .. n)
    OBVIOUS
  <2> HIDE DEF T, n
  <2> QED BY <1>0, <1>2, <2>1, Backwards
<1>4. i \in T
  <2> HIDE DEF T
  <2> QED BY <1>3
<1>5. Known(i)
  <2> HIDE DEF Known
  <2> QED BY <1>4
<1> QED BY <1>5

PipeLineBody(s, parse, i) ==
  LET c == parseSimpleCommand(s)[i] IN
  IF ~parseWord(s, i) \/ ~c.ok
  THEN [ok |-> FALSE, next |-> i, cmds |-> << <<Unfilled>> >>, heap |-> 0]
  ELSE IF ~At(s, c.next, "|")
  THEN [ok |-> TRUE, next |-> c.next, cmds |-> <<c.elems>>, heap |-> c.heap]
  ELSE LET rest == parse[c.next + 1] IN
       IF rest.ok
       THEN [ok |-> TRUE, next |-> rest.next, cmds |-> <<c.elems>> \o rest.cmds,
             heap |-> c.heap + 2 + rest.heap]
       ELSE [ok |-> TRUE, next |-> c.next, cmds |-> <<c.elems>>,
             heap |-> c.heap + 2 + rest.heap - Nodes(rest.cmds)]

\* Every call of parsePipeLine() is for a later index: behind a '|'.
LEMMA PipeLineUnfolds ==
  ASSUME NEW s \in Seq(Tokens), NEW i \in 1 .. Len(s) + 1
  PROVE  parsePipeLine(s)[i] = PipeLineBody(s, parsePipeLine(s), i)
<1> DEFINE n == Len(s) + 1
           Partial(m) == \E f : f = [k \in m .. n |-> PipeLineBody(s, f, k)]
           T == {m \in 1 .. n : Partial(m)}
<1>0. n \in Nat
  OBVIOUS
<1>1. ASSUME NEW f, NEW g, NEW k \in 1 .. n, \A j \in k + 1 .. n : f[j] = g[j]
      PROVE  PipeLineBody(s, f, k) = PipeLineBody(s, g, k)
  <2> DEFINE c == parseSimpleCommand(s)[k]
  <2>1. CASE ~parseWord(s, k) \/ ~c.ok
    BY <2>1 DEF PipeLineBody
  <2>2. CASE parseWord(s, k) /\ c.ok /\ At(s, c.next, "|")
    <3>1. ElementAt(s, k)
      BY <2>2, ElementFails
    <3>2. c.next \in k + 1 .. n /\ c.next <= Len(s)
      BY <2>2, <3>1, CommandFacts DEF ParsedCommand, At
    <3>3. c.next + 1 \in k + 1 .. n
      BY <3>2
    <3>4. f[c.next + 1] = g[c.next + 1]
      BY <1>1, <3>3
    <3> HIDE DEF n
    <3> QED BY <2>2, <3>4 DEF PipeLineBody
  <2>3. CASE ~At(s, c.next, "|")
    BY <2>3 DEF PipeLineBody
  <2> QED BY <2>1, <2>2, <2>3
<1>2. ASSUME NEW m \in 1 .. n, \A j \in m + 1 .. n : j \in T PROVE m \in T
  <2>1. PICK f : \A k \in m + 1 .. n : f[k] = PipeLineBody(s, f, k)
    <3>1. CASE m = n
      BY <3>1
    <3>2. CASE m < n
      <4>0. m + 1 \in T
        <5>1. m + 1 \in m + 1 .. n
          BY <1>0, <3>2
        <5> HIDE DEF T
        <5> QED BY <1>2, <5>1
      <4>1. PICK f : f = [k \in m + 1 .. n |-> PipeLineBody(s, f, k)]
        BY <4>0, Zenon
      <4> DEFINE h == [k \in m + 1 .. n |-> PipeLineBody(s, f, k)]
      <4>2. \A k \in m + 1 .. n : h[k] = PipeLineBody(s, f, k)
        OBVIOUS
      <4>3. f = h
        BY <4>1
      <4> HIDE DEF h
      <4> QED BY <4>2, <4>3
    <3> QED BY <3>1, <3>2
  <2> DEFINE g == [k \in m .. n |-> IF k = m THEN PipeLineBody(s, f, m) ELSE f[k]]
  <2>2. ASSUME NEW k \in m .. n PROVE g[k] = PipeLineBody(s, g, k)
    <3>1. \A j \in k + 1 .. n : g[j] = f[j]
      OBVIOUS
    <3>2. g[k] = PipeLineBody(s, f, k)
      BY <2>1
    <3> HIDE DEF g
    <3> QED BY <1>1, <3>1, <3>2
  <2>3. g = [k \in m .. n |-> PipeLineBody(s, g, k)]
    BY <2>2
  <2> HIDE DEF g
  <2> QED BY <2>3
<1>3. T = 1 .. n
  <2>1. T \in SUBSET (1 .. n)
    OBVIOUS
  <2> HIDE DEF T, n
  <2> QED BY <1>0, <1>2, <2>1, Backwards
<1>4. Partial(1)
  <2>1. 1 \in T
    <3> HIDE DEF T
    <3> QED BY <1>3
  <2> QED BY <2>1
<1> DEFINE F == CHOOSE parse : parse = [k \in 1 .. Len(s) + 1 |-> PipeLineBody(s, parse, k)]
<1>5. F = [k \in 1 .. Len(s) + 1 |-> PipeLineBody(s, F, k)]
  BY <1>4
<1>6. parsePipeLine(s) = F
  BY DEF parsePipeLine, PipeLineBody, Max1
<1> HIDE DEF F
<1> DEFINE h == [k \in 1 .. Len(s) + 1 |-> PipeLineBody(s, F, k)]
<1>7. h[i] = PipeLineBody(s, F, i)
  OBVIOUS
<1>8. F = h
  BY <1>5
<1> HIDE DEF h
<1> QED BY <1>6, <1>7, <1>8

\* The tokens that an element of a command stands for.
LEMMA Covered ==
  ASSUME NEW s, NEW i \in Int, NEW j \in Int, NEW e \in Elements, Fits(s, i, j, e),
         NEW x \in Covers(e)
  PROVE  /\ x \in i .. j
         /\ s[x] = "word" \/ (s[x] \in {"<", ">"} /\ x + 1 \in i .. j /\ s[x + 1] = "word")
<1>1. /\ e.word \in Nat /\ e.kind \in {"word", "<", ">"} /\ Covers(e) \subseteq i .. j
      /\ s[e.word] = "word" /\ (e.kind # "word" => s[e.word - 1] = e.kind)
  BY DEF Fits, Elements
<1>2. e.word \in Covers(e)
  BY DEF Covers
<1>3. CASE x = e.word
  BY <1>1, <1>3
<1>4. CASE x # e.word
  <2>1. e.kind # "word" /\ x = e.word - 1
    BY <1>4 DEF Covers
  <2>2. x + 1 = e.word
    BY <1>1, <2>1
  <2> QED BY <1>1, <1>2, <2>1, <2>2
<1> QED BY <1>3, <1>4

\* A command has no '|' in it, and a '|' before it counts once.
LEMMA NoBarInside ==
  ASSUME NEW s \in Seq(Tokens), NEW i \in 1 .. Len(s) + 1, NEW c, ParsedCommand(s, i, c)
  PROVE  \A m \in i .. c.next - 1 : Bars(s, i, m) = {} /\ Cardinality(Bars(s, i, m)) = 0
<1>1. ASSUME NEW x \in i .. c.next - 1 PROVE s[x] # "|"
  <2>1. PICK l \in 1 .. Len(c.elems) : x \in Covers(c.elems[l])
    BY DEF ParsedCommand
  <2>2. c.elems[l] \in Elements /\ Fits(s, i, c.next - 1, c.elems[l]) /\ c.next \in Int
    BY DEF ParsedCommand
  <2> QED BY <2>1, <2>2, Covered
<1>2. c.next \in Int
  BY DEF ParsedCommand
<1>3. \A m \in i .. c.next - 1 : Bars(s, i, m) = {}
  BY <1>1, <1>2 DEF Bars
<1> QED BY <1>3, FS_EmptySet

\* The first '|' counts once, and the others are counted behind it.
LEMMA BarBefore ==
  ASSUME NEW s \in Seq(Tokens), NEW i \in 1 .. Len(s), NEW b \in i .. Len(s), s[b] = "|",
         \A x \in i .. b - 1 : s[x] # "|", NEW m \in b .. Len(s)
  PROVE  /\ Cardinality(Bars(s, b + 1, m)) \in Nat
         /\ Cardinality(Bars(s, i, m)) = 1 + Cardinality(Bars(s, b + 1, m))
<1> DEFINE B == Bars(s, b + 1, m)
<1>1. IsFiniteSet(B)
  <2>1. IsFiniteSet(b + 1 .. m)
    BY FS_Interval
  <2>2. B \subseteq b + 1 .. m
    BY DEF Bars
  <2> HIDE DEF B
  <2> QED BY <2>1, <2>2, FS_Subset
<1>2. b \notin B /\ Bars(s, i, m) = B \cup {b}
  BY DEF Bars
<1> HIDE DEF B
<1>3. Cardinality(B) \in Nat /\ Cardinality(B \cup {b}) = Cardinality(B) + 1
  BY <1>1, <1>2, FS_CardinalityType, FS_AddElement
<1> QED BY <1>2, <1>3 DEF B

\* Where the commands of a list belong, when the list begins at index i.
Placed(s, i, j, cmds) == \A k \in 1 .. Len(cmds) :
  /\ cmds[k] # << >> /\ InOrder(cmds[k])
  /\ \A l \in 1 .. Len(cmds[k]) :
       /\ Fits(s, i, j, cmds[k][l])
       /\ Cardinality(Bars(s, i, cmds[k][l].word)) = k - 1

InList(x, cmds) ==
  \E k \in 1 .. Len(cmds) : \E l \in 1 .. Len(cmds[k]) : x \in Covers(cmds[k][l])

ParsedPipeLine(s, i, p) ==
  /\ p.ok = TRUE
  /\ p.next \in i + 1 .. Len(s) + 1 /\ ~ElementAt(s, p.next)
  /\ ~(At(s, p.next, "|") /\ At(s, p.next + 1, "word"))
  /\ p.cmds \in Seq(Seq(Elements))
  /\ p.heap \in Int /\ Nodes(p.cmds) = p.heap + 2
  /\ Placed(s, i, p.next - 1, p.cmds)
  /\ Len(p.cmds) = 1 + Cardinality(Bars(s, i, p.next - 1))
  /\ \A x \in i .. p.next - 1 :
       (s[x] = "|" /\ At(s, x + 1, "word")) \/ InList(x, p.cmds)

\* A command that no '|' and command follow: the index is at the '|', if there is
\* one, and the nodes made for the next command are freed.
LEMMA PipeLineOfOne ==
  ASSUME NEW s \in Seq(Tokens), NEW i \in 1 .. Len(s) + 1, NEW c, ParsedCommand(s, i, c),
         ~(At(s, c.next, "|") /\ At(s, c.next + 1, "word")),
         NEW p, p = [ok |-> TRUE, next |-> c.next, cmds |-> <<c.elems>>, heap |-> c.heap]
  PROVE  ParsedPipeLine(s, i, p)
<1> DEFINE d == c.elems
           n == c.next
<1>1. /\ n \in i + 1 .. Len(s) + 1 /\ ~ElementAt(s, n)
      /\ d \in Seq(Elements) /\ Len(d) > 0
      /\ c.heap \in Int /\ CommandNodes(d) = c.heap + 2
      /\ \A l \in 1 .. Len(d) : Fits(s, i, n - 1, d[l])
      /\ InOrder(d)
      /\ \A x \in i .. n - 1 : \E l \in 1 .. Len(d) : x \in Covers(d[l])
  BY DEF ParsedCommand
<1>2. /\ p.ok = TRUE /\ p.next = n /\ p.cmds = <<d>> /\ p.heap = c.heap
      /\ ~(At(s, n, "|") /\ At(s, n + 1, "word"))
  OBVIOUS
<1>3. \A m \in i .. n - 1 : Cardinality(Bars(s, i, m)) = 0
  BY NoBarInside
<1> HIDE DEF d, n
<1>4. p.cmds \in Seq(Seq(Elements)) /\ Len(p.cmds) = 1 /\ p.cmds[1] = d
  BY <1>1, <1>2
<1>5. Nodes(p.cmds) = p.heap + 2
  <2>1. PICK e \in Elements : TRUE
    <3>1. d[1] \in Elements
      BY <1>1
    <3> QED BY <3>1
  <2>2. Nodes(<<d>>) = CommandNodes(d)
    BY <1>1, <2>1, Single
  <2> QED BY <1>1, <1>2, <2>2
<1>6. Placed(s, i, n - 1, p.cmds)
  <2>1. ASSUME NEW l \in 1 .. Len(d) PROVE Cardinality(Bars(s, i, d[l].word)) = 0
    <3>1. d[l].word \in Covers(d[l]) /\ Covers(d[l]) \subseteq i .. n - 1
      BY <1>1 DEF Covers, Fits
    <3> QED BY <1>3, <3>1
  <2>2. d # << >>
    BY <1>1
  <2> QED BY <1>1, <1>4, <2>1, <2>2 DEF Placed
<1>7. Len(p.cmds) = 1 + Cardinality(Bars(s, i, n - 1))
  BY <1>1, <1>3, <1>4
<1>8. ASSUME NEW x \in i .. n - 1 PROVE InList(x, p.cmds)
  <2>1. PICK l \in 1 .. Len(d) : x \in Covers(d[l])
    BY <1>1
  <2>2. 1 \in 1 .. Len(p.cmds) /\ l \in 1 .. Len(p.cmds[1]) /\ x \in Covers(p.cmds[1][l])
    BY <1>4, <2>1
  <2> QED BY <2>2 DEF InList
<1> QED BY <1>1, <1>2, <1>4, <1>5, <1>6, <1>7, <1>8 DEF ParsedPipeLine

LongerPipeLine(c, rest) ==
  [ok |-> TRUE, next |-> rest.next, cmds |-> <<c.elems>> \o rest.cmds,
   heap |-> c.heap + 2 + rest.heap]

\* A command and a '|' in front of the pipeline that the recursive call has parsed.
LEMMA PipeLinePrepends ==
  ASSUME NEW s \in Seq(Tokens), NEW i \in 1 .. Len(s) + 1, NEW c, ParsedCommand(s, i, c),
         At(s, c.next, "|"), At(s, c.next + 1, "word"),
         NEW rest, ParsedPipeLine(s, c.next + 1, rest), NEW p, p = LongerPipeLine(c, rest)
  PROVE  ParsedPipeLine(s, i, p)
<1> DEFINE d == c.elems
           b == c.next
           ds == rest.cmds
           n == rest.next
<1>1. /\ b \in i + 1 .. Len(s) + 1
      /\ d \in Seq(Elements) /\ Len(d) > 0
      /\ c.heap \in Int /\ CommandNodes(d) = c.heap + 2
      /\ \A l \in 1 .. Len(d) : Fits(s, i, b - 1, d[l])
      /\ InOrder(d)
      /\ \A x \in i .. b - 1 : \E l \in 1 .. Len(d) : x \in Covers(d[l])
  BY DEF ParsedCommand
<1>2. /\ n \in b + 2 .. Len(s) + 1 /\ ~ElementAt(s, n)
      /\ ~(At(s, n, "|") /\ At(s, n + 1, "word"))
      /\ ds \in Seq(Seq(Elements))
      /\ rest.heap \in Int /\ Nodes(ds) = rest.heap + 2
      /\ Placed(s, b + 1, n - 1, ds)
      /\ Len(ds) = 1 + Cardinality(Bars(s, b + 1, n - 1))
      /\ \A x \in b + 1 .. n - 1 : (s[x] = "|" /\ At(s, x + 1, "word")) \/ InList(x, ds)
  <2>1. n \in (b + 1) + 1 .. Len(s) + 1
    BY DEF ParsedPipeLine
  <2>2. n \in b + 2 .. Len(s) + 1
    <3> HIDE DEF b, n
    <3> QED BY <1>1, <2>1
  <2> QED BY <2>2 DEF ParsedPipeLine
<1>3. /\ p.ok = TRUE /\ p.next = n /\ p.cmds = <<d>> \o ds /\ p.heap = c.heap + 2 + rest.heap
      /\ At(s, b, "|") /\ At(s, b + 1, "word")
  BY DEF LongerPipeLine
<1>4. \A m \in i .. b - 1 : Bars(s, i, m) = {} /\ Cardinality(Bars(s, i, m)) = 0
  BY NoBarInside
<1> HIDE DEF d, b, ds, n
<1> DEFINE cs == <<d>> \o ds
<1>5. /\ cs \in Seq(Seq(Elements)) /\ Len(ds) \in Nat /\ Len(cs) = Len(ds) + 1 /\ cs[1] = d
      /\ \A k \in 1 .. Len(ds) : k + 1 \in 1 .. Len(cs) /\ cs[k + 1] = ds[k]
      /\ \A k \in 1 .. Len(cs) : k # 1 => k - 1 \in 1 .. Len(ds) /\ cs[k] = ds[k - 1]
  <2> DEFINE S == Seq(Elements)
  <2>1. d \in S /\ ds \in Seq(S) /\ cs = <<d>> \o ds
    BY <1>1, <1>2
  <2> HIDE DEF cs, S
  <2>2. /\ cs \in Seq(S) /\ Len(ds) \in Nat /\ Len(cs) = Len(ds) + 1 /\ cs[1] = d
        /\ \A k \in 1 .. Len(ds) : k + 1 \in 1 .. Len(cs) /\ cs[k + 1] = ds[k]
        /\ \A k \in 1 .. Len(cs) : k # 1 => k - 1 \in 1 .. Len(ds) /\ cs[k] = ds[k - 1]
    BY <2>1, Prepended
  <2> QED BY <2>2 DEF S
<1>6. Nodes(cs) = CommandNodes(d) + Nodes(ds)
  BY <1>1, <1>2, ListPrepend
<1>7. p.cmds = cs
  BY <1>3
<1> HIDE DEF cs
<1>8. /\ i \in Nat /\ b \in Nat /\ n \in Nat /\ Len(s) \in Nat
      /\ i < b /\ b + 1 < n /\ n <= Len(s) + 1
  BY <1>1, <1>2
<1>9. b <= Len(s) /\ s[b] = "|" /\ b \in i .. Len(s) /\ i \in 1 .. Len(s)
  BY <1>1, <1>3 DEF At
<1>10. \A x \in i .. b - 1 : s[x] # "|"
  <2>1. Bars(s, i, b - 1) = {}
    BY <1>1, <1>4
  <2> QED BY <2>1 DEF Bars
<1>11. ASSUME NEW m \in b .. Len(s)
       PROVE  /\ Cardinality(Bars(s, b + 1, m)) \in Nat
              /\ Cardinality(Bars(s, i, m)) = 1 + Cardinality(Bars(s, b + 1, m))
  BY <1>9, <1>10, BarBefore
<1>12. Len(cs) = 1 + Cardinality(Bars(s, i, n - 1))
  <2> DEFINE m == n - 1
             short == Cardinality(Bars(s, b + 1, m))
             long == Cardinality(Bars(s, i, m))
  <2>1. m \in b .. Len(s)
    BY <1>8
  <2> HIDE DEF m
  <2>2. short \in Nat /\ long = 1 + short
    BY <1>11, <2>1
  <2>3. Len(ds) = 1 + short
    BY <1>2 DEF m
  <2> HIDE DEF short, long
  <2>4. Len(cs) = 1 + long
    BY <1>5, <2>2, <2>3
  <2> QED BY <2>4 DEF long, m
<1>13. p.heap \in Int /\ Nodes(cs) = p.heap + 2
  <2>1. /\ c.heap \in Int /\ rest.heap \in Int /\ p.heap = c.heap + 2 + rest.heap
        /\ Nodes(cs) = (c.heap + 2) + (rest.heap + 2)
    BY <1>1, <1>2, <1>3, <1>6
  <2> DEFINE x == c.heap
             y == rest.heap
             z == p.heap
             w == Nodes(cs)
  <2>2. x \in Int /\ y \in Int /\ z = x + 2 + y /\ w = (x + 2) + (y + 2)
    BY <2>1
  <2> HIDE DEF x, y, z, w
  <2>3. z \in Int /\ w = z + 2
    BY <2>2
  <2> QED BY <2>3 DEF z, w
<1>14. ASSUME NEW k \in 1 .. Len(cs), NEW l \in 1 .. Len(cs[k])
       PROVE  /\ Fits(s, i, n - 1, cs[k][l])
              /\ Cardinality(Bars(s, i, cs[k][l].word)) = k - 1
  <2>0. \A e, x, y : Fits(s, x, y, e) => e.word \in x .. y
    BY DEF Covers, Fits
  <2>1. CASE k = 1
    <3>1. Fits(s, i, b - 1, cs[k][l])
      BY <1>1, <1>5, <2>1
    <3>2. Fits(s, i, n - 1, cs[k][l])
      BY <1>1, <1>2, <3>1, FitsWider
    <3>3. cs[k][l].word \in i .. b - 1
      BY <2>0, <3>1
    <3> QED BY <1>4, <2>1, <3>2, <3>3
  <2>2. CASE k # 1
    <3>1. k - 1 \in 1 .. Len(ds) /\ cs[k] = ds[k - 1]
      BY <1>5, <2>2
    <3>2. /\ Fits(s, b + 1, n - 1, cs[k][l])
          /\ Cardinality(Bars(s, b + 1, cs[k][l].word)) = (k - 1) - 1
      BY <1>2, <3>1 DEF Placed
    <3>3. Fits(s, i, n - 1, cs[k][l])
      BY <1>1, <1>2, <3>2, FitsWider
    <3>4. cs[k][l].word \in b + 1 .. n - 1
      BY <2>0, <3>2
    <3>5. cs[k][l].word \in b .. Len(s)
      BY <1>8, <3>4
    <3>6. Cardinality(Bars(s, i, cs[k][l].word)) = 1 + ((k - 1) - 1)
      BY <1>11, <3>2, <3>5
    <3> QED BY <3>3, <3>6
  <2> QED BY <2>1, <2>2
<1>15. ASSUME NEW k \in 1 .. Len(cs) PROVE cs[k] # << >> /\ InOrder(cs[k])
  <2>1. CASE k = 1
    BY <1>1, <1>5, <2>1
  <2>2. CASE k # 1
    BY <1>2, <1>5, <2>2 DEF Placed
  <2> QED BY <2>1, <2>2
<1>16. Placed(s, i, n - 1, cs)
  BY <1>14, <1>15 DEF Placed
<1>17. ASSUME NEW x \in i .. n - 1
       PROVE  (s[x] = "|" /\ At(s, x + 1, "word")) \/ InList(x, cs)
  <2>1. CASE x \in i .. b - 1
    <3>1. PICK l \in 1 .. Len(d) : x \in Covers(d[l])
      BY <1>1, <2>1
    <3>2. 1 \in 1 .. Len(cs) /\ l \in 1 .. Len(cs[1]) /\ x \in Covers(cs[1][l])
      BY <1>5, <3>1
    <3> QED BY <3>2 DEF InList
  <2>2. CASE x = b
    BY <1>3, <1>9, <2>2
  <2>3. CASE x \in b + 1 .. n - 1
    <3>1. CASE InList(x, ds)
      <4>1. PICK k \in 1 .. Len(ds) : \E l \in 1 .. Len(ds[k]) : x \in Covers(ds[k][l])
        BY <3>1 DEF InList
      <4>2. k + 1 \in 1 .. Len(cs) /\ cs[k + 1] = ds[k]
        BY <1>5
      <4> QED BY <4>1, <4>2 DEF InList
    <3> QED BY <1>2, <2>3, <3>1
  <2> QED BY <1>8, <2>1, <2>2, <2>3
<1>18. p.next \in i + 1 .. Len(s) + 1
  BY <1>3, <1>8
<1> QED BY <1>2, <1>3, <1>5, <1>7, <1>12, <1>13, <1>16, <1>17, <1>18 DEF ParsedPipeLine

\* An empty list: a command of one element that has not been filled in.
LEMMA EmptyNodes == Nodes(<< <<Unfilled>> >>) = 2
<1> DEFINE u == Unfilled
<1>1. u \in Elements /\ ElementNodes(u) = 1
  BY DEF Unfilled, Element, Elements, ElementNodes
<1> HIDE DEF u
<1>2. <<u>> \in Seq(Elements)
  BY <1>1
<1>3. /\ CommandNodes(<<u>>) = ElementNodes(u) + 1
      /\ Nodes(<< <<u>> >>) = CommandNodes(<<u>>)
  BY <1>1, <1>2, Single
<1> QED BY <1>1, <1>3 DEF u

\* What parsePipeLine() makes of the sentence from index i on.
LEMMA PipeLineFacts ==
  ASSUME NEW s \in Seq(Tokens), NEW i \in 1 .. Len(s) + 1
  PROVE  LET p == parsePipeLine(s)[i] IN
         /\ parseWord(s, i) => ParsedPipeLine(s, i, p)
         /\ ~parseWord(s, i) =>
              p = [ok |-> FALSE, next |-> i, cmds |-> << <<Unfilled>> >>, heap |-> 0]
<1> DEFINE n == Len(s) + 1
           P == parsePipeLine(s)
           None(k) == [ok |-> FALSE, next |-> k, cmds |-> << <<Unfilled>> >>, heap |-> 0]
           Known(k) == /\ parseWord(s, k) => ParsedPipeLine(s, k, P[k])
                       /\ ~parseWord(s, k) => P[k] = None(k)
           T == {k \in 1 .. n : Known(k)}
<1>0. n \in Nat
  OBVIOUS
<1>1. \A k \in 1 .. n : P[k] = PipeLineBody(s, P, k)
  BY PipeLineUnfolds
<1>2. ASSUME NEW k \in 1 .. n, \A j \in k + 1 .. n : j \in T PROVE k \in T
  <2> DEFINE c == parseSimpleCommand(s)[k]
             rest == P[c.next + 1]
  <2> HIDE DEF P
  <2>1. CASE ~parseWord(s, k)
    BY <1>1, <2>1 DEF PipeLineBody
  <2>2. CASE parseWord(s, k)
    <3>1. ElementAt(s, k)
      BY <2>2, ElementFails
    <3>2. ParsedCommand(s, k, c)
      BY <3>1, CommandFacts
    <3>3. c.ok /\ c.next \in k + 1 .. n
      BY <3>2 DEF ParsedCommand
    <3>4. CASE ~At(s, c.next, "|")
      <4>1. P[k] = [ok |-> TRUE, next |-> c.next, cmds |-> <<c.elems>>, heap |-> c.heap]
        BY <1>1, <2>2, <3>3, <3>4 DEF PipeLineBody
      <4>2. ParsedPipeLine(s, k, P[k])
        BY <3>2, <3>4, <4>1, PipeLineOfOne
      <4> QED BY <2>2, <4>2
    <3>5. CASE At(s, c.next, "|")
      <4>1. c.next + 1 \in k + 1 .. n
        <5> HIDE DEF c
        <5> QED BY <3>3, <3>5 DEF At
      <4>2. Known(c.next + 1)
        BY <1>2, <4>1
      <4>3. CASE parseWord(s, c.next + 1)
        <5>1. ParsedPipeLine(s, c.next + 1, rest)
          BY <4>2, <4>3
        <5>2. rest.ok
          BY <5>1 DEF ParsedPipeLine
        <5>3. P[k] = [ok |-> TRUE, next |-> rest.next, cmds |-> <<c.elems>> \o rest.cmds,
                      heap |-> c.heap + 2 + rest.heap]
          BY <1>1, <2>2, <3>3, <3>5, <5>2 DEF PipeLineBody
        <5>4. At(s, c.next + 1, "word")
          BY <4>3 DEF parseWord
        <5>5. ParsedPipeLine(s, k, P[k])
          BY <3>2, <3>5, <5>1, <5>3, <5>4, PipeLinePrepends DEF LongerPipeLine
        <5> QED BY <2>2, <5>5
      <4>4. CASE ~parseWord(s, c.next + 1)
        <5>1. rest = None(c.next + 1)
          BY <4>2, <4>4
        <5>2. rest.ok = FALSE /\ rest.heap = 0 /\ rest.cmds = << <<Unfilled>> >>
          BY <5>1
        <5>3. P[k] = [ok |-> TRUE, next |-> c.next, cmds |-> <<c.elems>>,
                      heap |-> c.heap + 2 + rest.heap - Nodes(rest.cmds)]
          BY <1>1, <2>2, <3>3, <3>5, <5>2 DEF PipeLineBody
        <5>4. c.heap + 2 + rest.heap - Nodes(rest.cmds) = c.heap
          <6>1. Nodes(rest.cmds) = 2
            BY <5>2, EmptyNodes
          <6>2. c.heap \in Int
            BY <3>2 DEF ParsedCommand
          <6> HIDE DEF c, rest
          <6> QED BY <5>2, <6>1, <6>2
        <5>5. P[k] = [ok |-> TRUE, next |-> c.next, cmds |-> <<c.elems>>, heap |-> c.heap]
          BY <5>3, <5>4
        <5>6. ~At(s, c.next + 1, "word")
          BY <4>4 DEF parseWord
        <5>7. ParsedPipeLine(s, k, P[k])
          BY <3>2, <5>5, <5>6, PipeLineOfOne
        <5> QED BY <2>2, <5>7
      <4> QED BY <4>3, <4>4
    <3> QED BY <3>4, <3>5
  <2> QED BY <2>1, <2>2
<1>3. T = 1 .. n
  <2>1. T \in SUBSET (1 .. n)
    OBVIOUS
  <2> HIDE DEF T, n
  <2> QED BY <1>0, <1>2, <2>1, Backwards
<1>4. i \in T
  <2> HIDE DEF T
  <2> QED BY <1>3
<1>5. Known(i)
  <2> HIDE DEF Known
  <2> QED BY <1>4
<1> QED BY <1>5

-----------------------------------------------------------------------------
(* The line that has been parsed. *)

\* The tokens that the parser has gone past: words, and operators with a word
\* behind them.
LEMMA TokensPassed ==
  ASSUME NEW s \in Seq(Tokens), NEW p, ParsedPipeLine(s, 1, p), NEW x \in 1 .. p.next - 1
  PROVE  \/ s[x] = "|" /\ At(s, x + 1, "word")
         \/ InList(x, p.cmds) /\ s[x] = "word"
         \/ InList(x, p.cmds) /\ s[x] \in {"<", ">"} /\ At(s, x + 1, "word")
<1> DEFINE n == p.next
           cs == p.cmds
<1>1. /\ n \in 2 .. Len(s) + 1 /\ cs \in Seq(Seq(Elements)) /\ Placed(s, 1, n - 1, cs)
      /\ (s[x] = "|" /\ At(s, x + 1, "word")) \/ InList(x, cs)
  BY DEF ParsedPipeLine
<1> HIDE DEF n, cs
<1>2. CASE InList(x, cs)
  <2>1. PICK k \in 1 .. Len(cs) : \E l \in 1 .. Len(cs[k]) : x \in Covers(cs[k][l])
    BY <1>2 DEF InList
  <2>2. PICK l \in 1 .. Len(cs[k]) : x \in Covers(cs[k][l])
    BY <2>1
  <2>3. cs[k] \in Seq(Elements)
    BY <1>1
  <2>4. cs[k][l] \in Elements
    BY <2>3
  <2>5. Fits(s, 1, n - 1, cs[k][l]) /\ n - 1 \in Int
    BY <1>1 DEF Placed
  <2>6. s[x] = "word" \/ (s[x] \in {"<", ">"} /\ x + 1 \in 1 .. n - 1 /\ s[x + 1] = "word")
    BY <2>2, <2>4, <2>5, Covered
  <2>7. \A y \in 1 .. n - 1 : y <= Len(s)
    BY <1>1
  <2> QED BY <1>2, <2>6, <2>7 DEF At, cs
<1> QED BY <1>1, <1>2 DEF n, cs

\* The sentences of the grammar whose commands begin with a program, as the
\* descent goes through them: a word is at the beginning and behind every '|',
\* '<' and '>', and an '&' is last.
WellFormed(s) ==
  /\ At(s, 1, "word")
  /\ \A i \in 1 .. Len(s) :
       /\ s[i] # "bad"
       /\ s[i] \in {"|", "<", ">"} => At(s, i + 1, "word")
       /\ s[i] = "&" => i = Len(s)

LEMMA WellFormedIs ==
  ASSUME NEW s
  PROVE  WellFormed(s) <=> Grammar(s) /\ ProgramsNamed(s)
<1>1. \A i : At(s, i, "word") => CommandAt(s, i)
  BY DEF CommandAt
<1> QED BY <1>1 DEF WellFormed, Grammar, ProgramsNamed

\* The end of the sentence is reached exactly when it is one of the language.
LEMMA EndReached ==
  ASSUME NEW s \in Seq(Tokens), NEW p, ParsedPipeLine(s, 1, p), At(s, 1, "word")
  PROVE  (IF At(s, p.next, "&") THEN p.next + 1 ELSE p.next) = Len(s) + 1
         <=> WellFormed(s)
<1> DEFINE n == p.next
<1>1. /\ n \in 2 .. Len(s) + 1 /\ ~ElementAt(s, n) /\ Len(s) \in Nat
      /\ ~(At(s, n, "|") /\ At(s, n + 1, "word"))
  BY DEF ParsedPipeLine
<1>2. \A x \in 1 .. n - 1 :
        \/ s[x] = "|" /\ At(s, x + 1, "word")
        \/ s[x] = "word"
        \/ s[x] \in {"<", ">"} /\ At(s, x + 1, "word")
  BY TokensPassed
<1>3. ~At(s, n, "word")
      /\ ~((At(s, n, "<") \/ At(s, n, ">")) /\ At(s, n + 1, "word"))
  BY <1>1, ElementFails DEF parseWord, parseRedirection
<1> HIDE DEF n
<1>4. ASSUME (IF At(s, n, "&") THEN n + 1 ELSE n) = Len(s) + 1 PROVE WellFormed(s)
  <2> SUFFICES ASSUME NEW i \in 1 .. Len(s)
               PROVE  /\ s[i] # "bad"
                      /\ s[i] \in {"|", "<", ">"} => At(s, i + 1, "word")
                      /\ s[i] = "&" => i = Len(s)
    BY DEF WellFormed
  <2>1. i \in 1 .. n - 1 \/ (i = Len(s) /\ s[i] = "&")
    BY <1>1, <1>4 DEF At
  <2> QED BY <1>2, <2>1
<1>5. ASSUME WellFormed(s)
      PROVE  (IF At(s, n, "&") THEN n + 1 ELSE n) = Len(s) + 1
  <2>1. CASE n = Len(s) + 1
    BY <1>1, <2>1 DEF At
  <2>2. CASE n \in 1 .. Len(s)
    <3>1. /\ s[n] # "bad" /\ (s[n] \in {"|", "<", ">"} => At(s, n + 1, "word"))
          /\ s[n] = "&" => n = Len(s)
      BY <1>5, <2>2 DEF WellFormed
    <3>2. s[n] \in Tokens
      BY <2>2, ElementOfSeq
    <3>3. \A t : At(s, n, t) <=> s[n] = t
      BY <1>1, <2>2 DEF At
    <3>4. s[n] = "&"
      BY <1>1, <1>3, <3>1, <3>2, <3>3 DEF Tokens
    <3> QED BY <1>1, <3>1, <3>3, <3>4
  <2> QED BY <1>1, <2>1, <2>2
<1> QED BY <1>4, <1>5 DEF n

\* What the list holds when the end has been reached: Faithful, of the
\* functions.
LEMMA NothingLost ==
  ASSUME NEW s \in Seq(Tokens), NEW p, ParsedPipeLine(s, 1, p),
         (IF At(s, p.next, "&") THEN p.next + 1 ELSE p.next) = Len(s) + 1
  PROVE  /\ Placed(s, 1, Len(s), p.cmds)
         /\ Len(p.cmds) = 1 + Cardinality(Bars(s, 1, Len(s)))
         /\ \A i \in 1 .. Len(s) : s[i] \notin {"|", "&"} => InList(i, p.cmds)
         /\ At(s, p.next, "&") <=> s[Len(s)] = "&"
<1> DEFINE n == p.next
           cs == p.cmds
<1>1. /\ n \in 2 .. Len(s) + 1 /\ Len(s) \in Nat
      /\ cs \in Seq(Seq(Elements)) /\ Placed(s, 1, n - 1, cs)
      /\ Len(cs) = 1 + Cardinality(Bars(s, 1, n - 1))
  BY DEF ParsedPipeLine
<1>2. \A x \in 1 .. n - 1 : s[x] # "&" /\ (s[x] = "|" \/ InList(x, cs))
  BY TokensPassed
<1>0. (IF At(s, n, "&") THEN n + 1 ELSE n) = Len(s) + 1
  OBVIOUS
<1> HIDE DEF n, cs
<1>3. \/ n = Len(s) + 1 /\ ~At(s, n, "&")
      \/ n = Len(s) /\ At(s, n, "&") /\ s[n] = "&"
  BY <1>0, <1>1 DEF At
<1>4. \A i \in 1 .. Len(s) : i \in 1 .. n - 1 \/ (i = n /\ s[i] = "&")
  BY <1>1, <1>3
<1>5. Placed(s, 1, Len(s), cs)
  <2> SUFFICES ASSUME NEW k \in 1 .. Len(cs), NEW l \in 1 .. Len(cs[k])
               PROVE  Fits(s, 1, Len(s), cs[k][l])
    BY <1>1 DEF Placed
  <2>1. Fits(s, 1, n - 1, cs[k][l])
    BY <1>1 DEF Placed
  <2>2. n - 1 \in Int /\ n - 1 <= Len(s)
    BY <1>1
  <2> QED BY <1>1, <2>1, <2>2, FitsWider
<1>6. Bars(s, 1, Len(s)) = Bars(s, 1, n - 1)
  <2>1. 1 .. n - 1 \subseteq 1 .. Len(s)
    BY <1>1
  <2> QED BY <1>4, <2>1 DEF Bars
<1>7. \A i \in 1 .. Len(s) : s[i] \notin {"|", "&"} => InList(i, cs)
  BY <1>2, <1>4
<1>8. At(s, n, "&") <=> s[Len(s)] = "&"
  <2>1. n = Len(s) + 1 => Len(s) \in 1 .. n - 1
    BY <1>1
  <2> QED BY <1>2, <1>3, <2>1
<1> QED BY <1>1, <1>5, <1>6, <1>7, <1>8 DEF n, cs

\* The nodes of the list are counted by the parser, whatever it returns.
LEMMA NodesCounted ==
  ASSUME NEW s \in Seq(Tokens)
  PROVE  LET p == parsePipeLine(s)[1] IN
         p.heap \in Int /\ Nodes(p.cmds) = p.heap + 2
<1> DEFINE p == parsePipeLine(s)[1]
<1>1. 1 \in 1 .. Len(s) + 1
  OBVIOUS
<1>2. CASE parseWord(s, 1)
  <2>1. ParsedPipeLine(s, 1, p)
    BY <1>1, <1>2, PipeLineFacts
  <2> QED BY <2>1 DEF ParsedPipeLine
<1>3. CASE ~parseWord(s, 1)
  <2>1. p = [ok |-> FALSE, next |-> 1, cmds |-> << <<Unfilled>> >>, heap |-> 0]
    BY <1>1, <1>3, PipeLineFacts
  <2>2. p.cmds = << <<Unfilled>> >> /\ p.heap = 0
    BY <2>1
  <2> HIDE DEF p
  <2>3. Nodes(p.cmds) = 2
    BY <2>2, EmptyNodes
  <2> QED BY <2>2, <2>3 DEF p
<1> QED BY <1>2, <1>3

-----------------------------------------------------------------------------
(* interpretInput(). *)

\* The list and the heap are what the parse functions say (parser.c,
\* interpreter.c: interpretInput()).
LEMMA ParserInit == ParseInit => ParserInv
<1> SUFFICES ASSUME ParseInit PROVE ParserInv
  OBVIOUS
<1>1. sentence \in Seq(Tokens)
  <2>1. PICK m \in 0 .. MaxLen : sentence \in [1 .. m -> Tokens]
    BY DEF ParseInit, BoundedSeq, SeqOf
  <2> QED BY <2>1, IsASeq
<1> QED BY <1>1 DEF ParseInit, ParserInv, Parsed

\* The fields of a list.
LEMMA ListCommands ==
  ASSUME NEW l, NEW cmds, NEW daemon, l = [cmds |-> cmds, daemon |-> daemon]
  PROVE  l.cmds = cmds /\ l.daemon = daemon
  OBVIOUS

\* Each step of interpretInput() keeps the list and the nodes in agreement.
LEMMA ParserStep ==
  ASSUME ParserInv, [ParseNext]_parseVars PROVE ParserInv'
<1> DEFINE p == parsePipeLine(sentence)[1]
           x == Nodes(p.cmds)
           y == p.heap
<1>1. sentence \in Seq(Tokens)
  BY DEF ParserInv
<1>2. y \in Int /\ x = y + 2
  BY <1>1, NodesCounted
<1>3. CASE makeNewSimpleList
  BY <1>3 DEF makeNewSimpleList, ParserInv, Parsed
<1>4. CASE parseInput
  <2>1. /\ list' = [cmds |-> p.cmds, daemon |-> p.ok /\ At(sentence, p.next, "&")]
        /\ heap' = heap + y /\ UNCHANGED sentence
        /\ interpreting' = IF p.ok /\ (IF list'.daemon THEN p.next + 1 ELSE p.next) = Len(sentence) + 1
                           THEN "valid" ELSE "invalid"
    BY <1>4 DEF parseInput
  <2>2. heap = 1 + 2
    <3>1. heap = 1 + Nodes(EmptyList.cmds)
      BY <1>4 DEF parseInput, ParserInv
    <3> QED BY <3>1, EmptyNodes DEF EmptyList
  <2>3. p' = p
    BY <2>1
  <2>4. heap' = 1 + Nodes(list'.cmds)
    <3> HIDE DEF p
    <3>1. list'.cmds = p.cmds
      BY <2>1, ListCommands
    <3>2. Nodes(list'.cmds) = x
      BY <3>1
    <3> HIDE DEF x, y
    <3>3. heap' = 1 + x
      BY <1>2, <2>1, <2>2
    <3> QED BY <3>2, <3>3
  <2> HIDE DEF p
  <2> QED BY <1>1, <2>1, <2>3, <2>4
          DEF p, ParserInv, Parsed, Valid
<1>5. CASE freeSimpleList
  <2>1. /\ list = [cmds |-> p.cmds, daemon |-> p.ok /\ At(sentence, p.next, "&")]
        /\ heap = 1 + Nodes(list.cmds) /\ heap' = heap - (1 + Nodes(list.cmds))
    BY <1>5 DEF freeSimpleList, ParserInv, Parsed
  <2>2. heap' = 0
    <3> HIDE DEF p
    <3>1. list.cmds = p.cmds
      BY <2>1, ListCommands
    <3>2. heap = 1 + x /\ heap' = heap - (1 + x)
      BY <2>1, <3>1
    <3> HIDE DEF x, y
    <3> QED BY <1>2, <3>2
  <2> QED BY <1>5, <2>2 DEF freeSimpleList, ParserInv, Parsed, Valid
<1>6. CASE UNCHANGED parseVars
  BY <1>6 DEF parseVars, ParserInv, Parsed, Valid
<1> QED BY <1>3, <1>4, <1>5, <1>6 DEF ParseNext

\* The list is always what the parse functions make of the sentence, and the
\* nodes allocated are those of the list, for sentences of any length
\* (interpreter.c, interpretInput(); parser.c).
THEOREM ParserInvariance == ParseSpec => []ParserInv
<1>1. ParserInv /\ [ParseNext]_parseVars => ParserInv'
  BY ParserStep
<1> QED BY ParserInit, <1>1, PTL DEF ParseSpec

\* What ParserInv says of a line that has been parsed, by the first token of the
\* line: a line that does not start with a word is not parsed at all.
LEMMA ParsedLine ==
  ASSUME ParserInv, Parsed
  PROVE  LET p == parsePipeLine(sentence)[1] IN
         /\ list.cmds = p.cmds
         /\ list.daemon <=> p.ok /\ At(sentence, p.next, "&")
         /\ At(sentence, 1, "word") =>
              /\ ParsedPipeLine(sentence, 1, p)
              /\ Valid <=> (IF At(sentence, p.next, "&") THEN p.next + 1 ELSE p.next)
                                  = Len(sentence) + 1
         /\ ~At(sentence, 1, "word") => ~Valid
<1> DEFINE p == parsePipeLine(sentence)[1]
<1>1. /\ sentence \in Seq(Tokens)
      /\ list = [cmds |-> p.cmds, daemon |-> p.ok /\ At(sentence, p.next, "&")]
      /\ Valid <=> p.ok /\ (IF list.daemon THEN p.next + 1 ELSE p.next) = Len(sentence) + 1
  BY DEF ParserInv
<1>2. 1 \in 1 .. Len(sentence) + 1
  BY <1>1
<1>3. At(sentence, 1, "word") => ParsedPipeLine(sentence, 1, p)
  BY <1>1, <1>2, PipeLineFacts DEF parseWord
<1>4. ASSUME ~At(sentence, 1, "word") PROVE p.ok = FALSE
  <2>1. p = [ok |-> FALSE, next |-> 1, cmds |-> << <<Unfilled>> >>, heap |-> 0]
    BY <1>1, <1>2, <1>4, PipeLineFacts DEF parseWord
  <2> QED BY <2>1
<1> HIDE DEF p
<1>5. list.cmds = p.cmds /\ (list.daemon <=> p.ok /\ At(sentence, p.next, "&"))
  BY <1>1, ListCommands
<1>6. ASSUME At(sentence, 1, "word")
      PROVE  Valid <=> (IF At(sentence, p.next, "&") THEN p.next + 1 ELSE p.next)
                              = Len(sentence) + 1
  <2>1. p.ok = TRUE
    BY <1>3, <1>6 DEF ParsedPipeLine
  <2>2. list.daemon <=> At(sentence, p.next, "&")
    BY <1>5, <2>1
  <2> QED BY <1>1, <2>1, <2>2
<1> QED BY <1>1, <1>3, <1>4, <1>5, <1>6 DEF p

\* parseInput() accepts exactly the sentences of the language, of any length
\* (parser.c: the descent never backs up over a word, so that what it has gone
\* past is right and what it stops at cannot be).
THEOREM ParserAccepts == ParseSpec => []AcceptsLanguage
<1>1. ASSUME ParserInv PROVE AcceptsLanguage
  <2> SUFFICES ASSUME Parsed PROVE Valid <=> WellFormed(sentence)
    BY WellFormedIs DEF AcceptsLanguage
  <2>1. sentence \in Seq(Tokens)
    BY <1>1 DEF ParserInv
  <2>2. CASE At(sentence, 1, "word")
    BY <1>1, <2>1, <2>2, ParsedLine, EndReached
  <2>3. CASE ~At(sentence, 1, "word")
    BY <1>1, <2>3, ParsedLine DEF WellFormed
  <2> QED BY <2>2, <2>3
<1> QED BY ParserInvariance, <1>1, PTL

\* Every token of a valid line but '|' and '&' is in its command, once and in
\* the order of the line, and nothing else is (parser.c: the lists that
\* parsePipeLine2() and parseSimpleCommand2() extend while they look ahead).
THEOREM ParserIsFaithful == ParseSpec => []Faithful
<1>1. ASSUME ParserInv PROVE Faithful
  <2> DEFINE p == parsePipeLine(sentence)[1]
  <2> SUFFICES ASSUME Valid PROVE Faithful
    BY DEF Faithful
  <2>1. sentence \in Seq(Tokens) /\ Parsed
    BY <1>1 DEF ParserInv, Valid, Parsed
  <2>2. /\ list.cmds = p.cmds /\ (list.daemon <=> p.ok /\ At(sentence, p.next, "&"))
        /\ ParsedPipeLine(sentence, 1, p)
        /\ (IF At(sentence, p.next, "&") THEN p.next + 1 ELSE p.next) = Len(sentence) + 1
    BY <1>1, <2>1, ParsedLine
  <2> HIDE DEF p
  <2>3. p.ok = TRUE
    BY <2>2 DEF ParsedPipeLine
  <2>4. /\ Placed(sentence, 1, Len(sentence), p.cmds)
        /\ Len(p.cmds) = 1 + Cardinality(Bars(sentence, 1, Len(sentence)))
        /\ \A i \in 1 .. Len(sentence) : sentence[i] \notin {"|", "&"} => InList(i, p.cmds)
        /\ At(sentence, p.next, "&") <=> sentence[Len(sentence)] = "&"
    BY <2>1, <2>2, NothingLost
  <2>5. list.daemon <=> Last(sentence) = "&"
    BY <2>2, <2>3, <2>4 DEF Last
  <2>6. /\ Placed(sentence, 1, Len(sentence), list.cmds)
        /\ Len(list.cmds) = 1 + Cardinality(Bars(sentence, 1, Len(sentence)))
        /\ \A i \in 1 .. Len(sentence) : sentence[i] \notin {"|", "&"} => InList(i, list.cmds)
    BY <2>2, <2>4
  <2>7. ASSUME NEW k \in 1 .. Len(list.cmds)
        PROVE  /\ list.cmds[k] # << >> /\ InOrder(list.cmds[k])
               /\ \A l \in 1 .. Len(list.cmds[k]) :
                    LET e == list.cmds[k][l] IN
                    /\ Fits(sentence, 1, Len(sentence), e)
                    /\ Cardinality(Bars(sentence, 1, e.word)) = k - 1
    BY <2>6 DEF Placed
  <2>8. \A i \in 1 .. Len(sentence) : sentence[i] \notin {"|", "&"} =>
          \E k \in 1 .. Len(list.cmds) : \E l \in 1 .. Len(list.cmds[k]) :
            i \in Covers(list.cmds[k][l])
    BY <2>6 DEF InList
  <2> QED BY <2>5, <2>6, <2>7, <2>8 DEF Faithful
<1> QED BY ParserInvariance, <1>1, PTL

\* freeSimpleList() frees every node of the line, whether it was accepted or
\* not (the comment at parser.c:184).
THEOREM ParserFrees == ParseSpec => []FullyFreed
<1>1. ParserInv => FullyFreed
  BY DEF ParserInv, FullyFreed
<1> QED BY ParserInvariance, <1>1, PTL
=============================================================================
