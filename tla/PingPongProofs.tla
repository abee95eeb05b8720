--------------------------- MODULE PingPongProofs ---------------------------
(***************************************************************************)
(* Proofs about PingPong for every number of rounds.                       *)
(***************************************************************************)
EXTENDS PingPong, TLAPS

\* The family: who is born when, and whom the parent has waited for.
Family ==
  /\ pc["main"] \in {"forkPing", "forkPong", "wait1", "wait2", "done"}
  /\ pc["main"] = "forkPing" => pc["ping"] = "unborn"
  /\ pc["main"] \in {"forkPing", "forkPong"} => pc["pong"] = "unborn"
  /\ \A c \in reaped : pc[c] = "exited"
  /\ pc["main"] = "wait2" => \/ reaped # {}
                             \/ \A c \in Children : pc[c] = "unborn"
  /\ pc["main"] = "done" => \A c \in Children : c \in reaped \/ pc[c] = "unborn"

Inv == TypeOK /\ Counter /\ Family

\* The program starts in a state that satisfies the invariant.
LEMMA Initially == Init => Inv
<1> SUFFICES ASSUME Init PROVE Inv
  OBVIOUS
<1>1. TypeOK
  BY DEF Init, TypeOK, Procs, Children
<1>2. Counter
  BY PingPongAssumption DEF Init, Counter, Procs, Children
<1>3. Family
  BY DEF Init, Family, Procs, Children
<1> QED BY <1>1, <1>2, <1>3 DEF Inv

\* The steps of main().
LEMMA MainStep == ASSUME Inv, Main PROVE Inv'
<1> USE DEF Inv
<1>1. CASE forkPing
  <2>1. TypeOK'
    BY <1>1 DEF forkPing, TypeOK, Procs, Children
  <2>2. Counter'
    BY <1>1 DEF forkPing, TypeOK, Procs, Children, Counter, Family
  <2>3. Family'
    BY <1>1 DEF forkPing, TypeOK, Procs, Children, Family
  <2> QED BY <2>1, <2>2, <2>3
<1>2. CASE forkPong
  <2>1. TypeOK'
    BY <1>2 DEF forkPong, TypeOK, Procs, Children
  <2>2. Counter'
    BY <1>2 DEF forkPong, TypeOK, Procs, Children, Counter, Family
  <2>3. Family'
    BY <1>2 DEF forkPong, TypeOK, Procs, Children, Family
  <2> QED BY <2>1, <2>2, <2>3
<1>3. CASE forkFails
  <2>1. TypeOK'
    BY <1>3 DEF forkFails, Goto, TypeOK, Procs, Children
  <2>2. Counter'
    BY <1>3 DEF forkFails, Goto, TypeOK, Procs, Children, Counter
  <2>3. Family'
    BY <1>3 DEF forkFails, Goto, TypeOK, Procs, Children, Family
  <2> QED BY <2>1, <2>2, <2>3
<1>4. CASE waitpid
  <2>1. TypeOK'
    BY <1>4 DEF waitpid, Goto, TypeOK, Procs, Children
  <2>2. Counter'
    BY <1>4 DEF waitpid, Goto, TypeOK, Procs, Children, Counter
  <2>3. /\ pc["main"] \in {"wait1", "wait2"}
        /\ pc'["main"] = IF pc["main"] = "wait1" THEN "wait2" ELSE "done"
        /\ \A c \in Children : pc'[c] = pc[c]
    BY <1>4 DEF waitpid, Goto, TypeOK, Procs, Children
  <2>4. ASSUME \E c \in Children \ reaped : pc[c] = "exited" /\ reaped' = reaped \union {c}
        PROVE  Family'
    <3>1. PICK c \in Children \ reaped : pc[c] = "exited" /\ reaped' = reaped \union {c}
      BY <2>4
    <3>2. \A d \in reaped' : pc'[d] = "exited"
      BY <2>3, <3>1 DEF Family, TypeOK
    <3>3. pc'["main"] = "done" => reaped' = Children
      <4>1. pc'["main"] = "done" => reaped # {}
        BY <2>3, <3>1 DEF Family
      <4> QED BY <3>1, <4>1 DEF TypeOK, Children
    <3>4. reaped' # {}
      BY <3>1
    <3> QED BY <2>3, <3>2, <3>3, <3>4 DEF Family
  <2>5. ASSUME (\A c \in Children \ reaped : pc[c] = "unborn") /\ reaped' = reaped
        PROVE  Family'
    <3>1. \A c \in Children : c \in reaped' \/ pc'[c] = "unborn"
      BY <2>3, <2>5
    <3>2. \A d \in reaped' : pc'[d] = "exited"
      BY <2>3, <2>5 DEF Family, TypeOK
    <3>3. reaped' = {} => \A c \in Children : pc'[c] = "unborn"
      BY <3>1
    <3> QED BY <2>3, <3>1, <3>2, <3>3 DEF Family
  <2>6. Family'
    BY <1>4, <2>4, <2>5 DEF waitpid
  <2> QED BY <2>1, <2>2, <2>6
<1> QED BY <1>1, <1>2, <1>3, <1>4 DEF Main

\* The steps of procPing().
LEMMA PingStep == ASSUME Inv, Ping PROVE Inv'
<1> USE DEF Inv
<1>1. CASE pingPrint
  <2>1. TypeOK'
    BY <1>1 DEF pingPrint, Goto, TypeOK, Procs, Children
  <2>2. Counter'
    BY <1>1 DEF pingPrint, Goto, TypeOK, Procs, Children, Counter
  <2>3. Family'
    BY <1>1 DEF pingPrint, Goto, TypeOK, Procs, Children, Family
  <2> QED BY <2>1, <2>2, <2>3
<1>2. CASE pingWrite
  <2>1. TypeOK'
    BY <1>2 DEF pingWrite, Goto, TypeOK, Procs, Children
  <2>2. Counter'
    BY <1>2 DEF pingWrite, Goto, TypeOK, Procs, Children, Counter
  <2>3. Family'
    BY <1>2 DEF pingWrite, Goto, TypeOK, Procs, Children, Family
  <2> QED BY <2>1, <2>2, <2>3
<1>3. CASE pingRead
  <2>1. TypeOK'
    BY <1>3 DEF pingRead, Goto, TypeOK, Procs, Children
  <2>2. Counter'
    <3> DEFINE n == out["pong"]
    <3>1. /\ pc["ping"] = "read" /\ pc["pong"] = IF n < Rounds THEN "read" ELSE "exited"
          /\ out["ping"] = n /\ n <= Rounds /\ n \in Nat
          /\ chanPing = << >> /\ chanPong = <<n>>
      BY <1>3 DEF pingRead, Counter, TypeOK, Children
    <3>2. Head(chanPong) = n /\ Tail(chanPong) = << >>
      BY <3>1
    <3>3. /\ msg'["ping"] = n /\ chanPong' = << >> /\ chanPing' = << >>
          /\ out' = out /\ pc'["pong"] = pc["pong"]
          /\ pc'["ping"] = IF n < Rounds THEN "print" ELSE "exited"
      BY <1>3, <3>1, <3>2 DEF pingRead, Goto, TypeOK, Procs, Children
    <3> QED BY <3>1, <3>3, PingPongAssumption DEF Counter
  <2>3. Family'
    BY <1>3 DEF pingRead, Goto, TypeOK, Procs, Children, Family
  <2> QED BY <2>1, <2>2, <2>3
<1> QED BY <1>1, <1>2, <1>3 DEF Ping

\* The steps of procPong().
LEMMA PongStep == ASSUME Inv, Pong PROVE Inv'
<1> USE DEF Inv
<1>1. CASE pongRead
  <2>1. TypeOK'
    BY <1>1 DEF pongRead, Goto, TypeOK, Procs, Children
  <2>2. Counter'
    <3> DEFINE n == out["pong"]
    <3>1. /\ pc["ping"] = "read" /\ pc["pong"] = "read"
          /\ out["ping"] = n + 1 /\ n < Rounds /\ n \in Nat
          /\ chanPing = <<n>> /\ chanPong = << >>
      BY <1>1 DEF pongRead, Counter, TypeOK, Children
    <3>2. Head(chanPing) = n /\ Tail(chanPing) = << >>
      BY <3>1
    <3>3. /\ msg'["pong"] = n /\ chanPong' = << >> /\ chanPing' = << >>
          /\ out' = out /\ pc'["ping"] = "read" /\ pc'["pong"] = "print"
      BY <1>1, <3>1, <3>2 DEF pongRead, Goto, TypeOK, Procs, Children
    <3> QED BY <3>1, <3>3, PingPongAssumption DEF Counter
  <2>3. Family'
    BY <1>1 DEF pongRead, Goto, TypeOK, Procs, Children, Family
  <2> QED BY <2>1, <2>2, <2>3
<1>2. CASE pongPrint
  <2>1. TypeOK'
    BY <1>2 DEF pongPrint, Goto, TypeOK, Procs, Children
  <2>2. Counter'
    BY <1>2, PingPongAssumption DEF pongPrint, Goto, TypeOK, Procs, Children, Counter
  <2>3. Family'
    BY <1>2 DEF pongPrint, Goto, TypeOK, Procs, Children, Family
  <2> QED BY <2>1, <2>2, <2>3
<1>3. CASE pongWrite
  <2>1. TypeOK'
    BY <1>3 DEF pongWrite, Goto, TypeOK, Procs, Children
  <2>2. Counter'
    BY <1>3, PingPongAssumption DEF pongWrite, Goto, TypeOK, Procs, Children, Counter
  <2>3. Family'
    BY <1>3 DEF pongWrite, Goto, TypeOK, Procs, Children, Family
  <2> QED BY <2>1, <2>2, <2>3
<1> QED BY <1>1, <1>2, <1>3 DEF Pong

\* The invariant holds in all reachable states.
THEOREM Invariance == Spec => []Inv
<1>1. Inv /\ [Next]_vars => Inv'
  <2> SUFFICES ASSUME Inv, [Next]_vars PROVE Inv'
    OBVIOUS
  <2>1. CASE UNCHANGED vars
    BY <2>1 DEF vars, Inv, TypeOK, Counter, Family
  <2> QED BY <2>1, MainStep, PingStep, PongStep DEF Next
<1> QED BY <1>1, Initially, PTL DEF Spec

\* For every number of rounds Ping and Pong are printed in turns, Ping first
\* (pingpong.c:9 and 20), whatever the scheduler does and if a fork() fails.
THEOREM InTurns == Spec => []Alternates
<1>1. Inv => Alternates
  <2> SUFFICES ASSUME Inv PROVE Alternates
    OBVIOUS
  <2>1. out["ping"] \in Nat /\ out["pong"] \in Nat
    BY DEF Inv, TypeOK, Children
  <2>2. out["ping"] = out["pong"] \/ out["ping"] = out["pong"] + 1
    BY DEF Inv, Counter
  <2> QED BY <2>1, <2>2 DEF Alternates
<1> QED BY <1>1, Invariance, PTL

\* The loops of pingpong.c:8 and 23 end after the same number of rounds and
\* leave both pipes empty.
THEOREM LoopsAgree == Spec => []Settled
<1>1. Inv => Settled
  BY DEF Inv, Counter, Settled, Children
<1> QED BY <1>1, Invariance, PTL

\* main() (pingpong.c:38-40) outlives its children.
THEOREM ParentOutlives == Spec => []ParentLast
<1>1. Inv => ParentLast
  BY DEF Inv, Family, ParentLast
<1> QED BY <1>1, Invariance, PTL
=============================================================================
