------------------------------ MODULE PingPong ------------------------------
(***************************************************************************)
(* Lab2/pingpong.c: two processes that send a counter to and fro through   *)
(* two pipes, and the parent that waits for both.  No end of a pipe is     *)
(* closed by anybody before it exits, and every process that is there      *)
(* holds all four, so a read() from an empty pipe waits and never meets an *)
(* end of file.                                                            *)
(***************************************************************************)
EXTENDS Integers, Sequences

CONSTANTS
  Rounds,   \* 5 in the source
  MayFail   \* whether fork() may fail

ASSUME PingPongAssumption == Rounds \in Nat \ {0} /\ MayFail \in BOOLEAN

Children == {"ping", "pong"}
Procs == {"main"} \union Children

VARIABLES
  pc,        \* where each process is
  msg,       \* the local variable of each child
  chanPing,  \* the ints in the pipe from ping to pong
  chanPong,  \* the ints in the pipe from pong to ping
  out,       \* how often each child has called printf()
  reaped     \* the children that a waitpid() has returned

vars == <<pc, msg, chanPing, chanPong, out, reaped>>

\* Mutant: ping starts to count at one.
InitOne ==
  /\ pc = [p \in Procs |-> IF p = "main" THEN "forkPing" ELSE "unborn"]
  /\ msg = [p \in Children |-> 1]
  /\ chanPing = << >>
  /\ chanPong = << >>
  /\ out = [p \in Children |-> 0]
  /\ reaped = {}

Init ==
  /\ pc = [p \in Procs |-> IF p = "main" THEN "forkPing" ELSE "unborn"]
  /\ msg = [p \in Children |-> 0]
  /\ chanPing = << >>
  /\ chanPong = << >>
  /\ out = [p \in Children |-> 0]
  /\ reaped = {}

Goto(p, l) == pc' = [pc EXCEPT ![p] = l]

\* main(): the two fork() calls.
forkPing ==
  /\ pc["main"] = "forkPing"
  /\ pc' = [pc EXCEPT !["main"] = "forkPong", !["ping"] = "print"]
  /\ UNCHANGED <<msg, chanPing, chanPong, out, reaped>>

forkPong ==
  /\ pc["main"] = "forkPong"
  /\ pc' = [pc EXCEPT !["main"] = "wait1", !["pong"] = "read"]
  /\ UNCHANGED <<msg, chanPing, chanPong, out, reaped>>

\* fork() returned -1, which is not 0: main() goes on without the child.
forkFails ==
  /\ MayFail
  /\ \/ pc["main"] = "forkPing" /\ Goto("main", "forkPong")
     \/ pc["main"] = "forkPong" /\ Goto("main", "wait1")
  /\ UNCHANGED <<msg, chanPing, chanPong, out, reaped>>

\* waitpid(-1): a child that has exited, or -1 at once when there is none.
waitpid ==
  /\ pc["main"] \in {"wait1", "wait2"}
  /\ \/ \E c \in Children \ reaped : pc[c] = "exited" /\ reaped' = reaped \union {c}
     \/ (\A c \in Children \ reaped : pc[c] = "unborn") /\ UNCHANGED reaped
  /\ Goto("main", IF pc["main"] = "wait1" THEN "wait2" ELSE "done")
  /\ UNCHANGED <<msg, chanPing, chanPong, out>>

\* procPing()
pingPrint ==
  /\ pc["ping"] = "print"
  /\ out' = [out EXCEPT !["ping"] = @ + 1]
  /\ Goto("ping", "write")
  /\ UNCHANGED <<msg, chanPing, chanPong, reaped>>

pingWrite ==
  /\ pc["ping"] = "write"
  /\ chanPing' = Append(chanPing, msg["ping"])
  /\ Goto("ping", "read")
  /\ UNCHANGED <<msg, chanPong, out, reaped>>

\* Mutant: the counter is compared before the answer is read.
pingReadStale ==
  /\ pc["ping"] = "read"
  /\ chanPong # << >>
  /\ msg' = [msg EXCEPT !["ping"] = Head(chanPong)]
  /\ chanPong' = Tail(chanPong)
  /\ Goto("ping", IF msg["ping"] < Rounds THEN "print" ELSE "exited")
  /\ UNCHANGED <<chanPing, out, reaped>>

\* Mutant: ping does not wait for the answer.
pingReadNot ==
  /\ pc["ping"] = "read"
  /\ IF chanPong # << >>
     THEN /\ msg' = [msg EXCEPT !["ping"] = Head(chanPong)]
          /\ chanPong' = Tail(chanPong)
     ELSE UNCHANGED <<msg, chanPong>>
  /\ out["ping"] < 2 * Rounds
  /\ Goto("ping", IF msg'["ping"] < Rounds THEN "print" ELSE "exited")
  /\ UNCHANGED <<chanPing, out, reaped>>

pingRead ==
  /\ pc["ping"] = "read"
  /\ chanPong # << >>
  /\ msg' = [msg EXCEPT !["ping"] = Head(chanPong)]
  /\ chanPong' = Tail(chanPong)
  /\ Goto("ping", IF Head(chanPong) < Rounds THEN "print" ELSE "exited")
  /\ UNCHANGED <<chanPing, out, reaped>>

\* procPong()
pongRead ==
  /\ pc["pong"] = "read"
  /\ chanPing # << >>
  /\ msg' = [msg EXCEPT !["pong"] = Head(chanPing)]
  /\ chanPing' = Tail(chanPing)
  /\ Goto("pong", "print")
  /\ UNCHANGED <<chanPong, out, reaped>>

pongPrint ==
  /\ pc["pong"] = "print"
  /\ out' = [out EXCEPT !["pong"] = @ + 1]
  /\ msg' = [msg EXCEPT !["pong"] = @ + 1]
  /\ Goto("pong", "write")
  /\ UNCHANGED <<chanPing, chanPong, reaped>>

pongWrite ==
  /\ pc["pong"] = "write"
  /\ chanPong' = Append(chanPong, msg["pong"])
  /\ Goto("pong", IF msg["pong"] < Rounds THEN "read" ELSE "exited")
  /\ UNCHANGED <<msg, chanPing, out, reaped>>

Main == forkPing \/ forkPong \/ forkFails \/ waitpid
Ping == pingPrint \/ pingWrite \/ pingRead
Pong == pongRead \/ pongPrint \/ pongWrite

Next == Main \/ Ping \/ Pong

Spec == Init /\ [][Next]_vars
FairSpec == Spec /\ WF_vars(Main) /\ WF_vars(Ping) /\ WF_vars(Pong)
-----------------------------------------------------------------------------
TypeOK ==
  /\ pc \in [Procs -> {"forkPing", "forkPong", "wait1", "wait2", "done",
                       "unborn", "print", "write", "read", "exited"}]
  /\ msg \in [Children -> Nat]
  /\ chanPing \in Seq(Nat) /\ chanPong \in Seq(Nat)
  /\ out \in [Children -> Nat]
  /\ reaped \subseteq Children

\* Ping and Pong appear in turns, Ping first, however the two processes are
\* scheduled (printf() calls of pingpong.c:9 and 20).
Alternates == out["ping"] - out["pong"] \in {0, 1}

\* When both loops have ended both have played every round, and nobody leaves
\* an int behind in a pipe (the loop conditions of lines 8 and 23 agree).
Settled ==
  (\A c \in Children : pc[c] = "exited") =>
    /\ out["ping"] = Rounds /\ out["pong"] = Rounds
    /\ chanPing = << >> /\ chanPong = << >>

\* The counter: where it is and how often it was printed, the strengthening
\* under which the two above are inductive.  At most one int is under way.
Counter ==
  LET n == out["pong"] IN
  /\ pc["pong"] = "unborn" => n = 0 /\ chanPong = << >>
  /\ pc["ping"] = "unborn" => out["ping"] = 0 /\ chanPing = << >>
  /\ n > 0 => pc["ping"] # "unborn"
  /\ \/ /\ pc["ping"] \in {"unborn", "print"} /\ pc["pong"] \in {"unborn", "read"}
        /\ out["ping"] = n /\ msg["ping"] = n /\ n < Rounds
        /\ chanPing = << >> /\ chanPong = << >>
     \/ /\ pc["ping"] = "write" /\ pc["pong"] \in {"unborn", "read"}
        /\ out["ping"] = n + 1 /\ msg["ping"] = n /\ n < Rounds
        /\ chanPing = << >> /\ chanPong = << >>
     \/ /\ pc["ping"] = "read" /\ pc["pong"] \in {"unborn", "read"}
        /\ out["ping"] = n + 1 /\ n < Rounds
        /\ chanPing = <<n>> /\ chanPong = << >>
     \/ /\ pc["ping"] = "read" /\ pc["pong"] = "print"
        /\ out["ping"] = n + 1 /\ msg["pong"] = n /\ n < Rounds
        /\ chanPing = << >> /\ chanPong = << >>
     \/ /\ pc["ping"] = "read" /\ pc["pong"] = "write"
        /\ out["ping"] = n /\ msg["pong"] = n /\ n <= Rounds
        /\ chanPing = << >> /\ chanPong = << >>
     \/ /\ pc["ping"] = "read"
        /\ pc["pong"] = IF n < Rounds THEN "read" ELSE "exited"
        /\ out["ping"] = n /\ n <= Rounds
        /\ chanPing = << >> /\ chanPong = <<n>>
     \/ /\ pc["ping"] = "exited" /\ pc["pong"] = "exited"
        /\ out["ping"] = n /\ n = Rounds
        /\ chanPing = << >> /\ chanPong = << >>

\* main() returns only when no child is left that could still print (the two
\* waitpid() calls of lines 38 and 39), also when a fork() has failed.
ParentLast == pc["main"] = "done" => \A c \in Children : pc[c] \in {"unborn", "exited"}

\* With both children there, the program comes to its end.
Ends ==
  (\A c \in Children : pc[c] # "unborn") ~> pc["main"] = "done"
=============================================================================
