----------------------------- MODULE RingCount -----------------------------
(***************************************************************************)
(* What a ring promises to the reader of its standard output (the program  *)
(* description at the head of Lab1/ring.c): the numbers 0, 1, ...,         *)
(* STOPNUMBER appear in this order, each exactly once, and all of them     *)
(* appear; unless a system call fails, after which nothing is promised.    *)
(***************************************************************************)
EXTENDS Integers

CONSTANT STOPNUMBER

VARIABLES
  out,      \* the last number printed, -1 before the first one
  broken    \* has a system call failed?

Init == out = -1 /\ broken = FALSE

Increment ==
  /\ ~broken /\ UNCHANGED broken
  /\ out < STOPNUMBER
  /\ out' = out + 1

Break == ~broken /\ broken' = TRUE /\ UNCHANGED out

Anything == broken /\ UNCHANGED broken

Next == Increment \/ Break \/ Anything

vars == <<out, broken>>

Spec == Init /\ [][Next]_vars /\ WF_vars(Increment)
=============================================================================
