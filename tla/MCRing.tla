------------------------------- MODULE MCRing -------------------------------
(***************************************************************************)
(* An instance of Ring, with its output in a file, for TLC.                *)
(***************************************************************************)
EXTENDS RingOutput

\* What an uninitialised int may look like to the program: the stop signal,
\* STOPNUMBER, and something else.
GarbageValues == {-1, 5, 7}
=============================================================================
