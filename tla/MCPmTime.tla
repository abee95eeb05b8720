------------------------------ MODULE MCPmTime ------------------------------
(***************************************************************************)
(* An instance of PmTime for TLC: a short table of leap seconds, two of    *)
(* them close together, and a time_t that overflows soon after them.       *)
(***************************************************************************)
EXTENDS PmTime

Table == <<0, 1, 4>>
SomeTimes == {-18, -1, 0, 3, 15}
=============================================================================
