------------------------------ MODULE MCIwish -------------------------------
(***************************************************************************)
(* The parts of the shell process for TLC: its main loop, its parser and   *)
(* its byte array, one of them at a time.  In the model they share no      *)
(* state, so that nothing is lost by leaving the others at their start:    *)
(* Shell has what the parser says of a line as the line's kind, and every  *)
(* failing allocation of an array as a failing call.                       *)
(***************************************************************************)
EXTENDS Shell, Parser, DynamicByteArray

VARIABLE part    \* which of them runs

iwishVars == <<part, vars, parseVars, dbaVars>>

IwishInit ==
  /\ part \in {"main", "parser", "array"}
  /\ Init /\ ParseInit /\ DBAInit
  /\ part # "parser" => sentence = << >>

\* parseInput() is through and its list freed, or there is no array.
AtRest ==
  /\ \/ part = "parser" /\ interpreting \in {"handler freed", "shell freed"}
     \/ part = "array" /\ dynArr = "null"
  /\ UNCHANGED iwishVars

IwishNext ==
  \/ part = "main" /\ Next /\ UNCHANGED <<part, parseVars, dbaVars>>
  \/ part = "parser" /\ ParseNext /\ UNCHANGED <<part, vars, dbaVars>>
  \/ part = "array" /\ DBANext /\ UNCHANGED <<part, vars, parseVars>>
  \/ AtRest

IwishSpec == IwishInit /\ [][IwishNext]_iwishVars /\ WF_vars(Main)
=============================================================================
