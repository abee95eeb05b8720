-------------------------------- MODULE Job ---------------------------------
(***************************************************************************)
(* A job as the shell sees it.  A job runs while its handler is there.     *)
(* When the handler is gone, commands of the job may be left ("dying"),    *)
(* but not for long; and a job does not survive its shell.                 *)
(***************************************************************************)
VARIABLES shell, job

Init == shell = "alive" /\ job = "running"

\* The handler ends: after its commands, or before some of them.
HandlerEnds ==
  /\ job = "running"
  /\ job' \in {"dying", "gone"}
  /\ UNCHANGED shell

CommandsDie ==
  /\ job = "dying"
  /\ job' = "gone"
  /\ UNCHANGED shell

ShellEnds ==
  /\ shell = "alive"
  /\ shell' = "dead"
  /\ UNCHANGED job

Next == HandlerEnds \/ CommandsDie \/ ShellEnds

Spec ==
  /\ Init
  /\ [][Next]_<<shell, job>>
  /\ WF_<<shell, job>>(CommandsDie)
  /\ WF_<<shell, job>>(shell = "dead" /\ HandlerEnds)
=============================================================================
