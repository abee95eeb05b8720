----------------------------- MODULE MCPipeline -----------------------------
(***************************************************************************)
(* Instances of Pipeline for TLC.                                          *)
(***************************************************************************)
EXTENDS Pipeline, SequencesExt

Cmd(in, out, exists, kind) == [in |-> in, out |-> out, exists |-> exists, kind |-> kind]

Plain == Cmd(FALSE, FALSE, TRUE, "filter")
Endless == Cmd(FALSE, FALSE, TRUE, "endless")
Missing == Cmd(FALSE, FALSE, FALSE, "filter")
FromFile == Cmd(TRUE, FALSE, TRUE, "filter")
ToFile == Cmd(FALSE, TRUE, TRUE, "filter")

\* Every pipeline of one to three commands.
ShortJobs == BoundedSeq({Plain, Missing, FromFile, ToFile}, 3) \ {<< >>}

\* The same for programs that exist, some of which never stop by themselves.
EndlessJobs == BoundedSeq({Plain, Endless, ToFile}, 3) \ {<< >>}

LongJobs == {<<Plain, Plain, Plain, Plain>>}
=============================================================================
