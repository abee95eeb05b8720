---------------------------- MODULE MCDuplicates ----------------------------
(***************************************************************************)
(* Instances of Duplicates for TLC.  In the first there are four files,    *)
(* two of them in the working directory, one in a directory below it and   *)
(* one below that.  In the second there is one file more than the array of *)
(* the source has room for.                                                *)
(***************************************************************************)
EXTENDS Duplicates

Tree == [d \in {"cwd", "a", "b"} |->
  CASE d = "cwd" -> {"f1", "f2", "a"}
    [] d = "a" -> {"f3", "b"}
    [] d = "b" -> {"f4"}]

\* The last file, or all but one, may be missing at first.
SomeAbsent == {{"f4"}, {"f1", "f2", "f3"}}

\* No byte, one byte, two bytes.
SomeContents == {<< >>, <<0>>, <<1>>, <<0, 1>>}

\* Seventeen directories, each below the one before it and with a file of its
\* own: file k is in directory -k.
Seventeen == 1 .. 17
Nested == {-k : k \in Seventeen}
OneEach == [d \in Nested |-> {-d} \union ({d - 1} \intersect Nested)]
TopDir == -1
NoneAbsent == {{}}
NoContent == {<< >>}
=============================================================================
