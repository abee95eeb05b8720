----------------------------- MODULE Duplicates -----------------------------
(***************************************************************************)
(* Lab1/duplicates.c with Lab1/DynamicArray.c, and the older version       *)
(* Lab1/duplicates_backup.c: walk a tree of directories, collect the names *)
(* of the regular files in it, and compare each with each.  The older      *)
(* version counts the files first and then walks a second time; their      *)
(* compareFiles() are the same.                                            *)
(*                                                                         *)
(* A directory is open while it is read, also while the walk is below it,  *)
(* and two files are open while they are compared; the process has a       *)
(* limited number of descriptors.  Other processes may create, remove and  *)
(* write files meanwhile.                                                  *)
(***************************************************************************)
EXTENDS Integers, Sequences, FiniteSets

CONSTANTS
  Files, Dirs,      \* the regular files and the directories of the tree
  Entries,          \* Entries[d]: what may be in directory d, without . and ..
  Root,             \* the working directory
  Absent,           \* sets of files, one of which is not there at first
  Bytes, Contents,  \* what may be in a file: sequences of bytes
  Limits,           \* how many descriptors a process may have (RLIMIT_NOFILE)
  DYNARR_INITSIZE, sizeof_ptr,
  MaxTouched        \* bound: how many files other processes change

ASSUME DuplicatesAssumption ==
  /\ Root \in Dirs /\ \A d \in Dirs : Root \notin Entries[d]
  /\ Files \intersect Dirs = {} /\ IsFiniteSet(Files)
  /\ Entries \in [Dirs -> SUBSET (Files \union Dirs)]
  /\ \A e \in (Files \union Dirs) \ {Root} :
       \E d \in Dirs : e \in Entries[d] /\ \A c \in Dirs : e \in Entries[c] => c = d
  /\ \A D \in SUBSET Dirs :
       Root \in D /\ (\A d \in D : Entries[d] \intersect Dirs \subseteq D) => D = Dirs
  /\ Absent \subseteq SUBSET Files
  /\ Contents \subseteq Seq(Bytes) /\ << >> \in Contents /\ Bytes # {}
  /\ Limits \subseteq Nat \ {0}
  /\ DYNARR_INITSIZE \in Nat \ {0} /\ sizeof_ptr \in Nat \ {0}
  /\ MaxTouched \in Nat

VARIABLES
  version,   \* which program this is: "duplicates" or "backup"
  pc,        \* "count", "alloc", "walk", "stat", "open", "read" or how it ended
  limit,     \* how many descriptors this process may have
  present, content,   \* the files that exist, and what is in them
  touched,   \* history: the files that another process has changed
  created,   \* history: those of them that were not there before
  reading,   \* the open directories, deepest first, each with what is still to come
  elems,     \* the names stored
  cells,     \* room for names; "count": the files counted so far
  i, j,      \* the pair at hand, counted from 1
  size,      \* st_size of both files of the pair
  pos, last, \* bytes compared so far, and the last one read
  open,      \* descriptors in use, besides the three standard ones
  printed    \* history: the pairs of names printed, in order

files == <<present, content, touched, created>>
array == <<elems, cells>>
pair == <<i, j, size, pos, last>>
vars == <<version, pc, limit, files, reading, array, pair, open, printed>>

Ended == {"done", "failed", "crashed"}
\* The values of variables that are not in use.
NoLocals(n, p, b) == n = 0 /\ p = 0 /\ b = CHOOSE c \in Bytes : TRUE

Listing(d) == Entries[d] \intersect (Dirs \union present)

Init ==
  /\ version \in {"duplicates", "backup"}
  /\ pc = IF version = "backup" THEN "count" ELSE "walk"
  /\ limit \in Limits
  /\ \E absent \in Absent : present = Files \ absent
  /\ content \in [Files -> Contents] /\ \A f \in Files \ present : content[f] = << >>
  /\ touched = {} /\ created = {}
  /\ reading = << Listing(Root) >>
  /\ open = 1
  /\ elems = << >>
  /\ cells = IF version = "backup" THEN 0 ELSE DYNARR_INITSIZE
  /\ i = 1 /\ j = 2 /\ NoLocals(size, pos, last)
  /\ printed = << >>
-----------------------------------------------------------------------------
(* The walk: getFileNamesInDirRec(), and countNrOfFilesInDir(). *)

Exit(how) ==
  /\ pc' = how
  /\ UNCHANGED <<version, limit, files, reading, array, pair, open, printed>>

\* The next regular file that readdir() finds.
Found(f) == f \in Head(reading) \intersect Files

countFile(f) ==
  /\ pc = "count"
  /\ Found(f) /\ f \in present
  /\ cells' = cells + 1
  /\ reading' = [reading EXCEPT ![1] = @ \ {f}]
  /\ UNCHANGED <<version, pc, limit, files, elems, pair, open, printed>>

\* realloc() is given the new capacity, which is in elements, as its bytes.
DYNARR_resizeArr(capacity) == (2 * capacity) \div sizeof_ptr

\* The room there is when the next name is stored.  The older version has
\* NULL behind its last cell.
Room == IF version = "duplicates" /\ Len(elems) = cells THEN DYNARR_resizeArr(cells) ELSE cells

DYNARR_addElem(f) ==
  /\ pc = "walk"
  /\ Found(f) /\ f \in present
  /\ Len(elems) < Room
  /\ elems' = Append(elems, f)
  /\ cells' = Room
  /\ reading' = [reading EXCEPT ![1] = @ \ {f}]
  /\ UNCHANGED <<version, pc, limit, files, pair, open, printed>>

\* The name is written behind the block, or through the NULL pointer; what
\* happens then is not defined.
addElemOutside(f) ==
  /\ pc = "walk"
  /\ Found(f) /\ f \in present
  /\ Len(elems) >= Room
  /\ Exit("crashed")

\* The file was removed after readdir() had found it: stat() fails.
statGone(f) ==
  /\ pc \in {"count", "walk"}
  /\ Found(f) /\ f \notin present
  /\ Exit("failed")

Descend(rest, used) ==
  /\ pc \in {"count", "walk"}
  /\ open < limit
  /\ \E d \in Head(reading) \intersect Dirs :
       reading' = << Listing(d) >> \o (IF rest THEN [reading EXCEPT ![1] = @ \ {d}] ELSE Tail(reading))
  /\ open' = open + used
  /\ UNCHANGED <<version, pc, limit, files, array, pair, printed>>

\* Mutant: the rest of a directory is forgotten when there is one below it.
recurseReplaces == Descend(FALSE, 0)

\* A directory is searched before the rest of this one.
recurse == Descend(TRUE, 1)

\* opendir() failed.
recurseFails ==
  /\ pc \in {"count", "walk"}
  /\ open = limit
  /\ Head(reading) \intersect Dirs # {}
  /\ Exit("failed")

\* How many names printDuplicateFilePairs() goes through.
Length == IF version = "backup" THEN cells ELSE Len(elems)

\* The outer loop ends with the first row that is empty: those after it are, too.
Row(b) == IF b <= Length THEN "stat" ELSE "done"

closedir ==
  /\ pc \in {"count", "walk"}
  /\ Head(reading) = {}
  /\ reading' = Tail(reading)
  /\ open' = open - 1
  /\ pc' = IF Len(reading) > 1 THEN pc
           ELSE IF pc = "walk" THEN Row(j)
           ELSE IF cells < 2 THEN "done" ELSE "alloc"
  /\ UNCHANGED <<version, limit, files, array, pair, printed>>

Alloc(n) ==
  /\ pc = "alloc"
  /\ cells' = n
  /\ reading' = << Listing(Root) >>
  /\ open' = open + 1
  /\ pc' = "walk"
  /\ UNCHANGED <<version, limit, files, elems, pair, printed>>

\* Mutant: room for one name too few.
allocFileNamesShort == Alloc(cells - 1)

\* Memory for as many names as were counted, and the second walk begins.
allocFileNames == Alloc(cells)

allocFileNamesFails == pc = "alloc" /\ Exit("failed")
-----------------------------------------------------------------------------
(* printDuplicateFilePairs() and compareFiles(). *)

\* Mutant: j is not set back for the next i, as in the older version.
AdvanceNoReset ==
  /\ i' = i /\ j' = j + 1
  /\ pc' = Row(j + 1)
  /\ NoLocals(size', pos', last')

\* The two loops go on with the next pair.  The older version never sets j
\* back, so that its rows are empty after the first one.
Advance ==
  /\ IF j < Length \/ version = "backup" THEN i' = i /\ j' = j + 1 ELSE i' = i + 1 /\ j' = i + 2
  /\ pc' = Row(j')
  /\ NoLocals(size', pos', last')

\* stat() or open() does not find the file, or the older version has counted
\* more files than it has found and the name is not one.
Missing(k) == ~(k <= Len(elems) /\ elems[k] \in present)

\* Files of different sizes are different.
statDiffers ==
  /\ pc = "stat"
  /\ ~Missing(i) /\ ~Missing(j)
  /\ Len(content[elems[i]]) # Len(content[elems[j]])
  /\ Advance
  /\ UNCHANGED <<version, limit, files, reading, array, open, printed>>

statAgrees ==
  /\ pc = "stat"
  /\ ~Missing(i) /\ ~Missing(j)
  /\ Len(content[elems[i]]) = Len(content[elems[j]])
  /\ size' = Len(content[elems[i]])
  /\ pc' = "open"
  /\ UNCHANGED <<version, limit, files, reading, array, i, j, pos, last, open, printed>>

openBoth ==
  /\ pc = "open"
  /\ ~Missing(i) /\ ~Missing(j)
  /\ open + 2 <= limit
  /\ open' = open + 2
  /\ pos' = 0
  /\ pc' = "read"
  /\ UNCHANGED <<version, limit, files, reading, array, i, j, size, last, printed>>

\* stat() fails, or one of the two open() calls: exit().
compareFails ==
  /\ \/ pc \in {"stat", "open"} /\ (Missing(i) \/ Missing(j))
     \/ pc = "open" /\ open + 2 > limit
  /\ Exit("failed")

\* What may be in byte1 or byte2 after read(): at the end of the file it is
\* what was there before, at first an uninitialised char.
Byte(f) == IF pos < Len(content[f]) THEN {content[f][pos + 1]}
           ELSE IF pos = 0 THEN Bytes ELSE {last}

ReadBoth(step) ==
  /\ pc = "read"
  /\ pos < size
  /\ last' \in Byte(elems[i]) \intersect Byte(elems[j])
  /\ pos' = pos + step
  /\ UNCHANGED <<version, pc, limit, files, reading, array, i, j, size, open, printed>>

\* Mutant: the loop does not count.
readAgreesStuck == ReadBoth(0)

readAgrees == ReadBoth(1)

\* "if(byte1 != byte2) return false": both descriptors stay open.
readDiffers ==
  /\ pc = "read"
  /\ pos < size
  /\ \E b \in Byte(elems[i]), c \in Byte(elems[j]) : b # c
  /\ Advance
  /\ UNCHANGED <<version, limit, files, reading, array, open, printed>>

Equal(compared, closed) ==
  /\ pc = "read"
  /\ compared
  /\ open' = open - closed
  /\ printed' = Append(printed, <<elems[i], elems[j]>>)
  /\ Advance
  /\ UNCHANGED <<version, limit, files, reading, array>>

\* Mutant: files of the same size are taken to be the same.
sameFileBySize == Equal(TRUE, 2)

\* Mutant: only one of the two files is closed.
sameFileKeepsOne == Equal(pos = size, 1)

\* All bytes agree: close both, and print the pair.
sameFile == Equal(pos = size, 2)
-----------------------------------------------------------------------------
(* Other processes.  A directory that is being read does not show what is  *)
(* created in it; a file that is open stays readable when it is removed.   *)

Touch(f) ==
  /\ f \notin touched
  /\ Cardinality(touched) < MaxTouched
  /\ pc \notin Ended
  /\ touched' = touched \union {f}
  /\ UNCHANGED <<version, pc, limit, reading, array, pair, open, printed>>

remove(f) ==
  /\ f \in present
  /\ present' = present \ {f}
  /\ UNCHANGED <<content, created>>
  /\ Touch(f)

\* The file is created or overwritten.
write(f, c) ==
  /\ present' = present \union {f}
  /\ content' = [content EXCEPT ![f] = c]
  /\ created' = created \union ({f} \ present)
  /\ Touch(f)
-----------------------------------------------------------------------------
getFileNamesInDir ==
  \/ \E f \in Files : countFile(f) \/ DYNARR_addElem(f) \/ addElemOutside(f) \/ statGone(f)
  \/ recurse \/ recurseFails \/ closedir
compareFiles == \/ statDiffers \/ statAgrees \/ openBoth \/ compareFails
                \/ readAgrees \/ readDiffers \/ sameFile

main == getFileNamesInDir \/ allocFileNames \/ allocFileNamesFails \/ compareFiles

Next == main \/ \E f \in Files : remove(f) \/ \E c \in Contents : write(f, c)

Spec == Init /\ [][Next]_vars
FairSpec == Spec /\ WF_vars(main)
-----------------------------------------------------------------------------
TypeOK ==
  /\ version \in {"duplicates", "backup"}
  /\ pc \in {"count", "alloc", "walk", "stat", "open", "read"} \union Ended
  /\ limit \in Limits
  /\ present \subseteq Files /\ touched \subseteq Files /\ created \subseteq touched
  /\ content \in [Files -> Contents]
  /\ reading \in Seq(SUBSET (Files \union Dirs))
  /\ elems \in Seq(Files) /\ cells \in Nat
  /\ i \in Nat /\ j \in Nat /\ size \in Nat /\ pos \in Nat /\ last \in Bytes
  /\ open \in 0 .. limit
  /\ printed \in Seq(Files \X Files)

Names == {elems[k] : k \in 1 .. Len(elems)}

\* "returns an array of strings filled with all regular file names in the
\* specified directory name" (duplicates.c:77): when the walk is over, the
\* array has no name twice and every file that was there all the time, also if
\* its content has changed.
WalkComplete ==
  pc \in {"stat", "open", "read"} \/ (pc = "done" /\ version = "duplicates") =>
    /\ present \ created \subseteq Names
    /\ Len(elems) = Cardinality(Names)

\* There is one way for each version to write outside its array.  The newer one
\* does it only when it has to grow the array, whatever happens to the files
\* (duplicates.c:66); the older one (duplicates_backup.c:95) only when another
\* process creates a file: its two walks go over the same tree otherwise,
\* although files may be removed and overwritten.
InsideArray == pc = "crashed" =>
  \/ version = "duplicates" /\ Len(elems) >= DYNARR_INITSIZE
  \/ version = "backup" /\ created # {}

\* "returns an array of strings filled with all regular file names in the
\* specified directory name" (duplicates.c:77): whatever their number, the names
\* of files that nobody touches fit into the array that is there for them.
AllNamesStored == version = "duplicates" /\ touched = {} => pc # "crashed"

\* The pairs to be found.
SameContent == {p \in SUBSET (present \ touched) :
                  Cardinality(p) = 2 /\ \A f, g \in p : content[f] = content[g]}

Printed == {{p[1], p[2]} : p \in {printed[k] : k \in 1 .. Len(printed)}}

\* A pair that is printed is a pair of different files, which have the same
\* content unless another process has changed one of them, and it is printed
\* once ("unique", duplicates.c:146).
OnlyDuplicates ==
  /\ \A p \in Printed : Cardinality(p) = 2 /\ (p \intersect touched = {} => p \in SameContent)
  /\ Len(printed) = Cardinality(Printed)

\* The pairs that the loops come to: the older version stops after the first
\* row.
Compared(p) == version = "duplicates" \/ (elems # << >> /\ elems[1] \in p)

\* When main() returns, all of them have been printed; by the older version
\* all those with the first file.
AllDuplicates == pc = "done" => \A p \in SameContent : Compared(p) => p \in Printed

\* The only descriptors still open at the end are two for each pair that was
\* compared byte by byte and differs (duplicates.c:138); no other way through
\* the program loses one.
LosesOnlyDifferent ==
  pc = "done" /\ touched = {} /\ Length > 1 =>
    open = 2 * Cardinality({p \in SUBSET Names :
                 /\ Cardinality(p) = 2 /\ Compared(p)
                 /\ \A f, g \in p : Len(content[f]) = Len(content[g])
                 /\ \E f, g \in p : content[f] # content[g]})

(***************************************************************************)
(* What makes these inductive.  The walk has been in the directories V and *)
(* has met the files of seen: what is pending are the other entries of V.  *)
(***************************************************************************)
Under(V) == UNION {Entries[d] : d \in V}
Pending(r) == UNION {r[k] : k \in 1 .. Len(r)}
Apart(r) == \A k, l \in 1 .. Len(r) : k # l => r[k] \intersect r[l] = {}

WalkedTo(V, seen, r) ==
  /\ Root \in V
  /\ V \ {Root} \subseteq Under(V)
  /\ Pending(r) \union seen \subseteq Under(V)
  /\ (Under(V) \intersect Dirs) \ V \subseteq Pending(r)
  /\ Pending(r) \intersect (V \union seen) = {}
  /\ (present \ created) \intersect Under(V) \subseteq Pending(r) \union seen
  /\ Apart(r)

WalkInv == pc \in {"count", "walk"} =>
  /\ reading # << >>
  /\ \E V \in SUBSET Dirs, seen \in SUBSET Files :
       /\ WalkedTo(V, seen, reading)
       /\ pc = "count" => cells = Cardinality(seen)
       /\ pc = "walk" => seen = Names

\* The room of the older version: the files that the first walk has counted are
\* at least those that there were before others created some.
Counted == \E counted \in SUBSET Files :
  cells = Cardinality(counted) /\ Names \union present \subseteq counted \union created

ArrayInv ==
  /\ Len(elems) = Cardinality(Names)
  /\ \A a, b \in 1 .. Len(elems) : elems[a] = elems[b] => a = b
  /\ touched = {} => Names \subseteq present
  /\ pc \in {"count", "alloc"} => version = "backup" /\ elems = << >>
  /\ version = "backup" /\ pc \notin {"count", "failed"} =>
       /\ Len(elems) <= cells
       /\ Counted
  /\ version = "duplicates" /\ Len(elems) <= DYNARR_INITSIZE => cells = DYNARR_INITSIZE
  /\ \/ pc \in {"stat", "open", "read"}
     \/ pc = "done" /\ (version = "duplicates" \/ elems # << >>)
     => present \ created \subseteq Names

\* The pairs of positions that have been compared.
Before(a, b) == a < b /\ (a < i \/ (a = i /\ b < j))

PairInv ==
  /\ 1 <= i /\ i < j
  /\ version = "backup" => i = 1
  /\ pc \in {"count", "alloc", "walk"} => i = 1 /\ j = 2 /\ printed = << >>
  /\ pc \in {"stat", "open", "read"} => j <= Length
  /\ pc = "done" => Length < j /\ (version = "duplicates" => j = i + 1)
  /\ pc \in {"open", "read"} =>
       /\ j <= Len(elems)
       /\ \A k \in {i, j} : elems[k] \notin touched =>
            elems[k] \in present /\ Len(content[elems[k]]) = size
  /\ pc = "read" =>
       /\ pos <= size
       /\ elems[i] \notin touched /\ elems[j] \notin touched =>
            \A k \in 1 .. pos : content[elems[i]][k] = content[elems[j]][k]

PrintedInv ==
  /\ \A k \in 1 .. Len(printed) : \E a, b \in 1 .. Len(elems) :
       /\ Before(a, b) /\ printed[k] = <<elems[a], elems[b]>>
       /\ elems[a] \notin touched /\ elems[b] \notin touched =>
            {elems[a], elems[b]} \subseteq present /\ content[elems[a]] = content[elems[b]]
  /\ IsFiniteSet(Printed) /\ Len(printed) = Cardinality(Printed)
  /\ \A a, b \in 1 .. Len(elems) :
       /\ Before(a, b) /\ {elems[a], elems[b]} \subseteq present \ touched
       /\ content[elems[a]] = content[elems[b]]
       => {elems[a], elems[b]} \in Printed

\* The pairs whose descriptors compareFiles() has left open.
Lost == {p \in SUBSET Names : \E a, b \in 1 .. Len(elems) :
           /\ Before(a, b) /\ p = {elems[a], elems[b]}
           /\ Len(content[elems[a]]) = Len(content[elems[b]])
           /\ content[elems[a]] # content[elems[b]]}

OpenInv ==
  /\ pc \in {"count", "walk"} => open = Len(reading)
  /\ pc = "alloc" => open = 0
  /\ pc = "read" => open >= 2
  /\ pc \in {"stat", "open", "read", "done"} /\ touched = {} =>
       open = 2 * Cardinality(Lost) + IF pc = "read" THEN 2 ELSE 0

DuplicatesInv == TypeOK /\ WalkInv /\ ArrayInv /\ PairInv /\ PrintedInv /\ OpenInv /\ InsideArray

\* The program comes to an end, whatever happens to the files.
Ends == <>(pc \in Ended)
=============================================================================
