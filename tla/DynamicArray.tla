---------------------------- MODULE DynamicArray ----------------------------
(***************************************************************************)
(* Lab2/depricated/DynamicArray.c: arrays of pointers that grow, their     *)
(* concatenation and their destruction, used by one thread with two        *)
(* arrays.  A block of elements has HeapLimit bytes at most, and any       *)
(* allocation may fail earlier.                                            *)
(***************************************************************************)
EXTENDS Integers, Sequences

CONSTANTS
  DYNARR_INITSIZE,   \* elements in the first block (16 in the source)
  sizeof_ptr,        \* bytes of a void*, which is also the elemSize of all callers
  HeapLimit,         \* bound: bytes in a block
  MaxElems,          \* bound: elements that the caller makes
  Junk               \* what a fresh cell of a block holds

ASSUME DynamicArrayAssumption ==
  /\ {DYNARR_INITSIZE, sizeof_ptr, HeapLimit, MaxElems} \subseteq Nat \ {0}
  /\ Junk \notin 1 .. MaxElems

Arrays == {"arr1", "arr2"}

VARIABLES
  arr,       \* the structs: elems (a block, cell by cell), bytes (that malloc()
             \* or realloc() gave for it), size, capacity, and whether there is
             \* an elemDestructorFunc
  life,      \* "none", "array", "null" (not made), "destroyed", or "kept":
             \* destroyed, but the caller has the block
  made,      \* how many elements the caller has made: 1 .. made are pointers
  pc,        \* "idle", or "concat" in the loop of DYNARR_concatArrs
  backup,    \* its locals: size and capacity of arr1 before
  i,         \*   and the index in arr2
  before,    \* history: the elements of arr1 when it was called
  freed      \* history: the pointers given to a destructor, in order

concat == <<pc, backup, i, before>>
vars == <<arr, life, made, concat, freed>>

Usable(a) == pc = "idle" /\ life[a] = "array"

\* The elements of an array, as its user sees them.
List(a) == SubSeq(arr[a].elems, 1, arr[a].size)

\* A block of n cells with what was in the old one, as realloc() gives it.
Block(old, n) == [k \in 1 .. n |-> IF k <= Len(old) THEN old[k] ELSE Junk]

NoArray == [elems |-> << >>, bytes |-> 0, size |-> 0, capacity |-> 0, destructor |-> FALSE]

Init ==
  /\ arr = [a \in Arrays |-> NoArray]
  /\ life = [a \in Arrays |-> "none"]
  /\ made = 0
  /\ pc = "idle" /\ backup = [size |-> 0, capacity |-> 0] /\ i = 0 /\ before = << >>
  /\ freed = << >>

Resized(r, cells, bytes) == [r EXCEPT !.elems = Block(@, cells), !.capacity = cells, !.bytes = bytes]

DYNARR_makeNewArray(a, destructor) ==
  /\ pc = "idle" /\ life[a] = "none"
  /\ DYNARR_INITSIZE * sizeof_ptr <= HeapLimit
  /\ arr' = [arr EXCEPT ![a] = [Resized(NoArray, DYNARR_INITSIZE, DYNARR_INITSIZE * sizeof_ptr)
                                  EXCEPT !.destructor = destructor]]
  /\ life' = [life EXCEPT ![a] = "array"]
  /\ UNCHANGED <<made, concat, freed>>

\* Either malloc() failed; what the first gave is freed again.
DYNARR_makeNewFails(a) ==
  /\ pc = "idle" /\ life[a] = "none"
  /\ life' = [life EXCEPT ![a] = "null"]
  /\ UNCHANGED <<arr, made, concat, freed>>

\* Mutant: the new capacity is given to realloc() in bytes, as in
\* Lab1/DynamicArray.c:27.
DYNARR_resizeArrBytes(r, n) == Resized(r, n, n)

\* The array after realloc() with n elements.
DYNARR_resizeArr(r, n) == Resized(r, n, n * sizeof_ptr)

Full(r) == r.size = r.capacity

CanGrow(r) == Full(r) => 2 * r.size * sizeof_ptr <= HeapLimit

\* DYNARR_addElem() where it returns 0.
Added(r, e) ==
  LET room == IF Full(r) THEN DYNARR_resizeArr(r, 2 * r.size) ELSE r
  IN  [room EXCEPT !.elems[r.size + 1] = e, !.size = @ + 1]

DYNARR_addElem(a) ==
  /\ Usable(a)
  /\ CanGrow(arr[a])
  /\ made < MaxElems
  /\ made' = made + 1
  /\ arr' = [arr EXCEPT ![a] = Added(@, made')]
  /\ UNCHANGED <<life, concat, freed>>

\* realloc() failed: -1, and the array is left as it is.
DYNARR_addElemFails(a) == Usable(a) /\ Full(arr[a]) /\ UNCHANGED vars

\* DYNARR_concatArrs(arr1, arr2), up to the loop.
DYNARR_concatArrs ==
  /\ \A a \in Arrays : Usable(a)
  /\ pc' = "concat"
  /\ backup' = [size |-> arr["arr1"].size, capacity |-> arr["arr1"].capacity]
  /\ i' = 0
  /\ before' = List("arr1")
  /\ UNCHANGED <<arr, life, made, freed>>

Looping == pc = "concat" /\ i < arr["arr2"].size

\* The body of the loop: elems[i] is added.  Nothing changes i.
concatAdds ==
  /\ Looping
  /\ CanGrow(arr["arr1"])
  /\ arr' = [arr EXCEPT !["arr1"] = Added(@, arr["arr2"].elems[i + 1])]
  /\ UNCHANGED <<life, made, concat, freed>>

Undo(size) ==
  /\ Looping
  /\ Full(arr["arr1"])
  /\ \E r \in {arr["arr1"], DYNARR_resizeArr(arr["arr1"], backup.capacity)} :
       arr' = [arr EXCEPT !["arr1"] = [r EXCEPT !.size = size]]
  /\ pc' = "idle"
  /\ UNCHANGED <<life, made, backup, i, before, freed>>

\* Mutant: the size is set to where the array was full.
concatFailsKeeps == Undo(backup.capacity)

\* There is no memory for the next element: the array is made as small as it
\* was (or this realloc() fails as well), its size is set back, and -1 returned.
concatFails == Undo(backup.size)

concatReturns ==
  /\ pc = "concat" /\ ~Looping
  /\ pc' = "idle"
  /\ UNCHANGED <<arr, life, made, backup, i, before, freed>>

\* DYNARR_destroyArray(a, 1): the caller keeps the block and its elements.
destroyPersistent(a) ==
  /\ Usable(a)
  /\ life' = [life EXCEPT ![a] = "kept"]
  /\ UNCHANGED <<arr, made, concat, freed>>

Destroy(a, elems) ==
  /\ Usable(a)
  /\ freed' = IF arr[a].destructor THEN freed \o elems ELSE freed
  /\ arr' = [arr EXCEPT ![a] = NoArray]
  /\ life' = [life EXCEPT ![a] = "destroyed"]
  /\ UNCHANGED <<made, concat>>

\* Mutant: the destructor is called for every cell of the block.
destroyAllCells(a) == Destroy(a, arr[a].elems)

\* DYNARR_destroyArray(a, 0)
DYNARR_destroyArray(a) == Destroy(a, List(a))

Next ==
  \/ \E a \in Arrays :
       \/ \E d \in BOOLEAN : DYNARR_makeNewArray(a, d)
       \/ DYNARR_makeNewFails(a)
       \/ DYNARR_addElem(a) \/ DYNARR_addElemFails(a)
       \/ destroyPersistent(a) \/ DYNARR_destroyArray(a)
  \/ DYNARR_concatArrs \/ concatAdds \/ concatFails \/ concatReturns

Spec == Init /\ [][Next]_vars
-----------------------------------------------------------------------------
\* A block has as many cells as the capacity says, each with a pointer or Junk.
TypeOK ==
  /\ arr \in [Arrays -> [elems : Seq(Nat \union {Junk}), bytes : Nat, size : Nat,
                         capacity : Nat, destructor : BOOLEAN]]
  /\ \A a \in Arrays : /\ Len(arr[a].elems) = arr[a].capacity
                       /\ life[a] = "array" => arr[a].capacity > 0
  /\ life \in [Arrays -> {"none", "array", "null", "destroyed", "kept"}]
  /\ made \in Nat
  /\ pc \in {"idle", "concat"}
  /\ backup \in [size : Nat, capacity : Nat]
  /\ i \in Nat
  /\ before \in Seq(Nat \union {Junk})

\* The block is as large as the capacity promises, in bytes, also after the
\* array was made smaller again; otherwise DYNARR_addElem writes behind it.
BlockMatches ==
  \A a \in Arrays : /\ arr[a].bytes = arr[a].capacity * sizeof_ptr
                    /\ arr[a].size <= arr[a].capacity

\* "On failure, arr1 will remain unchanged." (depricated/DynamicArray.c:83),
\* however many elements were added and however often the block had moved
\* before memory ran out.  An empty arr2 leaves it unchanged, too; the loop
\* has no other end.
FailureKeeps == [][pc = "concat" /\ pc' = "idle" => List("arr1")' = before]_vars

\* What makes the two inductive: in the loop, arr1 has not shrunk, still begins
\* with what it was, and has grown only if arr2 is not empty.
ConcatInv ==
  pc = "concat" =>
    LET r == arr["arr1"]
    IN  /\ i = 0
        /\ \A a \in Arrays : life[a] = "array"
        /\ backup.size <= backup.capacity /\ backup.capacity \in 1 .. r.capacity
        /\ backup.size <= r.size
        /\ arr["arr2"].size = 0 => r.size = backup.size
        /\ Len(before) = backup.size
        /\ \A k \in 1 .. backup.size : before[k] = r.elems[k]

\* No element is given to a destructor twice, and never what no user stored,
\* when both arrays are destroyed: a failed concatenation leaves no reference
\* to an element of arr2 in arr1 (the double free that
\* depricated/DynamicArray.c:78-81 warns of needs one that succeeded).
NoDoubleFree ==
  \A a, b \in 1 .. Len(freed) : freed[a] # Junk /\ (freed[a] = freed[b] => a = b)

\* What makes it inductive.  An array owns what its user sees in it; arr1, while
\* it is being concatenated, what it had before.  Whatever is owned or freed is
\* so once.
Owned(a) == IF pc = "concat" /\ a = "arr1" THEN before ELSE List(a)

Distinct(s) == \A k, l \in 1 .. Len(s) : s[k] = s[l] => k = l
Apart(s, t) == \A k \in 1 .. Len(s), l \in 1 .. Len(t) : s[k] # t[l]

OwnedOnce ==
  /\ made <= MaxElems
  /\ \A a \in Arrays : /\ Owned(a) \in Seq(1 .. made)
                       /\ Distinct(Owned(a)) /\ Apart(Owned(a), freed)
  /\ Apart(Owned("arr1"), Owned("arr2"))
  /\ freed \in Seq(1 .. made) /\ Distinct(freed)
=============================================================================
