-------------------------- MODULE DynamicByteArray --------------------------
(***************************************************************************)
(* Lab2/iwish/src/DynamicByteArray.c: the growing array under the shell's  *)
(* input line, its tokens and the argument vectors of its commands.  The   *)
(* block is modelled byte by byte: elements maps the offsets of the block  *)
(* that malloc() or realloc() returned to bytes.                           *)
(***************************************************************************)
EXTENDS Integers, Sequences

CONSTANTS
  type_size,      \* bytes per element
  DBA_INITSIZE,   \* elements in the first block (16 in the source)
  HeapBytes,      \* bound: bytes the heap has at most
  Bytes,          \* the values of a byte
  Junk            \* what a fresh byte of the heap holds

ASSUME DBAAssumption ==
  /\ type_size \in Nat \ {0}
  /\ DBA_INITSIZE \in Nat \ {0}
  /\ HeapBytes \in Nat
  /\ Junk \notin Bytes

VARIABLES
  dynArr,            \* "none" before the array is made, "null" if it could not be
  nr_of_elements,
  capacity,
  elements,          \* offset -> byte
  added              \* history: the elements whose addition returned 0

dbaVars == <<dynArr, nr_of_elements, capacity, elements, added>>

\* An element is as many bytes as the type has.
Elems == [1 .. type_size -> Bytes]

Block(n) == 0 .. n * type_size - 1

DBAInit ==
  /\ dynArr = "none"
  /\ nr_of_elements = 0
  /\ capacity = 0
  /\ elements = << >>
  /\ added = << >>

DBA_makeNewDynamicByteArray ==
  /\ dynArr = "none"
  /\ DBA_INITSIZE * type_size <= HeapBytes
  /\ elements' = [b \in Block(DBA_INITSIZE) |-> Junk]
  /\ nr_of_elements' = 0
  /\ capacity' = DBA_INITSIZE
  /\ dynArr' = "array"
  /\ UNCHANGED added

DBA_makeNewFails ==
  /\ dynArr = "none"
  /\ dynArr' = "null"
  /\ UNCHANGED <<nr_of_elements, capacity, elements, added>>

\* Mutant: realloc() is given elements instead of bytes, as in
\* Lab1/DynamicArray.c:27.
DBA_resizeArrBytes(block, n) ==
  [b \in 0 .. n - 1 |-> IF b \in DOMAIN block THEN block[b] ELSE Junk]

\* Mutant: malloc() instead of realloc(), and nothing is copied.
DBA_resizeArrFresh(block, n) == [b \in Block(n) |-> Junk]

\* realloc(): the old bytes are kept, the others are fresh.
DBA_resizeArr(block, n) ==
  [b \in Block(n) |-> IF b \in DOMAIN block THEN block[b] ELSE Junk]

\* The copy loop: byte i of the element goes to nr * type_size + i.
Store(block, nr, e) ==
  [b \in DOMAIN block |-> IF b \in nr * type_size .. nr * type_size + type_size - 1
                          THEN e[b - nr * type_size + 1] ELSE block[b]]

DBA_addElemToArr(e) ==
  /\ dynArr = "array"
  /\ IF nr_of_elements = capacity
     THEN /\ 2 * capacity * type_size <= HeapBytes
          /\ capacity' = 2 * capacity
          /\ elements' = Store(DBA_resizeArr(elements, 2 * capacity), nr_of_elements, e)
     ELSE /\ elements' = Store(elements, nr_of_elements, e)
          /\ UNCHANGED capacity
  /\ nr_of_elements' = nr_of_elements + 1
  /\ added' = Append(added, e)
  /\ UNCHANGED dynArr

\* realloc() returned NULL: the call returns -1.
DBA_addElemFails ==
  /\ dynArr = "array"
  /\ nr_of_elements = capacity
  /\ UNCHANGED dbaVars

DBANext ==
  \/ DBA_makeNewDynamicByteArray
  \/ DBA_makeNewFails
  \/ \E e \in Elems : DBA_addElemToArr(e)
  \/ DBA_addElemFails

DBASpec == DBAInit /\ [][DBANext]_dbaVars

\* DBA_getElem(): the bytes at index * type_size (k counts from 1).
DBA_getElem(k) == [i \in 1 .. type_size |-> elements[(k - 1) * type_size + i - 1]]
-----------------------------------------------------------------------------
DBATypeOK ==
  /\ dynArr \in {"none", "array", "null"}
  /\ nr_of_elements \in Nat
  /\ capacity \in Nat
  /\ added \in Seq(Elems)
  /\ dynArr # "array" => nr_of_elements = 0 /\ capacity = 0

\* The counters describe the block: as many bytes are allocated as the
\* capacity promises, and the next element fits or the array knows it is
\* full.  (Otherwise DBA_addElemToArr writes behind the block.)
BlockMatches ==
  /\ dynArr = "array" => DOMAIN elements = Block(capacity) /\ capacity > 0
  /\ nr_of_elements <= capacity
  /\ nr_of_elements = Len(added)

\* Every element that was added can still be read, whole and in its place,
\* however often the block has moved.
Contents == [k \in 1 .. nr_of_elements |-> DBA_getElem(k)]
ContentsKept == Contents = added
=============================================================================
