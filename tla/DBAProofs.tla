----------------------------- MODULE DBAProofs ------------------------------
(***************************************************************************)
(* Proofs about DynamicByteArray for every type size, every initial size   *)
(* and every heap.                                                         *)
(***************************************************************************)
EXTENDS DynamicByteArray, SequenceTheorems, TLAPS

-----------------------------------------------------------------------------
(* Where the bytes of an element are. *)

\* Multiplication is monotone.
LEMMA Monotone ==
  ASSUME NEW a \in Nat, NEW b \in Nat, NEW t \in Nat, a <= b
  PROVE  a * t <= b * t
<1>1. b * t = a * t + (b - a) * t
  OBVIOUS
<1>2. (b - a) * t >= 0 /\ (b - a) * t \in Int /\ a * t \in Int
  <2>1. b - a \in Nat
    OBVIOUS
  <2> DEFINE d == b - a
  <2> HIDE DEF d
  <2>2. d \in Nat => d * t \in Nat
    OBVIOUS
  <2> QED BY <2>1, <2>2 DEF d
<1> DEFINE x == a * t
           y == (b - a) * t
<1> HIDE DEF x, y
<1>3. x \in Int /\ y \in Int /\ y >= 0 => x <= x + y
  OBVIOUS
<1> QED BY <1>1, <1>2, <1>3 DEF x, y

\* The bytes of the first n elements are the first n * type_size bytes, and
\* those of element n+1 come after them.
LEMMA Offset ==
  ASSUME NEW n \in Nat, NEW k \in 1 .. n, NEW i \in 1 .. type_size
  PROVE  /\ (k - 1) * type_size + i - 1 \in Block(n)
         /\ (k - 1) * type_size + i - 1 < n * type_size
<1> DEFINE x == (k - 1) * type_size
           y == k * type_size
           z == n * type_size
<1>1. x \in Nat /\ y \in Nat /\ z \in Nat /\ y = x + type_size
  BY DBAAssumption
<1>2. y <= z
  BY Monotone, DBAAssumption
<1>3. x + i - 1 \in 0 .. z - 1 /\ x + i - 1 < z
  <2> HIDE DEF x, y, z
  <2> QED BY <1>1, <1>2, DBAAssumption
<1> QED BY <1>3 DEF Block

LEMMA BlockGrows ==
  ASSUME NEW n \in Nat, NEW m \in Nat, n <= m
  PROVE  Block(n) \subseteq Block(m)
<1> DEFINE x == n * type_size
           y == m * type_size
<1>1. x \in Nat /\ y \in Nat /\ x <= y
  BY Monotone, DBAAssumption
<1>2. 0 .. x - 1 \subseteq 0 .. y - 1
  <2> HIDE DEF x, y
  <2> QED BY <1>1
<1> QED BY <1>2 DEF Block

-----------------------------------------------------------------------------
Inv == DBATypeOK /\ BlockMatches

\* What an addition does to the block, with or without a realloc().
LEMMA Added ==
  ASSUME Inv, NEW e \in Elems, DBA_addElemToArr(e)
  PROVE  \E block :
           /\ capacity' \in Nat /\ nr_of_elements < capacity' /\ capacity <= capacity'
           /\ capacity' > 0
           /\ DOMAIN block = Block(capacity')
           /\ \A b \in Block(capacity) : block[b] = elements[b]
           /\ elements' = Store(block, nr_of_elements, e)
<1> USE DBAAssumption DEF Inv, DBATypeOK, BlockMatches
<1>1. CASE nr_of_elements = capacity
  <2> WITNESS DBA_resizeArr(elements, 2 * capacity)
  <2>1. capacity' = 2 * capacity /\ capacity > 0
    BY <1>1 DEF DBA_addElemToArr
  <2>2. Block(capacity) \subseteq Block(capacity')
    BY <2>1, BlockGrows
  <2>3. \A b \in Block(capacity) : DBA_resizeArr(elements, 2 * capacity)[b] = elements[b]
    BY <2>1, <2>2 DEF DBA_resizeArr, DBA_addElemToArr
  <2>4. DOMAIN DBA_resizeArr(elements, 2 * capacity) = Block(capacity')
    BY <2>1 DEF DBA_resizeArr
  <2>5. elements' = Store(DBA_resizeArr(elements, 2 * capacity), nr_of_elements, e)
    BY <1>1 DEF DBA_addElemToArr
  <2>6. capacity' \in Nat /\ nr_of_elements < capacity' /\ capacity <= capacity' /\ capacity' > 0
    BY <1>1, <2>1
  <2> QED BY <2>3, <2>4, <2>5, <2>6
<1>2. CASE nr_of_elements # capacity
  <2> WITNESS elements
  <2> QED BY <1>2 DEF DBA_addElemToArr
<1> QED BY <1>1, <1>2

\* DynamicByteArray.c never writes behind its block: the counters always
\* describe the block that the heap gave it.
THEOREM NeverBehindTheBlock == DBASpec => [](DBATypeOK /\ BlockMatches)
<1> USE DBAAssumption
<1>1. DBAInit => Inv
  BY DEF DBAInit, Inv, DBATypeOK, BlockMatches
<1>2. Inv /\ [DBANext]_dbaVars => Inv'
  <2> SUFFICES ASSUME Inv, [DBANext]_dbaVars PROVE Inv'
    OBVIOUS
  <2> USE DEF Inv, DBATypeOK, BlockMatches
  <2>1. CASE DBA_makeNewDynamicByteArray
    BY <2>1 DEF DBA_makeNewDynamicByteArray
  <2>2. CASE DBA_makeNewFails
    BY <2>2 DEF DBA_makeNewFails
  <2>3. ASSUME NEW e \in Elems, DBA_addElemToArr(e) PROVE Inv'
    <3>1. /\ dynArr = "array" /\ dynArr' = dynArr
          /\ nr_of_elements' = nr_of_elements + 1
          /\ added' = Append(added, e)
      BY <2>3 DEF DBA_addElemToArr
    <3>2. added' \in Seq(Elems) /\ Len(added') = Len(added) + 1
      BY <3>1, AppendProperties
    <3>3. capacity' \in Nat /\ nr_of_elements < capacity' /\ capacity' > 0
          /\ DOMAIN elements' = Block(capacity')
      BY <2>3, Added DEF Store
    <3>4. nr_of_elements' \in Nat /\ nr_of_elements' <= capacity'
          /\ nr_of_elements' = Len(added')
      BY <3>1, <3>2, <3>3
    <3> QED BY <3>1, <3>2, <3>3, <3>4
  <2>4. CASE DBA_addElemFails
    BY <2>4 DEF DBA_addElemFails, dbaVars
  <2>5. CASE UNCHANGED dbaVars
    BY <2>5 DEF dbaVars
  <2> QED BY <2>1, <2>2, <2>3, <2>4, <2>5 DEF DBANext
<1>3. Inv => DBATypeOK /\ BlockMatches
  BY DEF Inv
<1> QED BY <1>1, <1>2, <1>3, PTL DEF DBASpec

-----------------------------------------------------------------------------
\* The new element is stored whole, and the others stay as they were.
LEMMA StoredBytes ==
  ASSUME Inv, NEW e \in Elems, DBA_addElemToArr(e), NEW i \in 1 .. type_size
  PROVE  /\ \A k \in 1 .. nr_of_elements :
               elements'[(k - 1) * type_size + i - 1] = elements[(k - 1) * type_size + i - 1]
         /\ elements'[nr_of_elements * type_size + i - 1] = e[i]
<1> USE DBAAssumption DEF Inv, DBATypeOK, BlockMatches
<1>1. PICK block :
           /\ capacity' \in Nat /\ nr_of_elements < capacity' /\ capacity <= capacity'
           /\ DOMAIN block = Block(capacity')
           /\ \A b \in Block(capacity) : block[b] = elements[b]
           /\ elements' = Store(block, nr_of_elements, e)
  BY Added
<1> DEFINE z == nr_of_elements * type_size
<1>2. z \in Nat
  OBVIOUS
<1>3. ASSUME NEW k \in 1 .. nr_of_elements
      PROVE  elements'[(k - 1) * type_size + i - 1] = elements[(k - 1) * type_size + i - 1]
  <2> DEFINE b == (k - 1) * type_size + i - 1
  <2>1. b \in Block(nr_of_elements) /\ b < z /\ b \in Int
    BY Offset DEF Block
  <2>2. b \in Block(capacity) /\ b \in Block(capacity')
    BY <1>1, <2>1, BlockGrows
  <2> HIDE DEF b, z
  <2>3. b \notin z .. z + type_size - 1
    BY <1>2, <2>1
  <2>4. Store(block, nr_of_elements, e)[b] = block[b]
    BY <1>1, <2>2, <2>3 DEF Store, z
  <2> QED BY <1>1, <2>2, <2>4 DEF b
<1>4. elements'[z + i - 1] = e[i]
  <2> DEFINE b == z + i - 1
  <2>1. b \in Block(nr_of_elements + 1)
    <3>1. PICK m \in Nat : m = nr_of_elements + 1
      OBVIOUS
    <3>2. m \in 1 .. m /\ m - 1 = nr_of_elements
      BY <3>1
    <3>3. (m - 1) * type_size + i - 1 \in Block(m)
      BY <3>2, Offset
    <3> QED BY <3>1, <3>2, <3>3
  <2>2. b \in Block(capacity')
    BY <1>1, <2>1, BlockGrows
  <2> HIDE DEF z
  <2>3. b \in z .. z + type_size - 1 /\ b - z + 1 = i
    BY <1>2
  <2> HIDE DEF b
  <2>4. Store(block, nr_of_elements, e)[b] = e[b - z + 1]
    BY <1>1, <2>2, <2>3 DEF Store, z
  <2> QED BY <1>1, <2>3, <2>4 DEF b
<1> QED BY <1>3, <1>4

\* Every element that was added can be read back, whole and in its place, for
\* every element size and however often realloc() moved the block.
THEOREM NothingIsLost == DBASpec => []ContentsKept
<1> USE DBAAssumption
<1>1. DBAInit => ContentsKept
  BY DEF DBAInit, ContentsKept, Contents
<1>2. Inv /\ ContentsKept /\ [DBANext]_dbaVars => ContentsKept'
  <2> SUFFICES ASSUME Inv, ContentsKept, [DBANext]_dbaVars PROVE ContentsKept'
    OBVIOUS
  <2>0. added \in Seq(Elems) /\ nr_of_elements = Len(added) /\ nr_of_elements \in Nat
    BY DEF Inv, DBATypeOK, BlockMatches
  <2>1. CASE DBA_makeNewDynamicByteArray
    <3>1. nr_of_elements = 0 /\ nr_of_elements' = 0 /\ added' = added
      BY <2>1 DEF DBA_makeNewDynamicByteArray, Inv, DBATypeOK
    <3> QED BY <3>1 DEF ContentsKept, Contents
  <2>2. CASE DBA_makeNewFails \/ DBA_addElemFails \/ UNCHANGED dbaVars
    BY <2>2 DEF DBA_makeNewFails, DBA_addElemFails, dbaVars, ContentsKept, Contents, DBA_getElem
  <2>3. ASSUME NEW e \in Elems, DBA_addElemToArr(e) PROVE ContentsKept'
    <3>1. nr_of_elements' = nr_of_elements + 1 /\ added' = Append(added, e)
      BY <2>3 DEF DBA_addElemToArr
    <3>2. ASSUME NEW k \in 1 .. nr_of_elements PROVE DBA_getElem(k)' = added[k]
      <4>1. DBA_getElem(k)' = DBA_getElem(k)
        BY <2>3, StoredBytes DEF DBA_getElem
      <4> QED BY <4>1 DEF ContentsKept, Contents
    <3>3. PICK m \in Nat : m = nr_of_elements + 1
      BY <2>0
    <3>4. DBA_getElem(m)' = e
      <4>1. \A i \in 1 .. type_size : elements'[nr_of_elements * type_size + i - 1] = e[i]
        BY <2>3, StoredBytes
      <4>2. m - 1 = nr_of_elements
        BY <2>0, <3>3
      <4>3. DBA_getElem(m)' = [i \in 1 .. type_size |-> e[i]]
        BY <4>1, <4>2 DEF DBA_getElem
      <4> QED BY <4>3 DEF Elems
    <3>5. /\ added' \in [1 .. m -> Elems]
          /\ added'[m] = e
          /\ \A k \in 1 .. nr_of_elements : added'[k] = added[k]
      <4>1. /\ added' \in Seq(Elems) /\ Len(added') = m
            /\ added'[m] = e
            /\ \A k \in 1 .. nr_of_elements : added'[k] = added[k]
        BY <2>0, <3>1, <3>3, AppendProperties
      <4> QED BY <4>1, LenProperties
    <3>6. ASSUME NEW k \in 1 .. m PROVE DBA_getElem(k)' = added'[k]
      <4>1. k = m \/ k \in 1 .. nr_of_elements
        BY <2>0, <3>3
      <4> QED BY <3>2, <3>4, <3>5, <4>1
    <3>7. Contents' = added'
      <4>1. Contents' = [k \in 1 .. m |-> DBA_getElem(k)']
        BY <3>1, <3>3 DEF Contents
      <4> QED BY <3>5, <3>6, <4>1
    <3> QED BY <3>7 DEF ContentsKept
  <2> QED BY <2>1, <2>2, <2>3 DEF DBANext
<1>3. DBATypeOK /\ BlockMatches => Inv
  BY DEF Inv
<1> QED BY <1>1, <1>2, <1>3, NeverBehindTheBlock, PTL DEF DBASpec
=============================================================================
