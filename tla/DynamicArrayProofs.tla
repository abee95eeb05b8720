------------------------- MODULE DynamicArrayProofs -------------------------
(***************************************************************************)
(* For every first capacity, element size, heap and number of elements:    *)
(* the block of an array is as large as its capacity says, and a           *)
(* concatenation that fails leaves the first array as it was.              *)
(***************************************************************************)
EXTENDS DynamicArray, SequenceTheorems, TLAPS

Cell == Nat \union {Junk}
Struct == [elems : Seq(Cell), bytes : Nat, size : Nat, capacity : Nat, destructor : BOOLEAN]

\* What is true of one array at any time.
Sound(r) ==
  /\ r \in Struct
  /\ Len(r.elems) = r.capacity
  /\ r.bytes = r.capacity * sizeof_ptr
  /\ r.size <= r.capacity

Inv == TypeOK /\ BlockMatches /\ ConcatInv

\* realloc() keeps the cells that fit into the new block.
LEMMA BlockIs ==
  ASSUME NEW old \in Seq(Cell), NEW n \in Nat
  PROVE  /\ Block(old, n) \in Seq(Cell)
         /\ Len(Block(old, n)) = n
         /\ \A k \in 1 .. n : k <= Len(old) => Block(old, n)[k] = old[k]
<1>1. \A k \in 1 .. n : (IF k <= Len(old) THEN old[k] ELSE Junk) \in Cell
  <2> SUFFICES ASSUME NEW k \in 1 .. n, k <= Len(old) PROVE old[k] \in Cell
    BY DEF Cell
  <2> QED BY ElementOfSeq
<1>2. Block(old, n) \in [1 .. n -> Cell]
  BY <1>1 DEF Block
<1> QED BY <1>2 DEF Block

\* Growing and shrinking (DYNARR_resizeArr).
LEMMA ResizeSound ==
  ASSUME NEW r, Sound(r), NEW n \in Nat, NEW s \in Nat, s <= n
  PROVE  LET q == [DYNARR_resizeArr(r, n) EXCEPT !.size = s]
         IN  /\ Sound(q) /\ q.size = s /\ q.capacity = n
             /\ \A k \in 1 .. n : k <= r.capacity => q.elems[k] = r.elems[k]
<1> DEFINE q == [DYNARR_resizeArr(r, n) EXCEPT !.size = s]
<1>1. n * sizeof_ptr \in Nat
  BY DynamicArrayAssumption
<1>2. r \in Struct /\ r.elems \in Seq(Cell) /\ Len(r.elems) = r.capacity
  BY DEF Sound, Struct
<1>3. /\ Block(r.elems, n) \in Seq(Cell) /\ Len(Block(r.elems, n)) = n
      /\ \A k \in 1 .. n : k <= r.capacity => Block(r.elems, n)[k] = r.elems[k]
  BY <1>2, BlockIs
<1>4. /\ q \in Struct /\ q.elems = Block(r.elems, n) /\ q.capacity = n /\ q.size = s
      /\ q.bytes = n * sizeof_ptr
  BY <1>1, <1>2, <1>3 DEF DYNARR_resizeArr, Resized, Struct
<1> QED BY <1>3, <1>4 DEF Sound

\* Storing an element (DYNARR_addElem), in a new block or in the old one.
LEMMA AddSound ==
  ASSUME NEW r, Sound(r), r.capacity > 0, NEW e \in Cell
  PROVE  /\ Sound(Added(r, e))
         /\ Added(r, e).size = r.size + 1
         /\ Added(r, e).capacity >= r.capacity
         /\ \A k \in 1 .. r.size : Added(r, e).elems[k] = r.elems[k]
<1> DEFINE room == IF Full(r) THEN DYNARR_resizeArr(r, 2 * r.size) ELSE r
<1>1. /\ r \in Struct /\ r.size \in Nat /\ r.capacity \in Nat /\ r.size <= r.capacity
      /\ r.elems \in Seq(Cell) /\ Len(r.elems) = r.capacity
  BY DEF Sound, Struct
<1>2. /\ Sound(room) /\ room.size = r.size /\ room.capacity > r.size
      /\ room.capacity >= r.capacity
      /\ \A k \in 1 .. r.size : room.elems[k] = r.elems[k]
  <2>1. CASE ~Full(r)
    BY <1>1, <2>1 DEF Full
  <2>2. CASE Full(r)
    <3> DEFINE q == [DYNARR_resizeArr(r, 2 * r.size) EXCEPT !.size = r.size]
    <3>1. q = DYNARR_resizeArr(r, 2 * r.size)
      BY <1>1 DEF DYNARR_resizeArr, Resized, Struct
    <3>2. 2 * r.size \in Nat /\ r.size <= 2 * r.size /\ r.size = r.capacity /\ r.size > 0
      BY <1>1, <2>2 DEF Full
    <3>3. /\ Sound(q) /\ q.size = r.size /\ q.capacity = 2 * r.size
          /\ \A k \in 1 .. 2 * r.size : k <= r.capacity => q.elems[k] = r.elems[k]
      BY <1>1, <3>2, ResizeSound
    <3> HIDE DEF q
    <3> QED BY <1>1, <2>2, <3>1, <3>2, <3>3
  <2> QED BY <2>1, <2>2
<1> DEFINE x == [room EXCEPT !.elems[r.size + 1] = e, !.size = @ + 1]
<1>3. Added(r, e) = x
  BY DEF Added
<1> HIDE DEF room
<1>4. room \in Struct /\ room.elems \in Seq(Cell) /\ Len(room.elems) = room.capacity
  BY <1>2 DEF Sound, Struct
<1>5. /\ x.elems = [room.elems EXCEPT ![r.size + 1] = e] /\ x.size = r.size + 1
      /\ x.capacity = room.capacity /\ x.bytes = room.bytes
      /\ x.destructor = room.destructor
  BY <1>2, <1>4 DEF Struct
<1>6. x.elems \in Seq(Cell) /\ Len(x.elems) = room.capacity
  BY <1>1, <1>2, <1>4, <1>5, ExceptSeq
<1>7. \A k \in 1 .. r.size : x.elems[k] = r.elems[k]
  BY <1>1, <1>2, <1>4, <1>5
<1>8. x \in Struct
  <2> DEFINE y == [room.elems EXCEPT ![r.size + 1] = e]
             n == r.size + 1
  <2>1. x = [room EXCEPT !.elems = y, !.size = n]
    BY <1>2
  <2>2. y \in Seq(Cell) /\ n \in Nat
    BY <1>1, <1>5, <1>6
  <2> HIDE DEF x, y, n
  <2> QED BY <1>4, <2>1, <2>2 DEF Struct
<1> HIDE DEF x
<1> QED BY <1>1, <1>2, <1>3, <1>5, <1>6, <1>7, <1>8 DEF Sound

LEMMA ArraysAreSound ==
  ASSUME TypeOK, BlockMatches, NEW a \in Arrays
  PROVE  Sound(arr[a])
<1>1. arr[a] \in Struct
  BY DEF TypeOK, Struct, Cell
<1>2. Len(arr[a].elems) = arr[a].capacity
  BY DEF TypeOK
<1>3. arr[a].bytes = arr[a].capacity * sizeof_ptr /\ arr[a].size <= arr[a].capacity
  BY DEF BlockMatches
<1> QED BY <1>1, <1>2, <1>3 DEF Sound

\* A step that gives one array a sound struct.
LEMMA ReplaceArray ==
  ASSUME TypeOK, BlockMatches, NEW a \in Arrays, NEW r, Sound(r),
         NEW l \in {"none", "array", "null", "destroyed", "kept"},
         l = "array" => r.capacity > 0,
         arr' = [arr EXCEPT ![a] = r], life' = [life EXCEPT ![a] = l],
         made' \in Nat, pc' \in {"idle", "concat"}, UNCHANGED <<backup, i, before>>
  PROVE  TypeOK' /\ BlockMatches'
<1>1. arr \in [Arrays -> Struct] /\ r \in Struct
  BY DEF TypeOK, Sound, Struct, Cell
<1>2. arr' \in [Arrays -> Struct]
  BY <1>1
<1>3. /\ \A b \in Arrays \ {a} : arr'[b] = arr[b] /\ life'[b] = life[b]
      /\ arr'[a] = r /\ life'[a] = l
  BY <1>1 DEF TypeOK
<1>4. \A b \in Arrays : /\ Len(arr'[b].elems) = arr'[b].capacity
                        /\ life'[b] = "array" => arr'[b].capacity > 0
                        /\ arr'[b].bytes = arr'[b].capacity * sizeof_ptr
                        /\ arr'[b].size <= arr'[b].capacity
  BY <1>3 DEF TypeOK, BlockMatches, Sound
<1>5. life' \in [Arrays -> {"none", "array", "null", "destroyed", "kept"}]
  BY DEF TypeOK
<1>6. TypeOK'
  <2>1. (arr \in [Arrays -> [elems : Seq(Nat \union {Junk}), bytes : Nat, size : Nat,
                             capacity : Nat, destructor : BOOLEAN]])'
    BY <1>2 DEF Struct, Cell
  <2>2. (\A b \in Arrays : /\ Len(arr[b].elems) = arr[b].capacity
                           /\ life[b] = "array" => arr[b].capacity > 0)'
    BY <1>4
  <2> QED BY <2>1, <2>2, <1>5 DEF TypeOK
<1>7. BlockMatches'
  BY <1>4 DEF BlockMatches
<1> QED BY <1>6, <1>7

\* Nothing is allocated in an array that was never made or is destroyed.
LEMMA NoArraySound == Sound(NoArray)
<1>1. << >> \in Seq(Cell) /\ Len(<< >>) = 0
  OBVIOUS
<1>2. 0 * sizeof_ptr = 0
  BY DynamicArrayAssumption
<1> QED BY <1>1, <1>2 DEF NoArray, Sound, Struct

\* DYNARR_makeNewArray, DYNARR_addElem and the two ways to destroy an array.
LEMMA IdleSteps ==
  ASSUME Inv, NEW a \in Arrays,
         \/ \E d \in BOOLEAN : DYNARR_makeNewArray(a, d)
         \/ DYNARR_makeNewFails(a) \/ DYNARR_addElem(a) \/ DYNARR_addElemFails(a)
         \/ destroyPersistent(a) \/ DYNARR_destroyArray(a)
  PROVE  Inv' /\ pc = "idle"
<1> USE DEF Inv
<1>0. Sound(arr[a]) /\ arr = [arr EXCEPT ![a] = arr[a]]
  BY ArraysAreSound DEF TypeOK
<1>1. ASSUME NEW d \in BOOLEAN, DYNARR_makeNewArray(a, d) PROVE Inv' /\ pc = "idle"
  <2> DEFINE n == DYNARR_INITSIZE
             q == [DYNARR_resizeArr(NoArray, n) EXCEPT !.size = 0]
             r == [q EXCEPT !.destructor = d]
  <2>1. n \in Nat /\ n > 0
    BY DynamicArrayAssumption
  <2>2. Sound(q) /\ q.capacity = n
    BY <2>1, NoArraySound, ResizeSound
  <2>3. q = DYNARR_resizeArr(NoArray, n)
    <3>1. NoArray \in Struct /\ NoArray.size = 0
      BY NoArraySound DEF Sound, NoArray
    <3> QED BY <3>1 DEF DYNARR_resizeArr, Resized, Struct
  <2>4. Sound(r) /\ r.capacity = n
    <3> HIDE DEF q, n
    <3>1. q \in Struct
      BY <2>2 DEF Sound
    <3> QED BY <2>2, <3>1 DEF Sound, Struct
  <2>5. arr' = [arr EXCEPT ![a] = r] /\ life' = [life EXCEPT ![a] = "array"]
    BY <1>1, <2>3 DEF DYNARR_makeNewArray, DYNARR_resizeArr
  <2> HIDE DEF r
  <2>6. pc = "idle" /\ UNCHANGED <<made, pc, backup, i, before>>
    BY <1>1 DEF DYNARR_makeNewArray, concat
  <2>7. TypeOK' /\ BlockMatches'
    BY <2>1, <2>4, <2>5, <2>6, ReplaceArray DEF TypeOK
  <2> QED BY <2>6, <2>7 DEF ConcatInv
<1>2. CASE DYNARR_makeNewFails(a)
  <2>1. pc = "idle" /\ UNCHANGED <<arr, made, pc, backup, i, before>>
        /\ life' = [life EXCEPT ![a] = "null"]
    BY <1>2 DEF DYNARR_makeNewFails, concat
  <2>2. TypeOK' /\ BlockMatches'
    BY <1>0, <2>1, ReplaceArray DEF TypeOK
  <2> QED BY <2>1, <2>2 DEF ConcatInv
<1>3. CASE DYNARR_addElem(a)
  <2> DEFINE r == Added(arr[a], made')
  <2>1. pc = "idle" /\ life[a] = "array" /\ UNCHANGED <<life, pc, backup, i, before>>
        /\ made' = made + 1 /\ arr' = [arr EXCEPT ![a] = r]
    BY <1>3 DEF DYNARR_addElem, Usable, concat
  <2>2. made' \in Nat /\ made' \in Cell /\ arr[a].capacity > 0 /\ arr[a].capacity \in Nat
    <3>1. made' \in Nat /\ made' \in Cell
      BY <2>1 DEF TypeOK, Cell
    <3>2. arr[a].capacity > 0
      BY <2>1 DEF TypeOK
    <3>3. arr[a].capacity \in Nat
      BY <1>0 DEF Sound, Struct
    <3> QED BY <3>1, <3>2, <3>3
  <2>3. Sound(r) /\ r.capacity >= arr[a].capacity
    BY <1>0, <2>2, AddSound
  <2>4. r.capacity > 0
    BY <2>2, <2>3 DEF Sound, Struct
  <2>5. life' = [life EXCEPT ![a] = "array"]
    BY <2>1 DEF TypeOK
  <2> HIDE DEF r
  <2>6. TypeOK' /\ BlockMatches'
    BY <2>1, <2>2, <2>3, <2>4, <2>5, ReplaceArray DEF TypeOK
  <2> QED BY <2>1, <2>6 DEF ConcatInv
<1>4. CASE DYNARR_addElemFails(a)
  BY <1>4 DEF DYNARR_addElemFails, Usable, vars, concat, TypeOK, BlockMatches, ConcatInv
<1>5. CASE destroyPersistent(a)
  <2>1. pc = "idle" /\ UNCHANGED <<arr, made, pc, backup, i, before>>
        /\ life' = [life EXCEPT ![a] = "kept"]
    BY <1>5 DEF destroyPersistent, Usable, concat
  <2>2. TypeOK' /\ BlockMatches'
    BY <1>0, <2>1, ReplaceArray DEF TypeOK
  <2> QED BY <2>1, <2>2 DEF ConcatInv
<1>6. CASE DYNARR_destroyArray(a)
  <2>1. pc = "idle" /\ UNCHANGED <<made, pc, backup, i, before>>
        /\ arr' = [arr EXCEPT ![a] = NoArray] /\ life' = [life EXCEPT ![a] = "destroyed"]
    BY <1>6 DEF DYNARR_destroyArray, Destroy, Usable, concat
  <2>2. TypeOK' /\ BlockMatches'
    BY <2>1, NoArraySound, ReplaceArray DEF TypeOK
  <2> QED BY <2>1, <2>2 DEF ConcatInv
<1> QED BY <1>1, <1>2, <1>3, <1>4, <1>5, <1>6

\* The elements of an array are those below its size.
LEMMA ListIs ==
  ASSUME NEW r, Sound(r)
  PROVE  /\ SubSeq(r.elems, 1, r.size) \in Seq(Cell)
         /\ Len(SubSeq(r.elems, 1, r.size)) = r.size
         /\ \A k \in 1 .. r.size : SubSeq(r.elems, 1, r.size)[k] = r.elems[k]
<1>1. /\ r.elems \in Seq(Cell) /\ r.size \in Nat /\ r.capacity \in Nat
      /\ Len(r.elems) = r.capacity /\ r.size <= r.capacity
  BY DEF Sound, Struct
<1>2. \A k \in 1 .. r.size : r.elems[k] \in Cell
  BY <1>1, ElementOfSeq
<1> QED BY <1>1, <1>2, SubSeqProperties

\* The loop of DYNARR_concatArrs is entered.
LEMMA ConcatBegins == ASSUME Inv, DYNARR_concatArrs PROVE Inv'
<1> DEFINE r == arr["arr1"]
<1>1. /\ UNCHANGED <<arr, life, made>> /\ pc' = "concat" /\ i' = 0
      /\ backup' = [size |-> r.size, capacity |-> r.capacity]
      /\ before' = SubSeq(r.elems, 1, r.size)
      /\ \A a \in Arrays : life[a] = "array"
  BY DEF DYNARR_concatArrs, Usable, List
<1>2. "arr1" \in Arrays /\ "arr2" \in Arrays
  BY DEF Arrays
<1>3. Sound(r) /\ r.capacity > 0
  BY <1>1, <1>2, ArraysAreSound DEF Inv, TypeOK
<1>4. r.size \in Nat /\ r.capacity \in Nat /\ r.size <= r.capacity
  BY <1>3 DEF Sound, Struct
<1>5. /\ before' \in Seq(Cell) /\ Len(before') = r.size
      /\ \A k \in 1 .. r.size : before'[k] = r.elems[k]
  BY <1>1, <1>3, ListIs
<1>6. TypeOK'
  BY <1>1, <1>4, <1>5 DEF Inv, TypeOK, Cell
<1>7. BlockMatches'
  BY <1>1 DEF Inv, BlockMatches
<1>8. ConcatInv'
  BY <1>1, <1>3, <1>4, <1>5 DEF ConcatInv
<1> QED BY <1>6, <1>7, <1>8 DEF Inv

\* One more element of arr2 is behind those of arr1.
LEMMA ConcatGoesOn == ASSUME Inv, concatAdds PROVE Inv'
<1> DEFINE r == arr["arr1"]
           e == arr["arr2"].elems[i + 1]
           q == Added(r, e)
<1>1. /\ UNCHANGED <<life, made, pc, backup, i, before>> /\ pc = "concat"
      /\ arr' = [arr EXCEPT !["arr1"] = q] /\ i < arr["arr2"].size
  BY DEF concatAdds, Looping, concat
<1>2. "arr1" \in Arrays /\ "arr2" \in Arrays
  BY DEF Arrays
<1>3. Sound(r) /\ Sound(arr["arr2"]) /\ life["arr1"] = "array" /\ i = 0
  BY <1>1, <1>2, ArraysAreSound DEF Inv, ConcatInv
<1>4. r.capacity > 0
  BY <1>2, <1>3 DEF Inv, TypeOK
<1>5. e \in Cell
  <2>1. /\ arr["arr2"].elems \in Seq(Cell) /\ arr["arr2"].size \in Nat
        /\ arr["arr2"].capacity \in Nat /\ arr["arr2"].size <= arr["arr2"].capacity
        /\ Len(arr["arr2"].elems) = arr["arr2"].capacity
    BY <1>3 DEF Sound, Struct
  <2>2. i + 1 \in 1 .. Len(arr["arr2"].elems)
    BY <1>1, <1>3, <2>1
  <2> QED BY <2>1, <2>2, ElementOfSeq
<1>6. /\ Sound(q) /\ q.size = r.size + 1 /\ q.capacity >= r.capacity
      /\ \A k \in 1 .. r.size : q.elems[k] = r.elems[k]
  BY <1>3, <1>4, <1>5, AddSound
<1> HIDE DEF q
<1>7. q.capacity \in Nat /\ r.capacity \in Nat /\ r.size \in Nat
  BY <1>3, <1>6 DEF Sound, Struct
<1>8. TypeOK' /\ BlockMatches'
  <2>1. life' = [life EXCEPT !["arr1"] = "array"]
    BY <1>1, <1>3 DEF Inv, TypeOK
  <2>2. q.capacity > 0 /\ made' \in Nat /\ pc' \in {"idle", "concat"}
    BY <1>1, <1>4, <1>6, <1>7 DEF Inv, TypeOK
  <2> QED BY <1>1, <1>2, <1>6, <2>1, <2>2, ReplaceArray DEF Inv
<1>9. ConcatInv'
  <2>1. arr'["arr1"] = q /\ arr'["arr2"] = arr["arr2"]
    BY <1>1, <1>2 DEF Inv, TypeOK
  <2>2. /\ backup.size \in Nat /\ backup.capacity \in Nat
        /\ backup.size <= backup.capacity /\ backup.capacity \in 1 .. r.capacity
        /\ backup.size <= r.size /\ Len(before) = backup.size
        /\ \A k \in 1 .. backup.size : before[k] = r.elems[k]
        /\ \A a \in Arrays : life[a] = "array"
    BY <1>1 DEF Inv, ConcatInv, TypeOK
  <2>3. \A k \in 1 .. backup.size : before[k] = q.elems[k]
    BY <1>6, <1>7, <2>2
  <2> HIDE DEF r
  <2> QED BY <1>1, <1>3, <1>6, <1>7, <2>1, <2>2, <2>3 DEF ConcatInv
<1> QED BY <1>8, <1>9 DEF Inv

\* The rollback, with and without a smaller block.
LEMMA ConcatUndone == ASSUME Inv, concatFails PROVE Inv' /\ List("arr1")' = before
<1> DEFINE r == arr["arr1"]
           Rolled(t) == [t EXCEPT !.size = backup.size]
<1>1. /\ UNCHANGED <<life, made, backup, i, before>> /\ pc = "concat" /\ pc' = "idle"
      /\ \E t \in {r, DYNARR_resizeArr(r, backup.capacity)} :
           arr' = [arr EXCEPT !["arr1"] = Rolled(t)]
  BY DEF concatFails, Undo, Looping
<1>2. "arr1" \in Arrays
  BY DEF Arrays
<1>3. Sound(r)
  BY <1>2, ArraysAreSound DEF Inv
<1>4. /\ backup.size \in Nat /\ backup.capacity \in Nat /\ r.capacity \in Nat /\ r.size \in Nat
      /\ r.size <= r.capacity
      /\ backup.size <= backup.capacity /\ backup.capacity \in 1 .. r.capacity
      /\ backup.size <= r.size /\ Len(before) = backup.size /\ before \in Seq(Cell)
      /\ \A k \in 1 .. backup.size : before[k] = r.elems[k]
      /\ life["arr1"] = "array"
  BY <1>1, <1>2, <1>3 DEF Inv, ConcatInv, TypeOK, Sound, Struct, Cell
<1>5. PICK q : /\ arr' = [arr EXCEPT !["arr1"] = q]
               /\ Sound(q) /\ q.size = backup.size /\ q.capacity > 0
               /\ \A k \in 1 .. backup.size : q.elems[k] = before[k]
  <2>1. CASE arr' = [arr EXCEPT !["arr1"] = Rolled(r)]
    <3>1. /\ Sound(Rolled(r)) /\ Rolled(r).size = backup.size
          /\ Rolled(r).capacity = r.capacity /\ Rolled(r).elems = r.elems
      BY <1>3, <1>4 DEF Sound, Struct
    <3> DEFINE q == Rolled(r)
    <3>2. q.capacity > 0 /\ \A k \in 1 .. backup.size : q.elems[k] = before[k]
      BY <1>4, <3>1
    <3> HIDE DEF q
    <3> WITNESS q
    <3> QED BY <2>1, <3>1, <3>2 DEF q
  <2>2. CASE arr' = [arr EXCEPT !["arr1"] = Rolled(DYNARR_resizeArr(r, backup.capacity))]
    <3> DEFINE q == Rolled(DYNARR_resizeArr(r, backup.capacity))
    <3>1. /\ Sound(q) /\ q.size = backup.size /\ q.capacity = backup.capacity
          /\ \A k \in 1 .. backup.capacity : k <= r.capacity => q.elems[k] = r.elems[k]
      BY <1>3, <1>4, ResizeSound
    <3>2. arr' = [arr EXCEPT !["arr1"] = q]
      BY <2>2
    <3> HIDE DEF q
    <3>3. q.capacity > 0 /\ \A k \in 1 .. backup.size : q.elems[k] = before[k]
      BY <1>4, <3>1
    <3> WITNESS q
    <3> QED BY <3>1, <3>2, <3>3
  <2> QED BY <1>1, <2>1, <2>2
<1>6. TypeOK' /\ BlockMatches'
  <2>1. life' = [life EXCEPT !["arr1"] = "array"] /\ made' \in Nat
    BY <1>1, <1>4 DEF Inv, TypeOK
  <2> QED BY <1>1, <1>2, <1>5, <2>1, ReplaceArray DEF Inv
<1>7. List("arr1")' = before
  <2>1. arr'["arr1"] = q
    BY <1>2, <1>5 DEF Inv, TypeOK
  <2>2. List("arr1")' = SubSeq(q.elems, 1, q.size)
    BY <2>1 DEF List
  <2>3. /\ SubSeq(q.elems, 1, q.size) \in Seq(Cell)
        /\ Len(SubSeq(q.elems, 1, q.size)) = Len(before)
        /\ \A k \in 1 .. Len(before) : SubSeq(q.elems, 1, q.size)[k] = before[k]
    BY <1>4, <1>5, ListIs
  <2> QED BY <1>4, <2>2, <2>3, SeqEqual
<1> QED BY <1>1, <1>6, <1>7 DEF Inv, ConcatInv

\* An empty arr2: the loop was never entered.
LEMMA ConcatOver == ASSUME Inv, concatReturns PROVE Inv' /\ List("arr1")' = before
<1> DEFINE r == arr["arr1"]
<1>1. /\ UNCHANGED <<arr, life, made, backup, i, before>> /\ pc = "concat" /\ pc' = "idle"
      /\ ~(i < arr["arr2"].size)
  BY DEF concatReturns, Looping
<1>2. Sound(r) /\ arr["arr2"].size \in Nat /\ i = 0
  BY <1>1, ArraysAreSound DEF Arrays, Inv, TypeOK, ConcatInv
<1>3. /\ r.size = Len(before) /\ before \in Seq(Cell)
      /\ \A k \in 1 .. r.size : before[k] = r.elems[k]
  BY <1>1, <1>2 DEF Inv, TypeOK, ConcatInv, Cell
<1>4. List("arr1")' = SubSeq(r.elems, 1, r.size)
  BY <1>1 DEF List
<1>5. /\ SubSeq(r.elems, 1, r.size) \in Seq(Cell) /\ Len(SubSeq(r.elems, 1, r.size)) = r.size
      /\ \A k \in 1 .. r.size : SubSeq(r.elems, 1, r.size)[k] = r.elems[k]
  BY <1>2, ListIs
<1>6. List("arr1")' = before
  <2> HIDE DEF r
  <2> QED BY <1>3, <1>4, <1>5, SeqEqual
<1> QED BY <1>1, <1>6 DEF Inv, TypeOK, BlockMatches, ConcatInv

LEMMA Initially == ASSUME Init PROVE Inv
<1>1. \A a \in Arrays : arr[a] = NoArray /\ life[a] = "none"
  BY DEF Init
<1>2. TypeOK
  <2>1. NoArray \in Struct /\ Len(NoArray.elems) = NoArray.capacity
    BY NoArraySound DEF Sound
  <2>2. << >> \in Seq(Nat \union {Junk})
    OBVIOUS
  <2> QED BY <1>1, <2>1, <2>2 DEF Init, TypeOK, Struct, Cell
<1>3. BlockMatches
  BY <1>1, NoArraySound DEF BlockMatches, Sound
<1> QED BY <1>2, <1>3 DEF Inv, Init, ConcatInv

\* Every step keeps the invariant, and a concatenation that ends leaves arr1
\* as it was.
LEMMA Step ==
  ASSUME Inv, [Next]_vars
  PROVE  Inv' /\ (pc = "concat" /\ pc' = "idle" => List("arr1")' = before)
<1>1. ASSUME NEW a \in Arrays,
             \/ \E d \in BOOLEAN : DYNARR_makeNewArray(a, d)
             \/ DYNARR_makeNewFails(a) \/ DYNARR_addElem(a) \/ DYNARR_addElemFails(a)
             \/ destroyPersistent(a) \/ DYNARR_destroyArray(a)
      PROVE  Inv' /\ pc = "idle"
  BY <1>1, IdleSteps
<1>2. CASE DYNARR_concatArrs
  <2>1. pc' = "concat"
    BY <1>2 DEF DYNARR_concatArrs
  <2> QED BY <1>2, <2>1, ConcatBegins
<1>3. CASE concatAdds
  <2>1. pc' = pc
    BY <1>3 DEF concatAdds, concat
  <2> QED BY <1>3, <2>1, ConcatGoesOn
<1>4. CASE concatFails
  BY <1>4, ConcatUndone
<1>5. CASE concatReturns
  BY <1>5, ConcatOver
<1>6. CASE UNCHANGED vars
  BY <1>6 DEF vars, concat, Inv, TypeOK, BlockMatches, ConcatInv
<1> QED BY <1>1, <1>2, <1>3, <1>4, <1>5, <1>6 DEF Next

\* DYNARR_resizeArr asks for bytes and counts elements, and no store is ever
\* behind the block, for every first capacity and element size and whatever
\* allocation fails.
THEOREM NeverBehindTheBlock == Spec => []BlockMatches
<1>1. Init => Inv
  BY Initially
<1>2. Inv /\ [Next]_vars => Inv'
  BY Step
<1>3. Inv => BlockMatches
  BY DEF Inv
<1> QED BY <1>1, <1>2, <1>3, PTL DEF Spec

\* A concatenation that runs out of memory, after any number of elements and
\* of new blocks, leaves arr1 as it was (depricated/DynamicArray.c:97-100).
THEOREM ConcatRollsBack == Spec => FailureKeeps
<1>1. Init => Inv
  BY Initially
<1>2. Inv /\ [Next]_vars => Inv'
  BY Step
<1>3. Inv /\ [Next]_vars => [pc = "concat" /\ pc' = "idle" => List("arr1")' = before]_vars
  BY Step
<1> QED BY <1>1, <1>2, <1>3, PTL DEF Spec, FailureKeeps

-----------------------------------------------------------------------------
(* Who owns an element. *)

LEMMA SeqGrows ==
  ASSUME NEW n \in Nat, NEW s \in Seq(1 .. n)
  PROVE  s \in Seq(1 .. n + 1)
<1>1. 1 .. n \subseteq 1 .. n + 1
  OBVIOUS
<1> QED BY <1>1

\* A pointer that was made just now is nowhere yet.
LEMMA NewElement ==
  ASSUME NEW n \in Nat, NEW s \in Seq(1 .. n), Distinct(s)
  PROVE  /\ Append(s, n + 1) \in Seq(1 .. n + 1) /\ Distinct(Append(s, n + 1))
         /\ \A t \in Seq(1 .. n) :
              /\ Apart(s, t) => Apart(Append(s, n + 1), t)
              /\ Apart(t, s) => Apart(t, Append(s, n + 1))
<1> DEFINE u == Append(s, n + 1)
<1>1. s \in Seq(1 .. n + 1) /\ n + 1 \in 1 .. n + 1
  BY SeqGrows
<1>2. /\ u \in Seq(1 .. n + 1) /\ Len(u) = Len(s) + 1 /\ Len(s) \in Nat
      /\ \A k \in 1 .. Len(s) : u[k] = s[k]
      /\ u[Len(s) + 1] = n + 1
  BY <1>1, AppendProperties, LenProperties
<1> HIDE DEF u
<1>3. \A k \in 1 .. Len(u) : k \in 1 .. Len(s) \/ k = Len(s) + 1
  BY <1>2
<1>4. \A k \in 1 .. Len(s) : s[k] \in 1 .. n /\ s[k] # n + 1
  <2>1. \A k \in 1 .. Len(s) : s[k] \in 1 .. n
    BY ElementOfSeq
  <2>2. n + 1 \notin 1 .. n
    OBVIOUS
  <2> QED BY <2>1, <2>2
<1>5. Distinct(u)
  BY <1>2, <1>3, <1>4 DEF Distinct
<1>6. ASSUME NEW t \in Seq(1 .. n)
      PROVE  /\ Apart(s, t) => Apart(u, t)
             /\ Apart(t, s) => Apart(t, u)
  <2>1. \A k \in 1 .. Len(t) : t[k] \in 1 .. n
    BY ElementOfSeq
  <2>2. n + 1 \notin 1 .. n
    OBVIOUS
  <2>3. \A k \in 1 .. Len(t) : t[k] # n + 1
    BY <2>1, <2>2
  <2> QED BY <1>2, <1>3, <2>3 DEF Apart
<1> QED BY <1>2, <1>5, <1>6 DEF u

\* The elements of an array go to the destructor, behind those before.
LEMMA MoreFreed ==
  ASSUME NEW S, NEW s \in Seq(S), NEW t \in Seq(S), Distinct(s), Distinct(t), Apart(t, s)
  PROVE  /\ s \o t \in Seq(S) /\ Distinct(s \o t)
         /\ \A u : Apart(u, s) /\ Apart(u, t) => Apart(u, s \o t)
<1> DEFINE v == s \o t
           m == Len(s)
<1>1. /\ v \in Seq(S) /\ Len(v) = m + Len(t) /\ m \in Nat /\ Len(t) \in Nat
      /\ \A k \in 1 .. Len(v) : v[k] = IF k <= m THEN s[k] ELSE t[k - m]
  BY ConcatProperties, LenProperties
<1> HIDE DEF v, m
<1>2. ASSUME NEW k \in 1 .. Len(v)
      PROVE  \/ k \in 1 .. m /\ v[k] = s[k]
             \/ k > m /\ k - m \in 1 .. Len(t) /\ v[k] = t[k - m]
  BY <1>1
<1>3. ASSUME NEW k \in 1 .. Len(v), NEW l \in 1 .. Len(v), v[k] = v[l]
      PROVE  k = l
  <2>1. CASE k \in 1 .. m /\ l \in 1 .. m
    BY <1>1, <1>2, <1>3, <2>1 DEF Distinct, m
  <2>2. CASE k > m /\ l > m
    <3>1. k - m \in 1 .. Len(t) /\ l - m \in 1 .. Len(t) /\ t[k - m] = t[l - m]
      BY <1>1, <1>2, <1>3, <2>2
    <3>2. k - m = l - m
      BY <3>1 DEF Distinct
    <3> QED BY <1>1, <3>2
  <2>3. CASE k \in 1 .. m /\ l > m
    <3>1. l - m \in 1 .. Len(t) /\ s[k] = t[l - m]
      BY <1>1, <1>2, <1>3, <2>3
    <3> QED BY <2>3, <3>1 DEF Apart, m
  <2>4. CASE k > m /\ l \in 1 .. m
    <3>1. k - m \in 1 .. Len(t) /\ s[l] = t[k - m]
      BY <1>1, <1>2, <1>3, <2>4
    <3> QED BY <2>4, <3>1 DEF Apart, m
  <2> QED BY <1>1, <1>2, <2>1, <2>2, <2>3, <2>4
<1>4. ASSUME NEW u, Apart(u, s), Apart(u, t), NEW k \in 1 .. Len(u), NEW l \in 1 .. Len(v)
      PROVE  u[k] # v[l]
  BY <1>2, <1>4 DEF Apart, m
<1>5. Distinct(v) /\ \A u : Apart(u, s) /\ Apart(u, t) => Apart(u, v)
  BY <1>3, <1>4 DEF Distinct, Apart
<1> QED BY <1>1, <1>5 DEF v

\* Storing an element puts it at the end of what the user sees.
LEMMA AddedLast ==
  ASSUME NEW r, Sound(r), r.capacity > 0, NEW e \in Cell
  PROVE  SubSeq(Added(r, e).elems, 1, Added(r, e).size) = Append(SubSeq(r.elems, 1, r.size), e)
<1> DEFINE q == Added(r, e)
           room == IF Full(r) THEN DYNARR_resizeArr(r, 2 * r.size) ELSE r
<1>1. /\ Sound(q) /\ q.size = r.size + 1 /\ r.size \in Nat
      /\ \A k \in 1 .. r.size : q.elems[k] = r.elems[k]
  BY AddSound DEF Sound, Struct
<1>2. q.elems[r.size + 1] = e
  <2>1. /\ r \in Struct /\ r.size \in Nat /\ r.capacity \in Nat /\ r.size <= r.capacity
        /\ r.elems \in Seq(Cell) /\ Len(r.elems) = r.capacity
    BY DEF Sound, Struct
  <2>2. room \in Struct /\ Len(room.elems) > r.size
    <3>1. CASE ~Full(r)
      BY <2>1, <3>1 DEF Full
    <3>2. CASE Full(r)
      <4> DEFINE p == [DYNARR_resizeArr(r, 2 * r.size) EXCEPT !.size = r.size]
      <4>1. p = DYNARR_resizeArr(r, 2 * r.size)
        BY <2>1 DEF DYNARR_resizeArr, Resized, Struct
      <4>2. 2 * r.size \in Nat /\ r.size <= 2 * r.size /\ r.size < 2 * r.size
        BY <2>1, <3>2 DEF Full
      <4>3. Sound(p) /\ p.capacity = 2 * r.size
        BY <2>1, <4>2, ResizeSound
      <4> HIDE DEF p
      <4> QED BY <3>2, <4>1, <4>2, <4>3 DEF Sound
    <3> QED BY <3>1, <3>2
  <2>3. q = [room EXCEPT !.elems[r.size + 1] = e, !.size = @ + 1]
    BY DEF Added
  <2> HIDE DEF room
  <2>4. q.elems = [room.elems EXCEPT ![r.size + 1] = e]
    BY <2>2, <2>3 DEF Struct
  <2>5. room.elems \in Seq(Cell) /\ r.size + 1 \in 1 .. Len(room.elems)
    BY <2>1, <2>2 DEF Struct
  <2>6. r.size + 1 \in DOMAIN room.elems
    BY <2>5, LenProperties
  <2> QED BY <2>4, <2>6
<1> HIDE DEF q
<1> DEFINE old == SubSeq(r.elems, 1, r.size)
           new == SubSeq(q.elems, 1, q.size)
<1>3. /\ old \in Seq(Cell) /\ Len(old) = r.size
      /\ \A k \in 1 .. r.size : old[k] = r.elems[k]
  BY ListIs
<1>4. /\ new \in Seq(Cell) /\ Len(new) = r.size + 1
      /\ \A k \in 1 .. r.size + 1 : new[k] = q.elems[k]
  BY <1>1, ListIs
<1> HIDE DEF old, new
<1>5. /\ Append(old, e) \in Seq(Cell) /\ Len(Append(old, e)) = r.size + 1
      /\ \A k \in 1 .. r.size : Append(old, e)[k] = old[k]
      /\ Append(old, e)[r.size + 1] = e
  BY <1>3, AppendProperties
<1>6. \A k \in 1 .. r.size + 1 : new[k] = Append(old, e)[k]
  <2>1. \A k \in 1 .. r.size + 1 : k \in 1 .. r.size \/ k = r.size + 1
    BY <1>1
  <2> QED BY <1>1, <1>2, <1>3, <1>4, <1>5, <2>1
<1>7. new = Append(old, e)
  BY <1>4, <1>5, <1>6, SeqEqual
<1> QED BY <1>7 DEF new, old, q

LEMMA SameOwners ==
  ASSUME OwnedOnce, UNCHANGED <<made, freed>>, \A a \in Arrays : Owned(a)' = Owned(a)
  PROVE  OwnedOnce'
BY DEF OwnedOnce, Arrays

\* The other array.
LEMMA Other ==
  ASSUME OwnedOnce, NEW a \in Arrays, NEW b \in Arrays, a # b
  PROVE  Apart(Owned(a), Owned(b))
<1>1. /\ (a = "arr1" /\ b = "arr2") \/ (a = "arr2" /\ b = "arr1")
      /\ Apart(Owned("arr1"), Owned("arr2"))
  BY DEF Arrays, OwnedOnce
<1> QED BY <1>1 DEF Apart

LEMMA OwnersAdd ==
  ASSUME Inv, OwnedOnce, NEW a \in Arrays, DYNARR_addElem(a)
  PROVE  OwnedOnce'
<1>1. /\ pc = "idle" /\ pc' = "idle" /\ life[a] = "array" /\ freed' = freed
      /\ made < MaxElems /\ made' = made + 1
      /\ arr' = [arr EXCEPT ![a] = Added(arr[a], made + 1)]
  BY DEF DYNARR_addElem, Usable, concat
<1>2. /\ made \in Nat /\ made + 1 \in Cell /\ Sound(arr[a]) /\ arr[a].capacity > 0
      /\ arr'[a] = Added(arr[a], made + 1) /\ \A b \in Arrays \ {a} : arr'[b] = arr[b]
  BY <1>1, ArraysAreSound DEF Inv, TypeOK, Cell
<1>3. \A b \in Arrays : Owned(b) = List(b) /\ Owned(b)' = List(b)'
  BY <1>1 DEF Owned
<1>4. /\ Owned(a)' = Append(Owned(a), made + 1)
      /\ \A b \in Arrays \ {a} : Owned(b)' = Owned(b)
  <2>1. /\ List(a)' = SubSeq(Added(arr[a], made + 1).elems, 1, Added(arr[a], made + 1).size)
        /\ List(a) = SubSeq(arr[a].elems, 1, arr[a].size)
        /\ \A b \in Arrays \ {a} : List(b)' = List(b)
    BY <1>2 DEF List
  <2> QED BY <1>2, <1>3, <2>1, AddedLast
<1>5. /\ \A b \in Arrays : /\ Owned(b) \in Seq(1 .. made)
                           /\ Distinct(Owned(b)) /\ Apart(Owned(b), freed)
      /\ freed \in Seq(1 .. made) /\ Distinct(freed)
  BY DEF OwnedOnce
<1>6. /\ Owned(a)' \in Seq(1 .. made + 1) /\ Distinct(Owned(a)') /\ Apart(Owned(a)', freed)
      /\ \A b \in Arrays \ {a} : Apart(Owned(a)', Owned(b)) /\ Apart(Owned(b), Owned(a)')
  <2>1. \A b \in Arrays \ {a} : Apart(Owned(a), Owned(b)) /\ Apart(Owned(b), Owned(a))
    BY Other
  <2> QED BY <1>2, <1>4, <1>5, <2>1, NewElement
<1>7. \A s \in Seq(1 .. made) : s \in Seq(1 .. made + 1)
  BY <1>2, SeqGrows
<1>8. Apart(Owned("arr1")', Owned("arr2")')
  <2>1. a = "arr1" \/ a = "arr2"
    BY DEF Arrays
  <2> QED BY <1>4, <1>6, <2>1 DEF Arrays
<1>9. \A b \in Arrays : /\ Owned(b)' \in Seq(1 .. made + 1)
                        /\ Distinct(Owned(b)') /\ Apart(Owned(b)', freed)
  BY <1>4, <1>5, <1>6, <1>7
<1>10. made' <= MaxElems
  BY <1>1, <1>2, DynamicArrayAssumption
<1> QED BY <1>1, <1>5, <1>7, <1>8, <1>9, <1>10 DEF OwnedOnce

LEMMA OwnersDestroy ==
  ASSUME Inv, OwnedOnce, NEW a \in Arrays, DYNARR_destroyArray(a)
  PROVE  OwnedOnce'
<1>1. /\ pc = "idle" /\ pc' = "idle" /\ made' = made
      /\ arr' = [arr EXCEPT ![a] = NoArray]
      /\ freed' = freed \o List(a) \/ freed' = freed
  BY DEF DYNARR_destroyArray, Destroy, Usable, concat
<1>2. arr'[a] = NoArray /\ \A b \in Arrays \ {a} : arr'[b] = arr[b]
  BY <1>1 DEF Inv, TypeOK
<1>3. \A b \in Arrays : Owned(b) = List(b) /\ Owned(b)' = List(b)'
  BY <1>1 DEF Owned
<1>4. Owned(a)' = << >> /\ \A b \in Arrays \ {a} : Owned(b)' = Owned(b)
  <2>1. \A b \in Arrays \ {a} : List(b)' = List(b)
    BY <1>2 DEF List
  <2>2. List(a)' = SubSeq(NoArray.elems, 1, NoArray.size)
    BY <1>2 DEF List
  <2>3. /\ SubSeq(NoArray.elems, 1, NoArray.size) \in Seq(Cell)
        /\ Len(SubSeq(NoArray.elems, 1, NoArray.size)) = 0
    <3>1. NoArray.size = 0
      BY DEF NoArray
    <3> QED BY <3>1, NoArraySound, ListIs
  <2>4. List(a)' = << >>
    BY <2>2, <2>3, EmptySeq
  <2> QED BY <1>3, <2>1, <2>4
<1>5. /\ \A b \in Arrays : /\ Owned(b) \in Seq(1 .. made)
                           /\ Distinct(Owned(b)) /\ Apart(Owned(b), freed)
      /\ freed \in Seq(1 .. made) /\ Distinct(freed) /\ made <= MaxElems
  BY DEF OwnedOnce
<1>6. /\ freed' \in Seq(1 .. made) /\ Distinct(freed')
      /\ \A b \in Arrays \ {a} : Apart(Owned(b), freed')
  <2>1. CASE freed' = freed
    BY <1>5, <2>1
  <2>2. CASE freed' = freed \o List(a)
    <3>1. \A b \in Arrays \ {a} : Apart(Owned(b), Owned(a))
      BY Other
    <3>2. freed' = freed \o Owned(a)
      BY <1>3, <2>2
    <3> QED BY <1>5, <3>1, <3>2, MoreFreed
  <2> QED BY <1>1, <2>1, <2>2
<1>7. /\ Len(<< >>) = 0 /\ << >> \in Seq(1 .. made) /\ Distinct(<< >>)
      /\ \A s : Apart(<< >>, s) /\ Apart(s, << >>)
  BY DEF Distinct, Apart
<1>8. Apart(Owned("arr1")', Owned("arr2")')
  <2>1. a = "arr1" \/ a = "arr2"
    BY DEF Arrays
  <2> QED BY <1>4, <1>7, <2>1 DEF Arrays
<1>9. \A b \in Arrays : /\ Owned(b)' \in Seq(1 .. made)
                        /\ Distinct(Owned(b)') /\ Apart(Owned(b)', freed')
  BY <1>4, <1>5, <1>6, <1>7
<1> QED BY <1>1, <1>5, <1>6, <1>8, <1>9 DEF OwnedOnce

\* A new array has no elements.
LEMMA OwnersMake ==
  ASSUME Inv, Inv', OwnedOnce, NEW a \in Arrays, NEW d \in BOOLEAN, DYNARR_makeNewArray(a, d)
  PROVE  OwnedOnce'
<1>1. /\ pc = "idle" /\ pc' = "idle" /\ UNCHANGED <<made, freed>>
      /\ arr' = [arr EXCEPT ![a] = [Resized(NoArray, DYNARR_INITSIZE, DYNARR_INITSIZE * sizeof_ptr)
                                      EXCEPT !.destructor = d]]
  BY DEF DYNARR_makeNewArray, concat
<1>2. arr'[a].size = 0 /\ \A b \in Arrays \ {a} : arr'[b] = arr[b]
  BY <1>1 DEF Inv, TypeOK, Resized, NoArray
<1>3. arr'[a].elems \in Seq(Cell)
  BY DEF Inv, TypeOK, Cell
<1>4. List(a)' = << >>
  <2>1. List(a)' = SubSeq(arr'[a].elems, 1, 0)
    BY <1>2 DEF List
  <2>2. \A e \in Seq(Cell) : SubSeq(e, 1, 0) = << >>
    OBVIOUS
  <2> QED BY <1>3, <2>1, <2>2
<1>5. Owned(a)' = << >> /\ \A b \in Arrays \ {a} : Owned(b)' = Owned(b)
  <2>1. \A b \in Arrays \ {a} : List(b)' = List(b)
    BY <1>2 DEF List
  <2> QED BY <1>1, <1>4, <2>1 DEF Owned
<1>6. /\ << >> \in Seq(1 .. made) /\ Distinct(<< >>)
      /\ \A s : Apart(<< >>, s) /\ Apart(s, << >>)
  BY DEF Distinct, Apart
<1>7. Apart(Owned("arr1")', Owned("arr2")')
  <2>1. a = "arr1" \/ a = "arr2"
    BY DEF Arrays
  <2> QED BY <1>5, <1>6, <2>1 DEF Arrays
<1>8. \A b \in Arrays : /\ Owned(b)' \in Seq(1 .. made)
                        /\ Distinct(Owned(b)') /\ Apart(Owned(b)', freed)
  BY <1>5, <1>6 DEF OwnedOnce
<1> QED BY <1>1, <1>7, <1>8 DEF OwnedOnce

LEMMA OwnersStep ==
  ASSUME Inv, Inv', OwnedOnce, [Next]_vars
  PROVE  OwnedOnce'
<1>1. ASSUME NEW a \in Arrays, NEW d \in BOOLEAN, DYNARR_makeNewArray(a, d) PROVE OwnedOnce'
  BY <1>1, OwnersMake
<1>2. ASSUME NEW a \in Arrays, DYNARR_addElem(a) PROVE OwnedOnce'
  BY <1>2, OwnersAdd
<1>3. ASSUME NEW a \in Arrays, DYNARR_destroyArray(a) PROVE OwnedOnce'
  BY <1>3, OwnersDestroy
<1>4. ASSUME UNCHANGED <<arr, made, freed>>,
             (pc' = pc /\ before' = before) \/ Owned("arr1")' = Owned("arr1")
      PROVE  OwnedOnce'
  <2>1. \A a \in Arrays : List(a)' = List(a)
    BY <1>4 DEF List
  <2>2. \A a \in Arrays : Owned(a)' = Owned(a)
    BY <1>4, <2>1 DEF Owned, Arrays
  <2> QED BY <1>4, <2>2, SameOwners
<1>5. ASSUME NEW a \in Arrays,
             DYNARR_makeNewFails(a) \/ DYNARR_addElemFails(a) \/ destroyPersistent(a)
      PROVE  OwnedOnce'
  BY <1>4, <1>5 DEF DYNARR_makeNewFails, DYNARR_addElemFails, destroyPersistent, concat, vars
<1>6. CASE DYNARR_concatArrs
  <2>1. /\ UNCHANGED <<arr, made, freed>> /\ pc = "idle" /\ pc' = "concat"
        /\ before' = List("arr1")
    BY <1>6 DEF DYNARR_concatArrs, Usable, Arrays
  <2>2. Owned("arr1")' = Owned("arr1")
    BY <2>1 DEF Owned
  <2> QED BY <1>4, <2>1, <2>2
<1>7. CASE concatAdds \/ concatFails \/ concatReturns
  <2>1. /\ pc = "concat" /\ UNCHANGED <<made, freed, before>>
        /\ arr' = arr \/ \E r : arr' = [arr EXCEPT !["arr1"] = r]
        /\ pc' \in {"idle", "concat"}
    BY <1>7 DEF concatAdds, concatFails, Undo, concatReturns, Looping, concat
  <2>2. List("arr2")' = List("arr2")
    BY <2>1 DEF List, Inv, TypeOK, Arrays
  <2>3. pc' = "idle" => List("arr1")' = before
    BY <1>7, ConcatUndone, ConcatOver, <2>1 DEF concatAdds, concat
  <2>4. Owned("arr1")' = Owned("arr1") /\ Owned("arr2")' = Owned("arr2")
    BY <2>1, <2>2, <2>3 DEF Owned
  <2> QED BY <2>1, <2>4, SameOwners DEF Arrays
<1>8. CASE UNCHANGED vars
  BY <1>4, <1>8 DEF vars, concat
<1> QED BY <1>1, <1>2, <1>3, <1>5, <1>6, <1>7, <1>8 DEF Next

\* No destructor gets an element twice, or what no user has stored, in every
\* order of adding, concatenating and destroying: what a failed concatenation
\* had copied into arr1 is not in it any more (depricated/DynamicArray.c:78-81
\* warns of the double free).
THEOREM FreedOnce == Spec => []NoDoubleFree
<1>1. Init => Inv
  BY Initially
<1>2. Inv /\ [Next]_vars => Inv'
  BY Step
<1>3. Init => OwnedOnce
  <2> SUFFICES ASSUME Init PROVE OwnedOnce
    OBVIOUS
  <2>1. /\ made = 0 /\ freed = << >> /\ pc = "idle"
        /\ \A a \in Arrays : arr[a] = NoArray
    BY DEF Init
  <2>2. \A a \in Arrays : Owned(a) = << >>
    BY <2>1 DEF Owned, List, NoArray
  <2>3. /\ << >> \in Seq(1 .. made) /\ Distinct(<< >>) /\ Apart(<< >>, << >>)
    BY DEF Distinct, Apart
  <2>4. made <= MaxElems
    BY <2>1, DynamicArrayAssumption
  <2>5. "arr1" \in Arrays /\ "arr2" \in Arrays
    BY DEF Arrays
  <2> QED BY <2>1, <2>2, <2>3, <2>4, <2>5 DEF OwnedOnce
<1>4. Inv /\ Inv' /\ OwnedOnce /\ [Next]_vars => OwnedOnce'
  BY OwnersStep
<1>5. Inv /\ OwnedOnce => NoDoubleFree
  <2> SUFFICES ASSUME Inv, OwnedOnce, NEW a \in 1 .. Len(freed), NEW b \in 1 .. Len(freed)
               PROVE  freed[a] # Junk /\ (freed[a] = freed[b] => a = b)
    BY DEF NoDoubleFree
  <2>1. freed[a] \in 1 .. made
    BY ElementOfSeq DEF OwnedOnce
  <2>2. 1 .. made \subseteq 1 .. MaxElems
    BY DynamicArrayAssumption DEF Inv, TypeOK, OwnedOnce
  <2> QED BY <2>1, <2>2, DynamicArrayAssumption DEF OwnedOnce, Distinct
<1> QED BY <1>1, <1>2, <1>3, <1>4, <1>5, PTL DEF Spec
=============================================================================
