-------------------------- MODULE DuplicatesProofs --------------------------
(***************************************************************************)
(* Proofs about Duplicates for every tree of directories, every content of *)
(* the files and every number of files that other processes change.        *)
(***************************************************************************)
EXTENDS Duplicates, SequenceTheorems, FiniteSetTheorems, TLAPS

-----------------------------------------------------------------------------
(* The tree. *)

Nodes == Files \union Dirs

LEMMA OneParent ==
  ASSUME NEW c \in Dirs, NEW d \in Dirs, NEW e \in Entries[c], e \in Entries[d]
  PROVE  c = d /\ e # Root
<1>1. e # Root /\ e \in Files \union Dirs
  BY DuplicatesAssumption
<1>2. PICK p \in Dirs : \A q \in Dirs : e \in Entries[q] => q = p
  BY <1>1, DuplicatesAssumption
<1> QED BY <1>1, <1>2

LEMMA AllReached ==
  ASSUME NEW V \in SUBSET Dirs, Root \in V, Under(V) \intersect Dirs \subseteq V
  PROVE  V = Dirs /\ Files \subseteq Under(V)
<1>1. \A d \in V : Entries[d] \intersect Dirs \subseteq V
  BY DEF Under
<1>2. V = Dirs
  BY <1>1, DuplicatesAssumption
<1>3. \A f \in Files : \E d \in Dirs : f \in Entries[d]
  BY DuplicatesAssumption
<1> QED BY <1>2, <1>3 DEF Under

LEMMA ListingType ==
  ASSUME TypeOK, NEW d \in Dirs
  PROVE  Listing(d) \in SUBSET Nodes
BY DuplicatesAssumption DEF TypeOK, Listing, Nodes

-----------------------------------------------------------------------------
(* The directories that are open: each has its own part of what is pending. *)

Without(r, e) == [r EXCEPT ![1] = @ \ {e}]

LEMMA TakeOne ==
  ASSUME NEW r \in Seq(SUBSET Nodes), r # << >>, Apart(r),
         NEW e \in Head(r), NEW t, t = Without(r, e)
  PROVE  /\ t \in Seq(SUBSET Nodes) /\ t # << >> /\ Len(t) = Len(r)
         /\ e \in Pending(r) /\ Pending(t) = Pending(r) \ {e} /\ Apart(t)
<1>1. Len(r) \in Nat /\ Len(r) >= 1 /\ 1 \in 1 .. Len(r) /\ Head(r) = r[1] /\ r[1] \in SUBSET Nodes
  BY HeadTailProperties, EmptySeq, LenProperties, ElementOfSeq
<1>2. /\ t \in Seq(SUBSET Nodes) /\ Len(t) = Len(r)
      /\ \A k \in 1 .. Len(r) : t[k] = IF k = 1 THEN r[1] \ {e} ELSE r[k]
  <2>1. r[1] \ {e} \in SUBSET Nodes
    BY <1>1
  <2> QED BY <1>1, <2>1, ExceptSeq DEF Without
<1>3. t # << >>
  BY <1>1, <1>2
<1>4. \A k \in 1 .. Len(r) : k # 1 => e \notin r[k]
  BY <1>1 DEF Apart
<1>5. \A k \in 1 .. Len(r) : t[k] = r[k] \ {e}
  BY <1>2, <1>4
<1>6. Pending(t) = Pending(r) \ {e}
  BY <1>2, <1>5 DEF Pending
<1>7. Apart(t)
  BY <1>2, <1>5 DEF Apart
<1>8. e \in Pending(r)
  BY <1>1 DEF Pending
<1> QED BY <1>2, <1>3, <1>6, <1>7, <1>8

LEMMA PushOne ==
  ASSUME NEW r \in Seq(SUBSET Nodes), Apart(r),
         NEW E \in SUBSET Nodes, E \intersect Pending(r) = {}, NEW t, t = << E >> \o r
  PROVE  /\ t \in Seq(SUBSET Nodes) /\ t # << >> /\ Len(t) = Len(r) + 1
         /\ Pending(t) = E \union Pending(r) /\ Apart(t)
<1>1. << E >> \in Seq(SUBSET Nodes) /\ Len(<< E >>) = 1 /\ << E >>[1] = E /\ Len(r) \in Nat
  BY LenProperties
<1>2. /\ t \in Seq(SUBSET Nodes) /\ Len(t) = 1 + Len(r)
      /\ \A k \in 1 .. 1 + Len(r) : t[k] = IF k <= 1 THEN << E >>[k] ELSE r[k - 1]
  BY <1>1, ConcatProperties
<1>3. t[1] = E /\ \A k \in 1 .. Len(r) : t[k + 1] = r[k]
  BY <1>1, <1>2
<1>4. \A k \in 1 .. Len(t) : k = 1 \/ (k - 1 \in 1 .. Len(r) /\ t[k] = r[k - 1])
  BY <1>1, <1>2
<1>5. Pending(t) = E \union Pending(r)
  <2>1. Pending(t) \subseteq E \union Pending(r)
    BY <1>3, <1>4 DEF Pending
  <2>2. E \subseteq Pending(t)
    BY <1>1, <1>2, <1>3 DEF Pending
  <2>3. \A k \in 1 .. Len(r) : r[k] \subseteq Pending(t)
    <3> SUFFICES ASSUME NEW k \in 1 .. Len(r) PROVE r[k] \subseteq Pending(t)
      OBVIOUS
    <3>1. k + 1 \in 1 .. Len(t) /\ t[k + 1] = r[k]
      BY <1>1, <1>2, <1>3
    <3> QED BY <3>1 DEF Pending
  <2>4. Pending(r) \subseteq Pending(t)
    BY <2>3 DEF Pending
  <2> QED BY <2>1, <2>2, <2>4
<1>6. Apart(t)
  <2> SUFFICES ASSUME NEW k \in 1 .. Len(t), NEW l \in 1 .. Len(t), k # l
               PROVE  t[k] \intersect t[l] = {}
    BY DEF Apart
  <2>1. \A m \in 1 .. Len(r) : E \intersect r[m] = {}
    BY DEF Pending
  <2>2. CASE k = 1
    BY <1>3, <1>4, <2>1, <2>2
  <2>3. CASE l = 1
    BY <1>3, <1>4, <2>1, <2>3
  <2>4. CASE k # 1 /\ l # 1
    <3>1. k - 1 \in 1 .. Len(r) /\ l - 1 \in 1 .. Len(r) /\ k - 1 # l - 1
      BY <1>1, <1>2, <2>4
    <3>2. t[k] = r[k - 1] /\ t[l] = r[l - 1]
      BY <1>4, <2>4
    <3> QED BY <3>1, <3>2 DEF Apart
  <2> QED BY <2>2, <2>3, <2>4
<1>7. t # << >>
  BY <1>1, <1>2
<1> QED BY <1>1, <1>2, <1>5, <1>6, <1>7

LEMMA DropHead ==
  ASSUME NEW r \in Seq(SUBSET Nodes), r # << >>, Apart(r), Head(r) = {}
  PROVE  /\ Tail(r) \in Seq(SUBSET Nodes) /\ Len(Tail(r)) = Len(r) - 1
         /\ Pending(Tail(r)) = Pending(r) /\ Apart(Tail(r))
<1>1. Len(r) \in Nat /\ Len(r) >= 1 /\ Head(r) = r[1]
  BY EmptySeq, LenProperties
<1>2. /\ Tail(r) \in Seq(SUBSET Nodes) /\ Len(Tail(r)) = Len(r) - 1
      /\ \A k \in 1 .. Len(Tail(r)) : Tail(r)[k] = r[k + 1]
  BY HeadTailProperties
<1>3. \A k \in 1 .. Len(r) - 1 : Tail(r)[k] = r[k + 1] /\ k + 1 \in 1 .. Len(r)
  BY <1>1, <1>2
<1>4. \A k \in 1 .. Len(r) : k = 1 \/ (k - 1 \in 1 .. Len(r) - 1 /\ Tail(r)[k - 1] = r[k])
  BY <1>1, <1>3
<1>5. Pending(Tail(r)) = Pending(r)
  <2>1. Pending(Tail(r)) \subseteq Pending(r)
    BY <1>2, <1>3 DEF Pending
  <2>2. \A k \in 1 .. Len(r) : r[k] \subseteq Pending(Tail(r))
    BY <1>1, <1>2, <1>4 DEF Pending
  <2>3. Pending(r) \subseteq Pending(Tail(r))
    BY <2>2 DEF Pending
  <2> QED BY <2>1, <2>3
<1>6. Apart(Tail(r))
  <2> SUFFICES ASSUME NEW k \in 1 .. Len(r) - 1, NEW l \in 1 .. Len(r) - 1, k # l
               PROVE  Tail(r)[k] \intersect Tail(r)[l] = {}
    BY <1>2 DEF Apart
  <2>1. k + 1 # l + 1
    BY <1>1
  <2> QED BY <1>3, <2>1 DEF Apart
<1> QED BY <1>2, <1>5, <1>6

-----------------------------------------------------------------------------
(* The walk. *)

LEMMA WalkStarts ==
  ASSUME TypeOK, NEW r, r = << Listing(Root) >>
  PROVE  /\ r \in Seq(SUBSET Nodes) /\ r # << >> /\ Len(r) = 1
         /\ WalkedTo({Root}, {}, r)
<1>1. Root \in Dirs /\ Root \notin Entries[Root]
  BY DuplicatesAssumption
<1>2. Listing(Root) \in SUBSET Nodes
  BY <1>1, ListingType
<1> HIDE DEF Listing
<1>3. r \in Seq(SUBSET Nodes) /\ r # << >> /\ Len(r) = 1 /\ r[1] = Listing(Root)
  BY <1>2
<1>4. Pending(r) = Listing(Root) /\ Apart(r)
  BY <1>3 DEF Pending, Apart
<1>5. Under({Root}) = Entries[Root]
  BY DEF Under
<1>6. WalkedTo({Root}, {}, r)
  BY <1>1, <1>4, <1>5 DEF WalkedTo, Listing
<1> QED BY <1>3, <1>6

LEMMA WalkTakesFile ==
  ASSUME NEW r \in Seq(SUBSET Nodes), r # << >>,
         NEW V \in SUBSET Dirs, NEW seen, WalkedTo(V, seen, r),
         NEW f \in Head(r), f \in Files, NEW t, t = Without(r, f)
  PROVE  /\ t \in Seq(SUBSET Nodes) /\ t # << >> /\ Len(t) = Len(r)
         /\ f \notin seen /\ WalkedTo(V, seen \union {f}, t)
<1>1. Apart(r)
  BY DEF WalkedTo
<1>2. /\ t \in Seq(SUBSET Nodes) /\ t # << >> /\ Len(t) = Len(r)
      /\ f \in Pending(r) /\ Pending(t) = Pending(r) \ {f} /\ Apart(t)
  BY <1>1, TakeOne
<1>3. f \notin Dirs /\ f \notin seen
  BY <1>2, DuplicatesAssumption DEF WalkedTo
<1>4. WalkedTo(V, seen \union {f}, t)
  BY <1>2, <1>3 DEF WalkedTo
<1> QED BY <1>2, <1>3, <1>4

LEMMA WalkDescends ==
  ASSUME TypeOK, NEW r \in Seq(SUBSET Nodes), r # << >>,
         NEW V \in SUBSET Dirs, NEW seen \in SUBSET Files, WalkedTo(V, seen, r),
         NEW d \in Head(r), d \in Dirs,
         NEW t, t = << Listing(d) >> \o Without(r, d)
  PROVE  /\ t \in Seq(SUBSET Nodes) /\ t # << >> /\ Len(t) = Len(r) + 1
         /\ WalkedTo(V \union {d}, seen, t)
<1> DEFINE u == Without(r, d)
<1>1. Apart(r)
  BY DEF WalkedTo
<1>2. /\ u \in Seq(SUBSET Nodes) /\ Len(u) = Len(r)
      /\ d \in Pending(r) /\ Pending(u) = Pending(r) \ {d} /\ Apart(u)
  <2>1. u = Without(r, d)
    OBVIOUS
  <2> HIDE DEF u
  <2> QED BY <1>1, <2>1, TakeOne
<1>3. t = << Listing(d) >> \o u
  OBVIOUS
<1> HIDE DEF u
<1>4. d \notin V /\ d \notin seen /\ d \in Under(V)
  BY <1>2, DuplicatesAssumption DEF WalkedTo
<1>5. Entries[d] \intersect Under(V) = {}
  <2> SUFFICES ASSUME NEW e \in Entries[d], e \in Under(V) PROVE FALSE
    OBVIOUS
  <2>1. PICK c \in V : e \in Entries[c]
    BY DEF Under
  <2> QED BY <1>4, <2>1, OneParent
<1>6. d \notin Entries[d] /\ Root \notin Entries[d]
  BY <1>4, <1>5, OneParent
<1>7. Listing(d) \subseteq Entries[d] /\ Listing(d) \in SUBSET Nodes
  BY ListingType DEF Listing
<1>8. Listing(d) \intersect Pending(u) = {}
  BY <1>2, <1>5, <1>7 DEF WalkedTo
<1>9. /\ t \in Seq(SUBSET Nodes) /\ t # << >> /\ Len(t) = Len(u) + 1
      /\ Pending(t) = Listing(d) \union Pending(u) /\ Apart(t)
  BY <1>2, <1>3, <1>7, <1>8, PushOne
<1>10. Under(V \union {d}) = Under(V) \union Entries[d]
  BY DEF Under
<1>11. Pending(t) = Listing(d) \union (Pending(r) \ {d})
  BY <1>2, <1>9
<1>12. WalkedTo(V \union {d}, seen, t)
  <2> DEFINE W == V \union {d}
  <2>1. Root \in W /\ W \ {Root} \subseteq Under(W)
    BY <1>4, <1>10 DEF WalkedTo
  <2>2. Pending(t) \union seen \subseteq Under(W)
    BY <1>7, <1>10, <1>11 DEF WalkedTo
  <2>3. (Under(W) \intersect Dirs) \ W \subseteq Pending(t)
    BY <1>10, <1>11 DEF WalkedTo, Listing
  <2>4. Pending(t) \intersect (W \union seen) = {}
    <3>1. V \ {Root} \subseteq Under(V) /\ seen \subseteq Under(V)
          /\ Pending(r) \intersect (V \union seen) = {}
      BY DEF WalkedTo
    <3>2. Listing(d) \intersect (W \union seen) = {}
      BY <1>5, <1>6, <1>7, <3>1
    <3> QED BY <1>4, <1>11, <3>1, <3>2
  <2>5. (present \ created) \intersect Under(W) \subseteq Pending(t) \union seen
    <3>1. (present \ created) \intersect Under(V) \subseteq Pending(r) \union seen
      BY DEF WalkedTo
    <3>2. d \notin present
      BY DuplicatesAssumption DEF TypeOK
    <3> QED BY <1>10, <1>11, <3>1, <3>2 DEF Listing
  <2> QED BY <1>9, <2>1, <2>2, <2>3, <2>4, <2>5 DEF WalkedTo
<1> QED BY <1>2, <1>9, <1>12

LEMMA WalkLeaves ==
  ASSUME NEW r \in Seq(SUBSET Nodes), r # << >>,
         NEW V \in SUBSET Dirs, NEW seen, WalkedTo(V, seen, r), Head(r) = {}
  PROVE  /\ Tail(r) \in Seq(SUBSET Nodes) /\ Len(Tail(r)) = Len(r) - 1
         /\ WalkedTo(V, seen, Tail(r))
<1>1. Apart(r)
  BY DEF WalkedTo
<1>2. /\ Tail(r) \in Seq(SUBSET Nodes) /\ Len(Tail(r)) = Len(r) - 1
      /\ Pending(Tail(r)) = Pending(r) /\ Apart(Tail(r))
  BY <1>1, DropHead
<1> QED BY <1>2 DEF WalkedTo

\* When nothing is pending, the walk has been everywhere.
LEMMA WalkEnds ==
  ASSUME TypeOK, NEW V \in SUBSET Dirs, NEW seen, WalkedTo(V, seen, << >>)
  PROVE  present \ created \subseteq seen
<1>1. Pending(<< >>) = {}
  BY DEF Pending
<1>2. Under(V) \intersect Dirs \subseteq V
  BY <1>1 DEF WalkedTo
<1>3. Files \subseteq Under(V)
  BY <1>2, AllReached DEF WalkedTo
<1> QED BY <1>1, <1>3 DEF WalkedTo, TypeOK

\* What another process does to a file that there was is none of the walk's
\* business.
LEMMA WalkUndisturbed ==
  ASSUME NEW V \in SUBSET Dirs, NEW seen, WalkedTo(V, seen, reading),
         reading' = reading, (present \ created)' \subseteq present \ created
  PROVE  WalkedTo(V, seen, reading)'
BY DEF WalkedTo, Under, Pending, Apart

-----------------------------------------------------------------------------
(* The names. *)

LEMMA NamesType ==
  ASSUME TypeOK
  PROVE  /\ Len(elems) \in Nat /\ \A k \in 1 .. Len(elems) : elems[k] \in Files
         /\ Names \subseteq Files /\ IsFiniteSet(Names) /\ Cardinality(Names) \in Nat
         /\ IsFiniteSet(present) /\ Cardinality(present) \in Nat
<1>1. Len(elems) \in Nat /\ \A k \in 1 .. Len(elems) : elems[k] \in Files
  BY ElementOfSeq, LenProperties DEF TypeOK
<1>2. Names \subseteq Files
  BY <1>1 DEF Names
<1>3. IsFiniteSet(Names) /\ IsFiniteSet(present)
  BY <1>2, FS_Subset, DuplicatesAssumption DEF TypeOK
<1> QED BY <1>1, <1>2, <1>3, FS_CardinalityType

LEMMA SameCounted ==
  ASSUME UNCHANGED <<present, created, elems, cells>>
  PROVE  Counted' <=> Counted
BY DEF Counted, Names

\* What is left alone when only files change, or only the program counter.
LEMMA SameArray ==
  ASSUME UNCHANGED <<version, elems, cells, i, j, printed>>
  PROVE  /\ Names' = Names /\ Length' = Length /\ Printed' = Printed
         /\ \A a, b : Before(a, b)' <=> Before(a, b)
BY DEF Names, Length, Printed, Before

LEMMA SamePrinted ==
  ASSUME PrintedInv, UNCHANGED <<elems, printed, touched, present, content, i, j>>
  PROVE  PrintedInv'
<1>1. Printed' = Printed
  BY DEF Printed
<1>2. \A a, b : Before(a, b)' <=> Before(a, b)
  BY DEF Before
<1>3. IsFiniteSet(Printed)' /\ (Len(printed) = Cardinality(Printed))'
  BY <1>1 DEF PrintedInv
<1>4. ASSUME NEW k \in 1 .. Len(printed)
      PROVE  (\E a, b \in 1 .. Len(elems) :
                /\ Before(a, b) /\ printed[k] = <<elems[a], elems[b]>>
                /\ elems[a] \notin touched /\ elems[b] \notin touched =>
                     {elems[a], elems[b]} \subseteq present /\ content[elems[a]] = content[elems[b]])'
  BY <1>2 DEF PrintedInv
<1>5. ASSUME NEW a \in 1 .. Len(elems), NEW b \in 1 .. Len(elems), Before(a, b),
             {elems[a], elems[b]} \subseteq present \ touched, content[elems[a]] = content[elems[b]]
      PROVE  {elems[a], elems[b]} \in Printed
  BY <1>5 DEF PrintedInv
<1> QED BY <1>1, <1>2, <1>3, <1>4, <1>5 DEF PrintedInv

-----------------------------------------------------------------------------
(* The steps that end the program. *)

LEMMA ExitKeeps ==
  ASSUME DuplicatesInv, NEW how \in {"failed", "crashed"}, Exit(how),
         how = "crashed" =>
           /\ pc = "walk"
           /\ \/ version = "duplicates" /\ Len(elems) >= DYNARR_INITSIZE
              \/ version = "backup" /\ created # {}
  PROVE  DuplicatesInv'
<1>1. /\ pc' = how /\ UNCHANGED <<version, limit, present, content, touched, created, reading, elems, cells,
                                 i, j, size, pos, last, open, printed>>
  BY DEF Exit, files, array, pair
<1>2. /\ Names' = Names /\ Length' = Length /\ Printed' = Printed
      /\ \A a, b : Before(a, b)' <=> Before(a, b)
  BY <1>1, SameArray
<1>3. TypeOK'
  BY <1>1 DEF DuplicatesInv, TypeOK, Ended
<1>4. WalkInv' /\ OpenInv'
  BY <1>1 DEF WalkInv, OpenInv
<1>5. ArrayInv'
  <2>1. pc' \in {"failed", "crashed"} /\ (pc' = "crashed" => pc = "walk")
    BY <1>1
  <2> QED BY <1>1, <1>2, <2>1, SameCounted DEF DuplicatesInv, ArrayInv
<1>6. PairInv'
  <2>1. pc' \in {"failed", "crashed"} /\ UNCHANGED <<i, j, version>>
    BY <1>1
  <2> QED BY <2>1 DEF DuplicatesInv, PairInv
<1>7. PrintedInv'
  <2>1. UNCHANGED <<elems, printed, touched, present, content, i, j>>
    BY <1>1
  <2> QED BY <2>1, SamePrinted DEF DuplicatesInv
<1>8. InsideArray'
  BY <1>1 DEF InsideArray
<1> QED BY <1>3, <1>4, <1>5, <1>6, <1>7, <1>8 DEF DuplicatesInv

-----------------------------------------------------------------------------
(* The steps of other processes. *)

\* What they create is kept in mind.
NoteCreated ==
  created \subseteq created' /\ created' \subseteq touched' /\ present' \ created' \subseteq present

LEMMA TouchKeeps ==
  ASSUME DuplicatesInv, NEW f \in Files, Touch(f),
         present' \in SUBSET Files, content' \in [Files -> Contents],
         \A g \in Files \ {f} : (g \in present' <=> g \in present) /\ content'[g] = content[g],
         NoteCreated
  PROVE  DuplicatesInv'
<1>1. /\ touched' = touched \union {f} /\ touched' # {} /\ touched' \subseteq Files
      /\ UNCHANGED <<version, pc, limit, reading, elems, cells, i, j, size, pos, last, open, printed>>
  BY DEF Touch, array, pair, DuplicatesInv, TypeOK
<1>2. /\ Names' = Names /\ Length' = Length /\ Printed' = Printed
      /\ \A a, b : Before(a, b)' <=> Before(a, b)
  BY <1>1, SameArray
<1>0. created \subseteq created' /\ created' \subseteq touched' /\ present' \ created' \subseteq present
  BY DEF NoteCreated
<1>3. /\ (present \ created)' \subseteq present \ created
      /\ \A g \in Files \ touched' : /\ g \notin touched
                                     /\ g \in present' <=> g \in present
                                     /\ content'[g] = content[g]
  BY <1>0, <1>1 DEF DuplicatesInv, TypeOK
<1>4. \A k \in 1 .. Len(elems) : elems[k] \in Files
  BY NamesType DEF DuplicatesInv
<1>5. TypeOK'
  BY <1>0, <1>1 DEF DuplicatesInv, TypeOK
<1>6. WalkInv'
  <2> SUFFICES ASSUME pc \in {"count", "walk"} PROVE WalkInv'
    BY <1>1 DEF WalkInv
  <2>1. PICK V \in SUBSET Dirs, seen \in SUBSET Files :
          /\ WalkedTo(V, seen, reading)
          /\ pc = "count" => cells = Cardinality(seen)
          /\ pc = "walk" => seen = Names
    BY DEF DuplicatesInv, WalkInv
  <2>2. WalkedTo(V, seen, reading)'
    BY <1>1, <1>3, <2>1, WalkUndisturbed
  <2>3. reading # << >>
    BY DEF DuplicatesInv, WalkInv
  <2> QED BY <1>1, <1>2, <2>1, <2>2, <2>3 DEF WalkInv
<1>7. ArrayInv'
  <2>1. Counted => Counted'
    BY <1>0, <1>1, <1>2 DEF Counted
  <2> QED BY <1>1, <1>2, <1>3, <2>1 DEF DuplicatesInv, ArrayInv
<1>8. PairInv'
  <2>1. /\ 1 <= i /\ i < j /\ i \in Nat /\ j \in Nat /\ Len(elems) \in Nat
    BY NamesType DEF DuplicatesInv, PairInv, TypeOK
  <2>2. ASSUME pc \in {"open", "read"}, NEW k \in {i, j}, elems[k] \notin touched'
        PROVE  elems[k] \in present' /\ Len(content'[elems[k]]) = size
    <3>1. k \in 1 .. Len(elems)
      BY <2>1, <2>2 DEF DuplicatesInv, PairInv
    <3>2. elems[k] \in Files \ touched'
      BY <1>4, <2>2, <3>1
    <3>3. elems[k] \in present /\ Len(content[elems[k]]) = size
      BY <1>3, <2>2, <3>2 DEF DuplicatesInv, PairInv
    <3> QED BY <1>3, <3>2, <3>3
  <2>3. ASSUME pc = "read", elems[i] \notin touched', elems[j] \notin touched'
        PROVE  \A k \in 1 .. pos : content'[elems[i]][k] = content'[elems[j]][k]
    <3>1. i \in 1 .. Len(elems) /\ j \in 1 .. Len(elems)
      BY <2>1, <2>3 DEF DuplicatesInv, PairInv
    <3>2. elems[i] \in Files \ touched' /\ elems[j] \in Files \ touched'
      BY <1>4, <2>3, <3>1
    <3>3. \A k \in 1 .. pos : content[elems[i]][k] = content[elems[j]][k]
      BY <1>3, <2>3, <3>2 DEF DuplicatesInv, PairInv
    <3> QED BY <1>3, <3>2, <3>3
  <2> QED BY <1>1, <1>2, <2>2, <2>3 DEF DuplicatesInv, PairInv
<1>9. PrintedInv'
  <2>1. ASSUME NEW k \in 1 .. Len(printed)
        PROVE  \E a, b \in 1 .. Len(elems) :
                 /\ Before(a, b) /\ printed[k] = <<elems[a], elems[b]>>
                 /\ elems[a] \notin touched' /\ elems[b] \notin touched' =>
                      /\ {elems[a], elems[b]} \subseteq present'
                      /\ content'[elems[a]] = content'[elems[b]]
    <3>1. PICK a \in 1 .. Len(elems), b \in 1 .. Len(elems) :
            /\ Before(a, b) /\ printed[k] = <<elems[a], elems[b]>>
            /\ elems[a] \notin touched /\ elems[b] \notin touched =>
                 {elems[a], elems[b]} \subseteq present /\ content[elems[a]] = content[elems[b]]
      BY DEF DuplicatesInv, PrintedInv
    <3>2. elems[a] \notin touched' /\ elems[b] \notin touched' =>
            {elems[a], elems[b]} \subseteq present' /\ content'[elems[a]] = content'[elems[b]]
      BY <1>3, <1>4, <3>1
    <3> QED BY <3>1, <3>2
  <2>2. ASSUME NEW a \in 1 .. Len(elems), NEW b \in 1 .. Len(elems), Before(a, b),
               {elems[a], elems[b]} \subseteq present' \ touched',
               content'[elems[a]] = content'[elems[b]]
        PROVE  {elems[a], elems[b]} \in Printed
    <3>1. elems[a] \in Files \ touched' /\ elems[b] \in Files \ touched'
      BY <1>4, <2>2
    <3>2. {elems[a], elems[b]} \subseteq present \ touched
      BY <1>3, <2>2, <3>1
    <3>3. content[elems[a]] = content[elems[b]]
      BY <1>3, <2>2, <3>1
    <3> QED BY <2>2, <3>2, <3>3 DEF DuplicatesInv, PrintedInv
  <2>3. IsFiniteSet(Printed) /\ Len(printed) = Cardinality(Printed)
    BY DEF DuplicatesInv, PrintedInv
  <2>4. UNCHANGED <<elems, printed>>
    BY <1>1
  <2>5. (\A k \in 1 .. Len(printed) : \E a, b \in 1 .. Len(elems) :
           /\ Before(a, b) /\ printed[k] = <<elems[a], elems[b]>>
           /\ elems[a] \notin touched /\ elems[b] \notin touched =>
                {elems[a], elems[b]} \subseteq present /\ content[elems[a]] = content[elems[b]])'
    BY <1>2, <2>1, <2>4
  <2>6. (\A a, b \in 1 .. Len(elems) :
           /\ Before(a, b) /\ {elems[a], elems[b]} \subseteq present \ touched
           /\ content[elems[a]] = content[elems[b]]
           => {elems[a], elems[b]} \in Printed)'
    BY <1>2, <2>2, <2>4
  <2> QED BY <1>2, <2>3, <2>4, <2>5, <2>6 DEF PrintedInv
<1>10. OpenInv' /\ InsideArray'
  BY <1>0, <1>1 DEF DuplicatesInv, OpenInv, InsideArray
<1> QED BY <1>5, <1>6, <1>7, <1>8, <1>9, <1>10 DEF DuplicatesInv

LEMMA OthersKeep ==
  ASSUME DuplicatesInv, NEW f \in Files,
         remove(f) \/ \E c \in Contents : write(f, c)
  PROVE  DuplicatesInv'
<1>1. CASE remove(f)
  <2>1. /\ Touch(f) /\ f \in present /\ present' = present \ {f} /\ UNCHANGED <<content, created>>
        /\ touched' = touched \union {f}
    BY <1>1 DEF remove, Touch
  <2>2. /\ present' \in SUBSET Files /\ content' \in [Files -> Contents]
        /\ NoteCreated
    BY <2>1 DEF DuplicatesInv, TypeOK, NoteCreated
  <2>3. \A g \in Files \ {f} : (g \in present' <=> g \in present) /\ content'[g] = content[g]
    BY <2>1
  <2> QED BY <2>1, <2>2, <2>3, TouchKeeps
<1>2. ASSUME NEW c \in Contents, write(f, c) PROVE DuplicatesInv'
  <2>1. /\ Touch(f) /\ present' = present \union {f} /\ content' = [content EXCEPT ![f] = c]
        /\ created' = created \union ({f} \ present) /\ touched' = touched \union {f}
    BY <1>2 DEF write, Touch
  <2>2. /\ present' \in SUBSET Files /\ content' \in [Files -> Contents]
        /\ NoteCreated
    BY <2>1 DEF DuplicatesInv, TypeOK, NoteCreated
  <2>3. \A g \in Files \ {f} : (g \in present' <=> g \in present) /\ content'[g] = content[g]
    BY <2>1 DEF DuplicatesInv, TypeOK
  <2> QED BY <2>1, <2>2, <2>3, TouchKeeps
<1> QED BY <1>1, <1>2

-----------------------------------------------------------------------------
(* The steps of the walk. *)

LEMMA SameFiles ==
  ASSUME UNCHANGED <<present, touched, created>>, NEW V, NEW seen, WalkedTo(V, seen, reading')
  PROVE  WalkedTo(V, seen, reading)'
BY DEF WalkedTo, Under

LEMMA CountKeeps ==
  ASSUME DuplicatesInv, NEW f \in Files, countFile(f)
  PROVE  DuplicatesInv'
<1>1. /\ pc = "count" /\ f \in Head(reading) /\ f \in present /\ cells' = cells + 1
      /\ reading' = Without(reading, f)
      /\ UNCHANGED <<version, pc, limit, present, content, touched, created, elems, i, j, size, pos, last,
                     open, printed>>
  BY DEF countFile, Found, Without, files, pair
<1>2. TypeOK /\ version = "backup" /\ elems = << >> /\ reading # << >>
      /\ reading \in Seq(SUBSET Nodes)
  BY <1>1 DEF DuplicatesInv, ArrayInv, WalkInv, TypeOK, Nodes
<1>3. PICK V \in SUBSET Dirs, seen \in SUBSET Files :
        /\ WalkedTo(V, seen, reading) /\ cells = Cardinality(seen)
  BY <1>1 DEF DuplicatesInv, WalkInv
<1>4. /\ reading' \in Seq(SUBSET Nodes) /\ reading' # << >> /\ Len(reading') = Len(reading)
      /\ f \notin seen /\ WalkedTo(V, seen \union {f}, reading')
  <2>1. /\ f \in Head(reading) /\ reading' = Without(reading, f)
        /\ reading \in Seq(SUBSET Nodes) /\ reading # << >> /\ WalkedTo(V, seen, reading)
    BY <1>1, <1>2, <1>3
  <2>2. \A t : t = Without(reading, f) =>
          /\ t \in Seq(SUBSET Nodes) /\ t # << >> /\ Len(t) = Len(reading)
          /\ f \notin seen /\ WalkedTo(V, seen \union {f}, t)
    BY <2>1, WalkTakesFile
  <2> QED BY <2>2, <2>1, WalkTakesFile
<1>5. Cardinality(seen \union {f}) = cells + 1
  <2>1. IsFiniteSet(seen)
    BY FS_Subset, DuplicatesAssumption
  <2> QED BY <1>3, <1>4, <2>1, FS_AddElement
<1>6. TypeOK'
  BY <1>1, <1>2, <1>4 DEF TypeOK, Nodes
<1>7. WalkInv'
  <2>1. WalkedTo(V, seen \union {f}, reading)'
    BY <1>1, <1>4, SameFiles
  <2>2. /\ seen \union {f} \in SUBSET Files
        /\ cells' = Cardinality(seen \union {f}) /\ pc' = "count"
    BY <1>1, <1>3, <1>5
  <2> HIDE DEF Without
  <2> QED BY <1>4, <2>1, <2>2 DEF WalkInv
<1>8. ArrayInv'
  <2>1. Names' = Names
    BY <1>1 DEF Names
  <2> QED BY <1>1, <1>2, <2>1 DEF DuplicatesInv, ArrayInv
<1>9. PairInv' /\ InsideArray'
  BY <1>1 DEF DuplicatesInv, PairInv, InsideArray
<1>10. PrintedInv'
  BY <1>1, SamePrinted DEF DuplicatesInv
<1>11. OpenInv'
  BY <1>1, <1>4 DEF DuplicatesInv, OpenInv
<1> QED BY <1>6, <1>7, <1>8, <1>9, <1>10, <1>11 DEF DuplicatesInv

\* A name that was pending is not in the array.
LEMMA AddElemKeeps ==
  ASSUME DuplicatesInv, NEW f \in Files, DYNARR_addElem(f)
  PROVE  DuplicatesInv'
<1>1. /\ pc = "walk" /\ f \in Head(reading) /\ f \in present /\ Len(elems) < Room
      /\ cells' = Room /\ elems' = Append(elems, f)
      /\ reading' = Without(reading, f)
      /\ UNCHANGED <<version, pc, limit, present, content, touched, created, i, j, size, pos, last,
                     open, printed>>
  BY DEF DYNARR_addElem, Found, Without, files, pair
<1>2. TypeOK /\ reading # << >> /\ i = 1 /\ j = 2 /\ printed = << >>
      /\ reading \in Seq(SUBSET Nodes)
  BY <1>1 DEF DuplicatesInv, PairInv, WalkInv, TypeOK, Nodes
<1>3. PICK V \in SUBSET Dirs, seen \in SUBSET Files :
        /\ WalkedTo(V, seen, reading) /\ seen = Names
  BY <1>1 DEF DuplicatesInv, WalkInv
<1>4. /\ reading' \in Seq(SUBSET Nodes) /\ reading' # << >> /\ Len(reading') = Len(reading)
      /\ f \notin Names /\ WalkedTo(V, seen \union {f}, reading')
  <2>1. /\ f \in Head(reading) /\ reading' = Without(reading, f)
        /\ reading \in Seq(SUBSET Nodes) /\ reading # << >> /\ WalkedTo(V, seen, reading)
    BY <1>1, <1>2, <1>3
  <2>2. \A t : t = Without(reading, f) =>
          /\ t \in Seq(SUBSET Nodes) /\ t # << >> /\ Len(t) = Len(reading)
          /\ f \notin seen /\ WalkedTo(V, seen \union {f}, t)
    BY <2>1, WalkTakesFile
  <2> QED BY <2>2, <1>3, <2>1, WalkTakesFile
<1>5. /\ elems' \in Seq(Files) /\ Len(elems') = Len(elems) + 1 /\ Len(elems) \in Nat
      /\ \A k \in 1 .. Len(elems) : elems'[k] = elems[k]
      /\ elems'[Len(elems) + 1] = f
  BY <1>1, <1>2, AppendProperties, LenProperties DEF TypeOK
<1>6. Names' = Names \union {f}
  <2>1. Names' = {elems'[k] : k \in 1 .. Len(elems) + 1}
    BY <1>5 DEF Names
  <2>2. \A k \in 1 .. Len(elems) + 1 : k \in 1 .. Len(elems) \/ k = Len(elems) + 1
    BY <1>5
  <2>3. Names' \subseteq Names \union {f}
    BY <1>5, <2>1, <2>2 DEF Names
  <2>4. \A k \in 1 .. Len(elems) : k \in 1 .. Len(elems) + 1
    BY <1>5
  <2>5. Names \subseteq Names'
    BY <1>5, <2>1, <2>4 DEF Names
  <2>6. f \in Names'
    BY <1>5, <2>1
  <2> QED BY <2>3, <2>5, <2>6
<1>7. Cardinality(Names') = Len(elems) + 1 /\ Len(elems) = Cardinality(Names)
  <2>1. IsFiniteSet(Names) /\ Len(elems) = Cardinality(Names)
    BY NamesType DEF DuplicatesInv, ArrayInv
  <2> QED BY <1>4, <1>6, <2>1, FS_AddElement
<1>8. Room \in Nat
  <2>1. cells \in Nat /\ sizeof_ptr \in Nat \ {0}
    BY <1>2, DuplicatesAssumption DEF TypeOK
  <2>2. (2 * cells) \div sizeof_ptr \in Int
    BY <2>1
  <2>3. Room \in Int
    BY <2>1, <2>2 DEF Room, DYNARR_resizeArr
  <2> HIDE DEF Room
  <2> QED BY <1>1, <1>5, <2>3
<1>9. TypeOK'
  BY <1>1, <1>2, <1>4, <1>5, <1>8 DEF TypeOK, Nodes
<1>10. WalkInv'
  <2>1. WalkedTo(V, seen \union {f}, reading)'
    BY <1>1, <1>4, SameFiles
  <2>2. /\ seen \union {f} \in SUBSET Files /\ seen \union {f} = Names'
        /\ pc' = "walk"
    BY <1>1, <1>2, <1>3, <1>6, NamesType
  <2> QED BY <1>4, <2>1, <2>2 DEF WalkInv
<1>11. ArrayInv'
  <2>1. (Len(elems) = Cardinality(Names))'
    BY <1>5, <1>7
  <2>2. ASSUME NEW a \in 1 .. Len(elems'), NEW b \in 1 .. Len(elems'), elems'[a] = elems'[b]
        PROVE  a = b
    <3>1. /\ a \in 1 .. Len(elems) \/ a = Len(elems) + 1
          /\ b \in 1 .. Len(elems) \/ b = Len(elems) + 1
      BY <1>5
    <3>2. \A k \in 1 .. Len(elems) : elems[k] # f
      BY <1>4 DEF Names
    <3>3. \A k, l \in 1 .. Len(elems) : elems[k] = elems[l] => k = l
      BY DEF DuplicatesInv, ArrayInv
    <3> QED BY <1>5, <2>2, <3>1, <3>2, <3>3
  <2>3. touched' = {} => Names' \subseteq present'
    <3>1. touched = {} => Names \subseteq present
      BY DEF DuplicatesInv, ArrayInv
    <3> QED BY <1>1, <1>6, <3>1
  <2>4. version = "backup" => /\ Room = cells /\ Len(elems') <= Room
                              /\ Counted'
    <3>1. version = "backup" => Room = cells
      BY DEF Room
    <3>2. Len(elems') <= Room
      BY <1>1, <1>5, <1>8
    <3>3. version = "backup" => Counted
      BY <1>1 DEF DuplicatesInv, ArrayInv
    <3>4. version = "backup" => Counted'
      BY <1>1, <1>6, <3>1, <3>3 DEF Counted
    <3> QED BY <3>1, <3>2, <3>4
  <2>5. version = "duplicates" /\ Len(elems') <= DYNARR_INITSIZE => Room = DYNARR_INITSIZE
    <3> SUFFICES ASSUME version = "duplicates", Len(elems) + 1 <= DYNARR_INITSIZE
                 PROVE  Room = DYNARR_INITSIZE
      BY <1>5
    <3>1. Len(elems) < DYNARR_INITSIZE /\ Len(elems) <= DYNARR_INITSIZE
      BY <1>5, DuplicatesAssumption
    <3>2. cells = DYNARR_INITSIZE
      BY <3>1 DEF DuplicatesInv, ArrayInv
    <3> QED BY <3>1, <3>2 DEF Room
  <2> QED BY <1>1, <2>1, <2>2, <2>3, <2>4, <2>5 DEF ArrayInv
<1>12. PairInv' /\ InsideArray'
  BY <1>1 DEF DuplicatesInv, PairInv, InsideArray
<1>13. PrintedInv'
  <2>0. Printed' = Printed
    BY <1>1 DEF Printed
  <2>1. IsFiniteSet(Printed) /\ Len(printed) = Cardinality(Printed)
    BY DEF DuplicatesInv, PrintedInv
  <2>2. 1 .. Len(printed') = {}
    BY <1>1, <1>2
  <2>3. ASSUME NEW a \in 1 .. Len(elems'), NEW b \in 1 .. Len(elems') PROVE ~Before(a, b)'
    BY <1>1, <1>2, <1>5 DEF Before
  <2> QED BY <1>1, <2>0, <2>1, <2>2, <2>3 DEF PrintedInv
<1>14. OpenInv'
  BY <1>1, <1>4 DEF DuplicatesInv, OpenInv
<1> QED BY <1>9, <1>10, <1>11, <1>12, <1>13, <1>14 DEF DuplicatesInv

LEMMA RecurseKeeps ==
  ASSUME DuplicatesInv, recurse
  PROVE  DuplicatesInv'
<1>1. /\ pc \in {"count", "walk"} /\ open < limit /\ open' = open + 1
      /\ UNCHANGED <<version, pc, limit, present, content, touched, created, elems, cells, i, j, size, pos,
                     last, printed>>
  BY DEF recurse, Descend, files, array, pair
<1>2. PICK d \in Head(reading) \intersect Dirs :
        reading' = << Listing(d) >> \o Without(reading, d)
  BY DEF recurse, Descend, Without
<1>3. TypeOK /\ reading # << >> /\ reading \in Seq(SUBSET Nodes)
  BY <1>1 DEF DuplicatesInv, WalkInv, TypeOK, Nodes
<1>4. PICK V \in SUBSET Dirs, seen \in SUBSET Files :
        /\ WalkedTo(V, seen, reading)
        /\ pc = "count" => cells = Cardinality(seen)
        /\ pc = "walk" => seen = Names
  BY <1>1 DEF DuplicatesInv, WalkInv
<1>5. /\ reading' \in Seq(SUBSET Nodes) /\ reading' # << >> /\ Len(reading') = Len(reading) + 1
      /\ WalkedTo(V \union {d}, seen, reading')
  <2>1. \A t : t = << Listing(d) >> \o Without(reading, d) =>
          /\ t \in Seq(SUBSET Nodes) /\ t # << >> /\ Len(t) = Len(reading) + 1
          /\ WalkedTo(V \union {d}, seen, t)
    BY <1>3, <1>4, WalkDescends
  <2> QED BY <1>2, <2>1
<1>6. /\ Names' = Names /\ Length' = Length /\ Printed' = Printed
      /\ \A a, b : Before(a, b)' <=> Before(a, b)
  BY <1>1, SameArray
<1>7. TypeOK'
  <2>1. open' \in 0 .. limit'
    BY <1>1, DuplicatesAssumption DEF DuplicatesInv, TypeOK
  <2> QED BY <1>1, <1>3, <1>5, <2>1 DEF TypeOK, Nodes
<1>8. WalkInv'
  <2>1. WalkedTo(V \union {d}, seen, reading)'
    BY <1>1, <1>5, SameFiles
  <2>2. V \union {d} \in SUBSET Dirs
    OBVIOUS
  <2> QED BY <1>1, <1>4, <1>5, <1>6, <2>1, <2>2 DEF WalkInv
<1>9. ArrayInv'
  BY <1>1, <1>6, SameCounted DEF DuplicatesInv, ArrayInv
<1>10. PairInv' /\ InsideArray'
  BY <1>1 DEF DuplicatesInv, PairInv, InsideArray
<1>11. PrintedInv'
  BY <1>1, SamePrinted DEF DuplicatesInv
<1>12. OpenInv'
  BY <1>1, <1>5 DEF DuplicatesInv, OpenInv
<1> QED BY <1>7, <1>8, <1>9, <1>10, <1>11, <1>12 DEF DuplicatesInv

LEMMA AllocKeeps ==
  ASSUME DuplicatesInv, allocFileNames
  PROVE  DuplicatesInv'
<1>1. /\ pc = "alloc" /\ pc' = "walk" /\ open' = open + 1 /\ reading' = << Listing(Root) >>
      /\ UNCHANGED <<version, limit, present, content, touched, created, elems, cells, i, j, size, pos,
                     last, printed>>
  BY DEF allocFileNames, Alloc, files, pair
<1>2. TypeOK /\ open = 0 /\ elems = << >> /\ version = "backup"
  BY <1>1 DEF DuplicatesInv, ArrayInv, OpenInv
<1>3. /\ reading' \in Seq(SUBSET Nodes) /\ reading' # << >> /\ Len(reading') = 1
      /\ WalkedTo({Root}, {}, reading')
  <2>1. \A r : r = << Listing(Root) >> =>
          r \in Seq(SUBSET Nodes) /\ r # << >> /\ Len(r) = 1 /\ WalkedTo({Root}, {}, r)
    BY <1>2, WalkStarts
  <2> QED BY <1>1, <2>1
<1>4. /\ Names' = Names /\ Length' = Length /\ Printed' = Printed
      /\ \A a, b : Before(a, b)' <=> Before(a, b)
  BY <1>1, SameArray
<1>5. Names = {}
  BY <1>2 DEF Names
<1>6. TypeOK'
  <2>1. open' \in 0 .. limit'
    BY <1>1, <1>2, DuplicatesAssumption DEF TypeOK
  <2> QED BY <1>1, <1>2, <1>3, <2>1 DEF TypeOK, Nodes
<1>7. WalkInv'
  <2>1. WalkedTo({Root}, {}, reading)'
    BY <1>1, <1>3, SameFiles
  <2>2. {Root} \in SUBSET Dirs /\ {} \in SUBSET Files
    BY DuplicatesAssumption
  <2> QED BY <1>1, <1>3, <1>4, <1>5, <2>1, <2>2 DEF WalkInv
<1>8. ArrayInv'
  BY <1>1, <1>4, SameCounted DEF DuplicatesInv, ArrayInv
<1>9. PairInv' /\ InsideArray'
  BY <1>1 DEF DuplicatesInv, PairInv, InsideArray
<1>10. PrintedInv'
  BY <1>1, SamePrinted DEF DuplicatesInv
<1>11. OpenInv'
  BY <1>1, <1>2, <1>3 DEF OpenInv
<1> QED BY <1>6, <1>7, <1>8, <1>9, <1>10, <1>11 DEF DuplicatesInv

\* At the end of the walk every file that was there all the time has been met.
LEMMA ClosedirKeeps ==
  ASSUME DuplicatesInv, closedir
  PROVE  DuplicatesInv'
<1>1. /\ pc \in {"count", "walk"} /\ Head(reading) = {} /\ reading' = Tail(reading)
      /\ open' = open - 1
      /\ pc' = IF Len(reading) > 1 THEN pc
               ELSE IF pc = "walk" THEN Row(j)
               ELSE IF cells < 2 THEN "done" ELSE "alloc"
      /\ UNCHANGED <<version, limit, present, content, touched, created, elems, cells, i, j, size, pos,
                     last, printed>>
  BY DEF closedir, files, array, pair
<1>2. /\ TypeOK /\ reading # << >> /\ reading \in Seq(SUBSET Nodes)
      /\ i = 1 /\ j = 2 /\ printed = << >> /\ open = Len(reading)
  BY <1>1 DEF DuplicatesInv, WalkInv, PairInv, OpenInv, TypeOK, Nodes
<1>3. PICK V \in SUBSET Dirs, seen \in SUBSET Files :
        /\ WalkedTo(V, seen, reading)
        /\ pc = "count" => cells = Cardinality(seen)
        /\ pc = "walk" => seen = Names
  BY <1>1 DEF DuplicatesInv, WalkInv
<1>4. /\ reading' \in Seq(SUBSET Nodes) /\ Len(reading') = Len(reading) - 1
      /\ WalkedTo(V, seen, reading')
  <2>1. /\ Tail(reading) \in Seq(SUBSET Nodes) /\ Len(Tail(reading)) = Len(reading) - 1
        /\ WalkedTo(V, seen, Tail(reading))
    BY <1>1, <1>2, <1>3, WalkLeaves
  <2> QED BY <1>1, <2>1
<1>5. Len(reading) \in Nat /\ Len(reading) >= 1
  BY <1>2, EmptySeq, LenProperties
<1>6. /\ Names' = Names /\ Length' = Length /\ Printed' = Printed
      /\ \A a, b : Before(a, b)' <=> Before(a, b)
  BY <1>1, SameArray
<1>7. pc' \in {"count", "walk", "stat", "done", "alloc"}
  BY <1>1 DEF Row
<1>8. TypeOK'
  <2>1. open' \in 0 .. limit'
    BY <1>1, <1>2, <1>5, DuplicatesAssumption DEF TypeOK
  <2> QED BY <1>1, <1>2, <1>4, <1>7, <2>1 DEF TypeOK, Nodes, Ended
<1>9. PrintedInv'
  BY <1>1, SamePrinted DEF DuplicatesInv
<1>10. InsideArray'
  BY <1>7 DEF InsideArray
<1>11. CASE Len(reading) > 1
  <2>0. Len(reading') # 0
    BY <1>4, <1>5, <1>11
  <2>1. pc' = pc /\ reading' # << >>
    BY <1>1, <1>11, <2>0
  <2>2. WalkedTo(V, seen, reading)'
    BY <1>1, <1>4, SameFiles
  <2>3. WalkInv'
    BY <1>1, <1>3, <1>6, <2>1, <2>2 DEF WalkInv
  <2>4. ArrayInv'
    BY <1>1, <1>6, <2>1, SameCounted DEF DuplicatesInv, ArrayInv
  <2>5. PairInv'
    BY <1>1, <1>6, <2>1 DEF DuplicatesInv, PairInv
  <2>6. OpenInv'
    BY <1>1, <1>2, <1>4, <2>1 DEF OpenInv
  <2> QED BY <1>8, <1>9, <1>10, <2>3, <2>4, <2>5, <2>6 DEF DuplicatesInv
<1>12. CASE ~(Len(reading) > 1)
  <2>1. Len(reading) = 1 /\ open' = 0 /\ Len(reading') = 0
    BY <1>1, <1>2, <1>4, <1>5, <1>12
  <2>2. reading' = << >>
    BY <1>4, <2>1, EmptySeq
  <2>3. present \ created \subseteq seen
    BY <1>2, <1>4, <2>2, WalkEnds
  <2>4. Lost' = {}
    <3>1. \A a, b \in 1 .. Len(elems') : ~Before(a, b)'
      BY <1>1, <1>2 DEF Before
    <3> QED BY <3>1 DEF Lost
  <2>5. pc' \in {"stat", "done", "alloc"}
    BY <1>1, <1>12 DEF Row
  <2>6. WalkInv'
    BY <2>5 DEF WalkInv
  <2>7. OpenInv'
    <3>1. Cardinality(Lost') = 0
      BY <2>4, FS_EmptySet
    <3> QED BY <2>1, <2>5, <3>1 DEF OpenInv
  <2>8. CASE pc = "walk"
    <3>1. pc' = IF j <= Length THEN "stat" ELSE "done"
      BY <1>1, <1>12, <2>8 DEF Row
    <3>2. ArrayInv'
      <4>1. present \ created \subseteq Names
        BY <1>3, <2>3, <2>8
      <4>2. pc' \notin {"count", "alloc"}
        BY <3>1
      <4> QED BY <1>1, <1>6, <2>8, <4>1, <4>2, SameCounted DEF DuplicatesInv, ArrayInv
    <3>3. PairInv'
      <4>1. Length \in Nat
        BY <1>2, NamesType DEF Length, TypeOK
      <4> QED BY <1>1, <1>2, <1>6, <3>1, <4>1 DEF PairInv
    <3> QED BY <1>8, <1>9, <1>10, <2>6, <2>7, <3>2, <3>3 DEF DuplicatesInv
  <2>9. CASE pc = "count"
    <3>1. /\ pc' = IF cells < 2 THEN "done" ELSE "alloc"
          /\ version = "backup" /\ elems = << >> /\ cells = Cardinality(seen)
      BY <1>1, <1>3, <1>12, <2>9 DEF DuplicatesInv, ArrayInv
    <3>2. Counted'
      <4>1. Names' = {} /\ present' \subseteq seen \union created'
        BY <1>1, <1>6, <2>3, <3>1 DEF Names
      <4> QED BY <1>1, <3>1, <4>1 DEF Counted
    <3>3. ArrayInv'
      <4>1. Len(elems) = 0 /\ cells \in Nat
        BY <1>2, <3>1 DEF TypeOK
      <4>2. Len(elems) <= cells
        BY <4>1
      <4> QED BY <1>1, <1>6, <3>1, <3>2, <4>2 DEF DuplicatesInv, ArrayInv
    <3>4. PairInv'
      <4>1. Length = cells /\ cells \in Nat
        BY <1>2, <3>1 DEF Length, TypeOK
      <4>2. pc' = "done" => Length' < j'
        BY <1>1, <1>2, <1>6, <3>1, <4>1
      <4> QED BY <1>1, <1>2, <3>1, <4>2 DEF PairInv
    <3> QED BY <1>8, <1>9, <1>10, <2>6, <2>7, <3>3, <3>4 DEF DuplicatesInv
  <2> QED BY <1>1, <2>8, <2>9
<1> QED BY <1>11, <1>12

\* A name is written outside only if the newer version has filled the array that
\* it has had from the beginning, or if the older one meets a file that it has
\* not counted, which another process has created.
LEMMA OutsideMeansMore ==
  ASSUME DuplicatesInv, NEW f \in Files, addElemOutside(f)
  PROVE  \/ version = "duplicates" /\ Len(elems) >= DYNARR_INITSIZE
         \/ version = "backup" /\ created # {}
<1>1. pc = "walk" /\ f \in Head(reading) /\ f \in present /\ Len(elems) >= Room
  BY DEF addElemOutside, Found
<1>2. TypeOK /\ reading # << >> /\ reading \in Seq(SUBSET Nodes)
  BY <1>1 DEF DuplicatesInv, WalkInv, TypeOK, Nodes
<1>3. PICK V \in SUBSET Dirs, seen \in SUBSET Files :
        WalkedTo(V, seen, reading) /\ seen = Names
  BY <1>1 DEF DuplicatesInv, WalkInv
<1>4. f \notin Names
  <2>1. \A t : t = Without(reading, f) => f \notin seen
    BY <1>1, <1>2, <1>3, WalkTakesFile
  <2> QED BY <1>3, <2>1
<1>5. /\ Len(elems) \in Nat /\ cells \in Nat /\ IsFiniteSet(Names)
      /\ Len(elems) = Cardinality(Names)
  BY <1>2, NamesType DEF DuplicatesInv, ArrayInv, TypeOK
<1>6. Cardinality(Names \union {f}) = Len(elems) + 1
  BY <1>4, <1>5, FS_AddElement
<1>7. ASSUME version = "backup", created = {} PROVE FALSE
  <2>1. Room = cells /\ Counted
    BY <1>1, <1>7 DEF DuplicatesInv, ArrayInv, Room
  <2>2. PICK counted \in SUBSET Files :
          cells = Cardinality(counted) /\ Names \union present \subseteq counted \union created
    BY <2>1 DEF Counted
  <2>3. Names \union {f} \in SUBSET counted
    BY <1>1, <1>7, <2>2
  <2>4. IsFiniteSet(counted)
    BY FS_Subset, DuplicatesAssumption
  <2>5. Len(elems) + 1 <= cells
    BY <1>6, <2>2, <2>3, <2>4, FS_Subset
  <2> QED BY <1>1, <1>5, <2>1, <2>5
<1>8. ASSUME version = "duplicates", ~(Len(elems) >= DYNARR_INITSIZE) PROVE FALSE
  <2>1. Len(elems) < DYNARR_INITSIZE /\ Len(elems) <= DYNARR_INITSIZE
    BY <1>5, <1>8, DuplicatesAssumption
  <2>2. cells = DYNARR_INITSIZE
    BY <1>8, <2>1 DEF DuplicatesInv, ArrayInv
  <2>3. Room = cells
    BY <1>8, <2>1, <2>2 DEF Room
  <2> QED BY <1>1, <1>5, <2>1, <2>2, <2>3, DuplicatesAssumption
<1> QED BY <1>2, <1>7, <1>8 DEF TypeOK

-----------------------------------------------------------------------------
(* The comparison of the pairs. *)

\* The pair at hand.
LEMMA AtHand ==
  ASSUME DuplicatesInv, pc \in {"stat", "open", "read"}, j <= Len(elems)
  PROVE  /\ i \in Nat /\ j \in Nat /\ 1 <= i /\ i < j
         /\ i \in 1 .. Len(elems) /\ j \in 1 .. Len(elems)
         /\ elems[i] \in Files /\ elems[j] \in Files /\ elems[i] # elems[j]
<1>1. i \in Nat /\ j \in Nat /\ Len(elems) \in Nat /\ 1 <= i /\ i < j
  BY NamesType DEF DuplicatesInv, TypeOK, PairInv
<1>2. i \in 1 .. Len(elems) /\ j \in 1 .. Len(elems) /\ i # j
  BY <1>1
<1>3. elems[i] # elems[j]
  BY <1>2 DEF DuplicatesInv, ArrayInv
<1> QED BY <1>1, <1>2, <1>3, NamesType DEF DuplicatesInv

\* Going on adds the pair at hand to those compared, and no other pair.
LEMMA BeforeAdvances ==
  ASSUME DuplicatesInv, pc \in {"stat", "read"}, j <= Len(elems), Advance,
         UNCHANGED <<version, elems, cells>>,
         NEW a \in 1 .. Len(elems), NEW b \in 1 .. Len(elems)
  PROVE  Before(a, b)' <=> Before(a, b) \/ (a = i /\ b = j)
<1>1. /\ i \in Nat /\ j \in Nat /\ 1 <= i /\ i < j /\ Len(elems) \in Nat /\ a \in Nat /\ b \in Nat
      /\ b <= Len(elems) /\ j <= Length /\ Length \in Nat
  <2>1. j <= Length /\ TypeOK
    BY DEF DuplicatesInv, PairInv
  <2>2. Len(elems) \in Nat /\ Length \in Nat
    BY <2>1, NamesType DEF Length, TypeOK
  <2> QED BY <2>1, <2>2, AtHand
<1>2. CASE j < Length \/ version = "backup"
  <2>1. i' = i /\ j' = j + 1
    BY <1>2 DEF Advance
  <2> QED BY <1>1, <2>1 DEF Before
<1>3. CASE ~(j < Length \/ version = "backup")
  <2>1. i' = i + 1 /\ j' = i + 2
    BY <1>3 DEF Advance
  <2>2. Len(elems) = j
    <3>1. version = "duplicates"
      BY <1>3 DEF DuplicatesInv, TypeOK
    <3>2. Length = Len(elems)
      BY <3>1 DEF Length
    <3> QED BY <1>1, <1>3, <3>2
  <2> QED BY <1>1, <2>1, <2>2 DEF Before
<1> QED BY <1>2, <1>3

\* The pair at hand is none of those compared before, in either order.
LEMMA NotBefore ==
  ASSUME DuplicatesInv, pc \in {"stat", "open", "read"}, j <= Len(elems),
         NEW a \in 1 .. Len(elems), NEW b \in 1 .. Len(elems), Before(a, b)
  PROVE  {elems[a], elems[b]} # {elems[i], elems[j]}
<1>1. /\ i \in Nat /\ j \in Nat /\ i < j /\ i \in 1 .. Len(elems) /\ j \in 1 .. Len(elems)
      /\ elems[i] # elems[j] /\ a \in Nat /\ b \in Nat
  BY AtHand
<1> SUFFICES ASSUME {elems[a], elems[b]} = {elems[i], elems[j]} PROVE FALSE
  OBVIOUS
<1>2. (elems[a] = elems[i] /\ elems[b] = elems[j]) \/ (elems[a] = elems[j] /\ elems[b] = elems[i])
  BY <1>1
<1>3. (a = i /\ b = j) \/ (a = j /\ b = i)
  BY <1>1, <1>2 DEF DuplicatesInv, ArrayInv
<1> QED BY <1>1, <1>3 DEF Before

\* What was printed are pairs compared before.
LEMMA PrintedBefore ==
  ASSUME PrintedInv, NEW p \in Printed
  PROVE  \E a, b \in 1 .. Len(elems) : Before(a, b) /\ p = {elems[a], elems[b]}
<1>1. PICK k \in 1 .. Len(printed) : p = {printed[k][1], printed[k][2]}
  BY DEF Printed
<1>2. PICK a \in 1 .. Len(elems), b \in 1 .. Len(elems) :
        Before(a, b) /\ printed[k] = <<elems[a], elems[b]>>
  BY DEF PrintedInv
<1> QED BY <1>1, <1>2

LEMMA LostCounts ==
  ASSUME TypeOK
  PROVE  IsFiniteSet(Lost) /\ Cardinality(Lost) \in Nat
<1>1. IsFiniteSet(SUBSET Names)
  BY NamesType, FS_SUBSET
<1>2. Lost \in SUBSET (SUBSET Names)
  BY DEF Lost
<1> QED BY <1>1, <1>2, FS_Subset, FS_CardinalityType

\* The descriptors: the pair at hand is lost or not, the others as before.
LEMMA LostAdvances ==
  ASSUME DuplicatesInv, pc \in {"stat", "read"}, j <= Len(elems), Advance,
         UNCHANGED <<version, elems, cells, content>>
  PROVE  /\ Cardinality(Lost) \in Nat
         /\ Cardinality(Lost') =
              IF /\ Len(content[elems[i]]) = Len(content[elems[j]])
                 /\ content[elems[i]] # content[elems[j]]
              THEN Cardinality(Lost) + 1 ELSE Cardinality(Lost)
<1> DEFINE q == {elems[i], elems[j]}
           Differ(a, b) == /\ Len(content[elems[a]]) = Len(content[elems[b]])
                           /\ content[elems[a]] # content[elems[b]]
<1>1. /\ Names' = Names /\ Names = {elems[k] : k \in 1 .. Len(elems)}
  BY DEF Names
<1>2. i \in 1 .. Len(elems) /\ j \in 1 .. Len(elems) /\ q \in SUBSET Names
  BY <1>1, AtHand
<1>3. IsFiniteSet(Lost) /\ Cardinality(Lost) \in Nat
  BY LostCounts DEF DuplicatesInv
<1>4. Lost' = {p \in SUBSET Names : \E a, b \in 1 .. Len(elems) :
                  (Before(a, b) \/ (a = i /\ b = j)) /\ p = {elems[a], elems[b]} /\ Differ(a, b)}
  <2>1. Lost' = {p \in SUBSET Names : \E a, b \in 1 .. Len(elems) :
                  Before(a, b)' /\ p = {elems[a], elems[b]} /\ Differ(a, b)}
    BY <1>1 DEF Lost
  <2> QED BY <2>1, BeforeAdvances
<1>5. Lost = {p \in SUBSET Names : \E a, b \in 1 .. Len(elems) :
                  Before(a, b) /\ p = {elems[a], elems[b]} /\ Differ(a, b)}
  BY DEF Lost
<1>6. q \notin Lost
  BY <1>5, NotBefore
<1>7. CASE ~Differ(i, j)
  <2>1. Lost' = Lost
    BY <1>4, <1>5, <1>7
  <2> QED BY <1>3, <1>7, <2>1
<1>8. CASE Differ(i, j)
  <2>1. Lost' = Lost \union {q}
    <3>1. Lost' \subseteq Lost \union {q}
      BY <1>4, <1>5
    <3>2. Lost \subseteq Lost'
      BY <1>4, <1>5
    <3>3. q \in Lost'
      BY <1>2, <1>4, <1>8
    <3> QED BY <3>1, <3>2, <3>3
  <2>2. Cardinality(Lost') = Cardinality(Lost) + 1
    BY <1>3, <1>6, <2>1, FS_AddElement
  <2> QED BY <1>3, <1>8, <2>2
<1> QED BY <1>7, <1>8

\* PrintedInv by the pairs of positions it speaks of.
Matched(a, b) ==
  elems[a] \notin touched /\ elems[b] \notin touched =>
    {elems[a], elems[b]} \subseteq present /\ content[elems[a]] = content[elems[b]]
IsDuplicate(a, b) ==
  /\ {elems[a], elems[b]} \subseteq present \ touched
  /\ content[elems[a]] = content[elems[b]]

LEMMA PrintedInvParts ==
  PrintedInv <=>
    /\ \A k \in 1 .. Len(printed) : \E a, b \in 1 .. Len(elems) :
         Before(a, b) /\ printed[k] = <<elems[a], elems[b]>> /\ Matched(a, b)
    /\ IsFiniteSet(Printed) /\ Len(printed) = Cardinality(Printed)
    /\ \A a, b \in 1 .. Len(elems) :
         Before(a, b) /\ IsDuplicate(a, b) => {elems[a], elems[b]} \in Printed
BY DEF PrintedInv, Matched, IsDuplicate

\* The same after a step.
LEMMA PrintedInvNext ==
  ASSUME UNCHANGED <<elems, present, touched, content>>,
         \A k \in 1 .. Len(printed') : \E a, b \in 1 .. Len(elems) :
            Before(a, b)' /\ printed'[k] = <<elems[a], elems[b]>> /\ Matched(a, b),
         IsFiniteSet(Printed'), Len(printed') = Cardinality(Printed'),
         \A a, b \in 1 .. Len(elems) :
            Before(a, b)' /\ IsDuplicate(a, b) => {elems[a], elems[b]} \in Printed'
  PROVE  PrintedInv'
<1>1. ASSUME NEW k \in 1 .. Len(printed')
      PROVE  (\E a, b \in 1 .. Len(elems) :
                /\ Before(a, b) /\ printed[k] = <<elems[a], elems[b]>>
                /\ elems[a] \notin touched /\ elems[b] \notin touched =>
                     {elems[a], elems[b]} \subseteq present /\ content[elems[a]] = content[elems[b]])'
  <2>1. PICK a \in 1 .. Len(elems), b \in 1 .. Len(elems) :
          Before(a, b)' /\ printed'[k] = <<elems[a], elems[b]>> /\ Matched(a, b)
    OBVIOUS
  <2>2. a \in 1 .. Len(elems') /\ b \in 1 .. Len(elems') /\ printed'[k] = <<elems'[a], elems'[b]>>
    BY <2>1
  <2>3. elems'[a] \notin touched' /\ elems'[b] \notin touched' =>
          {elems'[a], elems'[b]} \subseteq present' /\ content'[elems'[a]] = content'[elems'[b]]
    BY <2>1 DEF Matched
  <2> QED BY <2>1, <2>2, <2>3 DEF Before
<1>2. ASSUME NEW a \in 1 .. Len(elems'), NEW b \in 1 .. Len(elems'), Before(a, b)',
             ({elems[a], elems[b]} \subseteq present \ touched)',
             (content[elems[a]] = content[elems[b]])'
      PROVE  {elems'[a], elems'[b]} \in Printed'
  BY <1>2 DEF IsDuplicate
<1> QED BY <1>1, <1>2 DEF PrintedInv

LEMMA PrintedNothing ==
  ASSUME DuplicatesInv, pc \in {"stat", "read"}, j <= Len(elems), Advance,
         UNCHANGED <<version, present, content, touched, created, elems, cells, printed>>,
         ~IsDuplicate(i, j)
  PROVE  PrintedInv'
<1>1. \A a, b \in 1 .. Len(elems) : Before(a, b)' <=> Before(a, b) \/ (a = i /\ b = j)
  BY BeforeAdvances
<1>2. /\ \A k \in 1 .. Len(printed) : \E a, b \in 1 .. Len(elems) :
           Before(a, b) /\ printed[k] = <<elems[a], elems[b]>> /\ Matched(a, b)
      /\ IsFiniteSet(Printed) /\ Len(printed) = Cardinality(Printed)
      /\ \A a, b \in 1 .. Len(elems) :
           Before(a, b) /\ IsDuplicate(a, b) => {elems[a], elems[b]} \in Printed
  BY PrintedInvParts DEF DuplicatesInv
<1>3. Printed' = Printed
  BY DEF Printed
<1>4. ASSUME NEW k \in 1 .. Len(printed')
      PROVE  \E a, b \in 1 .. Len(elems) :
               Before(a, b)' /\ printed'[k] = <<elems[a], elems[b]>> /\ Matched(a, b)
  <2>1. PICK a \in 1 .. Len(elems), b \in 1 .. Len(elems) :
          Before(a, b) /\ printed[k] = <<elems[a], elems[b]>> /\ Matched(a, b)
    BY <1>2
  <2>2. Before(a, b)'
    BY <1>1, <2>1
  <2> QED BY <2>1, <2>2
<1>5. ASSUME NEW a \in 1 .. Len(elems), NEW b \in 1 .. Len(elems), Before(a, b)', IsDuplicate(a, b)
      PROVE  {elems[a], elems[b]} \in Printed'
  <2>1. Before(a, b)
    BY <1>1, <1>5
  <2> QED BY <1>2, <1>3, <1>5, <2>1
<1>6. IsFiniteSet(Printed') /\ Len(printed') = Cardinality(Printed')
  BY <1>2, <1>3
<1> QED BY <1>4, <1>5, <1>6, PrintedInvNext

LEMMA PairsOf ==
  ASSUME NEW s
  PROVE  {{p[1], p[2]} : p \in {s[k] : k \in 1 .. Len(s)}} = {{s[k][1], s[k][2]} : k \in 1 .. Len(s)}
OBVIOUS

LEMMA PrintedPairs ==
  Printed = {{printed[k][1], printed[k][2]} : k \in 1 .. Len(printed)}
BY PairsOf DEF Printed

LEMMA PrintedPairsNext ==
  Printed' = {{printed'[k][1], printed'[k][2]} : k \in 1 .. Len(printed')}
BY PairsOf DEF Printed

LEMMA PrintedOne ==
  ASSUME DuplicatesInv, pc \in {"stat", "read"}, j <= Len(elems), Advance,
         UNCHANGED <<version, present, content, touched, created, elems, cells>>,
         printed' = Append(printed, <<elems[i], elems[j]>>), Matched(i, j)
  PROVE  PrintedInv'
<1> DEFINE q == {elems[i], elems[j]}
<1>1. \A a, b \in 1 .. Len(elems) : Before(a, b)' <=> Before(a, b) \/ (a = i /\ b = j)
  BY BeforeAdvances
<1>2. /\ \A k \in 1 .. Len(printed) : \E a, b \in 1 .. Len(elems) :
           Before(a, b) /\ printed[k] = <<elems[a], elems[b]>> /\ Matched(a, b)
      /\ IsFiniteSet(Printed) /\ Len(printed) = Cardinality(Printed)
      /\ \A a, b \in 1 .. Len(elems) :
           Before(a, b) /\ IsDuplicate(a, b) => {elems[a], elems[b]} \in Printed
  BY PrintedInvParts DEF DuplicatesInv
<1>3. i \in 1 .. Len(elems) /\ j \in 1 .. Len(elems) /\ elems[i] \in Files /\ elems[j] \in Files
  BY AtHand
<1>4. printed \in Seq(Files \X Files) /\ <<elems[i], elems[j]>> \in Files \X Files
  BY <1>3 DEF DuplicatesInv, TypeOK
<1>5. /\ Len(printed) \in Nat /\ Len(printed') = Len(printed) + 1
      /\ \A k \in 1 .. Len(printed) : printed'[k] = printed[k]
      /\ printed'[Len(printed) + 1] = <<elems[i], elems[j]>>
  BY <1>4, AppendProperties, LenProperties
<1>6. /\ \A k \in 1 .. Len(printed') : k \in 1 .. Len(printed) \/ k = Len(printed) + 1
      /\ \A k \in 1 .. Len(printed) : k \in 1 .. Len(printed')
      /\ Len(printed) + 1 \in 1 .. Len(printed')
  BY <1>5
<1>7. Printed' = Printed \union {q}
  <2>1. Printed = {{printed[k][1], printed[k][2]} : k \in 1 .. Len(printed)}
    BY PrintedPairs
  <2>2. Printed' = {{printed'[k][1], printed'[k][2]} : k \in 1 .. Len(printed')}
    BY PrintedPairsNext
  <2>3. <<elems[i], elems[j]>>[1] = elems[i] /\ <<elems[i], elems[j]>>[2] = elems[j]
    OBVIOUS
  <2>4. q \in Printed'
    BY <1>5, <1>6, <2>2, <2>3
  <2>5. Printed \subseteq Printed'
    BY <1>5, <1>6, <2>1, <2>2
  <2>6. Printed' \subseteq Printed \union {q}
    BY <1>5, <1>6, <2>1, <2>2, <2>3
  <2> QED BY <2>4, <2>5, <2>6
<1>8. q \notin Printed
  <2> SUFFICES ASSUME q \in Printed PROVE FALSE
    OBVIOUS
  <2>1. PICK a \in 1 .. Len(elems), b \in 1 .. Len(elems) :
          Before(a, b) /\ q = {elems[a], elems[b]}
    BY PrintedBefore DEF DuplicatesInv
  <2> QED BY <2>1, NotBefore
<1>9. IsFiniteSet(Printed') /\ Len(printed') = Cardinality(Printed')
  <2>1. IsFiniteSet(Printed \union {q}) /\ Cardinality(Printed \union {q}) = Cardinality(Printed) + 1
    BY <1>2, <1>8, FS_AddElement
  <2> QED BY <1>2, <1>5, <1>7, <2>1
<1>10. ASSUME NEW k \in 1 .. Len(printed')
       PROVE  \E a, b \in 1 .. Len(elems) :
                Before(a, b)' /\ printed'[k] = <<elems[a], elems[b]>> /\ Matched(a, b)
  <2>1. CASE k \in 1 .. Len(printed)
    <3>1. PICK a \in 1 .. Len(elems), b \in 1 .. Len(elems) :
            Before(a, b) /\ printed[k] = <<elems[a], elems[b]>> /\ Matched(a, b)
      BY <1>2, <2>1
    <3>2. Before(a, b)' /\ printed'[k] = printed[k]
      BY <1>1, <1>5, <2>1, <3>1
    <3> QED BY <3>1, <3>2
  <2>2. CASE k = Len(printed) + 1
    <3>1. \A a, b \in 1 .. Len(elems) : a = i /\ b = j => Before(a, b)'
      BY <1>1
    <3>2. PICK a \in 1 .. Len(elems), b \in 1 .. Len(elems) : a = i /\ b = j
      BY <1>3
    <3>3. Before(a, b)' /\ printed'[k] = <<elems[a], elems[b]>> /\ Matched(a, b)
      BY <1>5, <2>2, <3>1, <3>2
    <3> QED BY <3>3
  <2> QED BY <1>6, <2>1, <2>2
<1>11. ASSUME NEW a \in 1 .. Len(elems), NEW b \in 1 .. Len(elems), Before(a, b)', IsDuplicate(a, b)
       PROVE  {elems[a], elems[b]} \in Printed'
  <2>1. CASE Before(a, b)
    BY <1>2, <1>7, <1>11, <2>1
  <2>2. CASE a = i /\ b = j
    BY <1>7, <2>2
  <2> QED BY <1>1, <1>11, <2>1, <2>2
<1> QED BY <1>9, <1>10, <1>11, PrintedInvNext

\* The loops go on: with nothing printed for a pair that is no duplicate, or
\* with the pair printed if it is one.
LEMMA AdvanceKeeps ==
  ASSUME DuplicatesInv, pc \in {"stat", "read"}, j <= Len(elems), Advance,
         UNCHANGED <<version, limit, present, content, touched, created, reading, elems, cells>>,
         open' \in 0 .. limit, touched = {} => open' = 2 * Cardinality(Lost'),
         \/ printed' = printed /\ ~IsDuplicate(i, j)
         \/ printed' = Append(printed, <<elems[i], elems[j]>>) /\ Matched(i, j)
  PROVE  DuplicatesInv'
<1>1. /\ i \in Nat /\ j \in Nat /\ 1 <= i /\ i < j /\ i \in 1 .. Len(elems) /\ j \in 1 .. Len(elems)
      /\ elems[i] \in Files /\ elems[j] \in Files
  BY AtHand
<1>2. TypeOK /\ j <= Length /\ (version = "backup" => i = 1) /\ Length \in Nat
  <2>1. TypeOK /\ j <= Length /\ (version = "backup" => i = 1)
    BY DEF DuplicatesInv, PairInv
  <2> QED BY <2>1, NamesType DEF Length, TypeOK
<1>3. Names' = Names /\ Length' = Length
  BY DEF Names, Length
<1>4. /\ pc' = IF j' <= Length THEN "stat" ELSE "done"
      /\ \/ i' = i /\ j' = j + 1 /\ (j < Length \/ version = "backup")
         \/ i' = i + 1 /\ j' = i + 2 /\ version # "backup"
      /\ size' = 0 /\ pos' = 0 /\ last' \in Bytes
  BY DuplicatesAssumption DEF Advance, Row, NoLocals
<1>5. pc' \in {"stat", "done"}
  BY <1>4
<1>6. printed \in Seq(Files \X Files) /\ printed' \in Seq(Files \X Files)
  <2>1. printed \in Seq(Files \X Files) /\ <<elems[i], elems[j]>> \in Files \X Files
    BY <1>1, <1>2 DEF TypeOK
  <2> QED BY <2>1, AppendProperties
<1>7. TypeOK'
  <2>1. i' \in Nat /\ j' \in Nat
    BY <1>1, <1>4
  <2> QED BY <1>2, <1>4, <1>5, <1>6, <2>1 DEF TypeOK, Ended
<1>8. WalkInv' /\ InsideArray'
  BY <1>5 DEF WalkInv, InsideArray
<1>9. ArrayInv'
  <2>1. pc \in {"stat", "open", "read", "done"} /\ pc \notin {"count", "failed"}
    OBVIOUS
  <2> QED BY <1>3, <1>5, <2>1, SameCounted DEF DuplicatesInv, ArrayInv
<1>10. PairInv'
  <2>1. 1 <= i' /\ i' < j' /\ (version' = "backup" => i' = 1)
    BY <1>1, <1>2, <1>4
  <2>2. pc' = "done" => Length' < j'
    BY <1>1, <1>2, <1>3, <1>4
  <2>3. pc' = "done" /\ version' = "duplicates" => j' = i' + 1
    BY <1>1, <1>2, <1>4
  <2>4. pc' = "stat" => j' <= Length'
    BY <1>3, <1>4
  <2> QED BY <1>5, <2>1, <2>2, <2>3, <2>4 DEF PairInv
<1>16. PrintedInv'
  BY PrintedNothing, PrintedOne
<1>17. OpenInv'
  BY <1>5 DEF OpenInv
<1> QED BY <1>7, <1>8, <1>9, <1>10, <1>16, <1>17 DEF DuplicatesInv

\* What the comparison may assume of a file of the pair at hand.
LEMMA FileAtHand ==
  ASSUME DuplicatesInv, NEW k \in 1 .. Len(elems)
  PROVE  /\ elems[k] \in Files /\ content[elems[k]] \in Seq(Bytes)
         /\ Len(content[elems[k]]) \in Nat
<1>1. elems[k] \in Files
  BY NamesType DEF DuplicatesInv
<1>2. content[elems[k]] \in Contents
  BY <1>1 DEF DuplicatesInv, TypeOK
<1> QED BY <1>1, <1>2, LenProperties, DuplicatesAssumption

LEMMA StatDiffersKeeps ==
  ASSUME DuplicatesInv, statDiffers
  PROVE  DuplicatesInv'
<1>1. /\ pc = "stat" /\ j <= Len(elems) /\ Advance
      /\ Len(content[elems[i]]) # Len(content[elems[j]])
      /\ UNCHANGED <<version, limit, present, content, touched, created, reading, elems, cells, open, printed>>
  BY DEF statDiffers, Missing, files, array
<1>2. ~IsDuplicate(i, j)
  BY <1>1 DEF IsDuplicate
<1>3. Cardinality(Lost') = Cardinality(Lost)
  BY <1>1, LostAdvances
<1>4. open' \in 0 .. limit /\ (touched = {} => open' = 2 * Cardinality(Lost'))
  <2>1. open \in 0 .. limit
    BY DEF DuplicatesInv, TypeOK
  <2>2. touched = {} => open = 2 * Cardinality(Lost) + 0
    BY <1>1 DEF DuplicatesInv, OpenInv
  <2>3. Cardinality(Lost) \in Nat
    BY <1>1, LostAdvances
  <2> QED BY <1>1, <1>3, <2>1, <2>2, <2>3
<1> QED BY <1>1, <1>2, <1>4, AdvanceKeeps

LEMMA StatAgreesKeeps ==
  ASSUME DuplicatesInv, statAgrees
  PROVE  DuplicatesInv'
<1>1. /\ pc = "stat" /\ pc' = "open" /\ size' = Len(content[elems[i]])
      /\ ~Missing(i) /\ ~Missing(j) /\ Len(content[elems[i]]) = Len(content[elems[j]])
      /\ UNCHANGED <<version, limit, present, content, touched, created, reading, elems, cells, i, j, pos,
                     last, open, printed>>
  BY DEF statAgrees, files, array
<1>2. j <= Len(elems) /\ elems[i] \in present /\ elems[j] \in present
  BY <1>1 DEF Missing
<1>3. i \in 1 .. Len(elems) /\ size' \in Nat
  BY <1>1, <1>2, AtHand, FileAtHand
<1>4. /\ Names' = Names /\ Length' = Length /\ Printed' = Printed
      /\ \A a, b : Before(a, b)' <=> Before(a, b)
  BY <1>1, SameArray
<1>5. TypeOK'
  BY <1>1, <1>3 DEF DuplicatesInv, TypeOK
<1>6. WalkInv' /\ InsideArray'
  BY <1>1 DEF WalkInv, InsideArray
<1>7. ArrayInv'
  <2>1. pc = "stat" /\ pc' = "open" /\ UNCHANGED <<version, present, touched, created, elems, cells>>
    BY <1>1
  <2> QED BY <1>4, <2>1, SameCounted DEF DuplicatesInv, ArrayInv
<1>8. PairInv'
  <2>1. /\ 1 <= i /\ i < j /\ j <= Length /\ (version = "backup" => i = 1)
    BY <1>1 DEF DuplicatesInv, PairInv
  <2>2. \A k \in {i, j} : elems[k] \in present /\ Len(content[elems[k]]) = size'
    BY <1>1, <1>2
  <2> QED BY <1>1, <1>2, <1>4, <2>1, <2>2 DEF PairInv
<1>9. PrintedInv'
  BY <1>1, SamePrinted DEF DuplicatesInv
<1>10. OpenInv'
  <2>1. Lost' = Lost
    BY <1>1, <1>4 DEF Lost
  <2> QED BY <1>1, <2>1 DEF DuplicatesInv, OpenInv
<1> QED BY <1>5, <1>6, <1>7, <1>8, <1>9, <1>10 DEF DuplicatesInv

LEMMA OpenBothKeeps ==
  ASSUME DuplicatesInv, openBoth
  PROVE  DuplicatesInv'
<1>1. /\ pc = "open" /\ pc' = "read" /\ open' = open + 2 /\ open + 2 <= limit /\ pos' = 0
      /\ UNCHANGED <<version, limit, present, content, touched, created, reading, elems, cells, i, j, size,
                     last, printed>>
  BY DEF openBoth, files, array
<1>2. /\ Names' = Names /\ Length' = Length /\ Printed' = Printed
      /\ \A a, b : Before(a, b)' <=> Before(a, b)
  BY <1>1, SameArray
<1>3. /\ open \in 0 .. limit /\ limit \in Nat /\ size \in Nat
  BY DuplicatesAssumption DEF DuplicatesInv, TypeOK
<1>4. TypeOK'
  <2>1. open' \in 0 .. limit' /\ pos' \in Nat
    BY <1>1, <1>3
  <2> QED BY <1>1, <2>1 DEF DuplicatesInv, TypeOK
<1>5. WalkInv' /\ InsideArray'
  BY <1>1 DEF WalkInv, InsideArray
<1>6. ArrayInv'
  <2>1. pc = "open" /\ pc' = "read" /\ UNCHANGED <<version, present, touched, created, elems, cells>>
    BY <1>1
  <2> QED BY <1>2, <2>1, SameCounted DEF DuplicatesInv, ArrayInv
<1>7. PairInv'
  <2>1. /\ 1 <= i /\ i < j /\ j <= Length /\ (version = "backup" => i = 1) /\ j <= Len(elems)
        /\ \A k \in {i, j} : elems[k] \notin touched =>
             elems[k] \in present /\ Len(content[elems[k]]) = size
    BY <1>1 DEF DuplicatesInv, PairInv
  <2>2. pos' <= size' /\ 1 .. pos' = {}
    BY <1>1, <1>3
  <2> QED BY <1>1, <1>2, <2>1, <2>2 DEF PairInv
<1>8. PrintedInv'
  BY <1>1, SamePrinted DEF DuplicatesInv
<1>9. OpenInv'
  <2>1. Lost' = Lost
    BY <1>1, <1>2 DEF Lost
  <2>2. touched = {} => open = 2 * Cardinality(Lost) + 0
    BY <1>1 DEF DuplicatesInv, OpenInv
  <2>3. open' >= 2
    BY <1>1, <1>3
  <2>4. touched' = {} => open' = 2 * Cardinality(Lost') + 2
    <3> DEFINE n == 2 * Cardinality(Lost)
    <3>1. touched = {} => open = n + 0
      BY <2>2
    <3> HIDE DEF n
    <3>2. touched = {} => n \in Int
      <4>1. Cardinality(Lost) \in Nat
        BY LostCounts DEF DuplicatesInv
      <4> QED BY <4>1 DEF n
    <3>3. touched = {} => open' = n + 2
      BY <1>1, <3>1, <3>2
    <3> QED BY <1>1, <2>1, <3>3 DEF n
  <2> QED BY <1>1, <2>3, <2>4 DEF OpenInv
<1> QED BY <1>4, <1>5, <1>6, <1>7, <1>8, <1>9 DEF DuplicatesInv

\* Of two files that nobody has changed, the same byte is read of both as long
\* as they are equal.
LEMMA SameByte ==
  ASSUME DuplicatesInv, pc = "read", pos < size,
         elems[i] \notin touched, elems[j] \notin touched
  PROVE  /\ Byte(elems[i]) = {content[elems[i]][pos + 1]}
         /\ Byte(elems[j]) = {content[elems[j]][pos + 1]}
         /\ Len(content[elems[i]]) = size /\ Len(content[elems[j]]) = size
<1>1. \A k \in {i, j} : elems[k] \notin touched =>
        elems[k] \in present /\ Len(content[elems[k]]) = size
  BY DEF DuplicatesInv, PairInv
<1> QED BY <1>1 DEF Byte

LEMMA ByteType ==
  ASSUME DuplicatesInv, NEW k \in 1 .. Len(elems)
  PROVE  Byte(elems[k]) \subseteq Bytes
<1>1. last \in Bytes /\ pos \in Nat
  BY DEF DuplicatesInv, TypeOK
<1>2. content[elems[k]] \in Seq(Bytes) /\ Len(content[elems[k]]) \in Nat
  BY FileAtHand
<1>3. pos < Len(content[elems[k]]) => pos + 1 \in 1 .. Len(content[elems[k]])
  BY <1>1, <1>2
<1>4. pos < Len(content[elems[k]]) => content[elems[k]][pos + 1] \in Bytes
  BY <1>2, <1>3, ElementOfSeq
<1> QED BY <1>1, <1>4 DEF Byte

LEMMA ReadAgreesKeeps ==
  ASSUME DuplicatesInv, readAgrees
  PROVE  DuplicatesInv'
<1>1. /\ pc = "read" /\ pos < size /\ pos' = pos + 1
      /\ last' \in Byte(elems[i]) /\ last' \in Byte(elems[j])
      /\ UNCHANGED <<version, pc, limit, present, content, touched, created, reading, elems, cells, i, j,
                     size, open, printed>>
  BY DEF readAgrees, ReadBoth, files, array
<1>2. /\ Names' = Names /\ Length' = Length /\ Printed' = Printed
      /\ \A a, b : Before(a, b)' <=> Before(a, b)
  BY <1>1, SameArray
<1>3. /\ pos \in Nat /\ size \in Nat /\ pos <= size /\ j <= Len(elems)
  BY <1>1 DEF DuplicatesInv, TypeOK, PairInv
<1>4. i \in 1 .. Len(elems) /\ last' \in Bytes
  <2>1. i \in 1 .. Len(elems)
    BY <1>1, <1>3, AtHand
  <2> QED BY <1>1, <2>1, ByteType
<1>5. TypeOK'
  <2>1. pos' \in Nat
    BY <1>1, <1>3
  <2> QED BY <1>1, <1>4, <2>1 DEF DuplicatesInv, TypeOK
<1>6. WalkInv' /\ InsideArray'
  BY <1>1 DEF WalkInv, InsideArray
<1>7. ArrayInv'
  <2>1. UNCHANGED <<version, pc, present, touched, created, elems, cells>>
    BY <1>1
  <2> QED BY <1>2, <2>1, SameCounted DEF DuplicatesInv, ArrayInv
<1>8. PairInv'
  <2>1. /\ 1 <= i /\ i < j /\ j <= Length /\ (version = "backup" => i = 1)
        /\ \A k \in {i, j} : elems[k] \notin touched =>
             elems[k] \in present /\ Len(content[elems[k]]) = size
    BY <1>1 DEF DuplicatesInv, PairInv
  <2>2. elems[i] \notin touched /\ elems[j] \notin touched =>
          \A k \in 1 .. pos : content[elems[i]][k] = content[elems[j]][k]
    BY <1>1 DEF DuplicatesInv, PairInv
  <2>3. elems[i] \notin touched /\ elems[j] \notin touched =>
          content[elems[i]][pos + 1] = content[elems[j]][pos + 1]
    BY <1>1, SameByte
  <2>4. pos' <= size' /\ \A k \in 1 .. pos' : k \in 1 .. pos \/ k = pos + 1
    BY <1>1, <1>3
  <2>5. elems[i] \notin touched /\ elems[j] \notin touched =>
          \A k \in 1 .. pos' : content[elems[i]][k] = content[elems[j]][k]
    BY <2>2, <2>3, <2>4
  <2> QED BY <1>1, <1>2, <1>3, <2>1, <2>4, <2>5 DEF PairInv
<1>9. PrintedInv'
  BY <1>1, SamePrinted DEF DuplicatesInv
<1>10. OpenInv'
  <2>1. Lost' = Lost
    BY <1>1, <1>2 DEF Lost
  <2> QED BY <1>1, <2>1 DEF DuplicatesInv, OpenInv
<1> QED BY <1>5, <1>6, <1>7, <1>8, <1>9, <1>10 DEF DuplicatesInv

\* Two descriptors are in use for the pair at hand, besides those lost.
LEMMA OpenAtRead ==
  ASSUME DuplicatesInv, pc = "read"
  PROVE  /\ open \in 0 .. limit /\ limit \in Nat /\ open >= 2 /\ open - 2 \in 0 .. limit
         /\ Cardinality(Lost) \in Nat
         /\ touched = {} => open - 2 = 2 * Cardinality(Lost)
                            /\ open = 2 * (Cardinality(Lost) + 1)
<1>1. open \in 0 .. limit /\ limit \in Nat /\ open >= 2
  BY DuplicatesAssumption DEF DuplicatesInv, TypeOK, OpenInv
<1>2. Cardinality(Lost) \in Nat
  BY LostCounts DEF DuplicatesInv
<1>3. touched = {} => open = 2 * Cardinality(Lost) + 2
  BY DEF DuplicatesInv, OpenInv
<1> QED BY <1>1, <1>2, <1>3

LEMMA ReadDiffersKeeps ==
  ASSUME DuplicatesInv, readDiffers
  PROVE  DuplicatesInv'
<1>1. /\ pc = "read" /\ pos < size /\ Advance
      /\ UNCHANGED <<version, limit, present, content, touched, created, reading, elems, cells, open, printed>>
  BY DEF readDiffers, files, array
<1>2. PICK b \in Byte(elems[i]), c \in Byte(elems[j]) : b # c
  BY DEF readDiffers
<1>3. j <= Len(elems)
  BY <1>1 DEF DuplicatesInv, PairInv
<1>4. elems[i] \notin touched /\ elems[j] \notin touched =>
        /\ content[elems[i]] # content[elems[j]]
        /\ Len(content[elems[i]]) = Len(content[elems[j]])
  <2> SUFFICES ASSUME elems[i] \notin touched, elems[j] \notin touched
               PROVE  /\ content[elems[i]] # content[elems[j]]
                      /\ Len(content[elems[i]]) = Len(content[elems[j]])
    OBVIOUS
  <2>1. /\ Byte(elems[i]) = {content[elems[i]][pos + 1]}
        /\ Byte(elems[j]) = {content[elems[j]][pos + 1]}
        /\ Len(content[elems[i]]) = size /\ Len(content[elems[j]]) = size
    BY <1>1, SameByte
  <2>2. b = content[elems[i]][pos + 1] /\ c = content[elems[j]][pos + 1]
    BY <2>1
  <2> QED BY <1>2, <2>1, <2>2
<1>5. ~IsDuplicate(i, j)
  BY <1>4 DEF IsDuplicate
<1>6. open' \in 0 .. limit /\ (touched = {} => open' = 2 * Cardinality(Lost'))
  <2>1. touched = {} => Cardinality(Lost') = Cardinality(Lost) + 1
    BY <1>1, <1>3, <1>4, LostAdvances
  <2>2. open' = open
    BY <1>1
  <2>3. open \in 0 .. limit /\ (touched = {} => open = 2 * (Cardinality(Lost) + 1))
    BY <1>1, OpenAtRead
  <2>4. CASE touched = {}
    BY <2>1, <2>2, <2>3, <2>4
  <2>5. CASE touched # {}
    BY <2>2, <2>3, <2>5
  <2> QED BY <2>4, <2>5
<1> QED BY <1>1, <1>3, <1>5, <1>6, AdvanceKeeps

LEMMA SameFileKeeps ==
  ASSUME DuplicatesInv, sameFile
  PROVE  DuplicatesInv'
<1>1. /\ pc = "read" /\ pos = size /\ open' = open - 2 /\ Advance
      /\ printed' = Append(printed, <<elems[i], elems[j]>>)
      /\ UNCHANGED <<version, limit, present, content, touched, created, reading, elems, cells>>
  BY DEF sameFile, Equal, files, array
<1>2. j <= Len(elems)
  BY <1>1 DEF DuplicatesInv, PairInv
<1>3. i \in 1 .. Len(elems) /\ j \in 1 .. Len(elems)
  BY <1>1, <1>2, AtHand
<1>4. elems[i] \notin touched /\ elems[j] \notin touched =>
        /\ elems[i] \in present /\ elems[j] \in present
        /\ Len(content[elems[i]]) = size /\ Len(content[elems[j]]) = size
        /\ \A k \in 1 .. size : content[elems[i]][k] = content[elems[j]][k]
  BY <1>1 DEF DuplicatesInv, PairInv
<1>5. elems[i] \notin touched /\ elems[j] \notin touched => content[elems[i]] = content[elems[j]]
  <2>1. content[elems[i]] \in Seq(Bytes) /\ content[elems[j]] \in Seq(Bytes)
    BY <1>3, FileAtHand
  <2> QED BY <1>4, <2>1, SeqEqual
<1>6. Matched(i, j)
  BY <1>4, <1>5 DEF Matched
<1>7. open' \in 0 .. limit /\ (touched = {} => open' = 2 * Cardinality(Lost'))
  <2>1. touched = {} => Cardinality(Lost') = Cardinality(Lost)
    BY <1>1, <1>2, <1>5, LostAdvances
  <2>2. open - 2 \in 0 .. limit /\ (touched = {} => open - 2 = 2 * Cardinality(Lost))
    BY <1>1, OpenAtRead
  <2> QED BY <1>1, <2>1, <2>2
<1> QED BY <1>1, <1>2, <1>6, <1>7, AdvanceKeeps

-----------------------------------------------------------------------------
(* The invariant. *)

LEMMA InitKeeps ==
  ASSUME Init
  PROVE  DuplicatesInv
<1>1. /\ version \in {"duplicates", "backup"} /\ limit \in Limits
      /\ pc = IF version = "backup" THEN "count" ELSE "walk"
      /\ touched = {} /\ created = {}
      /\ reading = << Listing(Root) >> /\ open = 1 /\ elems = << >>
      /\ cells = IF version = "backup" THEN 0 ELSE DYNARR_INITSIZE
      /\ i = 1 /\ j = 2 /\ size = 0 /\ pos = 0 /\ printed = << >>
      /\ present \subseteq Files /\ content \in [Files -> Contents]
  BY DuplicatesAssumption DEF Init, NoLocals
<1>2. last \in Bytes
  BY DuplicatesAssumption DEF Init, NoLocals
<1>3. Listing(Root) \in SUBSET Nodes
  BY <1>1, DuplicatesAssumption DEF Listing, Nodes
<1>4. reading \in Seq(SUBSET Nodes)
  <2> HIDE DEF Listing
  <2> QED BY <1>1, <1>3
<1>5. TypeOK
  <2>1. open \in 0 .. limit /\ cells \in Nat
    BY <1>1, DuplicatesAssumption
  <2>2. elems \in Seq(Files) /\ printed \in Seq(Files \X Files)
    BY <1>1
  <2>3. pc \in {"count", "walk"}
    BY <1>1
  <2> QED BY <1>1, <1>2, <1>4, <2>1, <2>2, <2>3 DEF TypeOK, Nodes
<1>6. /\ reading # << >> /\ Len(reading) = 1 /\ WalkedTo({Root}, {}, reading)
  BY <1>1, <1>5, WalkStarts
<1>7. Len(elems) = 0 /\ 1 .. Len(elems) = {} /\ Names = {} /\ Cardinality({}) = 0
  BY <1>1, FS_EmptySet DEF Names
<1>8. WalkInv
  <2>1. {Root} \in SUBSET Dirs /\ {} \in SUBSET Files
    BY DuplicatesAssumption
  <2>2. pc = "count" => cells = 0
    BY <1>1
  <2> QED BY <1>6, <1>7, <2>1, <2>2 DEF WalkInv
<1>9. ArrayInv
  <2>1. pc \in {"count", "walk"} /\ (pc = "count" <=> version = "backup")
    BY <1>1
  <2> QED BY <1>1, <1>7, <2>1 DEF ArrayInv
<1>10. PairInv
  <2>1. pc \in {"count", "walk"}
    BY <1>1
  <2> QED BY <1>1, <2>1 DEF PairInv
<1>11. PrintedInv
  <2>1. Printed = {} /\ Len(printed) = 0 /\ 1 .. Len(printed) = {}
    BY <1>1 DEF Printed
  <2> QED BY <1>7, <2>1, FS_EmptySet DEF PrintedInv
<1>12. OpenInv /\ InsideArray
  <2>1. pc \in {"count", "walk"}
    BY <1>1
  <2> QED BY <1>1, <1>6, <2>1 DEF OpenInv, InsideArray
<1> QED BY <1>5, <1>8, <1>9, <1>10, <1>11, <1>12 DEF DuplicatesInv

LEMMA StepKeeps ==
  ASSUME DuplicatesInv, [Next]_vars
  PROVE  DuplicatesInv'
<1>1. ASSUME NEW f \in Files, countFile(f) PROVE DuplicatesInv'
  BY <1>1, CountKeeps
<1>2. ASSUME NEW f \in Files, DYNARR_addElem(f) PROVE DuplicatesInv'
  BY <1>2, AddElemKeeps
<1>3. ASSUME NEW f \in Files, addElemOutside(f) PROVE DuplicatesInv'
  <2>1. pc = "walk" /\ Exit("crashed")
    BY <1>3 DEF addElemOutside
  <2>2. \/ version = "duplicates" /\ Len(elems) >= DYNARR_INITSIZE
        \/ version = "backup" /\ created # {}
    BY <1>3, OutsideMeansMore
  <2> QED BY <2>1, <2>2, ExitKeeps
<1>4. ASSUME Exit("failed") PROVE DuplicatesInv'
  BY <1>4, ExitKeeps
<1>5. ASSUME NEW f \in Files, statGone(f) PROVE DuplicatesInv'
  BY <1>4, <1>5 DEF statGone
<1>6. CASE recurse
  BY <1>6, RecurseKeeps
<1>7. CASE closedir
  BY <1>7, ClosedirKeeps
<1>8. CASE allocFileNames
  BY <1>8, AllocKeeps
<1>9. CASE recurseFails \/ allocFileNamesFails \/ compareFails
  BY <1>4, <1>9 DEF recurseFails, allocFileNamesFails, compareFails
<1>10. CASE statDiffers
  BY <1>10, StatDiffersKeeps
<1>11. CASE statAgrees
  BY <1>11, StatAgreesKeeps
<1>12. CASE openBoth
  BY <1>12, OpenBothKeeps
<1>13. CASE readAgrees
  BY <1>13, ReadAgreesKeeps
<1>14. CASE readDiffers
  BY <1>14, ReadDiffersKeeps
<1>15. CASE sameFile
  BY <1>15, SameFileKeeps
<1>16. ASSUME NEW f \in Files, remove(f) \/ \E c \in Contents : write(f, c) PROVE DuplicatesInv'
  BY <1>16, OthersKeep
<1>17. CASE UNCHANGED vars
  <2>1. UNCHANGED <<version, pc, limit, present, content, touched, created, reading, elems, cells, i, j, size,
                    pos, last, open, printed>>
    BY <1>17 DEF vars, files, array, pair
  <2>2. /\ Names' = Names /\ Length' = Length
        /\ \A a, b : Before(a, b)' <=> Before(a, b)
    BY <2>1, SameArray
  <2>3. TypeOK' /\ InsideArray'
    BY <2>1 DEF DuplicatesInv, TypeOK, InsideArray
  <2>4. WalkInv'
    <3>1. \A V, seen : WalkedTo(V, seen, reading) <=> WalkedTo(V, seen, reading)'
      BY <2>1 DEF WalkedTo, Under
    <3> QED BY <2>1, <2>2, <3>1 DEF DuplicatesInv, WalkInv
  <2>5. ArrayInv'
    BY <2>1, <2>2, SameCounted DEF DuplicatesInv, ArrayInv
  <2>6. PairInv'
    BY <2>1, <2>2 DEF DuplicatesInv, PairInv
  <2>7. PrintedInv'
    BY <2>1, SamePrinted DEF DuplicatesInv
  <2>8. OpenInv'
    <3>1. Lost' = Lost
      BY <2>1, <2>2 DEF Lost
    <3> QED BY <2>1, <3>1 DEF DuplicatesInv, OpenInv
  <2> QED BY <2>3, <2>4, <2>5, <2>6, <2>7, <2>8 DEF DuplicatesInv
<1> QED
  BY <1>1, <1>2, <1>3, <1>5, <1>6, <1>7, <1>8, <1>9, <1>10, <1>11, <1>12, <1>13, <1>14, <1>15,
     <1>16, <1>17
  DEF Next, main, getFileNamesInDir, compareFiles

\* The inductive invariant of both programs: where the walk is, what is in
\* the array, which pairs have been compared, and the descriptors in use.
THEOREM Invariance == Spec => []DuplicatesInv
BY InitKeeps, StepKeeps, PTL DEF Spec

\* Every variable keeps its type, and no more descriptors are in use than the
\* process may have.
THEOREM TypeCorrect == Spec => []TypeOK
<1>1. DuplicatesInv => TypeOK
  BY DEF DuplicatesInv
<1> QED BY Invariance, <1>1, PTL

\* getFileNamesInDir() returns every regular file that was there all the time,
\* and no name twice, whatever the tree is and whatever else changes in it.
THEOREM WalkIsComplete == Spec => []WalkComplete
<1>1. DuplicatesInv => WalkComplete
  BY DEF DuplicatesInv, ArrayInv, WalkComplete
<1> QED BY Invariance, <1>1, PTL

\* A name is stored outside the array (duplicates.c:66, duplicates_backup.c:95)
\* by the newer version only when the array is full for the first time, and by
\* the older one only when another process has created a file; no removal, no
\* new content and no shape of the tree has that effect.
THEOREM StaysInsideArray == Spec => []InsideArray
<1>1. DuplicatesInv => InsideArray
  BY DEF DuplicatesInv
<1> QED BY Invariance, <1>1, PTL

-----------------------------------------------------------------------------
(* Sets of two. *)

LEMMA CardTwo ==
  ASSUME NEW x, NEW y, x # y
  PROVE  Cardinality({x, y}) = 2
<1>1. IsFiniteSet({x}) /\ Cardinality({x}) = 1
  BY FS_Singleton
<1>2. Cardinality({x} \union {y}) = 2
  BY <1>1, FS_AddElement
<1>3. {x} \union {y} = {x, y}
  OBVIOUS
<1> QED BY <1>2, <1>3

LEMMA TwoElements ==
  ASSUME NEW p, IsFiniteSet(p), Cardinality(p) = 2
  PROVE  \E x, y \in p : x # y /\ p = {x, y}
<1>1. p # {}
  BY FS_EmptySet
<1>2. PICK x \in p : TRUE
  BY <1>1
<1>3. IsFiniteSet(p \ {x}) /\ Cardinality(p \ {x}) = 1
  BY <1>2, FS_RemoveElement
<1>4. PICK y : p \ {x} = {y}
  BY <1>3, FS_Singleton
<1>5. y \in p /\ x # y /\ p = {x, y}
  BY <1>2, <1>4
<1> QED BY <1>2, <1>5

\* The names of a pair stand at two places of the array.
LEMMA PairAt ==
  ASSUME DuplicatesInv, NEW p \in SUBSET Names, Cardinality(p) = 2
  PROVE  \E a, b \in 1 .. Len(elems) : a < b /\ p = {elems[a], elems[b]}
<1>1. IsFiniteSet(p) /\ Len(elems) \in Nat
  BY NamesType, FS_Subset DEF DuplicatesInv
<1>2. PICK x \in p, y \in p : x # y /\ p = {x, y}
  BY <1>1, TwoElements
<1>3. PICK a \in 1 .. Len(elems) : x = elems[a]
  BY DEF Names
<1>4. PICK b \in 1 .. Len(elems) : y = elems[b]
  BY DEF Names
<1>5. a \in Nat /\ b \in Nat /\ a # b /\ p = {elems[a], elems[b]} /\ p = {elems[b], elems[a]}
  BY <1>1, <1>2, <1>3, <1>4
<1>6. CASE a < b
  BY <1>5, <1>6
<1>7. CASE b < a
  BY <1>5, <1>7
<1> QED BY <1>5, <1>6, <1>7

\* At the end the loops have come to every pair, or every pair of the first row.
LEMMA AllBefore ==
  ASSUME DuplicatesInv, pc = "done", NEW a \in 1 .. Len(elems), NEW b \in 1 .. Len(elems),
         a < b, Compared({elems[a], elems[b]})
  PROVE  Before(a, b)
<1>1. /\ i \in Nat /\ j \in Nat /\ Len(elems) \in Nat /\ a \in Nat /\ b \in Nat
      /\ b <= Len(elems) /\ a >= 1 /\ 1 \in 1 .. Len(elems)
  <2>1. Len(elems) \in Nat /\ i \in Nat /\ j \in Nat
    BY NamesType DEF DuplicatesInv, TypeOK
  <2> QED BY <2>1
<1>2. Length < j /\ (version = "duplicates" => j = i + 1) /\ (version = "backup" => i = 1)
  BY DEF DuplicatesInv, PairInv
<1>3. CASE version = "duplicates"
  <2>1. Length = Len(elems)
    BY <1>3 DEF Length
  <2> QED BY <1>1, <1>2, <1>3, <2>1 DEF Before
<1>4. CASE version = "backup"
  <2>1. Length = cells /\ cells \in Nat /\ Len(elems) <= cells
    BY <1>4 DEF Length, DuplicatesInv, TypeOK, ArrayInv
  <2>2. elems[1] = elems[a] \/ elems[1] = elems[b]
    BY <1>4 DEF Compared
  <2>3. a = 1 \/ b = 1
    BY <1>1, <2>2 DEF DuplicatesInv, ArrayInv
  <2>4. a = 1
    BY <1>1, <2>3
  <2> QED BY <1>1, <1>2, <1>4, <2>1, <2>4 DEF Before
<1> QED BY <1>3, <1>4 DEF DuplicatesInv, TypeOK

\* A pair that has been compared is a pair of two names, one that the loops
\* come to.
LEMMA BeforeCompared ==
  ASSUME DuplicatesInv, NEW a \in 1 .. Len(elems), NEW b \in 1 .. Len(elems), Before(a, b)
  PROVE  /\ elems[a] # elems[b] /\ Cardinality({elems[a], elems[b]}) = 2
         /\ {elems[a], elems[b]} \in SUBSET Names
         /\ Compared({elems[a], elems[b]})
<1>1. a \in Nat /\ b \in Nat /\ a < b /\ Len(elems) \in Nat
  BY NamesType DEF DuplicatesInv, Before
<1>2. elems[a] # elems[b]
  BY <1>1 DEF DuplicatesInv, ArrayInv
<1>3. {elems[a], elems[b]} \in SUBSET Names
  BY DEF Names
<1>4. Compared({elems[a], elems[b]})
  <2>1. CASE version = "backup"
    <3>1. i = 1 /\ a >= 1
      BY <1>1, <2>1 DEF DuplicatesInv, PairInv
    <3>2. a = 1
      BY <1>1, <3>1 DEF Before
    <3>3. elems # << >>
      BY <1>1
    <3> QED BY <3>2, <3>3 DEF Compared
  <2>2. CASE version = "duplicates"
    BY <2>2 DEF Compared
  <2> QED BY <2>1, <2>2 DEF DuplicatesInv, TypeOK
<1> QED BY <1>2, <1>3, <1>4, CardTwo

-----------------------------------------------------------------------------

\* What is printed are pairs of different files with the same content, each
\* pair once, unless another process has changed one of the two.
THEOREM PrintsOnlyDuplicates == Spec => []OnlyDuplicates
<1>1. ASSUME DuplicatesInv PROVE OnlyDuplicates
  <2>1. Len(printed) = Cardinality(Printed)
    BY <1>1 DEF DuplicatesInv, PrintedInv
  <2>2. ASSUME NEW p \in Printed
        PROVE  Cardinality(p) = 2 /\ (p \intersect touched = {} => p \in SameContent)
    <3>1. PICK k \in 1 .. Len(printed) : p = {printed[k][1], printed[k][2]}
      BY DEF Printed
    <3>2. PICK a \in 1 .. Len(elems), b \in 1 .. Len(elems) :
            Before(a, b) /\ printed[k] = <<elems[a], elems[b]>> /\ Matched(a, b)
      BY <1>1, PrintedInvParts DEF DuplicatesInv
    <3>3. p = {elems[a], elems[b]}
      BY <3>1, <3>2
    <3>4. Cardinality(p) = 2
      BY <1>1, <3>2, <3>3, BeforeCompared
    <3>5. ASSUME p \intersect touched = {} PROVE p \in SameContent
      <4>1. p \subseteq present /\ content[elems[a]] = content[elems[b]]
        BY <3>2, <3>3, <3>5 DEF Matched
      <4>2. \A f, g \in p : content[f] = content[g]
        BY <3>3, <4>1
      <4> QED BY <3>4, <3>5, <4>1, <4>2 DEF SameContent
    <3> QED BY <3>4, <3>5
  <2> QED BY <2>1, <2>2 DEF OnlyDuplicates
<1> QED BY Invariance, <1>1, PTL

\* At the end every pair of files with the same content has been printed that
\* no other process has changed: by the older version, of those with the first
\* file.
THEOREM PrintsAllDuplicates == Spec => []AllDuplicates
<1>1. ASSUME DuplicatesInv, pc = "done", NEW p \in SameContent, Compared(p)
      PROVE  p \in Printed
  <2>1. p \subseteq present \ touched /\ Cardinality(p) = 2 /\ \A f, g \in p : content[f] = content[g]
    BY DEF SameContent
  <2>2. present \ touched \subseteq Names
    <3>1. present \ created \subseteq Names /\ created \subseteq touched
      BY <1>1 DEF Compared, DuplicatesInv, ArrayInv, TypeOK
    <3> QED BY <3>1
  <2>3. PICK a \in 1 .. Len(elems), b \in 1 .. Len(elems) : a < b /\ p = {elems[a], elems[b]}
    BY <1>1, <2>1, <2>2, PairAt
  <2>4. Before(a, b)
    BY <1>1, <2>3, AllBefore
  <2>5. IsDuplicate(a, b)
    BY <2>1, <2>3 DEF IsDuplicate
  <2> QED BY <1>1, <2>3, <2>4, <2>5, PrintedInvParts DEF DuplicatesInv
<1>2. DuplicatesInv => AllDuplicates
  BY <1>1 DEF AllDuplicates
<1> QED BY Invariance, <1>2, PTL

\* If nobody changes the files, the descriptors that are open at the end are
\* those of the pairs that compareFiles() found to differ in some byte.
THEOREM DescriptorsLost == Spec => []LosesOnlyDifferent
<1> DEFINE Differing == {p \in SUBSET Names :
                 /\ Cardinality(p) = 2 /\ Compared(p)
                 /\ \A f, g \in p : Len(content[f]) = Len(content[g])
                 /\ \E f, g \in p : content[f] # content[g]}
<1>1. ASSUME DuplicatesInv, pc = "done" PROVE Differing = Lost
  <2>1. ASSUME NEW p \in Differing PROVE p \in Lost
    <3>1. p \in SUBSET Names /\ Cardinality(p) = 2 /\ Compared(p)
      OBVIOUS
    <3>2. PICK a \in 1 .. Len(elems), b \in 1 .. Len(elems) : a < b /\ p = {elems[a], elems[b]}
      BY <1>1, <3>1, PairAt
    <3>3. Before(a, b)
      BY <1>1, <3>1, <3>2, AllBefore
    <3>4. Len(content[elems[a]]) = Len(content[elems[b]]) /\ content[elems[a]] # content[elems[b]]
      BY <3>2
    <3> QED BY <3>1, <3>2, <3>3, <3>4 DEF Lost
  <2>2. ASSUME NEW p \in Lost PROVE p \in Differing
    <3>1. PICK a \in 1 .. Len(elems), b \in 1 .. Len(elems) :
            /\ Before(a, b) /\ p = {elems[a], elems[b]}
            /\ Len(content[elems[a]]) = Len(content[elems[b]])
            /\ content[elems[a]] # content[elems[b]]
      BY DEF Lost
    <3>2. Cardinality(p) = 2 /\ Compared(p) /\ p \in SUBSET Names
      BY <1>1, <3>1, BeforeCompared
    <3>3. /\ \A f, g \in p : Len(content[f]) = Len(content[g])
          /\ \E f, g \in p : content[f] # content[g]
      BY <3>1
    <3> QED BY <3>2, <3>3
  <2> QED BY <2>1, <2>2
<1>2. ASSUME DuplicatesInv, pc = "done", touched = {} PROVE open = 2 * Cardinality(Lost)
  <2>1. open = 2 * Cardinality(Lost) + 0 /\ Cardinality(Lost) \in Nat
    BY <1>2, LostCounts DEF DuplicatesInv, OpenInv
  <2> QED BY <2>1
<1>3. ASSUME DuplicatesInv PROVE LosesOnlyDifferent
  BY <1>1, <1>2, <1>3 DEF LosesOnlyDifferent
<1> QED BY Invariance, <1>3, PTL
=============================================================================
