------------------------- MODULE HashTableDb_proofs -------------------------
(***************************************************************************)
(* Proofs about the nullifier table, for every number of buckets, every    *)
(* bucket capacity, every set of blocks and every target size.             *)
(***************************************************************************)
EXTENDS HashTableDb, FiniteSetTheorems, TLAPS

(* Every entry lies in its nullifier's bucket, those of refused insertions *)
(* included.                                                               *)
BucketsOK(content) ==
  \A c \in Occupied(content) : c[1] = BucketOf[content[c].nullifier]

(* What holds of a table's data whether it is in memory or in a snapshot.  *)
DataOK(content, index, num, refused) ==
  /\ content \in [Cell -> Entry]
  /\ DOMAIN index \subseteq Nat
  /\ index \in [DOMAIN index -> BlockRecord]
  /\ num \in Nat
  /\ refused \in BOOLEAN
  /\ num = Cardinality(Occupied(content))
  /\ BucketsOK(content)
  /\ RecordOwnsItsSlots(index, content)
  /\ ~refused => Untracked(content, index) = {}

HashesOK(hashes, index) ==
  /\ hashes \in [{index[h].hash : h \in DOMAIN index} -> Nat]
  /\ \A h \in DOMAIN index : hashes[index[h].hash] = h

DiskOK ==
  \A s \in disk : DataOK(s.cells, s.blockIndex, s.numEntries, s.overflowed)

IInv ==
  /\ DataOK(cells, blockIndex, numEntries, overflowed)
  /\ HashesOK(hashToHeight, blockIndex)
  /\ evicting \in BOOLEAN
  /\ DiskOK

-----------------------------------------------------------------------------
(* Cells are finitely many, so any set of them can be counted. *)
LEMMA CellFinite == IsFiniteSet(Cell)
<1>1. IsFiniteSet(0..(BucketCapacity - 1))
  BY FS_Interval, ConstantsAssumption
<1>. QED
  BY <1>1, FS_Product, ConstantsAssumption DEF Cell

LEMMA OccupiedFinite ==
  ASSUME NEW content
  PROVE  /\ IsFiniteSet(Occupied(content))
         /\ Cardinality(Occupied(content)) \in Nat
<1>1. Occupied(content) \in SUBSET Cell
  BY DEF Occupied
<1>. QED
  BY <1>1, CellFinite, FS_Subset, FS_CardinalityType

(* The cells an insertion picks are distinct, lie in the nullifiers' own   *)
(* buckets and were empty: each choice looks for an empty slot outside the *)
(* choices before it.                                                      *)
LEMMA PlacementFacts ==
  ASSUME NEW nfs \in Seq(Nullifier), NEW k \in 0..Len(nfs),
         NEW place \in [1..k -> Cell], Placement(nfs, place)
  PROVE  /\ IsInjective(place)
         /\ \A i \in 1..k : place[i][1] = BucketOf[nfs[i]]
         /\ \A i \in 1..k : place[i] \notin Occupied(cells)
<1>1. ASSUME NEW i \in 1..k
      PROVE  /\ place[i] = <<place[i][1], place[i][2]>>
             /\ place[i][1] = BucketOf[nfs[i]]
             /\ IsEmpty(cells[place[i]])
             /\ place[i] \notin {place[j] : j \in 1..(i - 1)}
  <2>1. place[i] = <<place[i][1], place[i][2]>>
    BY DEF Cell
  <2>2. FindFreeSlot(BucketOf[nfs[i]], {place[j] : j \in 1..(i - 1)}, place[i])
    BY DEF Placement
  <2>. QED
    BY <2>1, <2>2 DEF FindFreeSlot
<1>2. ASSUME NEW i \in 1..k, NEW j \in 1..k, j < i
      PROVE  place[i] # place[j]
  <2>1. j \in 1..(i - 1)
    BY <1>2
  <2>. QED
    BY <2>1, <1>1
<1>3. IsInjective(place)
  BY <1>2 DEF IsInjective
<1>. QED
  BY <1>1, <1>3 DEF Occupied

(* Writing the chosen cells occupies exactly those cells on top of what    *)
(* was occupied, one more for each nullifier.                              *)
LEMMA WrittenFacts ==
  ASSUME cells \in [Cell -> Entry],
         NEW nfs \in Seq(Nullifier), NEW k \in 0..Len(nfs), NEW height \in Nat,
         NEW place \in [1..k -> Cell], Placement(nfs, place)
  PROVE  LET content == Written(nfs, place, height)
         IN  /\ content \in [Cell -> Entry]
             /\ \A i \in 1..k : content[place[i]] = [nullifier |-> nfs[i],
                                                     spendHeight |-> height]
             /\ \A c \in Cell \ Range(place) : content[c] = cells[c]
             /\ Range(place) \subseteq Cell
             /\ Range(place) \cap Occupied(cells) = {}
             /\ Occupied(content) = Occupied(cells) \cup Range(place)
             /\ BucketsOK(cells) => BucketsOK(content)
             /\ Cardinality(Range(place)) = k
             /\ Cardinality(Occupied(content)) = Cardinality(Occupied(cells)) + k
<1> DEFINE content == Written(nfs, place, height)
<1>0. /\ DOMAIN content = Cell
      /\ content = [c \in Cell |-> content[c]]
  BY DEF Written
<1>1. /\ IsInjective(place)
      /\ \A i \in 1..k : place[i] \notin Occupied(cells)
  BY PlacementFacts
<1>2. /\ Range(place) \subseteq Cell
      /\ Range(place) \cap Occupied(cells) = {}
  BY <1>1 DEF Range
<1>3. \A i \in 1..k : /\ nfs[i] \in Nullifier
                      /\ content[place[i]] = [nullifier |-> nfs[i],
                                              spendHeight |-> height]
  <2> TAKE i \in 1..k
  <2>1. nfs[i] \in Nullifier
    OBVIOUS
  <2>2. (CHOOSE j \in DOMAIN place : place[j] = place[i]) = i
    BY <1>1 DEF IsInjective
  <2>. QED
    BY <2>1, <2>2 DEF Written
<1>4. \A c \in Cell \ Range(place) : content[c] = cells[c]
  BY DEF Written, Range
<1> HIDE DEF content
<1>5. content \in [Cell -> Entry]
  <2>1. \A c \in Cell : content[c] \in Entry
    <3> TAKE c \in Cell
    <3>1. CASE c \in Range(place)
      <4>1. PICK i \in 1..k : place[i] = c
        BY <3>1 DEF Range
      <4>2. /\ content[c] = [nullifier |-> nfs[i], spendHeight |-> height]
            /\ nfs[i] \in Nullifier
        BY <4>1, <1>3
      <4>. QED
        BY <4>2 DEF Entry
    <3>2. CASE c \notin Range(place)
      BY <3>2, <1>4
    <3>. QED
      BY <3>1, <3>2
  <2>. QED
    BY <2>1, <1>0
<1>6. Occupied(content) = Occupied(cells) \cup Range(place)
  <2>1. \A c \in Range(place) : ~IsEmpty(content[c])
    <3> TAKE c \in Range(place)
    <3>1. PICK i \in 1..k : place[i] = c
      BY DEF Range
    <3>2. content[c] = [nullifier |-> nfs[i], spendHeight |-> height]
      BY <3>1, <1>3
    <3>3. nfs[i] \in Nullifier /\ nfs[i] # ZeroNullifier
      BY <1>3, ConstantsAssumption
    <3>. QED
      BY <3>2, <3>3 DEF IsEmpty
  <2>. QED
    BY <2>1, <1>2, <1>4 DEF Occupied
<1>7. /\ IsFiniteSet(Range(place))
      /\ Cardinality(Range(place)) = k
  <2>1. place \in Bijection(1..k, Range(place))
    BY <1>1 DEF Bijection, Injection, Surjection, Range
  <2>2. IsFiniteSet(1..k) /\ Cardinality(1..k) = k
    BY FS_Interval
  <2>3. ExistsBijection(1..k, Range(place))
    BY <2>1 DEF ExistsBijection
  <2>. QED
    BY <2>2, <2>3, FS_Bijection
<1>8. Cardinality(Occupied(content)) = Cardinality(Occupied(cells)) + k
  <2>1. Cardinality(Occupied(cells) \cap Range(place)) = 0
    BY <1>2, FS_EmptySet
  <2>2. /\ IsFiniteSet(Occupied(cells))
        /\ Cardinality(Occupied(cells)) \in Nat
    BY OccupiedFinite
  <2>3. Cardinality(Occupied(cells) \cup Range(place))
          = Cardinality(Occupied(cells)) + Cardinality(Range(place))
              - Cardinality(Occupied(cells) \cap Range(place))
    BY <2>2, <1>7, FS_Union
  <2>4. Cardinality(Occupied(content)) = Cardinality(Occupied(cells)) + k - 0
    BY <2>1, <2>3, <1>6, <1>7
  <2>. QED
    BY <2>2, <2>4
<1>9. ASSUME BucketsOK(cells), NEW c \in Occupied(content)
      PROVE  c[1] = BucketOf[content[c].nullifier]
  <2>1. CASE c \in Range(place)
    <3>1. PICK i \in 1..k : place[i] = c
      BY <2>1 DEF Range
    <3>2. content[c] = [nullifier |-> nfs[i], spendHeight |-> height]
      BY <3>1, <1>3
    <3>3. c[1] = BucketOf[nfs[i]]
      BY <3>1, PlacementFacts
    <3>. QED
      BY <3>2, <3>3
  <2>2. CASE c \notin Range(place)
    BY <2>2, <1>4, <1>6, <1>9 DEF BucketsOK, Occupied
  <2>. QED
    BY <2>1, <2>2
<1>10. BucketsOK(cells) => BucketsOK(content)
  BY <1>9 DEF BucketsOK
<1>. QED
  BY <1>2, <1>3, <1>4, <1>5, <1>6, <1>7, <1>8, <1>10 DEF content

(* Zeroing occupied cells frees exactly those cells. *)
LEMMA ErasedFacts ==
  ASSUME cells \in [Cell -> Entry], NEW slots \in SUBSET Occupied(cells)
  PROVE  /\ Erased(slots) \in [Cell -> Entry]
         /\ \A c \in Cell \ slots : Erased(slots)[c] = cells[c]
         /\ Occupied(Erased(slots)) = Occupied(cells) \ slots
         /\ BucketsOK(cells) => BucketsOK(Erased(slots))
         /\ Cardinality(Occupied(Erased(slots)))
              = Cardinality(Occupied(cells)) - Cardinality(slots)
         /\ Cardinality(slots) \in Nat
<1>1. Erased(slots) \in [Cell -> Entry]
  BY ConstantsAssumption DEF Erased, ZERO, Entry
<1>2. Occupied(Erased(slots)) = Occupied(cells) \ slots
  BY DEF Erased, Occupied, IsEmpty, ZERO
<1>3. Cardinality(Occupied(cells) \ slots)
        = Cardinality(Occupied(cells)) - Cardinality(slots)
  <2>1. Occupied(cells) \cap slots = slots
    OBVIOUS
  <2>. QED
    BY <2>1, OccupiedFinite, FS_Difference
<1>4. Cardinality(slots) \in Nat
  BY OccupiedFinite, FS_Subset, FS_CardinalityType
<1>5. \A c \in Cell \ slots : Erased(slots)[c] = cells[c]
  BY DEF Erased
<1>6. BucketsOK(cells) => BucketsOK(Erased(slots))
  BY <1>2, <1>5 DEF BucketsOK, Occupied
<1>. QED
  BY <1>1, <1>2, <1>3, <1>4, <1>5, <1>6
-----------------------------------------------------------------------------
(* The facts about one record that DataOK gives. *)
LEMMA RecordFacts ==
  ASSUME DataOK(cells, blockIndex, numEntries, overflowed),
         NEW h \in DOMAIN blockIndex
  PROVE  /\ h \in Nat
         /\ blockIndex[h] \in BlockRecord
         /\ blockIndex[h].hash \in Block
         /\ blockIndex[h].slots \in SUBSET Cell
         /\ blockIndex[h].slots \subseteq Occupied(cells)
         /\ HeightOf[blockIndex[h].hash] = h
         /\ {cells[c].nullifier : c \in blockIndex[h].slots}
              = {NullifiersOf[blockIndex[h].hash][i] : i \in DOMAIN NullifiersOf[blockIndex[h].hash]}
<1>1. /\ h \in Nat
      /\ blockIndex[h] \in BlockRecord
      /\ RecordOwnsItsSlots(blockIndex, cells)
  BY DEF DataOK
<1>2. \A c \in blockIndex[h].slots : ~IsEmpty(cells[c])
  BY <1>1 DEF RecordOwnsItsSlots
<1>3. HeightOf[blockIndex[h].hash] = h
  BY <1>1 DEF RecordOwnsItsSlots
<1>4. {cells[c].nullifier : c \in blockIndex[h].slots}
        = {NullifiersOf[blockIndex[h].hash][i] : i \in DOMAIN NullifiersOf[blockIndex[h].hash]}
  BY <1>1, Zenon DEF RecordOwnsItsSlots
<1>. QED
  BY <1>1, <1>2, <1>3, <1>4 DEF BlockRecord, Occupied

(* Dropping a key from a map. *)
LEMMA DropFacts ==
  ASSUME NEW f, NEW k
  PROVE  /\ DOMAIN Drop(f, k) = DOMAIN f \ {k}
         /\ \A x \in DOMAIN f \ {k} : Drop(f, k)[x] = f[x]
         /\ Drop(f, k) = [x \in DOMAIN f \ {k} |-> Drop(f, k)[x]]
  BY DEF Drop, Restrict

(* A successful insertion keeps the table's data right. *)
LEMMA InsertPreserves ==
  ASSUME DataOK(cells, blockIndex, numEntries, overflowed),
         NEW b \in Block, HeightOf[b] \notin DOMAIN blockIndex,
         NEW place \in [1..Len(NullifiersOf[b]) -> Cell],
         Placement(NullifiersOf[b], place)
  PROVE  DataOK(Written(NullifiersOf[b], place, HeightOf[b]),
                Put(blockIndex, HeightOf[b], [hash |-> b, slots |-> Range(place)]),
                numEntries + Gained(place), overflowed)
<1> DEFINE nfs == NullifiersOf[b]
           k == Len(nfs)
           height == HeightOf[b]
           content == Written(nfs, place, height)
           record == [hash |-> b, slots |-> Range(place)]
           index == Put(blockIndex, height, record)
<1>1. /\ nfs \in Seq(Nullifier)
      /\ k \in 0..Len(nfs)
      /\ k \in Nat
      /\ DOMAIN nfs = 1..k
      /\ DOMAIN place = 1..k
      /\ place \in [1..k -> Cell]
      /\ Placement(nfs, place)
      /\ height \in Nat
      /\ height \notin DOMAIN blockIndex
  BY ConstantsAssumption
<1> HIDE DEF nfs, k, height
<1>2. /\ cells \in [Cell -> Entry]
      /\ DOMAIN blockIndex \subseteq Nat
      /\ numEntries \in Nat
      /\ overflowed \in BOOLEAN
      /\ numEntries = Cardinality(Occupied(cells))
      /\ BucketsOK(cells)
      /\ RecordOwnsItsSlots(blockIndex, cells)
      /\ ~overflowed => Untracked(cells, blockIndex) = {}
  BY DEF DataOK
<1>3. /\ \A i \in 1..k : place[i][1] = BucketOf[nfs[i]]
  BY <1>1, PlacementFacts
<1>4. /\ content \in [Cell -> Entry]
      /\ \A i \in 1..k : content[place[i]] = [nullifier |-> nfs[i], spendHeight |-> height]
      /\ \A c \in Cell \ Range(place) : content[c] = cells[c]
      /\ Range(place) \subseteq Cell
      /\ Range(place) \cap Occupied(cells) = {}
      /\ BucketsOK(content)
      /\ Occupied(content) = Occupied(cells) \cup Range(place)
      /\ Cardinality(Occupied(content)) = Cardinality(Occupied(cells)) + k
  <2>1. /\ content \in [Cell -> Entry]
        /\ \A i \in 1..k : content[place[i]] = [nullifier |-> nfs[i], spendHeight |-> height]
        /\ \A c \in Cell \ Range(place) : content[c] = cells[c]
    BY <1>1, <1>2, WrittenFacts
  <2>2. /\ Range(place) \subseteq Cell
        /\ Range(place) \cap Occupied(cells) = {}
        /\ BucketsOK(content)
        /\ Occupied(content) = Occupied(cells) \cup Range(place)
        /\ Cardinality(Occupied(content)) = Cardinality(Occupied(cells)) + k
    BY <1>1, <1>2, WrittenFacts
  <2>. QED
    BY <2>1, <2>2
<1>5. /\ DOMAIN index = DOMAIN blockIndex \cup {height}
      /\ index[height] = record
      /\ \A h \in DOMAIN blockIndex : index[h] = blockIndex[h]
      /\ index = [h \in DOMAIN index |-> index[h]]
  <2>1. /\ DOMAIN index = DOMAIN blockIndex \cup {height}
        /\ index[height] = record
        /\ \A h \in DOMAIN blockIndex \ {height} : index[h] = blockIndex[h]
        /\ index = [h \in DOMAIN blockIndex \cup {height} |-> index[h]]
    <3> HIDE DEF record
    <3>. QED
      BY DEF Put
  <2> HIDE DEF index, record
  <2>. QED
    BY <2>1, <1>1
<1>6. Gained(place) = k
  BY <1>1 DEF Gained
<1> HIDE DEF content, index
<1>7. record \in BlockRecord
  BY <1>4 DEF BlockRecord
<1>8. /\ DOMAIN index \subseteq Nat
      /\ index \in [DOMAIN index -> BlockRecord]
  <2>1. \A h \in DOMAIN blockIndex : blockIndex[h] \in BlockRecord
    BY RecordFacts
  <2>2. \A h \in DOMAIN index : index[h] \in BlockRecord
    BY <2>1, <1>5, <1>7
  <2>. QED
    BY <2>2, <1>1, <1>2, <1>5
<1>9. numEntries + Gained(place) = Cardinality(Occupied(content))
  BY <1>2, <1>4, <1>6
<1>10. RecordOwnsItsSlots(index, content)
  <2> SUFFICES ASSUME NEW h \in DOMAIN index
      PROVE  /\ HeightOf[index[h].hash] = h
             /\ \A c \in index[h].slots :
                  /\ ~IsEmpty(content[c])
                  /\ content[c].spendHeight = h
                  /\ c[1] = BucketOf[content[c].nullifier]
             /\ {content[c].nullifier : c \in index[h].slots}
                  = {NullifiersOf[index[h].hash][i] : i \in DOMAIN NullifiersOf[index[h].hash]}
             /\ \A g \in DOMAIN index \ {h} : index[g].slots \cap index[h].slots = {}
    BY DEF RecordOwnsItsSlots
  <2>1. CASE h = height
    <3>1. /\ index[h].hash = b
          /\ index[h].slots = Range(place)
      BY <2>1, <1>5
    <3>2. \A c \in Range(place) : \E i \in 1..k : c = place[i]
      BY <1>1 DEF Range
    <3>3. \A c \in Range(place) : /\ ~IsEmpty(content[c])
                                  /\ content[c].spendHeight = h
                                  /\ c[1] = BucketOf[content[c].nullifier]
      <4> TAKE c \in Range(place)
      <4>1. PICK i \in 1..k : c = place[i]
        BY <3>2
      <4>2. content[c] = [nullifier |-> nfs[i], spendHeight |-> height]
        BY <4>1, <1>4
      <4>3. c[1] = BucketOf[nfs[i]]
        BY <4>1, <1>3
      <4>4. c \in Occupied(content)
        BY <1>4
      <4>. QED
        BY <2>1, <4>2, <4>3, <4>4 DEF Occupied
    <3>4. {content[c].nullifier : c \in Range(place)} = {nfs[i] : i \in 1..k}
      <4>1. \A i \in 1..k : place[i] \in Range(place) /\ content[place[i]].nullifier = nfs[i]
        <5> TAKE i \in 1..k
        <5>1. place[i] \in Range(place)
          BY <1>1 DEF Range
        <5>2. content[place[i]] = [nullifier |-> nfs[i], spendHeight |-> height]
          BY <1>4
        <5>. QED
          BY <5>1, <5>2
      <4>2. ASSUME NEW c \in Range(place)
            PROVE  \E i \in 1..k : content[c].nullifier = nfs[i]
        BY <3>2, <4>1
      <4>. QED
        BY <4>1, <4>2
    <3>5. \A g \in DOMAIN index \ {h} : index[g].slots \cap index[h].slots = {}
      <4> TAKE g \in DOMAIN index \ {h}
      <4>1. g \in DOMAIN blockIndex /\ index[g] = blockIndex[g]
        BY <2>1, <1>5
      <4>2. index[g].slots \subseteq Occupied(cells)
        BY <4>1, RecordFacts
      <4>. QED
        BY <4>2, <3>1, <1>4
    <3>. QED
      BY <3>1, <3>3, <3>4, <3>5, <2>1, <1>1 DEF height, nfs
  <2>2. CASE h # height
    <3>1. h \in DOMAIN blockIndex /\ index[h] = blockIndex[h]
      BY <2>2, <1>5
    <3>2. /\ index[h].slots \subseteq Occupied(cells)
          /\ HeightOf[index[h].hash] = h
      BY <3>1, RecordFacts
    <3>3. \A c \in index[h].slots : content[c] = cells[c]
      BY <3>2, <1>4 DEF Occupied
    <3>4. \A c \in index[h].slots : /\ ~IsEmpty(content[c])
                                    /\ content[c].spendHeight = h
                                    /\ c[1] = BucketOf[content[c].nullifier]
      BY <3>1, <3>3, <1>2 DEF RecordOwnsItsSlots
    <3>5. {content[c].nullifier : c \in index[h].slots}
            = {cells[c].nullifier : c \in index[h].slots}
      BY <3>3
    <3>6. {cells[c].nullifier : c \in index[h].slots}
            = {NullifiersOf[index[h].hash][i] : i \in DOMAIN NullifiersOf[index[h].hash]}
      <4>1. {cells[c].nullifier : c \in blockIndex[h].slots}
              = {NullifiersOf[blockIndex[h].hash][i] : i \in DOMAIN NullifiersOf[blockIndex[h].hash]}
        BY <3>1, RecordFacts, Zenon
      <4>. QED
        BY <4>1, <3>1, Zenon
    <3>7. \A g \in DOMAIN index \ {h} : index[g].slots \cap index[h].slots = {}
      <4> TAKE g \in DOMAIN index \ {h}
      <4>1. CASE g = height
        BY <4>1, <3>2, <1>4, <1>5
      <4>2. CASE g # height
        <5>1. g \in DOMAIN blockIndex \ {h} /\ index[g] = blockIndex[g]
          BY <4>2, <1>5
        <5>. QED
          BY <5>1, <3>1, <1>2 DEF RecordOwnsItsSlots
      <4>. QED
        BY <4>1, <4>2
    <3>. QED
      BY <3>2, <3>4, <3>5, <3>6, <3>7
  <2>. QED
    BY <2>1, <2>2
<1>11. Untracked(content, index) \subseteq Untracked(cells, blockIndex)
  <2> SUFFICES ASSUME NEW c \in Occupied(content),
                      \A h \in DOMAIN index : c \notin index[h].slots
      PROVE  c \in Untracked(cells, blockIndex)
    BY DEF Untracked
  <2>1. c \notin Range(place)
    BY <1>5
  <2>2. c \in Occupied(cells)
    BY <2>1, <1>4
  <2>3. \A h \in DOMAIN blockIndex : c \notin blockIndex[h].slots
    BY <1>5
  <2>. QED
    BY <2>2, <2>3 DEF Untracked
<1>12. numEntries + Gained(place) \in Nat
  BY <1>1, <1>2, <1>6
<1>. QED
  BY <1>2, <1>4, <1>8, <1>9, <1>10, <1>11, <1>12
     DEF DataOK, content, index, nfs, height, k
(* Removing a recorded block keeps the table's data right: its slots are   *)
(* its own, so zeroing them touches no other record.                       *)
LEMMA RemovePreserves ==
  ASSUME DataOK(cells, blockIndex, numEntries, overflowed),
         NEW gone \in DOMAIN blockIndex
  PROVE  DataOK(Erased(blockIndex[gone].slots), Drop(blockIndex, gone),
                numEntries - Lost(blockIndex[gone].slots), overflowed)
<1> DEFINE slots == blockIndex[gone].slots
           content == Erased(slots)
           index == Drop(blockIndex, gone)
<1>1. /\ cells \in [Cell -> Entry]
      /\ DOMAIN blockIndex \subseteq Nat
      /\ numEntries \in Nat
      /\ overflowed \in BOOLEAN
      /\ numEntries = Cardinality(Occupied(cells))
      /\ BucketsOK(cells)
      /\ RecordOwnsItsSlots(blockIndex, cells)
      /\ ~overflowed => Untracked(cells, blockIndex) = {}
  BY DEF DataOK
<1>2. slots \in SUBSET Occupied(cells)
  BY RecordFacts
<1> HIDE DEF slots
<1>3. /\ content \in [Cell -> Entry]
      /\ \A c \in Cell \ slots : content[c] = cells[c]
      /\ Occupied(content) = Occupied(cells) \ slots
      /\ BucketsOK(content)
      /\ Cardinality(Occupied(content)) = Cardinality(Occupied(cells)) - Cardinality(slots)
      /\ Cardinality(Occupied(content)) \in Nat
  BY <1>1, <1>2, ErasedFacts, OccupiedFinite
<1>4. /\ DOMAIN index = DOMAIN blockIndex \ {gone}
      /\ \A h \in DOMAIN blockIndex \ {gone} : index[h] = blockIndex[h]
      /\ index = [h \in DOMAIN blockIndex \ {gone} |-> index[h]]
  BY DropFacts
<1> HIDE DEF content, index
<1>5. numEntries - Lost(slots) = Cardinality(Occupied(content))
  BY <1>1, <1>3 DEF Lost
<1>6. /\ DOMAIN index \subseteq Nat
      /\ index \in [DOMAIN index -> BlockRecord]
  <2>1. \A h \in DOMAIN index : index[h] \in BlockRecord
    BY <1>4, RecordFacts
  <2>. QED
    BY <2>1, <1>1, <1>4
<1>7. ASSUME NEW h \in DOMAIN index
      PROVE  /\ h \in DOMAIN blockIndex
             /\ index[h] = blockIndex[h]
             /\ index[h].slots \cap slots = {}
             /\ index[h].slots \subseteq Occupied(cells)
             /\ \A c \in index[h].slots : content[c] = cells[c]
  <2>1. h \in DOMAIN blockIndex /\ index[h] = blockIndex[h] /\ h # gone
    BY <1>4
  <2>2. index[h].slots \cap slots = {}
    BY <2>1, <1>1 DEF RecordOwnsItsSlots, slots
  <2>3. index[h].slots \subseteq Occupied(cells)
    BY <2>1, RecordFacts
  <2>. QED
    BY <2>1, <2>2, <2>3, <1>3 DEF Occupied
<1>8. RecordOwnsItsSlots(index, content)
  <2> SUFFICES ASSUME NEW h \in DOMAIN index
      PROVE  /\ HeightOf[index[h].hash] = h
             /\ \A c \in index[h].slots :
                  /\ ~IsEmpty(content[c])
                  /\ content[c].spendHeight = h
                  /\ c[1] = BucketOf[content[c].nullifier]
             /\ {content[c].nullifier : c \in index[h].slots}
                  = {NullifiersOf[index[h].hash][i] : i \in DOMAIN NullifiersOf[index[h].hash]}
             /\ \A g \in DOMAIN index \ {h} : index[g].slots \cap index[h].slots = {}
    BY DEF RecordOwnsItsSlots
  <2>1. HeightOf[index[h].hash] = h
    BY <1>7, RecordFacts
  <2>2. \A c \in index[h].slots : /\ ~IsEmpty(content[c])
                                  /\ content[c].spendHeight = h
                                  /\ c[1] = BucketOf[content[c].nullifier]
    BY <1>7, <1>1 DEF RecordOwnsItsSlots
  <2>3. {content[c].nullifier : c \in index[h].slots}
          = {cells[c].nullifier : c \in index[h].slots}
    BY <1>7
  <2>4. {cells[c].nullifier : c \in index[h].slots}
          = {NullifiersOf[index[h].hash][i] : i \in DOMAIN NullifiersOf[index[h].hash]}
    <3>1. {cells[c].nullifier : c \in blockIndex[h].slots}
            = {NullifiersOf[blockIndex[h].hash][i] : i \in DOMAIN NullifiersOf[blockIndex[h].hash]}
      BY <1>7, RecordFacts, Zenon
    <3>2. index[h] = blockIndex[h]
      BY <1>7
    <3>. QED
      BY <3>1, <3>2, Zenon
  <2>5. \A g \in DOMAIN index \ {h} : index[g].slots \cap index[h].slots = {}
    BY <1>7, <1>1 DEF RecordOwnsItsSlots
  <2>. QED
    BY <2>1, <2>2, <2>3, <2>4, <2>5
<1>9. Untracked(content, index) \subseteq Untracked(cells, blockIndex)
  <2> SUFFICES ASSUME NEW c \in Occupied(content),
                      \A h \in DOMAIN index : c \notin index[h].slots
      PROVE  c \in Untracked(cells, blockIndex)
    BY DEF Untracked
  <2>1. c \in Occupied(cells) /\ c \notin slots
    BY <1>3
  <2>2. \A h \in DOMAIN blockIndex : c \notin blockIndex[h].slots
    BY <2>1, <1>4 DEF slots
  <2>. QED
    BY <2>1, <2>2 DEF Untracked
<1>10. DataOK(content, index, numEntries - Lost(slots), overflowed)
  BY <1>1, <1>3, <1>5, <1>6, <1>8, <1>9 DEF DataOK
<1>. QED
  BY <1>10 DEF content, index, slots

(* A refused insertion leaves entries behind; the records stay right.      *)
LEMMA OverflowPreserves ==
  ASSUME DataOK(cells, blockIndex, numEntries, overflowed),
         NEW b \in Block, NEW k \in 0..(Len(NullifiersOf[b]) - 1),
         NEW place \in [1..k -> Cell], Placement(NullifiersOf[b], place)
  PROVE  DataOK(Written(NullifiersOf[b], place, HeightOf[b]), blockIndex,
                numEntries + Gained(place), TRUE)
<1> DEFINE nfs == NullifiersOf[b]
           height == HeightOf[b]
           content == Written(nfs, place, height)
<1>1. /\ nfs \in Seq(Nullifier)
      /\ k \in 0..Len(nfs)
      /\ k \in Nat
      /\ Gained(place) = k
      /\ Placement(nfs, place)
      /\ height \in Nat
  BY ConstantsAssumption DEF Gained
<1> HIDE DEF nfs, height
<1>2. /\ cells \in [Cell -> Entry]
      /\ DOMAIN blockIndex \subseteq Nat
      /\ blockIndex \in [DOMAIN blockIndex -> BlockRecord]
      /\ numEntries \in Nat
      /\ numEntries = Cardinality(Occupied(cells))
      /\ BucketsOK(cells)
      /\ RecordOwnsItsSlots(blockIndex, cells)
  BY DEF DataOK
<1>3. /\ content \in [Cell -> Entry]
      /\ \A c \in Cell \ Range(place) : content[c] = cells[c]
      /\ Range(place) \cap Occupied(cells) = {}
      /\ BucketsOK(content)
      /\ Cardinality(Occupied(content)) = Cardinality(Occupied(cells)) + k
  BY <1>1, <1>2, WrittenFacts
<1> HIDE DEF content
<1>4. ASSUME NEW h \in DOMAIN blockIndex
      PROVE  \A c \in blockIndex[h].slots : content[c] = cells[c]
  BY <1>3, RecordFacts DEF Occupied
<1>5. RecordOwnsItsSlots(blockIndex, content)
  <2> SUFFICES ASSUME NEW h \in DOMAIN blockIndex
      PROVE  /\ HeightOf[blockIndex[h].hash] = h
             /\ \A c \in blockIndex[h].slots :
                  /\ ~IsEmpty(content[c])
                  /\ content[c].spendHeight = h
                  /\ c[1] = BucketOf[content[c].nullifier]
             /\ {content[c].nullifier : c \in blockIndex[h].slots}
                  = {NullifiersOf[blockIndex[h].hash][i] : i \in DOMAIN NullifiersOf[blockIndex[h].hash]}
             /\ \A g \in DOMAIN blockIndex \ {h} : blockIndex[g].slots \cap blockIndex[h].slots = {}
    BY DEF RecordOwnsItsSlots
  <2>1. \A c \in blockIndex[h].slots : /\ ~IsEmpty(content[c])
                                       /\ content[c].spendHeight = h
                                       /\ c[1] = BucketOf[content[c].nullifier]
    BY <1>4, <1>2 DEF RecordOwnsItsSlots
  <2>2. {content[c].nullifier : c \in blockIndex[h].slots}
          = {cells[c].nullifier : c \in blockIndex[h].slots}
    BY <1>4
  <2>3. \A g \in DOMAIN blockIndex \ {h} : blockIndex[g].slots \cap blockIndex[h].slots = {}
    BY <1>2 DEF RecordOwnsItsSlots
  <2>4. {cells[c].nullifier : c \in blockIndex[h].slots}
          = {NullifiersOf[blockIndex[h].hash][i] : i \in DOMAIN NullifiersOf[blockIndex[h].hash]}
    BY RecordFacts, Zenon
  <2>5. HeightOf[blockIndex[h].hash] = h
    BY RecordFacts
  <2>. QED
    BY <2>1, <2>2, <2>3, <2>4, <2>5
<1>6. DataOK(content, blockIndex, numEntries + Gained(place), TRUE)
  BY <1>1, <1>2, <1>3, <1>5 DEF DataOK
<1>. QED
  BY <1>6 DEF content, nfs, height
(* The hash map stays the inverse of the index. *)
LEMMA HashesAfterPut ==
  ASSUME DataOK(cells, blockIndex, numEntries, overflowed),
         HashesOK(hashToHeight, blockIndex),
         NEW b \in Block, HeightOf[b] \notin DOMAIN blockIndex, NEW slots
  PROVE  HashesOK(Put(hashToHeight, b, HeightOf[b]),
                  Put(blockIndex, HeightOf[b], [hash |-> b, slots |-> slots]))
<1> DEFINE height == HeightOf[b]
           hashes == Put(hashToHeight, b, height)
           index == Put(blockIndex, height, [hash |-> b, slots |-> slots])
<1>1. /\ DOMAIN index = DOMAIN blockIndex \cup {height}
      /\ index[height].hash = b
      /\ \A h \in DOMAIN blockIndex : index[h] = blockIndex[h]
  BY DEF Put
<1>2. /\ hashes = [c \in DOMAIN hashToHeight \cup {b} |-> hashes[c]]
      /\ hashes[b] = height
      /\ \A c \in DOMAIN hashToHeight \ {b} : hashes[c] = hashToHeight[c]
  BY DEF Put
<1>3. /\ \A h \in DOMAIN blockIndex : blockIndex[h].hash # b
      /\ height \in Nat
  BY RecordFacts, ConstantsAssumption
<1>4. /\ DOMAIN hashToHeight = {blockIndex[h].hash : h \in DOMAIN blockIndex}
      /\ hashToHeight \in [DOMAIN hashToHeight -> Nat]
      /\ \A h \in DOMAIN blockIndex : hashToHeight[blockIndex[h].hash] = h
  BY DEF HashesOK
<1> HIDE DEF height, hashes, index
<1>5. {index[h].hash : h \in DOMAIN index} = DOMAIN hashToHeight \cup {b}
  BY <1>1, <1>4
<1>6. hashes \in [DOMAIN hashToHeight \cup {b} -> Nat]
  BY <1>2, <1>3, <1>4
<1>7. \A h \in DOMAIN index : hashes[index[h].hash] = h
  BY <1>1, <1>2, <1>3, <1>4
<1>8. HashesOK(hashes, index)
  BY <1>5, <1>6, <1>7 DEF HashesOK
<1>. QED
  BY <1>8 DEF height, hashes, index

LEMMA HashesAfterDrop ==
  ASSUME DataOK(cells, blockIndex, numEntries, overflowed),
         HashesOK(hashToHeight, blockIndex),
         NEW gone \in DOMAIN blockIndex
  PROVE  HashesOK(Drop(hashToHeight, blockIndex[gone].hash), Drop(blockIndex, gone))
<1> DEFINE b == blockIndex[gone].hash
           hashes == Drop(hashToHeight, b)
           index == Drop(blockIndex, gone)
<1>1. /\ DOMAIN index = DOMAIN blockIndex \ {gone}
      /\ \A h \in DOMAIN blockIndex \ {gone} : index[h] = blockIndex[h]
  BY DropFacts
<1>2. /\ hashes = [c \in DOMAIN hashToHeight \ {b} |-> hashes[c]]
      /\ \A c \in DOMAIN hashToHeight \ {b} : hashes[c] = hashToHeight[c]
  BY DropFacts
<1>3. /\ \A h \in DOMAIN blockIndex \ {gone} : blockIndex[h].hash # b
      /\ HeightOf[b] = gone
  BY RecordFacts
<1>4. /\ DOMAIN hashToHeight = {blockIndex[h].hash : h \in DOMAIN blockIndex}
      /\ hashToHeight \in [DOMAIN hashToHeight -> Nat]
      /\ \A h \in DOMAIN blockIndex : hashToHeight[blockIndex[h].hash] = h
  BY DEF HashesOK
<1>5. gone \in DOMAIN blockIndex /\ b = blockIndex[gone].hash
  OBVIOUS
<1> HIDE DEF b, hashes, index
<1>6. {index[h].hash : h \in DOMAIN index} = DOMAIN hashToHeight \ {b}
  BY <1>1, <1>3, <1>4, <1>5
<1>7. hashes \in [DOMAIN hashToHeight \ {b} -> Nat]
  BY <1>2, <1>4
<1>8. \A h \in DOMAIN index : hashes[index[h].hash] = h
  BY <1>1, <1>2, <1>3, <1>4
<1>9. HashesOK(hashes, index)
  BY <1>6, <1>7, <1>8 DEF HashesOK
<1>. QED
  BY <1>9 DEF b, hashes, index

(* Rebuilding the hash map from a snapshot's records gives it back. *)
LEMMA HashesRebuilt ==
  ASSUME NEW content, NEW index, NEW num, NEW refused, DataOK(content, index, num, refused)
  PROVE  HashesOK(RebuiltHashes(index), index)
<1>1. \A h \in DOMAIN index : h \in Nat /\ HeightOf[index[h].hash] = h
  BY DEF DataOK, RecordOwnsItsSlots
<1>2. ASSUME NEW h \in DOMAIN index
      PROVE  RebuiltHashes(index)[index[h].hash] = h
  <2>1. \A g \in DOMAIN index : index[g].hash = index[h].hash => g = h
    BY <1>1
  <2>2. h <= h
    BY <1>1
  <2>3. (CHOOSE k \in DOMAIN index : /\ index[k].hash = index[h].hash
                                     /\ \A g \in DOMAIN index : index[g].hash = index[h].hash => g <= k) = h
    BY <2>1, <2>2
  <2>. QED
    BY <2>3 DEF RebuiltHashes
<1>3. RebuiltHashes(index) \in [{index[h].hash : h \in DOMAIN index} -> Nat]
  <2>1. RebuiltHashes(index) = [b \in {index[h].hash : h \in DOMAIN index} |-> RebuiltHashes(index)[b]]
    BY DEF RebuiltHashes
  <2>2. \A b \in {index[h].hash : h \in DOMAIN index} : RebuiltHashes(index)[b] \in Nat
    BY <1>1, <1>2
  <2>. QED
    BY <2>1, <2>2
<1>. QED
  BY <1>2, <1>3 DEF HashesOK

(* The empty table. *)
LEMMA EmptyOK ==
  /\ DataOK([c \in Cell |-> ZERO], EmptyMap, 0, FALSE)
  /\ HashesOK(EmptyMap, EmptyMap)
<1>1. Occupied([c \in Cell |-> ZERO]) = {}
  BY DEF Occupied, IsEmpty, ZERO
<1>2. [c \in Cell |-> ZERO] \in [Cell -> Entry]
  BY DEF ZERO, Entry
<1>3. DOMAIN EmptyMap = {} /\ EmptyMap \in [{} -> BlockRecord] /\ EmptyMap \in [{} -> Nat]
  BY DEF EmptyMap
<1>4. DataOK([c \in Cell |-> ZERO], EmptyMap, 0, FALSE)
  BY <1>1, <1>2, <1>3, FS_EmptySet DEF DataOK, BucketsOK, RecordOwnsItsSlots, Untracked
<1>5. {EmptyMap[h].hash : h \in DOMAIN EmptyMap} = {}
  BY <1>3
<1>. QED
  BY <1>3, <1>4, <1>5 DEF HashesOK
-----------------------------------------------------------------------------
(* The inductive invariant.  Beyond the properties of the table in memory  *)
(* it says the same of the table on disk, since a restart brings that one  *)
(* back.                                                                   *)
LEMMA InitIInv == Init => IInv
  BY EmptyOK DEF Init, IInv, DiskOK

LEMMA StepIInv == IInv /\ [Next]_vars => IInv'
<1> SUFFICES ASSUME IInv, [Next]_vars
             PROVE  IInv'
  OBVIOUS
<1>1. /\ DataOK(cells, blockIndex, numEntries, overflowed)
      /\ HashesOK(hashToHeight, blockIndex)
      /\ evicting \in BOOLEAN
      /\ DiskOK
  BY DEF IInv
<1>2. ASSUME UNCHANGED disk, DataOK(cells', blockIndex', numEntries', overflowed'),
             HashesOK(hashToHeight', blockIndex'), evicting' \in BOOLEAN
      PROVE  IInv'
  BY <1>1, <1>2 DEF IInv, DiskOK
<1>3. ASSUME NEW b \in Block, InsertBlock(b)
      PROVE  IInv'
  <2>1. PICK place \in [1..Len(NullifiersOf[b]) -> Cell] :
          /\ Placement(NullifiersOf[b], place)
          /\ cells' = Written(NullifiersOf[b], place, HeightOf[b])
          /\ blockIndex' = Put(blockIndex, HeightOf[b], [hash |-> b, slots |-> Range(place)])
          /\ numEntries' = numEntries + Gained(place)
    BY <1>3 DEF InsertBlock
  <2>2. /\ HeightOf[b] \notin DOMAIN blockIndex
        /\ hashToHeight' = Put(hashToHeight, b, HeightOf[b])
        /\ UNCHANGED <<evicting, disk, overflowed>>
    BY <1>3 DEF InsertBlock
  <2>3. DataOK(cells', blockIndex', numEntries', overflowed')
    BY <1>1, <2>1, <2>2, InsertPreserves
  <2>4. HashesOK(hashToHeight', blockIndex')
    BY <1>1, <2>1, <2>2, HashesAfterPut
  <2>. QED
    BY <1>1, <1>2, <2>2, <2>3, <2>4
<1>4. ASSUME NEW b \in Block, InsertOverflow(b)
      PROVE  IInv'
  <2>0. PICK k \in 0..(Len(NullifiersOf[b]) - 1) : \E place \in [1..k -> Cell] :
          /\ Placement(NullifiersOf[b], place)
          /\ cells' = Written(NullifiersOf[b], place, HeightOf[b])
          /\ numEntries' = numEntries + Gained(place)
    BY <1>4 DEF InsertOverflow
  <2>1. PICK place \in [1..k -> Cell] :
          /\ Placement(NullifiersOf[b], place)
          /\ cells' = Written(NullifiersOf[b], place, HeightOf[b])
          /\ numEntries' = numEntries + Gained(place)
    BY <2>0
  <2>2. /\ overflowed' = TRUE
        /\ UNCHANGED <<blockIndex, hashToHeight, evicting, disk>>
    BY <1>4 DEF InsertOverflow
  <2>3. DataOK(cells', blockIndex', numEntries', overflowed')
    BY <1>1, <2>1, <2>2, OverflowPreserves
  <2>. QED
    BY <1>1, <1>2, <2>2, <2>3
<1>5. ASSUME NEW b \in Block, RollbackBlock(b)
      PROVE  IInv'
  <2>1. /\ b \in DOMAIN hashToHeight
        /\ hashToHeight' = Drop(hashToHeight, b)
        /\ UNCHANGED <<evicting, disk, overflowed>>
    BY <1>5 DEF RollbackBlock
  <2>2. PICK h \in DOMAIN blockIndex : b = blockIndex[h].hash
    BY <1>1, <2>1 DEF HashesOK
  <2>3. hashToHeight[b] = h
    BY <1>1, <2>2 DEF HashesOK
  <2>4. /\ cells' = Erased(blockIndex[h].slots)
        /\ numEntries' = numEntries - Lost(blockIndex[h].slots)
        /\ blockIndex' = Drop(blockIndex, h)
    BY <1>5, <2>3 DEF RollbackBlock
  <2>5. DataOK(cells', blockIndex', numEntries', overflowed')
    BY <1>1, <2>1, <2>4, RemovePreserves
  <2>6. HashesOK(hashToHeight', blockIndex')
    BY <1>1, <2>1, <2>2, <2>4, HashesAfterDrop
  <2>. QED
    BY <1>1, <1>2, <2>1, <2>5, <2>6
<1>6. CASE EvictToTarget
  BY <1>1, <1>2, <1>6 DEF EvictToTarget
<1>7. CASE EvictOldestBlock
  <2>1. PICK h \in DOMAIN blockIndex :
          /\ cells' = Erased(blockIndex[h].slots)
          /\ numEntries' = numEntries - Lost(blockIndex[h].slots)
          /\ hashToHeight' = Drop(hashToHeight, blockIndex[h].hash)
          /\ blockIndex' = Drop(blockIndex, h)
    BY <1>7 DEF EvictOldestBlock
  <2>2. UNCHANGED <<evicting, disk, overflowed>>
    BY <1>7 DEF EvictOldestBlock
  <2>3. DataOK(cells', blockIndex', numEntries', overflowed')
    BY <1>1, <2>1, <2>2, RemovePreserves
  <2>4. HashesOK(hashToHeight', blockIndex')
    BY <1>1, <2>1, HashesAfterDrop
  <2>. QED
    BY <1>1, <1>2, <2>2, <2>3, <2>4
<1>8. CASE EvictDone
  BY <1>1, <1>2, <1>8 DEF EvictDone
<1>9. CASE SaveSnapshot
  <2>1. /\ disk' = {[cells |-> cells, blockIndex |-> blockIndex,
                     numEntries |-> numEntries, overflowed |-> overflowed]}
        /\ UNCHANGED <<cells, blockIndex, hashToHeight, numEntries, evicting, overflowed>>
    BY <1>9 DEF SaveSnapshot
  <2>2. \A s \in disk' : DataOK(s.cells, s.blockIndex, s.numEntries, s.overflowed)
    BY <1>1, <2>1
  <2>. QED
    BY <1>1, <2>1, <2>2 DEF IInv, DiskOK
<1>10. CASE RestoreSnapshot
  <2>1. PICK s \in disk :
          /\ cells' = s.cells
          /\ blockIndex' = s.blockIndex
          /\ hashToHeight' = RebuiltHashes(s.blockIndex)
          /\ numEntries' = s.numEntries
          /\ overflowed' = s.overflowed
    BY <1>10 DEF RestoreSnapshot
  <2>2. evicting' = FALSE /\ UNCHANGED disk
    BY <1>10 DEF RestoreSnapshot
  <2>3. DataOK(s.cells, s.blockIndex, s.numEntries, s.overflowed)
    BY <1>1 DEF DiskOK
  <2>4. DataOK(cells', blockIndex', numEntries', overflowed')
    BY <2>1, <2>3
  <2>5. HashesOK(hashToHeight', blockIndex')
    BY <2>1, <2>3, HashesRebuilt
  <2>. QED
    BY <1>2, <2>2, <2>4, <2>5
<1>11. CASE StartFresh
  BY <1>2, <1>11, EmptyOK DEF StartFresh
<1>12. CASE UNCHANGED vars
  BY <1>1, <1>2, <1>12 DEF vars
<1>. QED
  BY <1>3, <1>4, <1>5, <1>6, <1>7, <1>8, <1>9, <1>10, <1>11, <1>12 DEF Next

(* The inductive invariant holds in every reachable state.                 *)
THEOREM Invariance == Spec => []IInv
  BY InitIInv, StepIInv, PTL DEF Spec
-----------------------------------------------------------------------------
(* Every variable of the table holds a value of its type, whatever is      *)
(* inserted, rolled back, evicted, saved and restored.                     *)
THEOREM TypeCorrect == Spec => []TypeOK
<1>1. IInv => TypeOK
  BY DEF IInv, DataOK, HashesOK, TypeOK, BlockRecord
<1>. QED
  BY <1>1, Invariance, PTL

(* num_entries is the number of occupied slots.                            *)
THEOREM CountCorrect == Spec => []EntriesCounted
<1>1. IInv => EntriesCounted
  BY DEF IInv, DataOK, EntriesCounted
<1>. QED
  BY <1>1, Invariance, PTL

(* Every block record owns the slots it lists, and no others' hold its     *)
(* nullifiers' place.                                                      *)
THEOREM SlotsCorrect == Spec => []SlotsOwned
<1>1. IInv => SlotsOwned
  BY DEF IInv, DataOK, SlotsOwned
<1>. QED
  BY <1>1, Invariance, PTL

(* The hash map is the inverse of the block index, also after a restart.   *)
THEOREM HashesCorrect == Spec => []HashIndexExact
<1>1. IInv => HashIndexExact
  BY DEF IInv, HashesOK, HashIndexExact
<1>. QED
  BY <1>1, Invariance, PTL

(* Without a refused insertion no slot is ever lost.                       *)
THEOREM NoLeakCorrect == Spec => []NoLeakWithoutOverflow
<1>1. IInv => NoLeakWithoutOverflow
  BY DEF IInv, DataOK, NoLeakWithoutOverflow
<1>. QED
  BY <1>1, Invariance, PTL

(* Scanning one bucket answers what the window of blocks answers.          *)
THEOREM LookupCorrect == Spec => []LookupExact
<1> SUFFICES ASSUME IInv
             PROVE  LookupExact
  BY Invariance, PTL
<1>1. /\ DataOK(cells, blockIndex, numEntries, overflowed)
      /\ cells \in [Cell -> Entry]
      /\ BucketsOK(cells)
      /\ RecordOwnsItsSlots(blockIndex, cells)
  BY DEF IInv, DataOK
<1>2. SUFFICES ASSUME NEW nf \in Nullifier
               PROVE  Contains(nf) <=> Window!Contains(nf)
  BY DEF LookupExact
<1>3. Contains(nf) <=> \E c \in Occupied(cells) : cells[c].nullifier = nf
  <2>1. ASSUME NEW s \in 0..(BucketCapacity - 1), cells[<<BucketOf[nf], s>>].nullifier = nf
        PROVE  \E c \in Occupied(cells) : cells[c].nullifier = nf
    <3>1. <<BucketOf[nf], s>> \in Cell
      BY ConstantsAssumption DEF Cell
    <3>2. <<BucketOf[nf], s>> \in Occupied(cells)
      BY <2>1, <3>1, ConstantsAssumption DEF Occupied, IsEmpty
    <3>. QED
      BY <2>1, <3>2
  <2>2. ASSUME NEW c \in Occupied(cells), cells[c].nullifier = nf
        PROVE  \E s \in 0..(BucketCapacity - 1) : cells[<<BucketOf[nf], s>>].nullifier = nf
    <3>1. c \in Cell /\ c[1] = BucketOf[nf]
      BY <2>2, <1>1 DEF BucketsOK, Occupied
    <3>2. c[2] \in 0..(BucketCapacity - 1) /\ c = <<BucketOf[nf], c[2]>>
      BY <3>1 DEF Cell
    <3>. QED
      BY <2>2, <3>2
  <2>. QED
    BY <2>1, <2>2 DEF Contains
<1>4. \A h \in DOMAIN blockIndex :
        {cells[c].nullifier : c \in blockIndex[h].slots} = Window!NullifierSet(blockIndex[h].hash)
  BY <1>1, RecordFacts DEF Window!NullifierSet
<1>5. \A h \in DOMAIN blockIndex : blockIndex[h].slots \subseteq Occupied(cells)
  BY <1>1, RecordFacts
<1>6. Window!Contains(nf) <=> \/ nf \in StrayIn(cells, blockIndex)
                              \/ \E b \in BlocksIn(blockIndex) : nf \in Window!NullifierSet(b)
  BY DEF Window!Contains
<1>7. nf \in StrayIn(cells, blockIndex)
        <=> \E c \in Untracked(cells, blockIndex) : cells[c].nullifier = nf
  BY DEF StrayIn
<1>8. (\E b \in BlocksIn(blockIndex) : nf \in Window!NullifierSet(b))
        <=> \E h \in DOMAIN blockIndex : \E c \in blockIndex[h].slots : cells[c].nullifier = nf
  <2>1. (\E b \in BlocksIn(blockIndex) : nf \in Window!NullifierSet(b))
          <=> \E h \in DOMAIN blockIndex : nf \in Window!NullifierSet(blockIndex[h].hash)
    BY DEF BlocksIn
  <2>2. \A h \in DOMAIN blockIndex :
          nf \in Window!NullifierSet(blockIndex[h].hash)
            <=> \E c \in blockIndex[h].slots : cells[c].nullifier = nf
    <3> TAKE h \in DOMAIN blockIndex
    <3>1. Window!NullifierSet(blockIndex[h].hash) = {cells[c].nullifier : c \in blockIndex[h].slots}
      BY <1>4
    <3>. QED
      BY <3>1
  <2>. QED
    BY <2>1, <2>2
<1>. QED
  BY <1>3, <1>5, <1>6, <1>7, <1>8 DEF Untracked
-----------------------------------------------------------------------------
(* The refinement: what each change of the table's data is for the window. *)

(* A whole block enters the window, and nothing becomes stray. *)
LEMMA InsertMapped ==
  ASSUME DataOK(cells, blockIndex, numEntries, overflowed),
         NEW b \in Block, HeightOf[b] \notin DOMAIN blockIndex,
         NEW place \in [1..Len(NullifiersOf[b]) -> Cell],
         Placement(NullifiersOf[b], place)
  PROVE  LET content == Written(NullifiersOf[b], place, HeightOf[b])
             index == Put(blockIndex, HeightOf[b], [hash |-> b, slots |-> Range(place)])
         IN  /\ BlocksIn(index) = BlocksIn(blockIndex) \cup {b}
             /\ StrayIn(content, index) = StrayIn(cells, blockIndex)
             /\ \A c \in BlocksIn(blockIndex) : HeightOf[c] # HeightOf[b]
<1> DEFINE nfs == NullifiersOf[b]
           k == Len(nfs)
           height == HeightOf[b]
           content == Written(nfs, place, height)
           index == Put(blockIndex, height, [hash |-> b, slots |-> Range(place)])
<1>1. /\ nfs \in Seq(Nullifier)
      /\ k \in 0..Len(nfs)
      /\ place \in [1..k -> Cell]
      /\ Placement(nfs, place)
      /\ height \in Nat
      /\ height \notin DOMAIN blockIndex
      /\ cells \in [Cell -> Entry]
  BY ConstantsAssumption DEF DataOK
<1>2. /\ DOMAIN index = DOMAIN blockIndex \cup {height}
      /\ index[height].hash = b
      /\ index[height].slots = Range(place)
      /\ \A h \in DOMAIN blockIndex : index[h] = blockIndex[h]
  BY DEF Put
<1> HIDE DEF nfs, k, height, index
<1>3. /\ \A c \in Cell \ Range(place) : content[c] = cells[c]
      /\ Range(place) \cap Occupied(cells) = {}
      /\ Occupied(content) = Occupied(cells) \cup Range(place)
  BY <1>1, WrittenFacts
<1> HIDE DEF content
<1>4. BlocksIn(index) = BlocksIn(blockIndex) \cup {b}
  BY <1>2 DEF BlocksIn
<1>5. Untracked(content, index) = Untracked(cells, blockIndex)
  BY <1>2, <1>3 DEF Untracked
<1>6. \A c \in Untracked(cells, blockIndex) : content[c] = cells[c]
  BY <1>3 DEF Untracked, Occupied
<1>7. StrayIn(content, index) = StrayIn(cells, blockIndex)
  BY <1>5, <1>6 DEF StrayIn
<1>8. \A c \in BlocksIn(blockIndex) : HeightOf[c] # HeightOf[b]
  BY <1>1, RecordFacts DEF BlocksIn, height
<1>. QED
  BY <1>4, <1>7, <1>8 DEF content, index, height, nfs

(* A refused block leaves its first k nullifiers behind. *)
LEMMA OverflowMapped ==
  ASSUME DataOK(cells, blockIndex, numEntries, overflowed),
         NEW b \in Block, NEW k \in 0..(Len(NullifiersOf[b]) - 1),
         NEW place \in [1..k -> Cell], Placement(NullifiersOf[b], place)
  PROVE  StrayIn(Written(NullifiersOf[b], place, HeightOf[b]), blockIndex)
           = StrayIn(cells, blockIndex) \cup {NullifiersOf[b][i] : i \in 1..k}
<1> DEFINE nfs == NullifiersOf[b]
           height == HeightOf[b]
           content == Written(nfs, place, height)
<1>1. /\ nfs \in Seq(Nullifier)
      /\ k \in 0..Len(nfs)
      /\ Placement(nfs, place)
      /\ height \in Nat
      /\ cells \in [Cell -> Entry]
      /\ DOMAIN place = 1..k
  BY ConstantsAssumption DEF DataOK
<1> HIDE DEF nfs, height
<1>2. /\ \A i \in 1..k : content[place[i]] = [nullifier |-> nfs[i], spendHeight |-> height]
      /\ \A c \in Cell \ Range(place) : content[c] = cells[c]
      /\ Range(place) \cap Occupied(cells) = {}
      /\ Occupied(content) = Occupied(cells) \cup Range(place)
  BY <1>1, WrittenFacts
<1> HIDE DEF content
<1>3. \A h \in DOMAIN blockIndex : blockIndex[h].slots \cap Range(place) = {}
  BY <1>2, RecordFacts
<1>4. Untracked(content, blockIndex) = Untracked(cells, blockIndex) \cup Range(place)
  BY <1>2, <1>3 DEF Untracked
<1>5. \A c \in Untracked(cells, blockIndex) : content[c] = cells[c]
  BY <1>2 DEF Untracked, Occupied
<1>6. {content[c].nullifier : c \in Range(place)} = {nfs[i] : i \in 1..k}
  <2>1. \A i \in 1..k : place[i] \in Range(place) /\ content[place[i]].nullifier = nfs[i]
    <3> TAKE i \in 1..k
    <3>1. place[i] \in Range(place)
      BY <1>1 DEF Range
    <3>2. content[place[i]] = [nullifier |-> nfs[i], spendHeight |-> height]
      BY <1>2
    <3>. QED
      BY <3>1, <3>2
  <2>2. \A c \in Range(place) : \E i \in 1..k : c = place[i]
    BY <1>1 DEF Range
  <2>3. \A c \in Range(place) : \E i \in 1..k : content[c].nullifier = nfs[i]
    BY <2>1, <2>2
  <2>4. \A i \in 1..k : \E c \in Range(place) : nfs[i] = content[c].nullifier
    BY <2>1
  <2> DEFINE A == {content[c].nullifier : c \in Range(place)}
             B == {nfs[i] : i \in 1..k}
  <2>5. A \subseteq B
    BY <2>3
  <2>6. B \subseteq A
    BY <2>4
  <2>. QED
    BY <2>5, <2>6
<1>7. {content[c].nullifier : c \in Untracked(cells, blockIndex)} = StrayIn(cells, blockIndex)
  BY <1>5 DEF StrayIn
<1>8. StrayIn(content, blockIndex)
        = {content[c].nullifier : c \in Untracked(cells, blockIndex)}
            \cup {content[c].nullifier : c \in Range(place)}
  BY <1>4 DEF StrayIn
<1>. QED
  BY <1>6, <1>7, <1>8 DEF content, nfs, height

(* A recorded block leaves the window whole. *)
LEMMA RemoveMapped ==
  ASSUME DataOK(cells, blockIndex, numEntries, overflowed),
         NEW gone \in DOMAIN blockIndex
  PROVE  LET content == Erased(blockIndex[gone].slots)
             index == Drop(blockIndex, gone)
         IN  /\ BlocksIn(index) = BlocksIn(blockIndex) \ {blockIndex[gone].hash}
             /\ StrayIn(content, index) = StrayIn(cells, blockIndex)
<1> DEFINE slots == blockIndex[gone].slots
           content == Erased(slots)
           index == Drop(blockIndex, gone)
<1>1. cells \in [Cell -> Entry] /\ slots \in SUBSET Occupied(cells)
  BY RecordFacts DEF DataOK
<1>2. slots = blockIndex[gone].slots
  OBVIOUS
<1> HIDE DEF slots
<1>3. /\ \A c \in Cell \ slots : content[c] = cells[c]
      /\ Occupied(content) = Occupied(cells) \ slots
  BY <1>1, ErasedFacts
<1>4. /\ DOMAIN index = DOMAIN blockIndex \ {gone}
      /\ \A h \in DOMAIN blockIndex \ {gone} : index[h] = blockIndex[h]
  BY DropFacts
<1> HIDE DEF content, index
<1>5. \A h \in DOMAIN blockIndex \ {gone} : /\ blockIndex[h].hash # blockIndex[gone].hash
                                            /\ blockIndex[h].slots \cap slots = {}
  <2> TAKE h \in DOMAIN blockIndex \ {gone}
  <2>1. blockIndex[h].hash # blockIndex[gone].hash
    BY RecordFacts
  <2>2. blockIndex[h].slots \cap slots = {}
    BY <1>2 DEF DataOK, RecordOwnsItsSlots
  <2>. QED
    BY <2>1, <2>2
<1>6. BlocksIn(index) = BlocksIn(blockIndex) \ {blockIndex[gone].hash}
  BY <1>4, <1>5 DEF BlocksIn
<1>7. Untracked(content, index) = Untracked(cells, blockIndex)
  BY <1>2, <1>3, <1>4, <1>5 DEF Untracked
<1>8. \A c \in Untracked(cells, blockIndex) : content[c] = cells[c]
  BY <1>2, <1>3 DEF Untracked, Occupied
<1>9. StrayIn(content, index) = StrayIn(cells, blockIndex)
  BY <1>7, <1>8 DEF StrayIn
<1>. QED
  BY <1>6, <1>9 DEF content, index, slots

LEMMA EmptyMapped ==
  /\ BlocksIn(EmptyMap) = {}
  /\ StrayIn([c \in Cell |-> ZERO], EmptyMap) = {}
<1>1. Untracked([c \in Cell |-> ZERO], EmptyMap) = {}
  BY DEF Untracked, Occupied, IsEmpty, ZERO
<1>. QED
  BY <1>1 DEF BlocksIn, StrayIn, EmptyMap

LEMMA InitMapped == Init => Window!Init
  BY EmptyMapped DEF Init, Window!Init

LEMMA StepMapped == IInv /\ [Next]_vars => [Window!Next]_(Window!vars)
<1> SUFFICES ASSUME IInv, [Next]_vars
             PROVE  Window!Next \/ UNCHANGED Window!vars
  OBVIOUS
<1>1. /\ DataOK(cells, blockIndex, numEntries, overflowed)
      /\ HashesOK(hashToHeight, blockIndex)
      /\ DiskOK
  BY DEF IInv
<1>2. ASSUME NEW b \in Block, InsertBlock(b)
      PROVE  Window!Next
  <2>1. PICK place \in [1..Len(NullifiersOf[b]) -> Cell] :
          /\ Placement(NullifiersOf[b], place)
          /\ cells' = Written(NullifiersOf[b], place, HeightOf[b])
          /\ blockIndex' = Put(blockIndex, HeightOf[b], [hash |-> b, slots |-> Range(place)])
    BY <1>2 DEF InsertBlock
  <2>2. HeightOf[b] \notin DOMAIN blockIndex /\ UNCHANGED <<evicting, disk>> /\ ~evicting
    BY <1>2 DEF InsertBlock
  <2>3. /\ BlocksIn(blockIndex') = BlocksIn(blockIndex) \cup {b}
        /\ StrayIn(cells', blockIndex') = StrayIn(cells, blockIndex)
        /\ \A c \in BlocksIn(blockIndex) : HeightOf[c] # HeightOf[b]
    BY <1>1, <2>1, <2>2, InsertMapped
  <2>4. Window!Insert(b)
    BY <2>2, <2>3 DEF Window!Insert, Window!HeightFree
  <2>. QED
    BY <2>4 DEF Window!Next
<1>3. ASSUME NEW b \in Block, InsertOverflow(b)
      PROVE  Window!Next
  <2>1. PICK k \in 0..(Len(NullifiersOf[b]) - 1) : \E place \in [1..k -> Cell] :
          /\ Placement(NullifiersOf[b], place)
          /\ cells' = Written(NullifiersOf[b], place, HeightOf[b])
    BY <1>3 DEF InsertOverflow
  <2>2. PICK place \in [1..k -> Cell] :
          /\ Placement(NullifiersOf[b], place)
          /\ cells' = Written(NullifiersOf[b], place, HeightOf[b])
    BY <2>1
  <2>3. HeightOf[b] \notin DOMAIN blockIndex /\ UNCHANGED <<blockIndex, evicting, disk>> /\ ~evicting
    BY <1>3 DEF InsertOverflow
  <2>4. /\ StrayIn(cells', blockIndex')
             = StrayIn(cells, blockIndex) \cup {NullifiersOf[b][i] : i \in 1..k}
        /\ BlocksIn(blockIndex') = BlocksIn(blockIndex)
        /\ \A c \in BlocksIn(blockIndex) : HeightOf[c] # HeightOf[b]
    BY <1>1, <2>2, <2>3, OverflowMapped, RecordFacts DEF BlocksIn
  <2>5. Window!Refuse(b)
    BY <2>3, <2>4 DEF Window!Refuse, Window!HeightFree
  <2>. QED
    BY <2>5 DEF Window!Next
<1>4. ASSUME NEW b \in Block, RollbackBlock(b)
      PROVE  Window!Next
  <2>1. b \in DOMAIN hashToHeight /\ UNCHANGED <<evicting, disk>> /\ ~evicting
    BY <1>4 DEF RollbackBlock
  <2>2. PICK h \in DOMAIN blockIndex : b = blockIndex[h].hash
    BY <1>1, <2>1 DEF HashesOK
  <2>3. hashToHeight[b] = h
    BY <1>1, <2>2 DEF HashesOK
  <2>4. /\ cells' = Erased(blockIndex[h].slots)
        /\ blockIndex' = Drop(blockIndex, h)
    BY <1>4, <2>3 DEF RollbackBlock
  <2>5. /\ BlocksIn(blockIndex') = BlocksIn(blockIndex) \ {b}
        /\ StrayIn(cells', blockIndex') = StrayIn(cells, blockIndex)
    BY <1>1, <2>2, <2>4, RemoveMapped
  <2>6. Window!Rollback(b)
    BY <2>1, <2>5 DEF Window!Rollback
  <2>. QED
    BY <2>6 DEF Window!Next
<1>5. CASE EvictOldestBlock
  <2>1. PICK h \in DOMAIN blockIndex :
          /\ IsOldest(h)
          /\ cells' = Erased(blockIndex[h].slots)
          /\ blockIndex' = Drop(blockIndex, h)
    BY <1>5 DEF EvictOldestBlock
  <2>2. UNCHANGED <<evicting, disk>> /\ evicting
    BY <1>5 DEF EvictOldestBlock
  <2>3. /\ BlocksIn(blockIndex') = BlocksIn(blockIndex) \ {blockIndex[h].hash}
        /\ StrayIn(cells', blockIndex') = StrayIn(cells, blockIndex)
    BY <1>1, <2>1, RemoveMapped
  <2>4. /\ blockIndex[h].hash \in BlocksIn(blockIndex)
        /\ \A c \in BlocksIn(blockIndex) : HeightOf[blockIndex[h].hash] <= HeightOf[c]
    BY <1>1, <2>1, RecordFacts DEF BlocksIn, IsOldest
  <2>5. Window!EvictOldest
    BY <2>2, <2>3, <2>4 DEF Window!EvictOldest
  <2>. QED
    BY <2>5 DEF Window!Next
<1>6. CASE SaveSnapshot
  <2>1. /\ disk' = {[cells |-> cells, blockIndex |-> blockIndex,
                     numEntries |-> numEntries, overflowed |-> overflowed]}
        /\ UNCHANGED <<cells, blockIndex, evicting>>
        /\ ~evicting
    BY <1>6 DEF SaveSnapshot
  <2>2. Window!Save
    BY <2>1 DEF Window!Save
  <2>. QED
    BY <2>2 DEF Window!Next
<1>7. CASE RestoreSnapshot
  <2>1. PICK s \in disk : cells' = s.cells /\ blockIndex' = s.blockIndex
    BY <1>7 DEF RestoreSnapshot
  <2>2. UNCHANGED disk /\ evicting' = FALSE
    BY <1>7 DEF RestoreSnapshot
  <2> DEFINE mapped == {[window |-> BlocksIn(t.blockIndex),
                         stray |-> StrayIn(t.cells, t.blockIndex)] : t \in disk}
             w == [window |-> BlocksIn(s.blockIndex), stray |-> StrayIn(s.cells, s.blockIndex)]
  <2>3. /\ w \in mapped
        /\ BlocksIn(blockIndex') = w.window
        /\ StrayIn(cells', blockIndex') = w.stray
    BY <2>1
  <2>4. mapped' = mapped
    BY <2>2
  <2> HIDE DEF w
  <2>5. Window!Restart
    BY <2>2, <2>3, <2>4 DEF Window!Restart
  <2>. QED
    BY <2>5 DEF Window!Next
<1>8. CASE StartFresh
  <2>1. Window!StartFresh
    BY <1>8, EmptyMapped DEF StartFresh, Window!StartFresh
  <2>. QED
    BY <2>1 DEF Window!Next
<1>9. ASSUME UNCHANGED <<cells, blockIndex, evicting, disk>>
      PROVE  UNCHANGED Window!vars
  BY <1>9 DEF Window!vars
<1>10. CASE EvictToTarget
  <2>1. Window!StartEviction
    BY <1>10 DEF EvictToTarget, Window!StartEviction
  <2>. QED
    BY <2>1 DEF Window!Next
<1>11. CASE EvictDone
  <2>1. Window!EndEviction
    BY <1>11 DEF EvictDone, Window!EndEviction
  <2>. QED
    BY <2>1 DEF Window!Next
<1>12. CASE UNCHANGED vars
  BY <1>9, <1>12 DEF vars
<1>. QED
  BY <1>2, <1>3, <1>4, <1>5, <1>6, <1>7, <1>8, <1>10, <1>11, <1>12 DEF Next

(* The table implements the window of whole blocks.                        *)
THEOREM Refinement == Spec => ImplementsWindow
<1>1. Spec => Window!Spec
  BY InitMapped, StepMapped, Invariance, PTL DEF Spec, Window!Spec
<1>. QED
  BY <1>1 DEF ImplementsWindow
=============================================================================
