----------------------------- MODULE HashTableDb -----------------------------
(***************************************************************************)
(* The bucketed nullifier table of hashtable-pir: buckets of slots, the    *)
(* per-block index of the slots each block wrote, the map from block hash  *)
(* to height, and the running entry count.                                 *)
(*                                                                         *)
(* Every operation takes &mut self, so one call is one step; the only call *)
(* split into several is evict_to_target, one step per turn of its loop,   *)
(* with `evicting' keeping every other call out until the loop ends.       *)
(*                                                                         *)
(* A cell is a (bucket_idx, slot_idx) pair.  An entry keeps the nullifier  *)
(* and its spend height; first_output_position and action_count travel     *)
(* with the nullifier and are left out.  Bucket.count is left out too: it  *)
(* is written and restored, and nothing reads it.                          *)
(***************************************************************************)
EXTENDS Integers, Sequences, FiniteSets, Functions

CONSTANTS
  Block,           \* block hashes; a hash determines height and nullifiers
  HeightOf,        \* HeightOf[b]: the height of block b
  NullifiersOf,    \* NullifiersOf[b]: the nullifiers of block b, in order
  Nullifier,       \* the real nullifiers
  ZeroNullifier,   \* the all-zero nullifier of an empty slot
  Bucket,          \* NUM_BUCKETS bucket indexes
  BucketOf,        \* hash_to_bucket
  BucketCapacity,  \* BUCKET_CAPACITY slots in a bucket
  TargetSize       \* TARGET_SIZE entries, above which blocks are evicted

ASSUME ConstantsAssumption ==
  /\ HeightOf \in [Block -> Nat]
  /\ NullifiersOf \in [Block -> Seq(Nullifier)]
  /\ ZeroNullifier \notin Nullifier
  /\ IsFiniteSet(Bucket)
  /\ BucketOf \in [Nullifier -> Bucket]
  /\ BucketCapacity \in Nat
  /\ TargetSize \in Nat

VARIABLES
  cells,         \* the entry in every cell
  blockIndex,    \* height -> the record of the block inserted there
  hashToHeight,  \* block hash -> height
  numEntries,    \* num_entries
  evicting,      \* evict_to_target is in its loop
  disk,          \* {the last snapshot written}, {} before the first
  overflowed     \* history: some insertion was refused since the last reset

vars == <<cells, blockIndex, hashToHeight, numEntries, evicting, disk, overflowed>>

-----------------------------------------------------------------------------
(* Cells and entries *)

Cell == Bucket \X (0..(BucketCapacity - 1))
Entry == [nullifier : Nullifier \cup {ZeroNullifier}, spendHeight : Nat]
ZERO == [nullifier |-> ZeroNullifier, spendHeight |-> 0]
BlockRecord == [hash : Block, slots : SUBSET Cell]

IsEmpty(e) == e.nullifier = ZeroNullifier
Occupied(content) == {c \in Cell : ~IsEmpty(content[c])}

(* Occupied cells that no block record accounts for. *)
Untracked(content, index) ==
  {c \in Occupied(content) : \A h \in DOMAIN index : c \notin index[h].slots}

(* find_free_slot: c is the first empty slot of bucket b, when the cells   *)
(* of `given' have been filled in the meantime.                            *)
\* (faulty variant: any bucket will do)
FindFreeSlotAnywhere(b, given, c) == IsEmpty(cells[c]) /\ c \notin given
FindFreeSlot(b, given, c) ==
  LET Free(s) == IsEmpty(cells[<<b, s>>]) /\ <<b, s>> \notin given
  IN  /\ c[1] = b
      /\ Free(c[2])
      /\ \A s \in 0..(c[2] - 1) : ~Free(s)

Full(b, given) ==
  \A s \in 0..(BucketCapacity - 1) : ~IsEmpty(cells[<<b, s>>]) \/ <<b, s>> \in given

(* `place' holds the cells the first Len(place) turns of insert_block's    *)
(* loop choose, each given the choices before it.                          *)
\* (faulty variant: the choices do not see each other)
PlacementAllAtOnce(nfs, place) ==
  \A i \in DOMAIN place : FindFreeSlot(BucketOf[nfs[i]], {}, place[i])
Placement(nfs, place) ==
  \A i \in DOMAIN place :
    FindFreeSlot(BucketOf[nfs[i]], {place[j] : j \in 1..(i - 1)}, place[i])

(* The cells once those turns have written their entries. *)
Written(nfs, place, height) ==
  [c \in Cell |->
     IF \E i \in DOMAIN place : place[i] = c
     THEN [nullifier |-> nfs[CHOOSE i \in DOMAIN place : place[i] = c],
           spendHeight |-> height]
     ELSE cells[c]]

(* Bucket::remove of every slot of a record. *)
\* (faulty variant: the record goes, its slots stay)
ErasedNothing(slots) == cells
Erased(slots) == [c \in Cell |-> IF c \in slots THEN ZERO ELSE cells[c]]

(* num_entries += 1 on every turn of the insertion loop, and               *)
(* num_entries -= record.slots.len() when a record goes.                   *)
\* (faulty variants: one per block; nothing taken back)
GainedPerBlock(place) == 1
LostNothing(slots) == 0
Gained(place) == Len(place)
Lost(slots) == Cardinality(slots)

(* The key BTreeMap iteration yields first. *)
\* (faulty variant: the key it yields last)
IsNewest(h) == \A g \in DOMAIN blockIndex : g <= h
IsOldest(h) == \A g \in DOMAIN blockIndex : h <= g

EmptyMap == [x \in {} |-> x]
Put(f, k, v) == [x \in DOMAIN f \cup {k} |-> IF x = k THEN v ELSE f[x]]
Drop(f, k) == Restrict(f, DOMAIN f \ {k})

-----------------------------------------------------------------------------
Init ==
  /\ cells = [c \in Cell |-> ZERO]
  /\ blockIndex = EmptyMap
  /\ hashToHeight = EmptyMap
  /\ numEntries = 0
  /\ evicting = FALSE
  /\ disk = {}
  /\ overflowed = FALSE

(* insert_block when every nullifier finds room.  The callers insert at    *)
(* heights the table does not hold: SpendServer checks that they do.       *)
InsertBlock(b) ==
  LET nfs == NullifiersOf[b]
      height == HeightOf[b]
  IN  /\ ~evicting
      /\ height \notin DOMAIN blockIndex
      /\ \E place \in [1..Len(nfs) -> Cell] :
           /\ Placement(nfs, place)
           /\ cells' = Written(nfs, place, height)
           /\ blockIndex' = Put(blockIndex, height,
                                [hash |-> b, slots |-> Range(place)])
           /\ numEntries' = numEntries + Gained(place)
      /\ hashToHeight' = Put(hashToHeight, b, height)
      /\ UNCHANGED <<evicting, disk, overflowed>>

(* insert_block when nullifier k + 1 finds its bucket full: BucketOverflow *)
(* is returned and the k entries already written and counted stay.         *)
InsertOverflow(b) ==
  LET nfs == NullifiersOf[b]
      height == HeightOf[b]
  IN  /\ ~evicting
      /\ height \notin DOMAIN blockIndex
      /\ \E k \in 0..(Len(nfs) - 1) : \E place \in [1..k -> Cell] :
           /\ Placement(nfs, place)
           /\ Full(BucketOf[nfs[k + 1]], Range(place))
           /\ cells' = Written(nfs, place, height)
           /\ numEntries' = numEntries + Gained(place)
      /\ overflowed' = TRUE
      /\ UNCHANGED <<blockIndex, hashToHeight, evicting, disk>>

(* rollback_block of a hash the table knows.  The hash is forgotten before *)
(* the record is looked up, and stays forgotten if there is no record.     *)
RollbackBlock(b) ==
  /\ ~evicting
  /\ b \in DOMAIN hashToHeight
  /\ LET height == hashToHeight[b]
         slots == IF height \in DOMAIN blockIndex THEN blockIndex[height].slots ELSE {}
     IN  /\ cells' = Erased(slots)
         /\ numEntries' = numEntries - Lost(slots)
         /\ blockIndex' = Drop(blockIndex, height)
  /\ hashToHeight' = Drop(hashToHeight, b)
  /\ UNCHANGED <<evicting, disk, overflowed>>

(* evict_to_target is called; its loop follows. *)
EvictToTarget ==
  /\ ~evicting
  /\ evicting' = TRUE
  /\ UNCHANGED <<cells, blockIndex, hashToHeight, numEntries, disk, overflowed>>

(* One turn of the loop: evict_oldest_block. *)
EvictOldestBlock ==
  /\ evicting
  /\ numEntries > TargetSize
  /\ \E oldest \in DOMAIN blockIndex :
       /\ IsOldest(oldest)
       /\ LET record == blockIndex[oldest]
          IN  /\ cells' = Erased(record.slots)
              /\ numEntries' = numEntries - Lost(record.slots)
              /\ hashToHeight' = Drop(hashToHeight, record.hash)
       /\ blockIndex' = Drop(blockIndex, oldest)
  /\ UNCHANGED <<evicting, disk, overflowed>>

EvictDone ==
  /\ evicting
  /\ numEntries <= TargetSize \/ DOMAIN blockIndex = {}
  /\ evicting' = FALSE
  /\ UNCHANGED <<cells, blockIndex, hashToHeight, numEntries, disk, overflowed>>

(* to_snapshot: buckets, block index and entry count; hashToHeight is not  *)
(* written.                                                                *)
SaveSnapshot ==
  /\ ~evicting
  /\ disk' = {[cells |-> cells, blockIndex |-> blockIndex,
               numEntries |-> numEntries, overflowed |-> overflowed]}
  /\ UNCHANGED <<cells, blockIndex, hashToHeight, numEntries, evicting, overflowed>>

(* from_snapshot rebuilds hashToHeight from the records in height order,   *)
(* so the highest record of a hash wins.                                   *)
\* (faulty variant: the map is left empty)
NoHashes(index) == EmptyMap
RebuiltHashes(index) ==
  [b \in {index[h].hash : h \in DOMAIN index} |->
     CHOOSE h \in DOMAIN index :
       /\ index[h].hash = b
       /\ \A g \in DOMAIN index : index[g].hash = b => g <= h]

(* The process died at any point and came back with a good snapshot. *)
RestoreSnapshot ==
  /\ \E snapshot \in disk :
       /\ cells' = snapshot.cells
       /\ blockIndex' = snapshot.blockIndex
       /\ hashToHeight' = RebuiltHashes(snapshot.blockIndex)
       /\ numEntries' = snapshot.numEntries
       /\ overflowed' = snapshot.overflowed
  /\ evicting' = FALSE
  /\ UNCHANGED disk

(* It came back without one, or with one that does not decode. *)
StartFresh ==
  /\ cells' = [c \in Cell |-> ZERO]
  /\ blockIndex' = EmptyMap
  /\ hashToHeight' = EmptyMap
  /\ numEntries' = 0
  /\ evicting' = FALSE
  /\ overflowed' = FALSE
  /\ UNCHANGED disk

Next ==
  \/ \E b \in Block : InsertBlock(b) \/ InsertOverflow(b) \/ RollbackBlock(b)
  \/ EvictToTarget \/ EvictOldestBlock \/ EvictDone
  \/ SaveSnapshot \/ RestoreSnapshot \/ StartFresh

Spec == Init /\ [][Next]_vars

-----------------------------------------------------------------------------
(* Lookups *)

(* contains: scan the one bucket the nullifier hashes to.  The PIR client  *)
(* scans the same bucket, which is its row of to_pir_bytes.                *)
Contains(nf) ==
  \E s \in 0..(BucketCapacity - 1) : cells[<<BucketOf[nf], s>>].nullifier = nf

-----------------------------------------------------------------------------
(* Properties *)

(* Every variable holds a value of its type (hashtable-pir/src/lib.rs). *)
TypeOK ==
  /\ cells \in [Cell -> Entry]
  /\ DOMAIN blockIndex \subseteq Nat
  /\ blockIndex \in [DOMAIN blockIndex -> BlockRecord]
  /\ DOMAIN hashToHeight \subseteq Block
  /\ hashToHeight \in [DOMAIN hashToHeight -> Nat]
  /\ numEntries \in Nat
  /\ evicting \in BOOLEAN
  /\ overflowed \in BOOLEAN

(* num_entries, which is only ever incremented and decremented, is the     *)
(* number of occupied slots, through overflow, rollback, eviction and      *)
(* restart; so `self.num_entries -= record.slots.len()' never underflows.  *)
EntriesCounted == numEntries = Cardinality(Occupied(cells))

(* The slots a block record lists are occupied, belong to no other record, *)
(* and hold exactly that block's nullifiers, each in its own bucket and    *)
(* stamped with that block's height: zeroing them removes the block and    *)
(* nothing but the block.                                                  *)
RecordOwnsItsSlots(index, content) ==
  \A h \in DOMAIN index :
    LET record == index[h]
    IN  /\ HeightOf[record.hash] = h
        /\ \A c \in record.slots :
             /\ ~IsEmpty(content[c])
             /\ content[c].spendHeight = h
             /\ c[1] = BucketOf[content[c].nullifier]
        /\ {content[c].nullifier : c \in record.slots}
             = {NullifiersOf[record.hash][i] : i \in DOMAIN NullifiersOf[record.hash]}
        /\ \A g \in DOMAIN index \ {h} : index[g].slots \cap record.slots = {}
SlotsOwned == RecordOwnsItsSlots(blockIndex, cells)

(* The hash map is exactly the inverse of the block index, also after it   *)
(* was rebuilt from a snapshot: rollback_block finds the block it is asked *)
(* for and never removes another one.                                      *)
HashIndexExact ==
  /\ DOMAIN hashToHeight = {blockIndex[h].hash : h \in DOMAIN blockIndex}
  /\ \A h \in DOMAIN blockIndex : hashToHeight[blockIndex[h].hash] = h

(* Slots that no block accounts for, which nothing will ever free, exist   *)
(* only after an insertion was refused for a full bucket.                  *)
NoLeakWithoutOverflow == ~overflowed => Untracked(cells, blockIndex) = {}

(* The table implements the window of whole blocks: the map from this      *)
(* state to that of NullifierWindow.                                       *)
StrayIn(content, index) == {content[c].nullifier : c \in Untracked(content, index)}
BlocksIn(index) == {index[h].hash : h \in DOMAIN index}
Window == INSTANCE NullifierWindow WITH
  window <- BlocksIn(blockIndex),
  stray <- StrayIn(cells, blockIndex),
  disk <- {[window |-> BlocksIn(s.blockIndex),
            stray |-> StrayIn(s.cells, s.blockIndex)] : s \in disk}

(* Every step of the table is a step of the block window, or changes       *)
(* nothing it can see.                                                     *)
ImplementsWindow == Window!Spec

(* Scanning the nullifier's one bucket answers what the window of blocks   *)
(* answers: no spent nullifier hides in another bucket, none is reported   *)
(* that no inserted block held.                                            *)
LookupExact == \A nf \in Nullifier : Contains(nf) <=> Window!Contains(nf)
=============================================================================
