--------------------------- MODULE CommitmentTreeDb ---------------------------
(***************************************************************************)
(* The windowed note commitment tree of commitment-tree-db: the leaves in  *)
(* append order, the record of how many each block contributed, the cache  *)
(* of sub-shard roots, and the view (PIR rows and broadcast) built from    *)
(* them.  Every operation takes &mut self, so one call is one step.        *)
(*                                                                         *)
(* A Merkle root stands for the leaves below it: the root of a sub-shard   *)
(* is the tuple of its leaves and the root of a shard the function from    *)
(* sub-shard to root, so two subtrees have one root only if they agree.    *)
(* Slots, shards and sub-shards are numbered from 0 as in the code,        *)
(* leaves[1] is the code's leaves[0].                                      *)
(***************************************************************************)
EXTENDS Integers, Sequences, FiniteSets

CONSTANTS
  Block,               \* block hashes; a hash determines height and leaves
  HeightOf,            \* HeightOf[b]: the height of block b
  CommitmentsOf,       \* CommitmentsOf[b]: the commitments of b in the window
  Leaf,                \* the note commitments
  EmptyLeaf,           \* empty_roots[0]
  ZeroRow,             \* a row of zero bytes
  SubshardLeaves,      \* SUBSHARD_LEAVES
  SubshardsPerShard,   \* SUBSHARDS_PER_SHARD
  MaxShards,           \* L0_MAX_SHARDS
  WindowStartShard,    \* window_start_shard: 0 after new()
  PrefetchedRoots,     \* roots of the shards before the window
  EmptyShardRoot       \* empty_roots[SHARD_HEIGHT]

ASSUME TreeAssumption ==
  /\ HeightOf \in [Block -> Nat]
  /\ CommitmentsOf \in [Block -> Seq(Leaf)]
  /\ EmptyLeaf \notin Leaf
  /\ SubshardLeaves \in Nat \ {0}
  /\ SubshardsPerShard \in Nat \ {0}
  /\ MaxShards \in Nat \ {0}
  /\ WindowStartShard \in Nat

VARIABLES
  leaves,   \* the leaves of the window
  blocks,   \* the block records, oldest first
  cache,    \* ss_root_cache: slot -> {root}, or {} if dirty
  pir,      \* {the view last published}, {} before the first
  disk      \* {the last snapshot written}, {} before the first

vars == <<leaves, blocks, cache, pir, disk>>

-----------------------------------------------------------------------------
(* Geometry *)

ShardLeaves == SubshardLeaves * SubshardsPerShard
Slot == 0..(MaxShards * SubshardsPerShard - 1)      \* L0_DB_ROWS rows
Root == [1..SubshardLeaves -> Leaf \cup {EmptyLeaf}]
BlockRecord == [height : Nat, hash : Block, num : Nat]
Clean(roots) == {{r} : r \in roots} \cup {{}}

EmptySubshardRoot == [i \in 1..SubshardLeaves |-> EmptyLeaf]

(* Shards with a leaf in the window. *)
LocalShardCount ==
  IF leaves = <<>> THEN 0 ELSE (Len(leaves) - 1) \div ShardLeaves + 1
\* (faulty variant: a full frontier shard opens the next one)
PopulatedShardsRounded == WindowStartShard + Len(leaves) \div ShardLeaves + 1
PopulatedShards == WindowStartShard + LocalShardCount
WindowShardCount == IF LocalShardCount < MaxShards THEN LocalShardCount ELSE MaxShards
WindowSlot == 0..(WindowShardCount * SubshardsPerShard - 1)

(* Positions past the frontier hold the empty leaf, not zero bytes. *)
\* (faulty variant: zero bytes)
LeafOrZero(p) == IF p <= Len(leaves) THEN leaves[p] ELSE ZeroRow
LeafAt(p) == IF p <= Len(leaves) THEN leaves[p] ELSE EmptyLeaf

(* subshard_leaves; and, by the convention on roots, their root. *)
LeavesOfSlot(s) == [i \in 1..SubshardLeaves |-> LeafAt(s * SubshardLeaves + i)]
BeyondFrontier(s) == s * SubshardLeaves >= Len(leaves)

-----------------------------------------------------------------------------
(* Cache invalidation *)

(* The slots append_commitments clears when the leaves grow to n. *)
\* (faulty variant: the partly filled sub-shard is taken for finished)
SlotsOpened(n) ==
  {s \in Slot : /\ (Len(leaves) + SubshardLeaves - 1) \div SubshardLeaves <= s
                /\ s <= (n - 1) \div SubshardLeaves}
SlotsTouched(n) ==
  {s \in Slot : /\ Len(leaves) \div SubshardLeaves <= s
                /\ s <= (n - 1) \div SubshardLeaves}

(* The slots rollback_to clears when n leaves remain. *)
\* (faulty variant: the sub-shard cut in two is kept)
SlotsDropped(n) == {s \in Slot : n = 0 \/ (n - 1) \div SubshardLeaves < s}
SlotsFromFrontier(n) == {s \in Slot : n = 0 \/ (n - 1) \div SubshardLeaves <= s}

Cleared(slots) == [s \in Slot |-> IF s \in slots THEN {} ELSE cache[s]]

(* The commitments recorded for blocks from..to of a list of records. *)
Recorded(records, from, to) ==
  Cardinality(UNION {{i} \X (1..records[i].num) : i \in from..to})

(* to_remove when only the first k records stay. *)
\* (faulty variant: one leaf per block)
RemovedPerBlock(k) == Len(blocks) - k
ToRemove(k) == Recorded(blocks, k + 1, Len(blocks))

-----------------------------------------------------------------------------
(* new() or with_offset(): no leaves. *)
Init ==
  /\ leaves = <<>>
  /\ blocks = <<>>
  /\ cache = [s \in Slot |-> {}]
  /\ pir = {}
  /\ disk = {}

(* append_commitments.  The callers append in order of height, and roll    *)
(* back before they append a block of another branch.                      *)
AppendCommitments(b) ==
  LET cmx == CommitmentsOf[b]
  IN  /\ \A i \in DOMAIN blocks : blocks[i].height < HeightOf[b]
      /\ leaves' = leaves \o cmx
      /\ cache' = IF cmx = <<>> THEN cache
                  ELSE Cleared(SlotsTouched(Len(leaves) + Len(cmx)))
      /\ blocks' = Append(blocks,
                     [height |-> HeightOf[b], hash |-> b, num |-> Len(cmx)])
      /\ UNCHANGED <<pir, disk>>

(* rollback_to pops records from the end while they are above the target,  *)
(* cuts the leaves they recorded (saturating), and forgets the roots from  *)
(* the new frontier on.                                                    *)
RollbackTo(target) ==
  \E k \in 0..Len(blocks) :
    /\ k > 0 => blocks[k].height <= target
    /\ \A i \in (k + 1)..Len(blocks) : blocks[i].height > target
    /\ LET n == IF ToRemove(k) <= Len(leaves) THEN Len(leaves) - ToRemove(k) ELSE 0
       IN  /\ leaves' = SubSeq(leaves, 1, n)
           /\ cache' = Cleared(SlotsFromFrontier(n))
    /\ blocks' = SubSeq(blocks, 1, k)
    /\ UNCHANGED <<pir, disk>>

-----------------------------------------------------------------------------
(* build_pir_db_and_broadcast *)

(* The root broadcast for a slot: empty past the frontier, else the cached *)
(* root, else computed from the leaves.                                    *)
RootOfSlot(s) ==
  IF BeyondFrontier(s) THEN EmptySubshardRoot
  ELSE IF cache[s] # {} THEN CHOOSE r \in cache[s] : TRUE
  ELSE LeavesOfSlot(s)

ShardRoot(i) ==
  [ss \in 0..(SubshardsPerShard - 1) |-> RootOfSlot(i * SubshardsPerShard + ss)]

CapRoot(i) ==
  IF i >= WindowStartShard THEN ShardRoot(i - WindowStartShard)
  ELSE IF i < Len(PrefetchedRoots) THEN PrefetchedRoots[i + 1]
  ELSE EmptyShardRoot

View ==
  [rows |-> [s \in Slot |-> IF s \in WindowSlot THEN LeavesOfSlot(s) ELSE ZeroRow],
   roots |-> [s \in WindowSlot |-> RootOfSlot(s)],
   cap |-> [i \in 1..(WindowStartShard + WindowShardCount) |-> CapRoot(i - 1)],
   populated |-> PopulatedShards]

BuildAndPublish ==
  /\ pir' = {View}
  /\ cache' = [s \in Slot |->
                 IF s \in WindowSlot /\ ~BeyondFrontier(s) THEN {RootOfSlot(s)}
                 ELSE cache[s]]
  /\ UNCHANGED <<leaves, blocks, disk>>

-----------------------------------------------------------------------------
(* Snapshots.  A v2 snapshot is a v3 one without cached roots. *)

ToSnapshot ==
  /\ disk' = {[leaves |-> leaves, blocks |-> blocks, cache |-> cache]}
  /\ UNCHANGED <<leaves, blocks, cache, pir>>

(* A snapshot whose records do not add up is refused. *)
FromSnapshot ==
  /\ \E snapshot \in disk :
       /\ Recorded(snapshot.blocks, 1, Len(snapshot.blocks)) = Len(snapshot.leaves)
       /\ leaves' = snapshot.leaves
       /\ blocks' = snapshot.blocks
       /\ cache' = snapshot.cache
  /\ pir' = {}
  /\ UNCHANGED disk

(* The process starts without a usable snapshot. *)
StartFresh ==
  /\ leaves' = <<>>
  /\ blocks' = <<>>
  /\ cache' = [s \in Slot |-> {}]
  /\ pir' = {}
  /\ UNCHANGED disk

(* Targets on either side of every block. *)
RollbackTarget == UNION {{HeightOf[b] - 1, HeightOf[b]} : b \in Block}

Next ==
  \/ \E b \in Block : AppendCommitments(b)
  \/ \E target \in RollbackTarget : RollbackTo(target)
  \/ BuildAndPublish
  \/ ToSnapshot
  \/ FromSnapshot
  \/ StartFresh

Spec == Init /\ [][Next]_vars

-----------------------------------------------------------------------------
(* Properties *)

(* Types.  The tuple of a row holds leaves and empty leaves, never the     *)
(* zero bytes of a padding row (subshard_leaves).                          *)
TypeOK ==
  /\ leaves \in Seq(Leaf)
  /\ blocks \in Seq(BlockRecord)
  /\ cache \in [Slot -> Clean(Root)]
  /\ \A v \in pir : \A s \in Slot : v.rows[s] \in Root \cup {ZeroRow}
  /\ \A d \in disk : /\ d.leaves \in Seq(Leaf)
                     /\ d.blocks \in Seq(BlockRecord)
                     /\ d.cache \in [Slot -> Clean(Root)]

(* A root in the cache is the root of the leaves that are there now, and   *)
(* a sub-shard past the frontier has none: appends that continue a partly  *)
(* filled sub-shard, rollbacks into one, and roots that come back from a   *)
(* snapshot never leave a stale root (ss_root_cache).                      *)
CacheSound ==
  \A s \in Slot : cache[s] # {} => cache[s] = {LeavesOfSlot(s)} /\ ~BeyondFrontier(s)

(* The leaves are the commitments of the recorded blocks, each block's in  *)
(* its place; so a rollback cuts exactly the leaves of the blocks it pops  *)
(* and saturating_sub never saturates (append_commitments, rollback_to).   *)
(* It holds of every snapshot too, so from_snapshot refuses none.          *)
LeavesAre(list, records) ==
  /\ Len(list) = Recorded(records, 1, Len(records))
  /\ \A i \in DOMAIN records :
       LET cmx == CommitmentsOf[records[i].hash]
       IN  /\ records[i].num = Len(cmx)
           /\ \A j \in DOMAIN cmx : list[Recorded(records, 1, i - 1) + j] = cmx[j]

LeavesAreTheBlocks ==
  /\ LeavesAre(leaves, blocks)
  /\ \A d \in disk : LeavesAre(d.leaves, d.blocks)

(* A row fetched by PIR hashes to the sub-shard root broadcast with it,    *)
(* although the row is copied from the leaves and the root may come from   *)
(* the cache (build_pir_db_and_broadcast).  The witness client combines    *)
(* the two and never compares them.                                        *)
RowsVerify == \A v \in pir : \A s \in DOMAIN v.roots : v.roots[s] = v.rows[s]

(* As long as the window has room for the local shards, the cap has one    *)
(* root per populated shard and the root of a window shard is the root of  *)
(* the rows served for it: the client's path ends in the tree's root.      *)
CapIsTheTree ==
  \A v \in pir :
    v.populated <= WindowStartShard + MaxShards =>
      /\ Len(v.cap) = v.populated
      /\ \A i \in (WindowStartShard + 1)..v.populated :
           v.cap[i] = [ss \in 0..(SubshardsPerShard - 1) |->
                         v.rows[(i - 1 - WindowStartShard) * SubshardsPerShard + ss]]

(* What the comment on CapData says: "The vec length equals the number of  *)
(* populated shards (completed + frontier)."                               *)
CapHoldsEveryShard == \A v \in pir : Len(v.cap) = v.populated
=============================================================================
