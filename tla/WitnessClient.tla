---------------------------- MODULE WitnessClient ----------------------------
(***************************************************************************)
(* The wallet side of the witness system: witness-client, which keeps the  *)
(* broadcast of one publication, fetches single rows of whatever database  *)
(* is live when it asks, and joins the two into the authentication path of *)
(* a leaf (reconstruct_witness).                                           *)
(*                                                                         *)
(* The server publishes in one step (CommitmentTreeDb, pir), but the       *)
(* broadcast and the row are two requests, and between them the server may *)
(* append, roll back, publish again or restart.                            *)
(*                                                                         *)
(* Hashes are free terms: <<level, left, right>> for hash_combine.  The    *)
(* roots of CommitmentTreeDb, which are tuples of what lies below them,    *)
(* are turned into such terms where they leave the server.                 *)
(***************************************************************************)
EXTENDS CommitmentTreeDb

CONSTANTS
  SubshardHeight,   \* SUBSHARD_HEIGHT
  ZeroLeaf          \* [0u8; 32], the leaf of a padding row

ASSUME GeometryAssumption ==
  /\ SubshardHeight \in Nat
  /\ SubshardLeaves = 2^SubshardHeight
  /\ SubshardsPerShard = 2^SubshardHeight
  /\ WindowStartShard + MaxShards <= 2^(2 * SubshardHeight)
  /\ ZeroLeaf \notin Leaf \cup {EmptyLeaf}
  /\ ZeroRow \notin Root

ShardHeight == 2 * SubshardHeight          \* SHARD_HEIGHT
TreeDepth == 2 * ShardHeight               \* TREE_DEPTH
CapSlots == 2^ShardHeight                  \* total_cap_slots

VARIABLE broadcast   \* {the view whose broadcast the client holds}, {} before connect

clientVars == <<vars, broadcast>>

-----------------------------------------------------------------------------
(* Hashing *)

HashCombine(level, left, right) == <<level, left, right>>

EmptyRoot[level \in 0..TreeDepth] ==
  IF level = 0 THEN EmptyLeaf
  ELSE HashCombine(level - 1, EmptyRoot[level - 1], EmptyRoot[level - 1])

(* One level up: chunks(2) of the nodes at a level, and their hashes. *)
Parents(nodes, level) ==
  [i \in 1..((Len(nodes) + 1) \div 2) |->
     HashCombine(level, nodes[2 * i - 1],
                 IF 2 * i <= Len(nodes) THEN nodes[2 * i] ELSE EmptyRoot[level])]

(* The nodes k levels above those given at a base level. *)
Ancestors(nodes, base, k) ==
  LET up[n \in 0..k] == IF n = 0 THEN nodes ELSE Parents(up[n - 1], base + n - 1)
  IN  up[k]

RootAbove(nodes, base, k) == Ancestors(nodes, base, k)[1]

-----------------------------------------------------------------------------
(* What a view looks like on the wire *)

RowLeaves(row) == IF row = ZeroRow THEN [i \in 1..SubshardLeaves |-> ZeroLeaf] ELSE row

WireSubshardRoot(root) == RootAbove(root, 0, SubshardHeight)

WireShardRoot(root) ==
  RootAbove([i \in 1..SubshardsPerShard |-> WireSubshardRoot(root[i - 1])],
            SubshardHeight, SubshardHeight)

(* cap.shard_roots; the roots before the window are opaque. *)
WireCap(view) ==
  [i \in DOMAIN view.cap |->
     CASE i > WindowStartShard -> WireShardRoot(view.cap[i])
       [] i <= WindowStartShard /\ view.cap[i] = EmptyShardRoot -> EmptyRoot[ShardHeight]
       [] OTHER -> view.cap[i]]

WindowCount(view) == Len(view.cap) - WindowStartShard    \* window_shard_count

(* subshard_roots[offset].roots *)
WireSubshardRoots(view, offset) ==
  [i \in 1..SubshardsPerShard |->
     WireSubshardRoot(view.roots[offset * SubshardsPerShard + i - 1])]

-----------------------------------------------------------------------------
(* Where a position lies *)

ShardIndex(p) == p \div ShardLeaves
SubshardIndex(p) == (p \div SubshardLeaves) % SubshardsPerShard
LeafIndex(p) == p % SubshardLeaves

PhysicalRowIndex(p) ==
  (ShardIndex(p) - WindowStartShard) * SubshardsPerShard + SubshardIndex(p)

(* get_witness refuses every other position (PositionOutsideWindow). *)
\* (faulty variant: one shard too many)
InWindowInclusive(view, p) ==
  /\ ShardIndex(p) >= WindowStartShard
  /\ ShardIndex(p) <= WindowStartShard + WindowCount(view)
InWindow(view, p) ==
  /\ ShardIndex(p) >= WindowStartShard
  /\ ShardIndex(p) < WindowStartShard + WindowCount(view)

-----------------------------------------------------------------------------
(* reconstruct_witness *)

(* idx ^ 1, of an index counted from 0 *)
Sibling(i) == IF i % 2 = 0 THEN i + 1 ELSE i - 1

(* extract_siblings: the siblings on the path from an index k levels up. *)
\* (faulty variant: the index is not halved on the way up)
SiblingsOfOneIndex(nodes, index, base, k) ==
  [n \in 1..k |->
     LET level == Ancestors(nodes, base, n - 1)
         s == Sibling(index) + 1
     IN  IF s <= Len(level) THEN level[s] ELSE EmptyRoot[base + n - 1]]
ExtractSiblings(nodes, index, base, k) ==
  [n \in 1..k |->
     LET level == Ancestors(nodes, base, n - 1)
         s == Sibling(index \div 2^(n - 1)) + 1
     IN  IF s <= Len(level) THEN level[s] ELSE EmptyRoot[base + n - 1]]

(* The cap, resized to all its slots with the empty shard root. *)
PaddedCap(view) ==
  [i \in 1..CapSlots |->
     IF i <= Len(view.cap) THEN WireCap(view)[i] ELSE EmptyRoot[ShardHeight]]

(* The three tiers: inside the sub-shard, inside the shard, the cap. *)
Siblings(view, row, p) ==
  ExtractSiblings(row, LeafIndex(p), 0, SubshardHeight)
    \o ExtractSiblings(WireSubshardRoots(view, ShardIndex(p) - WindowStartShard),
                       SubshardIndex(p), SubshardHeight, SubshardHeight)
    \o ExtractSiblings(PaddedCap(view), ShardIndex(p), ShardHeight, ShardHeight)

ComputeRootFromPath(p, leaf, siblings) ==
  LET node[n \in 0..TreeDepth] ==
        IF n = 0 THEN leaf
        ELSE IF (p \div 2^(n - 1)) % 2 = 0
             THEN HashCombine(n - 1, node[n - 1], siblings[n])
             ELSE HashCombine(n - 1, siblings[n], node[n - 1])
  IN  node[TreeDepth]

(* PirWitness.  The anchor root is computed from the path and compared     *)
(* with nothing.                                                           *)
ReconstructWitness(view, row, p) ==
  LET leaf == row[LeafIndex(p) + 1]
      siblings == Siblings(view, row, p)
  IN  [position |-> p, leaf |-> leaf, siblings |-> siblings,
       anchorRoot |-> ComputeRootFromPath(p, leaf, siblings)]

(* What get_witness returns with the held broadcast and the live database; *)
(* without a database the server answers 503 and there is no witness.      *)
GetWitness(view, server, p) ==
  ReconstructWitness(view, RowLeaves(server.rows[PhysicalRowIndex(p)]), p)

-----------------------------------------------------------------------------
ClientInit == Init /\ broadcast = {}

ServerStep == Next /\ UNCHANGED broadcast

(* Both get 503 unless a database is live. *)
Connect ==
  /\ broadcast = {}
  /\ pir # {}
  /\ broadcast' = pir
  /\ UNCHANGED vars

RefreshBroadcast ==
  /\ broadcast # {}
  /\ pir # {}
  /\ broadcast' = pir
  /\ UNCHANGED vars

ClientNext == ServerStep \/ Connect \/ RefreshBroadcast

ClientSpec == ClientInit /\ [][ClientNext]_clientVars

-----------------------------------------------------------------------------
(* Properties *)

Position == 0..(2^TreeDepth - 1)

(* The tree of a view, with no tiers and no path: the node at a level and  *)
(* an index is the hash of its two children, down to the leaves; a shard   *)
(* before the window is opaque, everything after the last leaf is empty.   *)
LeafOf(view, p) ==
  IF InWindow(view, p)
  THEN RowLeaves(view.rows[PhysicalRowIndex(p)])[LeafIndex(p) + 1]
  ELSE EmptyLeaf

TreeRoot(view) ==
  LET nodes[level \in 0..TreeDepth] ==
        [i \in 1..2^(TreeDepth - level) |->
           CASE level = ShardHeight /\ i <= WindowStartShard -> WireCap(view)[i]
             [] level = 0 -> LeafOf(view, i - 1)
             [] OTHER -> HashCombine(level - 1, nodes[level - 1][2 * i - 1],
                                     nodes[level - 1][2 * i])]
  IN  nodes[TreeDepth][1]

(* For a broadcast of any age and a row of whatever database is live now,  *)
(* the path get_witness builds ends in the root of the tree that was       *)
(* broadcast if the row is still the one published with that broadcast,    *)
(* and in another root if it is not: the anchor root tells a sound witness *)
(* from a mixed one, for every position the client accepts                 *)
(* (get_witness, reconstruct_witness).                                     *)
AnchorRootTellsMixedViews ==
  \A b \in broadcast, v \in pir :
    LET root == TreeRoot(b)
    IN  \A p \in {q \in Position : InWindow(b, q)} :
          LET s == PhysicalRowIndex(p)
          IN  GetWitness(b, v, p).anchorRoot = root <=> v.rows[s] = b.rows[s]

(* A position the client accepts under any broadcast it may hold indexes   *)
(* the database and the broadcast in bounds, and the position of every     *)
(* leaf there was when the broadcast was fetched is accepted, as long as   *)
(* the leaves fit the window (physical_row_index, get_witness).            *)
AcceptedPositionsAreServed ==
  \A b \in broadcast : \A p \in Position :
    /\ InWindow(b, p) => PhysicalRowIndex(p) \in DOMAIN b.roots \cap Slot
    /\ (b.populated <= WindowStartShard + MaxShards /\ ShardIndex(p) >= WindowStartShard
          /\ ~InWindow(b, p))
         => ShardIndex(p) >= b.populated

(* What the comments on get_witness and reconstruct_witness say: "Self-    *)
(* verifies the witness before returning", by "checking it against the     *)
(* broadcast anchor root (derived from cap shard roots)".                  *)
BroadcastRoot(view) == RootAbove(PaddedCap(view), ShardHeight, ShardHeight)
WitnessIsSelfVerified ==
  \A b \in broadcast, v \in pir : \A p \in Position :
    InWindow(b, p) => GetWitness(b, v, p).anchorRoot = BroadcastRoot(b)
=============================================================================
